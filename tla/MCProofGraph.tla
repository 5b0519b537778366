---------------------------- MODULE MCProofGraph ----------------------------
(* A bounded instance of ProofGraph: two steps, a requirement q1 and a       *)
(* criterion g1 to cover, and up to four fixture assertions on extra         *)
(* references x1..x4.                                                        *)
EXTENDS ProofGraph

CONSTANTS s1, s2, a1, a2, a3, a4, g1, q1, x1, x2, x3, x4

Expect(kind, step, refs) == [kind |-> kind, step |-> step, refs |-> refs]

Held == Expect("additive", s1, {})

MCFixtures ==
    \* one miss each: four of them exceed the limit of three refinements
    {[a \in {a1, a2, a3, a4} |->
        CASE a = a1 -> Expect("additive", s2, {x1})
          [] a = a2 -> Expect("additive", s2, {x2})
          [] a = a3 -> Expect("additive", s1, {x3})
          [] a = a4 -> e] : e \in {Held, Expect("additive", s1, {x4})}}
    \* several references in one assertion, the same reference twice, an array
    \* under contains, an assertion that maps to no refinement
    \union {[a \in {a1, a2, a3, a4} |->
        CASE a = a1 -> Expect("additive", s2, {x1, x2})
          [] a = a2 -> e
          [] OTHER -> Held] :
        e \in {Expect("additive", s2, {x1}), Expect("list", s1, {x3}), Expect("other", s1, {})}}

MCPlans == {[s \in {s1, s2} |-> IF s = s1 THEN p ELSE q] :
              p \in {{}, {g1}, {g1, x3}}, q \in {{}, {q1}, {q1, g1, x1}}}
=============================================================================
