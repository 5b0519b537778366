----------------------- MODULE ChildProcesses_proofs -----------------------
(***************************************************************************)
(* Proofs about the child processes of the system: the bridges to Python   *)
(* workers, the executions of the sandbox and the launches of the system   *)
(* itself, for any number of calls, children, executions, steps, launches, *)
(* faults and versions of the source.                                      *)
(***************************************************************************)
EXTENDS SandboxExecution, WorkerBridge, Launch, SequenceTheorems, TLAPS

-----------------------------------------------------------------------------
(* The bridges to Python workers. *)

CallStates == {"idle", "pending", "answered", "failed", "rejected", "timedout"}
CallRecords == [at : CallStates, id : Nat, kid : Nat, got : Calls \cup {"none"}]
Questions == [id : Nat, of : Calls]
Lines == [whole : {FALSE}] \cup [whole : {TRUE}, id : Nat, of : Calls, ok : BOOLEAN]
KidRecords == [state : {"running", "failed", "dead"}, killed : BOOLEAN, hung : BOOLEAN,
               exited : BOOLEAN, input : Seq(Questions), output : Seq(Lines)]

\* Types of the state, and the user of a bridge.
BridgeTypes ==
    /\ current \in 0..Len(kids) /\ nextId \in Nat \ {0} /\ half \in BOOLEAN /\ down \in BOOLEAN
    /\ deaths \in Nat
    /\ calls \in [Calls -> CallRecords] /\ kids \in Seq(KidRecords)
    /\ \A c \in Calls : calls[c].at # "idle" =>
           calls[c].id \in 1..(nextId - 1) /\ calls[c].kid \in 1..Len(kids)
UseInv ==
    /\ \/ kind = "native" /\ use \in [mode : {"queue", "test", "pipeline"},
                                      at : {"bound", "probing", "researching", "closed"}]
       \/ kind = "validation" /\ use \in [mode : {"shared"}, at : {"open", "closed"}]
    /\ use.at = "bound" => \A c \in Calls : calls[c].at = "idle"
    /\ use.at = "probing" => \A c \in Calls \ {"health"} : calls[c].at = "idle"

\* What a child was asked or has answered carries the id of the call it is of, and no
\* two calls have one id.
OwnId(cs, q) == cs[q.of].at # "idle" /\ cs[q.of].id = q.id
KidOwn(cs, kd) ==
    /\ \A i \in 1..Len(kd.input) : OwnId(cs, kd.input[i])
    /\ \A i \in 1..Len(kd.output) : kd.output[i].whole => OwnId(cs, kd.output[i])
OwnInv ==
    /\ \A k \in 1..Len(kids) : KidOwn(calls, kids[k])
    /\ \A c, d \in Calls : calls[c].at # "idle" /\ calls[d].at # "idle" /\ calls[c].id = calls[d].id
           => c = d
    /\ AnswerIsOwn

\* Nothing is written any more: after a time-out the user only closes the bridge.
Sealed == use.at = "closed" \/ (kind = "native" /\ \E c \in Calls : calls[c].at = "timedout")

\* A child is killed only then, and this.child is given up with it; a child that died by
\* itself stays this.child until its exit is handled.
KidInv ==
    /\ \A k \in 1..Len(kids) :
           /\ kids[k].killed => current = 0 /\ Sealed
           /\ kids[k].state = "dead" /\ ~kids[k].exited /\ ~kids[k].killed => k = current
           /\ kids[k].state = "running" => k = current \/ kids[k].killed
    /\ RejectedIsOwn

BridgeInv == BridgeTypes /\ UseInv /\ OwnInv /\ KidInv

\* Promises are settled: only pending ones change, and keep their id and their child.
Settles(cs, ds) ==
    /\ ds \in [Calls -> CallRecords]
    /\ \A c \in Calls :
           /\ ds[c].id = cs[c].id /\ ds[c].kid = cs[c].kid
           /\ \/ ds[c] = cs[c]
              \/ cs[c].at = "pending" /\ ds[c].at \in {"answered", "failed", "rejected", "timedout"}

LEMMA RejectFacts ==
    ASSUME NEW cs \in [Calls -> CallRecords]
    PROVE  /\ Settles(cs, rejectAll(cs))
           /\ \A c \in Calls :
                  /\ \/ rejectAll(cs)[c] = cs[c] /\ cs[c].at # "pending"
                     \/ rejectAll(cs)[c].at = "rejected" /\ cs[c].at = "pending"
                  /\ rejectAll(cs)[c].got = cs[c].got
  <1> DEFINE ds == rejectAll(cs)
  <1>1. ASSUME NEW c \in Calls
        PROVE  /\ ds[c] \in CallRecords /\ ds[c].id = cs[c].id /\ ds[c].kid = cs[c].kid
               /\ ds[c].got = cs[c].got
               /\ \/ ds[c] = cs[c] /\ cs[c].at # "pending"
                  \/ ds[c].at = "rejected" /\ cs[c].at = "pending"
    <2>1. ds[c] = IF cs[c].at = "pending" THEN [cs[c] EXCEPT !.at = "rejected"] ELSE cs[c]
      BY DEF rejectAll
    <2>2. cs[c] \in CallRecords
      OBVIOUS
    <2> HIDE DEF ds
    <2> QED
      BY <2>1, <2>2 DEF CallRecords, CallStates
  <1>2. ds = [c \in Calls |-> ds[c]]
    BY DEF rejectAll
  <1> HIDE DEF ds
  <1>3. ds \in [Calls -> CallRecords]
    BY <1>1, <1>2
  <1>4. Settles(cs, ds)
    BY <1>1, <1>3 DEF Settles
  <1>5. \A c \in Calls : /\ ds[c].got = cs[c].got
                         /\ \/ ds[c] = cs[c] /\ cs[c].at # "pending"
                            \/ ds[c].at = "rejected" /\ cs[c].at = "pending"
    BY <1>1
  <1> QED
    BY <1>4, <1>5 DEF ds

\* Settling a promise disturbs none of the ids.
LEMMA OwnIdKept ==
    ASSUME NEW cs, NEW ds, Settles(cs, ds), NEW kd \in KidRecords, KidOwn(cs, kd)
    PROVE  KidOwn(ds, kd)
  <1>1. \A q \in Questions \cup Lines : (q \in Questions \/ q.whole) /\ OwnId(cs, q) => OwnId(ds, q)
    <2> SUFFICES ASSUME NEW q \in Questions \cup Lines, q \in Questions \/ q.whole, OwnId(cs, q)
                 PROVE  OwnId(ds, q)
      OBVIOUS
    <2>1. q.of \in Calls
      BY DEF Questions, Lines
    <2> QED
      BY <2>1 DEF OwnId, Settles
  <1>2. kd.input \in Seq(Questions) /\ kd.output \in Seq(Lines)
    BY DEF KidRecords
  <1>3. /\ \A i \in 1..Len(kd.input) : kd.input[i] \in Questions
        /\ \A i \in 1..Len(kd.output) : kd.output[i] \in Lines
    BY <1>2
  <1> QED
    BY <1>1, <1>3 DEF KidOwn

LEMMA KidReplaced ==
    ASSUME kids \in Seq(KidRecords), NEW k \in 1..Len(kids), NEW kd \in KidRecords,
           kids' = [kids EXCEPT ![k] = kd]
    PROVE  /\ kids' \in Seq(KidRecords) /\ Len(kids') = Len(kids) /\ kids'[k] = kd
           /\ \A j \in 1..Len(kids) : j # k => kids'[j] = kids[j]
  OBVIOUS

\* A step in which a child goes on, or Node reads a line of it.
LEMMA KidStepKeeps ==
    ASSUME BridgeInv, NEW k \in 1..Len(kids), NEW kd \in KidRecords,
           kids' = [kids EXCEPT ![k] = kd],
           KidOwn(calls, kd), kd.killed = kids[k].killed, kd.exited = kids[k].exited,
           kd.state = kids[k].state \/ (kids[k].state = "running" /\ kd.state = "dead"),
           Settles(calls, calls'),
           \A c \in Calls : calls'[c] = calls[c]
                            \/ (calls'[c].at \in {"answered", "failed"} /\ calls'[c].got = c),
           UNCHANGED <<kind, use, current, nextId>>,
           half' \in BOOLEAN, down' \in BOOLEAN, deaths' \in Nat
    PROVE  BridgeInv'
  <1>1. kids \in Seq(KidRecords) /\ Len(kids) \in Nat
    BY DEF BridgeInv, BridgeTypes
  <1>2. /\ kids' \in Seq(KidRecords) /\ Len(kids') = Len(kids) /\ kids'[k] = kd
        /\ \A j \in 1..Len(kids) : j # k => kids'[j] = kids[j]
    BY <1>1, KidReplaced
  <1>3. \A c \in Calls : (calls'[c].at = "idle" <=> calls[c].at = "idle")
    BY DEF Settles
  <1>4. BridgeTypes'
    BY <1>2, <1>3 DEF BridgeInv, BridgeTypes, Settles
  <1>5. UseInv'
    BY <1>3 DEF BridgeInv, UseInv
  <1>6. OwnInv'
    <2>1. ASSUME NEW j \in 1..Len(kids') PROVE KidOwn(calls', kids'[j])
      <3>1. kids'[j] \in KidRecords /\ KidOwn(calls, kids'[j])
        BY <1>1, <1>2 DEF BridgeInv, OwnInv
      <3> QED
        BY <3>1, OwnIdKept
    <2>2. \A c, d \in Calls : calls'[c].at # "idle" /\ calls'[d].at # "idle"
                              /\ calls'[c].id = calls'[d].id => c = d
      BY <1>3 DEF BridgeInv, OwnInv, Settles
    <2>3. AnswerIsOwn'
      BY DEF BridgeInv, OwnInv, AnswerIsOwn
    <2> QED
      BY <2>1, <2>2, <2>3 DEF OwnInv
  <1>7. KidInv'
    <2>1. Sealed => Sealed'
      BY DEF Sealed, Settles
    <2>2. ASSUME NEW j \in 1..Len(kids)
          PROVE  /\ kids'[j].killed => current' = 0 /\ Sealed'
                 /\ kids'[j].state = "dead" /\ ~kids'[j].exited /\ ~kids'[j].killed => j = current'
                 /\ kids'[j].state = "running" => j = current' \/ kids'[j].killed
      <3>1. /\ kids[j].killed => current = 0 /\ Sealed
            /\ kids[j].state = "dead" /\ ~kids[j].exited /\ ~kids[j].killed => j = current
            /\ kids[j].state = "running" => j = current \/ kids[j].killed
        BY DEF BridgeInv, KidInv
      <3>2. CASE j # k
        BY <1>2, <2>1, <3>1, <3>2
      <3>3. CASE j = k
        BY <1>2, <2>1, <3>1, <3>3
      <3> QED
        BY <3>2, <3>3
    <2>3. RejectedIsOwn'
      <3>1. SUFFICES ASSUME NEW c \in Calls, calls'[c].at = "rejected"
                     PROVE  kids'[calls'[c].kid].state # "running" \/ kids'[calls'[c].kid].killed
        BY DEF RejectedIsOwn
      <3>2. calls'[c] = calls[c] /\ calls[c].kid \in 1..Len(kids)
        BY <3>1 DEF BridgeInv, BridgeTypes
      <3>3. kids[calls[c].kid].state # "running" \/ kids[calls[c].kid].killed
        BY <3>1, <3>2 DEF BridgeInv, KidInv, RejectedIsOwn
      <3> QED
        BY <1>2, <3>2, <3>3
    <2> QED
      BY <1>2, <2>2, <2>3 DEF KidInv
  <1> QED
    BY <1>4, <1>5, <1>6, <1>7 DEF BridgeInv

LEMMA CallsSame ==
    ASSUME BridgeInv, calls' = calls
    PROVE  Settles(calls, calls')
  BY DEF Settles, BridgeInv, BridgeTypes

LEMMA ServeKeeps ==
    ASSUME BridgeInv, NEW k \in DOMAIN kids, serve(k) \/ main(k)
    PROVE  BridgeInv'
  <1>1. /\ UNCHANGED <<kind, use, current, half, nextId, calls, down, deaths>>
        /\ Takes(k) /\ \E ok \in BOOLEAN : Answered(k, ok)
    BY DEF serve, main
  <1>2. PICK ok \in BOOLEAN : Answered(k, ok)
    BY <1>1
  <1>3. kids \in Seq(KidRecords) /\ k \in 1..Len(kids) /\ kids[k] \in KidRecords
    BY DEF BridgeInv, BridgeTypes
  <1> DEFINE q == Head(kids[k].input)
             line == [whole |-> TRUE, id |-> q.id, of |-> q.of, ok |-> ok]
             in == Tail(kids[k].input)
             out == Append(kids[k].output, line)
             kd == [kids[k] EXCEPT !.input = in, !.output = out]
  <1>4. kids[k].input \in Seq(Questions) /\ kids[k].input # <<>> /\ kids[k].output \in Seq(Lines)
    BY <1>1, <1>3 DEF Takes, KidRecords
  <1>5. q \in Questions /\ q = kids[k].input[1] /\ 1 \in 1..Len(kids[k].input)
    BY <1>4
  <1>6. line \in Lines /\ line.whole /\ line.id = q.id /\ line.of = q.of
    BY <1>5 DEF Questions, Lines
  <1>7. Tail(kids[k].input) \in Seq(Questions)
        /\ \A i \in 1..Len(Tail(kids[k].input)) : i + 1 \in 1..Len(kids[k].input)
               /\ Tail(kids[k].input)[i] = kids[k].input[i + 1]
    BY <1>4
  <1> HIDE DEF line, q
  <1>8a. out \in Seq(Lines)
    BY <1>4, <1>6
  <1> HIDE DEF in, out
  <1>8. /\ kd \in KidRecords /\ kd.killed = kids[k].killed /\ kd.exited = kids[k].exited
        /\ kd.state = kids[k].state /\ kd.input = in /\ kd.output = out
    BY <1>3, <1>7, <1>8a DEF KidRecords, in
  <1>9. kids' = [kids EXCEPT ![k] = kd]
    BY <1>2, <1>3 DEF Answered, line, q, in, out
  <1> HIDE DEF kd
  <1>10. KidOwn(calls, kd)
    <2>1. KidOwn(calls, kids[k])
      BY <1>3 DEF BridgeInv, OwnInv
    <2>2. OwnId(calls, line)
      BY <1>5, <1>6, <2>1 DEF KidOwn, OwnId
    <2>3. \A i \in 1..Len(kd.input) : OwnId(calls, kd.input[i])
      BY <1>7, <1>8, <2>1 DEF KidOwn, in
    <2>4. \A i \in 1..Len(kd.output) : kd.output[i] = line
                                      \/ (i \in 1..Len(kids[k].output) /\ kd.output[i] = kids[k].output[i])
      BY <1>4, <1>6, <1>8 DEF out
    <2> QED
      BY <2>1, <2>2, <2>3, <2>4 DEF KidOwn
  <1>11. half \in BOOLEAN /\ down \in BOOLEAN /\ deaths \in Nat
    BY DEF BridgeInv, BridgeTypes
  <1> QED
    BY <1>1, <1>3, <1>8, <1>9, <1>10, <1>11, CallsSame, KidStepKeeps

LEMMA HangKeeps ==
    ASSUME BridgeInv, NEW k \in DOMAIN kids, Hang(k)
    PROVE  BridgeInv'
  <1>1. UNCHANGED <<kind, use, current, half, nextId, calls, down, deaths>>
    BY DEF Hang
  <1>2. kids \in Seq(KidRecords) /\ k \in 1..Len(kids) /\ kids[k] \in KidRecords
    BY DEF BridgeInv, BridgeTypes
  <1> DEFINE kd == [kids[k] EXCEPT !.hung = TRUE]
  <1>3. /\ kd \in KidRecords /\ kd.killed = kids[k].killed /\ kd.exited = kids[k].exited
        /\ kd.state = kids[k].state /\ kd.input = kids[k].input /\ kd.output = kids[k].output
    BY <1>2 DEF KidRecords
  <1>4. kids' = [kids EXCEPT ![k] = kd]
    BY <1>2 DEF Hang
  <1> HIDE DEF kd
  <1>5. KidOwn(calls, kd)
    BY <1>2, <1>3 DEF BridgeInv, OwnInv, KidOwn
  <1>6. half \in BOOLEAN /\ down \in BOOLEAN /\ deaths \in Nat
    BY DEF BridgeInv, BridgeTypes
  <1> QED
    BY <1>1, <1>2, <1>3, <1>4, <1>5, <1>6, CallsSame, KidStepKeeps

LEMMA EndsKeeps ==
    ASSUME BridgeInv, NEW k \in DOMAIN kids, Ends(k)
    PROVE  BridgeInv'
  <1>1. UNCHANGED <<kind, use, current, half, nextId, calls, down>> /\ kids[k].state = "running"
    BY DEF Ends
  <1>2. kids \in Seq(KidRecords) /\ k \in 1..Len(kids) /\ kids[k] \in KidRecords
    BY DEF BridgeInv, BridgeTypes
  <1>3. half \in BOOLEAN /\ down \in BOOLEAN /\ deaths \in Nat /\ deaths' \in Nat
    BY DEF BridgeInv, BridgeTypes, Ends
  <1>4. PICK torn \in {<<>>, <<[whole |-> FALSE]>>} :
            kids' = [kids EXCEPT ![k].state = "dead", ![k].output = @ \o torn]
    BY DEF Ends
  <1> DEFINE out == kids[k].output \o torn
             kd == [kids[k] EXCEPT !.state = "dead", !.output = out]
  <1>5. kids[k].output \in Seq(Lines)
    BY <1>2 DEF KidRecords
  <1>6. /\ out \in Seq(Lines)
        /\ \A i \in 1..Len(out) : \/ i \in 1..Len(kids[k].output) /\ out[i] = kids[k].output[i]
                                  \/ ~ out[i].whole
    <2>1. CASE torn = <<>>
      <3>1. out = kids[k].output
        BY <1>5, <2>1
      <3> QED
        BY <1>5, <3>1
    <2>2. CASE torn = <<[whole |-> FALSE]>>
      <3> DEFINE t == [whole |-> FALSE]
      <3>1. t \in Lines /\ ~ t.whole
        BY DEF Lines
      <3> HIDE DEF t
      <3>2. torn = <<t>>
        BY <2>2 DEF t
      <3>3. torn \in Seq(Lines) /\ Len(torn) = 1 /\ torn[1] = t
        BY <3>1, <3>2
      <3>4. /\ out \in Seq(Lines) /\ Len(out) = Len(kids[k].output) + 1
            /\ \A i \in 1..Len(out) : out[i] = IF i <= Len(kids[k].output) THEN kids[k].output[i]
                                               ELSE torn[i - Len(kids[k].output)]
        BY <1>5, <3>3, ConcatProperties
      <3> QED
        BY <1>5, <3>1, <3>3, <3>4
    <2> QED
      BY <2>1, <2>2
  <1> HIDE DEF out
  <1>7. /\ kd \in KidRecords /\ kd.killed = kids[k].killed /\ kd.exited = kids[k].exited
        /\ kd.state = "dead" /\ kd.input = kids[k].input /\ kd.output = out
    BY <1>2, <1>6 DEF KidRecords
  <1>8. kids' = [kids EXCEPT ![k] = kd]
    BY <1>2, <1>4 DEF out
  <1> HIDE DEF kd
  <1>9. KidOwn(calls, kd)
    BY <1>2, <1>6, <1>7 DEF BridgeInv, OwnInv, KidOwn
  <1> QED
    BY <1>1, <1>2, <1>3, <1>7, <1>8, <1>9, CallsSame, KidStepKeeps

\* A line of a child settles the call it answers, whoever is this.child by now.
LEMMA DataKeeps ==
    ASSUME BridgeInv, NEW k \in DOMAIN kids, onNativeData(k) \/ onValidationData(k)
    PROVE  BridgeInv'
  <1>1. /\ UNCHANGED <<kind, use, current, nextId, deaths>>
        /\ kids[k].output # <<>> /\ Consumed(k) /\ half' = ~Line(k).whole
        /\ calls' = IF half \/ ~Line(k).whole THEN calls ELSE Settled(k)
        /\ down' = down \/ down' = (half /\ Line(k).whole)
    BY DEF onNativeData, onValidationData
  <1>2. kids \in Seq(KidRecords) /\ k \in 1..Len(kids) /\ kids[k] \in KidRecords
    BY DEF BridgeInv, BridgeTypes
  <1>3. kids[k].output \in Seq(Lines)
    BY <1>2 DEF KidRecords
  <1>4. Line(k) \in Lines /\ Line(k) = kids[k].output[1] /\ 1 \in 1..Len(kids[k].output)
    BY <1>1, <1>3 DEF Line
  <1>5. Line(k).whole \in BOOLEAN
    BY <1>4 DEF Lines
  <1>6. half' \in BOOLEAN /\ down' \in BOOLEAN /\ deaths' \in Nat
    BY <1>1, <1>5 DEF BridgeInv, BridgeTypes
  <1> DEFINE out == Tail(kids[k].output)
             kd == [kids[k] EXCEPT !.output = out]
  <1>7. /\ out \in Seq(Lines)
        /\ \A i \in 1..Len(out) : i + 1 \in 1..Len(kids[k].output) /\ out[i] = kids[k].output[i + 1]
    BY <1>1, <1>3
  <1> HIDE DEF out
  <1>8. /\ kd \in KidRecords /\ kd.killed = kids[k].killed /\ kd.exited = kids[k].exited
        /\ kd.state = kids[k].state /\ kd.input = kids[k].input /\ kd.output = out
    BY <1>2, <1>7 DEF KidRecords
  <1>9. kids' = [kids EXCEPT ![k] = kd]
    BY <1>1, <1>2 DEF Consumed, out
  <1> HIDE DEF kd
  <1>10. KidOwn(calls, kd)
    BY <1>2, <1>7, <1>8 DEF BridgeInv, OwnInv, KidOwn
  <1>11. /\ Settles(calls, calls')
         /\ \A c \in Calls : calls'[c] = calls[c]
                             \/ (calls'[c].at \in {"answered", "failed"} /\ calls'[c].got = c)
    <2>1. CASE half \/ ~Line(k).whole
      BY <1>1, <2>1, CallsSame
    <2>2. CASE ~half /\ Line(k).whole
      <3>1. calls' = Settled(k)
        BY <1>1, <2>2
      <3>2. Line(k).of \in Calls /\ OwnId(calls, Line(k))
        <4>1. KidOwn(calls, kids[k])
          BY <1>2 DEF BridgeInv, OwnInv
        <4> QED
          BY <1>4, <2>2, <4>1 DEF Lines, KidOwn
      <3>3. calls \in [Calls -> CallRecords]
        BY DEF BridgeInv, BridgeTypes
      <3>4. ASSUME NEW c \in Calls
            PROVE  /\ calls'[c] \in CallRecords
                   /\ calls'[c].id = calls[c].id /\ calls'[c].kid = calls[c].kid
                   /\ \/ calls'[c] = calls[c]
                      \/ calls[c].at = "pending" /\ calls'[c].at \in {"answered", "failed"}
                         /\ calls'[c].got = c
        <4>1. CASE calls[c].at = "pending" /\ calls[c].id = Line(k).id
          <5>1. Line(k).of = c
            BY <3>2, <4>1 DEF OwnId, BridgeInv, OwnInv
          <5> DEFINE a == IF Line(k).ok THEN "answered" ELSE "failed"
          <5>2. a \in {"answered", "failed"}
            OBVIOUS
          <5>3. calls'[c] = [calls[c] EXCEPT !.at = a, !.got = c]
            BY <3>1, <4>1, <5>1 DEF Settled
          <5> HIDE DEF a
          <5> QED
            BY <3>3, <4>1, <5>2, <5>3 DEF CallRecords, CallStates
        <4>2. CASE ~(calls[c].at = "pending" /\ calls[c].id = Line(k).id)
          BY <3>1, <3>3, <4>2 DEF Settled
        <4> QED
          BY <4>1, <4>2
      <3>5. calls' = [c \in Calls |-> calls'[c]]
        BY <3>1 DEF Settled
      <3>6. calls' \in [Calls -> CallRecords]
        BY <3>4, <3>5
      <3> QED
        BY <3>4, <3>6 DEF Settles
    <2> QED
      BY <2>1, <2>2
  <1> QED
    BY <1>1, <1>2, <1>6, <1>8, <1>9, <1>10, <1>11, KidStepKeeps

\* The ids after a step that settles promises and leaves the lines alone.
LEMMA OwnInvKept ==
    ASSUME BridgeInv, Settles(calls, calls'),
           kids' \in Seq(KidRecords), Len(kids') = Len(kids),
           \A k \in 1..Len(kids) : kids'[k].input = kids[k].input /\ kids'[k].output = kids[k].output,
           \A c \in Calls : calls'[c] = calls[c] \/ calls'[c].at \in {"rejected", "timedout"}
    PROVE  OwnInv'
  <1>1. ASSUME NEW k \in 1..Len(kids') PROVE KidOwn(calls', kids'[k])
    <2>1. kids'[k] \in KidRecords /\ KidOwn(calls, kids'[k])
      BY DEF BridgeInv, OwnInv, KidOwn
    <2> QED
      BY <2>1, OwnIdKept
  <1>2. \A c, d \in Calls : calls'[c].at # "idle" /\ calls'[d].at # "idle"
                            /\ calls'[c].id = calls'[d].id => c = d
    BY DEF BridgeInv, OwnInv, Settles
  <1>3. AnswerIsOwn'
    BY DEF BridgeInv, OwnInv, AnswerIsOwn
  <1> QED
    BY <1>1, <1>2, <1>3 DEF OwnInv

\* The exit of a child rejects the calls of that child only: it is this.child, or it was
\* killed and there is none.
LEMMA ExitKeeps ==
    ASSUME BridgeInv, NEW k \in DOMAIN kids, onNativeExit(k) \/ onValidationExit(k)
    PROVE  BridgeInv'
  <1>1. /\ UNCHANGED <<kind, use, half, nextId, down, deaths>>
        /\ kids[k].state = "dead" /\ ~kids[k].exited
        /\ kids' = [kids EXCEPT ![k].exited = TRUE]
        /\ calls' = rejectAll(calls) /\ current' = 0
    BY DEF onNativeExit, onValidationExit, Noticed
  <1>2. /\ kids \in Seq(KidRecords) /\ k \in 1..Len(kids) /\ kids[k] \in KidRecords
        /\ calls \in [Calls -> CallRecords] /\ Len(kids) \in Nat
    BY DEF BridgeInv, BridgeTypes
  <1> DEFINE kd == [kids[k] EXCEPT !.exited = TRUE]
  <1>3. /\ kd \in KidRecords /\ kd.killed = kids[k].killed /\ kd.exited
        /\ kd.state = "dead" /\ kd.input = kids[k].input /\ kd.output = kids[k].output
    BY <1>1, <1>2 DEF KidRecords
  <1>4. kids' = [kids EXCEPT ![k] = kd]
    BY <1>1, <1>2
  <1> HIDE DEF kd
  <1>5. /\ kids' \in Seq(KidRecords) /\ Len(kids') = Len(kids) /\ kids'[k] = kd
        /\ \A j \in 1..Len(kids) : j # k => kids'[j] = kids[j]
    BY <1>2, <1>3, <1>4, KidReplaced
  <1>6. /\ Settles(calls, calls')
        /\ \A c \in Calls : /\ \/ calls'[c] = calls[c] /\ calls[c].at # "pending"
                               \/ calls'[c].at = "rejected" /\ calls[c].at = "pending"
                            /\ calls'[c].got = calls[c].got
    BY <1>1, <1>2, RejectFacts
  <1>7. BridgeTypes'
    <2>1. current' \in 0..Len(kids')
      BY <1>1, <1>2, <1>5
    <2> QED
      BY <1>1, <1>5, <1>6, <2>1 DEF BridgeInv, BridgeTypes, Settles
  <1>8. UseInv'
    BY <1>1, <1>6 DEF BridgeInv, UseInv
  <1>9. OwnInv'
    <2>1. \A j \in 1..Len(kids) : kids'[j].input = kids[j].input /\ kids'[j].output = kids[j].output
      BY <1>3, <1>5
    <2> QED
      BY <1>5, <1>6, <2>1, OwnInvKept
  <1>10. KidInv'
    <2>1. Sealed => Sealed'
      BY <1>1, <1>6 DEF Sealed
    <2>2. \A j \in 1..Len(kids) :
              /\ kids[j].killed => current = 0 /\ Sealed
              /\ kids[j].state = "dead" /\ ~kids[j].exited /\ ~kids[j].killed => j = current
              /\ kids[j].state = "running" => j = current \/ kids[j].killed
      BY DEF BridgeInv, KidInv
    <2>3. k = current \/ current = 0
      BY <1>1, <1>2, <2>2
    <2>4. \A j \in 1..Len(kids) : kids[j].state = "running" => kids[j].killed
      BY <1>1, <1>2, <2>2, <2>3
    <2>5. RejectedIsOwn'
      <3>1. SUFFICES ASSUME NEW c \in Calls, calls'[c].at = "rejected"
                     PROVE  kids'[calls'[c].kid].state # "running" \/ kids'[calls'[c].kid].killed
        BY DEF RejectedIsOwn
      <3>2. calls'[c].kid = calls[c].kid /\ calls[c].at # "idle"
        BY <1>6, <3>1 DEF Settles
      <3>3. calls[c].kid \in 1..Len(kids)
        BY <3>2 DEF BridgeInv, BridgeTypes
      <3> QED
        BY <1>3, <1>5, <2>4, <3>2, <3>3
    <2>6. \A j \in 1..Len(kids) :
              /\ kids'[j].killed => current' = 0 /\ Sealed'
              /\ kids'[j].state = "dead" /\ ~kids'[j].exited /\ ~kids'[j].killed => j = current'
              /\ kids'[j].state = "running" => j = current' \/ kids'[j].killed
      BY <1>1, <1>3, <1>5, <2>1, <2>2, <2>3, <2>4
    <2> QED
      BY <1>5, <2>5, <2>6 DEF KidInv
  <1> QED
    BY <1>7, <1>8, <1>9, <1>10 DEF BridgeInv

\* this.child is killed and forgotten, and nothing is written afterwards.
LEMMA KillKeeps ==
    ASSUME BridgeInv, kids' = Killed, current' = (IF Usable THEN 0 ELSE current) \/ current' = 0,
           Settles(calls, calls'), Sealed', UseInv',
           \A c \in Calls : calls'[c] = calls[c] \/ calls'[c].at \in {"rejected", "timedout"},
           UNCHANGED <<half, nextId, down, deaths>>
    PROVE  BridgeInv'
  <1>1. kids \in Seq(KidRecords) /\ current \in 0..Len(kids) /\ Len(kids) \in Nat
    BY DEF BridgeInv, BridgeTypes
  <1>2. \A j \in 1..Len(kids) :
            /\ kids[j].killed => current = 0 /\ Sealed
            /\ kids[j].state = "dead" /\ ~kids[j].exited /\ ~kids[j].killed => j = current
            /\ kids[j].state = "running" => j = current \/ kids[j].killed
    BY DEF BridgeInv, KidInv
  <1>3. Usable <=> current # 0
    BY <1>1, <1>2 DEF Usable
  <1>4. current' = 0
    BY <1>3
  <1>5. /\ kids' \in Seq(KidRecords) /\ Len(kids') = Len(kids)
        /\ \A j \in 1..Len(kids) :
               /\ kids'[j].state = kids[j].state /\ kids'[j].exited = kids[j].exited
               /\ kids'[j].input = kids[j].input /\ kids'[j].output = kids[j].output
               /\ j # current => kids'[j] = kids[j]
               /\ j = current => kids'[j].killed = (kids[j].state # "failed")
    <2>1. CASE current = 0
      BY <1>1, <1>3, <2>1 DEF Killed
    <2>2. CASE current # 0
      <3> DEFINE b == kids[current].state # "failed"
                 kd == [kids[current] EXCEPT !.killed = b]
      <3>1. current \in 1..Len(kids) /\ kids[current] \in KidRecords /\ b \in BOOLEAN
        BY <1>1, <2>2
      <3> HIDE DEF b
      <3>2. /\ kd \in KidRecords /\ kd.killed = b /\ kd.exited = kids[current].exited
            /\ kd.state = kids[current].state
            /\ kd.input = kids[current].input /\ kd.output = kids[current].output
        BY <3>1 DEF KidRecords
      <3>3. kids' = [kids EXCEPT ![current] = kd]
        BY <1>1, <1>3, <2>2, <3>1 DEF Killed, b
      <3> HIDE DEF kd
      <3>4. /\ kids' \in Seq(KidRecords) /\ Len(kids') = Len(kids) /\ kids'[current] = kd
            /\ \A j \in 1..Len(kids) : j # current => kids'[j] = kids[j]
        BY <1>1, <3>1, <3>2, <3>3, KidReplaced
      <3> QED
        BY <3>2, <3>4 DEF b
    <2> QED
      BY <2>1, <2>2
  <1>6. BridgeTypes'
    <2>1. current' \in 0..Len(kids')
      BY <1>1, <1>4, <1>5
    <2>2. \A c \in Calls : calls'[c].at # "idle" =>
              calls'[c].id \in 1..(nextId - 1) /\ calls'[c].kid \in 1..Len(kids)
      BY DEF BridgeInv, BridgeTypes, Settles
    <2> QED
      BY <1>5, <2>1, <2>2 DEF BridgeInv, BridgeTypes, Settles
  <1>7. OwnInv'
    BY <1>5, OwnInvKept
  <1>8. KidInv'
    <2>1. \A j \in 1..Len(kids) : kids'[j].state = "running" => kids'[j].killed
      BY <1>2, <1>5
    <2>2. RejectedIsOwn'
      <3>1. SUFFICES ASSUME NEW c \in Calls, calls'[c].at = "rejected"
                     PROVE  kids'[calls'[c].kid].state # "running" \/ kids'[calls'[c].kid].killed
        BY DEF RejectedIsOwn
      <3>2. calls'[c].kid \in 1..Len(kids)
        BY <1>5, <1>6, <3>1 DEF BridgeTypes
      <3> QED
        BY <2>1, <3>2
    <2>3. \A j \in 1..Len(kids) :
              kids'[j].state = "dead" /\ ~kids'[j].exited /\ ~kids'[j].killed => j = current'
      BY <1>2, <1>5
    <2> QED
      BY <1>4, <1>5, <2>1, <2>2, <2>3 DEF KidInv
  <1> QED
    BY <1>6, <1>7, <1>8 DEF BridgeInv

LEMMA TimeoutKeeps ==
    ASSUME BridgeInv, NEW c \in Calls, onTimeout(c)
    PROVE  BridgeInv'
  <1>1. /\ UNCHANGED <<kind, use, half, nextId, down, deaths>>
        /\ kind = "native" /\ calls[c].at = "pending"
        /\ calls' = [calls EXCEPT ![c].at = "timedout"] /\ kids' = Killed
        /\ current' = IF Usable THEN 0 ELSE current
    BY DEF onTimeout
  <1>2. calls \in [Calls -> CallRecords]
    BY DEF BridgeInv, BridgeTypes
  <1> DEFINE r == [calls[c] EXCEPT !.at = "timedout"]
  <1>3. r \in CallRecords /\ r.at = "timedout" /\ r.id = calls[c].id /\ r.kid = calls[c].kid
    BY <1>2 DEF CallRecords, CallStates
  <1>4. calls' = [calls EXCEPT ![c] = r]
    BY <1>1, <1>2
  <1> HIDE DEF r
  <1>5. calls' \in [Calls -> CallRecords] /\ calls'[c] = r
        /\ \A d \in Calls \ {c} : calls'[d] = calls[d]
    BY <1>2, <1>3, <1>4
  <1>6. Settles(calls, calls')
    BY <1>1, <1>3, <1>5 DEF Settles
  <1>7. Sealed'
    BY <1>1, <1>3, <1>5 DEF Sealed
  <1>8. UseInv'
    BY <1>1, <1>3, <1>5 DEF BridgeInv, UseInv
  <1>9. \A d \in Calls : calls'[d] = calls[d] \/ calls'[d].at \in {"rejected", "timedout"}
    BY <1>3, <1>5
  <1> QED
    BY <1>1, <1>6, <1>7, <1>8, <1>9, KillKeeps

LEMMA CloseKeeps ==
    ASSUME BridgeInv, closeNative \/ closeValidation
    PROVE  BridgeInv'
  <1>1. /\ UNCHANGED <<kind, half, nextId, down, deaths>> /\ kids' = Killed /\ current' = 0
        /\ use' = [use EXCEPT !.at = "closed"]
        /\ calls' = calls \/ calls' = rejectAll(calls)
    BY DEF closeNative, closeValidation
  <1>2. calls \in [Calls -> CallRecords]
    BY DEF BridgeInv, BridgeTypes
  <1>3. /\ Settles(calls, calls')
        /\ \A c \in Calls : calls'[c] = calls[c] \/ calls'[c].at \in {"rejected", "timedout"}
    BY <1>1, <1>2, CallsSame, RejectFacts
  <1>4. UseInv' /\ use'.at = "closed"
    BY <1>1 DEF BridgeInv, UseInv
  <1> QED
    BY <1>1, <1>3, <1>4, KillKeeps DEF Sealed

\* The calls with a new one, with an id of its own.
Asked(c, k) == [calls EXCEPT ![c] = [Unmade EXCEPT !.at = "pending", !.id = nextId, !.kid = k]]

\* What the children were asked before is still theirs.
LEMMA AskedFacts ==
    ASSUME BridgeInv, NEW c \in Calls, calls[c].at = "idle", NEW k \in Nat
    PROVE  LET cs == Asked(c, k)
           IN /\ cs \in [Calls -> CallRecords]
              /\ cs[c].at = "pending" /\ cs[c].id = nextId /\ cs[c].kid = k
              /\ \A d \in Calls \ {c} : cs[d] = calls[d]
              /\ \A kd \in KidRecords : KidOwn(calls, kd) => KidOwn(cs, kd)
              /\ \A d, e \in Calls :
                     cs[d].at # "idle" /\ cs[e].at # "idle" /\ cs[d].id = cs[e].id => d = e
              /\ \A d \in Calls : cs[d].at \in {"answered", "failed"} => cs[d].got = d
  <1> DEFINE cs == Asked(c, k)
  <1> DEFINE r == [Unmade EXCEPT !.at = "pending", !.id = nextId, !.kid = k]
  <1>1. calls \in [Calls -> CallRecords] /\ nextId \in Nat \ {0}
    BY DEF BridgeInv, BridgeTypes
  <1>2. r \in CallRecords /\ r.at = "pending" /\ r.id = nextId /\ r.kid = k
    BY <1>1 DEF Unmade, CallRecords, CallStates
  <1>3. cs = [calls EXCEPT ![c] = r]
    BY DEF Asked
  <1> HIDE DEF r, cs
  <1>4. /\ cs \in [Calls -> CallRecords] /\ cs[c] = r
        /\ \A d \in Calls \ {c} : cs[d] = calls[d]
    BY <1>1, <1>2, <1>3
  <1>5. \A q : OwnId(calls, q) /\ q.of \in Calls => OwnId(cs, q)
    BY <1>4 DEF OwnId
  <1>6. ASSUME NEW kd \in KidRecords, KidOwn(calls, kd) PROVE KidOwn(cs, kd)
    <2>1. kd.input \in Seq(Questions) /\ kd.output \in Seq(Lines)
      BY DEF KidRecords
    <2>2. ASSUME NEW i \in 1..Len(kd.input) PROVE kd.input[i].of \in Calls
      <3>1. kd.input[i] \in Questions
        BY <2>1
      <3> QED
        BY <3>1 DEF Questions
    <2>3. ASSUME NEW i \in 1..Len(kd.output), kd.output[i].whole PROVE kd.output[i].of \in Calls
      <3>1. kd.output[i] \in Lines
        BY <2>1
      <3> QED
        BY <2>3, <3>1 DEF Lines
    <2> QED
      BY <1>5, <1>6, <2>2, <2>3 DEF KidOwn
  <1>7. \A d \in Calls : calls[d].at # "idle" => calls[d].id # nextId
    BY <1>1 DEF BridgeInv, BridgeTypes
  <1>8. \A d, e \in Calls : cs[d].at # "idle" /\ cs[e].at # "idle" /\ cs[d].id = cs[e].id => d = e
    BY <1>2, <1>4, <1>7 DEF BridgeInv, OwnInv
  <1>9. \A d \in Calls : cs[d].at \in {"answered", "failed"} => cs[d].got = d
    BY <1>2, <1>4 DEF BridgeInv, OwnInv, AnswerIsOwn
  <1> QED
    BY <1>2, <1>4, <1>6, <1>8, <1>9 DEF cs

\* A child with a question more.
LEMMA QuestionAdded ==
    ASSUME NEW cs, NEW kd \in KidRecords, KidOwn(cs, kd), NEW c \in Calls, NEW n \in Nat,
           cs[c].at # "idle", cs[c].id = n,
           NEW kx, kx = [kd EXCEPT !.input = Append(@, [id |-> n, of |-> c])]
    PROVE  /\ kx \in KidRecords /\ KidOwn(cs, kx)
           /\ kx.state = kd.state /\ kx.killed = kd.killed /\ kx.exited = kd.exited
  <1> DEFINE q == [id |-> n, of |-> c]
             in == Append(kd.input, q)
  <1>1. q \in Questions /\ OwnId(cs, q) /\ kd.input \in Seq(Questions)
    BY DEF Questions, OwnId, KidRecords
  <1>2. kx = [kd EXCEPT !.input = in]
    BY DEF KidRecords
  <1> HIDE DEF q
  <1>3. /\ in \in Seq(Questions)
        /\ \A i \in 1..Len(in) : in[i] = q \/ (i \in 1..Len(kd.input) /\ in[i] = kd.input[i])
    BY <1>1
  <1> HIDE DEF in
  <1>4. /\ kx \in KidRecords /\ kx.input = in /\ kx.output = kd.output
        /\ kx.state = kd.state /\ kx.killed = kd.killed /\ kx.exited = kd.exited
    BY <1>2, <1>3 DEF KidRecords
  <1> QED
    BY <1>1, <1>3, <1>4 DEF KidOwn

\* The facts that every kind of request leaves behind, put together.
LEMMA AskedKeeps ==
    ASSUME BridgeInv, NEW c \in Calls, calls[c].at = "idle", nextId' = nextId + 1, ~ Sealed,
           UseInv', half' = half, down' \in BOOLEAN, deaths' \in Nat,
           kids' \in Seq(KidRecords), current' \in 1..Len(kids'), Len(kids) <= Len(kids'),
           calls' \in [Calls -> CallRecords],
           \A j \in 1..Len(kids') : KidOwn(calls', kids'[j]),
           \A j \in 1..Len(kids') : j # current' =>
               j \in 1..Len(kids) /\ kids'[j] = kids[j] /\ j # current,
           ~ kids'[current'].killed,
           calls'[c].at # "idle", calls'[c].id = nextId, calls'[c].kid = current',
           \A d \in Calls \ {c} : /\ calls'[d].id = calls[d].id /\ calls'[d].kid = calls[d].kid
                                  /\ calls'[d].at = "idle" <=> calls[d].at = "idle",
           \A d, e \in Calls : calls'[d].at # "idle" /\ calls'[e].at # "idle"
                               /\ calls'[d].id = calls'[e].id => d = e,
           AnswerIsOwn', RejectedIsOwn'
    PROVE  BridgeInv'
  <1>1. Len(kids) \in Nat /\ Len(kids') \in Nat /\ nextId \in Nat \ {0}
    BY DEF BridgeInv, BridgeTypes
  <1>2. BridgeTypes'
    <2>1. \A d \in Calls : calls'[d].at # "idle" =>
              calls'[d].id \in 1..(nextId' - 1) /\ calls'[d].kid \in 1..Len(kids')
      BY <1>1 DEF BridgeInv, BridgeTypes
    <2> QED
      BY <1>1, <2>1 DEF BridgeInv, BridgeTypes
  <1>3. OwnInv'
    BY DEF OwnInv
  <1>4. KidInv'
    <2>1. \A j \in 1..Len(kids) :
              /\ ~ kids[j].killed
              /\ kids[j].state = "dead" /\ ~kids[j].exited => j = current
              /\ kids[j].state = "running" => j = current
      BY DEF BridgeInv, KidInv
    <2> QED
      BY <2>1 DEF KidInv
  <1> QED
    BY <1>2, <1>3, <1>4 DEF BridgeInv

LEMMA WrittenKeeps ==
    ASSUME BridgeInv, NEW c \in Calls, Written(c), ~ Sealed, UseInv'
    PROVE  BridgeInv'
  <1> DEFINE n == Len(kids)
  <1>1. /\ kids \in Seq(KidRecords) /\ current \in 0..n /\ n \in Nat /\ nextId \in Nat \ {0}
        /\ deaths \in Nat /\ calls \in [Calls -> CallRecords] /\ down \in BOOLEAN
    BY DEF BridgeInv, BridgeTypes
  <1>2. calls[c].at = "idle" /\ nextId' = nextId + 1 /\ half' = half
    BY DEF Written
  <1>3. \A j \in 1..n : /\ ~ kids[j].killed
                        /\ kids[j].state = "running" => j = current
                        /\ KidOwn(calls, kids[j]) /\ kids[j] \in KidRecords
    BY <1>1 DEF BridgeInv, KidInv, OwnInv
  <1>4. Usable <=> current # 0
    BY <1>1, <1>3 DEF Usable
  <1>5. PICK e \in ensure :
          LET k == e.child
              fails == ~Usable /\ e.kids[k].state = "failed"
              cs == [calls EXCEPT ![c] = [Unmade EXCEPT !.at = "pending", !.id = nextId, !.kid = k]]
          IN /\ current' = k
             /\ calls' = IF fails THEN rejectAll(cs) ELSE cs
             /\ kids' = IF e.kids[k].state = "running"
                        THEN [e.kids EXCEPT ![k].input = Append(@, [id |-> nextId, of |-> c])]
                        ELSE e.kids
             /\ down' = (e.kids[k].state = "dead")
             /\ deaths' = IF fails THEN deaths + 1 ELSE deaths
    BY DEF Written
  <1> DEFINE k == e.child
             ks == e.kids
             cs == [calls EXCEPT ![c] = [Unmade EXCEPT !.at = "pending", !.id = nextId, !.kid = k]]
             q == [id |-> nextId, of |-> c]
  <1>6. /\ ks \in Seq(KidRecords) /\ k \in 1..Len(ks) /\ n <= Len(ks)
        /\ \A j \in 1..Len(ks) : j # k => j \in 1..n /\ ks[j] = kids[j] /\ j # current
        /\ ~ ks[k].killed /\ KidOwn(calls, ks[k])
    <2>1. CASE Usable
      <3>1. ks = kids /\ k = current
        BY <2>1 DEF ensure
      <3> QED
        BY <1>1, <1>3, <1>4, <2>1, <3>1
    <2>2. CASE ~ Usable
      <3>1. PICK s \in {"running", "failed"} : ks = Append(kids, Kid(s)) /\ k = n + 1
        BY <2>2 DEF ensure
      <3>2. /\ Kid(s) \in KidRecords /\ ~ Kid(s).killed
            /\ Kid(s).input = <<>> /\ Kid(s).output = <<>>
        BY DEF Kid, KidRecords
      <3>3. KidOwn(calls, Kid(s))
        BY <3>2 DEF KidOwn
      <3>4. /\ ks \in Seq(KidRecords) /\ Len(ks) = n + 1 /\ ks[n + 1] = Kid(s)
            /\ \A j \in 1..n : ks[j] = kids[j]
        BY <1>1, <3>1, <3>2
      <3> QED
        BY <1>1, <1>4, <2>2, <3>1, <3>2, <3>3, <3>4
    <2> QED
      BY <2>1, <2>2
  <1>7. k \in Nat
    BY <1>6
  <1>9. /\ current' = k
        /\ calls' = IF ~Usable /\ ks[k].state = "failed" THEN rejectAll(cs) ELSE cs
        /\ kids' = IF ks[k].state = "running"
                   THEN [ks EXCEPT ![k].input = Append(@, q)] ELSE ks
        /\ down' \in BOOLEAN /\ deaths' \in Nat
    BY <1>1, <1>5
  <1>7a. cs = Asked(c, k)
    BY DEF Asked
  <1> HIDE DEF k, ks, cs
  <1>8. /\ cs \in [Calls -> CallRecords]
        /\ cs[c].at = "pending" /\ cs[c].id = nextId /\ cs[c].kid = k
        /\ \A d \in Calls \ {c} : cs[d] = calls[d]
        /\ \A kd \in KidRecords : KidOwn(calls, kd) => KidOwn(cs, kd)
        /\ \A d, f \in Calls : cs[d].at # "idle" /\ cs[f].at # "idle" /\ cs[d].id = cs[f].id => d = f
        /\ \A d \in Calls : cs[d].at \in {"answered", "failed"} => cs[d].got = d
    BY <1>2, <1>7, <1>7a, AskedFacts
  <1>10. /\ kids' \in Seq(KidRecords) /\ Len(kids') = Len(ks)
         /\ \A j \in 1..Len(ks) : j # k => kids'[j] = ks[j]
         /\ kids'[k].state = ks[k].state /\ ~ kids'[k].killed
         /\ KidOwn(cs, kids'[k])
    <2>0. ks[k] \in KidRecords /\ KidOwn(cs, ks[k])
      BY <1>6, <1>8
    <2>1. CASE ks[k].state = "running"
      <3> DEFINE kx == [ks[k] EXCEPT !.input = Append(@, q)]
      <3>1. /\ kx \in KidRecords /\ KidOwn(cs, kx)
            /\ kx.state = ks[k].state /\ kx.killed = ks[k].killed
        BY <1>1, <1>8, <2>0, QuestionAdded
      <3>2. kids' = [ks EXCEPT ![k] = kx]
        BY <1>6, <1>9, <2>1
      <3> HIDE DEF kx
      <3> QED
        BY <1>6, <3>1, <3>2
    <2>2. CASE ks[k].state # "running"
      BY <1>6, <1>9, <2>0, <2>2
    <2> QED
      BY <2>1, <2>2
  <1>11. \A j \in 1..Len(ks) : KidOwn(cs, kids'[j]) /\ kids'[j] \in KidRecords
    <2>1. \A j \in 1..Len(ks) : j # k => KidOwn(cs, kids'[j])
      BY <1>3, <1>6, <1>8, <1>10
    <2> QED
      BY <1>10, <2>1
  <1>12. \A j \in 1..Len(kids') : j # current' => j \in 1..n /\ kids'[j] = kids[j] /\ j # current
    BY <1>6, <1>9, <1>10
  <1>13. /\ calls' \in [Calls -> CallRecords]
         /\ \A j \in 1..Len(ks) : KidOwn(calls', kids'[j])
         /\ \A d \in Calls : /\ calls'[d].id = cs[d].id /\ calls'[d].kid = cs[d].kid
                             /\ calls'[d].at = "idle" <=> cs[d].at = "idle"
                             /\ \/ calls'[d] = cs[d]
                                \/ /\ calls'[d].at = "rejected" /\ cs[d].at = "pending"
                                   /\ current = 0 /\ ks[k].state = "failed"
    <2>1. CASE ~Usable /\ ks[k].state = "failed"
      <3>1. calls' = rejectAll(cs)
        BY <1>9, <2>1
      <3>2. Settles(cs, calls')
        BY <1>8, <3>1, RejectFacts
      <3>3. \A j \in 1..Len(ks) : KidOwn(calls', kids'[j])
        BY <1>11, <3>2, OwnIdKept
      <3>4. \A d \in Calls : \/ calls'[d] = cs[d]
                             \/ calls'[d].at = "rejected" /\ cs[d].at = "pending"
        BY <1>8, <3>1, RejectFacts
      <3> QED
        BY <1>4, <2>1, <3>2, <3>3, <3>4 DEF Settles
    <2>2. CASE ~(~Usable /\ ks[k].state = "failed")
      BY <1>8, <1>9, <1>11, <2>2
    <2> QED
      BY <2>1, <2>2
  <1>14. AnswerIsOwn'
    BY <1>8, <1>13 DEF AnswerIsOwn
  <1>15. RejectedIsOwn'
    <2>1. SUFFICES ASSUME NEW d \in Calls, calls'[d].at = "rejected"
                   PROVE  kids'[calls'[d].kid].state # "running"
      BY DEF RejectedIsOwn
    <2>2. CASE d = c
      <3>1. ks[k].state = "failed" /\ calls'[d].kid = k
        BY <1>8, <1>13, <2>1, <2>2
      <3> QED
        BY <1>10, <3>1
    <2>3. CASE d # c
      <3>1. calls'[d].kid = calls[d].kid /\ cs[d] = calls[d]
        BY <1>8, <1>13, <2>3
      <3>2. calls[d].at # "idle"
        BY <1>13, <2>1, <3>1
      <3>3. calls[d].kid \in 1..n
        BY <3>2 DEF BridgeInv, BridgeTypes
      <3>4. CASE calls'[d] = calls[d]
        <4>1. kids[calls[d].kid].state # "running"
          BY <1>3, <2>1, <3>3, <3>4 DEF BridgeInv, KidInv, RejectedIsOwn
        <4>2. CASE calls[d].kid # k
          BY <1>6, <1>10, <3>1, <3>3, <4>1, <4>2
        <4>3. CASE calls[d].kid = k
          <5>1. k \in 1..n
            BY <3>3, <4>3
          <5>2. ks[k] = kids[k]
            <6>1. CASE Usable
              BY <6>1 DEF ks, ensure
            <6>2. CASE ~ Usable
              <7>1. k = n + 1
                BY <6>2 DEF k, ensure
              <7> QED
                BY <1>1, <5>1, <7>1
            <6> QED
              BY <6>1, <6>2
          <5> QED
            BY <1>10, <3>1, <4>1, <4>3, <5>2
        <4> QED
          BY <4>2, <4>3
      <3>5. CASE calls'[d] # calls[d]
        <4>1. current = 0 /\ ks[k].state = "failed"
          BY <1>13, <3>1, <3>5
        <4>2. \A j \in 1..n : kids[j].state # "running"
          BY <1>3, <4>1
        <4>3. CASE calls[d].kid = k
          BY <1>10, <3>1, <4>1, <4>3
        <4>4. CASE calls[d].kid # k
          <5>1. calls[d].kid \in 1..Len(ks)
            BY <1>1, <1>6, <3>3
          <5>2. kids'[calls[d].kid] = kids[calls[d].kid]
            BY <1>6, <1>10, <4>4, <5>1
          <5> QED
            BY <3>1, <3>3, <4>2, <5>2
        <4> QED
          BY <4>3, <4>4
      <3> QED
        BY <3>4, <3>5
    <2> QED
      BY <2>2, <2>3
  <1>16. /\ \A d \in Calls \ {c} : /\ calls'[d].id = calls[d].id /\ calls'[d].kid = calls[d].kid
                                   /\ calls'[d].at = "idle" <=> calls[d].at = "idle"
         /\ calls'[c].at # "idle" /\ calls'[c].id = nextId /\ calls'[c].kid = current'
         /\ \A d, f \in Calls : calls'[d].at # "idle" /\ calls'[f].at # "idle"
                                /\ calls'[d].id = calls'[f].id => d = f
    BY <1>8, <1>9, <1>13
  <1>17. current' \in 1..Len(kids') /\ n <= Len(kids') /\ ~ kids'[current'].killed
         /\ \A j \in 1..Len(kids') : KidOwn(calls', kids'[j])
    BY <1>6, <1>9, <1>10, <1>13
  <1> QED
    BY <1>2, <1>9, <1>10, <1>12, <1>13, <1>14, <1>15, <1>16, <1>17, AskedKeeps

\* After a request only the call that was made has changed from idle.
LEMMA WrittenCalls ==
    ASSUME BridgeInv, NEW c \in Calls, Written(c)
    PROVE  \A d \in Calls \ {c} : calls[d].at = "idle" => calls'[d].at = "idle"
  <1>1. \E e \in ensure : calls' \in {Asked(c, e.child), rejectAll(Asked(c, e.child))}
    BY DEF Written, Asked
  <1>2. PICK k : calls' \in {Asked(c, k), rejectAll(Asked(c, k))}
    BY <1>1
  <1>3. calls \in [Calls -> CallRecords]
    BY DEF BridgeInv, BridgeTypes
  <1>4. \A d \in Calls \ {c} : Asked(c, k)[d] = calls[d]
    BY <1>3 DEF Asked
  <1> QED
    BY <1>2, <1>4 DEF rejectAll

LEMMA RequestKeeps ==
    ASSUME BridgeInv, ready \/ research \/ \E c \in Calls : call(c)
    PROVE  BridgeInv'
  <1>0. {"health", "research"} \subseteq Calls
    BY BridgeAssumption
  <1>1. CASE ready
    <2>1. /\ use.mode \in {"queue", "test"} /\ use.at = "bound" /\ Written("health")
          /\ use' = [use EXCEPT !.at = "probing"] /\ kind' = kind
      BY <1>1 DEF ready, Written
    <2>2. kind = "native" /\ \A c \in Calls : calls[c].at = "idle"
      BY <2>1 DEF BridgeInv, UseInv
    <2>3. ~ Sealed
      BY <2>1, <2>2 DEF Sealed
    <2>4. \A d \in Calls \ {"health"} : calls'[d].at = "idle"
      BY <1>0, <2>1, <2>2, WrittenCalls
    <2>5. /\ use' \in [mode : {"queue", "test", "pipeline"},
                       at : {"bound", "probing", "researching", "closed"}]
          /\ use'.at = "probing"
      BY <2>1, <2>2 DEF BridgeInv, UseInv
    <2>6. UseInv'
      BY <2>1, <2>2, <2>4, <2>5 DEF UseInv
    <2> QED
      BY <1>0, <2>1, <2>3, <2>6, WrittenKeeps
  <1>2. CASE research
    <2>1. /\ \/ use.mode = "queue" /\ use.at = "probing" /\ Proven
             \/ use.mode = "pipeline" /\ use.at = "bound"
          /\ Written("research") /\ use' = [use EXCEPT !.at = "researching"] /\ kind' = kind
      BY <1>2 DEF research, Written
    <2>2. kind = "native"
      BY <2>1 DEF BridgeInv, UseInv
    <2>3. \A c \in Calls : calls[c].at # "timedout"
      BY <2>1 DEF BridgeInv, UseInv, Proven
    <2>4. ~ Sealed
      BY <2>1, <2>3 DEF Sealed
    <2>5. /\ use' \in [mode : {"queue", "test", "pipeline"},
                       at : {"bound", "probing", "researching", "closed"}]
          /\ use'.at = "researching"
      BY <2>1, <2>2 DEF BridgeInv, UseInv
    <2>6. UseInv'
      BY <2>1, <2>2, <2>5 DEF UseInv
    <2> QED
      BY <1>0, <2>1, <2>4, <2>6, WrittenKeeps
  <1>3. ASSUME NEW c \in Calls, call(c) PROVE BridgeInv'
    <2>1. kind = "validation" /\ use.at = "open" /\ Written(c) /\ use' = use /\ kind' = kind
      BY <1>3 DEF call, Written
    <2>2. ~ Sealed /\ UseInv'
      BY <2>1 DEF Sealed, BridgeInv, UseInv
    <2> QED
      BY <2>1, <2>2, WrittenKeeps
  <1> QED
    BY <1>1, <1>2, <1>3

(* What a bridge answers, rejects and leaves running is its own, for any    *)
(* calls and any number of children that die, hang or are killed: an answer *)
(* goes to the call that asked, an exit rejects the calls of the child that *)
(* ended and of no successor, and no child runs that nobody refers to and   *)
(* nobody has killed (worker-bridge.ts, python-bridge.ts).                  *)
THEOREM BridgeSound == BridgeSpec => []BridgeIsSound
  <1>1. BridgeInit => BridgeInv
    <2> SUFFICES ASSUME BridgeInit PROVE BridgeInv
      OBVIOUS
    <2>1. /\ kids = <<>> /\ Len(kids) = 0 /\ current = 0 /\ nextId = 1 /\ deaths = 0
          /\ half \in BOOLEAN /\ down \in BOOLEAN
      BY DEF BridgeInit
    <2>2. Unmade \in CallRecords /\ Unmade.at = "idle"
      BY DEF Unmade, CallRecords, CallStates
    <2>3. calls \in [Calls -> CallRecords] /\ \A c \in Calls : calls[c].at = "idle"
      BY <2>2 DEF BridgeInit
    <2>4. BridgeTypes
      BY <2>1, <2>3 DEF BridgeTypes
    <2>5. UseInv
      BY <2>3 DEF BridgeInit, UseInv
    <2>6. OwnInv
      BY <2>1, <2>3 DEF OwnInv, AnswerIsOwn
    <2>7. KidInv
      BY <2>1, <2>3 DEF KidInv, RejectedIsOwn
    <2> QED
      BY <2>4, <2>5, <2>6, <2>7 DEF BridgeInv
  <1>2. BridgeInv /\ [BridgeNext]_bridgeVars => BridgeInv'
    <2> SUFFICES ASSUME BridgeInv, [BridgeNext]_bridgeVars PROVE BridgeInv'
      OBVIOUS
    <2>1. ASSUME NEW k \in DOMAIN kids,
                 serve(k) \/ main(k) \/ Hang(k) \/ Ends(k) \/ OnEvent(k)
          PROVE  BridgeInv'
      BY <2>1, ServeKeeps, HangKeeps, EndsKeeps, DataKeeps, ExitKeeps DEF OnEvent
    <2>2. CASE UNCHANGED bridgeVars
      <3>1. UNCHANGED <<kind, use, current, half, nextId, kids, calls, down, deaths>>
        BY <2>2 DEF bridgeVars
      <3>2. BridgeTypes' /\ UseInv'
        BY <3>1 DEF BridgeInv, BridgeTypes, UseInv
      <3>3. OwnInv'
        BY <3>1 DEF BridgeInv, OwnInv, KidOwn, OwnId, AnswerIsOwn
      <3>4. KidInv'
        BY <3>1 DEF BridgeInv, KidInv, Sealed, RejectedIsOwn
      <3> QED
        BY <3>2, <3>3, <3>4 DEF BridgeInv
    <2> QED
      BY <2>1, <2>2, RequestKeeps, CloseKeeps, TimeoutKeeps DEF BridgeNext
  <1>3. BridgeInv => BridgeIsSound
    <2> SUFFICES ASSUME BridgeInv PROVE BridgeIsSound
      OBVIOUS
    <2>1. DOMAIN kids = 1..Len(kids)
      BY DEF BridgeInv, BridgeTypes
    <2>2. BridgeTypeOK
      BY <2>1 DEF BridgeInv, BridgeTypes, BridgeTypeOK, CallRecords, CallStates
    <2>3. NoneLeaked
      BY <2>1 DEF BridgeInv, KidInv, NoneLeaked
    <2> QED
      BY <2>2, <2>3 DEF BridgeInv, OwnInv, KidInv, BridgeIsSound
  <1> QED
    BY <1>1, <1>2, <1>3, PTL DEF BridgeSpec

-----------------------------------------------------------------------------
(* The sandbox. *)

ExRecords == [pc : {"idle", "admission", "steps", "waiting", "scan", "hash", "cleanup",
                    "outcome", "returned"},
              input : Inputs, late : BOOLEAN, codes : Seq({0, 1, 124}),
              condition : {"success", "failure", "timeout", "resource_exhausted"},
              files : Nat, cleaned : BOOLEAN, killed : BOOLEAN, tries : Nat,
              result : {"none", "Passed", "Failed", "thrown"}]
ChildRecords == [shell : {"none", "running", "zero", "nonzero", "signal"},
                 tree : {"none", "attached", "detached"}, signalled : BOOLEAN]
SpaceRecords == [exists : BOOLEAN, files : 0..FileBound]

AllZero(x) == \A i \in 1..Len(x.codes) : x.codes[i] = 0
RanAll(n, x) == Len(x.codes) = n /\ AllZero(x)

\* What holds of one execution of n steps at every point of its way: the package was
\* admitted before anything exists, the steps so far have succeeded, a condition that is
\* still "success" is earned, and the directory is there until it is removed.
ExecutionOK(n, x, c, s) ==
    /\ Len(x.codes) <= n /\ x.tries < Tries
    /\ x.pc = "idle" => c.shell = "none" /\ c.tree = "none" /\ ~s.exists
    /\ s.exists \/ c.shell # "none" \/ c.tree # "none" => x.input = "genuine"
    /\ x.pc \in {"idle", "admission"} => x.codes = <<>> /\ x.condition = "success"
    /\ x.pc \in {"steps", "waiting"} => Len(x.codes) < n /\ AllZero(x) /\ x.condition = "success"
    /\ x.pc \in {"scan", "hash", "cleanup", "outcome"} /\ x.condition = "success" => RanAll(n, x)
    /\ x.pc \in {"hash", "cleanup", "outcome"} /\ x.condition = "success" => x.files <= MaxFiles
    /\ x.pc \in {"steps", "waiting", "scan", "hash", "cleanup"} => s.exists
    /\ x.pc = "outcome" => (x.cleaned <=> ~s.exists)
    /\ x.result # "none" => x.pc = "returned"
    /\ x.result \in {"Passed", "Failed"} /\ x.codes # <<>> => (x.cleaned <=> ~s.exists)
    /\ x.result = "Passed" => RanAll(n, x) /\ x.files <= MaxFiles /\ x.condition = "success"

\* The stages an execution at this point has announced.
Announced(pc) ==
    CASE pc = "admission" -> 2
      [] pc \in {"steps", "waiting", "scan"} -> 4
      [] pc = "hash" -> 5
      [] pc = "cleanup" -> 8
      [] pc = "outcome" -> 9
      [] OTHER -> 0
Prefix(sh, n) == \A i \in 1..n : STAGES[i] \in sh
StagesOK(sh) ==
    /\ sh \subseteq {STAGES[i] : i \in 1..9}
    /\ \A i, j \in 1..9 : i < j /\ STAGES[j] \in sh => STAGES[i] \in sh

SandboxTypes ==
    /\ ex \in [Executions -> ExRecords] /\ child \in [Executions -> ChildRecords]
    /\ space \in [Executions -> SpaceRecords]
SandboxInv ==
    /\ SandboxTypes
    /\ \A e \in Executions : ExecutionOK(StepCount(e), ex[e], child[e], space[e])
    /\ \A e \in Executions : Prefix(shown, Announced(ex[e].pc))
    /\ StagesOK(shown)

LEMMA StagesDistinct == \A i, j \in 1..9 : STAGES[i] = STAGES[j] => i = j
  BY DEF STAGES

\* The events of stages first to last keep the stages shown a prefix.
LEMMA Announce ==
    ASSUME StagesOK(shown), NEW first \in 1..9, NEW last \in first..9,
           Prefix(shown, first - 1), ev(first, last)
    PROVE  StagesOK(shown') /\ Prefix(shown', last) /\ shown \subseteq shown'
  <1> DEFINE st(i) == STAGES[i]
  <1>1. shown' = shown \cup {st(i) : i \in first..last}
    BY DEF ev
  <1>2. \A i, j \in 1..9 : st(i) = st(j) => i = j
    BY StagesDistinct
  <1>3. /\ shown \subseteq {st(i) : i \in 1..9}
        /\ \A i, j \in 1..9 : i < j /\ st(j) \in shown => st(i) \in shown
        /\ \A i \in 1..(first - 1) : st(i) \in shown
    BY DEF StagesOK, Prefix
  <1> HIDE DEF st
  <1>4. \A i \in 1..last : st(i) \in shown'
    BY <1>1, <1>3
  <1>5. shown' \subseteq {st(i) : i \in 1..9}
    BY <1>1, <1>3
  <1>6. ASSUME NEW i \in 1..9, NEW j \in 1..9, i < j, st(j) \in shown'
        PROVE  st(i) \in shown'
    <2>1. CASE st(j) \in shown
      BY <1>1, <1>3, <1>6, <2>1
    <2>2. CASE \E k \in first..last : st(j) = st(k)
      <3>1. j \in first..last
        BY <1>2, <2>2
      <3> QED
        BY <1>4, <1>6, <3>1
    <2> QED
      BY <1>1, <1>6, <2>1, <2>2
  <1>7. shown \subseteq shown'
    BY <1>1
  <1> QED
    BY <1>4, <1>5, <1>6, <1>7 DEF StagesOK, Prefix, st

LEMMA AnnouncedNat == \A pc : Announced(pc) \in 0..9
  BY DEF Announced

LEMMA StepCountNat == \A e \in Executions : StepCount(e) \in Nat \ {0}
  BY SandboxAssumption DEF StepCount

\* A step of one execution, its child or its directory.
LEMMA ExecutionKeeps ==
    ASSUME SandboxInv, NEW e \in Executions,
           NEW x \in ExRecords, NEW c \in ChildRecords, NEW s \in SpaceRecords,
           ex' = [ex EXCEPT ![e] = x], child' = [child EXCEPT ![e] = c],
           space' = [space EXCEPT ![e] = s],
           ExecutionOK(StepCount(e), x, c, s),
           StagesOK(shown'), shown \subseteq shown', Prefix(shown', Announced(x.pc))
    PROVE  SandboxInv'
  <1>1. SandboxTypes' /\ ex'[e] = x /\ child'[e] = c /\ space'[e] = s
        /\ \A d \in Executions \ {e} : ex'[d] = ex[d] /\ child'[d] = child[d] /\ space'[d] = space[d]
    BY DEF SandboxInv, SandboxTypes
  <1>2. ASSUME NEW d \in Executions
        PROVE  ExecutionOK(StepCount(d), ex'[d], child'[d], space'[d])
    BY <1>1 DEF SandboxInv
  <1>3. ASSUME NEW d \in Executions
        PROVE  Prefix(shown', Announced(ex'[d].pc))
    BY <1>1 DEF SandboxInv, Prefix
  <1> QED
    BY <1>1, <1>2, <1>3 DEF SandboxInv, StepCount, Container

\* The facts every step begins from.
LEMMA ExecutionFacts ==
    ASSUME SandboxInv, NEW e \in Executions
    PROVE  /\ ex[e] \in ExRecords /\ child[e] \in ChildRecords /\ space[e] \in SpaceRecords
           /\ ExecutionOK(StepCount(e), ex[e], child[e], space[e])
           /\ StagesOK(shown) /\ Prefix(shown, Announced(ex[e].pc))
           /\ ex = [ex EXCEPT ![e] = ex[e]] /\ child = [child EXCEPT ![e] = child[e]]
           /\ space = [space EXCEPT ![e] = space[e]]
  BY DEF SandboxInv, SandboxTypes

LEMMA HandoffKeeps ==
    ASSUME SandboxInv, NEW e \in Executions, Handoff(e)
    PROVE  SandboxInv'
  <1>1. PICK i \in Inputs : ex' = [ex EXCEPT ![e].pc = "admission", ![e].input = i]
    BY DEF Handoff
  <1> DEFINE x == [ex[e] EXCEPT !.pc = "admission", !.input = i]
  <1>2. ex' = [ex EXCEPT ![e] = x]
    BY <1>1
  <1>3. x \in ExRecords /\ x.pc = "admission" /\ x.input = i /\ x.codes = ex[e].codes
        /\ x.condition = ex[e].condition /\ x.tries = ex[e].tries /\ x.result = ex[e].result
    BY ExecutionFacts DEF ExRecords
  <1> HIDE DEF x
  <1>4. ex[e].pc = "idle" /\ child' = child /\ space' = space /\ ev(1, 2)
    BY DEF Handoff
  <1>5. ExecutionOK(StepCount(e), x, child[e], space[e])
    BY <1>3, <1>4, ExecutionFacts DEF ExecutionOK
  <1>6. StagesOK(shown') /\ Prefix(shown', 2) /\ shown \subseteq shown'
    <2>1. Prefix(shown, 1 - 1)
      BY DEF Prefix
    <2> QED
      BY <1>4, <2>1, Announce, ExecutionFacts
  <1>7. Prefix(shown', Announced(x.pc))
    BY <1>3, <1>6 DEF Announced
  <1>8. /\ child' = [child EXCEPT ![e] = child[e]] /\ child[e] \in ChildRecords
        /\ space' = [space EXCEPT ![e] = space[e]] /\ space[e] \in SpaceRecords
    BY <1>4, ExecutionFacts
  <1> QED
    BY <1>2, <1>3, <1>5, <1>6, <1>7, <1>8, ExecutionKeeps

\* A step that announces nothing.
LEMMA QuietKeeps ==
    ASSUME SandboxInv, NEW e \in Executions,
           NEW x \in ExRecords, NEW c \in ChildRecords, NEW s \in SpaceRecords,
           ex' = [ex EXCEPT ![e] = x], child' = [child EXCEPT ![e] = c],
           space' = [space EXCEPT ![e] = s], shown' = shown,
           ExecutionOK(StepCount(e), x, c, s), Announced(x.pc) <= Announced(ex[e].pc)
    PROVE  SandboxInv'
  <1>1. StagesOK(shown') /\ shown \subseteq shown'
    BY ExecutionFacts
  <1>2. Prefix(shown', Announced(x.pc))
    BY ExecutionFacts, AnnouncedNat DEF Prefix
  <1> QED
    BY <1>1, <1>2, ExecutionKeeps

\* A step of the package's plan is over.
LEMMA EndedOK ==
    ASSUME SandboxInv, NEW e \in Executions, ex[e].pc \in {"steps", "waiting"},
           NEW code, NEW cond,
           (code = 0 /\ cond = "success") \/ (code = 1 /\ cond = "failure"),
           Ended(e, code, cond)
    PROVE  \E x \in ExRecords : /\ ex' = [ex EXCEPT ![e] = x]
                                /\ Announced(x.pc) <= Announced(ex[e].pc)
                                /\ \A c \in ChildRecords : ExecutionOK(StepCount(e), x, c, space[e])
  <1> DEFINE cs == Append(ex[e].codes, code)
             next == IF code # 0 \/ Len(ex[e].codes) + 1 = StepCount(e) THEN "scan" ELSE "steps"
             kd == ex[e].killed \/ child[e].signalled
             x == [ex[e] EXCEPT !.codes = cs, !.condition = cond, !.pc = next, !.killed = kd]
  <1>1. ex' = [ex EXCEPT ![e] = x]
    BY DEF Ended
  <1>2. ex[e].codes \in Seq({0, 1, 124}) /\ child[e].signalled \in BOOLEAN /\ ex[e].killed \in BOOLEAN
    BY ExecutionFacts DEF ExRecords, ChildRecords
  <1>3. cs \in Seq({0, 1, 124}) /\ Len(cs) = Len(ex[e].codes) + 1 /\ cs[Len(ex[e].codes) + 1] = code
        /\ \A i \in 1..Len(ex[e].codes) : cs[i] = ex[e].codes[i]
    BY <1>2
  <1> HIDE DEF cs
  <1>4. kd \in BOOLEAN /\ cond \in {"success", "failure"}
    BY <1>2
  <1> HIDE DEF kd
  <1>5. next \in {"scan", "steps"}
    OBVIOUS
  <1>6. x \in ExRecords /\ x.codes = cs /\ x.condition = cond /\ x.pc = next
        /\ x.input = ex[e].input /\ x.tries = ex[e].tries /\ x.result = ex[e].result
    <2>1. ex[e] \in ExRecords
      BY ExecutionFacts
    <2> HIDE DEF next
    <2>2. x \in ExRecords
      BY <1>3, <1>4, <1>5, <2>1 DEF ExRecords
    <2> QED
      BY <2>1, <2>2 DEF ExRecords
  <1> HIDE DEF x
  <1>7. Announced(x.pc) <= Announced(ex[e].pc)
    BY <1>5, <1>6 DEF Announced
  <1>8. Len(ex[e].codes) \in Nat /\ StepCount(e) \in Nat
    BY <1>2, StepCountNat
  <1>9. /\ Len(ex[e].codes) < StepCount(e) /\ AllZero(ex[e]) /\ ex[e].result # "Passed"
        /\ space[e].exists /\ ex[e].input = "genuine" /\ ex[e].result = "none" /\ ex[e].tries < Tries
    BY ExecutionFacts DEF ExecutionOK
  <1>10. code = 0 => AllZero(x)
    BY <1>3, <1>6, <1>8, <1>9 DEF AllZero
  <1>11. ASSUME NEW c \in ChildRecords PROVE ExecutionOK(StepCount(e), x, c, space[e])
    BY <1>3, <1>6, <1>8, <1>9, <1>10 DEF ExecutionOK, RanAll
  <1> QED
    BY <1>1, <1>6, <1>7, <1>11

LEMMA AdmissionKeeps ==
    ASSUME SandboxInv, NEW e \in Executions, VerifySandboxAdmission(e)
    PROVE  SandboxInv'
  <1>1. ex[e].pc = "admission" /\ child' = child
    BY DEF VerifySandboxAdmission
  <1>2. child' = [child EXCEPT ![e] = child[e]] /\ child[e] \in ChildRecords
    BY <1>1, ExecutionFacts
  <1>3. Prefix(shown, 2)
    BY <1>1, ExecutionFacts DEF Announced
  <1>4. CASE /\ Admits(ex[e].input) /\ ex' = [ex EXCEPT ![e].pc = "steps"]
             /\ space' = [space EXCEPT ![e].exists = TRUE] /\ ev(2, 4)
    <2> DEFINE x == [ex[e] EXCEPT !.pc = "steps"]
               s == [space[e] EXCEPT !.exists = TRUE]
    <2>1. ex' = [ex EXCEPT ![e] = x] /\ space' = [space EXCEPT ![e] = s]
      BY <1>4
    <2>0. s \in SpaceRecords /\ s.exists
      BY ExecutionFacts DEF SpaceRecords
    <2>2. x \in ExRecords /\ x.pc = "steps"
          /\ x.codes = ex[e].codes /\ x.condition = ex[e].condition /\ x.input = ex[e].input
          /\ x.tries = ex[e].tries /\ x.result = ex[e].result
      BY ExecutionFacts DEF ExRecords
    <2> HIDE DEF x, s
    <2>3. x.codes = <<>> /\ x.condition = "success" /\ x.input = "genuine" /\ x.result = "none"
          /\ x.tries < Tries
      BY <1>1, <1>4, <2>2, ExecutionFacts DEF ExecutionOK, Admits
    <2>4. ExecutionOK(StepCount(e), x, child[e], s)
      BY <2>0, <2>2, <2>3, StepCountNat DEF ExecutionOK, AllZero
    <2>5. Prefix(shown, 2 - 1)
      BY <1>3 DEF Prefix
    <2>6. StagesOK(shown') /\ Prefix(shown', 4) /\ shown \subseteq shown'
      BY <1>4, <2>5, Announce, ExecutionFacts
    <2>7. Prefix(shown', Announced(x.pc))
      BY <2>2, <2>6 DEF Announced
    <2> QED
      BY <1>2, <2>0, <2>1, <2>2, <2>4, <2>6, <2>7, ExecutionKeeps
  <1>5. CASE /\ ex' = [ex EXCEPT ![e].pc = "returned", ![e].result = "Failed"]
             /\ ev(2, 2) /\ space' = space
    <2> DEFINE x == [ex[e] EXCEPT !.pc = "returned", !.result = "Failed"]
    <2>1. ex' = [ex EXCEPT ![e] = x]
      BY <1>5
    <2>2. x \in ExRecords /\ x.pc = "returned" /\ x.result = "Failed"
          /\ x.codes = ex[e].codes /\ x.input = ex[e].input /\ x.tries = ex[e].tries
      BY ExecutionFacts DEF ExRecords
    <2> HIDE DEF x
    <2>3. ExecutionOK(StepCount(e), x, child[e], space[e])
      BY <1>1, <2>2, ExecutionFacts DEF ExecutionOK
    <2>4. Prefix(shown, 2 - 1)
      BY <1>3 DEF Prefix
    <2>5. StagesOK(shown') /\ shown \subseteq shown'
      BY <1>5, <2>4, Announce, ExecutionFacts
    <2>6. Prefix(shown', Announced(x.pc))
      BY <2>2 DEF Announced, Prefix
    <2>7. space' = [space EXCEPT ![e] = space[e]] /\ space[e] \in SpaceRecords
      BY <1>5, ExecutionFacts
    <2> QED
      BY <1>2, <2>1, <2>2, <2>3, <2>5, <2>6, <2>7, ExecutionKeeps
  <1> QED
    BY <1>4, <1>5 DEF VerifySandboxAdmission

LEMMA DeadlineKeeps ==
    ASSUME SandboxInv, NEW e \in Executions, DeadlinePasses(e)
    PROVE  SandboxInv'
  <1> DEFINE x == [ex[e] EXCEPT !.late = TRUE]
  <1>1. /\ ex' = [ex EXCEPT ![e] = x] /\ child' = child /\ space' = space /\ shown' = shown
    BY DEF DeadlinePasses
  <1>2. x \in ExRecords /\ x.pc = ex[e].pc /\ x.codes = ex[e].codes /\ x.input = ex[e].input
        /\ x.tries = ex[e].tries /\ x.condition = ex[e].condition /\ x.result = ex[e].result
        /\ x.files = ex[e].files /\ x.cleaned = ex[e].cleaned
    BY ExecutionFacts DEF ExRecords
  <1> HIDE DEF x
  <1>3. ExecutionOK(StepCount(e), x, child[e], space[e])
    BY <1>2, ExecutionFacts DEF ExecutionOK, RanAll, AllZero
  <1>4. /\ child' = [child EXCEPT ![e] = child[e]] /\ child[e] \in ChildRecords
        /\ space' = [space EXCEPT ![e] = space[e]] /\ space[e] \in SpaceRecords
    BY <1>1, ExecutionFacts
  <1>5. Announced(x.pc) <= Announced(ex[e].pc)
    BY <1>2, AnnouncedNat
  <1> QED
    BY <1>1, <1>2, <1>3, <1>4, <1>5, QuietKeeps

LEMMA StartStepKeeps ==
    ASSUME SandboxInv, NEW e \in Executions, StartStep(e) \/ RunContainer(e)
    PROVE  SandboxInv'
  <1>1. ex[e].pc = "steps" /\ space' = space /\ shown' = shown
    BY DEF StartStep, RunContainer
  <1>2. space' = [space EXCEPT ![e] = space[e]] /\ space[e] \in SpaceRecords
    BY <1>1, ExecutionFacts
  <1>3. CASE ex' = [ex EXCEPT ![e].pc = "scan", ![e].condition = "timeout"] /\ child' = child
    <2> DEFINE x == [ex[e] EXCEPT !.pc = "scan", !.condition = "timeout"]
    <2>1. ex' = [ex EXCEPT ![e] = x]
      BY <1>3
    <2>2. x \in ExRecords /\ x.pc = "scan" /\ x.condition = "timeout" /\ x.codes = ex[e].codes
          /\ x.input = ex[e].input /\ x.tries = ex[e].tries /\ x.result = ex[e].result
      BY ExecutionFacts DEF ExRecords
    <2> HIDE DEF x
    <2>3. ExecutionOK(StepCount(e), x, child[e], space[e])
      BY <1>1, <2>2, ExecutionFacts DEF ExecutionOK
    <2>4. child' = [child EXCEPT ![e] = child[e]] /\ child[e] \in ChildRecords
      BY <1>3, ExecutionFacts
    <2>5. Announced(x.pc) <= Announced(ex[e].pc)
      BY <1>1, <2>2 DEF Announced
    <2> QED
      BY <1>1, <1>2, <2>1, <2>2, <2>3, <2>4, <2>5, QuietKeeps
  <1>4. ASSUME NEW x \in ExRecords, ex' = [ex EXCEPT ![e] = x],
               NEW c \in ChildRecords, child' = [child EXCEPT ![e] = c],
               x.pc = "waiting" /\ x.codes = ex[e].codes /\ x.condition = ex[e].condition,
               x.input = ex[e].input /\ x.tries = ex[e].tries /\ x.result = ex[e].result
        PROVE  SandboxInv'
    <2>1. ExecutionOK(StepCount(e), x, c, space[e])
      BY <1>1, <1>4, ExecutionFacts DEF ExecutionOK, AllZero
    <2>2. Announced(x.pc) <= Announced(ex[e].pc)
      BY <1>1, <1>4 DEF Announced
    <2> QED
      BY <1>1, <1>2, <1>4, <2>1, <2>2, QuietKeeps
  <1>5. CASE ex' = [ex EXCEPT ![e].pc = "waiting"]
             /\ child' = [child EXCEPT ![e].shell = "running", ![e].signalled = FALSE]
    <2> DEFINE x == [ex[e] EXCEPT !.pc = "waiting"]
               c == [child[e] EXCEPT !.shell = "running", !.signalled = FALSE]
    <2>1. ex' = [ex EXCEPT ![e] = x] /\ child' = [child EXCEPT ![e] = c]
      BY <1>5
    <2>0. c \in ChildRecords
      BY ExecutionFacts DEF ChildRecords
    <2>2. x \in ExRecords
          /\ x.pc = "waiting" /\ x.codes = ex[e].codes /\ x.condition = ex[e].condition
          /\ x.input = ex[e].input /\ x.tries = ex[e].tries /\ x.result = ex[e].result
      BY ExecutionFacts DEF ExRecords
    <2> HIDE DEF x, c
    <2> QED
      BY <1>4, <2>0, <2>1, <2>2
  <1>6. CASE ex' = [ex EXCEPT ![e].pc = "waiting", ![e].late = FALSE]
             /\ child' = [child EXCEPT ![e].shell = "running"]
    <2> DEFINE x == [ex[e] EXCEPT !.pc = "waiting", !.late = FALSE]
               c == [child[e] EXCEPT !.shell = "running"]
    <2>1. ex' = [ex EXCEPT ![e] = x] /\ child' = [child EXCEPT ![e] = c]
      BY <1>6
    <2>0. c \in ChildRecords
      BY ExecutionFacts DEF ChildRecords
    <2>2. x \in ExRecords
          /\ x.pc = "waiting" /\ x.codes = ex[e].codes /\ x.condition = ex[e].condition
          /\ x.input = ex[e].input /\ x.tries = ex[e].tries /\ x.result = ex[e].result
      BY ExecutionFacts DEF ExRecords
    <2> HIDE DEF x, c
    <2> QED
      BY <1>4, <2>0, <2>1, <2>2
  <1>7. CASE Ended(e, 1, "failure") /\ child' = child
    <2>1. PICK x \in ExRecords : /\ ex' = [ex EXCEPT ![e] = x]
                                 /\ Announced(x.pc) <= Announced(ex[e].pc)
                                 /\ \A c \in ChildRecords : ExecutionOK(StepCount(e), x, c, space[e])
      BY <1>1, <1>7, EndedOK
    <2>2. child' = [child EXCEPT ![e] = child[e]] /\ child[e] \in ChildRecords
      BY <1>7, ExecutionFacts
    <2> QED
      BY <1>1, <1>2, <2>1, <2>2, QuietKeeps
  <1> QED
    BY <1>3, <1>5, <1>6, <1>7 DEF StartStep, RunContainer

\* A child goes on by itself.
LEMMA ChildKeeps ==
    ASSUME SandboxInv, NEW e \in Executions, NEW c \in ChildRecords,
           child' = [child EXCEPT ![e] = c], ex' = ex, space' = space, shown' = shown,
           child[e].shell # "none" \/ child[e].tree # "none"
    PROVE  SandboxInv'
  <1>1. ExecutionOK(StepCount(e), ex[e], c, space[e])
    BY ExecutionFacts DEF ExecutionOK
  <1>2. /\ ex' = [ex EXCEPT ![e] = ex[e]] /\ ex[e] \in ExRecords
        /\ space' = [space EXCEPT ![e] = space[e]] /\ space[e] \in SpaceRecords
    BY ExecutionFacts
  <1>3. Announced(ex[e].pc) <= Announced(ex[e].pc)
    BY AnnouncedNat
  <1> QED
    BY <1>1, <1>2, <1>3, QuietKeeps

LEMMA ChildStepKeeps ==
    ASSUME SandboxInv, NEW e \in Executions, ChildStep(e)
    PROVE  SandboxInv'
  <1>0. child[e] \in ChildRecords /\ space[e] \in SpaceRecords
    BY ExecutionFacts
  <1>1. CASE Fork(e)
    <2>1. PICK t \in {"attached", "detached"} : child' = [child EXCEPT ![e].tree = t]
      BY <1>1 DEF Fork
    <2> DEFINE c == [child[e] EXCEPT !.tree = t]
    <2>2. child' = [child EXCEPT ![e] = c]
      BY <2>1
    <2>3. c \in ChildRecords
      BY <1>0 DEF ChildRecords
    <2> HIDE DEF c
    <2>4. ex' = ex /\ space' = space /\ shown' = shown /\ child[e].shell # "none"
      BY <1>1 DEF Fork
    <2> QED
      BY <2>2, <2>3, <2>4, ChildKeeps
  <1>2. CASE ShellExits(e)
    <2>1. PICK how \in {"zero", "nonzero", "signal"} :
              child' = [child EXCEPT ![e].shell = how, ![e].signalled = (how = "signal")]
      BY <1>2 DEF ShellExits
    <2> DEFINE g == (how = "signal")
               c == [child[e] EXCEPT !.shell = how, !.signalled = g]
    <2>2. child' = [child EXCEPT ![e] = c]
      BY <2>1
    <2>3. g \in BOOLEAN
      OBVIOUS
    <2> HIDE DEF g
    <2>4. c \in ChildRecords
      BY <1>0, <2>3 DEF ChildRecords
    <2> HIDE DEF c
    <2>5. ex' = ex /\ space' = space /\ shown' = shown /\ child[e].shell # "none"
      BY <1>2 DEF ShellExits
    <2> QED
      BY <2>2, <2>4, <2>5, ChildKeeps
  <1>3. CASE TreeExits(e)
    <2> DEFINE c == [child[e] EXCEPT !.tree = "none"]
    <2>1. child' = [child EXCEPT ![e] = c]
      BY <1>3 DEF TreeExits
    <2>2. c \in ChildRecords
      BY <1>0 DEF ChildRecords
    <2> HIDE DEF c
    <2>3. ex' = ex /\ space' = space /\ shown' = shown /\ child[e].tree # "none"
      BY <1>3 DEF TreeExits
    <2> QED
      BY <2>1, <2>2, <2>3, ChildKeeps
  <1>4. CASE WriteFile(e)
    <2> DEFINE n == space[e].files + 1
               s == [space[e] EXCEPT !.files = n]
    <2>1. space' = [space EXCEPT ![e] = s]
      BY <1>4 DEF WriteFile
    <2>2. space[e].files < FileBound /\ space[e].files \in 0..FileBound
      BY <1>0, <1>4 DEF WriteFile, SpaceRecords
    <2>8. n \in 0..FileBound
      BY <2>2, SandboxAssumption
    <2> HIDE DEF n
    <2>3. s \in SpaceRecords /\ s.exists = space[e].exists
      BY <1>0, <2>8 DEF SpaceRecords
    <2> HIDE DEF s
    <2>4. ex' = ex /\ child' = child /\ shown' = shown
      BY <1>4 DEF WriteFile
    <2>5. ExecutionOK(StepCount(e), ex[e], child[e], s)
      BY <2>3, ExecutionFacts DEF ExecutionOK
    <2>6. /\ ex' = [ex EXCEPT ![e] = ex[e]] /\ ex[e] \in ExRecords
          /\ child' = [child EXCEPT ![e] = child[e]]
      BY <2>4, ExecutionFacts
    <2>7. Announced(ex[e].pc) <= Announced(ex[e].pc)
      BY AnnouncedNat
    <2> QED
      BY <1>0, <2>1, <2>3, <2>4, <2>5, <2>6, <2>7, QuietKeeps
  <1> QED
    BY <1>1, <1>2, <1>3, <1>4 DEF ChildStep

LEMMA ClosesKeeps ==
    ASSUME SandboxInv, NEW e \in Executions, ChildCloses(e)
    PROVE  SandboxInv'
  <1> DEFINE c == [child[e] EXCEPT !.shell = "none"]
  <1>1. ex[e].pc \in {"steps", "waiting"} /\ child' = [child EXCEPT ![e] = c] /\ space' = space
        /\ shown' = shown
    BY DEF ChildCloses
  <1>2. child[e] \in ChildRecords
    BY ExecutionFacts
  <1>3. c \in ChildRecords
    BY <1>2 DEF ChildRecords
  <1> HIDE DEF c
  <1>4. Ended(e, 1, "failure") \/ Ended(e, 0, "success")
    BY DEF ChildCloses
  <1>5. PICK x \in ExRecords : /\ ex' = [ex EXCEPT ![e] = x]
                               /\ Announced(x.pc) <= Announced(ex[e].pc)
                               /\ \A d \in ChildRecords : ExecutionOK(StepCount(e), x, d, space[e])
    BY <1>1, <1>4, EndedOK
  <1>6. space' = [space EXCEPT ![e] = space[e]] /\ space[e] \in SpaceRecords
    BY <1>1, ExecutionFacts
  <1> QED
    BY <1>1, <1>3, <1>5, <1>6, QuietKeeps

LEMMA TimerKeeps ==
    ASSUME SandboxInv, NEW e \in Executions, TimerFires(e) \/ ContainerTimerFires(e)
    PROVE  SandboxInv'
  <1> DEFINE cs == Append(ex[e].codes, 124)
             x == [ex[e] EXCEPT !.codes = cs, !.condition = "timeout", !.pc = "scan"]
             posix == [child[e] EXCEPT !.shell = "none"]
             docker == [child[e] EXCEPT !.shell = "none", !.tree =
                           IF child[e].shell = "running" THEN "detached" ELSE child[e].tree]
  <1>1. ex[e].pc = "waiting" /\ ex' = [ex EXCEPT ![e] = x] /\ space' = space /\ shown' = shown
    <2>1. CASE TimerFires(e)
      BY <2>1 DEF TimerFires, TimedOut
    <2>2. CASE ContainerTimerFires(e)
      BY <2>2 DEF ContainerTimerFires, TimedOut
    <2> QED
      BY <2>1, <2>2
  <1>2. \/ child' = [child EXCEPT ![e] = NoChild] \/ child' = [child EXCEPT ![e] = posix]
        \/ child' = [child EXCEPT ![e] = docker]
    <2>1. CASE TimerFires(e)
      BY <2>1, Zenon DEF TimerFires
    <2>2. CASE ContainerTimerFires(e)
      <3>1. child' = [child EXCEPT ![e] = docker]
        BY <2>2 DEF ContainerTimerFires
      <3> QED
        BY <3>1
    <2> QED
      BY <2>1, <2>2
  <1>3. ex[e] \in ExRecords /\ child[e] \in ChildRecords
    BY ExecutionFacts
  <1>4. NoChild \in ChildRecords /\ posix \in ChildRecords /\ docker \in ChildRecords
    BY <1>3 DEF ChildRecords, NoChild
  <1> HIDE DEF posix, docker
  <1>5. PICK c \in ChildRecords : child' = [child EXCEPT ![e] = c]
    BY <1>2, <1>4
  <1>6. ex[e].codes \in Seq({0, 1, 124})
    BY <1>3 DEF ExRecords
  <1>7. cs \in Seq({0, 1, 124}) /\ Len(cs) = Len(ex[e].codes) + 1 /\ Len(ex[e].codes) \in Nat
    BY <1>6
  <1> HIDE DEF cs
  <1>8. x \in ExRecords
    BY <1>3, <1>7 DEF ExRecords
  <1>9. x.codes = cs /\ x.condition = "timeout" /\ x.pc = "scan"
        /\ x.input = ex[e].input /\ x.tries = ex[e].tries /\ x.result = ex[e].result
    BY <1>3 DEF ExRecords
  <1> HIDE DEF x
  <1>10. Len(ex[e].codes) < StepCount(e) /\ ex[e].tries < Tries /\ space[e].exists
         /\ ex[e].input = "genuine" /\ ex[e].result = "none"
    BY <1>1, ExecutionFacts DEF ExecutionOK
  <1>11. Len(x.codes) <= StepCount(e)
    BY <1>7, <1>9, <1>10, StepCountNat
  <1>12. ExecutionOK(StepCount(e), x, c, space[e])
    BY <1>9, <1>10, <1>11 DEF ExecutionOK
  <1>13. space' = [space EXCEPT ![e] = space[e]] /\ space[e] \in SpaceRecords
    BY <1>1, ExecutionFacts
  <1>14. Announced(x.pc) <= Announced(ex[e].pc)
    BY <1>1, <1>9 DEF Announced
  <1> QED
    BY <1>1, <1>5, <1>8, <1>12, <1>13, <1>14, QuietKeeps

LEMMA ScanKeeps ==
    ASSUME SandboxInv, NEW e \in Executions, ScanWorkspace(e)
    PROVE  SandboxInv'
  <1> DEFINE n == IF Process(e) THEN space[e].files ELSE 0
             cond == IF n > MaxFiles THEN "resource_exhausted" ELSE ex[e].condition
             x == [ex[e] EXCEPT !.pc = "hash", !.files = n, !.condition = cond]
  <1>1. ex[e].pc = "scan" /\ ex' = [ex EXCEPT ![e] = x] /\ child' = child /\ space' = space /\ ev(5, 5)
    BY DEF ScanWorkspace
  <1>2. ex[e] \in ExRecords /\ space[e] \in SpaceRecords /\ child[e] \in ChildRecords
    BY ExecutionFacts
  <1>3. n \in Nat
    BY <1>2, SandboxAssumption DEF SpaceRecords
  <1> HIDE DEF n
  <1>4. cond \in {"success", "failure", "timeout", "resource_exhausted"}
        /\ (cond = "success" => ex[e].condition = "success" /\ n <= MaxFiles)
    BY <1>2, <1>3, SandboxAssumption DEF ExRecords
  <1> HIDE DEF cond
  <1>5. x \in ExRecords
    BY <1>2, <1>3, <1>4 DEF ExRecords
  <1>6. x.pc = "hash" /\ x.files = n /\ x.condition = cond /\ x.codes = ex[e].codes
        /\ x.input = ex[e].input /\ x.tries = ex[e].tries /\ x.result = ex[e].result
    BY <1>2 DEF ExRecords
  <1> HIDE DEF x
  <1>7. ExecutionOK(StepCount(e), x, child[e], space[e])
    BY <1>1, <1>4, <1>6, ExecutionFacts DEF ExecutionOK, RanAll, AllZero
  <1>8. Prefix(shown, 5 - 1)
    BY <1>1, ExecutionFacts DEF Announced
  <1>9. StagesOK(shown') /\ Prefix(shown', 5) /\ shown \subseteq shown'
    BY <1>1, <1>8, Announce, ExecutionFacts
  <1>10. Prefix(shown', Announced(x.pc))
    BY <1>6, <1>9 DEF Announced
  <1>11. child' = [child EXCEPT ![e] = child[e]] /\ space' = [space EXCEPT ![e] = space[e]]
    BY <1>1, ExecutionFacts
  <1> QED
    BY <1>1, <1>2, <1>5, <1>7, <1>9, <1>10, <1>11, ExecutionKeeps

LEMMA EvidenceKeeps ==
    ASSUME SandboxInv, NEW e \in Executions, RecordEvidence(e)
    PROVE  SandboxInv'
  <1>1. ex[e].pc = "hash" /\ child' = child /\ space' = space
    BY DEF RecordEvidence
  <1>2. ex[e] \in ExRecords /\ space[e] \in SpaceRecords /\ child[e] \in ChildRecords
    BY ExecutionFacts
  <1>3. child' = [child EXCEPT ![e] = child[e]] /\ space' = [space EXCEPT ![e] = space[e]]
    BY <1>1, ExecutionFacts
  <1>4. CASE ex' = [ex EXCEPT ![e].pc = "cleanup"] /\ ev(6, 8)
    <2> DEFINE x == [ex[e] EXCEPT !.pc = "cleanup"]
    <2>1. ex' = [ex EXCEPT ![e] = x]
      BY <1>4
    <2>2. x \in ExRecords /\ x.pc = "cleanup" /\ x.files = ex[e].files
          /\ x.condition = ex[e].condition /\ x.codes = ex[e].codes
          /\ x.input = ex[e].input /\ x.tries = ex[e].tries /\ x.result = ex[e].result
      BY <1>2 DEF ExRecords
    <2> HIDE DEF x
    <2>3. ExecutionOK(StepCount(e), x, child[e], space[e])
      BY <1>1, <2>2, ExecutionFacts DEF ExecutionOK, RanAll, AllZero
    <2>4. Prefix(shown, 6 - 1)
      BY <1>1, ExecutionFacts DEF Announced
    <2>5. StagesOK(shown') /\ Prefix(shown', 8) /\ shown \subseteq shown'
      BY <1>4, <2>4, Announce, ExecutionFacts
    <2>6. Prefix(shown', Announced(x.pc))
      BY <2>2, <2>5 DEF Announced
    <2> QED
      BY <1>2, <1>3, <2>1, <2>2, <2>3, <2>5, <2>6, ExecutionKeeps
  <1>5. CASE ex' = [ex EXCEPT ![e].pc = "returned", ![e].result = "thrown"] /\ shown' = shown
    <2> DEFINE x == [ex[e] EXCEPT !.pc = "returned", !.result = "thrown"]
    <2>1. ex' = [ex EXCEPT ![e] = x]
      BY <1>5
    <2>2. x \in ExRecords /\ x.pc = "returned" /\ x.result = "thrown" /\ x.codes = ex[e].codes
          /\ x.input = ex[e].input /\ x.tries = ex[e].tries
      BY <1>2 DEF ExRecords
    <2> HIDE DEF x
    <2>3. ExecutionOK(StepCount(e), x, child[e], space[e])
      BY <1>1, <2>2, ExecutionFacts DEF ExecutionOK
    <2>4. Announced(x.pc) <= Announced(ex[e].pc)
      BY <1>1, <2>2 DEF Announced
    <2> QED
      BY <1>2, <1>3, <1>5, <2>1, <2>2, <2>3, <2>4, QuietKeeps
  <1> QED
    BY <1>4, <1>5 DEF RecordEvidence

LEMMA CleanupKeeps ==
    ASSUME SandboxInv, NEW e \in Executions, Cleanup(e) \/ CleanupContainer(e)
    PROVE  SandboxInv'
  <1>1. ex[e].pc = "cleanup" /\ child' = child
    BY DEF Cleanup, CleanupContainer
  <1>2. ex[e] \in ExRecords /\ space[e] \in SpaceRecords /\ child[e] \in ChildRecords
    BY ExecutionFacts
  <1>3. child' = [child EXCEPT ![e] = child[e]]
    BY <1>1, ExecutionFacts
  <1>4. ASSUME NEW b \in BOOLEAN, NEW s \in SpaceRecords, b <=> ~s.exists,
               ex' = [ex EXCEPT ![e].pc = "outcome", ![e].cleaned = b],
               space' = [space EXCEPT ![e] = s], ev(9, 9)
        PROVE  SandboxInv'
    <2> DEFINE x == [ex[e] EXCEPT !.pc = "outcome", !.cleaned = b]
    <2>1. ex' = [ex EXCEPT ![e] = x]
      BY <1>4
    <2>2. x \in ExRecords /\ x.pc = "outcome" /\ x.cleaned = b /\ x.files = ex[e].files
          /\ x.condition = ex[e].condition /\ x.codes = ex[e].codes
          /\ x.input = ex[e].input /\ x.tries = ex[e].tries /\ x.result = ex[e].result
      BY <1>2 DEF ExRecords
    <2> HIDE DEF x
    <2>3. ExecutionOK(StepCount(e), x, child[e], s)
      BY <1>1, <1>4, <2>2, ExecutionFacts DEF ExecutionOK, RanAll, AllZero
    <2>4. Prefix(shown, 9 - 1)
      BY <1>1, ExecutionFacts DEF Announced
    <2>5. StagesOK(shown') /\ Prefix(shown', 9) /\ shown \subseteq shown'
      BY <1>4, <2>4, Announce, ExecutionFacts
    <2>6. Prefix(shown', Announced(x.pc))
      BY <2>2, <2>5 DEF Announced
    <2> QED
      BY <1>2, <1>3, <1>4, <2>1, <2>2, <2>3, <2>5, <2>6, ExecutionKeeps
  <1>5. CASE Removed(e)
    <2>1. NoSpace \in SpaceRecords /\ (TRUE <=> ~NoSpace.exists)
      BY SandboxAssumption DEF SpaceRecords, NoSpace
    <2> QED
      BY <1>4, <1>5, <2>1 DEF Removed
  <1>6. CASE LeftBehind(e)
    <2>1. FALSE <=> ~space[e].exists
      BY <1>1, <1>2, ExecutionFacts DEF ExecutionOK, SpaceRecords
    <2>2. space' = [space EXCEPT ![e] = space[e]]
      BY <1>6, ExecutionFacts DEF LeftBehind
    <2> QED
      BY <1>2, <1>4, <1>6, <2>1, <2>2 DEF LeftBehind
  <1>7. CASE /\ ex[e].tries + 1 < Tries /\ ex' = [ex EXCEPT ![e].tries = @ + 1]
             /\ space' = space /\ shown' = shown
    <2> DEFINE x == [ex[e] EXCEPT !.tries = @ + 1]
    <2>1. ex' = [ex EXCEPT ![e] = x]
      BY <1>7
    <2>2. x \in ExRecords /\ x.pc = "cleanup" /\ x.files = ex[e].files
          /\ x.condition = ex[e].condition /\ x.codes = ex[e].codes
          /\ x.input = ex[e].input /\ x.tries = ex[e].tries + 1 /\ x.result = ex[e].result
      BY <1>1, <1>2 DEF ExRecords
    <2> HIDE DEF x
    <2>3. ExecutionOK(StepCount(e), x, child[e], space[e])
      BY <1>1, <1>7, <2>2, ExecutionFacts DEF ExecutionOK, RanAll, AllZero
    <2>4. Announced(x.pc) <= Announced(ex[e].pc)
      BY <1>1, <2>2, AnnouncedNat
    <2>5. space' = [space EXCEPT ![e] = space[e]] /\ shown' = shown
      BY <1>7, ExecutionFacts
    <2> QED
      BY <1>2, <1>3, <2>1, <2>2, <2>3, <2>4, <2>5, QuietKeeps
  <1> QED
    BY <1>5, <1>6, <1>7 DEF Cleanup, CleanupContainer

LEMMA ReturnKeeps ==
    ASSUME SandboxInv, NEW e \in Executions, Return(e)
    PROVE  SandboxInv'
  <1> DEFINE r == IF Passes(ex[e]) THEN "Passed" ELSE "Failed"
             x == [ex[e] EXCEPT !.pc = "returned", !.result = r]
  <1>1. ex[e].pc = "outcome" /\ ex' = [ex EXCEPT ![e] = x]
        /\ child' = child /\ space' = space /\ shown' = shown
    BY DEF Return
  <1>2. ex[e] \in ExRecords /\ space[e] \in SpaceRecords /\ child[e] \in ChildRecords
    BY ExecutionFacts
  <1>3. r \in {"Passed", "Failed"} /\ (r = "Passed" => ex[e].condition = "success")
    BY <1>2 DEF Passes, ExRecords
  <1> HIDE DEF r
  <1>4. x \in ExRecords /\ x.pc = "returned" /\ x.result = r /\ x.files = ex[e].files
        /\ x.condition = ex[e].condition /\ x.codes = ex[e].codes
        /\ x.input = ex[e].input /\ x.tries = ex[e].tries /\ x.cleaned = ex[e].cleaned
    BY <1>2, <1>3 DEF ExRecords
  <1> HIDE DEF x
  <1>5. ExecutionOK(StepCount(e), x, child[e], space[e])
    BY <1>1, <1>3, <1>4, ExecutionFacts DEF ExecutionOK, RanAll, AllZero
  <1>6. Announced(x.pc) <= Announced(ex[e].pc)
    BY <1>1, <1>4 DEF Announced
  <1>7. child' = [child EXCEPT ![e] = child[e]] /\ space' = [space EXCEPT ![e] = space[e]]
    BY <1>1, ExecutionFacts
  <1> QED
    BY <1>1, <1>2, <1>4, <1>5, <1>6, <1>7, QuietKeeps

\* Whatever the executions of a run, their children and the clock do: nothing runs or is
\* written for a package that was not admitted, a Passed execution ran all its steps
\* without a failure and within the limits, the evidence says "cleaned" exactly when the
\* directory is gone, and the projected graph never skips a stage (admission.ts,
\* process-runner.ts, container-runner.ts, sandbox-service.ts, sandbox-graph.ts).
THEOREM Governed == SandboxSpec => []ExecutionIsGoverned
  <1>1. SandboxInit => SandboxInv
    <2> SUFFICES ASSUME SandboxInit PROVE SandboxInv
      OBVIOUS
    <2>1. Fresh \in ExRecords /\ NoChild \in ChildRecords /\ NoSpace \in SpaceRecords
      BY SandboxAssumption DEF Fresh, NoChild, NoSpace, ExRecords, ChildRecords, SpaceRecords, Inputs
    <2>2. \A e \in Executions : ex[e] = Fresh /\ child[e] = NoChild /\ space[e] = NoSpace
      BY DEF SandboxInit
    <2>3. SandboxTypes
      BY <2>1 DEF SandboxInit, SandboxTypes
    <2>4. \A e \in Executions : ExecutionOK(StepCount(e), Fresh, NoChild, NoSpace)
      BY SandboxAssumption, StepCountNat DEF ExecutionOK, Fresh, NoChild, NoSpace
    <2>5. \A e \in Executions : Prefix(shown, Announced(ex[e].pc))
      BY <2>2 DEF Prefix, Announced, Fresh
    <2>6. StagesOK(shown)
      BY DEF SandboxInit, StagesOK
    <2> QED
      BY <2>2, <2>3, <2>4, <2>5, <2>6 DEF SandboxInv
  <1>2. SandboxInv /\ [SandboxNext]_sandboxVars => SandboxInv'
    <2> SUFFICES ASSUME SandboxInv, [SandboxNext]_sandboxVars PROVE SandboxInv'
      OBVIOUS
    <2>1. ASSUME NEW e \in Executions,
                 Handoff(e) \/ ServiceStep(e) \/ ChildStep(e) \/ DeadlinePasses(e)
          PROVE  SandboxInv'
      BY <2>1, HandoffKeeps, AdmissionKeeps, StartStepKeeps, ClosesKeeps, TimerKeeps, ScanKeeps,
         EvidenceKeeps, CleanupKeeps, ReturnKeeps, ChildStepKeeps, DeadlineKeeps DEF ServiceStep
    <2>2. CASE UNCHANGED sandboxVars
      <3>1. ex' = ex /\ child' = child /\ space' = space /\ shown' = shown
        BY <2>2 DEF sandboxVars
      <3> QED
        BY <3>1 DEF SandboxInv, SandboxTypes, StepCount, Container
    <2> QED
      BY <2>1, <2>2 DEF SandboxNext
  <1>3. SandboxInv => ExecutionIsGoverned
    <2> SUFFICES ASSUME SandboxInv PROVE ExecutionIsGoverned
      OBVIOUS
    <2>1. ASSUME NEW e \in Executions
          PROVE  /\ ex[e] \in ExRecords /\ child[e] \in ChildRecords /\ space[e] \in SpaceRecords
                 /\ ExecutionOK(StepCount(e), ex[e], child[e], space[e])
      BY DEF SandboxInv, SandboxTypes
    <2>2. SandboxTypeOK
      BY <2>1, SandboxAssumption
      DEF SandboxTypeOK, SandboxInv, StagesOK, ExecutionOK, ExRecords, ChildRecords, SpaceRecords
    <2>3. AdmittedOnly
      BY <2>1 DEF AdmittedOnly, ExecutionOK
    <2>4. PassedWithinLimits
      <3> SUFFICES ASSUME NEW e \in Executions, ex[e].result = "Passed"
                   PROVE  /\ Len(ex[e].codes) = StepCount(e)
                          /\ \A i \in DOMAIN ex[e].codes : ex[e].codes[i] = 0
                          /\ ex[e].files <= MaxFiles /\ ex[e].condition = "success"
        BY DEF PassedWithinLimits
      <3>1. DOMAIN ex[e].codes = 1..Len(ex[e].codes)
        BY <2>1 DEF ExRecords
      <3> QED
        BY <2>1, <3>1 DEF ExecutionOK, RanAll, AllZero
    <2>5. CleanedMeansGone
      BY <2>1 DEF CleanedMeansGone, ExecutionOK
    <2>6. GraphIsPrefix
      <3>1. \A j \in 1..9 : projectSandboxGraph[STAGES[j]] = (STAGES[j] \in shown)
        BY DEF projectSandboxGraph
      <3> QED
        BY <3>1 DEF SandboxInv, StagesOK, GraphIsPrefix
    <2> QED
      BY <2>2, <2>3, <2>4, <2>5, <2>6 DEF ExecutionIsGoverned
  <1> QED
    BY <1>1, <1>2, <1>3, PTL DEF SandboxSpec

-----------------------------------------------------------------------------
(* Launches of the system. *)

ScriptRecords == [at : Points, since : 0..MaxSource, built : BOOLEAN, quitting : BOOLEAN,
                  by : Launches \cup {0}, proof : {"none", "configured", "local"},
                  end : {"none", "failed", "timeout", "unproven", "signal", "stopped"}]
ServerRecords == [at : {"none", "loading", "contracts", "skills", "pipeline", "queue",
                        "listen", "serving", "closing", "gone"},
                  code : 0..MaxSource, pipeline : BOOLEAN, legacy : BOOLEAN,
                  held : BOOLEAN, python : BOOLEAN]
DiskRecords == [venv : BOOLEAN, python : BOOLEAN, node : BOOLEAN, dist : 0..MaxSource, ui : 0..MaxSource]
RedisRecords == [local : BOOLEAN, remote : BOOLEAN]

\* The points before a script has a backend, and those at which it has ended.
Early == {"idle", "begin", "venv", "profiles", "node", "redis", "localRedis", "dockerRedis",
          "backend", "ui", "contracts", "tests", "spawn"}
Over == {"idle", "complete", "direct", "exited"}

\* What is built when oneshot or demo have compiled is not older than their start.
BuiltOK(k, a, since, dist) ==
    k \in {"oneshot", "demo"} /\ a \in {"ui", "contracts", "tests", "spawn"} => dist = 0 \/ dist >= since
\* A bootstrap that builds has seen the Redis it requires.
ProofOK(v, k, a, p) ==
    k = "bootstrap" /\ v.required /\ a \in {"backend", "ui", "complete"} =>
        p = "configured" \/ (p = "local" /\ (v.redisServer \/ v.docker))

\* One launch: its script l and its backend s, with the version of the source and of dist/.
LaunchOK(v, i, l, s, src, dist) ==
    /\ l.since <= src
    /\ l.at \in Early => s = NoServer
    /\ l.at \notin Early \cup {"complete", "exited"} => s.at # "none"
    /\ BuiltOK(v.kind[i], l.at, l.since, dist)
    /\ ProofOK(v, v.kind[i], l.at, l.proof)
    /\ v.kind[i] \in {"oneshot", "demo"} /\ s.code # 0 => s.code >= l.since
    /\ s.at # "none" /\ l.at \notin Over => v.kind[i] \in Starters
    /\ l.at = "exited" /\ s.at \notin {"none", "closing", "gone"} =>
           l.end = "timeout" \/ (l.end = "signal" /\ v.kind[i] = "judge")

\* What a backend that was ever reported ready is.
Seen(s) == s.at \in {"serving", "closing", "gone"} /\ (s.pipeline \/ s.legacy)

\* A script with a backend that was not started beside another launch, and is not
\* quitting, is the only one with a living backend.
AloneInv ==
    \A i \in Launches :
        ~crowded /\ server[i].at # "none" /\ Running(i) /\ ~launch[i].quitting =>
            \A j \in Launches \ {i} : ~Alive(j)

LaunchTypes ==
    /\ env \in Environments /\ source \in 1..MaxSource /\ faults \in 0..LaunchFaults
    /\ launch \in [Launches -> ScriptRecords] /\ server \in [Launches -> ServerRecords]
    /\ disk \in DiskRecords /\ port \in Launches \cup {0} /\ redis \in RedisRecords
    /\ beat \in BOOLEAN /\ crowded \in BOOLEAN
    /\ worker \in {"off", "contracts", "running", "closing", "gone"}

LaunchInv ==
    /\ LaunchTypes /\ PortIsServed /\ ReadyIsOwn /\ AloneInv
    /\ \A i \in Launches : launch[i].by # 0 => Seen(server[launch[i].by])
    /\ \A i \in Launches : LaunchOK(env, i, launch[i], server[i], source, disk.dist)

\* A step of launch i that leaves its script in l and its backend in s.
LEMMA LaunchLift ==
    ASSUME LaunchInv, NEW i \in Launches, NEW l \in ScriptRecords, NEW s \in ServerRecords,
           env' = env, launch' = [launch EXCEPT ![i] = l], server' = [server EXCEPT ![i] = s],
           source' \in 1..MaxSource, source <= source', faults' \in 0..LaunchFaults,
           disk' \in DiskRecords, disk'.dist \in {disk.dist, 0, source},
           redis' \in RedisRecords, beat' \in BOOLEAN,
           worker' \in {"off", "contracts", "running", "closing", "gone"},
           crowded' \in BOOLEAN, crowded => crowded',
           port' \in Launches \cup {0}, port' = i <=> s.at = "serving",
           \A j \in Launches \ {i} : port' = j <=> port = j,
           LaunchOK(env, i, l, s, source', disk'.dist),
           l.by = launch[i].by \/ (l.by = port /\ port # 0 /\ Seen(server[port])),
           l.by \notin {0, i} => crowded' \/ l.quitting,
           Seen(server[i]) => Seen(s),
           ~crowded' => \/ s.at \in {"none", "gone"} \/ Alive(i)
                        \/ \A j \in Launches \ {i} : ~Running(j) \/ launch[j].quitting,
           ~crowded' /\ s.at # "none" /\ l.at \notin Over /\ ~l.quitting =>
               \A j \in Launches \ {i} : ~Alive(j)
    PROVE  LaunchInv'
<1> USE DEF LaunchInv
<1>0. LaunchTypes
  OBVIOUS
<1>1. /\ launch \in [Launches -> ScriptRecords] /\ server \in [Launches -> ServerRecords]
      /\ source \in 1..MaxSource /\ disk \in DiskRecords
  BY <1>0 DEF LaunchTypes
<1>2. /\ launch' \in [Launches -> ScriptRecords] /\ server' \in [Launches -> ServerRecords]
      /\ launch'[i] = l /\ server'[i] = s
      /\ \A j \in Launches \ {i} : launch'[j] = launch[j] /\ server'[j] = server[j]
  BY <1>1
<1>3. LaunchTypes'
  BY <1>0, <1>2 DEF LaunchTypes
<1>4. PortIsServed'
  BY <1>2 DEF PortIsServed
<1>5. ReadyIsOwn'
  <2> SUFFICES ASSUME NEW j \in Launches, launch'[j].by \notin {0, j}
               PROVE  crowded' \/ launch'[j].quitting
    BY DEF ReadyIsOwn
  <2>1. CASE j = i
    BY <2>1, <1>2
  <2>2. CASE j # i
    BY <2>2, <1>2 DEF ReadyIsOwn
  <2> QED BY <2>1, <2>2
<1>6. AloneInv'
  <2> SUFFICES ASSUME NEW j \in Launches, ~crowded', server'[j].at # "none", Running(j)',
                      ~launch'[j].quitting, NEW k \in Launches \ {j}
               PROVE  ~Alive(k)'
    BY DEF AloneInv
  <2>1. CASE j = i
    BY <2>1, <1>2 DEF Alive, Running, Over
  <2>2. CASE j # i
    <3>1. Running(j) /\ ~launch[j].quitting /\ server[j].at # "none" /\ ~crowded
      BY <2>2, <1>2 DEF Running
    <3>2. \A m \in Launches \ {j} : ~Alive(m)
      BY <3>1 DEF AloneInv
    <3>3. CASE k = i
      BY <3>3, <3>1, <3>2, <2>2, <1>2 DEF Alive
    <3>4. CASE k # i
      BY <3>4, <3>2, <2>2, <1>2 DEF Alive
    <3> QED BY <3>3, <3>4
  <2> QED BY <2>1, <2>2
<1>7. \A j \in Launches : Seen(server[j]) => Seen(server'[j])
  BY <1>2
<1>8. ASSUME NEW j \in Launches, launch'[j].by # 0 PROVE Seen(server'[launch'[j].by])
  <2>1. launch'[j].by \in Launches
    BY <1>8, <1>2 DEF ScriptRecords
  <2>2. Seen(server[launch'[j].by])
    BY <1>8, <1>2
  <2> QED BY <2>1, <2>2, <1>7
<1>9. ASSUME NEW j \in Launches PROVE LaunchOK(env, j, launch'[j], server'[j], source', disk'.dist)
  <2>1. CASE j = i
    BY <2>1, <1>2
  <2>2. CASE j # i
    <3>1. LaunchOK(env, j, launch[j], server[j], source, disk.dist)
      OBVIOUS
    <3>2. launch[j].since \in 0..MaxSource
      BY <1>1 DEF ScriptRecords
    <3>3. BuiltOK(env.kind[j], launch[j].at, launch[j].since, disk'.dist)
      <4>1. disk.dist \in 0..MaxSource
        BY <1>1 DEF DiskRecords
      <4> QED BY <4>1, <3>1, <3>2, <1>1, LaunchAssumption DEF LaunchOK, BuiltOK
    <3>4. launch[j].since <= source'
      BY <3>1, <3>2, <1>1, LaunchAssumption DEF LaunchOK
    <3> QED BY <3>1, <3>3, <3>4, <2>2, <1>2 DEF LaunchOK
  <2> QED BY <2>1, <2>2
<1> QED BY <1>3, <1>4, <1>5, <1>6, <1>8, <1>9

\* What every step may assume of launch i.
LEMMA LaunchFacts ==
    ASSUME LaunchInv, NEW i \in Launches
    PROVE  /\ launch[i] \in ScriptRecords /\ server[i] \in ServerRecords /\ disk \in DiskRecords
           /\ launch = [launch EXCEPT ![i] = launch[i]] /\ server = [server EXCEPT ![i] = server[i]]
           /\ env \in Environments /\ source \in 1..MaxSource /\ faults \in 0..LaunchFaults
           /\ port \in Launches \cup {0} /\ redis \in RedisRecords /\ beat \in BOOLEAN
           /\ crowded \in BOOLEAN /\ worker \in {"off", "contracts", "running", "closing", "gone"}
           /\ LaunchOK(env, i, launch[i], server[i], source, disk.dist)
           /\ port = i <=> server[i].at = "serving"
           /\ launch[i].by \notin {0, i} => crowded \/ launch[i].quitting
           /\ ~crowded /\ server[i].at # "none" /\ launch[i].at \notin Over /\ ~launch[i].quitting =>
                  \A j \in Launches \ {i} : ~Alive(j)
BY DEF LaunchInv, LaunchTypes, PortIsServed, ReadyIsOwn, AloneInv, Running, Over

LEMMA MishapTypes ==
    ASSUME LaunchInv, Mishap \/ Unharmed
    PROVE  faults' \in 0..LaunchFaults
BY LaunchAssumption DEF LaunchInv, LaunchTypes, Mishap, Unharmed

\* A step of the script before it has a backend.
EarlyFrame ==
    /\ UNCHANGED <<env, source, server, port, crowded, beat, worker>>
    /\ redis' \in RedisRecords /\ faults' \in 0..LaunchFaults
    /\ disk' \in DiskRecords /\ disk'.dist \in {disk.dist, 0, source}

LEMMA EarlyStep ==
    ASSUME LaunchInv, NEW i \in Launches, launch[i].at \in Early, EarlyFrame,
           NEW l \in ScriptRecords, launch' = [launch EXCEPT ![i] = l],
           l.at \in Early \cup {"complete", "exited"}, l.since \in {launch[i].since, source},
           l.by = launch[i].by, l.quitting = launch[i].quitting,
           BuiltOK(env.kind[i], l.at, l.since, disk'.dist), ProofOK(env, env.kind[i], l.at, l.proof)
    PROVE  LaunchInv'
<1>1. /\ server[i] = NoServer /\ server[i] \in ServerRecords
      /\ server' = [server EXCEPT ![i] = NoServer] /\ source \in 1..MaxSource
      /\ port \in Launches \cup {0} /\ (port = i <=> server[i].at = "serving")
      /\ launch[i].since <= source /\ crowded \in BOOLEAN /\ beat \in BOOLEAN
      /\ worker \in {"off", "contracts", "running", "closing", "gone"}
      /\ launch[i].by \notin {0, i} => crowded \/ launch[i].quitting
  BY LaunchFacts DEF EarlyFrame, LaunchOK
<1>2. NoServer.at = "none" /\ NoServer.code = 0
  BY DEF NoServer
<1>3. LaunchOK(env, i, l, NoServer, source', disk'.dist)
  BY <1>1, <1>2, LaunchAssumption DEF LaunchOK, EarlyFrame
<1>4. /\ env' = env /\ source' \in 1..MaxSource /\ source <= source' /\ faults' \in 0..LaunchFaults
      /\ disk' \in DiskRecords /\ disk'.dist \in {disk.dist, 0, source} /\ redis' \in RedisRecords
      /\ beat' \in BOOLEAN /\ worker' \in {"off", "contracts", "running", "closing", "gone"}
      /\ crowded' = crowded /\ port' = port
  BY <1>1, LaunchAssumption DEF EarlyFrame
<1>5. l.by \notin {0, i} => crowded' \/ l.quitting
  BY <1>1, <1>4
<1>6. /\ port' \in Launches \cup {0} /\ \A j \in Launches \ {i} : port' = j <=> port = j
      /\ port' = i <=> NoServer.at = "serving"
  BY <1>1, <1>4
<1> QED
  BY <1>1, <1>2, <1>3, <1>4, <1>5, <1>6, LaunchLift

LEMMA EarlyGo ==
    ASSUME LaunchInv, NEW i \in Launches, launch[i].at \in Early, EarlyFrame,
           NEW a \in Early \cup {"complete"}, Go(i, a),
           BuiltOK(env.kind[i], a, launch[i].since, disk'.dist), ProofOK(env, env.kind[i], a, launch[i].proof)
    PROVE  LaunchInv'
<1> DEFINE l == [launch[i] EXCEPT !.at = a]
<1>1. launch[i] \in ScriptRecords
  BY LaunchFacts
<1>2. a \in Points
  BY DEF Early, Points
<1>3. /\ l \in ScriptRecords /\ l.at = a /\ l.since = launch[i].since /\ l.by = launch[i].by
      /\ l.quitting = launch[i].quitting /\ l.proof = launch[i].proof
  BY <1>1, <1>2 DEF ScriptRecords
<1>4. launch' = [launch EXCEPT ![i] = l]
  BY DEF Go
<1> HIDE DEF l
<1> QED BY <1>3, <1>4, EarlyStep

LEMMA EarlyStop ==
    ASSUME LaunchInv, NEW i \in Launches, launch[i].at \in Early, EarlyFrame,
           NEW how \in {"failed", "signal"}, Stopped(i, how)
    PROVE  LaunchInv'
<1> DEFINE l == [launch[i] EXCEPT !.at = "exited", !.end = how]
<1>1. launch[i] \in ScriptRecords
  BY LaunchFacts
<1>3. /\ l \in ScriptRecords /\ l.at = "exited" /\ l.since = launch[i].since /\ l.by = launch[i].by
      /\ l.quitting = launch[i].quitting /\ l.proof = launch[i].proof
  BY <1>1 DEF ScriptRecords, Points
<1>4. launch' = [launch EXCEPT ![i] = l]
  BY DEF Stopped
<1> HIDE DEF l
<1>5. /\ BuiltOK(env.kind[i], "exited", launch[i].since, disk'.dist)
      /\ ProofOK(env, env.kind[i], "exited", launch[i].proof)
  BY DEF BuiltOK, ProofOK
<1> QED BY <1>3, <1>4, <1>5, EarlyStep

LEMMA EarlyProved ==
    ASSUME LaunchInv, NEW i \in Launches, launch[i].at \in Early, EarlyFrame,
           NEW p \in {"configured", "local"}, Proved(i, p), env.kind[i] = "bootstrap",
           p = "local" => env.redisServer \/ env.docker
    PROVE  LaunchInv'
<1> DEFINE l == [launch[i] EXCEPT !.at = "backend", !.proof = p]
<1>1. launch[i] \in ScriptRecords
  BY LaunchFacts
<1>3. /\ l \in ScriptRecords /\ l.at = "backend" /\ l.since = launch[i].since /\ l.by = launch[i].by
      /\ l.quitting = launch[i].quitting /\ l.proof = p
  BY <1>1 DEF ScriptRecords, Points
<1>4. launch' = [launch EXCEPT ![i] = l]
  BY DEF Proved
<1> HIDE DEF l
<1>5. /\ BuiltOK(env.kind[i], "backend", launch[i].since, disk'.dist)
      /\ ProofOK(env, env.kind[i], "backend", p)
  BY DEF BuiltOK, ProofOK
<1>6. "backend" \in Early
  BY DEF Early
<1> QED BY <1>3, <1>4, <1>5, <1>6, EarlyStep

\* The files a script leaves when it has worked on them.
LEMMA DiskFacts ==
    ASSUME LaunchInv
    PROVE  /\ disk \in DiskRecords
           /\ [disk EXCEPT !.venv = TRUE] \in DiskRecords
           /\ [disk EXCEPT !.python = TRUE] \in DiskRecords
           /\ [disk EXCEPT !.node = TRUE] \in DiskRecords
           /\ [disk EXCEPT !.node = TRUE, !.python = TRUE] \in DiskRecords
           /\ [disk EXCEPT !.dist = 0] \in DiskRecords
           /\ [disk EXCEPT !.dist = source] \in DiskRecords
           /\ [disk EXCEPT !.ui = source] \in DiskRecords
           /\ [disk EXCEPT !.venv = TRUE].dist = disk.dist
           /\ [disk EXCEPT !.python = TRUE].dist = disk.dist
           /\ [disk EXCEPT !.node = TRUE].dist = disk.dist
           /\ [disk EXCEPT !.node = TRUE, !.python = TRUE].dist = disk.dist
           /\ [disk EXCEPT !.dist = 0].dist = 0
           /\ [disk EXCEPT !.dist = source].dist = source
           /\ [disk EXCEPT !.ui = source].dist = disk.dist
<1>1. disk \in DiskRecords /\ source \in 0..MaxSource /\ 0 \in 0..MaxSource
  BY LaunchAssumption DEF LaunchInv, LaunchTypes
<1> QED BY <1>1 DEF DiskRecords

\* Points at which neither what is built nor what is proved matters.
LEMMA Unbuilt ==
    ASSUME NEW k, NEW a \in {"begin", "venv", "profiles", "node", "redis", "localRedis", "dockerRedis"},
           NEW since, NEW dist, NEW v, NEW p
    PROVE  a \in Early /\ BuiltOK(k, a, since, dist) /\ ProofOK(v, k, a, p)
BY DEF BuiltOK, ProofOK, Early

\* The scripts up to the builds.
LEMMA PrepareKeeps ==
    ASSUME LaunchInv, NEW i \in Launches,
           checkPlatform(i) \/ inspectEnvironment(i) \/ runPreflight(i) \/ ensureVenv(i)
             \/ ensurePythonProfile(i) \/ ensureNodeDependencies(i) \/ judgeInstall(i)
             \/ runInstall(i) \/ cleanDist(i)
    PROVE  LaunchInv'
<1>1. launch[i].at \in Early
  BY DEF checkPlatform, inspectEnvironment, runPreflight, ensureVenv, ensurePythonProfile,
         ensureNodeDependencies, judgeInstall, runInstall, cleanDist, At, Early
<1>2. Mishap \/ Unharmed
  BY DEF checkPlatform, inspectEnvironment, runPreflight, ensureVenv, ensurePythonProfile,
         ensureNodeDependencies, judgeInstall, runInstall, cleanDist, Then, fail, Unharmed
<1>3. disk' \in DiskRecords /\ disk'.dist \in {disk.dist, 0}
  BY DiskFacts DEF checkPlatform, inspectEnvironment, runPreflight, ensureVenv, ensurePythonProfile,
         ensureNodeDependencies, judgeInstall, runInstall, cleanDist
<1>4. UNCHANGED <<Machine, server, port, crowded>>
  BY DEF checkPlatform, inspectEnvironment, runPreflight, ensureVenv, ensurePythonProfile,
         ensureNodeDependencies, judgeInstall, runInstall, cleanDist
<1>5. EarlyFrame
  BY <1>2, <1>3, <1>4, MishapTypes DEF EarlyFrame, Machine, LaunchInv, LaunchTypes
<1>6. \/ \E a \in {"venv", "profiles", "node", "redis"} : Go(i, a)
      \/ Go(i, "backend") /\ env.kind[i] # "bootstrap"
      \/ Stopped(i, "failed")
  BY DEF checkPlatform, inspectEnvironment, runPreflight, ensureVenv, ensurePythonProfile,
         ensureNodeDependencies, judgeInstall, runInstall, cleanDist, Then, fail, At
<1>7. ASSUME NEW a \in {"venv", "profiles", "node", "redis"}, Go(i, a) PROVE LaunchInv'
  BY <1>7, <1>1, <1>5, Unbuilt, EarlyGo
<1>8. ASSUME Go(i, "backend"), env.kind[i] # "bootstrap" PROVE LaunchInv'
  <2>1. /\ "backend" \in Early /\ BuiltOK(env.kind[i], "backend", launch[i].since, disk'.dist)
        /\ ProofOK(env, env.kind[i], "backend", launch[i].proof)
    BY <1>8 DEF Early, BuiltOK, ProofOK
  <2> QED BY <2>1, <1>8, <1>1, <1>5, EarlyGo
<1>9. ASSUME Stopped(i, "failed") PROVE LaunchInv'
  BY <1>9, <1>1, <1>5, EarlyStop
<1> QED BY <1>6, <1>7, <1>8, <1>9

\* The bootstrap proves Redis.
LEMMA ProveKeeps ==
    ASSUME LaunchInv, NEW i \in Launches,
           probeRedis(i) \/ startLocalRedis(i) \/ startDockerRedis(i)
    PROVE  LaunchInv'
<1>1. launch[i].at \in Early /\ env.kind[i] = "bootstrap"
  BY DEF probeRedis, startLocalRedis, startDockerRedis, At, Early
<1>2. Mishap \/ Unharmed
  BY DEF probeRedis, startLocalRedis, startDockerRedis, Unharmed
<1>3. redis' \in RedisRecords
  <2>1. redis \in RedisRecords
    BY DEF LaunchInv, LaunchTypes
  <2>2. \/ redis' = redis \/ \E b \in BOOLEAN : redis' = [redis EXCEPT !.local = b]
    BY <2>1 DEF probeRedis, startLocalRedis, startDockerRedis, Machine, RedisRecords
  <2> QED BY <2>1, <2>2 DEF RedisRecords
<1>4. EarlyFrame
  <2>1. UNCHANGED <<env, source, beat, worker, server, disk, port, crowded>>
    BY DEF probeRedis, startLocalRedis, startDockerRedis, Machine
  <2> QED BY <2>1, <1>2, <1>3, MishapTypes, DiskFacts DEF EarlyFrame
<1>5. \/ Proved(i, "configured")
      \/ Proved(i, "local") /\ (env.redisServer \/ env.docker)
      \/ Go(i, "backend") /\ ~env.required
      \/ \E a \in {"localRedis", "dockerRedis"} : Go(i, a)
      \/ Stopped(i, "failed")
  BY DEF probeRedis, startLocalRedis, startDockerRedis
<1>6. CASE Proved(i, "configured")
  BY <1>6, <1>1, <1>4, EarlyProved
<1>7. CASE Proved(i, "local") /\ (env.redisServer \/ env.docker)
  BY <1>7, <1>1, <1>4, EarlyProved
<1>8. CASE Go(i, "backend") /\ ~env.required
  <2>1. /\ "backend" \in Early /\ BuiltOK(env.kind[i], "backend", launch[i].since, disk'.dist)
        /\ ProofOK(env, env.kind[i], "backend", launch[i].proof)
    BY <1>8 DEF Early, BuiltOK, ProofOK
  <2> QED BY <2>1, <1>8, <1>1, <1>4, EarlyGo
<1>9. ASSUME NEW a \in {"localRedis", "dockerRedis"}, Go(i, a) PROVE LaunchInv'
  BY <1>9, <1>1, <1>4, Unbuilt, EarlyGo
<1>10. CASE Stopped(i, "failed")
  BY <1>10, <1>1, <1>4, EarlyStop
<1> QED BY <1>5, <1>6, <1>7, <1>8, <1>9, <1>10

\* A script begins.
LEMMA BeginKeeps ==
    ASSUME LaunchInv, NEW i \in Launches, Begin(i)
    PROVE  LaunchInv'
<1> DEFINE l == [launch[i] EXCEPT !.at = "begin", !.since = source, !.built = (disk.dist # 0)]
<1>1. launch[i] \in ScriptRecords /\ source \in 0..MaxSource /\ launch[i].at \in Early
  BY LaunchFacts, LaunchAssumption DEF Begin, Early
<1>2. EarlyFrame
  BY LaunchFacts DEF Begin, EarlyFrame, Machine
<1>3. /\ l \in ScriptRecords /\ l.at = "begin" /\ l.since = source /\ l.by = launch[i].by
      /\ l.quitting = launch[i].quitting
  BY <1>1 DEF ScriptRecords, Points
<1>4. launch' = [launch EXCEPT ![i] = l]
  BY DEF Begin
<1> HIDE DEF l
<1>5. /\ l.at \in Early /\ BuiltOK(env.kind[i], l.at, l.since, disk'.dist)
      /\ ProofOK(env, env.kind[i], l.at, l.proof)
  BY <1>3, Unbuilt
<1> QED BY <1>1, <1>2, <1>3, <1>4, <1>5, EarlyStep

\* The builds, contracts and tests.
LEMMA BuildKeeps ==
    ASSUME LaunchInv, NEW i \in Launches,
           buildBackend(i) \/ buildUi(i) \/ verifyContracts(i) \/ runTests(i)
    PROVE  LaunchInv'
<1>1. launch[i].at \in {"backend", "ui", "contracts", "tests"}
  BY DEF buildBackend, buildUi, verifyContracts, runTests, At
<1>2. launch[i].at \in Early
  BY <1>1 DEF Early
<1>3. Mishap \/ Unharmed
  BY DEF buildBackend, buildUi, verifyContracts, runTests, Then, buildFails, fail, Unharmed
<1>4. disk' \in DiskRecords /\ disk'.dist \in {disk.dist, source}
  BY DiskFacts DEF buildBackend, buildUi, verifyContracts, runTests
<1>5. EarlyFrame
  <2>1. UNCHANGED <<Machine, server, port, crowded>>
    BY DEF buildBackend, buildUi, verifyContracts, runTests
  <2> QED BY <2>1, <1>3, <1>4, MishapTypes, LaunchFacts DEF EarlyFrame, Machine
<1>6. LaunchOK(env, i, launch[i], server[i], source, disk.dist) /\ launch[i] \in ScriptRecords
      /\ source \in 1..MaxSource /\ disk \in DiskRecords
  BY LaunchFacts
<1>7. disk'.dist = source => \A a : BuiltOK(env.kind[i], a, launch[i].since, disk'.dist)
  BY <1>6 DEF LaunchOK, BuiltOK
<1>8. CASE \E how \in {"failed"} : Stopped(i, how)
  BY <1>8, <1>2, <1>5, EarlyStop
<1>9. CASE buildBackend(i) /\ ~Stopped(i, "failed")
  <2>1. launch[i].at = "backend" /\ Go(i, "ui") /\ (disk'.dist = source \/ env.kind[i] = "judge")
    BY <1>9, DiskFacts DEF buildBackend, buildFails, fail, KeepsBuild
  <2>2. BuiltOK(env.kind[i], "ui", launch[i].since, disk'.dist)
    BY <2>1, <1>7 DEF BuiltOK
  <2>3. ProofOK(env, env.kind[i], "ui", launch[i].proof) /\ "ui" \in Early
    BY <2>1, <1>6 DEF LaunchOK, ProofOK, Early
  <2> QED BY <2>1, <2>2, <2>3, <1>2, <1>5, EarlyGo
<1>10. CASE buildUi(i) /\ ~Stopped(i, "failed")
  <2> DEFINE next == CASE env.kind[i] = "oneshot" -> "contracts"
                       [] env.kind[i] = "judge" -> "tests"
                       [] env.kind[i] = "demo" -> "spawn"
                       [] OTHER -> "complete"
  <2>1. launch[i].at = "ui" /\ Go(i, next) /\ disk'.dist = disk.dist
    BY <1>10, DiskFacts DEF buildUi, buildFails, fail
  <2>2. next \in {"contracts", "tests", "spawn", "complete"} /\ (next = "complete" => env.kind[i] \notin {"oneshot", "demo"})
        /\ (next # "complete" => env.kind[i] # "bootstrap")
    OBVIOUS
  <2> HIDE DEF next
  <2>3. BuiltOK(env.kind[i], next, launch[i].since, disk'.dist)
    BY <2>1, <2>2, <1>6 DEF LaunchOK, BuiltOK
  <2>4. ProofOK(env, env.kind[i], next, launch[i].proof) /\ next \in Early \cup {"complete"}
    BY <2>1, <2>2, <1>6 DEF LaunchOK, ProofOK, Early
  <2> QED BY <2>1, <2>3, <2>4, <1>2, <1>5, EarlyGo
<1>11. CASE (verifyContracts(i) \/ runTests(i)) /\ ~Stopped(i, "failed")
  <2>1. /\ launch[i].at \in {"contracts", "tests"} /\ disk' = disk
        /\ \E a \in {"tests", "spawn"} : Go(i, a)
    BY <1>11 DEF verifyContracts, runTests, At, Then, fail
  <2>2. PICK a \in {"tests", "spawn"} : Go(i, a)
    BY <2>1
  <2>3. BuiltOK(env.kind[i], a, launch[i].since, disk'.dist)
    BY <2>1, <1>6 DEF LaunchOK, BuiltOK
  <2>4. ProofOK(env, env.kind[i], a, launch[i].proof) /\ a \in Early
    BY DEF ProofOK, Early
  <2> QED BY <2>2, <2>3, <2>4, <1>2, <1>5, EarlyGo
<1> QED BY <1>8, <1>9, <1>10, <1>11

\* The backend is started, unnoticed by the others only when none of them is at work.
LEMMA SpawnKeeps ==
    ASSUME LaunchInv, NEW i \in Launches, spawnBackend(i)
    PROVE  LaunchInv'
<1> DEFINE a == CASE env.kind[i] = "demo" -> "watching"
                  [] env.kind[i] = "start" -> "direct"
                  [] OTHER -> "polling"
           l == [launch[i] EXCEPT !.at = a]
           s == [NoServer EXCEPT !.at = "loading", !.code = disk.dist]
<1>1. /\ launch[i] \in ScriptRecords /\ disk \in DiskRecords /\ source \in 1..MaxSource
      /\ LaunchOK(env, i, launch[i], server[i], source, disk.dist)
  BY LaunchFacts
<1>2. /\ launch[i].at \in {"spawn", "begin"} /\ launch[i].at \in Early
      /\ (env.kind[i] \in Starters /\ launch[i].at = "spawn") \/ env.kind[i] = "start"
  BY DEF spawnBackend, At, Early
<1>3. server[i] = NoServer
  BY <1>1, <1>2 DEF LaunchOK
<1>4. /\ a \in {"watching", "direct", "polling"} /\ (a = "direct" <=> env.kind[i] = "start")
  OBVIOUS
<1>5. launch' = [launch EXCEPT ![i] = l] /\ server' = [server EXCEPT ![i] = s]
  BY DEF spawnBackend, Go
<1> HIDE DEF a
<1>6. /\ l \in ScriptRecords /\ l.at = a /\ l.since = launch[i].since /\ l.by = launch[i].by
      /\ l.quitting = launch[i].quitting /\ l.proof = launch[i].proof
  BY <1>1, <1>4 DEF ScriptRecords, Points
<1>7. /\ s \in ServerRecords /\ s.at = "loading" /\ s.code = disk.dist
  <2>1. disk.dist \in 0..MaxSource
    BY <1>1 DEF DiskRecords
  <2> QED BY <2>1 DEF NoServer, ServerRecords
<1>8. ~Seen(server[i]) /\ ~Alive(i) /\ server[i].at = "none"
  BY <1>3 DEF Seen, Alive, NoServer
<1> HIDE DEF l, s
<1>9. LaunchOK(env, i, l, s, source, disk.dist)
  <2>1. env.kind[i] \in {"oneshot", "demo"} /\ disk.dist # 0 => disk.dist >= launch[i].since
    BY <1>1, <1>2 DEF LaunchOK, BuiltOK, Starters
  <2>2. l.at \notin Early /\ l.at # "exited"
    BY <1>4, <1>6 DEF Early
  <2>3. BuiltOK(env.kind[i], l.at, l.since, disk.dist) /\ ProofOK(env, env.kind[i], l.at, l.proof)
    BY <1>4, <1>6 DEF BuiltOK, ProofOK
  <2>4. l.at \notin Over => env.kind[i] \in Starters
    BY <1>4, <1>6, <1>2 DEF Over
  <2>5. l.since <= source
    BY <1>1, <1>6 DEF LaunchOK
  <2> QED BY <2>1, <2>2, <2>3, <2>4, <2>5, <1>6, <1>7 DEF LaunchOK
<1>10. /\ UNCHANGED <<env, source, redis, beat, worker, disk, port, faults>>
       /\ crowded' = (crowded \/ \E j \in Launches \ {i} : Alive(j) \/ (Running(j) /\ ~launch[j].quitting))
  BY DEF spawnBackend, Machine
<1>11. /\ crowded' \in BOOLEAN /\ (crowded => crowded')
       /\ ~crowded' => \A j \in Launches \ {i} : ~Alive(j) /\ (~Running(j) \/ launch[j].quitting)
  BY <1>10
<1>12. /\ source' \in 1..MaxSource /\ source <= source' /\ faults' \in 0..LaunchFaults
       /\ disk' \in DiskRecords /\ disk'.dist \in {disk.dist, 0, source}
       /\ redis' \in RedisRecords /\ beat' \in BOOLEAN
       /\ worker' \in {"off", "contracts", "running", "closing", "gone"}
       /\ port' \in Launches \cup {0} /\ (port' = i <=> s.at = "serving")
       /\ \A j \in Launches \ {i} : port' = j <=> port = j
  BY <1>7, <1>8, <1>10, LaunchFacts
<1>13. l.by \notin {0, i} => crowded' \/ l.quitting
  BY <1>6, <1>11, LaunchFacts
<1> QED
  BY <1>5, <1>6, <1>7, <1>8, <1>9, <1>10, <1>11, <1>12, <1>13, LaunchLift

\* A step once there is a backend: of the script, which ends in l, or of the backend, which
\* ends in s, or of both.
LEMMA LateStep ==
    ASSUME LaunchInv, NEW i \in Launches, NEW l \in ScriptRecords, NEW s \in ServerRecords,
           server[i].at # "none", UNCHANGED <<Machine, disk, crowded>>, faults' \in 0..LaunchFaults,
           launch' = [launch EXCEPT ![i] = l], server' = [server EXCEPT ![i] = s],
           port' \in Launches \cup {0}, port' = i <=> s.at = "serving",
           \A j \in Launches \ {i} : port' = j <=> port = j,
           l.since = launch[i].since, l.proof = launch[i].proof,
           l.at \in {launch[i].at, "probing", "ready", "exited"},
           launch[i].at \in Over => l.at = launch[i].at, launch[i].quitting => l.quitting,
           s.at # "none", s.code = server[i].code, s.at = "gone" \/ Alive(i),
           Seen(server[i]) => Seen(s),
           \/ l.by = launch[i].by
           \/ l.by = port /\ port # 0 /\ Seen(server[port]) /\ launch[i].at \notin Over,
           l.at = "exited" /\ s.at \notin {"closing", "gone"} =>
               l.end = "timeout" \/ (l.end = "signal" /\ env.kind[i] = "judge")
    PROVE  LaunchInv'
<1>1. /\ launch[i] \in ScriptRecords /\ disk \in DiskRecords /\ source \in 1..MaxSource
      /\ redis \in RedisRecords /\ beat \in BOOLEAN /\ crowded \in BOOLEAN
      /\ worker \in {"off", "contracts", "running", "closing", "gone"}
      /\ LaunchOK(env, i, launch[i], server[i], source, disk.dist)
      /\ launch[i].by \notin {0, i} => crowded \/ launch[i].quitting
      /\ ~crowded /\ launch[i].at \notin Over /\ ~launch[i].quitting => \A j \in Launches \ {i} : ~Alive(j)
  BY LaunchFacts
<1>2. launch[i].at \notin Early
  BY <1>1 DEF LaunchOK, NoServer
<1>3. UNCHANGED <<env, source, redis, beat, worker>>
  BY DEF Machine
<1>4. LaunchOK(env, i, l, s, source, disk.dist)
  <2>1. l.at \notin Early
    BY <1>2 DEF Early
  <2>2. BuiltOK(env.kind[i], l.at, l.since, disk.dist) /\ ProofOK(env, env.kind[i], l.at, l.proof)
    BY <1>1, <1>2 DEF LaunchOK, BuiltOK, ProofOK
  <2>3. l.at \notin Over => env.kind[i] \in Starters
    BY <1>1 DEF LaunchOK, Over
  <2> QED BY <2>1, <2>2, <2>3, <1>1 DEF LaunchOK
<1>5. l.by \notin {0, i} => crowded \/ l.quitting
  <2>1. CASE l.by = launch[i].by
    BY <2>1, <1>1
  <2>2. CASE l.by = port /\ port # 0 /\ Seen(server[port]) /\ launch[i].at \notin Over
    <3> SUFFICES ASSUME port # i PROVE crowded \/ launch[i].quitting
      BY <2>2
    <3>1. port \in Launches \ {i}
      BY <2>2, LaunchFacts
    <3>2. Alive(port)
      BY <3>1 DEF LaunchInv, PortIsServed, Alive
    <3> QED BY <3>1, <3>2, <2>2, <1>1
  <2> QED BY <2>1, <2>2
<1>6. l.at \notin Over => launch[i].at \notin Over
  BY DEF Over
<1>7. l.by = launch[i].by \/ (l.by = port /\ port # 0 /\ Seen(server[port]))
  OBVIOUS
<1>8. ~crowded /\ s.at # "none" /\ l.at \notin Over /\ ~l.quitting => \A j \in Launches \ {i} : ~Alive(j)
  BY <1>1, <1>6
<1>9. source' \in 1..MaxSource /\ source <= source'
  BY <1>1, <1>3, LaunchAssumption
<1>10. /\ disk' \in DiskRecords /\ disk'.dist \in {disk.dist, 0, source} /\ redis' \in RedisRecords
       /\ beat' \in BOOLEAN /\ worker' \in {"off", "contracts", "running", "closing", "gone"}
       /\ crowded' \in BOOLEAN /\ crowded' = crowded
  BY <1>1, <1>3
<1>11. LaunchOK(env, i, l, s, source', disk'.dist)
  BY <1>3, <1>4
<1>12. /\ l.by \notin {0, i} => crowded' \/ l.quitting
       /\ ~crowded' => \/ s.at \in {"none", "gone"} \/ Alive(i)
                      \/ \A j \in Launches \ {i} : ~Running(j) \/ launch[j].quitting
       /\ ~crowded' /\ s.at # "none" /\ l.at \notin Over /\ ~l.quitting =>
              \A j \in Launches \ {i} : ~Alive(j)
  BY <1>5, <1>8, <1>10
<1>13. env' = env /\ (crowded => crowded')
  BY <1>3, <1>10
<1> QED
  BY <1>7, <1>9, <1>10, <1>11, <1>12, <1>13, LaunchLift

\* The script stays; the backend moves on.
LEMMA BackendMoves ==
    ASSUME LaunchInv, NEW i \in Launches, NEW s \in ServerRecords,
           server[i].at # "none", UNCHANGED <<Machine, launch, disk, crowded>>,
           faults' \in 0..LaunchFaults, server' = [server EXCEPT ![i] = s],
           port' \in Launches \cup {0}, port' = i <=> s.at = "serving",
           \A j \in Launches \ {i} : port' = j <=> port = j,
           s.at # "none", s.code = server[i].code, s.at = "gone" \/ Alive(i),
           server[i].at = "closing" => s.at \in {"closing", "gone"},
           Seen(server[i]) => Seen(s)
    PROVE  LaunchInv'
<1>1. launch' = [launch EXCEPT ![i] = launch[i]] /\ launch[i] \in ScriptRecords
      /\ LaunchOK(env, i, launch[i], server[i], source, disk.dist)
  BY LaunchFacts
<1>2. launch[i].at = "exited" /\ s.at \notin {"closing", "gone"} =>
         launch[i].end = "timeout" \/ (launch[i].end = "signal" /\ env.kind[i] = "judge")
  BY <1>1 DEF LaunchOK, Alive
<1> QED BY <1>1, <1>2, LateStep

\* The script moves on; the backend stays.
LEMMA ScriptMoves ==
    ASSUME LaunchInv, NEW i \in Launches, NEW l \in ScriptRecords,
           server[i].at # "none", UNCHANGED <<Machine, server, disk, port, crowded, faults>>,
           launch' = [launch EXCEPT ![i] = l], launch[i].at \notin Over,
           l.since = launch[i].since, l.proof = launch[i].proof, l.quitting = launch[i].quitting,
           l.at \in {launch[i].at, "probing", "ready", "exited"},
           l.by = launch[i].by \/ (l.by = port /\ port # 0 /\ Seen(server[port])),
           l.at = "exited" /\ Alive(i) /\ server[i].at # "closing" =>
               l.end = "timeout" \/ (l.end = "signal" /\ env.kind[i] = "judge")
    PROVE  LaunchInv'
<1>1. /\ server' = [server EXCEPT ![i] = server[i]] /\ server[i] \in ServerRecords
      /\ port \in Launches \cup {0} /\ faults \in 0..LaunchFaults
      /\ port = i <=> server[i].at = "serving"
  BY LaunchFacts
<1>2. server[i].at = "gone" \/ Alive(i)
  BY DEF Alive
<1>3. l.at = "exited" /\ server[i].at \notin {"closing", "gone"} =>
         l.end = "timeout" \/ (l.end = "signal" /\ env.kind[i] = "judge")
  BY DEF Alive
<1> QED BY <1>1, <1>2, <1>3, LateStep

\* A healthy answer comes from a backend that found a Redis.
LEMMA HealthyFacts ==
    ASSUME LaunchInv, Healthy
    PROVE  /\ port \in Launches /\ port # 0 /\ Seen(server[port])
           /\ server[port].pipeline \/ server[port].legacy
<1>1. port \in Launches
  BY DEF Healthy, LaunchInv, LaunchTypes
<1>2. server[port].at = "serving"
  BY <1>1 DEF LaunchInv, PortIsServed
<1> QED BY <1>1, <1>2 DEF Healthy, health, Seen

\* Polling, watching and probing.
LEMMA AskKeeps ==
    ASSUME LaunchInv, NEW i \in Launches, pollHealth(i) \/ proveReadiness(i) \/ watchOutput(i)
    PROVE  LaunchInv'
<1>1. /\ launch[i] \in ScriptRecords /\ port \in Launches \cup {0}
      /\ LaunchOK(env, i, launch[i], server[i], source, disk.dist)
  BY LaunchFacts
<1>2. /\ launch[i].at \in {"polling", "watching"} /\ launch[i].at \notin Over
      /\ UNCHANGED <<Machine, server, disk, port, crowded, faults>>
  BY DEF pollHealth, proveReadiness, watchOutput, At, Over
<1>3. server[i].at # "none"
  BY <1>1, <1>2 DEF LaunchOK, Early
<1>4. \/ Healthy /\ Ready(i)
      \/ Stopped(i, "timeout") \/ Go(i, "probing")
  BY HealthyFacts DEF pollHealth, proveReadiness, watchOutput
<1>5. CASE Healthy /\ Ready(i)
  <2> DEFINE l == [launch[i] EXCEPT !.at = "ready", !.by = port]
  <2>1. /\ l \in ScriptRecords /\ l.at = "ready" /\ l.since = launch[i].since /\ l.by = port
        /\ l.quitting = launch[i].quitting /\ l.proof = launch[i].proof
    BY <1>1 DEF ScriptRecords, Points
  <2>2. launch' = [launch EXCEPT ![i] = l]
    BY <1>5 DEF Ready
  <2> HIDE DEF l
  <2> QED BY <2>1, <2>2, <1>2, <1>3, <1>5, HealthyFacts, ScriptMoves
<1>6. CASE Stopped(i, "timeout")
  <2> DEFINE l == [launch[i] EXCEPT !.at = "exited", !.end = "timeout"]
  <2>1. /\ l \in ScriptRecords /\ l.at = "exited" /\ l.since = launch[i].since /\ l.by = launch[i].by
        /\ l.quitting = launch[i].quitting /\ l.proof = launch[i].proof /\ l.end = "timeout"
    BY <1>1 DEF ScriptRecords, Points
  <2>2. launch' = [launch EXCEPT ![i] = l]
    BY <1>6 DEF Stopped
  <2> HIDE DEF l
  <2> QED BY <2>1, <2>2, <1>2, <1>3, ScriptMoves
<1>7. CASE Go(i, "probing")
  <2> DEFINE l == [launch[i] EXCEPT !.at = "probing"]
  <2>1. /\ l \in ScriptRecords /\ l.at = "probing" /\ l.since = launch[i].since /\ l.by = launch[i].by
        /\ l.quitting = launch[i].quitting /\ l.proof = launch[i].proof
    BY <1>1 DEF ScriptRecords, Points
  <2>2. launch' = [launch EXCEPT ![i] = l]
    BY <1>7 DEF Go
  <2> HIDE DEF l
  <2> QED BY <2>1, <2>2, <1>2, <1>3, ScriptMoves
<1> QED BY <1>4, <1>5, <1>6, <1>7

\* What a signal makes of a backend.
LEMMA HandledFacts ==
    ASSUME LaunchInv, NEW i \in Launches, Signalled(i)
    PROVE  /\ Handled(server[i]) \in ServerRecords /\ server' = [server EXCEPT ![i] = Handled(server[i])]
           /\ server[i].at = "none" => Handled(server[i]) = server[i]
           /\ server[i].at # "none" =>
                 /\ Handled(server[i]).at \in {"closing", "gone"} /\ Handled(server[i]).code = server[i].code
                 /\ Handled(server[i]).at = "gone" \/ Alive(i)
                 /\ Seen(server[i]) => Seen(Handled(server[i]))
           /\ port' \in Launches \cup {0} /\ port' # i
           /\ \A j \in Launches \ {i} : port' = j <=> port = j
           /\ server[i].at = "none" => port' = port
<1> DEFINE s == server[i]
           a == CASE s.at \in {"serving", "closing"} -> "closing"
                  [] s.at = "none" -> "none"
                  [] OTHER -> "gone"
<1>1. s \in ServerRecords /\ port \in Launches \cup {0} /\ (port = i <=> s.at = "serving")
  BY LaunchFacts
<1>2. /\ a \in {"closing", "none", "gone"} /\ (s.at = "none" => a = "none") /\ (s.at # "none" => a # "none")
      /\ s.at \in {"serving", "closing"} => a = "closing"
      /\ s.at = "gone" => a = "gone"
  OBVIOUS
<1>3. Handled(s) = [s EXCEPT !.at = a]
  BY DEF Handled
<1>4. 0 \notin Launches
  BY LaunchAssumption
<1>5. /\ port' \in Launches \cup {0} /\ port' # i
      /\ \A j \in Launches \ {i} : port' = j <=> port = j
      /\ s.at = "none" => port' = port
  BY <1>1, <1>4 DEF Signalled, Released
<1> HIDE DEF a
<1>6. /\ Handled(s) \in ServerRecords /\ Handled(s).at = a /\ Handled(s).code = s.code
      /\ Handled(s).pipeline = s.pipeline /\ Handled(s).legacy = s.legacy
  BY <1>1, <1>2, <1>3 DEF ServerRecords
<1>7. s.at = "none" => Handled(s) = s
  BY <1>1, <1>2, <1>3 DEF ServerRecords
<1>8. server' = [server EXCEPT ![i] = Handled(s)]
  BY DEF Signalled
<1> QED BY <1>2, <1>5, <1>6, <1>7, <1>8 DEF Seen, Alive

\* demo asks once, and stops its backend when the answer is not ok.
LEMMA ProbeKeeps ==
    ASSUME LaunchInv, NEW i \in Launches, probeOnce(i)
    PROVE  LaunchInv'
<1>1. /\ launch[i] \in ScriptRecords /\ port \in Launches \cup {0} /\ faults \in 0..LaunchFaults
      /\ LaunchOK(env, i, launch[i], server[i], source, disk.dist)
  BY LaunchFacts
<1>2. /\ launch[i].at = "probing" /\ launch[i].at \notin Over
      /\ UNCHANGED <<Machine, disk, crowded, faults>>
  BY DEF probeOnce, At, Over
<1>3. server[i].at # "none"
  BY <1>1, <1>2 DEF LaunchOK, Early
<1>4. CASE Healthy /\ Ready(i) /\ UNCHANGED <<server, port>>
  <2> DEFINE l == [launch[i] EXCEPT !.at = "ready", !.by = port]
  <2>1. /\ l \in ScriptRecords /\ l.at = "ready" /\ l.since = launch[i].since /\ l.by = port
        /\ l.quitting = launch[i].quitting /\ l.proof = launch[i].proof
    BY <1>1 DEF ScriptRecords, Points
  <2>2. launch' = [launch EXCEPT ![i] = l]
    BY <1>4 DEF Ready
  <2> HIDE DEF l
  <2> QED BY <2>1, <2>2, <1>2, <1>3, <1>4, HealthyFacts, ScriptMoves
<1>5. CASE Stopped(i, "failed") /\ Signalled(i)
  <2> DEFINE l == [launch[i] EXCEPT !.at = "exited", !.end = "failed"]
             s == Handled(server[i])
  <2>1. /\ l \in ScriptRecords /\ l.at = "exited" /\ l.since = launch[i].since /\ l.by = launch[i].by
        /\ l.quitting = launch[i].quitting /\ l.proof = launch[i].proof
    BY <1>1 DEF ScriptRecords, Points
  <2>2. launch' = [launch EXCEPT ![i] = l]
    BY <1>5 DEF Stopped
  <2>3. /\ s \in ServerRecords /\ server' = [server EXCEPT ![i] = s] /\ s.at \in {"closing", "gone"}
        /\ s.code = server[i].code /\ (s.at = "gone" \/ Alive(i)) /\ (Seen(server[i]) => Seen(s))
        /\ port' \in Launches \cup {0} /\ port' # i /\ \A j \in Launches \ {i} : port' = j <=> port = j
    BY <1>3, <1>5, HandledFacts
  <2> HIDE DEF l, s
  <2> QED BY <2>1, <2>2, <2>3, <1>1, <1>2, <1>3, LateStep
<1> QED BY <1>4, <1>5 DEF probeOnce

\* The backend has ended.
LEMMA ExitHeardKeeps ==
    ASSUME LaunchInv, NEW i \in Launches, onBackendExit(i)
    PROVE  LaunchInv'
<1> DEFINE how == IF launch[i].at = "ready" /\ (env.kind[i] = "oneshot" => launch[i].quitting)
                  THEN "stopped" ELSE "failed"
           l == [launch[i] EXCEPT !.at = "exited", !.end = how]
<1>1. launch[i] \in ScriptRecords /\ how \in {"stopped", "failed"}
  BY LaunchFacts
<1>2. launch' = [launch EXCEPT ![i] = l]
  BY DEF onBackendExit, Stopped
<1> HIDE DEF how
<1>3. /\ l \in ScriptRecords /\ l.at = "exited" /\ l.since = launch[i].since /\ l.by = launch[i].by
      /\ l.quitting = launch[i].quitting /\ l.proof = launch[i].proof
  BY <1>1 DEF ScriptRecords, Points
<1>4. /\ server[i].at = "gone" /\ ~Alive(i) /\ launch[i].at \notin Over
      /\ UNCHANGED <<Machine, server, disk, port, crowded, faults>>
  BY DEF onBackendExit, Running, Over, Alive
<1> HIDE DEF l
<1> QED BY <1>2, <1>3, <1>4, ScriptMoves

\* A signal to the script, which passes it on, ignores it or dies.
LEMMA SignalScriptKeeps ==
    ASSUME LaunchInv, NEW i \in Launches, NEW group \in BOOLEAN, signalScript(i, group)
    PROVE  LaunchInv'
<1> DEFINE handles == env.kind[i] \in {"oneshot", "demo"} /\ server[i].at # "none"
           s == IF handles \/ group THEN Handled(server[i]) ELSE server[i]
           l == IF handles THEN [launch[i] EXCEPT !.quitting = TRUE]
                ELSE [launch[i] EXCEPT !.at = "exited", !.end = "signal"]
<1>1. /\ launch[i] \in ScriptRecords /\ server[i] \in ServerRecords /\ faults \in 0..LaunchFaults
      /\ port \in Launches \cup {0} /\ LaunchOK(env, i, launch[i], server[i], source, disk.dist)
      /\ server = [server EXCEPT ![i] = server[i]] /\ (port = i <=> server[i].at = "serving")
      /\ redis \in RedisRecords /\ disk \in DiskRecords
  BY LaunchFacts
<1>2. /\ UNCHANGED <<Machine, disk, crowded, faults>> /\ launch[i].at \notin Over
      /\ IF handles THEN launch' = [launch EXCEPT ![i].quitting = TRUE] ELSE Stopped(i, "signal")
      /\ IF handles \/ group THEN Signalled(i) ELSE UNCHANGED <<server, port>>
  BY DEF signalScript, Running, Over
<1>3. launch' = [launch EXCEPT ![i] = l]
  BY <1>2 DEF Stopped
<1>4. /\ l \in ScriptRecords /\ l.at \in {launch[i].at, "exited"} /\ l.since = launch[i].since
      /\ l.by = launch[i].by /\ l.proof = launch[i].proof /\ (launch[i].quitting => l.quitting)
      /\ l.at = "exited" /\ launch[i].at # "exited" => ~handles /\ l.end = "signal"
  BY <1>1 DEF ScriptRecords, Points
<1>5. CASE server[i].at # "none"
  <2>1. /\ s \in ServerRecords /\ server' = [server EXCEPT ![i] = s] /\ s.at # "none"
        /\ s.code = server[i].code /\ (s.at = "gone" \/ Alive(i)) /\ (Seen(server[i]) => Seen(s))
        /\ port' \in Launches \cup {0} /\ (port' = i <=> s.at = "serving")
        /\ \A j \in Launches \ {i} : port' = j <=> port = j
    <3>1. CASE handles \/ group
      BY <3>1, <1>2, <1>5, HandledFacts
    <3>2. CASE ~(handles \/ group)
      BY <3>2, <1>1, <1>2, <1>5 DEF Alive
    <3> QED BY <3>1, <3>2
  <2>2. launch[i].at # "exited" /\ (launch[i].at \in Over => l.at = launch[i].at)
    BY <1>2 DEF Over
  <2>3. env.kind[i] \in Starters
    BY <1>1, <1>2, <1>5 DEF LaunchOK
  <2>4. l.at = "exited" => l.end = "signal" /\ env.kind[i] = "judge"
    BY <2>2, <2>3, <1>4, <1>5 DEF Starters
  <2> HIDE DEF s, l
  <2> QED BY <2>1, <2>2, <2>4, <1>1, <1>2, <1>3, <1>4, <1>5, LateStep
<1>6. CASE server[i].at = "none"
  <2>1. launch[i].at \in Early /\ Stopped(i, "signal")
    BY <1>1, <1>2, <1>6 DEF LaunchOK, Over
  <2>2. server' = server /\ port' = port
    BY <1>1, <1>2, <1>6, HandledFacts
  <2>3. EarlyFrame
    BY <2>2, <1>1, <1>2 DEF EarlyFrame, Machine
  <2> QED BY <2>1, <2>3, EarlyStop
<1> QED BY <1>5, <1>6

\* Steps of the backend that leave the port alone.
LEMMA BackendKeeps ==
    ASSUME LaunchInv, NEW i \in Launches,
           loadBackend(i) \/ activateContracts(i) \/ activateSkills(i) \/ waitPipelineQueue(i)
             \/ waitRunQueue(i) \/ hold(i) \/ closeBackend(i) \/ pythonEnds(i)
    PROVE  LaunchInv'
<1> DEFINE s == server'[i]
           f == server[i]
<1>1. /\ f \in ServerRecords /\ server \in [Launches -> ServerRecords]
      /\ port \in Launches \cup {0} /\ (port = i <=> f.at = "serving")
  BY LaunchFacts DEF LaunchInv, LaunchTypes
<1>2. /\ f.at # "none" /\ UNCHANGED <<Machine, launch, disk, port, crowded>> /\ (Mishap \/ Unharmed)
  BY DEF loadBackend, activateContracts, activateSkills, waitPipelineQueue, waitRunQueue, hold,
         closeBackend, pythonEnds, Unharmed
<1>3. /\ server' = [server EXCEPT ![i] = s] /\ s \in ServerRecords /\ s.code = f.code /\ s.at # "none"
      /\ s.at = "serving" <=> f.at = "serving"
      /\ s.at = "gone" \/ f.at # "gone"
      /\ f.at = "closing" => s.at \in {"closing", "gone"}
      /\ Seen(f) => Seen(s)
  <2>1. CASE loadBackend(i)
    BY <2>1, <1>1 DEF loadBackend, Move, ServerRecords, Seen
  <2>2. CASE activateContracts(i)
    BY <2>2, <1>1 DEF activateContracts, activate, Move, ServerRecords, Seen
  <2>3. CASE activateSkills(i)
    BY <2>3, <1>1 DEF activateSkills, activate, ServerRecords, Seen
  <2>4. CASE waitPipelineQueue(i)
    <3>1. Reached \in BOOLEAN
      BY LaunchFacts DEF Reached, RedisRecords
    <3> QED BY <3>1, <2>4, <1>1 DEF waitPipelineQueue, ServerRecords, Seen
  <2>5. CASE waitRunQueue(i)
    <3>1. Reached \in BOOLEAN
      BY LaunchFacts DEF Reached, RedisRecords
    <3> QED BY <3>1, <2>5, <1>1 DEF waitRunQueue, ServerRecords, Seen
  <2>6. CASE hold(i)
    BY <2>6, <1>1 DEF hold, ServerRecords, Seen
  <2>7. CASE closeBackend(i)
    BY <2>7, <1>1 DEF closeBackend, ServerRecords, Seen
  <2>8. CASE pythonEnds(i)
    BY <2>8, <1>1 DEF pythonEnds, ServerRecords, Seen
  <2> QED BY <2>1, <2>2, <2>3, <2>4, <2>5, <2>6, <2>7, <2>8
<1> HIDE DEF s
<1>4. s.at = "gone" \/ Alive(i)
  BY <1>2, <1>3 DEF Alive
<1>5. faults' \in 0..LaunchFaults
  BY <1>2, MishapTypes
<1> QED BY <1>1, <1>2, <1>3, <1>4, <1>5, BackendMoves

\* A backend begins to listen.
LEMMA ListenKeeps ==
    ASSUME LaunchInv, NEW i \in Launches, listen(i)
    PROVE  LaunchInv'
<1> DEFINE a == IF port = 0 THEN "serving" ELSE "gone"
           s == [server[i] EXCEPT !.at = a]
<1>1. /\ server[i] \in ServerRecords /\ faults \in 0..LaunchFaults
      /\ port \in Launches \cup {0} /\ (port = i <=> server[i].at = "serving")
  BY LaunchFacts
<1>2. /\ server[i].at = "listen" /\ UNCHANGED <<Machine, launch, disk, crowded, faults>>
      /\ server' = [server EXCEPT ![i] = s] /\ port' = IF port = 0 THEN i ELSE port
  BY DEF listen, Move
<1>3. /\ s \in ServerRecords /\ s.at = a /\ s.code = server[i].code
  BY <1>1 DEF ServerRecords
<1>4. ~Seen(server[i]) /\ Alive(i)
  BY <1>2 DEF Seen, Alive
<1>5. /\ port' \in Launches \cup {0} /\ (port' = i <=> a = "serving")
      /\ \A j \in Launches \ {i} : port' = j <=> port = j
  BY <1>1, <1>2, LaunchAssumption
<1>6. a # "none"
  OBVIOUS
<1> HIDE DEF a, s
<1> QED BY <1>1, <1>2, <1>3, <1>4, <1>5, <1>6, BackendMoves

\* A backend dies by itself.
LEMMA CrashKeeps ==
    ASSUME LaunchInv, NEW i \in Launches, crashBackend(i)
    PROVE  LaunchInv'
<1> DEFINE s == [server[i] EXCEPT !.at = "gone"]
<1>1. /\ server[i] \in ServerRecords /\ port \in Launches \cup {0}
      /\ (port = i <=> server[i].at = "serving")
  BY LaunchFacts
<1>2. /\ Alive(i) /\ UNCHANGED <<Machine, launch, disk, crowded>> /\ Mishap
      /\ server' = [server EXCEPT ![i] = s] /\ port' = Released(i)
  BY DEF crashBackend, Die, Move
<1>3. /\ s \in ServerRecords /\ s.at = "gone" /\ s.code = server[i].code
      /\ Seen(server[i]) => Seen(s)
  BY <1>1 DEF ServerRecords, Seen
<1>4. /\ port' \in Launches \cup {0} /\ port' # i /\ \A j \in Launches \ {i} : port' = j <=> port = j
  BY <1>1, <1>2, LaunchAssumption DEF Released
<1>5. server[i].at # "none" /\ faults' \in 0..LaunchFaults
  BY <1>2, MishapTypes DEF Alive
<1> HIDE DEF s
<1> QED BY <1>1, <1>2, <1>3, <1>4, <1>5, BackendMoves

\* A backend on its own is stopped.
LEMMA SignalBackendKeeps ==
    ASSUME LaunchInv, NEW i \in Launches, signalBackend(i)
    PROVE  LaunchInv'
<1> DEFINE s == Handled(server[i])
<1>1. /\ Alive(i) /\ server[i].at # "none" /\ Signalled(i) /\ faults' \in 0..LaunchFaults
      /\ UNCHANGED <<Machine, launch, disk, crowded>>
  BY LaunchFacts DEF signalBackend, Alive
<1>2. /\ s \in ServerRecords /\ server' = [server EXCEPT ![i] = s] /\ s.at \in {"closing", "gone"}
      /\ s.code = server[i].code /\ (Seen(server[i]) => Seen(s))
      /\ port' \in Launches \cup {0} /\ port' # i /\ \A j \in Launches \ {i} : port' = j <=> port = j
  BY <1>1, HandledFacts
<1> HIDE DEF s
<1> QED BY <1>1, <1>2, BackendMoves

\* The worker, Redis, the heartbeat and the source leave launches alone.
LEMMA MachineKeeps ==
    ASSUME LaunchInv,
           \/ startWorker \/ bootWorker \/ signalWorker \/ closeWorker \/ crashWorker
           \/ heartbeat \/ expireHeartbeat \/ editSource
           \/ \E r \in {"local", "remote"} : redisChanges(r)
    PROVE  LaunchInv'
<1>1. UNCHANGED <<env, launch, server, disk, port, crowded>>
  BY DEF startWorker, bootWorker, signalWorker, closeWorker, crashWorker, heartbeat, expireHeartbeat,
         editSource, redisChanges, Elsewhere
<1>2. /\ worker' \in {"off", "contracts", "running", "closing", "gone"} /\ beat' \in BOOLEAN
      /\ Mishap \/ Unharmed
  BY DEF startWorker, bootWorker, signalWorker, closeWorker, crashWorker, heartbeat, expireHeartbeat,
         editSource, redisChanges, Elsewhere, LaunchInv, LaunchTypes, Unharmed
<1>3. redis' \in RedisRecords
  <2>1. redis \in RedisRecords
    BY DEF LaunchInv, LaunchTypes
  <2>2. CASE \E r \in {"local", "remote"} : redisChanges(r)
    BY <2>1, <2>2 DEF redisChanges, RedisRecords
  <2>3. CASE redis' = redis
    BY <2>1, <2>3
  <2> QED BY <2>2, <2>3 DEF startWorker, bootWorker, signalWorker, closeWorker, crashWorker, heartbeat,
         expireHeartbeat, editSource, Elsewhere
<1>4. source' \in 1..MaxSource /\ source <= source'
  BY LaunchAssumption DEF startWorker, bootWorker, signalWorker, closeWorker, crashWorker, heartbeat,
         expireHeartbeat, editSource, redisChanges, Elsewhere, LaunchInv, LaunchTypes
<1>5. faults' \in 0..LaunchFaults
  BY <1>2, MishapTypes
<1>6. LaunchTypes'
  BY <1>1, <1>2, <1>3, <1>4, <1>5 DEF LaunchInv, LaunchTypes
<1>7. ASSUME NEW i \in Launches PROVE LaunchOK(env, i, launch[i], server[i], source', disk.dist)
  <2>1. /\ LaunchOK(env, i, launch[i], server[i], source, disk.dist)
        /\ launch[i].since \in 0..MaxSource /\ source \in 1..MaxSource
    BY LaunchFacts DEF ScriptRecords
  <2>2. launch[i].since <= source'
    BY <2>1, <1>4, LaunchAssumption DEF LaunchOK
  <2> QED BY <2>1, <2>2 DEF LaunchOK
<1>8. PortIsServed' /\ ReadyIsOwn' /\ AloneInv'
  BY <1>1 DEF LaunchInv, PortIsServed, ReadyIsOwn, AloneInv, Running, Alive
<1> QED BY <1>1, <1>6, <1>7, <1>8 DEF LaunchInv

\* LaunchInv holds at the start.
LEMMA LaunchStart == LaunchInit => LaunchInv
<1> SUFFICES ASSUME LaunchInit PROVE LaunchInv
  OBVIOUS
<1>1. Script \in ScriptRecords /\ Script.at = "idle" /\ Script.by = 0 /\ Script.since = 0
  BY LaunchAssumption DEF Script, ScriptRecords, Points
<1>2. NoServer \in ServerRecords /\ NoServer.at = "none" /\ NoServer.code = 0
  BY LaunchAssumption DEF NoServer, ServerRecords
<1>3. \A i \in Launches : launch[i] = Script /\ server[i] = NoServer
  BY DEF LaunchInit
<1>4. env.python \in BOOLEAN
  BY LaunchAssumption DEF LaunchInit
<1>5. disk \in DiskRecords
  <2>1. PICK v \in {FALSE, env.python} :
           disk = [venv |-> v, python |-> v, node |-> v, dist |-> IF v THEN 1 ELSE 0,
                   ui |-> IF v THEN 1 ELSE 0]
    BY DEF LaunchInit
  <2>2. v \in BOOLEAN
    BY <1>4
  <2>3. (IF v THEN 1 ELSE 0) \in 0..MaxSource
    BY LaunchAssumption
  <2> QED BY <2>1, <2>2, <2>3 DEF DiskRecords
<1>6. LaunchTypes
  <2>1. launch \in [Launches -> ScriptRecords] /\ server \in [Launches -> ServerRecords]
    BY <1>1, <1>2 DEF LaunchInit
  <2>2. redis \in RedisRecords
    BY DEF LaunchInit, RedisRecords
  <2>3. source \in 1..MaxSource /\ faults \in 0..LaunchFaults
    BY LaunchAssumption DEF LaunchInit
  <2> QED BY <2>1, <2>2, <2>3, <1>5 DEF LaunchInit, LaunchTypes
<1>7. PortIsServed /\ ReadyIsOwn /\ AloneInv
  BY <1>1, <1>2, <1>3, LaunchAssumption DEF LaunchInit, PortIsServed, ReadyIsOwn, AloneInv
<1>8. ASSUME NEW i \in Launches PROVE LaunchOK(env, i, launch[i], server[i], source, disk.dist)
  BY <1>1, <1>2, <1>3 DEF LaunchInit, LaunchOK, Early, BuiltOK, ProofOK
<1> QED BY <1>1, <1>3, <1>6, <1>7, <1>8 DEF LaunchInv

\* What a launch reports, runs and leaves behind, for any number of launches, environments,
\* faults and edits of the source (scripts/oneshot.mjs, scripts/judge.mjs,
\* app/bootstrap/demo.mjs, backend/index.ts).
THEOREM LaunchSound == LaunchSpec => []LaunchIsSound
<1>1. LaunchInv /\ [LaunchNext]_launchVars => LaunchInv'
  <2> SUFFICES ASSUME LaunchInv, [LaunchNext]_launchVars PROVE LaunchInv'
    OBVIOUS
  <2>1. ASSUME NEW i \in Launches, Begin(i) \/ ScriptStep(i) PROVE LaunchInv'
    BY <2>1, BeginKeeps, PrepareKeeps, ProveKeeps, BuildKeeps, SpawnKeeps, AskKeeps, ProbeKeeps,
       ExitHeardKeeps DEF ScriptStep
  <2>2. ASSUME NEW i \in Launches, BackendStep(i) \/ hold(i) \/ crashBackend(i) \/ signalBackend(i)
        PROVE  LaunchInv'
    BY <2>2, BackendKeeps, ListenKeeps, CrashKeeps, SignalBackendKeeps DEF BackendStep
  <2>3. ASSUME NEW i \in Launches, NEW group \in BOOLEAN, signalScript(i, group) PROVE LaunchInv'
    BY <2>3, SignalScriptKeeps
  <2>4. CASE UNCHANGED launchVars
    BY <2>4 DEF launchVars, LaunchInv, LaunchTypes, PortIsServed, ReadyIsOwn, AloneInv, Running, Alive
  <2> QED BY <2>1, <2>2, <2>3, <2>4, MachineKeeps DEF LaunchNext
<1>2. LaunchInv => LaunchIsSound
  <2> SUFFICES ASSUME LaunchInv PROVE LaunchIsSound
    OBVIOUS
  <2>1. LaunchTypeOK
    BY DEF LaunchInv, LaunchTypes, LaunchTypeOK, ScriptRecords, ServerRecords, DiskRecords, RedisRecords
  <2>2. PortIsServed /\ ReadyIsOwn /\ ReadyHasQueue
    BY DEF LaunchInv, ReadyHasQueue, Seen
  <2>3. RunsCurrentSource /\ OrphansExplained /\ QueueProven
    BY DEF LaunchInv, LaunchOK, ProofOK, RunsCurrentSource, OrphansExplained, QueueProven, Alive
  <2> QED BY <2>1, <2>2, <2>3 DEF LaunchIsSound
<1> QED BY <1>1, <1>2, LaunchStart, PTL DEF LaunchSpec
=============================================================================
