----------------------------- MODULE MCRunQueue -----------------------------
(* RunQueue for TLC: slots, deciders and packages are model values. *)
EXTENDS RunQueue
=============================================================================
