-------------------------- MODULE MCResearchGate ---------------------------
(* ResearchGate for TLC: the requests are model values. *)
EXTENDS ResearchGate
=============================================================================
