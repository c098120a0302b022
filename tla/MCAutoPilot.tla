---------------------------- MODULE MCAutoPilot ----------------------------
(***************************************************************************)
(* Instances of AutoPilot.                                                 *)
(***************************************************************************)
EXTENDS AutoPilot

\* 2 and 12 depend on 1; any other issue on nothing.
Chain == [i \in Issues |-> IF i \in {2, 12} THEN {1} ELSE {}]
=============================================================================
