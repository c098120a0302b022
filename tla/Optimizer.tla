----------------------------- MODULE Optimizer -----------------------------
(***************************************************************************)
(* What a caller of optimizer.Optimize may rely on: a call is refused for  *)
(* its input, or else some decomposition that is promised comes back.  No  *)
(* search, stack, memo or order of candidates is visible here; module      *)
(* Decompose says what is promised and implements it.                      *)
(***************************************************************************)
CONSTANTS
  Facts,             \* the BucketFacts calls are made with
  Openings,          \* what the inputs of calls that are not refused have open
  Promised(_, _, _), \* results for what is open under the facts
  Pending,           \* no result yet
  Refusal            \* the result of a call that is refused

VARIABLES
  phase,    \* "idle" before the first call, then "busy" or "done"
  facts,    \* the facts of the call
  start,    \* what its input has open, unless it is refused
  result    \* what it returned

vars == <<phase, facts, start, result>>

Init == phase = "idle" /\ facts \in Facts

Accept ==
  /\ phase # "busy"
  /\ phase' = "busy"
  /\ facts' \in Facts
  /\ start' \in Openings
  /\ result' = Pending

Refuse ==
  /\ phase # "busy"
  /\ phase' = "done"
  /\ facts' \in Facts
  /\ result' = Refusal

Return ==
  /\ phase = "busy"
  /\ phase' = "done"
  /\ Promised(result', start, facts)
  /\ UNCHANGED <<facts, start>>

Next == Accept \/ Refuse \/ Return

Spec == Init /\ [][Next]_vars
=============================================================================
