----------------------------- MODULE SnapUnits -----------------------------
(***************************************************************************)
(* The fixed-point loop of optionOnlyConsumption (internal/optimizer/      *)
(* consumption.go): starting from the least of the slots' deliverable      *)
(* units, lower units to a multiple of every slot's contract in turn until *)
(* a whole pass over the slots changes nothing.  OptionOnly of module      *)
(* Templates is what the loop promises.                                    *)
(***************************************************************************)
EXTENDS Templates

CONSTANT Starts    \* the search states consumptionFor is called in

ASSUME StartsAssumption == Starts \subseteq State

VARIABLES
  s,        \* the search state
  a,        \* the slot binding
  units,    \* deliverable units, in ticks
  slot,     \* the slot the pass has come to
  changed,  \* whether this pass has lowered units
  pc

vars == <<s, a, units, slot, changed, pc>>

Deliverable(i) == OpenQty(s, a[i]) * Leg[a[i]].mult

Contract(i) == Leg[a[i]].mult * Unit

Init ==
  /\ s \in Starts
  /\ a \in UNION {Bindings(Targets[i], s) : i \in DOMAIN Targets}
  /\ \A i \in DOMAIN a : IsOpenOption(s, a[i])
  /\ units \in {Deliverable(i) : i \in DOMAIN a}
  /\ \A i \in DOMAIN a : units <= Deliverable(i)
  /\ slot = 1
  /\ changed = FALSE
  /\ pc = "snap"

\* Mutant of Snapped: a multiple of the contract goes down to the one below.
SnappedBelow == ((units - 1) \div Contract(slot)) * Contract(slot)

Snapped == (units \div Contract(slot)) * Contract(slot)

\* Mutant of Lower: the pass does not remember that it has changed something.
LowerUnmarked ==
  /\ pc = "snap"
  /\ slot \in DOMAIN a
  /\ Snapped < units
  /\ units' = Snapped
  /\ slot' = slot + 1
  /\ UNCHANGED <<s, a, changed, pc>>

Lower ==
  /\ pc = "snap"
  /\ slot \in DOMAIN a
  /\ Snapped < units
  /\ units' = Snapped
  /\ changed' = TRUE
  /\ slot' = slot + 1
  /\ UNCHANGED <<s, a, pc>>

\* Mutant of Keep: a slot that needs no snapping counts as a change.
KeepMarked ==
  /\ pc = "snap"
  /\ slot \in DOMAIN a
  /\ Snapped >= units
  /\ changed' = TRUE
  /\ slot' = slot + 1
  /\ UNCHANGED <<s, a, units, pc>>

Keep ==
  /\ pc = "snap"
  /\ slot \in DOMAIN a
  /\ Snapped >= units
  /\ slot' = slot + 1
  /\ UNCHANGED <<s, a, units, changed, pc>>

Again ==
  /\ pc = "snap"
  /\ slot \notin DOMAIN a
  /\ changed
  /\ slot' = 1
  /\ changed' = FALSE
  /\ UNCHANGED <<s, a, units, pc>>

Stop ==
  /\ pc = "snap"
  /\ slot \notin DOMAIN a
  /\ ~changed
  /\ pc' = "done"
  /\ UNCHANGED <<s, a, units, slot, changed>>

Next == Lower \/ Keep \/ Again \/ Stop

Spec == Init /\ [][Next]_vars

\* The loop is straight-line code.
FairSpec == Spec /\ WF_vars(Next)

\* The plan made of the final units: none when a slot gets less than a contract.
SnappedPlan ==
  IF \E i \in DOMAIN a : units \div Leg[a[i]].mult < Unit THEN {}
  ELSE {[i \in DOMAIN a |-> units \div Leg[a[i]].mult]}

-----------------------------------------------------------------------------
\* The loop never goes past a slice that every slot could give: each common
\* whole-contract amount stays within units, however often units is lowered.
NeverOvershoots == \A v \in CommonUnits(s, a) : v <= units

\* When the loop stops, the plan is the largest whole-contract slice there is,
\* for every mix of contract sizes and fractional open quantities.
StopsAtLargestSlice == pc = "done" => SnappedPlan = OptionOnly(s, a)

\* The fixed point is reached.
Terminates == <>(pc = "done")
=============================================================================
