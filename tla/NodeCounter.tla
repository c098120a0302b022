---------------------------- MODULE NodeCounter ----------------------------
(***************************************************************************)
(* Optimizer.nodes under concurrent calls of Optimize on one Optimizer     *)
(* (internal/optimizer/optimizer.go, decompose.go).  Each goroutine resets *)
(* the counter, increments it once per entry of decompose, and may read it *)
(* with NodeCount.  The counter is a plain int: o.nodes++ is a load and a  *)
(* store, with steps of other goroutines between them.                     *)
(***************************************************************************)
EXTENDS Naturals

CONSTANTS
  Goroutines,  \* the concurrent callers
  Entries      \* goroutine -> entries of decompose its call makes, at least one

VARIABLES
  nodes,       \* Optimizer.nodes
  pc,          \* goroutine -> where its call stands
  left,        \* goroutine -> entries of decompose still to come
  loaded       \* goroutine -> the value its pending o.nodes++ has loaded

vars == <<nodes, pc, left, loaded>>

Init ==
  /\ nodes = 0
  /\ pc = [g \in Goroutines |-> "optimize"]
  /\ left = Entries
  /\ loaded = [g \in Goroutines |-> 0]

\* o.nodes = 0
Reset(g) ==
  /\ pc[g] = "optimize"
  /\ nodes' = 0
  /\ pc' = [pc EXCEPT ![g] = "load"]
  /\ UNCHANGED <<left, loaded>>

Load(g) ==
  /\ pc[g] = "load"
  /\ loaded' = [loaded EXCEPT ![g] = nodes]
  /\ pc' = [pc EXCEPT ![g] = "store"]
  /\ UNCHANGED <<nodes, left>>

Store(g) ==
  /\ pc[g] = "store"
  /\ nodes' = loaded[g] + 1
  /\ left' = [left EXCEPT ![g] = @ - 1]
  /\ pc' = [pc EXCEPT ![g] = IF left[g] = 1 THEN "returned" ELSE "load"]
  /\ UNCHANGED loaded

Next == \E g \in Goroutines : Reset(g) \/ Load(g) \/ Store(g)

Spec == Init /\ [][Next]_vars

-----------------------------------------------------------------------------
\* "safe for concurrent use": once all calls have returned, NodeCount is the
\* number of entries of one of them, the most recent one.
NodeCountIsOneCalls ==
  (\A g \in Goroutines : pc[g] = "returned") => nodes \in {Entries[g] : g \in Goroutines}
=============================================================================
