-------------------------- MODULE AutoPilotProofs --------------------------
(***************************************************************************)
(* Theorems about AutoPilot: its types, that a start never doubles work,   *)
(* that the worktrees of starts that did not fail stay within              *)
(* MAX_PARALLEL, that only unblocked issues are started and that nothing   *)
(* is cleaned up before a pull request made from it was merged.            *)
(***************************************************************************)
EXTENDS AutoPilot, FiniteSetTheorems, TLAPS

USE DEF github, work, bounds, tick, vars, Goto

LEMMA PilotTypes == TypeOK /\ (Preflight \/ Tick \/ Quit \/ Run \/ Die) => TypeOK'
  <1> SUFFICES ASSUME TypeOK PROVE Preflight \/ Tick \/ Quit \/ Run \/ Die => TypeOK'
    OBVIOUS
  <1>1. ASSUME Preflight PROVE TypeOK'
    BY <1>1 DEF TypeOK, Preflight, Stages, Considering
  <1>2. ASSUME Tick PROVE TypeOK'
    BY <1>2 DEF TypeOK, Tick, Stages, Considering
  <1>3. ASSUME Quit PROVE TypeOK'
    BY <1>3 DEF TypeOK, Quit, Stages, Considering
  <1>4. ASSUME Run PROVE TypeOK'
    BY <1>4 DEF TypeOK, Run, Stages, Considering
  <1>5. ASSUME Die PROVE TypeOK'
    <2>1. faults' \in Nat /\ edits' = edits
      BY <1>5 DEF TypeOK, Die, Fault
    <2>2. UNCHANGED <<github, work, main, failed>> /\ at' = "exited"
          /\ merged' = {} /\ cleaned' = FALSE /\ slots' = 0 /\ listed' = {} /\ cur' = 0
          /\ need' = {} /\ body' = {}
      BY <1>5 DEF Die
    <2> QED
      BY <2>1, <2>2 DEF TypeOK, Stages, Considering
  <1> QED
    BY <1>1, <1>2, <1>3, <1>4, <1>5

LEMMA CleanupTypes == TypeOK /\ Cleanup => TypeOK'
  <1> SUFFICES ASSUME TypeOK PROVE Cleanup => TypeOK'
    OBVIOUS
  <1>1. ASSUME ListMerged PROVE TypeOK'
    BY <1>1 DEF TypeOK, ListMerged, MergedPRs, NewestPRs, Stages, Considering
  <1>2. ASSUME FindTree PROVE TypeOK'
    BY <1>2 DEF TypeOK, FindTree, Trees, Stages, Considering
  <1>3. ASSUME Status \/ EndCleanup PROVE TypeOK'
    BY <1>3 DEF TypeOK, Status, EndCleanup, Stages, Considering
  <1>4. ASSUME KillSession PROVE TypeOK'
    BY <1>4 DEF TypeOK, KillSession, Fault, Stages, Considering
  <1>5. ASSUME RemoveTree PROVE TypeOK'
    BY <1>5 DEF TypeOK, RemoveTree, Stages, Considering
  <1>6. ASSUME DeleteBranch PROVE TypeOK'
    BY <1>6 DEF TypeOK, DeleteBranch, Stages, Considering
  <1>7. ASSUME PullMain PROVE TypeOK'
    BY <1>7 DEF TypeOK, PullMain, Stages, Considering
  <1> QED
    BY <1>1, <1>2, <1>3, <1>4, <1>5, <1>6, <1>7 DEF Cleanup

LEMMA TreesFinite == IsFiniteSet(Trees) /\ Cardinality(Trees) \in Nat
  BY IssuesAssumption, FS_Subset, FS_CardinalityType DEF Trees

\* An issue is considered only while the tick has a slot for it.
SlotLeft ==
  at \in {"session", "prs", "deps", "detail", "recheck", "create", "launch"} => slots > 0

LEMMA DispatchTypes == TypeOK /\ SlotLeft /\ Dispatch => TypeOK'
  <1> SUFFICES ASSUME TypeOK, SlotLeft PROVE Dispatch => TypeOK'
    OBVIOUS
  <1>1. ASSUME CountTrees PROVE TypeOK'
    <2> DEFINE n == Cardinality(Trees)
    <2>1. n \in Nat /\ MaxParallel \in Nat
      BY TreesFinite, LimitsAssumption
    <2>2. /\ slots' = IF n < MaxParallel THEN MaxParallel - n ELSE 0
          /\ at' \in {"sleep", "list"}
      BY <1>1 DEF CountTrees
    <2> HIDE DEF n
    <2>3. slots' \in Nat
      BY <2>1, <2>2
    <2> QED
      BY <1>1, <2>2, <2>3 DEF TypeOK, CountTrees, Stages, Considering
  <1>2. ASSUME ListIssues PROVE TypeOK'
    <2>1. listed' \subseteq [issue : Issues, deps : SUBSET Issues]
      <3>1. \A i \in NewestOpen \cap child :
              [issue |-> i, deps |-> deps[i]] \in [issue : Issues, deps : SUBSET Issues]
        BY DEF NewestOpen, TypeOK
      <3> QED
        BY <1>2, <3>1 DEF ListIssues
    <2> QED
      BY <1>2, <2>1 DEF TypeOK, ListIssues, Stages, Considering
  <1>3. ASSUME EndTick PROVE TypeOK'
    BY <1>3 DEF TypeOK, EndTick, Stages, Considering
  <1>4. ASSUME LookTree PROVE TypeOK'
    BY <1>4 DEF TypeOK, LookTree, Stages, Considering
  <1>5. ASSUME LookSession \/ LookPR PROVE TypeOK'
    BY <1>5 DEF TypeOK, LookSession, LookPR, Fault, Stages, Considering
  <1>6. ASSUME LookDependency \/ Satisfied PROVE TypeOK'
    BY <1>6 DEF TypeOK, LookDependency, Satisfied, Stages, Considering
  <1>7. ASSUME ReadDetail PROVE TypeOK'
    BY <1>7 DEF TypeOK, ReadDetail, Stages, Considering
  <1>8. ASSUME CreateTree PROVE TypeOK'
    BY <1>8 DEF TypeOK, CreateTree, Stages, Considering
  <1>9. ASSUME Launch PROVE TypeOK'
    <2>1. slots' \in Nat
      BY <1>9 DEF TypeOK, SlotLeft, Launch
    <2> QED
      BY <1>9, <2>1 DEF TypeOK, Launch, Stages, Considering
  <1>10. ASSUME FailStart PROVE TypeOK'
    BY <1>10 DEF TypeOK, FailStart, Fault, Stages, Considering
  <1> QED
    BY <1>1, <1>2, <1>3, <1>4, <1>5, <1>6, <1>7, <1>8, <1>9, <1>10 DEF Dispatch

LEMMA AgentTypes == ASSUME TypeOK, NEW i \in Issues, Agent(i) PROVE TypeOK'
  <1>1. CASE Change(i)
    BY <1>1 DEF TypeOK, Change
  <1>2. CASE Commit(i)
    BY <1>2 DEF TypeOK, Commit
  <1>3. CASE OpenPR(i)
    <2>1. [issue |-> i, state |-> "open"] \in PR
      BY DEF PR
    <2>2. prs' \in Seq(PR) /\ DOMAIN prs \subseteq DOMAIN prs'
      BY <1>3, <2>1 DEF TypeOK, OpenPR
    <2> QED
      BY <1>3, <2>2 DEF TypeOK, OpenPR
  <1>4. CASE Push(i)
    BY <1>4 DEF TypeOK, Push
  <1>5. CASE Stop(i)
    BY <1>5 DEF TypeOK, Stop
  <1>6. CASE Continue(i)
    BY <1>6 DEF TypeOK, Continue
  <1> QED
    BY <1>1, <1>2, <1>3, <1>4, <1>5, <1>6 DEF Agent

\* What a reviewer does to a pull request leaves them a sequence of as many.
LEMMA ReviewTypes ==
  ASSUME TypeOK, NEW k \in DOMAIN prs, NEW s \in {"merged", "closed"},
         prs' = [prs EXCEPT ![k].state = s]
  PROVE  prs' \in Seq(PR) /\ DOMAIN prs' = DOMAIN prs
  <1>1. prs[k] \in PR
    BY DEF TypeOK
  <1>2. [prs[k] EXCEPT !.state = s] \in PR
    BY <1>1 DEF PR
  <1>3. prs' = [prs EXCEPT ![k] = [prs[k] EXCEPT !.state = s]]
    OBVIOUS
  <1> QED
    BY <1>2, <1>3 DEF TypeOK

LEMMA PeopleTypes == TypeOK /\ People => TypeOK'
  <1> SUFFICES ASSUME TypeOK, People PROVE TypeOK'
    OBVIOUS
  <1>1. ASSUME NEW k \in DOMAIN prs, Merge(k) PROVE TypeOK'
    <2>1. prs' \in Seq(PR) /\ DOMAIN prs' = DOMAIN prs
      BY <1>1, ReviewTypes DEF Merge
    <2> QED
      BY <1>1, <2>1 DEF TypeOK, Merge
  <1>2. ASSUME NEW k \in DOMAIN prs, ClosePR(k) PROVE TypeOK'
    <2>1. prs' \in Seq(PR) /\ DOMAIN prs' = DOMAIN prs
      BY <1>2, ReviewTypes DEF ClosePR
    <2> QED
      BY <1>2, <2>1 DEF TypeOK, ClosePR, Edit
  <1>3. ASSUME NEW i \in Issues, Reopen(i) PROVE TypeOK'
    BY <1>3 DEF TypeOK, Reopen, Edit
  <1>4. ASSUME NEW i \in Issues, MakeUmbrella(i) PROVE TypeOK'
    BY <1>4 DEF TypeOK, MakeUmbrella, Edit
  <1>5. ASSUME NEW i \in Issues, NEW r \in {"completed", "not_planned"}, Close(i, r)
        PROVE TypeOK'
    BY <1>5 DEF TypeOK, Close, Edit
  <1>6. ASSUME NEW i \in Issues, NEW d \in Issues, AddDependency(i, d) PROVE TypeOK'
    BY <1>6 DEF TypeOK, AddDependency, Edit
  <1> QED
    BY <1>1, <1>2, <1>3, <1>4, <1>5, <1>6 DEF People

LEMMA StepTypes == TypeOK /\ SlotLeft /\ [Next]_vars => TypeOK'
  <1> SUFFICES ASSUME TypeOK, SlotLeft, [Next]_vars PROVE TypeOK'
    OBVIOUS
  <1>1. CASE Next
    BY <1>1, PilotTypes, CleanupTypes, DispatchTypes, AgentTypes, PeopleTypes DEF Next, Pilot
  <1>2. CASE UNCHANGED vars
    BY <1>2 DEF TypeOK
  <1> QED
    BY <1>1, <1>2

\* What agents and people do leaves the pilot where it is.
LEMMA OthersLeavePilot ==
  (\E i \in Issues : Agent(i)) \/ People => UNCHANGED <<at, tick, failed>>
  <1>1. \A i \in Issues : Agent(i) => UNCHANGED <<at, tick, failed>>
    BY DEF Agent, Change, Commit, OpenPR, Push, Stop, Continue
  <1>2. People => UNCHANGED <<at, tick, failed>>
    BY DEF People, Merge, ClosePR, Reopen, MakeUmbrella, Close, AddDependency, Edit
  <1> QED
    BY <1>1, <1>2

LEMMA StepSlotLeft == TypeOK /\ SlotLeft /\ [Next]_vars => SlotLeft'
  <1> SUFFICES ASSUME TypeOK, SlotLeft, [Next]_vars PROVE SlotLeft'
    OBVIOUS
  <1>1. CASE Preflight \/ Tick \/ Quit \/ Run \/ Die
    BY <1>1 DEF Preflight, Tick, Quit, Run, Die, SlotLeft
  <1>2. CASE Cleanup
    BY <1>2 DEF Cleanup, ListMerged, FindTree, Status, KillSession, RemoveTree, DeleteBranch,
                EndCleanup, PullMain, SlotLeft
  <1>3. CASE CountTrees \/ ListIssues \/ EndTick
    BY <1>3 DEF CountTrees, ListIssues, EndTick, SlotLeft
  <1>4. CASE LookTree
    BY <1>4 DEF LookTree, SlotLeft
  <1>5. CASE LookSession \/ LookPR \/ LookDependency \/ Satisfied
    BY <1>5 DEF LookSession, LookPR, LookDependency, Satisfied, SlotLeft
  <1>6. CASE ReadDetail \/ CreateTree \/ Launch \/ FailStart
    BY <1>6 DEF ReadDetail, CreateTree, Launch, FailStart, SlotLeft
  <1>7. CASE (\E i \in Issues : Agent(i)) \/ People \/ UNCHANGED vars
    BY <1>7, OthersLeavePilot DEF SlotLeft
  <1> QED
    BY <1>1, <1>2, <1>3, <1>4, <1>5, <1>6, <1>7 DEF Next, Pilot, Dispatch

LEMMA InitTypes == Init => TypeOK /\ SlotLeft
  <1> SUFFICES ASSUME Init PROVE TypeOK /\ SlotLeft
    OBVIOUS
  <1>1. prs \in Seq(PR) /\ merged \subseteq DOMAIN prs
    BY DEF Init
  <1>2. issue \in [Issues -> {"open", "completed", "not_planned"}]
        /\ deps \in [Issues -> SUBSET Issues]
        /\ tree \in [Issues -> {"none", "clean", "dirty"}]
        /\ branch \in [Issues -> {"none", "pushed", "ahead"}]
    BY DependenciesAssumption DEF Init
  <1>3. at \in Stages \ Considering /\ SlotLeft
    BY DEF Init, Stages, Considering, SlotLeft
  <1> QED
    BY <1>1, <1>2, <1>3, ChildrenAssumption DEF Init, TypeOK

LEMMA TypesHold == Spec => [](TypeOK /\ SlotLeft)
  BY InitTypes, StepTypes, StepSlotLeft, PTL DEF Spec

\* What the pilot looked at, and its locals, keep their types.
THEOREM PilotTypeCorrect == Spec => []TypeOK
  BY TypesHold, PTL

-----------------------------------------------------------------------------
(***************************************************************************)
(* A start never doubles work.                                             *)
(***************************************************************************)
\* What each look has established still holds while the later ones are made;
\* only a failing tmux makes a running session look as if there were none.
Unstarted ==
  /\ at \in {"session", "prs", "deps", "detail", "recheck", "create"} => cur \notin Trees
  /\ "tmux" \notin Failing /\ at \in {"prs", "deps", "detail", "recheck", "create"}
       => cur \notin session
  /\ at \in {"deps", "detail", "recheck", "create"} => ~HasPR(cur, "open")

\* gh pr list answers with all pull requests while there are no more than its limit.
LEMMA AllListed ==
  ASSUME TypeOK, Len(prs) <= PRLimit, NEW k \in DOMAIN prs, prs[k].state = "open"
  PROVE  k \in NewestPRs({"open"})
  <1> DEFINE later == {j \in DOMAIN prs : prs[j].state \in {"open"} /\ j > k}
             others == (1..Len(prs)) \ {k}
  <1>1. Len(prs) \in Nat /\ DOMAIN prs = 1..Len(prs) /\ PRLimit \in Nat
    BY LimitsAssumption DEF TypeOK
  <1>2. IsFiniteSet(1..Len(prs)) /\ Cardinality(1..Len(prs)) = Len(prs)
    <2>1. /\ IsFiniteSet(1..Len(prs))
          /\ Cardinality(1..Len(prs)) = IF 1 > Len(prs) THEN 0 ELSE Len(prs) - 1 + 1
      BY <1>1, FS_Interval
    <2> QED
      BY <1>1, <2>1
  <1>3. IsFiniteSet(others) /\ Cardinality(others) = Len(prs) - 1
    <2>1. k \in 1..Len(prs)
      BY <1>1
    <2> DEFINE all == 1..Len(prs)
    <2>2. IsFiniteSet(all) /\ Cardinality(all) = Len(prs) /\ k \in all
      BY <1>2, <2>1
    <2> HIDE DEF all
    <2>3. IsFiniteSet(all \ {k}) /\ Cardinality(all \ {k}) = Cardinality(all) - 1
      BY <2>2, FS_RemoveElement
    <2> QED
      BY <2>2, <2>3 DEF all
  <1>4. later \subseteq others
    BY <1>1
  <1>5. Cardinality(later) \in Nat /\ Cardinality(later) <= Cardinality(others)
    BY <1>3, <1>4, FS_Subset, FS_CardinalityType
  <1>6. Cardinality(later) < PRLimit
    BY <1>1, <1>3, <1>5
  <1>7. later = {j \in {h \in DOMAIN prs : prs[h].state \in {"open"}} : j > k}
    OBVIOUS
  <1> QED
    BY <1>6, <1>7 DEF NewestPRs

LEMMA InitUnstarted == Init => Unstarted /\ Len(prs) <= MaxPRs
  BY LimitsAssumption DEF Init, Unstarted

LEMMA CleanupUnstarted ==
  TypeOK /\ Unstarted /\ (Preflight \/ Tick \/ Quit \/ Run \/ Die \/ Cleanup)
    => Unstarted' /\ prs' = prs
  <1> SUFFICES ASSUME TypeOK, Unstarted PROVE
        Preflight \/ Tick \/ Quit \/ Run \/ Die \/ Cleanup => Unstarted' /\ prs' = prs
    OBVIOUS
  <1>1. ASSUME Preflight \/ Tick \/ Quit \/ Run \/ Die PROVE Unstarted' /\ prs' = prs
    BY <1>1 DEF Preflight, Tick, Quit, Run, Die, Unstarted
  <1>2. ASSUME Cleanup PROVE Unstarted' /\ prs' = prs
    BY <1>2 DEF Cleanup, ListMerged, FindTree, Status, KillSession, RemoveTree, DeleteBranch,
                EndCleanup, PullMain, Unstarted
  <1> QED
    BY <1>1, <1>2

LEMMA DispatchUnstarted ==
  ASSUME TypeOK, Unstarted, Len(prs) <= PRLimit, Dispatch
  PROVE  Unstarted' /\ prs' = prs
  <1>1. CASE CountTrees \/ ListIssues \/ EndTick
    BY <1>1 DEF CountTrees, ListIssues, EndTick, Unstarted
  <1>2. CASE LookTree
    BY <1>2 DEF LookTree, Unstarted, Trees
  <1>3. CASE LookSession
    <2>1. at' \in {"prs", "tree"} /\ at = "session" /\ UNCHANGED <<github, work, tick>>
      BY <1>3 DEF LookSession
    <2>2. at' = "prs" /\ "tmux" \notin Failing => cur \notin session
      BY <1>3 DEF LookSession, Fault, TmuxTarget
    <2> QED
      BY <2>1, <2>2 DEF Unstarted, Trees
  <1>4. CASE LookPR
    <2>1. at' \in {"deps", "tree"} /\ at = "prs" /\ UNCHANGED <<github, work, tick>>
      BY <1>4 DEF LookPR
    <2>2. at' = "deps" => ~HasPR(cur, "open")
      <3> SUFFICES ASSUME at' = "deps", NEW k \in DOMAIN prs,
                          prs[k] = [issue |-> cur, state |-> "open"]
                   PROVE  FALSE
        BY DEF HasPR
      <3>1. k \in NewestPRs({"open"}) /\ prs[k].issue = cur
        BY AllListed
      <3> QED
        BY <1>4, <3>1 DEF LookPR
    <2> QED
      BY <2>1, <2>2 DEF Unstarted, Trees, HasPR
  <1>5. CASE LookDependency \/ Satisfied \/ ReadDetail
    BY <1>5 DEF LookDependency, Satisfied, ReadDetail, Unstarted, Trees, HasPR
  <1>6. CASE CreateTree \/ Launch \/ FailStart
    BY <1>6 DEF CreateTree, Launch, FailStart, Unstarted
  <1> QED
    BY <1>1, <1>2, <1>3, <1>4, <1>5, <1>6 DEF Dispatch

LEMMA AgentUnstarted ==
  ASSUME TypeOK, Unstarted, Len(prs) <= MaxPRs, NEW i \in Issues, Agent(i)
  PROVE  Unstarted' /\ Len(prs') <= MaxPRs
  <1>1. at' = at /\ cur' = cur
    BY OthersLeavePilot
  <1>2. Trees' = Trees
    <2>1. CASE Change(i)
      BY <2>1 DEF Change, Trees, TypeOK
    <2>2. CASE Commit(i)
      BY <2>2 DEF Commit, Trees, TypeOK
    <2>3. CASE OpenPR(i) \/ Push(i) \/ Stop(i) \/ Continue(i)
      BY <2>3 DEF OpenPR, Push, Stop, Continue, Trees
    <2> QED
      BY <2>1, <2>2, <2>3 DEF Agent
  <1>3. session' \subseteq session \cup Trees
    BY DEF Agent, Change, Commit, OpenPR, Push, Stop, Continue
  <1>4. CASE OpenPR(i)
    <2>1. prs' = Append(prs, [issue |-> i, state |-> "open"]) /\ i \in Trees
          /\ Len(prs) < MaxPRs
      BY <1>4 DEF OpenPR, Working
    <2>2. Len(prs') <= MaxPRs
      BY <2>1, LimitsAssumption DEF TypeOK
    <2>3. \A k \in DOMAIN prs' : \/ k \in DOMAIN prs /\ prs'[k] = prs[k]
                                 \/ prs'[k] = [issue |-> i, state |-> "open"]
      BY <2>1 DEF TypeOK
    <2>4. \A j \in Issues \ Trees : HasPR(j, "open")' => HasPR(j, "open")
      BY <2>1, <2>3 DEF HasPR
    <2> QED
      BY <1>1, <1>2, <1>3, <2>2, <2>4 DEF Unstarted, TypeOK, Considering
  <1>5. CASE ~OpenPR(i)
    <2>1. prs' = prs
      BY <1>5 DEF Agent, Change, Commit, Push, Stop, Continue
    <2> QED
      BY <1>1, <1>2, <1>3, <2>1 DEF Unstarted, HasPR
  <1> QED
    BY <1>4, <1>5

LEMMA PeopleUnstarted ==
  ASSUME TypeOK, Unstarted, Len(prs) <= MaxPRs, People
  PROVE  Unstarted' /\ Len(prs') <= MaxPRs
  <1>1. at' = at /\ cur' = cur
    BY OthersLeavePilot
  <1>2. tree' = tree /\ session' = session
    BY DEF People, Merge, ClosePR, Reopen, MakeUmbrella, Close, AddDependency, Edit
  <1>3. \/ prs' = prs
        \/ \E k \in DOMAIN prs, s \in {"merged", "closed"} : prs' = [prs EXCEPT ![k].state = s]
    BY DEF People, Merge, ClosePR, Reopen, MakeUmbrella, Close, AddDependency, Edit
  <1>4. CASE prs' = prs
    BY <1>1, <1>2, <1>4 DEF Unstarted, Trees, HasPR
  <1>5. ASSUME NEW k \in DOMAIN prs, NEW s \in {"merged", "closed"},
               prs' = [prs EXCEPT ![k].state = s]
        PROVE  Unstarted' /\ Len(prs') <= MaxPRs
    <2>1. prs' \in Seq(PR) /\ DOMAIN prs' = DOMAIN prs
      BY <1>5, ReviewTypes
    <2>2. Len(prs') = Len(prs)
      BY <2>1 DEF TypeOK
    <2>3. prs[k] \in PR
      BY DEF TypeOK
    <2>4. \A j \in DOMAIN prs : prs'[j] = IF j = k THEN [prs[k] EXCEPT !.state = s] ELSE prs[j]
      BY <1>5 DEF TypeOK
    <2>5. \A j \in DOMAIN prs' : prs'[j].state = "open" => prs'[j] = prs[j]
      BY <2>1, <2>3, <2>4 DEF PR
    <2>6. \A i : HasPR(i, "open")' => HasPR(i, "open")
      BY <2>1, <2>5 DEF HasPR
    <2> QED
      BY <1>1, <1>2, <2>2, <2>6 DEF Unstarted, Trees
  <1> QED
    BY <1>3, <1>4, <1>5

LookedAt == TypeOK /\ SlotLeft /\ Unstarted /\ Len(prs) <= MaxPRs

LEMMA StepLookedAt == ASSUME MaxPRs <= PRLimit, LookedAt, [Next]_vars PROVE LookedAt'
  <1> SUFFICES Unstarted' /\ (Len(prs) <= MaxPRs)'
    BY StepTypes, StepSlotLeft DEF LookedAt
  <1>0. Len(prs) <= PRLimit
    BY LimitsAssumption DEF LookedAt, TypeOK
  <1>1. CASE Preflight \/ Tick \/ Quit \/ Run \/ Die \/ Cleanup
    BY <1>1, CleanupUnstarted DEF LookedAt
  <1>2. CASE Dispatch
    BY <1>0, <1>2, DispatchUnstarted DEF LookedAt
  <1>3. CASE (\E i \in Issues : Agent(i)) \/ People
    BY <1>3, AgentUnstarted, PeopleUnstarted DEF LookedAt
  <1>4. CASE UNCHANGED vars
    BY <1>4 DEF LookedAt, Unstarted, Trees, HasPR
  <1> QED
    BY <1>1, <1>2, <1>3, <1>4 DEF Next, Pilot

LEMMA InitLookedAt == Init => LookedAt
  BY InitTypes, InitUnstarted DEF LookedAt

\* Whatever agents and people do between the looks, an issue is started only when
\* it has no worktree, no session and no open pull request, provided gh lists
\* all pull requests and tmux answers.
THEOREM NoDuplicateStarts ==
  ASSUME "tmux" \notin Failing, MaxPRs <= PRLimit
  PROVE  Spec => []StartsNoDuplicate
  <1>1. LookedAt => StartsNoDuplicate
    BY DEF LookedAt, Unstarted, StartsNoDuplicate
  <1> QED
    BY <1>1, InitLookedAt, StepLookedAt, PTL DEF Spec

-----------------------------------------------------------------------------
(***************************************************************************)
(* The worktrees stay within MAX_PARALLEL, save those of failed starts.    *)
(***************************************************************************)
InFlight == Trees \ failed

Dispatching == {"list", "tree", "session", "prs", "deps", "detail", "recheck", "create"}

\* slots is what the tick may add to the worktrees in flight; at launch the
\* worktree created last has yet to use its slot.
Capacity ==
  /\ Cardinality(InFlight) <= MaxParallel
  /\ at \in Dispatching => Cardinality(InFlight) + slots <= MaxParallel
  /\ at = "launch" => Cardinality(InFlight \ {cur}) + slots <= MaxParallel

LEMMA Fewer ==
  ASSUME NEW T, T \subseteq Issues, NEW S, S \subseteq T
  PROVE  /\ Cardinality(S) \in Nat /\ Cardinality(T) \in Nat
         /\ Cardinality(S) <= Cardinality(T)
  BY IssuesAssumption, FS_Subset, FS_CardinalityType

LEMMA OneMore ==
  ASSUME NEW T, T \subseteq Issues, NEW i \in Issues, NEW S, S \subseteq T \cup {i}
  PROVE  Cardinality(S) <= Cardinality(T) + 1
  <1>1. IsFiniteSet(T) /\ Cardinality(T) \in Nat
    BY IssuesAssumption, FS_Subset, FS_CardinalityType
  <1>2. Cardinality(T \cup {i}) = IF i \in T THEN Cardinality(T) ELSE Cardinality(T) + 1
    BY <1>1, FS_AddElement
  <1>3. Cardinality(S) \in Nat /\ Cardinality(S) <= Cardinality(T \cup {i})
    BY Fewer
  <1> QED
    BY <1>1, <1>2, <1>3

\* A step that adds no worktree in flight, and neither slots nor a stage at which
\* they count.
LEMMA NothingAdded ==
  ASSUME TypeOK, Capacity, InFlight' \subseteq InFlight, cur' = cur \/ at' # "launch",
         \/ at' \notin Dispatching \cup {"launch"}
         \/ slots' = slots /\ (at = at' \/ {at, at'} \subseteq Dispatching)
  PROVE  Capacity'
  <1>1. /\ Cardinality(InFlight') \in Nat /\ Cardinality(InFlight) \in Nat
        /\ Cardinality(InFlight') <= Cardinality(InFlight)
    <2>1. InFlight \subseteq Issues
      BY DEF InFlight, Trees
    <2> QED
      BY <2>1, Fewer
  <1>2. MaxParallel \in Nat /\ slots \in Nat
    BY LimitsAssumption DEF TypeOK
  <1>3. CASE at' # "launch"
    BY <1>1, <1>2, <1>3 DEF Capacity
  <1>4. CASE at' = "launch"
    <2>1. at = "launch" /\ slots' = slots /\ cur' = cur
      BY <1>4 DEF Dispatching
    <2>2. /\ Cardinality(InFlight' \ {cur}) \in Nat /\ Cardinality(InFlight \ {cur}) \in Nat
          /\ Cardinality(InFlight' \ {cur}) <= Cardinality(InFlight \ {cur})
      <3>1. InFlight \ {cur} \subseteq Issues
        BY DEF InFlight, Trees
      <3> QED
        BY <3>1, Fewer
    <2> QED
      BY <1>1, <1>2, <1>4, <2>1, <2>2 DEF Capacity, Dispatching
  <1> QED
    BY <1>3, <1>4

LEMMA CleanupCapacity ==
  ASSUME TypeOK, Capacity, Preflight \/ Tick \/ Quit \/ Run \/ Die \/ Cleanup
  PROVE  Capacity'
  <1>1. InFlight' \subseteq InFlight
    <2>1. CASE RemoveTree
      BY <2>1 DEF RemoveTree, InFlight, Trees, TypeOK
    <2>2. CASE ~RemoveTree
      <3>1. tree' = tree /\ failed' = failed
        BY <2>2 DEF Preflight, Tick, Quit, Run, Die, Cleanup, ListMerged, FindTree, Status,
                    KillSession, DeleteBranch, EndCleanup, PullMain
      <3> QED
        BY <3>1 DEF InFlight, Trees
    <2> QED
      BY <2>1, <2>2
  <1>2. at' \notin Dispatching \cup {"launch"}
    BY DEF Preflight, Tick, Quit, Run, Die, Cleanup, ListMerged, FindTree, Status, KillSession,
           RemoveTree, DeleteBranch, EndCleanup, PullMain, Dispatching
  <1> QED
    BY <1>1, <1>2, NothingAdded

LEMMA DispatchCapacity ==
  ASSUME TypeOK, SlotLeft, Capacity, Dispatch
  PROVE  Capacity'
  <1>1. /\ MaxParallel \in Nat /\ slots \in Nat /\ Trees \subseteq Issues
        /\ InFlight \subseteq Trees /\ InFlight \subseteq Issues
    BY LimitsAssumption DEF TypeOK, InFlight, Trees
  <1>2. CASE CountTrees
    <2>1. Cardinality(Trees) \in Nat /\ Cardinality(InFlight) <= Cardinality(Trees)
          /\ Cardinality(InFlight) \in Nat
      BY <1>1, Fewer
    <2>2. InFlight' = InFlight /\ at' \in {"sleep", "list"} /\ (at' = "list" => slots' # 0)
          /\ slots' = IF Cardinality(Trees) < MaxParallel
                      THEN MaxParallel - Cardinality(Trees) ELSE 0
      BY <1>2 DEF CountTrees, InFlight, Trees
    <2>3. slots' # 0 => Cardinality(InFlight) + slots' <= MaxParallel
      <3> DEFINE n == Cardinality(Trees)
                 m == Cardinality(InFlight)
      <3>1. n \in Nat /\ m \in Nat /\ m <= n
            /\ slots' = IF n < MaxParallel THEN MaxParallel - n ELSE 0
        BY <2>1, <2>2
      <3> HIDE DEF n, m
      <3>2. slots' # 0 => m + slots' <= MaxParallel
        BY <1>1, <3>1
      <3> QED
        BY <3>2 DEF m
    <2>4. Cardinality(InFlight)' = Cardinality(InFlight)
      BY <2>2
    <2> QED
      BY <2>2, <2>3, <2>4 DEF Capacity, Dispatching
  <1>3. CASE ListIssues \/ LookTree \/ LookSession \/ LookPR \/ LookDependency \/ Satisfied
             \/ ReadDetail
    <2>1. slots' = slots /\ {at, at'} \subseteq Dispatching
      BY <1>3 DEF ListIssues, LookTree, LookSession, LookPR, LookDependency, Satisfied,
                  ReadDetail, Dispatching
    <2>2. InFlight' = InFlight
      BY <1>3 DEF ListIssues, LookTree, LookSession, LookPR, LookDependency, Satisfied,
                  ReadDetail, InFlight, Trees
    <2> QED
      BY <2>1, <2>2, NothingAdded DEF Dispatching
  <1>4. CASE EndTick
    <2>1. at' = "sleep" /\ InFlight' = InFlight
      BY <1>4 DEF EndTick, InFlight, Trees
    <2> QED
      BY <2>1, NothingAdded DEF Dispatching
  <1>5. CASE CreateTree
    <2>1. at = "create" /\ at' = "launch" /\ slots' = slots /\ cur' = cur /\ cur \in Issues
      BY <1>5 DEF CreateTree, TypeOK, Considering
    <2>2. InFlight' \subseteq InFlight \cup {cur}
      BY <1>5 DEF CreateTree, InFlight, Trees, TypeOK
    <2>3. /\ Cardinality(InFlight') <= Cardinality(InFlight) + 1
          /\ Cardinality(InFlight') \in Nat /\ Cardinality(InFlight) \in Nat
      <3>1. InFlight' \subseteq Issues
        BY <1>1, <2>1, <2>2
      <3> QED
        BY <1>1, <2>1, <2>2, <3>1, OneMore, Fewer
    <2>4. /\ Cardinality(InFlight' \ {cur}) <= Cardinality(InFlight)
          /\ Cardinality(InFlight' \ {cur}) \in Nat
      BY <1>1, <2>2, Fewer
    <2>5. Cardinality(InFlight) + slots <= MaxParallel /\ slots > 0
      BY <2>1 DEF Capacity, SlotLeft, Dispatching
    <2> QED
      BY <1>1, <2>1, <2>3, <2>4, <2>5 DEF Capacity, Dispatching
  <1>6. CASE Launch
    <2>1. at = "launch" /\ at' = "tree" /\ slots' = slots - 1 /\ cur \in Issues
      BY <1>6 DEF Launch, TypeOK, Considering
    <2>2. InFlight' \subseteq (InFlight \ {cur}) \cup {cur}
      BY <1>6 DEF Launch, InFlight, Trees
    <2>3. /\ Cardinality(InFlight') <= Cardinality(InFlight \ {cur}) + 1
          /\ Cardinality(InFlight') \in Nat /\ Cardinality(InFlight \ {cur}) \in Nat
      <3>1. InFlight' \subseteq Issues /\ InFlight \ {cur} \subseteq Issues
        BY <1>1, <2>1, <2>2
      <3> QED
        BY <2>1, <2>2, <3>1, OneMore, Fewer
    <2>4. Cardinality(InFlight \ {cur}) + slots <= MaxParallel /\ slots > 0
      BY <2>1 DEF Capacity, SlotLeft
    <2> QED
      BY <1>1, <2>1, <2>3, <2>4 DEF Capacity
  <1>7. CASE FailStart
    <2>1. at' = "tree" /\ slots' = slots /\ cur' = cur /\ failed' = failed \cup {cur}
          /\ at \in Dispatching \cup {"launch"} /\ tree' = tree
      BY <1>7 DEF FailStart, Dispatching
    <2>2. InFlight' \subseteq InFlight \ {cur}
      BY <2>1 DEF InFlight, Trees
    <2>3. CASE at = "launch"
      <3>1. /\ Cardinality(InFlight') <= Cardinality(InFlight \ {cur})
            /\ Cardinality(InFlight') \in Nat /\ Cardinality(InFlight \ {cur}) \in Nat
        <4>1. InFlight \ {cur} \subseteq Issues
          BY <1>1
        <4> QED
          BY <2>2, <4>1, Fewer
      <3>2. Cardinality(InFlight \ {cur}) + slots <= MaxParallel
        BY <2>3 DEF Capacity
      <3> QED
        BY <1>1, <2>1, <3>1, <3>2 DEF Capacity
    <2>4. CASE at \in Dispatching
      BY <2>1, <2>2, <2>4, NothingAdded DEF Dispatching
    <2> QED
      BY <2>1, <2>3, <2>4
  <1> QED
    BY <1>2, <1>3, <1>4, <1>5, <1>6, <1>7 DEF Dispatch

LEMMA OthersCapacity ==
  ASSUME TypeOK, Capacity, (\E i \in Issues : Agent(i)) \/ People \/ UNCHANGED vars
  PROVE  Capacity'
  <1>1. at' = at /\ slots' = slots /\ cur' = cur /\ failed' = failed
    BY OthersLeavePilot
  <1>2. Trees' = Trees
    <2>1. \A i \in Issues : Agent(i) => Trees' = Trees
      BY DEF Agent, Change, Commit, OpenPR, Push, Stop, Continue, Trees, TypeOK
    <2>2. People => Trees' = Trees
      BY DEF People, Merge, ClosePR, Reopen, MakeUmbrella, Close, AddDependency, Edit, Trees
    <2> QED
      BY <2>1, <2>2 DEF Trees
  <1> QED
    BY <1>1, <1>2, NothingAdded DEF InFlight

\* The count of worktrees is taken once a tick and the world moves on, yet no
\* tick starts more than MAX_PARALLEL allows, save for starts that failed.
THEOREM CapacityKept == Spec => []WorktreesWithinCapacity
  <1> DEFINE Inv == TypeOK /\ SlotLeft /\ Capacity
  <1>1. Init => Inv
    <2> SUFFICES ASSUME Init PROVE Capacity
      BY InitTypes
    <2>1. InFlight = {} /\ at = "preflight"
      BY DEF Init, InFlight, Trees
    <2> QED
      BY <2>1, FS_EmptySet, LimitsAssumption DEF Capacity, Dispatching
  <1>2. Inv /\ [Next]_vars => Inv'
    <2> SUFFICES ASSUME Inv, [Next]_vars PROVE Capacity'
      BY StepTypes, StepSlotLeft
    <2>1. CASE Preflight \/ Tick \/ Quit \/ Run \/ Die \/ Cleanup
      BY <2>1, CleanupCapacity
    <2>2. CASE Dispatch
      BY <2>2, DispatchCapacity
    <2>3. CASE (\E i \in Issues : Agent(i)) \/ People \/ UNCHANGED vars
      BY <2>3, OthersCapacity
    <2> QED
      BY <2>1, <2>2, <2>3 DEF Next, Pilot
  <1>3. Inv => WorktreesWithinCapacity
    BY DEF Capacity, InFlight, WorktreesWithinCapacity
  <1> QED
    BY <1>1, <1>2, <1>3, PTL DEF Spec

-----------------------------------------------------------------------------
(***************************************************************************)
(* Only unblocked issues are started.                                      *)
(***************************************************************************)
\* The dependencies of the body read by startIssue that were looked at since
\* are still completed.
Unblocked ==
  /\ at = "recheck" => \A d \in body \ need : issue[d] = "completed"
  /\ at = "create" => \A d \in body : issue[d] = "completed"

\* What is completed stays so where nobody reopens issues.
LEMMA CompletedStays ==
  ASSUME "reopen" \notin Edits, TypeOK, [Next]_vars, NEW d \in Issues,
         issue[d] = "completed"
  PROVE  issue'[d] = "completed"
  <1>1. CASE Preflight \/ Tick \/ Quit \/ Run \/ Die \/ Cleanup \/ Dispatch \/ UNCHANGED vars
    <2>1. issue' = issue
      BY <1>1 DEF Preflight, Tick, Quit, Run, Die, Cleanup, ListMerged, FindTree, Status,
             KillSession, RemoveTree, DeleteBranch, EndCleanup, PullMain, Dispatch, CountTrees,
             ListIssues, EndTick, LookTree, LookSession, LookPR, LookDependency, Satisfied,
             ReadDetail, CreateTree, Launch, FailStart
    <2> QED
      BY <2>1
  <1>2. CASE \E i \in Issues : Agent(i)
    BY <1>2 DEF Agent, Change, Commit, OpenPR, Push, Stop, Continue
  <1>3. CASE People
    BY <1>3 DEF People, Merge, ClosePR, Reopen, MakeUmbrella, Close, AddDependency, Edit, TypeOK
  <1> QED
    BY <1>1, <1>2, <1>3 DEF Next, Pilot

LEMMA StepUnblocked ==
  ASSUME "reopen" \notin Edits, TypeOK, Unblocked, [Next]_vars
  PROVE  Unblocked'
  <1>1. \A d \in body : d \in Issues
    BY DEF TypeOK
  <1>2. CASE at' = at /\ body' = body /\ need' = need
    BY <1>1, <1>2, CompletedStays DEF Unblocked
  <1>3. CASE at' \notin {"recheck", "create"}
    BY <1>3 DEF Unblocked
  <1>4. CASE LookDependency
    <2>1. issue' = issue /\ body' = body /\ at \in {"deps", "recheck"}
      BY <1>4 DEF LookDependency
    <2>2. PICK d \in need : \/ Completed(d) /\ need' = need \ {d} /\ at' = at
                            \/ at' = "tree"
      BY <1>4 DEF LookDependency
    <2> QED
      BY <2>1, <2>2 DEF Unblocked, Completed
  <1>5. CASE Satisfied
    BY <1>5 DEF Satisfied, Unblocked
  <1>6. CASE ReadDetail
    BY <1>6 DEF ReadDetail, Unblocked
  <1>7. CASE (\E i \in Issues : Agent(i)) \/ People \/ UNCHANGED vars
    BY <1>2, <1>7, OthersLeavePilot
  <1>8. CASE Preflight \/ Tick \/ Quit \/ Run \/ Die \/ Cleanup
    BY <1>3, <1>8 DEF Preflight, Tick, Quit, Run, Die, Cleanup, ListMerged, FindTree, Status,
       KillSession, RemoveTree, DeleteBranch, EndCleanup, PullMain
  <1>9. CASE CountTrees \/ ListIssues \/ EndTick \/ LookTree \/ LookSession \/ LookPR
             \/ CreateTree \/ Launch \/ FailStart
    BY <1>3, <1>9 DEF CountTrees, ListIssues, EndTick, LookTree, LookSession, LookPR,
       CreateTree, Launch, FailStart
  <1> QED
    BY <1>4, <1>5, <1>6, <1>7, <1>8, <1>9 DEF Next, Pilot, Dispatch

\* However bodies are edited and issues closed between listing and starting, the
\* dependencies of the body that is started on are completed, provided nobody
\* reopens an issue.
THEOREM UnblockedStarts ==
  ASSUME "reopen" \notin Edits
  PROVE  Spec => StartsUnblocked
  <1> DEFINE Inv == TypeOK /\ SlotLeft /\ Unblocked
  <1>1. Init => Inv
    BY InitTypes DEF Init, Unblocked
  <1>2. Inv /\ [Next]_vars => Inv'
    BY StepTypes, StepSlotLeft, StepUnblocked
  <1>3. Inv => (at = "create" /\ at' = "launch" => \A d \in body : issue[d] = "completed")
    BY DEF Unblocked
  <1> QED
    BY <1>1, <1>2, <1>3, PTL DEF Spec, StartsUnblocked

-----------------------------------------------------------------------------
(***************************************************************************)
(* Nothing is cleaned up before a pull request made from it was merged.    *)
(***************************************************************************)
\* An issue with a merged pull request is closed and not started again, so the
\* pull requests the cleanup follows were made from the worktrees it finds.
Followed ==
  /\ \A i \in Issues : HasPR(i, "merged") => issue[i] # "open"
  /\ \A i \in unmerged : ~HasPR(i, "merged")
  /\ at \in {"recheck", "create"} => ~HasPR(cur, "merged")
  /\ \A k \in merged : prs[k].state = "merged"
  /\ at \in {"status", "kill", "remove"} => HasPR(cur, "merged")

LEMMA CleanupFollowed ==
  ASSUME TypeOK, Followed, Preflight \/ Tick \/ Quit \/ Run \/ Die \/ Cleanup
  PROVE  Followed'
  <1>1. prs' = prs /\ issue' = issue
    BY DEF Preflight, Tick, Quit, Run, Die, Cleanup, ListMerged, FindTree, Status, KillSession,
           RemoveTree, DeleteBranch, EndCleanup, PullMain
  <1>2. unmerged' \subseteq unmerged /\ at' \notin {"recheck", "create"}
    BY DEF Preflight, Tick, Quit, Run, Die, Cleanup, ListMerged, FindTree, Status, KillSession,
           RemoveTree, DeleteBranch, EndCleanup, PullMain
  <1>3. \A k \in merged' : prs[k].state = "merged"
    <2>1. CASE ListMerged
      BY <2>1 DEF ListMerged, MergedPRs, NewestPRs
    <2>2. CASE ~ListMerged
      <3>1. merged' \subseteq merged
        BY <2>2 DEF Preflight, Tick, Quit, Run, Die, Cleanup, FindTree, Status, KillSession,
                    RemoveTree, DeleteBranch, EndCleanup, PullMain
      <3> QED
        BY <3>1 DEF Followed
    <2> QED
      BY <2>1, <2>2
  <1>4. at' \in {"status", "kill", "remove"} => HasPR(cur', "merged")
    <2>1. CASE FindTree
      <3>1. PICK k \in merged : \/ cur' = prs[k].issue
                               \/ at' = at
        BY <2>1 DEF FindTree
      <3>2. at = "find" /\ k \in DOMAIN prs /\ prs[k] \in PR /\ prs[k].state = "merged"
        BY <2>1 DEF FindTree, TypeOK, Followed
      <3>3. prs[k] = [issue |-> prs[k].issue, state |-> "merged"]
        BY <3>2 DEF PR
      <3> QED
        BY <3>1, <3>2, <3>3 DEF HasPR
    <2>2. CASE Status \/ KillSession
      BY <2>2 DEF Status, KillSession, Followed
    <2>3. CASE Preflight \/ Tick \/ Quit \/ Run \/ Die \/ ListMerged \/ RemoveTree \/ DeleteBranch
               \/ EndCleanup \/ PullMain
      BY <2>3 DEF Preflight, Tick, Quit, Run, Die, ListMerged, RemoveTree, DeleteBranch,
                  EndCleanup, PullMain
    <2> QED
      BY <2>1, <2>2, <2>3 DEF Cleanup
  <1> QED
    BY <1>1, <1>2, <1>3, <1>4 DEF Followed, HasPR

LEMMA DispatchFollowed ==
  ASSUME TypeOK, Followed, Dispatch
  PROVE  Followed'
  <1>1. prs' = prs /\ issue' = issue /\ merged' = merged
        /\ at' \notin {"status", "kill", "remove"}
    BY DEF Dispatch, CountTrees, ListIssues, EndTick, LookTree, LookSession, LookPR,
           LookDependency, Satisfied, ReadDetail, CreateTree, Launch, FailStart
  <1>2. CASE ReadDetail
    <2>1. unmerged' = unmerged /\ cur' = cur /\ cur \in Issues
      BY <1>2 DEF ReadDetail, TypeOK, Considering
    <2>2. at' \in {"recheck", "create"} => issue[cur] = "open"
      BY <1>2 DEF ReadDetail
    <2> QED
      BY <1>1, <2>1, <2>2 DEF Followed, HasPR
  <1>3. CASE CreateTree
    <2>1. at = "create" /\ at' = "launch" /\ unmerged' = unmerged \cup {cur}
      BY <1>3 DEF CreateTree
    <2> QED
      BY <1>1, <2>1 DEF Followed, HasPR
  <1>4. CASE LookDependency \/ Satisfied
    <2>1. unmerged' = unmerged /\ cur' = cur
          /\ (at' \in {"recheck", "create"} => at \in {"recheck", "create"})
      BY <1>4 DEF LookDependency, Satisfied
    <2> QED
      BY <1>1, <2>1 DEF Followed, HasPR
  <1>5. CASE CountTrees \/ ListIssues \/ EndTick \/ LookTree \/ LookSession \/ LookPR
             \/ Launch \/ FailStart
    <2>1. unmerged' = unmerged /\ at' \notin {"recheck", "create"}
      BY <1>5 DEF CountTrees, ListIssues, EndTick, LookTree, LookSession, LookPR, Launch,
                  FailStart
    <2> QED
      BY <1>1, <2>1 DEF Followed, HasPR
  <1> QED
    BY <1>2, <1>3, <1>4, <1>5 DEF Dispatch

LEMMA AgentFollowed ==
  ASSUME TypeOK, Followed, NEW i \in Issues, Agent(i)
  PROVE  Followed'
  <1>1. at' = at /\ cur' = cur /\ merged' = merged
    BY OthersLeavePilot
  <1>2. issue' = issue /\ unmerged' = unmerged
    BY DEF Agent, Change, Commit, OpenPR, Push, Stop, Continue
  <1>3. /\ \A j : HasPR(j, "merged")' <=> HasPR(j, "merged")
        /\ \A k \in merged : prs'[k] = prs[k]
    <2>1. CASE OpenPR(i)
      <3>1. prs' = Append(prs, [issue |-> i, state |-> "open"]) /\ prs \in Seq(PR)
            /\ merged \subseteq DOMAIN prs
        BY <2>1 DEF OpenPR, TypeOK
      <3>2. /\ DOMAIN prs' = DOMAIN prs \cup {Len(prs) + 1}
            /\ \A k \in DOMAIN prs : prs'[k] = prs[k]
            /\ prs'[Len(prs) + 1] = [issue |-> i, state |-> "open"]
        BY <3>1
      <3>3. [issue |-> i, state |-> "open"].state # "merged"
        OBVIOUS
      <3>4. \A j : [issue |-> i, state |-> "open"] # [issue |-> j, state |-> "merged"]
        OBVIOUS
      <3> QED
        BY <3>1, <3>2, <3>4 DEF HasPR
    <2>2. CASE ~OpenPR(i)
      <3>1. prs' = prs
        BY <2>2 DEF Agent, Change, Commit, Push, Stop, Continue
      <3> QED
        BY <3>1 DEF HasPR
    <2> QED
      BY <2>1, <2>2
  <1> QED
    BY <1>1, <1>2, <1>3 DEF Followed

LEMMA PeopleFollowed ==
  ASSUME "reopen" \notin Edits, TypeOK, Unstarted, Followed, People
  PROVE  Followed'
  <1>1. at' = at /\ cur' = cur /\ merged' = merged
    BY OthersLeavePilot
  <1>2. \A j \in Issues : issue[j] # "open" => issue'[j] # "open"
    BY DEF People, Merge, ClosePR, Reopen, MakeUmbrella, Close, AddDependency, Edit, TypeOK
  <1>3. \/ prs' = prs /\ unmerged' = unmerged
        \/ \E k \in DOMAIN prs : Merge(k) \/ ClosePR(k)
    BY DEF People, Reopen, MakeUmbrella, Close, AddDependency, Edit
  <1>4. CASE prs' = prs /\ unmerged' = unmerged
    BY <1>1, <1>2, <1>4 DEF Followed, HasPR
  <1>5. ASSUME NEW k \in DOMAIN prs, NEW s \in {"merged", "closed"}, prs[k].state = "open",
               prs' = [prs EXCEPT ![k].state = s]
        PROVE  /\ \A j : HasPR(j, "merged")'
                          => HasPR(j, "merged") \/ (j = prs[k].issue /\ s = "merged")
               /\ \A j : HasPR(j, "merged") => HasPR(j, "merged")'
               /\ \A h \in merged : prs'[h].state = "merged"
               /\ prs[k].issue \in Issues /\ HasPR(prs[k].issue, "open")
    <2>0. prs[k] \in PR
      BY <1>5 DEF TypeOK
    <2>1. prs[k] \in PR /\ prs[k] = [issue |-> prs[k].issue, state |-> "open"]
      BY <1>5, <2>0 DEF PR
    <2>2. /\ DOMAIN prs' = DOMAIN prs
          /\ \A j \in DOMAIN prs : prs'[j] = IF j = k THEN [prs[k] EXCEPT !.state = s]
                                                     ELSE prs[j]
      BY <1>5, ReviewTypes DEF TypeOK
    <2>3. [prs[k] EXCEPT !.state = s] = [issue |-> prs[k].issue, state |-> s]
      BY <2>1
    <2>4. \A h \in merged : h # k /\ h \in DOMAIN prs
      BY <1>5 DEF Followed, TypeOK
    <2>5. \A h \in merged : prs'[h].state = "merged"
      BY <2>2, <2>4 DEF Followed
    <2>6. \A j : HasPR(j, "merged") => HasPR(j, "merged")'
      <3> SUFFICES ASSUME NEW j, NEW h \in DOMAIN prs,
                          prs[h] = [issue |-> j, state |-> "merged"]
                   PROVE  HasPR(j, "merged")'
        BY DEF HasPR
      <3>1. h # k
        BY <1>5
      <3> QED
        BY <2>2, <3>1 DEF HasPR
    <2>7. \A j : HasPR(j, "merged")' => HasPR(j, "merged") \/ (j = prs[k].issue /\ s = "merged")
      <3> SUFFICES ASSUME NEW j, NEW h \in DOMAIN prs,
                          prs'[h] = [issue |-> j, state |-> "merged"]
                   PROVE  HasPR(j, "merged") \/ (j = prs[k].issue /\ s = "merged")
        BY <2>2 DEF HasPR
      <3>1. CASE h = k
        BY <2>2, <2>3, <3>1
      <3>2. CASE h # k
        <4>1. prs[h] = [issue |-> j, state |-> "merged"]
          BY <2>2, <3>2
        <4> QED
          BY <4>1 DEF HasPR
      <3> QED
        BY <3>1, <3>2
    <2> QED
      BY <2>1, <2>5, <2>6, <2>7 DEF PR, HasPR
  <1>6. ASSUME NEW k \in DOMAIN prs, ClosePR(k) PROVE Followed'
    <2>1. prs[k].state = "open" /\ prs' = [prs EXCEPT ![k].state = "closed"]
          /\ unmerged' = unmerged
      BY <1>6 DEF ClosePR, Edit
    <2>2. /\ \A j : HasPR(j, "merged")' <=> HasPR(j, "merged")
          /\ \A h \in merged : prs'[h].state = "merged"
      BY <1>5, <2>1
    <2> QED
      BY <1>1, <1>2, <2>1, <2>2 DEF Followed
  <1>7. ASSUME NEW k \in DOMAIN prs, Merge(k) PROVE Followed'
    <2> DEFINE i == prs[k].issue
    <2>1. prs[k].state = "open" /\ prs' = [prs EXCEPT ![k].state = "merged"]
          /\ unmerged' = unmerged \ {i}
          /\ issue' = [issue EXCEPT ![i] = IF @ = "open" THEN "completed" ELSE @]
      BY <1>7 DEF Merge
    <2>2. /\ \A j : HasPR(j, "merged")' => HasPR(j, "merged") \/ j = i
          /\ \A j : HasPR(j, "merged") => HasPR(j, "merged")'
          /\ \A h \in merged : prs'[h].state = "merged"
          /\ i \in Issues /\ HasPR(i, "open")
      BY <1>5, <2>1
    <2>3. issue'[i] # "open"
      BY <2>1, <2>2 DEF TypeOK
    <2>4. at \in {"recheck", "create"} => cur # i
      BY <2>2 DEF Unstarted
    <2> HIDE DEF i
    <2> QED
      BY <1>1, <1>2, <2>1, <2>2, <2>3, <2>4 DEF Followed
  <1> QED
    BY <1>3, <1>4, <1>6, <1>7

LEMMA StepFollowed ==
  ASSUME "reopen" \notin Edits, LookedAt, Followed, [Next]_vars
  PROVE  Followed'
  <1>1. CASE Preflight \/ Tick \/ Quit \/ Run \/ Die \/ Cleanup
    BY <1>1, CleanupFollowed DEF LookedAt
  <1>2. CASE Dispatch
    BY <1>2, DispatchFollowed DEF LookedAt
  <1>3. CASE (\E i \in Issues : Agent(i)) \/ People
    BY <1>3, AgentFollowed, PeopleFollowed DEF LookedAt
  <1>4. CASE UNCHANGED vars
    BY <1>4 DEF Followed, HasPR
  <1> QED
    BY <1>1, <1>2, <1>3, <1>4 DEF Next, Pilot

LEMMA InitFollowed == Init => Followed
  BY DEF Init, Followed, HasPR

\* Where no issue is reopened and gh lists all pull requests, no worktree is
\* removed before a pull request made from it was merged.
THEOREM MergedTreesRemoved ==
  ASSUME "reopen" \notin Edits, MaxPRs <= PRLimit
  PROVE  Spec => RemovesOnlyMergedTrees
  <1> DEFINE Inv == LookedAt /\ Followed
  <1>1. Init => Inv
    BY InitLookedAt, InitFollowed
  <1>2. Inv /\ [Next]_vars => Inv'
    BY StepLookedAt, StepFollowed
  <1>3. Inv /\ [Next]_vars => (\A i \in Trees : i \notin Trees' => i \notin unmerged)
    <2> SUFFICES ASSUME Inv, [Next]_vars, NEW i \in Trees, i \notin Trees'
                 PROVE  i \notin unmerged
      OBVIOUS
    <2>1. TypeOK
      BY DEF LookedAt
    <2>2. RemoveTree
      <3>1. i \in Issues /\ tree[i] # "none" /\ tree'[i] = "none"
        BY DEF Trees
      <3>2. ASSUME Preflight \/ Tick \/ Quit \/ Run \/ Die \/ UNCHANGED vars PROVE FALSE
        BY <3>1, <3>2 DEF Preflight, Tick, Quit, Run, Die
      <3>3. ASSUME Cleanup, ~RemoveTree PROVE FALSE
        BY <3>1, <3>3 DEF Cleanup, ListMerged, FindTree, Status, KillSession, DeleteBranch,
                          EndCleanup, PullMain
      <3>4. ASSUME Dispatch PROVE FALSE
        <4>1. CASE CreateTree
          BY <2>1, <3>1, <4>1 DEF CreateTree, TypeOK
        <4>2. CASE ~CreateTree
          BY <3>1, <3>4, <4>2 DEF Dispatch, CountTrees, ListIssues, EndTick, LookTree,
             LookSession, LookPR, LookDependency, Satisfied, ReadDetail, Launch, FailStart
        <4> QED
          BY <4>1, <4>2
      <3>5. ASSUME NEW j \in Issues, Agent(j) PROVE FALSE
        BY <2>1, <3>1, <3>5 DEF Agent, Change, Commit, OpenPR, Push, Stop, Continue, TypeOK
      <3>6. ASSUME People PROVE FALSE
        BY <3>1, <3>6 DEF People, Merge, ClosePR, Reopen, MakeUmbrella, Close, AddDependency,
                          Edit
      <3> QED
        BY <3>2, <3>3, <3>4, <3>5, <3>6 DEF Next, Pilot
    <2>3. i = cur /\ at = "remove"
      BY <2>1, <2>2 DEF RemoveTree, Trees, TypeOK
    <2> QED
      BY <2>3 DEF Followed
  <1> HIDE DEF Inv
  <1> QED
    BY <1>1, <1>2, <1>3, PTL DEF Spec, RemovesOnlyMergedTrees

\* The cleanup ends a session at work on an unmerged worktree only if that is
\* the one tmux takes for the session, no longer there, of a merged issue.
THEOREM OthersEndedOnlyByPrefix ==
  ASSUME "reopen" \notin Edits, MaxPRs <= PRLimit
  PROVE  Spec => EndsOthersOnlyByPrefix
  <1> DEFINE Inv == LookedAt /\ Followed
             Prefixed == {j \in session : BeginsWith(j, cur)}
  <1>1. Init => Inv
    BY InitLookedAt, InitFollowed
  <1>2. Inv /\ [Next]_vars => Inv'
    BY StepLookedAt, StepFollowed
  <1>3. Inv /\ [Next]_vars
          => (at = "kill" /\ at' = "remove" =>
                \A i \in unmerged : i \in session \ session' =>
                  cur \notin session /\ Prefixed = {i})
    <2> SUFFICES ASSUME Inv, [Next]_vars, at = "kill", at' = "remove",
                        NEW i \in unmerged, i \in session, i \notin session'
                 PROVE  cur \notin session /\ Prefixed = {i}
      OBVIOUS
    <2>1. TypeOK /\ cur \in Issues
      BY DEF LookedAt, TypeOK, Considering
    <2>2. KillSession
      <3>1. ~UNCHANGED <<at, tick, failed>>
        OBVIOUS
      <3>2. Pilot \/ Quit \/ Run \/ Die
        BY <3>1, OthersLeavePilot DEF Next
      <3> QED
        BY <3>2 DEF Pilot, Preflight, Tick, Quit, Run, Die, Uncaught, Cleanup, ListMerged,
           FindTree, Status, RemoveTree, DeleteBranch, EndCleanup, PullMain, Dispatch,
           CountTrees, ListIssues, EndTick, LookTree, LookSession, LookPR, LookDependency,
           Satisfied, ReadDetail, CreateTree, Launch, FailStart
    <2>3. i \in TmuxTarget(cur)
      BY <2>2 DEF KillSession
    <2>4. cur \notin unmerged
      BY DEF Followed
    <2>5. cur \notin session /\ i \in Prefixed /\ Cardinality(Prefixed) = 1
      BY <2>3, <2>4 DEF TmuxTarget
    <2>6. IsFiniteSet(Prefixed)
      BY <2>1, IssuesAssumption, FS_Subset DEF TypeOK
    <2>7. PICK x : Prefixed = {x}
      BY <2>5, <2>6, FS_Singleton
    <2> QED
      BY <2>5, <2>7
  <1> HIDE DEF Inv
  <1> QED
    BY <1>1, <1>2, <1>3, PTL DEF Spec, EndsOthersOnlyByPrefix
=============================================================================
