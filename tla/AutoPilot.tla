------------------------------ MODULE AutoPilot ------------------------------
(***************************************************************************)
(* The auto-pilot (scripts/auto-pilot.mjs): a process that looks at GitHub *)
(* issues, pull requests, git worktrees and tmux sessions and starts,      *)
(* tick by tick, an agent session for each unblocked issue and cleans up   *)
(* after merged ones.  It keeps no state between ticks.  Every command it  *)
(* awaits is a step; agents, reviewers and editors of issues act between   *)
(* any two.  git, gh and tmux are modelled as the script uses them.  The   *)
(* branch issue-N-* of an issue is named by the issue.                     *)
(***************************************************************************)
EXTENDS Integers, Sequences, FiniteSets

CONSTANTS
  Issues,        \* issue numbers
  Children,      \* those labelled epic:* and not umbrella, at first
  Dependencies,  \* Issues -> SUBSET Issues, the bodies at first
  MaxParallel,   \* MAX_PARALLEL
  IssueLimit,    \* gh issue list --limit
  PRLimit,       \* gh pr list --limit
  Failing,       \* the kinds of command that may fail
  Edits,         \* the kinds of edit people make
  MaxFaults, MaxEdits, MaxPRs    \* bounds on what the environment does

ASSUME IssuesAssumption == Issues \subseteq Nat \ {0} /\ IsFiniteSet(Issues)
ASSUME ChildrenAssumption == Children \subseteq Issues
ASSUME DependenciesAssumption == Dependencies \in [Issues -> SUBSET Issues]
ASSUME LimitsAssumption ==
  /\ MaxParallel \in Nat \ {0}
  /\ IssueLimit \in Nat /\ PRLimit \in Nat
  /\ MaxFaults \in Nat /\ MaxEdits \in Nat /\ MaxPRs \in Nat

VARIABLES
  issue,     \* state and stateReason of every issue
  deps,      \* the Dependencies section of its body
  child,     \* the issues labelled epic:* and not umbrella
  prs,       \* pull requests, oldest first
  tree,      \* worktree of the issue, and whether git status is clean
  branch,    \* its local branch: none, pushed, or with commits not pushed
  session,   \* issues whose tmux session is running
  unmerged,  \* worktrees that no pull request was merged from (auxiliary)
  main,      \* whether the main checkout has every merged pull request
  edits, faults,    \* edits and faults so far
  at,        \* the command the pilot runs next
  merged,    \* merged pull requests still to clean up after
  cleaned,   \* whether this tick has cleaned one up
  slots,     \* issues this tick may still start
  listed,    \* the issues this tick has still to consider, with their bodies
  cur,       \* the issue under consideration, or branch under cleanup
  need,      \* dependencies still to look at
  body,      \* dependencies in the body startIssue read
  failed     \* issues whose last start was logged as failed

work == <<tree, branch, session, unmerged>>
github == <<issue, deps, child, prs>>
bounds == <<edits, faults>>
tick == <<merged, cleaned, slots, listed, cur, need, body>>
vars == <<github, work, main, bounds, at, tick, failed>>

PR == [issue : Issues, state : {"open", "merged", "closed"}]

Stages == {"exited", "preflight", "sleep", "merged", "find", "status", "kill", "remove",
           "delete", "pull", "count", "list", "tree", "session", "prs", "deps", "detail",
           "recheck", "create", "launch"}

\* Stages at which cur is the issue considered or the branch cleaned up.
Considering == {"status", "kill", "remove", "delete", "session", "prs", "deps", "detail",
                "recheck", "create", "launch"}

Trees == {i \in Issues : tree[i] # "none"}

HasPR(i, state) == \E k \in DOMAIN prs : prs[k] = [issue |-> i, state |-> state]

Completed(d) == issue[d] = "completed"

-----------------------------------------------------------------------------
(***************************************************************************)
(* What gh and tmux answer.                                                *)
(***************************************************************************)
\* The open issues, newest first, up to the limit; the filter on labels comes
\* after it.
NewestOpen ==
  {i \in Issues : issue[i] = "open" /\
     Cardinality({j \in Issues : issue[j] = "open" /\ j > i}) < IssueLimit}

\* The pull requests in one of the states, up to the limit.
NewestPRs(states) ==
  LET hits == {k \in DOMAIN prs : prs[k].state \in states}
  IN  {k \in hits : Cardinality({j \in hits : j > k}) < PRLimit}

\* Mutant of MergedPRs: closed ones are cleaned up as well.
ClosedPRs == NewestPRs({"merged", "closed"})

MergedPRs == NewestPRs({"merged"})

\* Names that begin with the name of i.
BeginsWith(j, i) == \E n \in 1..4 : j \div (10 ^ n) = i

\* Mutant of TmuxTarget: every session whose name begins like that of i.
TmuxTargets(i) == {j \in session : j = i \/ BeginsWith(j, i)}

\* tmux -t takes the session of that very name or, if there is none, the only
\* one whose name begins with it.
TmuxTarget(i) ==
  IF i \in session THEN {i}
  ELSE LET hits == {j \in session : BeginsWith(j, i)}
       IN  IF Cardinality(hits) = 1 THEN hits ELSE {}

-----------------------------------------------------------------------------
Init ==
  /\ issue = [i \in Issues |-> "open"]
  /\ deps = Dependencies
  /\ child = Children
  /\ prs = <<>>
  /\ tree = [i \in Issues |-> "none"]
  /\ branch = [i \in Issues |-> "none"]
  /\ session = {} /\ unmerged = {}
  /\ main = "current"
  /\ edits = 0 /\ faults = 0
  /\ at = "preflight"
  /\ merged = {} /\ cleaned = FALSE /\ slots = 0 /\ listed = {} /\ cur = 0
  /\ need = {} /\ body = {}
  /\ failed = {}

-----------------------------------------------------------------------------
(***************************************************************************)
(* main: preflight, ticks, sleep.  An error that a tick does not catch     *)
(* ends the process.                                                       *)
(***************************************************************************)
Goto(stage) == at' = stage

Preflight ==
  /\ at = "preflight"
  /\ Goto("merged")
  /\ UNCHANGED <<github, work, main, bounds, tick, failed>>

Tick ==
  /\ at = "sleep"
  /\ Goto("merged")
  /\ UNCHANGED <<github, work, main, bounds, tick, failed>>

\* --once, or a signal received before or while sleeping.
Quit ==
  /\ at = "sleep"
  /\ Goto("exited")
  /\ UNCHANGED <<github, work, main, bounds, tick, failed>>

Run ==
  /\ at = "exited"
  /\ Goto("preflight")
  /\ UNCHANGED <<github, work, main, bounds, tick, failed>>

Fault(kind) ==
  /\ kind \in Failing
  /\ faults < MaxFaults
  /\ faults' = faults + 1
  /\ UNCHANGED edits

\* Commands whose errors nothing catches.
Uncaught ==
  [preflight |-> {"preflight"},
   cleanup   |-> {"merged", "find", "status", "remove"},
   pull      |-> {"pull"},
   dispatch  |-> {"count", "list", "tree", "prs", "deps"}]

Die ==
  /\ \E kind \in DOMAIN Uncaught : at \in Uncaught[kind] /\ Fault(kind)
  /\ Goto("exited")
  /\ merged' = {} /\ cleaned' = FALSE /\ slots' = 0 /\ listed' = {} /\ cur' = 0
  /\ need' = {} /\ body' = {}
  /\ UNCHANGED <<github, work, main, failed>>

-----------------------------------------------------------------------------
(***************************************************************************)
(* cleanupMergedWork                                                       *)
(***************************************************************************)
ListMerged ==
  /\ at = "merged"
  /\ merged' = MergedPRs
  /\ cleaned' = FALSE
  /\ Goto("find")
  /\ UNCHANGED <<github, work, main, bounds, slots, listed, cur, need, body, failed>>

Newest(k) == k \in merged /\ \A j \in merged : j <= k

\* Mutant of FindTree: the first branch without a worktree ends the cleanup.
FindTreeOrStop ==
  /\ at = "find"
  /\ \E k \in merged :
       /\ Newest(k)
       /\ LET i == prs[k].issue IN
            \/ i \in Trees /\ merged' = merged \ {k} /\ cur' = i /\ Goto("status")
            \/ i \notin Trees /\ merged' = {} /\ UNCHANGED <<cur, at>>
  /\ UNCHANGED <<github, work, main, bounds, cleaned, slots, listed, need, body, failed>>

\* The next merged pull request: the worktree on its branch, if there is one.
FindTree ==
  /\ at = "find"
  /\ \E k \in merged :
       /\ Newest(k)
       /\ merged' = merged \ {k}
       /\ LET i == prs[k].issue IN
            \/ i \in Trees /\ cur' = i /\ Goto("status")
            \/ i \notin Trees /\ UNCHANGED <<cur, at>>
  /\ UNCHANGED <<github, work, main, bounds, cleaned, slots, listed, need, body, failed>>

\* acceptableCleanupStatus: nothing but TASK.md and .claude/ has changed.
Status ==
  /\ at = "status"
  /\ Goto(IF tree[cur] = "dirty" THEN "find" ELSE "kill")
  /\ UNCHANGED <<github, work, main, bounds, tick, failed>>

\* An error of kill-session is taken for a session that is not running.
KillSession ==
  /\ at = "kill"
  /\ \/ session' = session \ TmuxTarget(cur) /\ UNCHANGED bounds
     \/ Fault("tmux") /\ UNCHANGED session
  /\ Goto("remove")
  /\ UNCHANGED <<github, tree, branch, unmerged, main, tick, failed>>

RemoveTree ==
  /\ at = "remove"
  /\ tree' = [tree EXCEPT ![cur] = "none"]
  /\ unmerged' = unmerged \ {cur}
  /\ Goto("delete")
  /\ UNCHANGED <<github, branch, session, main, bounds, tick, failed>>

\* Mutant of DeleteBranch: a branch that is kept does not count as cleaned.
DeleteBranchOrSkip ==
  /\ at = "delete"
  /\ branch' = [branch EXCEPT ![cur] = IF @ = "ahead" THEN @ ELSE "none"]
  /\ cleaned' = (cleaned \/ branch[cur] # "ahead")
  /\ Goto("find")
  /\ UNCHANGED <<github, tree, session, unmerged, main, bounds, merged, slots, listed, cur,
                 need, body, failed>>

\* git branch -d, which keeps a branch with commits that are nowhere else.
DeleteBranch ==
  /\ at = "delete"
  /\ branch' = [branch EXCEPT ![cur] = IF @ = "ahead" THEN @ ELSE "none"]
  /\ cleaned' = TRUE
  /\ Goto("find")
  /\ UNCHANGED <<github, tree, session, unmerged, main, bounds, merged, slots, listed, cur,
                 need, body, failed>>

EndCleanup ==
  /\ at = "find"
  /\ merged = {}
  /\ Goto(IF cleaned THEN "pull" ELSE "count")
  /\ UNCHANGED <<github, work, main, bounds, tick, failed>>

\* pullMainIfSafe: skipped while somebody works in the main checkout.
PullMain ==
  /\ at = "pull"
  /\ \/ main' = "current"
     \/ "busy" \in Edits /\ UNCHANGED main
  /\ Goto("count")
  /\ UNCHANGED <<github, work, bounds, tick, failed>>

-----------------------------------------------------------------------------
(***************************************************************************)
(* dispatchUnblockedIssues                                                 *)
(***************************************************************************)
\* Mutant of CountTrees: the difference is not kept from going below zero.
CountTreesUnclamped ==
  /\ at = "count"
  /\ slots' = MaxParallel - Cardinality(Trees)
  /\ Goto(IF slots' = 0 THEN "sleep" ELSE "list")
  /\ UNCHANGED <<github, work, main, bounds, merged, cleaned, listed, cur, need, body, failed>>

CountTrees ==
  /\ at = "count"
  /\ slots' = IF Cardinality(Trees) < MaxParallel THEN MaxParallel - Cardinality(Trees) ELSE 0
  /\ Goto(IF slots' = 0 THEN "sleep" ELSE "list")
  /\ UNCHANGED <<github, work, main, bounds, merged, cleaned, listed, cur, need, body, failed>>

ListIssues ==
  /\ at = "list"
  /\ listed' = {[issue |-> i, deps |-> deps[i]] : i \in NewestOpen \cap child}
  /\ Goto("tree")
  /\ UNCHANGED <<github, work, main, bounds, merged, cleaned, slots, cur, need, body, failed>>

EndTick ==
  /\ at = "tree"
  /\ slots = 0 \/ listed = {}
  /\ listed' = {} /\ cur' = 0 /\ need' = {} /\ body' = {} /\ slots' = 0
  /\ Goto("sleep")
  /\ UNCHANGED <<github, work, main, bounds, merged, cleaned, failed>>

\* The lowest number first.
First(x) == x \in listed /\ \A y \in listed : x.issue <= y.issue

\* The next listed issue, unless it has a worktree.
LookTree ==
  /\ at = "tree"
  /\ slots > 0
  /\ \E x \in listed :
       /\ First(x)
       /\ listed' = listed \ {x}
       /\ \/ x.issue \in Trees /\ UNCHANGED <<cur, need, at>>
          \/ x.issue \notin Trees /\ cur' = x.issue /\ need' = x.deps /\ Goto("session")
  /\ UNCHANGED <<github, work, main, bounds, merged, cleaned, slots, body, failed>>

\* Any error of has-session means that there is none.
LookSession ==
  /\ at = "session"
  /\ \/ Goto(IF TmuxTarget(cur) = {} THEN "prs" ELSE "tree") /\ UNCHANGED bounds
     \/ Fault("tmux") /\ Goto("prs")
  /\ UNCHANGED <<github, work, main, tick, failed>>

\* Mutant of LookPR: open pull requests do not matter.
LookNoPR ==
  /\ at = "prs"
  /\ Goto("deps")
  /\ UNCHANGED <<github, work, main, bounds, tick, failed>>

LookPR ==
  /\ at = "prs"
  /\ Goto(IF \E k \in NewestPRs({"open"}) : prs[k].issue = cur THEN "tree" ELSE "deps")
  /\ UNCHANGED <<github, work, main, bounds, tick, failed>>

\* dependenciesSatisfied, one gh issue view a step: of the body listed, then of
\* the body startIssue reads.
LookDependency ==
  /\ at \in {"deps", "recheck"}
  /\ \E d \in need :
       \/ Completed(d) /\ need' = need \ {d} /\ UNCHANGED at
       \/ ~Completed(d) /\ need' = {} /\ Goto("tree")
  /\ UNCHANGED <<github, work, main, bounds, merged, cleaned, slots, listed, cur, body, failed>>

Satisfied ==
  /\ at \in {"deps", "recheck"}
  /\ need = {}
  /\ Goto(IF at = "deps" THEN "detail" ELSE "create")
  /\ UNCHANGED <<github, work, main, bounds, tick, failed>>

\* Mutant of ReadDetail: the dependencies are not looked at again.
ReadDetailOnly ==
  /\ at = "detail"
  /\ IF issue[cur] = "open" /\ cur \in child
     THEN need' = {} /\ body' = deps[cur] /\ Goto("recheck")
     ELSE Goto("tree") /\ UNCHANGED <<need, body>>
  /\ UNCHANGED <<github, work, main, bounds, merged, cleaned, slots, listed, cur, failed>>

\* startIssue reads the issue again.
ReadDetail ==
  /\ at = "detail"
  /\ IF issue[cur] = "open" /\ cur \in child
     THEN need' = deps[cur] /\ body' = deps[cur] /\ Goto("recheck")
     ELSE Goto("tree") /\ UNCHANGED <<need, body>>
  /\ UNCHANGED <<github, work, main, bounds, merged, cleaned, slots, listed, cur, failed>>

CreateTree ==
  /\ at = "create"
  /\ tree' = [tree EXCEPT ![cur] = "clean"]
  /\ branch' = [branch EXCEPT ![cur] = IF @ = "none" THEN "pushed" ELSE @]
  /\ unmerged' = unmerged \cup {cur}
  /\ Goto("launch")
  /\ UNCHANGED <<github, session, main, bounds, tick, failed>>

\* Mutant of Launch: the issue started does not take a slot.
LaunchFree ==
  /\ at = "launch"
  /\ cur \notin session
  /\ session' = session \cup {cur}
  /\ failed' = failed \ {cur}
  /\ Goto("tree")
  /\ UNCHANGED <<github, tree, branch, unmerged, main, bounds, tick>>

Launch ==
  /\ at = "launch"
  /\ cur \notin session
  /\ session' = session \cup {cur}
  /\ slots' = slots - 1
  /\ failed' = failed \ {cur}
  /\ Goto("tree")
  /\ UNCHANGED <<github, tree, branch, unmerged, main, bounds, merged, cleaned, listed, cur,
                 need, body>>

\* An error of startIssue is logged, and the next issue considered.  TASK.md is
\* written, and the session launched, after the worktree is there.
FailStart ==
  /\ \/ at \in {"detail", "recheck", "create"} /\ Fault("start")
     \/ at = "launch" /\ Fault("launch")
     \/ at = "launch" /\ cur \in session /\ UNCHANGED bounds
  /\ failed' = failed \cup {cur}
  /\ Goto("tree")
  /\ UNCHANGED <<github, work, main, tick>>

-----------------------------------------------------------------------------
(***************************************************************************)
(* Agents, each in the worktree its session was launched in.               *)
(***************************************************************************)
Working(i) == i \in session /\ i \in Trees

\* Work goes on once the issue is closed only where the instance says so.
Change(i) ==
  /\ Working(i) /\ tree[i] = "clean"
  /\ issue[i] = "open" \/ "late" \in Edits
  /\ tree' = [tree EXCEPT ![i] = "dirty"]
  /\ UNCHANGED <<github, branch, session, unmerged, main, bounds, at, tick, failed>>

Commit(i) ==
  /\ Working(i) /\ tree[i] = "dirty"
  /\ tree' = [tree EXCEPT ![i] = "clean"]
  /\ branch' = [branch EXCEPT ![i] = "ahead"]
  /\ UNCHANGED <<github, session, unmerged, main, bounds, at, tick, failed>>

OpenPR(i) ==
  /\ Working(i) /\ branch[i] = "ahead"
  /\ i \in unmerged \/ "late" \in Edits
  /\ ~HasPR(i, "open") /\ Len(prs) < MaxPRs
  /\ branch' = [branch EXCEPT ![i] = "pushed"]
  /\ prs' = Append(prs, [issue |-> i, state |-> "open"])
  /\ UNCHANGED <<issue, deps, child, tree, session, unmerged, main, bounds, at, tick, failed>>

Push(i) ==
  /\ Working(i) /\ branch[i] = "ahead" /\ HasPR(i, "open")
  /\ branch' = [branch EXCEPT ![i] = "pushed"]
  /\ UNCHANGED <<github, tree, session, unmerged, main, bounds, at, tick, failed>>

\* "Stop after reporting the PR URL."
Stop(i) ==
  /\ i \in session
  /\ \/ tree[i] # "dirty" /\ HasPR(i, "open")
     \/ "quit" \in Edits
  /\ session' = session \ {i}
  /\ UNCHANGED <<github, tree, branch, unmerged, main, bounds, at, tick, failed>>

\* The operator follows up a review in a session of its own.
Continue(i) ==
  /\ i \in Trees /\ i \notin session /\ HasPR(i, "open")
  /\ session' = session \cup {i}
  /\ UNCHANGED <<github, tree, branch, unmerged, main, bounds, at, tick, failed>>

-----------------------------------------------------------------------------
(***************************************************************************)
(* Reviewers and editors on GitHub.                                        *)
(***************************************************************************)
\* "Fixes #N" closes the issue.
Merge(k) ==
  /\ prs[k].state = "open"
  /\ prs' = [prs EXCEPT ![k].state = "merged"]
  /\ issue' = [issue EXCEPT ![prs[k].issue] = IF @ = "open" THEN "completed" ELSE @]
  /\ unmerged' = unmerged \ {prs[k].issue}
  /\ main' = "behind"
  /\ UNCHANGED <<deps, child, tree, branch, session, bounds, at, tick, failed>>

Edit(kind) ==
  /\ kind \in Edits
  /\ edits < MaxEdits
  /\ edits' = edits + 1
  /\ UNCHANGED <<work, main, faults, at, tick, failed>>

ClosePR(k) ==
  /\ prs[k].state = "open"
  /\ prs' = [prs EXCEPT ![k].state = "closed"]
  /\ Edit("closePR")
  /\ UNCHANGED <<issue, deps, child>>

Close(i, reason) ==
  /\ issue[i] = "open"
  /\ issue' = [issue EXCEPT ![i] = reason]
  /\ Edit("close")
  /\ UNCHANGED <<deps, child, prs>>

Reopen(i) ==
  /\ issue[i] # "open"
  /\ issue' = [issue EXCEPT ![i] = "open"]
  /\ Edit("reopen")
  /\ UNCHANGED <<deps, child, prs>>

AddDependency(i, d) ==
  /\ i # d /\ d \notin deps[i]
  /\ deps' = [deps EXCEPT ![i] = @ \cup {d}]
  /\ Edit("depend")
  /\ UNCHANGED <<issue, child, prs>>

MakeUmbrella(i) ==
  /\ i \in child
  /\ child' = child \ {i}
  /\ Edit("umbrella")
  /\ UNCHANGED <<issue, deps, prs>>

-----------------------------------------------------------------------------
Cleanup ==
  ListMerged \/ FindTree \/ Status \/ KillSession \/ RemoveTree \/ DeleteBranch
    \/ EndCleanup \/ PullMain

Dispatch ==
  \/ CountTrees \/ ListIssues \/ EndTick
  \/ LookTree \/ LookSession \/ LookPR \/ LookDependency \/ Satisfied
  \/ ReadDetail \/ CreateTree \/ Launch \/ FailStart

Pilot == Preflight \/ Tick \/ Cleanup \/ Dispatch

Agent(i) == Change(i) \/ Commit(i) \/ OpenPR(i) \/ Push(i) \/ Stop(i) \/ Continue(i)

People ==
  \/ \E k \in DOMAIN prs : Merge(k) \/ ClosePR(k)
  \/ \E i \in Issues :
       \/ Reopen(i) \/ MakeUmbrella(i)
       \/ \E reason \in {"completed", "not_planned"} : Close(i, reason)
       \/ \E d \in Issues : AddDependency(i, d)

Next ==
  \/ Pilot
  \/ Quit \/ Run \/ Die
  \/ \E i \in Issues : Agent(i)
  \/ People

Spec == Init /\ [][Next]_vars

\* The loop keeps running, an operator restarts it, agents finish what they do
\* and reviewers merge.
FairSpec ==
  /\ Spec
  /\ WF_vars(Pilot) /\ WF_vars(Run)
  /\ \A i \in Issues :
       /\ WF_vars(Change(i) /\ branch[i] = "pushed" /\ ~HasPR(i, "open"))
       /\ WF_vars(Commit(i)) /\ WF_vars(OpenPR(i))
  /\ \A k \in 1..MaxPRs : WF_vars(k \in DOMAIN prs /\ Merge(k))

-----------------------------------------------------------------------------
(***************************************************************************)
(* Properties.                                                             *)
(***************************************************************************)
\* Types of what the pilot looks at and of the locals of main, tick,
\* cleanupMergedWork, dispatchUnblockedIssues and startIssue.
TypeOK ==
  /\ issue \in [Issues -> {"open", "completed", "not_planned"}]
  /\ deps \in [Issues -> SUBSET Issues]
  /\ child \subseteq Issues
  /\ prs \in Seq(PR)
  /\ tree \in [Issues -> {"none", "clean", "dirty"}]
  /\ branch \in [Issues -> {"none", "pushed", "ahead"}]
  /\ session \subseteq Issues /\ unmerged \subseteq Issues
  /\ main \in {"current", "behind"}
  /\ edits \in Nat /\ faults \in Nat
  /\ at \in Stages
  /\ merged \subseteq DOMAIN prs /\ cleaned \in BOOLEAN /\ slots \in Nat
  /\ listed \subseteq [issue : Issues, deps : SUBSET Issues]
  /\ cur \in Issues \cup {0}
  /\ at \in Considering => cur \in Issues
  /\ need \subseteq Issues /\ body \subseteq Issues
  /\ failed \subseteq Issues

\* However looks and acts interleave with agents and people, the worktrees
\* never outnumber MAX_PARALLEL by more than those of starts that failed: the
\* count taken once a tick stays an upper bound while the tick starts issues.
WorktreesWithinCapacity == Cardinality(Trees \ failed) <= MaxParallel

\* An issue is started only if it still has no worktree, no session and no open
\* pull request when its worktree is created, three looks and any number of
\* dependency checks after the first of them was seen to be missing.
StartsNoDuplicate ==
  at = "create" => cur \notin Trees /\ cur \notin session /\ ~HasPR(cur, "open")

\* The dependencies of the body that goes into TASK.md are closed as completed
\* when the worktree is created, even if the body was edited after the issue
\* was listed.
StartsUnblocked ==
  [][at = "create" /\ at' = "launch" => \A d \in body : issue[d] = "completed"]_vars

\* "lets each issue session implement/review/fix, then cleans up after the PR is
\* merged", as far as tmux -t keeps it: a session at work on an unmerged worktree
\* is ended only when the issue cleaned up after has no session left and that one
\* alone bears a name beginning with its own.
EndsOthersOnlyByPrefix ==
  [][at = "kill" /\ at' = "remove" =>
       \A i \in unmerged : i \in session \ session' =>
         cur \notin session /\ {j \in session : BeginsWith(j, cur)} = {i}]_vars

\* "Clean up worktrees after their PRs are merged": nor does it remove a
\* worktree before a pull request made from it is merged.
RemovesOnlyMergedTrees == [][\A i \in Trees : i \notin Trees' => i \notin unmerged]_vars

\* "fast-forwards the main checkout when safe"
MainCatchesUp == main = "behind" ~> main = "current"

\* Every child issue is started, and cleaned up after, once its dependencies
\* allow it.
EveryIssueCompleted ==
  <>(\A i \in Children : issue[i] = "completed" /\ tree[i] = "none")
=============================================================================
