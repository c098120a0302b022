----------------------------- MODULE Decompose -----------------------------
(***************************************************************************)
(* One optimizer.Optimizer and the calls of Optimize made on it, one after *)
(* the other (internal/optimizer/optimizer.go, decompose.go, residual.go). *)
(* decompose is recursive; its activation records are the frames of stack, *)
(* arg is the state it is called with and ret the Decomposition it         *)
(* returns.  The engine is the constant EvaluateRule: what the rulebook    *)
(* says of a rule applied to a slice of the legs.                          *)
(***************************************************************************)
EXTENDS Templates, TLC, Functions

CONSTANTS
  Facts,        \* the BucketFacts calls are made with: records with a field U
  Inputs,       \* the []WorkingLeg calls are made with
  NakedRules,   \* nakedCandidateRules
  RuleOrder,    \* every rule id, in the order of strings
  EvaluateRule(_, _, _, _)
                \* (rule, legs in slot order, amounts, facts) |->
                \* [fit, hard, permitted, req], the engine's EvaluateRule

ASSUME FactsAssumption == \A f \in Facts : f.U \in Nat
ASSUME InputsAssumption ==
  \A in \in Inputs : \A i \in DOMAIN in : in[i].id \in Legs /\ in[i].qty \in Nat
                                          /\ in[i].shares \in Nat
ASSUME NakedRulesAssumption == NakedRules \in Seq(STRING)
\* No share of an ETF is worth more than one contract of the index it covers.
ASSUME EtfPriceAssumption ==
  \A c, e \in Legs, f \in Facts :
    Leg[c].kind = "option" /\ Leg[c].mult > 0 /\ Leg[e].kind = "etf" /\ f.U > 0
      => Leg[e].price <= f.U * Leg[c].mult

VARIABLES
  pc,      \* where the running call of Optimize stands
  facts,   \* its BucketFacts
  start,   \* newState of its legs
  arg,     \* the state decompose is called with
  ret,     \* the Decomposition returned last
  stack,   \* activation records of decompose, outermost first
  memo,    \* the call's memo: Key -> Decomposition
  nodes    \* Optimizer.nodes, which outlives the call

vars == <<pc, facts, start, arg, ret, stack, memo, nodes>>

-----------------------------------------------------------------------------
(***************************************************************************)
(* Errors and Decompositions.  A Decomposition carries its error as the Go *)
(* type does; used is an auxiliary field, the amount of every leg that the *)
(* sub-positions attribute.                                                *)
(***************************************************************************)
Error == [kind : {"none", "stock", "naked", "hard", "invalid"}, leg : Nat, open : Nat]

NoError == [kind |-> "none", leg |-> 0, open |-> 0]
Hard == [kind |-> "hard", leg |-> 0, open |-> 0]
Invalid == [kind |-> "invalid", leg |-> 0, open |-> 0]
NoNakedRule(l) == [kind |-> "naked", leg |-> l, open |-> 0]
StockUnsupported(l, n) == [kind |-> "stock", leg |-> l, open |-> n]

Severity(e) ==
  CASE e.kind = "none" -> 0 [] e.kind = "stock" -> 1 [] e.kind = "naked" -> 2 [] OTHER -> 3

\* takeStronger: severity first, the smaller LegID within a severity.
Stronger(cur, new) ==
  IF \/ Severity(new) > Severity(cur)
     \/ Severity(new) = Severity(cur) /\ new.leg < cur.leg
  THEN new ELSE cur

RuleID ==
  {Targets[i] : i \in DOMAIN Targets} \cup {NakedRules[i] : i \in DOMAIN NakedRules} \cup {"none"}

SubPosition == [rule : RuleID, legs : Seq(Nat), amt : Seq(Nat), req : Int,
                permitted : BOOLEAN]

Decomposition == [subs : Seq(SubPosition), total : Int, used : [Legs -> Nat], err : Error]

Nothing == [l \in Legs |-> 0]

EmptyDecomposition == [subs |-> <<>>, total |-> 0, used |-> Nothing, err |-> NoError]

IsError(d) == d.err.kind # "none"

HardCarrier == [EmptyDecomposition EXCEPT !.err = Hard]

-----------------------------------------------------------------------------
(***************************************************************************)
(* What the engine answers.  celNumber turns a formula value that is not a *)
(* number into a hard error.                                               *)
(***************************************************************************)
Fails(o) == o.hard = TRUE \/ o.req \notin Int

Fits(o) == ~Fails(o) /\ o.fit = TRUE

Declines(o) == ~Fails(o) /\ o.fit # TRUE

ScoredSub(rule, a, p, o) ==
  [rule |-> rule, legs |-> a, amt |-> p, req |-> o.req, permitted |-> (o.permitted = TRUE)]

-----------------------------------------------------------------------------
(***************************************************************************)
(* The order of candidates (less, isBetterCandidate in decompose.go).      *)
(***************************************************************************)
Rank(rule) == CHOOSE i \in DOMAIN RuleOrder : RuleOrder[i] = rule

SeqLess(s, t) ==
  \E i \in DOMAIN t :
    /\ \A j \in 1..(i - 1) : j \in DOMAIN s /\ s[j] = t[j]
    /\ i \notin DOMAIN s \/ s[i] < t[i]

\* Lists of sub-positions with the same sorted rule ids are compared by their
\* sorted slot assignments.
AssignmentsLess(s, t) ==
  \E i \in DOMAIN t : SeqLess(s[i], t[i]) /\ \A j \in 1..(i - 1) : s[j] = t[j]

RuleIDs(d) == SortSeq([i \in DOMAIN d.subs |-> Rank(d.subs[i].rule)], <)

Assignments(d) ==
  SortSeq([i \in DOMAIN d.subs |-> <<Rank(d.subs[i].rule)>> \o d.subs[i].legs], SeqLess)

Less(a, b) ==
  \/ a.total < b.total
  \/ /\ a.total = b.total
     /\ \/ Len(a.subs) < Len(b.subs)
        \/ /\ Len(a.subs) = Len(b.subs)
           /\ \/ SeqLess(RuleIDs(a), RuleIDs(b))
              \/ /\ RuleIDs(a) = RuleIDs(b)
                 /\ AssignmentsLess(Assignments(a), Assignments(b))

\* residualSharesInErr: only a stock residual carries a share count.
StrandedShares(d) == d.err.open

\* Mutant of BetterCandidate: the cheapest candidate, complete or not.
BetterByTotal(a, b) == Less(a, b)

BetterCandidate(a, b) ==
  IF IsError(a) # IsError(b) THEN IsError(b)
  ELSE IF StrandedShares(a) # StrandedShares(b)
       THEN StrandedShares(a) < StrandedShares(b)
       ELSE Less(a, b)

-----------------------------------------------------------------------------
(***************************************************************************)
(* Activation records.  todo holds the choices decompose has still to try, *)
(* sub and rest the sub-position and the remaining state of the one it is  *)
(* recursing on; left holds the legs scoreAllResidual has still to score   *)
(* and res what it has scored.                                             *)
(***************************************************************************)
Choice == Nat \X Seq(Nat)

Frame == [state : State, todo : SUBSET Choice, sub : SubPosition, rest : State,
          have : BOOLEAN, best : Decomposition, left : SUBSET Legs, res : Decomposition]

NoSub == [rule |-> "none", legs |-> <<>>, amt |-> <<>>, req |-> 0, permitted |-> TRUE]

NewFrame(s) ==
  [state |-> s, todo |-> Offers(s), sub |-> NoSub, rest |-> s, have |-> FALSE,
   best |-> EmptyDecomposition, left |-> OpenLegs(s), res |-> EmptyDecomposition]

Top == stack[Len(stack)]

Popped == SubSeq(stack, 1, Len(stack) - 1)

WithTop(f) == [stack EXCEPT ![Len(stack)] = f]

\* memo[key] = d
Memoized(s, d) == [k \in DOMAIN memo \cup {Key(s)} |-> IF k = Key(s) THEN d ELSE memo[k]]

Plus(u, v) == [l \in Legs |-> u[l] + v[l]]

\* Mutants of Combine: the remainder's sub-positions are lost; the slice comes
\* after what was scored of the remainder.
CombineDropsSubs(f, sub) ==
  [subs |-> <<f.sub>>, total |-> f.sub.req + sub.total,
   used |-> Plus(Taken(f.sub.legs, f.sub.amt), sub.used), err |-> sub.err]

CombineAppendsSlice(f, sub) ==
  [subs |-> sub.subs \o <<f.sub>>, total |-> f.sub.req + sub.total,
   used |-> Plus(Taken(f.sub.legs, f.sub.amt), sub.used), err |-> sub.err]

Combine(f, sub) ==
  [subs  |-> <<f.sub>> \o sub.subs,
   total |-> f.sub.req + sub.total,
   used  |-> Plus(Taken(f.sub.legs, f.sub.amt), sub.used),
   err   |-> sub.err]

-----------------------------------------------------------------------------
(***************************************************************************)
(* Optimize: input validation, then the outermost call of decompose.       *)
(***************************************************************************)
Rejected(in) ==
  \/ \E i, j \in DOMAIN in : i # j /\ in[i].id = in[j].id
  \/ \E i \in DOMAIN in : in[i].qty > 0 /\ in[i].shares > 0

NewState(in) ==
  [l \in Legs |->
     IF \E i \in DOMAIN in : in[i].id = l
     THEN LET wl == in[CHOOSE i \in DOMAIN in : in[i].id = l]
          IN  IF Leg[l].by = "qty" THEN wl.qty ELSE wl.shares
     ELSE 0]

Init ==
  /\ pc = "idle"
  /\ facts \in Facts
  /\ start = Nothing
  /\ arg = Nothing
  /\ ret = EmptyDecomposition
  /\ stack = <<>>
  /\ memo = <<>>
  /\ nodes = 0

Reject(f, in) ==
  /\ Rejected(in)
  /\ pc' = "done"
  /\ facts' = f
  /\ start' = Nothing
  /\ ret' = [EmptyDecomposition EXCEPT !.err = Invalid]
  /\ UNCHANGED <<arg, stack, memo, nodes>>

Optimize(f, in) ==
  /\ ~Rejected(in)
  /\ pc' = "call"
  /\ facts' = f
  /\ start' = NewState(in)
  /\ arg' = NewState(in)
  /\ stack' = <<>>
  /\ memo' = <<>>
  /\ nodes' = 0
  /\ UNCHANGED ret

\* The outermost decompose has returned: Optimize returns ret.
Answer ==
  /\ pc = "return"
  /\ stack = <<>>
  /\ pc' = "done"
  /\ UNCHANGED <<facts, start, arg, ret, stack, memo, nodes>>

-----------------------------------------------------------------------------
(***************************************************************************)
(* Entering decompose.                                                     *)
(***************************************************************************)
MemoHit ==
  /\ pc = "call"
  /\ Key(arg) \in DOMAIN memo
  /\ ret' = memo[Key(arg)]
  /\ nodes' = nodes + 1
  /\ pc' = "return"
  /\ UNCHANGED <<facts, start, arg, stack, memo>>

NothingOpen ==
  /\ pc = "call"
  /\ Key(arg) \notin DOMAIN memo
  /\ OpenLegs(arg) = {}
  /\ ret' = EmptyDecomposition
  /\ memo' = Memoized(arg, EmptyDecomposition)
  /\ nodes' = nodes + 1
  /\ pc' = "return"
  /\ UNCHANGED <<facts, start, arg, stack>>

\* Mutant of Expand: the memo is not consulted.
ExpandAlways ==
  /\ pc = "call"
  /\ OpenLegs(arg) # {}
  /\ stack' = Append(stack, NewFrame(arg))
  /\ nodes' = nodes + 1
  /\ pc' = "scan"
  /\ UNCHANGED <<facts, start, arg, ret, memo>>

Expand ==
  /\ pc = "call"
  /\ Key(arg) \notin DOMAIN memo
  /\ OpenLegs(arg) # {}
  /\ stack' = Append(stack, NewFrame(arg))
  /\ nodes' = nodes + 1
  /\ pc' = "scan"
  /\ UNCHANGED <<facts, start, arg, ret, memo>>

-----------------------------------------------------------------------------
(***************************************************************************)
(* The loops over rules and bindings, one iteration per action.            *)
(***************************************************************************)
NextChoice(c) ==
  /\ pc = "scan"
  /\ c \in Top.todo
  /\ \A d \in Top.todo \ {c} : ChoiceBefore(Top.state, c, d)

\* Mutant of SkipChoice: a declined choice is tried again.
SkipChoiceAgain(c) ==
  /\ NextChoice(c)
  /\ ~PlanFails(Targets[c[1]], Top.state, c[2], facts.U)
  /\ \A p \in Plans(Targets[c[1]], Top.state, c[2], facts.U) :
       Declines(EvaluateRule(Targets[c[1]], c[2], p, facts))
  /\ UNCHANGED vars

SkipChoice(c) ==
  /\ NextChoice(c)
  /\ ~PlanFails(Targets[c[1]], Top.state, c[2], facts.U)
  /\ \A p \in Plans(Targets[c[1]], Top.state, c[2], facts.U) :
       Declines(EvaluateRule(Targets[c[1]], c[2], p, facts))
  /\ stack' = WithTop([Top EXCEPT !.todo = @ \ {c}])
  /\ UNCHANGED <<pc, facts, start, arg, ret, memo, nodes>>

\* A hard error of the recipe or of the engine ends this activation.
FailChoice(c) ==
  /\ NextChoice(c)
  /\ \/ PlanFails(Targets[c[1]], Top.state, c[2], facts.U)
     \/ \E p \in Plans(Targets[c[1]], Top.state, c[2], facts.U) :
          Fails(EvaluateRule(Targets[c[1]], c[2], p, facts))
  /\ ret' = HardCarrier
  /\ stack' = Popped
  /\ pc' = "return"
  /\ UNCHANGED <<facts, start, arg, memo, nodes>>

Descend(c) ==
  /\ NextChoice(c)
  /\ \E p \in Plans(Targets[c[1]], Top.state, c[2], facts.U) :
       LET o == EvaluateRule(Targets[c[1]], c[2], p, facts)
       IN  /\ Fits(o)
           /\ arg' = Remainder(Top.state, c[2], p)
           /\ stack' = WithTop([Top EXCEPT
                !.todo = @ \ {c},
                !.sub  = ScoredSub(Targets[c[1]], c[2], p, o),
                !.rest = Remainder(Top.state, c[2], p)])
  /\ pc' = "call"
  /\ UNCHANGED <<facts, start, ret, memo, nodes>>

\* Mutants of Resume: the first candidate stays the best; the candidate is
\* already stored as the state's answer.
ResumeKeepsFirst ==
  /\ pc = "return"
  /\ stack # <<>>
  /\ ret.err.kind # "hard"
  /\ stack' = WithTop([Top EXCEPT
       !.have = TRUE,
       !.best = IF ~Top.have THEN Combine(Top, ret) ELSE Top.best])
  /\ pc' = "scan"
  /\ UNCHANGED <<facts, start, arg, ret, memo, nodes>>

ResumeMemoizes ==
  /\ pc = "return"
  /\ stack # <<>>
  /\ ret.err.kind # "hard"
  /\ stack' = WithTop([Top EXCEPT
       !.have = TRUE,
       !.best = IF ~Top.have \/ BetterCandidate(Combine(Top, ret), Top.best)
                THEN Combine(Top, ret) ELSE Top.best])
  /\ memo' = Memoized(Top.state, Combine(Top, ret))
  /\ pc' = "scan"
  /\ UNCHANGED <<facts, start, arg, ret, nodes>>

\* The recursive call came back with a decomposition of the remainder.
Resume ==
  /\ pc = "return"
  /\ stack # <<>>
  /\ ret.err.kind # "hard"
  /\ stack' = WithTop([Top EXCEPT
       !.have = TRUE,
       !.best = IF ~Top.have \/ BetterCandidate(Combine(Top, ret), Top.best)
                THEN Combine(Top, ret) ELSE Top.best])
  /\ pc' = "scan"
  /\ UNCHANGED <<facts, start, arg, ret, memo, nodes>>

\* It came back with a hard error, which is handed on as it is.
Propagate ==
  /\ pc = "return"
  /\ stack # <<>>
  /\ ret.err.kind = "hard"
  /\ stack' = Popped
  /\ UNCHANGED <<pc, facts, start, arg, ret, memo, nodes>>

-----------------------------------------------------------------------------
(***************************************************************************)
(* scoreAllResidual, one leg per action, in LegID order.                   *)
(***************************************************************************)
NextResidual(l) ==
  /\ pc = "scan"
  /\ Top.todo = {}
  /\ l \in Top.left
  /\ \A m \in Top.left : l <= m

NakedOutcome(l, i) == EvaluateRule(NakedRules[i], <<l>>, <<Top.state[l]>>, facts)

ResidualError(l, e) ==
  /\ stack' = WithTop([Top EXCEPT !.left = @ \ {l}, !.res.err = Stronger(@, e)])
  /\ UNCHANGED <<pc, facts, start, arg, ret, memo, nodes>>

ResidualShares(l) ==
  /\ NextResidual(l)
  /\ OpenShares(Top.state, l) > 0
  /\ ResidualError(l, StockUnsupported(l, Top.state[l]))

\* residualOptionRule: the first naked rule that does not decline decides.
ResidualNaked(l) ==
  /\ NextResidual(l)
  /\ OpenShares(Top.state, l) = 0
  /\ \E i \in DOMAIN NakedRules :
       /\ \A j \in 1..(i - 1) : Declines(NakedOutcome(l, j))
       /\ \/ /\ Fails(NakedOutcome(l, i))
             /\ ResidualError(l, Hard)
          \/ /\ Fits(NakedOutcome(l, i))
             /\ stack' = WithTop([Top EXCEPT
                  !.left = @ \ {l},
                  !.res.subs = Append(@, ScoredSub(NakedRules[i], <<l>>, <<Top.state[l]>>,
                                                   NakedOutcome(l, i))),
                  !.res.total = @ + NakedOutcome(l, i).req,
                  !.res.used[l] = Top.state[l]])
             /\ UNCHANGED <<pc, facts, start, arg, ret, memo, nodes>>

ResidualUnmatched(l) ==
  /\ NextResidual(l)
  /\ OpenShares(Top.state, l) = 0
  /\ \A i \in DOMAIN NakedRules : Declines(NakedOutcome(l, i))
  /\ ResidualError(l, NoNakedRule(l))

\* The residual completion is compared with the best candidate: always when
\* it is complete, otherwise only against a best that is not complete either.
Chosen(f) ==
  IF \/ ~f.have
     \/ (~IsError(f.res) \/ IsError(f.best)) /\ BetterCandidate(f.res, f.best)
  THEN f.res ELSE f.best

\* Mutant of Finish: the answer is stored under the remainder tried last.
FinishUnderRest ==
  /\ pc = "scan"
  /\ Top.todo = {}
  /\ Top.left = {}
  /\ ret' = Chosen(Top)
  /\ memo' = Memoized(Top.rest, Chosen(Top))
  /\ stack' = Popped
  /\ pc' = "return"
  /\ UNCHANGED <<facts, start, arg, nodes>>

Finish ==
  /\ pc = "scan"
  /\ Top.todo = {}
  /\ Top.left = {}
  /\ ret' = Chosen(Top)
  /\ memo' = Memoized(Top.state, Chosen(Top))
  /\ stack' = Popped
  /\ pc' = "return"
  /\ UNCHANGED <<facts, start, arg, nodes>>

-----------------------------------------------------------------------------
Call ==
  /\ pc \in {"idle", "done"}
  /\ \E f \in Facts, in \in Inputs : Optimize(f, in) \/ Reject(f, in)

Enter == MemoHit \/ NothingOpen \/ Expand

Scan == \E c \in Top.todo : SkipChoice(c) \/ FailChoice(c) \/ Descend(c)

Residual ==
  \E l \in Top.left : ResidualShares(l) \/ ResidualNaked(l) \/ ResidualUnmatched(l)

Work ==
  \/ Enter
  \/ pc = "scan" /\ (Scan \/ Residual)
  \/ Finish
  \/ Resume
  \/ Propagate
  \/ Answer

Next ==
  \/ Call
  \/ Work

Spec == Init /\ [][Next]_vars

\* Optimize is straight-line code: once called, it keeps running.
FairSpec == Spec /\ WF_vars(Work)
-----------------------------------------------------------------------------
(***************************************************************************)
(* Properties.                                                             *)
(***************************************************************************)
\* Types of the registers, the activation records, the memo and the counter of
\* Optimizer.decompose.
TypeOK ==
  /\ pc \in {"idle", "call", "scan", "return", "done"}
  /\ facts \in Facts
  /\ start \in State /\ arg \in State
  /\ ret \in Decomposition
  /\ stack \in Seq(Frame)
  /\ \A k \in DOMAIN memo : memo[k] \in Decomposition
  /\ nodes \in Nat

\* d attributes no leg of s beyond what is open; everything when it carries no
\* error; and when it carries a residual error, all but the shares the error
\* reports (stock), or not all contracts of the leg it names (naked).
AccountsFor(d, s) ==
  /\ \A l \in Legs : d.used[l] <= s[l]
  /\ d.err.kind = "none" => d.used = s
  /\ d.err.kind = "stock" =>
       /\ d.err.leg \in Legs
       /\ d.err.open > 0
       /\ d.used[d.err.leg] + d.err.open = s[d.err.leg]
  /\ d.err.kind = "naked" => d.err.leg \in Legs /\ d.used[d.err.leg] < s[d.err.leg]

\* What Optimize returns accounts for its input: a clean Decomposition
\* attributes every open contract and share exactly once, across any number of
\* partial slices of a leg, and a stock error's OpenShares is what is left over.
ResultAccountsForInput == pc = "done" => AccountsFor(ret, start)

StateOf(k) ==
  [l \in Legs |-> IF \E e \in k : e[1] = l THEN (CHOOSE e \in k : e[1] = l)[2] ELSE 0]

\* Every memo entry accounts for the one state its key stands for, so a visit
\* to that state along other slices may be answered with it.
MemoAccountsForState == \A k \in DOMAIN memo : AccountsFor(memo[k], StateOf(k))

\* Contracts and shares of l in the Attributions of the sub-position s, and of
\* all sub-positions of d.
AttributedBy(s, l) == SumFunctionOnSet(s.amt, {j \in DOMAIN s.legs : s.legs[j] = l})

Attributed(d, l) == SumFunction([i \in DOMAIN d.subs |-> AttributedBy(d.subs[i], l)])

RequirementSum(d) == SumFunction([i \in DOMAIN d.subs |-> d.subs[i].req])

AddsUp(d) ==
  /\ d.total = RequirementSum(d)
  /\ \A l \in Legs : d.used[l] = Attributed(d, l)

\* TotalRequirement is the sum over the sub-positions returned, and their slots
\* attribute per leg exactly what the search subtracted, in every result and
\* every memo entry, with or without an error.
SubPositionsAddUp == AddsUp(ret) /\ \A k \in DOMAIN memo : AddsUp(memo[k])

\* What is left of the state s after the first i sub-positions of d.
Left(d, s, i) ==
  [l \in Legs |-> s[l] - SumFunctionOnSet([j \in DOMAIN d.subs |-> AttributedBy(d.subs[j], l)], 1..i)]

\* The engine recognises the sub-position b in some slice of the state s.
IsSlice(b, s, f) ==
  \E c \in Offers(s) : \E p \in Plans(Targets[c[1]], s, c[2], f.U) :
    LET o == EvaluateRule(Targets[c[1]], c[2], p, f)
    IN  Fits(o) /\ b = ScoredSub(Targets[c[1]], c[2], p, o)

\* b is an option leg of s on its own, under the first naked rule that takes it.
IsNaked(b, s, f) ==
  \E l \in OpenLegs(s), i \in DOMAIN NakedRules :
    LET o(j) == EvaluateRule(NakedRules[j], <<l>>, <<s[l]>>, f) IN
    /\ OpenShares(s, l) = 0
    /\ \A j \in 1..(i - 1) : Declines(o(j))
    /\ Fits(o(i)) /\ b = ScoredSub(NakedRules[i], <<l>>, <<s[l]>>, o(i))

\* What the error e says of the state s is so: shares of the leg are open that
\* no naked rule is for, or it is a leg that every naked rule declines.
IsTrueOf(e, s, f) ==
  /\ e.kind = "stock" => OpenShares(s, e.leg) > 0 /\ e.open = s[e.leg]
  /\ e.kind = "naked" =>
       /\ e.leg \in OpenLegs(s)
       /\ \A i \in DOMAIN NakedRules :
            Declines(EvaluateRule(NakedRules[i], <<e.leg>>, <<s[e.leg]>>, f))

\* The first m sub-positions of d take slices of s, each of what those before it
\* left; the others are naked legs of what is left then, in their order.
PeelsTo(d, s, f, m) ==
  /\ \A i \in 1..m : IsSlice(d.subs[i], Left(d, s, i - 1), f)
  /\ \A i \in (m + 1)..Len(d.subs) :
       /\ IsNaked(d.subs[i], Left(d, s, m), f)
       /\ \A j \in (m + 1)..(i - 1) : d.subs[j].legs[1] < d.subs[i].legs[1]
  /\ IsTrueOf(d.err, Left(d, s, m), f)

Peels(d, s, f) == \E m \in 0..Len(d.subs) : PeelsTo(d, s, f, m)

\* What Optimize promises of the result d for what is open in s.  A hard error
\* is handed up as it is, with what was scored of the remainder it arose in.
Promised(d, s, f) ==
  AccountsFor(d, s) /\ AddsUp(d) /\ (d.err.kind # "hard" => Peels(d, s, f))

Openings == {NewState(in) : in \in {in \in Inputs : ~Rejected(in)}}

Promise == INSTANCE Optimizer WITH
  phase   <- IF pc \in {"idle", "done"} THEN pc ELSE "busy",
  result  <- IF pc \in {"idle", "done"} THEN ret ELSE EmptyDecomposition,
  Pending <- EmptyDecomposition,
  Refusal <- [EmptyDecomposition EXCEPT !.err = Invalid]

\* Optimize implements its promise: whatever order, memo and comparison of
\* candidates led to a result, it can be replayed.  Each of its slices is one the
\* engine recognises in what is left by those before it, down to the naked legs
\* at the end and to what the error says is left.
ResultsReplay == Promise!Spec

\* The choices of a state the engine recognises a slice of.
Scored(s, f) ==
  {c \in Offers(s) : \E p \in Plans(Targets[c[1]], s, c[2], f.U) :
     Fits(EvaluateRule(Targets[c[1]], c[2], p, f))}

\* Every distinct state is worked on once: NodeCount is the outermost entry of
\* decompose and one for each slice that fits in each state of the memo,
\* however many paths of slices lead to that state.
OneEntryPerSlice ==
  pc = "done" /\ ret.err.kind \notin {"hard", "invalid"} =>
    nodes = 1 + SumFunction([k \in DOMAIN memo |-> Cardinality(Scored(StateOf(k), facts))])

\* The recursion never works on a state twice: no state is on the stack twice,
\* nor on the stack and in the memo.
NoStateWorkedTwice ==
  \A i \in DOMAIN stack :
    /\ Key(stack[i].state) \notin DOMAIN memo
    /\ \A j \in DOMAIN stack : Key(stack[i].state) = Key(stack[j].state) => i = j

\* The naked rule that decides about the open option leg l of s takes it.
TakesNaked(i, s, l, f) ==
  LET o(j) == EvaluateRule(NakedRules[j], <<l>>, <<s[l]>>, f) IN
  /\ OpenShares(s, l) = 0
  /\ \A j \in 1..(i - 1) : Declines(o(j))
  /\ Fits(o(i))

HasNaked(s, l, f) == \E i \in DOMAIN NakedRules : TakesNaked(i, s, l, f)

NakedReq(s, l, f) ==
  LET i == CHOOSE i \in DOMAIN NakedRules : TakesNaked(i, s, l, f)
  IN  EvaluateRule(NakedRules[i], <<l>>, <<s[l]>>, f).req

NakedSum(s, T, f) == SumFunctionOnSet([l \in T |-> NakedReq(s, l, f)], T)

\* d is complete and asks for no more than r.
Within(d, r) == ~IsError(d) /\ d.total <= r

\* The memo m has an answer for rest, and d is no dearer than a slice of the
\* requirement req with that answer.
NoDearer(d, req, rest, m) ==
  /\ Key(rest) \in DOMAIN m
  /\ m[Key(rest)].err.kind # "hard"
  /\ ~IsError(m[Key(rest)]) => Within(d, req + m[Key(rest)].total)

\* d is no dearer than any slice of s with the memo's answer for what it leaves,
\* nor than all open legs naked.
Unbeaten(d, s, m, f) ==
  /\ \A c \in Offers(s) : \A p \in Plans(Targets[c[1]], s, c[2], f.U) :
       LET o == EvaluateRule(Targets[c[1]], c[2], p, f)
       IN  Fits(o) => NoDearer(d, o.req, Remainder(s, c[2], p), m)
  /\ (\A l \in OpenLegs(s) : HasNaked(s, l, f)) => Within(d, NakedSum(s, OpenLegs(s), f))

\* Nothing in the memo can be improved by another first slice, whichever state
\* the answers were found for first and whatever they were compared with.
AnswersUnbeaten ==
  pc = "done" /\ ret.err.kind # "invalid" =>
    \A k \in DOMAIN memo :
      memo[k].err.kind # "hard" => Unbeaten(memo[k], StateOf(k), memo, facts)

\* Within a call the memo only grows, and an entry is never rewritten: what a
\* branch was compared with stays what later branches are compared with.
MemoIsStable ==
  [][pc \notin {"idle", "done"} =>
       \A k \in DOMAIN memo : k \in DOMAIN memo' /\ memo'[k] = memo[k]]_vars

\* Every accepted call of Optimize returns.
CallReturns == (pc = "call") ~> (pc = "done")
=============================================================================
