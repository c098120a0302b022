--------------------------- MODULE OverlayProofs ---------------------------
(***************************************************************************)
(* Theorems about Overlay, for every pair of rulebooks, every account and  *)
(* every outcome of the expressions: a position is evaluated alone, the    *)
(* exposure is what the engine charges for, the rules add up, the groups   *)
(* of a rule are parts of the account, and the audit, the components, the  *)
(* violations and the warnings say of every rule and every target what     *)
(* Evaluate did with them.                                                 *)
(***************************************************************************)
EXTENDS Overlay, DispatchProofs

USE DEF vars, dispatchVars, accountVars, overlayVars

-----------------------------------------------------------------------------
(***************************************************************************)
(* Positions are evaluated alone.                                          *)
(***************************************************************************)
EvaluationsTell ==
  /\ IsSeq(evals)
  /\ \A i \in DOMAIN evals : Tells(evals[i], acct.positions[i], Expected(acct.positions[i]))

\* The engine is at the position after those that have an evaluation, and has
\* been asked about it with the account's type and phase.
AtPosition ==
  /\ call.pos = Prepared(acct.positions[Position].pos)
  /\ call.account = acct.type
  /\ call.phase = acct.phase

InRange ==
  outcome \in {Idle, Scanning, Outcome("invalid"), Outcome("norule")} \/ Answer(outcome)

AloneInv ==
  /\ Compiled /\ AnswersFirst /\ InRange
  /\ rb.state = "none" => outcome = Idle
  /\ stage = "ready" => outcome = Idle /\ evals = <<>>
  /\ stage = "evaluating" => /\ rb.state # "none"
                             /\ EvaluationsTell
                             /\ outcome # Idle => AtPosition

LEMMA InvAlone == AloneInv => EvaluatedAlone
  BY DEF AloneInv, EvaluationsTell, EvaluatedAlone

LEMMA InitAlone == Init => AloneInv
  <1> SUFFICES ASSUME Init PROVE AloneInv
    OBVIOUS
  <1>1. Compiled
    BY NoRulebookCompiled DEF Init, DispatchInit
  <1>2. AnswersFirst
    BY KindsDiffer DEF Init, DispatchInit, AnswersFirst, NoCall, Returned
  <1>3. outcome = Idle /\ stage = "ready" /\ evals = <<>>
    BY DEF Init, DispatchInit, AccountInit
  <1> QED
    BY <1>1, <1>2, <1>3 DEF AloneInv, InRange

LEMMA PreparedStays ==
  ASSUME rb' = rb, NEW p
  PROVE  Prepared(p)' = Prepared(p)
  BY Zenon DEF Prepared

LEMMA ExpectedStays ==
  ASSUME rb' = rb, acct' = acct, NEW x
  PROVE  Expected(x)' = Expected(x)
  <1>1. Prepared(x.pos)' = Prepared(x.pos)
    BY PreparedStays
  <1>2. ASSUME NEW p PROVE FirstToDecide(p, acct.type, acct.phase)' = FirstToDecide(p, acct.type, acct.phase)
    BY DEF FirstToDecide, Decided
  <1> QED
    BY <1>1, <1>2 DEF Expected

LEMMA EvaluationsStay ==
  ASSUME rb' = rb, acct' = acct, evals' = evals, EvaluationsTell
  PROVE  EvaluationsTell'
  BY ExpectedStays DEF EvaluationsTell

\* Steps that leave the engine and the account alone.
LEMMA OthersAlone ==
  ASSUME AloneInv, UNCHANGED dispatchVars,
         stage' = "evaluating" => UNCHANGED <<stage, acct, evals>>,
         stage' = "ready" => UNCHANGED <<stage, evals>>
  PROVE  AloneInv'
  <1>1. Compiled' /\ AnswersFirst' /\ InRange'
    BY DEF AloneInv, Compiled, AnswersFirst, InRange, Returned, RuleSays, FirstToDecide, Decided
  <1>2. CASE stage' = "evaluating"
    <2>1. UNCHANGED <<stage, acct, evals>>
      BY <1>2
    <2>2. (EvaluationsTell => EvaluationsTell') /\ (AtPosition => AtPosition')
      BY <2>1, EvaluationsStay, PreparedStays DEF AtPosition, Position
    <2> QED
      BY <1>1, <1>2, <2>1, <2>2 DEF AloneInv
  <1>3. CASE stage' # "evaluating"
    BY <1>1, <1>3 DEF AloneInv
  <1> QED
    BY <1>2, <1>3

LEMMA LoadAlone == AloneInv /\ LoadBaseline => AloneInv'
  <1> SUFFICES ASSUME AloneInv, LoadBaseline PROVE AloneInv'
    OBVIOUS
  <1>1. PICK raw \in Rulebooks : LoadRulebook(raw)
    BY DEF LoadBaseline
  <1>2. rb.state = "none" /\ call' = call /\ outcome' = outcome /\ UNCHANGED accountVars
    BY <1>1 DEF LoadBaseline, LoadRulebook
  <1>3. Compiled'
    BY <1>1, RulebooksAssumption, LoadCompiles
  <1>4. outcome = Idle
    BY <1>2 DEF AloneInv
  <1>5. AnswersFirst' /\ InRange'
    BY <1>2, <1>4, KindsDiffer DEF AloneInv, AnswersFirst, InRange, Returned
  <1> QED
    BY <1>2, <1>3, <1>4, <1>5 DEF AloneInv

LEMMA EvaluateAlone == AloneInv /\ EvaluatePosition => AloneInv'
  <1> SUFFICES ASSUME AloneInv, EvaluatePosition PROVE AloneInv'
    OBVIOUS
  <1> DEFINE x == acct.positions[Position]
  <1>1. stage = "evaluating" /\ UNCHANGED accountVars /\ Evaluate(x.pos, acct.type, acct.phase)
    BY DEF EvaluatePosition
  <1>2. rb' = rb /\ outcome' \in {Scanning, Outcome("invalid")}
    BY <1>1 DEF Evaluate
  <1>3. /\ AnswersFirst' /\ call'.pos = Prepared(x.pos)
        /\ call'.account = acct.type /\ call'.phase = acct.phase
    BY <1>1, ScanStarts DEF AloneInv
  <1>4. Compiled' /\ InRange'
    BY <1>2 DEF AloneInv, Compiled, InRange
  <1>5. AtPosition' /\ (EvaluationsTell => EvaluationsTell')
    BY <1>1, <1>2, <1>3, EvaluationsStay, PreparedStays DEF AtPosition, Position
  <1> QED
    BY <1>1, <1>2, <1>3, <1>4, <1>5 DEF AloneInv

LEMMA TryAlone == AloneInv /\ TryPosition => AloneInv'
  <1> SUFFICES ASSUME AloneInv, TryPosition PROVE AloneInv'
    OBVIOUS
  <1>1. stage = "evaluating" /\ UNCHANGED accountVars /\ TryRules
    BY DEF TryPosition
  <1>2. rb' = rb /\ outcome = Scanning
    BY <1>1 DEF TryRules, RuleDeclines, RuleDecides, NoRuleMatched
  <1>3. /\ AnswersFirst' /\ call'.pos = call.pos
        /\ call'.account = call.account /\ call'.phase = call.phase
    BY <1>1, ScanGoesOn DEF AloneInv
  <1>4. InRange'
    BY <1>1, EvaluateOneAnswers DEF InRange, TryRules, RuleDeclines, RuleDecides, NoRuleMatched, Asked
  <1>5. Compiled'
    BY <1>2 DEF AloneInv, Compiled
  <1>6. AtPosition
    BY <1>1, <1>2, KindsDiffer DEF AloneInv
  <1>7. AtPosition' /\ (EvaluationsTell => EvaluationsTell')
    BY <1>1, <1>2, <1>3, <1>6, EvaluationsStay, PreparedStays DEF AtPosition, Position
  <1> QED
    BY <1>1, <1>2, <1>3, <1>4, <1>5, <1>7 DEF AloneInv

\* The answer that is classified is what the engine says of the position.
LEMMA AnswerIsExpected ==
  ASSUME AloneInv, stage = "evaluating", Returned
  PROVE  /\ outcome = Expected(acct.positions[Position])
         /\ outcome.kind = "result" \/ outcome.res = NoResult
  <1> DEFINE p == Prepared(acct.positions[Position].pos)
  <1>1. outcome \notin {Idle, Scanning}
    BY DEF Returned
  <1>2. call.pos = p /\ call.account = acct.type /\ call.phase = acct.phase
    BY <1>1 DEF AloneInv, AtPosition
  <1>3. outcome = IF ValidPosition(p) THEN FirstToDecide(p, acct.type, acct.phase)
                  ELSE Outcome("invalid")
    BY <1>1, <1>2 DEF AloneInv, AnswersFirst
  <1>4. outcome = Expected(acct.positions[Position])
    BY <1>3 DEF Expected
  <1>5. outcome.kind = "result" \/ outcome.res = NoResult
    BY <1>1 DEF AloneInv, InRange, Answer, Outcome
  <1> QED
    BY <1>4, <1>5

LEMMA ClassifyAlone == AloneInv /\ ClassifyEvaluation => AloneInv'
  <1> SUFFICES ASSUME AloneInv, ClassifyEvaluation PROVE AloneInv'
    OBVIOUS
  <1> DEFINE x == acct.positions[Position]
             e == Classified(x.id, outcome)
  <1>1. /\ stage = "evaluating" /\ Returned /\ outcome' = Idle
        /\ UNCHANGED <<rb, call, stage, acct, snap>>
        /\ evals' = Append(evals, e)
    BY DEF ClassifyEvaluation
  <1>2. outcome = Expected(x) /\ (outcome.kind = "result" \/ outcome.res = NoResult)
    BY <1>1, AnswerIsExpected
  <1>3. Tells(e, x, outcome)
    BY <1>2 DEF Tells, Classified, Evaluation
  <1>4. IsSeq(evals) /\ rb.state # "none"
    BY <1>1 DEF AloneInv, EvaluationsTell
  <1>5. EvaluationsTell'
    <2>1. /\ IsSeq(evals') /\ DOMAIN evals' = DOMAIN evals \cup {Position}
          /\ evals'[Position] = e /\ \A i \in DOMAIN evals : evals'[i] = evals[i]
      BY <1>1, <1>4, AppendFacts DEF Position
    <2>2. ASSUME NEW i \in DOMAIN evals' PROVE Tells(evals'[i], acct.positions[i], Expected(acct.positions[i]))
      BY <1>1, <1>2, <1>3, <2>1, <2>2 DEF AloneInv, EvaluationsTell
    <2> QED
      BY <1>1, <2>1, <2>2, ExpectedStays DEF EvaluationsTell
  <1>6. Compiled' /\ AnswersFirst' /\ InRange'
    BY <1>1, KindsDiffer DEF AloneInv, Compiled, AnswersFirst, InRange, Returned
  <1> QED
    BY <1>1, <1>4, <1>5, <1>6 DEF AloneInv

LEMMA AggregateAlone == AloneInv /\ AggregateWithRulebook => AloneInv'
  <1> SUFFICES ASSUME AloneInv, AggregateWithRulebook PROVE AloneInv'
    OBVIOUS
  <1>1. /\ stage = "ready" /\ UNCHANGED <<dispatchVars, evals, snap>>
        /\ stage' = "failed" \/ (stage' = "evaluating" /\ rb.state = "loaded")
    BY DEF AggregateWithRulebook
  <1>2. outcome = Idle /\ evals = <<>>
    BY <1>1 DEF AloneInv
  <1>3. Compiled' /\ AnswersFirst' /\ InRange'
    BY <1>1, <1>2, KindsDiffer DEF AloneInv, Compiled, AnswersFirst, InRange, Returned
  <1>4. EvaluationsTell'
    BY <1>1, <1>2 DEF EvaluationsTell, IsSeq
  <1> QED
    BY <1>1, <1>2, <1>3, <1>4 DEF AloneInv

LEMMA NextAlone == AloneInv /\ [Next]_vars => AloneInv'
  <1> SUFFICES ASSUME AloneInv, [Next]_vars PROVE AloneInv'
    OBVIOUS
  <1>1. CASE LoadBaseline
    BY <1>1, LoadAlone
  <1>2. CASE LoadHouse
    BY <1>2, OthersAlone DEF LoadHouse, LoadOverlay
  <1>3. CASE RefuseHouse
    BY <1>3, OthersAlone DEF RefuseHouse
  <1>4. CASE EvaluateHouse
    <2>1. CASE AggregateWithRulebook
      BY <2>1, AggregateAlone
    <2>2. CASE AggregateSupplied
      BY <2>2, OthersAlone DEF AggregateSupplied
    <2> QED
      BY <1>4, <2>1, <2>2 DEF EvaluateHouse
  <1>5. CASE AggregateAccount
    <2>1. CASE Aggregate
      BY <2>1, OthersAlone DEF Aggregate
    <2> QED
      BY <1>5, <2>1, EvaluateAlone, TryAlone, ClassifyAlone DEF AggregateAccount
  <1>6. CASE BeginOverlay
    BY <1>6, OthersAlone DEF BeginOverlay
  <1>7. CASE Consider
    BY <1>7, OthersAlone DEF Consider
  <1>8. CASE NextRule
    BY <1>8, OthersAlone DEF NextRule
  <1>9. CASE EndOverlay
    BY <1>9, OthersAlone DEF EndOverlay
  <1>10. CASE UNCHANGED vars
    BY <1>10, OthersAlone
  <1> QED
    BY <1>1, <1>2, <1>3, <1>4, <1>5, <1>6, <1>7, <1>8, <1>9, <1>10 DEF Next

\* Every evaluation of an account's position is what the engine says of that
\* position alone, whatever the other positions are and however they ended
\* (the loop of AggregateWithRulebook, which goes on after an error).
THEOREM PositionsEvaluatedAlone == Spec => []EvaluatedAlone
  <1>1. Init => AloneInv
    BY InitAlone
  <1>2. AloneInv /\ [Next]_vars => AloneInv'
    BY NextAlone
  <1>3. AloneInv => EvaluatedAlone
    BY InvAlone
  <1> QED
    BY <1>1, <1>2, <1>3, PTL DEF Spec

-----------------------------------------------------------------------------
(***************************************************************************)
(* What the overlay starts from: an account that was accepted, evaluations *)
(* with finite amounts, the snapshot taken of them, the facts derived from *)
(* that, and the rules of files that were accepted.                        *)
(***************************************************************************)
Totalled == {"aggregated", "house", "done"}

Begun == {"evaluating"} \cup Totalled

AmountsFinite(es) == \A e \in Members(es) : e.res.req \in Int /\ e.res.cashCall \in Int

AccountInv ==
  /\ stage \in {"ready", "failed"} \cup Begun
  /\ ob.state # "none" => rb.state # "none"
  /\ stage \in Begun => /\ ob.state = "loaded"
                        /\ acct \in Accounts /\ ValidAccount(acct)
                        /\ AmountsFinite(evals)
  /\ stage = "evaluating" => IsSeq(evals)
  /\ stage \in Totalled => snap = Snapshot(acct, evals)

OverlayInv ==
  /\ ob.state = "loaded" => /\ ob.hash \in OverlayFiles /\ ValidFiles(ob.hash)
                            /\ ob.rules = Sorted(AllRules(ob.hash))
  /\ ob.state # "loaded" => ob.rules = <<>>
  /\ stage = "house" => ob.rules # <<>>
  /\ stage \in {"house", "done"} => entries = IF ob.rules = <<>> THEN <<>> ELSE Entries

DataInv == AloneInv /\ AccountInv /\ OverlayInv

LEMMA InitData == Init => DataInv
  BY InitAlone DEF Init, AccountInit, DataInv, AccountInv, OverlayInv, Begun, Totalled, NoOverlay

LEMMA EntriesStay ==
  ASSUME UNCHANGED <<snap, acct, ref>>
  PROVE  Entries' = Entries
  <1>1. \A e : PositionOf(e)' = PositionOf(e)
    BY DEF PositionOf
  <1>2. \A x, e : Facts(x, e)' = Facts(x, e)
    BY DEF Facts, LookupSecurity
  <1> QED
    BY <1>1, <1>2 DEF Entries

LEMMA NextData == DataInv /\ [Next]_vars => DataInv'
  <1> SUFFICES ASSUME DataInv, [Next]_vars PROVE DataInv'
    OBVIOUS
  <1>0. AloneInv' /\ AloneInv
    BY NextAlone DEF DataInv
  <1>1. CASE LoadBaseline
    <2>1. UNCHANGED <<accountVars, overlayVars>> /\ rb.state = "none"
      BY <1>1 DEF LoadBaseline, LoadRulebook
    <2>2. stage \notin Begun /\ ob.state = "none"
      BY <2>1 DEF DataInv, AccountInv
    <2> QED
      BY <1>0, <2>1, <2>2 DEF DataInv, AccountInv, OverlayInv, Begun, Totalled
  <1>2. CASE LoadHouse
    <2>1. PICK files \in OverlayFiles : LoadOverlay(files)
      BY <1>2 DEF LoadHouse
    <2>2. UNCHANGED <<dispatchVars, accountVars>> /\ rb.state # "none" /\ ob.state = "none"
      BY <1>2, <2>1 DEF LoadHouse, LoadOverlay
    <2>3. stage \notin Begun
      BY <2>2 DEF DataInv, AccountInv
    <2>4. \/ /\ ob'.state = "loaded" /\ ob'.hash = files /\ ValidFiles(files)
             /\ ob'.rules = Sorted(AllRules(files))
          \/ ob'.state = "failed" /\ ob'.rules = <<>>
      BY <2>1 DEF LoadOverlay, NoOverlay
    <2>5. OverlayInv'
      BY <2>2, <2>3, <2>4 DEF OverlayInv, Begun, Totalled
    <2> QED
      BY <1>0, <2>2, <2>3, <2>5 DEF DataInv, AccountInv, Begun, Totalled
  <1>3. CASE RefuseHouse
    BY <1>0, <1>3 DEF RefuseHouse, DataInv, AccountInv, OverlayInv, Begun, Totalled
  <1>4. CASE EvaluateHouse
    <2>0. ob.state = "loaded" /\ UNCHANGED overlayVars
      BY <1>4 DEF EvaluateHouse
    <2>1. CASE AggregateWithRulebook
      <3>1. /\ stage = "ready" /\ evals' = evals /\ UNCHANGED dispatchVars
            /\ acct' \in Accounts
            /\ stage' = "failed" \/ (stage' = "evaluating" /\ ValidAccount(acct'))
        BY <2>1 DEF AggregateWithRulebook
      <3>2. evals = <<>>
        BY <1>0, <3>1 DEF AloneInv
      <3>3. AmountsFinite(<<>>) /\ IsSeq(<<>>)
        BY DEF AmountsFinite, Members, IsSeq
      <3> QED
        BY <1>0, <2>0, <3>1, <3>2, <3>3 DEF DataInv, AccountInv, OverlayInv, Begun, Totalled
    <2>2. CASE AggregateSupplied
      <3>1. /\ stage = "ready" /\ UNCHANGED dispatchVars
            /\ acct' \in Accounts /\ evals' \in Supplied
            /\ \/ stage' = "failed"
               \/ stage' = "aggregated" /\ ValidAccount(acct') /\ snap' = Snapshot(acct', evals')
        BY <2>2 DEF AggregateSupplied
      <3>2. AmountsFinite(evals')
        BY <3>1, SuppliedAssumption DEF AmountsFinite
      <3> QED
        BY <1>0, <2>0, <3>1, <3>2 DEF DataInv, AccountInv, OverlayInv, Begun, Totalled
    <2> QED
      BY <1>4, <2>1, <2>2 DEF EvaluateHouse
  <1>5. CASE AggregateAccount
    <2>0. UNCHANGED overlayVars
      BY <1>5 DEF AggregateAccount
    <2>1. CASE EvaluatePosition \/ TryPosition
      <3>1. UNCHANGED accountVars /\ rb' = rb
        BY <2>1 DEF EvaluatePosition, TryPosition, Evaluate, TryRules, RuleDeclines, RuleDecides,
                    NoRuleMatched
      <3>2. Entries' = Entries
        BY <2>0, <3>1, EntriesStay
      <3> QED
        BY <1>0, <2>0, <3>1, <3>2 DEF DataInv, AccountInv, OverlayInv, Begun, Totalled
    <2>2. CASE ClassifyEvaluation
      <3> DEFINE e == Classified(acct.positions[Position].id, outcome)
      <3>1. /\ stage = "evaluating" /\ Returned /\ UNCHANGED <<rb, stage, acct, snap>>
            /\ evals' = Append(evals, e)
        BY <2>2 DEF ClassifyEvaluation
      <3>2. e.res.req \in Int /\ e.res.cashCall \in Int
        <4>1. outcome.kind = "result" => outcome.res.req \in Int /\ outcome.res.cashCall \in Int
          BY <1>0, <3>1 DEF AloneInv, InRange, Returned, Answer, Outcome
        <4>2. NoResult.req \in Int /\ NoResult.cashCall \in Int
          BY DEF NoResult
        <4>3. e.res = IF outcome.kind = "result" THEN outcome.res ELSE NoResult
          BY DEF Classified, Evaluation
        <4> QED
          BY <4>1, <4>2, <4>3
      <3>3. IsSeq(evals) /\ AmountsFinite(evals)
        BY <3>1 DEF DataInv, AccountInv, Begun
      <3>4. IsSeq(evals') /\ \A i \in DOMAIN evals' : (i \in DOMAIN evals /\ evals'[i] = evals[i]) \/ evals'[i] = e
        BY <3>1, <3>3, AppendFacts
      <3>5. AmountsFinite(evals')
        BY <3>2, <3>3, <3>4 DEF AmountsFinite, Members
      <3> HIDE DEF e
      <3> QED
        BY <1>0, <2>0, <3>1, <3>4, <3>5 DEF DataInv, AccountInv, OverlayInv, Begun, Totalled
    <2>3. CASE Aggregate
      <3>1. /\ stage = "evaluating" /\ stage' = "aggregated" /\ UNCHANGED <<dispatchVars, acct, evals>>
            /\ snap' = Snapshot(acct, evals)
        BY <2>3 DEF Aggregate
      <3> QED
        BY <1>0, <2>0, <3>1 DEF DataInv, AccountInv, OverlayInv, Begun, Totalled
    <2> QED
      BY <1>5, <2>1, <2>2, <2>3 DEF AggregateAccount
  <1>6. CASE BeginOverlay
    <2>1. /\ stage = "aggregated" /\ UNCHANGED <<dispatchVars, acct, evals, snap, ob, ref>>
          /\ stage' = IF ob.rules = <<>> THEN "done" ELSE "house"
          /\ entries' = IF ob.rules = <<>> THEN <<>> ELSE Entries
      BY <1>6 DEF BeginOverlay
    <2>2. Entries' = Entries
      BY <2>1, EntriesStay
    <2> QED
      BY <1>0, <2>1, <2>2 DEF DataInv, AccountInv, OverlayInv, Begun, Totalled
  <1>7. CASE Consider \/ NextRule \/ EndOverlay
    <2>1. /\ UNCHANGED <<dispatchVars, acct, evals, snap, ob, ref, entries>>
          /\ stage = "house" /\ stage' \in {"house", "done"}
      BY <1>7 DEF Consider, NextRule, EndOverlay
    <2>2. Entries' = Entries
      BY <2>1, EntriesStay
    <2> QED
      BY <1>0, <2>1, <2>2 DEF DataInv, AccountInv, OverlayInv, Begun, Totalled
  <1>8. CASE UNCHANGED vars
    <2>1. Entries' = Entries
      BY <1>8, EntriesStay
    <2> QED
      BY <1>0, <1>8, <2>1 DEF DataInv, AccountInv, OverlayInv, Begun, Totalled
  <1> QED
    BY <1>1, <1>2, <1>3, <1>4, <1>5, <1>6, <1>7, <1>8 DEF Next

-----------------------------------------------------------------------------
(***************************************************************************)
(* The data Evaluate works on are finite lists of finite numbers.          *)
(***************************************************************************)
LEMMA SumFunctionIs == ASSUME NEW f PROVE SumFunction(f) = Sum(f, DOMAIN f)
  BY DEF SumFunction, Sum

LEMMA PositionsAreFinite ==
  ASSUME DataInv, stage \in Begun
  PROVE  /\ acct.positions \in Seq(Members(acct.positions))
         /\ DOMAIN acct.positions = 1..Len(acct.positions) /\ Len(acct.positions) \in Nat
         /\ IsFiniteSet(DOMAIN acct.positions)
  <1>1. acct.positions \in Seq(Members(acct.positions))
    BY AccountsAssumption DEF DataInv, AccountInv
  <1>2. DOMAIN acct.positions = 1..Len(acct.positions) /\ Len(acct.positions) \in Nat
    BY <1>1
  <1> QED
    BY <1>1, <1>2, FS_Interval

LEMMA SnapshotIsFinite ==
  ASSUME DataInv, stage \in Totalled
  PROVE  /\ snap.evaluations = Arranged(acct, evals)
         /\ DOMAIN snap.evaluations = DOMAIN acct.positions
         /\ \A i \in DOMAIN snap.evaluations :
              snap.evaluations[i].res.req \in Int /\ snap.evaluations[i].res.cashCall \in Int
         /\ snap.total \in Int /\ snap.cashCall \in Int
  <1> DEFINE es == Arranged(acct, evals)
  <1>1. /\ snap.evaluations = es
        /\ snap.total = TotalOf(es, "req") /\ snap.cashCall = TotalOf(es, "cashCall")
    <2>1. snap = Snapshot(acct, evals)
      BY DEF DataInv, AccountInv
    <2> QED
      BY <2>1, Zenon DEF Snapshot
  <1>2. DOMAIN es = DOMAIN acct.positions /\ IsFiniteSet(DOMAIN es)
    BY PositionsAreFinite DEF Arranged, Begun
  <1>3. ASSUME NEW i \in DOMAIN es PROVE es[i].res.req \in Int /\ es[i].res.cashCall \in Int
    <2> DEFINE mine == {e \in Members(evals) : e.id = acct.positions[i].id}
    <2>1. es[i] = IF mine = {} THEN Evaluation(acct.positions[i].id, "none", NoResult)
                  ELSE CHOOSE e \in mine : TRUE
      BY <1>2, <1>3 DEF Arranged
    <2>2. CASE mine = {}
      <3>1. es[i].res = NoResult
        BY <2>1, <2>2 DEF Evaluation
      <3>2. NoResult.req = 0 /\ NoResult.cashCall = 0
        BY DEF NoResult
      <3> QED
        BY <3>1, <3>2
    <2>3. CASE mine # {}
      <3>1. es[i] \in Members(evals)
        BY <2>1, <2>3
      <3> QED
        BY <3>1 DEF DataInv, AccountInv, AmountsFinite, Begun
    <2> QED
      BY <2>2, <2>3
  <1> HIDE DEF es
  <1>4. ASSUME NEW field \in {"req", "cashCall"} PROVE TotalOf(es, field) \in Int
    <2> DEFINE f == [i \in DOMAIN es |-> IF es[i].kind = "permitted" THEN es[i].res[field] ELSE 0]
    <2>1. \A i \in DOMAIN es : f[i] \in Int
      BY <1>3, <1>4
    <2>2. TotalOf(es, field) = Sum(f, DOMAIN es)
      BY SumFunctionIs DEF TotalOf
    <2> HIDE DEF f
    <2> QED
      BY <1>2, <2>1, <2>2, SumType
  <1>5. TotalOf(es, "req") \in Int /\ TotalOf(es, "cashCall") \in Int
    BY <1>4
  <1> QED
    BY <1>1, <1>2, <1>3, <1>5 DEF es

\* An entry is the facts of a position, the one of its evaluation.
LEMMA EntriesAreFinite ==
  ASSUME DataInv, stage \in {"house", "done"}
  PROVE  /\ IsSeq(entries) /\ Len(entries) \in Nat /\ DOMAIN entries = 1..Len(entries)
         /\ IsFiniteSet(DOMAIN entries)
         /\ \A k \in DOMAIN entries : entries[k].baseline \in Int
  <1> DEFINE es == snap.evaluations
             is == {i \in DOMAIN es : es[i].kind # "error" /\ StockLegs(PositionOf(es[i])) # {}}
             of == Selection(es, is)
  <1>1. CASE ob.rules = <<>>
    <2>1. entries = <<>>
      BY <1>1 DEF DataInv, OverlayInv
    <2> QED
      BY <2>1, FS_EmptySet DEF IsSeq
  <1>2. CASE ob.rules # <<>>
    <2>1. entries = [n \in DOMAIN of |-> Facts(PositionOf(of[n]), of[n])]
      BY <1>2 DEF DataInv, OverlayInv, Entries
    <2>2. /\ DOMAIN es = 1..Len(acct.positions) /\ IsFiniteSet(DOMAIN es)
          /\ \A i \in DOMAIN es : es[i].res.req \in Int
      BY SnapshotIsFinite, PositionsAreFinite DEF Totalled, Begun
    <2>3. is \subseteq Int /\ IsFiniteSet(is) /\ is \subseteq DOMAIN es
      BY <2>2, FS_Subset
    <2> HIDE DEF is
    <2>4. /\ Cardinality(is) \in Nat /\ DOMAIN of = 1..Cardinality(is)
          /\ \A n \in DOMAIN of : Nth(is, n) \in is /\ of[n] = es[Nth(is, n)]
      <3>1. \A n \in 1..Cardinality(is) : Nth(is, n) \in is
        BY <2>3, NthFacts
      <3>2. Cardinality(is) \in Nat /\ DOMAIN of = 1..Cardinality(is)
        BY <2>3, SelectionFacts
      <3> QED
        BY <3>1, <3>2 DEF Selection
    <2>5. IsSeq(entries) /\ Len(entries) = Cardinality(is) /\ DOMAIN entries = 1..Cardinality(is)
      BY <2>1, <2>4, ListIsSeq
    <2>6. \A k \in DOMAIN entries : entries[k].baseline = of[k].res.req
      BY <2>1 DEF Facts
    <2>7. \A k \in DOMAIN of : of[k].res.req \in Int
      BY <2>2, <2>3, <2>4
    <2> QED
      <3>1. IsFiniteSet(1..Cardinality(is))
        BY <2>4, FS_Interval
      <3> QED
        BY <2>4, <2>5, <2>6, <2>7, <3>1
  <1> QED
    BY <1>1, <1>2

LEMMA SymbolsAreFinite ==
  /\ SortedSymbols \in Seq(Members(SortedSymbols))
  /\ Len(SortedSymbols) \in Nat /\ DOMAIN SortedSymbols = 1..Len(SortedSymbols)
  BY SymbolsAssumption

LEMMA TargetsAreFinite ==
  ASSUME DataInv, stage \in {"house", "done"}, NEW r
  PROVE  /\ Len(Targets(r)) \in Nat /\ DOMAIN Targets(r) = 1..Len(Targets(r))
         /\ IsFiniteSet(DOMAIN Targets(r))
         /\ \A k \in DOMAIN Targets(r) : Targets(r)[k].baseline \in Int
  <1> DEFINE ts == Targets(r)
  <1>1. CASE r.scope = "position"
    <2>1. ts = [i \in DOMAIN entries |-> PositionTarget(r, entries[i])]
      BY <1>1 DEF Targets
    <2>2. \A i \in DOMAIN entries : PositionTarget(r, entries[i]).baseline = entries[i].baseline
      BY DEF PositionTarget
    <2>3. Len(ts) = Len(entries) /\ DOMAIN ts = DOMAIN entries
      BY <2>1, EntriesAreFinite, ListIsSeq
    <2> QED
      BY <2>1, <2>2, <2>3, EntriesAreFinite
  <1>2. CASE r.scope # "position"
    <2> DEFINE is == {i \in DOMAIN SortedSymbols : Grouped(r, SortedSymbols[i]) # {}}
               keys == Selection(SortedSymbols, is)
    <2>1. ts = [i \in DOMAIN keys |-> GroupTarget(r, keys[i])]
      BY <1>2 DEF Targets
    <2>2. is \subseteq Int /\ IsFiniteSet(is)
      <3>1. IsFiniteSet(DOMAIN SortedSymbols) /\ DOMAIN SortedSymbols \subseteq Int
        BY SymbolsAreFinite, FS_Interval
      <3> QED
        BY <3>1, FS_Subset
    <2>3. Cardinality(is) \in Nat /\ DOMAIN keys = 1..Cardinality(is)
      BY <2>2, SelectionFacts
    <2>4. Len(ts) = Cardinality(is) /\ DOMAIN ts = 1..Cardinality(is)
      BY <2>1, <2>3, ListIsSeq
    <2>5. ASSUME NEW key PROVE GroupTarget(r, key).baseline \in Int
      <3> DEFINE G == Grouped(r, key)
                 f == [i \in G |-> entries[i]["baseline"]]
      <3>1. G \subseteq DOMAIN entries /\ IsFiniteSet(G)
        BY EntriesAreFinite, FS_Subset DEF Grouped
      <3>2. GroupTarget(r, key).baseline = Sum(f, G)
        BY SumFunctionIs DEF GroupTarget
      <3>3. \A i \in G : f[i] \in Int
        BY <3>1, EntriesAreFinite
      <3> HIDE DEF f, G
      <3> QED
        BY <3>1, <3>2, <3>3, SumType
    <2> QED
      BY <2>1, <2>3, <2>4, <2>5, FS_Interval
  <1> QED
    BY <1>1, <1>2

\* What each rule adds is a number.
LEMMA AddsAreFinite ==
  ASSUME DataInv, stage \in {"house", "done"}, NEW r
  PROVE  /\ DOMAIN Adds(r) = DOMAIN Targets(r)
         /\ \A k \in DOMAIN Targets(r) : Adds(r)[k] \in Int
         /\ Alone(r) = Sum(Adds(r), DOMAIN Targets(r)) /\ Alone(r) \in Int
  <1>1. DOMAIN Adds(r) = DOMAIN Targets(r)
    BY DEF Adds
  <1>2. ASSUME NEW k \in DOMAIN Targets(r) PROVE Adds(r)[k] \in Int
    <2> DEFINE t == Targets(r)[k]
    <2>1. Adds(r)[k] = IF Says(r, t) # "charged" THEN 0
                       ELSE IF r.mode = "add" THEN Amount(r, t) ELSE Raise(t.baseline, Amount(r, t))
      BY DEF Adds
    <2>2. t.baseline \in Int
      BY TargetsAreFinite
    <2>3. Says(r, t) = "charged" => Amount(r, t) \in Int
      BY DEF Says, Finite
    <2> QED
      BY <2>1, <2>2, <2>3 DEF Raise
  <1>3. Alone(r) = Sum(Adds(r), DOMAIN Targets(r))
    BY <1>1, SumFunctionIs DEF Alone
  <1> QED
    BY <1>1, <1>2, <1>3, SumType, TargetsAreFinite

LEMMA PlacesAreFinite ==
  ASSUME NEW files \in OverlayFiles
  PROVE  IsFiniteSet(Places(files)) /\ Cardinality(Places(files)) \in Nat
  <1> DEFINE of(i) == {i} \X DOMAIN files[i].rules
             S == {of(i) : i \in Stated(files)}
             f == [i \in Stated(files) |-> of(i)]
  <1>1. IsFiniteSet(Stated(files)) /\ Stated(files) \subseteq DOMAIN files
    <2>1. files \in Seq(Members(files))
      BY OverlayFilesAssumption
    <2>2. DOMAIN files = 1..Len(files) /\ Len(files) \in Nat
      BY <2>1
    <2> QED
      <3>1. IsFiniteSet(DOMAIN files)
        BY <2>2, FS_Interval
      <3>2. Stated(files) \in SUBSET DOMAIN files
        BY DEF Stated
      <3> QED
        BY <3>1, <3>2, FS_Subset
  <1>2. f \in Surjection(Stated(files), S)
    BY DEF Surjection
  <1>3. IsFiniteSet(S)
    BY <1>1, <1>2, FS_Surjection
  <1>4. ASSUME NEW i \in Stated(files) PROVE IsFiniteSet(of(i))
    <2>1. files[i].rules \in Seq(Members(files[i].rules))
      BY <1>1, OverlayFilesAssumption DEF Members
    <2>2. IsFiniteSet(DOMAIN files[i].rules)
      BY <2>1, FS_Interval
    <2> QED
      BY <2>2, FS_Singleton, FS_Product
  <1>5. \A T \in S : IsFiniteSet(T)
    BY <1>4
  <1>6. Places(files) = UNION S
    BY DEF Places
  <1> QED
    BY <1>3, <1>5, <1>6, FS_UNION, FS_CardinalityType

LEMMA RulesAreFinite ==
  ASSUME DataInv
  PROVE  /\ Len(ob.rules) \in Nat /\ DOMAIN ob.rules = 1..Len(ob.rules)
         /\ IsFiniteSet(DOMAIN ob.rules)
  <1>1. CASE ob.state # "loaded"
    BY <1>1, FS_EmptySet DEF DataInv, OverlayInv
  <1>2. CASE ob.state = "loaded"
    <2> DEFINE s == AllRules(ob.hash)
               n == Cardinality(Places(ob.hash))
    <2>1. ob.hash \in OverlayFiles /\ ob.rules = Sorted(s)
      BY <1>2 DEF DataInv, OverlayInv
    <2>2. n \in Nat /\ DOMAIN s = 1..n
      BY <2>1, PlacesAreFinite DEF AllRules
    <2> HIDE DEF s
    <2>3. ob.rules = [i \in 1..n |-> ob.rules[i]]
      BY <2>1, <2>2 DEF Sorted
    <2>4. Len(ob.rules) = n /\ DOMAIN ob.rules = 1..n
      BY <2>2, <2>3, ListIsSeq
    <2> QED
      BY <2>2, <2>4, FS_Interval
  <1> QED
    BY <1>1, <1>2

-----------------------------------------------------------------------------
(***************************************************************************)
(* The house requirement adds up.                                          *)
(***************************************************************************)
AllAlone == [i \in DOMAIN ob.rules |-> Alone(ob.rules[i])]

\* What the rules before the i-th have charged, and what that one has charged
\* for the targets before the k-th.
ChargedBefore(i, k) ==
  Sum(AllAlone, 1..(i - 1))
  + (IF i \in DOMAIN ob.rules THEN Sum(Adds(ob.rules[i]), 1..(k - 1)) ELSE 0)

Charged == ChargedBefore(at.rule, at.target)

AtTarget ==
  /\ at = [rule |-> at.rule, target |-> at.target]
  /\ at.rule \in 1..(Len(ob.rules) + 1)
  /\ at.target \in Nat \ {0}
  /\ at.rule \in DOMAIN ob.rules => at.target <= Len(Targets(Rule)) + 1

HouseInv ==
  /\ DOMAIN out = DOMAIN NoHouse
  /\ stage = "house" =>
       /\ AtTarget
       /\ out.baseline = snap.total
       /\ out.house = snap.total + Charged
       /\ out.cash = snap.cashCall + Charged
  /\ HouseAddsUp

LEMMA SaysStays ==
  ASSUME UNCHANGED <<snap, acct, entries>>, NEW r
  PROVE  /\ Targets(r)' = Targets(r) /\ Adds(r)' = Adds(r) /\ Alone(r)' = Alone(r)
         /\ \A t : Says(r, t)' = Says(r, t)
  <1>1. Targets(r)' = Targets(r)
    BY SMT DEF Targets, PositionTarget, GroupTarget, Grouped, AppliesMatches, OfAccount
  <1>2. ASSUME NEW t PROVE Says(r, t)' = Says(r, t)
    BY SMT DEF Says, Finite, Amount, WhenSays, Activation
  <1>3. Adds(r)' = Adds(r)
    BY <1>1, SMT DEF Adds, Says, Finite, Amount, WhenSays, Activation
  <1> QED
    BY <1>1, <1>2, <1>3 DEF Alone

\* Nothing Evaluate goes by changes while it runs.
LEMMA ChargedStays ==
  ASSUME UNCHANGED <<snap, acct, entries, ob>>
  PROVE  /\ AllAlone' = AllAlone
         /\ \A i, k : ChargedBefore(i, k)' = ChargedBefore(i, k)
         /\ at' = at /\ out' = out /\ stage' = stage => (HouseInv => HouseInv')
  <1>1. AllAlone' = AllAlone
    BY SaysStays DEF AllAlone
  <1>2. ASSUME NEW i, NEW k PROVE ChargedBefore(i, k)' = ChargedBefore(i, k)
    <2>1. Adds(ob.rules[i])' = Adds(ob.rules[i])
      BY SaysStays
    <2> QED
      BY <1>1, <2>1 DEF ChargedBefore
  <1>3. ASSUME out' = out, stage' = stage PROVE HouseAddsUp' = HouseAddsUp
    BY <1>1, <1>3 DEF AllAlone, HouseAddsUp
  <1>4. ASSUME at' = at PROVE Charged' = Charged /\ Targets(Rule)' = Targets(Rule)
    BY <1>2, <1>4, SaysStays DEF Charged, Rule
  <1> QED
    BY <1>1, <1>2, <1>3, <1>4 DEF HouseInv, AtTarget, Rule

LEMMA AllAloneFinite ==
  ASSUME DataInv, stage \in {"house", "done"}
  PROVE  /\ \A i \in 1..Len(ob.rules) : AllAlone[i] = Alone(ob.rules[i]) /\ AllAlone[i] \in Int
         /\ SumFunction([i \in DOMAIN ob.rules |-> Alone(ob.rules[i])]) = Sum(AllAlone, 1..Len(ob.rules))
  BY RulesAreFinite, AddsAreFinite, SumFunctionIs DEF AllAlone

\* What has been charged grows with each target by what the rule adds for it,
\* and is the same when the next rule is turned to.
LEMMA ChargedGrows ==
  ASSUME DataInv, stage = "house", AtTarget
  PROVE  /\ Charged \in Int /\ Sum(AllAlone, 1..(at.rule - 1)) \in Int
         /\ at.rule \in DOMAIN ob.rules => Sum(Adds(Rule), 1..(at.target - 1)) \in Int
         /\ at.rule \in DOMAIN ob.rules /\ at.target \in DOMAIN Targets(Rule) =>
              /\ Adds(Rule)[at.target] \in Int
              /\ Sum(Adds(Rule), 1..at.target) = Sum(Adds(Rule), 1..(at.target - 1)) + Adds(Rule)[at.target]
         /\ at.rule \in DOMAIN ob.rules /\ at.target > Len(Targets(Rule)) =>
              Sum(AllAlone, 1..at.rule) = Charged
         /\ at.rule \notin DOMAIN ob.rules => Charged = Sum(AllAlone, 1..Len(ob.rules))
  <1>1. /\ Len(ob.rules) \in Nat /\ DOMAIN ob.rules = 1..Len(ob.rules)
        /\ \A i \in 1..Len(ob.rules) : AllAlone[i] = Alone(ob.rules[i]) /\ AllAlone[i] \in Int
    BY RulesAreFinite, AllAloneFinite
  <1>2. /\ at.rule \in 1..(Len(ob.rules) + 1) /\ at.target \in Nat \ {0}
        /\ at.rule \in DOMAIN ob.rules => at.target <= Len(Targets(Rule)) + 1
    BY DEF AtTarget
  <1>3. /\ Len(Targets(Rule)) \in Nat /\ DOMAIN Targets(Rule) = 1..Len(Targets(Rule))
        /\ \A k \in DOMAIN Targets(Rule) : Adds(Rule)[k] \in Int
        /\ Alone(Rule) = Sum(Adds(Rule), DOMAIN Targets(Rule))
    BY TargetsAreFinite, AddsAreFinite
  <1>4. Sum(AllAlone, 1..(at.rule - 1)) \in Int
    <2>1. at.rule - 1 \in Nat /\ \A i \in 1..(at.rule - 1) : AllAlone[i] \in Int
      BY <1>1, <1>2
    <2> QED
      BY <2>1, SumUpTo
  <1>5. ASSUME at.rule \in DOMAIN ob.rules PROVE Sum(Adds(Rule), 1..(at.target - 1)) \in Int
    <2>1. at.target - 1 \in Nat /\ \A k \in 1..(at.target - 1) : Adds(Rule)[k] \in Int
      BY <1>2, <1>3, <1>5
    <2> QED
      BY <2>1, SumUpTo
  <1>6. ASSUME at.rule \in DOMAIN ob.rules, at.target \in DOMAIN Targets(Rule)
        PROVE  Sum(Adds(Rule), 1..at.target) = Sum(Adds(Rule), 1..(at.target - 1)) + Adds(Rule)[at.target]
    <2>1. at.target \in Nat /\ at.target > 0 /\ \A k \in 1..at.target : Adds(Rule)[k] \in Int
      BY <1>2, <1>3, <1>6
    <2> QED
      BY <2>1, SumUpTo
  <1>7. ASSUME at.rule \in DOMAIN ob.rules, at.target > Len(Targets(Rule))
        PROVE  Sum(AllAlone, 1..at.rule) = Charged
    <2>1. at.target - 1 = Len(Targets(Rule))
      BY <1>2, <1>3, <1>7
    <2>2. Sum(Adds(Rule), 1..(at.target - 1)) = Alone(Rule)
      BY <1>3, <2>1
    <2>3. AllAlone[at.rule] = Alone(Rule)
      BY <1>1, <1>7 DEF Rule
    <2>4. at.rule \in Nat /\ at.rule > 0 /\ \A i \in 1..at.rule : AllAlone[i] \in Int
      BY <1>1, <1>2, <1>7
    <2>5. Sum(AllAlone, 1..at.rule) = Sum(AllAlone, 1..(at.rule - 1)) + AllAlone[at.rule]
      BY <2>4, SumUpTo
    <2> QED
      BY <1>7, <2>2, <2>3, <2>5 DEF Charged, ChargedBefore, Rule
  <1>8. ASSUME at.rule \notin DOMAIN ob.rules PROVE Charged = Sum(AllAlone, 1..Len(ob.rules))
    <2>1. at.rule - 1 = Len(ob.rules)
      <3>1. at.rule \notin 1..Len(ob.rules) /\ at.rule \in 1..(Len(ob.rules) + 1) /\ Len(ob.rules) \in Nat
        BY <1>1, <1>2, <1>8
      <3> QED
        BY <3>1
    <2> QED
      BY <1>4, <1>8, <2>1 DEF Charged, ChargedBefore, Rule
  <1> QED
    BY <1>3, <1>4, <1>5, <1>6, <1>7, <1>8 DEF Charged, ChargedBefore, Rule

LEMMA BeginHouse ==
  ASSUME DataInv, DataInv', HouseInv, BeginOverlay
  PROVE  HouseInv'
  <1>1. /\ stage' = IF ob.rules = <<>> THEN "done" ELSE "house"
        /\ ob' = ob /\ snap' = snap /\ at' = [rule |-> 1, target |-> 1]
    BY DEF BeginOverlay
  <1>2. /\ DOMAIN out' = DOMAIN NoHouse
        /\ out'.baseline = snap.total /\ out'.house = snap.total /\ out'.cash = snap.cashCall
        /\ out'.excess = snap.equity - snap.total
    BY DEF BeginOverlay, NoHouse
  <1>3. snap.total \in Int /\ snap.cashCall \in Int
    BY SnapshotIsFinite DEF BeginOverlay, Totalled
  <1>4. CASE ob.rules = <<>>
    <2>1. SumFunction([i \in DOMAIN ob.rules |-> Alone(ob.rules[i])])' = 0
      BY <1>1, <1>4, SumFunctionIs, SumEmpty
    <2>2. HouseAddsUp'
      BY <1>1, <1>2, <1>3, <2>1 DEF HouseAddsUp
    <2> QED
      BY <1>1, <1>2, <1>4, <2>2 DEF HouseInv
  <1>5. CASE ob.rules # <<>>
    <2>1. stage' = "house"
      BY <1>1, <1>5
    <2>2. AtTarget'
      BY <1>1, <2>1, RulesAreFinite, TargetsAreFinite DEF AtTarget
    <2>3. Charged' = 0
      <3>1. 1..0 = {}
        OBVIOUS
      <3> QED
        BY <1>1, <3>1, SumEmpty DEF Charged, ChargedBefore
    <2> QED
      BY <1>1, <1>2, <1>3, <2>1, <2>2, <2>3 DEF HouseInv, HouseAddsUp
  <1> QED
    BY <1>4, <1>5

LEMMA ConsiderHouse ==
  ASSUME DataInv, DataInv', HouseInv, Consider
  PROVE  HouseInv'
  <1> DEFINE t == Targets(Rule)[at.target]
  <1>1. /\ stage = "house" /\ stage' = stage /\ ob' = ob /\ snap' = snap /\ acct' = acct /\ entries' = entries
        /\ at.rule \in DOMAIN ob.rules /\ at.target \in DOMAIN Targets(Rule)
        /\ out' = Considered(Rule, t)
        /\ at' = [at EXCEPT !.target = at.target + 1]
    BY DEF Consider
  <1>2. AtTarget /\ DOMAIN out = DOMAIN NoHouse
    BY <1>1 DEF HouseInv
  <1>3. at'.rule = at.rule /\ at'.target = at.target + 1 /\ at' = [rule |-> at'.rule, target |-> at'.target]
    BY <1>1, <1>2 DEF AtTarget
  <1>4. /\ DOMAIN out' = DOMAIN NoHouse /\ out'.baseline = out.baseline
        /\ out'.house = out.house + Moved(Rule, t) /\ out'.cash = out.cash + Moved(Rule, t)
    BY <1>1, <1>2 DEF Considered, NoHouse
  <1>5. Moved(Rule, t) = Adds(Rule)[at.target]
    <2>1. Says(Rule, t) = "charged" => Rule.mode # "block"
      BY DEF Says
    <2> QED
      BY <1>1, <2>1 DEF Moved, Delta, Adds
  <1>6. Rule' = Rule /\ Targets(Rule)' = Targets(Rule) /\ Adds(Rule)' = Adds(Rule) /\ AllAlone' = AllAlone
    <2>1. Rule' = Rule
      BY <1>1, <1>3 DEF Rule
    <2> QED
      BY <1>1, <2>1, SaysStays, ChargedStays
  <1>7. /\ Charged \in Int /\ Adds(Rule)[at.target] \in Int
        /\ Sum(Adds(Rule), 1..at.target) = Sum(Adds(Rule), 1..(at.target - 1)) + Adds(Rule)[at.target]
    BY <1>1, <1>2, ChargedGrows
  <1>8. Charged' = Charged + Adds(Rule)[at.target]
    <2>1. Charged' = ChargedBefore(at.rule, at.target + 1)
      BY <1>1, <1>3, ChargedStays DEF Charged
    <2>2. ChargedBefore(at.rule, at.target + 1)
            = Sum(AllAlone, 1..(at.rule - 1)) + Sum(Adds(Rule), 1..((at.target + 1) - 1))
      <3>1. at.rule \in DOMAIN ob.rules
        BY <1>1
      <3> QED
        BY <3>1, Zenon DEF ChargedBefore, Rule
    <2>3. Charged = Sum(AllAlone, 1..(at.rule - 1)) + Sum(Adds(Rule), 1..(at.target - 1))
      BY <1>1 DEF Charged, ChargedBefore, Rule
    <2>4. Sum(Adds(Rule), 1..((at.target + 1) - 1)) = Sum(Adds(Rule), 1..at.target)
      <3>1. (at.target + 1) - 1 = at.target
        BY <1>2 DEF AtTarget
      <3> QED
        BY <3>1, Zenon
    <2>5. /\ Sum(AllAlone, 1..(at.rule - 1)) \in Int
          /\ Sum(Adds(Rule), 1..(at.target - 1)) \in Int
      BY <1>1, <1>2, ChargedGrows
    <2> QED
      BY <1>7, <2>1, <2>2, <2>3, <2>4, <2>5
  <1>9. AtTarget'
    <2>1. Len(Targets(Rule)) \in Nat /\ DOMAIN Targets(Rule) = 1..Len(Targets(Rule))
      BY <1>1, TargetsAreFinite
    <2>2. at.target \in 1..Len(Targets(Rule)) /\ at.target \in Nat
      BY <1>1, <1>2, <2>1 DEF AtTarget
    <2> QED
      BY <1>1, <1>2, <1>3, <1>6, <2>1, <2>2 DEF AtTarget
  <1>10. snap.total \in Int /\ snap.cashCall \in Int
    BY <1>1, SnapshotIsFinite DEF Totalled
  <1>11. /\ out.baseline = snap.total /\ out.house = snap.total + Charged
         /\ out.cash = snap.cashCall + Charged
    BY <1>1 DEF HouseInv
  <1>12. out'.house = snap.total + Charged' /\ out'.cash = snap.cashCall + Charged'
    BY <1>4, <1>5, <1>7, <1>8, <1>10, <1>11
  <1> QED
    BY <1>1, <1>4, <1>9, <1>11, <1>12 DEF HouseInv, HouseAddsUp

LEMMA NextRuleHouse ==
  ASSUME DataInv, DataInv', HouseInv, NextRule
  PROVE  HouseInv'
  <1>1. /\ stage = "house" /\ stage' = stage /\ ob' = ob /\ snap' = snap /\ acct' = acct /\ entries' = entries
        /\ out' = out
        /\ at.rule \in DOMAIN ob.rules /\ at.target > Len(Targets(Rule))
        /\ at' = [rule |-> at.rule + 1, target |-> 1]
    BY DEF NextRule
  <1>2. AtTarget
    BY <1>1 DEF HouseInv
  <1>3. Len(ob.rules) \in Nat /\ DOMAIN ob.rules = 1..Len(ob.rules)
    BY RulesAreFinite
  <1>4. at.rule + 1 \in 1..(Len(ob.rules) + 1) /\ (at.rule + 1) - 1 = at.rule
    BY <1>1, <1>3
  <1>5. AtTarget'
    BY <1>1, <1>3, <1>4, TargetsAreFinite DEF AtTarget
  <1>6. Charged' = Charged
    <2>1. Charged' = ChargedBefore(at.rule + 1, 1)
      BY <1>1, ChargedStays DEF Charged
    <2>2. 1..(1 - 1) = {}
      OBVIOUS
    <2>3. ChargedBefore(at.rule + 1, 1) = Sum(AllAlone, 1..at.rule) + 0
      <3>1. \A f : Sum(f, 1..(1 - 1)) = 0
        BY <2>2, SumEmpty
      <3>2. ChargedBefore(at.rule + 1, 1) = Sum(AllAlone, 1..((at.rule + 1) - 1)) + 0
        BY <3>1, Zenon DEF ChargedBefore
      <3>3. Sum(AllAlone, 1..((at.rule + 1) - 1)) = Sum(AllAlone, 1..at.rule)
        <4>1. (at.rule + 1) - 1 = at.rule
          BY <1>4
        <4> QED
          BY <4>1, Zenon
      <3> QED
        BY <3>2, <3>3, Zenon
    <2>4. Sum(AllAlone, 1..at.rule) = Charged /\ Charged \in Int
      BY <1>1, <1>2, ChargedGrows
    <2> QED
      BY <2>1, <2>3, <2>4
  <1> QED
    BY <1>1, <1>5, <1>6 DEF HouseInv, HouseAddsUp

LEMMA EndHouse ==
  ASSUME DataInv, DataInv', HouseInv, EndOverlay
  PROVE  HouseInv'
  <1>1. /\ stage = "house" /\ stage' = "done" /\ ob' = ob /\ snap' = snap /\ acct' = acct /\ entries' = entries
        /\ at.rule > Len(ob.rules)
    BY DEF EndOverlay
  <1>2. AtTarget /\ DOMAIN out = DOMAIN NoHouse
    BY <1>1 DEF HouseInv
  <1>3. /\ DOMAIN out' = DOMAIN NoHouse
        /\ out'.baseline = out.baseline /\ out'.house = out.house /\ out'.cash = out.cash
        /\ out'.excess = snap.equity - out.house
    BY <1>2 DEF EndOverlay, NoHouse
  <1>4. Charged = Sum(AllAlone, 1..Len(ob.rules))
    <2>1. at.rule \notin DOMAIN ob.rules
      BY <1>1, <1>2, RulesAreFinite DEF AtTarget
    <2> QED
      BY <1>1, <1>2, <2>1, ChargedGrows
  <1>5. AllAlone' = AllAlone
    BY <1>1, ChargedStays
  <1>6. SumFunction([i \in DOMAIN ob.rules |-> Alone(ob.rules[i])])' = Charged
    BY <1>1, <1>4, <1>5, AllAloneFinite DEF AllAlone
  <1>7. /\ out.baseline = snap.total /\ out.house = snap.total + Charged
        /\ out.cash = snap.cashCall + Charged
    BY <1>1 DEF HouseInv
  <1>8. HouseAddsUp'
    BY <1>1, <1>3, <1>6, <1>7 DEF HouseAddsUp
  <1> QED
    BY <1>1, <1>3, <1>8 DEF HouseInv

LEMMA NextHouse == DataInv /\ HouseInv /\ [Next]_vars => HouseInv'
  <1> SUFFICES ASSUME DataInv, HouseInv, [Next]_vars PROVE HouseInv'
    OBVIOUS
  <1>0. DataInv'
    BY NextData
  <1>1. CASE BeginOverlay
    BY <1>0, <1>1, BeginHouse
  <1>2. CASE Consider
    BY <1>0, <1>2, ConsiderHouse
  <1>3. CASE NextRule
    BY <1>0, <1>3, NextRuleHouse
  <1>4. CASE EndOverlay
    BY <1>0, <1>4, EndHouse
  <1>5. CASE out' = out /\ stage' \notin {"house", "done"}
    BY <1>5 DEF HouseInv, HouseAddsUp
  <1>6. CASE LoadBaseline \/ LoadHouse
    <2>1. out' = out /\ stage' = stage /\ (rb.state = "none" \/ ob.state = "none")
      BY <1>6 DEF LoadBaseline, LoadRulebook, LoadHouse, LoadOverlay
    <2>2. stage \notin Begun
      BY <2>1 DEF DataInv, AccountInv
    <2> QED
      BY <1>5, <2>1, <2>2 DEF Begun, Totalled
  <1>7. CASE RefuseHouse \/ EvaluateHouse \/ AggregateAccount
    <2>1. out' = out /\ stage' \notin {"house", "done"}
      BY <1>7 DEF RefuseHouse, EvaluateHouse, AggregateWithRulebook, AggregateSupplied, AggregateAccount,
                  EvaluatePosition, TryPosition, ClassifyEvaluation, Aggregate
    <2> QED
      BY <1>5, <2>1
  <1>8. CASE UNCHANGED vars
    BY <1>8, ChargedStays
  <1> QED
    BY <1>1, <1>2, <1>3, <1>4, <1>6, <1>7, <1>8 DEF Next

LEMMA InitHouse == Init => HouseInv
  BY DEF Init, AccountInit, HouseInv, HouseAddsUp

\* When EvaluateHouse returns, the house requirement is the baseline and, for
\* every rule, what it adds taken alone; the cash call has moved by the same
\* amount, and the excess is what is left of the equity: no rule has seen what
\* another has charged, whatever the rules, their order and their formulas are
\* (the running totals of applyOutcome, in Evaluate's two nested loops).
THEOREM RulesAddUp == Spec => []HouseAddsUp
  <1>1. Init => DataInv /\ HouseInv
    BY InitData, InitHouse
  <1>2. DataInv /\ HouseInv /\ [Next]_vars => (DataInv /\ HouseInv)'
    BY NextData, NextHouse
  <1>3. HouseInv => HouseAddsUp
    BY DEF HouseInv
  <1> QED
    BY <1>1, <1>2, <1>3, PTL DEF Spec

-----------------------------------------------------------------------------
(***************************************************************************)
(* Market values: those of the legs of one side and some kinds, those of a *)
(* position, and those of the account.                                     *)
(***************************************************************************)
OfSide(x, side, kinds) ==
  {j \in DOMAIN x.pos.legs : x.pos.legs[j].side = side /\ x.pos.legs[j].kind \in kinds}

LegWorths(x) == [j \in DOMAIN x.pos.legs |-> LegMarketValue(x.pos.legs[j], x.pos.U)]

Worth(x, side, kinds) == Sum(LegWorths(x), OfSide(x, side, kinds))

LEMMA ProductsAreFinite ==
  ASSUME NEW a \in Int, NEW b \in Int, NEW c \in Int, NEW d \in Int
  PROVE  a * b * c \in Int /\ a * b * c * d \in Int
  <1>1. a * b \in Int
    OBVIOUS
  <1>2. a * b * c \in Int
    BY <1>1
  <1> QED
    BY <1>2

LEMMA LegWorthIsFinite ==
  ASSUME NEW l, NEW U, ValuableLeg(l, U)
  PROVE  LegMarketValue(l, U) \in Int
  <1>0. 100 \in Int
    OBVIOUS
  <1>1. CASE l.kind = "option"
    <2>1. l.P \in Int /\ l.qty \in Int /\ EffectiveMult(l.mult) \in Int
      BY <1>1 DEF ValuableLeg, EffectiveMult, Finite, NonNegative, Positive
    <2> QED
      BY <1>0, <1>1, <2>1, ProductsAreFinite DEF LegMarketValue
  <1>2. CASE l.kind = "stock"
    <2>1. U \in Int /\ l.shares \in Int
      BY <1>2 DEF ValuableLeg, Finite, Positive
    <2> QED
      BY <1>0, <1>2, <2>1, ProductsAreFinite DEF LegMarketValue
  <1>3. CASE l.kind \notin {"option", "stock"}
    <2>1. l.price \in Int /\ l.shares \in Int
      BY <1>3 DEF ValuableLeg, Finite, Positive
    <2> QED
      BY <1>0, <1>3, <2>1, ProductsAreFinite DEF LegMarketValue
  <1> QED
    BY <1>1, <1>2, <1>3

\* A position of an account that was accepted.
Accepted(x) == \E a \in Accounts : ValidAccount(a) /\ x \in Members(a.positions)

LEMMA LegsAreFinite ==
  ASSUME NEW x, Accepted(x)
  PROVE  /\ IsFiniteSet(DOMAIN x.pos.legs) /\ DOMAIN x.pos.legs \subseteq Nat
         /\ \A j \in DOMAIN x.pos.legs : ValuableLeg(x.pos.legs[j], x.pos.U) /\ LegWorths(x)[j] \in Int
  <1>1. PICK a \in Accounts : ValidAccount(a) /\ x \in Members(a.positions)
    BY DEF Accepted
  <1>2. x.pos.legs \in Seq(Members(x.pos.legs))
    BY <1>1, AccountsAssumption
  <1>3. DOMAIN x.pos.legs = 1..Len(x.pos.legs) /\ Len(x.pos.legs) \in Nat
    BY <1>2
  <1>4. \A j \in DOMAIN x.pos.legs : ValuableLeg(x.pos.legs[j], x.pos.U)
    BY <1>1 DEF ValidAccount, Members
  <1>5. \A j \in DOMAIN x.pos.legs : LegWorths(x)[j] \in Int
    BY <1>4, LegWorthIsFinite DEF LegWorths
  <1> QED
    BY <1>3, <1>4, <1>5, FS_Interval

\* The value of all legs of a position is that of its four parts: long and short,
\* options and what is like stock.
LEMMA WorthOfParts ==
  ASSUME NEW x, Accepted(x)
  PROVE  /\ \A side, kinds : Worth(x, side, kinds) \in Int
         /\ Sum(LegWorths(x), DOMAIN x.pos.legs)
              = (Worth(x, "long", StockLike) + Worth(x, "long", {"option"}))
                + (Worth(x, "short", StockLike) + Worth(x, "short", {"option"}))
  <1> DEFINE D == DOMAIN x.pos.legs
             A == OfSide(x, "long", StockLike)
             B == OfSide(x, "long", {"option"})
             C == OfSide(x, "short", StockLike)
             E == OfSide(x, "short", {"option"})
             f == LegWorths(x)
  <1>1. IsFiniteSet(D) /\ \A j \in D : f[j] \in Int
    BY LegsAreFinite
  <1>2. ASSUME NEW side, NEW kinds
        PROVE  /\ OfSide(x, side, kinds) \in SUBSET D /\ IsFiniteSet(OfSide(x, side, kinds))
               /\ Worth(x, side, kinds) \in Int
    <2>1. OfSide(x, side, kinds) \in SUBSET D
      BY DEF OfSide
    <2>2. IsFiniteSet(OfSide(x, side, kinds))
      BY <1>1, <2>1, FS_Subset
    <2> HIDE DEF D, f
    <2>3. \A j \in OfSide(x, side, kinds) : f[j] \in Int
      BY <1>1, <2>1
    <2>4. Sum(f, OfSide(x, side, kinds)) \in Int
      BY <2>2, <2>3, SumType
    <2> QED
      BY <2>1, <2>2, <2>4 DEF Worth, f
  <1>3. /\ A \cap B = {} /\ C \cap E = {} /\ (A \cup B) \cap (C \cup E) = {}
    BY DEF OfSide, StockLike
  <1>4. D = (A \cup B) \cup (C \cup E)
    <2>1. \A j \in D : /\ x.pos.legs[j].side \in {"long", "short"}
                       /\ x.pos.legs[j].kind \in {"option"} \cup StockLike
      BY LegsAreFinite DEF ValuableLeg
    <2> QED
      BY <2>1 DEF OfSide
  <1>5. /\ IsFiniteSet(A) /\ IsFiniteSet(B) /\ IsFiniteSet(C) /\ IsFiniteSet(E)
        /\ A \subseteq D /\ B \subseteq D /\ C \subseteq D /\ E \subseteq D
    BY <1>2
  <1>6. /\ Worth(x, "long", StockLike) = Sum(f, A) /\ Worth(x, "long", {"option"}) = Sum(f, B)
        /\ Worth(x, "short", StockLike) = Sum(f, C) /\ Worth(x, "short", {"option"}) = Sum(f, E)
    BY DEF Worth
  <1> HIDE DEF A, B, C, D, E, f
  <1>7. Sum(f, A \cup B) = Sum(f, A) + Sum(f, B) /\ IsFiniteSet(A \cup B)
    <2>1. \A j \in A \cup B : f[j] \in Int
      BY <1>1, <1>5
    <2> QED
      BY <1>3, <1>5, <2>1, SumOfUnion, FS_Union
  <1>8. Sum(f, C \cup E) = Sum(f, C) + Sum(f, E) /\ IsFiniteSet(C \cup E)
    <2>1. \A j \in C \cup E : f[j] \in Int
      BY <1>1, <1>5
    <2> QED
      BY <1>3, <1>5, <2>1, SumOfUnion, FS_Union
  <1>9. Sum(f, (A \cup B) \cup (C \cup E)) = Sum(f, A \cup B) + Sum(f, C \cup E)
    <2>1. \A j \in (A \cup B) \cup (C \cup E) : f[j] \in Int
      BY <1>1, <1>5
    <2> QED
      BY <1>3, <1>7, <1>8, <2>1, SumOfUnion
  <1>10. Sum(f, D) = (Sum(f, A) + Sum(f, B)) + (Sum(f, C) + Sum(f, E))
    BY <1>4, <1>7, <1>8, <1>9
  <1> QED
    BY <1>2, <1>6, <1>10 DEF D, f

\* The worth of the positions of an account, one by one.
Worths(a, side, kinds) == [i \in DOMAIN a.positions |-> Worth(a.positions[i], side, kinds)]

LEMMA PositionsAccepted ==
  ASSUME NEW a \in Accounts, ValidAccount(a)
  PROVE  /\ IsFiniteSet(DOMAIN a.positions) /\ DOMAIN a.positions \subseteq Nat
         /\ \A i \in DOMAIN a.positions : Accepted(a.positions[i])
  <1>1. a.positions \in Seq(Members(a.positions))
    BY AccountsAssumption
  <1>2. DOMAIN a.positions = 1..Len(a.positions) /\ Len(a.positions) \in Nat
    BY <1>1
  <1>3. \A i \in DOMAIN a.positions : a.positions[i] \in Members(a.positions)
    BY DEF Members
  <1> QED
    BY <1>2, <1>3, FS_Interval DEF Accepted

LEMMA MarketValueIs ==
  ASSUME NEW a \in Accounts, ValidAccount(a), NEW side, NEW kinds
  PROVE  /\ MarketValue(a, side, kinds) = Sum(Worths(a, side, kinds), DOMAIN a.positions)
         /\ MarketValue(a, side, kinds) \in Int
         /\ \A i \in DOMAIN a.positions : Worths(a, side, kinds)[i] \in Int
  <1> DEFINE legs(x) == OfSide(x, side, kinds)
             worth(x) == SumFunction([j \in legs(x) |-> LegMarketValue(x.pos.legs[j], x.pos.U)])
             f == [i \in DOMAIN a.positions |-> worth(a.positions[i])]
  <1>1. MarketValue(a, side, kinds) = SumFunction(f)
    BY DEF MarketValue, OfSide
  <1>2. ASSUME NEW i \in DOMAIN a.positions
        PROVE  f[i] = Worth(a.positions[i], side, kinds) /\ f[i] \in Int
    <2> DEFINE x == a.positions[i]
               g == [j \in legs(x) |-> LegMarketValue(x.pos.legs[j], x.pos.U)]
    <2>1. Accepted(x)
      BY PositionsAccepted
    <2>2. f[i] = Sum(g, legs(x))
      BY SumFunctionIs
    <2>3. legs(x) \in SUBSET DOMAIN x.pos.legs /\ IsFiniteSet(DOMAIN x.pos.legs)
      BY <2>1, LegsAreFinite DEF OfSide
    <2>4. IsFiniteSet(legs(x))
      BY <2>3, FS_Subset
    <2>5. \A j \in legs(x) : g[j] = LegWorths(x)[j]
      BY <2>3 DEF LegWorths
    <2>6. Worth(x, side, kinds) = Sum(LegWorths(x), legs(x)) /\ Worth(x, side, kinds) \in Int
      BY <2>1, WorthOfParts DEF Worth
    <2> HIDE DEF x, g, f, legs
    <2>7. Sum(g, legs(x)) = Sum(LegWorths(x), legs(x))
      BY <2>4, <2>5, SumSame
    <2> QED
      BY <2>2, <2>6, <2>7 DEF x
  <1>3. SumFunction(f) = Sum(f, DOMAIN a.positions)
    BY SumFunctionIs
  <1>4. IsFiniteSet(DOMAIN a.positions)
    BY PositionsAccepted
  <1>5. \A i \in DOMAIN a.positions : f[i] = Worths(a, side, kinds)[i]
    BY <1>2 DEF Worths
  <1> HIDE DEF f
  <1>6. Sum(f, DOMAIN a.positions) = Sum(Worths(a, side, kinds), DOMAIN a.positions)
    BY <1>4, <1>5, SumSame
  <1>7. Sum(f, DOMAIN a.positions) \in Int
    BY <1>2, <1>4, SumType
  <1> QED
    BY <1>1, <1>2, <1>3, <1>5, <1>6, <1>7

-----------------------------------------------------------------------------
(***************************************************************************)
(* The exposure is what the engine charges for.                            *)
(***************************************************************************)
\* A leg without a contract size of its own has the rulebook's for the engine
\* and the literal 100 for Aggregate.
LEMMA ChargedLegWorth ==
  ASSUME NEW x, Accepted(x), rb.mult = 100, NEW j \in DOMAIN x.pos.legs
  PROVE  LET p == Prepared(x.pos)
             l == p.legs[j]
         IN  LegWorths(x)[j] = CASE l.kind = "option" -> 100 * l.P * l.qty * l.mult
                                 [] l.kind = "stock" -> 100 * p.U * l.shares
                                 [] OTHER -> 100 * l.price * l.shares
  <1> DEFINE p == Prepared(x.pos)
             o == x.pos.legs[j]
             l == p.legs[j]
  <1>1. /\ {"U", "lev", "legs"} \subseteq DOMAIN x.pos
        /\ {"kind", "side", "mult", "P", "qty", "shares", "price"} \subseteq DOMAIN o
    <2>1. PICK a \in Accounts : x \in Members(a.positions)
      BY DEF Accepted
    <2>2. o \in Members(x.pos.legs)
      BY DEF Members
    <2> HIDE DEF o
    <2> QED
      BY <2>1, <2>2, AccountsAssumption
  <1>2. p.U = x.pos.U /\ l = IF o.mult = 0 THEN [o EXCEPT !.mult = rb.mult] ELSE o
    BY <1>1 DEF Prepared
  <1>3. /\ l.kind = o.kind /\ l.P = o.P /\ l.qty = o.qty /\ l.shares = o.shares /\ l.price = o.price
        /\ l.mult = EffectiveMult(o.mult)
    BY <1>1, <1>2 DEF EffectiveMult
  <1>4. LegWorths(x)[j] = LegMarketValue(o, x.pos.U)
    BY DEF LegWorths
  <1> HIDE DEF p, o, l
  <1>5. LegWorths(x)[j] = CASE l.kind = "option" -> 100 * l.P * l.qty * l.mult
                            [] l.kind = "stock" -> 100 * p.U * l.shares
                            [] OTHER -> 100 * l.price * l.shares
    BY <1>2, <1>3, <1>4 DEF LegMarketValue
  <1> QED
    BY <1>5 DEF p, l

LEMMA ChargedWorthIs ==
  ASSUME NEW x, Accepted(x), rb.mult = 100
  PROVE  ChargedWorth(x) = Sum(LegWorths(x), DOMAIN x.pos.legs)
  <1> DEFINE p == Prepared(x.pos)
             worth(l) == CASE l.kind = "option" -> 100 * l.P * l.qty * l.mult
                           [] l.kind = "stock" -> 100 * p.U * l.shares
                           [] OTHER -> 100 * l.price * l.shares
             f == [j \in DOMAIN p.legs |-> worth(p.legs[j])]
             D == DOMAIN x.pos.legs
  <1>1. ChargedWorth(x) = Sum(f, DOMAIN p.legs)
    BY SumFunctionIs DEF ChargedWorth
  <1>2. DOMAIN p.legs = D
    <2>1. {"U", "lev", "legs"} \subseteq DOMAIN x.pos
      BY AccountsAssumption DEF Accepted
    <2> QED
      BY <2>1 DEF Prepared
  <1>3. \A j \in D : f[j] = LegWorths(x)[j]
    BY <1>2, ChargedLegWorth
  <1>4. IsFiniteSet(D)
    BY LegsAreFinite
  <1> HIDE DEF f, p, D
  <1>5. Sum(f, D) = Sum(LegWorths(x), D)
    BY <1>3, <1>4, SumSame
  <1> QED
    BY <1>1, <1>2, <1>5 DEF D

\* The gross exposure sums by side and kind what is the worth of all legs.
LEMMA GrossIsWorth ==
  ASSUME NEW a \in Accounts, ValidAccount(a), NEW es,
         NEW all, \A i \in DOMAIN a.positions :
                    all[i] = Sum(LegWorths(a.positions[i]), DOMAIN a.positions[i].pos.legs)
  PROVE  Snapshot(a, es).gross = Sum(all, DOMAIN a.positions)
  <1> DEFINE D == DOMAIN a.positions
             A == Worths(a, "long", StockLike)
             B == Worths(a, "long", {"option"})
             C == Worths(a, "short", StockLike)
             E == Worths(a, "short", {"option"})
             long == [i \in D |-> A[i] + B[i]]
             short == [i \in D |-> C[i] + E[i]]
  <1>1. Snapshot(a, es).gross = (MarketValue(a, "long", StockLike) + MarketValue(a, "long", {"option"}))
                                + (MarketValue(a, "short", StockLike) + MarketValue(a, "short", {"option"}))
    BY DEF Snapshot
  <1>2. Snapshot(a, es).gross = (Sum(A, D) + Sum(B, D)) + (Sum(C, D) + Sum(E, D))
    BY <1>1, MarketValueIs
  <1>3. IsFiniteSet(D)
    BY PositionsAccepted
  <1>4. \A i \in D : A[i] \in Int /\ B[i] \in Int /\ C[i] \in Int /\ E[i] \in Int
    BY MarketValueIs
  <1>5. \A i \in D : all[i] = (A[i] + B[i]) + (C[i] + E[i])
    BY PositionsAccepted, WorthOfParts DEF Worths
  <1>7. \A i \in D : long[i] = A[i] + B[i] /\ short[i] = C[i] + E[i]
    OBVIOUS
  <1> HIDE DEF A, B, C, D, E, long, short
  <1>8. /\ \A i \in D : long[i] \in Int /\ short[i] \in Int
        /\ \A i \in D : all[i] = long[i] + short[i]
    BY <1>4, <1>5, <1>7
  <1>9. Sum(long, D) = Sum(A, D) + Sum(B, D)
    BY <1>3, <1>4, <1>7, SumOfSums
  <1>10. Sum(short, D) = Sum(C, D) + Sum(E, D)
    BY <1>3, <1>4, <1>7, SumOfSums
  <1>11. Sum(all, D) = Sum(long, D) + Sum(short, D)
    BY <1>3, <1>8, SumOfSums
  <1>12. Snapshot(a, es).gross = Sum(all, D)
    BY <1>2, <1>9, <1>10, <1>11
  <1> QED
    BY <1>12 DEF D

LEMMA GrossIsCharged ==
  ASSUME NEW a \in Accounts, ValidAccount(a), rb.mult = 100, NEW es
  PROVE  Snapshot(a, es).gross
           = SumFunction([i \in DOMAIN a.positions |-> ChargedWorth(a.positions[i])])
  <1> DEFINE all == [i \in DOMAIN a.positions |-> ChargedWorth(a.positions[i])]
  <1>1. \A i \in DOMAIN a.positions :
          all[i] = Sum(LegWorths(a.positions[i]), DOMAIN a.positions[i].pos.legs)
    BY PositionsAccepted, ChargedWorthIs
  <1>2. SumFunction(all) = Sum(all, DOMAIN a.positions)
    BY SumFunctionIs
  <1> HIDE DEF all
  <1>3. Snapshot(a, es).gross = SumFunction(all)
    BY <1>1, <1>2, GrossIsWorth
  <1> QED
    BY <1>3 DEF all

LEMMA InvExposure == DataInv => ExposureAsCharged
  <1> SUFFICES ASSUME DataInv, stage = "aggregated", rb.mult = 100
               PROVE  snap.gross = SumFunction([i \in DOMAIN acct.positions |-> ChargedWorth(acct.positions[i])])
    BY DEF ExposureAsCharged
  <1>1. acct \in Accounts /\ ValidAccount(acct) /\ snap = Snapshot(acct, evals)
    BY DEF DataInv, AccountInv, Begun, Totalled
  <1> QED
    BY <1>1, GrossIsCharged

\* The gross exposure of an account is the worth of all legs of all its
\* positions, of those too that failed or were forbidden, at the contract size
\* the engine charges them at, wherever the rulebook keeps the default of a
\* hundred (computeMarketValues, which does not know the rulebook).
THEOREM ExposureIsCharged == Spec => []ExposureAsCharged
  <1>1. Init => DataInv
    BY InitData
  <1>2. DataInv /\ [Next]_vars => DataInv'
    BY NextData
  <1>3. DataInv => ExposureAsCharged
    BY InvExposure
  <1> QED
    BY <1>1, <1>2, <1>3, PTL DEF Spec

-----------------------------------------------------------------------------
(***************************************************************************)
(* The rules and their order.                                              *)
(***************************************************************************)
\* AllRules lists the rules file by file, and those of a file as they stand in it.
LEMMA AllRulesInOrder ==
  ASSUME NEW files \in OverlayFiles
  PROVE  LET s == AllRules(files)
             n == Cardinality(Places(files))
         IN  /\ n \in Nat /\ DOMAIN s = 1..n
             /\ \A i \in 1..n : s[i].priority \in Int /\ s[i].file \in Int /\ s[i].decl \in Int
             /\ \A i, j \in 1..n : i < j => \/ s[i].file < s[j].file
                                            \/ s[i].file = s[j].file /\ s[i].decl < s[j].decl
  <1> DEFINE s == AllRules(files)
             S == Places(files)
             n == Cardinality(S)
             R == {pq \in S \X S : Earlier(pq[1], pq[2])}
             place == Ranking(S, R)
             rule(p) == Declared(files[p[1]].rules[p[2]], p)
  <1>1. IsFiniteSet(S) /\ n \in Nat
    BY PlacesAreFinite
  <1>2. ASSUME NEW p \in S
        PROVE  /\ p = <<p[1], p[2]>> /\ p[1] \in Int /\ p[2] \in Int
               /\ files[p[1]].rules[p[2]] \in Members(files[p[1]].rules)
               /\ files[p[1]] \in Members(files)
    <2>1. PICK i \in Stated(files) : p \in {i} \X DOMAIN files[i].rules
      BY DEF Places
    <2>2. files \in Seq(Members(files)) /\ i \in DOMAIN files
      BY OverlayFilesAssumption DEF Stated
    <2>3. files[i] \in Members(files)
      BY <2>2 DEF Members
    <2>4. files[i].rules \in Seq(Members(files[i].rules))
      BY <2>3, OverlayFilesAssumption
    <2>5. p = <<p[1], p[2]>> /\ p[1] = i /\ p[2] \in DOMAIN files[i].rules
      BY <2>1
    <2>6. i \in Int /\ p[2] \in Int
      BY <2>2, <2>4, <2>5
    <2> QED
      BY <2>3, <2>5, <2>6 DEF Members
  <1>3. \A p, q \in S : <<p, q>> \in R <=> Earlier(p, q)
    OBVIOUS
  <1> HIDE DEF S, R
  <1>4. StrictOrder(S, R)
    <2>1. \A p \in S : ~Earlier(p, p)
      BY <1>2 DEF Earlier
    <2>2. \A p, q, r \in S : Earlier(p, q) /\ Earlier(q, r) => Earlier(p, r)
      BY <1>2 DEF Earlier
    <2>3. \A p, q \in S : p = q \/ Earlier(p, q) \/ Earlier(q, p)
      <3> SUFFICES ASSUME NEW p \in S, NEW q \in S, ~Earlier(p, q), ~Earlier(q, p) PROVE p = q
        OBVIOUS
      <3>1. p[1] = q[1] /\ p[2] = q[2]
        BY <1>2 DEF Earlier
      <3>2. p = <<p[1], p[2]>> /\ q = <<q[1], q[2]>>
        BY <1>2
      <3> QED
        BY <3>1, <3>2
    <2> QED
      BY <1>3, <2>1, <2>2, <2>3 DEF StrictOrder
  <1>5. /\ place \in [1..n -> S]
        /\ \A i, j \in 1..n : i < j => Earlier(place[i], place[j])
    <2>1. /\ place \in [1..n -> S]
          /\ \A i, j \in 1..n : i < j => <<place[i], place[j]>> \in R
      BY <1>1, <1>4, Ranked
    <2> HIDE DEF place, n
    <2> QED
      BY <1>3, <2>1
  <1>6. DOMAIN s = 1..n /\ \A i \in 1..n : s[i] = rule(place[i])
    <2>1. \A p \in S : {q \in S : <<q, p>> \in R} = {q \in S : Earlier(q, p)}
      BY <1>3
    <2>2. \A k \in 1..n : place[k] = CHOOSE p \in S : Cardinality({q \in S : Earlier(q, p)}) = k - 1
      BY <2>1 DEF RankIn, Ranking
    <2> QED
      BY <2>2 DEF AllRules, S
  <1> HIDE DEF place, s, n
  <1>7. ASSUME NEW i \in 1..n
        PROVE  s[i].priority \in Int /\ s[i].file = place[i][1] /\ s[i].decl = place[i][2]
    <2> DEFINE p == place[i]
               r == files[p[1]].rules[p[2]]
    <2>1. r \in Members(files[p[1]].rules) /\ files[p[1]] \in Members(files)
      BY <1>2, <1>5
    <2>2. "priority" \in DOMAIN r /\ r.priority \in Int
      BY <2>1, OverlayFilesAssumption
    <2> HIDE DEF r
    <2>3. s[i] = Declared(r, p)
      BY <1>6 DEF r
    <2>4. s[i].priority = r.priority /\ s[i].file = p[1] /\ s[i].decl = p[2]
      BY <2>2, <2>3 DEF Declared
    <2> QED
      BY <2>2, <2>4
  <1>8. \A i \in 1..n : place[i][1] \in Int /\ place[i][2] \in Int
    BY <1>2, <1>5
  <1> QED
    BY <1>1, <1>5, <1>6, <1>7, <1>8 DEF Earlier, s, n, S

\* Sorted lists the same rules by priority, and those of one priority as they
\* were listed.
LEMMA SortedInOrder ==
  ASSUME NEW files \in OverlayFiles
  PROVE  LET s == AllRules(files)
             n == Cardinality(Places(files))
         IN  /\ DOMAIN Sorted(s) = 1..n
             /\ \E to \in [1..n -> 1..n] :
                  /\ \A k \in 1..n : Sorted(s)[k] = s[to[k]]
                  /\ \A i \in 1..n : \E k \in 1..n : to[k] = i
                  /\ \A j, k \in 1..n : j < k =>
                       \/ s[to[j]].priority < s[to[k]].priority
                       \/ s[to[j]].priority = s[to[k]].priority /\ to[j] < to[k]
  <1> DEFINE s == AllRules(files)
             n == Cardinality(Places(files))
             before(i) == {j \in 1..n : Precedes(s[j], s[i]) \/ (j < i /\ ~Precedes(s[i], s[j]))}
             Less(j, i) == \/ s[j].priority < s[i].priority
                           \/ s[j].priority = s[i].priority /\ j < i
             R == {ji \in (1..n) \X (1..n) : Less(ji[1], ji[2])}
             to == Ranking(1..n, R)
  <1>1. /\ n \in Nat /\ DOMAIN s = 1..n
        /\ \A i \in 1..n : s[i].priority \in Int /\ s[i].file \in Int /\ s[i].decl \in Int
        /\ \A i, j \in 1..n : i < j => \/ s[i].file < s[j].file
                                       \/ s[i].file = s[j].file /\ s[i].decl < s[j].decl
    BY AllRulesInOrder
  <1> HIDE DEF s, n
  <1>2. \A i, j \in 1..n : (Precedes(s[j], s[i]) \/ (j < i /\ ~Precedes(s[i], s[j]))) <=> Less(j, i)
    <2> SUFFICES ASSUME NEW i \in 1..n, NEW j \in 1..n
                 PROVE  (Precedes(s[j], s[i]) \/ (j < i /\ ~Precedes(s[i], s[j]))) <=> Less(j, i)
      OBVIOUS
    <2>1. i < j \/ j < i \/ i = j
      BY <1>1
    <2> QED
      BY <1>1, <2>1 DEF Precedes
  <1>3. \A i, j \in 1..n : <<j, i>> \in R <=> Less(j, i)
    OBVIOUS
  <1> HIDE DEF R
  <1>4. StrictOrder(1..n, R)
    <2>1. \A i \in 1..n : ~Less(i, i)
      BY <1>1
    <2>2. \A i, j, k \in 1..n : Less(i, j) /\ Less(j, k) => Less(i, k)
      BY <1>1
    <2>3. \A i, j \in 1..n : i = j \/ Less(i, j) \/ Less(j, i)
      BY <1>1
    <2> HIDE DEF Less
    <2> QED
      BY <1>3, <2>1, <2>2, <2>3 DEF StrictOrder
  <1>5. Cardinality(1..n) = n /\ IsFiniteSet(1..n)
    BY <1>1, FS_Interval
  <1>6. /\ to \in [1..n -> 1..n]
        /\ \A i \in 1..n : \E k \in 1..n : to[k] = i
        /\ \A j, k \in 1..n : j < k => <<to[j], to[k]>> \in R
    <2>1. /\ to \in [1..Cardinality(1..n) -> 1..n]
          /\ \A i \in 1..n : \E k \in 1..Cardinality(1..n) : to[k] = i
          /\ \A j, k \in 1..Cardinality(1..n) : j < k => <<to[j], to[k]>> \in R
      BY <1>4, <1>5, Ranked
    <2> HIDE DEF to
    <2> QED
      BY <1>5, <2>1
  <1>7. DOMAIN Sorted(s) = 1..n /\ \A k \in 1..n : Sorted(s)[k] = s[to[k]]
    <2>1. \A i \in 1..n : before(i) = {j \in 1..n : <<j, i>> \in R}
      BY <1>2, <1>3
    <2>2. \A k \in 1..n : to[k] = CHOOSE i \in 1..n : Cardinality(before(i)) = k - 1
      BY <1>5, <2>1 DEF RankIn, Ranking
    <2> DEFINE ahead(i) == {j \in DOMAIN s : Precedes(s[j], s[i]) \/ (j < i /\ ~Precedes(s[i], s[j]))}
    <2>3. Sorted(s) = [k \in DOMAIN s |-> s[CHOOSE i \in DOMAIN s : Cardinality(ahead(i)) = k - 1]]
      BY DEF Sorted
    <2>4. \A i : ahead(i) = before(i)
      BY <1>1
    <2> HIDE DEF ahead, before
    <2>5. \A k \in 1..n : Sorted(s)[k] = s[CHOOSE i \in 1..n : Cardinality(before(i)) = k - 1]
      BY <1>1, <2>3, <2>4
    <2> QED
      BY <1>1, <2>2, <2>3, <2>5
  <1> HIDE DEF to
  <1>8. \A j, k \in 1..n : j < k => Less(to[j], to[k])
    BY <1>3, <1>6
  <1> QED
    BY <1>6, <1>7, <1>8 DEF s, n

LEMMA RulesInOrder ==
  ASSUME DataInv, ob.state = "loaded"
  PROVE  LET s == AllRules(ob.hash)
             n == Cardinality(Places(ob.hash))
         IN  /\ n \in Nat /\ DOMAIN s = 1..n /\ DOMAIN ob.rules = 1..n
             /\ \A i, j \in 1..n : s[i].id = s[j].id => i = j
             /\ \A i \in 1..n : s[i].id # "" /\ s[i].priority \in Int
             /\ \E to \in [1..n -> 1..n] :
                  /\ \A k \in 1..n : ob.rules[k] = s[to[k]]
                  /\ \A i \in 1..n : \E k \in 1..n : to[k] = i
                  /\ \A j, k \in 1..n : j < k =>
                       \/ s[to[j]].priority < s[to[k]].priority
                       \/ s[to[j]].priority = s[to[k]].priority /\ to[j] < to[k]
  <1> DEFINE s == AllRules(ob.hash)
             n == Cardinality(Places(ob.hash))
  <1>1. ob.hash \in OverlayFiles /\ ValidFiles(ob.hash) /\ ob.rules = Sorted(s)
    BY DEF DataInv, OverlayInv
  <1>2. n \in Nat /\ DOMAIN s = 1..n /\ \A i \in 1..n : s[i].priority \in Int
    BY <1>1, AllRulesInOrder
  <1>3. Unique(s) /\ \A r \in Members(s) : r.id # ""
    BY <1>1 DEF ValidFiles, ValidHouseRule
  <1>4. /\ DOMAIN Sorted(s) = 1..n
        /\ \E to \in [1..n -> 1..n] :
             /\ \A k \in 1..n : Sorted(s)[k] = s[to[k]]
             /\ \A i \in 1..n : \E k \in 1..n : to[k] = i
             /\ \A j, k \in 1..n : j < k =>
                  \/ s[to[j]].priority < s[to[k]].priority
                  \/ s[to[j]].priority = s[to[k]].priority /\ to[j] < to[k]
    BY <1>1, SortedInOrder
  <1> HIDE DEF s, n
  <1>6. /\ \A i, j \in 1..n : s[i].id = s[j].id => i = j
        /\ \A i \in 1..n : s[i].id # ""
    BY <1>2, <1>3 DEF Unique, Members
  <1>7. DOMAIN ob.rules = 1..n /\ \A k : ob.rules[k] = Sorted(s)[k]
    BY <1>1, <1>4
  <1>8. \E to \in [1..n -> 1..n] :
           /\ \A k \in 1..n : ob.rules[k] = s[to[k]]
           /\ \A i \in 1..n : \E k \in 1..n : to[k] = i
           /\ \A j, k \in 1..n : j < k =>
                \/ s[to[j]].priority < s[to[k]].priority
                \/ s[to[j]].priority = s[to[k]].priority /\ to[j] < to[k]
    <2>1. PICK to \in [1..n -> 1..n] :
                 /\ \A k \in 1..n : Sorted(s)[k] = s[to[k]]
                 /\ \A i \in 1..n : \E k \in 1..n : to[k] = i
                 /\ \A j, k \in 1..n : j < k =>
                      \/ s[to[j]].priority < s[to[k]].priority
                      \/ s[to[j]].priority = s[to[k]].priority /\ to[j] < to[k]
      BY <1>4
    <2>2. \A k \in 1..n : ob.rules[k] = s[to[k]]
      BY <1>7, <2>1
    <2> QED
      BY <2>1, <2>2, Zenon
  <1> QED
    BY <1>2, <1>6, <1>7, <1>8 DEF s, n

\* No two rules in use have the same name.
LEMMA RulesNamed ==
  ASSUME DataInv
  PROVE  \A i, j \in DOMAIN ob.rules : ob.rules[i].id = ob.rules[j].id => i = j
  <1>1. CASE ob.state # "loaded"
    BY <1>1 DEF DataInv, OverlayInv
  <1>2. CASE ob.state = "loaded"
    <2> DEFINE s == AllRules(ob.hash)
               n == Cardinality(Places(ob.hash))
    <2>1. /\ n \in Nat /\ DOMAIN ob.rules = 1..n
          /\ \A i, j \in 1..n : s[i].id = s[j].id => i = j
      BY <1>2, RulesInOrder
    <2>2. PICK to \in [1..n -> 1..n] :
                 /\ \A k \in 1..n : ob.rules[k] = s[to[k]]
                 /\ \A j, k \in 1..n : j < k =>
                      \/ s[to[j]].priority < s[to[k]].priority
                      \/ s[to[j]].priority = s[to[k]].priority /\ to[j] < to[k]
      BY <1>2, RulesInOrder
    <2>3. \A i \in 1..n : s[i].priority \in Int
      BY <1>2, RulesInOrder
    <2> HIDE DEF s
    <2>4. \A j, k \in 1..n : j < k => to[j] # to[k]
      BY <2>1, <2>2, <2>3
    <2>5. \A j, k \in 1..n : j = k \/ j < k \/ k < j
      BY <2>1
    <2>6. ASSUME NEW j \in 1..n, NEW k \in 1..n, ob.rules[j].id = ob.rules[k].id PROVE j = k
      <3>1. s[to[j]].id = s[to[k]].id /\ to[j] \in 1..n /\ to[k] \in 1..n
        BY <2>2, <2>6
      <3>2. to[j] = to[k]
        BY <2>1, <3>1
      <3> QED
        BY <2>4, <2>5, <3>2
    <2> QED
      BY <2>1, <2>6
  <1> QED
    BY <1>1, <1>2

-----------------------------------------------------------------------------
(***************************************************************************)
(* Names of targets.                                                       *)
(***************************************************************************)
LEMMA EvaluationsNamed ==
  ASSUME DataInv, stage \in Totalled, NEW i \in DOMAIN acct.positions
  PROVE  snap.evaluations[i].id = acct.positions[i].id
  <1> DEFINE mine == {e \in Members(evals) : e.id = acct.positions[i].id}
             es == snap.evaluations
  <1>1. es[i] = IF mine = {} THEN Evaluation(acct.positions[i].id, "none", NoResult)
                ELSE CHOOSE e \in mine : TRUE
    BY SnapshotIsFinite DEF Arranged
  <1>2. CASE mine = {}
    BY <1>1, <1>2 DEF Evaluation
  <1>3. CASE mine # {}
    <2>1. es[i] \in mine
      BY <1>1, <1>3
    <2> QED
      BY <2>1
  <1> QED
    BY <1>2, <1>3

\* The entries are of the positions in their order, each of a position that did
\* not fail.
LEMMA EntriesInOrder ==
  ASSUME DataInv, stage \in {"house", "done"}
  PROVE  \E of \in [DOMAIN entries -> DOMAIN acct.positions] :
           /\ \A k \in DOMAIN entries :
                /\ entries[k] = Facts(acct.positions[of[k]], snap.evaluations[of[k]])
                /\ entries[k].id = acct.positions[of[k]].id
                /\ snap.evaluations[of[k]].kind # "error"
           /\ \A j, k \in DOMAIN entries : j < k => of[j] < of[k]
  <1> DEFINE es == snap.evaluations
             is == {i \in DOMAIN es : es[i].kind # "error" /\ StockLegs(PositionOf(es[i])) # {}}
             sel == Selection(es, is)
             D == DOMAIN acct.positions
             of == [k \in DOMAIN entries |-> Nth(is, k)]
  <1>1. CASE ob.rules = <<>>
    <2>1. entries = <<>>
      BY <1>1 DEF DataInv, OverlayInv
    <2>2. of \in [DOMAIN entries -> D] /\ DOMAIN entries = {}
      BY <2>1
    <2> QED
      BY <2>2
  <1>2. CASE ob.rules # <<>>
    <2>1. entries = [k \in DOMAIN sel |-> Facts(PositionOf(sel[k]), sel[k])]
      BY <1>2 DEF DataInv, OverlayInv, Entries
    <2>2. es = Arranged(acct, evals) /\ DOMAIN es = D /\ IsFiniteSet(D) /\ D \subseteq Int
      BY SnapshotIsFinite, PositionsAreFinite DEF Totalled, Begun
    <2>3. \A i \in D : es[i].id = acct.positions[i].id
      BY EvaluationsNamed DEF Totalled
    <2>4. is \subseteq Int /\ IsFiniteSet(is) /\ is \subseteq D
      BY <2>2, FS_Subset
    <2>5. \A i \in is : es[i].kind # "error"
      OBVIOUS
    <2> HIDE DEF is
    <2>6. /\ DOMAIN sel = 1..Cardinality(is)
          /\ \A n \in 1..Cardinality(is) : Nth(is, n) \in is /\ sel[n] = es[Nth(is, n)]
          /\ \A m, n \in 1..Cardinality(is) : m < n => Nth(is, m) < Nth(is, n)
      <3>1. \A n \in 1..Cardinality(is) : Nth(is, n) \in is
        BY <2>4, NthFacts
      <3>2. \A m, n \in 1..Cardinality(is) : m < n => Nth(is, m) < Nth(is, n)
        BY <2>4, NthFacts
      <3> QED
        BY <3>1, <3>2 DEF Selection
    <2>7. DOMAIN entries = 1..Cardinality(is)
      BY <2>1, <2>6
    <2>8. ASSUME NEW k \in DOMAIN entries
          PROVE  /\ of[k] \in is /\ of[k] \in D
                 /\ entries[k] = Facts(acct.positions[of[k]], es[of[k]])
                 /\ entries[k].id = acct.positions[of[k]].id
                 /\ es[of[k]].kind # "error"
      <3> DEFINE x == PositionOf(sel[k])
                 i == Nth(is, k)
      <3>1. i \in is /\ sel[k] = es[i] /\ of[k] = i
        BY <2>6, <2>7
      <3>2. es[i].id = acct.positions[i].id /\ acct.positions[i] \in Members(acct.positions)
        BY <2>3, <2>4, <3>1 DEF Members
      <3> HIDE DEF i
      <3>3. \E y \in Members(acct.positions) : y.id = sel[k].id
        BY <3>1, <3>2
      <3>4. x \in Members(acct.positions) /\ x.id = sel[k].id
        BY <3>3, Zenon DEF PositionOf
      <3>5. x = acct.positions[i]
        <4>1. \A m, n \in D : acct.positions[m].id = acct.positions[n].id => m = n
          BY DEF DataInv, AccountInv, ValidAccount, Unique, Begun, Totalled
        <4>2. PICK m \in D : x = acct.positions[m]
          BY <3>4 DEF Members
        <4> HIDE DEF x
        <4>3. i \in D
          BY <2>4, <3>1
        <4> QED
          BY <3>1, <3>2, <3>4, <4>1, <4>2, <4>3
      <3>6. entries[k] = Facts(x, sel[k]) /\ entries[k].id = x.id
        <4>1. entries[k] = Facts(x, sel[k])
          BY <2>1
        <4> HIDE DEF x, sel
        <4> QED
          BY <4>1 DEF Facts
      <3> HIDE DEF x, sel, is, es
      <3> QED
        BY <2>4, <2>5, <3>1, <3>2, <3>4, <3>5, <3>6
    <2>9. of \in [DOMAIN entries -> D]
      BY <2>8
    <2>10. \A j, k \in DOMAIN entries : j < k => of[j] < of[k]
      BY <2>6, <2>7
    <2> HIDE DEF of, es
    <2>11. \A k \in DOMAIN entries :
             /\ entries[k] = Facts(acct.positions[of[k]], snap.evaluations[of[k]])
             /\ entries[k].id = acct.positions[of[k]].id
             /\ snap.evaluations[of[k]].kind # "error"
      BY <2>8 DEF es
    <2> QED
      BY <2>9, <2>10, <2>11
  <1> QED
    BY <1>1, <1>2

\* So no two of them have the same name, and none has that of a position that
\* failed.
LEMMA EntriesNamed ==
  ASSUME DataInv, stage \in {"house", "done"}
  PROVE  /\ \A j, k \in DOMAIN entries : entries[j].id = entries[k].id => j = k
         /\ \A k \in DOMAIN entries : \E i \in DOMAIN acct.positions : entries[k].id = acct.positions[i].id
         /\ \A e \in Members(snap.errors) : \A k \in DOMAIN entries : entries[k].id # e.id
  <1> DEFINE D == DOMAIN acct.positions
             es == snap.evaluations
  <1>1. PICK of \in [DOMAIN entries -> D] :
               /\ \A k \in DOMAIN entries :
                    /\ entries[k].id = acct.positions[of[k]].id
                    /\ es[of[k]].kind # "error"
               /\ \A j, k \in DOMAIN entries : j < k => of[j] < of[k]
    BY EntriesInOrder
  <1>2. \A i, j \in D : acct.positions[i].id = acct.positions[j].id => i = j
    BY DEF DataInv, AccountInv, ValidAccount, Unique, Begun, Totalled
  <1>3. \A j, k \in DOMAIN entries : j = k \/ j < k \/ k < j
    BY EntriesAreFinite
  <1>4. D \subseteq Int /\ IsFiniteSet(D) /\ DOMAIN es = D /\ es = Arranged(acct, evals)
    BY SnapshotIsFinite, PositionsAreFinite DEF Totalled, Begun
  <1>5. ASSUME NEW j \in DOMAIN entries, NEW k \in DOMAIN entries, entries[j].id = entries[k].id
        PROVE  j = k
    <2>1. of[j] = of[k] /\ of[j] \in D /\ of[j] \in Int
      BY <1>1, <1>2, <1>4, <1>5
    <2> QED
      BY <1>1, <1>3, <2>1
  <1>6. ASSUME NEW e \in Members(snap.errors), NEW k \in DOMAIN entries PROVE entries[k].id # e.id
    <2> DEFINE bad == {i \in DOMAIN es : es[i].kind = "error"}
    <2>1. snap.errors = Selection(es, bad)
      <3>1. snap = Snapshot(acct, evals)
        BY DEF DataInv, AccountInv, Totalled
      <3>2. snap.errors = OfKind(es, "error")
        BY <1>4, <3>1, Zenon DEF Snapshot
      <3> QED
        BY <3>2 DEF OfKind
    <2>2. bad \subseteq Int /\ IsFiniteSet(bad) /\ bad \subseteq D
      BY <1>4, FS_Subset
    <2> HIDE DEF bad
    <2>3. \A n \in 1..Cardinality(bad) : Nth(bad, n) \in bad
      BY <2>2, NthFacts
    <2>4. PICK i \in bad : e = es[i]
      BY <1>6, <2>1, <2>3 DEF Selection, Members
    <2>5. es[i].kind = "error" /\ es[i].id = acct.positions[i].id
      BY <2>2, <2>4, EvaluationsNamed DEF bad, Totalled
    <2>6. of[k] # i
      BY <1>1, <2>5
    <2> QED
      BY <1>1, <1>2, <2>2, <2>4, <2>5, <2>6
  <1> QED
    BY <1>1, <1>5, <1>6

\* No two targets of a rule have the same name, and what they are made of are
\* entries.
LEMMA TargetsNamed ==
  ASSUME DataInv, stage \in {"house", "done"}, NEW r
  PROVE  /\ \A j, k \in DOMAIN Targets(r) : Targets(r)[j].name = Targets(r)[k].name => j = k
         /\ \A k \in DOMAIN Targets(r) : \A id \in Targets(r)[k].members \cup Targets(r)[k].missing :
              \E i \in DOMAIN entries : id = entries[i].id
  <1> DEFINE ts == Targets(r)
  <1>0. ASSUME NEW key
        PROVE  LET G == Grouped(r, key)
               IN  /\ GroupTarget(r, key).name = key
                   /\ GroupTarget(r, key).members = {entries[i].id : i \in G}
                   /\ GroupTarget(r, key).missing = {entries[i].id : i \in {j \in G : entries[j].missing}}
    BY Zenon DEF GroupTarget
  <1>1. CASE r.scope = "position"
    <2>1. ts = [i \in DOMAIN entries |-> PositionTarget(r, entries[i])]
      BY <1>1 DEF Targets
    <2>2. \A i \in DOMAIN entries : /\ ts[i].name = entries[i].id /\ ts[i].members = {entries[i].id}
                                    /\ ts[i].missing \subseteq {entries[i].id}
      BY <2>1 DEF PositionTarget
    <2>3. DOMAIN ts = DOMAIN entries
      BY <2>1
    <2> HIDE DEF ts
    <2>4. \A j, k \in DOMAIN ts : ts[j].name = ts[k].name => j = k
      BY <2>2, <2>3, EntriesNamed
    <2> QED
      BY <2>2, <2>3, <2>4 DEF ts
  <1>2. CASE r.scope # "position"
    <2> DEFINE is == {i \in DOMAIN SortedSymbols : Grouped(r, SortedSymbols[i]) # {}}
               keys == Selection(SortedSymbols, is)
    <2>1. ts = [i \in DOMAIN keys |-> GroupTarget(r, keys[i])]
      BY <1>2 DEF Targets
    <2>2. is \subseteq Int /\ IsFiniteSet(is) /\ is \subseteq DOMAIN SortedSymbols
      <3>1. IsFiniteSet(DOMAIN SortedSymbols) /\ DOMAIN SortedSymbols \subseteq Int
        BY SymbolsAreFinite, FS_Interval
      <3> QED
        BY <3>1, FS_Subset
    <2> HIDE DEF is
    <2>3. /\ Cardinality(is) \in Nat
          /\ \A n \in 1..Cardinality(is) : Nth(is, n) \in is
          /\ \A m, n \in 1..Cardinality(is) : m < n => Nth(is, m) < Nth(is, n)
      BY <2>2, NthFacts
    <2>4. /\ DOMAIN keys = 1..Cardinality(is)
          /\ \A n \in 1..Cardinality(is) : keys[n] = SortedSymbols[Nth(is, n)]
      BY DEF Selection
    <2>5. \A k \in DOMAIN keys : ts[k] = GroupTarget(r, keys[k])
      BY <2>1
    <2>6. DOMAIN ts = DOMAIN keys
      BY <2>1
    <2> HIDE DEF keys, ts
    <2>7. ASSUME NEW j \in DOMAIN ts, NEW k \in DOMAIN ts, ts[j].name = ts[k].name PROVE j = k
      <3>1. ts[j].name = keys[j] /\ ts[k].name = keys[k]
        BY <1>0, <2>5, <2>6
      <3>2. Nth(is, j) \in DOMAIN SortedSymbols /\ Nth(is, k) \in DOMAIN SortedSymbols
            /\ Nth(is, j) \in Int /\ Nth(is, k) \in Int
        BY <2>2, <2>3, <2>4, <2>6
      <3>3. Nth(is, j) = Nth(is, k)
        BY <2>4, <2>6, <2>7, <3>1, <3>2, SymbolsAssumption
      <3>4. j = k \/ j < k \/ k < j
        BY <2>3, <2>4, <2>6
      <3> QED
        BY <2>3, <2>4, <2>6, <3>2, <3>3, <3>4
    <2>8. ASSUME NEW k \in DOMAIN ts, NEW id \in ts[k].members \cup ts[k].missing
          PROVE  \E i \in DOMAIN entries : id = entries[i].id
      <3> DEFINE G == Grouped(r, keys[k])
      <3>1. /\ ts[k].members = {entries[i].id : i \in G}
            /\ ts[k].missing = {entries[i].id : i \in {j \in G : entries[j].missing}}
        BY <1>0, <2>5, <2>6
      <3>2. G \subseteq DOMAIN entries
        BY DEF Grouped
      <3> QED
        BY <2>8, <3>1, <3>2
    <2> QED
      BY <2>7, <2>8 DEF ts
  <1> QED
    BY <1>1, <1>2

-----------------------------------------------------------------------------
(***************************************************************************)
(* Evaluate's walk over the rules and their targets.                       *)
(***************************************************************************)
RuleAt(p) == ob.rules[p[1]]

TargetAt(p) == Targets(RuleAt(p))[p[2]]

SaidAt(p) == Says(RuleAt(p), TargetAt(p))

NoteAt(p) == Note(SaidAt(p), RuleAt(p).id, TargetAt(p).name)

\* Where the walk comes to, and where it has been.
Visits == UNION {{i} \X DOMAIN Targets(ob.rules[i]) : i \in DOMAIN ob.rules}

Visited == {p \in Visits : Earlier(p, <<at.rule, at.target>>)}

Done == {"blocked", "charged"}

DoneAt == {p \in Visited : SaidAt(p) \in Done}

\* A sequence that has one element for each of ps, in their order.
Along(path, s, ps) ==
  /\ path \in [1..Len(s) -> ps]
  /\ \A m, n \in 1..Len(s) : m < n => Earlier(path[m], path[n])
  /\ \A p \in ps : \E n \in 1..Len(s) : path[n] = p

\* The audit has an entry for each place, and the components one for each that
\* has been charged or has blocked.
Audited(path) ==
  /\ Along(path, out.audit, Visited)
  /\ \A n \in 1..Len(out.audit) : out.audit[n] = AuditEntry(RuleAt(path[n]), TargetAt(path[n]))

Composed(path) ==
  /\ Along(path, out.components, DoneAt)
  /\ \A n \in 1..Len(out.components) : out.components[n] = Component(RuleAt(path[n]), TargetAt(path[n]))

\* The notes of some kinds are those of the places Evaluate has been to.
NotedOf(s, kinds) ==
  \A v : v \in Members(s) <=> \E p \in Visited : SaidAt(p) \in kinds /\ v = NoteAt(p)

Failures == {"when failed", "formula failed"}

ReferenceNotes == [i \in DOMAIN Unreported |-> Note("reference", "", Unreported[i].id)]

\* The lists are those of the places visited, each once and in their order, and
\* at the end these are all.
WalkInv ==
  /\ stage \notin {"house", "done"} => out = NoHouse
  /\ DOMAIN out = DOMAIN NoHouse
  /\ IsSeq(out.audit) /\ IsSeq(out.components) /\ IsSeq(out.violations) /\ IsSeq(out.warnings)
  /\ stage = "done" => \A p \in Visits : p[1] < at.rule
  /\ stage \in {"house", "done"} =>
       /\ \E path : Audited(path)
       /\ \E path : Composed(path)
       /\ NotedOf(out.violations, {"missing", "blocked"})
       /\ \A id : id \in out.reported <=>
                    \E p \in Visited : SaidAt(p) = "missing" /\ id \in TargetAt(p).missing
  /\ stage = "house" => NotedOf(out.warnings, Failures)
  /\ stage = "done" => \E s : IsSeq(s) /\ NotedOf(s, Failures) /\ out.warnings = s \o ReferenceNotes

LEMMA VisitsAre ==
  ASSUME DataInv, stage \in {"house", "done"}
  PROVE  /\ \A p : p \in Visits <=> /\ p = <<p[1], p[2]>> /\ p[1] \in DOMAIN ob.rules
                                    /\ p[2] \in DOMAIN Targets(ob.rules[p[1]])
         /\ \A p \in Visits : p[1] \in Nat \ {0} /\ p[2] \in Nat \ {0}
  <1>1. ASSUME NEW p
        PROVE  p \in Visits <=> /\ p = <<p[1], p[2]>> /\ p[1] \in DOMAIN ob.rules
                                /\ p[2] \in DOMAIN Targets(ob.rules[p[1]])
    <2>1. p \in Visits <=> \E i \in DOMAIN ob.rules : p \in {i} \X DOMAIN Targets(ob.rules[i])
      BY DEF Visits
    <2>2. \A i : p \in {i} \X DOMAIN Targets(ob.rules[i]) <=>
                 p = <<p[1], p[2]>> /\ p[1] = i /\ p[2] \in DOMAIN Targets(ob.rules[i])
      BY SMT
    <2> QED
      BY <2>1, <2>2
  <1>2. ASSUME NEW p \in Visits PROVE p[1] \in Nat \ {0} /\ p[2] \in Nat \ {0}
    <2>1. p[1] \in DOMAIN ob.rules /\ p[2] \in DOMAIN Targets(ob.rules[p[1]])
      BY <1>1
    <2>2. DOMAIN ob.rules = 1..Len(ob.rules) /\ Len(ob.rules) \in Nat
      BY RulesAreFinite
    <2>3. /\ DOMAIN Targets(ob.rules[p[1]]) = 1..Len(Targets(ob.rules[p[1]]))
          /\ Len(Targets(ob.rules[p[1]])) \in Nat
      BY TargetsAreFinite
    <2> QED
      BY <2>1, <2>2, <2>3
  <1> QED
    BY <1>1, <1>2

LEMMA EmptyAlong ==
  ASSUME NEW ps, ps = {}
  PROVE  Along(<<>>, <<>>, ps)
  <1>1. Len(<<>>) = 0 /\ 1..0 = {} /\ <<>> \in [1..0 -> ps]
    OBVIOUS
  <1> QED
    BY <1>1, SMT DEF Along

Onward(path, s, p) == [n \in 1..(Len(s) + 1) |-> IF n <= Len(s) THEN path[n] ELSE p]

LEMMA OnwardIs ==
  ASSUME NEW s, Len(s) \in Nat, NEW path, NEW p
  PROVE  /\ \A n \in 1..Len(s) : Onward(path, s, p)[n] = path[n]
         /\ Onward(path, s, p)[Len(s) + 1] = p
  BY DEF Onward

LEMMA AlongGrows ==
  ASSUME NEW s, IsSeq(s), NEW ps, NEW path, Along(path, s, ps), NEW x,
         NEW p, \A q \in ps : Earlier(q, p)
  PROVE  Along(Onward(path, s, p), Append(s, x), ps \cup {p})
  <1> DEFINE new == Onward(path, s, p)
             N == Len(s)
  <1>1. N \in Nat /\ Len(Append(s, x)) = N + 1
    BY AppendFacts
  <1>2. path \in [1..N -> ps]
    BY DEF Along
  <1>3. \A n \in 1..N : new[n] = path[n] /\ new[n] \in ps
    BY <1>1, <1>2, OnwardIs
  <1>4. new[N + 1] = p
    BY <1>1, OnwardIs
  <1>5. new \in [1..(N + 1) -> ps \cup {p}]
    BY <1>1, <1>2 DEF Onward
  <1> HIDE DEF new
  <1>6. ASSUME NEW m \in 1..(N + 1), NEW n \in 1..(N + 1), m < n PROVE Earlier(new[m], new[n])
    <2>1. m \in 1..N
      BY <1>1, <1>6
    <2>2. CASE n \in 1..N
      BY <1>3, <1>6, <2>1, <2>2 DEF Along
    <2>3. CASE n = N + 1
      BY <1>3, <1>4, <2>1, <2>3
    <2> QED
      BY <1>1, <2>2, <2>3
  <1>7. ASSUME NEW q \in ps \cup {p} PROVE \E n \in 1..(N + 1) : new[n] = q
    <2>1. CASE q \in ps
      <3>1. PICK n \in 1..N : path[n] = q
        BY <2>1 DEF Along
      <3>2. n \in 1..(N + 1)
        BY <1>1, <3>1
      <3> QED
        BY <1>3, <3>1, <3>2
    <2>2. CASE q = p
      BY <1>1, <1>4, <2>2
    <2> QED
      BY <2>1, <2>2
  <1>8. Along(new, Append(s, x), ps \cup {p})
    BY <1>1, <1>5, <1>6, <1>7 DEF Along
  <1> QED
    BY <1>8 DEF new



\* What a rule says of a target is the same all along.
LEMMA PlacesStay ==
  ASSUME UNCHANGED <<snap, acct, entries, ob>>
  PROVE  /\ Visits' = Visits
         /\ \A p : /\ RuleAt(p)' = RuleAt(p) /\ TargetAt(p)' = TargetAt(p) /\ SaidAt(p)' = SaidAt(p)
                   /\ NoteAt(p)' = NoteAt(p)
                   /\ AuditEntry(RuleAt(p), TargetAt(p))' = AuditEntry(RuleAt(p), TargetAt(p))
                   /\ Component(RuleAt(p), TargetAt(p))' = Component(RuleAt(p), TargetAt(p))
  <1>1. \A r : Targets(r)' = Targets(r)
    BY SaysStays
  <1>2. ASSUME NEW r, NEW t
        PROVE  /\ Says(r, t)' = Says(r, t)
               /\ Component(r, t)' = Component(r, t)
               /\ AuditEntry(r, t)' = AuditEntry(r, t)
    <2>1. Says(r, t)' = Says(r, t)
      BY SaysStays
    <2>2. Amount(r, t)' = Amount(r, t)
      BY SMT DEF Amount, Activation
    <2>3. Delta(r, t)' = Delta(r, t)
      BY SMT DEF Delta, Raise, Amount, Activation
    <2>4. Component(r, t)' = Component(r, t)
      BY <2>2, <2>3 DEF Component
    <2>5. AuditEntry(r, t)' = AuditEntry(r, t)
      BY <2>1, <2>2, <2>4 DEF AuditEntry
    <2> QED
      BY <2>1, <2>4, <2>5
  <1>3. Visits' = Visits
    <2>1. DOMAIN ob'.rules = DOMAIN ob.rules
      OBVIOUS
    <2>2. \A i : Targets(ob.rules[i])' = Targets(ob.rules[i])
      BY SaysStays
    <2> QED
      BY <2>1, <2>2 DEF Visits
  <1>4. ASSUME NEW p PROVE RuleAt(p)' = RuleAt(p) /\ TargetAt(p)' = TargetAt(p)
    <2>1. RuleAt(p)' = RuleAt(p)
      BY DEF RuleAt
    <2>2. Targets(RuleAt(p))' = Targets(RuleAt(p))
      BY <2>1, SaysStays
    <2> QED
      BY <2>1, <2>2 DEF TargetAt
  <1>5. ASSUME NEW p
        PROVE  /\ SaidAt(p)' = SaidAt(p) /\ NoteAt(p)' = NoteAt(p)
               /\ AuditEntry(RuleAt(p), TargetAt(p))' = AuditEntry(RuleAt(p), TargetAt(p))
               /\ Component(RuleAt(p), TargetAt(p))' = Component(RuleAt(p), TargetAt(p))
    <2>1. SaidAt(p)' = SaidAt(p)
      BY <1>2, <1>4 DEF SaidAt
    <2>2. NoteAt(p)' = NoteAt(p)
      BY <1>4, <2>1 DEF NoteAt, Note
    <2>3. AuditEntry(RuleAt(p), TargetAt(p))' = AuditEntry(RuleAt(p), TargetAt(p))
      BY <1>2, <1>4
    <2>4. Component(RuleAt(p), TargetAt(p))' = Component(RuleAt(p), TargetAt(p))
      BY <1>2, <1>4
    <2> QED
      BY <2>1, <2>2, <2>3, <2>4
  <1> QED
    BY <1>3, <1>4, <1>5

\* Rules and targets are counted from one.
VisitsTyped ==
  \A p \in Visits : /\ p = <<p[1], p[2]>> /\ p[1] \in Nat \ {0} /\ p[2] \in Nat \ {0}
                    /\ p[1] \in DOMAIN ob.rules

LEMMA VisitsAreTyped == DataInv /\ stage \in {"house", "done"} => VisitsTyped
  BY VisitsAre DEF VisitsTyped

LEMMA InitWalk == Init => WalkInv
  BY DEF Init, AccountInit, WalkInv, NoHouse, IsSeq

\* Before the first target nothing has been said.
LEMMA BeginWalk ==
  ASSUME DataInv, DataInv', BeginOverlay
  PROVE  WalkInv'
  <1>1. /\ stage' = IF ob.rules = <<>> THEN "done" ELSE "house"
        /\ ob' = ob /\ at' = [rule |-> 1, target |-> 1]
    BY DEF BeginOverlay
  <1>2. /\ DOMAIN out' = DOMAIN NoHouse
        /\ out'.audit = <<>> /\ out'.components = <<>> /\ out'.violations = <<>>
        /\ out'.warnings = <<>> /\ out'.reported = {}
    BY DEF BeginOverlay, NoHouse
  <1>3. IsSeq(<<>>) /\ Members(<<>>) = {} /\ Len(<<>>) = 0
    BY DEF IsSeq, Members
  <1>4. stage' \in {"house", "done"}
    BY <1>1
  <1>5. VisitsTyped'
    <2>1. (stage \in {"house", "done"})'
      BY <1>4
    <2> QED
      BY <2>1, VisitsAreTyped, PTL
  <1>6. Visited' = {} /\ DoneAt' = {}
    <2>1. ASSUME NEW p \in Visits' PROVE ~Earlier(p, <<1, 1>>)
      BY <1>5 DEF VisitsTyped, Earlier
    <2>2. Visited' = {}
      BY <1>1, <2>1 DEF Visited
    <2> QED
      BY <2>2 DEF DoneAt
  <1>7. Audited(<<>>)' /\ Composed(<<>>)'
    <2>1. \A n \in 1..0 : FALSE
      OBVIOUS
    <2> QED
      BY <1>2, <1>3, <1>6, <2>1, EmptyAlong DEF Audited, Composed
  <1>8. NotedOf(out.violations, {"missing", "blocked"})' /\ NotedOf(<<>>, Failures)'
    BY <1>2, <1>3, <1>6 DEF NotedOf
  <1>9. CASE ob.rules = <<>>
    <2>1. stage' = "done" /\ \A p : p \notin Visits'
      BY <1>1, <1>5, <1>9 DEF VisitsTyped
    <2>2. entries' = <<>>
      BY <1>9 DEF BeginOverlay
    <2>3. ReferenceNotes' = <<>>
      <3> DEFINE is == {i \in DOMAIN entries' : entries'[i].missing /\ entries'[i].id \notin out'.reported}
      <3>1. is = {}
        BY <2>2
      <3>2. Cardinality(is) = 0
        BY <3>1, FS_EmptySet
      <3>3. Unreported' = Selection(entries', is)
        BY DEF Unreported
      <3> HIDE DEF is
      <3>4. DOMAIN Unreported' = 1..0
        BY <3>2, <3>3 DEF Selection
      <3>5. ReferenceNotes' = [i \in 1..0 |-> Note("reference", "", Unreported[i].id)]'
        BY <3>4 DEF ReferenceNotes
      <3> QED
        BY <3>5
    <2>4. out'.warnings = <<>> \o ReferenceNotes'
      BY <1>2, <2>3
    <2> QED
      BY <1>2, <1>3, <1>4, <1>6, <1>7, <1>8, <2>1, <2>4 DEF WalkInv
  <1>10. CASE ob.rules # <<>>
    <2>1. stage' = "house"
      BY <1>1, <1>10
    <2> QED
      BY <1>2, <1>3, <1>4, <1>6, <1>7, <1>8, <2>1 DEF WalkInv
  <1> QED
    BY <1>9, <1>10

\* A target adds its own place to those that were visited, and what is said of
\* it to the lists.
LEMMA ConsiderWalk ==
  ASSUME DataInv, HouseInv, WalkInv, Consider
  PROVE  WalkInv'
  <1> DEFINE t == Targets(Rule)[at.target]
             p == <<at.rule, at.target>>
             said == Says(Rule, t)
             note == Note(said, Rule.id, t.name)
  <1>1. /\ stage = "house" /\ stage' = stage /\ ob' = ob /\ snap' = snap /\ acct' = acct /\ entries' = entries
        /\ at.rule \in DOMAIN ob.rules /\ at.target \in DOMAIN Targets(Rule)
        /\ out' = Considered(Rule, t)
        /\ at' = [at EXCEPT !.target = at.target + 1]
    BY DEF Consider
  <1>2. AtTarget /\ DOMAIN out = DOMAIN NoHouse
    BY <1>1 DEF HouseInv
  <1>3. at'.rule = at.rule /\ at'.target = at.target + 1
    BY <1>1, <1>2 DEF AtTarget
  <1>4. /\ DOMAIN out' = DOMAIN NoHouse
        /\ out'.audit = Append(out.audit, AuditEntry(Rule, t))
        /\ out'.components = IF said \in Done THEN Append(out.components, Component(Rule, t))
                             ELSE out.components
        /\ out'.violations = Listed(out.violations, note, said \in {"missing", "blocked"})
        /\ out'.warnings = Listed(out.warnings, note, said \in Failures)
        /\ out'.reported = IF said = "missing" THEN out.reported \cup t.missing ELSE out.reported
    BY <1>1, <1>2 DEF Considered, NoHouse, Done, Failures
  <1>5. p \in Visits /\ RuleAt(p) = Rule /\ TargetAt(p) = t /\ SaidAt(p) = said /\ NoteAt(p) = note
    BY <1>1, VisitsAre DEF RuleAt, TargetAt, SaidAt, NoteAt, Rule
  <1>6. /\ Visits' = Visits
        /\ \A q : /\ RuleAt(q)' = RuleAt(q) /\ TargetAt(q)' = TargetAt(q) /\ SaidAt(q)' = SaidAt(q)
                  /\ NoteAt(q)' = NoteAt(q)
                  /\ AuditEntry(RuleAt(q), TargetAt(q))' = AuditEntry(RuleAt(q), TargetAt(q))
                  /\ Component(RuleAt(q), TargetAt(q))' = Component(RuleAt(q), TargetAt(q))
    BY <1>1, PlacesStay
  <1> HIDE DEF t, said, note, p
  <1>7. Visited' = Visited \cup {p} /\ \A q \in Visited : Earlier(q, p)
    <2>1. \A q \in Visits : q = <<q[1], q[2]>> /\ q[1] \in Nat /\ q[2] \in Nat
      BY <1>1, VisitsAre
    <2>2. at.rule \in Nat /\ at.target \in Nat
      BY <1>2, RulesAreFinite DEF AtTarget
    <2>3. \A q \in Visits : Earlier(q, <<at.rule, at.target + 1>>) <=> Earlier(q, p) \/ q = p
      BY <2>1, <2>2 DEF Earlier, p
    <2>4. Visited' = {q \in Visits : Earlier(q, <<at.rule, at.target + 1>>)}
      BY <1>3, <1>6 DEF Visited
    <2>5. Visited = {q \in Visits : Earlier(q, p)}
      BY DEF Visited, p
    <2> QED
      BY <1>5, <2>3, <2>4, <2>5
  <1>8. DoneAt' = (IF said \in Done THEN DoneAt \cup {p} ELSE DoneAt) /\ \A q \in DoneAt : Earlier(q, p)
    BY <1>5, <1>6, <1>7 DEF DoneAt
  <1>9. IsSeq(out.audit) /\ IsSeq(out.components) /\ IsSeq(out.violations) /\ IsSeq(out.warnings)
    BY DEF WalkInv
  <1>10. IsSeq(out'.audit) /\ IsSeq(out'.components) /\ IsSeq(out'.violations) /\ IsSeq(out'.warnings)
    BY <1>4, <1>9, AppendFacts DEF Listed
  <1>11. (\E path : Audited(path))'
    <2>1. PICK path : Audited(path)
      BY <1>1 DEF WalkInv
    <2> DEFINE s == out.audit
               x == AuditEntry(Rule, t)
    <2>2. Along(path, s, Visited)
      BY <2>1 DEF Audited
    <2> PICK new : new = Onward(path, s, p)
      OBVIOUS
    <2>3. Along(new, Append(s, x), Visited \cup {p})
      <3>1. IsSeq(s) /\ \A q \in Visited : Earlier(q, p)
        BY <1>7, <1>9
      <3> HIDE DEF s, x
      <3> QED
        BY <2>2, <3>1, AlongGrows, Zenon
    <2>4. /\ Len(s) \in Nat /\ Len(Append(s, x)) = Len(s) + 1
          /\ \A n \in 1..Len(s) : Append(s, x)[n] = s[n]
          /\ Append(s, x)[Len(s) + 1] = x
          /\ \A n \in 1..Len(s) : new[n] = path[n]
          /\ new[Len(s) + 1] = p
      BY <1>9, AppendFacts, OnwardIs
    <2>5. \A n \in 1..Len(s) : s[n] = AuditEntry(RuleAt(path[n]), TargetAt(path[n]))
      BY <2>1 DEF Audited
    <2>6. ASSUME NEW n \in 1..(Len(s) + 1)
          PROVE  Append(s, x)[n] = AuditEntry(RuleAt(new[n]), TargetAt(new[n]))
      <3>1. CASE n \in 1..Len(s)
        BY <2>3, <2>4, <2>5, <3>1
      <3>2. CASE n = Len(s) + 1
        BY <1>5, <2>3, <2>4, <3>2
      <3> QED
        BY <2>4, <3>1, <3>2
    <2>7. \A q : AuditEntry(RuleAt(q), TargetAt(q))' = AuditEntry(RuleAt(q), TargetAt(q))
      BY <1>6
    <2> HIDE DEF x
    <2>8. Along(new, out'.audit, Visited')
      BY <1>4, <1>7, <2>3 DEF x
    <2>9. \A n \in 1..Len(out'.audit) :
            out'.audit[n] = AuditEntry(RuleAt(new[n]), TargetAt(new[n]))
      BY <1>4, <2>4, <2>6 DEF x
    <2>10. Audited(new)'
      BY <2>7, <2>8, <2>9 DEF Audited, Along
    <2> QED
      BY <2>10
  <1>12. (\E path : Composed(path))'
    <2>1. PICK path : Composed(path)
      BY <1>1 DEF WalkInv
    <2>2. CASE said \notin Done
      <3>1. Composed(path)'
        BY <1>4, <1>6, <1>8, <2>1, <2>2 DEF Composed, Along
      <3> QED
        BY <3>1
    <2>3. CASE said \in Done
      <3> DEFINE s == out.components
                 x == Component(Rule, t)
      <3>2. Along(path, s, DoneAt)
        BY <2>1 DEF Composed
      <3> PICK new : new = Onward(path, s, p)
        OBVIOUS
      <3>3. Along(new, Append(s, x), DoneAt \cup {p})
        <4>1. IsSeq(s) /\ \A q \in DoneAt : Earlier(q, p)
          BY <1>8, <1>9
        <4> HIDE DEF s, x
        <4> QED
          BY <3>2, <4>1, AlongGrows, Zenon
      <3>4. /\ Len(s) \in Nat /\ Len(Append(s, x)) = Len(s) + 1
            /\ \A n \in 1..Len(s) : Append(s, x)[n] = s[n]
            /\ Append(s, x)[Len(s) + 1] = x
            /\ \A n \in 1..Len(s) : new[n] = path[n]
            /\ new[Len(s) + 1] = p
        BY <1>9, AppendFacts, OnwardIs
      <3>5. \A n \in 1..Len(s) : s[n] = Component(RuleAt(path[n]), TargetAt(path[n]))
        BY <2>1 DEF Composed
      <3>6. ASSUME NEW n \in 1..(Len(s) + 1)
            PROVE  Append(s, x)[n] = Component(RuleAt(new[n]), TargetAt(new[n]))
        <4>1. CASE n \in 1..Len(s)
          BY <3>3, <3>4, <3>5, <4>1
        <4>2. CASE n = Len(s) + 1
          BY <1>5, <3>3, <3>4, <4>2
        <4> QED
          BY <3>4, <4>1, <4>2
      <3>7. \A q : Component(RuleAt(q), TargetAt(q))' = Component(RuleAt(q), TargetAt(q))
        BY <1>6
      <3> HIDE DEF x
      <3>8. Along(new, out'.components, DoneAt')
        BY <1>4, <1>8, <2>3, <3>3 DEF x
      <3>9. \A n \in 1..Len(out'.components) :
              out'.components[n] = Component(RuleAt(new[n]), TargetAt(new[n]))
        BY <1>4, <2>3, <3>4, <3>6 DEF x
      <3>10. Composed(new)'
        BY <3>7, <3>8, <3>9 DEF Composed, Along
      <3> QED
        BY <3>10
    <2> QED
      BY <2>2, <2>3
  <1>13. ASSUME NEW s, IsSeq(s), NEW kinds, NotedOf(s, kinds), NEW v
         PROVE  v \in Members(Listed(s, note, said \in kinds)) <=>
                  \E q \in Visited' : SaidAt(q)' \in kinds /\ v = NoteAt(q)'
    <2>1. v \in Members(s) <=> \E q \in Visited : SaidAt(q) \in kinds /\ v = NoteAt(q)
      BY <1>13 DEF NotedOf
    <2>2. (\E q \in Visited' : SaidAt(q)' \in kinds /\ v = NoteAt(q)') <=>
            (\E q \in Visited : SaidAt(q) \in kinds /\ v = NoteAt(q)) \/ (said \in kinds /\ v = note)
      BY <1>5, <1>6, <1>7
    <2>3. v \in Members(Listed(s, note, said \in kinds)) <=>
            v \in Members(s) \/ (said \in kinds /\ v = note)
      <3>1. CASE said \in kinds
        <4>1. Listed(s, note, said \in kinds) = Append(s, note)
          BY <3>1 DEF Listed
        <4> QED
          BY <1>13, <3>1, <4>1, AppendMembers
      <3>2. CASE said \notin kinds
        BY <3>2 DEF Listed
      <3> QED
        BY <3>1, <3>2
    <2> QED
      BY <2>1, <2>2, <2>3
  <1>14. NotedOf(out.violations, {"missing", "blocked"})' /\ NotedOf(out.warnings, Failures)'
    <2>1. NotedOf(out.violations, {"missing", "blocked"}) /\ NotedOf(out.warnings, Failures)
      BY <1>1 DEF WalkInv
    <2>2. \A v : v \in Members(out'.violations) <=>
                   \E q \in Visited' : SaidAt(q)' \in {"missing", "blocked"} /\ v = NoteAt(q)'
      BY <1>4, <1>9, <1>13, <2>1
    <2>3. \A v : v \in Members(out'.warnings) <=>
                   \E q \in Visited' : SaidAt(q)' \in Failures /\ v = NoteAt(q)'
      BY <1>4, <1>9, <1>13, <2>1
    <2> QED
      BY <2>2, <2>3 DEF NotedOf, Failures
  <1>15. \A id : id \in out'.reported <=>
                   \E q \in Visited' : SaidAt(q)' = "missing" /\ id \in TargetAt(q)'.missing
    <2>1. \A id : id \in out.reported <=>
                    \E q \in Visited : SaidAt(q) = "missing" /\ id \in TargetAt(q).missing
      BY <1>1 DEF WalkInv
    <2> QED
      BY <1>4, <1>5, <1>6, <1>7, <2>1
  <1> QED
    BY <1>1, <1>4, <1>10, <1>11, <1>12, <1>14, <1>15 DEF WalkInv

\* A step that leaves the outcome alone, and where Evaluate has been.
LEMMA WalkStays ==
  ASSUME WalkInv, UNCHANGED <<stage, snap, acct, entries, ob, out>>, Visited' = Visited,
         stage = "done" => at' = at
  PROVE  WalkInv'
  <1>1. /\ Visits' = Visits
        /\ \A q : /\ RuleAt(q)' = RuleAt(q) /\ TargetAt(q)' = TargetAt(q) /\ SaidAt(q)' = SaidAt(q)
                  /\ NoteAt(q)' = NoteAt(q)
                  /\ AuditEntry(RuleAt(q), TargetAt(q))' = AuditEntry(RuleAt(q), TargetAt(q))
                  /\ Component(RuleAt(q), TargetAt(q))' = Component(RuleAt(q), TargetAt(q))
    BY PlacesStay
  <1>2. DoneAt' = DoneAt
    BY <1>1 DEF DoneAt
  <1>3. ASSUME NEW path PROVE (Audited(path) => Audited(path)') /\ (Composed(path) => Composed(path)')
    BY <1>1, <1>2 DEF Audited, Composed, Along
  <1>4. ASSUME NEW s, NEW kinds, NotedOf(s, kinds)
        PROVE  \A v : v \in Members(s) <=> \E q \in Visited' : SaidAt(q)' \in kinds /\ v = NoteAt(q)'
    <2>1. \A v : v \in Members(s) <=> \E q \in Visited : SaidAt(q) \in kinds /\ v = NoteAt(q)
      BY <1>4 DEF NotedOf
    <2> QED
      BY <1>1, <2>1
  <1>5. ReferenceNotes' = ReferenceNotes
    BY DEF ReferenceNotes, Unreported
  <1>6. stage' = "done" => \A p \in Visits' : p[1] < at'.rule
    BY <1>1 DEF WalkInv
  <1>7. ASSUME stage \in {"house", "done"}
        PROVE  /\ (\E path : Audited(path))' /\ (\E path : Composed(path))'
               /\ NotedOf(out.violations, {"missing", "blocked"})'
               /\ \A id : id \in out'.reported <=>
                            \E p \in Visited' : SaidAt(p)' = "missing" /\ id \in TargetAt(p)'.missing
    <2>1. /\ \E path : Audited(path)
          /\ \E path : Composed(path)
          /\ NotedOf(out.violations, {"missing", "blocked"})
          /\ \A id : id \in out.reported <=>
                       \E p \in Visited : SaidAt(p) = "missing" /\ id \in TargetAt(p).missing
      BY <1>7 DEF WalkInv
    <2>2. (\E path : Audited(path))' /\ (\E path : Composed(path))'
      BY <1>3, <2>1
    <2>3. NotedOf(out.violations, {"missing", "blocked"})'
      <3>1. \A v : v \in Members(out'.violations) <=>
                     \E q \in Visited' : SaidAt(q)' \in {"missing", "blocked"} /\ v = NoteAt(q)'
        BY <1>4, <2>1
      <3> QED
        BY <3>1 DEF NotedOf
    <2> QED
      BY <1>1, <2>1, <2>2, <2>3
  <1>8. stage = "house" => NotedOf(out.warnings, Failures)'
    <2> SUFFICES ASSUME stage = "house" PROVE NotedOf(out.warnings, Failures)'
      OBVIOUS
    <2>1. NotedOf(out.warnings, Failures)
      BY DEF WalkInv
    <2>2. \A v : v \in Members(out'.warnings) <=>
                   \E q \in Visited' : SaidAt(q)' \in Failures /\ v = NoteAt(q)'
      BY <1>4, <2>1
    <2> QED
      BY <2>2 DEF NotedOf, Failures
  <1>9. stage = "done" => \E s : IsSeq(s) /\ NotedOf(s, Failures)' /\ out'.warnings = s \o ReferenceNotes'
    <2> SUFFICES ASSUME stage = "done"
                 PROVE  \E s : IsSeq(s) /\ NotedOf(s, Failures)' /\ out'.warnings = s \o ReferenceNotes'
      OBVIOUS
    <2>1. PICK s : IsSeq(s) /\ NotedOf(s, Failures) /\ out.warnings = s \o ReferenceNotes
      BY DEF WalkInv
    <2>2. NotedOf(s, Failures)'
      <3>1. \A v : v \in Members(s) <=> \E q \in Visited' : SaidAt(q)' \in Failures /\ v = NoteAt(q)'
        BY <1>4, <2>1
      <3> QED
        BY <3>1 DEF NotedOf, Failures
    <2>3. out'.warnings = s \o ReferenceNotes'
      BY <1>5, <2>1
    <2> QED
      BY <2>1, <2>2, <2>3
  <1> QED
    BY <1>6, <1>7, <1>8, <1>9 DEF WalkInv

\* The places visited are the same when the next rule is turned to.
LEMMA NextRuleWalk ==
  ASSUME DataInv, HouseInv, WalkInv, NextRule
  PROVE  WalkInv'
  <1>1. /\ UNCHANGED <<stage, snap, acct, entries, ob, out>> /\ stage = "house"
        /\ at.rule \in DOMAIN ob.rules /\ at.target > Len(Targets(Rule))
        /\ at' = [rule |-> at.rule + 1, target |-> 1]
    BY DEF NextRule
  <1>2. at.rule \in Nat /\ at.target \in Nat
    BY <1>1, RulesAreFinite DEF HouseInv, AtTarget
  <1>3. Visits' = Visits
    BY <1>1, PlacesStay
  <1>4. ASSUME NEW p \in Visits
        PROVE  Earlier(p, <<at.rule + 1, 1>>) <=> Earlier(p, <<at.rule, at.target>>)
    <2>1. /\ p[1] \in DOMAIN ob.rules /\ p[2] \in DOMAIN Targets(ob.rules[p[1]])
          /\ p[1] \in Nat \ {0} /\ p[2] \in Nat \ {0}
      BY <1>1, VisitsAre
    <2>2. p[1] = at.rule => p[2] < at.target
      <3> SUFFICES ASSUME p[1] = at.rule PROVE p[2] < at.target
        OBVIOUS
      <3>1. p[2] \in DOMAIN Targets(Rule)
        BY <2>1 DEF Rule
      <3>2. DOMAIN Targets(Rule) = 1..Len(Targets(Rule)) /\ Len(Targets(Rule)) \in Nat
        BY <1>1, TargetsAreFinite
      <3> QED
        BY <1>1, <1>2, <2>1, <3>1, <3>2
    <2> QED
      BY <1>2, <2>1, <2>2 DEF Earlier
  <1>5. Visited' = Visited
    BY <1>1, <1>3, <1>4 DEF Visited
  <1> QED
    BY <1>1, <1>5, WalkStays

\* The entries that are warned of: their order, and that none is left out.
LEMMA UnreportedIs ==
  ASSUME DataInv, stage \in {"house", "done"}
  PROVE  /\ IsSeq(ReferenceNotes) /\ DOMAIN ReferenceNotes = DOMAIN Unreported
         /\ \E of \in [DOMAIN Unreported -> DOMAIN entries] :
              /\ \A n \in DOMAIN Unreported :
                   /\ Unreported[n] = entries[of[n]]
                   /\ entries[of[n]].missing /\ entries[of[n]].id \notin out.reported
              /\ \A m, n \in DOMAIN Unreported : of[m] = of[n] => m = n
              /\ \A k \in DOMAIN entries : entries[k].missing /\ entries[k].id \notin out.reported =>
                   \E n \in DOMAIN Unreported : of[n] = k
  <1> DEFINE is == {i \in DOMAIN entries : entries[i].missing /\ entries[i].id \notin out.reported}
             N == Cardinality(is)
             of == [n \in 1..N |-> Nth(is, n)]
  <1>1. is \subseteq Int /\ IsFiniteSet(is) /\ is \subseteq DOMAIN entries
    <2>1. IsFiniteSet(DOMAIN entries) /\ DOMAIN entries \subseteq Int
      BY EntriesAreFinite
    <2> QED
      BY <2>1, FS_Subset
  <1>2. Unreported = Selection(entries, is)
    BY DEF Unreported
  <1>3. \A i \in is : entries[i].missing /\ entries[i].id \notin out.reported
    OBVIOUS
  <1>4. \A k \in DOMAIN entries : entries[k].missing /\ entries[k].id \notin out.reported => k \in is
    OBVIOUS
  <1> HIDE DEF is
  <1>5. /\ N \in Nat
        /\ \A n \in 1..N : Nth(is, n) \in is
        /\ \A m, n \in 1..N : m < n => Nth(is, m) < Nth(is, n)
        /\ \A k \in is : \E n \in 1..N : Nth(is, n) = k
    BY <1>1, NthFacts
  <1>6. DOMAIN Unreported = 1..N /\ \A n \in 1..N : Unreported[n] = entries[Nth(is, n)]
    BY <1>2 DEF Selection
  <1>7. IsSeq(ReferenceNotes) /\ DOMAIN ReferenceNotes = 1..N
    BY <1>5, <1>6, ListIsSeq DEF ReferenceNotes
  <1>8. of \in [DOMAIN Unreported -> DOMAIN entries]
    BY <1>1, <1>5, <1>6
  <1>9. \A n \in DOMAIN Unreported : /\ Unreported[n] = entries[of[n]] /\ of[n] \in is
                                     /\ of[n] = Nth(is, n)
    BY <1>5, <1>6
  <1>10. ASSUME NEW m \in DOMAIN Unreported, NEW n \in DOMAIN Unreported, of[m] = of[n] PROVE m = n
    <2>1. m \in 1..N /\ n \in 1..N /\ Nth(is, m) = Nth(is, n)
      BY <1>6, <1>9, <1>10
    <2>2. Nth(is, m) \in Int /\ Nth(is, n) \in Int
      BY <1>1, <1>5, <2>1
    <2>3. m = n \/ m < n \/ n < m
      BY <1>5, <2>1
    <2> QED
      BY <1>5, <2>1, <2>2, <2>3
  <1>11. \A k \in is : \E n \in DOMAIN Unreported : of[n] = k
    BY <1>5, <1>6, <1>9
  <1> HIDE DEF of
  <1>12. \E g \in [DOMAIN Unreported -> DOMAIN entries] :
              /\ \A n \in DOMAIN Unreported :
                   /\ Unreported[n] = entries[g[n]]
                   /\ entries[g[n]].missing /\ entries[g[n]].id \notin out.reported
              /\ \A m, n \in DOMAIN Unreported : g[m] = g[n] => m = n
              /\ \A k \in DOMAIN entries : entries[k].missing /\ entries[k].id \notin out.reported =>
                   \E n \in DOMAIN Unreported : g[n] = k
    <2> WITNESS of \in [DOMAIN Unreported -> DOMAIN entries]
    <2> QED
      BY <1>3, <1>4, <1>9, <1>10, <1>11
  <1> QED
    BY <1>6, <1>7, <1>12

\* In the end there are the warnings of positions without reference data.
LEMMA EndWalk ==
  ASSUME DataInv, HouseInv, WalkInv, EndOverlay
  PROVE  WalkInv'
  <1>1. /\ stage = "house" /\ stage' = "done" /\ ob' = ob /\ snap' = snap /\ acct' = acct /\ entries' = entries
        /\ at' = at /\ at.rule > Len(ob.rules)
    BY DEF EndOverlay
  <1>2. AtTarget /\ DOMAIN out = DOMAIN NoHouse
    BY <1>1 DEF HouseInv
  <1>3. /\ DOMAIN out' = DOMAIN NoHouse
        /\ out'.audit = out.audit /\ out'.components = out.components
        /\ out'.violations = out.violations /\ out'.reported = out.reported
        /\ out'.warnings = out.warnings \o ReferenceNotes
    BY <1>2 DEF EndOverlay, NoHouse, ReferenceNotes
  <1>4. /\ Visits' = Visits
        /\ \A q : /\ RuleAt(q)' = RuleAt(q) /\ TargetAt(q)' = TargetAt(q) /\ SaidAt(q)' = SaidAt(q)
                  /\ NoteAt(q)' = NoteAt(q)
                  /\ AuditEntry(RuleAt(q), TargetAt(q))' = AuditEntry(RuleAt(q), TargetAt(q))
                  /\ Component(RuleAt(q), TargetAt(q))' = Component(RuleAt(q), TargetAt(q))
    BY <1>1, PlacesStay
  <1>5. Visited' = Visited
    BY <1>1, <1>4 DEF Visited
  <1>6. DoneAt' = DoneAt
    BY <1>4, <1>5 DEF DoneAt
  <1>7. (\E path : Audited(path))' /\ (\E path : Composed(path))'
    <2>1. ASSUME NEW path PROVE (Audited(path) => Audited(path)') /\ (Composed(path) => Composed(path)')
      BY <1>3, <1>4, <1>5, <1>6 DEF Audited, Composed, Along
    <2>2. (\E path : Audited(path)) /\ (\E path : Composed(path))
      BY <1>1 DEF WalkInv
    <2> QED
      BY <2>1, <2>2
  <1>8. ASSUME NEW s, NEW kinds, NotedOf(s, kinds)
        PROVE  \A v : v \in Members(s) <=> \E q \in Visited' : SaidAt(q)' \in kinds /\ v = NoteAt(q)'
    <2>1. \A v : v \in Members(s) <=> \E q \in Visited : SaidAt(q) \in kinds /\ v = NoteAt(q)
      BY <1>8 DEF NotedOf
    <2> QED
      BY <1>4, <1>5, <2>1
  <1>9. NotedOf(out.violations, {"missing", "blocked"})'
    <2>1. NotedOf(out.violations, {"missing", "blocked"})
      BY <1>1 DEF WalkInv
    <2>2. \A v : v \in Members(out'.violations) <=>
                   \E q \in Visited' : SaidAt(q)' \in {"missing", "blocked"} /\ v = NoteAt(q)'
      BY <1>3, <1>8, <2>1
    <2> QED
      BY <2>2 DEF NotedOf
  <1>10. ReferenceNotes' = ReferenceNotes
    BY <1>1, <1>3 DEF ReferenceNotes, Unreported
  <1>11. (\E s : IsSeq(s) /\ NotedOf(s, Failures) /\ out.warnings = s \o ReferenceNotes)'
    <2>1. NotedOf(out.warnings, Failures) /\ IsSeq(out.warnings)
      BY <1>1 DEF WalkInv
    <2>2. PICK s : s = out.warnings
      OBVIOUS
    <2>3. IsSeq(s) /\ NotedOf(s, Failures)
      BY <2>1, <2>2
    <2>4. NotedOf(s, Failures)'
      <3>1. \A v : v \in Members(s) <=> \E q \in Visited' : SaidAt(q)' \in Failures /\ v = NoteAt(q)'
        BY <1>8, <2>3
      <3> QED
        BY <3>1 DEF NotedOf, Failures
    <2>5. out'.warnings = s \o ReferenceNotes'
      BY <1>3, <1>10, <2>2
    <2> QED
      BY <2>3, <2>4, <2>5
  <1>12. \A p \in Visits' : p[1] < at'.rule
    <2>1. ASSUME NEW p \in Visits PROVE p[1] < at.rule
      BY <1>1, <1>2, VisitsAre, RulesAreFinite DEF AtTarget
    <2> QED
      BY <1>1, <1>4, <2>1
  <1>13. \A id : id \in out'.reported <=>
                   \E p \in Visited' : SaidAt(p)' = "missing" /\ id \in TargetAt(p)'.missing
    <2>1. \A id : id \in out.reported <=>
                    \E p \in Visited : SaidAt(p) = "missing" /\ id \in TargetAt(p).missing
      BY <1>1 DEF WalkInv
    <2> QED
      BY <1>3, <1>4, <1>5, <2>1
  <1>14. IsSeq(out'.audit) /\ IsSeq(out'.components) /\ IsSeq(out'.violations) /\ IsSeq(out'.warnings)
    <2>1. IsSeq(out.audit) /\ IsSeq(out.components) /\ IsSeq(out.violations) /\ IsSeq(out.warnings)
      BY DEF WalkInv
    <2>2. IsSeq(ReferenceNotes)
      BY <1>1, UnreportedIs
    <2> QED
      BY <1>3, <2>1, <2>2, ConcatIsSeq
  <1> QED
    BY <1>1, <1>3, <1>7, <1>9, <1>11, <1>12, <1>13, <1>14 DEF WalkInv

LEMMA NextWalk == DataInv /\ HouseInv /\ WalkInv /\ [Next]_vars => WalkInv'
  <1> SUFFICES ASSUME DataInv, HouseInv, WalkInv, [Next]_vars PROVE WalkInv'
    OBVIOUS
  <1>0. DataInv'
    BY NextData
  <1>1. CASE BeginOverlay
    BY <1>0, <1>1, BeginWalk
  <1>2. CASE Consider
    BY <1>2, ConsiderWalk
  <1>3. CASE NextRule
    BY <1>3, NextRuleWalk
  <1>4. CASE EndOverlay
    BY <1>4, EndWalk
  <1>5. CASE out' = out /\ stage \notin {"house", "done"} /\ stage' \notin {"house", "done"}
    BY <1>5 DEF WalkInv
  <1>6. CASE LoadBaseline \/ LoadHouse
    <2>1. out' = out /\ stage' = stage /\ (rb.state = "none" \/ ob.state = "none")
      BY <1>6 DEF LoadBaseline, LoadRulebook, LoadHouse, LoadOverlay
    <2>2. stage \notin Begun
      BY <2>1 DEF DataInv, AccountInv
    <2> QED
      BY <1>5, <2>1, <2>2 DEF Begun, Totalled
  <1>7. CASE RefuseHouse \/ EvaluateHouse \/ AggregateAccount
    <2>1. out' = out /\ stage \notin {"house", "done"} /\ stage' \notin {"house", "done"}
      BY <1>7 DEF RefuseHouse, EvaluateHouse, AggregateWithRulebook, AggregateSupplied, AggregateAccount,
                  EvaluatePosition, TryPosition, ClassifyEvaluation, Aggregate
    <2> QED
      BY <1>5, <2>1
  <1>8. CASE UNCHANGED vars
    <2>1. Visits' = Visits
      BY <1>8, PlacesStay
    <2>2. Visited' = Visited
      BY <1>8, <2>1 DEF Visited
    <2> QED
      BY <1>8, <2>2, WalkStays
  <1> QED
    BY <1>1, <1>2, <1>3, <1>4, <1>6, <1>7, <1>8 DEF Next

-----------------------------------------------------------------------------
(***************************************************************************)
(* The invariant, and where the walk ends.                                 *)
(***************************************************************************)
\* The inductive invariant of what EvaluateHouse returns.
OutInv == DataInv /\ HouseInv /\ WalkInv

LEMMA OutInvHolds == (Init => OutInv) /\ (OutInv /\ [Next]_vars => OutInv')
  BY InitData, InitHouse, InitWalk, NextData, NextHouse, NextWalk DEF OutInv

\* A place is known by the names of its rule and its target.
LEMMA PlacesNamed ==
  ASSUME DataInv, stage \in {"house", "done"}
  PROVE  /\ \A p, q \in Visits : RuleAt(p).id = RuleAt(q).id /\ TargetAt(p).name = TargetAt(q).name => p = q
         /\ \A p \in Visits : RuleAt(p) \in Members(ob.rules) /\ TargetAt(p) \in Members(Targets(RuleAt(p)))
         /\ \A p \in Visits : \A r \in Members(ob.rules) : r.id = RuleAt(p).id =>
              /\ r = RuleAt(p)
              /\ \A t \in Members(Targets(r)) : t.name = TargetAt(p).name => t = TargetAt(p)
  <1>1. ASSUME NEW p \in Visits
        PROVE  /\ p = <<p[1], p[2]>> /\ p[1] \in DOMAIN ob.rules /\ p[2] \in DOMAIN Targets(RuleAt(p))
               /\ RuleAt(p) = ob.rules[p[1]] /\ TargetAt(p) = Targets(RuleAt(p))[p[2]]
    BY VisitsAre DEF RuleAt, TargetAt
  <1>2. \A i, j \in DOMAIN ob.rules : ob.rules[i].id = ob.rules[j].id => i = j
    BY RulesNamed
  <1>3. ASSUME NEW p \in Visits, NEW q \in Visits,
               RuleAt(p).id = RuleAt(q).id, TargetAt(p).name = TargetAt(q).name
        PROVE  p = q
    <2>1. p[1] = q[1]
      BY <1>1, <1>2, <1>3
    <2>2. RuleAt(p) = RuleAt(q)
      BY <2>1 DEF RuleAt
    <2>3. p[2] = q[2]
      BY <1>1, <1>3, <2>2, TargetsNamed
    <2> QED
      BY <1>1, <2>1, <2>3
  <1>4. ASSUME NEW p \in Visits, NEW r \in Members(ob.rules), r.id = RuleAt(p).id
        PROVE  /\ r = RuleAt(p)
               /\ \A t \in Members(Targets(r)) : t.name = TargetAt(p).name => t = TargetAt(p)
    <2>1. PICK i \in DOMAIN ob.rules : r = ob.rules[i]
      BY DEF Members
    <2>2. r = RuleAt(p)
      BY <1>1, <1>2, <1>4, <2>1
    <2>3. ASSUME NEW t \in Members(Targets(r)), t.name = TargetAt(p).name PROVE t = TargetAt(p)
      <3>1. PICK k \in DOMAIN Targets(r) : t = Targets(r)[k]
        BY DEF Members
      <3>2. k = p[2]
        BY <1>1, <2>2, <2>3, <3>1, TargetsNamed
      <3> QED
        BY <1>1, <2>2, <3>1, <3>2
    <2> QED
      BY <2>2, <2>3
  <1>5. ASSUME NEW p \in Visits
        PROVE  RuleAt(p) \in Members(ob.rules) /\ TargetAt(p) \in Members(Targets(RuleAt(p)))
    <2>1. ob.rules[p[1]] \in Members(ob.rules)
      BY <1>1 DEF Members
    <2>2. Targets(RuleAt(p))[p[2]] \in Members(Targets(RuleAt(p)))
      BY <1>1 DEF Members
    <2> QED
      BY <1>1, <2>1, <2>2
  <1> QED
    BY <1>3, <1>4, <1>5

\* Each component is what a rule says of a target, and one it is about.
LEMMA ComponentsAre ==
  ASSUME WalkInv, stage \in {"house", "done"}, NEW c \in Members(out.components)
  PROVE  \E p \in Visits : SaidAt(p) \in Done /\ c = Component(RuleAt(p), TargetAt(p))
  <1>1. PICK path : Composed(path)
    BY DEF WalkInv
  <1>2. IsSeq(out.components)
    BY DEF WalkInv
  <1>3. DOMAIN out.components = 1..Len(out.components)
    BY <1>2, AppendFacts
  <1>4. PICK n \in 1..Len(out.components) : c = out.components[n]
    BY <1>3 DEF Members
  <1>5. path[n] \in DoneAt /\ c = Component(RuleAt(path[n]), TargetAt(path[n]))
    BY <1>1, <1>4 DEF Composed, Along
  <1> QED
    BY <1>5 DEF DoneAt, Visited

LEMMA InvUnknown == OutInv => NothingOnUnknown
  <1> SUFFICES ASSUME OutInv,
                      NEW c \in Members(out.components), NEW r \in Members(ob.rules), r.id = c.rule,
                      NEW t \in Members(Targets(r)), t.name = c.target
               PROVE  /\ \A e \in Members(snap.errors) : e.id \notin t.members
                      /\ r.missing = "error" => t.missing = {}
    BY DEF NothingOnUnknown
  <1>1. DataInv /\ WalkInv
    BY DEF OutInv
  <1>2. stage \in {"house", "done"}
    <2>1. Members(NoHouse.components) = {}
      BY DEF NoHouse, Members
    <2> QED
      BY <1>1, <2>1 DEF WalkInv
  <1>3. PICK p \in Visits : SaidAt(p) \in Done /\ c = Component(RuleAt(p), TargetAt(p))
    BY <1>1, <1>2, ComponentsAre
  <1>4. c.rule = RuleAt(p).id /\ c.target = TargetAt(p).name
    BY <1>3 DEF Component
  <1>5. r = RuleAt(p) /\ t = TargetAt(p)
    BY <1>1, <1>2, <1>4, PlacesNamed
  <1>6. ASSUME NEW e \in Members(snap.errors), e.id \in t.members PROVE FALSE
    <2>1. PICK k \in DOMAIN Targets(r) : t = Targets(r)[k]
      BY DEF Members
    <2>2. \E i \in DOMAIN entries : e.id = entries[i].id
      BY <1>1, <1>2, <1>6, <2>1, TargetsNamed
    <2> QED
      BY <1>1, <1>2, <2>2, EntriesNamed
  <1>7. r.missing = "error" => t.missing = {}
    BY <1>3, <1>5 DEF SaidAt, Says, Done
  <1> QED
    BY <1>6, <1>7

\* No component is of a position the engine failed on, or of a group with one
\* in it, nor of a target without reference data under a rule that insists on
\* it, for whatever rules, and whatever their expressions do (Evaluate's filter
\* of errored evaluations, and handleMissingReference before the formula runs).
THEOREM UnknownNotCharged == Spec => []NothingOnUnknown
  <1>1. (Init => OutInv) /\ (OutInv /\ [Next]_vars => OutInv')
    BY OutInvHolds
  <1>2. OutInv => NothingOnUnknown
    BY InvUnknown
  <1> QED
    BY <1>1, <1>2, PTL DEF Spec

-----------------------------------------------------------------------------
(***************************************************************************)
(* Positions without reference data are heard of once.                     *)
(***************************************************************************)
\* When Evaluate is done it has been everywhere.
LEMMA DoneVisited == ASSUME WalkInv, stage = "done" PROVE Visited = Visits
  BY DEF WalkInv, Visited, Earlier

\* A violation names a position without reference data just when it has been
\* reported.
LEMMA Insists ==
  ASSUME OutInv, stage = "done", NEW id
  PROVE  (\E v \in Members(out.violations) :
            /\ v.kind = "missing"
            /\ \E r \in Members(ob.rules) :
                 /\ r.id = v.rule
                 /\ \E t \in Members(Targets(r)) : t.name = v.target /\ id \in t.missing)
         <=> id \in out.reported
  <1>1. DataInv /\ WalkInv /\ Visited = Visits
    BY DoneVisited DEF OutInv
  <1>2. /\ \A v : v \in Members(out.violations) <=>
                    \E p \in Visits : SaidAt(p) \in {"missing", "blocked"} /\ v = NoteAt(p)
        /\ id \in out.reported <=> \E p \in Visits : SaidAt(p) = "missing" /\ id \in TargetAt(p).missing
    BY <1>1 DEF WalkInv, NotedOf
  <1>3. \A p : /\ NoteAt(p).kind = SaidAt(p)
               /\ NoteAt(p).rule = RuleAt(p).id /\ NoteAt(p).target = TargetAt(p).name
    BY DEF NoteAt, Note
  <1>4. ASSUME NEW v \in Members(out.violations), v.kind = "missing",
               NEW r \in Members(ob.rules), r.id = v.rule,
               NEW t \in Members(Targets(r)), t.name = v.target, id \in t.missing
        PROVE  id \in out.reported
    <2>1. PICK p \in Visits : SaidAt(p) \in {"missing", "blocked"} /\ v = NoteAt(p)
      BY <1>2
    <2>2. r = RuleAt(p) /\ t = TargetAt(p) /\ SaidAt(p) = "missing"
      BY <1>1, <1>3, <1>4, <2>1, PlacesNamed
    <2> QED
      BY <1>2, <1>4, <2>2
  <1>5. ASSUME id \in out.reported
        PROVE  \E v \in Members(out.violations) :
                 /\ v.kind = "missing"
                 /\ \E r \in Members(ob.rules) :
                      /\ r.id = v.rule
                      /\ \E t \in Members(Targets(r)) : t.name = v.target /\ id \in t.missing
    <2>1. PICK p \in Visits : SaidAt(p) = "missing" /\ id \in TargetAt(p).missing
      BY <1>2, <1>5
    <2>2. NoteAt(p) \in Members(out.violations)
      BY <1>2, <2>1
    <2>3. RuleAt(p) \in Members(ob.rules) /\ TargetAt(p) \in Members(Targets(RuleAt(p)))
      BY <1>1, PlacesNamed
    <2> QED
      BY <1>3, <2>1, <2>2, <2>3
  <1> QED
    BY <1>4, <1>5

LEMMA InvReported == OutInv => ReferenceReported
  <1> SUFFICES ASSUME OutInv, Overlaid, NEW f \in Members(entries)
               PROVE  LET warned == {i \in DOMAIN out.warnings :
                                       out.warnings[i] = Note("reference", "", f.id)}
                      IN  Cardinality(warned) = IF f.missing /\ f.id \notin out.reported THEN 1 ELSE 0
    <2>1. ASSUME Overlaid PROVE stage = "done"
      BY <2>1 DEF Overlaid
    <2> QED
      BY <2>1, Insists, Zenon DEF ReferenceReported
  <1> DEFINE note == Note("reference", "", f.id)
             warned == {i \in DOMAIN out.warnings : out.warnings[i] = note}
  <1>1. DataInv /\ WalkInv /\ stage = "done"
    BY DEF OutInv, Overlaid
  <1>2. PICK s : IsSeq(s) /\ NotedOf(s, Failures) /\ out.warnings = s \o ReferenceNotes
    BY <1>1 DEF WalkInv
  <1>3. PICK of \in [DOMAIN Unreported -> DOMAIN entries] :
          /\ \A n \in DOMAIN Unreported :
               /\ Unreported[n] = entries[of[n]]
               /\ entries[of[n]].missing /\ entries[of[n]].id \notin out.reported
          /\ \A m, n \in DOMAIN Unreported : of[m] = of[n] => m = n
          /\ \A k \in DOMAIN entries : entries[k].missing /\ entries[k].id \notin out.reported =>
               \E n \in DOMAIN Unreported : of[n] = k
    BY <1>1, UnreportedIs
  <1>4. IsSeq(ReferenceNotes) /\ DOMAIN ReferenceNotes = DOMAIN Unreported
    BY <1>1, UnreportedIs
  <1> DEFINE m == Len(s)
             N == Len(ReferenceNotes)
  <1>5. /\ m \in Nat /\ N \in Nat /\ DOMAIN ReferenceNotes = 1..N
        /\ DOMAIN out.warnings = 1..(m + N)
        /\ \A i \in 1..m : out.warnings[i] = s[i]
        /\ \A n \in 1..N : out.warnings[m + n] = ReferenceNotes[n]
    <2>1. /\ IsSeq(s \o ReferenceNotes) /\ Len(s \o ReferenceNotes) = m + N
          /\ m \in Nat /\ N \in Nat /\ DOMAIN ReferenceNotes = 1..N
          /\ \A i \in 1..m : (s \o ReferenceNotes)[i] = s[i]
          /\ \A n \in 1..N : (s \o ReferenceNotes)[m + n] = ReferenceNotes[n]
      BY <1>2, <1>4, ConcatIsSeq
    <2>2. DOMAIN (s \o ReferenceNotes) = 1..Len(s \o ReferenceNotes)
      BY <2>1, AppendFacts
    <2> QED
      BY <1>2, <2>1, <2>2
  <1>6. ASSUME NEW i \in 1..m PROVE out.warnings[i] # note
    <2>1. s[i] \in Members(s)
      BY <1>2, AppendFacts DEF Members
    <2>2. PICK p \in Visited : SaidAt(p) \in Failures /\ s[i] = NoteAt(p)
      BY <1>2, <2>1 DEF NotedOf
    <2>3. s[i].kind \in Failures
      BY <2>2 DEF NoteAt, Note
    <2>4. note.kind = "reference"
      BY DEF Note
    <2> QED
      BY <1>5, <2>3, <2>4 DEF Failures
  <1>7. PICK k \in DOMAIN entries : f = entries[k]
    BY DEF Members
  <1>8. ASSUME NEW n \in 1..N PROVE out.warnings[m + n] = note <=> of[n] = k
    <2>1. out.warnings[m + n] = Note("reference", "", entries[of[n]].id) /\ of[n] \in DOMAIN entries
      <3>1. n \in DOMAIN Unreported
        BY <1>4, <1>5
      <3>2. ReferenceNotes[n] = Note("reference", "", Unreported[n].id)
        BY <3>1 DEF ReferenceNotes
      <3> QED
        BY <1>3, <1>5, <3>1, <3>2
    <2>2. ASSUME NEW x, NEW y, Note("reference", "", x) = Note("reference", "", y) PROVE x = y
      <3>1. Note("reference", "", x).target = x /\ Note("reference", "", y).target = y
        BY DEF Note
      <3> QED
        BY <2>2, <3>1, Zenon
    <2> QED
      BY <1>1, <1>7, <2>1, <2>2, EntriesNamed
  <1>9. \A i \in 1..(m + N) : i \in 1..m \/ \E n \in 1..N : i = m + n
    <2>1. \A i \in 1..(m + N) : i \notin 1..m => (i - m) \in 1..N /\ i = m + (i - m)
      BY <1>5
    <2> QED
      BY <2>1
  <1>10. \A n \in 1..N : m + n \in 1..(m + N)
    BY <1>5
  <1> HIDE DEF note
  <1>11. \A i : i \in warned <=> \E n \in 1..N : i = m + n /\ of[n] = k
    BY <1>5, <1>6, <1>8, <1>9, <1>10
  <1> HIDE DEF warned, m, N
  <1>12. CASE f.missing /\ f.id \notin out.reported
    <2>1. PICK n \in 1..N : of[n] = k
      BY <1>3, <1>4, <1>5, <1>7, <1>12
    <2>2. \A j \in 1..N : of[j] = k => j = n
      BY <1>3, <1>4, <1>5, <2>1
    <2>3. warned = {m + n}
      BY <1>11, <2>1, <2>2
    <2>4. Cardinality(warned) = 1
      BY <2>3, FS_Singleton
    <2> QED
      BY <1>12, <2>4 DEF warned, note
  <1>13. CASE ~(f.missing /\ f.id \notin out.reported)
    <2>1. \A n \in 1..N : of[n] # k
      BY <1>3, <1>4, <1>5, <1>7, <1>13
    <2>2. warned = {}
      BY <1>11, <2>1
    <2>3. Cardinality(warned) = 0
      BY <2>2, FS_EmptySet
    <2> QED
      BY <1>13, <2>3 DEF warned, note
  <1> QED
    BY <1>12, <1>13

\* A position whose security the reference data do not know is heard of exactly
\* once or in violations of rules that insist on it, in every account and under
\* every rulebook (recordMissing and the last loop of Evaluate, which agree
\* through the set of the positions that were reported).
THEOREM MissingHeardOf == Spec => []ReferenceReported
  <1>1. (Init => OutInv) /\ (OutInv /\ [Next]_vars => OutInv')
    BY OutInvHolds
  <1>2. OutInv => ReferenceReported
    BY InvReported
  <1> QED
    BY <1>1, <1>2, PTL DEF Spec

-----------------------------------------------------------------------------
(***************************************************************************)
(* The audit is complete and in order.                                     *)
(***************************************************************************)
\* The parts of AuditComplete.
Seen == [i \in DOMAIN out.audit |-> [rule |-> out.audit[i].rule, target |-> out.audit[i].target]]

Named(p) == [rule |-> RuleAt(p).id, target |-> TargetAt(p).name]

Row(r, k) == [rule |-> r.id, target |-> Targets(r)[k].name]

Rows == UNION {{Row(r, k) : k \in DOMAIN Targets(r)} : r \in Members(AllRules(ob.hash))}

OfRow(i) == CHOOSE j \in DOMAIN AllRules(ob.hash) : AllRules(ob.hash)[j].id = Seen[i].rule

Noted(a) == \E w \in Members(out.warnings) : <<w.rule, w.target>> = <<a.rule, a.target>>

Measured == {i \in DOMAIN out.audit : out.audit[i].matched /\ ~Noted(out.audit[i])}

LEMMA AuditEntryIs ==
  ASSUME NEW r, NEW t
  PROVE  /\ AuditEntry(r, t).rule = r.id /\ AuditEntry(r, t).target = t.name
         /\ AuditEntry(r, t).matched <=> Says(r, t) \in Done \/ Says(r, t) = "formula failed"
         /\ Says(r, t) \in Done => AuditEntry(r, t).delta = Component(r, t).delta
  <1>1. AuditEntry(r, t).rule = r.id /\ AuditEntry(r, t).target = t.name
    BY DEF AuditEntry
  <1>2. AuditEntry(r, t).matched <=> Says(r, t) \in Done \/ Says(r, t) = "formula failed"
    BY DEF AuditEntry, Done
  <1>3. Says(r, t) \in Done => AuditEntry(r, t).delta = Component(r, t).delta
    BY DEF AuditEntry, Done
  <1> QED
    BY <1>1, <1>2, <1>3

LEMMA NamesDiffer ==
  ASSUME DataInv, stage \in {"house", "done"}, NEW p \in Visits, NEW q \in Visits, Named(p) = Named(q)
  PROVE  p = q
  <1>1. /\ Named(p).rule = RuleAt(p).id /\ Named(p).target = TargetAt(p).name
        /\ Named(q).rule = RuleAt(q).id /\ Named(q).target = TargetAt(q).name
    BY DEF Named
  <1>2. RuleAt(p).id = RuleAt(q).id /\ TargetAt(p).name = TargetAt(q).name
    BY <1>1, Zenon
  <1> QED
    BY <1>2, PlacesNamed

\* The rows are the names of the places, since the rules in use are those of
\* the files.
LEMMA RowsAre ==
  ASSUME DataInv, ob.state = "loaded", stage = "done", NEW v
  PROVE  v \in Rows <=> \E p \in Visits : v = Named(p)
  <1> DEFINE s == AllRules(ob.hash)
             n == Cardinality(Places(ob.hash))
  <1>1. DOMAIN s = 1..n /\ DOMAIN ob.rules = 1..n
    BY RulesInOrder
  <1>2. PICK to \in [1..n -> 1..n] :
          /\ \A k \in 1..n : ob.rules[k] = s[to[k]]
          /\ \A i \in 1..n : \E k \in 1..n : to[k] = i
          /\ \A j, k \in 1..n : j < k => \/ s[to[j]].priority < s[to[k]].priority
                                         \/ s[to[j]].priority = s[to[k]].priority /\ to[j] < to[k]
    BY RulesInOrder
  <1>3. v \in Rows <=> \E r \in Members(s) : \E k \in DOMAIN Targets(r) : v = Row(r, k)
    BY DEF Rows
  <1>4. ASSUME NEW p \in Visits
        PROVE  /\ RuleAt(p) \in Members(s) /\ p[2] \in DOMAIN Targets(RuleAt(p))
               /\ Named(p) = Row(RuleAt(p), p[2])
    <2>1. p[1] \in 1..n /\ p[2] \in DOMAIN Targets(RuleAt(p)) /\ RuleAt(p) = ob.rules[p[1]]
      BY <1>1, VisitsAre DEF RuleAt
    <2>2. RuleAt(p) = s[to[p[1]]] /\ to[p[1]] \in DOMAIN s
      BY <1>1, <1>2, <2>1
    <2>3. Named(p) = Row(RuleAt(p), p[2])
      BY DEF Named, Row, TargetAt
    <2> HIDE DEF s
    <2> QED
      BY <2>1, <2>2, <2>3 DEF Members
  <1>5. ASSUME NEW r \in Members(s), NEW k \in DOMAIN Targets(r) PROVE \E p \in Visits : Row(r, k) = Named(p)
    <2>1. PICK j \in 1..n : r = s[j]
      BY <1>1 DEF Members
    <2>2. PICK i \in 1..n : to[i] = j
      BY <1>2
    <2>3. ob.rules[i] = r
      BY <1>2, <2>1, <2>2
    <2> DEFINE p == <<i, k>>
    <2>4. p = <<p[1], p[2]>> /\ p[1] = i /\ p[2] = k
      OBVIOUS
    <2>5. p \in Visits
      BY <1>1, <2>3, <2>4, VisitsAre
    <2>6. RuleAt(p) = r /\ TargetAt(p) = Targets(r)[k]
      BY <2>3, <2>4 DEF RuleAt, TargetAt
    <2>7. Row(r, k) = Named(p)
      BY <2>6 DEF Named, Row
    <2> QED
      BY <2>5, <2>7
  <1> HIDE DEF s
  <1> QED
    BY <1>3, <1>4, <1>5

\* A path through all the places of the audit.
LEMMA AuditPath ==
  ASSUME WalkInv, stage = "done"
  PROVE  /\ Len(out.audit) \in Nat /\ DOMAIN out.audit = 1..Len(out.audit)
         /\ \E path \in [1..Len(out.audit) -> Visits] :
              /\ Along(path, out.audit, Visits)
              /\ \A i \in 1..Len(out.audit) :
                   /\ out.audit[i] = AuditEntry(RuleAt(path[i]), TargetAt(path[i]))
                   /\ Seen[i] = Named(path[i])
  <1>1. Len(out.audit) \in Nat /\ DOMAIN out.audit = 1..Len(out.audit)
    BY AppendFacts DEF WalkInv
  <1>2. PICK path : Audited(path)
    BY DEF WalkInv
  <1>3. Along(path, out.audit, Visits)
    BY <1>2, DoneVisited DEF Audited
  <1>4. path \in [1..Len(out.audit) -> Visits]
    BY <1>3 DEF Along
  <1>5. ASSUME NEW i \in 1..Len(out.audit)
        PROVE  /\ out.audit[i] = AuditEntry(RuleAt(path[i]), TargetAt(path[i]))
               /\ Seen[i] = Named(path[i])
    <2>1. out.audit[i] = AuditEntry(RuleAt(path[i]), TargetAt(path[i]))
      BY <1>2 DEF Audited
    <2>2. out.audit[i].rule = RuleAt(path[i]).id /\ out.audit[i].target = TargetAt(path[i]).name
      BY <2>1, AuditEntryIs
    <2>3. Seen[i] = [rule |-> out.audit[i].rule, target |-> out.audit[i].target]
      BY <1>1 DEF Seen
    <2> QED
      BY <2>1, <2>2, <2>3 DEF Named
  <1> QED
    BY <1>1, <1>3, <1>4, <1>5

LEMMA EarlierOnce ==
  ASSUME DataInv, stage \in {"house", "done"}, NEW p \in Visits, NEW q \in Visits, Earlier(p, q)
  PROVE  ~Earlier(q, p) /\ p # q
  BY VisitsAre DEF Earlier

\* Along that path the audit has each row once, in the order of the rules.
LEMMA AuditRows ==
  ASSUME OutInv, ob.state = "loaded", stage = "done"
  PROVE  /\ Members(Seen) = Rows
         /\ Len(Seen) = Cardinality(Rows)
         /\ \A i \in 2..Len(Seen) :
              \/ AllRules(ob.hash)[OfRow(i - 1)].priority < AllRules(ob.hash)[OfRow(i)].priority
              \/ /\ AllRules(ob.hash)[OfRow(i - 1)].priority = AllRules(ob.hash)[OfRow(i)].priority
                 /\ OfRow(i - 1) <= OfRow(i)
  <1> DEFINE L == Len(out.audit)
             s == AllRules(ob.hash)
             n == Cardinality(Places(ob.hash))
  <1>1. DataInv /\ WalkInv /\ L \in Nat /\ DOMAIN out.audit = 1..L
    BY AuditPath DEF OutInv
  <1>2. PICK path \in [1..L -> Visits] :
          /\ Along(path, out.audit, Visits)
          /\ \A i \in 1..L : /\ out.audit[i] = AuditEntry(RuleAt(path[i]), TargetAt(path[i]))
                            /\ Seen[i] = Named(path[i])
    BY <1>1, AuditPath
  <1>3. /\ \A j, k \in 1..L : j < k => Earlier(path[j], path[k])
        /\ \A p \in Visits : \E i \in 1..L : path[i] = p
    BY <1>2 DEF Along
  <1>4. Len(Seen) = L /\ DOMAIN Seen = 1..L
    BY <1>1, ListIsSeq DEF Seen
  <1>5. \A v : v \in Members(Seen) <=> \E i \in 1..L : v = Seen[i]
    BY <1>4 DEF Members
  <1>6. \A v : v \in Rows <=> \E p \in Visits : v = Named(p)
    BY <1>1, RowsAre
  <1>7. \A v : v \in Members(Seen) <=> v \in Rows
    BY <1>2, <1>3, <1>5, <1>6
  <1>8. Len(Seen) = Cardinality(Rows)
    <2>1. ASSUME NEW j \in 1..L, NEW k \in 1..L, Seen[j] = Seen[k] PROVE j = k
      <3>1. path[j] = path[k]
        BY <1>1, <1>2, <2>1, NamesDiffer
      <3>2. path[j] \in Visits /\ path[k] \in Visits
        BY <1>2
      <3>3. j = k \/ j < k \/ k < j
        BY <1>1
      <3> QED
        BY <1>1, <1>3, <3>1, <3>2, <3>3, EarlierOnce
    <2>2. \A i \in 1..L : Seen[i] \in Rows
      BY <1>5, <1>7
    <2>3. \A v \in Rows : \E i \in 1..L : Seen[i] = v
      BY <1>5, <1>7
    <2>4. Seen = [i \in 1..L |-> Seen[i]]
      BY <1>1 DEF Seen
    <2>5. Seen \in [1..L -> Rows]
      BY <2>2, <2>4
    <2>6. Seen \in Bijection(1..L, Rows)
      <3>1. \A j, k \in 1..L : Seen[j] = Seen[k] => j = k
        BY <2>1
      <3>2. Seen \in Injection(1..L, Rows)
        BY <2>5, <3>1, Zenon DEF Injection, IsInjective
      <3>3. Seen \in Surjection(1..L, Rows)
        BY <2>3, <2>5, Zenon DEF Surjection
      <3> QED
        BY <3>2, <3>3 DEF Bijection
    <2>7. ExistsBijection(1..L, Rows)
      BY <2>6 DEF ExistsBijection
    <2>8. IsFiniteSet(1..L) /\ Cardinality(1..L) = L
      BY <1>1, FS_Interval
    <2> QED
      BY <1>4, <2>7, <2>8, FS_Bijection
  <1>9. /\ n \in Nat /\ DOMAIN s = 1..n /\ DOMAIN ob.rules = 1..n
        /\ \A i, j \in 1..n : s[i].id = s[j].id => i = j
        /\ \A i \in 1..n : s[i].priority \in Int
    BY <1>1, RulesInOrder
  <1>10. PICK to \in [1..n -> 1..n] :
          /\ \A k \in 1..n : ob.rules[k] = s[to[k]]
          /\ \A i \in 1..n : \E k \in 1..n : to[k] = i
          /\ \A j, k \in 1..n : j < k => \/ s[to[j]].priority < s[to[k]].priority
                                         \/ s[to[j]].priority = s[to[k]].priority /\ to[j] < to[k]
    BY <1>1, RulesInOrder
  <1>11. ASSUME NEW i \in 1..L PROVE path[i][1] \in 1..n /\ OfRow(i) = to[path[i][1]]
    <2> DEFINE p == path[i]
    <2>1. p \in Visits
      BY <1>2
    <2>2. p[1] \in 1..n /\ RuleAt(p) = ob.rules[p[1]]
      BY <1>1, <1>9, <2>1, VisitsAre DEF RuleAt
    <2>3. Seen[i].rule = s[to[p[1]]].id /\ to[p[1]] \in 1..n
      <3>1. Seen[i] = Named(p)
        BY <1>2
      <3> HIDE DEF p
      <3>2. Seen[i].rule = RuleAt(p).id
        BY <3>1 DEF Named
      <3> HIDE DEF s, n
      <3> QED
        BY <1>10, <2>2, <3>2
    <2> HIDE DEF p, s, n
    <2>4. \A j \in DOMAIN s : s[j].id = Seen[i].rule => j = to[p[1]]
      BY <1>9, <2>3
    <2>5. OfRow(i) = CHOOSE j \in DOMAIN s : s[j].id = Seen[i].rule
      BY DEF OfRow, s
    <2>6. OfRow(i) = to[p[1]]
      BY <1>9, <2>3, <2>4, <2>5
    <2> QED
      BY <2>2, <2>6 DEF p
  <1>12. ASSUME NEW i \in 2..L
         PROVE  \/ s[OfRow(i - 1)].priority < s[OfRow(i)].priority
                \/ s[OfRow(i - 1)].priority = s[OfRow(i)].priority /\ OfRow(i - 1) <= OfRow(i)
    <2> DEFINE j == path[i - 1][1]
               k == path[i][1]
    <2>1. i - 1 \in 1..L /\ i \in 1..L /\ i - 1 < i
      BY <1>1
    <2>2. Earlier(path[i - 1], path[i])
      BY <1>3, <2>1
    <2>3. j \in 1..n /\ k \in 1..n /\ OfRow(i - 1) = to[j] /\ OfRow(i) = to[k]
      BY <1>11, <2>1
    <2>4. j < k \/ j = k
      BY <2>2 DEF Earlier
    <2>5. s[to[j]].priority \in Int /\ to[j] \in Int /\ to[k] \in Int
      <3> HIDE DEF j, k, s, n
      <3>1. to[j] \in 1..n /\ to[k] \in 1..n /\ n \in Nat
        BY <1>9, <1>10, <2>3
      <3> QED
        BY <1>9, <3>1
    <2> HIDE DEF j, k, s, n
    <2>6. CASE j < k
      <3>1. \/ s[to[j]].priority < s[to[k]].priority
            \/ s[to[j]].priority = s[to[k]].priority /\ to[j] < to[k]
        BY <1>10, <2>3, <2>6
      <3> QED
        BY <2>3, <2>5, <3>1
    <2>7. CASE j = k
      BY <2>3, <2>5, <2>7
    <2> QED
      BY <2>4, <2>6, <2>7
  <1> HIDE DEF s
  <1>13. Members(Seen) = Rows
    BY <1>7
  <1> QED
    BY <1>4, <1>8, <1>12, <1>13 DEF s

\* What an audit entry that matched and is not warned of was made for has been
\* charged or has blocked.
LEMMA MeasuredAre ==
  ASSUME OutInv, ob.state = "loaded", stage = "done", NEW p \in Visits
  PROVE  LET a == AuditEntry(RuleAt(p), TargetAt(p))
         IN  a.matched /\ ~Noted(a) <=> SaidAt(p) \in Done
  <1> DEFINE a == AuditEntry(RuleAt(p), TargetAt(p))
  <1>1. DataInv /\ WalkInv /\ Visited = Visits
    BY DoneVisited DEF OutInv
  <1>2. /\ a.rule = RuleAt(p).id /\ a.target = TargetAt(p).name
        /\ a.matched <=> SaidAt(p) \in Done \/ SaidAt(p) = "formula failed"
    BY AuditEntryIs DEF SaidAt
  <1> HIDE DEF a
  <1>3. PICK s : IsSeq(s) /\ NotedOf(s, Failures) /\ out.warnings = s \o ReferenceNotes
    BY <1>1 DEF WalkInv
  <1>4. \A v : v \in Members(s) <=> \E q \in Visits : SaidAt(q) \in Failures /\ v = NoteAt(q)
    BY <1>1, <1>3 DEF NotedOf
  <1>5. IsSeq(ReferenceNotes)
    BY <1>1, UnreportedIs
  <1>6. \A w \in Members(out.warnings) : w \in Members(s) \/ w \in Members(ReferenceNotes)
    <2> DEFINE t == ReferenceNotes
    <2>1. /\ IsSeq(s \o t) /\ Len(s \o t) = Len(s) + Len(t)
          /\ Len(s) \in Nat /\ Len(t) \in Nat /\ DOMAIN s = 1..Len(s) /\ DOMAIN t = 1..Len(t)
          /\ \A i \in 1..Len(s) : (s \o t)[i] = s[i]
          /\ \A i \in 1..Len(t) : (s \o t)[Len(s) + i] = t[i]
      BY <1>3, <1>5, ConcatIsSeq
    <2> HIDE DEF t
    <2>2. DOMAIN (s \o t) = 1..(Len(s) + Len(t))
      BY <2>1, AppendFacts
    <2>3. ASSUME NEW i \in 1..(Len(s) + Len(t)) PROVE (s \o t)[i] \in Members(s) \/ (s \o t)[i] \in Members(t)
      <3>1. CASE i \in 1..Len(s)
        BY <2>1, <3>1 DEF Members
      <3>2. CASE i \notin 1..Len(s)
        <4>1. (i - Len(s)) \in 1..Len(t) /\ i = Len(s) + (i - Len(s))
          BY <2>1, <3>2
        <4>2. (s \o t)[i] = t[i - Len(s)]
          BY <2>1, <4>1
        <4> QED
          BY <2>1, <4>1, <4>2 DEF Members
      <3> QED
        BY <3>1, <3>2
    <2> QED
      BY <1>3, <2>2, <2>3 DEF Members, t
  <1>7. \A w \in Members(s) : w \in Members(out.warnings)
    <2>1. /\ IsSeq(s \o ReferenceNotes) /\ Len(s \o ReferenceNotes) = Len(s) + Len(ReferenceNotes)
          /\ Len(s) \in Nat /\ Len(ReferenceNotes) \in Nat /\ DOMAIN s = 1..Len(s)
          /\ \A i \in 1..Len(s) : (s \o ReferenceNotes)[i] = s[i]
      BY <1>3, <1>5, ConcatIsSeq
    <2>2. DOMAIN (s \o ReferenceNotes) = 1..(Len(s) + Len(ReferenceNotes))
      BY <2>1, AppendFacts
    <2>3. 1..Len(s) \subseteq 1..(Len(s) + Len(ReferenceNotes))
      BY <2>1
    <2> QED
      BY <1>3, <2>1, <2>2, <2>3 DEF Members
  <1>8. \A q : NoteAt(q).rule = RuleAt(q).id /\ NoteAt(q).target = TargetAt(q).name
    BY DEF NoteAt, Note
  <1>9. ASSUME SaidAt(p) \in Failures PROVE Noted(a)
    <2>1. NoteAt(p) \in Members(out.warnings)
      BY <1>4, <1>7, <1>9
    <2> QED
      BY <1>2, <1>8, <2>1 DEF Noted
  <1>10. ASSUME Noted(a) PROVE SaidAt(p) \in Failures
    <2>1. PICK w \in Members(out.warnings) : w.rule = a.rule /\ w.target = a.target
      BY <1>10 DEF Noted
    <2>2. CASE w \in Members(s)
      <3>1. PICK q \in Visits : SaidAt(q) \in Failures /\ w = NoteAt(q)
        BY <1>4, <2>2
      <3>2. RuleAt(p).id = RuleAt(q).id /\ TargetAt(p).name = TargetAt(q).name
        BY <1>2, <1>8, <2>1, <3>1
      <3>3. p = q
        BY <1>1, <3>2, PlacesNamed
      <3> QED
        BY <3>1, <3>3
    <2>3. CASE w \in Members(ReferenceNotes)
      <3>1. w.rule = ""
        <4>1. PICK i \in DOMAIN ReferenceNotes : w = ReferenceNotes[i]
          BY <2>3 DEF Members
        <4>2. w = Note("reference", "", Unreported[i].id)
          BY <4>1 DEF ReferenceNotes
        <4> QED
          BY <4>2 DEF Note
      <3>2. RuleAt(p).id # ""
        <4> DEFINE n == Cardinality(Places(ob.hash))
        <4>1. DOMAIN ob.rules = 1..n /\ \A i \in 1..n : AllRules(ob.hash)[i].id # ""
          BY <1>1, RulesInOrder
        <4>2. PICK to \in [1..n -> 1..n] : \A k \in 1..n : ob.rules[k] = AllRules(ob.hash)[to[k]]
          BY <1>1, RulesInOrder
        <4>3. p[1] \in 1..n /\ RuleAt(p) = ob.rules[p[1]]
          BY <1>1, <4>1, VisitsAre DEF RuleAt
        <4> HIDE DEF n
        <4> QED
          BY <4>1, <4>2, <4>3
      <3> QED
        BY <1>2, <2>1, <3>1, <3>2
    <2> QED
      BY <1>6, <2>2, <2>3
  <1>11. SaidAt(p) = "formula failed" => SaidAt(p) \in Failures
    BY DEF Failures
  <1>12. SaidAt(p) \in Done => SaidAt(p) \notin Failures
    BY DEF Done, Failures
  <1> QED
    BY <1>2, <1>9, <1>10, <1>11, <1>12 DEF a

\* The components list the entries that were measured in the order of the audit,
\* and there is only one such list.
LEMMA ComponentsMeasured ==
  ASSUME OutInv, ob.state = "loaded", stage = "done"
  PROVE  [i \in DOMAIN out.components |->
            <<out.components[i].rule, out.components[i].target, out.components[i].delta>>]
         = LET done == Selection(out.audit, Measured)
           IN  [i \in DOMAIN done |-> <<done[i].rule, done[i].target, done[i].delta>>]
  <1> DEFINE L == Len(out.audit)
             M == Len(out.components)
  <1>1. DataInv /\ WalkInv /\ Visited = Visits /\ L \in Nat /\ DOMAIN out.audit = 1..L
    BY AuditPath, DoneVisited DEF OutInv
  <1>2. PICK path \in [1..L -> Visits] :
          /\ Along(path, out.audit, Visits)
          /\ \A i \in 1..L : /\ out.audit[i] = AuditEntry(RuleAt(path[i]), TargetAt(path[i]))
                            /\ Seen[i] = Named(path[i])
    BY <1>1, AuditPath
  <1>3. /\ \A j, k \in 1..L : j < k => Earlier(path[j], path[k])
        /\ \A p \in Visits : \E i \in 1..L : path[i] = p
    BY <1>2 DEF Along
  <1>4. M \in Nat /\ DOMAIN out.components = 1..M
    BY <1>1, AppendFacts DEF WalkInv
  <1>5. PICK way : Composed(way)
    BY <1>1 DEF WalkInv
  <1>6. /\ way \in [1..M -> DoneAt]
        /\ \A j, k \in 1..M : j < k => Earlier(way[j], way[k])
        /\ \A p \in DoneAt : \E i \in 1..M : way[i] = p
        /\ \A i \in 1..M : out.components[i] = Component(RuleAt(way[i]), TargetAt(way[i]))
    BY <1>5 DEF Composed, Along
  <1>7. \A i \in 1..L : i \in Measured <=> path[i] \in DoneAt
    <2> SUFFICES ASSUME NEW i \in 1..L PROVE i \in Measured <=> path[i] \in DoneAt
      OBVIOUS
    <2>1. path[i] \in Visits /\ out.audit[i] = AuditEntry(RuleAt(path[i]), TargetAt(path[i]))
      BY <1>2
    <2>2. i \in Measured <=> out.audit[i].matched /\ ~Noted(out.audit[i])
      BY <1>1 DEF Measured
    <2>3. path[i] \in DoneAt <=> SaidAt(path[i]) \in Done
      BY <1>1, <2>1 DEF DoneAt
    <2> QED
      BY <2>1, <2>2, <2>3, MeasuredAre
  <1>8. Measured \subseteq 1..L /\ Measured \subseteq Int /\ IsFiniteSet(Measured)
    <2>1. Measured \subseteq 1..L
      BY <1>1 DEF Measured
    <2>2. IsFiniteSet(1..L)
      BY <1>1, FS_Interval
    <2> QED
      <3>1. IsFiniteSet(Measured)
        BY <2>1, <2>2, FS_Subset
      <3> QED
        BY <2>1, <3>1
  <1>9. \A k \in 1..M : way[k] \in DoneAt /\ way[k] \in Visits
    BY <1>1, <1>6 DEF DoneAt
  <1> DEFINE f == [k \in 1..M |-> CHOOSE i \in 1..L : path[i] = way[k]]
  <1>10. \A k \in 1..M : f[k] \in 1..L /\ path[f[k]] = way[k] /\ f[k] \in Measured
    BY <1>3, <1>7, <1>9
  <1>11. f \in [1..M -> Measured]
    BY <1>10
  <1> HIDE DEF f
  <1>12. ASSUME NEW j \in 1..M, NEW k \in 1..M, j < k PROVE f[j] < f[k]
    <2>1. Earlier(way[j], way[k])
      BY <1>6, <1>12
    <2>2. ~Earlier(way[k], way[j]) /\ way[j] # way[k]
      BY <1>1, <1>9, <2>1, EarlierOnce
    <2>3. f[j] \in Int /\ f[k] \in Int
      BY <1>10
    <2>4. f[j] < f[k] \/ f[j] = f[k] \/ f[k] < f[j]
      BY <2>3
    <2> QED
      BY <1>3, <1>10, <2>2, <2>4
  <1>13. ASSUME NEW i \in Measured PROVE \E k \in 1..M : f[k] = i
    <2>1. i \in 1..L /\ path[i] \in DoneAt
      BY <1>7, <1>8
    <2>2. PICK k \in 1..M : way[k] = path[i]
      BY <1>6, <2>1
    <2>3. f[k] \in 1..L /\ path[f[k]] = path[i]
      BY <1>10, <2>2
    <2>4. f[k] = i
      <3>1. path[i] \in Visits /\ path[f[k]] \in Visits
        BY <1>2, <2>1, <2>3
      <3>2. f[k] < i \/ f[k] = i \/ i < f[k]
        BY <2>1, <2>3
      <3> QED
        BY <1>1, <1>3, <2>1, <2>3, <3>1, <3>2, EarlierOnce
    <2> QED
      BY <2>4
  <1>14. M = Cardinality(Measured) /\ \A k \in 1..M : f[k] = Nth(Measured, k)
    BY <1>4, <1>8, <1>11, <1>12, <1>13, NthUnique
  <1> DEFINE done == Selection(out.audit, Measured)
  <1>15. DOMAIN done = 1..M /\ \A k \in 1..M : done[k] = out.audit[f[k]]
    BY <1>14 DEF Selection
  <1> HIDE DEF done
  <1>16. ASSUME NEW k \in 1..M
         PROVE  <<out.components[k].rule, out.components[k].target, out.components[k].delta>>
                = <<done[k].rule, done[k].target, done[k].delta>>
    <2> DEFINE r == RuleAt(way[k])
               t == TargetAt(way[k])
    <2>1. done[k] = AuditEntry(r, t)
      BY <1>2, <1>10, <1>15
    <2>2. out.components[k] = Component(r, t)
      BY <1>6
    <2>3. Says(r, t) \in Done
      BY <1>9 DEF DoneAt, SaidAt
    <2> HIDE DEF r, t
    <2>4. /\ done[k].rule = r.id /\ done[k].target = t.name
          /\ done[k].delta = Component(r, t).delta
      BY <2>1, <2>3, AuditEntryIs
    <2>5. out.components[k].rule = r.id /\ out.components[k].target = t.name
      BY <2>2 DEF Component
    <2> QED
      BY <2>2, <2>4, <2>5
  <1>17. [k \in 1..M |-> <<out.components[k].rule, out.components[k].target, out.components[k].delta>>]
         = [k \in 1..M |-> <<done[k].rule, done[k].target, done[k].delta>>]
    BY <1>16
  <1> QED
    BY <1>4, <1>15, <1>17 DEF done

LEMMA InvAudit == OutInv => AuditComplete
  <1> SUFFICES ASSUME OutInv, Overlaid PROVE AuditComplete
    BY DEF AuditComplete
  <1>1. stage = "done" /\ ob.state = "loaded"
    BY DEF Overlaid, OutInv, DataInv, OverlayInv
  <1>2. /\ Members(Seen) = Rows
        /\ Len(Seen) = Cardinality(Rows)
        /\ \A i \in 2..Len(Seen) :
              \/ AllRules(ob.hash)[OfRow(i - 1)].priority < AllRules(ob.hash)[OfRow(i)].priority
              \/ /\ AllRules(ob.hash)[OfRow(i - 1)].priority = AllRules(ob.hash)[OfRow(i)].priority
                 /\ OfRow(i - 1) <= OfRow(i)
    BY <1>1, AuditRows
  <1>3. [i \in DOMAIN out.components |->
            <<out.components[i].rule, out.components[i].target, out.components[i].delta>>]
         = LET done == Selection(out.audit, Measured)
           IN  [i \in DOMAIN done |-> <<done[i].rule, done[i].target, done[i].delta>>]
    BY <1>1, ComponentsMeasured
  <1> QED
    BY <1>2, <1>3, Zenon DEF AuditComplete, Seen, Rows, Row, OfRow, Measured, Noted

\* When EvaluateHouse returns, the audit has exactly one entry for every rule
\* of every file and every target of it, by priority, then as the files list
\* them, and the components are, in that order and with the same amounts, its
\* entries that matched and are not warned of (Evaluate's loops, sortRules and
\* the two appends of applyOutcome, which a filtered, failed or blocked target
\* leave in step).
THEOREM AuditTellsAll == Spec => []AuditComplete
  <1>1. (Init => OutInv) /\ (OutInv /\ [Next]_vars => OutInv')
    BY OutInvHolds
  <1>2. OutInv => AuditComplete
    BY InvAudit
  <1> QED
    BY <1>1, <1>2, PTL DEF Spec

-----------------------------------------------------------------------------
(***************************************************************************)
(* Types.                                                                  *)
(***************************************************************************)
RatioOK(x) == x \in {<<0, 1>>, <<1, 0>>} \/ (x[1] \in Int /\ x[2] >= Dollar)

LEMMA RatioIs == ASSUME NEW n \in Int, NEW equity \in Int PROVE RatioOK(Ratio(n, equity))
  <1>1. CASE equity <= 0
    BY <1>1 DEF Ratio, RatioOK
  <1>2. CASE equity \in 1..(Dollar - 1)
    BY <1>2 DEF Ratio, RatioOK
  <1>3. CASE ~(equity <= 0) /\ equity \notin 1..(Dollar - 1)
    <2>1. Ratio(n, equity) = <<n, equity>>
      BY <1>3 DEF Ratio
    <2>2. equity >= Dollar
      BY <1>3 DEF Dollar
    <2> QED
      BY <2>1, <2>2 DEF RatioOK
  <1> QED
    BY <1>1, <1>2, <1>3

LEMMA SnapshotNumbers ==
  ASSUME DataInv, stage \in Totalled
  PROVE  /\ snap.equity \in Int
         /\ RatioOK(snap.stockLeverage) /\ RatioOK(snap.grossLeverage) /\ RatioOK(snap.equityRatio)
  <1> DEFINE es == Arranged(acct, evals)
             lmv == [stock |-> MarketValue(acct, "long", StockLike),
                     option |-> MarketValue(acct, "long", {"option"})]
             smv == [stock |-> MarketValue(acct, "short", StockLike),
                     option |-> MarketValue(acct, "short", {"option"})]
             long == lmv.stock + lmv.option
             short == smv.stock + smv.option
             equity == (acct.sod + acct.pnl) + acct.deposits
             total == TotalOf(es, "req")
  <1>1. acct \in Accounts /\ ValidAccount(acct)
    BY DEF DataInv, AccountInv, Begun
  <1>2. snap = Snapshot(acct, evals)
    BY DEF DataInv, AccountInv
  <1>3. /\ snap.equity = equity /\ snap.total = total
        /\ snap.stockLeverage = Ratio(lmv.stock + smv.stock, equity)
        /\ snap.grossLeverage = Ratio(long + short, equity)
        /\ snap.equityRatio = Ratio(total, equity)
    BY <1>2, Zenon DEF Snapshot
  <1>4. equity \in Int
    <2>1. {acct.sod, acct.cash, acct.pnl, acct.deposits} \subseteq Int
      BY <1>1 DEF ValidAccount
    <2>2. acct.sod \in Int /\ acct.pnl \in Int /\ acct.deposits \in Int
      BY <2>1
    <2> QED
      BY <2>2
  <1>5. /\ lmv.stock \in Int /\ lmv.option \in Int /\ smv.stock \in Int /\ smv.option \in Int
    BY <1>1, MarketValueIs
  <1>6. total \in Int
    BY <1>3, SnapshotIsFinite
  <1>7. lmv.stock + smv.stock \in Int /\ long + short \in Int
    BY <1>5
  <1> HIDE DEF es, lmv, smv, long, short, equity, total
  <1> QED
    BY <1>3, <1>4, <1>6, <1>7, RatioIs

TypeInv ==
  /\ ob.state \in {"none", "loaded", "failed"}
  /\ out.excess \in Int

LEMMA InitType == Init => TypeInv
  BY DEF Init, NoOverlay, NoHouse, TypeInv

\* The amounts are numbers as long as what is charged is.
LEMMA HouseIsFinite ==
  ASSUME DataInv, HouseInv, WalkInv
  PROVE  out.house \in Int /\ out.cash \in Int
  <1>1. CASE stage \notin {"house", "done"}
    <2>1. out = NoHouse
      BY <1>1 DEF WalkInv
    <2> QED
      BY <2>1 DEF NoHouse
  <1>2. CASE stage = "house"
    <2>1. /\ AtTarget
          /\ out.house = snap.total + Charged /\ out.cash = snap.cashCall + Charged
      BY <1>2 DEF HouseInv
    <2>2. Charged \in Int
      BY <1>2, <2>1, ChargedGrows
    <2>3. snap.total \in Int /\ snap.cashCall \in Int
      BY <1>2, SnapshotIsFinite DEF Totalled
    <2> QED
      BY <2>1, <2>2, <2>3
  <1>3. CASE stage = "done"
    <2> DEFINE all == SumFunction([i \in DOMAIN ob.rules |-> Alone(ob.rules[i])])
    <2>1. out.house = snap.total + all /\ out.cash = snap.cashCall + all
      BY <1>3 DEF HouseInv, HouseAddsUp
    <2>2. all = Sum(AllAlone, 1..Len(ob.rules))
      BY <1>3, AllAloneFinite
    <2>3. Sum(AllAlone, 1..Len(ob.rules)) \in Int
      <3>1. \A i \in 1..Len(ob.rules) : AllAlone[i] \in Int
        BY <1>3, AllAloneFinite
      <3>2. IsFiniteSet(1..Len(ob.rules))
        BY RulesAreFinite
      <3> QED
        BY <3>1, <3>2, SumType
    <2>4. snap.total \in Int /\ snap.cashCall \in Int
      BY <1>3, SnapshotIsFinite DEF Totalled
    <2> HIDE DEF all
    <2> QED
      BY <2>1, <2>2, <2>3, <2>4
  <1> QED
    BY <1>1, <1>2, <1>3

LEMMA NextType == OutInv /\ TypeInv /\ [Next]_vars => TypeInv'
  <1> SUFFICES ASSUME OutInv, TypeInv, [Next]_vars PROVE TypeInv'
    OBVIOUS
  <1>0. DataInv /\ HouseInv /\ WalkInv
    BY DEF OutInv
  <1>1. CASE BeginOverlay
    <2>1. stage = "aggregated" /\ ob' = ob /\ out'.excess = snap.equity - snap.total
      BY <1>1 DEF BeginOverlay, NoHouse
    <2>2. snap.equity \in Int /\ snap.total \in Int
      BY <1>0, <2>1, SnapshotNumbers, SnapshotIsFinite DEF Totalled
    <2> QED
      BY <2>1, <2>2 DEF TypeInv
  <1>2. CASE Consider
    <2>1. stage = "house" /\ ob' = ob
      BY <1>2 DEF Consider
    <2>2. out'.excess = out.excess
      <3>1. DOMAIN out = DOMAIN NoHouse
        BY <1>0 DEF HouseInv
      <3> QED
        BY <1>2, <3>1 DEF Consider, Considered, NoHouse
    <2> QED
      BY <2>1, <2>2 DEF TypeInv
  <1>3. CASE NextRule
    BY <1>3 DEF NextRule, TypeInv
  <1>4. CASE EndOverlay
    <2>1. stage = "house" /\ ob' = ob /\ DOMAIN out = DOMAIN NoHouse
      BY <1>0, <1>4 DEF EndOverlay, HouseInv
    <2>2. out'.excess = snap.equity - out.house
      BY <1>4, <2>1 DEF EndOverlay, NoHouse
    <2>3. snap.equity \in Int /\ out.house \in Int
      BY <1>0, <2>1, SnapshotNumbers, HouseIsFinite DEF Totalled
    <2> QED
      BY <2>1, <2>2, <2>3 DEF TypeInv
  <1>5. CASE LoadHouse
    BY <1>5 DEF LoadHouse, LoadOverlay, NoOverlay, TypeInv
  <1>6. CASE LoadBaseline \/ RefuseHouse \/ EvaluateHouse \/ AggregateAccount \/ UNCHANGED vars
    <2>1. out' = out /\ ob' = ob
      BY <1>6 DEF LoadBaseline, RefuseHouse, EvaluateHouse, AggregateAccount
    <2> QED
      BY <2>1 DEF TypeInv
  <1> QED
    BY <1>1, <1>2, <1>3, <1>4, <1>5, <1>6 DEF Next

LEMMA InvType == OutInv /\ TypeInv => TypeOK
  <1> SUFFICES ASSUME OutInv, TypeInv PROVE TypeOK
    OBVIOUS
  <1>0. DataInv /\ HouseInv /\ WalkInv
    BY DEF OutInv
  <1>1. stage \in {"ready", "evaluating", "aggregated", "house", "done", "failed"}
    BY <1>0 DEF DataInv, AccountInv, Begun, Totalled
  <1>2. {out.house, out.cash, out.excess} \subseteq Int
    BY <1>0, HouseIsFinite DEF TypeInv
  <1>3. stage \in {"aggregated", "house", "done"} =>
          \A x \in {snap.stockLeverage, snap.grossLeverage, snap.equityRatio} :
            x \in {<<0, 1>>, <<1, 0>>} \/ (x[1] \in Int /\ x[2] >= Dollar)
    BY <1>0, SnapshotNumbers DEF Totalled, RatioOK
  <1>4. CASE stage \notin {"house", "done"}
    <2>1. out = NoHouse
      BY <1>0, <1>4 DEF WalkInv
    <2>2. Members(out.audit) = {} /\ Members(out.components) = {} /\ out.reported = {}
      BY <2>1 DEF NoHouse, Members
    <2> QED
      BY <1>1, <1>2, <1>3, <2>2 DEF TypeOK, TypeInv
  <1>5. CASE stage \in {"house", "done"}
    <2>1. ASSUME NEW a \in Members(out.audit) PROVE \E r \in Members(ob.rules) : a.rule = r.id
      <3>1. PICK path : Audited(path)
        BY <1>0, <1>5 DEF WalkInv
      <3>2. DOMAIN out.audit = 1..Len(out.audit)
        BY <1>0, AppendFacts DEF WalkInv
      <3>3. PICK n \in 1..Len(out.audit) : a = out.audit[n]
        BY <3>2 DEF Members
      <3>4. path[n] \in Visits /\ a = AuditEntry(RuleAt(path[n]), TargetAt(path[n]))
        BY <3>1, <3>3 DEF Audited, Along, Visited
      <3>5. a.rule = RuleAt(path[n]).id
        BY <3>4, AuditEntryIs
      <3> QED
        BY <1>0, <1>5, <3>4, <3>5, PlacesNamed
    <2>2. ASSUME NEW c \in Members(out.components) PROVE \E r \in Members(ob.rules) : c.rule = r.id
      <3>1. PICK p \in Visits : SaidAt(p) \in Done /\ c = Component(RuleAt(p), TargetAt(p))
        BY <1>0, <1>5, ComponentsAre
      <3>2. c.rule = RuleAt(p).id
        BY <3>1 DEF Component
      <3> QED
        BY <1>0, <1>5, <3>2, PlacesNamed
    <2>3. {a.rule : a \in Members(out.audit) \cup Members(out.components)}
            \subseteq {r.id : r \in Members(ob.rules)}
      BY <2>1, <2>2
    <2>4. ASSUME NEW id \in out.reported PROVE \E x \in Members(acct.positions) : id = x.id
      <3>1. PICK p \in Visits : id \in TargetAt(p).missing
        BY <1>0, <1>5 DEF WalkInv, Visited
      <3>2. p[2] \in DOMAIN Targets(RuleAt(p)) /\ TargetAt(p) = Targets(RuleAt(p))[p[2]]
        BY <1>0, <1>5, VisitsAre DEF TargetAt, RuleAt
      <3>3. PICK i \in DOMAIN entries : id = entries[i].id
        BY <1>0, <1>5, <3>1, <3>2, TargetsNamed
      <3>4. PICK k \in DOMAIN acct.positions : entries[i].id = acct.positions[k].id
        BY <1>0, <1>5, EntriesNamed
      <3> QED
        BY <3>3, <3>4 DEF Members
    <2>5. out.reported \subseteq {x.id : x \in Members(acct.positions)}
      BY <2>4
    <2> QED
      BY <1>1, <1>2, <1>3, <2>3, <2>5 DEF TypeOK, TypeInv
  <1> QED
    BY <1>4, <1>5

\* Every amount is a number and every ratio divides by a dollar at least,
\* whatever the formulas are; every audit entry and component is of a rule in
\* use, and every position reported is one of the account's.
THEOREM TypesHold == Spec => []TypeOK
  <1>1. Init => OutInv /\ TypeInv
    BY OutInvHolds, InitType
  <1>2. (OutInv /\ TypeInv) /\ [Next]_vars => (OutInv /\ TypeInv)'
    BY OutInvHolds, NextType
  <1>3. OutInv /\ TypeInv => TypeOK
    BY InvType
  <1> QED
    BY <1>1, <1>2, <1>3, PTL DEF Spec
-----------------------------------------------------------------------------
(***************************************************************************)
(* Groups are parts of the account.                                        *)
(***************************************************************************)
\* Evaluations charge only for what is permitted.
ChargesIfPermitted(es) == \A e \in Members(es) : e.kind # "permitted" => e.res.req = 0

FreeInv == stage \in Begun => ChargesIfPermitted(evals)

LEMMA InitFree == Init => FreeInv
  BY DEF Init, AccountInit, FreeInv, Begun, Totalled

\* What the engine does not permit it does not charge for.
LEMMA NextFree ==
  ASSUME \A es \in Supplied : ChargesIfPermitted(es), DataInv, FreeInv, [Next]_vars
  PROVE  FreeInv'
  <1>1. CASE UNCHANGED <<stage, evals>>
    BY <1>1 DEF FreeInv, ChargesIfPermitted
  <1>2. CASE AggregateWithRulebook
    <2>1. stage = "ready" /\ evals' = evals
      BY <1>2 DEF AggregateWithRulebook
    <2>2. evals = <<>>
      BY <2>1 DEF DataInv, AloneInv
    <2>3. ChargesIfPermitted(<<>>)
      BY DEF ChargesIfPermitted, Members
    <2> QED
      BY <2>1, <2>2, <2>3 DEF FreeInv
  <1>3. CASE AggregateSupplied
    <2>1. evals' \in Supplied
      BY <1>3 DEF AggregateSupplied
    <2> QED
      BY <2>1 DEF FreeInv
  <1>4. CASE ClassifyEvaluation
    <2> DEFINE e == Classified(acct.positions[Position].id, outcome)
    <2>1. stage = "evaluating" /\ Returned /\ evals' = Append(evals, e)
      BY <1>4 DEF ClassifyEvaluation
    <2>2. e.kind # "permitted" => e.res.req = 0
      <3>1. outcome.kind = "result" /\ ~outcome.res.permitted => outcome.res.req = 0
        BY <2>1 DEF DataInv, AloneInv, InRange, Returned, Answer, Outcome
      <3>2. NoResult.req = 0
        BY DEF NoResult
      <3>3. /\ e.res = IF outcome.kind = "result" THEN outcome.res ELSE NoResult
            /\ outcome.kind = "result" /\ outcome.res.permitted => e.kind = "permitted"
        BY DEF Classified, Evaluation
      <3> QED
        BY <3>1, <3>2, <3>3
    <2>3. IsSeq(evals) /\ ChargesIfPermitted(evals)
      BY <2>1 DEF DataInv, AccountInv, FreeInv, Begun
    <2>4. \A i \in DOMAIN evals' : (i \in DOMAIN evals /\ evals'[i] = evals[i]) \/ evals'[i] = e
      BY <2>1, <2>3, AppendFacts
    <2> HIDE DEF e
    <2>5. ChargesIfPermitted(evals')
      BY <2>2, <2>3, <2>4 DEF ChargesIfPermitted, Members
    <2> QED
      BY <2>5 DEF FreeInv
  <1>5. CASE Aggregate \/ BeginOverlay \/ Consider \/ NextRule \/ EndOverlay
    <2>1. stage \in Begun /\ evals' = evals
      BY <1>5 DEF Aggregate, BeginOverlay, Consider, NextRule, EndOverlay, Begun, Totalled
    <2> QED
      BY <2>1 DEF FreeInv, ChargesIfPermitted
  <1>6. CASE LoadBaseline \/ LoadHouse \/ RefuseHouse
    <2>1. evals' = evals /\ (stage' = stage \/ stage' = "failed")
      BY <1>6 DEF LoadBaseline, LoadRulebook, LoadHouse, LoadOverlay, RefuseHouse
    <2> QED
      BY <2>1 DEF FreeInv, ChargesIfPermitted, Begun, Totalled
  <1>7. CASE EvaluatePosition \/ TryPosition \/ UNCHANGED vars
    BY <1>1, <1>7 DEF EvaluatePosition, TryPosition
  <1> QED
    BY <1>2, <1>3, <1>4, <1>5, <1>6, <1>7 DEF Next, EvaluateHouse, AggregateAccount

LEMMA ProductsNotNegative ==
  ASSUME NEW a \in Nat, NEW b \in Nat, NEW c \in Nat, NEW d \in Nat
  PROVE  a * b * c >= 0 /\ a * b * c * d >= 0
  <1>1. a * b \in Nat
    OBVIOUS
  <1>2. a * b * c \in Nat
    BY <1>1
  <1>3. a * b * c * d \in Nat
    BY <1>2
  <1> QED
    BY <1>2, <1>3

LEMMA LegWorthNotNegative ==
  ASSUME NEW l, NEW U, ValuableLeg(l, U)
  PROVE  LegMarketValue(l, U) >= 0
  <1>0. 100 \in Nat
    OBVIOUS
  <1>1. CASE l.kind = "option"
    <2>1. l.P \in Nat /\ l.qty \in Nat /\ EffectiveMult(l.mult) \in Nat
      BY <1>1 DEF ValuableLeg, EffectiveMult, Finite, NonNegative, Positive
    <2> QED
      BY <1>0, <1>1, <2>1, ProductsNotNegative DEF LegMarketValue
  <1>2. CASE l.kind = "stock"
    <2>1. U \in Nat /\ l.shares \in Nat
      BY <1>2 DEF ValuableLeg, Finite, Positive
    <2> QED
      BY <1>0, <1>2, <2>1, ProductsNotNegative DEF LegMarketValue
  <1>3. CASE l.kind \notin {"option", "stock"}
    <2>1. l.price \in Nat /\ l.shares \in Nat
      BY <1>3 DEF ValuableLeg, Finite, Positive
    <2> QED
      BY <1>0, <1>3, <2>1, ProductsNotNegative DEF LegMarketValue
  <1> QED
    BY <1>1, <1>2, <1>3

\* The overlay's own market values of a position, which count what is like stock
\* only, are within the account's.
LEMMA FactsWithinWorth ==
  ASSUME NEW x, Accepted(x), NEW e
  PROVE  LET f == Facts(x, e)
         IN  /\ f.longMV \in Int /\ f.shortMV \in Int /\ f.longMV + f.shortMV >= 0
             /\ f.longMV + f.shortMV <= Sum(LegWorths(x), DOMAIN x.pos.legs)
             /\ Sum(LegWorths(x), DOMAIN x.pos.legs) \in Int
             /\ Sum(LegWorths(x), DOMAIN x.pos.legs) >= 0
  <1> DEFINE D == DOMAIN x.pos.legs
             T == StockLegs(x)
             W == [j \in T |-> StockLikeMV(x.pos.legs[j], x.pos.U)]
             L == {j \in T : x.pos.legs[j].side = "short" <=> "long" = "short"}
             S == {j \in T : x.pos.legs[j].side = "short" <=> "short" = "short"}
             V == LegWorths(x)
  <1>1. /\ Facts(x, e).longMV = OverSide(W, x, "long")
        /\ Facts(x, e).shortMV = OverSide(W, x, "short")
    BY Zenon DEF Facts
  <1>2. OverSide(W, x, "long") = Sum(W, L) /\ OverSide(W, x, "short") = Sum(W, S)
    BY Zenon DEF OverSide, Sum
  <1>3. /\ IsFiniteSet(D)
        /\ \A j \in D : ValuableLeg(x.pos.legs[j], x.pos.U) /\ V[j] \in Int
        /\ T \subseteq D /\ IsFiniteSet(T)
    <2>1. T \subseteq D
      BY DEF StockLegs
    <2> QED
      BY <2>1, LegsAreFinite, FS_Subset
  <1>4. \A j \in D : V[j] >= 0
    BY <1>3, LegWorthNotNegative DEF LegWorths
  <1>5. \A j \in T : W[j] = V[j]
    <2> TAKE j \in T
    <2>1. x.pos.legs[j].kind \in StockLike /\ j \in D
      BY DEF StockLegs
    <2> QED
      BY <2>1 DEF StockLikeMV, LegWorths, LegMarketValue, StockLike
  <1>6. L \cap S = {} /\ L \cup S = T /\ IsFiniteSet(L) /\ IsFiniteSet(S)
    <2>1. L \cap S = {} /\ L \cup S = T
      OBVIOUS
    <2>2. L \subseteq T /\ S \subseteq T
      OBVIOUS
    <2> HIDE DEF L, S, T
    <2> QED
      BY <1>3, <2>1, <2>2, FS_Subset
  <1> HIDE DEF D, T, W, L, S, V
  <1>7. \A j \in L \cup S : W[j] \in Int
    BY <1>3, <1>5, <1>6
  <1>8. Sum(W, T) = Sum(W, L) + Sum(W, S) /\ Sum(W, L) \in Int /\ Sum(W, S) \in Int
    <2>1. Sum(W, L \cup S) = Sum(W, L) + Sum(W, S)
      BY <1>6, <1>7, SumOfUnion
    <2> QED
      BY <1>6, <1>7, <2>1, SumType
  <1>9. Sum(W, T) = Sum(V, T)
    BY <1>3, <1>5, SumSame
  <1>10. Sum(V, T) \in Int /\ Sum(V, D) \in Int /\ Sum(V, T) <= Sum(V, D)
    BY <1>3, <1>4, SumOfSubset
  <1>11. Sum(V, T) >= 0 /\ Sum(V, D) >= 0
    BY <1>3, <1>4, SumNotNegative
  <1> QED
    BY <1>1, <1>2, <1>8, <1>9, <1>10, <1>11 DEF D, V

\* A rule over groups has a target for each of some parts of the entries, which do
\* not overlap.
LEMMA TargetsAreParts ==
  ASSUME DataInv, stage \in {"house", "done"}, NEW r, r.scope # "position"
  PROVE  \E P \in [DOMAIN Targets(r) -> SUBSET DOMAIN entries] :
           /\ \A j, k \in DOMAIN Targets(r) : j # k => P[j] \cap P[k] = {}
           /\ \A k \in DOMAIN Targets(r) :
                \E key : P[k] = Grouped(r, key) /\ Targets(r)[k] = GroupTarget(r, key)
  <1> DEFINE ts == Targets(r)
             is == {i \in DOMAIN SortedSymbols : Grouped(r, SortedSymbols[i]) # {}}
             keys == Selection(SortedSymbols, is)
             P == [k \in DOMAIN ts |-> Grouped(r, keys[k])]
  <1>1. ts = [i \in DOMAIN keys |-> GroupTarget(r, keys[i])]
    BY DEF Targets
  <1>2. \A key : GroupTarget(r, key).name = key
    BY Zenon DEF GroupTarget
  <1> HIDE DEF keys
  <1>3. \A k \in DOMAIN ts : ts[k] = GroupTarget(r, keys[k]) /\ ts[k].name = keys[k]
    BY <1>1, <1>2
  <1>4. \A j, k \in DOMAIN ts : ts[j].name = ts[k].name => j = k
    BY TargetsNamed
  <1> HIDE DEF ts
  <1>5. P \in [DOMAIN ts -> SUBSET DOMAIN entries]
    BY DEF Grouped
  <1>6. ASSUME NEW j \in DOMAIN ts, NEW k \in DOMAIN ts, j # k PROVE P[j] \cap P[k] = {}
    <2>1. keys[j] # keys[k]
      BY <1>3, <1>4, <1>6
    <2> QED
      BY <2>1 DEF Grouped
  <1>7. \A k \in DOMAIN ts : P[k] = Grouped(r, keys[k]) /\ ts[k] = GroupTarget(r, keys[k])
    BY <1>3
  <1> HIDE DEF P
  <1> QED
    BY <1>5, <1>6, <1>7 DEF ts

LEMMA GroupTargetIs ==
  ASSUME NEW r, NEW key
  PROVE  LET t == GroupTarget(r, key)
             over(f) == SumFunction([i \in Grouped(r, key) |-> entries[i][f]])
         IN  /\ t.baseline = over("baseline")
             /\ t.facts.longMV = over("longMV") /\ t.facts.shortMV = over("shortMV")
  BY DEF GroupTarget

\* What is summed over a group.
LEMMA OverGroup ==
  ASSUME DataInv, stage \in {"house", "done"}, NEW r, NEW key, NEW field,
         NEW v, \A i \in DOMAIN entries : v[i] = entries[i][field]
  PROVE  SumFunction([i \in Grouped(r, key) |-> entries[i][field]]) = Sum(v, Grouped(r, key))
  <1> DEFINE G == Grouped(r, key)
             f == [i \in G |-> entries[i][field]]
  <1>1. G \subseteq DOMAIN entries /\ IsFiniteSet(G)
    BY EntriesAreFinite, FS_Subset DEF Grouped
  <1>2. SumFunction(f) = Sum(f, G)
    BY SumFunctionIs
  <1>3. \A i \in G : f[i] = v[i]
    BY <1>1
  <1> HIDE DEF f, G
  <1>4. Sum(f, G) = Sum(v, G)
    BY <1>1, <1>3, SumSame
  <1> QED
    BY <1>2, <1>4 DEF f, G

ChargesNotNegative == \A e \in Members(evals) : e.res.req >= 0

\* The account's requirement is that of all its positions: those that are not
\* permitted add nothing to it.
LEMMA TotalIsOfAll ==
  ASSUME DataInv, FreeInv, ChargesNotNegative, stage \in Totalled,
         NEW req, \A i \in DOMAIN acct.positions : req[i] = snap.evaluations[i].res.req
  PROVE  /\ snap.total = Sum(req, DOMAIN acct.positions)
         /\ \A i \in DOMAIN acct.positions : req[i] \in Int /\ req[i] >= 0
  <1> DEFINE D == DOMAIN acct.positions
             es == snap.evaluations
             f == [i \in DOMAIN es |-> IF es[i].kind = "permitted" THEN es[i].res["req"] ELSE 0]
  <1>1. es = Arranged(acct, evals) /\ DOMAIN es = D /\ \A i \in D : es[i].res.req \in Int
    BY SnapshotIsFinite
  <1>2. IsFiniteSet(D)
    BY PositionsAreFinite DEF Begun
  <1>3. ASSUME NEW i \in D
        PROVE  es[i].res.req >= 0 /\ (es[i].kind # "permitted" => es[i].res.req = 0)
    <2> DEFINE mine == {e \in Members(evals) : e.id = acct.positions[i].id}
    <2>1. es[i] = IF mine = {} THEN Evaluation(acct.positions[i].id, "none", NoResult)
                  ELSE CHOOSE e \in mine : TRUE
      BY <1>1, <1>3 DEF Arranged
    <2>2. CASE mine = {}
      <3>1. es[i].res = NoResult
        BY <2>1, <2>2 DEF Evaluation
      <3>2. NoResult.req = 0
        BY DEF NoResult
      <3> QED
        BY <3>1, <3>2
    <2>3. CASE mine # {}
      <3>1. es[i] \in Members(evals)
        BY <2>1, <2>3
      <3> QED
        BY <3>1 DEF FreeInv, ChargesNotNegative, ChargesIfPermitted, Begun
    <2> QED
      BY <2>2, <2>3
  <1>4. snap.total = Sum(f, DOMAIN es)
    <2>1. snap = Snapshot(acct, evals)
      BY DEF DataInv, AccountInv
    <2>2. snap.total = TotalOf(es, "req")
      BY <1>1, <2>1, Zenon DEF Snapshot
    <2> QED
      BY <2>2, SumFunctionIs DEF TotalOf
  <1>5. \A i \in D : f[i] = req[i]
    BY <1>1, <1>3
  <1> HIDE DEF f
  <1>6. Sum(f, D) = Sum(req, D)
    BY <1>2, <1>5, SumSame
  <1> QED
    BY <1>1, <1>3, <1>4, <1>6

LEMMA InvGroups ==
  ASSUME DataInv, FreeInv, ChargesNotNegative
  PROVE  GroupsWithinAccount
  <1> SUFFICES ASSUME stage \in {"house", "done"}, NEW r \in Members(ob.rules), r.scope = "group"
               PROVE  LET ts == Targets(r) IN
                      /\ SumFunction([k \in DOMAIN ts |-> ts[k].baseline]) <= snap.total
                      /\ SumFunction([k \in DOMAIN ts |-> ts[k].facts.longMV + ts[k].facts.shortMV])
                           <= snap.gross
    BY DEF GroupsWithinAccount
  <1> DEFINE ts == Targets(r)
             K == DOMAIN ts
             E == DOMAIN entries
             D == DOMAIN acct.positions
             req == [i \in D |-> snap.evaluations[i].res.req]
             worth == [i \in D |-> Sum(LegWorths(acct.positions[i]), DOMAIN acct.positions[i].pos.legs)]
             base == [i \in E |-> entries[i].baseline]
             long == [i \in E |-> entries[i].longMV]
             short == [i \in E |-> entries[i].shortMV]
             both == [i \in E |-> entries[i].longMV + entries[i].shortMV]
             charged == [k \in K |-> ts[k].baseline]
             exposed == [k \in K |-> ts[k].facts.longMV + ts[k].facts.shortMV]
  <1>1. IsFiniteSet(D) /\ IsFiniteSet(E) /\ IsFiniteSet(K) /\ E \subseteq Int /\ D \subseteq Int
    BY PositionsAreFinite, EntriesAreFinite, TargetsAreFinite DEF Begun, Totalled
  <1>2. \A i \in D : Accepted(acct.positions[i])
    BY PositionsAccepted DEF DataInv, AccountInv, Begun, Totalled
  <1>3. snap.total = Sum(req, D) /\ \A i \in D : req[i] \in Int /\ req[i] >= 0
    <2>1. \A i \in DOMAIN acct.positions : req[i] = snap.evaluations[i].res.req
      OBVIOUS
    <2> HIDE DEF req
    <2> QED
      BY <2>1, TotalIsOfAll DEF Totalled
  <1>4. snap.gross = Sum(worth, D) /\ \A i \in D : worth[i] \in Int /\ worth[i] >= 0
    <2>1. \A i \in D : worth[i] = Sum(LegWorths(acct.positions[i]), DOMAIN acct.positions[i].pos.legs)
      OBVIOUS
    <2>2. acct \in Accounts /\ ValidAccount(acct) /\ snap = Snapshot(acct, evals)
      BY DEF DataInv, AccountInv, Begun, Totalled
    <2>3. \A i \in D : worth[i] \in Int /\ worth[i] >= 0
      BY <1>2, <2>1, FactsWithinWorth
    <2> HIDE DEF worth
    <2>4. Snapshot(acct, evals).gross = Sum(worth, D)
      BY <2>1, <2>2, GrossIsWorth
    <2> QED
      BY <2>2, <2>3, <2>4
  <1>5. PICK of \in [E -> D] :
          /\ \A k \in E : entries[k] = Facts(acct.positions[of[k]], snap.evaluations[of[k]])
          /\ \A j, k \in E : j < k => of[j] < of[k]
    BY EntriesInOrder
  <1>6. \A j, k \in E : of[j] = of[k] => j = k
    <2> SUFFICES ASSUME NEW j \in E, NEW k \in E, of[j] = of[k] PROVE j = k
      OBVIOUS
    <2>1. j \in Int /\ k \in Int /\ of[j] \in Int /\ of[k] \in Int
      BY <1>1
    <2> QED
      BY <1>5, <2>1
  <1>7. \A k \in E : base[k] = req[of[k]] /\ base[k] \in Int /\ base[k] >= 0
    <2> TAKE k \in E
    <2>1. \A x, e : Facts(x, e).baseline = e.res.req
      BY DEF Facts
    <2>2. entries[k].baseline = snap.evaluations[of[k]].res.req
      BY <1>5, <2>1
    <2> QED
      BY <1>3, <2>2
  <1>8. \A k \in E : /\ long[k] \in Int /\ short[k] \in Int /\ both[k] = long[k] + short[k]
                     /\ both[k] >= 0 /\ both[k] <= worth[of[k]]
    <2> TAKE k \in E
    <2> DEFINE x == acct.positions[of[k]]
               e == snap.evaluations[of[k]]
    <2>1. entries[k] = Facts(x, e) /\ Accepted(x) /\ worth[of[k]] = Sum(LegWorths(x), DOMAIN x.pos.legs)
      BY <1>2, <1>5
    <2>2. long[k] = entries[k].longMV /\ short[k] = entries[k].shortMV
          /\ both[k] = entries[k].longMV + entries[k].shortMV
      OBVIOUS
    <2> HIDE DEF x, e, worth, long, short, both
    <2> QED
      BY <2>1, <2>2, FactsWithinWorth
  <1>9. PICK P \in [K -> SUBSET E] :
          /\ \A j, k \in K : j # k => P[j] \cap P[k] = {}
          /\ \A k \in K : \E key : P[k] = Grouped(r, key) /\ ts[k] = GroupTarget(r, key)
    BY TargetsAreParts
  <1>10. ASSUME NEW k \in K
         PROVE  charged[k] = Sum(base, P[k]) /\ exposed[k] = Sum(both, P[k])
    <2>1. PICK key : P[k] = Grouped(r, key) /\ ts[k] = GroupTarget(r, key)
      BY <1>9
    <2>2. charged[k] = ts[k].baseline /\ exposed[k] = ts[k].facts.longMV + ts[k].facts.shortMV
      OBVIOUS
    <2>3. /\ \A i \in E : base[i] = entries[i]["baseline"]
          /\ \A i \in E : long[i] = entries[i]["longMV"]
          /\ \A i \in E : short[i] = entries[i]["shortMV"]
      OBVIOUS
    <2> HIDE DEF charged, exposed, base, long, short, both, ts
    <2> DEFINE over(f) == SumFunction([i \in Grouped(r, key) |-> entries[i][f]])
    <2>4. ASSUME NEW v, NEW field, \A i \in E : v[i] = entries[i][field]
          PROVE  over(field) = Sum(v, P[k])
      BY <2>1, <2>4, OverGroup
    <2>5. /\ over("baseline") = Sum(base, P[k])
          /\ over("longMV") = Sum(long, P[k]) /\ over("shortMV") = Sum(short, P[k])
      <3> HIDE DEF over
      <3> QED
        BY <2>3, <2>4, Zenon
    <2>9. /\ ts[k].baseline = over("baseline")
          /\ ts[k].facts.longMV = over("longMV") /\ ts[k].facts.shortMV = over("shortMV")
      BY <2>1, GroupTargetIs, Zenon
    <2>6. P[k] \subseteq E /\ IsFiniteSet(P[k])
      BY <1>1, <1>9, FS_Subset
    <2>7. \A i \in P[k] : long[i] \in Int /\ short[i] \in Int /\ both[i] = long[i] + short[i]
      BY <1>8, <2>6
    <2>8. Sum(both, P[k]) = Sum(long, P[k]) + Sum(short, P[k])
      BY <2>6, <2>7, SumOfSums
    <2> QED
      BY <2>2, <2>4, <2>5, <2>8, <2>9
  <1>11. SumFunction(charged) = Sum(charged, K) /\ SumFunction(exposed) = Sum(exposed, K)
    BY SumFunctionIs
  <1> HIDE DEF charged, exposed, base, long, short, both, req, worth, ts, K, E, D
  <1>12. \A k \in E : both[k] \in Int
    BY <1>8
  <1>13. Sum(charged, K) <= Sum(base, E)
    BY <1>1, <1>7, <1>9, <1>10, SumOfParts
  <1>14. Sum(exposed, K) <= Sum(both, E)
    BY <1>1, <1>8, <1>9, <1>10, <1>12, SumOfParts
  <1>15. Sum(base, E) <= Sum(req, D)
    <2>1. \A k \in E : base[k] \in Int /\ base[k] <= req[of[k]]
      BY <1>3, <1>5, <1>7
    <2> QED
      BY <1>1, <1>3, <1>5, <1>6, <2>1, SumAlong
  <1>16. Sum(both, E) <= Sum(worth, D)
    <2>1. \A k \in E : both[k] \in Int /\ both[k] <= worth[of[k]]
      BY <1>8, <1>12
    <2> QED
      BY <1>1, <1>4, <1>5, <1>6, <2>1, SumAlong
  <1>17. /\ Sum(charged, K) \in Int /\ Sum(exposed, K) \in Int /\ Sum(base, E) \in Int
         /\ Sum(both, E) \in Int /\ Sum(req, D) \in Int /\ Sum(worth, D) \in Int
    <2>1. Sum(base, E) \in Int /\ Sum(both, E) \in Int /\ Sum(req, D) \in Int /\ Sum(worth, D) \in Int
      BY <1>1, <1>3, <1>4, <1>7, <1>12, SumType
    <2>2. ASSUME NEW k \in K PROVE charged[k] \in Int /\ exposed[k] \in Int
      <3>1. P[k] \subseteq E /\ IsFiniteSet(P[k])
        BY <1>1, <1>9, FS_Subset
      <3>2. /\ \A i \in P[k] : base[i] \in Int
            /\ \A i \in P[k] : both[i] \in Int
        BY <1>7, <1>12, <3>1
      <3>3. Sum(base, P[k]) \in Int /\ Sum(both, P[k]) \in Int
        BY <3>1, <3>2, SumType
      <3> QED
        BY <1>10, <3>3
    <2> QED
      BY <1>1, <2>1, <2>2, SumType
  <1>18. Sum(charged, K) <= snap.total /\ Sum(exposed, K) <= snap.gross
    BY <1>3, <1>4, <1>13, <1>14, <1>15, <1>16, <1>17
  <1> QED
    BY <1>11, <1>18 DEF charged, exposed, ts, K

\* The groups of a rule are parts of the account: their baselines together are at
\* most its requirement and their market values at most its exposure, whatever
\* the filters, symbols and reference data, wherever the engine's requirements are
\* not negative and nothing is charged for what is not permitted, which the
\* engine sees to and a caller of Aggregate has to (evaluateGroupRule, Aggregate).
THEOREM GroupsAreParts ==
  ASSUME \A es \in Supplied : ChargesIfPermitted(es)
  PROVE  Spec => [](ChargesNotNegative => GroupsWithinAccount)
  <1>1. Init => DataInv /\ FreeInv
    BY InitData, InitFree
  <1>2. DataInv /\ FreeInv /\ [Next]_vars => (DataInv /\ FreeInv)'
    BY NextData, NextFree
  <1>3. DataInv /\ FreeInv => (ChargesNotNegative => GroupsWithinAccount)
    BY InvGroups
  <1> QED
    BY <1>1, <1>2, <1>3, PTL DEF Spec

=============================================================================
