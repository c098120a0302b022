---------------------------- MODULE ReconProofs ----------------------------
(***************************************************************************)
(* Theorems about Recon, for every rulebook, every pair of files, every    *)
(* tolerance and every outcome of the expressions: the engine never asks   *)
(* for a program that was not compiled, every row of the report is what    *)
(* the engine says of that row's own legs in the files, the summary's      *)
(* counts and buckets partition the rows, and EvaluateAll agrees with      *)
(* Evaluate.  With the two rules of the baseline that charge the maximum   *)
(* potential loss, the requirement covers it; and with the baseline's      *)
(* rules only, neither the order of a position's legs nor that of the      *)
(* strategies decides, so that every verdict is the truth about its row.   *)
(***************************************************************************)
EXTENDS BaselineRecon, DispatchProofs, FiniteSetTheorems

USE DEF vars, dispatchVars, reconVars

-----------------------------------------------------------------------------
(***************************************************************************)
(* Compiled programs.                                                      *)
(***************************************************************************)
LEMMA InitCompiled == Init => Compiled
  BY NoRulebookCompiled DEF Init, DispatchInit

LEMMA NextCompiled == Compiled /\ [Next]_vars => Compiled'
  <1> SUFFICES ASSUME Compiled, [Next]_vars PROVE Compiled'
    OBVIOUS
  <1>1. CASE LoadRules
    BY <1>1, RulebooksAssumption, LoadCompiles DEF LoadRules
  <1>2. ASSUME rb' = rb PROVE Compiled'
    BY <1>2 DEF Compiled
  <1>3. CASE UNCHANGED vars \/ RulesFailed \/ EvaluateRow \/ RecordRow
                              \/ WriteFails \/ Summarize
    BY <1>2, <1>3 DEF RulesFailed, WriteFails, EvaluateRow, Evaluate, RecordRow, Summarize
  <1>4. CASE LoadPositions
    <2>1. rb' = rb
      BY <1>4 DEF LoadPositions
    <2> QED
      BY <1>2, <2>1
  <1>5. CASE TryRow
    BY <1>2, <1>5 DEF TryRow, TryRules, RuleDeclines, RuleDecides, NoRuleMatched
  <1> QED
    BY <1>1, <1>3, <1>4, <1>5, <1>5 DEF Next

\* However far the scan gets, the program of every expression it may read is
\* compiled: lookupProg, which panics otherwise, never does.
THEOREM NeverPanics == Spec => []ProgramsAreCompiled
  <1>1. Compiled => ProgramsAreCompiled
    BY LookupsFound DEF ProgramsAreCompiled
  <1> QED
    BY InitCompiled, NextCompiled, <1>1, PTL DEF Spec

-----------------------------------------------------------------------------
(***************************************************************************)
(* Counts.                                                                 *)
(***************************************************************************)
LEMMA TwoParts ==
  ASSUME NEW A, NEW B, IsFiniteSet(A), IsFiniteSet(B), A \cap B = {}
  PROVE  /\ IsFiniteSet(A \cup B)
         /\ Cardinality(A) \in Nat /\ Cardinality(B) \in Nat
         /\ Cardinality(A \cup B) = Cardinality(A) + Cardinality(B)
  <1>1. Cardinality(A) \in Nat /\ Cardinality(B) \in Nat
    BY FS_CardinalityType
  <1>2. Cardinality(A \cap B) = 0
    BY FS_EmptySet, Zenon
  <1>3. /\ IsFiniteSet(A \cup B)
        /\ Cardinality(A \cup B) = Cardinality(A) + Cardinality(B) - Cardinality(A \cap B)
    BY FS_Union, Zenon
  <1> DEFINE a == Cardinality(A)
             b == Cardinality(B)
             c == Cardinality(A \cap B)
             u == Cardinality(A \cup B)
  <1>4. a \in Nat /\ b \in Nat /\ c = 0 /\ u = a + b - c
    BY <1>1, <1>2, <1>3
  <1> HIDE DEF a, b, c, u
  <1>5. u = a + b
    BY <1>4
  <1> QED
    BY <1>1, <1>3, <1>5 DEF a, b, u

LEMMA FourParts ==
  ASSUME NEW A, NEW B, NEW C, NEW D, NEW U, IsFiniteSet(U),
         A \cup B \cup C \cup D = U,
         A \cap B = {}, (A \cup B) \cap C = {}, (A \cup B \cup C) \cap D = {}
  PROVE  Cardinality(A) + Cardinality(B) + Cardinality(C) + Cardinality(D) = Cardinality(U)
  <1>1. \A T \in SUBSET U : IsFiniteSet(T)
    BY FS_Subset
  <1>2. IsFiniteSet(A) /\ IsFiniteSet(B) /\ IsFiniteSet(C) /\ IsFiniteSet(D)
    BY <1>1
  <1> DEFINE AB  == A \cup B
             ABC == AB \cup C
  <1>3. /\ IsFiniteSet(AB) /\ Cardinality(A) \in Nat /\ Cardinality(B) \in Nat
        /\ Cardinality(AB) = Cardinality(A) + Cardinality(B)
    BY <1>2, TwoParts, Zenon
  <1>4. AB \cap C = {} /\ ABC \cap D = {} /\ ABC \cup D = U
    OBVIOUS
  <1> HIDE DEF AB
  <1>5. /\ IsFiniteSet(ABC) /\ Cardinality(C) \in Nat
        /\ Cardinality(ABC) = Cardinality(AB) + Cardinality(C)
    BY <1>2, <1>3, <1>4, TwoParts, Zenon
  <1> HIDE DEF ABC
  <1>6. Cardinality(D) \in Nat /\ Cardinality(ABC \cup D) = Cardinality(ABC) + Cardinality(D)
    BY <1>2, <1>4, <1>5, TwoParts, Zenon
  <1>7. Cardinality(ABC \cup D) = Cardinality(U)
    BY <1>4
  <1> QED
    BY <1>3, <1>5, <1>6, <1>7

\* Every DiffRow belongs to the row of positions.csv at its index, has one of the
\* four verdicts, and a difference without a sign.
DiffRows ==
  /\ IsSeq(diffs)
  /\ \A i \in DOMAIN diffs : /\ i \in DOMAIN rows
                           /\ diffs[i].id = rows[i].id
                           /\ diffs[i].verdict \in Verdicts
                           /\ diffs[i].delta \in Nat \cup {NotFinite}

LEMMA CountsAddUp ==
  ASSUME DiffRows
  PROVE  LET v == Counts.verdict IN
         /\ Counts.total \in Nat /\ Counts.total = Len(diffs)
         /\ v["MATCH"] + v["DIFF"] + v["NO_RULE"] + v["ERROR"] = Counts.total
         /\ Counts.under1 + Counts.under100 + Counts.under1000 + Counts.over1000 = v["DIFF"]
  <1> DEFINE all  == 1..Len(diffs)
             low  == Bucket(0, 100)
             mid  == Bucket(100, 10000)
             high == Bucket(10000, 100000)
             over == {i \in RowsWith("DIFF") : ~Under(diffs[i], 100000)}
  <1>1. Len(diffs) \in Nat /\ DOMAIN diffs = all
    BY DEF DiffRows, IsSeq
  <1>2. IsFiniteSet(all) /\ Cardinality(all) = Len(diffs)
    <2>1. ASSUME NEW n \in Nat PROVE IsFiniteSet(1..n) /\ Cardinality(1..n) = n
      <3>1. IsFiniteSet(1..n) /\ Cardinality(1..n) = IF 1 > n THEN 0 ELSE n - 1 + 1
        BY FS_Interval
      <3> QED
        BY <3>1
    <2> QED
      BY <1>1, <2>1
  <1>3. Cardinality(RowsWith("MATCH")) + Cardinality(RowsWith("DIFF"))
          + Cardinality(RowsWith("NO_RULE")) + Cardinality(RowsWith("ERROR")) = Len(diffs)
    <2>1. RowsWith("MATCH") \cup RowsWith("DIFF") \cup RowsWith("NO_RULE") \cup RowsWith("ERROR") = all
      BY <1>1 DEF RowsWith, DiffRows, Verdicts
    <2>2. /\ RowsWith("MATCH") \cap RowsWith("DIFF") = {}
          /\ (RowsWith("MATCH") \cup RowsWith("DIFF")) \cap RowsWith("NO_RULE") = {}
          /\ (RowsWith("MATCH") \cup RowsWith("DIFF") \cup RowsWith("NO_RULE")) \cap RowsWith("ERROR") = {}
      BY DEF RowsWith
    <2> QED
      BY <1>2, <2>1, <2>2, FourParts
  <1>4. Cardinality(low) + Cardinality(mid) + Cardinality(high) + Cardinality(over)
          = Cardinality(RowsWith("DIFF"))
    <2>1. low \cup mid \cup high \cup over = RowsWith("DIFF")
      BY <1>1, NotFiniteAssumption DEF RowsWith, Bucket, Between, Under, Finite, DiffRows
    <2>2. low \cap mid = {} /\ (low \cup mid) \cap high = {} /\ (low \cup mid \cup high) \cap over = {}
      BY <1>1, NotFiniteAssumption DEF RowsWith, Bucket, Between, Under, Finite, DiffRows
    <2>3. IsFiniteSet(RowsWith("DIFF"))
      BY <1>1, <1>2, FS_Subset DEF RowsWith
    <2> QED
      BY <2>1, <2>2, <2>3, FourParts
  <1> QED
    BY <1>1, <1>3, <1>4 DEF Counts, Verdicts

-----------------------------------------------------------------------------
(***************************************************************************)
(* The command.                                                            *)
(***************************************************************************)
\* Nothing but the rulebook is there while files are loaded; the engine works
\* on the first row without a DiffRow.
Command ==
  /\ pc \in {"load", "run", "exit 0", "exit 1"}
  /\ rb.state \in {"none", "loaded", "failed"}
  /\ pc = "load" => rows = <<>> /\ positions = <<>> /\ diffs = <<>> /\ outcome = Idle /\ call = NoCall
  /\ DOMAIN positions = DOMAIN rows
  /\ outcome # Idle => Row \in DOMAIN rows
  /\ outcome \in {Idle, Scanning, Outcome("invalid"), Outcome("norule")}
     \/ (Answer(outcome) /\ outcome.kind # "no")
  /\ call.rule \in 0..(Len(rb.rules) + 1)

ReconInv ==
  /\ Compiled /\ AnswersFirst /\ Command /\ DiffRows
  /\ summary.total \in Nat
  /\ SummaryAddsUp

LEMMA EmptyIsSeq == IsSeq(<<>>) /\ DOMAIN <<>> = {} /\ Len(<<>>) = 0
  <1>1. <<>> \in Seq({})
    OBVIOUS
  <1> QED
    BY <1>1 DEF IsSeq

LEMMA InitInv == Init => ReconInv
  <1> SUFFICES ASSUME Init PROVE ReconInv
    OBVIOUS
  <1>1. Compiled
    BY InitCompiled
  <1>2. AnswersFirst
    BY KindsDiffer DEF Init, DispatchInit, AnswersFirst, NoCall, Returned
  <1>3. Command
    <2>1. rb.state = "none" /\ rb.rules = <<>>
      BY DEF Init, DispatchInit, NoRulebook
    <2>2. call.rule = 0
      BY DEF Init, DispatchInit, NoCall
    <2>3. outcome = Idle /\ call = NoCall
      BY DEF Init, DispatchInit
    <2> QED
      BY EmptyIsSeq, <2>1, <2>2, <2>3 DEF Init, Command
  <1>4. DiffRows
    BY EmptyIsSeq DEF Init, DiffRows
  <1>5. summary.total \in Nat /\ SummaryAddsUp
    BY DEF Init, NoSummary, SummaryAddsUp
  <1> QED
    BY <1>1, <1>2, <1>3, <1>4, <1>5 DEF ReconInv

LEMMA InvTypes == ReconInv => TypeOK
  <1> SUFFICES ASSUME ReconInv PROVE TypeOK
    OBVIOUS
  <1>1. outcome.kind \in Kinds
    <2>1. /\ Idle.kind = "idle" /\ Scanning.kind = "scanning"
          /\ Outcome("invalid").kind = "invalid" /\ Outcome("norule").kind = "norule"
      BY DEF Outcome, Idle, Scanning
    <2>2. Answer(outcome) => outcome.kind \in {"no", "requires", "error", "result"}
      BY DEF Answer, Answered
    <2> QED
      BY <2>1, <2>2 DEF ReconInv, Command, Kinds
  <1> QED
    BY <1>1 DEF ReconInv, Command, DiffRows, TypeOK

LEMMA LoadRulesInv == ReconInv /\ LoadRules => ReconInv'
  <1> SUFFICES ASSUME ReconInv, LoadRules PROVE ReconInv'
    OBVIOUS
  <1>1. PICK raw \in Rulebooks : LoadRulebook(raw)
    BY DEF LoadRules
  <1>2. pc = "load" /\ UNCHANGED reconVars /\ call' = call /\ outcome' = outcome
    BY <1>1 DEF LoadRules, LoadRulebook
  <1>3. Compiled'
    BY <1>1, RulebooksAssumption, LoadCompiles
  <1>4. outcome = Idle /\ call = NoCall
    BY <1>2 DEF ReconInv, Command
  <1>5. AnswersFirst'
    BY <1>2, <1>4, KindsDiffer DEF ReconInv, AnswersFirst, Returned
  <1>6. rb'.state \in {"loaded", "failed"}
    BY <1>1 DEF LoadRulebook, NoRulebook
  <1>7. call'.rule \in 0..(Len(rb'.rules) + 1)
    <2>1. Len(rb'.rules) \in Nat
      BY <1>3 DEF Compiled
    <2>2. call'.rule = 0
      BY <1>2, <1>4 DEF NoCall
    <2> QED
      BY <2>1, <2>2
  <1>8. Command'
    BY <1>2, <1>4, <1>6, <1>7 DEF ReconInv, Command, Row
  <1>9. DiffRows' /\ (summary.total \in Nat)' /\ SummaryAddsUp'
    BY <1>2 DEF ReconInv, DiffRows, SummaryAddsUp
  <1> QED
    BY <1>3, <1>5, <1>8, <1>9 DEF ReconInv

LEMMA LoadPositionsInv == ReconInv /\ LoadPositions => ReconInv'
  <1> SUFFICES ASSUME ReconInv, LoadPositions PROVE ReconInv'
    OBVIOUS
  <1>1. /\ UNCHANGED dispatchVars /\ diffs' = diffs /\ summary' = summary
        /\ pc = "load" /\ pc' \in {"run", "exit 1"}
    BY DEF LoadPositions
  <1>2. DOMAIN positions' = DOMAIN rows'
    BY DEF LoadPositions, ReconInv, Command
  <1>3. diffs = <<>> /\ outcome = Idle
    BY <1>1 DEF ReconInv, Command
  <1>4. Compiled' /\ AnswersFirst'
    BY <1>1 DEF ReconInv, Compiled, AnswersFirst, Returned, RuleSays, FirstToDecide, Decided
  <1>5. Command'
    BY <1>1, <1>2, <1>3 DEF ReconInv, Command
  <1>6. DiffRows' /\ (summary.total \in Nat)' /\ SummaryAddsUp'
    BY <1>1, <1>3, EmptyIsSeq DEF ReconInv, DiffRows, SummaryAddsUp
  <1> QED
    BY <1>4, <1>5, <1>6 DEF ReconInv

LEMMA EvaluateRowInv == ReconInv /\ EvaluateRow => ReconInv'
  <1> SUFFICES ASSUME ReconInv, EvaluateRow PROVE ReconInv'
    OBVIOUS
  <1>1. /\ pc = "run" /\ Row \in DOMAIN rows /\ UNCHANGED reconVars /\ rb' = rb
        /\ call'.rule = 1 /\ outcome' \in {Scanning, Outcome("invalid")}
    BY DEF EvaluateRow, Evaluate
  <1>2. AnswersFirst'
    BY ScanStarts DEF EvaluateRow, ReconInv
  <1>3. Compiled'
    BY <1>1 DEF ReconInv, Compiled
  <1>4. Command'
    <2>1. Len(rb.rules) \in Nat
      BY DEF ReconInv, Compiled
    <2> QED
      BY <1>1, <2>1 DEF ReconInv, Command, Row
  <1>5. DiffRows' /\ (summary.total \in Nat)' /\ SummaryAddsUp'
    BY <1>1 DEF ReconInv, DiffRows, SummaryAddsUp
  <1> QED
    BY <1>2, <1>3, <1>4, <1>5 DEF ReconInv

LEMMA TryRowInv == ReconInv /\ TryRow => ReconInv'
  <1> SUFFICES ASSUME ReconInv, TryRow PROVE ReconInv'
    OBVIOUS
  <1>1. pc = "run" /\ UNCHANGED reconVars /\ rb' = rb /\ outcome = Scanning /\ TryRules
    BY DEF TryRow, TryRules, RuleDeclines, RuleDecides, NoRuleMatched
  <1>2. AnswersFirst'
    BY <1>1, ScanGoesOn DEF ReconInv
  <1>3. Compiled'
    BY <1>1 DEF ReconInv, Compiled
  <1>4. outcome' \in {Scanning, Outcome("norule")} \/ (Answer(outcome') /\ outcome'.kind # "no")
    BY <1>1, EvaluateOneAnswers DEF TryRules, RuleDeclines, RuleDecides, NoRuleMatched, Asked
  <1>5. call'.rule \in 0..(Len(rb'.rules) + 1)
    <2>1. Len(rb.rules) \in Nat /\ DOMAIN rb.rules = 1..Len(rb.rules)
      BY DEF ReconInv, Compiled
    <2>2. CASE RuleDeclines
      <3>1. call' = [call EXCEPT !.rule = call.rule + 1] /\ call.rule \in 1..Len(rb.rules)
        BY <2>1, <2>2 DEF RuleDeclines
      <3>2. call'.rule = call.rule + 1
        BY <3>1 DEF ReconInv, AnswersFirst
      <3> QED
        BY <1>1, <2>1, <3>1, <3>2
    <2>3. CASE call' = call
      BY <1>1, <2>3 DEF ReconInv, Command
    <2> QED
      BY <1>1, <2>2, <2>3 DEF TryRules, RuleDecides, NoRuleMatched
  <1>6. Command'
    BY <1>1, <1>4, <1>5, KindsDiffer DEF ReconInv, Command, Row
  <1>7. DiffRows' /\ (summary.total \in Nat)' /\ SummaryAddsUp'
    BY <1>1 DEF ReconInv, DiffRows, SummaryAddsUp
  <1> QED
    BY <1>2, <1>3, <1>6, <1>7 DEF ReconInv

LEMMA RecordRowInv == ReconInv /\ RecordRow => ReconInv'
  <1> SUFFICES ASSUME ReconInv, RecordRow PROVE ReconInv'
    OBVIOUS
  <1> DEFINE vendor == rows[Row].vendor
             delta  == IF outcome.kind = "result" THEN Difference(outcome.res.req, vendor) ELSE 0
             d      == [id |-> rows[Row].id, vendor |-> vendor,
                        verdict |-> Verdict(outcome, vendor), rule |-> outcome.res.rule,
                        req |-> outcome.res.req, cashCall |-> outcome.res.cashCall,
                        delta |-> delta]
  <1>1. /\ pc = "run" /\ Returned /\ diffs' = Append(diffs, d) /\ outcome' = Idle
        /\ UNCHANGED <<rb, call, pc, csv, tolerance, rows, positions, summary>>
    BY DEF RecordRow
  <1>2. Row \in DOMAIN rows
    BY <1>1 DEF ReconInv, Command, Returned
  <1>3. Verdict(outcome, vendor) \in Verdicts
    BY DEF Verdict, Verdicts
  <1>4. delta \in Nat \cup {NotFinite}
    <2>1. outcome.kind = "result" => outcome.res.req \in Int
      <3>1. \A k \in {"idle", "scanning", "invalid", "norule"} : Outcome(k).kind # "result"
        BY DEF Outcome
      <3> QED
        BY <3>1 DEF ReconInv, Command, Answer, Idle, Scanning
    <2> QED
      BY <2>1 DEF Difference, Abs, Finite
  <1>5. d.id = rows[Row].id /\ d.verdict \in Verdicts /\ d.delta \in Nat \cup {NotFinite}
    BY <1>3, <1>4
  <1> HIDE DEF d
  <1>6. /\ IsSeq(diffs') /\ Len(diffs) \in Nat
        /\ DOMAIN diffs = 1..Len(diffs) /\ DOMAIN diffs' = 1..(Len(diffs) + 1)
        /\ \A i \in 1..Len(diffs) : diffs'[i] = diffs[i]
        /\ diffs'[Len(diffs) + 1] = d
    BY <1>1, AppendFacts DEF ReconInv, DiffRows
  <1>7. DiffRows'
    <2> SUFFICES ASSUME NEW i \in DOMAIN diffs'
                 PROVE  /\ i \in DOMAIN rows
                        /\ diffs'[i].id = rows[i].id
                        /\ diffs'[i].verdict \in Verdicts
                        /\ diffs'[i].delta \in Nat \cup {NotFinite}
      BY <1>1, <1>6 DEF DiffRows
    <2>1. CASE i \in DOMAIN diffs
      BY <1>6, <2>1 DEF ReconInv, DiffRows
    <2>2. CASE i = Row
      BY <1>2, <1>5, <1>6, <2>2 DEF Row
    <2> QED
      BY <1>6, <2>1, <2>2 DEF Row
  <1>8. Compiled' /\ AnswersFirst'
    BY <1>1 DEF ReconInv, Compiled, AnswersFirst, Returned, Scanning, Idle, Outcome
  <1>9. Command'
    BY <1>1 DEF ReconInv, Command
  <1>10. (summary.total \in Nat)' /\ SummaryAddsUp'
    BY <1>1 DEF ReconInv, SummaryAddsUp
  <1> QED
    BY <1>7, <1>8, <1>9, <1>10 DEF ReconInv

LEMMA SummarizeInv == ReconInv /\ Summarize => ReconInv'
  <1> SUFFICES ASSUME ReconInv, Summarize PROVE ReconInv'
    OBVIOUS
  <1>1. /\ pc = "run" /\ pc' = "exit 0" /\ Len(diffs) = Len(rows) /\ summary' = Counts
        /\ UNCHANGED <<rb, call, outcome, csv, tolerance, rows, positions, diffs>>
    BY DEF Summarize
  <1>2. DiffRows
    BY DEF ReconInv
  <1>3. (summary.total \in Nat)' /\ SummaryAddsUp'
    BY <1>1, <1>2, CountsAddUp DEF SummaryAddsUp
  <1>4. Compiled' /\ AnswersFirst' /\ DiffRows'
    BY <1>1 DEF ReconInv, Compiled, AnswersFirst, DiffRows, Returned, RuleSays, FirstToDecide, Decided
  <1>5. Command'
    BY <1>1 DEF ReconInv, Command, Row
  <1> QED
    BY <1>3, <1>4, <1>5 DEF ReconInv

LEMMA NextInv == ReconInv /\ [Next]_vars => ReconInv'
  <1> SUFFICES ASSUME ReconInv, [Next]_vars PROVE ReconInv'
    OBVIOUS
  <1>1. CASE RulesFailed \/ WriteFails
    <2>1. /\ pc \in {"load", "run"} /\ pc' = "exit 1"
          /\ UNCHANGED <<rb, call, outcome, csv, tolerance, rows, positions, diffs, summary>>
      BY <1>1 DEF RulesFailed, WriteFails
    <2>2. Compiled' /\ AnswersFirst' /\ DiffRows'
      BY <2>1 DEF ReconInv, Compiled, AnswersFirst, DiffRows, Returned, RuleSays, FirstToDecide, Decided
    <2>3. Command' /\ (summary.total \in Nat)' /\ SummaryAddsUp'
      BY <2>1 DEF ReconInv, Command, Row, SummaryAddsUp
    <2> QED
      BY <2>2, <2>3 DEF ReconInv
  <1>2. CASE UNCHANGED vars
    <2>1. Compiled' /\ AnswersFirst' /\ DiffRows'
      BY <1>2 DEF ReconInv, Compiled, AnswersFirst, DiffRows, Returned, RuleSays, FirstToDecide, Decided
    <2>2. Command' /\ (summary.total \in Nat)' /\ SummaryAddsUp'
      BY <1>2 DEF ReconInv, Command, Row, SummaryAddsUp
    <2> QED
      BY <2>1, <2>2 DEF ReconInv
  <1> QED
    BY <1>1, <1>2, LoadRulesInv, LoadPositionsInv, EvaluateRowInv, TryRowInv, RecordRowInv,
       SummarizeInv DEF Next

\* The types of the command's variables: whatever the files hold, a DiffRow is
\* that of the row at its index and its difference has no sign.
THEOREM ReconTypes == Spec => []TypeOK
  BY InitInv, NextInv, InvTypes, PTL DEF Spec

\* Summarize puts every row in exactly one count and every DIFF, that of a
\* vendor number that is not finite too, in exactly one bucket.
THEOREM SummaryPartitions == Spec => []SummaryAddsUp
  <1>1. ReconInv => SummaryAddsUp
    BY DEF ReconInv
  <1> QED
    BY InitInv, NextInv, <1>1, PTL DEF Spec

\* What Evaluate returns of a row is what the first rule that does not decline
\* says of the prepared position, or a refusal of it.
THEOREM EvaluateAnswersFirst == Spec => []AnswersFirst
  <1>1. ReconInv => AnswersFirst
    BY DEF ReconInv
  <1> QED
    BY InitInv, NextInv, <1>1, PTL DEF Spec
-----------------------------------------------------------------------------
(***************************************************************************)
(* The rows.  While the engine works, it works on the prepared position of *)
(* the row that is next, for that row's account and phase; what it returns *)
(* is therefore what it says of that row, and the rulebook, the rows and   *)
(* the positions are no longer written once there is one.                  *)
(***************************************************************************)
\* The rows and the positions the two files hold, and what the engine says of one
\* of them, asked of the files alone.
LegRows == LET legs == ReadCSV(csv.legs) IN [i \in DOMAIN legs |-> ParseLeg(legs[i])]

FileRow(i) == ParsePositionRow(ReadCSV(csv.positions)[i])

FilePosition(i) == PositionOf(FileRow(i), LegsOf(LegRows, FileRow(i).id))

SaysOfRow(i) ==
  LET p == Prepared(FilePosition(i)) IN
  IF ValidPosition(p) THEN FirstToDecide(p, FileRow(i).account, FileRow(i).phase)
  ELSE Outcome("invalid")

\* The DiffRow of a row of which the engine says o.
DiffRow(row, o) ==
  [id |-> row.id, vendor |-> row.vendor, verdict |-> Verdict(o, row.vendor),
   rule |-> o.res.rule, req |-> o.res.req, cashCall |-> o.res.cashCall,
   delta |-> IF o.kind = "result" THEN Difference(o.res.req, row.vendor) ELSE 0]

\* Every DiffRow is made of its own row of positions.csv and of what the engine says
\* of that row's legs, sorted: no answer is another row's, whatever the row before it
\* was refused for or found no rule for; and no row is skipped.
RowsAnswered ==
  /\ \A i \in DOMAIN diffs : diffs[i] = DiffRow(FileRow(i), SaysOfRow(i))
  /\ pc = "exit 0" => Len(diffs) = Len(ReadCSV(csv.positions))

\* Once they are loaded, the rows and the positions are those of the files.
FromFiles ==
  /\ csv \in Files
  /\ (pc \in {"run", "exit 0"} \/ DOMAIN rows # {}) =>
       /\ \A i \in DOMAIN ReadCSV(csv.legs) : ~BadLeg(ReadCSV(csv.legs)[i])
       /\ rows = [i \in DOMAIN ReadCSV(csv.positions) |-> FileRow(i)]
       /\ positions = [i \in DOMAIN ReadCSV(csv.positions) |-> FilePosition(i)]

AtRow ==
  outcome # Idle => /\ call.pos = Prepared(positions[Row])
                    /\ call.account = rows[Row].account
                    /\ call.phase = rows[Row].phase

RowsInv == ReconInv /\ FromFiles /\ AtRow /\ RowsAnswered

LEMMA ReadCSVFacts ==
  ASSUME NEW file, file \in Seq(Members(file))
  PROVE  /\ IsSeq(ReadCSV(file)) /\ Len(ReadCSV(file)) \in Nat
         /\ DOMAIN ReadCSV(file) = 1..Len(ReadCSV(file))
         /\ Members(ReadCSV(file)) = Members(file) \ {EmptyRow}
  <1> DEFINE is == {i \in DOMAIN file : file[i] # EmptyRow}
  <1>1. Len(file) \in Nat /\ DOMAIN file = 1..Len(file)
    BY DEF Members
  <1>2. IsFiniteSet(is) /\ is \subseteq Int
    <2>1. IsFiniteSet(1..Len(file))
      BY <1>1, FS_Interval
    <2> QED
      BY <1>1, <2>1, FS_Subset
  <1>3. ReadCSV(file) = Selection(file, is)
    BY DEF ReadCSV
  <1>4. {file[i] : i \in is} = Members(file) \ {EmptyRow}
    BY DEF Members
  <1> HIDE DEF is
  <1>5. /\ IsSeq(Selection(file, is))
        /\ Cardinality(is) \in Nat /\ Len(Selection(file, is)) = Cardinality(is)
        /\ DOMAIN Selection(file, is) = 1..Cardinality(is)
        /\ Members(Selection(file, is)) = {file[i] : i \in is}
    BY <1>2, SelectionFacts, Zenon
  <1> QED
    BY <1>3, <1>4, <1>5

\* There are as many rows as positions.csv has, once they are loaded.
LEMMA RowsOfFile ==
  ASSUME FromFiles, pc \in {"run", "exit 0"}
  PROVE  Len(rows) = Len(ReadCSV(csv.positions))
  <1> DEFINE n == Len(ReadCSV(csv.positions))
  <1>1. csv.positions \in Seq(Members(csv.positions))
    BY FilesAssumption DEF FromFiles
  <1>2. n \in Nat /\ DOMAIN ReadCSV(csv.positions) = 1..n
    BY <1>1, ReadCSVFacts
  <1>3. rows = [i \in 1..n |-> FileRow(i)]
    BY <1>2 DEF FromFiles
  <1> HIDE DEF n
  <1>4. rows = [i \in 1..n |-> rows[i]]
    BY <1>3
  <1>5. Len(rows) = n
    BY <1>2, <1>4, ListIsSeq
  <1> QED
    BY <1>5 DEF n

LEMMA InitRows == Init => RowsInv
  <1> SUFFICES ASSUME Init PROVE RowsInv
    OBVIOUS
  <1>1. outcome = Idle /\ diffs = <<>> /\ pc = "load" /\ rows = <<>> /\ csv \in Files
    BY DEF Init, DispatchInit
  <1> QED
    BY <1>1, InitInv, EmptyIsSeq DEF RowsInv, FromFiles, AtRow, RowsAnswered

\* What the files hold, and what the engine says of it, depends on nothing that
\* evaluating changes.
LEMMA FilesStay ==
  ASSUME UNCHANGED csv
  PROVE  \A i : FileRow(i)' = FileRow(i) /\ FilePosition(i)' = FilePosition(i)
  BY DEF FileRow, FilePosition, LegRows

LEMMA SaysStay ==
  ASSUME UNCHANGED <<rb, csv>>
  PROVE  \A i : SaysOfRow(i)' = SaysOfRow(i)
  <1>1. \A p : Prepared(p)' = Prepared(p)
    BY DEF Prepared
  <1>2. \A p, account, phase : FirstToDecide(p, account, phase)' = FirstToDecide(p, account, phase)
    BY DEF FirstToDecide, Decided
  <1> QED
    BY <1>1, <1>2, FilesStay DEF SaysOfRow

LEMMA DiffRowStays ==
  ASSUME UNCHANGED tolerance
  PROVE  \A row, o : DiffRow(row, o)' = DiffRow(row, o)
  BY DEF DiffRow, Verdict

\* Steps that write no DiffRow and none of what the DiffRows are made of.
LEMMA RowsStay ==
  ASSUME RowsInv, UNCHANGED <<rb, csv, tolerance, rows, positions, diffs>>,
         pc' = pc \/ pc' = "exit 1" \/ (pc = "run" /\ Len(diffs) = Len(rows))
  PROVE  FromFiles' /\ RowsAnswered'
  <1>1. FromFiles'
    <2>1. FromFiles
      BY DEF RowsInv
    <2>2. pc' \in {"run", "exit 0"} => pc \in {"run", "exit 0"}
      OBVIOUS
    <2> QED
      BY <2>1, <2>2, FilesStay DEF FromFiles
  <1>2. pc' = "exit 0" => Len(diffs) = Len(ReadCSV(csv.positions))
    BY RowsOfFile DEF RowsInv, RowsAnswered
  <1>3. \A i : DiffRow(FileRow(i), SaysOfRow(i))' = DiffRow(FileRow(i), SaysOfRow(i))
    BY FilesStay, SaysStay, DiffRowStays
  <1> QED
    BY <1>1, <1>2, <1>3 DEF RowsInv, RowsAnswered

\* Before the first DiffRow anything may be loaded.
LEMMA LoadRows ==
  ASSUME RowsInv, LoadRules \/ LoadPositions
  PROVE  FromFiles' /\ AtRow' /\ RowsAnswered'
  <1>1. pc = "load" /\ pc' # "exit 0" /\ diffs' = diffs /\ outcome' = outcome /\ csv' = csv
    BY DEF LoadRules, LoadRulebook, LoadPositions
  <1>2. diffs = <<>> /\ outcome = Idle /\ rows = <<>>
    BY <1>1 DEF RowsInv, ReconInv, Command
  <1>3. AtRow' /\ RowsAnswered'
    BY <1>1, <1>2, EmptyIsSeq DEF AtRow, RowsAnswered, Idle, Outcome
  <1>4. csv' \in Files
    BY <1>1 DEF RowsInv, FromFiles
  <1>5. ASSUME pc' \in {"load", "exit 1"}, rows' = rows PROVE FromFiles'
    BY <1>2, <1>4, <1>5, EmptyIsSeq DEF FromFiles
  <1>6. CASE LoadRules
    BY <1>1, <1>3, <1>5, <1>6 DEF LoadRules
  <1>7. CASE LoadPositions /\ pc' = "run"
    <2> DEFINE parsed == ReadCSV(csv.positions)
               legs   == ReadCSV(csv.legs)
               prs    == [i \in DOMAIN parsed |-> ParsePositionRow(parsed[i])]
    <2>1. /\ \A i \in DOMAIN legs : ~BadLeg(legs[i])
          /\ rows' = prs
          /\ positions' = [i \in DOMAIN prs |-> PositionOf(prs[i], LegsOf(LegRows, prs[i].id))]
      BY <1>7 DEF LoadPositions, LegRows
    <2>2. prs = [i \in DOMAIN parsed |-> FileRow(i)]
      BY DEF FileRow
    <2>3. /\ rows' = [i \in DOMAIN parsed |-> FileRow(i)]
          /\ positions' = [i \in DOMAIN parsed |-> FilePosition(i)]
      BY <2>1, <2>2 DEF FilePosition
    <2>4. FromFiles'
      BY <1>1, <1>4, <2>1, <2>3, FilesStay DEF FromFiles
    <2> QED
      BY <1>3, <2>4
  <1>8. CASE LoadPositions /\ pc' = "exit 1"
    BY <1>3, <1>5, <1>8 DEF LoadPositions
  <1> QED
    BY <1>6, <1>7, <1>8 DEF LoadPositions

LEMMA EvaluateRows ==
  ASSUME RowsInv, EvaluateRow
  PROVE  FromFiles' /\ AtRow' /\ RowsAnswered'
  <1>1. /\ pc = "run" /\ UNCHANGED reconVars /\ rb' = rb
        /\ Evaluate(positions[Row], rows[Row].account, rows[Row].phase)
    BY DEF EvaluateRow, Evaluate
  <1>2. call'.pos = Prepared(positions[Row]) /\ call'.account = rows[Row].account
        /\ call'.phase = rows[Row].phase
    BY <1>1, ScanStarts DEF RowsInv, ReconInv
  <1>3. AtRow'
    BY <1>1, <1>2 DEF AtRow, Prepared, Row
  <1> QED
    BY <1>1, <1>3, RowsStay

LEMMA TryRows ==
  ASSUME RowsInv, TryRow
  PROVE  FromFiles' /\ AtRow' /\ RowsAnswered'
  <1>1. /\ pc = "run" /\ UNCHANGED reconVars /\ rb' = rb /\ outcome = Scanning /\ TryRules
    BY DEF TryRow, TryRules, RuleDeclines, RuleDecides, NoRuleMatched
  <1>2. call'.pos = call.pos /\ call'.account = call.account /\ call'.phase = call.phase
    BY <1>1, ScanGoesOn DEF RowsInv, ReconInv
  <1>3. AtRow'
    BY <1>1, <1>2, KindsDiffer DEF RowsInv, AtRow, Prepared, Row
  <1> QED
    BY <1>1, <1>3, RowsStay

\* What has been returned is what the engine says of the row that is next.
LEMMA ReturnedOfRow ==
  ASSUME RowsInv, pc = "run", Returned
  PROVE  Row \in DOMAIN rows /\ rows[Row] = FileRow(Row) /\ outcome = SaysOfRow(Row)
  <1>1. outcome # Idle
    BY DEF Returned
  <1>2. Row \in DOMAIN rows
    BY <1>1 DEF RowsInv, ReconInv, Command
  <1>3. rows[Row] = FileRow(Row) /\ positions[Row] = FilePosition(Row)
    BY <1>2 DEF RowsInv, FromFiles
  <1>4. /\ call.pos = Prepared(FilePosition(Row)) /\ call.account = FileRow(Row).account
        /\ call.phase = FileRow(Row).phase
    BY <1>1, <1>3 DEF RowsInv, AtRow
  <1> QED
    BY <1>2, <1>3, <1>4 DEF RowsInv, ReconInv, AnswersFirst, SaysOfRow

LEMMA RecordRows ==
  ASSUME RowsInv, RecordRow
  PROVE  FromFiles' /\ AtRow' /\ RowsAnswered'
  <1>1. /\ pc = "run" /\ Returned /\ diffs' = Append(diffs, DiffRow(rows[Row], outcome))
        /\ outcome' = Idle /\ UNCHANGED <<rb, call, pc, csv, tolerance, rows, positions, summary>>
    BY DEF RecordRow, DiffRow
  <1>2. AtRow'
    BY <1>1 DEF AtRow, Idle, Outcome
  <1>3. FromFiles'
    BY <1>1, FilesStay DEF RowsInv, FromFiles
  <1>4. rows[Row] = FileRow(Row) /\ outcome = SaysOfRow(Row)
    BY <1>1, ReturnedOfRow
  <1>5. /\ Len(diffs) \in Nat /\ DOMAIN diffs = 1..Len(diffs)
        /\ DOMAIN diffs' = 1..(Len(diffs) + 1)
        /\ \A i \in 1..Len(diffs) : diffs'[i] = diffs[i]
        /\ diffs'[Row] = DiffRow(rows[Row], outcome)
    BY <1>1, AppendFacts DEF RowsInv, ReconInv, DiffRows, Row
  <1>6. ASSUME NEW i \in DOMAIN diffs'
        PROVE  diffs'[i] = DiffRow(FileRow(i), SaysOfRow(i))
    <2>1. i \in DOMAIN diffs \/ i = Row
      BY <1>5 DEF Row
    <2>2. CASE i \in DOMAIN diffs
      BY <1>5, <2>2 DEF RowsInv, RowsAnswered
    <2>3. CASE i = Row
      BY <1>4, <1>5, <2>3
    <2> QED
      BY <2>1, <2>2, <2>3
  <1>7. \A i : DiffRow(FileRow(i), SaysOfRow(i))' = DiffRow(FileRow(i), SaysOfRow(i))
    BY <1>1, FilesStay, SaysStay, DiffRowStays
  <1> QED
    BY <1>1, <1>2, <1>3, <1>6, <1>7 DEF RowsAnswered

LEMMA EndRows ==
  ASSUME RowsInv, UNCHANGED vars \/ RulesFailed \/ WriteFails \/ Summarize
  PROVE  FromFiles' /\ AtRow' /\ RowsAnswered'
  <1>1. UNCHANGED <<rb, call, outcome, csv, tolerance, rows, positions, diffs>>
    BY DEF RulesFailed, WriteFails, Summarize
  <1>2. pc' = pc \/ pc' = "exit 1" \/ (pc = "run" /\ Len(diffs) = Len(rows))
    BY DEF RulesFailed, WriteFails, Summarize
  <1>3. AtRow'
    BY <1>1 DEF RowsInv, AtRow, Prepared, Row
  <1> QED
    BY <1>1, <1>2, <1>3, RowsStay

LEMMA NextRows == RowsInv /\ [Next]_vars => RowsInv'
  <1> SUFFICES ASSUME RowsInv, [Next]_vars PROVE RowsInv'
    OBVIOUS
  <1>1. ReconInv'
    BY NextInv DEF RowsInv
  <1>2. FromFiles' /\ AtRow' /\ RowsAnswered'
    BY LoadRows, EvaluateRows, TryRows, RecordRows, EndRows DEF Next
  <1> QED
    BY <1>1, <1>2 DEF RowsInv

\* Run's loop keeps rows and answers together: for every rulebook, both files and
\* every tolerance, the DiffRow at an index is made of that row and of what the
\* first rule that does not decline says of that row's position.
THEOREM RowsAreAnswered == Spec => []RowsAnswered
  <1>1. RowsInv => RowsAnswered
    BY DEF RowsInv
  <1> QED
    BY InitRows, NextRows, <1>1, PTL DEF Spec
-----------------------------------------------------------------------------
(***************************************************************************)
(* The legs.                                                               *)
(***************************************************************************)
\* The lines of legs.csv that are of a row, and their order in its position.
LinesOf(id) == {i \in DOMAIN LegRows : LegRows[i].id = id}

LineBefore(i, j) ==
  \/ LegRows[i].index < LegRows[j].index
  \/ LegRows[i].index = LegRows[j].index /\ i < j

\* The legs of a position are the lines of its row, each once, by leg_index and, of
\* one leg_index, in the order of the file: none is lost, repeated, or another row's.
LegsGathered ==
  \A p \in DOMAIN positions :
    LET mine == LinesOf(rows[p].id) IN
    \E f \in [1..Cardinality(mine) -> mine] :
      /\ positions[p].legs = [n \in 1..Cardinality(mine) |-> LegRows[f[n]]]
      /\ \A i \in mine : \E n \in 1..Cardinality(mine) : f[n] = i
      /\ \A m, n \in 1..Cardinality(mine) : m < n => LineBefore(f[m], f[n])

\* A row whose legs, in the order of their lines, the engine refuses is an ERROR.
RefusalsTold ==
  \A i \in DOMAIN diffs :
    ~ValidPosition(Prepared(PositionOf(FileRow(i), LegsInFile(FileRow(i).id))))
      => diffs[i].verdict = "ERROR"

\* The parsed legs have numbers for their indexes.
LEMMA LegRowsFacts ==
  ASSUME FromFiles, \A i \in DOMAIN ReadCSV(csv.legs) : ~BadLeg(ReadCSV(csv.legs)[i])
  PROVE  /\ DOMAIN LegRows \in SUBSET Int /\ IsFiniteSet(DOMAIN LegRows)
         /\ DOMAIN LegRows = DOMAIN ReadCSV(csv.legs)
         /\ \A i \in DOMAIN LegRows : /\ LegRows[i].index \in Int
                                    /\ LegRows[i].id = ReadCSV(csv.legs)[i].id
                                    /\ LegRows[i] = ParseLeg(ReadCSV(csv.legs)[i])
                                    /\ LegColumns \subseteq DOMAIN LegRows[i]
  <1> DEFINE legs == ReadCSV(csv.legs)
  <1>1. /\ csv.legs \in Seq(Members(csv.legs))
        /\ \A l \in Members(csv.legs) \ {EmptyRow} :
             LegColumns \subseteq DOMAIN l /\ l.index \in Int \cup {Blank, Garbled}
    BY FilesAssumption DEF FromFiles
  <1>2. /\ Len(legs) \in Nat /\ DOMAIN legs = 1..Len(legs)
        /\ Members(legs) = Members(csv.legs) \ {EmptyRow}
    BY <1>1, ReadCSVFacts
  <1>3. DOMAIN LegRows = DOMAIN legs /\ \A i \in DOMAIN legs : LegRows[i] = ParseLeg(legs[i])
    BY DEF LegRows
  <1>4. IsFiniteSet(1..Len(legs))
    BY <1>2, FS_Interval
  <1>5. ASSUME NEW i \in DOMAIN legs
        PROVE  /\ ParseLeg(legs[i]).index \in Int /\ ParseLeg(legs[i]).id = legs[i].id
               /\ LegColumns \subseteq DOMAIN ParseLeg(legs[i])
    <2>1. legs[i] \in Members(csv.legs) \ {EmptyRow}
      BY <1>2 DEF Members
    <2>2. /\ LegColumns \subseteq DOMAIN legs[i]
          /\ "id" \in DOMAIN legs[i] /\ "index" \in DOMAIN legs[i]
          /\ legs[i].index \in Int \cup {Blank, Garbled}
      BY <1>1, <2>1 DEF LegColumns
    <2>3. legs[i].index # Garbled
      BY DEF BadLeg
    <2> HIDE DEF legs
    <2>4. ParseLeg(legs[i]).index = Cell(legs[i].index) /\ ParseLeg(legs[i]).id = legs[i].id
      BY <2>2 DEF ParseLeg, LegCells
    <2>5. Cell(legs[i].index) \in Int
      BY <2>2, <2>3 DEF Cell
    <2>6. DOMAIN ParseLeg(legs[i]) = DOMAIN legs[i]
      BY DEF ParseLeg
    <2> QED
      BY <2>2, <2>4, <2>5, <2>6
  <1> QED
    BY <1>2, <1>3, <1>4, <1>5

LEMMA LegsSorted ==
  ASSUME DOMAIN LegRows \in SUBSET Int, IsFiniteSet(DOMAIN LegRows),
         \A i \in DOMAIN LegRows : LegRows[i].index \in Int, NEW id
  PROVE  LET mine == LinesOf(id) IN
         \E f \in [1..Cardinality(mine) -> mine] :
           /\ LegsOf(LegRows, id) = [n \in 1..Cardinality(mine) |-> LegRows[f[n]]]
           /\ \A i \in mine : \E n \in 1..Cardinality(mine) : f[n] = i
           /\ \A m, n \in 1..Cardinality(mine) : m < n => LineBefore(f[m], f[n])
  <1> DEFINE mine == LinesOf(id)
             E == {e \in mine \X mine : LineBefore(e[1], e[2])}
             f == Ranking(mine, E)
             N == Cardinality(mine)
  <1>1. mine \in SUBSET Int /\ IsFiniteSet(mine) /\ \A i \in mine : LegRows[i].index \in Int
    BY FS_Subset DEF LinesOf
  <1>2. \A i, j \in mine : <<i, j>> \in E <=> LineBefore(i, j)
    OBVIOUS
  <1>3. LegsOf(LegRows, id) = [n \in 1..N |-> LegRows[f[n]]]
    <2>1. \A i \in mine : {j \in mine : <<j, i>> \in E} = {j \in mine : LineBefore(j, i)}
      BY <1>2
    <2>2. \A n \in 1..N :
            f[n] = CHOOSE i \in mine : Cardinality({j \in mine : LineBefore(j, i)}) = n - 1
      BY <2>1 DEF Ranking, RankIn
    <2>3. LegsOf(LegRows, id) =
            [n \in 1..N |->
               LegRows[CHOOSE i \in mine : Cardinality({j \in mine : LineBefore(j, i)}) = n - 1]]
      BY DEF LegsOf, LinesOf, LineBefore
    <2> QED
      BY <2>2, <2>3
  <1>4. StrictOrder(mine, E)
    <2>1. \A i \in mine : ~LineBefore(i, i)
      BY <1>1 DEF LineBefore
    <2>2. \A i, j, k \in mine : LineBefore(i, j) /\ LineBefore(j, k) => LineBefore(i, k)
      BY <1>1 DEF LineBefore
    <2>3. \A i, j \in mine : i = j \/ LineBefore(i, j) \/ LineBefore(j, i)
      BY <1>1 DEF LineBefore
    <2> QED
      BY <1>2, <2>1, <2>2, <2>3 DEF StrictOrder
  <1> HIDE DEF E, mine
  <1>5. /\ f \in [1..N -> mine]
        /\ \A i \in mine : \E n \in 1..N : f[n] = i
        /\ \A m, n \in 1..N : m < n => <<f[m], f[n]>> \in E
    BY <1>1, <1>4, Ranked, Zenon
  <1> HIDE DEF f, N
  <1>6. \A m, n \in 1..N : m < n => LineBefore(f[m], f[n])
    BY <1>2, <1>5
  <1> QED
    BY <1>3, <1>5, <1>6 DEF mine, N

LEMMA InvGathers == RowsInv => LegsGathered
  <1> SUFFICES ASSUME RowsInv, NEW p \in DOMAIN positions
               PROVE  LET mine == LinesOf(rows[p].id) IN
                      \E f \in [1..Cardinality(mine) -> mine] :
                        /\ positions[p].legs = [n \in 1..Cardinality(mine) |-> LegRows[f[n]]]
                        /\ \A i \in mine : \E n \in 1..Cardinality(mine) : f[n] = i
                        /\ \A m, n \in 1..Cardinality(mine) : m < n => LineBefore(f[m], f[n])
    BY DEF LegsGathered
  <1>1. FromFiles /\ p \in DOMAIN rows
    BY DEF RowsInv, ReconInv, Command
  <1>2. /\ \A i \in DOMAIN ReadCSV(csv.legs) : ~BadLeg(ReadCSV(csv.legs)[i])
        /\ rows[p] = FileRow(p) /\ positions[p] = FilePosition(p)
    BY <1>1 DEF FromFiles
  <1>3. positions[p].legs = LegsOf(LegRows, rows[p].id)
    BY <1>2 DEF FilePosition, PositionOf
  <1> QED
    BY <1>1, <1>2, <1>3, LegRowsFacts, LegsSorted, Zenon

\* loadLegs gathers the legs of every position and sorts them, whatever the order,
\* the indexes and the ids of the lines of the file.
THEOREM LegsAreGathered == Spec => []LegsGathered
  BY InitRows, NextRows, InvGathers, PTL DEF Spec

\* preparePosition gives a leg the multiplier of the rulebook where it has none.
Filled(l) == IF l.mult = 0 THEN [l EXCEPT !.mult = rb.mult] ELSE l

LEMMA PreparedIs ==
  ASSUME NEW row, NEW legs
  PROVE  LET x == Prepared(PositionOf(row, legs)) IN
         /\ x.U = row.U /\ x.class = row.class
         /\ x.lev = IF row.lev = 0 THEN 1 ELSE row.lev
         /\ x.legs = [i \in DOMAIN legs |-> Filled(legs[i])]
  <1> DEFINE x == PositionOf(row, legs)
             lev == IF row.lev = 0 THEN 1 ELSE row.lev
             full == [i \in DOMAIN legs |-> Filled(legs[i])]
  <1>1. x = [U |-> row.U, class |-> row.class, lev |-> row.lev, legs |-> legs]
    BY DEF PositionOf
  <1>2. Prepared(x) = [x EXCEPT !.lev = lev, !.legs = full]
    BY <1>1 DEF Prepared, Filled
  <1> HIDE DEF lev, full, x
  <1>3. Prepared(x) = [U |-> row.U, class |-> row.class, lev |-> lev, legs |-> full]
    BY <1>1, <1>2
  <1> QED
    BY <1>3 DEF lev, full, x

\* Whether a position is valid does not depend on the order of its legs.
LEMMA ValidInAnyOrder ==
  ASSUME NEW row, NEW s, NEW t, Members(s) = Members(t),
         ValidPosition(Prepared(PositionOf(row, s)))
  PROVE  ValidPosition(Prepared(PositionOf(row, t)))
  <1> DEFINE p == Prepared(PositionOf(row, s))
             q == Prepared(PositionOf(row, t))
  <1>1. /\ p.U = row.U /\ p.class = row.class /\ p.lev = IF row.lev = 0 THEN 1 ELSE row.lev
        /\ p.legs = [i \in DOMAIN s |-> Filled(s[i])]
    BY PreparedIs
  <1>2. /\ q.U = row.U /\ q.class = row.class /\ q.lev = IF row.lev = 0 THEN 1 ELSE row.lev
        /\ q.legs = [i \in DOMAIN t |-> Filled(t[i])]
    BY PreparedIs
  <1> HIDE DEF p, q
  <1>3. \A i \in DOMAIN s : ValidLeg(Filled(s[i]))
    <2>1. ValidPosition(p)
      BY DEF p
    <2> QED
      BY <1>1, <2>1 DEF ValidPosition
  <1>4. \A l \in Members(t) : ValidLeg(Filled(l))
    BY <1>3 DEF Members
  <1>5. \A i \in DOMAIN q.legs : ValidLeg(q.legs[i])
    BY <1>2, <1>4 DEF Members
  <1>6. Positive(p.U) /\ p.class # "" /\ Positive(p.lev)
    BY DEF ValidPosition, p
  <1>7. q.U = p.U /\ q.class = p.class /\ q.lev = p.lev
    BY <1>1, <1>2
  <1> QED
    BY <1>5, <1>6, <1>7 DEF ValidPosition, q

\* In the order of the file and in that of the position, the legs are the same.
LEMMA SameLegs ==
  ASSUME FromFiles, \A i \in DOMAIN ReadCSV(csv.legs) : ~BadLeg(ReadCSV(csv.legs)[i]), NEW id
  PROVE  Members(LegsInFile(id)) = Members(LegsOf(LegRows, id))
  <1> DEFINE legs == ReadCSV(csv.legs)
             is   == {i \in DOMAIN legs : legs[i].id = id}
             mine == Selection(legs, is)
             ls   == {LegRows[i] : i \in LinesOf(id)}
  <1>1. /\ DOMAIN LegRows \in SUBSET Int /\ IsFiniteSet(DOMAIN LegRows)
        /\ DOMAIN LegRows = DOMAIN legs
        /\ \A i \in DOMAIN LegRows : /\ LegRows[i].index \in Int
                                   /\ LegRows[i].id = legs[i].id
                                   /\ LegRows[i] = ParseLeg(legs[i])
    BY LegRowsFacts
  <1>2. is = LinesOf(id)
    BY <1>1 DEF LinesOf
  <1>3. Members(LegsInFile(id)) = ls
    <2>1. is \subseteq Int /\ IsFiniteSet(is)
      BY <1>1, FS_Subset
    <2>2. LegsInFile(id) = [i \in DOMAIN mine |-> ParseLeg(mine[i])]
      BY DEF LegsInFile
    <2> HIDE DEF is
    <2>3. Members(mine) = {legs[i] : i \in is}
      BY <2>1, SelectionFacts, Zenon
    <2>4. Members(LegsInFile(id)) = {ParseLeg(l) : l \in Members(mine)}
      BY <2>2 DEF Members
    <2>5. {ParseLeg(l) : l \in Members(mine)} = {ParseLeg(legs[i]) : i \in is}
      BY <2>3
    <2>6. \A i \in is : LegRows[i] = ParseLeg(legs[i])
      BY <1>1, <1>2 DEF LinesOf
    <2> QED
      BY <1>2, <2>4, <2>5, <2>6
  <1>4. Members(LegsOf(LegRows, id)) = ls
    <2> DEFINE N == Cardinality(LinesOf(id))
    <2>1. PICK f \in [1..N -> LinesOf(id)] :
            /\ LegsOf(LegRows, id) = [n \in 1..N |-> LegRows[f[n]]]
            /\ \A i \in LinesOf(id) : \E n \in 1..N : f[n] = i
            /\ \A m, n \in 1..N : m < n => LineBefore(f[m], f[n])
      BY <1>1, LegsSorted, Zenon
    <2> HIDE DEF N
    <2>2. Members(LegsOf(LegRows, id)) = {LegRows[f[n]] : n \in 1..N}
      BY <2>1 DEF Members
    <2> QED
      BY <2>1, <2>2
  <1> QED
    BY <1>3, <1>4

LEMMA InvTells == RowsInv => RefusalsTold
  <1> SUFFICES ASSUME RowsInv, NEW i \in DOMAIN diffs,
                      ~ValidPosition(Prepared(PositionOf(FileRow(i), LegsInFile(FileRow(i).id))))
               PROVE  diffs[i].verdict = "ERROR"
    BY DEF RefusalsTold
  <1>1. i \in DOMAIN rows /\ FromFiles /\ diffs[i] = DiffRow(FileRow(i), SaysOfRow(i))
    BY DEF RowsInv, ReconInv, DiffRows, RowsAnswered
  <1>2. \A j \in DOMAIN ReadCSV(csv.legs) : ~BadLeg(ReadCSV(csv.legs)[j])
    BY <1>1 DEF FromFiles
  <1>3. Members(LegsInFile(FileRow(i).id)) = Members(LegsOf(LegRows, FileRow(i).id))
    BY <1>1, <1>2, SameLegs
  <1>4. ~ValidPosition(Prepared(FilePosition(i)))
    BY <1>3, ValidInAnyOrder DEF FilePosition
  <1>5. SaysOfRow(i) = Outcome("invalid")
    BY <1>4 DEF SaysOfRow
  <1> QED
    BY <1>1, <1>5 DEF DiffRow, Verdict, Outcome

\* A position that validatePosition refuses is reported as an error, in whatever
\* order the lines of its legs come, and never as one without a rule.
THEOREM RefusalsAreTold == Spec => []RefusalsTold
  BY InitRows, NextRows, InvTells, PTL DEF Spec

-----------------------------------------------------------------------------
(***************************************************************************)
(* The entry points.                                                       *)
(***************************************************************************)
\* The first of the results of a scan that does not fail is that of the first
\* rule that does not decline.
LEMMA AllAgree ==
  ASSUME AnswersFirst, Compiled, ValidCall, Returned
  PROVE  Agrees(EvaluateAll(call.pos, call.account, call.phase))
  <1> DEFINE D == DOMAIN rb.rules
             said == [i \in D |-> EvaluateOne(rb.rules[i], call.pos, call.account, call.phase)]
             gives == {i \in D : said[i].kind = "result"}
             all == EvaluateAll(call.pos, call.account, call.phase)
             decides == Decided(call.pos, call.account, call.phase)
  <1>1. D \in SUBSET Int /\ IsFiniteSet(D)
    <2>1. Len(rb.rules) \in Nat /\ D = 1..Len(rb.rules)
      BY DEF Compiled
    <2> QED
      BY <2>1, FS_Interval
  <1>2. gives \in SUBSET D /\ gives \in SUBSET Int /\ IsFiniteSet(gives)
    BY <1>1, FS_Subset
  <1>3. \A i \in D : Answer(said[i])
    BY EvaluateOneAnswers
  <1>4. /\ all.fails <=> \E i \in D : said[i].kind \in {"requires", "error"}
        /\ all.results = Selection(said, gives)
    BY DEF EvaluateAll
  <1>5. decides = {i \in D : said[i].kind # "no"}
    BY DEF Decided
  <1>6. outcome = IF decides = {} THEN Outcome("norule") ELSE said[FirstOf(decides)]
    <2>1. outcome.kind # "invalid" /\ Outcome("invalid").kind = "invalid"
      BY DEF ValidCall, Outcome
    <2>2. outcome = FirstToDecide(call.pos, call.account, call.phase)
      BY <2>1 DEF AnswersFirst
    <2>3. decides # {} => FirstOf(decides) \in D
      <3>1. ASSUME decides # {} PROVE FirstOf(decides) \in decides
        <4>1. decides \in SUBSET Int /\ IsFiniteSet(decides)
          BY <1>1, <1>5, FS_Subset
        <4> HIDE DEF decides
        <4> QED
          BY <3>1, <4>1, FirstIsNth
      <3> QED
        BY <3>1, <1>5
    <2> QED
      BY <2>2, <2>3 DEF FirstToDecide
  <1> HIDE DEF D, said, gives, all, decides
  <1>7. IsFiniteSet(decides) /\ decides \in SUBSET Int /\ decides \subseteq D
    BY <1>1, <1>5, FS_Subset
  <1>8. decides # {} => FirstOf(decides) \in decides
    BY <1>7, FirstIsNth
  <1>9. ASSUME ~all.fails PROVE decides = gives
    <2>1. \A i \in D : said[i].kind \in {"no", "result"}
      BY <1>3, <1>4, <1>9 DEF Answer, Answered
    <2> QED
      BY <1>5, <2>1 DEF gives
  <1>10. /\ Cardinality(gives) \in Nat
         /\ Len(all.results) = Cardinality(gives) /\ DOMAIN all.results = 1..Cardinality(gives)
         /\ \A n \in 1..Cardinality(gives) :
              Nth(gives, n) \in gives /\ all.results[n] = said[Nth(gives, n)]
    <2>1. gives \subseteq Int
      BY <1>2
    <2>2. /\ Cardinality(gives) \in Nat
          /\ Len(Selection(said, gives)) = Cardinality(gives)
          /\ DOMAIN Selection(said, gives) = 1..Cardinality(gives)
          /\ \A n \in 1..Cardinality(gives) :
               Nth(gives, n) \in gives /\ Selection(said, gives)[n] = said[Nth(gives, n)]
      BY <1>2, <2>1, SelectionFacts, Zenon
    <2> QED
      BY <1>4, <2>2
  <1>11. gives = {} <=> Cardinality(gives) = 0
    BY <1>2, FS_EmptySet
  <1>12. ASSUME ~all.fails, all.results # <<>> PROVE outcome = all.results[1]
    <2>1. Cardinality(gives) # 0
      <3>1. ASSUME Cardinality(gives) = 0 PROVE FALSE
        <4>1. all.results = [n \in 1..Cardinality(gives) |-> said[Nth(gives, n)]]
          BY <1>4 DEF Selection
        <4>2. 1..Cardinality(gives) = {}
          BY <3>1
        <4> QED
          BY <1>12, <4>1, <4>2
      <3> QED
        BY <3>1
    <2>2. 1 \in 1..Cardinality(gives)
      BY <1>10, <2>1
    <2>3. Nth(gives, 1) = FirstOf(gives)
      <3>1. gives # {}
        BY <1>11, <2>1
      <3> QED
        BY <1>2, <3>1, FirstIsNth
    <2>4. decides = gives /\ decides # {}
      BY <1>9, <1>11, <1>12, <2>1
    <2> QED
      BY <1>6, <1>10, <2>2, <2>3, <2>4
  <1>13. ASSUME ~all.fails, all.results = <<>> PROVE outcome.kind = "norule"
    <2>1. DOMAIN all.results = {}
      BY <1>13
    <2>2. Cardinality(gives) = 0
      BY <1>10, <2>1
    <2> QED
      BY <1>6, <1>9, <1>11, <1>13, <2>2 DEF Outcome
  <1>14. ASSUME outcome.kind \in {"requires", "error"} PROVE all.fails
    <2>1. decides # {}
      BY <1>6, <1>14 DEF Outcome
    <2>2. FirstOf(decides) \in D /\ outcome = said[FirstOf(decides)]
      BY <1>6, <1>7, <1>8, <2>1
    <2> QED
      BY <1>4, <1>14, <2>2
  <1>15. Agrees(all)
    BY <1>12, <1>13, <1>14 DEF Agrees
  <1> QED
    BY <1>15 DEF all

\* Where EvaluateAll does not fail, its first result is what Evaluate returns, and
\* it has none where Evaluate finds no rule; and where a rule that Evaluate comes to
\* fails, so does EvaluateAll.
THEOREM EntryPointsAgree == Spec => []EvaluateAllAgrees
  <1>1. ReconInv /\ Compiled => EvaluateAllAgrees
    BY AllAgree DEF EvaluateAllAgrees, ReconInv, Command
  <1> QED
    BY InitInv, InitCompiled, NextInv, NextCompiled, <1>1, PTL DEF Spec

-----------------------------------------------------------------------------
(***************************************************************************)
(* Payoffs.  As the price at expiration rises, the payoff of options is a  *)
(* line that bends at their strikes.  Beyond the last of them it falls     *)
(* only where the calls together are short; otherwise the loss is greatest *)
(* at zero or at a strike, and those are the prices mpl looks at.          *)
(***************************************************************************)
\* What B!Larger(0, n) is.
AtLeastZero(n) == IF 0 >= n THEN 0 ELSE n

\* The shares n contracts of an option are on.
Weight(l, n) == (IF l.side = "short" THEN -1 ELSE 1) * n * l.mult

\* What n contracts of the option l pay at a price.
Pays(l, n, price) ==
  Weight(l, n) * (IF l.type = "call" THEN AtLeastZero(price - l.K) ELSE AtLeastZero(l.K - price))

\* v lists what the n options of a list pay.
PaidBy(b, a, p, price, n, v) ==
  Len(a) = n /\ \A i \in 1..n : v[i] = Pays(b[a[i]], p[i], price) /\ v[i] \in Int

\* PayoffAt adds up along a list: its recursive function exists, and is the sum.
LEMMA PayoffIsSum ==
  ASSUME NEW b, NEW a, NEW p, NEW x, NEW n \in Nat, NEW v, PaidBy(b, a, p, x, n, v)
  PROVE  R!B(b)!PayoffAt(a, p, x) = Sum(v, 1..n)
  <1> USE DEF PaidBy
  <1> DEFINE Up(g) == g = [i \in 0..n |-> IF i = 0 THEN 0 ELSE g[i - 1] + Pays(b[a[i]], p[i], x)]
  <1>1. \E g : Up(g)
    <2> DEFINE g == [i \in 0..n |-> Sum(v, 1..i)]
    <2>1. ASSUME NEW i \in 0..n
          PROVE  g[i] = IF i = 0 THEN 0 ELSE g[i - 1] + Pays(b[a[i]], p[i], x)
      <3>1. i \in Nat /\ \A j \in 1..i : v[j] \in Int
        OBVIOUS
      <3>2. /\ i = 0 => Sum(v, 1..i) = 0
            /\ i > 0 => Sum(v, 1..i) = Sum(v, 1..(i - 1)) + v[i]
        BY <3>1, SumUpTo
      <3>3. i # 0 => i - 1 \in 0..n /\ i > 0 /\ v[i] = Pays(b[a[i]], p[i], x)
        OBVIOUS
      <3> QED
        BY <3>2, <3>3
    <2>2. Up(g)
      BY <2>1
    <2> QED
      BY <2>2
  <1>2. ASSUME NEW g, Up(g) PROVE g[n] = Sum(v, 1..n)
    <2> DEFINE D == {k \in 0..n : g[k] # Sum(v, 1..k)}
    <2>1. ASSUME NEW k \in D, \A m \in D : k <= m PROVE FALSE
      <3>1. k \in Nat /\ k \in 0..n /\ \A j \in 1..k : v[j] \in Int
        OBVIOUS
      <3>2. /\ k = 0 => Sum(v, 1..k) = 0
            /\ k > 0 => Sum(v, 1..k) = Sum(v, 1..(k - 1)) + v[k]
        BY <3>1, SumUpTo
      <3>3. g[k] = IF k = 0 THEN 0 ELSE g[k - 1] + Pays(b[a[k]], p[k], x)
        BY <1>2, <3>1
      <3>4. CASE k = 0
        BY <3>2, <3>3, <3>4
      <3>5. CASE k # 0
        <4>1. k - 1 \in 0..n /\ k - 1 \notin D /\ v[k] = Pays(b[a[k]], p[k], x)
          BY <2>1, <3>1, <3>5
        <4>2. g[k - 1] = Sum(v, 1..(k - 1))
          BY <4>1
        <4> QED
          BY <3>1, <3>2, <3>3, <3>5, <4>1, <4>2
      <3> QED
        BY <3>4, <3>5
    <2>2. D = {}
      <3>1. D \in SUBSET Nat
        OBVIOUS
      <3> HIDE DEF D
      <3> QED
        BY <2>1, <3>1, LeastNatural
    <2> QED
      BY <2>2
  <1>3. R!B(b)!PayoffAt(a, p, x) = (CHOOSE g : Up(g))[n]
    BY DEF R!B!PayoffAt, R!B!Larger, Pays, Weight, AtLeastZero
  <1> HIDE DEF Up
  <1>4. Up(CHOOSE g : Up(g))
    BY <1>1
  <1> QED
    BY <1>2, <1>3, <1>4

\* How fast the payoff of an option of weight w grows right above a price.
Slope(l, w, K, price) ==
  IF l.type = "call" THEN (IF K <= price THEN w ELSE 0) ELSE (IF K <= price THEN 0 ELSE -w)

\* A leg's payoff is a line between two prices between which its strike is not.
LEMMA PaysAlong ==
  ASSUME NEW l, NEW m, NEW w \in Int, w = Weight(l, m), NEW K \in Nat, K = l.K,
         NEW lo \in Nat, NEW y \in Nat, lo <= y, K <= lo \/ K >= y
  PROVE  /\ Pays(l, m, y) \in Int /\ Pays(l, m, lo) \in Int
         /\ Pays(l, m, y) = Pays(l, m, lo) + (y - lo) * Slope(l, w, K, lo)
  <1> DEFINE above(z) == AtLeastZero(z - K)
             below(z) == AtLeastZero(K - z)
             up == IF K <= lo THEN 1 ELSE 0
             down == IF K <= lo THEN 0 ELSE -1
  <1>1. /\ Pays(l, m, y) = w * (IF l.type = "call" THEN above(y) ELSE below(y))
        /\ Pays(l, m, lo) = w * (IF l.type = "call" THEN above(lo) ELSE below(lo))
    BY DEF Pays
  <1>2. /\ above(y) \in Int /\ above(lo) \in Int /\ below(y) \in Int /\ below(lo) \in Int
        /\ above(y) = above(lo) + (y - lo) * up
        /\ below(y) = below(lo) + (y - lo) * down
        /\ y - lo \in Int /\ up \in Int /\ down \in Int
    BY DEF AtLeastZero
  <1>5. /\ w * up = IF K <= lo THEN w ELSE 0
        /\ w * down = IF K <= lo THEN 0 ELSE -w
    OBVIOUS
  <1> HIDE DEF above, below, up, down
  <1>3. \A u, v, d, s \in Int : u = v + d * s => w * u = w * v + d * (w * s)
    OBVIOUS
  <1>4. /\ w * above(y) = w * above(lo) + (y - lo) * (w * up)
        /\ w * below(y) = w * below(lo) + (y - lo) * (w * down)
    BY ONLY <1>2, <1>3
  <1>6. \A u \in Int : w * u \in Int
    OBVIOUS
  <1> QED
    BY <1>1, <1>2, <1>4, <1>5, <1>6 DEF Slope

\* a lists n options of b, and p says how many contracts of each.
Listed(b, a, p, n) ==
  /\ Len(a) = n /\ DOMAIN a = 1..n
  /\ \A i \in 1..n : Weight(b[a[i]], p[i]) \in Int /\ b[a[i]].K \in Nat

\* c is what the calls of the list weigh.
CallsWeigh(b, a, p, n, c) ==
  \A i \in 1..n : c[i] = IF b[a[i]].type = "call" THEN Weight(b[a[i]], p[i]) ELSE 0

\* The loss at every price is at most the loss at one of the sampled prices, where
\* the calls together are not short.
LEMMA LossIsSampled ==
  ASSUME NEW b, NEW a, NEW p, NEW n \in Nat, Listed(b, a, p, n),
         NEW c, CallsWeigh(b, a, p, n, c), Sum(c, 1..n) >= 0, NEW x \in Nat
  PROVE  /\ R!B(b)!MaxPotentialLoss(a, p) \in Int
         /\ R!B(b)!PayoffAt(a, p, x) \in Int
         /\ -100 * R!B(b)!PayoffAt(a, p, x) <= R!B(b)!MaxPotentialLoss(a, p)
  <1>0. Len(a) = n /\ DOMAIN a = 1..n
    BY DEF Listed
  <1>w. PICK w : \A i \in 1..n : w[i] = Weight(b[a[i]], p[i]) /\ w[i] \in Int
    <2> DEFINE q == [i \in 1..n |-> Weight(b[a[i]], p[i])]
    <2>1. \A i \in 1..n : q[i] = Weight(b[a[i]], p[i]) /\ q[i] \in Int
      BY DEF Listed
    <2> QED
      BY <2>1
  <1>c. \A i \in 1..n : c[i] = IF b[a[i]].type = "call" THEN w[i] ELSE 0
    BY <1>w DEF CallsWeigh
  <1>1. PICK k : \A i \in 1..n : k[i] = b[a[i]].K /\ k[i] \in Nat
    <2> DEFINE q == [i \in 1..n |-> b[a[i]].K]
    <2>1. \A i \in 1..n : q[i] = b[a[i]].K /\ q[i] \in Nat
      BY DEF Listed
    <2> QED
      BY <2>1
  <1>2. PICK v : \A y \in Nat, i \in 1..n : v[y][i] = Pays(b[a[i]], p[i], y)
    <2> DEFINE q == [y \in Nat |-> [i \in 1..n |-> Pays(b[a[i]], p[i], y)]]
    <2>1. \A y \in Nat, i \in 1..n : q[y][i] = Pays(b[a[i]], p[i], y)
      OBVIOUS
    <2> HIDE DEF q
    <2> QED
      BY <2>1
  <1>3. ASSUME NEW y \in Nat, NEW i \in 1..n PROVE v[y][i] = Pays(b[a[i]], p[i], y)
    BY <1>2
  <1>4. PICK s : \A y \in Nat, i \in 1..n : s[y][i] = Slope(b[a[i]], w[i], k[i], y)
    <2> DEFINE q == [y \in Nat |-> [i \in 1..n |-> Slope(b[a[i]], w[i], k[i], y)]]
    <2>1. \A y \in Nat, i \in 1..n : q[y][i] = Slope(b[a[i]], w[i], k[i], y)
      OBVIOUS
    <2> HIDE DEF q
    <2> QED
      BY <2>1
  <1>5. ASSUME NEW i \in 1..n, NEW lo \in Nat, NEW y \in Nat, lo <= y, k[i] <= lo \/ k[i] >= y
        PROVE  v[y][i] \in Int /\ v[y][i] = v[lo][i] + (y - lo) * s[lo][i]
    <2>1. /\ w[i] \in Int /\ w[i] = Weight(b[a[i]], p[i])
          /\ k[i] \in Nat /\ k[i] = b[a[i]].K
      BY <1>1, <1>w
    <2>2. /\ Pays(b[a[i]], p[i], y) \in Int
          /\ Pays(b[a[i]], p[i], y) =
               Pays(b[a[i]], p[i], lo) + (y - lo) * Slope(b[a[i]], w[i], k[i], lo)
      BY ONLY <1>5, <2>1, PaysAlong
    <2>3. v[y][i] = Pays(b[a[i]], p[i], y) /\ v[lo][i] = Pays(b[a[i]], p[i], lo)
      BY <1>3
    <2>4. s[lo][i] = Slope(b[a[i]], w[i], k[i], lo)
      BY <1>4
    <2> QED
      BY ONLY Zenon, <2>2, <2>3, <2>4
  <1>6. ASSUME NEW y \in Nat, NEW i \in 1..n PROVE v[y][i] \in Int /\ s[y][i] \in Int
    <2>1. y <= y /\ (k[i] <= y \/ k[i] >= y)
      BY <1>1
    <2>2. s[y][i] \in Int
      BY <1>4, <1>w DEF Slope
    <2> QED
      BY <1>5, <2>1, <2>2
  <1>7. PICK f : \A y \in Nat : f[y] = R!B(b)!PayoffAt(a, p, y)
    <2> DEFINE q == [y \in Nat |-> R!B(b)!PayoffAt(a, p, y)]
    <2>1. \A y \in Nat : q[y] = R!B(b)!PayoffAt(a, p, y)
      OBVIOUS
    <2> QED
      BY <2>1
  <1>8. PICK g : \A y \in Nat : g[y] = Sum(s[y], 1..n)
    <2> DEFINE q == [y \in Nat |-> Sum(s[y], 1..n)]
    <2>1. \A y \in Nat : q[y] = Sum(s[y], 1..n)
      OBVIOUS
    <2> QED
      BY <2>1
  <1>9. IsFiniteSet(1..n)
    BY IndexesFinite
  <1>10. ASSUME NEW y \in Nat
         PROVE  f[y] = Sum(v[y], 1..n) /\ f[y] \in Int /\ g[y] \in Int
    <2>1. \A i \in 1..n : v[y][i] \in Int
      BY <1>6
    <2>2. \A i \in 1..n : s[y][i] \in Int
      BY <1>6
    <2>3. \A i \in 1..n : v[y][i] = Pays(b[a[i]], p[i], y) /\ v[y][i] \in Int
      BY <1>2, <2>1
    <2>4. R!B(b)!PayoffAt(a, p, y) = Sum(v[y], 1..n)
      BY <1>0, <2>3, PayoffIsSum DEF PaidBy
    <2>5. Sum(v[y], 1..n) \in Int /\ Sum(s[y], 1..n) \in Int
      BY <1>9, <2>1, <2>2, SumType
    <2> QED
      BY Zenon, <1>7, <1>8, <2>4, <2>5
  <1>11. ASSUME NEW lo \in Nat, NEW y \in Nat, lo <= y,
                \A i \in 1..n : k[i] <= lo \/ k[i] >= y
         PROVE  f[y] = f[lo] + (y - lo) * g[lo]
    <2>1. \A i \in 1..n : /\ v[lo][i] \in Int /\ s[lo][i] \in Int
                          /\ v[y][i] = v[lo][i] + (y - lo) * s[lo][i]
      BY <1>5, <1>6, <1>11
    <2>2. PICK d \in Int : d = y - lo
      OBVIOUS
    <2>4. \A i \in 1..n : /\ v[lo][i] \in Int /\ s[lo][i] \in Int
                          /\ v[y][i] = v[lo][i] + d * s[lo][i]
      BY ONLY <2>1, <2>2
    <2>3. Sum(v[y], 1..n) = Sum(v[lo], 1..n) + d * Sum(s[lo], 1..n)
      <3>1. PICK T : T = 1..n
        OBVIOUS
      <3>2. PICK u0 : u0 = v[lo]
        OBVIOUS
      <3>3. PICK u1 : u1 = s[lo]
        OBVIOUS
      <3>4. PICK u2 : u2 = v[y]
        OBVIOUS
      <3>5. IsFiniteSet(T)
        BY <1>9, <3>1
      <3>6. \A i \in T : u0[i] \in Int /\ u1[i] \in Int /\ u2[i] = u0[i] + d * u1[i]
        BY ONLY <2>4, <3>1, <3>2, <3>3, <3>4
      <3>7. Sum(u2, T) = Sum(u0, T) + d * Sum(u1, T)
        BY ONLY <3>5, <3>6, d \in Int, SumMoves
      <3> QED
        BY ONLY <3>1, <3>2, <3>3, <3>4, <3>7
    <2> QED
      BY Zenon, <1>8, <1>10, <2>2, <2>3
  <1>12. ASSUME NEW lo \in Nat, \A i \in 1..n : k[i] <= lo
         PROVE  g[lo] >= 0
    <2>1. \A i \in 1..n : s[lo][i] = c[i]
      BY <1>4, <1>12, <1>c DEF Slope
    <2>2. Sum(s[lo], 1..n) = Sum(c, 1..n)
      BY ONLY Zenon, <1>9, <2>1, SumSame
    <2>3. g[lo] = Sum(c, 1..n)
      BY Zenon, <1>8, <2>2
    <2> QED
      BY Zenon, <2>3
  <1> DEFINE S == {0} \cup {k[i] : i \in 1..n}
             M == {0} \cup {-f[y] : y \in S}
  <1>13. \E y \in S : f[y] <= f[x]
    <2>1. \A y \in Nat : f[y] \in Int
      BY <1>10
    <2>2. \A y \in Nat : g[y] \in Int
      BY <1>10
    <2>3. \A lo, y \in Nat : (lo <= y /\ (\A i \in 1..n : k[i] <= lo \/ k[i] >= y)) =>
                               f[y] = f[lo] + (y - lo) * g[lo]
      BY <1>11
    <2>4. \A lo \in Nat : (\A i \in 1..n : k[i] <= lo) => g[lo] >= 0
      BY <1>12
    <2>5. \A i \in 1..n : k[i] \in Nat
      BY <1>1
    <2>6. Bends(n, k, f, g)
      BY ONLY <2>1, <2>2, <2>3, <2>4, <2>5 DEF Bends
    <2>7. \E y \in Samples(n, k) : f[y] <= f[x]
      BY <2>6, LowestAtBend
    <2> QED
      BY <2>7 DEF Samples
  <1>14. S \in SUBSET Nat /\ IsFiniteSet(S)
    <2>1. IsFiniteSet({k[i] : i \in 1..n})
      BY <1>9, ImageFinite
    <2>2. IsFiniteSet({k[i] : i \in 1..n} \cup {0})
      BY <2>1, FS_AddElement
    <2>3. S = {k[i] : i \in 1..n} \cup {0}
      OBVIOUS
    <2>4. IsFiniteSet(S)
      BY ONLY Zenon, <2>2, <2>3
    <2>5. S \in SUBSET Nat
      BY <1>1
    <2> QED
      BY <2>4, <2>5
  <1>15. R!B(b)!MaxPotentialLoss(a, p) = 100 * (CHOOSE z \in M : \A u \in M : z >= u)
    <2>1. S = {0} \cup {b[a[i]].K : i \in 1..n}
      BY <1>1
    <2> HIDE DEF S
    <2>2. M = {0} \cup {-R!B(b)!PayoffAt(a, p, y) : y \in S}
      BY <1>7, <1>14
    <2> HIDE DEF M
    <2>3. M = {0} \cup {-R!B(b)!PayoffAt(a, p, y) : y \in {0} \cup {b[a[i]].K : i \in DOMAIN a}}
      BY ONLY Zenon, <1>0, <2>1, <2>2
    <2>4. R!B(b)!MaxPotentialLoss(a, p) = 100 * R!B(b)!Max(M)
      BY <2>3 DEF R!B!MaxPotentialLoss
    <2> QED
      BY <2>4 DEF R!B!Max
  <1> HIDE DEF S
  <1>16. IsFiniteSet(M) /\ M \in SUBSET Int /\ M # {}
    <2>1. \A y \in S : f[y] \in Int
      BY <1>10, <1>14
    <2> DEFINE h == [y \in S |-> -f[y]]
    <2>2. {-f[y] : y \in S} = {h[y] : y \in S}
      OBVIOUS
    <2> HIDE DEF h
    <2>3. IsFiniteSet({h[y] : y \in S})
      BY <1>14, ImageFinite
    <2>4. IsFiniteSet({h[y] : y \in S} \cup {0})
      BY <2>3, FS_AddElement
    <2>5. M = {h[y] : y \in S} \cup {0}
      BY <2>2
    <2>6. IsFiniteSet(M)
      BY ONLY Zenon, <2>4, <2>5
    <2> QED
      BY <2>1, <2>6
  <1>17. \A y \in S : -f[y] \in M
    OBVIOUS
  <1> HIDE DEF M
  <1> DEFINE top == CHOOSE z \in M : \A u \in M : z >= u
  <1>18. top \in M /\ top \in Int /\ \A u \in M : top >= u
    <2>1. \E z \in M : \A u \in M : z >= u
      BY <1>16, GreatestExists
    <2>2. top \in M /\ \A u \in M : top >= u
      BY <2>1
    <2> QED
      BY <1>16, <2>2
  <1> HIDE DEF top
  <1>19. PICK y \in S : f[y] <= f[x]
    BY <1>13 DEF S
  <1>20. /\ R!B(b)!MaxPotentialLoss(a, p) = 100 * top
         /\ R!B(b)!PayoffAt(a, p, x) = f[x] /\ f[x] \in Int
    BY <1>7, <1>10, <1>15 DEF top
  <1>21. f[y] \in Int /\ top >= -f[y]
    BY <1>10, <1>14, <1>17, <1>18
  <1> QED
    BY ONLY <1>18, <1>19, <1>20, <1>21

-----------------------------------------------------------------------------
(***************************************************************************)
(* The baseline's options.                                                 *)
(***************************************************************************)
\* The rules a requirement is checked of have the expressions of the baseline.
BaselineExpressions ==
  \A key, p, b : key[1] \in {rule.id : rule \in ChargedByLoss} =>
    /\ Test(key, p, b) = R!BaselineTest(key, p, b)
    /\ Value(key, p, b) = R!BaselineValue(key, p, b)

\* The columns the loss is computed from.
LossColumns == {"side", "kind", "type", "qty", "mult", "K", "P", "P0"}

\* An option with numbers in all of them.
Contract(l) ==
  /\ LossColumns \subseteq DOMAIN l
  /\ l.kind = "option" /\ l.side \in {"long", "short"} /\ l.type \in {"put", "call"}
  /\ l.qty \in Nat /\ l.mult \in Nat /\ l.K \in Nat /\ l.P \in Nat /\ l.P0 \in Nat

\* Its weight is what the rules call Signed.
LEMMA ContractWeight ==
  ASSUME NEW l, Contract(l)
  PROVE  /\ Weight(l, l.qty) \in Int
         /\ Weight(l, l.qty) = R!Signed(l)
         /\ l.side = "long" => Weight(l, l.qty) = l.qty * l.mult
         /\ l.side = "short" => Weight(l, l.qty) = -(l.qty * l.mult)
         /\ l.qty * l.mult \in Int
         /\ \A f \in {"P", "P0"} : 100 * l[f] * l.qty * l.mult \in Int
  <1>1. l.qty \in Int /\ l.mult \in Int /\ l.P \in Int /\ l.P0 \in Int
        /\ l.side \in {"long", "short"}
    BY DEF Contract
  <1>2. /\ l.qty * l.mult \in Int
        /\ (-1 * l.qty) * l.mult = -(l.qty * l.mult)
        /\ (1 * l.qty) * l.mult = l.qty * l.mult
    BY ONLY <1>1
  <1>3. \A n \in Int : ((100 * n) * l.qty) * l.mult \in Int
    BY ONLY <1>1
  <1>4. \A f \in {"P", "P0"} : l[f] \in Int
    BY ONLY <1>1
  <1>5. Weight(l, l.qty) = R!Signed(l)
    BY DEF Weight, R!Signed
  <1>6. Weight(l, l.qty) = IF l.side = "short" THEN -(l.qty * l.mult) ELSE l.qty * l.mult
    BY <1>1, <1>2 DEF Weight
  <1> QED
    BY <1>1, <1>2, <1>3, <1>4, <1>5, <1>6

\* The premiums of options of one side are their sum, and at the market they are
\* what the options would trade at.
LEMMA PremiumsAre ==
  ASSUME NEW b, IsFiniteSet(DOMAIN b), \A s \in DOMAIN b : Contract(b[s]),
         NEW side, NEW f \in {"P", "P0"},
         NEW v, \A s \in DOMAIN b : v[s] = 100 * b[s][f] * b[s].qty * b[s].mult
  PROVE  /\ R!SumPremiums(b, side, f) = Sum(v, {s \in DOMAIN b : b[s].side = side})
         /\ R!SumPremiums(b, side, f) \in Int
  <1> DEFINE S == {s \in DOMAIN b : b[s].kind = "option" /\ b[s].side = side}
             g == [s \in S |-> 100 * b[s][f] * b[s].qty * b[s].mult]
  <1>1. S = {s \in DOMAIN b : b[s].side = side}
    BY DEF Contract
  <1>2. IsFiniteSet(S) /\ S \in SUBSET DOMAIN b
    <2>1. S \in SUBSET DOMAIN b
      OBVIOUS
    <2> HIDE DEF S
    <2> QED
      BY <2>1, FS_Subset
  <1>3. \A s \in S : g[s] = v[s] /\ v[s] \in Int
    <2> HIDE DEF S
    <2>1. ASSUME NEW s \in S PROVE g[s] = v[s] /\ v[s] \in Int
      <3>1. Contract(b[s]) /\ v[s] = 100 * b[s][f] * b[s].qty * b[s].mult
        BY <1>2
      <3>2. 100 * b[s][f] * b[s].qty * b[s].mult \in Int
        BY <3>1, ContractWeight
      <3> QED
        BY <3>1, <3>2
    <2> QED
      BY <2>1
  <1>4. R!SumPremiums(b, side, f) = Sum(g, S)
    BY DEF R!SumPremiums, R!SumFunctionOnSet, R!FoldFunctionOnSet, R!MapThenFoldSet,
           SumFunctionOnSet, FoldFunctionOnSet, MapThenFoldSet, Sum
  <1> HIDE DEF S, g
  <1>5. Sum(g, S) = Sum(v, S)
    BY ONLY Zenon, <1>2, <1>3, SumSame
  <1>6. Sum(v, S) \in Int
    BY <1>2, <1>3, SumType
  <1>7. R!SumPremiums(b, side, f) = Sum(v, S)
    BY Zenon, <1>4, <1>5
  <1> QED
    BY Zenon, <1>1, <1>6, <1>7

\* What position b loses at a price is at most the maximum potential loss.
LossBounded(b, a, price) ==
  LET p == R!Qty(b, a) IN
  /\ R!B(b)!MaxPotentialLoss(a, p) \in Int
  /\ R!B(b)!PayoffAt(a, p, price) \in Int
  /\ -100 * R!B(b)!PayoffAt(a, p, price) <= R!B(b)!MaxPotentialLoss(a, p)

\* The maximum potential loss bounds what a combination loses that passes the rule's
\* test of limited risk ...
LEMMA ComboLoss ==
  ASSUME NEW b, NEW n \in Nat, DOMAIN b = 1..n, \A i \in 1..n : Contract(b[i]),
         R!IsLimitedRisk(b), NEW x \in Nat
  PROVE  LossBounded(b, R!SlotOrder("generic_limited_risk_combo", b), x)
  <1>1. PICK a : a = [i \in 1..n |-> i]
    OBVIOUS
  <1>2. R!SlotOrder("generic_limited_risk_combo", b) = a
    BY <1>1 DEF R!SlotOrder
  <1>3. Len(a) = n /\ DOMAIN a = 1..n
    <2>1. a = [i \in 1..n |-> a[i]]
      BY <1>1
    <2> QED
      BY <2>1, ListIsSeq
  <1>4. PICK p : p = R!Qty(b, a)
    OBVIOUS
  <1>5. ASSUME NEW i \in 1..n PROVE a[i] = i /\ p[i] = b[i].qty
    <2>1. a[i] = i /\ b[i].kind = "option"
      BY <1>1 DEF Contract
    <2> QED
      BY <1>3, <1>4, <2>1 DEF R!Qty
  <1> DEFINE w == [i \in 1..n |-> Weight(b[i], b[i].qty)]
             c == [i \in 1..n |-> IF b[i].type = "call" THEN w[i] ELSE 0]
             signed == [i \in DOMAIN b |-> R!Signed(b[i])]
             calls == {i \in DOMAIN b : b[i].type = "call"}
  <1>6. ASSUME NEW i \in 1..n
        PROVE  /\ w[i] = Weight(b[a[i]], p[i]) /\ w[i] \in Int
               /\ b[a[i]].K \in Nat
               /\ c[i] = IF b[a[i]].type = "call" THEN w[i] ELSE 0
               /\ signed[i] = w[i]
    <2>1. Contract(b[i])
      OBVIOUS
    <2>2. Weight(b[i], b[i].qty) \in Int /\ Weight(b[i], b[i].qty) = R!Signed(b[i])
      BY <2>1, ContractWeight
    <2> QED
      BY <1>5, <2>1, <2>2 DEF Contract
  <1>7. Sum(c, 1..n) >= 0
    <2>1. Sum(signed, calls) >= 0
      BY DEF R!IsLimitedRisk, R!SumFunctionOnSet, R!FoldFunctionOnSet, R!MapThenFoldSet,
             SumFunctionOnSet, FoldFunctionOnSet, MapThenFoldSet, Sum
    <2>2. calls \in SUBSET (1..n)
      OBVIOUS
    <2>3. \A i \in calls : signed[i] \in Int /\ c[i] = signed[i]
      BY <1>6
    <2>4. \A i \in (1..n) \ calls : c[i] = 0
      OBVIOUS
    <2>5. IsFiniteSet(1..n)
      BY IndexesFinite
    <2> DEFINE T == 1..n
    <2> HIDE DEF signed, calls, c, T
    <2>6. Sum(c, T) = Sum(signed, calls)
      <3>1. calls \in SUBSET T /\ IsFiniteSet(T) /\ \A i \in T \ calls : c[i] = 0
        BY <2>2, <2>4, <2>5 DEF T
      <3> QED
        BY ONLY <2>3, <3>1, SumOfPart
    <2> QED
      BY Zenon, <2>1, <2>6 DEF T
  <1> HIDE DEF w, c, signed, calls
  <1>9. Listed(b, a, p, n) /\ CallsWeigh(b, a, p, n, c)
    BY <1>3, <1>6 DEF Listed, CallsWeigh
  <1>8. /\ R!B(b)!MaxPotentialLoss(a, p) \in Int
        /\ R!B(b)!PayoffAt(a, p, x) \in Int
        /\ -100 * R!B(b)!PayoffAt(a, p, x) <= R!B(b)!MaxPotentialLoss(a, p)
    BY <1>7, <1>9, LossIsSampled
  <1> QED
    BY <1>2, <1>4, <1>8 DEF LossBounded

\* The slots of vertical_spread.
SpreadSlots == <<"long_leg", "short_leg">>

\* ... and what a spread of one type and one size loses.
LEMMA SpreadLoss ==
  ASSUME NEW b, Contract(b["long_leg"]), Contract(b["short_leg"]),
         b["long_leg"].side = "long", b["short_leg"].side = "short",
         b["long_leg"].type = b["short_leg"].type,
         b["long_leg"].qty * b["long_leg"].mult = b["short_leg"].qty * b["short_leg"].mult,
         NEW x \in Nat
  PROVE  LossBounded(b, SpreadSlots, x)
  <1>1. PICK a : a = SpreadSlots
    OBVIOUS
  <1>2. Len(a) = 2 /\ DOMAIN a = 1..2 /\ a[1] = "long_leg" /\ a[2] = "short_leg"
    BY <1>1 DEF SpreadSlots
  <1>3. PICK p : p = R!Qty(b, a)
    OBVIOUS
  <1>4. ASSUME NEW i \in 1..2 PROVE Contract(b[a[i]]) /\ p[i] = b[a[i]].qty
    <2>1. Contract(b[a[i]])
      BY <1>2
    <2>2. b[a[i]].kind = "option"
      BY <2>1 DEF Contract
    <2> QED
      BY <1>2, <1>3, <2>1, <2>2 DEF R!Qty
  <1> DEFINE w == [i \in 1..2 |-> Weight(b[a[i]], p[i])]
             c == [i \in 1..2 |-> IF b[a[i]].type = "call" THEN w[i] ELSE 0]
  <1>5. ASSUME NEW i \in 1..2
        PROVE  /\ w[i] = Weight(b[a[i]], p[i]) /\ w[i] \in Int
               /\ b[a[i]].K \in Nat
               /\ c[i] = IF b[a[i]].type = "call" THEN w[i] ELSE 0
    <2>1. Weight(b[a[i]], b[a[i]].qty) \in Int
      BY <1>4, ContractWeight
    <2> QED
      BY <1>4, <2>1 DEF Contract
  <1>6. Sum(c, 1..2) >= 0
    <2> DEFINE size == b["long_leg"].qty * b["long_leg"].mult
    <2>1. w[1] = size /\ w[2] = -size /\ size \in Int
      <3>1. /\ Weight(b["long_leg"], b["long_leg"].qty) = size
            /\ Weight(b["short_leg"], b["short_leg"].qty) = -size
            /\ size \in Int
        BY ContractWeight
      <3>2. p[1] = b["long_leg"].qty /\ p[2] = b["short_leg"].qty
        BY <1>2, <1>4
      <3> HIDE DEF size
      <3> QED
        BY <1>2, <3>1, <3>2
    <2> HIDE DEF size, w
    <2>2. c[1] \in Int /\ c[2] \in Int /\ c[1] + c[2] = 0
      BY <1>2, <2>1
    <2> HIDE DEF c
    <2>3. Sum(c, 1..2) = c[1] + c[2]
      BY <2>2, SumOfTwo
    <2> QED
      BY ONLY <2>2, <2>3
  <1> HIDE DEF w, c
  <1>7. /\ R!B(b)!MaxPotentialLoss(a, p) \in Int
        /\ R!B(b)!PayoffAt(a, p, x) \in Int
        /\ -100 * R!B(b)!PayoffAt(a, p, x) <= R!B(b)!MaxPotentialLoss(a, p)
    <2>1. Listed(b, a, p, 2) /\ CallsWeigh(b, a, p, 2, c)
      BY <1>2, <1>5 DEF Listed, CallsWeigh
    <2>2. 2 \in Nat
      OBVIOUS
    <2> QED
      BY <1>6, <2>1, <2>2, LossIsSampled
  <1> QED
    BY <1>1, <1>3, <1>7 DEF LossBounded

-----------------------------------------------------------------------------
(***************************************************************************)
(* What the formulas charge.                                               *)
(***************************************************************************)
\* At the market an option costs what it trades at, and is otherwise the same.
LEMMA AtMarketLegs ==
  ASSUME NEW b, NEW s \in DOMAIN b, Contract(b[s])
  PROVE  LET l == R!AtMarket(b)[s] IN
         /\ Contract(l) /\ l.P0 = b[s].P
         /\ \A f \in LossColumns \ {"P0"} : l[f] = b[s][f]
  <1> DEFINE l == R!AtMarket(b)[s]
  <1>1. l = [b[s] EXCEPT !.P0 = b[s].P]
    BY DEF R!AtMarket
  <1>2. DOMAIN l = DOMAIN b[s] /\ l.P0 = b[s].P
        /\ \A f \in DOMAIN b[s] : f # "P0" => l[f] = b[s][f]
    BY <1>1 DEF Contract, LossColumns
  <1> HIDE DEF l
  <1>3. \A f \in LossColumns \ {"P0"} : l[f] = b[s][f]
    BY <1>2 DEF Contract
  <1>4. Contract(l)
    BY <1>2, <1>3 DEF Contract, LossColumns
  <1> QED
    BY <1>2, <1>3, <1>4 DEF l

\* The price the premiums of a phase are at.
PremiumField(phase) == IF phase = "initial" THEN "P0" ELSE "P"

\* The legs the formulas of a phase look at.
PhaseLegs(b, phase) == IF phase = "initial" THEN b ELSE R!AtMarket(b)

\* The premiums of those legs are the premiums at the price of the phase.
LEMMA PhasePremiums ==
  ASSUME NEW b, IsFiniteSet(DOMAIN b), \A s \in DOMAIN b : Contract(b[s]), NEW side, NEW phase
  PROVE  /\ R!SumPremiums(PhaseLegs(b, phase), side, "P0")
              = R!SumPremiums(b, side, PremiumField(phase))
         /\ R!SumPremiums(b, side, PremiumField(phase)) \in Int
  <1>1. R!SumPremiums(b, side, "P0") \in Int
    <2> DEFINE v == [s \in DOMAIN b |-> 100 * b[s].P0 * b[s].qty * b[s].mult]
    <2>1. \A s \in DOMAIN b : v[s] = 100 * b[s]["P0"] * b[s].qty * b[s].mult
      OBVIOUS
    <2> HIDE DEF v
    <2> QED
      BY <2>1, PremiumsAre
  <1>2. /\ R!SumPremiums(R!AtMarket(b), side, "P0") = R!SumPremiums(b, side, "P")
        /\ R!SumPremiums(b, side, "P") \in Int
    <2> DEFINE m == R!AtMarket(b)
               v == [s \in DOMAIN b |-> 100 * b[s].P * b[s].qty * b[s].mult]
    <2>1. DOMAIN m = DOMAIN b
      BY DEF R!AtMarket
    <2>2. \A s \in DOMAIN b : v[s] = 100 * b[s]["P"] * b[s].qty * b[s].mult
      OBVIOUS
    <2>3. ASSUME NEW s \in DOMAIN b
          PROVE  /\ Contract(m[s]) /\ m[s].side = b[s].side
                 /\ m[s]["P0"] = b[s]["P"] /\ m[s].qty = b[s].qty /\ m[s].mult = b[s].mult
      BY AtMarketLegs DEF LossColumns
    <2> HIDE DEF m, v
    <2>4. \A s \in DOMAIN m : Contract(m[s]) /\ v[s] = 100 * m[s]["P0"] * m[s].qty * m[s].mult
      BY <2>1, <2>2, <2>3
    <2>5. /\ R!SumPremiums(b, side, "P") = Sum(v, {s \in DOMAIN b : b[s].side = side})
          /\ R!SumPremiums(b, side, "P") \in Int
      BY <2>2, PremiumsAre
    <2>6. R!SumPremiums(m, side, "P0") = Sum(v, {s \in DOMAIN m : m[s].side = side})
      BY <2>1, <2>4, PremiumsAre
    <2>7. {s \in DOMAIN m : m[s].side = side} = {s \in DOMAIN b : b[s].side = side}
      BY <2>1, <2>3
    <2> QED
      BY Zenon, <2>5, <2>6, <2>7 DEF m
  <1> QED
    BY <1>1, <1>2 DEF PhaseLegs, PremiumField

\* What the generic rule asks of either account.
LEMMA ComboValue ==
  ASSUME NEW b, IsFiniteSet(DOMAIN b), \A s \in DOMAIN b : Contract(b[s]),
         NEW account \in {"cash", "margin"}, NEW phase \in {"initial", "maintenance"}, NEW p
  PROVE  LET a == R!SlotOrder("generic_limited_risk_combo", b) IN
         R!BaselineValue(<<"generic_limited_risk_combo", account, phase>>, p, b)
           = R!B(b)!MaxPotentialLoss(a, R!Qty(b, a))
               + R!SumPremiums(b, "long", PremiumField(phase))
  <1> DEFINE id == "generic_limited_risk_combo"
             a == R!SlotOrder(id, b)
  <1>1. R!Margin(id, phase, p, b) = R!B(b)!MaxPotentialLoss(a, R!Qty(b, a))
                                      + R!SumPremiums(PhaseLegs(b, phase), "long", "P0")
    BY DEF R!Margin, R!B!Rated, PhaseLegs
  <1>2. R!BaselineValue(<<id, account, phase>>, p, b) = R!Margin(id, phase, p, b)
    BY DEF R!BaselineValue, R!Cash
  <1>3. R!SumPremiums(PhaseLegs(b, phase), "long", "P0")
          = R!SumPremiums(b, "long", PremiumField(phase))
    BY PhasePremiums
  <1> QED
    BY <1>1, <1>2, <1>3

\* What the spread rule asks of a cash account.
LEMMA SpreadValue ==
  ASSUME NEW b, NEW phase \in {"initial", "maintenance"}, NEW p,
         NEW a, a = SpreadSlots, NEW q, q = R!Qty(b, a)
  PROVE  LET m == PhaseLegs(b, phase) IN
         R!BaselineValue(<<"vertical_spread", "cash", phase>>, p, b)
           = R!B(m)!MaxPotentialLoss(a, q)
               + 100 * m["long_leg"].P0 * q[1] * m["long_leg"].mult
  <1> DEFINE id == "vertical_spread"
             m == PhaseLegs(b, phase)
  <1>1. R!SlotOrder(id, b) = a
    BY DEF R!SlotOrder, SpreadSlots
  <1>2. R!BaselineValue(<<id, "cash", phase>>, p, b) = R!Cash(id, phase, p, b)
    BY DEF R!BaselineValue
  <1>3. R!Cash(id, phase, p, b) = R!B(m)!CashInitial(id, a, q, [U |-> p.U])
    BY <1>1 DEF R!Cash, PhaseLegs
  <1>4. R!B(m)!CashInitial(id, a, q, [U |-> p.U])
          = R!B(m)!MaxPotentialLoss(a, q) + R!B(m)!Premium(a[1], q[1])
    BY DEF R!B!CashInitial
  <1>5. R!B(m)!Premium(a[1], q[1]) = 100 * m["long_leg"].P0 * q[1] * m["long_leg"].mult
    BY DEF R!B!Premium, SpreadSlots
  <1> QED
    BY <1>2, <1>3, <1>4, <1>5

\* A payoff is a number.
LEMMA PaysInt ==
  ASSUME NEW l, NEW m, Weight(l, m) \in Int, l.K \in Nat, NEW y \in Nat
  PROVE  Pays(l, m, y) \in Int
  <1>1. y <= y /\ (l.K <= y \/ l.K >= y)
    OBVIOUS
  <1> QED
    BY <1>1, PaysAlong

\* A long and a short option of one type and one size, charged for what they can
\* lose and for the long premium.
LEMMA SpreadCovered ==
  ASSUME NEW b, DOMAIN b = {"long_leg", "short_leg"}, \A s \in DOMAIN b : Contract(b[s]),
         b["long_leg"].side = "long", b["short_leg"].side = "short",
         b["long_leg"].type = b["short_leg"].type,
         b["long_leg"].qty * b["long_leg"].mult = b["short_leg"].qty * b["short_leg"].mult,
         NEW phase \in {"initial", "maintenance"}, NEW p, NEW x \in Nat
  PROVE  -100 * R!B(b)!PayoffAt(SpreadSlots, R!Qty(b, SpreadSlots), x)
           + R!SumPremiums(b, "long", PremiumField(phase))
         <= R!BaselineValue(<<"vertical_spread", "cash", phase>>, p, b)
  <1> DEFINE m == PhaseLegs(b, phase)
  <1>1. DOMAIN m = DOMAIN b
    BY DEF PhaseLegs, R!AtMarket
  <1>2. ASSUME NEW s \in DOMAIN b
        PROVE  /\ Contract(m[s]) /\ m[s].P0 = b[s][PremiumField(phase)]
               /\ \A f \in LossColumns \ {"P0"} : m[s][f] = b[s][f]
    <2>1. Contract(b[s])
      OBVIOUS
    <2>2. CASE phase = "initial"
      BY <2>1, <2>2 DEF PhaseLegs, PremiumField
    <2>3. CASE phase # "initial"
      BY <2>1, <2>3, AtMarketLegs DEF PhaseLegs, PremiumField
    <2> QED
      BY <2>2, <2>3
  <1> HIDE DEF m
  <1>3. ASSUME NEW s \in DOMAIN b
        PROVE  /\ m[s].side = b[s].side /\ m[s].type = b[s].type /\ m[s].K = b[s].K
               /\ m[s].qty = b[s].qty /\ m[s].mult = b[s].mult /\ m[s].kind = "option"
               /\ b[s].kind = "option"
    <2>1. m[s].kind = "option" /\ b[s].kind = "option"
      BY <1>2 DEF Contract
    <2> QED
      BY <1>2, <2>1 DEF LossColumns
  <1>4. PICK a : a = SpreadSlots
    OBVIOUS
  <1>5. PICK q : q = R!Qty(b, a)
    OBVIOUS
  <1>6. /\ DOMAIN a = 1..2 /\ Len(a) = 2 /\ a[1] = "long_leg" /\ a[2] = "short_leg"
        /\ \A i \in 1..2 : a[i] \in DOMAIN b
    BY <1>4 DEF SpreadSlots
  <1>7. q = R!Qty(m, a) /\ \A i \in 1..2 : q[i] = b[a[i]].qty /\ q[i] = m[a[i]].qty
    BY <1>3, <1>5, <1>6 DEF R!Qty
  <1>8. LossBounded(m, a, x)
    <2>1. Contract(m["long_leg"]) /\ Contract(m["short_leg"])
      BY <1>2
    <2>2. /\ m["long_leg"].side = "long" /\ m["short_leg"].side = "short"
          /\ m["long_leg"].type = m["short_leg"].type
          /\ m["long_leg"].qty * m["long_leg"].mult = m["short_leg"].qty * m["short_leg"].mult
      BY <1>3
    <2> QED
      BY <1>4, <2>1, <2>2, SpreadLoss
  <1>9. R!B(m)!PayoffAt(a, q, x) = R!B(b)!PayoffAt(a, q, x)
    <2> DEFINE v == [i \in 1..2 |-> Pays(b[a[i]], q[i], x)]
    <2>1. ASSUME NEW i \in 1..2
          PROVE  v[i] = Pays(b[a[i]], q[i], x) /\ v[i] = Pays(m[a[i]], q[i], x) /\ v[i] \in Int
      <3>1. Contract(b[a[i]]) /\ q[i] = b[a[i]].qty /\ a[i] \in DOMAIN b
        BY <1>6, <1>7
      <3>2. Weight(b[a[i]], q[i]) \in Int /\ b[a[i]].K \in Nat
        BY <3>1, ContractWeight DEF Contract
      <3>3. Pays(b[a[i]], q[i], x) \in Int
        BY <3>2, PaysInt
      <3>4. Pays(b[a[i]], q[i], x) = Pays(m[a[i]], q[i], x)
        BY <1>3, <3>1 DEF Pays, Weight
      <3> QED
        BY <3>3, <3>4
    <2> HIDE DEF v
    <2>2. PICK n \in Nat : n = 2
      OBVIOUS
    <2>5. PaidBy(b, a, q, x, n, v) /\ PaidBy(m, a, q, x, n, v)
      BY <1>6, <2>1, <2>2 DEF PaidBy
    <2>3. R!B(b)!PayoffAt(a, q, x) = Sum(v, 1..n)
      BY ONLY <2>5, n \in Nat, PayoffIsSum
    <2>4. R!B(m)!PayoffAt(a, q, x) = Sum(v, 1..n)
      BY <2>5, PayoffIsSum
    <2> QED
      BY Zenon, <2>3, <2>4
  <1>10. R!BaselineValue(<<"vertical_spread", "cash", phase>>, p, b)
           = R!B(m)!MaxPotentialLoss(a, q)
               + 100 * m["long_leg"].P0 * q[1] * m["long_leg"].mult
    BY <1>4, <1>5, SpreadValue DEF m
  <1>11. R!SumPremiums(b, "long", PremiumField(phase))
           = 100 * m["long_leg"].P0 * q[1] * m["long_leg"].mult
         /\ R!SumPremiums(b, "long", PremiumField(phase)) \in Int
    <2> DEFINE f == PremiumField(phase)
               v == [s \in DOMAIN b |-> 100 * b[s][f] * b[s].qty * b[s].mult]
    <2>1. f \in {"P", "P0"} /\ \A s \in DOMAIN b : v[s] = 100 * b[s][f] * b[s].qty * b[s].mult
      BY DEF PremiumField
    <2>2. {s \in DOMAIN b : b[s].side = "long"} = {"long_leg"}
      OBVIOUS
    <2>7. IsFiniteSet(DOMAIN b)
      <3>1. IsFiniteSet({"long_leg"})
        BY FS_Singleton
      <3>2. IsFiniteSet({"long_leg"} \cup {"short_leg"})
        BY <3>1, FS_AddElement
      <3>3. DOMAIN b = {"long_leg"} \cup {"short_leg"}
        OBVIOUS
      <3> QED
        BY ONLY Zenon, <3>2, <3>3
    <2>3. v["long_leg"] = 100 * m["long_leg"].P0 * q[1] * m["long_leg"].mult
      BY <1>2, <1>3, <1>6, <1>7
    <2>4. v["long_leg"] \in Int
      <3>1. 100 * b["long_leg"][f] * b["long_leg"].qty * b["long_leg"].mult \in Int
        BY <2>1, ContractWeight
      <3> QED
        BY <3>1
    <2> HIDE DEF f, v
    <2>5. R!SumPremiums(b, "long", f) = Sum(v, {s \in DOMAIN b : b[s].side = "long"})
      BY <2>1, <2>7, PremiumsAre
    <2>6. Sum(v, {"long_leg"}) = v["long_leg"]
      BY <2>4, SumOne
    <2> QED
      BY Zenon, <2>2, <2>3, <2>4, <2>5, <2>6 DEF f
  <1>12. /\ R!B(m)!MaxPotentialLoss(a, q) \in Int
         /\ R!B(m)!PayoffAt(a, q, x) \in Int
         /\ -100 * R!B(m)!PayoffAt(a, q, x) <= R!B(m)!MaxPotentialLoss(a, q)
    BY <1>7, <1>8 DEF LossBounded
  <1>13. /\ -100 * R!B(b)!PayoffAt(a, q, x) <= R!B(m)!MaxPotentialLoss(a, q)
         /\ R!B(b)!PayoffAt(a, q, x) \in Int
    BY <1>9, <1>12
  <1>14. -100 * R!B(b)!PayoffAt(a, q, x) + R!SumPremiums(b, "long", PremiumField(phase))
           <= R!BaselineValue(<<"vertical_spread", "cash", phase>>, p, b)
    <2> HIDE DEF m
    <2>1. R!BaselineValue(<<"vertical_spread", "cash", phase>>, p, b)
           = R!B(m)!MaxPotentialLoss(a, q) + R!SumPremiums(b, "long", PremiumField(phase))
      BY Zenon, <1>10, <1>11
    <2> QED
      BY ONLY <1>11, <1>12, <1>13, <2>1
  <1> QED
    BY Zenon, <1>4, <1>5, <1>14

\* The two legs a spread binds: one long, one short, and in no other way.
LEMMA SpreadBinds ==
  ASSUME NEW legs, IsSeq(legs), NEW b \in TryMatch(R!VerticalSpread, legs)
  PROVE  /\ DOMAIN b = {"long_leg", "short_leg"}
         /\ \A s \in DOMAIN b : (\E i \in DOMAIN legs : b[s] = legs[i]) /\ b[s].kind = "option"
         /\ b["long_leg"].side = "long" /\ b["short_leg"].side = "short"
         /\ \A c \in TryMatch(R!VerticalSpread, legs) : c = b
  <1> DEFINE r == R!VerticalSpread
             open == [l \in DOMAIN legs |-> 1]
             all == Matcher(r, legs)!Bindings(r.id, open)
  <1>1. /\ r.slots = <<R!Slot("long_leg", "long", "option", "any"),
                       R!Slot("short_leg", "short", "option", "any")>>
        /\ r.pattern = "" /\ r.id = "vertical_spread"
    BY DEF R!VerticalSpread, R!Plain, R!Block
  <1> HIDE DEF r
  <1>2. /\ Len(r.slots) = 2 /\ DOMAIN r.slots = 1..2
        /\ r.slots[1].name = "long_leg" /\ r.slots[1].side = "long" /\ r.slots[1].kind = "option"
        /\ r.slots[2].name = "short_leg" /\ r.slots[2].side = "short" /\ r.slots[2].kind = "option"
    <2> DEFINE long == R!Slot("long_leg", "long", "option", "any")
               short == R!Slot("short_leg", "short", "option", "any")
    <2>1. /\ long.name = "long_leg" /\ long.side = "long" /\ long.kind = "option"
          /\ short.name = "short_leg" /\ short.side = "short" /\ short.kind = "option"
      BY DEF R!Slot
    <2> HIDE DEF long, short
    <2>2. r.slots = <<long, short>>
      BY <1>1 DEF long, short
    <2> QED
      BY <2>1, <2>2
  <1>3. SlotNames(r) = {"long_leg", "short_leg"}
    BY <1>2 DEF SlotNames
  <1>4. \A c \in TryMatch(r, legs) : Len(legs) = 2 /\ c \in FirstBinding(r, legs)
    BY <1>1, <1>2 DEF TryMatch
  <1>5. /\ (CHOOSE i \in DOMAIN r.slots : r.slots[i].name = "long_leg") = 1
        /\ (CHOOSE i \in DOMAIN r.slots : r.slots[i].name = "short_leg") = 2
    BY <1>2
  <1>6. ASSUME NEW a \in all
        PROVE  /\ a[1] \in DOMAIN legs /\ a[2] \in DOMAIN legs /\ a[1] # a[2]
               /\ legs[a[1]].side = "long" /\ legs[a[1]].kind = "option"
               /\ legs[a[2]].side = "short" /\ legs[a[2]].kind = "option"
    <2>1. /\ a \in [1..2 -> DOMAIN legs]
          /\ \A i \in 1..2 : Matcher(r, legs)!SlotMatches(r.slots[i], a[i])
          /\ \A i, j \in 1..2 : a[i] = a[j] => i = j
      BY <1>2 DEF Matcher!Bindings, Matcher!OpenLegs
    <2>2. \A i \in 1..2 : r.slots[i].side \in {"any", legs[a[i]].side}
                       /\ r.slots[i].kind \in {"any", legs[a[i]].kind}
      BY <2>1 DEF Matcher!SlotMatches
    <2> QED
      BY <1>2, <2>1, <2>2
  <1>7. ASSUME NEW c \in TryMatch(r, legs)
        PROVE  \E a \in all : c = [s \in {"long_leg", "short_leg"} |->
                                     legs[IF s = "long_leg" THEN a[1] ELSE a[2]]]
    <2>1. PICK a \in all :
            c = [s \in SlotNames(r) |-> legs[a[CHOOSE i \in DOMAIN r.slots : r.slots[i].name = s]]]
      BY <1>4 DEF FirstBinding
    <2> HIDE DEF all
    <2>2. DOMAIN c = {"long_leg", "short_leg"} /\ c = [s \in DOMAIN c |-> c[s]]
      BY <1>3, <2>1
    <2>3. c["long_leg"] = legs[a[1]] /\ c["short_leg"] = legs[a[2]]
      BY <1>3, <1>5, <2>1
    <2> QED
      BY <2>2, <2>3
  <1> HIDE DEF all
  <1>8. ASSUME NEW c \in TryMatch(r, legs)
        PROVE  /\ DOMAIN c = {"long_leg", "short_leg"}
               /\ \A s \in DOMAIN c : (\E i \in DOMAIN legs : c[s] = legs[i]) /\ c[s].kind = "option"
               /\ c["long_leg"].side = "long" /\ c["short_leg"].side = "short"
    BY <1>6, <1>7
  <1>9. ASSUME NEW c \in TryMatch(r, legs), NEW d \in TryMatch(r, legs) PROVE c = d
    <2>1. PICK a \in all : c = [s \in {"long_leg", "short_leg"} |->
                                  legs[IF s = "long_leg" THEN a[1] ELSE a[2]]]
      BY <1>7
    <2>2. PICK e \in all : d = [s \in {"long_leg", "short_leg"} |->
                                  legs[IF s = "long_leg" THEN e[1] ELSE e[2]]]
      BY <1>7
    <2>3. DOMAIN legs = 1..2
      BY <1>4
    <2>4. a[1] = e[1] /\ a[2] = e[2]
      BY <1>6, <2>3
    <2> QED
      BY <2>1, <2>2, <2>4
  <1> QED
    BY <1>8, <1>9 DEF r

-----------------------------------------------------------------------------
(***************************************************************************)
(* The requirement covers the loss.                                        *)
(***************************************************************************)
\* The engine has the rules of one of the rulebooks, and a result is what the rule
\* it is at answers.
Deciding ==
  /\ rb.rules = <<>> \/ \E raw \in Rulebooks : rb.rules = raw.rules
  /\ outcome.kind = "result" => call.rule \in DOMAIN rb.rules /\ outcome = Asked

\* It holds at first and after every step.
LEMMA InitDeciding == Init => Deciding
  BY DEF Init, DispatchInit, NoRulebook, Idle, Outcome, Deciding

LEMMA NextDeciding == RowsInv /\ Deciding /\ [Next]_vars => Deciding'
  <1> SUFFICES ASSUME RowsInv, Deciding, [Next]_vars PROVE Deciding'
    OBVIOUS
  <1>1. CASE LoadRules
    <2>1. PICK raw \in Rulebooks : LoadRulebook(raw)
      BY <1>1 DEF LoadRules
    <2>2. rb'.rules = <<>> \/ rb'.rules = raw.rules
      BY <2>1 DEF LoadRulebook, NoRulebook
    <2>3. outcome' = Idle
      BY <1>1, <2>1 DEF LoadRules, LoadRulebook, RowsInv, ReconInv, Command
    <2> QED
      BY <2>2, <2>3 DEF Deciding, Idle, Outcome
  <1>2. CASE EvaluateRow
    BY <1>2 DEF EvaluateRow, Evaluate, Deciding, Scanning, Outcome
  <1>3. CASE TryRow
    <2>1. rb' = rb /\ outcome = Scanning
      BY <1>3 DEF TryRow, TryRules, RuleDeclines, RuleDecides, NoRuleMatched
    <2>2. CASE RuleDecides
      <3>1. call' = call /\ outcome' = Asked /\ call.rule \in DOMAIN rb.rules
        BY <2>2 DEF RuleDecides
      <3>2. Asked' = Asked
        BY <2>1, <3>1 DEF Asked
      <3> QED
        BY <2>1, <3>1, <3>2 DEF Deciding
    <2>3. CASE RuleDeclines \/ NoRuleMatched
      <3>1. outcome'.kind # "result"
        BY <2>1, <2>3 DEF RuleDeclines, NoRuleMatched, Scanning, Outcome
      <3> QED
        BY <2>1, <3>1 DEF Deciding
    <2> QED
      BY <1>3, <2>2, <2>3 DEF TryRow, TryRules
  <1>4. CASE RecordRow
    BY <1>4 DEF RecordRow, Deciding, Idle, Outcome
  <1>5. CASE UNCHANGED <<rb, call, outcome>>
    BY <1>5 DEF Deciding, Asked
  <1>6. UNCHANGED vars \/ RulesFailed \/ LoadPositions \/ WriteFails \/ Summarize
          => UNCHANGED <<rb, call, outcome>>
    BY DEF RulesFailed, LoadPositions, WriteFails, Summarize, vars, dispatchVars
  <1> QED
    BY <1>1, <1>2, <1>3, <1>4, <1>5, <1>6 DEF Next

\* While the engine works, the legs it works on are a sequence, and have the columns
\* of the file.
LEMMA LegsOfCall ==
  ASSUME RowsInv, outcome # Idle
  PROVE  /\ \E n \in Nat : call.pos.legs = [i \in 1..n |-> call.pos.legs[i]]
         /\ \A i \in DOMAIN call.pos.legs : LossColumns \subseteq DOMAIN call.pos.legs[i]
  <1>1. Row \in DOMAIN rows /\ Row \in DOMAIN positions /\ FromFiles
    BY DEF RowsInv, ReconInv, Command
  <1>2. /\ rows[Row] = FileRow(Row) /\ positions[Row] = FilePosition(Row)
        /\ \A i \in DOMAIN ReadCSV(csv.legs) : ~BadLeg(ReadCSV(csv.legs)[i])
    BY <1>1 DEF FromFiles
  <1>3. PICK legs : legs = LegsOf(LegRows, FileRow(Row).id)
    OBVIOUS
  <1>4. positions[Row] = PositionOf(FileRow(Row), legs) /\ positions[Row].legs = legs
    BY <1>2, <1>3 DEF FilePosition, PositionOf
  <1>5. call.pos = Prepared(PositionOf(FileRow(Row), legs))
    BY <1>4 DEF RowsInv, AtRow
  <1>6. call.pos.legs = [i \in DOMAIN legs |-> Filled(legs[i])]
    BY <1>5, PreparedIs
  <1>7. \E n \in Nat : \E f \in [1..n -> DOMAIN LegRows] : legs = [k \in 1..n |-> LegRows[f[k]]]
    <2> DEFINE mine == LinesOf(rows[Row].id)
    <2>1. LegsGathered
      BY InvGathers
    <2>2. PICK f \in [1..Cardinality(mine) -> mine] :
            positions[Row].legs = [n \in 1..Cardinality(mine) |-> LegRows[f[n]]]
      BY <1>1, <2>1 DEF LegsGathered
    <2>3. mine \in SUBSET DOMAIN LegRows /\ IsFiniteSet(mine)
      <3>1. mine \in SUBSET DOMAIN LegRows
        BY DEF LinesOf
      <3> HIDE DEF mine
      <3>2. IsFiniteSet(DOMAIN LegRows)
        BY <1>1, <1>2, LegRowsFacts
      <3> QED
        BY <3>1, <3>2, FS_Subset
    <2> HIDE DEF mine
    <2>4. Cardinality(mine) \in Nat
      BY <2>3, FS_CardinalityType
    <2> QED
      BY <1>4, <2>2, <2>3, <2>4
  <1>71. PICK n \in Nat :
           \E f \in [1..n -> DOMAIN LegRows] : legs = [k \in 1..n |-> LegRows[f[k]]]
    BY <1>7
  <1>8. PICK f \in [1..n -> DOMAIN LegRows] : legs = [k \in 1..n |-> LegRows[f[k]]]
    BY <1>71
  <1>9. ASSUME NEW i \in 1..n PROVE LossColumns \subseteq DOMAIN Filled(legs[i])
    <2>1. f[i] \in DOMAIN LegRows /\ legs[i] = LegRows[f[i]]
      BY <1>8
    <2>2. LegColumns \subseteq DOMAIN legs[i]
      BY <1>1, <1>2, <2>1, LegRowsFacts
    <2>3. DOMAIN Filled(legs[i]) = DOMAIN legs[i]
      BY DEF Filled
    <2> QED
      BY <2>2, <2>3 DEF LegColumns, LegCells, RequiredCells, LossColumns
  <1>10. DOMAIN legs = 1..n
    BY <1>8
  <1> QED
    BY <1>6, <1>9, <1>10

\* An option of a valid position is a contract.
LEMMA ValidContract ==
  ASSUME NEW l, LossColumns \subseteq DOMAIN l, ValidLeg(l), l.kind = "option"
  PROVE  Contract(l)
  BY DEF ValidLeg, ValidOption, Positive, NonNegative, Finite, Contract

\* A rule of which the tests only hold or do not answers with a result where all of
\* its constraints hold of the binding it looks at, and it is what the formulas say.
LEMMA ResultOf ==
  ASSUME NEW r, NEW p, NEW account, NEW phase,
         EvaluateOne(r, p, account, phase).kind = "result",
         NEW n \in Nat, DOMAIN r.constraints = 1..n,
         \A c, b : Test(ConstraintKey(r, c), p, b) \in {"true", "false"}
  PROVE  \E b \in TryMatch(r, p.legs) :
           /\ \A i \in 1..n : Test(ConstraintKey(r, r.constraints[i]), p, b) = "true"
           /\ EvaluateOne(r, p, account, phase) = EvalFormulas(r, p, b, account, phase)
  <1>1. PICK b : b = CHOOSE x \in TryMatch(r, p.legs) : TRUE
    OBVIOUS
  <1>2. TryMatch(r, p.legs) # {}
    BY DEF EvaluateOne, Outcome
  <1>3. b \in TryMatch(r, p.legs)
    BY <1>1, <1>2
  <1>4. EvaluateOne(r, p, account, phase) =
          Judged(ConstraintsSay(r, p, b), RequiresSay(r, p, b),
                 EvalFormulas(r, p, b, account, phase))
    BY <1>1, <1>2 DEF EvaluateOne
  <1>5. RequiresSay(r, p, b) \in {"ok", "requires", "error"}
    BY RequiresSayRange
  <1> DEFINE broken == {i \in DOMAIN r.constraints :
                          Test(ConstraintKey(r, r.constraints[i]), p, b) # "true"}
  <1>6. CASE broken # {}
    <2>1. broken \in SUBSET Int /\ IsFiniteSet(broken) /\ broken \in SUBSET DOMAIN r.constraints
      <3>1. IsFiniteSet(1..n) /\ broken \in SUBSET (1..n)
        BY IndexesFinite
      <3> HIDE DEF broken
      <3>2. IsFiniteSet(broken)
        BY <3>1, FS_Subset
      <3> QED
        BY <3>1, <3>2
    <2>2. ConstraintsSay(r, p, b) = Test(ConstraintKey(r, r.constraints[FirstOf(broken)]), p, b)
      BY <1>6 DEF ConstraintsSay
    <2>3. \A i \in broken : Test(ConstraintKey(r, r.constraints[i]), p, b) # "true"
      OBVIOUS
    <2> HIDE DEF broken
    <2>4. FirstOf(broken) \in broken
      BY <1>6, <2>1, FirstIsNth
    <2>5. ConstraintsSay(r, p, b) = "false"
      BY <2>2, <2>3, <2>4
    <2>6. EvaluateOne(r, p, account, phase) = Outcome("no")
      BY <1>4, <2>5 DEF Judged
    <2> QED
      BY <2>6 DEF Outcome
  <1>7. CASE broken = {}
    <2>1. ConstraintsSay(r, p, b) = "true"
      BY <1>7 DEF ConstraintsSay
    <2>2. RequiresSay(r, p, b) = "ok"
      <3> SUFFICES ASSUME RequiresSay(r, p, b) # "ok" PROVE FALSE
        OBVIOUS
      <3>2. EvaluateOne(r, p, account, phase) = Outcome(RequiresSay(r, p, b))
        BY <1>4, <2>1 DEF Judged
      <3> QED
        BY <1>5, <3>2 DEF Outcome
    <2>3. EvaluateOne(r, p, account, phase) = EvalFormulas(r, p, b, account, phase)
      BY <1>4, <2>1, <2>2 DEF Judged
    <2> QED
      BY <1>3, <1>7, <2>3
  <1> QED
    BY <1>6, <1>7

\* A result bears the name of its rule.
LEMMA ResultNamesRule ==
  ASSUME NEW r, NEW p, NEW account, NEW phase, EvaluateOne(r, p, account, phase).kind = "result"
  PROVE  EvaluateOne(r, p, account, phase).res.rule = r.id
  <1> DEFINE b == CHOOSE x \in TryMatch(r, p.legs) : TRUE
             f == EvalFormulas(r, p, b, account, phase)
  <1>1. TryMatch(r, p.legs) # {}
    BY DEF EvaluateOne, Outcome
  <1>2. EvaluateOne(r, p, account, phase)
          = Judged(ConstraintsSay(r, p, b), RequiresSay(r, p, b), f)
    BY <1>1 DEF EvaluateOne
  <1>3. RequiresSay(r, p, b) \in {"ok", "requires", "error"}
    BY RequiresSayRange
  <1>4. f.kind = "result" => f.res.rule = r.id
    BY DEF EvalFormulas, ChargeIfFinite, Charge, Outcome
  <1> HIDE DEF f, b
  <1>5. EvaluateOne(r, p, account, phase) = f
    BY <1>2, <1>3 DEF Judged, Outcome
  <1> QED
    BY <1>4, <1>5

\* Permitted in both accounts, with all of the formulas.
OpenEverywhere(r) == \A x \in {r.cash, r.margin} : x.permitted = "" /\ x.formulas = R!AllFormulas

\* A rule with formulas for every cell, permitted everywhere, charges what the
\* formula of its cell says.
LEMMA FormulasCharge ==
  ASSUME NEW r, NEW p, NEW b, NEW account, NEW phase,
         EvalFormulas(r, p, b, account, phase).kind = "result",
         OpenEverywhere(r)
  PROVE  /\ account \in {"cash", "margin"} /\ phase \in {"initial", "maintenance"}
         /\ EvalFormulas(r, p, b, account, phase).res.req = Value(FormulaKey(r, account, phase), p, b)
  <1>1. account \in {"cash", "margin"} /\ phase \in {"initial", "maintenance"}
    BY DEF EvalFormulas, Outcome
  <1>2. PICK x \in {r.cash, r.margin} : x = Block(r, account)
    BY DEF Block
  <1>3. x.permitted = "" /\ phase \in x.formulas
    BY <1>1 DEF OpenEverywhere, R!AllFormulas, R!Phases
  <1> DEFINE v == Value(FormulaKey(r, account, phase), p, b)
  <1>4. PICK w : EvalFormulas(r, p, b, account, phase) = ChargeIfFinite(r, x.deposit, v, w)
    BY <1>1, <1>2, <1>3 DEF EvalFormulas
  <1>5. ChargeIfFinite(r, x.deposit, v, w).kind = "result"
          => ChargeIfFinite(r, x.deposit, v, w).res.req = v
    BY DEF ChargeIfFinite, Charge, Outcome
  <1> QED
    BY <1>1, <1>4, <1>5

\* What the file says of the two rules.
LEMMA ComboRule ==
  LET r == R!GenericLimitedRiskCombo IN
  /\ r.id = "generic_limited_risk_combo" /\ r.pattern = "all_options"
  /\ DOMAIN r.constraints = 1..1 /\ r.constraints[1] = "is_limited_risk(legs)"
  /\ OpenEverywhere(r)
  BY DEF R!GenericLimitedRiskCombo, R!Plain, R!Block, OpenEverywhere

LEMMA SpreadRule ==
  LET r == R!VerticalSpread IN
  /\ r.id = "vertical_spread"
  /\ DOMAIN r.constraints = 1..6 /\ r.constraints[1] = "same type" /\ r.constraints[6] = "same size"
  /\ OpenEverywhere(r)
  BY DEF R!VerticalSpread, R!Plain, R!Block, OpenEverywhere

\* The tests of the baseline hold or do not hold.
LEMMA TestsAnswer ==
  ASSUME NEW key, NEW p, NEW b
  PROVE  /\ R!BaselineTest(key, p, b) \in {"true", "false"}
         /\ key[3] = "same type" /\ R!BaselineTest(key, p, b) = "true"
              => \A s, t \in DOMAIN b : b[s].type = b[t].type
         /\ key[3] = "same size" /\ R!BaselineTest(key, p, b) = "true"
              => b["long_leg"].qty * b["long_leg"].mult = b["short_leg"].qty * b["short_leg"].mult
         /\ key[3] = "is_limited_risk(legs)" /\ R!BaselineTest(key, p, b) = "true"
              => R!IsLimitedRisk(b)
  BY DEF R!BaselineTest

\* Legs a rule for options may bind: the ones of a valid position, of the columns of
\* the file.
SoundLegs(legs) ==
  /\ IsSeq(legs)
  /\ \A i \in DOMAIN legs : legs[i].kind = "option" => Contract(legs[i])

\* What the requirement of a result has to cover, of a rule and a binding.
Covers(id, b, phase, req) ==
  \A price \in Nat :
    LET slots == R!SlotOrder(id, b) IN
    -100 * R!B(b)!PayoffAt(slots, R!Qty(b, slots), price)
      + R!SumPremiums(b, "long", PremiumField(phase)) <= req

\* What generic_limited_risk_combo answers covers the loss ...
LEMMA ComboCovered ==
  ASSUME BaselineExpressions, NEW p, SoundLegs(p.legs), NEW account, NEW phase,
         NEW r, r = R!GenericLimitedRiskCombo,
         EvaluateOne(r, p, account, phase).kind = "result",
         NEW c \in TryMatch(r, p.legs)
  PROVE  Covers(r.id, c, phase, EvaluateOne(r, p, account, phase).res.req)
  <1>1. /\ r.id = "generic_limited_risk_combo" /\ r.pattern = "all_options"
        /\ DOMAIN r.constraints = 1..1 /\ r.constraints[1] = "is_limited_risk(legs)"
        /\ OpenEverywhere(r)
    BY ComboRule
  <1>2. \A key, q, b : key[1] = r.id => /\ Test(key, q, b) = R!BaselineTest(key, q, b)
                                        /\ Value(key, q, b) = R!BaselineValue(key, q, b)
    BY DEF BaselineExpressions, ChargedByLoss
  <1>3. \A x, b : Test(ConstraintKey(r, x), p, b) \in {"true", "false"}
    <2> TAKE x, b
    <2>1. PICK key : key = ConstraintKey(r, x)
      OBVIOUS
    <2>2. key[1] = r.id
      BY <2>1 DEF ConstraintKey
    <2>3. Test(key, p, b) = R!BaselineTest(key, p, b)
      BY <1>2, <2>2
    <2>4. R!BaselineTest(key, p, b) \in {"true", "false"}
      BY TestsAnswer
    <2> QED
      BY <2>1, <2>3, <2>4
  <1>4. PICK n \in Nat : n = 1
    OBVIOUS
  <1>5. PICK b \in TryMatch(r, p.legs) :
          /\ \A i \in 1..n : Test(ConstraintKey(r, r.constraints[i]), p, b) = "true"
          /\ EvaluateOne(r, p, account, phase) = EvalFormulas(r, p, b, account, phase)
    <2>1. DOMAIN r.constraints = 1..n
      BY <1>1, <1>4
    <2> QED
      BY <1>3, <2>1, ResultOf
  <1>6. b = p.legs /\ c = p.legs /\ AllOptions(r, p.legs)
    BY <1>1 DEF TryMatch
  <1>7. PICK m \in Nat : DOMAIN b = 1..m
    BY <1>6 DEF SoundLegs, IsSeq
  <1>8. \A i \in 1..m : Contract(b[i])
    BY <1>6, <1>7 DEF SoundLegs, AllOptions
  <1>9. R!IsLimitedRisk(b)
    <2>1. Test(ConstraintKey(r, r.constraints[1]), p, b) = "true"
      BY <1>4, <1>5
    <2>2. PICK key : key = ConstraintKey(r, r.constraints[1])
      OBVIOUS
    <2>3. key[1] = r.id /\ key[3] = "is_limited_risk(legs)"
      BY <1>1, <2>2 DEF ConstraintKey
    <2>4. R!BaselineTest(key, p, b) = "true"
      BY <1>2, <2>1, <2>2, <2>3
    <2> QED
      BY <2>3, <2>4, TestsAnswer
  <1>10. /\ account \in {"cash", "margin"} /\ phase \in {"initial", "maintenance"}
         /\ EvalFormulas(r, p, b, account, phase).res.req
              = R!BaselineValue(<<r.id, account, phase>>, p, b)
    <2>1. EvalFormulas(r, p, b, account, phase).kind = "result"
      BY <1>5
    <2>2. PICK key : key = FormulaKey(r, account, phase)
      OBVIOUS
    <2>3. key = <<r.id, account, phase>> /\ key[1] = r.id
      BY <2>2 DEF FormulaKey
    <2>4. /\ account \in {"cash", "margin"} /\ phase \in {"initial", "maintenance"}
          /\ EvalFormulas(r, p, b, account, phase).res.req = Value(key, p, b)
      BY <1>1, <2>1, <2>2, FormulasCharge
    <2>5. Value(key, p, b) = R!BaselineValue(key, p, b)
      BY <1>2, <2>3
    <2> QED
      BY <2>3, <2>4, <2>5
  <1> DEFINE a == R!SlotOrder(r.id, b)
             most == R!B(b)!MaxPotentialLoss(a, R!Qty(b, a))
             paid == R!SumPremiums(b, "long", PremiumField(phase))
  <1>11. IsFiniteSet(DOMAIN b) /\ \A s \in DOMAIN b : Contract(b[s])
    BY <1>7, <1>8, FS_Interval
  <1>12. EvaluateOne(r, p, account, phase).res.req = most + paid
    BY <1>1, <1>5, <1>10, <1>11, ComboValue
  <1>13. paid \in Int
    BY <1>11, PhasePremiums
  <1>14. ASSUME NEW price \in Nat PROVE LossBounded(b, a, price)
    BY <1>1, <1>7, <1>8, <1>9, ComboLoss
  <1>15. ASSUME NEW price \in Nat
         PROVE  -100 * R!B(b)!PayoffAt(a, R!Qty(b, a), price) + paid <= most + paid
    <2>1. PICK y : y = R!B(b)!PayoffAt(a, R!Qty(b, a), price)
      OBVIOUS
    <2>2. most \in Int /\ y \in Int /\ -100 * y <= most
      BY <1>14, <2>1 DEF LossBounded
    <2> HIDE DEF most, paid
    <2>3. -100 * y + paid <= most + paid
      BY <1>13, <2>2
    <2> QED
      BY <2>1, <2>3
  <1> QED
    BY <1>6, <1>12, <1>15 DEF Covers

\* ... and so does what vertical_spread answers in a cash account.
LEMMA SpreadIsCovered ==
  ASSUME BaselineExpressions, NEW p, SoundLegs(p.legs),
         NEW account, account = "cash", NEW phase,
         NEW r, r = R!VerticalSpread,
         EvaluateOne(r, p, account, phase).kind = "result",
         NEW c \in TryMatch(r, p.legs)
  PROVE  Covers(r.id, c, phase, EvaluateOne(r, p, account, phase).res.req)
  <1>1. /\ r.id = "vertical_spread"
        /\ DOMAIN r.constraints = 1..6 /\ r.constraints[1] = "same type"
        /\ r.constraints[6] = "same size"
        /\ OpenEverywhere(r)
    BY SpreadRule
  <1>2. \A key, q, b : key[1] = r.id => /\ Test(key, q, b) = R!BaselineTest(key, q, b)
                                        /\ Value(key, q, b) = R!BaselineValue(key, q, b)
    BY DEF BaselineExpressions, ChargedByLoss
  <1>3. \A x, b : Test(ConstraintKey(r, x), p, b) \in {"true", "false"}
    <2> TAKE x, b
    <2>1. PICK key : key = ConstraintKey(r, x)
      OBVIOUS
    <2>2. key[1] = r.id
      BY <2>1 DEF ConstraintKey
    <2>3. Test(key, p, b) = R!BaselineTest(key, p, b)
      BY <1>2, <2>2
    <2>4. R!BaselineTest(key, p, b) \in {"true", "false"}
      BY TestsAnswer
    <2> QED
      BY <2>1, <2>3, <2>4
  <1>4. PICK n \in Nat : n = 6
    OBVIOUS
  <1>5. PICK b \in TryMatch(r, p.legs) :
          /\ \A i \in 1..n : Test(ConstraintKey(r, r.constraints[i]), p, b) = "true"
          /\ EvaluateOne(r, p, account, phase) = EvalFormulas(r, p, b, account, phase)
    <2>1. DOMAIN r.constraints = 1..n
      BY <1>1, <1>4
    <2> QED
      BY <1>3, <2>1, ResultOf
  <1>6. /\ DOMAIN b = {"long_leg", "short_leg"}
        /\ \A s \in DOMAIN b : (\E i \in DOMAIN p.legs : b[s] = p.legs[i]) /\ b[s].kind = "option"
        /\ b["long_leg"].side = "long" /\ b["short_leg"].side = "short"
        /\ c = b
    BY SpreadBinds DEF SoundLegs
  <1>7. \A s \in DOMAIN b : Contract(b[s])
    BY <1>6 DEF SoundLegs
  <1>8. b["long_leg"].type = b["short_leg"].type
    <2>1. Test(ConstraintKey(r, r.constraints[1]), p, b) = "true"
      BY <1>4, <1>5
    <2>2. PICK key : key = ConstraintKey(r, r.constraints[1])
      OBVIOUS
    <2>3. key[1] = r.id /\ key[3] = "same type"
      BY <1>1, <2>2 DEF ConstraintKey
    <2>4. R!BaselineTest(key, p, b) = "true"
      BY <1>2, <2>1, <2>2, <2>3
    <2> QED
      BY <1>6, <2>3, <2>4, TestsAnswer
  <1>9. b["long_leg"].qty * b["long_leg"].mult = b["short_leg"].qty * b["short_leg"].mult
    <2>1. Test(ConstraintKey(r, r.constraints[6]), p, b) = "true"
      BY <1>4, <1>5
    <2>2. PICK key : key = ConstraintKey(r, r.constraints[6])
      OBVIOUS
    <2>3. key[1] = r.id /\ key[3] = "same size"
      BY <1>1, <2>2 DEF ConstraintKey
    <2>4. R!BaselineTest(key, p, b) = "true"
      BY <1>2, <2>1, <2>2, <2>3
    <2> QED
      BY <2>3, <2>4, TestsAnswer
  <1>10. /\ phase \in {"initial", "maintenance"}
         /\ EvalFormulas(r, p, b, account, phase).res.req
              = R!BaselineValue(<<"vertical_spread", "cash", phase>>, p, b)
    <2>1. EvalFormulas(r, p, b, account, phase).kind = "result"
      BY <1>5
    <2>2. PICK key : key = FormulaKey(r, account, phase)
      OBVIOUS
    <2>3. key = <<"vertical_spread", "cash", phase>> /\ key[1] = r.id
      BY <1>1, <2>2 DEF FormulaKey
    <2>4. /\ account \in {"cash", "margin"} /\ phase \in {"initial", "maintenance"}
          /\ EvalFormulas(r, p, b, account, phase).res.req = Value(key, p, b)
      <3>1. OpenEverywhere(r)
        BY <1>1
      <3> QED
        BY ONLY <2>1, <2>2, <3>1, FormulasCharge
    <2>5. Value(key, p, b) = R!BaselineValue(key, p, b)
      BY <1>2, <2>3
    <2> QED
      BY <2>3, <2>4, <2>5
  <1>11. R!SlotOrder(r.id, b) = SpreadSlots
    BY <1>1 DEF R!SlotOrder, SpreadSlots
  <1>12. ASSUME NEW price \in Nat
         PROVE  -100 * R!B(b)!PayoffAt(SpreadSlots, R!Qty(b, SpreadSlots), price)
                  + R!SumPremiums(b, "long", PremiumField(phase))
                <= R!BaselineValue(<<"vertical_spread", "cash", phase>>, p, b)
    BY <1>6, <1>7, <1>8, <1>9, <1>10, SpreadCovered
  <1> QED
    BY <1>5, <1>6, <1>10, <1>11, <1>12 DEF Covers

\* The invariant implies the property.
LEMMA InvCovers ==
  ASSUME BaselineExpressions, RowsInv, Deciding
  PROVE  RequirementCoversLoss
  <1> SUFFICES ASSUME outcome.kind = "result",
                      \/ outcome.res.rule = "generic_limited_risk_combo"
                      \/ outcome.res.rule = "vertical_spread" /\ call.account = "cash",
                      NEW c \in TryMatch(rb.rules[call.rule], call.pos.legs),
                      NEW price \in 0..MaxPrice
               PROVE  LossAt(c, price)
                        + R!SumPremiums(c, "long", IF call.phase = "initial" THEN "P0" ELSE "P")
                      <= outcome.res.req
    BY DEF RequirementCoversLoss
  <1>1. PICK r : r = rb.rules[call.rule]
    OBVIOUS
  <1>2. call.rule \in DOMAIN rb.rules /\ outcome = EvaluateOne(r, call.pos, call.account, call.phase)
    BY <1>1 DEF Deciding, Asked
  <1>3. outcome.res.rule = r.id
    BY <1>2, ResultNamesRule
  <1>4. PICK raw \in Rulebooks : rb.rules = raw.rules
    BY <1>2 DEF Deciding
  <1>5. r \in Members(raw.rules)
    BY <1>1, <1>2, <1>4 DEF Members
  <1>6. SoundLegs(call.pos.legs)
    <2>1. outcome # Idle /\ Returned
      BY DEF Idle, Scanning, Outcome, Returned
    <2>2. ValidPosition(call.pos)
      BY <2>1 DEF RowsInv, ReconInv, AnswersFirst, Outcome
    <2>3. PICK n \in Nat : call.pos.legs = [i \in 1..n |-> call.pos.legs[i]]
      BY <2>1, LegsOfCall
    <2>4. IsSeq(call.pos.legs)
      BY <2>3, ListIsSeq
    <2>5. \A i \in DOMAIN call.pos.legs : LossColumns \subseteq DOMAIN call.pos.legs[i]
      BY <2>1, LegsOfCall
    <2> QED
      BY <2>2, <2>4, <2>5, ValidContract DEF SoundLegs, ValidPosition
  <1>7. price \in Nat
    BY MaxPriceAssumption
  <1>8. Covers(r.id, c, call.phase, outcome.res.req)
    <2>1. CASE outcome.res.rule = "generic_limited_risk_combo"
      <3>1. r = R!GenericLimitedRiskCombo
        BY <1>3, <1>5, <2>1, ComboRule, BaselineAssumption DEF ChargedByLoss
      <3> QED
        BY <1>1, <1>2, <1>6, <3>1, ComboCovered
    <2>2. CASE outcome.res.rule = "vertical_spread" /\ call.account = "cash"
      <3>1. r = R!VerticalSpread
        BY <1>3, <1>5, <2>2, SpreadRule, BaselineAssumption DEF ChargedByLoss
      <3> QED
        BY <1>1, <1>2, <1>6, <2>2, <3>1, SpreadIsCovered
    <2> QED
      BY <2>1, <2>2
  <1> QED
    BY <1>3, <1>7, <1>8 DEF Covers, LossAt, PremiumField

\* Where the rulebook charges the maximum potential loss (generic_limited_risk_combo,
\* and vertical_spread in a cash account), the requirement covers the long premium and
\* the loss at every price, whatever the files hold, if the tests and formulas of the
\* two rules are the baseline's.  env.go's mpl looks at the loss at zero and at the
\* strikes only, and is_limited_risk at the calls only: together they are enough.
THEOREM LossIsCovered == ASSUME BaselineExpressions PROVE Spec => []RequirementCoversLoss
  <1>1. Spec => [](RowsInv /\ Deciding)
    BY InitRows, NextRows, InitDeciding, NextDeciding, PTL DEF Spec
  <1>2. RowsInv /\ Deciding => RequirementCoversLoss
    BY InvCovers
  <1> QED
    BY <1>1, <1>2, PTL

-----------------------------------------------------------------------------
(***************************************************************************)
(* The order of the legs.  tryMatch looks at one binding, the first that   *)
(* bindSlots finds.  No leg fits two slots of a strategy of the baseline,  *)
(* so there is one binding, whatever the order of the legs; the rule for   *)
(* combinations binds all legs and reads sums over them.                   *)
(***************************************************************************)
\* Slots that no leg matches both of: one of their predicates tells them apart.
TellsApart(x, y) ==
  \/ x.side # y.side /\ x.side # "any" /\ y.side # "any"
  \/ x.kind # y.kind /\ x.kind # "any" /\ y.kind # "any"
  \/ x.type # y.type /\ x.type # "any" /\ y.type # "any"
  \/ x.venue # y.venue /\ x.venue # "any" /\ y.venue # "any"

SlotsExclude(r) == \A i, j \in DOMAIN r.slots : i # j => TellsApart(r.slots[i], r.slots[j])

\* f lists the n places of a sequence in another order.
Reorders(f, n) == f \in [1..n -> 1..n] /\ \A i, j \in 1..n : f[i] = f[j] => i = j

\* It lists every one of them, and there is a way back.
LEMMA ReordersBack ==
  ASSUME NEW n \in Nat, NEW f, Reorders(f, n)
  PROVE  \E g : Reorders(g, n) /\ \A i \in 1..n : f[g[i]] = i /\ g[f[i]] = i
  <1>1. IsFiniteSet(1..n)
    BY IndexesFinite
  <1>2. f \in Injection(1..n, 1..n)
    BY DEF Reorders, Injection, IsInjective
  <1>3. f \in Surjection(1..n, 1..n)
    BY <1>1, <1>2, FS_Injection
  <1>4. \A i \in 1..n : \E j \in 1..n : f[j] = i
    BY <1>3 DEF Surjection
  <1> DEFINE h == [i \in 1..n |-> CHOOSE j \in 1..n : f[j] = i]
  <1>5. \A i \in 1..n : h[i] \in 1..n /\ f[h[i]] = i
    BY <1>4
  <1>6. h \in [1..n -> 1..n]
    BY <1>5
  <1> HIDE DEF h
  <1>7. \A i \in 1..n : h[f[i]] = i
    BY <1>5 DEF Reorders
  <1>8. \A i, j \in 1..n : h[i] = h[j] => i = j
    BY <1>5
  <1> QED
    BY <1>5, <1>6, <1>7, <1>8 DEF Reorders

\* The matcher takes n slots and n legs.
HasRoom(r, legs, n) == n \in 1..MaxSlots /\ ~(Matcher(r, legs)!Cardinality(1..n) > MaxSlots)

\* The sequence t of length n lists s in the order f.
Relists(t, s, n, f) == Reorders(f, n) /\ DOMAIN s = 1..n /\ t = [i \in 1..n |-> s[f[i]]]

LEMMA RoomIsSame == \A r, s, t, n : HasRoom(r, s, n) = HasRoom(r, t, n)
  BY DEF HasRoom, Matcher!Cardinality

\* The legs of a sequence a rule's slots may be bound to, slot by slot.
Binds(r, legs, n, a) ==
  /\ Reorders(a, n)
  /\ \A i \in 1..n : Matcher(r, legs)!SlotMatches(r.slots[i], a[i])

LEMMA BindingsAre ==
  ASSUME NEW r, NEW n \in Nat, Len(r.slots) = n, DOMAIN r.slots = 1..n,
         NEW legs, DOMAIN legs = 1..n
  PROVE  \A a : a \in Matcher(r, legs)!Bindings(r.id, [l \in DOMAIN legs |-> 1])
                  <=> HasRoom(r, legs, n) /\ Binds(r, legs, n, a)
  <1> DEFINE open == [l \in DOMAIN legs |-> 1]
  <1>1. Matcher(r, legs)!OpenLegs(open) = 1..n
    BY DEF Matcher!OpenLegs
  <1>3. \A slot : Matcher(r, legs)!Matching(slot, open)
                    = {l \in 1..n : Matcher(r, legs)!SlotMatches(slot, l)}
    BY <1>1 DEF Matcher!Matching
  <1>4. \A a : Binds(r, legs, n, a)
                 => \A i \in 1..n : Matcher(r, legs)!Matching(r.slots[i], open) # {}
    <2>1. ASSUME NEW a, Binds(r, legs, n, a), NEW i \in 1..n
          PROVE  a[i] \in Matcher(r, legs)!Matching(r.slots[i], open)
      <3>1. a[i] \in 1..n /\ Matcher(r, legs)!SlotMatches(r.slots[i], a[i])
        BY <2>1 DEF Binds, Reorders
      <3>2. a[i] \in {l \in 1..n : Matcher(r, legs)!SlotMatches(r.slots[i], l)}
        BY <3>1
      <3> QED
        BY ONLY <1>3, <3>2, Zenon
    <2> QED
      BY <2>1
  <1>5. \A a : Binds(r, legs, n, a) <=>
          a \in {b \in [1..n -> 1..n] :
                   /\ \A i \in DOMAIN b : Matcher(r, legs)!SlotMatches(r.slots[i], b[i])
                   /\ \A i, j \in DOMAIN b : b[i] = b[j] => i = j}
    BY DEF Binds, Reorders
  <1> DEFINE all == {b \in [1..n -> 1..n] :
                       /\ \A i \in DOMAIN b : Matcher(r, legs)!SlotMatches(r.slots[i], b[i])
                       /\ \A i, j \in DOMAIN b : b[i] = b[j] => i = j}
             idle == \E i \in DOMAIN r.slots : Matcher(r, legs)!Matching(r.slots[i], open) = {}
  <1>6. Matcher(r, legs)!Bindings(r.id, open) = IF ~HasRoom(r, legs, n) \/ idle THEN {} ELSE all
    <2>1. [id \in {r.id} |-> r.slots][r.id] = r.slots
      OBVIOUS
    <2> QED
      BY <1>1, <2>1, Zenon DEF Matcher!Bindings, HasRoom
  <1>7. \A a : Binds(r, legs, n, a) => ~idle
    BY <1>4
  <1>8. \A a : Binds(r, legs, n, a) <=> a \in all
    BY <1>5
  <1> HIDE DEF all, idle
  <1> QED
    BY <1>6, <1>7, <1>8

\* A leg matches at most one of the slots, so there is at most one way to bind them.
LEMMA OneWayToBind ==
  ASSUME NEW r, SlotsExclude(r), NEW n \in Nat, DOMAIN r.slots = 1..n, NEW legs,
         NEW a, Binds(r, legs, n, a), NEW b, Binds(r, legs, n, b)
  PROVE  a = b
  <1>1. ASSUME NEW i \in 1..n, NEW j \in 1..n, NEW l,
               Matcher(r, legs)!SlotMatches(r.slots[i], l),
               Matcher(r, legs)!SlotMatches(r.slots[j], l)
        PROVE  i = j
    <2>1. ~TellsApart(r.slots[i], r.slots[j])
      BY <1>1 DEF TellsApart, Matcher!SlotMatches
    <2> QED
      BY <2>1 DEF SlotsExclude
  <1>2. PICK g : Reorders(g, n) /\ \A i \in 1..n : b[g[i]] = i
    <2>1. Reorders(b, n)
      BY DEF Binds
    <2> QED
      BY <2>1, ReordersBack
  <1>3. ASSUME NEW i \in 1..n PROVE a[i] = b[i]
    <2>1. PICK j \in 1..n : b[j] = a[i]
      BY <1>2 DEF Binds, Reorders
    <2>2. i = j
      BY <1>1, <2>1 DEF Binds
    <2> QED
      BY <2>1, <2>2
  <1> QED
    BY <1>3 DEF Binds, Reorders

\* The binding of names to legs that places in the list amount to.
BindingOf(r, legs, a) ==
  [s \in SlotNames(r) |-> legs[a[CHOOSE i \in DOMAIN r.slots : r.slots[i].name = s]]]

LEMMA FirstBindingIs ==
  ASSUME NEW r, SlotsExclude(r), NEW n \in Nat, Len(r.slots) = n, DOMAIN r.slots = 1..n,
         NEW legs, DOMAIN legs = 1..n
  PROVE  \A b : b \in FirstBinding(r, legs) <=>
                  HasRoom(r, legs, n) /\ \E a : Binds(r, legs, n, a) /\ b = BindingOf(r, legs, a)
  <1> DEFINE open == [l \in DOMAIN legs |-> 1]
  <1>1. PICK all : all = Matcher(r, legs)!Bindings(r.id, open)
    OBVIOUS
  <1>2. \A a : a \in all <=> HasRoom(r, legs, n) /\ Binds(r, legs, n, a)
    BY <1>1, BindingsAre
  <1>3. \A a, b \in all : a = b
    BY <1>2, OneWayToBind
  <1>4. {a \in all : \A b \in all : b = a \/ Matcher(r, legs)!BindingBefore(r.id, open, a, b)} = all
    BY <1>3
  <1>5. FirstBinding(r, legs) = {BindingOf(r, legs, a) : a \in all}
    BY <1>1, <1>4 DEF FirstBinding, BindingOf
  <1> QED
    BY <1>2, <1>5

\* So the binding does not depend on the order the legs are listed in.
LEMMA BindsAnyOrder ==
  ASSUME NEW r, NEW n \in Nat, Len(r.slots) = n, DOMAIN r.slots = 1..n,
         NEW s, NEW t, NEW f, Relists(t, s, n, f), NEW a, Binds(r, t, n, a)
  PROVE  \E b : Binds(r, s, n, b) /\ BindingOf(r, t, a) = BindingOf(r, s, b)
  <1> DEFINE b == [i \in 1..n |-> f[a[i]]]
  <1>1. \A i \in 1..n : a[i] \in 1..n /\ b[i] \in 1..n /\ t[a[i]] = s[b[i]]
    BY DEF Binds, Reorders, Relists
  <1>2. b \in [1..n -> 1..n]
    BY <1>1
  <1>3. \A i \in 1..n : b[i] = f[a[i]]
    OBVIOUS
  <1> HIDE DEF b
  <1>4. Reorders(b, n)
    <2>1. ASSUME NEW i \in 1..n, NEW j \in 1..n, b[i] = b[j] PROVE i = j
      <3>1. f[a[i]] = f[a[j]]
        BY <1>3, <2>1
      <3>2. a[i] = a[j]
        BY <1>1, <3>1 DEF Reorders, Relists
      <3> QED
        BY <3>2 DEF Binds, Reorders
    <2> QED
      BY <1>2, <2>1 DEF Reorders
  <1>5. \A i \in 1..n : Matcher(r, s)!SlotMatches(r.slots[i], b[i])
    BY <1>1 DEF Binds, Matcher!SlotMatches
  <1>6. ASSUME NEW x \in SlotNames(r)
        PROVE  (CHOOSE i \in DOMAIN r.slots : r.slots[i].name = x) \in 1..n
    BY DEF SlotNames
  <1>7. BindingOf(r, t, a) = BindingOf(r, s, b)
    <2> DEFINE c(x) == CHOOSE i \in DOMAIN r.slots : r.slots[i].name = x
    <2>1. \A x \in SlotNames(r) : c(x) \in 1..n
      BY <1>6
    <2> HIDE DEF c
    <2>2. \A x \in SlotNames(r) : t[a[c(x)]] = s[b[c(x)]]
      BY <1>1, <2>1
    <2>3. [x \in SlotNames(r) |-> t[a[c(x)]]] = [x \in SlotNames(r) |-> s[b[c(x)]]]
      BY <2>2
    <2> QED
      BY <2>3, Zenon DEF BindingOf, c
  <1> QED
    BY <1>4, <1>5, <1>7 DEF Binds

LEMMA MatchesAnyOrder ==
  ASSUME NEW r, SlotsExclude(r), r.pattern # "all_options", IsSeq(r.slots),
         NEW n \in Nat, NEW s, IsSeq(s), NEW t, NEW f, Relists(t, s, n, f)
  PROVE  TryMatch(r, t) = TryMatch(r, s)
  <1>1. IsSeq(t) /\ Len(t) = n /\ Len(s) = n /\ DOMAIN t = 1..n /\ DOMAIN s = 1..n
    <2>1. t = [i \in 1..n |-> t[i]] /\ s = [i \in 1..n |-> s[i]]
      BY DEF IsSeq, Relists
    <2> QED
      BY <2>1, ListIsSeq
  <1>2. CASE Len(r.slots) # n
    BY <1>1, <1>2 DEF TryMatch
  <1>3. CASE Len(r.slots) = n
    <2>1. DOMAIN r.slots = 1..n
      BY <1>3 DEF IsSeq
    <2>2. PICK g : Reorders(g, n) /\ \A i \in 1..n : f[g[i]] = i
      BY ReordersBack DEF Relists
    <2>3. s = [i \in 1..n |-> t[g[i]]]
      <3>1. \A i \in 1..n : g[i] \in 1..n /\ s[i] = t[g[i]]
        BY <2>2 DEF Reorders, Relists
      <3>2. s = [i \in 1..n |-> s[i]]
        BY DEF IsSeq, Relists
      <3> QED
        BY <3>1, <3>2
    <2>9. Relists(s, t, n, g)
      BY <1>1, <2>2, <2>3 DEF Relists
    <2>4. ASSUME NEW a, Binds(r, t, n, a)
          PROVE  \E b : Binds(r, s, n, b) /\ BindingOf(r, t, a) = BindingOf(r, s, b)
      BY ONLY <1>3, <2>1, <2>4, BindsAnyOrder, n \in Nat, Relists(t, s, n, f)
    <2>5. ASSUME NEW a, Binds(r, s, n, a)
          PROVE  \E b : Binds(r, t, n, b) /\ BindingOf(r, s, a) = BindingOf(r, t, b)
      BY ONLY <1>3, <2>1, <2>5, <2>9, BindsAnyOrder, n \in Nat
    <2>6. \A b : b \in FirstBinding(r, t) <=>
                   HasRoom(r, t, n) /\ \E a : Binds(r, t, n, a) /\ b = BindingOf(r, t, a)
      BY <1>1, <1>3, <2>1, FirstBindingIs
    <2>7. \A b : b \in FirstBinding(r, s) <=>
                   HasRoom(r, s, n) /\ \E a : Binds(r, s, n, a) /\ b = BindingOf(r, s, a)
      BY <1>1, <1>3, <2>1, FirstBindingIs
    <2>8. FirstBinding(r, t) = FirstBinding(r, s)
      <3>1. ASSUME NEW b PROVE b \in FirstBinding(r, t) => b \in FirstBinding(r, s)
        BY <2>4, <2>6, <2>7, RoomIsSame
      <3>2. ASSUME NEW b PROVE b \in FirstBinding(r, s) => b \in FirstBinding(r, t)
        BY <2>5, <2>6, <2>7, RoomIsSame
      <3> QED
        BY <3>1, <3>2
    <2> QED
      BY <1>1, <1>3, <2>8 DEF TryMatch
  <1> QED
    BY <1>2, <1>3

\* What evaluateOne makes of a rule and a binding.
Judgement(r, p, b, account, phase) ==
  Judged(ConstraintsSay(r, p, b), RequiresSay(r, p, b), EvalFormulas(r, p, b, account, phase))

\* The lists of a rule are finite.
Finitely(r) ==
  /\ IsSeq(r.slots)
  /\ \E n \in Nat : DOMAIN r.constraints = 1..n
  /\ \E n \in Nat : DOMAIN r.requires.minimum = 1..n

\* What r reads of p and the binding b is what it reads of q and the binding c.
ReadsAlike(r, p, b, q, c) ==
  /\ \A i \in DOMAIN r.constraints :
       LET key == ConstraintKey(r, r.constraints[i]) IN Test(key, p, b) = Test(key, q, c)
  /\ FieldsAsRequired(r.requires, b) <=> FieldsAsRequired(r.requires, c)
  /\ \A i \in DOMAIN r.requires.minimum :
       MinimumSays(r, r.requires.minimum[i], p, b) = MinimumSays(r, r.requires.minimum[i], q, c)
  /\ AllSlotsAsRequired(r.requires, b) <=> AllSlotsAsRequired(r.requires, c)
  /\ \A account \in {"cash", "margin"}, label \in R!AllFormulas :
       LET key == FormulaKey(r, account, label) IN Value(key, p, b) = Value(key, q, c)

LEMMA FirstIsIn ==
  ASSUME NEW n \in Nat, NEW S \in SUBSET (1..n), S # {}
  PROVE  FirstOf(S) \in S
  <1>1. IsFiniteSet(1..n)
    BY IndexesFinite
  <1>2. IsFiniteSet(S)
    BY <1>1, FS_Subset
  <1>3. S \in SUBSET Int
    OBVIOUS
  <1> QED
    BY <1>2, <1>3, FirstIsNth

\* Then it answers the same.
LEMMA JudgesAlike ==
  ASSUME NEW r, Finitely(r), NEW p, NEW b, NEW q, NEW c, ReadsAlike(r, p, b, q, c),
         NEW account, NEW phase
  PROVE  Judgement(r, p, b, account, phase) = Judgement(r, q, c, account, phase)
  <1>1. ConstraintsSay(r, p, b) = ConstraintsSay(r, q, c)
    <2> DEFINE say(i) == Test(ConstraintKey(r, r.constraints[i]), p, b)
               says(i) == Test(ConstraintKey(r, r.constraints[i]), q, c)
               broken == {i \in DOMAIN r.constraints : says(i) # "true"}
    <2>1. \A i \in DOMAIN r.constraints : say(i) = says(i)
      BY DEF ReadsAlike
    <2>2. ConstraintsSay(r, q, c) = IF broken = {} THEN "true" ELSE says(FirstOf(broken))
      BY DEF ConstraintsSay
    <2>3. {i \in DOMAIN r.constraints : say(i) # "true"} = broken
      BY <2>1
    <2>4. ConstraintsSay(r, p, b) = IF broken = {} THEN "true" ELSE say(FirstOf(broken))
      BY <2>3, Zenon DEF ConstraintsSay
    <2>5. PICK n \in Nat : DOMAIN r.constraints = 1..n
      BY DEF Finitely
    <2>6. broken \in SUBSET (1..n) /\ broken \in SUBSET DOMAIN r.constraints
      BY <2>5
    <2> HIDE DEF say, says, broken
    <2>7. broken # {} => FirstOf(broken) \in broken
      BY <2>6, FirstIsIn
    <2> QED
      <3>1. broken # {} => say(FirstOf(broken)) = says(FirstOf(broken))
        BY <2>1, <2>6, <2>7
      <3> QED
        <4>1. CASE broken = {}
          BY <2>2, <2>4, <4>1
        <4>2. CASE broken # {}
          BY <2>2, <2>4, <3>1, <4>2
        <4> QED
          BY <4>1, <4>2
  <1>2. RequiresSay(r, p, b) = RequiresSay(r, q, c)
    <2> DEFINE say(i) == MinimumSays(r, r.requires.minimum[i], p, b)
               says(i) == MinimumSays(r, r.requires.minimum[i], q, c)
               short == {i \in DOMAIN r.requires.minimum : says(i) # "ok"}
               fields(x) == FieldsAsRequired(r.requires, x)
               all(x) == AllSlotsAsRequired(r.requires, x)
    <2>1. \A i \in DOMAIN r.requires.minimum : say(i) = says(i)
      BY DEF ReadsAlike
    <2>2. RequiresSay(r, q, c) = IF ~fields(c) THEN "requires"
                                 ELSE IF short # {} THEN says(FirstOf(short))
                                 ELSE IF all(c) THEN "ok" ELSE "requires"
      BY DEF RequiresSay
    <2>3. {i \in DOMAIN r.requires.minimum : say(i) # "ok"} = short
      BY <2>1
    <2>4. RequiresSay(r, p, b) = IF ~fields(b) THEN "requires"
                                 ELSE IF short # {} THEN say(FirstOf(short))
                                 ELSE IF all(b) THEN "ok" ELSE "requires"
      BY <2>3, Zenon DEF RequiresSay
    <2>5. PICK n \in Nat : DOMAIN r.requires.minimum = 1..n
      BY DEF Finitely
    <2>6. short \in SUBSET (1..n) /\ short \in SUBSET DOMAIN r.requires.minimum
      BY <2>5
    <2>7. (fields(b) <=> fields(c)) /\ (all(b) <=> all(c))
      BY DEF ReadsAlike
    <2> HIDE DEF say, says, short, fields, all
    <2>8. short # {} => FirstOf(short) \in short
      BY <2>6, FirstIsIn
    <2> QED
      <3>1. short # {} => say(FirstOf(short)) = says(FirstOf(short))
        BY <2>1, <2>6, <2>8
      <3> QED
        <4>1. CASE short = {}
          BY <2>2, <2>4, <2>7, <4>1
        <4>2. CASE short # {}
          BY <2>2, <2>4, <2>7, <3>1, <4>2
        <4> QED
          BY <4>1, <4>2
  <1>3. EvalFormulas(r, p, b, account, phase) = EvalFormulas(r, q, c, account, phase)
    <2>1. CASE account \notin {"cash", "margin"} \/ phase \notin {"initial", "maintenance"}
      BY <2>1 DEF EvalFormulas
    <2>2. CASE account \in {"cash", "margin"} /\ phase \in {"initial", "maintenance"}
      <3>1. /\ phase \in R!AllFormulas /\ ProceedsLabel(phase) \in R!AllFormulas
        BY <2>2 DEF R!AllFormulas, R!Phases, ProceedsLabel
      <3>2. /\ Value(FormulaKey(r, account, phase), p, b) = Value(FormulaKey(r, account, phase), q, c)
            /\ Value(FormulaKey(r, account, ProceedsLabel(phase)), p, b)
                 = Value(FormulaKey(r, account, ProceedsLabel(phase)), q, c)
        BY <2>2, <3>1 DEF ReadsAlike
      <3> QED
        BY <3>2, Zenon DEF EvalFormulas
    <2> QED
      BY <2>1, <2>2
  <1> QED
    BY <1>1, <1>2, <1>3, Zenon DEF Judgement

LEMMA EvaluatesBinding ==
  ASSUME NEW r, NEW p, NEW account, NEW phase,
         NEW b, b = CHOOSE x \in TryMatch(r, p.legs) : TRUE
  PROVE  EvaluateOne(r, p, account, phase)
           = IF TryMatch(r, p.legs) = {} THEN Outcome("no") ELSE Judgement(r, p, b, account, phase)
  BY DEF EvaluateOne, Judgement

\* The legs of q are those of p in another order.
Relisted(q, p) == IsSeq(p.legs) /\ \E n \in Nat : \E f : Relists(q.legs, p.legs, n, f)

\* What r reads of q is what it reads of p, whatever legs it binds.
ReadsTheSame(r, q, p) == \A b : ReadsAlike(r, q, b, p, b)

\* The answer of a rule with slots does not depend on the order of the legs ...
LEMMA NamedAnyOrder ==
  ASSUME NEW r, SlotsExclude(r), r.pattern # "all_options", Finitely(r),
         NEW p, NEW q, Relisted(q, p),
         ReadsTheSame(r, q, p), NEW account, NEW phase
  PROVE  EvaluateOne(r, q, account, phase) = EvaluateOne(r, p, account, phase)
  <1>1. TryMatch(r, q.legs) = TryMatch(r, p.legs)
    <2>1. IsSeq(r.slots)
      BY DEF Finitely
    <2>2. PICK n \in Nat : \E f : Relists(q.legs, p.legs, n, f)
      BY DEF Relisted
    <2>3. PICK f : Relists(q.legs, p.legs, n, f)
      BY <2>2
    <2>4. IsSeq(p.legs)
      BY DEF Relisted
    <2> QED
      BY <2>1, <2>3, <2>4, MatchesAnyOrder
  <1>2. PICK b : b = CHOOSE x \in TryMatch(r, p.legs) : TRUE
    OBVIOUS
  <1>3. b = CHOOSE x \in TryMatch(r, q.legs) : TRUE
    BY <1>1, <1>2
  <1>4. Judgement(r, q, b, account, phase) = Judgement(r, p, b, account, phase)
    BY JudgesAlike DEF ReadsTheSame
  <1>5. EvaluateOne(r, p, account, phase)
          = IF TryMatch(r, p.legs) = {} THEN Outcome("no") ELSE Judgement(r, p, b, account, phase)
    BY <1>2, EvaluatesBinding
  <1>6. EvaluateOne(r, q, account, phase)
          = IF TryMatch(r, q.legs) = {} THEN Outcome("no") ELSE Judgement(r, q, b, account, phase)
    BY <1>3, EvaluatesBinding
  <1> QED
    <2>1. CASE TryMatch(r, p.legs) = {}
      BY <1>1, <1>5, <1>6, <2>1
    <2>2. CASE TryMatch(r, p.legs) # {}
      BY <1>1, <1>4, <1>5, <1>6, <2>2
    <2> QED
      BY <2>1, <2>2

\* ... nor does that of a rule for combinations.
LEMMA ComboAnyOrder ==
  ASSUME NEW r, r.pattern = "all_options", Finitely(r),
         NEW p, NEW q, Relisted(q, p),
         AllOptions(r, p.legs) => ReadsAlike(r, q, q.legs, p, p.legs), NEW account, NEW phase
  PROVE  EvaluateOne(r, q, account, phase) = EvaluateOne(r, p, account, phase)
  <1> DEFINE s == p.legs
             t == q.legs
  <1>9. PICK n \in Nat : \E f : Relists(t, s, n, f)
    BY DEF Relisted
  <1>10. PICK f : Relists(t, s, n, f)
    BY <1>9
  <1>11. IsSeq(s)
    BY DEF Relisted
  <1>1. /\ DOMAIN t = 1..n /\ DOMAIN s = 1..n /\ IsSeq(t) /\ IsSeq(s) /\ Len(t) = n /\ Len(s) = n
        /\ \A i \in 1..n : f[i] \in 1..n /\ t[i] = s[f[i]]
    <2>1. t = [i \in 1..n |-> t[i]] /\ s = [i \in 1..n |-> s[i]]
      BY <1>10, <1>11 DEF IsSeq, Relists
    <2>2. \A i \in 1..n : f[i] \in 1..n /\ t[i] = s[f[i]]
      BY <1>10 DEF Relists, Reorders
    <2> QED
      BY <2>1, <2>2, ListIsSeq
  <1>2. (t = <<>> <=> n = 0) /\ (s = <<>> <=> n = 0)
    BY <1>1 DEF IsSeq
  <1>3. \A i \in 1..n : \E j \in 1..n : f[j] = i
    <2>1. PICK g : Reorders(g, n) /\ \A i \in 1..n : f[g[i]] = i
      BY <1>10, ReordersBack DEF Relists
    <2> QED
      BY <2>1 DEF Reorders
  <1>4. (\A i \in DOMAIN t : t[i].kind = "option") <=> (\A i \in DOMAIN s : s[i].kind = "option")
    <2>1. ASSUME \A i \in 1..n : t[i].kind = "option", NEW i \in 1..n PROVE s[i].kind = "option"
      <3>1. PICK j \in 1..n : f[j] = i
        BY <1>3
      <3> QED
        BY <1>1, <2>1, <3>1
    <2>2. ASSUME \A i \in 1..n : s[i].kind = "option", NEW i \in 1..n PROVE t[i].kind = "option"
      BY <1>1, <2>2
    <2> QED
      BY <1>1, <2>1, <2>2
  <1>5. AllOptions(r, t) <=> AllOptions(r, s)
    BY <1>1, <1>2, <1>4 DEF AllOptions
  <1>6. TryMatch(r, t) = (IF AllOptions(r, s) THEN {t} ELSE {})
        /\ TryMatch(r, s) = (IF AllOptions(r, s) THEN {s} ELSE {})
    BY <1>5 DEF TryMatch
  <1>7. CASE ~AllOptions(r, s)
    <2>1. TryMatch(r, t) = {} /\ TryMatch(r, s) = {}
      BY <1>6, <1>7
    <2> QED
      BY <2>1, EvaluatesBinding
  <1>8. CASE AllOptions(r, s)
    <2>1. TryMatch(r, t) = {t} /\ TryMatch(r, s) = {s}
      BY <1>6, <1>8
    <2>2. /\ EvaluateOne(r, p, account, phase) = Judgement(r, p, s, account, phase)
          /\ EvaluateOne(r, q, account, phase) = Judgement(r, q, t, account, phase)
      BY <2>1, EvaluatesBinding
    <2>3. Judgement(r, q, t, account, phase) = Judgement(r, p, s, account, phase)
      BY <1>8, JudgesAlike
    <2> QED
      BY <2>2, <2>3
  <1> QED
    BY <1>7, <1>8

\* The strategies of the baseline: its rules with slots.
Strategies ==
  {R!LongOptionShortDated, R!Uncovered("short_call_uncovered", "call"),
   R!Uncovered("short_put_uncovered", "put"), R!ShortStrangleOrStraddle, R!VerticalSpread,
   R!LongBoxSpread, R!ShortBoxSpread, R!ShortPutShortStock, R!CoveredCall}

LEMMA RulesAre == Members(R!BaselineRules) = Strategies \cup {R!GenericLimitedRiskCombo}
  <1> DEFINE s == R!BaselineRules
  <1>1. s = <<R!LongOptionShortDated, R!Uncovered("short_call_uncovered", "call"),
              R!Uncovered("short_put_uncovered", "put"), R!ShortStrangleOrStraddle,
              R!VerticalSpread, R!LongBoxSpread, R!ShortBoxSpread, R!ShortPutShortStock,
              R!CoveredCall, R!GenericLimitedRiskCombo>>
    BY DEF R!BaselineRules
  <1>2. DOMAIN s = 1..10
    BY <1>1
  <1>3. \A i \in 1..10 : i = 1 \/ i = 2 \/ i = 3 \/ i = 4 \/ i = 5 \/ i = 6 \/ i = 7 \/ i = 8 \/ i = 9 \/ i = 10
    OBVIOUS
  <1>4. /\ s[1] = R!LongOptionShortDated /\ s[2] = R!Uncovered("short_call_uncovered", "call")
        /\ s[3] = R!Uncovered("short_put_uncovered", "put") /\ s[4] = R!ShortStrangleOrStraddle
        /\ s[5] = R!VerticalSpread /\ s[6] = R!LongBoxSpread /\ s[7] = R!ShortBoxSpread
        /\ s[8] = R!ShortPutShortStock /\ s[9] = R!CoveredCall
        /\ s[10] = R!GenericLimitedRiskCombo
    BY <1>1
  <1> HIDE DEF s
  <1>5. \A x : x \in Members(s) <=> \E i \in 1..10 : x = s[i]
    BY <1>2 DEF Members
  <1>6. \A x : x \in Members(s) <=> x \in Strategies \cup {R!GenericLimitedRiskCombo}
    BY <1>3, <1>4, <1>5 DEF Strategies
  <1> QED
    BY <1>6 DEF s

\* A rule with these slots, of finite lists.
Shape(r, id, slots) == r.id = id /\ r.pattern = "" /\ r.slots = slots /\ Finitely(r)

LEMMA ListsAre ==
  ASSUME NEW r, IsSeq(r.slots), NEW n \in Nat, DOMAIN r.constraints = 1..n,
         NEW m \in Nat, DOMAIN r.requires.minimum = 1..m
  PROVE  Finitely(r)
  BY DEF Finitely

LEMMA TwoSlots == ASSUME NEW x, NEW y PROVE IsSeq(<<x, y>>)
  <1>1. <<x, y>> \in Seq({x, y})
    OBVIOUS
  <1> QED
    BY <1>1 DEF IsSeq

LEMMA OneSlot == ASSUME NEW x PROVE IsSeq(<<x>>)
  <1>1. <<x>> \in Seq({x})
    OBVIOUS
  <1> QED
    BY <1>1 DEF IsSeq

LEMMA FourSlots == ASSUME NEW x, NEW y, NEW z, NEW w PROVE IsSeq(<<x, y, z, w>>)
  <1>1. <<x, y, z, w>> \in Seq({x, y, z, w})
    OBVIOUS
  <1> QED
    BY <1>1 DEF IsSeq

\* The slots of a box, long or short.
SlotsOfBox ==
  <<R!Slot("bc", "long", "option", "call"), R!Slot("bp", "short", "option", "put"),
    R!Slot("sp", "long", "option", "put"), R!Slot("sc", "short", "option", "call")>>

LEMMA ShortDatedShape ==
  Shape(R!LongOptionShortDated, "long_option_short_dated", <<R!Slot("opt", "long", "option", "any")>>)
  <1> DEFINE r == R!LongOptionShortDated
  <1>1. /\ r.id = "long_option_short_dated" /\ r.pattern = ""
        /\ r.slots = <<R!Slot("opt", "long", "option", "any")>>
        /\ DOMAIN r.constraints = 1..1 /\ DOMAIN r.requires.minimum = 1..0
    BY DEF R!LongOptionShortDated, R!Plain, R!NoRequires, R!Block
  <1> HIDE DEF r
  <1>2. Finitely(r)
    BY <1>1, OneSlot, ListsAre
  <1> QED
    BY <1>1, <1>2 DEF Shape, r

LEMMA UncoveredShape ==
  ASSUME NEW id, NEW type
  PROVE  Shape(R!Uncovered(id, type), id, <<R!Slot("opt", "short", "option", type)>>)
  <1> DEFINE r == R!Uncovered(id, type)
  <1>1. /\ r.id = id /\ r.pattern = ""
        /\ r.slots = <<R!Slot("opt", "short", "option", type)>>
        /\ DOMAIN r.constraints = 1..0 /\ DOMAIN r.requires.minimum = 1..0
    BY DEF R!Uncovered, R!Plain, R!NoRequires, R!Block
  <1> HIDE DEF r
  <1>2. Finitely(r)
    BY <1>1, OneSlot, ListsAre
  <1> QED
    BY <1>1, <1>2 DEF Shape, r

LEMMA StrangleShape ==
  Shape(R!ShortStrangleOrStraddle, "short_strangle_or_straddle",
        <<R!Slot("sp", "short", "option", "put"), R!Slot("sc", "short", "option", "call")>>)
  <1> DEFINE r == R!ShortStrangleOrStraddle
  <1>1. /\ r.id = "short_strangle_or_straddle" /\ r.pattern = ""
        /\ r.slots = <<R!Slot("sp", "short", "option", "put"), R!Slot("sc", "short", "option", "call")>>
    BY DEF R!ShortStrangleOrStraddle, R!Plain
  <1>3. DOMAIN r.constraints = 1..2
    BY DEF R!ShortStrangleOrStraddle, R!Plain
  <1>4. r.requires.minimum = <<>>
    BY DEF R!ShortStrangleOrStraddle, R!Plain, R!NoRequires
  <1> HIDE DEF r
  <1>5. DOMAIN r.requires.minimum = 1..0
    BY <1>4
  <1>2. Finitely(r)
    BY <1>1, <1>3, <1>5, TwoSlots, ListsAre
  <1> QED
    BY <1>1, <1>2 DEF Shape, r

LEMMA VerticalShape ==
  Shape(R!VerticalSpread, "vertical_spread",
        <<R!Slot("long_leg", "long", "option", "any"), R!Slot("short_leg", "short", "option", "any")>>)
  <1> DEFINE r == R!VerticalSpread
  <1>1. /\ r.id = "vertical_spread" /\ r.pattern = ""
        /\ r.slots = <<R!Slot("long_leg", "long", "option", "any"),
                       R!Slot("short_leg", "short", "option", "any")>>
    BY DEF R!VerticalSpread, R!Plain
  <1>3. DOMAIN r.constraints = 1..6
    BY DEF R!VerticalSpread, R!Plain
  <1>4. r.requires.minimum = <<>>
    BY DEF R!VerticalSpread, R!Plain, R!NoRequires
  <1> HIDE DEF r
  <1>5. DOMAIN r.requires.minimum = 1..0
    BY <1>4
  <1>2. Finitely(r)
    BY <1>1, <1>3, <1>5, TwoSlots, ListsAre
  <1> QED
    BY <1>1, <1>2 DEF Shape, r

LEMMA BoxShape ==
  ASSUME NEW id, NEW strikes
  PROVE  /\ Shape(R!Box(id, strikes), id, SlotsOfBox)
         /\ DOMAIN R!Box(id, strikes).constraints = 1..3
         /\ R!Box(id, strikes).constraints[2] = strikes
  <1> DEFINE r == R!Box(id, strikes)
             plain == R!Plain(id, SlotsOfBox)
             none == R!NoRequires
             tests == <<"paired strikes", strikes, "same expirations">>
             required == R!Each(R!Range(R!BoxSlots), {"und", "style"})
             same == R!Together(R!BoxSlots, <<"und", "style">>)
             sizes == <<R!BoxSlots>>
             dates == R!BoxSlots
  <1>4. r = [plain EXCEPT !.constraints = tests, !.requires.required = required,
                          !.requires.same = same, !.requires.sizes = sizes,
                          !.requires.expirations = dates]
    BY DEF R!Box, SlotsOfBox
  <1>5. /\ plain.id = id /\ plain.pattern = "" /\ plain.slots = SlotsOfBox /\ plain.requires = none
        /\ DOMAIN plain = {"id", "pattern", "slots", "min", "max", "constraints", "requires",
                           "cash", "margin"}
    BY DEF R!Plain
  <1>6. /\ DOMAIN none = {"required", "positive", "expirations", "same", "sizes", "minimum", "all"}
        /\ none.minimum = <<>>
    BY DEF R!NoRequires
  <1>7. DOMAIN tests = 1..3 /\ tests[2] = strikes
    OBVIOUS
  <1> HIDE DEF r, plain, none, tests, required, same, sizes, dates
  <1>8. /\ r.id = id /\ r.pattern = "" /\ r.slots = SlotsOfBox /\ r.constraints = tests
        /\ r.requires = [none EXCEPT !.required = required, !.same = same, !.sizes = sizes,
                                     !.expirations = dates]
    BY <1>4, <1>5
  <1>9. r.requires.minimum = <<>>
    BY <1>6, <1>8
  <1>10. DOMAIN <<>> = 1..0
    OBVIOUS
  <1>1. /\ r.id = id /\ r.pattern = "" /\ r.slots = SlotsOfBox
        /\ DOMAIN r.constraints = 1..3 /\ DOMAIN r.requires.minimum = 1..0
        /\ r.constraints[2] = strikes
    BY <1>7, <1>8, <1>9, <1>10
  <1>2. IsSeq(r.slots)
    BY <1>1, FourSlots DEF SlotsOfBox
  <1>3. Finitely(r)
    BY <1>1, <1>2, ListsAre
  <1> QED
    BY <1>1, <1>3 DEF Shape, r

LEMMA LongBoxShape ==
  /\ Shape(R!LongBoxSpread, "long_box_spread", SlotsOfBox)
  /\ DOMAIN R!LongBoxSpread.constraints = 1..3
  /\ R!LongBoxSpread.constraints[2] = "bc lower"
  <1> DEFINE b == R!Box("long_box_spread", "bc lower")
             r == R!LongBoxSpread
             block == R!Block("", {}, "")
  <1>1. r = [b EXCEPT !.cash = block]
    BY DEF R!LongBoxSpread
  <1>5. DOMAIN b = {"id", "pattern", "slots", "min", "max", "constraints", "requires", "cash",
                    "margin"}
    BY DEF R!Box, R!Plain
  <1> HIDE DEF b, r, block
  <1>2. /\ r.id = b.id /\ r.pattern = b.pattern /\ r.slots = b.slots
        /\ r.constraints = b.constraints /\ r.requires = b.requires
    BY <1>1, <1>5
  <1>3. /\ Shape(b, "long_box_spread", SlotsOfBox) /\ DOMAIN b.constraints = 1..3
        /\ b.constraints[2] = "bc lower"
    BY BoxShape DEF b
  <1>4. Finitely(r)
    BY <1>2, <1>3, Zenon DEF Shape, Finitely
  <1> QED
    BY <1>2, <1>3, <1>4 DEF Shape, r

LEMMA ShortStockShape ==
  Shape(R!ShortPutShortStock, "short_put_short_stock",
        <<R!Slot("sp", "short", "option", "put"), R!Slot("ss", "short", "stock", "any")>>)
  <1> DEFINE r == R!ShortPutShortStock
  <1>1. /\ r.id = "short_put_short_stock" /\ r.pattern = ""
        /\ r.slots = <<R!Slot("sp", "short", "option", "put"), R!Slot("ss", "short", "stock", "any")>>
        /\ DOMAIN r.constraints = 1..0 /\ DOMAIN r.requires.minimum = 1..0
    BY DEF R!ShortPutShortStock, R!Plain, R!NoRequires, R!Block
  <1> HIDE DEF r
  <1>2. Finitely(r)
    BY <1>1, TwoSlots, ListsAre
  <1> QED
    BY <1>1, <1>2 DEF Shape, r

LEMMA CoveredCallShape ==
  Shape(R!CoveredCall, "covered_call",
        <<R!Slot("sc", "short", "option", "call"), R!Slot("ls", "long", "stock", "any")>>)
  <1> DEFINE r == R!CoveredCall
             slots == <<R!Slot("sc", "short", "option", "call"), R!Slot("ls", "long", "stock", "any")>>
             plain == R!Plain("covered_call", slots)
             none == R!NoRequires
             required == R!Each({"sc", "ls"}, {"und"})
             same == R!Together(<<"sc", "ls">>, <<"und">>)
             minimum == <<[slot |-> "ls", field |-> "shares", gte |-> "qty * mult"]>>
             phases == R!Phases
  <1>3. r = [plain EXCEPT !.requires.required = required, !.requires.same = same,
                          !.requires.minimum = minimum, !.cash.formulas = phases]
    BY DEF R!CoveredCall
  <1>4. /\ plain.id = "covered_call" /\ plain.pattern = "" /\ plain.slots = slots
        /\ plain.constraints = <<>> /\ plain.requires = none
        /\ DOMAIN plain = {"id", "pattern", "slots", "min", "max", "constraints", "requires",
                           "cash", "margin"}
    BY DEF R!Plain
  <1>5. DOMAIN none = {"required", "positive", "expirations", "same", "sizes", "minimum", "all"}
    BY DEF R!NoRequires
  <1>6. DOMAIN minimum = 1..1 /\ DOMAIN <<>> = 1..0
    OBVIOUS
  <1> HIDE DEF r, plain, slots, none, required, same, minimum, phases
  <1>7. /\ r.id = "covered_call" /\ r.pattern = "" /\ r.slots = slots /\ r.constraints = <<>>
        /\ r.requires = [none EXCEPT !.required = required, !.same = same, !.minimum = minimum]
    BY <1>3, <1>4
  <1>8. r.requires.minimum = minimum
    BY <1>5, <1>7
  <1>1. /\ r.id = "covered_call" /\ r.pattern = ""
        /\ r.slots = <<R!Slot("sc", "short", "option", "call"), R!Slot("ls", "long", "stock", "any")>>
        /\ DOMAIN r.constraints = 1..0 /\ DOMAIN r.requires.minimum = 1..1
    BY <1>6, <1>7, <1>8 DEF slots
  <1>2. Finitely(r)
    BY <1>1, TwoSlots, ListsAre
  <1> QED
    BY <1>1, <1>2 DEF Shape, r

LEMMA ComboShape ==
  LET r == R!GenericLimitedRiskCombo IN
  /\ r.id = "generic_limited_risk_combo" /\ r.pattern = "all_options" /\ r.slots = <<>>
  /\ r.min = 3 /\ r.max = 8
  /\ Finitely(r)
  /\ r.requires.required = {} /\ r.requires.positive = {} /\ r.requires.expirations = <<>>
  /\ r.requires.same = <<>> /\ r.requires.sizes = <<>> /\ r.requires.minimum = <<>>
  <1> DEFINE r == R!GenericLimitedRiskCombo
  <1>1. /\ r.id = "generic_limited_risk_combo" /\ r.pattern = "all_options" /\ r.slots = <<>>
        /\ r.min = 3 /\ r.max = 8
        /\ r.requires.required = {} /\ r.requires.positive = {} /\ r.requires.expirations = <<>>
        /\ r.requires.same = <<>> /\ r.requires.sizes = <<>> /\ r.requires.minimum = <<>>
        /\ DOMAIN r.constraints = 1..1
    BY DEF R!GenericLimitedRiskCombo, R!Plain, R!NoRequires, R!Block
  <1> HIDE DEF r
  <1>2. DOMAIN r.requires.minimum = 1..0
    BY <1>1
  <1>3. Finitely(r)
    BY <1>1, <1>2, EmptyIsSeq, ListsAre
  <1> QED
    BY <1>1, <1>3 DEF r

LEMMA OneExcludes ==
  ASSUME NEW r, NEW x, r.slots = <<x>>
  PROVE  SlotsExclude(r)
  BY DEF SlotsExclude

LEMMA TwoExclude ==
  ASSUME NEW r, NEW x, NEW y, r.slots = <<x, y>>, TellsApart(x, y)
  PROVE  SlotsExclude(r)
  <1>1. DOMAIN r.slots = 1..2 /\ r.slots[1] = x /\ r.slots[2] = y
    OBVIOUS
  <1>2. \A i \in 1..2 : i = 1 \/ i = 2
    OBVIOUS
  <1>3. TellsApart(y, x)
    BY DEF TellsApart
  <1> QED
    BY <1>1, <1>2, <1>3 DEF SlotsExclude

LEMMA BoxExcludes == \A r : r.slots = SlotsOfBox => SlotsExclude(r)
  <1> DEFINE bc == R!Slot("bc", "long", "option", "call")
             bp == R!Slot("bp", "short", "option", "put")
             sp == R!Slot("sp", "long", "option", "put")
             sc == R!Slot("sc", "short", "option", "call")
  <1>1. /\ TellsApart(bc, bp) /\ TellsApart(bc, sp) /\ TellsApart(bc, sc)
        /\ TellsApart(bp, sp) /\ TellsApart(bp, sc) /\ TellsApart(sp, sc)
    BY DEF TellsApart, R!Slot
  <1>2. \A x, y : TellsApart(x, y) => TellsApart(y, x)
    BY DEF TellsApart
  <1>3. SlotsOfBox = <<bc, bp, sp, sc>>
    BY DEF SlotsOfBox
  <1> HIDE DEF bc, bp, sp, sc
  <1>4. DOMAIN SlotsOfBox = 1..4 /\ SlotsOfBox[1] = bc /\ SlotsOfBox[2] = bp
        /\ SlotsOfBox[3] = sp /\ SlotsOfBox[4] = sc
    BY <1>3
  <1>5. \A i \in 1..4 : i = 1 \/ i = 2 \/ i = 3 \/ i = 4
    OBVIOUS
  <1> QED
    BY <1>1, <1>2, <1>4, <1>5 DEF SlotsExclude

\* No leg fits two slots of a strategy.
LEMMA StrategyFacts ==
  ASSUME NEW r \in Strategies
  PROVE  r.pattern = "" /\ Finitely(r) /\ SlotsExclude(r)
  <1>1. CASE r = R!LongOptionShortDated
    BY <1>1, ShortDatedShape, OneExcludes DEF Shape
  <1>2. CASE r = R!Uncovered("short_call_uncovered", "call")
    <2>1. Shape(R!Uncovered("short_call_uncovered", "call"), "short_call_uncovered",
                <<R!Slot("opt", "short", "option", "call")>>)
      BY UncoveredShape
    <2> QED
      BY <1>2, <2>1, OneExcludes DEF Shape
  <1>3. CASE r = R!Uncovered("short_put_uncovered", "put")
    <2>1. Shape(R!Uncovered("short_put_uncovered", "put"), "short_put_uncovered",
                <<R!Slot("opt", "short", "option", "put")>>)
      BY UncoveredShape
    <2> QED
      BY <1>3, <2>1, OneExcludes DEF Shape
  <1>4. CASE r = R!ShortStrangleOrStraddle
    <2>1. TellsApart(R!Slot("sp", "short", "option", "put"), R!Slot("sc", "short", "option", "call"))
      BY DEF TellsApart, R!Slot
    <2> QED
      BY <1>4, <2>1, StrangleShape, TwoExclude DEF Shape
  <1>5. CASE r = R!VerticalSpread
    <2>1. TellsApart(R!Slot("long_leg", "long", "option", "any"),
                     R!Slot("short_leg", "short", "option", "any"))
      BY DEF TellsApart, R!Slot
    <2> QED
      BY <1>5, <2>1, VerticalShape, TwoExclude DEF Shape
  <1>6. CASE r = R!LongBoxSpread
    BY <1>6, LongBoxShape, BoxExcludes DEF Shape
  <1>7. CASE r = R!ShortBoxSpread
    <2>1. Shape(R!ShortBoxSpread, "short_box_spread", SlotsOfBox)
      BY BoxShape DEF R!ShortBoxSpread
    <2> QED
      BY <1>7, <2>1, BoxExcludes DEF Shape
  <1>8. CASE r = R!ShortPutShortStock
    <2>1. TellsApart(R!Slot("sp", "short", "option", "put"), R!Slot("ss", "short", "stock", "any"))
      BY DEF TellsApart, R!Slot
    <2> QED
      BY <1>8, <2>1, ShortStockShape, TwoExclude DEF Shape
  <1>9. CASE r = R!CoveredCall
    <2>1. TellsApart(R!Slot("sc", "short", "option", "call"), R!Slot("ls", "long", "stock", "any"))
      BY DEF TellsApart, R!Slot
    <2> QED
      BY <1>9, <2>1, CoveredCallShape, TwoExclude DEF Shape
  <1> QED
    BY <1>1, <1>2, <1>3, <1>4, <1>5, <1>6, <1>7, <1>8, <1>9 DEF Strategies

\* The expressions of the rulebook are those of the baseline.
ExpressionsAreBaseline ==
  \A r \in Members(R!BaselineRules) : \A key, p, b : key[1] = r.id =>
    /\ Test(key, p, b) = R!BaselineTest(key, p, b)
    /\ Value(key, p, b) = R!BaselineValue(key, p, b)

\* Of a position they read the underlying's price and class, and the bound legs.
LEMMA ReadsPrices ==
  ASSUME NEW p, NEW q, p.U = q.U, p.class = q.class, NEW key, NEW b
  PROVE  /\ R!BaselineTest(key, p, b) = R!BaselineTest(key, q, b)
         /\ R!BaselineValue(key, p, b) = R!BaselineValue(key, q, b)
  <1>1. R!BaselineTest(key, p, b) = R!BaselineTest(key, q, b)
    BY Zenon DEF R!BaselineTest
  <1>2. \A id, phase : R!Margin(id, phase, p, b) = R!Margin(id, phase, q, b)
    <2>1. R!LongStockUpkeep(p, b) = R!LongStockUpkeep(q, b)
      BY Zenon DEF R!LongStockUpkeep
    <2>2. R!ShortStockMargin(p, b) = R!ShortStockMargin(q, b)
      BY Zenon DEF R!ShortStockMargin
    <2>3. R!ShortStockUpkeep(p, b) = R!ShortStockUpkeep(q, b)
      BY Zenon DEF R!ShortStockUpkeep
    <2>4. [U |-> p.U, class |-> p.class] = [U |-> q.U, class |-> q.class]
      OBVIOUS
    <2> QED
      BY <2>1, <2>2, <2>3, <2>4, Zenon DEF R!Margin
  <1>3. \A id, phase : R!Cash(id, phase, p, b) = R!Cash(id, phase, q, b)
    BY <1>2, Zenon DEF R!Cash
  <1>4. R!BaselineValue(key, p, b) = R!BaselineValue(key, q, b)
    BY <1>2, <1>3, Zenon DEF R!BaselineValue
  <1> QED
    BY <1>1, <1>4

LEMMA StrategyReads ==
  ASSUME ExpressionsAreBaseline, NEW r \in Members(R!BaselineRules),
         NEW p, NEW q, p.U = q.U, p.class = q.class, NEW b
  PROVE  ReadsAlike(r, q, b, p, b)
  <1>1. ASSUME NEW key, key[1] = r.id
        PROVE  Test(key, q, b) = Test(key, p, b) /\ Value(key, q, b) = Value(key, p, b)
    BY <1>1, ReadsPrices DEF ExpressionsAreBaseline
  <1>2. \A x : ConstraintKey(r, x)[1] = r.id
    BY DEF ConstraintKey
  <1>3. \A m : MinimumKey(r, m)[1] = r.id
    BY DEF MinimumKey
  <1>4. \A account, label : FormulaKey(r, account, label)[1] = r.id
    BY DEF FormulaKey
  <1>5. \A m : MinimumSays(r, m, q, b) = MinimumSays(r, m, p, b)
    BY <1>1, <1>3 DEF MinimumSays
  <1> QED
    BY <1>1, <1>2, <1>4, <1>5 DEF ReadsAlike

\* A strategy answers the same in whatever order the legs are listed.
LEMMA StrategyAnyOrder ==
  ASSUME ExpressionsAreBaseline, NEW r \in Strategies,
         NEW p, NEW q, p.U = q.U, p.class = q.class,
         Relisted(q, p), NEW account, NEW phase
  PROVE  EvaluateOne(r, q, account, phase) = EvaluateOne(r, p, account, phase)
  <1>1. r.pattern # "all_options" /\ Finitely(r) /\ SlotsExclude(r)
    BY StrategyFacts
  <1>2. r \in Members(R!BaselineRules)
    BY RulesAre
  <1>3. ReadsTheSame(r, q, p)
    BY <1>2, StrategyReads DEF ReadsTheSame
  <1> QED
    BY <1>1, <1>3, NamedAnyOrder

\* A sum over places of a sequence does not depend on the order it is listed in.
LEMMA SumRelisted ==
  ASSUME NEW n \in Nat, NEW f, Reorders(f, n), NEW v, NEW w,
         \A i \in 1..n : v[i] \in Int /\ w[i] = v[f[i]], NEW S \in SUBSET (1..n)
  PROVE  Sum(w, {i \in 1..n : f[i] \in S}) = Sum(v, S)
  <1> DEFINE U == 1..n
             T == {i \in U : f[i] \in S}
             m == [i \in T |-> f[i]]
  <1>1. PICK g : Reorders(g, n) /\ \A i \in 1..n : f[g[i]] = i
    BY ReordersBack
  <1>2. IsFiniteSet(U)
    BY IndexesFinite
  <1>3. T \in SUBSET U /\ \A i \in T : i \in 1..n
    OBVIOUS
  <1>4. \A i \in 1..n : f[i] \in U
    BY DEF Reorders
  <1>5. {m[i] : i \in T} = S
    <2>1. ASSUME NEW j \in S PROVE j \in {m[i] : i \in T}
      <3>1. j \in 1..n /\ g[j] \in T /\ f[g[j]] = j
        BY <1>1, <2>1 DEF Reorders
      <3>2. m[g[j]] = j
        BY <3>1
      <3> QED
        BY <3>1, <3>2
    <2>2. \A i \in T : m[i] \in S
      OBVIOUS
    <2> HIDE DEF T, m
    <2> QED
      BY <2>1, <2>2
  <1>6. \A i \in T : m[i] = f[i]
    OBVIOUS
  <1>7. m \in [T -> U]
    <2>1. \A i \in T : f[i] \in U
      BY <1>3, <1>4
    <2> HIDE DEF T, U
    <2> QED
      BY <2>1
  <1> HIDE DEF T, m
  <1>8. IsFiniteSet(T)
    BY <1>2, <1>3, FS_Subset
  <1>9. \A i, j \in T : m[i] = m[j] => i = j
    BY <1>3, <1>6 DEF Reorders
  <1>10. \A i \in T : w[i] \in Int /\ v[m[i]] = w[i]
    BY <1>3, <1>4, <1>6
  <1> HIDE DEF U
  <1>11. Sum(v, {m[i] : i \in T}) = Sum(w, T)
    BY ONLY <1>2, <1>7, <1>8, <1>9, <1>10, SumRenamed
  <1> QED
    BY <1>5, <1>11, Zenon DEF T, U

\* Two listings of the same options.
Contracts(t, s, n, f) ==
  /\ Relists(t, s, n, f)
  /\ \A i \in 1..n : Contract(s[i])

LEMMA ContractsAre ==
  ASSUME NEW n \in Nat, NEW f, NEW s, NEW t, Contracts(t, s, n, f)
  PROVE  /\ DOMAIN t = 1..n /\ DOMAIN s = 1..n /\ IsFiniteSet(1..n) /\ Reorders(f, n)
         /\ \A i \in 1..n : /\ f[i] \in 1..n /\ t[i] = s[f[i]]
                            /\ Contract(t[i]) /\ Contract(s[i])
         /\ \A i \in 1..n : \E j \in 1..n : f[j] = i
  <1>1. /\ DOMAIN t = 1..n /\ DOMAIN s = 1..n /\ Reorders(f, n)
        /\ \A i \in 1..n : f[i] \in 1..n /\ t[i] = s[f[i]]
    BY DEF Contracts, Relists, Reorders
  <1>2. \A i \in 1..n : Contract(t[i]) /\ Contract(s[i])
    BY <1>1 DEF Contracts
  <1>3. IsFiniteSet(1..n)
    BY IndexesFinite
  <1>4. \A i \in 1..n : \E j \in 1..n : f[j] = i
    <2>1. PICK g : Reorders(g, n) /\ \A i \in 1..n : f[g[i]] = i
      BY <1>1, ReordersBack
    <2> QED
      BY <2>1 DEF Reorders
  <1> QED
    BY <1>1, <1>2, <1>3, <1>4

\* Their premiums are the same ...
LEMMA PremiumsRelisted ==
  ASSUME NEW n \in Nat, NEW f, NEW s, NEW t, Contracts(t, s, n, f),
         NEW side, NEW field \in {"P", "P0"}
  PROVE  R!SumPremiums(t, side, field) = R!SumPremiums(s, side, field)
  <1> DEFINE v == [i \in 1..n |-> 100 * s[i][field] * s[i].qty * s[i].mult]
             w == [i \in 1..n |-> 100 * t[i][field] * t[i].qty * t[i].mult]
             S == {i \in 1..n : s[i].side = side}
             T == {i \in 1..n : f[i] \in S}
  <1>1. /\ DOMAIN t = 1..n /\ DOMAIN s = 1..n /\ IsFiniteSet(1..n) /\ Reorders(f, n)
        /\ \A i \in 1..n : /\ f[i] \in 1..n /\ t[i] = s[f[i]]
                           /\ Contract(t[i]) /\ Contract(s[i])
    BY ContractsAre
  <1>2. \A i \in 1..n : v[i] \in Int
    <2>1. ASSUME NEW i \in 1..n PROVE 100 * s[i][field] * s[i].qty * s[i].mult \in Int
      BY <1>1, ContractWeight
    <2> QED
      BY <2>1
  <1>3. \A i \in 1..n : w[i] = v[f[i]]
    BY <1>1
  <1>4. S \in SUBSET (1..n)
    OBVIOUS
  <1>5. {i \in 1..n : t[i].side = side} = T
    BY <1>1
  <1>6. \A i \in 1..n : /\ v[i] = 100 * s[i][field] * s[i].qty * s[i].mult
                        /\ w[i] = 100 * t[i][field] * t[i].qty * t[i].mult
    OBVIOUS
  <1> HIDE DEF v, w
  <1>7. R!SumPremiums(s, side, field) = Sum(v, S)
    <2>1. R!SumPremiums(s, side, field) = Sum(v, {i \in DOMAIN s : s[i].side = side})
      BY <1>1, <1>6, PremiumsAre
    <2> QED
      BY <1>1, <2>1, Zenon DEF S
  <1>8. R!SumPremiums(t, side, field) = Sum(w, T)
    <2>1. R!SumPremiums(t, side, field) = Sum(w, {i \in DOMAIN t : t[i].side = side})
      BY <1>1, <1>6, PremiumsAre
    <2> HIDE DEF T
    <2> QED
      BY <1>1, <1>5, <2>1, Zenon
  <1> HIDE DEF S
  <1>9. Sum(w, T) = Sum(v, S)
    <2>1. Reorders(f, n) /\ n \in Nat /\ \A i \in 1..n : v[i] \in Int /\ w[i] = v[f[i]]
      BY <1>1, <1>2, <1>3
    <2> QED
      BY ONLY <1>4, <2>1, SumRelisted
  <1> QED
    BY <1>7, <1>8, <1>9, Zenon

\* ... they are of limited risk together or not ...
LEMMA RiskRelisted ==
  ASSUME NEW n \in Nat, NEW f, NEW s, NEW t, Contracts(t, s, n, f)
  PROVE  R!IsLimitedRisk(t) <=> R!IsLimitedRisk(s)
  <1> DEFINE v == [i \in DOMAIN s |-> R!Signed(s[i])]
             w == [i \in DOMAIN t |-> R!Signed(t[i])]
             S == {i \in DOMAIN s : s[i].type = "call"}
             T == {i \in DOMAIN t : t[i].type = "call"}
  <1>1. /\ DOMAIN t = 1..n /\ DOMAIN s = 1..n /\ Reorders(f, n)
        /\ \A i \in 1..n : /\ f[i] \in 1..n /\ t[i] = s[f[i]]
                           /\ Contract(t[i]) /\ Contract(s[i])
    BY ContractsAre
  <1>2. \A i \in 1..n : v[i] \in Int
    <2>1. ASSUME NEW i \in 1..n PROVE R!Signed(s[i]) \in Int
      <3>1. Contract(s[i])
        BY <1>1
      <3>2. Weight(s[i], s[i].qty) \in Int /\ Weight(s[i], s[i].qty) = R!Signed(s[i])
        BY <3>1, ContractWeight
      <3> QED
        BY <3>2
    <2> QED
      BY <1>1, <2>1
  <1>3. \A i \in 1..n : w[i] = v[f[i]]
    BY <1>1
  <1>4. S \in SUBSET (1..n)
    BY <1>1
  <1>5. T = {i \in 1..n : f[i] \in S}
    BY <1>1
  <1>6. R!IsLimitedRisk(s) <=> (\A i \in DOMAIN s : s[i].kind = "option") /\ Sum(v, S) >= 0
    BY DEF R!IsLimitedRisk, R!SumFunctionOnSet, R!FoldFunctionOnSet, R!MapThenFoldSet,
           SumFunctionOnSet, FoldFunctionOnSet, MapThenFoldSet, Sum
  <1>7. R!IsLimitedRisk(t) <=> (\A i \in DOMAIN t : t[i].kind = "option") /\ Sum(w, T) >= 0
    BY DEF R!IsLimitedRisk, R!SumFunctionOnSet, R!FoldFunctionOnSet, R!MapThenFoldSet,
           SumFunctionOnSet, FoldFunctionOnSet, MapThenFoldSet, Sum
  <1>8. (\A i \in DOMAIN s : s[i].kind = "option") /\ (\A i \in DOMAIN t : t[i].kind = "option")
    BY <1>1 DEF Contract
  <1> HIDE DEF v, w, S, T
  <1>9. Sum(w, {i \in 1..n : f[i] \in S}) = Sum(v, S)
    <2>1. Reorders(f, n) /\ n \in Nat /\ \A i \in 1..n : v[i] \in Int /\ w[i] = v[f[i]]
      BY <1>1, <1>2, <1>3
    <2> QED
      BY ONLY <1>4, <2>1, SumRelisted
  <1>10. Sum(w, T) = Sum(v, S)
    BY <1>5, <1>9, Zenon
  <1> QED
    BY <1>6, <1>7, <1>8, <1>10

\* The slots of a combination are its legs, one by one.
LEMMA ComboLists ==
  ASSUME NEW n \in Nat, NEW b, DOMAIN b = 1..n, \A i \in 1..n : Contract(b[i]),
         NEW a, a = R!SlotOrder("generic_limited_risk_combo", b), NEW q, q = R!Qty(b, a)
  PROVE  /\ a = [i \in 1..n |-> i] /\ Len(a) = n /\ DOMAIN a = 1..n
         /\ \A i \in 1..n : a[i] = i /\ q[i] = b[i].qty
  <1>1. a = [i \in 1..n |-> i]
    BY DEF R!SlotOrder
  <1>2. Len(a) = n /\ DOMAIN a = 1..n
    <2>1. a = [i \in 1..n |-> a[i]]
      BY <1>1
    <2> QED
      BY <2>1, ListIsSeq
  <1>3. ASSUME NEW i \in 1..n PROVE a[i] = i /\ q[i] = b[i].qty
    <2>1. a[i] = i /\ b[i].kind = "option"
      BY <1>1 DEF Contract
    <2> QED
      BY <1>2, <2>1 DEF R!Qty
  <1> QED
    BY <1>1, <1>2, <1>3

\* The payoff of a combination at a price is the sum of what its legs pay.
LEMMA ComboPays ==
  ASSUME NEW n \in Nat, NEW b, DOMAIN b = 1..n, \A i \in 1..n : Contract(b[i]),
         NEW a, a = R!SlotOrder("generic_limited_risk_combo", b), NEW x \in Nat,
         NEW v, \A i \in 1..n : v[i] = Pays(b[i], b[i].qty, x)
  PROVE  /\ R!B(b)!PayoffAt(a, R!Qty(b, a), x) = Sum(v, 1..n)
         /\ \A i \in 1..n : v[i] \in Int
  <1>1. PICK q : q = R!Qty(b, a)
    OBVIOUS
  <1>2. /\ Len(a) = n /\ \A i \in 1..n : a[i] = i /\ q[i] = b[i].qty
    BY <1>1, ComboLists
  <1>3. ASSUME NEW i \in 1..n PROVE Pays(b[i], b[i].qty, x) \in Int
    <2>1. Contract(b[i])
      OBVIOUS
    <2>2. Weight(b[i], b[i].qty) \in Int /\ b[i].K \in Nat
      BY <2>1, ContractWeight DEF Contract
    <2> QED
      BY <2>2, PaysInt
  <1>4. \A i \in 1..n : v[i] = Pays(b[a[i]], q[i], x) /\ v[i] \in Int
    BY <1>2, <1>3
  <1>5. PaidBy(b, a, q, x, n, v)
    BY <1>2, <1>4 DEF PaidBy
  <1>6. R!B(b)!PayoffAt(a, q, x) = Sum(v, 1..n)
    BY <1>5, PayoffIsSum
  <1> QED
    BY <1>1, <1>4, <1>6

\* ... and so is the most they may lose.
LEMMA LossRelisted ==
  ASSUME NEW n \in Nat, NEW f, NEW s, NEW t, Contracts(t, s, n, f)
  PROVE  LET id == "generic_limited_risk_combo" IN
         R!B(t)!MaxPotentialLoss(R!SlotOrder(id, t), R!Qty(t, R!SlotOrder(id, t)))
           = R!B(s)!MaxPotentialLoss(R!SlotOrder(id, s), R!Qty(s, R!SlotOrder(id, s)))
  <1> DEFINE id == "generic_limited_risk_combo"
  <1>1. PICK a : a = R!SlotOrder(id, s)
    OBVIOUS
  <1>2. PICK q : q = R!Qty(s, a)
    OBVIOUS
  <1>3. PICK c : c = R!SlotOrder(id, t)
    OBVIOUS
  <1>4. PICK r : r = R!Qty(t, c)
    OBVIOUS
  <1>5. /\ DOMAIN t = 1..n /\ DOMAIN s = 1..n /\ Reorders(f, n)
        /\ \A i \in 1..n : /\ f[i] \in 1..n /\ t[i] = s[f[i]]
                           /\ Contract(t[i]) /\ Contract(s[i])
        /\ \A i \in 1..n : \E j \in 1..n : f[j] = i
    BY ContractsAre
  <1>6. a = [i \in 1..n |-> i] /\ DOMAIN a = 1..n
    BY <1>1, <1>5, ComboLists
  <1>7. c = [i \in 1..n |-> i] /\ DOMAIN c = 1..n
    BY <1>3, <1>5, ComboLists
  <1>8. ASSUME NEW x \in Nat
        PROVE  R!B(t)!PayoffAt(c, r, x) = R!B(s)!PayoffAt(a, q, x)
    <2> DEFINE v == [i \in 1..n |-> Pays(s[i], s[i].qty, x)]
               w == [i \in 1..n |-> Pays(t[i], t[i].qty, x)]
    <2>1. \A i \in 1..n : v[i] = Pays(s[i], s[i].qty, x)
      OBVIOUS
    <2>2. \A i \in 1..n : w[i] = Pays(t[i], t[i].qty, x)
      OBVIOUS
    <2>3. \A i \in 1..n : w[i] = v[f[i]]
      BY <1>5
    <2> HIDE DEF v, w
    <2>4. R!B(s)!PayoffAt(a, q, x) = Sum(v, 1..n) /\ \A i \in 1..n : v[i] \in Int
      <3>1. DOMAIN s = 1..n /\ (\A i \in 1..n : Contract(s[i])) /\ n \in Nat /\ x \in Nat
        BY <1>5
      <3>2. /\ R!B(s)!PayoffAt(a, R!Qty(s, a), x) = Sum(v, 1..n)
            /\ \A i \in 1..n : v[i] \in Int
        BY ONLY <1>1, <2>1, <3>1, ComboPays
      <3> QED
        BY <1>2, <3>2
    <2>5. R!B(t)!PayoffAt(c, r, x) = Sum(w, 1..n)
      <3>1. DOMAIN t = 1..n /\ (\A i \in 1..n : Contract(t[i])) /\ n \in Nat /\ x \in Nat
        BY <1>5
      <3>2. R!B(t)!PayoffAt(c, R!Qty(t, c), x) = Sum(w, 1..n)
        BY ONLY <1>3, <2>2, <3>1, ComboPays
      <3> QED
        BY <1>4, <3>2
    <2>6. Sum(w, 1..n) = Sum(v, 1..n)
      <3> DEFINE S == 1..n
      <3>1. \A i \in 1..n : v[i] \in Int /\ w[i] = v[f[i]]
        BY <2>3, <2>4
      <3>2. {i \in 1..n : f[i] \in S} = S /\ S \in SUBSET (1..n)
        BY <1>5
      <3>4. Reorders(f, n) /\ n \in Nat
        BY <1>5
      <3> HIDE DEF S
      <3>3. Sum(w, {i \in 1..n : f[i] \in S}) = Sum(v, S)
        BY ONLY <3>1, <3>2, <3>4, SumRelisted
      <3>5. Sum(w, S) = Sum(v, S)
        BY <3>2, <3>3
      <3> QED
        BY <3>5 DEF S
    <2> QED
      BY <2>4, <2>5, <2>6
  <1> DEFINE X == {0} \cup {s[a[i]].K : i \in DOMAIN a}
             Y == {0} \cup {t[c[i]].K : i \in DOMAIN c}
             M == {0} \cup {-R!B(s)!PayoffAt(a, q, x) : x \in X}
             N == {0} \cup {-R!B(t)!PayoffAt(c, r, x) : x \in Y}
  <1>9. X = Y
    <2>1. X = {0} \cup {s[i].K : i \in 1..n}
      BY <1>6
    <2>2. Y = {0} \cup {t[i].K : i \in 1..n}
      BY <1>7
    <2>3. {s[i].K : i \in 1..n} = {t[i].K : i \in 1..n}
      <3>1. ASSUME NEW i \in 1..n PROVE \E j \in 1..n : s[i].K = t[j].K
        <4>1. PICK j \in 1..n : f[j] = i
          BY <1>5
        <4>2. t[j] = s[i]
          BY <1>5, <4>1
        <4> QED
          BY <4>2
      <3>2. ASSUME NEW i \in 1..n PROVE \E j \in 1..n : t[i].K = s[j].K
        BY <1>5
      <3> DEFINE I == 1..n
      <3>3. /\ \A i \in I : \E j \in I : s[i].K = t[j].K
            /\ \A i \in I : \E j \in I : t[i].K = s[j].K
        BY <3>1, <3>2
      <3> HIDE DEF I
      <3>4. {s[i].K : i \in I} = {t[i].K : i \in I}
        <4>1. ASSUME NEW x PROVE x \in {s[i].K : i \in I} <=> x \in {t[i].K : i \in I}
          <5>1. x \in {s[i].K : i \in I} <=> \E i \in I : x = s[i].K
            OBVIOUS
          <5>2. x \in {t[i].K : i \in I} <=> \E i \in I : x = t[i].K
            OBVIOUS
          <5> QED
            <6>1. ASSUME NEW i \in I, x = s[i].K PROVE \E j \in I : x = t[j].K
              BY <3>3, <6>1, Zenon
            <6>2. ASSUME NEW i \in I, x = t[i].K PROVE \E j \in I : x = s[j].K
              BY <3>3, <6>2, Zenon
            <6> QED
              BY ONLY <5>1, <5>2, <6>1, <6>2
        <4> QED
          BY ONLY <4>1
      <3> QED
        BY <3>4 DEF I
    <2> QED
      BY <2>1, <2>2, <2>3, Zenon
  <1>10. X \in SUBSET Nat
    <2>1. ASSUME NEW i \in 1..n PROVE s[a[i]].K \in Nat
      <3>1. Contract(s[i]) /\ a[i] = i
        BY <1>5, <1>6
      <3> QED
        BY <3>1 DEF Contract
    <2>2. \A x \in {s[a[i]].K : i \in DOMAIN a} : x \in Nat
      BY <1>6, <2>1
    <2> QED
      BY <2>2
  <1>11. M = N
    <2> HIDE DEF X, Y
    <2>1. \A x \in X : R!B(t)!PayoffAt(c, r, x) = R!B(s)!PayoffAt(a, q, x)
      BY <1>8, <1>10
    <2> QED
      BY <1>9, <2>1
  <1>12. R!B(s)!MaxPotentialLoss(a, q) = 100 * R!B(s)!Max(M)
    BY DEF R!B!MaxPotentialLoss
  <1>13. R!B(t)!MaxPotentialLoss(c, r) = 100 * R!B(t)!Max(N)
    BY DEF R!B!MaxPotentialLoss
  <1> HIDE DEF M, N, X, Y
  <1>14. R!B(t)!Max(N) = R!B(s)!Max(M)
    BY <1>11 DEF R!B!Max
  <1> QED
    BY <1>1, <1>2, <1>3, <1>4, <1>12, <1>13, <1>14

LEMMA ComboProceeds ==
  ASSUME NEW p, NEW b, NEW account \in {"cash", "margin"}
  PROVE  LET id == "generic_limited_risk_combo" IN
         /\ R!BaselineValue(<<id, account, "initial_proceeds">>, p, b)
              = R!SumPremiums(b, "short", "P0")
         /\ R!BaselineValue(<<id, account, "maintenance_proceeds">>, p, b)
              = R!SumPremiums(b, "short", "P")
  <1> DEFINE id == "generic_limited_risk_combo"
  <1>1. ASSUME NEW key, key[1] = id, key[2] = account, key[3] = "initial_proceeds"
        PROVE  R!BaselineValue(key, p, b) = R!SumPremiums(b, "short", "P0")
    <2>1. key[2] # "gte" /\ key[1] # "long_box_spread"
      BY <1>1
    <2> QED
      BY <1>1, <2>1 DEF R!BaselineValue
  <1>2. ASSUME NEW key, key[1] = id, key[2] = account, key[3] = "maintenance_proceeds"
        PROVE  R!BaselineValue(key, p, b) = R!SumPremiums(b, "short", "P")
    <2>1. key[2] # "gte" /\ key[1] # "long_box_spread" /\ key[3] # "initial_proceeds"
      BY <1>2
    <2> QED
      BY <1>2, <2>1 DEF R!BaselineValue
  <1> QED
    BY <1>1, <1>2

\* The formulas of the rule for combinations do not depend on the order of the legs.
LEMMA ComboFormulas ==
  ASSUME NEW n \in Nat, NEW f, NEW s, NEW t, Contracts(t, s, n, f), NEW p, NEW q,
         NEW account \in {"cash", "margin"}, NEW label \in R!AllFormulas
  PROVE  LET key == <<"generic_limited_risk_combo", account, label>> IN
         R!BaselineValue(key, q, t) = R!BaselineValue(key, p, s)
  <1> DEFINE id == "generic_limited_risk_combo"
  <1>1. /\ DOMAIN t = 1..n /\ DOMAIN s = 1..n /\ IsFiniteSet(1..n)
        /\ \A i \in 1..n : Contract(t[i]) /\ Contract(s[i])
    BY ContractsAre
  <1>2. /\ IsFiniteSet(DOMAIN t) /\ \A i \in DOMAIN t : Contract(t[i])
    BY <1>1
  <1>3. /\ IsFiniteSet(DOMAIN s) /\ \A i \in DOMAIN s : Contract(s[i])
    BY <1>1
  <1>4. CASE label \in {"initial", "maintenance"}
    <2>1. PICK m : m = R!B(t)!MaxPotentialLoss(R!SlotOrder(id, t), R!Qty(t, R!SlotOrder(id, t)))
      OBVIOUS
    <2>2. m = R!B(s)!MaxPotentialLoss(R!SlotOrder(id, s), R!Qty(s, R!SlotOrder(id, s)))
      BY <2>1, LossRelisted
    <2>3. R!SumPremiums(t, "long", PremiumField(label)) = R!SumPremiums(s, "long", PremiumField(label))
      BY PremiumsRelisted DEF PremiumField
    <2>4. R!BaselineValue(<<id, account, label>>, q, t)
            = m + R!SumPremiums(t, "long", PremiumField(label))
      BY <1>2, <1>4, <2>1, ComboValue
    <2>5. R!BaselineValue(<<id, account, label>>, p, s)
            = m + R!SumPremiums(s, "long", PremiumField(label))
      BY <1>3, <1>4, <2>2, ComboValue
    <2> QED
      BY <2>3, <2>4, <2>5
  <1>5. CASE label = "initial_proceeds"
    <2>1. R!SumPremiums(t, "short", "P0") = R!SumPremiums(s, "short", "P0")
      BY PremiumsRelisted
    <2> QED
      BY <1>5, <2>1, ComboProceeds
  <1>6. CASE label = "maintenance_proceeds"
    <2>1. R!SumPremiums(t, "short", "P") = R!SumPremiums(s, "short", "P")
      BY PremiumsRelisted
    <2> QED
      BY <1>6, <2>1, ComboProceeds
  <1> QED
    BY <1>4, <1>5, <1>6 DEF R!AllFormulas, R!Phases

\* Nor do the requirements that speak of every leg.
LEMMA AllRequiredRelisted ==
  ASSUME NEW n \in Nat, NEW f, NEW s, NEW t, Relists(t, s, n, f), NEW required,
         AllSlotsAsRequired(required, s)
  PROVE  AllSlotsAsRequired(required, t)
  <1>1. DOMAIN t = 1..n /\ DOMAIN s = 1..n /\ \A i \in 1..n : f[i] \in 1..n /\ t[i] = s[f[i]]
    BY DEF Relists, Reorders
  <1>2. ASSUME NEW x \in required.all, NEW i \in DOMAIN t, NEW field \in x.fields
        PROVE  FieldIsPresent(t[i], field)
    <2>1. FieldIsPresent(s[f[i]], field)
      BY <1>1, <1>2 DEF AllSlotsAsRequired
    <2> QED
      BY <1>1, <1>2, <2>1
  <1>3. ASSUME NEW x \in required.all, x.same # ""
        PROVE  SameAcross(t, DOMAIN t, x.same)
    <2>1. SameAcross(s, DOMAIN s, x.same)
      BY <1>3 DEF AllSlotsAsRequired
    <2> QED
      <3>1. ASSUME NEW i \in 1..n, NEW j \in 1..n
            PROVE  t[i][x.same] # "" /\ t[i][x.same] = t[j][x.same]
        <4>1. s[f[i]][x.same] # "" /\ s[f[i]][x.same] = s[f[j]][x.same]
          BY <1>1, <2>1 DEF SameAcross
        <4>2. t[i] = s[f[i]] /\ t[j] = s[f[j]]
          BY <1>1
        <4> QED
          BY <4>1, <4>2
      <3> QED
        <4>1. DOMAIN t = 1..n
          BY <1>1
        <4> QED
          BY ONLY <3>1, <4>1 DEF SameAcross
  <1> QED
    BY <1>2, <1>3 DEF AllSlotsAsRequired

LEMMA RelistedBack ==
  ASSUME NEW n \in Nat, NEW f, NEW s, NEW t, Relists(t, s, n, f), IsSeq(s)
  PROVE  \E g : Relists(s, t, n, g)
  <1>1. PICK g : Reorders(g, n) /\ \A i \in 1..n : f[g[i]] = i
    BY ReordersBack DEF Relists
  <1>2. \A i \in 1..n : g[i] \in 1..n /\ s[i] = t[g[i]]
    BY <1>1 DEF Reorders, Relists
  <1>3. s = [i \in 1..n |-> s[i]]
    BY DEF IsSeq, Relists
  <1>4. s = [i \in 1..n |-> t[g[i]]]
    BY <1>2, <1>3
  <1>5. Relists(s, t, n, g)
    BY <1>1, <1>4 DEF Relists
  <1> QED
    BY <1>5

LEMMA ComboReads ==
  ASSUME ExpressionsAreBaseline, NEW r, r = R!GenericLimitedRiskCombo,
         NEW p, NEW q, Relisted(q, p), SoundLegs(p.legs), AllOptions(r, p.legs)
  PROVE  ReadsAlike(r, q, q.legs, p, p.legs)
  <1> DEFINE id == "generic_limited_risk_combo"
  <1>1. PICK s, t : s = p.legs /\ t = q.legs
    OBVIOUS
  <1>2. PICK n \in Nat : \E f : Relists(t, s, n, f)
    BY <1>1 DEF Relisted
  <1>3. PICK f : Relists(t, s, n, f)
    BY <1>2
  <1>4. Contracts(t, s, n, f)
    <2>1. \A i \in 1..n : Contract(s[i])
      BY <1>1, <1>3 DEF Relists, SoundLegs, AllOptions
    <2> QED
      BY <1>3, <2>1 DEF Contracts
  <1>5. r \in Members(R!BaselineRules) /\ r.id = id
    BY RulesAre, ComboShape
  <1>6. ASSUME NEW key, key[1] = id, NEW x, NEW b
        PROVE  Test(key, x, b) = R!BaselineTest(key, x, b) /\ Value(key, x, b) = R!BaselineValue(key, x, b)
    BY <1>5, <1>6 DEF ExpressionsAreBaseline
  <1>7. ASSUME NEW i \in DOMAIN r.constraints
        PROVE  Test(ConstraintKey(r, r.constraints[i]), q, t) = Test(ConstraintKey(r, r.constraints[i]), p, s)
    <2>1. PICK key : key = ConstraintKey(r, r.constraints[i])
      OBVIOUS
    <2>2. key[1] = id /\ key[3] = "is_limited_risk(legs)"
      <3>1. r.constraints[i] = "is_limited_risk(legs)"
        BY <1>7, ComboRule
      <3> QED
        BY <1>5, <2>1, <3>1 DEF ConstraintKey
    <2>3. R!BaselineTest(key, q, t) = R!BaselineTest(key, p, s)
      <3>1. R!IsLimitedRisk(t) <=> R!IsLimitedRisk(s)
        BY <1>4, RiskRelisted
      <3> QED
        BY <2>2, <3>1 DEF R!BaselineTest
    <2> QED
      BY <1>6, <2>1, <2>2, <2>3
  <1>8. /\ FieldsAsRequired(r.requires, t) <=> FieldsAsRequired(r.requires, s)
        /\ DOMAIN r.requires.minimum = {}
    <2>1. PICK k : k = r.requires
      OBVIOUS
    <2>2. /\ k.required = {} /\ k.positive = {} /\ k.expirations = <<>>
          /\ k.same = <<>> /\ k.sizes = <<>> /\ k.minimum = <<>>
      BY <2>1, ComboShape
    <2>3. DOMAIN <<>> = {} /\ Members(<<>>) = {}
      BY DEF Members
    <2>4. \A b : FieldsAsRequired(k, b)
      BY <2>2, <2>3 DEF FieldsAsRequired
    <2> QED
      BY <2>1, <2>2, <2>3, <2>4
  <1>9. AllSlotsAsRequired(r.requires, t) <=> AllSlotsAsRequired(r.requires, s)
    <2>1. PICK g : Relists(s, t, n, g)
      BY <1>1, <1>3, RelistedBack DEF Relisted
    <2>2. AllSlotsAsRequired(r.requires, s) => AllSlotsAsRequired(r.requires, t)
      BY <1>3, AllRequiredRelisted
    <2>3. AllSlotsAsRequired(r.requires, t) => AllSlotsAsRequired(r.requires, s)
      BY <2>1, AllRequiredRelisted
    <2> QED
      BY <2>2, <2>3
  <1>10. ASSUME NEW account \in {"cash", "margin"}, NEW label \in R!AllFormulas
         PROVE  Value(FormulaKey(r, account, label), q, t) = Value(FormulaKey(r, account, label), p, s)
    <2>1. PICK key : key = <<id, account, label>>
      OBVIOUS
    <2>2. R!BaselineValue(key, q, t) = R!BaselineValue(key, p, s)
      BY <1>4, <2>1, ComboFormulas
    <2>3. key[1] = id
      BY <2>1
    <2>4. Value(key, q, t) = Value(key, p, s)
      BY <1>6, <2>2, <2>3
    <2>5. FormulaKey(r, account, label) = key
      BY <1>5, <2>1 DEF FormulaKey
    <2> QED
      BY <2>4, <2>5
  <1>11. ReadsAlike(r, q, t, p, s)
    BY <1>7, <1>8, <1>9, <1>10 DEF ReadsAlike
  <1> QED
    BY <1>1, <1>11

\* A rule of the baseline answers the same in whatever order the legs are listed.
LEMMA AnyOrder ==
  ASSUME ExpressionsAreBaseline, NEW r \in Members(R!BaselineRules),
         NEW p, NEW q, p.U = q.U, p.class = q.class, Relisted(q, p), SoundLegs(p.legs),
         NEW account, NEW phase
  PROVE  EvaluateOne(r, q, account, phase) = EvaluateOne(r, p, account, phase)
  <1>1. CASE r \in Strategies
    BY <1>1, StrategyAnyOrder
  <1>2. CASE r = R!GenericLimitedRiskCombo
    <2>1. AllOptions(r, p.legs) => ReadsAlike(r, q, q.legs, p, p.legs)
      BY <1>2, ComboReads
    <2>2. r.pattern = "all_options" /\ Finitely(r)
      BY <1>2, ComboShape
    <2> QED
      BY <2>1, <2>2, ComboAnyOrder
  <1> QED
    BY <1>1, <1>2, RulesAre

\* A rulebook that loads has rules of the baseline only, those for combinations last.
LoadsBaseline ==
  \A raw \in Rulebooks : ValidRulebook(raw) /\ (\A r \in Members(raw.rules) : Compiles(r)) =>
    /\ Members(raw.rules) \subseteq Members(R!BaselineRules)
    /\ \A i, j \in DOMAIN raw.rules : raw.rules[i].pattern = "" /\ raw.rules[j].pattern # "" => i < j

\* The engine's rules are those of a rulebook that loads.
Loaded ==
  \/ rb.rules = <<>>
  \/ \E raw \in Rulebooks : /\ rb.rules = raw.rules /\ ValidRulebook(raw)
                            /\ \A r \in Members(raw.rules) : Compiles(r)

LEMMA InitLoaded == Init => Loaded
  BY DEF Init, DispatchInit, NoRulebook, Loaded

LEMMA NextLoaded == Loaded /\ [Next]_vars => Loaded'
  <1> SUFFICES ASSUME Loaded, [Next]_vars PROVE Loaded'
    OBVIOUS
  <1>1. CASE LoadRules
    <2>1. PICK raw \in Rulebooks : LoadRulebook(raw)
      BY <1>1 DEF LoadRules
    <2>2. CASE ValidRulebook(raw) /\ \A r \in Members(raw.rules) : Compiles(r)
      <3>1. rb'.rules = raw.rules
        BY <2>1, <2>2 DEF LoadRulebook
      <3> QED
        BY <2>2, <3>1 DEF Loaded
    <2>3. CASE ~(ValidRulebook(raw) /\ \A r \in Members(raw.rules) : Compiles(r))
      <3>1. rb' = [NoRulebook EXCEPT !.state = "failed"]
        BY ONLY <2>1, <2>3, Zenon DEF LoadRulebook
      <3> QED
        BY <3>1 DEF NoRulebook, Loaded
    <2> QED
      BY <2>2, <2>3
  <1>2. CASE UNCHANGED rb
    BY <1>2 DEF Loaded
  <1>3. UNCHANGED vars \/ RulesFailed \/ LoadPositions \/ EvaluateRow \/ TryRow \/ RecordRow
          \/ WriteFails \/ Summarize => UNCHANGED rb
    BY DEF RulesFailed, LoadPositions, EvaluateRow, Evaluate, TryRow, TryRules, RuleDeclines,
           RuleDecides, NoRuleMatched, RecordRow, WriteFails, Summarize, vars, dispatchVars
  <1> QED
    BY <1>1, <1>2, <1>3 DEF Next

\* Each of the engine's rules is one of the baseline's, once.
LEMMA RulesOfEngine ==
  ASSUME LoadsBaseline, Loaded
  PROVE  /\ \A i \in DOMAIN rb.rules : rb.rules[i] \in Members(R!BaselineRules)
         /\ \A i, j \in DOMAIN rb.rules : rb.rules[i].id = rb.rules[j].id => i = j
         /\ \A i, j \in DOMAIN rb.rules :
              rb.rules[i].pattern = "" /\ rb.rules[j].pattern # "" => i < j
         /\ \E n \in Nat : DOMAIN rb.rules = 1..n
  <1>1. CASE rb.rules = <<>>
    <2>1. DOMAIN rb.rules = {} /\ DOMAIN rb.rules = 1..0
      BY <1>1
    <2> QED
      BY <2>1
  <1>2. CASE rb.rules # <<>>
    <2>1. PICK raw \in Rulebooks : /\ rb.rules = raw.rules /\ ValidRulebook(raw)
                                   /\ \A r \in Members(raw.rules) : Compiles(r)
      BY <1>2 DEF Loaded
    <2>2. Members(raw.rules) \subseteq Members(R!BaselineRules)
      BY <2>1 DEF LoadsBaseline
    <2>3. \A i \in DOMAIN rb.rules : rb.rules[i] \in Members(raw.rules)
      BY <2>1 DEF Members
    <2>4. \A i, j \in DOMAIN rb.rules :
            rb.rules[i].pattern = "" /\ rb.rules[j].pattern # "" => i < j
      BY <2>1 DEF LoadsBaseline
    <2>5. \A i, j \in DOMAIN rb.rules : rb.rules[i].id = rb.rules[j].id => i = j
      BY <2>1 DEF ValidRulebook
    <2>6. raw.rules \in Seq(Members(raw.rules))
      BY RulebooksAssumption
    <2>7. \E n \in Nat : DOMAIN rb.rules = 1..n
      BY <2>1, <2>6
    <2> QED
      BY <2>2, <2>3, <2>4, <2>5, <2>7
  <1> QED
    BY <1>1, <1>2

\* The position of a call that is not refused is valid, and its options are contracts.
LEMMA SoundCall ==
  ASSUME RowsInv, ValidCall
  PROVE  /\ ValidPosition(call.pos) /\ SoundLegs(call.pos.legs)
         /\ DOMAIN call.pos = {"U", "class", "lev", "legs"}
  <1>1. outcome # Idle
    BY DEF ValidCall, Idle, Outcome
  <1>2. ValidPosition(call.pos)
    <2>1. CASE outcome = Scanning
      BY <2>1 DEF RowsInv, ReconInv, AnswersFirst
    <2>2. CASE Returned
      BY <2>2 DEF RowsInv, ReconInv, AnswersFirst, Outcome, ValidCall
    <2> QED
      BY <1>1, <2>1, <2>2 DEF Returned
  <1>3. PICK n \in Nat : call.pos.legs = [i \in 1..n |-> call.pos.legs[i]]
    BY <1>1, LegsOfCall
  <1>4. IsSeq(call.pos.legs)
    BY <1>3, ListIsSeq
  <1>5. \A i \in DOMAIN call.pos.legs : LossColumns \subseteq DOMAIN call.pos.legs[i]
    BY <1>1, LegsOfCall
  <1>6. SoundLegs(call.pos.legs)
    BY <1>2, <1>4, <1>5, ValidContract DEF SoundLegs, ValidPosition
  <1>7. DOMAIN call.pos = {"U", "class", "lev", "legs"}
    <2>1. Row \in DOMAIN positions /\ call.pos = Prepared(positions[Row])
      BY <1>1 DEF RowsInv, ReconInv, Command, AtRow
    <2>2. Row \in DOMAIN rows /\ positions[Row] = FilePosition(Row)
      BY <1>1 DEF RowsInv, ReconInv, Command, FromFiles
    <2> QED
      BY <2>1, <2>2 DEF FilePosition, PositionOf, Prepared
  <1> QED
    BY <1>2, <1>6, <1>7

\* Then every rule answers the same of a position relisted, and so does the scan.
LEMMA SaysAnyOrder ==
  ASSUME ExpressionsAreBaseline, LoadsBaseline, Loaded,
         NEW p, NEW q, p.U = q.U, p.class = q.class, Relisted(q, p), SoundLegs(p.legs),
         NEW account, NEW phase
  PROVE  /\ \A i \in DOMAIN rb.rules : EvaluateOne(rb.rules[i], q, account, phase)
                                         = EvaluateOne(rb.rules[i], p, account, phase)
         /\ Decided(q, account, phase) = Decided(p, account, phase)
         /\ FirstToDecide(q, account, phase) = FirstToDecide(p, account, phase)
  <1>1. ASSUME NEW i \in DOMAIN rb.rules
        PROVE  EvaluateOne(rb.rules[i], q, account, phase) = EvaluateOne(rb.rules[i], p, account, phase)
    <2>1. PICK r \in Members(R!BaselineRules) : r = rb.rules[i]
      BY RulesOfEngine
    <2>2. EvaluateOne(r, q, account, phase) = EvaluateOne(r, p, account, phase)
      BY AnyOrder
    <2> QED
      BY <2>1, <2>2
  <1>2. Decided(q, account, phase) = Decided(p, account, phase)
    BY <1>1 DEF Decided
  <1>3. FirstToDecide(q, account, phase) = FirstToDecide(p, account, phase)
    <2>1. PICK D : D = Decided(p, account, phase)
      OBVIOUS
    <2>2. CASE D = {}
      BY <1>2, <2>1, <2>2 DEF FirstToDecide
    <2>3. CASE D # {}
      <3>1. PICK n \in Nat : DOMAIN rb.rules = 1..n
        BY RulesOfEngine
      <3>2. D \in SUBSET (1..n)
        BY <2>1, <3>1 DEF Decided
      <3>3. FirstOf(D) \in DOMAIN rb.rules
        BY <2>3, <3>1, <3>2, FirstIsIn
      <3>4. /\ FirstToDecide(q, account, phase) = EvaluateOne(rb.rules[FirstOf(D)], q, account, phase)
            /\ FirstToDecide(p, account, phase) = EvaluateOne(rb.rules[FirstOf(D)], p, account, phase)
        BY <1>2, <2>1, <2>3 DEF FirstToDecide
      <3> QED
        BY <1>1, <3>3, <3>4
    <2> QED
      BY <2>2, <2>3
  <1> QED
    BY <1>1, <1>2, <1>3

\* The invariant implies the property.
LEMMA InvAnyOrder ==
  ASSUME ExpressionsAreBaseline, LoadsBaseline, Loaded, RowsInv
  PROVE  LegOrderIrrelevant
  <1> SUFFICES ASSUME ValidCall, Returned, NEW q \in Reordered(call.pos)
               PROVE  outcome = FirstToDecide(q, call.account, call.phase)
    BY DEF LegOrderIrrelevant
  <1>1. PICK p : p = call.pos
    OBVIOUS
  <1>2. ValidPosition(p) /\ SoundLegs(p.legs) /\ DOMAIN p = {"U", "class", "lev", "legs"}
    BY <1>1, SoundCall
  <1>3. PICK n : n = Len(p.legs)
    OBVIOUS
  <1>4. DOMAIN p.legs = 1..n /\ n \in Nat /\ IsSeq(p.legs)
    BY <1>2, <1>3 DEF SoundLegs, IsSeq
  <1>5. PICK f : Reorders(f, n) /\ q = [p EXCEPT !.legs = [i \in 1..n |-> p.legs[f[i]]]]
    BY <1>1, <1>3 DEF Reordered, Reorders
  <1>6. q.U = p.U /\ q.class = p.class /\ q.legs = [i \in 1..n |-> p.legs[f[i]]]
    BY <1>2, <1>5
  <1>7. Relisted(q, p)
    <2>1. Relists(q.legs, p.legs, n, f)
      BY <1>4, <1>5, <1>6 DEF Relists
    <2> QED
      BY <1>4, <2>1 DEF Relisted
  <1>8. FirstToDecide(q, call.account, call.phase) = FirstToDecide(p, call.account, call.phase)
    BY <1>2, <1>6, <1>7, SaysAnyOrder
  <1>9. outcome = FirstToDecide(p, call.account, call.phase)
    BY <1>1, <1>2 DEF RowsInv, ReconInv, AnswersFirst
  <1> QED
    BY <1>8, <1>9

\* Evaluate answers the same in whatever order the legs of a position are listed, of
\* every rulebook of the baseline's rules: tryMatch looks at one binding only, but of
\* their slots no leg fits two, and is_limited_risk, mpl and the premiums add up.
THEOREM OrderIsIrrelevant ==
  ASSUME ExpressionsAreBaseline, LoadsBaseline PROVE Spec => []LegOrderIrrelevant
  <1>1. Spec => [](RowsInv /\ Loaded)
    BY InitRows, NextRows, InitLoaded, NextLoaded, PTL DEF Spec
  <1>2. RowsInv /\ Loaded => LegOrderIrrelevant
    BY InvAnyOrder
  <1> QED
    BY <1>1, <1>2, PTL

-----------------------------------------------------------------------------
(***************************************************************************)
(* The strategies exclude each other: the legs of a strategy tell which it *)
(* is, and of the boxes the strikes.                                       *)
(***************************************************************************)
\* A leg that a slot takes.
Fits(x, l) ==
  /\ x.side \in {"any", l.side} /\ x.kind \in {"any", l.kind}
  /\ x.type \in {"any", l.type} /\ x.venue \in {"any", l.venue}

\* Every slot takes one of the legs, and every leg is taken by one of the slots.
Taken(slots, legs) ==
  /\ DOMAIN legs = DOMAIN slots
  /\ \A i \in DOMAIN slots : \E l \in DOMAIN legs : Fits(slots[i], legs[l])
  /\ \A l \in DOMAIN legs : \E i \in DOMAIN slots : Fits(slots[i], legs[l])

\* A strategy that does not decline binds its slots to the legs, and its constraints
\* do not fail of the binding.
LEMMA StrategyBinds ==
  ASSUME NEW r \in Strategies, NEW p, IsSeq(p.legs), NEW account, NEW phase,
         EvaluateOne(r, p, account, phase).kind # "no"
  PROVE  \E n \in Nat : \E a :
           /\ DOMAIN r.slots = 1..n /\ DOMAIN p.legs = 1..n /\ Binds(r, p.legs, n, a)
           /\ ConstraintsSay(r, p, BindingOf(r, p.legs, a)) # "false"
  <1>1. r.pattern = "" /\ SlotsExclude(r) /\ IsSeq(r.slots)
    BY StrategyFacts DEF Finitely
  <1>2. PICK b : b = CHOOSE x \in TryMatch(r, p.legs) : TRUE
    OBVIOUS
  <1>3. TryMatch(r, p.legs) # {} /\ b \in TryMatch(r, p.legs)
    BY <1>2 DEF EvaluateOne, Outcome
  <1>4. EvaluateOne(r, p, account, phase) = Judgement(r, p, b, account, phase)
    BY <1>2, <1>3, EvaluatesBinding
  <1>5. ConstraintsSay(r, p, b) # "false"
    <2>1. CASE ConstraintsSay(r, p, b) = "false"
      <3>1. Judgement(r, p, b, account, phase) = Outcome("no")
        BY <2>1 DEF Judgement, Judged
      <3> QED
        BY <1>4, <3>1 DEF Outcome
    <2> QED
      BY <2>1
  <1>6. Len(p.legs) = Len(r.slots) /\ b \in FirstBinding(r, p.legs)
    BY <1>1, <1>3 DEF TryMatch
  <1>7. \A s : IsSeq(s) => Len(s) \in Nat /\ DOMAIN s = 1..Len(s)
    BY DEF IsSeq
  <1>71. PICK n : n = Len(r.slots)
    OBVIOUS
  <1>8. n \in Nat /\ DOMAIN r.slots = 1..n /\ DOMAIN p.legs = 1..n
    BY <1>1, <1>6, <1>7, <1>71
  <1>91. \A c : c \in FirstBinding(r, p.legs) <=>
           HasRoom(r, p.legs, n) /\ \E a : Binds(r, p.legs, n, a) /\ c = BindingOf(r, p.legs, a)
    <2>1. PICK legs : legs = p.legs
      OBVIOUS
    <2>2. /\ SlotsExclude(r) /\ n \in Nat /\ Len(r.slots) = n /\ DOMAIN r.slots = 1..n
          /\ DOMAIN legs = 1..n
      BY <1>1, <1>71, <1>8, <2>1
    <2>3. \A c : c \in FirstBinding(r, legs) <=>
            HasRoom(r, legs, n) /\ \E a : Binds(r, legs, n, a) /\ c = BindingOf(r, legs, a)
      BY ONLY <2>2, FirstBindingIs
    <2> QED
      BY ONLY <2>1, <2>3
  <1>9. PICK a : Binds(r, p.legs, n, a) /\ b = BindingOf(r, p.legs, a)
    BY <1>6, <1>91
  <1> QED
    BY <1>5, <1>8, <1>9

LEMMA BoundAreTaken ==
  ASSUME NEW r, NEW legs, NEW n \in Nat, DOMAIN r.slots = 1..n, DOMAIN legs = 1..n,
         NEW a, Binds(r, legs, n, a)
  PROVE  Taken(r.slots, legs) /\ \A i \in 1..n : a[i] \in 1..n /\ Fits(r.slots[i], legs[a[i]])
  <1>1. \A i \in 1..n : a[i] \in 1..n /\ Fits(r.slots[i], legs[a[i]])
    BY DEF Binds, Reorders, Matcher!SlotMatches, Fits
  <1>2. PICK g : Reorders(g, n) /\ \A i \in 1..n : a[g[i]] = i
    BY ReordersBack DEF Binds
  <1>3. ASSUME NEW l \in 1..n PROVE \E i \in 1..n : Fits(r.slots[i], legs[l])
    <2>1. g[l] \in 1..n /\ a[g[l]] = l
      BY <1>2 DEF Reorders
    <2> QED
      BY <1>1, <2>1
  <1>4. Taken(r.slots, legs)
    BY <1>1, <1>3 DEF Taken
  <1> QED
    BY <1>1, <1>4

Has(legs, side, kind) == \E l \in DOMAIN legs : legs[l].side = side /\ legs[l].kind = kind

\* The strategy legs are of, if they are of one: by their number, and by what is
\* among them.
StrategyOf(legs) ==
  IF 4 \in DOMAIN legs THEN "box"
  ELSE IF Has(legs, "long", "option")
       THEN IF 2 \in DOMAIN legs THEN "vertical_spread" ELSE "long_option_short_dated"
  ELSE IF Has(legs, "long", "stock") THEN "covered_call"
  ELSE IF Has(legs, "short", "stock") THEN "short_put_short_stock"
  ELSE IF 2 \in DOMAIN legs THEN "short_strangle_or_straddle"
  ELSE IF \E l \in DOMAIN legs : legs[l].type = "call"
       THEN "short_call_uncovered" ELSE "short_put_uncovered"

BoxIds == {"long_box_spread", "short_box_spread"}

\* The legs of one slot ...
LEMMA OneTaken ==
  ASSUME NEW x, NEW legs, Taken(<<x>>, legs)
  PROVE  DOMAIN legs = {1} /\ Fits(x, legs[1])
  <1>1. DOMAIN <<x>> = {1} /\ <<x>>[1] = x
    OBVIOUS
  <1> QED
    BY <1>1 DEF Taken

\* ... and of two.
LEMMA TwoTaken ==
  ASSUME NEW x, NEW y, NEW legs, Taken(<<x, y>>, legs)
  PROVE  /\ DOMAIN legs = {1, 2}
         /\ \E l \in {1, 2} : Fits(x, legs[l])
         /\ \E l \in {1, 2} : Fits(y, legs[l])
         /\ \A l \in {1, 2} : Fits(x, legs[l]) \/ Fits(y, legs[l])
  <1>1. DOMAIN <<x, y>> = {1, 2} /\ <<x, y>>[1] = x /\ <<x, y>>[2] = y
    OBVIOUS
  <1> QED
    BY <1>1 DEF Taken

\* A strategy takes no legs but its own.
LEMMA StrategyIs ==
  ASSUME NEW r \in Strategies, NEW legs, Taken(r.slots, legs)
  PROVE  \/ r.id \notin BoxIds /\ StrategyOf(legs) = r.id
         \/ r \in {R!LongBoxSpread, R!ShortBoxSpread} /\ StrategyOf(legs) = "box"
  <1>1. CASE r = R!LongOptionShortDated
    <2>1. r.id = "long_option_short_dated" /\ r.slots = <<R!Slot("opt", "long", "option", "any")>>
      BY <1>1, ShortDatedShape DEF Shape
    <2>2. DOMAIN legs = {1} /\ Fits(R!Slot("opt", "long", "option", "any"), legs[1])
      BY <2>1, OneTaken
    <2>3. Has(legs, "long", "option")
      BY <2>2 DEF Fits, R!Slot, Has
    <2> QED
      BY <2>1, <2>2, <2>3 DEF StrategyOf, BoxIds
  <1>2. ASSUME NEW id \in {"short_call_uncovered", "short_put_uncovered"},
               NEW type, type = IF id = "short_call_uncovered" THEN "call" ELSE "put",
               r = R!Uncovered(id, type)
        PROVE  r.id \notin BoxIds /\ StrategyOf(legs) = r.id
    <2>1. r.id = id /\ r.slots = <<R!Slot("opt", "short", "option", type)>>
      BY <1>2, UncoveredShape DEF Shape
    <2>2. DOMAIN legs = {1} /\ Fits(R!Slot("opt", "short", "option", type), legs[1])
      BY <2>1, OneTaken
    <2>3. legs[1].side = "short" /\ legs[1].kind = "option" /\ legs[1].type = type
      BY <1>2, <2>2 DEF Fits, R!Slot
    <2>4. /\ ~Has(legs, "long", "option") /\ ~Has(legs, "long", "stock")
          /\ ~Has(legs, "short", "stock")
      BY <2>2, <2>3 DEF Has
    <2>5. (\E l \in DOMAIN legs : legs[l].type = "call") <=> id = "short_call_uncovered"
      BY <1>2, <2>2, <2>3
    <2> QED
      BY <2>1, <2>2, <2>4, <2>5 DEF StrategyOf, BoxIds
  <1>3. CASE r = R!ShortStrangleOrStraddle
    <2> DEFINE sp == R!Slot("sp", "short", "option", "put")
               sc == R!Slot("sc", "short", "option", "call")
    <2>1. r.id = "short_strangle_or_straddle" /\ r.slots = <<sp, sc>>
      BY <1>3, StrangleShape DEF Shape
    <2>2. DOMAIN legs = {1, 2} /\ \A l \in {1, 2} : Fits(sp, legs[l]) \/ Fits(sc, legs[l])
      BY <2>1, TwoTaken
    <2>3. \A l \in {1, 2} : legs[l].side = "short" /\ legs[l].kind = "option"
      BY <2>2 DEF Fits, R!Slot
    <2>4. /\ ~Has(legs, "long", "option") /\ ~Has(legs, "long", "stock")
          /\ ~Has(legs, "short", "stock")
      BY <2>2, <2>3 DEF Has
    <2> QED
      BY <2>1, <2>2, <2>4 DEF StrategyOf, BoxIds
  <1>4. CASE r = R!VerticalSpread
    <2> DEFINE ll == R!Slot("long_leg", "long", "option", "any")
               sl == R!Slot("short_leg", "short", "option", "any")
    <2>1. r.id = "vertical_spread" /\ r.slots = <<ll, sl>>
      BY <1>4, VerticalShape DEF Shape
    <2>2. DOMAIN legs = {1, 2} /\ \E l \in {1, 2} : Fits(ll, legs[l])
      BY <2>1, TwoTaken
    <2>3. Has(legs, "long", "option")
      BY <2>2 DEF Fits, R!Slot, Has
    <2> QED
      BY <2>1, <2>2, <2>3 DEF StrategyOf, BoxIds
  <1>5. CASE r \in {R!LongBoxSpread, R!ShortBoxSpread}
    <2>1. r.slots = SlotsOfBox
      <3>1. Shape(R!ShortBoxSpread, "short_box_spread", SlotsOfBox)
        BY BoxShape DEF R!ShortBoxSpread
      <3> QED
        BY <1>5, <3>1, LongBoxShape DEF Shape
    <2>2. DOMAIN SlotsOfBox = 1..4
      BY DEF SlotsOfBox
    <2>3. 4 \in DOMAIN legs
      BY <2>1, <2>2 DEF Taken
    <2> QED
      BY <1>5, <2>3 DEF StrategyOf
  <1>6. CASE r = R!ShortPutShortStock
    <2> DEFINE sp == R!Slot("sp", "short", "option", "put")
               ss == R!Slot("ss", "short", "stock", "any")
    <2>1. r.id = "short_put_short_stock" /\ r.slots = <<sp, ss>>
      BY <1>6, ShortStockShape DEF Shape
    <2>2. /\ DOMAIN legs = {1, 2} /\ (\E l \in {1, 2} : Fits(ss, legs[l]))
          /\ \A l \in {1, 2} : Fits(sp, legs[l]) \/ Fits(ss, legs[l])
      BY <2>1, TwoTaken
    <2>3. \A l \in {1, 2} : legs[l].side = "short"
      BY <2>2 DEF Fits, R!Slot
    <2>4. ~Has(legs, "long", "option") /\ ~Has(legs, "long", "stock")
      BY <2>2, <2>3 DEF Has
    <2>5. Has(legs, "short", "stock")
      BY <2>2 DEF Fits, R!Slot, Has
    <2> QED
      BY <2>1, <2>2, <2>4, <2>5 DEF StrategyOf, BoxIds
  <1>7. CASE r = R!CoveredCall
    <2> DEFINE sc == R!Slot("sc", "short", "option", "call")
               ls == R!Slot("ls", "long", "stock", "any")
    <2>1. r.id = "covered_call" /\ r.slots = <<sc, ls>>
      BY <1>7, CoveredCallShape DEF Shape
    <2>2. /\ DOMAIN legs = {1, 2} /\ (\E l \in {1, 2} : Fits(ls, legs[l]))
          /\ \A l \in {1, 2} : Fits(sc, legs[l]) \/ Fits(ls, legs[l])
      BY <2>1, TwoTaken
    <2>3. \A l \in {1, 2} : ~(legs[l].side = "long" /\ legs[l].kind = "option")
      BY <2>2 DEF Fits, R!Slot
    <2>4. ~Has(legs, "long", "option")
      BY <2>2, <2>3 DEF Has
    <2>5. Has(legs, "long", "stock")
      BY <2>2 DEF Fits, R!Slot, Has
    <2> QED
      BY <2>1, <2>2, <2>4, <2>5 DEF StrategyOf, BoxIds
  <1> QED
    BY <1>1, <1>2, <1>3, <1>4, <1>5, <1>6, <1>7 DEF Strategies

\* Intervals that begin and are alike end alike.
LEMMA SameEnd ==
  ASSUME NEW n \in Nat, NEW k \in Nat, 1..n = 1..k PROVE n = k
  <1>1. CASE n < k
    <2>1. k \in 1..k /\ k \notin 1..n
      BY <1>1
    <2> QED
      BY <2>1
  <1>2. CASE k < n
    <2>1. n \in 1..n /\ n \notin 1..k
      BY <1>2
    <2> QED
      BY <2>1
  <1> QED
    BY <1>1, <1>2

\* A box is long or short, by its strikes.
LEMMA BoxesExclude ==
  ASSUME ExpressionsAreBaseline, NEW p, SoundLegs(p.legs), NEW account, NEW phase,
         EvaluateOne(R!LongBoxSpread, p, account, phase).kind # "no",
         EvaluateOne(R!ShortBoxSpread, p, account, phase).kind # "no"
  PROVE  FALSE
  <1>1. PICK r : r = R!LongBoxSpread
    OBVIOUS
  <1>2. PICK s : s = R!ShortBoxSpread
    OBVIOUS
  <1>3. /\ r.id = "long_box_spread" /\ r.slots = SlotsOfBox
        /\ DOMAIN r.constraints = 1..3 /\ r.constraints[2] = "bc lower"
    BY <1>1, LongBoxShape DEF Shape
  <1>4. /\ s.id = "short_box_spread" /\ s.slots = SlotsOfBox
        /\ DOMAIN s.constraints = 1..3 /\ s.constraints[2] = "bc higher"
    <2>1. /\ Shape(R!ShortBoxSpread, "short_box_spread", SlotsOfBox)
          /\ DOMAIN R!ShortBoxSpread.constraints = 1..3
          /\ R!ShortBoxSpread.constraints[2] = "bc higher"
      BY BoxShape DEF R!ShortBoxSpread
    <2> QED
      BY <1>2, <2>1 DEF Shape
  <1>5. /\ r \in Strategies /\ s \in Strategies /\ SlotsExclude(r)
        /\ r \in Members(R!BaselineRules) /\ s \in Members(R!BaselineRules)
    <2>1. r \in Strategies /\ s \in Strategies
      BY <1>1, <1>2 DEF Strategies
    <2> QED
      BY <2>1, StrategyFacts, RulesAre
  <1>6. IsSeq(p.legs)
    BY DEF SoundLegs
  <1>7. PICK legs : legs = p.legs
    OBVIOUS
  <1>8. DOMAIN SlotsOfBox = 1..4
    BY DEF SlotsOfBox
  <1>9. PICK a : /\ DOMAIN legs = 1..4 /\ Binds(r, legs, 4, a)
                 /\ ConstraintsSay(r, p, BindingOf(r, legs, a)) # "false"
    <2>1. PICK n \in Nat : \E a :
            /\ DOMAIN r.slots = 1..n /\ DOMAIN p.legs = 1..n /\ Binds(r, p.legs, n, a)
            /\ ConstraintsSay(r, p, BindingOf(r, p.legs, a)) # "false"
      BY <1>1, <1>5, <1>6, StrategyBinds
    <2>2. n = 4
      BY <1>3, <1>8, <2>1, SameEnd
    <2> QED
      BY <1>7, <2>1, <2>2
  <1>10. PICK c : Binds(s, legs, 4, c) /\ ConstraintsSay(s, p, BindingOf(s, legs, c)) # "false"
    <2>1. PICK n \in Nat : \E e :
            /\ DOMAIN s.slots = 1..n /\ DOMAIN p.legs = 1..n /\ Binds(s, p.legs, n, e)
            /\ ConstraintsSay(s, p, BindingOf(s, p.legs, e)) # "false"
      BY <1>2, <1>5, <1>6, StrategyBinds
    <2>2. n = 4
      BY <1>4, <1>8, <2>1, SameEnd
    <2> QED
      BY <1>7, <2>1, <2>2
  <1>11. a = c
    <2>1. Binds(r, legs, 4, c)
      BY <1>3, <1>4, <1>10 DEF Binds, Matcher!SlotMatches
    <2>2. DOMAIN r.slots = 1..4 /\ 4 \in Nat
      BY <1>3, <1>8
    <2> QED
      BY <1>5, <1>9, <2>1, <2>2, OneWayToBind
  <1>12. PICK b : b = BindingOf(r, legs, a)
    OBVIOUS
  <1>13. b = BindingOf(s, legs, c)
    <2>1. r.slots = s.slots
      BY <1>3, <1>4
    <2> DEFINE bound(slots) ==
                 [x \in {slots[i].name : i \in DOMAIN slots}
                    |-> legs[a[CHOOSE i \in DOMAIN slots : slots[i].name = x]]]
    <2>2. \A rule : BindingOf(rule, legs, a) = bound(rule.slots)
      BY DEF BindingOf, SlotNames
    <2> HIDE DEF bound
    <2>3. BindingOf(r, legs, a) = BindingOf(s, legs, a)
      BY <2>1, <2>2, Zenon
    <2> QED
      BY <1>11, <1>12, <2>3, Zenon
  <1>14. \A rule, key : rule \in {r, s} /\ key[1] = rule.id
           => Test(key, p, b) = R!BaselineTest(key, p, b)
    BY <1>5 DEF ExpressionsAreBaseline
  <1>15. ASSUME NEW rule \in {r, s}, ConstraintsSay(rule, p, b) # "false"
         PROVE  R!BaselineTest(ConstraintKey(rule, rule.constraints[2]), p, b) = "true"
    <2> DEFINE says(i) == Test(ConstraintKey(rule, rule.constraints[i]), p, b)
               broken == {i \in DOMAIN rule.constraints : says(i) # "true"}
    <2>1. DOMAIN rule.constraints = 1..3
      BY <1>3, <1>4, <1>15
    <2>2. \A i : says(i) \in {"true", "false"}
      <3>1. ASSUME NEW i PROVE says(i) \in {"true", "false"}
        <4>1. ConstraintKey(rule, rule.constraints[i])[1] = rule.id
          BY DEF ConstraintKey
        <4>2. says(i) = R!BaselineTest(ConstraintKey(rule, rule.constraints[i]), p, b)
          BY <1>14, <1>15, <4>1
        <4> QED
          BY <4>2, TestsAnswer
      <3> QED
        BY <3>1
    <2>3. ConstraintsSay(rule, p, b) = IF broken = {} THEN "true" ELSE says(FirstOf(broken))
      BY DEF ConstraintsSay
    <2>4. broken \in SUBSET (1..3) /\ \A i \in broken : says(i) # "true"
      BY <2>1
    <2>5. \A i \in 1..3 : i \notin broken => says(i) = "true"
      BY <2>1
    <2> HIDE DEF says, broken
    <2>6. broken # {} => FirstOf(broken) \in broken
      BY <2>4, FirstIsIn
    <2>7. broken = {}
      BY <1>15, <2>2, <2>3, <2>4, <2>6
    <2>8. says(2) = "true"
      BY <2>5, <2>7
    <2>9. ConstraintKey(rule, rule.constraints[2])[1] = rule.id
      BY DEF ConstraintKey
    <2>10. Test(ConstraintKey(rule, rule.constraints[2]), p, b) = "true"
      BY <2>8 DEF says
    <2> QED
      BY <1>14, <1>15, <2>9, <2>10
  <1>16. b["bc"].K < b["sp"].K
    <2>1. PICK key : key = ConstraintKey(r, r.constraints[2])
      OBVIOUS
    <2>2. key[3] = "bc lower"
      BY <1>3, <2>1 DEF ConstraintKey
    <2>3. R!BaselineTest(key, p, b) = "true"
      BY <1>9, <1>12, <1>15, <2>1
    <2> QED
      BY <2>2, <2>3 DEF R!BaselineTest
  <1>17. b["bc"].K > b["sp"].K
    <2>1. PICK key : key = ConstraintKey(s, s.constraints[2])
      OBVIOUS
    <2>2. key[3] = "bc higher"
      BY <1>4, <2>1 DEF ConstraintKey
    <2>3. R!BaselineTest(key, p, b) = "true"
      BY <1>10, <1>13, <1>15, <2>1
    <2> QED
      BY <2>2, <2>3 DEF R!BaselineTest
  <1>18. b["bc"].K \in Int /\ b["sp"].K \in Int
    <2>1. \A i \in 1..4 : a[i] \in 1..4 /\ Fits(r.slots[i], legs[a[i]])
      <3>1. DOMAIN r.slots = 1..4 /\ 4 \in Nat
        BY <1>3, <1>8
      <3> QED
        BY <1>9, <3>1, BoundAreTaken
    <2>2. \A i \in 1..4 : SlotsOfBox[i].kind = "option"
      BY DEF SlotsOfBox, R!Slot
    <2>3. ASSUME NEW i \in 1..4 PROVE legs[a[i]].K \in Int
      <3>1. a[i] \in DOMAIN legs /\ legs[a[i]].kind = "option"
        BY <1>3, <1>9, <2>1, <2>2 DEF Fits
      <3>2. Contract(legs[a[i]])
        BY <1>7, <3>1 DEF SoundLegs
      <3> QED
        BY <3>2 DEF Contract
    <2>4. SlotsOfBox[1].name = "bc" /\ SlotsOfBox[3].name = "sp"
      BY DEF SlotsOfBox, R!Slot
    <2>5. ASSUME NEW i \in 1..4, NEW x, SlotsOfBox[i].name = x PROVE b[x].K \in Int
      <3>1. x \in SlotNames(r)
        BY <1>3, <1>8, <2>5 DEF SlotNames
      <3>2. PICK j : j = CHOOSE k \in DOMAIN r.slots : r.slots[k].name = x
        OBVIOUS
      <3>3. j \in 1..4
        BY <1>3, <1>8, <2>5, <3>2
      <3>4. b[x] = legs[a[j]]
        BY <1>12, <3>1, <3>2 DEF BindingOf
      <3> QED
        BY <2>3, <3>3, <3>4
    <2> QED
      BY <2>4, <2>5
  <1> QED
    BY <1>16, <1>17, <1>18

\* No two strategies take a position.
OneTakes(p, account, phase) ==
  \A r, s \in Strategies :
    /\ EvaluateOne(r, p, account, phase).kind # "no"
    /\ EvaluateOne(s, p, account, phase).kind # "no"
    => r = s \/ r.id = s.id

LEMMA OneStrategy ==
  ASSUME ExpressionsAreBaseline, NEW p, SoundLegs(p.legs), NEW account, NEW phase
  PROVE  OneTakes(p, account, phase)
  <1>1. IsSeq(p.legs)
    BY DEF SoundLegs
  <1>2. ASSUME NEW x \in Strategies, EvaluateOne(x, p, account, phase).kind # "no"
        PROVE  Taken(x.slots, p.legs)
    <2>1. PICK n \in Nat : \E a : /\ DOMAIN x.slots = 1..n /\ DOMAIN p.legs = 1..n
                                  /\ Binds(x, p.legs, n, a)
      BY <1>1, <1>2, StrategyBinds
    <2>2. PICK a : Binds(x, p.legs, n, a)
      BY <2>1
    <2>3. PICK legs : legs = p.legs
      OBVIOUS
    <2>4. /\ DOMAIN x.slots = 1..n /\ DOMAIN legs = 1..n /\ Binds(x, legs, n, a) /\ n \in Nat
      BY <2>1, <2>2, <2>3
    <2>5. Taken(x.slots, legs)
      BY ONLY <2>4, BoundAreTaken
    <2> QED
      BY <2>3, <2>5
  <1>3. ASSUME NEW x \in Strategies, Taken(x.slots, p.legs)
        PROVE  \/ x.id \notin BoxIds /\ StrategyOf(p.legs) = x.id
               \/ x \in {R!LongBoxSpread, R!ShortBoxSpread} /\ StrategyOf(p.legs) = "box"
    BY <1>3, StrategyIs
  <1>4. \A x \in Strategies : x.id # "box"
    <2>1. ASSUME NEW id \in {"short_call_uncovered", "short_put_uncovered"}, NEW type
          PROVE  R!Uncovered(id, type).id # "box"
      <3>1. R!Uncovered(id, type).id = id
        BY UncoveredShape DEF Shape
      <3> QED
        BY <3>1
    <2>2. R!ShortBoxSpread.id = "short_box_spread"
      <3>1. Shape(R!ShortBoxSpread, "short_box_spread", SlotsOfBox)
        BY BoxShape DEF R!ShortBoxSpread
      <3> QED
        BY <3>1 DEF Shape
    <2>3. /\ R!LongOptionShortDated.id = "long_option_short_dated"
          /\ R!ShortStrangleOrStraddle.id = "short_strangle_or_straddle"
          /\ R!VerticalSpread.id = "vertical_spread" /\ R!LongBoxSpread.id = "long_box_spread"
          /\ R!ShortPutShortStock.id = "short_put_short_stock" /\ R!CoveredCall.id = "covered_call"
      BY ShortDatedShape, StrangleShape, VerticalShape, LongBoxShape, ShortStockShape,
         CoveredCallShape DEF Shape
    <2> QED
      BY <2>1, <2>2, <2>3 DEF Strategies
  <1>5. ~(/\ EvaluateOne(R!LongBoxSpread, p, account, phase).kind # "no"
          /\ EvaluateOne(R!ShortBoxSpread, p, account, phase).kind # "no")
    BY BoxesExclude
  <1>6. SUFFICES ASSUME NEW r \in Strategies, EvaluateOne(r, p, account, phase).kind # "no",
                        NEW s \in Strategies, EvaluateOne(s, p, account, phase).kind # "no"
                 PROVE  r = s \/ r.id = s.id
    BY DEF OneTakes
  <1> QED
    BY <1>2, <1>3, <1>4, <1>5, <1>6

\* A rule of the baseline without a legs_pattern is a strategy.
LEMMA NamedAreStrategies ==
  ASSUME NEW r \in Members(R!BaselineRules), r.pattern = "" PROVE r \in Strategies
  BY RulesAre, ComboShape

\* The numbers of an interval, and of an order.
LEMMA InRange ==
  ASSUME NEW n \in Nat, NEW i \in 1..n PROVE i \in Int
  OBVIOUS

LEMMA NotAbove ==
  ASSUME NEW i \in Int, NEW j \in Int, i <= j PROVE ~(j < i)
  OBVIOUS

NamedFirst(D) ==
  LET named == {i \in D : rb.rules[i].pattern = ""} IN
  /\ \A i, j \in named : i = j
  /\ D # {} => FirstOf(D) \in D
  /\ named # {} => FirstOf(D) \in named

\* At most one rule with slots takes a position, and a rule for combinations comes
\* after it.
LEMMA OneNamed ==
  ASSUME ExpressionsAreBaseline, LoadsBaseline, Loaded,
         NEW p, SoundLegs(p.legs), NEW account, NEW phase
  PROVE  NamedFirst(Decided(p, account, phase))
  <1> DEFINE D == Decided(p, account, phase)
             named == {i \in D : rb.rules[i].pattern = ""}
  <1>0. OneTakes(p, account, phase)
    BY OneStrategy
  <1>1. PICK n \in Nat : DOMAIN rb.rules = 1..n
    BY RulesOfEngine
  <1>2. D \in SUBSET (1..n) /\ \A i \in D : EvaluateOne(rb.rules[i], p, account, phase).kind # "no"
    BY <1>1 DEF Decided
  <1>3. D # {} => FirstOf(D) \in D /\ \A j \in D : FirstOf(D) <= j
    <2>1. IsFiniteSet(1..n)
      BY IndexesFinite
    <2> HIDE DEF D
    <2>2. D \in SUBSET (1..n)
      BY <1>2
    <2>3. IsFiniteSet(D)
      BY ONLY <2>1, <2>2, FS_Subset
    <2>4. D \in SUBSET Int
      BY ONLY <2>2
    <2> QED
      BY ONLY <2>3, <2>4, FirstIsNth
  <1>4. ASSUME NEW i \in named, NEW j \in named PROVE i = j
    <2>1. i \in D /\ j \in D /\ rb.rules[i].pattern = "" /\ rb.rules[j].pattern = ""
      OBVIOUS
    <2>2. i \in DOMAIN rb.rules /\ j \in DOMAIN rb.rules
      BY <1>1, <1>2, <2>1
    <2>3. PICK r \in Members(R!BaselineRules) : r = rb.rules[i]
      BY <2>2, RulesOfEngine
    <2>4. PICK s \in Members(R!BaselineRules) : s = rb.rules[j]
      BY <2>2, RulesOfEngine
    <2>5. r \in Strategies /\ s \in Strategies
      BY <2>1, <2>3, <2>4, NamedAreStrategies
    <2>6. /\ EvaluateOne(r, p, account, phase).kind # "no"
          /\ EvaluateOne(s, p, account, phase).kind # "no"
      BY <1>2, <2>1, <2>3, <2>4
    <2>7. r = s \/ r.id = s.id
      BY <1>0, <2>5, <2>6 DEF OneTakes
    <2>8. rb.rules[i].id = rb.rules[j].id
      BY <2>3, <2>4, <2>7
    <2> QED
      BY <2>2, <2>8, RulesOfEngine
  <1>5. ASSUME NEW i \in named PROVE FirstOf(D) \in named
    <2>1. i \in D /\ rb.rules[i].pattern = ""
      OBVIOUS
    <2> HIDE DEF D
    <2>2. FirstOf(D) \in D /\ FirstOf(D) <= i
      BY <1>3, <2>1
    <2>3. FirstOf(D) \in 1..n /\ i \in 1..n
      BY <1>2, <2>1, <2>2
    <2>4. \A j, k \in DOMAIN rb.rules :
            rb.rules[j].pattern = "" /\ rb.rules[k].pattern # "" => j < k
      BY RulesOfEngine
    <2>5. rb.rules[FirstOf(D)].pattern # "" => i < FirstOf(D)
      BY <1>1, <2>1, <2>3, <2>4
    <2>6. rb.rules[FirstOf(D)].pattern = ""
      <3>1. FirstOf(D) \in Int /\ i \in Int
        BY <2>3, InRange
      <3>2. FirstOf(D) <= i /\ ~(i < FirstOf(D))
        BY ONLY <2>2, <3>1, NotAbove
      <3> QED
        BY <2>5, <3>2, Zenon
    <2> QED
      BY <2>2, <2>6
  <1> QED
    BY <1>3, <1>4, <1>5 DEF NamedFirst

\* The invariant implies the property.
LEMMA InvExclusive ==
  ASSUME ExpressionsAreBaseline, LoadsBaseline, Loaded, RowsInv
  PROVE  StrategiesExclude
  <1> SUFFICES ASSUME ValidCall PROVE Exclusive(Decided(call.pos, call.account, call.phase))
    BY DEF StrategiesExclude
  <1>1. PICK p : p = call.pos
    OBVIOUS
  <1>2. PICK account, phase : account = call.account /\ phase = call.phase
    OBVIOUS
  <1>3. SoundLegs(p.legs)
    BY <1>1, SoundCall
  <1>4. PICK D : D = Decided(p, account, phase)
    OBVIOUS
  <1>5. PICK named : named = {i \in D : rb.rules[i].pattern = ""}
    OBVIOUS
  <1>6. (\A i, j \in named : i = j) /\ (named # {} => FirstOf(D) \in named)
    <2>1. NamedFirst(Decided(p, account, phase))
      BY <1>3, OneNamed
    <2> QED
      BY <1>4, <1>5, <2>1, Zenon DEF NamedFirst
  <1>7. Cardinality(named) <= 1
    <2>1. CASE named = {}
      BY <2>1, FS_EmptySet
    <2>2. CASE named # {}
      <3>1. PICK i : named = {i}
        BY <1>6, <2>2
      <3> QED
        BY <3>1, FS_Singleton
    <2> QED
      BY <2>1, <2>2
  <1> QED
    BY <1>1, <1>2, <1>4, <1>5, <1>6, <1>7 DEF Exclusive

\* Of the baseline's strategies at most one takes a valid position, and the rule for
\* combinations never decides one that a strategy takes: their slots ask for legs of
\* another number, side, kind or type, and the boxes for their strikes in one order or
\* the other.
THEOREM StrategiesAreExclusive ==
  ASSUME ExpressionsAreBaseline, LoadsBaseline PROVE Spec => []StrategiesExclude
  <1>1. Spec => [](RowsInv /\ Loaded)
    BY InitRows, NextRows, InitLoaded, NextLoaded, PTL DEF Spec
  <1>2. RowsInv /\ Loaded => StrategiesExclude
    BY InvExclusive
  <1> QED
    BY <1>1, <1>2, PTL

-----------------------------------------------------------------------------
(***************************************************************************)
(* The verdicts: the legs sorted are those of the file in another order.   *)
(***************************************************************************)
\* Sorted, the legs of a row are those of its lines in another order.
LEMMA FileOrder ==
  ASSUME FromFiles, \A i \in DOMAIN ReadCSV(csv.legs) : ~BadLeg(ReadCSV(csv.legs)[i]), NEW id
  PROVE  \E n \in Nat : \E f :
           /\ Relists(LegsOf(LegRows, id), LegsInFile(id), n, f)
           /\ DOMAIN LegsInFile(id) = 1..n
           /\ \A i \in 1..n : \E j \in DOMAIN LegRows : LegsInFile(id)[i] = LegRows[j]
  <1> DEFINE legs == ReadCSV(csv.legs)
             is   == {i \in DOMAIN legs : legs[i].id = id}
             N    == Cardinality(LinesOf(id))
  <1>1. /\ DOMAIN LegRows \in SUBSET Int /\ IsFiniteSet(DOMAIN LegRows)
        /\ DOMAIN LegRows = DOMAIN legs
        /\ \A i \in DOMAIN LegRows : /\ LegRows[i].index \in Int
                                   /\ LegRows[i].id = legs[i].id
                                   /\ LegRows[i] = ParseLeg(legs[i])
    BY LegRowsFacts
  <1>2. is = LinesOf(id)
    BY <1>1 DEF LinesOf
  <1>3. PICK mine : mine = LinesOf(id)
    OBVIOUS
  <1>4. mine \subseteq Int /\ IsFiniteSet(mine) /\ mine \subseteq DOMAIN LegRows
    BY <1>1, <1>3, FS_Subset DEF LinesOf
  <1>5. PICK lines : lines = [n \in 1..N |-> Nth(mine, n)]
    OBVIOUS
  <1>6. /\ N \in Nat /\ lines \in [1..N -> mine]
        /\ \A i \in mine : \E n \in 1..N : lines[n] = i
    BY <1>3, <1>4, <1>5, NthFacts
  <1>7. LegsInFile(id) = [n \in 1..N |-> LegRows[lines[n]]]
    <2>1. PICK s : s = Selection(legs, mine)
      OBVIOUS
    <2>2. LegsInFile(id) = [i \in DOMAIN s |-> ParseLeg(s[i])]
      BY <1>2, <1>3, <2>1 DEF LegsInFile
    <2>3. DOMAIN s = 1..N /\ \A n \in 1..N : s[n] = legs[lines[n]]
      BY <1>3, <1>5, <2>1 DEF Selection
    <2>4. \A n \in 1..N : ParseLeg(s[n]) = LegRows[lines[n]]
      BY <1>1, <1>4, <1>6, <2>3
    <2> QED
      BY <2>2, <2>3, <2>4
  <1>8. PICK f \in [1..N -> mine] :
          /\ LegsOf(LegRows, id) = [n \in 1..N |-> LegRows[f[n]]]
          /\ \A m, n \in 1..N : m < n => LineBefore(f[m], f[n])
    BY <1>1, <1>3, LegsSorted, Zenon
  <1> HIDE DEF N
  <1>9. \A m, n \in 1..N : f[m] = f[n] => m = n
    <2>1. \A i \in mine : ~LineBefore(i, i)
      BY <1>1, <1>4 DEF LineBefore
    <2>2. ASSUME NEW m \in 1..N, NEW n \in 1..N, f[m] = f[n] PROVE m = n
      <3>1. ~(m < n)
        BY <1>8, <2>1, <2>2
      <3>2. ~(n < m)
        BY <1>8, <2>1, <2>2
      <3> QED
        BY <1>6, <3>1, <3>2
    <2> QED
      BY <2>2
  <1>10. PICK h : h = [i \in 1..N |-> CHOOSE n \in 1..N : lines[n] = f[i]]
    OBVIOUS
  <1>11. \A i \in 1..N : h[i] \in 1..N /\ lines[h[i]] = f[i]
    BY <1>6, <1>8, <1>10
  <1>12. Reorders(h, N)
    <2>1. h \in [1..N -> 1..N]
      BY <1>10, <1>11
    <2>2. \A i, j \in 1..N : h[i] = h[j] => i = j
      BY <1>9, <1>11
    <2> QED
      BY <2>1, <2>2 DEF Reorders
  <1>13. PICK s : s = LegsInFile(id)
    OBVIOUS
  <1>14. DOMAIN s = 1..N /\ \A n \in 1..N : s[n] = LegRows[lines[n]]
    BY <1>7, <1>13
  <1>15. LegsOf(LegRows, id) = [i \in 1..N |-> s[h[i]]]
    <2>1. \A i \in 1..N : s[h[i]] = LegRows[f[i]]
      BY <1>11, <1>14
    <2> QED
      BY <1>8, <2>1
  <1>16. Relists(LegsOf(LegRows, id), s, N, h)
    BY <1>12, <1>14, <1>15 DEF Relists
  <1>17. \A i \in 1..N : \E j \in DOMAIN LegRows : s[i] = LegRows[j]
    BY <1>4, <1>6, <1>14
  <1> QED
    BY <1>6, <1>13, <1>14, <1>16, <1>17

\* A position of a row, its legs in the order of their lines and sorted.
LEMMA FileRelisted ==
  ASSUME FromFiles, \A i \in DOMAIN ReadCSV(csv.legs) : ~BadLeg(ReadCSV(csv.legs)[i]), NEW row,
         NEW p, p = Prepared(PositionOf(row, LegsInFile(row.id))),
         NEW q, q = Prepared(PositionOf(row, LegsOf(LegRows, row.id))),
         ValidPosition(p)
  PROVE  p.U = q.U /\ p.class = q.class /\ Relisted(q, p) /\ SoundLegs(p.legs)
  <1>1. PICK s, t : s = LegsInFile(row.id) /\ t = LegsOf(LegRows, row.id)
    OBVIOUS
  <1>2. PICK n \in Nat : \E f : /\ Relists(t, s, n, f) /\ DOMAIN s = 1..n
                                /\ \A i \in 1..n : \E j \in DOMAIN LegRows : s[i] = LegRows[j]
    BY <1>1, FileOrder
  <1>3. PICK f : /\ Relists(t, s, n, f) /\ DOMAIN s = 1..n
                 /\ \A i \in 1..n : \E j \in DOMAIN LegRows : s[i] = LegRows[j]
    BY <1>2
  <1>4. /\ p.U = row.U /\ p.class = row.class /\ p.legs = [i \in DOMAIN s |-> Filled(s[i])]
        /\ q.U = row.U /\ q.class = row.class /\ q.legs = [i \in DOMAIN t |-> Filled(t[i])]
    BY <1>1, PreparedIs
  <1>5. DOMAIN t = 1..n /\ \A i \in 1..n : f[i] \in 1..n /\ t[i] = s[f[i]]
    BY <1>3 DEF Relists, Reorders
  <1>6. p.legs = [i \in 1..n |-> Filled(s[i])] /\ DOMAIN p.legs = 1..n
    BY <1>3, <1>4
  <1>7. IsSeq(p.legs)
    <2>1. p.legs = [i \in 1..n |-> p.legs[i]]
      BY <1>6
    <2> QED
      BY <2>1, ListIsSeq
  <1>8. q.legs = [i \in 1..n |-> p.legs[f[i]]]
    <2>1. \A i \in 1..n : Filled(t[i]) = p.legs[f[i]]
      BY <1>5, <1>6
    <2> QED
      BY <1>4, <1>5, <2>1
  <1>9. Relisted(q, p)
    <2>1. Relists(q.legs, p.legs, n, f)
      BY <1>3, <1>6, <1>8 DEF Relists
    <2> QED
      BY <1>7, <2>1 DEF Relisted
  <1>10. ASSUME NEW i \in 1..n PROVE LossColumns \subseteq DOMAIN p.legs[i]
    <2>1. PICK j \in DOMAIN LegRows : s[i] = LegRows[j]
      BY <1>3
    <2>2. LegColumns \subseteq DOMAIN s[i]
      BY <2>1, LegRowsFacts
    <2>3. DOMAIN Filled(s[i]) = DOMAIN s[i]
      BY DEF Filled
    <2> QED
      BY <1>6, <2>2, <2>3 DEF LegColumns, LegCells, RequiredCells, LossColumns
  <1>11. SoundLegs(p.legs)
    BY <1>6, <1>7, <1>10, ValidContract DEF SoundLegs, ValidPosition
  <1> QED
    BY <1>4, <1>9, <1>11

\* Of a position that some rule takes, the answers are the scan's one.
LEMMA OneIsHeard ==
  ASSUME ExpressionsAreBaseline, LoadsBaseline, Loaded,
         NEW p, SoundLegs(p.legs), NEW account, NEW phase
  PROVE  Answers(p, account, phase)
           = IF Decided(p, account, phase) = {} THEN {} ELSE {FirstToDecide(p, account, phase)}
  <1> DEFINE D == Decided(p, account, phase)
             named == {i \in D : rb.rules[i].pattern = ""}
             say(i) == EvaluateOne(rb.rules[i], p, account, phase)
             heard(rs) == {o \in {EvaluateOne(r, p, account, phase) : r \in rs} : o.kind # "no"}
             slotted == {r \in Members(rb.rules) : r.pattern = ""}
  <1>1. PICK n \in Nat : DOMAIN rb.rules = 1..n
    BY RulesOfEngine
  <1>2. Answers(p, account, phase)
          = IF heard(slotted) # {} THEN heard(slotted) ELSE heard(Members(rb.rules))
    BY DEF Answers
  <1>3. \A o : o \in heard(slotted) <=> \E i \in named : o = say(i)
    BY DEF Members, Decided
  <1>4. \A o : o \in heard(Members(rb.rules)) <=> \E i \in D : o = say(i)
    BY DEF Members, Decided
  <1>5. NamedFirst(D)
    BY OneNamed
  <1>6. FirstToDecide(p, account, phase) = IF D = {} THEN Outcome("norule") ELSE say(FirstOf(D))
    BY DEF FirstToDecide
  <1>7. D \in SUBSET DOMAIN rb.rules
    BY DEF Decided
  <1>8. (\A i, j \in named : i = j) /\ (D # {} => FirstOf(D) \in D)
          /\ (named # {} => FirstOf(D) \in named)
    BY <1>5, Zenon DEF NamedFirst
  <1>9. named \in SUBSET D
    OBVIOUS
  <1>10. named = {} => \A i \in D : rb.rules[i].pattern # ""
    OBVIOUS
  <1> HIDE DEF D, named, say, heard, slotted
  <1>11. CASE D = {}
    <2>1. heard(slotted) = {} /\ heard(Members(rb.rules)) = {}
      BY <1>3, <1>4, <1>9, <1>11
    <2> QED
      BY <1>2, <1>11, <2>1 DEF D
  <1>12. CASE named # {}
    <2>1. heard(slotted) = {say(FirstOf(D))}
      BY <1>3, <1>8, <1>12
    <2>2. D # {}
      BY <1>9, <1>12
    <2> QED
      BY <1>2, <1>6, <2>1, <2>2 DEF D
  <1>13. CASE named = {} /\ D # {}
    <2>1. heard(slotted) = {}
      BY <1>3, <1>13
    <2>2. ASSUME NEW i \in D, NEW j \in D PROVE i = j
      <3>1. i \in DOMAIN rb.rules /\ j \in DOMAIN rb.rules
        BY <1>7
      <3>2. PICK r \in Members(R!BaselineRules) : r = rb.rules[i]
        BY <3>1, RulesOfEngine
      <3>3. PICK s \in Members(R!BaselineRules) : s = rb.rules[j]
        BY <3>1, RulesOfEngine
      <3>4. r.pattern # "" /\ s.pattern # ""
        BY <1>10, <1>13, <3>2, <3>3
      <3>5. r = R!GenericLimitedRiskCombo /\ s = R!GenericLimitedRiskCombo
        BY <3>4, RulesAre, StrategyFacts
      <3> QED
        BY <3>1, <3>2, <3>3, <3>5, RulesOfEngine
    <2>3. heard(Members(rb.rules)) = {say(FirstOf(D))}
      BY <1>4, <1>8, <1>13, <2>2
    <2> QED
      BY <1>2, <1>6, <1>13, <2>1, <2>3 DEF D
  <1> QED
    BY <1>11, <1>12, <1>13

\* The verdict of what the scan says is true of it.
LEMMA VerdictIsTrue ==
  ASSUME LoadsBaseline, Loaded, NEW p, NEW account, NEW phase, NEW vendor,
         NEW o, o = FirstToDecide(p, account, phase)
  PROVE  LET D == Decided(p, account, phase) IN
         TrueVerdict(Verdict(o, vendor), IF D = {} THEN {} ELSE {o}, vendor)
  <1>1. PICK D : D = Decided(p, account, phase)
    OBVIOUS
  <1>2. CASE D = {}
    <2>1. o.kind = "norule"
      BY <1>1, <1>2 DEF FirstToDecide, Outcome
    <2>2. Verdict(o, vendor) = "NO_RULE"
      BY <2>1 DEF Verdict
    <2> QED
      BY <1>1, <1>2, <2>2 DEF TrueVerdict
  <1>3. CASE D # {}
    <2>1. PICK n \in Nat : DOMAIN rb.rules = 1..n
      BY RulesOfEngine
    <2>2. D \in SUBSET (1..n)
      BY <1>1, <2>1 DEF Decided
    <2>3. FirstOf(D) \in D
      BY <1>3, <2>2, FirstIsIn
    <2>4. o = EvaluateOne(rb.rules[FirstOf(D)], p, account, phase)
      BY <1>1, <1>3 DEF FirstToDecide
    <2>5. o.kind # "no"
      BY <1>1, <2>3, <2>4 DEF Decided
    <2>6. Answer(o)
      BY <2>4, EvaluateOneAnswers
    <2>7. o.kind \in {"requires", "error", "result"} /\ (o.kind = "result" => o.res.req \in Int)
      BY <2>5, <2>6 DEF Answer, Answered
    <2>8. CASE o.kind # "result"
      <3>1. Verdict(o, vendor) = "ERROR"
        BY <2>7, <2>8 DEF Verdict
      <3> QED
        BY <1>1, <1>3, <2>8, <3>1 DEF TrueVerdict
    <2>9. CASE o.kind = "result"
      <3>1. PICK d : d = Difference(o.res.req, vendor)
        OBVIOUS
      <3>2. Verdict(o, vendor) = IF Finite(d) /\ d <= tolerance THEN "MATCH" ELSE "DIFF"
        BY <2>9, <3>1 DEF Verdict
      <3>3. Finite(vendor) => Finite(d) /\ d = Abs(o.res.req - vendor)
        BY <2>7, <2>9, <3>1 DEF Difference, Finite, Abs
      <3>4. ~Finite(vendor) => ~Finite(d)
        BY <3>1, NotFiniteAssumption DEF Difference, Finite
      <3>5. Verdict(o, vendor) = "MATCH" <=> Finite(vendor) /\ Abs(o.res.req - vendor) <= tolerance
        <4>1. CASE Finite(vendor)
          BY <3>2, <3>3, <4>1
        <4>2. CASE ~Finite(vendor)
          BY <3>2, <3>4, <4>2
        <4> QED
          BY <4>1, <4>2
      <3>6. Verdict(o, vendor) \notin {"NO_RULE", "ERROR"}
        BY <3>2
      <3> QED
        BY <1>1, <1>3, <2>9, <3>5, <3>6 DEF TrueVerdict
    <2> QED
      BY <2>8, <2>9
  <1> QED
    BY <1>2, <1>3

\* The invariant implies the property.
LEMMA InvTrue ==
  ASSUME ExpressionsAreBaseline, LoadsBaseline, Loaded, RowsInv
  PROVE  VerdictsTellTruth
  <1>1. pc = "exit 0" => Len(diffs) = Len(ReadCSV(csv.positions))
    BY DEF RowsInv, RowsAnswered
  <1>2. ASSUME NEW i \in DOMAIN diffs, NEW row, row = FileRow(i),
               NEW p, p = Prepared(PositionOf(row, LegsInFile(row.id))), ValidPosition(p)
        PROVE  TrueVerdict(diffs[i].verdict, Answers(p, row.account, row.phase), row.vendor)
    <2>1. i \in DOMAIN rows /\ FromFiles /\ diffs[i] = DiffRow(FileRow(i), SaysOfRow(i))
      BY DEF RowsInv, ReconInv, DiffRows, RowsAnswered
    <2>2. \A j \in DOMAIN ReadCSV(csv.legs) : ~BadLeg(ReadCSV(csv.legs)[j])
      BY <2>1 DEF FromFiles
    <2>3. PICK q : q = Prepared(PositionOf(row, LegsOf(LegRows, row.id)))
      OBVIOUS
    <2>4. p.U = q.U /\ p.class = q.class /\ Relisted(q, p) /\ SoundLegs(p.legs)
      BY <1>2, <2>1, <2>2, <2>3, FileRelisted
    <2>5. ValidPosition(q)
      <3>1. Members(LegsInFile(row.id)) = Members(LegsOf(LegRows, row.id))
        BY <2>1, <2>2, SameLegs
      <3> QED
        BY <1>2, <2>3, <3>1, ValidInAnyOrder
    <2>6. q = Prepared(FilePosition(i))
      BY <1>2, <2>3 DEF FilePosition
    <2>7. SaysOfRow(i) = FirstToDecide(q, row.account, row.phase)
      BY <1>2, <2>5, <2>6 DEF SaysOfRow
    <2>8. FirstToDecide(q, row.account, row.phase) = FirstToDecide(p, row.account, row.phase)
      <3>1. PICK account, phase : account = row.account /\ phase = row.phase
        OBVIOUS
      <3>2. FirstToDecide(q, account, phase) = FirstToDecide(p, account, phase)
        BY <2>4, SaysAnyOrder
      <3> QED
        BY <3>1, <3>2
    <2>9. PICK o : o = FirstToDecide(p, row.account, row.phase)
      OBVIOUS
    <2>10. diffs[i].verdict = Verdict(o, row.vendor)
      BY <1>2, <2>1, <2>7, <2>8, <2>9 DEF DiffRow
    <2>11. PICK D : D = Decided(p, row.account, row.phase)
      OBVIOUS
    <2>12. Answers(p, row.account, row.phase) = IF D = {} THEN {} ELSE {o}
      BY <2>4, <2>9, <2>11, OneIsHeard
    <2>13. TrueVerdict(Verdict(o, row.vendor), IF D = {} THEN {} ELSE {o}, row.vendor)
      BY <2>9, <2>11, VerdictIsTrue
    <2> QED
      BY <2>10, <2>12, <2>13
  <1>3. ASSUME NEW i \in DOMAIN diffs, NEW row, row = FileRow(i),
               NEW p, p = Prepared(PositionOf(row, LegsInFile(row.id))), ~ValidPosition(p)
        PROVE  diffs[i].verdict = "ERROR"
    BY <1>3, InvTells DEF RefusalsTold
  <1> QED
    BY <1>1, <1>2, <1>3 DEF VerdictsTellTruth, FileRow

\* A verdict tells what the engine says of the legs the files list for its row, in
\* the order of their lines: the engine is asked of them sorted, but answers the
\* same, and of a valid position at most one rule, or one among those with slots,
\* has anything to say.
THEOREM VerdictsAreTrue ==
  ASSUME ExpressionsAreBaseline, LoadsBaseline PROVE Spec => []VerdictsTellTruth
  <1>1. Spec => [](RowsInv /\ Loaded)
    BY InitRows, NextRows, InitLoaded, NextLoaded, PTL DEF Spec
  <1>2. RowsInv /\ Loaded => VerdictsTellTruth
    BY InvTrue
  <1> QED
    BY <1>1, <1>2, PTL
=============================================================================
