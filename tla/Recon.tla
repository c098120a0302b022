------------------------------- MODULE Recon -------------------------------
(***************************************************************************)
(* Vendor reconciliation (cmd/recon/main.go, internal/recon/recon.go): the *)
(* rulebook and two CSV files are loaded, every position is run through    *)
(* the engine, its requirement is compared with the vendor's, and the      *)
(* verdicts are counted.                                                   *)
(*                                                                         *)
(* A file is the sequence of its data rows; a row is a record of cells.  A *)
(* cell of a number is the number, Blank, or Garbled when ParseFloat would *)
(* refuse it.  EmptyRow is a row of which every cell is blank.  A file     *)
(* that cannot be read at all ends the command as a garbled one does.      *)
(***************************************************************************)
EXTENDS Dispatch

CONSTANTS
  Rulebooks,      \* what the rules file may hold
  Files,          \* what positions.csv and legs.csv may hold
  Tolerances,     \* values of -tolerance, in cents
  Blank, Garbled, EmptyRow

ASSUME RulebooksAssumption == \A raw \in Rulebooks : raw.rules \in Seq(Members(raw.rules))

PositionCells == {"U", "lev", "vendor"}

LegCells ==
  {"K", "P", "P0", "months", "shares", "proceeds", "sale", "price", "keq"}

\* requiredFloat: an empty cell is an error too.
RequiredCells == {"qty", "mult"}

LegColumns == {"id", "index", "side", "kind", "type"} \cup LegCells \cup RequiredCells

\* Files are finite sequences of rows, of the columns of their headers.  Go leaves open
\* which int a leg_index that is not finite is converted to: those are not modelled.
ASSUME FilesAssumption ==
  \A file \in Files :
    /\ file.positions \in Seq(Members(file.positions))
    /\ file.legs \in Seq(Members(file.legs))
    /\ \A l \in Members(file.legs) \ {EmptyRow} :
         LegColumns \subseteq DOMAIN l /\ l.index \in Int \cup {Blank, Garbled}
ASSUME TolerancesAssumption == Tolerances \subseteq Nat

VARIABLES
  pc,         \* where the command stands
  csv,        \* the two files
  tolerance,
  rows,       \* the parsed rows of positions.csv
  positions,  \* the engine.Position of each row
  diffs,      \* the DiffRows so far
  summary

reconVars == <<pc, csv, tolerance, rows, positions, diffs, summary>>

vars == <<dispatchVars, reconVars>>

-----------------------------------------------------------------------------
(***************************************************************************)
(* LoadPositions.  readCSV drops the empty rows.                           *)
(***************************************************************************)
ReadCSV(file) == Selection(file, {i \in DOMAIN file : file[i] # EmptyRow})

Cell(v) == IF v = Blank THEN 0 ELSE v

BadPosition(r) == r.id = "" \/ \E c \in PositionCells : r[c] = Garbled

BadLeg(r) ==
  \/ r.id = ""
  \/ \E c \in LegCells \cup {"index"} : r[c] = Garbled
  \/ \E c \in RequiredCells : r[c] \in {Blank, Garbled}

ParsePositionRow(r) ==
  [id |-> r.id, U |-> Cell(r.U), class |-> r.class, lev |-> Cell(r.lev),
   account |-> IF r.account = "" THEN "margin" ELSE r.account,
   phase |-> IF r.phase = "" THEN "initial" ELSE r.phase,
   vendor |-> Cell(r.vendor)]

ParseLeg(r) == [c \in DOMAIN r |-> IF c \in LegCells \cup {"index"} THEN Cell(r[c]) ELSE r[c]]

\* loadLegs: the legs of a position by leg_index.  sort.Slice is stable on the
\* twelve legs or fewer it sorts by insertion, and positions here are smaller.
LegsOf(file, id) ==
  LET mine == {i \in DOMAIN file : file[i].id = id}
      before(i) == {j \in mine : \/ file[j].index < file[i].index
                                 \/ file[j].index = file[i].index /\ j < i}
  IN  [n \in 1..Cardinality(mine) |->
         file[CHOOSE i \in mine : Cardinality(before(i)) = n - 1]]

PositionOf(row, legs) == [U |-> row.U, class |-> row.class, lev |-> row.lev, legs |-> legs]

LoadPositions ==
  LET parsed == ReadCSV(csv.positions)
      legs   == ReadCSV(csv.legs)
      ok     == /\ parsed # <<>>
                /\ \A i \in DOMAIN parsed : ~BadPosition(parsed[i])
                /\ \A i \in DOMAIN legs : ~BadLeg(legs[i])
      prs    == [i \in DOMAIN parsed |-> ParsePositionRow(parsed[i])]
      ls     == [i \in DOMAIN legs |-> ParseLeg(legs[i])]
  IN  /\ pc = "load"
      /\ rb.state = "loaded"
      /\ IF ok
         THEN /\ pc' = "run"
              /\ rows' = prs
              /\ positions' = [i \in DOMAIN prs |->
                                 PositionOf(prs[i], LegsOf(ls, prs[i].id))]
         ELSE pc' = "exit 1" /\ UNCHANGED <<rows, positions>>
      /\ UNCHANGED <<dispatchVars, csv, tolerance, diffs, summary>>

-----------------------------------------------------------------------------
(***************************************************************************)
(* Run.  In the code a float64 difference with a vendor number that is not *)
(* finite is not finite either, and no comparison with NaN holds.          *)
(***************************************************************************)
Row == Len(diffs) + 1

EvaluateRow ==
  /\ pc = "run"
  /\ Row \in DOMAIN rows
  /\ Evaluate(positions[Row], rows[Row].account, rows[Row].phase)
  /\ UNCHANGED reconVars

TryRow == pc = "run" /\ TryRules /\ UNCHANGED reconVars

Abs(n) == IF n < 0 THEN -n ELSE n

\* Mutant of Difference: the sign is kept.
SignedDifference(req, vendor) == IF Finite(vendor) THEN req - vendor ELSE NotFinite

Difference(req, vendor) == IF Finite(vendor) THEN Abs(req - vendor) ELSE NotFinite

\* Mutant of Verdict: an evaluation error is taken for a missing rule.
VerdictErrorAsNoRule(o, vendor) ==
  CASE o.kind = "norule" \/ o.kind = "requires" -> "NO_RULE"
    [] o.kind \in {"invalid", "error"} -> "ERROR"
    [] OTHER -> LET d == Difference(o.res.req, vendor)
                IN  IF Finite(d) /\ d <= tolerance THEN "MATCH" ELSE "DIFF"

Verdict(o, vendor) ==
  CASE o.kind = "norule" -> "NO_RULE"
    [] o.kind \in {"invalid", "requires", "error"} -> "ERROR"
    [] OTHER -> LET d == Difference(o.res.req, vendor)
                IN  IF Finite(d) /\ d <= tolerance THEN "MATCH" ELSE "DIFF"

RecordRow ==
  /\ pc = "run"
  /\ Returned
  /\ LET vendor == rows[Row].vendor IN
     diffs' = Append(diffs,
       [id |-> rows[Row].id, vendor |-> vendor, verdict |-> Verdict(outcome, vendor),
        rule |-> outcome.res.rule, req |-> outcome.res.req, cashCall |-> outcome.res.cashCall,
        delta |-> IF outcome.kind = "result" THEN Difference(outcome.res.req, vendor) ELSE 0])
  /\ outcome' = Idle
  /\ UNCHANGED <<rb, call, pc, csv, tolerance, rows, positions, summary>>

-----------------------------------------------------------------------------
(***************************************************************************)
(* Summarize, in cents; a difference that is not finite is in the last     *)
(* bucket.                                                                 *)
(***************************************************************************)
Under(d, cents) == Finite(d.delta) /\ d.delta < cents

\* Mutant of Between: both ends belong to the bucket.
BetweenClosed(d, low, high) ==
  d.verdict = "DIFF" /\ ~Under(d, low) /\ (Under(d, high) \/ d.delta = high)

Between(d, low, high) == d.verdict = "DIFF" /\ ~Under(d, low) /\ Under(d, high)

Verdicts == {"MATCH", "DIFF", "NO_RULE", "ERROR"}

RowsWith(v) == {i \in DOMAIN diffs : diffs[i].verdict = v}

Bucket(low, high) == {i \in DOMAIN diffs : Between(diffs[i], low, high)}

Counts ==
  [total     |-> Len(diffs),
   verdict   |-> [v \in Verdicts |-> Cardinality(RowsWith(v))],
   under1    |-> Cardinality(Bucket(0, 100)),
   under100  |-> Cardinality(Bucket(100, 10000)),
   under1000 |-> Cardinality(Bucket(10000, 100000)),
   over1000  |-> Cardinality({i \in RowsWith("DIFF") : ~Under(diffs[i], 100000)})]

\* The report cannot be written, and there is no summary either.
WriteFails ==
  /\ pc = "run"
  /\ Len(diffs) = Len(rows)
  /\ pc' = "exit 1"
  /\ UNCHANGED <<dispatchVars, csv, tolerance, rows, positions, diffs, summary>>

Summarize ==
  /\ pc = "run"
  /\ Len(diffs) = Len(rows)
  /\ summary' = Counts
  /\ pc' = "exit 0"
  /\ UNCHANGED <<dispatchVars, csv, tolerance, rows, positions, diffs>>

-----------------------------------------------------------------------------
NoSummary ==
  [total |-> 0, verdict |-> [v \in Verdicts |-> 0],
   under1 |-> 0, under100 |-> 0, under1000 |-> 0, over1000 |-> 0]

Init ==
  /\ DispatchInit
  /\ pc = "load"
  /\ csv \in Files
  /\ tolerance \in Tolerances
  /\ rows = <<>>
  /\ positions = <<>>
  /\ diffs = <<>>
  /\ summary = NoSummary

LoadRules == pc = "load" /\ \E raw \in Rulebooks : LoadRulebook(raw) /\ UNCHANGED reconVars

RulesFailed ==
  /\ pc = "load"
  /\ rb.state = "failed"
  /\ pc' = "exit 1"
  /\ UNCHANGED <<dispatchVars, csv, tolerance, rows, positions, diffs, summary>>

Next ==
  \/ LoadRules \/ RulesFailed \/ LoadPositions
  \/ EvaluateRow \/ TryRow \/ RecordRow \/ WriteFails \/ Summarize

Spec == Init /\ [][Next]_vars

-----------------------------------------------------------------------------
(***************************************************************************)
(* Properties.                                                             *)
(***************************************************************************)
Kinds == {"idle", "scanning", "invalid", "norule", "requires", "error", "result"}

\* The command's variables have their types, and every parsed row keeps a
\* position, and at most one DiffRow, at its own index.  A delta has no sign.
TypeOK ==
  /\ pc \in {"load", "run", "exit 0", "exit 1"}
  /\ rb.state \in {"none", "loaded", "failed"}
  /\ outcome.kind \in Kinds
  /\ call.rule \in 0..(Len(rb.rules) + 1)
  /\ DOMAIN positions = DOMAIN rows
  /\ \A i \in DOMAIN diffs : /\ i \in DOMAIN rows
                           /\ diffs[i].id = rows[i].id
                           /\ diffs[i].delta \in Nat \cup {NotFinite}
  /\ summary.total \in Nat

ValidCall == pc = "run" /\ outcome.kind \notin {"idle", "invalid"}

Reordered(p) ==
  LET n == Len(p.legs)
      orders == {f \in [1..n -> 1..n] : \A i, j \in 1..n : f[i] = f[j] => i = j}
  IN  {[p EXCEPT !.legs = [i \in 1..n |-> p.legs[f[i]]]] : f \in orders}

\* Evaluate answers the same in whatever order the legs of the position are
\* listed, although bindSlots looks at one binding only.
LegOrderIrrelevant ==
  ValidCall /\ Returned => \A p \in Reordered(call.pos) : outcome = FirstToDecide(p, call.account, call.phase)

Exclusive(deciding) ==
  LET named == {i \in deciding : rb.rules[i].pattern = ""}
  IN  Cardinality(named) <= 1 /\ (named # {} => FirstOf(deciding) \in named)

\* The named strategies exclude each other, and the catch-all of option
\* combinations never decides a position that one of them takes: among rules with
\* slots, the order of the file and the scan's early end decide nothing.
StrategiesExclude ==
  ValidCall => Exclusive(Decided(call.pos, call.account, call.phase))

Agrees(all) ==
  /\ ~all.fails /\ all.results # <<>> => outcome = all.results[1]
  /\ ~all.fails /\ all.results = <<>> => outcome.kind = "norule"
  /\ outcome.kind \in {"requires", "error"} => all.fails

\* EvaluateAll lists Evaluate's answer first, lists nothing only where Evaluate
\* finds no rule, and fails wherever Evaluate does.
EvaluateAllAgrees ==
  ValidCall /\ Returned => Agrees(EvaluateAll(call.pos, call.account, call.phase))

\* lookupProg never panics: whatever rule of a loaded rulebook the scan may
\* come to, the program of every expression it reads there is compiled.
ProgramsAreCompiled ==
  ValidCall => \A i \in DOMAIN rb.rules :
                 Lookups(rb.rules[i], call.account, call.phase) \subseteq rb.progs

\* The legs legs.csv has for a row, in the order of their lines.
LegsInFile(id) ==
  LET file == ReadCSV(csv.legs)
      mine == Selection(file, {i \in DOMAIN file : file[i].id = id})
  IN  [i \in DOMAIN mine |-> ParseLeg(mine[i])]

\* What the rules that do not decline say of a position: the strategies with slots,
\* or the others where no strategy takes it.
Answers(p, account, phase) ==
  LET say(rs) == {EvaluateOne(r, p, account, phase) : r \in rs}
      heard(rs) == {o \in say(rs) : o.kind # "no"}
      named == heard({r \in Members(rb.rules) : r.pattern = ""})
  IN  IF named # {} THEN named ELSE heard(Members(rb.rules))

TrueVerdict(verdict, says, vendor) ==
  /\ verdict = "NO_RULE" <=> says = {}
  /\ verdict = "ERROR" <=> \E o \in says : o.kind # "result"
  /\ verdict = "MATCH" <=> \E o \in says : /\ o.kind = "result"
                                          /\ Finite(vendor)
                                          /\ Abs(o.res.req - vendor) <= tolerance

\* A verdict tells what the engine says of the legs the files list for its row:
\* NO_RULE of a valid position that every rule declines, ERROR of one that is
\* refused, MATCH and DIFF by the tolerance; and no row is skipped.
VerdictsTellTruth ==
  pc = "exit 0" =>
    /\ Len(diffs) = Len(ReadCSV(csv.positions))
    /\ \A i \in DOMAIN diffs :
         LET row == ParsePositionRow(ReadCSV(csv.positions)[i])
             p   == Prepared(PositionOf(row, LegsInFile(row.id)))
         IN  IF ValidPosition(p)
             THEN TrueVerdict(diffs[i].verdict, Answers(p, row.account, row.phase), row.vendor)
             ELSE diffs[i].verdict = "ERROR"

\* Every row is in exactly one count, every DIFF in exactly one bucket.
SummaryAddsUp ==
  pc = "exit 0" =>
    LET v == summary.verdict IN
    /\ summary.total = Len(rows)
    /\ v["MATCH"] + v["DIFF"] + v["NO_RULE"] + v["ERROR"] = summary.total
    /\ summary.under1 + summary.under100 + summary.under1000 + summary.over1000 = v["DIFF"]
=============================================================================
