------------------------------ MODULE Overlay ------------------------------
(***************************************************************************)
(* The house overlay (internal/overlay): house rules are loaded from one   *)
(* or more files, and EvaluateHouse raises the requirement of an account,  *)
(* aggregated over the engine's baseline, by what every rule says of every *)
(* position with stock and of every group of such positions.               *)
(***************************************************************************)
EXTENDS Account, TLC

CONSTANTS
  Rulebooks,        \* what the baseline rules file may hold
  OverlayFiles,     \* the lists of overlay files LoadRulebook may be given
  References,       \* ReferenceData: functions from <<symbol, venue>> to facts
  SortedSymbols,    \* the symbols in use, in the order of their bytes
  OverlayType(_),   \* expression -> the type the compiler reports
  When(_, _),       \* (expression, activation) -> "true", "false" or "error"
  Formula(_, _)     \* (expression, activation) -> a number; NotFinite for an error

ASSUME RulebooksAssumption == \A raw \in Rulebooks : raw.rules \in Seq(Members(raw.rules))

ASSUME SymbolsAssumption ==
  /\ SortedSymbols \in Seq(Members(SortedSymbols))
  /\ \A i, j \in DOMAIN SortedSymbols : SortedSymbols[i] = SortedSymbols[j] => i = j

ASSUME OverlayFilesAssumption ==
  \A files \in OverlayFiles :
    /\ files \in Seq(Members(files))
    /\ \A file \in Members(files) :
         /\ file.rules \in Seq(Members(file.rules))
         /\ \A r \in Members(file.rules) : {"id", "priority"} \subseteq DOMAIN r /\ r.priority \in Int

VARIABLES
  ob,     \* the overlay's Rulebook
  ref,    \* the ReferenceData
  entries,\* the facts of the positions Evaluate looks at
  at,     \* the rule and the target Evaluate is at
  out     \* the HouseRequirement

overlayVars == <<ob, ref, entries, at, out>>

vars == <<dispatchVars, accountVars, overlayVars>>

-----------------------------------------------------------------------------
(***************************************************************************)
(* validateRawRule and compileRule.                                        *)
(***************************************************************************)
Modes == {"add", "max", "floor", "block"}

Bases == {"", "market_value", "shares", "group_gross_mv", "account_equity",
          "position_market_value", "group_gross_market_value"}

ValidApplies(s) ==
  /\ s.types \subseteq {"cash", "margin"}
  /\ s.phases \subseteq {"initial", "maintenance"}
  /\ s.kinds \subseteq {"stock", "etf", "etn", "leveraged_etf", "adr", "option"}
  /\ s.sides \subseteq {"long", "short"}

ValidHouseRule(r) ==
  /\ r.id # ""
  /\ r.mode \in Modes
  /\ r.basis \in Bases
  /\ ValidApplies(r.applies)
  /\ r.missing \in {"warn", "error"}
  /\ \/ r.scope = "group" /\ r.groupBy \in {"underlying", "symbol"}
     \/ r.scope = "position" /\ r.groupBy = ""
  /\ r.mode = "block" \/ r.formula # ""

\* An empty when is true, an empty formula has no program.
CompilesHouse(r) ==
  /\ r.when # "" => OverlayType(r.when) = "bool"
  /\ r.formula # "" => OverlayType(r.formula) \in {"number", "dyn"}

-----------------------------------------------------------------------------
(***************************************************************************)
(* LoadRulebook.  A file that is empty is read, hashed and left.  The hash *)
(* over the bytes is the list of the files itself.                         *)
(***************************************************************************)
Stated(files) == {i \in DOMAIN files : files[i].state # "empty"}

\* The places of rules: the file and the place in the file.
Places(files) == UNION {{i} \X DOMAIN files[i].rules : i \in Stated(files)}

Earlier(p, q) == p[1] < q[1] \/ (p[1] = q[1] /\ p[2] < q[2])

\* A rule with its place; what it does without reference data is warn, unless it
\* says otherwise.
Declared(r, p) ==
  [f \in DOMAIN r \cup {"file", "decl"} |->
     CASE f = "file" -> p[1] [] f = "decl" -> p[2]
       [] f = "missing" /\ r.missing = "" -> "warn" [] OTHER -> r[f]]

\* File by file.
AllRules(files) ==
  LET places   == Places(files)
      place(n) == CHOOSE p \in places : Cardinality({q \in places : Earlier(q, p)}) = n - 1
      rule(p)  == Declared(files[p[1]].rules[p[2]], p)
  IN  [n \in 1..Cardinality(places) |-> rule(place(n))]

\* Mutant of Precedes: by priority and place in the file, whatever the file.
PrecedesByDecl(a, b) ==
  a.priority < b.priority \/ (a.priority = b.priority /\ a.decl < b.decl)

Precedes(a, b) ==
  \/ a.priority < b.priority
  \/ a.priority = b.priority /\ a.file < b.file
  \/ a.priority = b.priority /\ a.file = b.file /\ a.decl < b.decl

\* sort.SliceStable.
Sorted(s) ==
  LET before(i) == {j \in DOMAIN s : Precedes(s[j], s[i]) \/ (j < i /\ ~Precedes(s[i], s[j]))}
  IN  [n \in DOMAIN s |-> s[CHOOSE i \in DOMAIN s : Cardinality(before(i)) = n - 1]]

ValidFiles(files) ==
  /\ files # <<>>
  /\ \A i \in Stated(files) : files[i].state = "read" /\ files[i].schema = "1"
  /\ \A i, j \in Stated(files) : i # j => files[i].constants \cap files[j].constants = {}
  /\ Unique(AllRules(files))
  /\ \A r \in Members(AllRules(files)) : ValidHouseRule(r) /\ CompilesHouse(r)

NoOverlay == [state |-> "none", rules |-> <<>>, constants |-> {}, hash |-> <<>>]

LoadOverlay(files) ==
  /\ ob.state = "none"
  /\ ob' = IF ValidFiles(files)
           THEN [state |-> "loaded",
                 rules |-> Sorted(AllRules(files)),
                 constants |-> UNION {files[i].constants : i \in Stated(files)},
                 hash |-> files]
           ELSE [NoOverlay EXCEPT !.state = "failed"]
  /\ UNCHANGED <<dispatchVars, accountVars, ref, entries, at, out>>

-----------------------------------------------------------------------------
(***************************************************************************)
(* derivePositionFacts, lookupSecurity and the entries Evaluate works on.  *)
(***************************************************************************)
StockLegs(x) == {j \in DOMAIN x.pos.legs : x.pos.legs[j].kind \in StockLike}

\* The overlay has its own copy of the account's market value of a leg.
StockLikeMV(l, U) == IF l.kind = "stock" THEN 100 * U * l.shares ELSE 100 * l.price * l.shares

OverSide(amount, x, side) ==
  SumFunctionOnSet(amount, {j \in StockLegs(x) : x.pos.legs[j].side = "short" <=> side = "short"})

LookupSecurity(symbol, venue) ==
  IF <<symbol, venue>> \in DOMAIN ref
  THEN [ref[<<symbol, venue>>] EXCEPT !.kind = IF @ = "" THEN "stock" ELSE @]
  ELSE [kind |-> "stock", last_price |-> 0, marginable |-> FALSE]

SideToken(long, short) ==
  CASE long > 0 /\ short = 0 -> "long" [] short > 0 /\ long = 0 -> "short" [] OTHER -> ""

Facts(x, e) ==
  LET first  == x.pos.legs[FirstOf(StockLegs(x))]
      symbol == first.und
      venue  == first.venue
      worth  == [j \in StockLegs(x) |-> StockLikeMV(x.pos.legs[j], x.pos.U)]
      shares == [j \in StockLegs(x) |-> x.pos.legs[j].shares]
      long   == OverSide(shares, x, "long")
      short  == OverSide(shares, x, "short")
  IN  [id |-> x.id, symbol |-> symbol, longShares |-> long, shortShares |-> short,
       longMV |-> OverSide(worth, x, "long"), shortMV |-> OverSide(worth, x, "short"),
       side |-> SideToken(long, short), baseline |-> e.res.req,
       sec |-> LookupSecurity(symbol, venue), missing |-> <<symbol, venue>> \notin DOMAIN ref]

PositionOf(e) == CHOOSE x \in Members(acct.positions) : x.id = e.id

\* Mutant of Entries: positions that failed are not left out.
EntriesOfAll ==
  LET es == snap.evaluations
      of == Selection(es, {i \in DOMAIN es : StockLegs(PositionOf(es[i])) # {}})
  IN  [n \in DOMAIN of |-> Facts(PositionOf(of[n]), of[n])]

Entries ==
  LET es == snap.evaluations
      of == Selection(es, {i \in DOMAIN es : /\ es[i].kind # "error"
                                             /\ StockLegs(PositionOf(es[i])) # {}})
  IN  [n \in DOMAIN of |-> Facts(PositionOf(of[n]), of[n])]

-----------------------------------------------------------------------------
(***************************************************************************)
(* The targets of a rule: the entries, or the groups of those it applies   *)
(* to.  A position without a symbol is in no group.                        *)
(***************************************************************************)
OfAccount(s) == /\ s.types = {} \/ acct.type \in s.types
                /\ s.phases = {} \/ acct.phase \in s.phases

AppliesMatches(s, f) ==
  /\ OfAccount(s)
  /\ s.kinds = {} \/ f.sec.kind \in s.kinds
  /\ s.sides = {} \/ f.side \in s.sides

PositionTarget(r, f) ==
  [name |-> f.id, applies |-> AppliesMatches(r.applies, f), members |-> {f.id},
   missing |-> IF f.missing THEN {f.id} ELSE {}, facts |-> f, baseline |-> f.baseline]

\* Mutant of Grouped: a bucket takes the positions of every symbol.
GroupedWithUnnamed(r, key) ==
  {i \in DOMAIN entries : AppliesMatches(r.applies, entries[i]) /\ entries[i].symbol \in {key, ""}}

Grouped(r, key) ==
  {i \in DOMAIN entries : AppliesMatches(r.applies, entries[i]) /\ entries[i].symbol = key}

GroupTarget(r, key) ==
  LET is == Grouped(r, key)
      over(f) == SumFunction([i \in is |-> entries[i][f]])
  IN  [name |-> key, applies |-> TRUE, members |-> {entries[i].id : i \in is},
       missing |-> {entries[i].id : i \in {j \in is : entries[j].missing}},
       facts |-> [key |-> key, longMV |-> over("longMV"), shortMV |-> over("shortMV"),
                  count |-> Cardinality(is)],
       baseline |-> over("baseline")]

Targets(r) ==
  IF r.scope = "position" THEN [i \in DOMAIN entries |-> PositionTarget(r, entries[i])]
  ELSE LET keys == Selection(SortedSymbols, {i \in DOMAIN SortedSymbols : Grouped(r, SortedSymbols[i]) # {}})
       IN  [i \in DOMAIN keys |-> GroupTarget(r, keys[i])]

-----------------------------------------------------------------------------
(***************************************************************************)
(* What a rule says of a target.                                           *)
(***************************************************************************)
Activation(r, t) == [scope |-> r.scope, account |-> snap, facts |-> t.facts]

Amount(r, t) == IF r.formula = "" THEN 0 ELSE Formula(r.formula, Activation(r, t))

WhenSays(r, t) == IF r.when = "" THEN "true" ELSE When(r.when, Activation(r, t))

Says(r, t) ==
  IF ~t.applies THEN "filtered"
  ELSE IF t.missing # {} /\ r.missing = "error" THEN "missing"
  ELSE IF WhenSays(r, t) = "error" THEN "when failed"
  ELSE IF WhenSays(r, t) = "false" THEN "unmatched"
  ELSE IF ~Finite(Amount(r, t)) THEN "formula failed"
  ELSE IF r.mode = "block" THEN "blocked" ELSE "charged"

Raise(baseline, amount) == IF amount > baseline THEN amount - baseline ELSE 0

\* Mutant of Delta: max and floor are measured against the requirement so far.
DeltaOverHouse(r, t) ==
  CASE r.mode = "block" -> 0
    [] r.mode = "add" -> Amount(r, t)
    [] OTHER -> Raise(out.house, Amount(r, t))

Delta(r, t) ==
  CASE r.mode = "block" -> 0
    [] r.mode = "add" -> Amount(r, t)
    [] OTHER -> Raise(t.baseline, Amount(r, t))

Component(r, t) ==
  [rule |-> r.id, target |-> t.name, mode |-> r.mode,
   baseline |-> IF r.mode = "add" THEN 0 ELSE t.baseline, amount |-> Amount(r, t),
   delta |-> Delta(r, t), applied |-> r.mode \in {"add", "block"} \/ Delta(r, t) > 0]

AuditEntry(r, t) ==
  LET said == Says(r, t)
      done == said \in {"blocked", "charged"}
  IN  [rule |-> r.id, target |-> t.name, matched |-> done \/ said = "formula failed",
       applied |-> done /\ Component(r, t).applied,
       amount |-> IF done THEN Amount(r, t) ELSE 0,
       delta |-> IF done THEN Component(r, t).delta ELSE 0]

Note(kind, rule, target) == [kind |-> kind, rule |-> rule, target |-> target]

-----------------------------------------------------------------------------
(***************************************************************************)
(* Evaluate: rule by rule, target by target.                               *)
(***************************************************************************)
NoHouse ==
  [baseline |-> 0, baselineCash |-> 0, house |-> 0, cash |-> 0, excess |-> 0,
   components |-> <<>>, violations |-> <<>>, warnings |-> <<>>, audit |-> <<>>, reported |-> {}]

BeginOverlay ==
  /\ stage = "aggregated"
  /\ out' = [NoHouse EXCEPT !.baseline = snap.total, !.baselineCash = snap.cashCall,
                            !.house = snap.total, !.cash = snap.cashCall,
                            !.excess = snap.equity - snap.total]
  /\ stage' = IF ob.rules = <<>> THEN "done" ELSE "house"
  /\ entries' = IF ob.rules = <<>> THEN <<>> ELSE Entries
  /\ at' = [rule |-> 1, target |-> 1]
  /\ UNCHANGED <<dispatchVars, acct, evals, snap, ob, ref>>

Rule == ob.rules[at.rule]

Listed(s, x, yes) == IF yes THEN Append(s, x) ELSE s

Moved(r, t) == IF Says(r, t) = "charged" THEN Delta(r, t) ELSE 0

Considered(r, t) ==
  LET said == Says(r, t) IN
  [out EXCEPT
     !.audit = Append(@, AuditEntry(r, t)),
     !.components = IF said \in {"blocked", "charged"} THEN Append(@, Component(r, t)) ELSE @,
     !.violations = Listed(@, Note(said, r.id, t.name), said \in {"missing", "blocked"}),
     !.warnings = Listed(@, Note(said, r.id, t.name), said \in {"when failed", "formula failed"}),
     !.reported = IF said = "missing" THEN @ \cup t.missing ELSE @,
     !.house = @ + Moved(r, t),
     !.cash = @ + Moved(r, t)]

Consider ==
  /\ stage = "house"
  /\ at.rule \in DOMAIN ob.rules
  /\ at.target \in DOMAIN Targets(Rule)
  /\ out' = Considered(Rule, Targets(Rule)[at.target])
  /\ at' = [at EXCEPT !.target = @ + 1]
  /\ UNCHANGED <<dispatchVars, accountVars, ob, ref, entries>>

NextRule ==
  /\ stage = "house"
  /\ at.rule \in DOMAIN ob.rules
  /\ at.target > Len(Targets(Rule))
  /\ at' = [rule |-> at.rule + 1, target |-> 1]
  /\ UNCHANGED <<dispatchVars, accountVars, ob, ref, entries, out>>

\* Mutant of Unreported: a position is warned of even when it has a violation.
UnreportedOrNot == Selection(entries, {i \in DOMAIN entries : entries[i].missing})

Unreported ==
  Selection(entries, {i \in DOMAIN entries : entries[i].missing /\ entries[i].id \notin out.reported})

EndOverlay ==
  /\ stage = "house"
  /\ at.rule > Len(ob.rules)
  /\ out' = [out EXCEPT
               !.warnings = @ \o [i \in DOMAIN Unreported |->
                                    Note("reference", "", Unreported[i].id)],
               !.excess = snap.equity - out.house]
  /\ stage' = "done"
  /\ UNCHANGED <<dispatchVars, acct, evals, snap, ob, ref, entries, at>>

-----------------------------------------------------------------------------
Init ==
  /\ DispatchInit
  /\ AccountInit
  /\ ob = NoOverlay
  /\ ref \in References
  /\ entries = <<>>
  /\ at = [rule |-> 0, target |-> 0]
  /\ out = NoHouse

\* The two rulebooks are loaded one after the other; neither load sees the other.
LoadBaseline ==
  /\ \E raw \in Rulebooks : LoadRulebook(raw)
  /\ UNCHANGED <<accountVars, overlayVars>>

LoadHouse == rb.state # "none" /\ \E files \in OverlayFiles : LoadOverlay(files)

\* EvaluateHouse refuses a rulebook that is nil before it aggregates.
EvaluateHouse ==
  /\ ob.state = "loaded"
  /\ AggregateWithRulebook \/ AggregateSupplied
  /\ UNCHANGED overlayVars

RefuseHouse ==
  /\ ob.state = "failed"
  /\ stage = "ready"
  /\ stage' = "failed"
  /\ UNCHANGED <<dispatchVars, acct, evals, snap, overlayVars>>

AggregateAccount ==
  /\ EvaluatePosition \/ TryPosition \/ ClassifyEvaluation \/ Aggregate
  /\ UNCHANGED overlayVars

Next ==
  \/ LoadBaseline \/ LoadHouse \/ RefuseHouse \/ EvaluateHouse \/ AggregateAccount
  \/ BeginOverlay \/ Consider \/ NextRule \/ EndOverlay

Spec == Init /\ [][Next]_vars

-----------------------------------------------------------------------------
(***************************************************************************)
(* Properties.                                                             *)
(***************************************************************************)
\* Types, and: a ratio divides by a dollar of equity at least, every charge is
\* finite, and every note, component and audit entry is of a rule in use.
TypeOK ==
  /\ stage \in {"ready", "evaluating", "aggregated", "house", "done", "failed"}
  /\ ob.state \in {"none", "loaded", "failed"}
  /\ {out.house, out.cash, out.excess} \subseteq Int
  /\ stage \in {"aggregated", "house", "done"} =>
       \A x \in {snap.stockLeverage, snap.grossLeverage, snap.equityRatio} :
         x \in {<<0, 1>>, <<1, 0>>} \/ (x[1] \in Int /\ x[2] >= Dollar)
  /\ {a.rule : a \in Members(out.audit) \cup Members(out.components)}
       \subseteq {r.id : r \in Members(ob.rules)}
  /\ out.reported \subseteq {x.id : x \in Members(acct.positions)}

Overlaid == stage = "done" /\ ob.rules # <<>>

\* What a rule adds for each of its targets, and what it adds taken alone.
Adds(r) ==
  LET ts == Targets(r)
      adds(t) == IF Says(r, t) # "charged" THEN 0
                 ELSE IF r.mode = "add" THEN Amount(r, t) ELSE Raise(t.baseline, Amount(r, t))
  IN  [k \in DOMAIN ts |-> adds(ts[k])]

Alone(r) == SumFunction(Adds(r))

\* The house requirement is the baseline and what every rule adds taken alone:
\* no rule sees what another has charged, so priorities decide nothing about
\* the amount.  The cash call moves with it, and the excess is what is left.
HouseAddsUp ==
  stage = "done" =>
    LET all == SumFunction([i \in DOMAIN ob.rules |-> Alone(ob.rules[i])]) IN
    /\ out.baseline = snap.total
    /\ out.house = out.baseline + all
    /\ out.cash = snap.cashCall + all
    /\ out.excess = snap.equity - out.house

\* The audit has one entry for every rule of every file and every target of it,
\* by priority, then file, then place in the file; and the components are its
\* entries that matched and whose formula was a number.
AuditComplete ==
  Overlaid =>
    LET rules == AllRules(ob.hash)
        row(r, k) == [rule |-> r.id, target |-> Targets(r)[k].name]
        rows == UNION {{row(r, k) : k \in DOMAIN Targets(r)} : r \in Members(rules)}
        seen == [i \in DOMAIN out.audit |->
                   [rule |-> out.audit[i].rule, target |-> out.audit[i].target]]
        of(i) == CHOOSE j \in DOMAIN rules : rules[j].id = seen[i].rule
    IN  /\ Members(seen) = rows
        /\ Len(seen) = Cardinality(rows)
        /\ \A i \in 2..Len(seen) :
             \/ rules[of(i - 1)].priority < rules[of(i)].priority
             \/ /\ rules[of(i - 1)].priority = rules[of(i)].priority
                /\ of(i - 1) <= of(i)
        /\ [i \in DOMAIN out.components |->
              <<out.components[i].rule, out.components[i].target, out.components[i].delta>>]
           = LET noted(a) == \E w \in Members(out.warnings) :
                               <<w.rule, w.target>> = <<a.rule, a.target>>
                 done == Selection(out.audit, {i \in DOMAIN out.audit :
                                                 out.audit[i].matched /\ ~noted(out.audit[i])})
             IN  [i \in DOMAIN done |-> <<done[i].rule, done[i].target, done[i].delta>>]

\* A position without reference data is always heard of: in a violation of a
\* rule that insists on it, or else in exactly one warning.
ReferenceReported ==
  Overlaid =>
    \A f \in Members(entries) :
      LET insists == \E v \in Members(out.violations) :
                       /\ v.kind = "missing"
                       /\ \E r \in Members(ob.rules) :
                            /\ r.id = v.rule
                            /\ \E t \in Members(Targets(r)) : t.name = v.target /\ f.id \in t.missing
          warned  == {i \in DOMAIN out.warnings :
                        out.warnings[i] = Note("reference", "", f.id)}
      IN  Cardinality(warned) = IF f.missing /\ ~insists THEN 1 ELSE 0

\* No component is of a position that failed, or of a group with one in it, nor
\* is one measured without reference data by a rule that insists on it.
NothingOnUnknown ==
  \A c \in Members(out.components) :
    \A r \in Members(ob.rules) :
      r.id = c.rule =>
        \A t \in Members(Targets(r)) :
          t.name = c.target =>
            /\ \A e \in Members(snap.errors) : e.id \notin t.members
            /\ r.missing = "error" => t.missing = {}

\* The groups of a rule are parts of the account: their baselines together are
\* not more than the account's requirement, nor are their market values more
\* than its exposure.
GroupsWithinAccount ==
  stage \in {"house", "done"} =>
    \A r \in Members(ob.rules) :
      r.scope = "group" =>
        LET ts == Targets(r) IN
        /\ SumFunction([k \in DOMAIN ts |-> ts[k].baseline]) <= snap.total
        /\ SumFunction([k \in DOMAIN ts |-> ts[k].facts.longMV + ts[k].facts.shortMV])
             <= snap.gross

\* Every match of a rule that blocks is a component and a violation.
BlocksReported ==
  Overlaid =>
    \A a \in Members(out.audit) :
      (a.matched /\ \E r \in Members(ob.rules) : r.id = a.rule /\ r.mode = "block") =>
        /\ Note("blocked", a.rule, a.target) \in Members(out.violations)
        /\ \E c \in Members(out.components) : c.rule = a.rule /\ c.target = a.target
=============================================================================
