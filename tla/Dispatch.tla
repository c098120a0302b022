------------------------------ MODULE Dispatch ------------------------------
(***************************************************************************)
(* The engine's rulebook (internal/engine/rulebook.go, match.go): loading  *)
(* it, and Evaluate, the scan for the rule a position is charged by.       *)
(*                                                                         *)
(* A number is an integer or NotFinite, which stands for NaN and the       *)
(* infinities.  A string is "" when blank; exp is the rank of a leg's      *)
(* expiration among the strings in use, 0 when blank.  An expression of    *)
(* the rulebook is known by its key in Rulebook.progs.  A rules file's     *)
(* mult is 0 where default_contract_multiplier is not set.                 *)
(***************************************************************************)
EXTENDS Integers, Sequences, FiniteSets

CONSTANTS
  MaxSlots,       \* engine's maxSlots
  NotFinite,      \* a float64 that is not a finite number
  Dates,          \* the expirations time.Parse accepts
  TypeOf(_),      \* key -> "bool", "number", "dyn", or the type it should not have
  Test(_, _, _),  \* (key, position, bound legs) -> "true", "false" or "error"
  Value(_, _, _)  \* (key, position, bound legs) -> a number; NotFinite for an error

ASSUME NotFiniteAssumption == NotFinite \notin Int

VARIABLES
  rb,       \* the Rulebook
  call,     \* the position Evaluate works on, and the rule it tries next
  outcome   \* what Evaluate has returned

dispatchVars == <<rb, call, outcome>>

-----------------------------------------------------------------------------
(***************************************************************************)
(* validateRawRulebook.                                                    *)
(***************************************************************************)
StringFields == {"und", "style", "venue", "settle", "tracks"}

NumberFields ==
  {"qty", "mult", "K", "price", "months", "shares", "proceeds", "sale", "keq"}

Members(s) == {s[i] : i \in DOMAIN s}

\* The n-th of a set of places, and the elements of s at those places in order.
Nth(is, n) == CHOOSE i \in is : Cardinality({j \in is : j < i}) = n - 1

Selection(s, is) == [n \in 1..Cardinality(is) |-> s[Nth(is, n)]]

SlotNames(r) == {r.slots[i].name : i \in DOMAIN r.slots}

Signature(slot) == <<slot.side, slot.kind, slot.type, slot.venue>>

ValidSlots(r) ==
  /\ "" \notin SlotNames(r)
  /\ \A i, j \in DOMAIN r.slots :
       i # j => /\ r.slots[i].name # r.slots[j].name
                /\ Signature(r.slots[i]) # Signature(r.slots[j])

\* The slots a requires block speaks of.
SlotsNamed(q) ==
  {x[1] : x \in q.required \cup q.positive}
  \cup Members(q.expirations)
  \cup UNION {Members(s.slots) : s \in Members(q.same)}
  \cup UNION {Members(g) : g \in Members(q.sizes)}
  \cup {m.slot : m \in Members(q.minimum)}

\* A rule with a legs_pattern declares no slots, so it may name none.
ValidRequires(r) ==
  LET q == r.requires IN
  /\ q.all # {} => r.pattern = "all_options"
  /\ SlotsNamed(q) \subseteq SlotNames(r)
  /\ {x[2] : x \in q.required} \subseteq StringFields \cup NumberFields
  /\ {x[2] : x \in q.positive} \subseteq NumberFields
  /\ \A s \in Members(q.same) : s.field \in StringFields /\ Len(s.slots) >= 2
  /\ \A g \in Members(q.sizes) : Len(g) >= 2
  /\ \A m \in Members(q.minimum) : m.field \in NumberFields /\ m.gte # ""
  /\ \A x \in q.all : /\ x.fields \subseteq StringFields \cup NumberFields
                      /\ x.same \in StringFields \cup {""}

HasAnyOutput(r) ==
  \E b \in {r.cash, r.margin} : b.formulas # {} \/ b.permitted # "" \/ b.deposit # ""

ValidRule(r) ==
  /\ r.pattern = "" \/ r.slots = <<>>
  /\ r.pattern \in {"", "all_options"}
  /\ r.pattern = "" => ValidSlots(r)
  /\ ValidRequires(r)
  /\ HasAnyOutput(r)

ValidRulebook(raw) ==
  /\ raw.schema # ""
  /\ \A i \in DOMAIN raw.rules : raw.rules[i].id # "" /\ ValidRule(raw.rules[i])
  /\ \A i, j \in DOMAIN raw.rules : raw.rules[i].id = raw.rules[j].id => i = j

-----------------------------------------------------------------------------
(***************************************************************************)
(* LoadRulebook: every expression is compiled and must have the type its   *)
(* place asks for.                                                         *)
(***************************************************************************)
ConstraintKey(r, c) == <<r.id, "constraint", c>>

MinimumKey(r, m) == <<r.id, "gte", m.slot, m.field, m.gte>>

FormulaKey(r, account, label) == <<r.id, account, label>>

Constraints(r) == {ConstraintKey(r, c) : c \in Members(r.constraints)}

\* Mutant of Formulas: the proceeds formulas are not compiled.
FormulasWithoutProceeds(r) ==
  {MinimumKey(r, m) : m \in Members(r.requires.minimum)}
  \cup {FormulaKey(r, "cash", l) : l \in r.cash.formulas \cap {"initial", "maintenance"}}
  \cup {FormulaKey(r, "margin", l) : l \in r.margin.formulas \cap {"initial", "maintenance"}}

Formulas(r) ==
  {MinimumKey(r, m) : m \in Members(r.requires.minimum)}
  \cup {FormulaKey(r, "cash", l) : l \in r.cash.formulas}
  \cup {FormulaKey(r, "margin", l) : l \in r.margin.formulas}

Compiles(r) ==
  /\ \A k \in Constraints(r) : TypeOf(k) = "bool"
  /\ \A k \in Formulas(r) : TypeOf(k) \in {"number", "dyn"}

NoRulebook == [state |-> "none", rules |-> <<>>, progs |-> {}, mult |-> 0]

LoadRulebook(raw) ==
  /\ rb.state = "none"
  /\ rb' = IF ValidRulebook(raw) /\ \A r \in Members(raw.rules) : Compiles(r)
           THEN [state |-> "loaded",
                 rules |-> raw.rules,
                 progs |-> UNION {Constraints(r) \cup Formulas(r) : r \in Members(raw.rules)},
                 mult  |-> IF raw.mult = 0 THEN 100 ELSE raw.mult]
           ELSE [NoRulebook EXCEPT !.state = "failed"]
  /\ UNCHANGED <<call, outcome>>

-----------------------------------------------------------------------------
(***************************************************************************)
(* preparePosition and validatePosition.                                   *)
(***************************************************************************)
Finite(v) == v \in Int

Positive(v) == Finite(v) /\ v > 0

NonNegative(v) == Finite(v) /\ v >= 0

Prepared(p) ==
  [p EXCEPT !.lev  = IF @ = 0 THEN 1 ELSE @,
            !.legs = [i \in DOMAIN @ |->
                        IF @[i].mult = 0 THEN [@[i] EXCEPT !.mult = rb.mult] ELSE @[i]]]

ValidOption(l) ==
  /\ l.type \in {"put", "call"}
  /\ Positive(l.qty) /\ Positive(l.K)
  /\ NonNegative(l.P) /\ NonNegative(l.P0)

ValidStockLike(l) ==
  /\ Positive(l.shares)
  /\ l.kind \in {"convertible", "warrant"} => Positive(l.price)
  /\ l.kind = "warrant" => Positive(l.keq)

StockLike == {"stock", "etf", "etn", "convertible", "warrant"}

ValidLeg(l) ==
  /\ l.side \in {"long", "short"}
  /\ l.kind \in {"option"} \cup StockLike
  /\ Positive(l.mult)
  /\ IF l.kind = "option" THEN ValidOption(l) ELSE ValidStockLike(l)

ValidPosition(p) ==
  /\ Positive(p.U)
  /\ p.class # ""
  /\ Positive(p.lev)
  /\ \A i \in DOMAIN p.legs : ValidLeg(p.legs[i])

-----------------------------------------------------------------------------
(***************************************************************************)
(* tryMatch.  A binding maps slot names to legs; the set that stands for   *)
(* the code's (binding, ok) has it as its one member, or none.  Slots bind *)
(* in the order of Templates, and only the first binding is looked at.     *)
(***************************************************************************)
Matcher(r, legs) ==
  INSTANCE Templates WITH Legs <- DOMAIN legs, Leg <- legs, Targets <- <<r.id>>,
                          Slots <- [id \in {r.id} |-> r.slots], Unit <- 1

\* Mutant of FirstBinding: the slots take the legs in the order they are listed.
BindingAsListed(r, legs) ==
  LET name(n) == CHOOSE i \in DOMAIN r.slots : r.slots[i].name = n
      fits(i) == Matcher(r, legs)!SlotMatches(r.slots[i], i)
  IN  IF \A i \in DOMAIN r.slots : fits(i) THEN {[n \in SlotNames(r) |-> legs[name(n)]]} ELSE {}

FirstBinding(r, legs) ==
  LET open == [l \in DOMAIN legs |-> 1]
      all  == Matcher(r, legs)!Bindings(r.id, open)
      name(n) == CHOOSE i \in DOMAIN r.slots : r.slots[i].name = n
  IN  {[n \in SlotNames(r) |-> legs[a[name(n)]]] : a \in
         {a \in all : \A b \in all : b = a \/ Matcher(r, legs)!BindingBefore(r.id, open, a, b)}}

AllOptions(r, legs) ==
  /\ legs # <<>>
  /\ \A i \in DOMAIN legs : legs[i].kind = "option"
  /\ Len(legs) >= r.min
  /\ r.max > 0 => Len(legs) <= r.max

\* Mutant of TryMatch: legs the rule has no slot for are left out.
TryMatchSome(r, legs) ==
  IF r.pattern = "all_options"
  THEN IF AllOptions(r, legs) THEN {legs} ELSE {}
  ELSE FirstBinding(r, legs)

TryMatch(r, legs) ==
  IF r.pattern = "all_options"
  THEN IF AllOptions(r, legs) THEN {legs} ELSE {}
  ELSE IF Len(legs) = Len(r.slots) THEN FirstBinding(r, legs) ELSE {}

FirstOf(is) == CHOOSE i \in is : \A j \in is : i <= j

\* tryMatchAndConstraints: the first constraint that does not hold decides.
ConstraintsSay(r, p, b) ==
  LET says(i) == Test(ConstraintKey(r, r.constraints[i]), p, b)
      broken  == {i \in DOMAIN r.constraints : says(i) # "true"}
  IN  IF broken = {} THEN "true" ELSE says(FirstOf(broken))

-----------------------------------------------------------------------------
(***************************************************************************)
(* validateRequirements.  Its checks come in the order of the conjuncts    *)
(* below; all of their failures are the same RequiresError but for an      *)
(* expression of min_fields that cannot be evaluated.                      *)
(***************************************************************************)
FieldIsPresent(l, f) ==
  IF f \in StringFields THEN l[f] # "" ELSE Finite(l[f]) /\ l[f] # 0

SameAcross(b, slots, f) ==
  \A s, t \in slots : b[s][f] # "" /\ b[s][f] = b[t][f]

ContractSize(l) == IF Finite(l.qty) /\ Finite(l.mult) THEN l.qty * l.mult ELSE NotFinite

FieldsAsRequired(q, b) ==
  /\ \A x \in q.required : FieldIsPresent(b[x[1]], x[2])
  /\ \A x \in q.positive : Positive(b[x[1]][x[2]])
  /\ \A s, t \in Members(q.expirations) : b[s].exp \in Dates /\ b[s].exp = b[t].exp
  /\ \A x \in Members(q.same) : SameAcross(b, Members(x.slots), x.field)
  /\ \A g \in Members(q.sizes) : \A s, t \in Members(g) :
       Positive(ContractSize(b[s])) /\ ContractSize(b[s]) = ContractSize(b[t])

AtLeast(got, need) ==
  IF ~Finite(need) THEN "error" ELSE IF Finite(got) /\ got >= need THEN "ok" ELSE "requires"

MinimumSays(r, m, p, b) == AtLeast(b[m.slot][m.field], Value(MinimumKey(r, m), p, b))

AllSlotsAsRequired(q, b) ==
  \A x \in q.all : /\ \A s \in DOMAIN b, f \in x.fields : FieldIsPresent(b[s], f)
                   /\ x.same # "" => SameAcross(b, DOMAIN b, x.same)

RequiresSay(r, p, b) ==
  LET q == r.requires
      short == {i \in DOMAIN q.minimum : MinimumSays(r, q.minimum[i], p, b) # "ok"}
  IN  IF ~FieldsAsRequired(q, b) THEN "requires"
      ELSE IF short # {} THEN MinimumSays(r, q.minimum[FirstOf(short)], p, b)
      ELSE IF AllSlotsAsRequired(q, b) THEN "ok" ELSE "requires"

-----------------------------------------------------------------------------
(***************************************************************************)
(* evalFormulas and evaluateOne.                                           *)
(***************************************************************************)
NoResult ==
  [rule |-> "", req |-> 0, proceeds |-> 0, cashCall |-> 0, permitted |-> FALSE, deposit |-> ""]

Outcome(kind) == [kind |-> kind, res |-> NoResult]

Block(r, account) == IF account = "cash" THEN r.cash ELSE r.margin

ProceedsLabel(phase) == IF phase = "initial" THEN "initial_proceeds" ELSE "maintenance_proceeds"

Charge(r, deposit, req, proceeds, permitted) ==
  [kind |-> "result",
   res  |-> [rule |-> r.id, req |-> req, proceeds |-> proceeds, cashCall |-> req - proceeds,
             permitted |-> permitted, deposit |-> IF permitted THEN deposit ELSE ""]]

ChargeIfFinite(r, deposit, req, proceeds) ==
  IF Finite(req) /\ Finite(proceeds) THEN Charge(r, deposit, req, proceeds, TRUE)
  ELSE Outcome("error")

EvalFormulas(r, p, b, account, phase) ==
  LET block == Block(r, account)
      label == ProceedsLabel(phase)
  IN  IF account \notin {"cash", "margin"} \/ phase \notin {"initial", "maintenance"}
      THEN Outcome("error")
      ELSE IF block.permitted = "no" THEN Charge(r, "", 0, 0, FALSE)
      ELSE IF phase \in block.formulas
      THEN ChargeIfFinite(r, block.deposit, Value(FormulaKey(r, account, phase), p, b),
             IF label \in block.formulas THEN Value(FormulaKey(r, account, label), p, b) ELSE 0)
      ELSE IF block.deposit # "" THEN Charge(r, block.deposit, 0, 0, TRUE)
      ELSE Outcome("error")

\* "no": the rule does not apply.
Judged(said, asked, charged) ==
  CASE said = "false" -> Outcome("no")
    [] said = "error" -> Outcome("error")
    [] said = "true" /\ asked # "ok" -> Outcome(asked)
    [] OTHER -> charged

EvaluateOne(r, p, account, phase) ==
  LET bound == TryMatch(r, p.legs)
      judged(b) == Judged(ConstraintsSay(r, p, b), RequiresSay(r, p, b),
                          EvalFormulas(r, p, b, account, phase))
  IN  IF bound = {} THEN Outcome("no") ELSE judged(CHOOSE b \in bound : TRUE)

\* The keys evaluateOne may look up in progs.
Lookups(r, account, phase) ==
  Constraints(r) \cup {MinimumKey(r, m) : m \in Members(r.requires.minimum)}
  \cup {FormulaKey(r, account, l) :
          l \in IF account \in {"cash", "margin"} /\ phase \in {"initial", "maintenance"}
                THEN {phase, ProceedsLabel(phase)} \cap Block(r, account).formulas ELSE {}}

\* Mutant of EvaluateRule: it fails as Evaluate does.
EvaluateRuleOrFail(r, p, account, phase) ==
  LET o == EvaluateOne(r, p, account, phase)
  IN  IF o.kind = "requires" THEN Outcome("error") ELSE o

\* EvaluateRule: one rule alone; requires that fail make it not applicable.
EvaluateRule(r, p, account, phase) ==
  LET o == EvaluateOne(r, p, account, phase)
  IN  IF o.kind = "requires" THEN Outcome("no") ELSE o

\* Mutant of EvaluateAll: a rule that fails is passed over.
EvaluateAllThatCan(p, account, phase) ==
  LET said == [i \in DOMAIN rb.rules |-> EvaluateOne(rb.rules[i], p, account, phase)]
  IN  [fails   |-> \E i \in DOMAIN said : said[i].kind = "error",
       results |-> Selection(said, {i \in DOMAIN said : said[i].kind = "result"})]

\* EvaluateAll: the results of all rules, or an error if any rule returns one.
EvaluateAll(p, account, phase) ==
  LET said == [i \in DOMAIN rb.rules |-> EvaluateOne(rb.rules[i], p, account, phase)]
  IN  [fails   |-> \E i \in DOMAIN said : said[i].kind \in {"requires", "error"},
       results |-> Selection(said, {i \in DOMAIN said : said[i].kind = "result"})]

-----------------------------------------------------------------------------
(***************************************************************************)
(* Evaluate: one step for each rule tried, up to the first that does not   *)
(* decline.                                                                *)
(***************************************************************************)
Idle == Outcome("idle")

Scanning == Outcome("scanning")

NoCall == [pos |-> [U |-> 0, class |-> "", lev |-> 0, legs |-> <<>>], account |-> "",
           phase |-> "", rule |-> 0]

DispatchInit == rb = NoRulebook /\ call = NoCall /\ outcome = Idle

Evaluate(p, account, phase) ==
  /\ outcome = Idle
  /\ call' = [pos |-> Prepared(p), account |-> account, phase |-> phase, rule |-> 1]
  /\ outcome' = IF ValidPosition(Prepared(p)) THEN Scanning ELSE Outcome("invalid")
  /\ UNCHANGED rb

Asked == EvaluateOne(rb.rules[call.rule], call.pos, call.account, call.phase)

RuleDeclines ==
  /\ outcome = Scanning
  /\ call.rule \in DOMAIN rb.rules
  /\ Asked.kind = "no"
  /\ call' = [call EXCEPT !.rule = @ + 1]
  /\ UNCHANGED <<rb, outcome>>

RuleDecides ==
  /\ outcome = Scanning
  /\ call.rule \in DOMAIN rb.rules
  /\ Asked.kind # "no"
  /\ outcome' = Asked
  /\ UNCHANGED <<rb, call>>

NoRuleMatched ==
  /\ outcome = Scanning
  /\ call.rule > Len(rb.rules)
  /\ outcome' = Outcome("norule")
  /\ UNCHANGED <<rb, call>>

TryRules == RuleDeclines \/ RuleDecides \/ NoRuleMatched

Returned == outcome \notin {Idle, Scanning}

-----------------------------------------------------------------------------
(***************************************************************************)
(* What Evaluate ought to say of a valid position: the first rule that     *)
(* does not decline, whatever way the loop gets there.                     *)
(***************************************************************************)
Decided(p, account, phase) ==
  {i \in DOMAIN rb.rules : EvaluateOne(rb.rules[i], p, account, phase).kind # "no"}

FirstToDecide(p, account, phase) ==
  LET is == Decided(p, account, phase)
  IN  IF is = {} THEN Outcome("norule")
      ELSE EvaluateOne(rb.rules[FirstOf(is)], p, account, phase)
=============================================================================
