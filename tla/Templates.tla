----------------------------- MODULE Templates -----------------------------
(***************************************************************************)
(* The optimizer's candidate generator (internal/optimizer/templates.go,   *)
(* consumption.go, state.go, and the slot matcher of internal/engine/      *)
(* match.go): which (rule, slot binding, consumption plan) triples a       *)
(* search state offers, and what a plan leaves of the state.               *)
(*                                                                         *)
(* A state says how much of every working leg is still open.  Amounts are  *)
(* integers counted in ticks: Unit ticks make one whole contract or one    *)
(* whole share, so Unit > 1 lets a leg be open for a fraction of a         *)
(* contract, as the code's float64 quantities may be.                      *)
(***************************************************************************)
EXTENDS Integers, Sequences, FiniteSets

CONSTANTS
  Legs,       \* the LegIDs of the working legs, numbered in their string order
  Leg,        \* LegID -> the engine.Leg behind it
  Targets,    \* Rulebook.OptimizerTargets(): rule ids in sorted order
  Slots,      \* rule id -> its declared slots, in declared order
  MaxSlots,   \* engine's maxSlots: cap on a rule's slots and on a state's legs
  Unit        \* ticks per whole contract and per whole share

ASSUME LegsAssumption == Legs \in SUBSET Nat /\ IsFiniteSet(Legs)
ASSUME LegAssumption == \A l \in Legs : Leg[l].mult \in Nat /\ Leg[l].price \in Nat
ASSUME UnitAssumption == Unit \in Nat \ {0}
ASSUME MaxSlotsAssumption == MaxSlots \in Nat
ASSUME TargetsAssumption == Targets \in Seq(STRING)

OptionOnlyRules ==
  {"vertical_spread", "short_strangle_or_straddle", "long_box_spread", "short_box_spread"}

SingleOptionRules ==
  {"covered_call", "protective_put", "long_call_short_stock", "short_put_short_stock"}

DualOptionRules == {"collar", "conversion", "reverse_conversion"}

EtfRule == "short_index_call_long_etf"

\* A recipe names the slots it consumes from, and the rulebook declares those
\* slots for the rule and no others.
ASSUME SlotsAssumption ==
  \A i \in DOMAIN Targets :
    /\ Len(Slots[Targets[i]]) \in Nat
    /\ DOMAIN Slots[Targets[i]] = 1..Len(Slots[Targets[i]])
    /\ Targets[i] \in SingleOptionRules \cup {EtfRule} => Len(Slots[Targets[i]]) = 2
    /\ Targets[i] \in DualOptionRules => Len(Slots[Targets[i]]) = 3

-----------------------------------------------------------------------------
(***************************************************************************)
(* Search states (state.go).  A leg with nothing open is one newState and  *)
(* applyConsumption drop.  Leg[l].by names the quantity the leg is open    *)
(* in: "qty" (OpenQty, contracts) or "shares" (OpenShares).                *)
(***************************************************************************)
State == [Legs -> Nat]

OpenLegs(s) == {l \in Legs : s[l] > 0}

OpenQty(s, l) == IF Leg[l].by = "qty" THEN s[l] ELSE 0

OpenShares(s, l) == IF Leg[l].by = "shares" THEN s[l] ELSE 0

\* The memo key: one entry for every leg that is still open.
Key(s) == {<<l, s[l]>> : l \in OpenLegs(s)}

-----------------------------------------------------------------------------
(***************************************************************************)
(* Slot matching (engine/match.go).  A slot predicate left empty in the    *)
(* rulebook is "any".  A binding is a sequence of distinct open legs, one  *)
(* per declared slot.                                                      *)
(***************************************************************************)
SlotMatches(slot, l) ==
  /\ slot.side  \in {"any", Leg[l].side}
  /\ slot.kind  \in {"any", Leg[l].kind}
  /\ slot.type  \in {"any", Leg[l].type}
  /\ slot.venue \in {"any", Leg[l].venue}

Matching(slot, s) == {l \in OpenLegs(s) : SlotMatches(slot, l)}

\* bindSlotsAll: every binding; none at all beyond the cap on slots and legs.
Bindings(rule, s) ==
  LET slots == Slots[rule] IN
  IF \/ Len(slots) \notin 1..MaxSlots
     \/ Cardinality(OpenLegs(s)) > MaxSlots
     \/ \E i \in DOMAIN slots : Matching(slots[i], s) = {}
  THEN {}
  ELSE {a \in [1..Len(slots) -> OpenLegs(s)] :
          /\ \A i \in DOMAIN a : SlotMatches(slots[i], a[i])
          /\ \A i, j \in DOMAIN a : a[i] = a[j] => i = j}

\* The depth-first search visits the slot with the fewest matching legs first
\* (declared order breaks ties) and tries lower leg indices first.
VisitedBefore(rule, s, i, j) ==
  LET n(k) == Cardinality(Matching(Slots[rule][k], s))
  IN  n(i) < n(j) \/ (n(i) = n(j) /\ i < j)

BindingBefore(rule, s, a, b) ==
  \E i \in DOMAIN a :
    /\ a[i] < b[i]
    /\ \A j \in DOMAIN a : VisitedBefore(rule, s, j, i) => a[j] = b[j]

\* Everything decompose's two loops go through in state s, and their order.
Offers(s) ==
  UNION {{<<i, a>> : a \in Bindings(Targets[i], s)} : i \in DOMAIN Targets}

ChoiceBefore(s, c, d) ==
  \/ c[1] < d[1]
  \/ c[1] = d[1] /\ BindingBefore(Targets[c[1]], s, c[2], d[2])

-----------------------------------------------------------------------------
(***************************************************************************)
(* Consumption recipes (consumption.go).  The code's (plan, ok) pair is a  *)
(* set with the plan as its one member, or the empty set when ok is false. *)
(* A plan gives the amount consumed at every slot of the binding a.        *)
(***************************************************************************)
IsOpenOption(s, l) == Leg[l].kind = "option" /\ Leg[l].mult > 0 /\ OpenQty(s, l) > 0

IsOpen(kind, s, l) == Leg[l].kind = kind /\ OpenShares(s, l) > 0

Lesser(x, y) == IF x <= y THEN x ELSE y

Greater(x, y) == IF x <= y THEN y ELSE x

\* Deliverable units every slot can give as a whole number of contracts.
CommonUnits(s, a) ==
  {u \in {k * (Leg[a[1]].mult * Unit) : k \in 0..s[a[1]]} :
     \A i \in DOMAIN a : /\ u <= OpenQty(s, a[i]) * Leg[a[i]].mult
                         /\ u % (Leg[a[i]].mult * Unit) = 0}

\* optionOnlyConsumption takes the most such units; the loop that finds them
\* is module SnapUnits.
OptionOnly(s, a) ==
  IF \A i \in DOMAIN a : IsOpenOption(s, a[i])
  THEN {[i \in DOMAIN a |-> u \div Leg[a[i]].mult] :
          u \in {u \in CommonUnits(s, a) :
                   /\ \A v \in CommonUnits(s, a) : v <= u
                   /\ \A i \in DOMAIN a : u \div Leg[a[i]].mult >= Unit}}
  ELSE {}

\* Whole contracts that so many shares can cover, in ticks.
Covered(shares, mult) == (shares \div (mult * Unit)) * Unit

SingleOptionStock(s, opt, stock) ==
  LET mult == Leg[opt].mult
      n    == Lesser(OpenQty(s, opt), Covered(OpenShares(s, stock), mult))
  IN  IF IsOpenOption(s, opt) /\ IsOpen("stock", s, stock) /\ n >= Unit
      THEN {<<n, n * mult>>}
      ELSE {}

DualOptionStock(s, optA, optB, stock) ==
  LET mult == Greater(Leg[optA].mult, Leg[optB].mult)
      n    == Lesser(Lesser(OpenQty(s, optA), OpenQty(s, optB)),
                     Covered(OpenShares(s, stock), mult))
  IN  IF /\ IsOpenOption(s, optA)
         /\ IsOpenOption(s, optB)
         /\ IsOpen("stock", s, stock)
         /\ n >= Unit
      THEN {<<n, n, n * mult>>}
      ELSE {}

\* Whole shares whose value reaches the notional of n ticks of contracts.
NotionalShares(n, mult, price, U) ==
  ((U * n * mult + price * Unit - 1) \div (price * Unit)) * Unit

\* Mutant of EtfNotional: without the step back when rounding up to whole
\* shares asks for more than are open.
EtfNotionalNoBackOff(s, sc, le, U) ==
  LET mult == Leg[sc].mult
      n    == Lesser(OpenQty(s, sc),
                     ((OpenShares(s, le) * Leg[le].price) \div (U * mult * Unit)) * Unit)
  IN  IF n >= Unit THEN {<<n, NotionalShares(n, mult, Leg[le].price, U)>>} ELSE {}

EtfNotional(s, sc, le, U) ==
  LET mult  == Leg[sc].mult
      price == Leg[le].price
      most  == Lesser(OpenQty(s, sc),
                      ((OpenShares(s, le) * price) \div (U * mult * Unit)) * Unit)
      n     == IF NotionalShares(most, mult, price, U) > OpenShares(s, le)
               THEN most - Unit ELSE most
  IN  IF most >= Unit /\ n >= Unit
      THEN {<<n, NotionalShares(n, mult, price, U)>>}
      ELSE {}

EtfPair(s, a) == IsOpenOption(s, a[1]) /\ IsOpen("etf", s, a[2])

\* The hard error of etfNotionalConsumption: a price or an underlying value
\* that the recipe would have to divide by is not positive.
PlanFails(rule, s, a, U) ==
  /\ rule = EtfRule
  /\ EtfPair(s, a)
  /\ ~(Leg[a[2]].price > 0 /\ U > 0)

\* consumptionFor: the dispatch by rule id.
Plans(rule, s, a, U) ==
  CASE rule \in OptionOnlyRules -> OptionOnly(s, a)
    [] rule \in SingleOptionRules -> SingleOptionStock(s, a[1], a[2])
    [] rule \in DualOptionRules -> DualOptionStock(s, a[1], a[2], a[3])
    [] rule = EtfRule ->
         IF EtfPair(s, a) /\ ~PlanFails(rule, s, a, U)
         THEN EtfNotional(s, a[1], a[2], U) ELSE {}
    [] OTHER -> {}

-----------------------------------------------------------------------------
(***************************************************************************)
(* applyConsumption.  A binding names a leg at most once, so the amount it *)
(* takes from a leg is the amount at that leg's slot.                      *)
(***************************************************************************)
Taken(a, p) ==
  [l \in Legs |-> IF \E i \in DOMAIN a : a[i] = l
                  THEN p[CHOOSE i \in DOMAIN a : a[i] = l] ELSE 0]

\* Mutant of Remainder: takes deliverable units from a leg open in contracts.
RemainderInUnits(s, a, p) == [l \in Legs |-> s[l] - Taken(a, p)[l] * Leg[l].mult]

Remainder(s, a, p) ==
  [l \in Legs |-> IF s[l] <= Taken(a, p)[l] THEN 0 ELSE s[l] - Taken(a, p)[l]]
=============================================================================
