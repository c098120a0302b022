----------------------------- MODULE RuleTable -----------------------------
(***************************************************************************)
(* Rules of the Cboe baseline (rules/cboe_baseline.yaml) in the form       *)
(* module Dispatch loads them, in the order of the file, and what their    *)
(* expressions evaluate to (internal/engine/env.go).  Prices are whole     *)
(* dollars and requirements cents; the leverage factor of a position is    *)
(* one.  Initial margin and cash formulas are those of module Baseline.    *)
(***************************************************************************)
EXTENDS Integers, Sequences, FiniteSetsExt

CONSTANT NotFinite

B(legs) == INSTANCE Baseline WITH Leg <- legs

Slot(name, side, kind, type) ==
  [name |-> name, side |-> side, kind |-> kind, type |-> type, venue |-> "any"]

Block(permitted, formulas, deposit) ==
  [permitted |-> permitted, formulas |-> formulas, deposit |-> deposit]

Phases == {"initial", "maintenance"}

AllFormulas == Phases \cup {"initial_proceeds", "maintenance_proceeds"}

NoRequires ==
  [required |-> {}, positive |-> {}, expirations |-> <<>>, same |-> <<>>, sizes |-> <<>>,
   minimum |-> <<>>, all |-> {}]

\* A rule with formulas for every cell and nothing to require.
Plain(id, slots) ==
  [id |-> id, pattern |-> "", slots |-> slots, min |-> 0, max |-> 0, constraints |-> <<>>,
   requires |-> NoRequires, cash |-> Block("", AllFormulas, ""),
   margin |-> Block("", AllFormulas, "")]

Together(slots, fields) == [i \in DOMAIN fields |-> [field |-> fields[i], slots |-> slots]]

Each(slots, fields) == {<<s, f>> : s \in slots, f \in fields}

LongOptionShortDated ==
  [Plain("long_option_short_dated", <<Slot("opt", "long", "option", "any")>>) EXCEPT
     !.constraints = <<"months <= 9">>,
     !.requires.positive = {<<"opt", "months">>},
     !.cash.formulas = Phases, !.margin.formulas = Phases]

Uncovered(id, type) ==
  [Plain(id, <<Slot("opt", "short", "option", type)>>) EXCEPT
     !.requires.positive = Each({"opt"}, {"K", "qty", "mult"}),
     !.cash.deposit = IF type = "call" THEN "underlying_or_escrow" ELSE "cash_or_escrow"]

ShortStrangleOrStraddle ==
  [Plain("short_strangle_or_straddle", <<Slot("sp", "short", "option", "put"),
                                         Slot("sc", "short", "option", "call")>>) EXCEPT
     !.constraints = <<"same underlying", "same mult">>,
     !.requires.required = Each({"sp", "sc"}, {"und"}),
     !.requires.same = Together(<<"sp", "sc">>, <<"und">>),
     !.cash = Block("no", {}, "")]

VerticalSpread ==
  [Plain("vertical_spread", <<Slot("long_leg", "long", "option", "any"),
                              Slot("short_leg", "short", "option", "any")>>) EXCEPT
     !.constraints = <<"same type", "same underlying", "same style", "same venue",
                       "short expires first", "same size">>,
     !.requires.required = Each({"long_leg", "short_leg"}, {"und", "style", "venue"}),
     !.requires.same = Together(<<"long_leg", "short_leg">>, <<"und", "style", "venue">>),
     !.requires.expirations = <<"long_leg", "short_leg">>]

BoxSlots == <<"bc", "bp", "sp", "sc">>

\* strikes: "bc lower" or "bc higher".
Box(id, strikes) ==
  [Plain(id, <<Slot("bc", "long", "option", "call"), Slot("bp", "short", "option", "put"),
               Slot("sp", "long", "option", "put"), Slot("sc", "short", "option", "call")>>) EXCEPT
     !.constraints = <<"paired strikes", strikes, "same expirations">>,
     !.requires.required = Each(Range(BoxSlots), {"und", "style"}),
     !.requires.same = Together(BoxSlots, <<"und", "style">>),
     !.requires.sizes = <<BoxSlots>>,
     !.requires.expirations = BoxSlots]

LongBoxSpread == [Box("long_box_spread", "bc lower") EXCEPT !.cash = Block("", {}, "")]

ShortBoxSpread == Box("short_box_spread", "bc higher")

ShortPutShortStock ==
  [Plain("short_put_short_stock", <<Slot("sp", "short", "option", "put"),
                                    Slot("ss", "short", "stock", "any")>>) EXCEPT
     !.requires.positive = {<<"ss", "proceeds">>},
     !.cash = Block("no", {}, "")]

CoveredCall ==
  [Plain("covered_call", <<Slot("sc", "short", "option", "call"),
                           Slot("ls", "long", "stock", "any")>>) EXCEPT
     !.requires.required = Each({"sc", "ls"}, {"und"}),
     !.requires.same = Together(<<"sc", "ls">>, <<"und">>),
     !.requires.minimum = <<[slot |-> "ls", field |-> "shares", gte |-> "qty * mult"]>>,
     !.cash.formulas = Phases]

GenericLimitedRiskCombo ==
  [Plain("generic_limited_risk_combo", <<>>) EXCEPT
     !.pattern = "all_options", !.min = 3, !.max = 8,
     !.constraints = <<"is_limited_risk(legs)">>,
     !.requires.all = {[fields |-> {"und"}, same |-> "und"]}]

BaselineRules ==
  <<LongOptionShortDated, Uncovered("short_call_uncovered", "call"),
    Uncovered("short_put_uncovered", "put"), ShortStrangleOrStraddle, VerticalSpread,
    LongBoxSpread, ShortBoxSpread, ShortPutShortStock, CoveredCall, GenericLimitedRiskCombo>>

-----------------------------------------------------------------------------
(***************************************************************************)
(* Payoffs (env.go).  b maps slots, or the numbers of the legs of a combo, *)
(* to legs.                                                                *)
(***************************************************************************)
Signed(l) == (IF l.side = "short" THEN -1 ELSE 1) * l.qty * l.mult

\* Mutant of IsLimitedRisk: counts contracts, whatever their size.
IsLimitedRiskByQty(b) ==
  LET calls == {s \in DOMAIN b : b[s].type = "call"}
  IN  MapThenSumSet(LAMBDA s : (IF b[s].side = "short" THEN -1 ELSE 1) * b[s].qty, calls) >= 0

IsLimitedRisk(b) ==
  /\ \A s \in DOMAIN b : b[s].kind = "option"
  /\ SumFunctionOnSet([s \in DOMAIN b |-> Signed(b[s])], {s \in DOMAIN b : b[s].type = "call"}) >= 0

SumPremiums(b, side, field) ==
  LET legs == {s \in DOMAIN b : b[s].kind = "option" /\ b[s].side = side}
  IN  SumFunctionOnSet([s \in legs |-> 100 * b[s][field] * b[s].qty * b[s].mult], legs)

\* The maintenance formulas of the option rules read P for P0.
AtMarket(b) == [s \in DOMAIN b |-> [b[s] EXCEPT !.P0 = b[s].P]]

Qty(b, slots) ==
  [i \in DOMAIN slots |-> IF b[slots[i]].kind = "option" THEN b[slots[i]].qty
                          ELSE b[slots[i]].shares]

-----------------------------------------------------------------------------
SlotOrder(id, b) ==
  CASE id = "vertical_spread" -> <<"long_leg", "short_leg">>
    [] id = "short_strangle_or_straddle" -> <<"sp", "sc">>
    [] id \in {"long_box_spread", "short_box_spread"} -> BoxSlots
    [] id = "short_put_short_stock" -> <<"sp", "ss">>
    [] id = "covered_call" -> <<"sc", "ls">>
    [] id = "generic_limited_risk_combo" -> [i \in DOMAIN b |-> i]
    [] OTHER -> <<"opt">>

\* A comparison with a number that is not finite is false.
BaselineTest(key, p, b) ==
  LET same(f) == \A s, t \in DOMAIN b : b[s][f] = b[t][f]
      says(x) == IF x THEN "true" ELSE "false"
  IN  CASE key[3] = "months <= 9" -> says(b["opt"].months \in Int /\ b["opt"].months <= 9)
        [] key[3] = "same type" -> says(same("type"))
        [] key[3] = "same underlying" -> says(same("und"))
        [] key[3] = "same style" -> says(same("style"))
        [] key[3] = "same venue" -> says(same("venue"))
        [] key[3] = "short expires first" -> says(b["short_leg"].exp <= b["long_leg"].exp)
        [] key[3] = "same size" -> says(b["long_leg"].qty * b["long_leg"].mult =
                                        b["short_leg"].qty * b["short_leg"].mult)
        [] key[3] = "same mult" -> says(same("mult"))
        [] key[3] = "same expirations" -> says(same("exp"))
        [] key[3] = "paired strikes" -> says(b["bc"].K = b["bp"].K /\ b["sp"].K = b["sc"].K)
        [] key[3] = "bc lower" -> says(b["bc"].K < b["sp"].K)
        [] key[3] = "bc higher" -> says(b["bc"].K > b["sp"].K)
        [] OTHER -> says(IsLimitedRisk(b))

LongStockUpkeep(p, b) == 25 * B(b)!Smaller(p.U, b["sc"].K) * b["ls"].shares

ShortStockUpkeep(p, b) ==
  LET n == b["ss"].shares IN
  100 * p.U * n + 100 * B(b)!Larger(0, b["sp"].K - p.U) * n
  + (IF p.U < 5 THEN B(b)!Larger(250 * n, 100 * p.U * n)
                ELSE B(b)!Larger(500 * n, 30 * p.U * n))

ShortStockMargin(p, b) ==
  100 * b["ss"].proceeds + (50 * p.U + 100 * B(b)!Larger(0, b["sp"].K - p.U)) * b["ss"].shares

Margin(id, phase, p, b) ==
  LET slots == SlotOrder(id, b)
      f     == [U |-> p.U, class |-> p.class]
      legs  == IF phase = "initial" THEN b ELSE AtMarket(b)
  IN  CASE id = "generic_limited_risk_combo" ->
             B(b)!MaxPotentialLoss(slots, Qty(b, slots))
               + SumPremiums(legs, "long", "P0")
        [] id = "long_option_short_dated" /\ phase = "maintenance" -> 0
        [] id = "covered_call" /\ phase = "maintenance" -> LongStockUpkeep(p, b)
        [] id = "short_put_short_stock" ->
             IF phase = "initial" THEN ShortStockMargin(p, b) ELSE ShortStockUpkeep(p, b)
        [] B(b)!Rated(id) /\ ~B(b)!Known(f) -> NotFinite
        [] OTHER -> B(legs)!MarginInitial(id, slots, Qty(b, slots), f)

Cash(id, phase, p, b) ==
  LET slots == SlotOrder(id, b)
      legs  == IF phase = "initial" THEN b ELSE AtMarket(b)
  IN  CASE id = "generic_limited_risk_combo" -> Margin(id, phase, p, b)
        [] id \in {"long_option_short_dated", "covered_call"} /\ phase = "maintenance" -> 0
        [] OTHER -> B(legs)!CashInitial(id, slots, Qty(b, slots), [U |-> p.U])

\* A key names a minimum, or a formula of a cell; proceeds are the premiums of
\* the short options, but a European box has none.
BaselineValue(key, p, b) ==
  IF key[2] = "gte" THEN b["sc"].qty * b["sc"].mult
  ELSE IF key[3] \in {"initial_proceeds", "maintenance_proceeds"}
  THEN IF key[1] = "long_box_spread" /\ b["bc"].style = "european" THEN 0
       ELSE SumPremiums(b, "short", IF key[3] = "initial_proceeds" THEN "P0" ELSE "P")
  ELSE IF key[2] = "cash" THEN Cash(key[1], key[3], p, b)
  ELSE Margin(key[1], key[3], p, b)

\* The types the compiler reports; "misplaced" is a constraint that is not a test.
BaselineType(key) ==
  IF key[2] # "constraint" THEN "number"
  ELSE IF key[3] = "misplaced" THEN "number" ELSE "bool"
=============================================================================
