------------------------------ MODULE Baseline ------------------------------
(***************************************************************************)
(* The Cboe baseline rulebook (rules/cboe_baseline.yaml) as the optimizer  *)
(* sees it through engine.EvaluateRule: the slots, constraints, requires   *)
(* and initial-phase formulas of the multi-leg strategy rules it may use   *)
(* as templates and of the naked rules it completes with.  Quantities are  *)
(* whole contracts and whole shares, prices whole dollars, requirements    *)
(* cents, so that every percentage of the rulebook is an integer.  The     *)
(* leverage factor is one, ETFs are not leveraged, and every leg names its *)
(* underlying and its expiration.                                          *)
(***************************************************************************)
EXTENDS Integers, Sequences, FiniteSetsExt

CONSTANT Leg    \* LegID -> engine.Leg

Slot(side, kind, type) == [side |-> side, kind |-> kind, type |-> type, venue |-> "any"]

LongCall  == Slot("long", "option", "call")
LongPut   == Slot("long", "option", "put")
ShortCall == Slot("short", "option", "call")
ShortPut  == Slot("short", "option", "put")
Stock(side) == Slot(side, "stock", "any")

BaselineSlots ==
  [collar                     |-> <<LongPut, ShortCall, Stock("long")>>,
   conversion                 |-> <<LongPut, ShortCall, Stock("long")>>,
   covered_call               |-> <<ShortCall, Stock("long")>>,
   long_box_spread            |-> <<LongCall, ShortPut, LongPut, ShortCall>>,
   long_call_short_stock      |-> <<LongCall, Stock("short")>>,
   protective_put             |-> <<LongPut, Stock("long")>>,
   reverse_conversion         |-> <<LongCall, ShortPut, Stock("short")>>,
   short_box_spread           |-> <<LongCall, ShortPut, LongPut, ShortCall>>,
   short_index_call_long_etf  |-> <<ShortCall, Slot("long", "etf", "any")>>,
   short_put_short_stock      |-> <<ShortPut, Stock("short")>>,
   short_strangle_or_straddle |-> <<ShortPut, ShortCall>>,
   vertical_spread            |-> <<Slot("long", "option", "any"), Slot("short", "option", "any")>>]

\* OptimizerTargets: multi-slot rules not excluded with optimizer_target.
BaselineTargets ==
  <<"collar", "conversion", "covered_call", "long_box_spread", "long_call_short_stock",
    "protective_put", "reverse_conversion", "short_box_spread",
    "short_index_call_long_etf", "short_put_short_stock",
    "short_strangle_or_straddle", "vertical_spread">>

BaselineNaked ==
  <<"long_option_short_dated", "long_option_long_dated_listed",
    "long_option_long_dated_otc", "short_call_uncovered", "short_put_uncovered">>

BaselineOrder ==
  <<"collar", "conversion", "covered_call", "long_box_spread", "long_call_short_stock",
    "long_option_long_dated_listed", "long_option_long_dated_otc",
    "long_option_short_dated", "protective_put", "reverse_conversion",
    "short_box_spread", "short_call_uncovered", "short_index_call_long_etf",
    "short_put_short_stock", "short_put_uncovered", "short_strangle_or_straddle",
    "vertical_spread">>

-----------------------------------------------------------------------------
Larger(x, y) == IF x >= y THEN x ELSE y
Smaller(x, y) == IF x <= y THEN x ELSE y

NarrowClasses == {"equity", "etf_narrow", "etn_narrow", "etn_broad", "narrow_based_index",
                  "vol_index_narrow", "vol_index_broad"}

BroadClasses == {"etf_broad", "broad_based_index"}

\* The rates table, in percent.
Rates == [c \in NarrowClasses \cup BroadClasses |->
            [base |-> IF c \in BroadClasses THEN 15 ELSE 20, min |-> 10]]

\* The classes whose long-dated listed options have loan value.
LoanValueClasses == DOMAIN Rates \ {"etn_narrow", "etn_broad"}

Known(f) == f.class \in DOMAIN Rates

Premium(l, n) == 100 * Leg[l].P0 * n * Leg[l].mult

Intrinsic(l, f) ==
  IF Leg[l].type = "call" THEN Larger(0, f.U - Leg[l].K) ELSE Larger(0, Leg[l].K - f.U)

\* short_call_req / short_put_req: an uncovered short option.
ShortReq(l, n, f) ==
  LET K     == Leg[l].K
      rate  == Rates[f.class]
      out   == IF Leg[l].type = "call" THEN Larger(0, K - f.U) ELSE Larger(0, f.U - K)
      floor == IF Leg[l].type = "call" THEN f.U ELSE K
  IN  n * Leg[l].mult *
        (100 * Leg[l].P0 + Larger(rate.base * f.U - 100 * out, rate.min * floor))

\* mpl: the loss of an option position at its worst sample price.
PayoffAt(a, p, price) ==
  LET at(i) == LET l == Leg[a[i]]
               IN  (IF l.side = "short" THEN -1 ELSE 1) * p[i] * l.mult *
                   (IF l.type = "call" THEN Larger(0, price - l.K) ELSE Larger(0, l.K - price))
      upTo[i \in 0..Len(a)] == IF i = 0 THEN 0 ELSE upTo[i - 1] + at(i)
  IN  upTo[Len(a)]

MaxPotentialLoss(a, p) ==
  100 * Max({0} \cup {-PayoffAt(a, p, x) : x \in {0} \cup {Leg[a[i]].K : i \in DOMAIN a}})

-----------------------------------------------------------------------------
Same(field, a, is) == \A i, j \in is : Leg[a[i]][field] = Leg[a[j]][field]

All(field, value, a, is) == \A i \in is : Leg[a[i]][field] = value

\* Constraints and requires of a template rule on a slice of legs a, amounts p.
Holds(rule, a, p, f) ==
  CASE rule = "vertical_spread" ->
         /\ Same("type", a, {1, 2}) /\ Same("und", a, {1, 2}) /\ Same("style", a, {1, 2})
         /\ Same("venue", a, {1, 2}) /\ Same("exp", a, {1, 2})
         /\ p[1] * Leg[a[1]].mult = p[2] * Leg[a[2]].mult
    [] rule = "short_strangle_or_straddle" -> Same("und", a, {1, 2}) /\ Same("mult", a, {1, 2})
    [] rule \in {"long_box_spread", "short_box_spread"} ->
         /\ Leg[a[1]].K = Leg[a[2]].K /\ Leg[a[3]].K = Leg[a[4]].K
         /\ IF rule = "long_box_spread" THEN Leg[a[1]].K < Leg[a[3]].K
                                        ELSE Leg[a[1]].K > Leg[a[3]].K
         /\ Same("exp", a, 1..4) /\ Same("und", a, 1..4) /\ Same("style", a, 1..4)
         /\ \A i \in 1..4 : p[i] * Leg[a[i]].mult = p[1] * Leg[a[1]].mult
    [] rule = "covered_call" -> Same("und", a, {1, 2}) /\ p[2] >= p[1] * Leg[a[1]].mult
    [] rule = "protective_put" -> Leg[a[1]].style = "american"
    [] rule = "short_put_short_stock" -> Leg[a[2]].proceeds > 0
    [] rule = "long_call_short_stock" -> Leg[a[1]].style = "american" /\ Leg[a[2]].proceeds > 0
    [] rule \in {"collar", "conversion", "reverse_conversion"} ->
         /\ IF rule = "collar" THEN Leg[a[1]].K < Leg[a[2]].K ELSE Leg[a[1]].K = Leg[a[2]].K
         /\ Same("exp", a, {1, 2}) /\ Same("und", a, {1, 2}) /\ All("style", "american", a, {1, 2})
         /\ rule = "reverse_conversion" => Leg[a[3]].proceeds > 0 /\ Leg[a[3]].sale > 0
    [] rule = "short_index_call_long_etf" ->
         /\ Leg[a[2]].tracks = Leg[a[1]].und
         /\ p[2] * Leg[a[2]].price >= f.U * p[1] * Leg[a[1]].mult
         /\ Leg[a[2]].price > 0 /\ Leg[a[2]].keq > 0
    [] OTHER -> FALSE

\* The naked rules match one option leg each.
HoldsNaked(rule, a, f) ==
  LET l == Leg[a[1]] IN
  CASE rule = "long_option_short_dated" -> l.side = "long" /\ l.months \in 1..9
    [] rule = "long_option_long_dated_listed" ->
         l.side = "long" /\ l.venue = "listed" /\ l.months > 9 /\ f.class \in LoanValueClasses
    [] rule = "long_option_long_dated_otc" ->
         /\ l.side = "long" /\ l.venue = "otc" /\ l.months > 9
         /\ l.style = "american" /\ l.guaranteed
    [] rule = "short_call_uncovered" -> l.side = "short" /\ l.type = "call" /\ l.K > 0
    [] rule = "short_put_uncovered" -> l.side = "short" /\ l.type = "put" /\ l.K > 0

Rated(rule) ==
  rule \in {"short_call_uncovered", "short_put_uncovered", "short_strangle_or_straddle",
            "vertical_spread"}

MarginInitial(rule, a, p, f) ==
  CASE rule = "long_option_short_dated" -> Premium(a[1], p[1])
    [] rule = "long_option_long_dated_listed" -> 75 * Leg[a[1]].P * p[1] * Leg[a[1]].mult
    [] rule = "long_option_long_dated_otc" ->
         p[1] * Leg[a[1]].mult *
           (75 * Intrinsic(a[1], f) + 100 * Larger(0, Leg[a[1]].P0 - Intrinsic(a[1], f)))
    [] rule \in {"short_call_uncovered", "short_put_uncovered"} -> ShortReq(a[1], p[1], f)
    [] rule = "short_strangle_or_straddle" ->
         IF ShortReq(a[1], p[1], f) > ShortReq(a[2], p[2], f)
         THEN ShortReq(a[1], p[1], f) + Premium(a[2], p[2])
         ELSE ShortReq(a[2], p[2], f) + Premium(a[1], p[1])
    [] rule = "vertical_spread" ->
         Smaller(ShortReq(a[2], p[2], f), MaxPotentialLoss(a, p)) + Premium(a[1], p[1])
    [] rule = "long_box_spread" ->
         IF Leg[a[1]].style = "european"
         THEN 50 * (Leg[a[3]].K - Leg[a[1]].K) * p[1] * Leg[a[1]].mult
         ELSE MaxPotentialLoss(a, p) + Premium(a[1], p[1]) + Premium(a[3], p[3])
    [] rule = "short_box_spread" -> MaxPotentialLoss(a, p)
    [] rule = "covered_call" -> 50 * f.U * p[2]
    [] rule = "protective_put" -> Premium(a[1], p[1]) + 50 * f.U * p[2]
    [] rule \in {"collar", "conversion"} -> Premium(a[1], p[1]) + 50 * f.U * p[3]
    [] rule = "short_put_short_stock" ->
         (100 * Leg[a[2]].proceeds + 50 * f.U + 100 * Larger(0, Leg[a[1]].K - f.U)) * p[2]
    [] rule = "long_call_short_stock" ->
         Premium(a[1], p[1]) + (100 * Leg[a[2]].proceeds + 50 * f.U) * p[2]
    [] rule = "reverse_conversion" ->
         Premium(a[1], p[1]) + 100 * Leg[a[3]].proceeds * p[3] +
         (IF Leg[a[1]].K < Leg[a[3]].sale THEN 10 * Leg[a[1]].K ELSE 50 * f.U) * p[3]
    [] rule = "short_index_call_long_etf" -> 50 * Leg[a[2]].price * p[2]

NotPermittedInCash ==
  {"short_strangle_or_straddle", "short_put_short_stock", "long_call_short_stock",
   "reverse_conversion", "short_index_call_long_etf"}

CashInitial(rule, a, p, f) ==
  CASE rule \in {"long_option_short_dated", "long_option_long_dated_listed",
                  "long_option_long_dated_otc"} ->
         Premium(a[1], p[1])
    [] rule = "short_call_uncovered" -> 100 * f.U * p[1] * Leg[a[1]].mult
    [] rule = "short_put_uncovered" -> 100 * Leg[a[1]].K * p[1] * Leg[a[1]].mult
    [] rule = "vertical_spread" -> MaxPotentialLoss(a, p) + Premium(a[1], p[1])
    [] rule = "short_box_spread" -> MaxPotentialLoss(a, p)
    [] rule = "covered_call" -> 100 * f.U * p[2]
    [] rule = "protective_put" -> 100 * f.U * p[2] + Premium(a[1], p[1])
    [] rule \in {"collar", "conversion"} -> 100 * f.U * p[3] + Premium(a[1], p[1])

-----------------------------------------------------------------------------
Answers(fit, hard, permitted, req) ==
  [fit |-> fit, hard |-> hard, permitted |-> permitted, req |-> req]

\* EvaluateRule followed by evalFormulas: not applicable, not permitted (with
\* a zero requirement), a missing formula or an unknown rate class, or a number.
BaselineEvaluate(rule, a, p, f) ==
  LET naked == rule \in {BaselineNaked[i] : i \in DOMAIN BaselineNaked}
  IN  CASE ~(IF naked THEN HoldsNaked(rule, a, f) ELSE Holds(rule, a, p, f)) ->
             Answers(FALSE, FALSE, FALSE, 0)
        [] OTHER ->
             IF f.account = "cash"
             THEN CASE rule \in NotPermittedInCash -> Answers(TRUE, FALSE, FALSE, 0)
                    [] rule = "long_box_spread" -> Answers(FALSE, TRUE, FALSE, 0)
                    [] OTHER -> Answers(TRUE, FALSE, TRUE, CashInitial(rule, a, p, f))
             ELSE IF Rated(rule) /\ ~Known(f)
                  THEN Answers(FALSE, TRUE, FALSE, 0)
                  ELSE Answers(TRUE, FALSE, TRUE, MarginInitial(rule, a, p, f))
=============================================================================
