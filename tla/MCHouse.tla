------------------------------ MODULE MCHouse ------------------------------
(***************************************************************************)
(* Instances of Overlay over a few rules of the baseline and house rules   *)
(* in the manner of rules/house_overlay.example.yaml.                      *)
(***************************************************************************)
EXTENDS Overlay, MCLegs

R == INSTANCE RuleTable

MCTypeOf(key) == R!BaselineType(key)
MCTest(key, p, b) == R!BaselineTest(key, p, b)
MCValue(key, p, b) == R!BaselineValue(key, p, b)

FewRules ==
  <<R!Uncovered("short_call_uncovered", "call"), R!VerticalSpread, R!ShortPutShortStock,
    R!CoveredCall>>

MCRulebooks ==
  {[schema |-> "1", mult |-> 0, rules |-> FewRules], [schema |-> "", mult |-> 0, rules |-> <<>>]}

-----------------------------------------------------------------------------
(***************************************************************************)
(* Accounts of at most two positions.                                      *)
(***************************************************************************)
On(x, U) == [x EXCEPT !.und = U]

Templates ==
  <<<<Short("call", 60), Stock("long", 100)>>,
    <<[Short("call", 60) EXCEPT !.mult = 0], Stock("long", 99)>>,
    <<Short("call", 60)>>, <<Short("put", 40), Stock("short", 100)>>,
    <<Short("put", 40), [Stock("short", 100) EXCEPT !.proceeds = 5000]>>,
    <<Stock("long", 10)>>, <<On(Stock("short", 20), "Y")>>, <<On(Stock("long", 30), "")>>,
    <<Stock("long", 100), Stock("short", 50)>>,
    <<[Stock("long", 40) EXCEPT !.kind = "etf", !.price = 20, !.und = "Y"]>>>>

Held(id, legs) == [id |-> id, pos |-> [U |-> 50, class |-> "equity", lev |-> 0, legs |-> legs]]

Holdings ==
  {<<>>} \cup {<<Held("p", Templates[i])>> : i \in DOMAIN Templates}
  \cup {<<Held("p", Templates[x[1]]), Held("q", Templates[x[2]])>> :
          x \in {y \in (DOMAIN Templates) \X (DOMAIN Templates) : y[1] <= y[2]}}

NewAccount(equity, type, phase, positions) ==
  [id |-> "a", currency |-> "USD", as_of |-> "today", type |-> type, phase |-> phase,
   sod |-> equity - 50, cash |-> 0, pnl |-> 100, deposits |-> -50, positions |-> positions]

\* Equities: none, half a dollar, a thousand dollars.
Kinds ==
  {<<0, "margin", "initial">>, <<50, "margin", "maintenance">>, <<100000, "cash", "initial">>,
   <<100000, "margin", "initial">>, <<100000, "margin", "maintenance">>}

Good == {NewAccount(k[1], k[2], k[3], ps) : k \in Kinds, ps \in Holdings}

Sound == NewAccount(50, "margin", "initial", <<Held("p", <<Short("call", 60)>>)>>)

Bad ==
  {[Sound EXCEPT !.currency = ""], [Sound EXCEPT !.type = "joint"], [Sound EXCEPT !.pnl = NotFinite],
   [Sound EXCEPT !.positions = @ \o @],
   [Sound EXCEPT !.positions[1].pos.legs[1].P = -1]}

MCAccounts == Good \cup Bad

MCSupplied ==
  {<<[id |-> "q", kind |-> "norule", res |-> NoResult]>>,
   <<[id |-> "other", kind |-> "norule", res |-> NoResult]>>}

-----------------------------------------------------------------------------
(***************************************************************************)
(* House rules.                                                            *)
(***************************************************************************)
Everyone == [types |-> {}, phases |-> {}, kinds |-> {}, sides |-> {}]

HouseRule(id, priority, scope, mode, when, formula) ==
  [id |-> id, priority |-> priority, scope |-> scope,
   groupBy |-> IF scope = "group" THEN "underlying" ELSE "", applies |-> Everyone, when |-> when,
   mode |-> mode, basis |-> "", formula |-> formula, missing |-> ""]

NonMarginable ==
  [HouseRule("non_marginable_block", 50, "position", "block", "not marginable", "") EXCEPT
     !.applies.types = {"margin"}]

LowPriceFloor ==
  [HouseRule("low_price_long_floor", 100, "position", "max", "low price", "by the share") EXCEPT
     !.applies.sides = {"long"}, !.applies.kinds = {"stock"}, !.basis = "shares"]

KnownFloor ==
  [HouseRule("known_floor", 100, "position", "floor", "", "tenth of value") EXCEPT
     !.missing = "error"]

LeverageCharge == HouseRule("leverage_charge", 100, "position", "add", "", "by leverage")

Rebate ==
  [HouseRule("rebate", 300, "position", "add", "", "minus five") EXCEPT
     !.applies.phases = {"maintenance"}]

Concentration ==
  [HouseRule("single_name_concentration", 200, "group", "max", "concentrated", "tenth of value")
     EXCEPT !.missing = "error", !.applies.kinds = {"stock", "etf"}]

LeveragedBlock == HouseRule("leveraged_block", 200, "group", "block", "leveraged", "tenth of value")

Misplaced == HouseRule("misplaced", 300, "group", "max", "low price", "minus five")

File(rules, constants) ==
  [state |-> "read", schema |-> "1", rules |-> rules, constants |-> constants]

Empty == [state |-> "empty", schema |-> "", rules |-> <<>>, constants |-> {}]

First == File(<<Concentration, NonMarginable, LowPriceFloor, Rebate>>, {"c"})

Second == File(<<KnownFloor, LeverageCharge, LeveragedBlock, Misplaced>>, {"d"})

GoodLists == {<<First, Second>>, <<Second, Empty, First>>, <<Empty>>}

BadRules ==
  {[Rebate EXCEPT !.scope = "account"], [Rebate EXCEPT !.formula = ""],
   [Rebate EXCEPT !.missing = "ignore"], [Rebate EXCEPT !.when = "minus five"]}

BadLists ==
  {<<>>, <<First, [First EXCEPT !.constants = {}]>>, <<First, File(<<>>, {"c"})>>,
   <<[First EXCEPT !.schema = "2"]>>, <<[First EXCEPT !.state = "garbled"]>>}
  \cup {<<File(<<r>>, {})>> : r \in BadRules}

MCFiles == GoodLists \cup BadLists

\* A block whose formula is no number when the equity is less than a dollar.
BlockFiles ==
  {<<File(<<HouseRule("leveraged_block", 100, "position", "block", "leveraged", "by leverage")>>, {})>>}

-----------------------------------------------------------------------------
MCSymbols == <<"X", "Y">>

Facts1 == [kind |-> "", last_price |-> 4, marginable |-> TRUE]
Facts2 == [kind |-> "etf", last_price |-> 20, marginable |-> FALSE]

MCReferences ==
  {<<>>, <<"X", "listed">> :> Facts1,
   (<<"X", "listed">> :> Facts1) @@ (<<"Y", "listed">> :> Facts2)
     @@ (<<"", "listed">> :> Facts1)}

MCType(e) ==
  CASE e \in {"not marginable", "low price", "concentrated", "leveraged"} -> "bool"
    [] OTHER -> "dyn"

Gross(f) == f.longMV + f.shortMV

\* A group has no security: an expression that asks for one fails.
MCWhen(e, a) ==
  LET says(x) == IF x THEN "true" ELSE "false"
      lev == a.account.stockLeverage
  IN  CASE e = "leveraged" -> says(lev[1] > 2 * lev[2])
        [] e = "concentrated" -> says(4 * Gross(a.facts) > a.account.equity)
        [] a.scope = "group" -> "error"
        [] e = "low price" -> says(a.facts.sec.last_price > 0 /\ a.facts.sec.last_price < 5)
        [] OTHER -> says(~a.facts.sec.marginable /\ a.facts.sec.last_price > 0)

MCFormula(e, a) ==
  LET lev == a.account.stockLeverage
  IN  CASE e = "minus five" -> -500
        [] e = "tenth of value" -> Gross(a.facts) \div 10
        [] e = "by the share" -> 250 * a.facts.longShares
        [] OTHER -> IF lev[2] = 0 THEN NotFinite ELSE (100 * lev[1]) \div lev[2]
=============================================================================
