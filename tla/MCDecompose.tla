---------------------------- MODULE MCDecompose ----------------------------
(***************************************************************************)
(* Instances of Decompose over the baseline rulebook.                      *)
(***************************************************************************)
EXTENDS Decompose, FiniteSetsExt

CONSTANTS
  LegTable,    \* a sequence of legs: LegID i is its i-th entry
  Accounts,    \* account types the calls are made for
  Classes      \* rate classes the calls are made for

B == INSTANCE Baseline WITH Leg <- LegTable

\* amounts bounds what the calls have open of a leg, in ticks.
Base == [venue |-> "listed", mult |-> 100, K |-> 0, P0 |-> 0, P |-> 0, style |-> "american",
         exp |-> 1, und |-> "X", months |-> 3, proceeds |-> 0, sale |-> 0, price |-> 0,
         tracks |-> "", keq |-> 0, guaranteed |-> FALSE, type |-> "", side |-> "long",
         kind |-> "option", by |-> "qty", amounts |-> 0..2]

Opt(side, type, K, P0) ==
  [Base EXCEPT !.side = side, !.type = type, !.K = K, !.P0 = P0, !.P = P0]

Mini(l) == [l EXCEPT !.mult = 10]

\* A long-dated OTC option no naked rule takes.
Unlisted(l) == [l EXCEPT !.venue = "otc", !.months = 12]

Shares(side) ==
  [Base EXCEPT !.side = side, !.kind = "stock", !.by = "shares",
               !.proceeds = 50, !.sale = 60]

Etf(price) ==
  [Base EXCEPT !.kind = "etf", !.by = "shares", !.price = price, !.tracks = "X", !.keq = 60]

Open(amounts, l) == [l EXCEPT !.amounts = amounts]

\* Long put, short call, short put and long stock: collar, protective put,
\* covered call, vertical and strangle compete for the same legs.
StockLegs == <<Opt("long", "put", 40, 2), Opt("short", "call", 60, 3),
               Opt("short", "put", 40, 2), Open({0, 100, 200}, Shares("long"))>>

\* In half contracts and half shares (and requirements in half cents, all rules
\* being linear in the amounts): contracts of two sizes, an OTC call no
\* naked rule takes, an ETF that tracks the index, and one without a price.
IndexLegs == <<Open({0, 21, 40}, Mini(Opt("long", "call", 50, 4))),
               Open({0, 3, 4}, Opt("short", "call", 60, 3)),
               Open({0, 3}, Unlisted(Opt("long", "call", 70, 1))),
               Open({0, 334, 667}, Etf(30)), Open({0, 2}, Etf(0))>>

\* Both boxes, their verticals and the strangle, on another underlying.
Box(l) == [l EXCEPT !.und = "Y"]

BoxLegs == <<Open({2, 4}, Box(Opt("long", "call", 40, 11))),
             Open({2}, Box(Opt("short", "put", 40, 1))),
             Open({0, 2}, Box(Opt("long", "put", 60, 11))),
             Open({0, 4}, Box(Opt("short", "call", 60, 1)))>>

IndexAndBoxLegs == IndexLegs \o BoxLegs

MCLegs == 1..Len(LegTable)

\* A call opens legs of one underlying only.
LegsOn(u) == {l \in MCLegs : LegTable[l].und = u}

StatesOn(u) ==
  {s \in [LegsOn(u) -> UNION {LegTable[l].amounts : l \in LegsOn(u)}] :
     \A l \in LegsOn(u) : s[l] \in LegTable[l].amounts}

MCStates ==
  UNION {{[l \in MCLegs |-> IF l \in LegsOn(u) THEN s[l] ELSE 0] : s \in StatesOn(u)} :
            u \in {LegTable[l].und : l \in MCLegs}}

Entry(l, n) == [id |-> l, qty    |-> IF LegTable[l].by = "qty" THEN n ELSE 0,
                          shares |-> IF LegTable[l].by = "shares" THEN n ELSE 0]

\* Every combination of amounts, and the two inputs Optimize rejects.
MCInputs ==
  {[l \in MCLegs |-> Entry(l, s[l])] : s \in MCStates}
  \cup {<<Entry(1, 1), Entry(1, 1)>>, <<[id |-> 1, qty |-> 1, shares |-> 1]>>}

MCLeg == LegTable
MCTargets == B!BaselineTargets
MCSlots == B!BaselineSlots
MCNaked == B!BaselineNaked
MCOrder == B!BaselineOrder
MCEvaluate(rule, a, p, f) == B!BaselineEvaluate(rule, a, p, f)

MCFacts == {[U |-> 50, class |-> c, account |-> a] : c \in Classes, a \in Accounts}

-----------------------------------------------------------------------------
(***************************************************************************)
(* Reference: the cheapest complete decomposition of every state, by value *)
(* iteration over the number of slices, without stack, memo, order or      *)
(* tiebreak.                                                               *)
(***************************************************************************)
None == -1

Least(costs) == IF costs = {} THEN None ELSE Min(costs)

\* <<cost, remaining state>> of every first slice that fits.
Slices(s, f) ==
  {<<x[2].req, Remainder(s, x[1][2], x[1][3])>> : x \in
     {y \in {<<c, EvaluateRule(c[1], c[2], c[3], f)>> : c \in
               UNION {{<<Targets[c[1]], c[2], p>> : p \in Plans(Targets[c[1]], s, c[2], f.U)} :
                        c \in Offers(s)}} : y[2].fit}}

\* The states that slices lead to from the states S.
RECURSIVE Closure(_)
Closure(S) ==
  LET next == {x[2] : x \in UNION {Slices(s, f) : s \in S, f \in MCFacts}}
  IN  IF S = {} THEN {} ELSE S \cup Closure(next \ S)

Reached == Closure(MCStates)

\* Nothing if the leg has no naked rule, else the first rule's requirement.
Naked(s, l, f) ==
  LET hits == {o \in {<<i, EvaluateRule(NakedRules[i], <<l>>, <<s[l]>>, f)>> :
                       i \in DOMAIN NakedRules} : o[2].fit \/ o[2].hard}
  IN  {o[2].req : o \in {o \in hits : o[2].fit /\ OpenShares(s, l) = 0
                                      /\ \A h \in hits : o[1] <= h[1]}}

\* The requirements of the naked legs, when every open leg has one.
ResidualCosts(s, f) ==
  {MapThenSumSet(LAMBDA x : x[2], xs) : xs \in
     {xs \in {UNION {{<<l, r>> : r \in Naked(s, l, f)} : l \in OpenLegs(s)}} :
        {x[1] : x \in xs} = OpenLegs(s)}}

SliceTable == [f \in MCFacts |-> [s \in Reached |-> Slices(s, f)]]

ResidualTable == [f \in MCFacts |-> [s \in Reached |-> ResidualCosts(s, f)]]

\* The cheapest with one more slice, until nothing changes.
RECURSIVE Settled(_, _)
Settled(cost, f) ==
  LET next == [s \in Reached |->
        Least(ResidualTable[f][s] \cup
              {x[1] + cost[x[2]] : x \in {x \in SliceTable[f][s] : cost[x[2]] # None}})]
  IN  IF next = cost THEN cost ELSE Settled(next, f)

Cheapest == [f \in MCFacts |-> Settled([s \in Reached |-> None], f)]

\* A clean result is the cheapest complete decomposition there is, and a
\* residual error is returned only for legs that have none.
CheapestCompletes ==
  pc = "done" /\ ret.err.kind \in {"none", "stock", "naked"} =>
    Cheapest[facts][start] = IF IsError(ret) THEN None ELSE ret.total

-----------------------------------------------------------------------------
(***************************************************************************)
(* A statement of the repository's comments that the code does not keep.   *)
(***************************************************************************)
\* "A hard error (CEL eval, configuration drift) always propagates": an
\* activation that met one returns one.
HardErrorPropagates ==
  [][Finish /\ Top.res.err.kind = "hard" => ret'.err.kind = "hard"]_vars
=============================================================================
