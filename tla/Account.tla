------------------------------ MODULE Account ------------------------------
(***************************************************************************)
(* Account aggregation (internal/account): AggregateWithRulebook runs      *)
(* every position of an account through the engine, sorts the answers into *)
(* permitted, forbidden, without a rule and failed, and reduces them and   *)
(* the market values of all legs to an AccountSnapshot.                    *)
(*                                                                         *)
(* Money is in cents and prices are in whole dollars.  A ratio is the pair *)
(* of its terms, and infinite over 0.                                      *)
(***************************************************************************)
EXTENDS Dispatch, Functions

CONSTANTS
  Accounts,   \* the accounts AggregateWithRulebook may be called with
  Supplied    \* evaluations a caller may hand to Aggregate itself

ASSUME AccountsAssumption ==
  \A a \in Accounts :
    /\ a.positions \in Seq(Members(a.positions))
    /\ \A x \in Members(a.positions) :
         /\ {"U", "lev", "legs"} \subseteq DOMAIN x.pos
         /\ x.pos.legs \in Seq(Members(x.pos.legs))
         /\ \A l \in Members(x.pos.legs) :
              {"kind", "side", "mult", "P", "qty", "shares", "price"} \subseteq DOMAIN l

\* Evaluations come from an engine, whose amounts are finite.
ASSUME SuppliedAssumption ==
  \A es \in Supplied : \A e \in Members(es) : {e.res.req, e.res.cashCall} \subseteq Int

VARIABLES
  stage,      \* how far the call is
  acct,
  evals,      \* a PositionEvaluation for every position so far
  snap        \* the AccountSnapshot

accountVars == <<stage, acct, evals, snap>>

-----------------------------------------------------------------------------
(***************************************************************************)
(* validate.                                                               *)
(***************************************************************************)
Unique(s) == \A i, j \in DOMAIN s : s[i].id = s[j].id => i = j

ValuableLeg(l, U) ==
  /\ l.side \in {"long", "short"}
  /\ l.kind \in {"option"} \cup StockLike
  /\ CASE l.kind = "option" -> NonNegative(l.mult) /\ NonNegative(l.P) /\ Positive(l.qty)
       [] l.kind = "stock" -> Positive(l.shares) /\ Positive(U)
       [] OTHER -> Positive(l.price) /\ Positive(l.shares)

ValidAccount(a) ==
  /\ "" \notin {a.id, a.currency, a.as_of}
  /\ a.type \in {"cash", "margin"}
  /\ a.phase \in {"initial", "maintenance"}
  /\ {a.sod, a.cash, a.pnl, a.deposits} \subseteq Int
  /\ Unique(a.positions)
  /\ \A x \in Members(a.positions) :
       x.id # "" /\ \A l \in Members(x.pos.legs) : ValuableLeg(l, x.pos.U)

\* Aggregate's own check of what it is handed.
ValidEvaluations(a, es) ==
  Unique(es) /\ \A e \in Members(es) : \E x \in Members(a.positions) : e.id = x.id

-----------------------------------------------------------------------------
(***************************************************************************)
(* Market values.  The size of a contract is the literal 100 by default.   *)
(***************************************************************************)
\* Mutant of EffectiveMult: no default.
EffectiveMultAsGiven(mult) == mult

EffectiveMult(mult) == IF mult = 0 THEN 100 ELSE mult

LegMarketValue(l, U) ==
  CASE l.kind = "option" -> 100 * l.P * l.qty * EffectiveMult(l.mult)
    [] l.kind = "stock" -> 100 * U * l.shares
    [] OTHER -> 100 * l.price * l.shares

\* Over every leg of every position, whatever the engine said of it.
MarketValue(a, side, kinds) ==
  LET legs(x) == {j \in DOMAIN x.pos.legs : x.pos.legs[j].side = side /\ x.pos.legs[j].kind \in kinds}
      worth(x) == SumFunction([j \in legs(x) |-> LegMarketValue(x.pos.legs[j], x.pos.U)])
  IN  SumFunction([i \in DOMAIN a.positions |-> worth(a.positions[i])])

-----------------------------------------------------------------------------
(***************************************************************************)
(* classifyEvaluation and Aggregate.                                       *)
(***************************************************************************)
Evaluation(id, kind, res) == [id |-> id, kind |-> kind, res |-> res]

\* Mutant of Classified: the requirement of a forbidden position counts.
ClassifiedLenient(id, o) ==
  CASE o.kind = "result" -> Evaluation(id, "permitted", o.res)
    [] o.kind = "norule" -> Evaluation(id, "norule", NoResult)
    [] OTHER -> Evaluation(id, "error", NoResult)

Classified(id, o) ==
  CASE o.kind = "result" ->
         Evaluation(id, IF o.res.permitted THEN "permitted" ELSE "violation", o.res)
    [] o.kind = "norule" -> Evaluation(id, "norule", NoResult)
    [] OTHER -> Evaluation(id, "error", NoResult)

\* The evaluation of each position; "none" where the caller has handed none.
Arranged(a, es) ==
  [i \in DOMAIN a.positions |->
     LET mine == {e \in Members(es) : e.id = a.positions[i].id}
     IN  IF mine = {} THEN Evaluation(a.positions[i].id, "none", NoResult)
         ELSE CHOOSE e \in mine : TRUE]

OfKind(es, kind) == Selection(es, {i \in DOMAIN es : es[i].kind = kind})

TotalOf(es, field) ==
  SumFunction([i \in DOMAIN es |-> IF es[i].kind = "permitted" THEN es[i].res[field] ELSE 0])

DepositOf(es, kind) ==
  SumFunction([i \in DOMAIN es |-> IF es[i].kind = "permitted" /\ es[i].res.deposit = kind
                                   THEN es[i].res.req ELSE 0])

Dollar == 100

\* Mutant of Ratio: an equity of less than a dollar divides too.
RatioOverCents(n, equity) == IF equity <= 0 THEN <<0, 1>> ELSE <<n, equity>>

Ratio(n, equity) ==
  CASE equity <= 0 -> <<0, 1>>
    [] equity \in 1..(Dollar - 1) -> <<1, 0>>
    [] OTHER -> <<n, equity>>

Snapshot(a, supplied) ==
  LET es     == Arranged(a, supplied)
      lmv    == [stock |-> MarketValue(a, "long", StockLike),
                 option |-> MarketValue(a, "long", {"option"})]
      smv    == [stock |-> MarketValue(a, "short", StockLike),
                 option |-> MarketValue(a, "short", {"option"})]
      long   == lmv.stock + lmv.option
      short  == smv.stock + smv.option
      equity == a.sod + a.pnl + a.deposits
      total  == TotalOf(es, "req")
  IN  [lmv |-> lmv, smv |-> smv, net |-> long - short, gross |-> long + short,
       equity |-> equity, adjusted |-> equity - long + short,
       total |-> total, cashCall |-> TotalOf(es, "cashCall"),
       deposits |-> [k \in {es[i].res.deposit : i \in DOMAIN es} \ {""} |-> DepositOf(es, k)],
       stockLeverage |-> Ratio(lmv.stock + smv.stock, equity),
       grossLeverage |-> Ratio(long + short, equity),
       equityRatio |-> Ratio(total, equity),
       warned |-> equity < Dollar,
       evaluations |-> es, violations |-> OfKind(es, "violation"), errors |-> OfKind(es, "error")]

-----------------------------------------------------------------------------
(***************************************************************************)
(* AggregateWithRulebook, and Aggregate when it is called directly.        *)
(***************************************************************************)
NoAccount ==
  [id |-> "", currency |-> "", as_of |-> "", type |-> "", phase |-> "", sod |-> 0, cash |-> 0,
   pnl |-> 0, deposits |-> 0, positions |-> <<>>]

AccountInit == stage = "ready" /\ acct = NoAccount /\ evals = <<>> /\ snap = <<>>

AggregateWithRulebook ==
  /\ stage = "ready"
  /\ acct' \in Accounts
  /\ stage' = IF rb.state = "loaded" /\ ValidAccount(acct') THEN "evaluating" ELSE "failed"
  /\ UNCHANGED <<dispatchVars, evals, snap>>

Position == Len(evals) + 1

EvaluatePosition ==
  /\ stage = "evaluating"
  /\ Position \in DOMAIN acct.positions
  /\ Evaluate(acct.positions[Position].pos, acct.type, acct.phase)
  /\ UNCHANGED accountVars

TryPosition == stage = "evaluating" /\ TryRules /\ UNCHANGED accountVars

ClassifyEvaluation ==
  /\ stage = "evaluating"
  /\ Returned
  /\ evals' = Append(evals, Classified(acct.positions[Position].id, outcome))
  /\ outcome' = Idle
  /\ UNCHANGED <<rb, call, stage, acct, snap>>

Aggregate ==
  /\ stage = "evaluating"
  /\ Len(evals) = Len(acct.positions)
  /\ snap' = Snapshot(acct, evals)
  /\ stage' = "aggregated"
  /\ UNCHANGED <<dispatchVars, acct, evals>>

AggregateSupplied ==
  /\ stage = "ready"
  /\ acct' \in Accounts
  /\ evals' \in Supplied
  /\ IF ValidAccount(acct') /\ ValidEvaluations(acct', evals')
     THEN stage' = "aggregated" /\ snap' = Snapshot(acct', evals')
     ELSE stage' = "failed" /\ UNCHANGED snap
  /\ UNCHANGED dispatchVars

AccountNext ==
  \/ AggregateWithRulebook \/ EvaluatePosition \/ TryPosition \/ ClassifyEvaluation
  \/ Aggregate \/ AggregateSupplied

-----------------------------------------------------------------------------
(***************************************************************************)
(* Properties.                                                             *)
(***************************************************************************)
\* What the engine says of a position of the account by itself.
Expected(x) ==
  IF ValidPosition(Prepared(x.pos))
  THEN FirstToDecide(Prepared(x.pos), acct.type, acct.phase)
  ELSE Outcome("invalid")

Tells(e, x, o) ==
  /\ e.id = x.id
  /\ e.kind = "permitted" <=> o.kind = "result" /\ o.res.permitted
  /\ e.kind = "violation" <=> o.kind = "result" /\ ~o.res.permitted
  /\ e.kind = "norule" <=> o.kind = "norule"
  /\ e.res = o.res

\* Each evaluation is of its own position and as if the position were alone: an
\* earlier one that failed or was forbidden changes nothing, and only what the
\* engine permits is classified so.
EvaluatedAlone ==
  stage = "evaluating" =>
    \A i \in DOMAIN evals : Tells(evals[i], acct.positions[i], Expected(acct.positions[i]))

\* What the legs of a position are worth at the contract size the engine
\* charges them at.
ChargedWorth(x) ==
  LET p == Prepared(x.pos)
      worth(l) == CASE l.kind = "option" -> 100 * l.P * l.qty * l.mult
                    [] l.kind = "stock" -> 100 * p.U * l.shares
                    [] OTHER -> 100 * l.price * l.shares
  IN  SumFunction([j \in DOMAIN p.legs |-> worth(p.legs[j])])

\* The account's exposure is that of all its positions, those that failed too,
\* at the contract size the engine charges: a rulebook that keeps the default
\* of a hundred and Aggregate, which does not know it, agree.
ExposureAsCharged ==
  stage = "aggregated" /\ rb.mult = 100 =>
    snap.gross = SumFunction([i \in DOMAIN acct.positions |-> ChargedWorth(acct.positions[i])])
=============================================================================
