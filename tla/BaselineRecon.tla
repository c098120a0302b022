--------------------------- MODULE BaselineRecon ---------------------------
(***************************************************************************)
(* Reconciliation under the Cboe baseline (rules/cboe_baseline.yaml): what *)
(* the requirements of its rules promise, and what the optimizer makes of  *)
(* them.                                                                   *)
(***************************************************************************)
EXTENDS Recon

R == INSTANCE RuleTable

CONSTANT MaxPrice   \* underlying prices the losses of a position are checked at

ASSUME MaxPriceAssumption == MaxPrice \in Nat

\* The rules whose requirement is the maximum potential loss.
ChargedByLoss == {R!GenericLimitedRiskCombo, R!VerticalSpread}

\* A rulebook that has such a rule has it as the baseline has it.
ASSUME BaselineAssumption ==
  \A raw \in Rulebooks : \A r \in Members(raw.rules), rule \in ChargedByLoss :
    r.id = rule.id => r = rule

-----------------------------------------------------------------------------
\* What position b loses at expiration at an underlying price, in cents.
LossAt(b, price) ==
  LET slots == R!SlotOrder(outcome.res.rule, b)
  IN  -100 * R!B(b)!PayoffAt(slots, R!Qty(b, slots), price)

\* Where the rulebook charges the maximum potential loss, the requirement
\* covers the long premium and the loss at every price, not only at the strikes
\* mpl samples.
RequirementCoversLoss ==
  /\ outcome.kind = "result"
  /\ \/ outcome.res.rule = "generic_limited_risk_combo"
     \/ outcome.res.rule = "vertical_spread" /\ call.account = "cash"
  => \A b \in TryMatch(rb.rules[call.rule], call.pos.legs), price \in 0..MaxPrice :
       LossAt(b, price)
         + R!SumPremiums(b, "long", IF call.phase = "initial" THEN "P0" ELSE "P")
       <= outcome.res.req

\* Module Baseline has short sale proceeds by the share.
PerShare(b) ==
  [s \in DOMAIN b |-> IF b[s].shares = 0 THEN b[s]
                      ELSE [b[s] EXCEPT !.proceeds = @ \div b[s].shares]]

BaselineSays(r, p, account, b) ==
  LET slots == R!SlotOrder(r.id, b)
  IN  R!B(PerShare(b))!BaselineEvaluate(r.id, slots, R!Qty(b, slots),
        [U |-> p.U, class |-> p.class, account |-> account])

AnswersAlike(rule, says) ==
  /\ says.fit <=> rule.kind = "result"
  /\ says.hard <=> rule.kind = "error"
  /\ says.fit => says.permitted = rule.res.permitted /\ says.req = rule.res.req

\* EvaluateRule on a whole position answers what module Baseline, which the
\* optimizer's model scores slices with, says of the legs it binds: whether the
\* rule fits, whether it fails hard, whether it is permitted, and how much.
OptimizerScoresAlike ==
  ValidCall /\ call.phase = "initial" /\ call.account \in {"cash", "margin"} =>
    \A r \in Members(rb.rules) : \A b \in TryMatch(r, call.pos.legs) :
      (r.pattern = "" /\ \A s \in DOMAIN b : b[s].exp # 0 /\ b[s].style # "") =>
        AnswersAlike(EvaluateRule(r, call.pos, call.account, call.phase),
                     BaselineSays(r, call.pos, call.account, b))
=============================================================================
