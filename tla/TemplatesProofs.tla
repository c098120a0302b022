-------------------------- MODULE TemplatesProofs --------------------------
(***************************************************************************)
(* Facts about the candidate generator: a consumption plan never takes     *)
(* more of a leg than is open, whatever the contract sizes, prices and     *)
(* fractional quantities, and what it takes and what it leaves add up.     *)
(***************************************************************************)
EXTENDS Templates, TLAPS

-----------------------------------------------------------------------------
(***************************************************************************)
(* Integer arithmetic.                                                     *)
(***************************************************************************)
LEMMA DivBounds ==
  ASSUME NEW x \in Nat, NEW d \in Nat \ {0}
  PROVE  /\ x \div d \in Nat
         /\ (x \div d) * d <= x
         /\ x < (x \div d) * d + d
  BY SMT

LEMMA MulMonotone ==
  ASSUME NEW x \in Nat, NEW y \in Nat, NEW d \in Nat, x <= y
  PROVE  x * d <= y * d /\ d * x <= d * y
  BY SMT

LEMMA MulCancel ==
  ASSUME NEW x \in Int, NEW y \in Int, NEW d \in Nat \ {0}
  PROVE  /\ x * d <= y * d => x <= y
         /\ x * d < y * d => x < y
  BY SMT

\* Whole contracts that shares cover need no more than those shares.
LEMMA CoveredFits ==
  ASSUME NEW shares \in Nat, NEW mult \in Nat \ {0}, NEW n \in Nat,
         n <= Covered(shares, mult)
  PROVE  n * mult <= shares
  <1> DEFINE q == shares \div (mult * Unit)
  <1>1. mult * Unit \in Nat \ {0}
    BY UnitAssumption, SMT
  <1>2. q \in Nat /\ q * (mult * Unit) <= shares
    BY <1>1, DivBounds
  <1>3. n <= q * Unit
    BY DEF Covered
  <1>4. n * mult <= (q * Unit) * mult
    BY <1>2, <1>3, UnitAssumption, MulMonotone
  <1>5. (q * Unit) * mult = q * (mult * Unit)
    BY <1>2, UnitAssumption, SMT
  <1> QED
    BY <1>2, <1>4, <1>5, UnitAssumption, SMT

-----------------------------------------------------------------------------
(***************************************************************************)
(* Plans.                                                                  *)
(***************************************************************************)
\* What consumptionFor promises of a plan p for a binding a in state s: an
\* amount per slot, no more than is open at any of them, and at least a whole
\* contract at one.
PlanFits(s, a, p) ==
  /\ p \in [DOMAIN a -> Nat]
  /\ \A i \in DOMAIN a : p[i] <= s[a[i]]
  /\ \E i \in DOMAIN a : p[i] >= Unit

LEMMA LesserBounds ==
  ASSUME NEW x \in Nat, NEW y \in Nat
  PROVE  Lesser(x, y) \in Nat /\ Lesser(x, y) <= x /\ Lesser(x, y) <= y
  BY DEF Lesser

LEMMA BindingType ==
  ASSUME NEW s \in State, NEW i \in DOMAIN Targets, NEW a \in Bindings(Targets[i], s)
  PROVE  /\ Len(Slots[Targets[i]]) \in Nat \ {0}
         /\ a \in [1..Len(Slots[Targets[i]]) -> Legs]
         /\ \A j, k \in DOMAIN a : a[j] = a[k] => j = k
  BY SlotsAssumption, MaxSlotsAssumption DEF Bindings, OpenLegs

LEMMA OptionOnlyFits ==
  ASSUME NEW s \in State, NEW n \in Nat \ {0}, NEW a \in [1..n -> Legs],
         NEW p \in OptionOnly(s, a)
  PROVE  PlanFits(s, a, p)
  <1>1. PICK u \in CommonUnits(s, a) :
          /\ p = [i \in DOMAIN a |-> u \div Leg[a[i]].mult]
          /\ \A i \in DOMAIN a : u \div Leg[a[i]].mult >= Unit
    BY DEF OptionOnly
  <1>2. \A i \in DOMAIN a : IsOpenOption(s, a[i])
    BY DEF OptionOnly
  <1>3. u \in Nat
    <2>1. Leg[a[1]].mult \in Nat /\ s[a[1]] \in Nat
      BY LegAssumption DEF State
    <2>2. PICK k \in 0..s[a[1]] : u = k * (Leg[a[1]].mult * Unit)
      BY <1>1 DEF CommonUnits
    <2> QED
      BY <2>1, <2>2, UnitAssumption, SMT
  <1>4. ASSUME NEW i \in DOMAIN a
        PROVE  /\ u \div Leg[a[i]].mult \in Nat
               /\ u \div Leg[a[i]].mult <= s[a[i]]
    <2> DEFINE m == Leg[a[i]].mult
               q == u \div m
    <2>1. m \in Nat \ {0} /\ s[a[i]] \in Nat
      BY <1>2, LegAssumption DEF IsOpenOption, State
    <2>2. OpenQty(s, a[i]) \in Nat /\ OpenQty(s, a[i]) <= s[a[i]]
      BY <2>1 DEF OpenQty
    <2>3. u <= OpenQty(s, a[i]) * m
      BY <1>1 DEF CommonUnits
    <2>4. q \in Nat /\ q * m <= u
      BY <1>3, <2>1, DivBounds
    <2> HIDE DEF m, q
    <2>5. q * m <= OpenQty(s, a[i]) * m
      BY <1>3, <2>1, <2>2, <2>3, <2>4, SMT
    <2>6. q <= OpenQty(s, a[i])
      BY <2>1, <2>2, <2>4, <2>5, MulCancel
    <2> QED
      BY <2>1, <2>2, <2>4, <2>6 DEF m, q
  <1> QED
    BY <1>1, <1>4 DEF PlanFits

LEMMA SingleOptionFits ==
  ASSUME NEW s \in State, NEW a \in [1..2 -> Legs],
         NEW p \in SingleOptionStock(s, a[1], a[2])
  PROVE  PlanFits(s, a, p)
  <1> DEFINE m == Leg[a[1]].mult
             c == Covered(OpenShares(s, a[2]), m)
             n == Lesser(OpenQty(s, a[1]), c)
  <1>1. /\ p = <<n, n * m>>
        /\ n >= Unit
        /\ m > 0
    BY DEF SingleOptionStock, IsOpenOption
  <1>2. m \in Nat \ {0} /\ s[a[1]] \in Nat /\ s[a[2]] \in Nat
    BY <1>1, LegAssumption DEF State
  <1>3. /\ OpenQty(s, a[1]) \in Nat /\ OpenQty(s, a[1]) <= s[a[1]]
        /\ OpenShares(s, a[2]) \in Nat /\ OpenShares(s, a[2]) <= s[a[2]]
    BY <1>2 DEF OpenQty, OpenShares
  <1>4. c \in Nat
    <2>1. m * Unit \in Nat \ {0}
      BY <1>2, UnitAssumption, SMT
    <2>2. OpenShares(s, a[2]) \div (m * Unit) \in Nat
      BY <1>3, <2>1, DivBounds
    <2> QED
      BY <2>2, UnitAssumption, SMT DEF Covered
  <1>5. n \in Nat /\ n <= OpenQty(s, a[1]) /\ n <= c
    BY <1>3, <1>4, LesserBounds
  <1>6. n * m \in Nat /\ n * m <= OpenShares(s, a[2])
    BY <1>2, <1>3, <1>5, CoveredFits, SMT
  <1> HIDE DEF n, m
  <1>7. p \in [DOMAIN a -> Nat] /\ p[1] = n /\ p[2] = n * m
    BY <1>1, <1>5, <1>6
  <1> QED
    BY <1>1, <1>2, <1>3, <1>5, <1>6, <1>7, UnitAssumption DEF PlanFits

LEMMA DualOptionFits ==
  ASSUME NEW s \in State, NEW a \in [1..3 -> Legs],
         NEW p \in DualOptionStock(s, a[1], a[2], a[3])
  PROVE  PlanFits(s, a, p)
  <1> DEFINE m == Greater(Leg[a[1]].mult, Leg[a[2]].mult)
             c == Covered(OpenShares(s, a[3]), m)
             n == Lesser(Lesser(OpenQty(s, a[1]), OpenQty(s, a[2])), c)
  <1>1. /\ p = <<n, n, n * m>>
        /\ n >= Unit
        /\ Leg[a[1]].mult > 0 /\ Leg[a[2]].mult > 0
    BY DEF DualOptionStock, IsOpenOption
  <1>2. m \in Nat \ {0} /\ s[a[1]] \in Nat /\ s[a[2]] \in Nat /\ s[a[3]] \in Nat
    BY <1>1, LegAssumption DEF State, Greater
  <1>3. /\ OpenQty(s, a[1]) \in Nat /\ OpenQty(s, a[1]) <= s[a[1]]
        /\ OpenQty(s, a[2]) \in Nat /\ OpenQty(s, a[2]) <= s[a[2]]
        /\ OpenShares(s, a[3]) \in Nat /\ OpenShares(s, a[3]) <= s[a[3]]
    BY <1>2 DEF OpenQty, OpenShares
  <1>4. c \in Nat
    <2>1. m * Unit \in Nat \ {0}
      BY <1>2, UnitAssumption, SMT
    <2>2. OpenShares(s, a[3]) \div (m * Unit) \in Nat
      BY <1>3, <2>1, DivBounds
    <2> QED
      BY <2>2, UnitAssumption, SMT DEF Covered
  <1>5. n \in Nat /\ n <= OpenQty(s, a[1]) /\ n <= OpenQty(s, a[2]) /\ n <= c
    BY <1>3, <1>4 DEF Lesser
  <1>6. n * m \in Nat /\ n * m <= OpenShares(s, a[3])
    BY <1>2, <1>3, <1>5, CoveredFits, SMT
  <1> HIDE DEF n, m
  <1>7. p \in [DOMAIN a -> Nat] /\ p[1] = n /\ p[2] = n /\ p[3] = n * m
    BY <1>1, <1>5, <1>6
  <1> QED
    BY <1>1, <1>2, <1>3, <1>5, <1>6, <1>7, UnitAssumption DEF PlanFits

\* The back-off of one contract is enough: an ETF slice needs no more shares
\* than are open, provided a share is worth at most one contract of the index.
LEMMA EtfFits ==
  ASSUME NEW s \in State, NEW a \in [1..2 -> Legs], NEW U \in Nat \ {0},
         EtfPair(s, a),
         Leg[a[2]].price \in Nat \ {0},
         Leg[a[2]].price <= U * Leg[a[1]].mult,
         NEW p \in EtfNotional(s, a[1], a[2], U)
  PROVE  PlanFits(s, a, p)
  <1> DEFINE m     == Leg[a[1]].mult
             price == Leg[a[2]].price
             q     == OpenQty(s, a[1])
             open  == OpenShares(s, a[2])
             D     == U * m * Unit
             k     == (open * price) \div D
             most  == Lesser(q, k * Unit)
             n     == IF NotionalShares(most, m, price, U) > open THEN most - Unit ELSE most
  <1>1. /\ p = <<n, NotionalShares(n, m, price, U)>>
        /\ most >= Unit
        /\ n >= Unit
    BY DEF EtfNotional
  <1>2. /\ m \in Nat \ {0} /\ price \in Nat \ {0} /\ price <= U * m
        /\ s[a[1]] \in Nat /\ s[a[2]] \in Nat
    BY LegAssumption DEF EtfPair, IsOpenOption, State
  <1>3. /\ q \in Nat /\ q <= s[a[1]]
        /\ open \in Nat /\ open <= s[a[2]]
    BY <1>2 DEF OpenQty, OpenShares
  <1> HIDE DEF m, price, q, open
  <1>4. U * m \in Nat \ {0} /\ D \in Nat \ {0} /\ open * price \in Nat
    BY <1>2, <1>3, UnitAssumption, SMT
  <1>5. k \in Nat /\ k * D <= open * price
    BY <1>4, DivBounds
  <1>6. most \in Nat /\ most <= q /\ most <= k * Unit
    <2>1. k * Unit \in Nat
      BY <1>5, UnitAssumption, SMT
    <2> QED
      BY <1>3, <2>1, LesserBounds
  <1> HIDE DEF k, most
  <1>7. n \in Nat /\ n <= most
    BY <1>1, <1>6, UnitAssumption
  <1>8. (U * m) * most <= open * price
    <2>1. (U * m) * most <= (U * m) * (k * Unit)
      BY <1>4, <1>5, <1>6, UnitAssumption, SMT
    <2>2. (U * m) * (k * Unit) = k * D
      BY <1>2, <1>5, UnitAssumption, SMT
    <2> QED
      BY <1>4, <1>5, <1>6, <2>1, <2>2, SMT
  <1> DEFINE share  == price * Unit
             value  == U * n * m
             whole  == (value + share - 1) \div share
  <1>9. /\ share \in Nat \ {0}
        /\ value \in Nat
        /\ value = (U * m) * n
        /\ NotionalShares(n, m, price, U) = whole * Unit
    BY <1>2, <1>7, UnitAssumption, SMT DEF NotionalShares
  <1>10. whole \in Nat /\ whole * share <= value + share - 1
    BY <1>9, DivBounds
  <1>11. whole * Unit \in Nat
    BY <1>10, UnitAssumption, SMT
  <1>12. whole * Unit <= open
    <2>1. CASE NotionalShares(most, m, price, U) > open
      <3>1. n = most - Unit
        BY <2>1
      <3>2. value = (U * m) * most - (U * m) * Unit
        BY <1>4, <1>6, <1>9, <3>1, UnitAssumption, SMT
      <3>3. share <= (U * m) * Unit
        BY <1>2, <1>4, UnitAssumption, MulMonotone
      <3>4. whole * share < open * price
        BY <1>4, <1>6, <1>8, <1>9, <1>10, <3>2, <3>3, UnitAssumption, SMT
      <3>5. whole * share = (whole * Unit) * price
        BY <1>2, <1>10, UnitAssumption, SMT
      <3> HIDE DEF whole, share
      <3> QED
        BY <1>2, <1>3, <1>11, <3>4, <3>5, MulCancel
    <2>2. CASE ~(NotionalShares(most, m, price, U) > open)
      <3>1. NotionalShares(n, m, price, U) <= open
        BY <1>3, <1>9, <1>11, <2>2
      <3> QED
        BY <1>9, <3>1
    <2> QED
      BY <2>1, <2>2
  <1> HIDE DEF n, whole
  <1>13. p \in [DOMAIN a -> Nat] /\ p[1] = n /\ p[2] = whole * Unit
    BY <1>1, <1>7, <1>9, <1>11
  <1> QED
    BY <1>1, <1>2, <1>3, <1>6, <1>7, <1>11, <1>12, <1>13, UnitAssumption DEF PlanFits

LEMMA PlansFit ==
  ASSUME NEW s \in State, NEW i \in DOMAIN Targets, NEW a \in Bindings(Targets[i], s),
         NEW U \in Nat,
         \A c, e \in Legs : Leg[c].kind = "option" /\ Leg[c].mult > 0 /\ Leg[e].kind = "etf"
                             /\ U > 0 => Leg[e].price <= U * Leg[c].mult,
         NEW p \in Plans(Targets[i], s, a, U)
  PROVE  PlanFits(s, a, p)
  <1> DEFINE rule == Targets[i]
             n    == Len(Slots[rule])
  <1>1. n \in Nat \ {0} /\ a \in [1..n -> Legs]
    BY BindingType
  <1>2. /\ rule \in SingleOptionRules \cup {EtfRule} => n = 2
        /\ rule \in DualOptionRules => n = 3
    BY SlotsAssumption
  <1> HIDE DEF n, rule
  <1>0. p \in Plans(rule, s, a, U)
    BY DEF rule
  <1>3. CASE rule \in OptionOnlyRules
    <2>0. rule \notin SingleOptionRules \cup DualOptionRules \cup {EtfRule}
      BY <1>3 DEF OptionOnlyRules, SingleOptionRules, DualOptionRules, EtfRule
    <2>1. p \in OptionOnly(s, a)
      BY <1>0, <1>3, <2>0 DEF Plans
    <2> QED
      BY <1>1, <2>1, OptionOnlyFits
  <1>4. CASE rule \in SingleOptionRules
    <2>0. rule \notin OptionOnlyRules \cup DualOptionRules \cup {EtfRule}
      BY <1>4 DEF OptionOnlyRules, SingleOptionRules, DualOptionRules, EtfRule
    <2>1. p \in SingleOptionStock(s, a[1], a[2])
      BY <1>0, <1>4, <2>0 DEF Plans
    <2>2. a \in [1..2 -> Legs]
      BY <1>1, <1>2, <1>4
    <2> QED
      BY <2>1, <2>2, SingleOptionFits
  <1>5. CASE rule \in DualOptionRules
    <2>0. rule \notin OptionOnlyRules \cup SingleOptionRules \cup {EtfRule}
      BY <1>5 DEF OptionOnlyRules, SingleOptionRules, DualOptionRules, EtfRule
    <2>1. p \in DualOptionStock(s, a[1], a[2], a[3])
      BY <1>0, <1>5, <2>0 DEF Plans
    <2>2. a \in [1..3 -> Legs]
      BY <1>1, <1>2, <1>5
    <2> QED
      BY <2>1, <2>2, DualOptionFits
  <1>6. CASE rule = EtfRule
    <2>0. rule \notin OptionOnlyRules \cup SingleOptionRules \cup DualOptionRules
      BY <1>6 DEF OptionOnlyRules, SingleOptionRules, DualOptionRules, EtfRule
    <2>1. /\ EtfPair(s, a) /\ ~PlanFails(rule, s, a, U)
          /\ p \in EtfNotional(s, a[1], a[2], U)
      BY <1>0, <1>6, <2>0 DEF Plans
    <2>2. Leg[a[2]].price > 0 /\ U > 0
      BY <1>6, <2>1 DEF PlanFails
    <2>3. a \in [1..2 -> Legs]
      BY <1>1, <1>2, <1>6
    <2>4. a[1] \in Legs /\ a[2] \in Legs
      BY <2>3
    <2>5. Leg[a[2]].price \in Nat \ {0} /\ U \in Nat \ {0}
      BY <2>2, <2>4, LegAssumption
    <2>6. Leg[a[2]].price <= U * Leg[a[1]].mult
      BY <2>1, <2>2, <2>4 DEF EtfPair, IsOpenOption, IsOpen
    <2> QED
      BY <2>1, <2>3, <2>5, <2>6, EtfFits
  <1>7. CASE rule \notin OptionOnlyRules \cup SingleOptionRules \cup DualOptionRules \cup {EtfRule}
    BY <1>0, <1>7 DEF Plans
  <1> QED
    BY <1>3, <1>4, <1>5, <1>6, <1>7

-----------------------------------------------------------------------------
(***************************************************************************)
(* What a plan takes and what it leaves.                                   *)
(***************************************************************************)
LEMMA TakenType ==
  ASSUME NEW s \in State, NEW n \in Nat, NEW a \in [1..n -> Legs],
         \A j, k \in DOMAIN a : a[j] = a[k] => j = k,
         NEW p \in [DOMAIN a -> Nat], \A i \in DOMAIN a : p[i] <= s[a[i]]
  PROVE  /\ Taken(a, p) \in [Legs -> Nat]
         /\ \A l \in Legs : Taken(a, p)[l] <= s[l]
         /\ \A i \in DOMAIN a : Taken(a, p)[a[i]] = p[i]
  <1>1. ASSUME NEW l \in Legs
        PROVE  Taken(a, p)[l] \in Nat /\ Taken(a, p)[l] <= s[l]
    <2>1. CASE \E i \in DOMAIN a : a[i] = l
      <3>1. PICK i \in DOMAIN a : i = (CHOOSE j \in DOMAIN a : a[j] = l) /\ a[i] = l
        BY <2>1
      <3>2. Taken(a, p)[l] = p[i]
        BY <2>1, <3>1 DEF Taken
      <3> QED
        BY <3>1, <3>2
    <2>2. CASE ~\E i \in DOMAIN a : a[i] = l
      BY <2>2 DEF Taken, State
    <2> QED
      BY <2>1, <2>2
  <1>2. ASSUME NEW i \in DOMAIN a
        PROVE  Taken(a, p)[a[i]] = p[i]
    <2>1. a[i] \in Legs
      OBVIOUS
    <2>2. (CHOOSE j \in DOMAIN a : a[j] = a[i]) = i
      OBVIOUS
    <2> QED
      BY <2>1, <2>2 DEF Taken
  <1>3. Taken(a, p) \in [Legs -> Nat]
    BY <1>1 DEF Taken
  <1> QED
    BY <1>1, <1>2, <1>3

LEMMA RemainderType ==
  ASSUME NEW s \in State, NEW n \in Nat, NEW a \in [1..n -> Legs],
         \A j, k \in DOMAIN a : a[j] = a[k] => j = k,
         NEW p \in [DOMAIN a -> Nat], \A i \in DOMAIN a : p[i] <= s[a[i]]
  PROVE  Remainder(s, a, p) \in State
  <1>1. Taken(a, p) \in [Legs -> Nat]
    BY TakenType
  <1>2. \A l \in Legs : s[l] \in Nat
    BY DEF State
  <1> QED
    BY <1>1, <1>2 DEF Remainder, State

\* Nothing is lost and nothing is attributed twice by a slice.
LEMMA SliceAddsUp ==
  ASSUME NEW s \in State, NEW a, NEW p, NEW l \in Legs,
         Taken(a, p) \in [Legs -> Nat], Taken(a, p)[l] <= s[l]
  PROVE  Taken(a, p)[l] + Remainder(s, a, p)[l] = s[l]
  <1>1. s[l] \in Nat /\ Taken(a, p)[l] \in Nat
    BY DEF State
  <1> QED
    BY <1>1 DEF Remainder

\* The memo key tells states apart.
LEMMA KeyInjective ==
  ASSUME NEW s \in State, NEW t \in State, Key(s) = Key(t)
  PROVE  s = t
  <1>1. ASSUME NEW l \in Legs
        PROVE  s[l] = t[l]
    <2>1. s[l] \in Nat /\ t[l] \in Nat
      BY DEF State
    <2>2. s[l] > 0 => <<l, s[l]>> \in Key(t)
      BY DEF Key, OpenLegs
    <2>3. t[l] > 0 => <<l, t[l]>> \in Key(s)
      BY DEF Key, OpenLegs
    <2> QED
      BY <2>1, <2>2, <2>3 DEF Key, OpenLegs
  <1> QED
    BY <1>1 DEF State
=============================================================================
