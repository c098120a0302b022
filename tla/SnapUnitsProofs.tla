-------------------------- MODULE SnapUnitsProofs --------------------------
(***************************************************************************)
(* The snapping loop, wherever it stops, stops at the plan OptionOnly      *)
(* promises, for every set of contract sizes and fractional quantities.    *)
(*                                                                         *)
(* The argument: no common whole-contract amount is ever passed, since     *)
(* what is a multiple of a contract is at most the amount snapped to that  *)
(* contract; and a pass that lowered nothing has seen that units is a      *)
(* multiple of every contract, so that it is such an amount itself.        *)
(***************************************************************************)
EXTENDS SnapUnits, TemplatesProofs

LEMMA DivMod ==
  ASSUME NEW x \in Nat, NEW d \in Nat \ {0}
  PROVE  x % d = x - (x \div d) * d
  <1>1. x % d = x - d * (x \div d)
    BY SMT
  <1>2. d * (x \div d) = (x \div d) * d
    BY DivBounds
  <1> QED
    BY <1>1, <1>2

\* Snapping to d does not go past a multiple of d.
LEMMA SnapKeepsMultiples ==
  ASSUME NEW x \in Nat, NEW v \in Nat, NEW d \in Nat \ {0}, v <= x, v % d = 0
  PROVE  v <= (x \div d) * d
  <1> DEFINE q == v \div d
             k == x \div d
  <1>1. q \in Nat /\ v = q * d
    BY DivMod, DivBounds
  <1>2. k \in Nat /\ x < k * d + d
    BY DivBounds
  <1> HIDE DEF q, k
  <1>3. (k + 1) * d = k * d + d
    BY <1>2
  <1>4. q * d < (k + 1) * d
    BY <1>1, <1>2, <1>3
  <1>5. q < k + 1
    BY <1>1, <1>2, <1>4, MulCancel
  <1>6. q * d <= k * d
    BY <1>1, <1>2, <1>5, MulMonotone
  <1> QED
    BY <1>1, <1>6 DEF k

-----------------------------------------------------------------------------
(***************************************************************************)
(* The inductive invariant.                                                *)
(***************************************************************************)
\* A binding of open options in a state.
Bound ==
  /\ s \in State
  /\ \E n \in Nat \ {0} : a \in [1..n -> Legs]
  /\ \A i \in DOMAIN a : IsOpenOption(s, a[i])

\* What the loop has established: every slot can deliver units, and a pass that
\* has lowered nothing so far has found a multiple of every contract it came to.
Snapping ==
  /\ units \in Nat /\ slot \in Nat \ {0}
  /\ \A i \in DOMAIN a : units <= Deliverable(i)
  /\ ~changed => \A i \in DOMAIN a : i < slot => units % Contract(i) = 0
  /\ pc \in {"snap", "done"}
  /\ pc = "done" => slot \notin DOMAIN a /\ ~changed

SnapInv == Bound /\ Snapping /\ NeverOvershoots

LEMMA ContractType ==
  ASSUME Bound, NEW i \in DOMAIN a
  PROVE  /\ Leg[a[i]].mult \in Nat \ {0} /\ Contract(i) \in Nat \ {0}
         /\ OpenQty(s, a[i]) \in Nat /\ OpenQty(s, a[i]) <= s[a[i]]
         /\ Deliverable(i) \in Nat
  <1>1. a[i] \in Legs /\ Leg[a[i]].mult > 0 /\ s[a[i]] \in Nat
    BY DEF Bound, IsOpenOption, State
  <1>2. Leg[a[i]].mult \in Nat \ {0}
    BY <1>1, LegAssumption
  <1>3. OpenQty(s, a[i]) \in Nat /\ OpenQty(s, a[i]) <= s[a[i]]
    BY <1>1 DEF OpenQty
  <1>4. Contract(i) \in Nat \ {0}
    BY <1>2, UnitAssumption, SMT DEF Contract
  <1>5. Deliverable(i) \in Nat
    BY <1>2, <1>3, SMT DEF Deliverable
  <1> QED
    BY <1>2, <1>3, <1>4, <1>5

LEMMA CommonType ==
  ASSUME Bound
  PROVE  /\ CommonUnits(s, a) \subseteq Nat
         /\ \A v \in CommonUnits(s, a), i \in DOMAIN a :
              v <= Deliverable(i) /\ v % Contract(i) = 0
  <1>1. 1 \in DOMAIN a
    BY DEF Bound
  <1>2. /\ Leg[a[1]].mult * Unit \in Nat
        /\ s[a[1]] \in Nat
    BY <1>1, ContractType DEF Contract, Bound, State
  <1>3. \A k \in 0..s[a[1]] : k * (Leg[a[1]].mult * Unit) \in Nat
    BY <1>2
  <1> QED
    BY <1>3 DEF CommonUnits, Deliverable, Contract

LEMMA InitSnap == Init => SnapInv
  <1> SUFFICES ASSUME Init PROVE SnapInv
    OBVIOUS
  <1>1. Bound
    <2>1. s \in State
      BY StartsAssumption DEF Init
    <2>2. PICK i \in DOMAIN Targets : a \in Bindings(Targets[i], s)
      BY DEF Init
    <2>3. Len(Slots[Targets[i]]) \in Nat \ {0} /\ a \in [1..Len(Slots[Targets[i]]) -> Legs]
      BY <2>1, <2>2, BindingType
    <2> QED
      BY <2>1, <2>3 DEF Init, Bound
  <1>2. PICK i \in DOMAIN a : units = Deliverable(i)
    BY DEF Init
  <1>3. units \in Nat /\ \A j \in DOMAIN a : units <= Deliverable(j)
    BY <1>1, <1>2, ContractType DEF Init
  <1>4. Snapping
    <2>1. \A j \in DOMAIN a : ~(j < 1)
      BY <1>1 DEF Bound
    <2> QED
      BY <1>3, <2>1 DEF Init, Snapping
  <1>5. NeverOvershoots
    BY <1>1, <1>2, CommonType DEF NeverOvershoots
  <1> QED
    BY <1>1, <1>4, <1>5 DEF SnapInv

LEMMA StepSnap == SnapInv /\ [Next]_vars => SnapInv'
  <1> SUFFICES ASSUME SnapInv, [Next]_vars PROVE SnapInv'
    OBVIOUS
  <1> USE DEF SnapInv
  <1>0. s' = s /\ a' = a /\ Bound' /\ DOMAIN a \subseteq Nat
    BY DEF Next, Lower, Keep, Again, Stop, vars, Bound, IsOpenOption
  <1>1. \A i \in DOMAIN a : Deliverable(i)' = Deliverable(i) /\ Contract(i)' = Contract(i)
    BY <1>0 DEF Deliverable, Contract
  <1>2. CommonUnits(s, a)' = CommonUnits(s, a)
    BY <1>0 DEF CommonUnits
  <1>3. ASSUME slot \in DOMAIN a
        PROVE  /\ Snapped \in Nat /\ Snapped <= units
               /\ \A v \in CommonUnits(s, a) : v <= Snapped
               /\ Snapped >= units => units % Contract(slot) = 0
    <2> DEFINE d == Contract(slot)
               k == units \div d
    <2>1. d \in Nat \ {0} /\ units \in Nat
      BY <1>3, ContractType DEF Snapping
    <2>2. k \in Nat /\ k * d <= units /\ units % d = units - k * d
      BY <2>1, DivBounds, DivMod
    <2>3. \A v \in CommonUnits(s, a) : v \in Nat /\ v <= units /\ v % d = 0
      BY <1>3, CommonType DEF NeverOvershoots
    <2>4. Snapped = k * d
      BY DEF Snapped
    <2>5. \A v \in CommonUnits(s, a) : v <= k * d
      BY <2>1, <2>3, SnapKeepsMultiples
    <2> HIDE DEF d, k
    <2>6. k * d \in Nat
      BY <2>1, <2>2, SMT
    <2>7. k * d >= units => units % d = 0
      BY <2>1, <2>2, <2>6
    <2> QED
      BY <2>2, <2>4, <2>5, <2>6, <2>7 DEF d
  <1>4. CASE Lower
    <2>1. /\ slot \in DOMAIN a /\ pc = "snap"
          /\ units' = Snapped /\ changed' /\ slot' = slot + 1 /\ pc' = pc
      BY <1>4 DEF Lower
    <2>2. \A i \in DOMAIN a : Snapped <= Deliverable(i)
      BY <1>3, <2>1, ContractType DEF Snapping
    <2>3. Snapping'
      BY <1>0, <1>1, <1>3, <2>1, <2>2 DEF Snapping
    <2>4. NeverOvershoots'
      BY <1>2, <1>3, <2>1 DEF NeverOvershoots
    <2> QED
      BY <1>0, <2>3, <2>4
  <1>5. CASE Keep
    <2>1. /\ slot \in DOMAIN a /\ pc = "snap"
          /\ Snapped >= units /\ slot' = slot + 1 /\ UNCHANGED <<units, changed, pc>>
      BY <1>5 DEF Keep
    <2>2. \A i \in DOMAIN a : i < slot + 1 => i < slot \/ i = slot
      BY <1>0, <2>1
    <2>3. Snapping'
      BY <1>0, <1>1, <1>3, <2>1, <2>2 DEF Snapping
    <2>4. NeverOvershoots'
      BY <1>2, <2>1 DEF NeverOvershoots
    <2> QED
      BY <1>0, <2>3, <2>4
  <1>6. CASE Again
    <2>1. pc = "snap" /\ slot' = 1 /\ UNCHANGED <<units, pc>>
      BY <1>6 DEF Again
    <2>2. \A i \in DOMAIN a : ~(i < 1)
      BY DEF Bound
    <2> QED
      BY <1>0, <1>1, <1>2, <2>1, <2>2 DEF Snapping, NeverOvershoots
  <1>7. CASE Stop
    BY <1>0, <1>1, <1>2, <1>7 DEF Stop, Snapping, NeverOvershoots
  <1>8. CASE UNCHANGED vars
    BY <1>0, <1>1, <1>2, <1>8 DEF vars, Snapping, NeverOvershoots
  <1> QED
    BY <1>4, <1>5, <1>6, <1>7, <1>8 DEF Next

\* No whole-contract slice that all slots could give is passed, for every mix of
\* contract sizes.
THEOREM NoSlicePassed == Spec => []NeverOvershoots
  <1>1. SnapInv => NeverOvershoots
    BY DEF SnapInv
  <1> QED
    BY <1>1, InitSnap, StepSnap, PTL DEF Spec

-----------------------------------------------------------------------------
\* Once a pass has changed nothing, units is a common whole-contract amount.
LEMMA StopsAtCommon ==
  ASSUME SnapInv, pc = "done"
  PROVE  units \in CommonUnits(s, a)
  <1>1. PICK n \in Nat \ {0} : a \in [1..n -> Legs]
    BY DEF SnapInv, Bound
  <1>2. \A i \in DOMAIN a : units % Contract(i) = 0 /\ units <= Deliverable(i)
    <2>1. \A i \in DOMAIN a : i < slot
      BY <1>1 DEF SnapInv, Snapping
    <2> QED
      BY <2>1 DEF SnapInv, Snapping
  <1> DEFINE m == Leg[a[1]].mult
             q == OpenQty(s, a[1])
             d == m * Unit
             k == units \div d
  <1>3. 1 \in DOMAIN a
    BY <1>1
  <1>4. /\ m \in Nat \ {0} /\ d \in Nat \ {0} /\ q \in Nat /\ q <= s[a[1]] /\ s[a[1]] \in Nat
        /\ units \in Nat /\ units <= q * m /\ units % d = 0
    BY <1>1, <1>2, <1>3, ContractType DEF SnapInv, Snapping, Bound, State, Contract, Deliverable
  <1>5. k \in Nat /\ units = k * d
    <2>1. k \in Nat /\ units % d = units - k * d
      BY <1>4, DivBounds, DivMod
    <2> HIDE DEF m, q, d, k
    <2> QED
      BY <1>4, <2>1
  <1> HIDE DEF k
  <1>6. k \in 0..s[a[1]]
    <2>1. k * d = (k * Unit) * m /\ k * Unit \in Nat
      BY <1>4, <1>5, UnitAssumption, SMT
    <2> HIDE DEF m, q, d
    <2>2. k * Unit <= q
      BY <1>4, <1>5, <2>1, MulCancel
    <2>3. k * 1 <= k * Unit
      BY <1>5, UnitAssumption, MulMonotone
    <2> QED
      BY <1>4, <1>5, <2>1, <2>2, <2>3
  <1>7. units \in {h * d : h \in 0..s[a[1]]}
    BY <1>5, <1>6
  <1> QED
    BY <1>2, <1>7 DEF CommonUnits, Contract, Deliverable

\* When the loop stops, the plan it makes is the largest whole-contract slice.
THEOREM LargestSlice == Spec => []StopsAtLargestSlice
  <1>1. SnapInv => StopsAtLargestSlice
    <2> SUFFICES ASSUME SnapInv, pc = "done" PROVE SnappedPlan = OptionOnly(s, a)
      BY DEF StopsAtLargestSlice
    <2> DEFINE most == {u \in CommonUnits(s, a) : \A v \in CommonUnits(s, a) : v <= u}
               fits(u) == \A i \in DOMAIN a : u \div Leg[a[i]].mult >= Unit
               plan(u) == [i \in DOMAIN a |-> u \div Leg[a[i]].mult]
    <2>1. units \in CommonUnits(s, a) /\ CommonUnits(s, a) \subseteq Nat
      BY StopsAtCommon, CommonType DEF SnapInv
    <2>2. most = {units}
      BY <2>1 DEF SnapInv, NeverOvershoots
    <2>3. OptionOnly(s, a) = {plan(u) : u \in {u \in most : fits(u)}}
      <3>1. \A i \in DOMAIN a : IsOpenOption(s, a[i])
        BY DEF SnapInv, Bound
      <3>2. {u \in CommonUnits(s, a) : /\ \A v \in CommonUnits(s, a) : v <= u
                                       /\ \A i \in DOMAIN a : u \div Leg[a[i]].mult >= Unit}
            = {u \in most : fits(u)}
        OBVIOUS
      <3> HIDE DEF most, fits
      <3> QED
        BY <3>1, <3>2 DEF OptionOnly
    <2>4. SnappedPlan = IF fits(units) THEN {plan(units)} ELSE {}
      <3>1. (\E i \in DOMAIN a : units \div Leg[a[i]].mult < Unit) <=> ~fits(units)
        <4>1. \A i \in DOMAIN a : units \div Leg[a[i]].mult \in Nat
          BY <2>1, ContractType, DivBounds DEF SnapInv
        <4> QED
          BY <4>1, UnitAssumption
      <3> QED
        BY <3>1 DEF SnappedPlan
    <2> HIDE DEF most, fits, plan
    <2> QED
      BY <2>2, <2>3, <2>4
  <1> QED
    BY <1>1, InitSnap, StepSnap, PTL DEF Spec
=============================================================================
