-------------------------- MODULE DecomposeProofs --------------------------
(***************************************************************************)
(* Every Decomposition that Optimize returns accounts for its input, for   *)
(* every set of legs, rulebook and input.                                  *)
(*                                                                         *)
(* The argument: along the stack every activation works on what the one    *)
(* below it left of its own state (StackOK), each activation's candidates  *)
(* account for its state (FrameOK), so each return value accounts for the  *)
(* state the caller handed down, and the memo's entries for the states     *)
(* their keys stand for.                                                   *)
(*                                                                         *)
(* Five arguments build on it: states grow smaller along the stack, so     *)
(* none is worked twice (DescentInv); requirements and attributions add up *)
(* (SumsInv); the nodes are the slices of the states in the memo           *)
(* (CountInv); sub-positions can be replayed one after the other, so that  *)
(* Decompose implements Optimizer (ReplayInv); and no first slice beats an *)
(* answer (CheapInv), so that, by induction on the number of slices, no    *)
(* decomposition does.                                                     *)
(***************************************************************************)
EXTENDS Decompose, TemplatesProofs, SequenceTheorems, FiniteTheorems

-----------------------------------------------------------------------------
(***************************************************************************)
(* The inductive invariant.                                                *)
(***************************************************************************)
\* A slice of the state s and the rest are the whole state.
Adds(s, sub, rest) ==
  /\ Taken(sub.legs, sub.amt) \in [Legs -> Nat]
  /\ \A l \in Legs : Taken(sub.legs, sub.amt)[l] + rest[l] = s[l]

Splits(f) == Adds(f.state, f.sub, f.rest)

\* The residual legs scored so far are attributed in full, or not at all when
\* an error stands for them.
Scores(f) ==
  /\ f.left \subseteq OpenLegs(f.state)
  /\ \A l \in Legs : f.res.used[l] \in {0, f.state[l]}
  /\ \A l \in f.left : f.res.used[l] = 0
  /\ f.res.err.kind = "none" => \A l \in Legs \ f.left : f.res.used[l] = f.state[l]
  /\ f.res.err.kind \in {"stock", "naked"} =>
       /\ f.res.err.leg \in Legs \ f.left
       /\ f.state[f.res.err.leg] > 0
       /\ f.res.used[f.res.err.leg] = 0
  /\ f.res.err.kind = "stock" => f.res.err.open = f.state[f.res.err.leg]

FrameOK(f) ==
  /\ f \in Frame
  /\ f.todo \subseteq Offers(f.state)
  /\ Splits(f)
  /\ Scores(f)
  /\ f.have => AccountsFor(f.best, f.state)

\* The state that the activation above the i-th works on; s is the outermost.
Handed(st, s, i) == IF i = 0 THEN s ELSE st[i].rest

StackOK(st, s) ==
  /\ st \in Seq(Frame)
  /\ \A i \in 1..Len(st) : FrameOK(st[i]) /\ st[i].state = Handed(st, s, i - 1)

MemoOK ==
  \A k \in DOMAIN memo : /\ memo[k] \in Decomposition
                         /\ \E s \in State : k = Key(s) /\ AccountsFor(memo[k], s)

ControlOK ==
  /\ pc \in {"idle", "done"} => stack = <<>>
  /\ pc = "scan" => stack # <<>>
  /\ pc = "call" => arg = Handed(stack, start, Len(stack))
  /\ pc = "return" => AccountsFor(ret, Handed(stack, start, Len(stack)))
  /\ pc = "done" => AccountsFor(ret, start)

RegistersOK ==
  /\ pc \in {"idle", "call", "scan", "return", "done"}
  /\ facts \in Facts
  /\ start \in State
  /\ arg \in State
  /\ ret \in Decomposition
  /\ nodes \in Nat

IInv == RegistersOK /\ StackOK(stack, start) /\ MemoOK /\ ControlOK

-----------------------------------------------------------------------------
(***************************************************************************)
(* The stack.                                                              *)
(***************************************************************************)
LEMMA StackTop ==
  ASSUME NEW st, NEW s, StackOK(st, s), st # <<>>
  PROVE  Len(st) \in Nat \ {0} /\ FrameOK(st[Len(st)])
  BY DEF StackOK

LEMMA StackPush ==
  ASSUME NEW st, NEW s, StackOK(st, s), NEW f, FrameOK(f), f.state = Handed(st, s, Len(st))
  PROVE  /\ StackOK(Append(st, f), s)
         /\ Append(st, f) # <<>>
  <1> DEFINE new == Append(st, f)
  <1>1. /\ new \in Seq(Frame)
        /\ Len(new) = Len(st) + 1
        /\ \A i \in 1..Len(st) : new[i] = st[i]
        /\ new[Len(st) + 1] = f
    BY DEF StackOK, FrameOK
  <1>2. Len(st) \in Nat
    BY DEF StackOK
  <1> HIDE DEF new
  <1>3. ASSUME NEW i \in 1..Len(new)
        PROVE  FrameOK(new[i]) /\ new[i].state = Handed(new, s, i - 1)
    <2>1. CASE i = Len(st) + 1
      <3>1. Handed(new, s, i - 1) = Handed(st, s, i - 1)
        BY <1>1, <1>2, <2>1 DEF Handed
      <3> QED
        BY <1>1, <1>2, <2>1, <3>1
    <2>2. CASE i \in 1..Len(st)
      <3>1. Handed(new, s, i - 1) = Handed(st, s, i - 1)
        BY <1>1, <1>2, <2>2 DEF Handed
      <3> QED
        BY <1>1, <1>2, <2>2, <3>1 DEF StackOK
    <2> QED
      BY <1>1, <1>2, <2>1, <2>2
  <1>4. new # <<>>
    BY <1>1, <1>2
  <1> QED
    BY <1>1, <1>3, <1>4 DEF StackOK, new

\* The stack without its top.
LEMMA WithoutTop ==
  ASSUME NEW st \in Seq(Frame), st # <<>>
  PROVE  LET pre == SubSeq(st, 1, Len(st) - 1)
         IN  /\ pre \in Seq(Frame) /\ Len(st) = Len(pre) + 1
             /\ \A i \in 1..Len(pre) : st[i] = pre[i]
  <1> DEFINE n == Len(st) - 1
  <1>1. n \in Nat /\ Len(st) = n + 1 /\ \A i \in 1..n : st[i] \in Frame
    OBVIOUS
  <1> HIDE DEF n
  <1>2. /\ SubSeq(st, 1, n) \in Seq(Frame)
        /\ Len(SubSeq(st, 1, n)) = IF 1 <= n THEN n - 1 + 1 ELSE 0
        /\ \A i \in 1..(n - 1 + 1) : SubSeq(st, 1, n)[i] = st[1 + i - 1]
    BY <1>1, SubSeqProperties
  <1>3. Len(SubSeq(st, 1, n)) = n /\ \A i \in 1..n : SubSeq(st, 1, n)[i] = st[i]
    BY <1>1, <1>2
  <1> QED
    BY <1>1, <1>2, <1>3 DEF n

LEMMA StackPop ==
  ASSUME NEW st, NEW s, StackOK(st, s), st # <<>>
  PROVE  LET new == SubSeq(st, 1, Len(st) - 1)
         IN  /\ StackOK(new, s)
             /\ Handed(new, s, Len(new)) = st[Len(st)].state
  <1> DEFINE new == SubSeq(st, 1, Len(st) - 1)
  <1>1. Len(st) \in Nat \ {0} /\ st \in Seq(Frame)
    BY DEF StackOK
  <1>2. /\ new \in Seq(Frame)
        /\ Len(new) = Len(st) - 1
        /\ \A i \in 1..Len(new) : new[i] = st[i]
    BY <1>1, WithoutTop
  <1> HIDE DEF new
  <1>3. \A i \in 0..Len(new) : Handed(new, s, i) = Handed(st, s, i)
    BY <1>1, <1>2 DEF Handed
  <1>4. \A i \in 1..Len(new) : FrameOK(new[i]) /\ new[i].state = Handed(new, s, i - 1)
    BY <1>1, <1>2, <1>3 DEF StackOK
  <1>5. Handed(new, s, Len(new)) = st[Len(st)].state
    BY <1>1, <1>2, <1>3 DEF StackOK
  <1> QED
    BY <1>2, <1>4, <1>5 DEF StackOK, new

LEMMA StackReplaceTop ==
  ASSUME NEW st, NEW s, StackOK(st, s), st # <<>>,
         NEW f, FrameOK(f), f.state = st[Len(st)].state
  PROVE  LET new == [st EXCEPT ![Len(st)] = f]
         IN  /\ StackOK(new, s)
             /\ new # <<>>
             /\ Handed(new, s, Len(new)) = f.rest
  <1> DEFINE new == [st EXCEPT ![Len(st)] = f]
  <1>1. Len(st) \in Nat \ {0} /\ st \in Seq(Frame) /\ f \in Frame
    BY DEF StackOK, FrameOK
  <1>2. /\ new \in Seq(Frame)
        /\ Len(new) = Len(st)
        /\ \A i \in 1..Len(st) : new[i] = IF i = Len(st) THEN f ELSE st[i]
    BY <1>1
  <1> HIDE DEF new
  <1>3. \A i \in 0..(Len(st) - 1) : Handed(new, s, i) = Handed(st, s, i)
    BY <1>1, <1>2 DEF Handed
  <1>4. \A i \in 1..Len(new) : FrameOK(new[i]) /\ new[i].state = Handed(new, s, i - 1)
    BY <1>1, <1>2, <1>3 DEF StackOK
  <1>5. Handed(new, s, Len(new)) = f.rest
    BY <1>1, <1>2 DEF Handed
  <1>6. new # <<>>
    BY <1>1, <1>2
  <1> QED
    BY <1>2, <1>4, <1>5, <1>6 DEF StackOK, new

-----------------------------------------------------------------------------
(***************************************************************************)
(* Types.                                                                  *)
(***************************************************************************)
LEMMA FunctionIsSeq ==
  ASSUME NEW S, NEW n \in Nat, NEW g \in [1..n -> S]
  PROVE  g \in Seq(S)
  BY SeqDef

LEMMA BindingIsSeq ==
  ASSUME NEW n \in Nat, NEW a \in [1..n -> Legs]
  PROVE  a \in Seq(Nat)
  BY FunctionIsSeq, SeqMonotonic, LegsAssumption

LEMMA NothingType == Nothing \in State /\ Nothing \in [Legs -> Nat]
  BY DEF Nothing, State

LEMMA EmptyDecompositionType ==
  /\ EmptyDecomposition \in Decomposition
  /\ HardCarrier \in Decomposition
  /\ [EmptyDecomposition EXCEPT !.err = Invalid] \in Decomposition
  <1>1. <<>> \in Seq(SubPosition)
    BY EmptySeq
  <1>2. NoError \in Error /\ Hard \in Error /\ Invalid \in Error
    BY DEF Error, NoError, Hard, Invalid
  <1>3. EmptyDecomposition \in Decomposition
    BY <1>1, <1>2, NothingType DEF EmptyDecomposition, Decomposition
  <1> QED
    BY <1>2, <1>3 DEF HardCarrier, Decomposition

\* A carrier that attributes nothing and has an error that names no leg
\* accounts for every state.
LEMMA CarrierAccounts ==
  ASSUME NEW s \in State
  PROVE  /\ AccountsFor(HardCarrier, s)
         /\ AccountsFor([EmptyDecomposition EXCEPT !.err = Invalid], s)
  BY DEF AccountsFor, HardCarrier, EmptyDecomposition, Nothing, Hard, Invalid, State

LEMMA EmptyAccounts ==
  ASSUME NEW s \in State, OpenLegs(s) = {}
  PROVE  AccountsFor(EmptyDecomposition, s)
  <1>1. \A l \in Legs : s[l] = 0
    BY DEF OpenLegs, State
  <1>2. s = Nothing
    BY <1>1 DEF State, Nothing
  <1> QED
    BY <1>2, NothingType DEF AccountsFor, EmptyDecomposition, NoError, State

LEMMA OffersType ==
  ASSUME NEW s \in State, NEW c \in Offers(s)
  PROVE  /\ c[1] \in DOMAIN Targets
         /\ c[2] \in Bindings(Targets[c[1]], s)
         /\ c \in Choice
  <1>1. PICK i \in DOMAIN Targets : \E a \in Bindings(Targets[i], s) : c = <<i, a>>
    BY DEF Offers
  <1>2. PICK a \in Bindings(Targets[i], s) : c = <<i, a>>
    BY <1>1
  <1>3. a \in [1..Len(Slots[Targets[i]]) -> Legs] /\ Len(Slots[Targets[i]]) \in Nat
    BY BindingType
  <1>4. a \in Seq(Nat)
    BY <1>3, BindingIsSeq
  <1>5. i \in Nat
    BY TargetsAssumption
  <1> QED
    BY <1>2, <1>4, <1>5 DEF Choice

-----------------------------------------------------------------------------
(***************************************************************************)
(* Activations.                                                            *)
(***************************************************************************)
LEMMA NewFrameOK ==
  ASSUME NEW s \in State
  PROVE  FrameOK(NewFrame(s)) /\ NewFrame(s).state = s
  <1> DEFINE f == NewFrame(s)
  <1>1. /\ f.state = s /\ f.rest = s /\ f.todo = Offers(s) /\ f.sub = NoSub
        /\ f.have = FALSE /\ f.left = OpenLegs(s) /\ f.res = EmptyDecomposition
        /\ f.best = EmptyDecomposition
    BY DEF NewFrame
  <1>2. NoSub \in SubPosition
    <2>1. <<>> \in Seq(Nat)
      BY EmptySeq
    <2> QED
      BY <2>1 DEF NoSub, SubPosition, RuleID
  <1>3. f \in Frame
    <2>1. Offers(s) \subseteq Choice
      BY OffersType
    <2>2. OpenLegs(s) \subseteq Legs
      BY DEF OpenLegs
    <2> QED
      BY <1>2, <2>1, <2>2, EmptyDecompositionType DEF Frame, NewFrame
  <1>4. Splits(f)
    <2>1. Taken(NoSub.legs, NoSub.amt) = Nothing
      BY DEF Taken, NoSub, Nothing
    <2> QED
      BY <1>1, <2>1, NothingType DEF Splits, Adds, Nothing, State
  <1>5. Scores(f)
    BY <1>1 DEF Scores, OpenLegs, EmptyDecomposition, Nothing, NoError, State
  <1> HIDE DEF f
  <1>6. FrameOK(f)
    BY <1>1, <1>3, <1>4, <1>5 DEF FrameOK
  <1> QED
    BY <1>1, <1>6 DEF f

LEMMA SkipFrameOK ==
  ASSUME NEW f, FrameOK(f), NEW c
  PROVE  LET g == [f EXCEPT !.todo = @ \ {c}]
         IN  FrameOK(g) /\ g.state = f.state
  BY DEF FrameOK, Frame, Splits, Adds, Scores

\* A slice taken of the state and the remainder decompose recurses on.
LEMMA SliceOK ==
  ASSUME NEW f, FrameOK(f), NEW c \in f.todo, NEW fct \in Facts,
         NEW p \in Plans(Targets[c[1]], f.state, c[2], fct.U), NEW o, Fits(o)
  PROVE  /\ ScoredSub(Targets[c[1]], c[2], p, o) \in SubPosition
         /\ Remainder(f.state, c[2], p) \in State
         /\ Adds(f.state, ScoredSub(Targets[c[1]], c[2], p, o), Remainder(f.state, c[2], p))
  <1> DEFINE s   == f.state
             a   == c[2]
             n   == Len(Slots[Targets[c[1]]])
             sub == ScoredSub(Targets[c[1]], a, p, o)
  <1>1. s \in State /\ c \in Offers(s)
    BY DEF FrameOK, Frame
  <1>2. c[1] \in DOMAIN Targets /\ a \in Bindings(Targets[c[1]], s)
    BY <1>1, OffersType
  <1>3. /\ n \in Nat /\ a \in [1..n -> Legs]
        /\ \A j, k \in DOMAIN a : a[j] = a[k] => j = k
    BY <1>1, <1>2, BindingType
  <1>4. PlanFits(s, a, p)
    BY <1>1, <1>2, PlansFit, FactsAssumption, EtfPriceAssumption
  <1>5. p \in [DOMAIN a -> Nat] /\ \A i \in DOMAIN a : p[i] <= s[a[i]]
    BY <1>4 DEF PlanFits
  <1> HIDE DEF s, a, n
  <1>6. /\ Taken(a, p) \in [Legs -> Nat]
        /\ Remainder(s, a, p) \in State
        /\ \A l \in Legs : Taken(a, p)[l] + Remainder(s, a, p)[l] = s[l]
    <2>1. /\ Taken(a, p) \in [Legs -> Nat]
          /\ \A l \in Legs : Taken(a, p)[l] <= s[l]
      BY <1>1, <1>3, <1>5, TakenType
    <2>2. Remainder(s, a, p) \in State
      BY <1>1, <1>3, <1>5, RemainderType
    <2>3. \A l \in Legs : Taken(a, p)[l] + Remainder(s, a, p)[l] = s[l]
      BY <1>1, <2>1, SliceAddsUp
    <2> QED
      BY <2>1, <2>2, <2>3
  <1>7. sub \in SubPosition
    <2>1. Targets[c[1]] \in RuleID
      BY <1>2 DEF RuleID
    <2>2. a \in Seq(Nat)
      BY <1>3, BindingIsSeq
    <2>3. p \in [1..n -> Nat]
      BY <1>3, <1>5
    <2>4. p \in Seq(Nat)
      BY <1>3, <2>3, FunctionIsSeq
    <2>5. o.req \in Int
      BY DEF Fits, Fails
    <2> QED
      BY <2>1, <2>2, <2>4, <2>5 DEF ScoredSub, SubPosition
  <1>8. sub.legs = a /\ sub.amt = p
    BY DEF ScoredSub
  <1>9. Adds(s, sub, Remainder(s, a, p))
    BY <1>6, <1>8 DEF Adds
  <1> QED
    BY <1>6, <1>7, <1>9 DEF s, a

LEMMA DescendFrameOK ==
  ASSUME NEW f, FrameOK(f), NEW sub \in SubPosition, NEW rest \in State,
         Adds(f.state, sub, rest),
         NEW g \in Frame, g.todo \subseteq f.todo, g.sub = sub, g.rest = rest,
         g.state = f.state, g.have = f.have, g.best = f.best, g.left = f.left, g.res = f.res
  PROVE  FrameOK(g)
  <1>1. Splits(g)
    BY DEF Splits
  <1>2. Scores(g) /\ (g.have => AccountsFor(g.best, g.state)) /\ g.todo \subseteq Offers(g.state)
    BY DEF FrameOK, Scores
  <1> QED
    BY <1>1, <1>2 DEF FrameOK

\* A decomposition of the rest, put behind the slice, accounts for the state.
LEMMA CombineAccounts ==
  ASSUME NEW f, FrameOK(f), NEW d \in Decomposition, AccountsFor(d, f.rest)
  PROVE  Combine(f, d) \in Decomposition /\ AccountsFor(Combine(f, d), f.state)
  <1> DEFINE t == Taken(f.sub.legs, f.sub.amt)
             e == Combine(f, d)
  <1>1. /\ f \in Frame
        /\ t \in [Legs -> Nat]
        /\ \A l \in Legs : t[l] + f.rest[l] = f.state[l]
    BY DEF FrameOK, Splits, Adds
  <1>2. /\ f.sub \in SubPosition /\ f.sub.req \in Int
        /\ f.rest \in [Legs -> Nat] /\ f.state \in [Legs -> Nat]
    BY <1>1 DEF Frame, SubPosition, State
  <1>3. /\ d.subs \in Seq(SubPosition) /\ d.total \in Int /\ d.used \in [Legs -> Nat]
        /\ d.err \in Error
    BY DEF Decomposition
  <1> HIDE DEF t
  <1>4. /\ e.used = [l \in Legs |-> t[l] + d.used[l]]
        /\ e.err = d.err
        /\ e.subs = <<f.sub>> \o d.subs
        /\ e.total = f.sub.req + d.total
        /\ e = [subs |-> e.subs, total |-> e.total, used |-> e.used, err |-> e.err]
    BY DEF Combine, Plus, t
  <1>5. e.subs \in Seq(SubPosition)
    BY <1>2, <1>3, <1>4
  <1>6. e \in Decomposition
    <2>1. e.total \in Int /\ e.used \in [Legs -> Nat]
      BY <1>1, <1>2, <1>3, <1>4
    <2> QED
      BY <1>3, <1>4, <1>5, <2>1 DEF Decomposition
  <1> HIDE DEF e
  <1>7. \A l \in Legs : e.used[l] <= f.state[l]
    BY <1>1, <1>2, <1>3, <1>4 DEF AccountsFor
  <1>8. ASSUME e.err.kind = "none" PROVE e.used = f.state
    BY <1>1, <1>2, <1>3, <1>4, <1>8 DEF AccountsFor
  <1>9. ASSUME e.err.kind = "stock"
        PROVE  /\ e.err.leg \in Legs /\ e.err.open > 0
               /\ e.used[e.err.leg] + e.err.open = f.state[e.err.leg]
    <2>1. d.err.leg \in Legs /\ d.err.open \in Nat
      BY <1>3, <1>4, <1>9 DEF AccountsFor, Error
    <2> DEFINE l == d.err.leg
    <2>2. d.err.open > 0 /\ d.used[l] + d.err.open = f.rest[l]
      BY <1>4, <1>9 DEF AccountsFor
    <2>3. /\ e.used[l] = t[l] + d.used[l]
          /\ t[l] + f.rest[l] = f.state[l]
          /\ t[l] \in Nat /\ d.used[l] \in Nat
      BY <1>1, <1>3, <1>4, <2>1
    <2> HIDE DEF l
    <2>4. e.used[l] + d.err.open = f.state[l]
      BY <2>1, <2>2, <2>3
    <2> QED
      BY <1>4, <2>1, <2>2, <2>4 DEF l
  <1>10. ASSUME e.err.kind = "naked"
         PROVE  e.err.leg \in Legs /\ e.used[e.err.leg] < f.state[e.err.leg]
    BY <1>1, <1>2, <1>3, <1>4, <1>10 DEF AccountsFor
  <1>11. AccountsFor(e, f.state)
    BY <1>7, <1>8, <1>9, <1>10 DEF AccountsFor
  <1> QED
    BY <1>6, <1>11 DEF e

LEMMA ResumeFrameOK ==
  ASSUME NEW f, FrameOK(f), NEW d \in Decomposition, AccountsFor(d, f.rest)
  PROVE  LET g == [f EXCEPT !.have = TRUE,
                            !.best = IF ~f.have \/ BetterCandidate(Combine(f, d), f.best)
                                     THEN Combine(f, d) ELSE f.best]
         IN  FrameOK(g) /\ g.state = f.state
  <1> DEFINE b == IF ~f.have \/ BetterCandidate(Combine(f, d), f.best)
                  THEN Combine(f, d) ELSE f.best
             g == [f EXCEPT !.have = TRUE, !.best = b]
  <1>1. f \in Frame /\ f.best \in Decomposition
    BY DEF FrameOK, Frame
  <1>2. b \in Decomposition /\ AccountsFor(b, f.state)
    BY <1>1, CombineAccounts DEF FrameOK
  <1> HIDE DEF b
  <1>3. /\ g \in Frame
        /\ g.state = f.state /\ g.sub = f.sub /\ g.rest = f.rest /\ g.todo = f.todo
        /\ g.best = b /\ g.left = f.left /\ g.res = f.res
    BY <1>1, <1>2 DEF Frame
  <1> HIDE DEF g
  <1>4. FrameOK(g)
    BY <1>2, <1>3 DEF FrameOK, Splits, Adds, Scores
  <1> QED
    BY <1>3, <1>4 DEF g, b

\* A residual leg that gets an error instead of a naked rule.
LEMMA ErrorFrameOK ==
  ASSUME NEW f, FrameOK(f), NEW l \in f.left, NEW e \in Error,
         e.kind \in {"stock", "naked", "hard"},
         e.kind # "hard" => e.leg = l,
         e.kind = "stock" => e.open = f.state[l]
  PROVE  LET g == [f EXCEPT !.left = @ \ {l}, !.res.err = Stronger(@, e)]
         IN  FrameOK(g) /\ g.state = f.state
  <1> DEFINE g == [f EXCEPT !.left = @ \ {l}, !.res.err = Stronger(@, e)]
             r == g.res
  <1>1. /\ f \in Frame /\ f.res \in Decomposition /\ f.state \in State
        /\ f.left \subseteq Legs
    BY DEF FrameOK, Frame
  <1>2. r = [f.res EXCEPT !.err = Stronger(f.res.err, e)]
    BY <1>1 DEF Frame, Decomposition
  <1>3. g = [f EXCEPT !.left = @ \ {l}, !.res = r]
    BY <1>2, <1>1 DEF Frame
  <1> HIDE DEF g, r
  <1>4. /\ r \in Decomposition
        /\ r.used = f.res.used
        /\ r.err = Stronger(f.res.err, e)
        /\ r.err = f.res.err \/ r.err = e
    BY <1>2, <1>1 DEF Decomposition, Stronger
  <1>5. f.res.err.kind = "none" => r.err = e
    BY <1>4 DEF Stronger, Severity
  <1>6. /\ g \in Frame
        /\ g.state = f.state /\ g.sub = f.sub /\ g.rest = f.rest /\ g.todo = f.todo
        /\ g.have = f.have /\ g.best = f.best /\ g.left = f.left \ {l} /\ g.res = r
    BY <1>3, <1>1, <1>4 DEF Frame
  <1>7. l \in Legs /\ f.state[l] > 0 /\ f.res.used[l] = 0
    BY <1>1 DEF FrameOK, Scores, OpenLegs
  <1>8. Scores(g)
    <2>1. /\ g.left \subseteq OpenLegs(g.state)
          /\ \A m \in Legs : g.res.used[m] \in {0, g.state[m]}
          /\ \A m \in g.left : g.res.used[m] = 0
      BY <1>4, <1>6 DEF FrameOK, Scores
    <2>2. g.res.err.kind # "none"
      BY <1>4, <1>5, <1>6
    <2>3. CASE r.err = e
      BY <1>4, <1>6, <1>7, <2>1, <2>2, <2>3 DEF Scores
    <2>4. CASE r.err = f.res.err
      BY <1>4, <1>6, <1>7, <2>1, <2>2, <2>4 DEF Scores, FrameOK
    <2> QED
      BY <1>4, <2>3, <2>4
  <1>9. FrameOK(g)
    BY <1>6, <1>8 DEF FrameOK, Splits, Adds
  <1> QED
    BY <1>6, <1>9 DEF g

\* A residual leg that a naked rule takes.
LEMMA NakedFrameOK ==
  ASSUME NEW f, FrameOK(f), NEW l \in f.left, NEW i \in DOMAIN NakedRules, NEW o, Fits(o)
  PROVE  LET g == [f EXCEPT
                    !.left = @ \ {l},
                    !.res.subs = Append(@, ScoredSub(NakedRules[i], <<l>>, <<f.state[l]>>, o)),
                    !.res.total = @ + o.req,
                    !.res.used[l] = f.state[l]]
         IN  FrameOK(g) /\ g.state = f.state
  <1> DEFINE sub == ScoredSub(NakedRules[i], <<l>>, <<f.state[l]>>, o)
             g   == [f EXCEPT !.left = @ \ {l},
                              !.res.subs = Append(@, sub),
                              !.res.total = @ + o.req,
                              !.res.used[l] = f.state[l]]
             r   == g.res
  <1>1. /\ f \in Frame /\ f.res \in Decomposition /\ f.state \in [Legs -> Nat]
        /\ f.left \subseteq Legs
    BY DEF FrameOK, Frame, State
  <1>2. /\ f.res.subs \in Seq(SubPosition) /\ f.res.total \in Int
        /\ f.res.used \in [Legs -> Nat] /\ f.res.err \in Error
    BY <1>1 DEF Decomposition
  <1>3. l \in Legs /\ l \in Nat /\ f.state[l] \in Nat /\ o.req \in Int
    BY <1>1, LegsAssumption DEF Fits, Fails
  <1>4. sub \in SubPosition
    <2>1. <<l>> \in Seq(Nat) /\ <<f.state[l]>> \in Seq(Nat)
      BY <1>3
    <2>2. NakedRules[i] \in RuleID
      BY DEF RuleID
    <2> QED
      BY <1>3, <2>1, <2>2 DEF ScoredSub, SubPosition
  <1> HIDE DEF sub
  <1>5. Append(f.res.subs, sub) \in Seq(SubPosition)
    BY <1>2, <1>4, AppendProperties
  <1>6. r = [subs  |-> Append(f.res.subs, sub),
             total |-> f.res.total + o.req,
             used  |-> [f.res.used EXCEPT ![l] = f.state[l]],
             err   |-> f.res.err]
    BY <1>1, <1>2 DEF Frame, Decomposition
  <1>7. g = [f EXCEPT !.left = @ \ {l}, !.res = r]
    BY <1>1, <1>6 DEF Frame
  <1> HIDE DEF g, r
  <1>8. /\ r \in Decomposition
        /\ r.used = [f.res.used EXCEPT ![l] = f.state[l]]
        /\ r.err = f.res.err
    <2>1. [f.res.used EXCEPT ![l] = f.state[l]] \in [Legs -> Nat] /\ f.res.total + o.req \in Int
      BY <1>2, <1>3
    <2> QED
      BY <1>2, <1>5, <1>6, <2>1 DEF Decomposition
  <1>9. /\ g \in Frame
        /\ g.state = f.state /\ g.sub = f.sub /\ g.rest = f.rest /\ g.todo = f.todo
        /\ g.have = f.have /\ g.best = f.best /\ g.left = f.left \ {l} /\ g.res = r
    BY <1>1, <1>7, <1>8 DEF Frame
  <1>10. \A m \in Legs : r.used[m] = IF m = l THEN f.state[l] ELSE f.res.used[m]
    BY <1>2, <1>3, <1>8
  <1>11. Scores(g)
    <2>1. Scores(f)
      BY DEF FrameOK
    <2>2. g.left \subseteq OpenLegs(g.state)
      BY <1>9, <2>1 DEF Scores
    <2>3. \A m \in Legs : g.res.used[m] \in {0, g.state[m]}
      BY <1>9, <1>10, <2>1 DEF Scores
    <2>4. \A m \in g.left : g.res.used[m] = 0
      BY <1>1, <1>9, <1>10, <2>1 DEF Scores
    <2>5. g.res.err = f.res.err
      BY <1>8, <1>9
    <2>6. g.res.err.kind = "none" =>
            \A m \in Legs \ g.left : g.res.used[m] = g.state[m]
      BY <1>9, <1>10, <2>1, <2>5 DEF Scores
    <2>7. f.res.err.kind \in {"stock", "naked"} => f.res.err.leg # l
      BY <2>1 DEF Scores
    <2>8. g.res.err.kind \in {"stock", "naked"} =>
            /\ g.res.err.leg \in Legs \ g.left
            /\ g.state[g.res.err.leg] > 0
            /\ g.res.used[g.res.err.leg] = 0
      BY <1>9, <1>10, <2>1, <2>5, <2>7 DEF Scores
    <2>9. g.res.err.kind = "stock" => g.res.err.open = g.state[g.res.err.leg]
      BY <1>9, <2>1, <2>5 DEF Scores
    <2> QED
      BY <2>2, <2>3, <2>4, <2>6, <2>8, <2>9 DEF Scores
  <1>12. FrameOK(g)
    BY <1>9, <1>11 DEF FrameOK, Splits, Adds
  <1> QED
    BY <1>9, <1>12 DEF g, sub

LEMMA ChosenAccounts ==
  ASSUME NEW f, FrameOK(f), f.left = {}
  PROVE  Chosen(f) \in Decomposition /\ AccountsFor(Chosen(f), f.state)
  <1>1. /\ f.res \in Decomposition /\ f.best \in Decomposition
        /\ f.state \in [Legs -> Nat] /\ f.res.used \in [Legs -> Nat] /\ f.res.err \in Error
    BY DEF FrameOK, Frame, Decomposition, State
  <1>2. \A l \in Legs : f.res.used[l] <= f.state[l]
    BY <1>1 DEF FrameOK, Scores
  <1>3. f.res.err.kind = "none" => f.res.used = f.state
    BY <1>1 DEF FrameOK, Scores
  <1>4. f.res.err.kind = "stock" =>
          /\ f.res.err.leg \in Legs
          /\ f.res.err.open > 0
          /\ f.res.used[f.res.err.leg] + f.res.err.open = f.state[f.res.err.leg]
    <2> SUFFICES ASSUME f.res.err.kind = "stock"
                 PROVE  /\ f.res.err.leg \in Legs
                        /\ f.res.err.open > 0
                        /\ f.res.used[f.res.err.leg] + f.res.err.open = f.state[f.res.err.leg]
      OBVIOUS
    <2> DEFINE l == f.res.err.leg
    <2>1. /\ l \in Legs /\ f.state[l] > 0 /\ f.res.used[l] = 0
          /\ f.res.err.open = f.state[l]
      BY DEF FrameOK, Scores
    <2>2. f.state[l] \in Nat
      BY <1>1, <2>1
    <2> HIDE DEF l
    <2>3. f.res.used[l] + f.res.err.open = f.state[l]
      BY <2>1, <2>2
    <2> QED
      BY <2>1, <2>3 DEF l
  <1>5. f.res.err.kind = "naked" =>
          f.res.err.leg \in Legs /\ f.res.used[f.res.err.leg] < f.state[f.res.err.leg]
    BY <1>1 DEF FrameOK, Scores
  <1>6. AccountsFor(f.res, f.state)
    BY <1>2, <1>3, <1>4, <1>5 DEF AccountsFor
  <1> QED
    BY <1>1, <1>6 DEF Chosen, FrameOK

-----------------------------------------------------------------------------
(***************************************************************************)
(* The memo.                                                               *)
(***************************************************************************)
LEMMA MemoHitAccounts ==
  ASSUME MemoOK, NEW s \in State, Key(s) \in DOMAIN memo
  PROVE  memo[Key(s)] \in Decomposition /\ AccountsFor(memo[Key(s)], s)
  BY KeyInjective DEF MemoOK

LEMMA MemoizedOK ==
  ASSUME MemoOK, NEW s \in State, NEW d \in Decomposition, AccountsFor(d, s),
         memo' = Memoized(s, d)
  PROVE  MemoOK'
  <1> SUFFICES ASSUME NEW k \in DOMAIN memo'
               PROVE  /\ memo'[k] \in Decomposition
                      /\ \E t \in State : k = Key(t) /\ AccountsFor(memo'[k], t)
    BY DEF MemoOK
  <1>1. CASE k = Key(s)
    <2>1. memo'[k] = d
      BY <1>1 DEF Memoized
    <2> QED
      BY <1>1, <2>1
  <1>2. CASE k # Key(s)
    <2>1. k \in DOMAIN memo /\ memo'[k] = memo[k]
      BY <1>2 DEF Memoized
    <2> QED
      BY <2>1 DEF MemoOK
  <1> QED
    BY <1>1, <1>2

-----------------------------------------------------------------------------
(***************************************************************************)
(* The initial state and the steps.                                        *)
(***************************************************************************)
LEMMA NewStateType ==
  ASSUME NEW in \in Inputs
  PROVE  NewState(in) \in State
  <1>1. ASSUME NEW l \in Legs
        PROVE  NewState(in)[l] \in Nat
    <2>1. CASE \E i \in DOMAIN in : in[i].id = l
      <3>1. PICK i \in DOMAIN in : i = CHOOSE j \in DOMAIN in : in[j].id = l
        BY <2>1
      <3>2. in[i].qty \in Nat /\ in[i].shares \in Nat
        BY InputsAssumption
      <3> QED
        BY <2>1, <3>1, <3>2 DEF NewState
    <2>2. CASE ~\E i \in DOMAIN in : in[i].id = l
      BY <2>2 DEF NewState
    <2> QED
      BY <2>1, <2>2
  <1> QED
    BY <1>1 DEF NewState, State

LEMMA EmptyStack == \A s : StackOK(<<>>, s) /\ Handed(<<>>, s, Len(<<>>)) = s
  BY EmptySeq DEF StackOK, Handed

LEMMA InitInv == Init => IInv
  <1> SUFFICES ASSUME Init PROVE IInv
    OBVIOUS
  <1>1. RegistersOK
    BY NothingType, EmptyDecompositionType DEF Init, RegistersOK
  <1>2. StackOK(stack, start)
    BY EmptyStack DEF Init
  <1>3. MemoOK
    BY DEF Init, MemoOK
  <1>4. ControlOK
    BY DEF Init, ControlOK
  <1> QED
    BY <1>1, <1>2, <1>3, <1>4 DEF IInv

LEMMA TopFacts ==
  ASSUME IInv, stack # <<>>
  PROVE  /\ FrameOK(Top) /\ Top \in Frame
         /\ Top.state \in State /\ Top.rest \in State
         /\ Handed(stack, start, Len(stack)) = Top.rest
  <1>1. Len(stack) \in Nat \ {0} /\ FrameOK(Top)
    BY StackTop DEF IInv, Top
  <1> QED
    BY <1>1 DEF FrameOK, Frame, Handed, Top

\* A step that replaces the top activation and keeps the others.
LEMMA ReplaceStep ==
  ASSUME IInv, pc = "scan",
         NEW g, FrameOK(g), g.state = Top.state, stack' = WithTop(g),
         UNCHANGED <<facts, start, ret, memo, nodes>>,
         \/ pc' = "scan" /\ arg' = arg
         \/ pc' = "call" /\ arg' = g.rest /\ g.rest \in State
  PROVE  IInv'
  <1>1. stack # <<>>
    BY DEF IInv, ControlOK
  <1>2. /\ StackOK(stack', start')
        /\ stack' # <<>>
        /\ Handed(stack', start', Len(stack')) = g.rest
    BY <1>1, StackReplaceTop DEF IInv, WithTop, Top
  <1>3. RegistersOK'
    BY DEF IInv, RegistersOK
  <1>4. MemoOK'
    BY DEF IInv, MemoOK
  <1>5. ControlOK'
    BY <1>2 DEF ControlOK
  <1> QED
    BY <1>2, <1>3, <1>4, <1>5 DEF IInv

\* A step that pops the top activation and returns a value that accounts for
\* its state.
LEMMA PopStep ==
  ASSUME IInv, stack # <<>>, stack' = Popped,
         ret' \in Decomposition, AccountsFor(ret', Top.state), MemoOK',
         pc' = "return", UNCHANGED <<facts, start, arg, nodes>>
  PROVE  IInv'
  <1>1. /\ StackOK(stack', start')
        /\ Handed(stack', start', Len(stack')) = Top.state
    BY StackPop DEF IInv, Popped, Top
  <1>2. RegistersOK'
    BY DEF IInv, RegistersOK
  <1>3. ControlOK'
    BY <1>1 DEF ControlOK
  <1> QED
    BY <1>1, <1>2, <1>3 DEF IInv

LEMMA CallInv ==
  ASSUME IInv, Call
  PROVE  IInv'
  <1>1. PICK f \in Facts, in \in Inputs :
          pc \in {"idle", "done"} /\ (Optimize(f, in) \/ Reject(f, in))
    BY DEF Call
  <1>2. stack = <<>>
    BY <1>1 DEF IInv, ControlOK
  <1>3. CASE Optimize(f, in)
    <2>1. NewState(in) \in State
      BY NewStateType
    <2>2. RegistersOK'
      BY <1>3, <2>1 DEF Optimize, IInv, RegistersOK
    <2>3. StackOK(stack', start') /\ Handed(stack', start', Len(stack')) = start'
      BY <1>3, EmptyStack DEF Optimize
    <2>4. MemoOK'
      BY <1>3 DEF Optimize, MemoOK
    <2>5. ControlOK'
      BY <1>3, <2>3 DEF Optimize, ControlOK
    <2> QED
      BY <2>2, <2>3, <2>4, <2>5 DEF IInv
  <1>4. CASE Reject(f, in)
    <2>1. RegistersOK'
      BY <1>4, NothingType, EmptyDecompositionType DEF Reject, IInv, RegistersOK
    <2>2. StackOK(stack', start')
      BY <1>2, <1>4, EmptyStack DEF Reject
    <2>3. MemoOK'
      BY <1>4 DEF Reject, IInv, MemoOK
    <2>4. AccountsFor(ret', start')
      BY <1>4, NothingType, CarrierAccounts DEF Reject
    <2>5. ControlOK'
      BY <1>2, <1>4, <2>4 DEF Reject, ControlOK
    <2> QED
      BY <2>1, <2>2, <2>3, <2>5 DEF IInv
  <1> QED
    BY <1>1, <1>3, <1>4

LEMMA EnterInv ==
  ASSUME IInv, Enter
  PROVE  IInv'
  <1>1. /\ pc = "call" /\ arg \in State /\ arg = Handed(stack, start, Len(stack))
        /\ MemoOK /\ StackOK(stack, start)
    BY DEF Enter, MemoHit, NothingOpen, Expand, IInv, RegistersOK, ControlOK
  <1>2. CASE MemoHit
    <2>1. ret' \in Decomposition /\ AccountsFor(ret', arg)
      BY <1>1, <1>2, MemoHitAccounts DEF MemoHit
    <2>2. RegistersOK'
      BY <1>2, <2>1 DEF MemoHit, IInv, RegistersOK
    <2>3. MemoOK' /\ StackOK(stack', start')
      BY <1>1, <1>2 DEF MemoHit, MemoOK
    <2>4. ControlOK'
      BY <1>1, <1>2, <2>1 DEF MemoHit, ControlOK
    <2> QED
      BY <2>2, <2>3, <2>4 DEF IInv
  <1>3. CASE NothingOpen
    <2>1. ret' \in Decomposition /\ AccountsFor(ret', arg)
      BY <1>1, <1>3, EmptyAccounts, EmptyDecompositionType DEF NothingOpen
    <2>2. RegistersOK'
      BY <1>3, <2>1 DEF NothingOpen, IInv, RegistersOK
    <2>3. MemoOK'
      BY <1>1, <1>3, <2>1, MemoizedOK DEF NothingOpen
    <2>4. StackOK(stack', start')
      BY <1>1, <1>3 DEF NothingOpen
    <2>5. ControlOK'
      BY <1>1, <1>3, <2>1 DEF NothingOpen, ControlOK
    <2> QED
      BY <2>2, <2>3, <2>4, <2>5 DEF IInv
  <1>4. CASE Expand
    <2>1. StackOK(stack', start') /\ stack' # <<>>
      BY <1>1, <1>4, NewFrameOK, StackPush DEF Expand
    <2>2. RegistersOK'
      BY <1>4 DEF Expand, IInv, RegistersOK
    <2>3. MemoOK'
      BY <1>1, <1>4 DEF Expand, MemoOK
    <2>4. ControlOK'
      BY <1>4, <2>1 DEF Expand, ControlOK
    <2> QED
      BY <2>1, <2>2, <2>3, <2>4 DEF IInv
  <1> QED
    BY <1>2, <1>3, <1>4 DEF Enter

LEMMA ScanInv ==
  ASSUME IInv, pc = "scan", NEW c \in Top.todo, SkipChoice(c) \/ FailChoice(c) \/ Descend(c)
  PROVE  IInv'
  <1>1. stack # <<>>
    BY DEF IInv, ControlOK
  <1>2. FrameOK(Top) /\ Top.state \in State
    BY <1>1, TopFacts
  <1>3. CASE SkipChoice(c)
    <2> DEFINE g == [Top EXCEPT !.todo = @ \ {c}]
    <2>1. FrameOK(g) /\ g.state = Top.state
      BY <1>2, SkipFrameOK
    <2>2. /\ stack' = WithTop(g)
          /\ UNCHANGED <<facts, start, ret, memo, nodes>>
          /\ pc' = "scan" /\ arg' = arg
      BY <1>3 DEF SkipChoice
    <2> HIDE DEF g
    <2> QED
      BY <2>1, <2>2, ReplaceStep
  <1>4. CASE FailChoice(c)
    <2>1. AccountsFor(ret', Top.state) /\ ret' \in Decomposition
      BY <1>2, <1>4, CarrierAccounts, EmptyDecompositionType DEF FailChoice
    <2>2. MemoOK'
      BY <1>4 DEF FailChoice, IInv, MemoOK
    <2> QED
      BY <1>1, <1>4, <2>1, <2>2, PopStep DEF FailChoice
  <1>5. CASE Descend(c)
    <2>1. PICK p \in Plans(Targets[c[1]], Top.state, c[2], facts.U) :
            LET o == EvaluateRule(Targets[c[1]], c[2], p, facts)
            IN  /\ Fits(o)
                /\ arg' = Remainder(Top.state, c[2], p)
                /\ stack' = WithTop([Top EXCEPT
                     !.todo = @ \ {c},
                     !.sub  = ScoredSub(Targets[c[1]], c[2], p, o),
                     !.rest = Remainder(Top.state, c[2], p)])
      BY <1>5 DEF Descend
    <2> DEFINE o    == EvaluateRule(Targets[c[1]], c[2], p, facts)
               sub  == ScoredSub(Targets[c[1]], c[2], p, o)
               rest == Remainder(Top.state, c[2], p)
               g    == [Top EXCEPT !.todo = @ \ {c}, !.sub = sub, !.rest = rest]
    <2>2. sub \in SubPosition /\ rest \in State /\ Adds(Top.state, sub, rest)
      <3>1. Fits(o) /\ facts \in Facts
        BY <2>1 DEF IInv, RegistersOK
      <3> HIDE DEF o
      <3> QED
        BY <1>2, <3>1, SliceOK
    <2>3. FrameOK(g) /\ g.state = Top.state /\ g.rest = rest
      <3> HIDE DEF sub, rest
      <3>1. /\ g \in Frame
            /\ g.state = Top.state /\ g.todo \subseteq Top.todo /\ g.sub = sub /\ g.rest = rest
            /\ g.have = Top.have /\ g.best = Top.best /\ g.left = Top.left /\ g.res = Top.res
        BY <1>2, <2>2 DEF FrameOK, Frame
      <3> HIDE DEF g
      <3> QED
        BY <1>2, <2>2, <3>1, DescendFrameOK
    <2>4. /\ stack' = WithTop(g)
          /\ UNCHANGED <<facts, start, ret, memo, nodes>>
          /\ pc' = "call" /\ arg' = rest
      BY <1>5, <2>1 DEF Descend
    <2> HIDE DEF g, rest
    <2> QED
      BY <2>2, <2>3, <2>4, ReplaceStep
  <1> QED
    BY <1>3, <1>4, <1>5

LEMMA ResidualInv ==
  ASSUME IInv, pc = "scan", NEW l \in Top.left,
         ResidualShares(l) \/ ResidualNaked(l) \/ ResidualUnmatched(l)
  PROVE  IInv'
  <1>1. stack # <<>>
    BY DEF IInv, ControlOK
  <1>2. FrameOK(Top) /\ Top \in Frame /\ Top.state \in State
    BY <1>1, TopFacts
  <1>3. l \in Legs /\ l \in Nat /\ Top.state[l] \in Nat
    BY <1>2, LegsAssumption DEF Frame, State
  <1>4. ASSUME NEW e \in Error,
               e.kind \in {"stock", "naked", "hard"},
               e.kind # "hard" => e.leg = l,
               e.kind = "stock" => e.open = Top.state[l],
               ResidualError(l, e)
        PROVE  IInv'
    <2> DEFINE g == [Top EXCEPT !.left = @ \ {l}, !.res.err = Stronger(@, e)]
    <2>1. FrameOK(g) /\ g.state = Top.state
      BY <1>2, <1>4, ErrorFrameOK
    <2>2. /\ stack' = WithTop(g)
          /\ UNCHANGED <<facts, start, ret, memo, nodes>>
          /\ pc' = "scan" /\ arg' = arg
      BY <1>4 DEF ResidualError
    <2> HIDE DEF g
    <2> QED
      BY <2>1, <2>2, ReplaceStep
  <1>5. CASE ResidualShares(l)
    <2>1. StockUnsupported(l, Top.state[l]) \in Error
      BY <1>3 DEF StockUnsupported, Error
    <2> QED
      BY <1>4, <1>5, <2>1 DEF ResidualShares, StockUnsupported
  <1>6. CASE ResidualNaked(l)
    <2>1. PICK i \in DOMAIN NakedRules :
            \/ Fails(NakedOutcome(l, i)) /\ ResidualError(l, Hard)
            \/ /\ Fits(NakedOutcome(l, i))
               /\ stack' = WithTop([Top EXCEPT
                    !.left = @ \ {l},
                    !.res.subs = Append(@, ScoredSub(NakedRules[i], <<l>>, <<Top.state[l]>>,
                                                     NakedOutcome(l, i))),
                    !.res.total = @ + NakedOutcome(l, i).req,
                    !.res.used[l] = Top.state[l]])
               /\ UNCHANGED <<pc, facts, start, arg, ret, memo, nodes>>
      BY <1>6 DEF ResidualNaked
    <2>2. CASE ResidualError(l, Hard)
      <3>1. Hard \in Error
        BY DEF Hard, Error
      <3> QED
        BY <1>4, <2>2, <3>1 DEF Hard
    <2>3. CASE Fits(NakedOutcome(l, i)) /\ ~ResidualError(l, Hard)
      <3> DEFINE o == NakedOutcome(l, i)
                 g == [Top EXCEPT
                        !.left = @ \ {l},
                        !.res.subs = Append(@, ScoredSub(NakedRules[i], <<l>>,
                                                         <<Top.state[l]>>, o)),
                        !.res.total = @ + o.req,
                        !.res.used[l] = Top.state[l]]
      <3>1. FrameOK(g) /\ g.state = Top.state
        BY <1>2, <2>3, NakedFrameOK
      <3>2. /\ stack' = WithTop(g)
            /\ UNCHANGED <<facts, start, ret, memo, nodes>>
            /\ pc' = "scan" /\ arg' = arg
        BY <2>1, <2>3
      <3> HIDE DEF g
      <3> QED
        BY <3>1, <3>2, ReplaceStep
    <2> QED
      BY <2>1, <2>2, <2>3
  <1>7. CASE ResidualUnmatched(l)
    <2>1. NoNakedRule(l) \in Error
      BY <1>3 DEF NoNakedRule, Error
    <2> QED
      BY <1>4, <1>7, <2>1 DEF ResidualUnmatched, NoNakedRule
  <1> QED
    BY <1>5, <1>6, <1>7

LEMMA ReturnInv ==
  ASSUME IInv, Finish \/ Resume \/ Propagate \/ Answer
  PROVE  IInv'
  <1>1. CASE Finish
    <2>1. stack # <<>>
      BY <1>1 DEF Finish, IInv, ControlOK
    <2>2. FrameOK(Top) /\ Top.state \in State /\ Top.left = {}
      BY <1>1, <2>1, TopFacts DEF Finish
    <2>3. Chosen(Top) \in Decomposition /\ AccountsFor(Chosen(Top), Top.state)
      BY <2>2, ChosenAccounts
    <2>4. MemoOK'
      BY <1>1, <2>2, <2>3, MemoizedOK DEF Finish, IInv
    <2> QED
      BY <1>1, <2>1, <2>3, <2>4, PopStep DEF Finish
  <1>2. CASE Resume
    <2>1. FrameOK(Top) /\ Top.rest \in State /\ ret \in Decomposition
      BY <1>2, TopFacts DEF Resume, IInv, RegistersOK
    <2>2. AccountsFor(ret, Top.rest)
      BY <1>2, TopFacts DEF Resume, IInv, ControlOK
    <2> DEFINE g == [Top EXCEPT
                      !.have = TRUE,
                      !.best = IF ~Top.have \/ BetterCandidate(Combine(Top, ret), Top.best)
                               THEN Combine(Top, ret) ELSE Top.best]
    <2>3. FrameOK(g) /\ g.state = Top.state
      BY <2>1, <2>2, ResumeFrameOK
    <2>4. /\ stack' = WithTop(g)
          /\ pc' = "scan"
          /\ UNCHANGED <<facts, start, arg, ret, memo, nodes>>
      BY <1>2 DEF Resume
    <2> HIDE DEF g
    <2>5. /\ StackOK(stack', start')
          /\ stack' # <<>>
      <3>1. /\ stack # <<>> /\ StackOK(stack, start) /\ start' = start
            /\ stack' = [stack EXCEPT ![Len(stack)] = g]
            /\ FrameOK(g) /\ g.state = stack[Len(stack)].state
        BY <1>2, <2>3, <2>4 DEF Resume, IInv, WithTop, Top
      <3> QED
        BY <3>1, StackReplaceTop
    <2>6. RegistersOK' /\ MemoOK' /\ ControlOK'
      BY <2>4, <2>5 DEF IInv, RegistersOK, MemoOK, ControlOK
    <2> QED
      BY <2>5, <2>6 DEF IInv
  <1>3. CASE Propagate
    <2>1. /\ stack # <<>> /\ FrameOK(Top) /\ Top \in Frame
          /\ ret \in Decomposition /\ AccountsFor(ret, Top.rest)
      BY <1>3, TopFacts DEF Propagate, IInv, RegistersOK, ControlOK
    <2>2. ASSUME NEW l \in Legs PROVE ret.used[l] <= Top.state[l]
      <3>1. /\ ret.used[l] \in Nat /\ Top.rest[l] \in Nat /\ Top.state[l] \in Nat
            /\ ret.used[l] <= Top.rest[l]
        BY <2>1 DEF Decomposition, Frame, State, AccountsFor
      <3>2. /\ Taken(Top.sub.legs, Top.sub.amt)[l] \in Nat
            /\ Taken(Top.sub.legs, Top.sub.amt)[l] + Top.rest[l] = Top.state[l]
        BY <2>1 DEF FrameOK, Splits, Adds
      <3> QED
        BY <3>1, <3>2
    <2>3. AccountsFor(ret', Top.state)
      BY <1>3, <2>2 DEF Propagate, AccountsFor
    <2>4. MemoOK'
      BY <1>3 DEF Propagate, IInv, MemoOK
    <2> QED
      BY <1>3, <2>1, <2>3, <2>4, PopStep DEF Propagate
  <1>4. CASE Answer
    <2>1. RegistersOK' /\ MemoOK'
      BY <1>4 DEF Answer, IInv, RegistersOK, MemoOK
    <2>2. StackOK(stack', start')
      BY <1>4 DEF Answer, IInv
    <2>3. ControlOK'
      BY <1>4, EmptyStack DEF Answer, IInv, ControlOK
    <2> QED
      BY <2>1, <2>2, <2>3 DEF IInv
  <1> QED
    BY <1>1, <1>2, <1>3, <1>4

LEMMA StepInv == IInv /\ [Next]_vars => IInv'
  <1> SUFFICES ASSUME IInv, [Next]_vars PROVE IInv'
    OBVIOUS
  <1>1. CASE Call
    BY <1>1, CallInv
  <1>2. CASE Enter
    BY <1>2, EnterInv
  <1>3. CASE pc = "scan" /\ Scan
    BY <1>3, ScanInv DEF Scan
  <1>4. CASE pc = "scan" /\ Residual
    BY <1>4, ResidualInv DEF Residual
  <1>5. CASE Finish \/ Resume \/ Propagate \/ Answer
    BY <1>5, ReturnInv
  <1>6. CASE UNCHANGED vars
    BY <1>6 DEF vars, IInv, RegistersOK, MemoOK, ControlOK
  <1> QED
    BY <1>1, <1>2, <1>3, <1>4, <1>5, <1>6 DEF Next, Work

LEMMA Invariance == Spec => []IInv
  BY InitInv, StepInv, PTL DEF Spec

-----------------------------------------------------------------------------
(***************************************************************************)
(* The theorems.                                                           *)
(***************************************************************************)
\* The registers, the activation records, the memo and the counter of
\* Optimizer.decompose keep their types.
THEOREM TypeCorrect == Spec => []TypeOK
  <1>1. IInv => TypeOK
    BY DEF IInv, RegistersOK, StackOK, MemoOK, TypeOK
  <1> QED
    BY <1>1, Invariance, PTL

\* Whatever Optimize returns accounts for the legs it was called with: clean,
\* it attributes each of them completely and once, over all slices; with a
\* residual error, it leaves open what the error says.
THEOREM ResultsAccount == Spec => []ResultAccountsForInput
  <1>1. IInv => ResultAccountsForInput
    BY DEF IInv, ControlOK, ResultAccountsForInput
  <1> QED
    BY <1>1, Invariance, PTL

LEMMA StateOfKey ==
  ASSUME NEW s \in State
  PROVE  StateOf(Key(s)) = s
  <1>1. ASSUME NEW l \in Legs
        PROVE  StateOf(Key(s))[l] = s[l]
    <2>1. CASE s[l] > 0
      <3>1. <<l, s[l]>> \in Key(s)
        BY <2>1 DEF Key, OpenLegs
      <3>2. \A e \in Key(s) : e[1] = l => e = <<l, s[l]>>
        BY DEF Key, OpenLegs
      <3>3. (CHOOSE e \in Key(s) : e[1] = l) = <<l, s[l]>>
        BY <3>1, <3>2
      <3>4. \E e \in Key(s) : e[1] = l
        BY <3>1
      <3>5. StateOf(Key(s))[l] = (CHOOSE e \in Key(s) : e[1] = l)[2]
        BY <3>4 DEF StateOf
      <3>6. <<l, s[l]>>[2] = s[l]
        OBVIOUS
      <3> HIDE DEF StateOf
      <3>7. StateOf(Key(s))[l] = <<l, s[l]>>[2]
        BY ONLY <3>3, <3>5, Zenon
      <3> QED
        BY <3>6, <3>7, Zenon
    <2>2. CASE ~(s[l] > 0)
      <3>1. s[l] = 0
        BY <2>2 DEF State
      <3>2. ~\E e \in Key(s) : e[1] = l
        BY <2>2 DEF Key, OpenLegs
      <3> QED
        BY <3>1, <3>2 DEF StateOf
    <2> QED
      BY <2>1, <2>2
  <1> QED
    BY <1>1 DEF StateOf, State

\* A memo entry may stand in for every later visit to its state, along
\* whatever slices: it accounts for exactly that state.
THEOREM MemoAccounts == Spec => []MemoAccountsForState
  <1>1. IInv => MemoAccountsForState
    BY StateOfKey DEF IInv, MemoOK, MemoAccountsForState
  <1> QED
    BY <1>1, Invariance, PTL

-----------------------------------------------------------------------------
(***************************************************************************)
(* The recursion descends.  A slice takes at least a contract, so along the*)
(* stack the states grow strictly smaller: none of them can come up again  *)
(* above itself, and none is answered before its activation ends.          *)
(***************************************************************************)
Below(s, t) == s # t /\ \A l \in Legs : s[l] <= t[l]

Descends(st) == \A i, j \in DOMAIN st : i < j => Below(st[j].state, st[i].state)

\* No state of an activation has an answer, nor the one called with another.
Unanswered == \A i \in DOMAIN stack : Key(stack[i].state) \notin DOMAIN memo

CallsBelow == pc = "call" /\ stack # <<>> => Below(arg, Top.state)

DescentInv == IInv /\ Descends(stack) /\ Unanswered /\ CallsBelow

LEMMA BelowTransitive ==
  ASSUME NEW r \in State, NEW s \in State, NEW t \in State, Below(r, s), Below(s, t)
  PROVE  Below(r, t)
  <1>1. \A l \in Legs : r[l] \in Nat /\ s[l] \in Nat /\ t[l] \in Nat
    BY DEF State
  <1>2. \A l \in Legs : r[l] <= t[l]
    BY <1>1 DEF Below
  <1>3. ASSUME r = t PROVE FALSE
    <2>1. \A l \in Legs : r[l] = s[l]
      BY <1>1, <1>3 DEF Below
    <2> QED
      BY <2>1 DEF Below, State
  <1> QED
    BY <1>2, <1>3 DEF Below

\* The slices a plan makes are never empty.
LEMMA SliceShrinks ==
  ASSUME NEW f, FrameOK(f), NEW c \in f.todo, NEW fct \in Facts,
         NEW p \in Plans(Targets[c[1]], f.state, c[2], fct.U)
  PROVE  Below(Remainder(f.state, c[2], p), f.state)
  <1> DEFINE s == f.state
             a == c[2]
             n == Len(Slots[Targets[c[1]]])
  <1>1. s \in State /\ c[1] \in DOMAIN Targets /\ a \in Bindings(Targets[c[1]], s)
    BY OffersType DEF FrameOK, Frame
  <1>2. /\ n \in Nat /\ a \in [1..n -> Legs]
        /\ \A j, k \in DOMAIN a : a[j] = a[k] => j = k
    BY <1>1, BindingType
  <1>3. PlanFits(s, a, p)
    BY <1>1, PlansFit, FactsAssumption, EtfPriceAssumption
  <1> HIDE DEF s, a, n
  <1>4. /\ Taken(a, p) \in [Legs -> Nat]
        /\ \A l \in Legs : Taken(a, p)[l] <= s[l]
        /\ \A i \in DOMAIN a : Taken(a, p)[a[i]] = p[i]
    <2>1. p \in [DOMAIN a -> Nat] /\ \A i \in DOMAIN a : p[i] <= s[a[i]]
      BY <1>3 DEF PlanFits
    <2>2. /\ Taken(a, p) \in [Legs -> Nat]
          /\ \A l \in Legs : Taken(a, p)[l] <= s[l]
      BY <1>1, <1>2, <2>1, TakenType
    <2>3. ASSUME NEW i \in DOMAIN a
          PROVE  Taken(a, p)[a[i]] = p[i]
      <3>1. a[i] \in Legs /\ (CHOOSE j \in DOMAIN a : a[j] = a[i]) = i
        BY <1>2
      <3> QED
        BY <3>1 DEF Taken
    <2> QED
      BY <2>2, <2>3
  <1> DEFINE rest == Remainder(s, a, p)
  <1>5. \A l \in Legs : Taken(a, p)[l] + rest[l] = s[l]
    BY <1>1, <1>4, SliceAddsUp
  <1>6. rest \in State
    BY <1>1, <1>2, <1>3, RemainderType DEF PlanFits
  <1>7. PICK i \in DOMAIN a : p[i] >= Unit
    BY <1>3 DEF PlanFits
  <1>8. a[i] \in Legs /\ p[i] \in Nat /\ Taken(a, p)[a[i]] = p[i]
    BY <1>2, <1>3, <1>4 DEF PlanFits
  <1> HIDE DEF rest
  <1>9. \A l \in Legs : rest[l] \in Nat /\ s[l] \in Nat /\ Taken(a, p)[l] \in Nat
    BY <1>1, <1>4, <1>6 DEF State
  <1>10. rest[a[i]] # s[a[i]]
    BY <1>5, <1>7, <1>8, <1>9, UnitAssumption
  <1>11. \A l \in Legs : rest[l] <= s[l]
    BY <1>5, <1>9
  <1> QED
    BY <1>10, <1>11 DEF Below, rest, s, a

\* What the activations keep when the top one is replaced, popped or covered by
\* another.
LEMMA DescendsReplace ==
  ASSUME NEW st \in Seq(Frame), st # <<>>, Descends(st), NEW f, f.state = st[Len(st)].state
  PROVE  LET new == [st EXCEPT ![Len(st)] = f]
         IN  /\ Descends(new)
             /\ DOMAIN new = DOMAIN st
             /\ \A i \in DOMAIN new : new[i].state = st[i].state
  <1> DEFINE new == [st EXCEPT ![Len(st)] = f]
  <1>1. DOMAIN new = DOMAIN st /\ \A i \in DOMAIN st : new[i] = IF i = Len(st) THEN f ELSE st[i]
    OBVIOUS
  <1> HIDE DEF new
  <1>2. \A i \in DOMAIN new : new[i].state = st[i].state
    BY <1>1
  <1>3. Descends(new)
    BY <1>1, <1>2 DEF Descends
  <1> QED
    BY <1>1, <1>2, <1>3 DEF new

LEMMA DescendsPop ==
  ASSUME NEW st \in Seq(Frame), st # <<>>, Descends(st)
  PROVE  LET new == SubSeq(st, 1, Len(st) - 1)
         IN  /\ Descends(new)
             /\ Len(st) \notin DOMAIN new
             /\ DOMAIN new \subseteq DOMAIN st
             /\ \A i \in DOMAIN new : new[i] = st[i]
  <1> DEFINE n == Len(st) - 1
             new == SubSeq(st, 1, n)
  <1>1. n \in Nat /\ \A i \in 1..n : st[i] \in Frame
    OBVIOUS
  <1> HIDE DEF n
  <1>2. /\ new \in Seq(Frame)
        /\ Len(new) = IF 1 <= n THEN n - 1 + 1 ELSE 0
        /\ \A i \in 1..(n - 1 + 1) : new[i] = st[1 + i - 1]
    BY <1>1, SubSeqProperties
  <1>3. DOMAIN new = 1..n /\ \A i \in 1..n : new[i] = st[i]
    BY <1>1, <1>2
  <1> HIDE DEF new
  <1>4. DOMAIN new \subseteq DOMAIN st /\ Len(st) \notin DOMAIN new
    BY <1>1, <1>3 DEF n
  <1>5. Descends(new)
    BY <1>3, <1>4 DEF Descends
  <1> QED
    BY <1>3, <1>4, <1>5 DEF new, n

LEMMA DescendsPush ==
  ASSUME NEW st \in Seq(Frame), Descends(st), NEW f \in Frame,
         st # <<>> => Below(f.state, st[Len(st)].state)
  PROVE  LET new == Append(st, f)
         IN  /\ Descends(new)
             /\ \A i \in DOMAIN new : (i \in DOMAIN st /\ new[i] = st[i]) \/ new[i] = f
  <1> DEFINE new == Append(st, f)
  <1>1. /\ DOMAIN new = 1..(Len(st) + 1) /\ Len(st) \in Nat /\ DOMAIN st = 1..Len(st)
        /\ \A i \in 1..Len(st) : new[i] = st[i] /\ st[i].state \in State
        /\ new[Len(st) + 1] = f /\ f.state \in State
    <2>1. /\ Len(st) \in Nat /\ DOMAIN st = 1..Len(st)
          /\ Len(new) = Len(st) + 1 /\ DOMAIN new = 1..(Len(st) + 1)
          /\ \A i \in 1..Len(st) : new[i] = st[i] /\ st[i] \in Frame
          /\ new[Len(st) + 1] = f
      OBVIOUS
    <2> HIDE DEF new
    <2> QED
      BY <2>1 DEF Frame
  <1> HIDE DEF new
  <1>2. ASSUME NEW i \in 1..Len(st)
        PROVE  Below(f.state, st[i].state)
    <2>1. Below(f.state, st[Len(st)].state)
      BY <1>1
    <2>2. CASE i < Len(st)
      <3>1. Below(st[Len(st)].state, st[i].state)
        BY <1>1, <2>2 DEF Descends
      <3> QED
        BY <1>1, <2>1, <3>1, BelowTransitive
    <2> QED
      BY <1>1, <2>1, <2>2
  <1>3. Descends(new)
    BY <1>1, <1>2 DEF Descends
  <1> QED
    BY <1>1, <1>3 DEF new

-----------------------------------------------------------------------------
(***************************************************************************)
(* How a step changes the stack and the memo.                              *)
(***************************************************************************)
\* A step that replaces the top activation by one of the same state, and calls
\* nothing or calls with a state below it.
LEMMA DescentReplace ==
  ASSUME DescentInv, stack # <<>>, NEW g, g.state = Top.state, stack' = WithTop(g),
         memo' = memo, IInv', pc' = "call" => Below(arg', Top.state)
  PROVE  DescentInv'
  <1>1. stack \in Seq(Frame) /\ Len(stack) \in Nat \ {0}
    BY DEF DescentInv, IInv, StackOK
  <1>2. /\ Descends(stack')
        /\ DOMAIN stack' = DOMAIN stack
        /\ \A i \in DOMAIN stack' : stack'[i].state = stack[i].state
    BY <1>1, DescendsReplace DEF DescentInv, WithTop, Top
  <1>3. Unanswered'
    BY <1>2 DEF DescentInv, Unanswered
  <1>4. Len(stack') = Len(stack)
    BY <1>1 DEF WithTop
  <1>5. Top'.state = Top.state
    BY <1>1, <1>2, <1>4 DEF Top
  <1>6. CallsBelow'
    BY <1>5 DEF CallsBelow
  <1> QED
    BY <1>2, <1>3, <1>6 DEF DescentInv

\* A step that pops the top activation, and answers its state or none.
LEMMA DescentPop ==
  ASSUME DescentInv, stack # <<>>, stack' = Popped, IInv', pc' = "return",
         \/ memo' = memo
         \/ \E d : memo' = Memoized(Top.state, d)
  PROVE  /\ DescentInv'
         /\ Key(Top.state) \notin DOMAIN memo
  <1>1. /\ stack \in Seq(Frame) /\ Len(stack) \in DOMAIN stack
        /\ \A i \in DOMAIN stack : stack[i] \in Frame /\ stack[i].state \in State
    <2>1. stack \in Seq(Frame) /\ \A i \in DOMAIN stack : stack[i] \in Frame
      BY DEF DescentInv, IInv, StackOK
    <2> QED
      BY <2>1 DEF Frame
  <1>2. /\ Descends(stack')
        /\ Len(stack) \notin DOMAIN stack' /\ DOMAIN stack' \subseteq DOMAIN stack
        /\ \A i \in DOMAIN stack' : stack'[i] = stack[i]
    BY <1>1, DescendsPop DEF DescentInv, Popped
  <1>3. ASSUME NEW i \in DOMAIN stack'
        PROVE  Key(stack'[i].state) # Key(Top.state)
    <2>1. i \in DOMAIN stack /\ i < Len(stack)
      BY <1>1, <1>2
    <2>2. Below(Top.state, stack[i].state)
      BY <1>1, <2>1 DEF DescentInv, Descends, Top
    <2>3. stack[i].state \in State /\ Top.state \in State
      BY <1>1, <2>1 DEF Top
    <2> QED
      BY <1>2, <2>2, <2>3, KeyInjective DEF Below
  <1>4. DOMAIN memo' \subseteq DOMAIN memo \cup {Key(Top.state)}
    BY DEF Memoized
  <1>5. Unanswered'
    BY <1>2, <1>3, <1>4 DEF DescentInv, Unanswered
  <1>6. CallsBelow'
    BY DEF CallsBelow
  <1>7. Key(Top.state) \notin DOMAIN memo
    BY <1>1 DEF DescentInv, Unanswered, Top
  <1> QED
    BY <1>2, <1>5, <1>6, <1>7 DEF DescentInv

LEMMA DescentEnter ==
  ASSUME DescentInv, Enter, IInv'
  PROVE  DescentInv'
  <1>1. /\ pc = "call" /\ arg \in State /\ stack \in Seq(Frame)
        /\ \A i \in DOMAIN stack : stack[i] \in Frame /\ stack[i].state \in State
    <2>1. /\ pc = "call" /\ arg \in State /\ stack \in Seq(Frame)
          /\ \A i \in DOMAIN stack : stack[i] \in Frame
      BY DEF DescentInv, IInv, StackOK, RegistersOK, Enter, MemoHit, NothingOpen, Expand
    <2> QED
      BY <2>1 DEF Frame
  <1>2. CASE MemoHit
    BY <1>2 DEF MemoHit, DescentInv, Unanswered, CallsBelow
  <1>3. ASSUME NEW i \in DOMAIN stack
        PROVE  Key(stack[i].state) # Key(arg)
    <2>1. stack # <<>> /\ Below(arg, Top.state)
      BY <1>1, <1>3 DEF DescentInv, CallsBelow
    <2>2. Len(stack) \in DOMAIN stack
      BY <1>1, <2>1
    <2>3. Below(arg, stack[i].state)
      <3>1. CASE i = Len(stack)
        BY <2>1, <3>1 DEF Top
      <3>2. CASE i < Len(stack)
        <4>1. Below(Top.state, stack[i].state)
          BY <2>2, <3>2 DEF DescentInv, Descends, Top
        <4>2. Top.state \in State /\ stack[i].state \in State
          BY <1>1, <2>2 DEF Top
        <4> QED
          BY <1>1, <2>1, <4>1, <4>2, BelowTransitive
      <3> QED
        BY <1>1, <3>1, <3>2
    <2> QED
      BY <1>1, <2>3, KeyInjective DEF Below
  <1>4. CASE NothingOpen
    <2>1. DOMAIN memo' = DOMAIN memo \cup {Key(arg)} /\ stack' = stack /\ pc' = "return"
      BY <1>4 DEF NothingOpen, Memoized
    <2> QED
      BY <1>3, <2>1 DEF DescentInv, Unanswered, CallsBelow
  <1>5. CASE Expand
    <2>1. /\ stack' = Append(stack, NewFrame(arg)) /\ memo' = memo /\ pc' = "scan"
          /\ Key(arg) \notin DOMAIN memo
      BY <1>5 DEF Expand
    <2>2. NewFrame(arg) \in Frame /\ NewFrame(arg).state = arg
      BY <1>1, NewFrameOK DEF FrameOK
    <2>3. stack # <<>> => Below(arg, stack[Len(stack)].state)
      BY <1>1 DEF DescentInv, CallsBelow, Top
    <2> DEFINE f == NewFrame(arg)
    <2>4. f \in Frame /\ f.state = arg
      BY <2>2
    <2> HIDE DEF f
    <2>5. /\ Descends(Append(stack, f))
          /\ \A i \in DOMAIN Append(stack, f) :
               (i \in DOMAIN stack /\ Append(stack, f)[i] = stack[i]) \/ Append(stack, f)[i] = f
      BY <1>1, <2>3, <2>4, DescendsPush DEF DescentInv
    <2>6. stack' = Append(stack, f)
      BY <2>1 DEF f
    <2>7. Unanswered'
      BY <2>1, <2>4, <2>5, <2>6 DEF DescentInv, Unanswered
    <2> QED
      BY <2>1, <2>5, <2>6, <2>7 DEF DescentInv, CallsBelow
  <1> QED
    BY <1>2, <1>4, <1>5 DEF Enter

LEMMA DescentScan ==
  ASSUME DescentInv, pc = "scan", IInv', NEW c \in Top.todo,
         SkipChoice(c) \/ FailChoice(c) \/ Descend(c)
  PROVE  DescentInv'
  <1>1. stack # <<>> /\ FrameOK(Top) /\ facts \in Facts
    BY TopFacts DEF DescentInv, IInv, ControlOK, RegistersOK
  <1>2. CASE SkipChoice(c)
    <2> DEFINE g == [Top EXCEPT !.todo = @ \ {c}]
    <2>1. g.state = Top.state
      BY <1>1, SkipFrameOK
    <2>2. stack' = WithTop(g) /\ memo' = memo /\ pc' = "scan"
      BY <1>2 DEF SkipChoice
    <2> HIDE DEF g
    <2> QED
      BY <1>1, <2>1, <2>2, DescentReplace
  <1>3. CASE FailChoice(c)
    BY <1>1, <1>3, DescentPop DEF FailChoice
  <1>4. CASE Descend(c)
    <2>1. PICK p \in Plans(Targets[c[1]], Top.state, c[2], facts.U) :
            LET o == EvaluateRule(Targets[c[1]], c[2], p, facts)
            IN  /\ Fits(o)
                /\ arg' = Remainder(Top.state, c[2], p)
                /\ stack' = WithTop([Top EXCEPT
                     !.todo = @ \ {c},
                     !.sub  = ScoredSub(Targets[c[1]], c[2], p, o),
                     !.rest = Remainder(Top.state, c[2], p)])
      BY <1>4 DEF Descend
    <2> DEFINE sub == ScoredSub(Targets[c[1]], c[2], p, EvaluateRule(Targets[c[1]], c[2], p, facts))
               g   == [Top EXCEPT !.todo = @ \ {c}, !.sub = sub,
                                  !.rest = Remainder(Top.state, c[2], p)]
    <2>2. stack' = WithTop(g) /\ memo' = memo /\ arg' = Remainder(Top.state, c[2], p)
      BY <1>4, <2>1 DEF Descend
    <2>3. Below(arg', Top.state)
      BY <1>1, <2>2, SliceShrinks
    <2> HIDE DEF sub
    <2>4. g.state = Top.state
      BY <1>1 DEF FrameOK, Frame
    <2> HIDE DEF g
    <2> QED
      BY <1>1, <2>2, <2>3, <2>4, DescentReplace
  <1> QED
    BY <1>2, <1>3, <1>4

LEMMA DescentResidual ==
  ASSUME DescentInv, pc = "scan", IInv', NEW l \in Top.left,
         ResidualShares(l) \/ ResidualNaked(l) \/ ResidualUnmatched(l)
  PROVE  DescentInv'
  <1>1. stack # <<>> /\ Top \in Frame
    BY TopFacts DEF DescentInv, IInv, ControlOK
  <1>2. ASSUME NEW e, ResidualError(l, e)
        PROVE  DescentInv'
    <2> DEFINE g == [Top EXCEPT !.left = @ \ {l}, !.res.err = Stronger(@, e)]
    <2>1. g.state = Top.state
      BY <1>1 DEF Frame
    <2>2. stack' = WithTop(g) /\ memo' = memo /\ pc' # "call"
      BY <1>2 DEF ResidualError
    <2> HIDE DEF g
    <2> QED
      BY <1>1, <2>1, <2>2, DescentReplace
  <1>3. CASE ResidualShares(l) \/ ResidualUnmatched(l)
    BY <1>2, <1>3 DEF ResidualShares, ResidualUnmatched
  <1>4. CASE ResidualNaked(l)
    <2>1. PICK i \in DOMAIN NakedRules :
            \/ ResidualError(l, Hard)
            \/ /\ stack' = WithTop([Top EXCEPT
                    !.left = @ \ {l},
                    !.res.subs = Append(@, ScoredSub(NakedRules[i], <<l>>, <<Top.state[l]>>,
                                                     NakedOutcome(l, i))),
                    !.res.total = @ + NakedOutcome(l, i).req,
                    !.res.used[l] = Top.state[l]])
               /\ UNCHANGED <<pc, memo>>
      BY <1>4 DEF ResidualNaked
    <2> DEFINE g == [Top EXCEPT
                    !.left = @ \ {l},
                    !.res.subs = Append(@, ScoredSub(NakedRules[i], <<l>>, <<Top.state[l]>>,
                                                     NakedOutcome(l, i))),
                    !.res.total = @ + NakedOutcome(l, i).req,
                    !.res.used[l] = Top.state[l]]
    <2>2. g.state = Top.state
      BY <1>1 DEF Frame
    <2>3. CASE ResidualError(l, Hard)
      BY <1>2, <2>3
    <2>4. CASE stack' = WithTop(g) /\ UNCHANGED <<pc, memo>>
      <3> HIDE DEF g
      <3> QED
        BY <1>1, <2>2, <2>4, DescentReplace
    <2> QED
      BY <2>1, <2>3, <2>4
  <1> QED
    BY <1>3, <1>4

LEMMA DescentReturn ==
  ASSUME DescentInv, IInv', Finish \/ Resume \/ Propagate \/ Answer
  PROVE  DescentInv'
  <1>1. CASE Finish
    <2>1. stack # <<>>
      BY <1>1 DEF Finish, DescentInv, IInv, ControlOK
    <2> QED
      BY <1>1, <2>1, DescentPop DEF Finish
  <1>2. CASE Resume
    <2> DEFINE b == IF ~Top.have \/ BetterCandidate(Combine(Top, ret), Top.best)
                    THEN Combine(Top, ret) ELSE Top.best
               g == [Top EXCEPT !.have = TRUE, !.best = b]
    <2>1. stack # <<>> /\ stack' = WithTop(g) /\ memo' = memo /\ pc' = "scan"
      BY <1>2 DEF Resume
    <2>2. Top \in Frame
      BY <2>1, TopFacts DEF DescentInv
    <2> HIDE DEF b
    <2>3. g.state = Top.state
      BY <2>2 DEF Frame
    <2> HIDE DEF g
    <2> QED
      BY <2>1, <2>3, DescentReplace
  <1>3. CASE Propagate
    BY <1>3, DescentPop DEF Propagate
  <1>4. CASE Answer
    BY <1>4 DEF Answer, DescentInv, Unanswered, CallsBelow
  <1> QED
    BY <1>1, <1>2, <1>3, <1>4

LEMMA DescentStep == DescentInv /\ [Next]_vars => DescentInv'
  <1> SUFFICES ASSUME DescentInv, [Next]_vars PROVE DescentInv'
    OBVIOUS
  <1>0. IInv'
    BY StepInv DEF DescentInv
  <1>1. CASE Call
    <2>1. PICK f \in Facts, in \in Inputs :
            pc \in {"idle", "done"} /\ (Optimize(f, in) \/ Reject(f, in))
      BY <1>1 DEF Call
    <2>2. stack = <<>> /\ stack' = <<>>
      BY <2>1 DEF DescentInv, IInv, ControlOK, Optimize, Reject
    <2> QED
      BY <1>0, <2>2 DEF DescentInv, Descends, Unanswered, CallsBelow
  <1>2. CASE Enter
    BY <1>0, <1>2, DescentEnter
  <1>3. CASE pc = "scan" /\ Scan
    BY <1>0, <1>3, DescentScan DEF Scan
  <1>4. CASE pc = "scan" /\ Residual
    BY <1>0, <1>4, DescentResidual DEF Residual
  <1>5. CASE Finish \/ Resume \/ Propagate \/ Answer
    BY <1>0, <1>5, DescentReturn
  <1>6. CASE UNCHANGED vars
    BY <1>0, <1>6 DEF vars, DescentInv, Unanswered, CallsBelow, Top
  <1> QED
    BY <1>1, <1>2, <1>3, <1>4, <1>5, <1>6 DEF Next, Work

LEMMA Descent == Spec => []DescentInv
  <1>1. Init => DescentInv
    BY InitInv DEF Init, DescentInv, Descends, Unanswered, CallsBelow
  <1> QED
    BY <1>1, DescentStep, PTL DEF Spec

\* The recursion works on no state twice, however many paths of slices lead to
\* it: an activation's state comes up neither again above it nor in the memo.
THEOREM StatesWorkedOnce == Spec => []NoStateWorkedTwice
  <1>1. DescentInv => NoStateWorkedTwice
    <2> SUFFICES ASSUME DescentInv,
                        NEW i \in DOMAIN stack, NEW j \in DOMAIN stack,
                        Key(stack[i].state) = Key(stack[j].state)
                 PROVE  i = j
      BY DEF NoStateWorkedTwice, DescentInv, Unanswered
    <2>1. /\ stack \in Seq(Frame) /\ stack[i] \in Frame /\ stack[j] \in Frame
          /\ i \in Nat /\ j \in Nat
      BY DEF DescentInv, IInv, StackOK
    <2>2. stack[i].state = stack[j].state
      BY <2>1, KeyInjective DEF Frame
    <2> QED
      BY <2>1, <2>2 DEF DescentInv, Descends, Below
  <1> QED
    BY <1>1, Descent, PTL

\* Within a call an answer that has been given is never rewritten or lost: the
\* state that Finish answers has no answer, since its activation is unanswered.
THEOREM AnswersStay == Spec => MemoIsStable
  <1> DEFINE Kept == pc \notin {"idle", "done"} =>
                       \A k \in DOMAIN memo : k \in DOMAIN memo' /\ memo'[k] = memo[k]
  <1>1. ASSUME DescentInv, [Next]_vars PROVE Kept
    <2> SUFFICES ASSUME pc \notin {"idle", "done"}
                 PROVE  \A k \in DOMAIN memo : k \in DOMAIN memo' /\ memo'[k] = memo[k]
      OBVIOUS
    <2>1. ASSUME NEW s, NEW d, Key(s) \notin DOMAIN memo, memo' = Memoized(s, d)
          PROVE  \A k \in DOMAIN memo : k \in DOMAIN memo' /\ memo'[k] = memo[k]
      BY <2>1 DEF Memoized
    <2>2. CASE NothingOpen
      BY <2>1, <2>2 DEF NothingOpen
    <2>3. CASE Finish
      <3>1. stack # <<>>
        BY <1>1, <2>3 DEF Finish, DescentInv, IInv, ControlOK
      <3>2. Len(stack) \in DOMAIN stack
        BY <1>1, <3>1 DEF DescentInv, IInv, StackOK
      <3>3. Key(Top.state) \notin DOMAIN memo
        BY <1>1, <3>2 DEF DescentInv, Unanswered, Top
      <3> QED
        BY <2>1, <2>3, <3>3 DEF Finish
    <2>4. CASE UNCHANGED memo
      BY <2>4
    <2>5. NothingOpen \/ Finish \/ UNCHANGED memo
      BY <1>1 DEF Next, Call, Work, Enter, MemoHit, Expand, Scan, SkipChoice, FailChoice,
                  Descend, Residual, ResidualShares, ResidualNaked, ResidualUnmatched,
                  ResidualError, Resume, Propagate, Answer, vars
    <2> QED
      BY <2>2, <2>3, <2>4, <2>5
  <1>2. Spec => [][Kept]_vars
    BY <1>1, Descent, PTL DEF Spec
  <1> QED
    BY <1>2 DEF MemoIsStable
-----------------------------------------------------------------------------
(***************************************************************************)
(* What the sub-positions add up to.                                       *)
(***************************************************************************)
\* A sub-position names a leg once.
OnceEach(s) == \A i, j \in DOMAIN s.legs : s.legs[i] = s.legs[j] => i = j

\* d adds up, each sub-position attributing some natural number to every leg.
Sums(d) ==
  /\ AddsUp(d)
  /\ \A i \in DOMAIN d.subs, l \in Legs : AttributedBy(d.subs[i], l) \in Nat

FrameSums(f) == OnceEach(f.sub) /\ Sums(f.best) /\ Sums(f.res)

SumsInv ==
  /\ IInv
  /\ Sums(ret)
  /\ \A k \in DOMAIN memo : Sums(memo[k])
  /\ \A i \in DOMAIN stack : FrameSums(stack[i])

\* What the slots of a sub-position attribute to a leg is what was taken of it.
LEMMA AttributedIsTaken ==
  ASSUME NEW s, OnceEach(s), Taken(s.legs, s.amt) \in [Legs -> Nat], NEW l \in Legs
  PROVE  AttributedBy(s, l) = Taken(s.legs, s.amt)[l]
  <1> DEFINE a == s.legs
             p == s.amt
             J == {j \in DOMAIN a : a[j] = l}
  <1>1. AttributedBy(s, l) = Sum(p, J)
    BY DEF AttributedBy, Sum
  <1>2. Taken(a, p)[l] \in Nat
    OBVIOUS
  <1>3. CASE \E i \in DOMAIN a : a[i] = l
    <2> DEFINE i == CHOOSE i \in DOMAIN a : a[i] = l
    <2>1. i \in DOMAIN a /\ a[i] = l
      BY <1>3
    <2>2. Taken(a, p)[l] = p[i]
      BY <1>3 DEF Taken
    <2>3. J = {i}
      BY <2>1 DEF OnceEach
    <2>4. p[i] \in Int
      BY <1>2, <2>2
    <2> HIDE DEF i, J, a, p
    <2>5. Sum(p, {i}) = p[i]
      BY <2>4, SumOne
    <2>6. AttributedBy(s, l) = Taken(a, p)[l]
      BY <1>1, <2>2, <2>3, <2>5
    <2> QED
      BY <2>6 DEF a, p
  <1>4. CASE ~ \E i \in DOMAIN a : a[i] = l
    <2>1. J = {}
      BY <1>4
    <2>2. Taken(a, p)[l] = 0
      BY <1>4 DEF Taken
    <2> QED
      BY <1>1, <2>1, <2>2, SumEmpty
  <1> QED
    BY <1>3, <1>4

LEMMA SumOfFunction ==
  ASSUME NEW g, NEW T, DOMAIN g = T
  PROVE  SumFunction(g) = Sum(g, T)
  BY DEF SumFunction, Sum

\* The sums of d, by the indices of its sub-positions.
LEMMA SumsByIndex ==
  ASSUME NEW d, NEW n \in Nat, DOMAIN d.subs = 1..n
  PROVE  RequirementSum(d) = Sum([i \in 1..n |-> d.subs[i].req], 1..n)
  BY SumOfFunction DEF RequirementSum

LEMMA LegSumByIndex ==
  ASSUME NEW d, NEW n \in Nat, DOMAIN d.subs = 1..n, NEW l
  PROVE  Attributed(d, l) = Sum([i \in 1..n |-> AttributedBy(d.subs[i], l)], 1..n)
  BY SumOfFunction DEF Attributed

LEMMA EmptySums ==
  ASSUME NEW e
  PROVE  Sums([EmptyDecomposition EXCEPT !.err = e])
  <1> DEFINE d == [EmptyDecomposition EXCEPT !.err = e]
  <1>1. d.subs = <<>> /\ d.total = 0 /\ d.used = Nothing /\ DOMAIN d.subs = 1..0 /\ 1..0 = {}
    BY DEF EmptyDecomposition
  <1> HIDE DEF d
  <1>2. RequirementSum(d) = 0 /\ \A l : Attributed(d, l) = 0
    <2>1. 0 \in Nat
      OBVIOUS
    <2>2. RequirementSum(d) = Sum([i \in 1..0 |-> d.subs[i].req], 1..0)
      BY Zenon, <1>1, <2>1, SumsByIndex
    <2>3. ASSUME NEW l
          PROVE  Attributed(d, l) = Sum([i \in 1..0 |-> AttributedBy(d.subs[i], l)], 1..0)
      BY Zenon, <1>1, <2>1, LegSumByIndex
    <2> QED
      BY <1>1, <2>2, <2>3, SumEmpty
  <1>3. \A l \in Legs : d.used[l] = 0
    BY <1>1 DEF Nothing
  <1> QED
    BY <1>1, <1>2, <1>3 DEF Sums, AddsUp, d

LEMMA NothingSums ==
  /\ Sums(EmptyDecomposition)
  /\ Sums(HardCarrier)
  /\ Sums([EmptyDecomposition EXCEPT !.err = Invalid])
  <1>1. EmptyDecomposition = [EmptyDecomposition EXCEPT !.err = NoError]
    BY DEF EmptyDecomposition
  <1>2. HardCarrier = [EmptyDecomposition EXCEPT !.err = Hard]
    BY DEF HardCarrier
  <1> QED
    BY <1>1, <1>2, EmptySums

LEMMA OtherErrorSums ==
  ASSUME NEW d, Sums(d), NEW g, g.subs = d.subs, g.total = d.total, g.used = d.used
  PROVE  Sums(g)
  BY DEF Sums, AddsUp, RequirementSum, Attributed

\* A slice in front of what adds up.
LEMMA CombineSums ==
  ASSUME NEW f, FrameOK(f), OnceEach(f.sub), NEW d \in Decomposition, Sums(d)
  PROVE  Sums(Combine(f, d))
  <1> DEFINE t == Taken(f.sub.legs, f.sub.amt)
             e == Combine(f, d)
             n == Len(d.subs)
  <1>1. /\ d.subs \in Seq(SubPosition) /\ d.total \in Int /\ d.used \in [Legs -> Nat]
        /\ f.sub \in SubPosition /\ f.sub.req \in Int /\ t \in [Legs -> Nat]
    BY DEF Decomposition, FrameOK, Frame, SubPosition, Splits, Adds
  <1>2. /\ n \in Nat /\ DOMAIN d.subs = 1..n
        /\ \A i \in 1..n : d.subs[i] \in SubPosition /\ d.subs[i].req \in Int
    <2>1. /\ n \in Nat /\ DOMAIN d.subs = 1..n
          /\ \A i \in 1..n : d.subs[i] \in SubPosition
      BY <1>1
    <2> QED
      BY <2>1 DEF SubPosition
  <1>3. /\ e.subs = <<f.sub>> \o d.subs /\ e.total = f.sub.req + d.total
        /\ \A l \in Legs : e.used[l] = t[l] + d.used[l]
    BY DEF Combine, Plus
  <1>4. /\ DOMAIN e.subs = 1..(n + 1) /\ e.subs[1] = f.sub
        /\ \A i \in 1..n : e.subs[i + 1] = d.subs[i]
    BY <1>1, <1>2, <1>3
  <1>5. \A l \in Legs : AttributedBy(f.sub, l) = t[l] /\ t[l] \in Nat
    BY <1>1, AttributedIsTaken
  <1>6. \A i \in 1..n, l \in Legs : AttributedBy(d.subs[i], l) \in Nat
    BY <1>2 DEF Sums
  <1> HIDE DEF t, e, n
  <1>7. e.total = RequirementSum(e)
    <2> DEFINE g == [i \in 1..(n + 1) |-> e.subs[i].req]
               h == [i \in 1..n |-> d.subs[i].req]
    <2>1. g[1] = f.sub.req /\ \A i \in 1..n : h[i] \in Int /\ g[i + 1] = h[i]
      BY <1>2, <1>4
    <2>2. RequirementSum(e) = Sum(g, 1..(n + 1)) /\ RequirementSum(d) = Sum(h, 1..n)
      <3>1. n + 1 \in Nat
        BY <1>2
      <3> QED
        BY Zenon, <1>2, <1>4, <3>1, SumsByIndex
    <2> HIDE DEF g, h
    <2>3. Sum(g, 1..(n + 1)) = g[1] + Sum(h, 1..n)
      BY <1>1, <1>2, <2>1, SumPrepend
    <2> QED
      BY <1>3, <2>1, <2>2, <2>3 DEF Sums, AddsUp
  <1>8. ASSUME NEW l \in Legs PROVE e.used[l] = Attributed(e, l)
    <2> DEFINE g == [i \in 1..(n + 1) |-> AttributedBy(e.subs[i], l)]
               h == [i \in 1..n |-> AttributedBy(d.subs[i], l)]
    <2>1. /\ g[1] = t[l] /\ t[l] \in Int
          /\ \A i \in 1..n : h[i] \in Int /\ g[i + 1] = h[i]
      BY <1>2, <1>4, <1>5, <1>6
    <2>2. Attributed(e, l) = Sum(g, 1..(n + 1)) /\ Attributed(d, l) = Sum(h, 1..n)
      <3>1. n + 1 \in Nat
        BY <1>2
      <3>2. Attributed(e, l)
            = Sum([i \in 1..(n + 1) |-> AttributedBy(e.subs[i], l)], 1..(n + 1))
        BY Zenon, <1>4, <3>1, LegSumByIndex
      <3>3. Attributed(d, l) = Sum([i \in 1..n |-> AttributedBy(d.subs[i], l)], 1..n)
        BY Zenon, <1>2, LegSumByIndex
      <3> QED
        BY <3>2, <3>3
    <2> HIDE DEF g, h
    <2>3. Sum(g, 1..(n + 1)) = g[1] + Sum(h, 1..n)
      BY <1>2, <2>1, SumPrepend
    <2> QED
      BY <1>3, <2>1, <2>2, <2>3 DEF Sums, AddsUp
  <1>9. ASSUME NEW i \in 1..(n + 1), NEW l \in Legs PROVE AttributedBy(e.subs[i], l) \in Nat
    <2>1. CASE i = 1
      BY <1>4, <1>5, <2>1
    <2>2. CASE i # 1
      <3>1. i - 1 \in 1..n /\ e.subs[i] = d.subs[i - 1]
        BY <1>2, <1>4, <2>2
      <3> QED
        BY <1>6, <3>1
    <2> QED
      BY <2>1, <2>2
  <1> QED
    BY <1>4, <1>7, <1>8, <1>9 DEF Sums, AddsUp, e

\* One index more.
LEMMA SumAppend ==
  ASSUME NEW n \in Nat, NEW g, NEW h,
         \A i \in 1..n : g[i] = h[i] /\ h[i] \in Int, g[n + 1] \in Int
  PROVE  Sum(g, 1..(n + 1)) = Sum(h, 1..n) + g[n + 1]
  <1> DEFINE T == 1..n
  <1>1. n + 1 \in Nat /\ n + 1 > 0 /\ (n + 1) - 1 = n /\ \A i \in 1..(n + 1) : g[i] \in Int
    OBVIOUS
  <1>2. Sum(g, 1..(n + 1)) = Sum(g, 1..n) + g[n + 1]
    BY <1>1, SumUpTo
  <1>3. IsFiniteSet(T) /\ \A i \in T : g[i] = h[i]
    BY FS_Interval
  <1> HIDE DEF T
  <1>4. Sum(g, T) = Sum(h, T)
    BY <1>3, SumSame
  <1> QED
    BY <1>2, <1>4 DEF T

LEMMA RequirementAppend ==
  ASSUME NEW n \in Nat, NEW d, DOMAIN d.subs = 1..n, NEW e, DOMAIN e.subs = 1..(n + 1),
         \A i \in 1..n : e.subs[i] = d.subs[i] /\ d.subs[i].req \in Int,
         e.subs[n + 1].req \in Int
  PROVE  RequirementSum(e) = RequirementSum(d) + e.subs[n + 1].req
  <1> DEFINE g == [i \in 1..(n + 1) |-> e.subs[i].req]
             h == [i \in 1..n |-> d.subs[i].req]
  <1>1. g[n + 1] = e.subs[n + 1].req /\ \A i \in 1..n : g[i] = h[i] /\ h[i] \in Int
    OBVIOUS
  <1>2. RequirementSum(e) = Sum(g, 1..(n + 1)) /\ RequirementSum(d) = Sum(h, 1..n)
    <2>1. n + 1 \in Nat
      OBVIOUS
    <2> QED
      BY Zenon, <2>1, SumsByIndex
  <1> HIDE DEF g, h
  <1>3. Sum(g, 1..(n + 1)) = Sum(h, 1..n) + g[n + 1]
    BY <1>1, SumAppend
  <1> QED
    BY <1>1, <1>2, <1>3

LEMMA LegAppend ==
  ASSUME NEW l, NEW n \in Nat, NEW d, DOMAIN d.subs = 1..n, NEW e, DOMAIN e.subs = 1..(n + 1),
         \A i \in 1..n : e.subs[i] = d.subs[i] /\ AttributedBy(d.subs[i], l) \in Int,
         AttributedBy(e.subs[n + 1], l) \in Int
  PROVE  Attributed(e, l) = Attributed(d, l) + AttributedBy(e.subs[n + 1], l)
  <1> DEFINE g == [i \in 1..(n + 1) |-> AttributedBy(e.subs[i], l)]
             h == [i \in 1..n |-> AttributedBy(d.subs[i], l)]
  <1>1. /\ g[n + 1] = AttributedBy(e.subs[n + 1], l)
        /\ \A i \in 1..n : g[i] = h[i] /\ h[i] \in Int
    OBVIOUS
  <1>2. Attributed(e, l) = Sum(g, 1..(n + 1)) /\ Attributed(d, l) = Sum(h, 1..n)
    <2>1. n + 1 \in Nat
      OBVIOUS
    <2>2. Attributed(e, l) = Sum([i \in 1..(n + 1) |-> AttributedBy(e.subs[i], l)], 1..(n + 1))
      BY ONLY Zenon, <2>1, LegSumByIndex, DOMAIN e.subs = 1..(n + 1)
    <2>3. Attributed(d, l) = Sum([i \in 1..n |-> AttributedBy(d.subs[i], l)], 1..n)
      BY ONLY Zenon, LegSumByIndex, DOMAIN d.subs = 1..n, n \in Nat
    <2> QED
      BY <2>2, <2>3
  <1> HIDE DEF g, h
  <1>3. Sum(g, 1..(n + 1)) = Sum(h, 1..n) + g[n + 1]
    BY <1>1, SumAppend
  <1> QED
    BY <1>1, <1>2, <1>3

\* A naked leg behind what adds up.
LEMMA AppendSums ==
  ASSUME NEW d \in Decomposition, Sums(d), NEW sub \in SubPosition, NEW l \in Legs, NEW x \in Nat,
         sub.legs = <<l>>, sub.amt = <<x>>, d.used[l] = 0,
         NEW e, e.subs = Append(d.subs, sub), e.total = d.total + sub.req,
         e.used = [d.used EXCEPT ![l] = x]
  PROVE  Sums(e)
  <1> DEFINE n == Len(d.subs)
  <1>1. /\ d.subs \in Seq(SubPosition) /\ d.total \in Int /\ d.used \in [Legs -> Nat]
        /\ sub.req \in Int
    BY DEF Decomposition, SubPosition
  <1>2. /\ n \in Nat /\ DOMAIN d.subs = 1..n
        /\ \A i \in 1..n : d.subs[i] \in SubPosition /\ d.subs[i].req \in Int
    <2>1. /\ n \in Nat /\ DOMAIN d.subs = 1..n
          /\ \A i \in 1..n : d.subs[i] \in SubPosition
      BY <1>1
    <2> QED
      BY <2>1 DEF SubPosition
  <1>3. /\ DOMAIN e.subs = 1..(n + 1) /\ e.subs[n + 1] = sub
        /\ \A i \in 1..n : e.subs[i] = d.subs[i]
    BY <1>1, <1>2
  <1>4. \A m \in Legs : AttributedBy(sub, m) = IF m = l THEN x ELSE 0
    <2>1. OnceEach(sub) /\ \A m \in Legs : Taken(sub.legs, sub.amt)[m] = IF m = l THEN x ELSE 0
      BY DEF OnceEach, Taken
    <2>2. Taken(sub.legs, sub.amt) \in [Legs -> Nat]
      BY DEF Taken
    <2>3. \A m \in Legs : AttributedBy(sub, m) = Taken(sub.legs, sub.amt)[m]
      BY <2>1, <2>2, AttributedIsTaken
    <2> QED
      BY <2>1, <2>3
  <1>5. \A i \in 1..n, m \in Legs : AttributedBy(d.subs[i], m) \in Nat
    BY <1>2 DEF Sums
  <1> HIDE DEF n
  <1>6. RequirementSum(e) = RequirementSum(d) + sub.req
    <2>1. /\ e.subs[n + 1].req \in Int
          /\ \A i \in 1..n : e.subs[i] = d.subs[i] /\ d.subs[i].req \in Int
      BY ONLY <1>1, <1>2, <1>3
    <2>2. RequirementSum(e) = RequirementSum(d) + e.subs[n + 1].req
      BY ONLY Zenon, <1>2, <1>3, <2>1, RequirementAppend
    <2> QED
      BY ONLY <1>3, <2>2
  <1>7. e.total = RequirementSum(e)
    BY <1>1, <1>6 DEF Sums, AddsUp
  <1>8. ASSUME NEW m \in Legs PROVE e.used[m] = Attributed(e, m)
    <2>1. AttributedBy(sub, m) \in Int
      BY <1>4
    <2>2. AttributedBy(e.subs[n + 1], m) \in Int
      BY ONLY <1>3, <2>1
    <2>3. \A i \in 1..n : e.subs[i] = d.subs[i] /\ AttributedBy(d.subs[i], m) \in Int
      BY ONLY <1>3, <1>5, m \in Legs
    <2>4. Attributed(e, m) = Attributed(d, m) + AttributedBy(e.subs[n + 1], m)
      BY ONLY Zenon, <1>2, <1>3, <2>2, <2>3, LegAppend
    <2>5. Attributed(e, m) = Attributed(d, m) + AttributedBy(sub, m)
      BY ONLY <1>3, <2>4
    <2>6. /\ e.used[m] = IF m = l THEN x ELSE d.used[m]
          /\ d.used[m] \in Nat /\ d.used[m] = Attributed(d, m)
      BY <1>1 DEF Sums, AddsUp
    <2> QED
      BY <1>4, <2>5, <2>6
  <1>9. ASSUME NEW i \in 1..(n + 1), NEW m \in Legs PROVE AttributedBy(e.subs[i], m) \in Nat
    <2>1. CASE i = n + 1
      <3>1. AttributedBy(sub, m) \in Nat
        BY <1>4
      <3> QED
        BY <1>3, <2>1, <3>1
    <2>2. CASE i # n + 1
      <3>1. i \in 1..n /\ e.subs[i] = d.subs[i]
        BY <1>2, <1>3, <2>2
      <3> QED
        BY <1>5, <3>1
    <2> QED
      BY <2>1, <2>2
  <1> QED
    BY <1>3, <1>7, <1>8, <1>9 DEF Sums, AddsUp

\* A step that replaces the top activation and returns nothing new.
LEMMA SumsReplace ==
  ASSUME SumsInv, stack # <<>>, NEW g, stack' = WithTop(g), FrameSums(g),
         memo' = memo, ret' = ret, IInv'
  PROVE  SumsInv'
  <1>1. stack \in Seq(Frame)
    BY DEF SumsInv, IInv, StackOK
  <1>2. \A i \in DOMAIN stack' : i \in DOMAIN stack /\ (stack'[i] = stack[i] \/ stack'[i] = g)
    BY <1>1 DEF WithTop
  <1>3. \A i \in DOMAIN stack' : FrameSums(stack'[i])
    BY <1>2 DEF SumsInv
  <1> QED
    BY <1>3 DEF SumsInv

\* A step that pops the top activation, and memoizes what it returns or nothing.
LEMMA SumsPop ==
  ASSUME SumsInv, stack # <<>>, stack' = Popped, Sums(ret'), IInv',
         \/ memo' = memo
         \/ \E s : memo' = Memoized(s, ret')
  PROVE  SumsInv'
  <1>1. stack \in Seq(Frame)
    BY DEF SumsInv, IInv, StackOK
  <1>2. \A i \in DOMAIN stack' : i \in DOMAIN stack /\ stack'[i] = stack[i]
    BY <1>1, DescendsPop DEF Popped
  <1>3. \A i \in DOMAIN stack' : FrameSums(stack'[i])
    BY <1>2 DEF SumsInv
  <1>4. \A k \in DOMAIN memo' : Sums(memo'[k])
    BY DEF SumsInv, Memoized
  <1> QED
    BY <1>3, <1>4 DEF SumsInv

LEMMA SumsTop ==
  ASSUME SumsInv, stack # <<>>
  PROVE  FrameOK(Top) /\ Top \in Frame /\ FrameSums(Top)
  <1>1. FrameOK(Top) /\ Top \in Frame
    BY TopFacts DEF SumsInv
  <1>2. Len(stack) \in DOMAIN stack
    BY DEF SumsInv, IInv, StackOK
  <1> QED
    BY <1>1, <1>2 DEF SumsInv, Top

LEMMA SumsEnter ==
  ASSUME SumsInv, Enter, IInv'
  PROVE  SumsInv'
  <1>1. CASE MemoHit
    BY <1>1 DEF MemoHit, SumsInv
  <1>2. CASE NothingOpen
    BY <1>2, NothingSums DEF NothingOpen, SumsInv, Memoized
  <1>3. CASE Expand
    <2> DEFINE f == NewFrame(arg)
    <2>1. stack' = Append(stack, f) /\ memo' = memo /\ ret' = ret
      BY <1>3 DEF Expand
    <2>2. FrameSums(f)
      BY NothingSums DEF FrameSums, OnceEach, NewFrame, NoSub
    <2> HIDE DEF f
    <2>3. \A i \in DOMAIN stack' : (i \in DOMAIN stack /\ stack'[i] = stack[i]) \/ stack'[i] = f
      BY <2>1 DEF SumsInv, IInv, StackOK
    <2>4. \A i \in DOMAIN stack' : FrameSums(stack'[i])
      BY <2>2, <2>3 DEF SumsInv
    <2> QED
      BY <2>1, <2>4 DEF SumsInv
  <1> QED
    BY <1>1, <1>2, <1>3 DEF Enter

LEMMA SumsScan ==
  ASSUME SumsInv, pc = "scan", IInv', NEW c \in Top.todo,
         SkipChoice(c) \/ FailChoice(c) \/ Descend(c)
  PROVE  SumsInv'
  <1>0. stack # <<>>
    BY DEF SumsInv, IInv, ControlOK
  <1>1. FrameOK(Top) /\ Top \in Frame /\ FrameSums(Top)
    BY <1>0, SumsTop
  <1>2. CASE SkipChoice(c)
    <2> DEFINE g == [Top EXCEPT !.todo = @ \ {c}]
    <2>1. FrameSums(g)
      BY <1>1 DEF FrameSums, Frame
    <2>2. stack' = WithTop(g) /\ memo' = memo /\ ret' = ret
      BY <1>2 DEF SkipChoice
    <2> HIDE DEF g
    <2> QED
      BY <1>0, <2>1, <2>2, SumsReplace
  <1>3. CASE FailChoice(c)
    <2>1. stack' = Popped /\ memo' = memo /\ ret' = HardCarrier
      BY <1>3 DEF FailChoice
    <2>2. Sums(ret')
      BY <2>1, NothingSums
    <2> QED
      BY <1>0, <2>1, <2>2, SumsPop
  <1>4. CASE Descend(c)
    <2>1. PICK p \in Plans(Targets[c[1]], Top.state, c[2], facts.U) :
            LET o == EvaluateRule(Targets[c[1]], c[2], p, facts)
            IN  /\ Fits(o)
                /\ stack' = WithTop([Top EXCEPT
                     !.todo = @ \ {c},
                     !.sub  = ScoredSub(Targets[c[1]], c[2], p, o),
                     !.rest = Remainder(Top.state, c[2], p)])
      BY <1>4 DEF Descend
    <2> DEFINE sub == ScoredSub(Targets[c[1]], c[2], p, EvaluateRule(Targets[c[1]], c[2], p, facts))
               g   == [Top EXCEPT !.todo = @ \ {c}, !.sub = sub,
                                  !.rest = Remainder(Top.state, c[2], p)]
    <2>2. stack' = WithTop(g) /\ memo' = memo /\ ret' = ret
      BY <1>4, <2>1 DEF Descend
    <2>3. c \in Offers(Top.state) /\ Top.state \in State
      BY <1>1 DEF FrameOK, Frame
    <2>4. OnceEach(sub)
      BY <2>3, OffersType, BindingType DEF OnceEach, ScoredSub
    <2> HIDE DEF sub
    <2>5. FrameSums(g)
      BY <1>1, <2>4 DEF FrameSums, Frame
    <2> HIDE DEF g
    <2> QED
      BY <1>0, <2>2, <2>5, SumsReplace
  <1> QED
    BY <1>2, <1>3, <1>4

LEMMA SumsResidual ==
  ASSUME SumsInv, pc = "scan", IInv', NEW l \in Top.left,
         ResidualShares(l) \/ ResidualNaked(l) \/ ResidualUnmatched(l)
  PROVE  SumsInv'
  <1>0. stack # <<>>
    BY DEF SumsInv, IInv, ControlOK
  <1>1. FrameOK(Top) /\ Top \in Frame /\ FrameSums(Top) /\ Top.res \in Decomposition
    BY <1>0, SumsTop DEF Frame
  <1>2. ASSUME NEW e, ResidualError(l, e)
        PROVE  SumsInv'
    <2> DEFINE g == [Top EXCEPT !.left = @ \ {l}, !.res.err = Stronger(@, e)]
    <2>1. /\ g.sub = Top.sub /\ g.best = Top.best
          /\ g.res.subs = Top.res.subs /\ g.res.total = Top.res.total
          /\ g.res.used = Top.res.used
      BY <1>1 DEF Frame, Decomposition
    <2>2. stack' = WithTop(g) /\ memo' = memo /\ ret' = ret
      BY <1>2 DEF ResidualError
    <2> HIDE DEF g
    <2>3. FrameSums(g)
      BY <1>1, <2>1, OtherErrorSums DEF FrameSums
    <2> QED
      BY <1>0, <2>2, <2>3, SumsReplace
  <1>3. CASE ResidualShares(l) \/ ResidualUnmatched(l)
    BY <1>2, <1>3 DEF ResidualShares, ResidualUnmatched
  <1>4. CASE ResidualNaked(l)
    <2>1. PICK i \in DOMAIN NakedRules :
            \/ ResidualError(l, Hard)
            \/ /\ Fits(NakedOutcome(l, i))
               /\ stack' = WithTop([Top EXCEPT
                    !.left = @ \ {l},
                    !.res.subs = Append(@, ScoredSub(NakedRules[i], <<l>>, <<Top.state[l]>>,
                                                     NakedOutcome(l, i))),
                    !.res.total = @ + NakedOutcome(l, i).req,
                    !.res.used[l] = Top.state[l]])
               /\ UNCHANGED <<memo, ret>>
      BY <1>4 DEF ResidualNaked
    <2> DEFINE o   == NakedOutcome(l, i)
               x   == Top.state[l]
               sub == ScoredSub(NakedRules[i], <<l>>, <<x>>, o)
               g   == [Top EXCEPT
                    !.left = @ \ {l},
                    !.res.subs = Append(@, sub),
                    !.res.total = @ + o.req,
                    !.res.used[l] = x]
    <2>2. CASE ResidualError(l, Hard)
      BY <1>2, <2>2
    <2>3. CASE Fits(o) /\ stack' = WithTop(g) /\ UNCHANGED <<memo, ret>>
      <3>1. l \in Legs /\ l \in Nat /\ x \in Nat /\ o.req \in Int
        BY <1>1, <2>3, LegsAssumption DEF Frame, State, Fits, Fails
      <3>2. /\ sub \in SubPosition /\ sub.legs = <<l>> /\ sub.amt = <<x>> /\ sub.req = o.req
        <4>1. <<l>> \in Seq(Nat) /\ <<x>> \in Seq(Nat)
          BY <3>1
        <4>2. NakedRules[i] \in RuleID
          BY DEF RuleID
        <4> QED
          BY <3>1, <4>1, <4>2 DEF ScoredSub, SubPosition
      <3>3. Top.res.used[l] = 0
        BY <1>1 DEF FrameOK, Scores
      <3> HIDE DEF sub, x, o
      <3>4. /\ g.sub = Top.sub /\ g.best = Top.best
            /\ g.res.subs = Append(Top.res.subs, sub)
            /\ g.res.total = Top.res.total + o.req
            /\ g.res.used = [Top.res.used EXCEPT ![l] = x]
        BY <1>1 DEF Frame, Decomposition
      <3> HIDE DEF g
      <3>5. Sums(g.res)
        <4>1. Sums(Top.res) /\ Top.res \in Decomposition
          BY <1>1 DEF FrameSums
        <4>2. g.res.total = Top.res.total + sub.req
          BY <3>2, <3>4
        <4> QED
          BY Zenon, <3>1, <3>2, <3>3, <3>4, <4>1, <4>2, AppendSums
      <3>6. FrameSums(g)
        BY <1>1, <3>4, <3>5 DEF FrameSums
      <3> QED
        BY <1>0, <2>3, <3>6, SumsReplace
    <2> QED
      BY <2>1, <2>2, <2>3
  <1> QED
    BY <1>3, <1>4

LEMMA SumsReturn ==
  ASSUME SumsInv, IInv', Finish \/ Resume \/ Propagate \/ Answer
  PROVE  SumsInv'
  <1>1. CASE Finish
    <2>1. stack # <<>>
      BY <1>1 DEF Finish, SumsInv, IInv, ControlOK
    <2>2. FrameSums(Top)
      BY <2>1, SumsTop
    <2>3. /\ stack' = Popped /\ ret' = Chosen(Top)
          /\ memo' = Memoized(Top.state, ret')
      BY <1>1 DEF Finish
    <2>4. Sums(ret')
      BY <2>2, <2>3 DEF Chosen, FrameSums
    <2> QED
      BY <2>1, <2>3, <2>4, SumsPop
  <1>2. CASE Resume
    <2> DEFINE b == IF ~Top.have \/ BetterCandidate(Combine(Top, ret), Top.best)
                    THEN Combine(Top, ret) ELSE Top.best
               g == [Top EXCEPT !.have = TRUE, !.best = b]
    <2>1. /\ stack # <<>> /\ stack' = WithTop(g) /\ memo' = memo /\ ret' = ret
          /\ pc = "return"
      BY <1>2 DEF Resume
    <2>2. FrameOK(Top) /\ Top \in Frame /\ FrameSums(Top)
      BY <2>1, SumsTop
    <2>3. ret \in Decomposition /\ Sums(ret)
      BY DEF SumsInv, IInv, RegistersOK
    <2>4. Sums(b)
      BY <2>2, <2>3, CombineSums DEF FrameSums
    <2> HIDE DEF b
    <2>5. FrameSums(g)
      BY <2>2, <2>4 DEF FrameSums, Frame
    <2> HIDE DEF g
    <2> QED
      BY <2>1, <2>5, SumsReplace
  <1>3. CASE Propagate
    <2>1. stack # <<>> /\ stack' = Popped /\ memo' = memo /\ Sums(ret')
      BY <1>3 DEF Propagate, SumsInv
    <2> QED
      BY <2>1, SumsPop
  <1>4. CASE Answer
    BY <1>4 DEF Answer, SumsInv
  <1> QED
    BY <1>1, <1>2, <1>3, <1>4

LEMMA SumsStep == SumsInv /\ [Next]_vars => SumsInv'
  <1> SUFFICES ASSUME SumsInv, [Next]_vars PROVE SumsInv'
    OBVIOUS
  <1>0. IInv'
    BY StepInv DEF SumsInv
  <1>1. CASE Call
    <2>1. PICK f \in Facts, in \in Inputs :
            pc \in {"idle", "done"} /\ (Optimize(f, in) \/ Reject(f, in))
      BY <1>1 DEF Call
    <2>2. stack = <<>> /\ stack' = <<>>
      BY <2>1 DEF SumsInv, IInv, ControlOK, Optimize, Reject
    <2>3. memo' = memo \/ memo' = <<>>
      BY <2>1 DEF Optimize, Reject
    <2>4. Sums(ret')
      BY <2>1, NothingSums DEF SumsInv, Optimize, Reject
    <2> QED
      BY <1>0, <2>2, <2>3, <2>4 DEF SumsInv
  <1>2. CASE Enter
    BY <1>0, <1>2, SumsEnter
  <1>3. CASE pc = "scan" /\ Scan
    BY <1>0, <1>3, SumsScan DEF Scan
  <1>4. CASE pc = "scan" /\ Residual
    BY <1>0, <1>4, SumsResidual DEF Residual
  <1>5. CASE Finish \/ Resume \/ Propagate \/ Answer
    BY <1>0, <1>5, SumsReturn
  <1>6. CASE UNCHANGED vars
    BY <1>0, <1>6 DEF vars, SumsInv
  <1> QED
    BY <1>1, <1>2, <1>3, <1>4, <1>5, <1>6 DEF Next, Work

\* For every engine, set of legs and input: the total of every decomposition
\* that is returned or remembered is the sum of its sub-positions', and their
\* slots attribute to every leg exactly what the search took of it, along
\* whatever slices, error or not (decompose.go, residual.go).
THEOREM ResultsAddUp == Spec => []SubPositionsAddUp
  <1>1. Init => SumsInv
    BY InitInv, NothingSums DEF Init, SumsInv
  <1>2. SumsInv => SubPositionsAddUp
    BY DEF SumsInv, SubPositionsAddUp, Sums
  <1> QED
    BY <1>1, <1>2, SumsStep, PTL DEF Spec

-----------------------------------------------------------------------------
(***************************************************************************)
(* How often decompose is entered: once for the call and once for each     *)
(* slice an activation has tried so far.  The activations are those whose  *)
(* state is answered and those on the stack.                               *)
(***************************************************************************)
Tried(f, fct) == Cardinality(Scored(f.state, fct) \ f.todo)

TriedOn(st, fct) == SumFunction([i \in DOMAIN st |-> Tried(st[i], fct)])

AnsweredIn(m, fct) == SumFunction([k \in DOMAIN m |-> Cardinality(Scored(StateOf(k), fct))])

Entered == 1 + AnsweredIn(memo, facts) + TriedOn(stack, facts)

\* A hard error ends activations that are neither answered nor on the stack;
\* on its way up nothing is counted any more.
Counted ==
  /\ pc = "call" => nodes + 1 = Entered
  /\ pc = "scan" => nodes = Entered
  /\ pc = "return" /\ ret.err.kind # "hard" => nodes = Entered
  /\ pc = "done" /\ ret.err.kind \notin {"hard", "invalid"} => nodes = Entered

CountInv == DescentInv /\ IsFiniteSet(DOMAIN memo) /\ Counted

LEMMA OffersFinite ==
  ASSUME NEW s \in State
  PROVE  IsFiniteSet(Offers(s))
  <1> DEFINE D == DOMAIN Targets
             B == [i \in D |-> Bindings(Targets[i], s)]
             R == {B[i] : i \in D}
  <1>1. IsFiniteSet(D)
    <2>1. D = 1..Len(Targets) /\ Len(Targets) \in Nat
      BY TargetsAssumption
    <2>2. 1 \in Int /\ Len(Targets) \in Int
      BY <2>1
    <2> HIDE DEF D
    <2> QED
      BY Zenon, <2>1, <2>2, FS_Interval
  <1>2. IsFiniteSet(OpenLegs(s))
    BY LegsAssumption, FS_Subset DEF OpenLegs
  <1>3. ASSUME NEW i \in D PROVE IsFiniteSet(B[i])
    <2> DEFINE n == Len(Slots[Targets[i]])
    <2>1. n \in Nat
      BY SlotsAssumption
    <2>2. Bindings(Targets[i], s) \subseteq [1..n -> OpenLegs(s)]
      BY DEF Bindings
    <2>3. IsFiniteSet(1..n)
      <3>1. 1 \in Int /\ n \in Int
        BY <2>1
      <3> HIDE DEF n
      <3> QED
        BY Zenon, <3>1, FS_Interval
    <2> HIDE DEF n
    <2>4. IsFiniteSet([1..n -> OpenLegs(s)])
      BY <1>2, <2>3, FunctionsFinite
    <2> QED
      BY <2>2, <2>4, FS_Subset
  <1>4. IsFiniteSet(R)
    <2>1. B \in Surjection(D, R)
      BY DEF Surjection
    <2> HIDE DEF B, R, D
    <2> QED
      BY <1>1, <2>1, FS_Surjection
  <1>5. IsFiniteSet(UNION R)
    <2>1. \A T \in R : IsFiniteSet(T)
      BY <1>3
    <2> HIDE DEF R
    <2> QED
      BY <1>4, <2>1, FS_UNION
  <1>6. Offers(s) \subseteq D \X UNION R
    BY DEF Offers
  <1> HIDE DEF D, R
  <1>7. IsFiniteSet(D \X UNION R)
    BY <1>1, <1>5, FS_Product
  <1> QED
    BY <1>6, <1>7, FS_Subset

LEMMA ScoredFinite ==
  ASSUME NEW s \in State, NEW fct, NEW T
  PROVE  IsFiniteSet(Scored(s, fct) \ T) /\ Cardinality(Scored(s, fct) \ T) \in Nat
  <1>1. Scored(s, fct) \ T \in SUBSET Offers(s)
    BY DEF Scored
  <1> QED
    BY <1>1, OffersFinite, FS_Subset, FS_CardinalityType

\* A state with nothing open offers nothing.
LEMMA NothingScored ==
  ASSUME NEW s \in State, OpenLegs(s) = {}, NEW fct
  PROVE  Cardinality(Scored(s, fct)) = 0
  <1>1. ASSUME NEW i \in DOMAIN Targets
        PROVE  Bindings(Targets[i], s) = {}
    <2> DEFINE slots == Slots[Targets[i]]
    <2>1. Len(slots) \in Nat /\ DOMAIN slots = 1..Len(slots)
      BY SlotsAssumption
    <2>2. \A j : Matching(slots[j], s) = {}
      BY DEF Matching
    <2>3. Len(slots) \in 1..MaxSlots => 1 \in DOMAIN slots
      BY <2>1
    <2>4. Len(slots) \notin 1..MaxSlots \/ \E j \in DOMAIN slots : Matching(slots[j], s) = {}
      BY <2>2, <2>3
    <2> QED
      BY <2>4 DEF Bindings
  <1>2. Scored(s, fct) = {}
    BY <1>1 DEF Scored, Offers
  <1> QED
    BY <1>2, FS_EmptySet

\* One more activation on the stack.
LEMMA TriedOnTop ==
  ASSUME NEW fct, NEW st \in Seq(Frame), NEW pre \in Seq(Frame), Len(st) = Len(pre) + 1,
         \A i \in 1..Len(pre) : st[i] = pre[i]
  PROVE  /\ TriedOn(pre, fct) \in Int /\ Tried(st[Len(st)], fct) \in Nat
         /\ TriedOn(st, fct) = TriedOn(pre, fct) + Tried(st[Len(st)], fct)
  <1> DEFINE n == Len(pre)
             g == [i \in DOMAIN st |-> Tried(st[i], fct)]
             h == [i \in DOMAIN pre |-> Tried(pre[i], fct)]
  <1>1. n \in Nat /\ Len(st) = n + 1 /\ DOMAIN st = 1..(n + 1) /\ DOMAIN pre = 1..n
    OBVIOUS
  <1>2. ASSUME NEW f \in Frame PROVE Tried(f, fct) \in Nat
    BY ScoredFinite DEF Tried, Frame
  <1>3. Tried(st[n + 1], fct) \in Nat /\ g[n + 1] = Tried(st[n + 1], fct)
    <2>1. st[n + 1] \in Frame
      BY <1>1
    <2> QED
      BY <1>1, <1>2, <2>1
  <1>4. \A i \in 1..n : g[i] = h[i] /\ h[i] \in Int
    BY <1>1, <1>2
  <1>5. TriedOn(st, fct) = Sum(g, 1..(n + 1)) /\ TriedOn(pre, fct) = Sum(h, 1..n)
    BY <1>1, SumOfFunction DEF TriedOn
  <1> HIDE DEF g, h, n
  <1>6. Sum(g, 1..(n + 1)) = Sum(h, 1..n) + g[n + 1]
    <2>1. g[n + 1] \in Int
      BY <1>3
    <2> QED
      BY Zenon, <1>1, <1>4, <2>1, SumAppend
  <1>7. Sum(h, 1..n) \in Int
    BY <1>1, <1>4, SumUpTo
  <1> QED
    BY <1>1, <1>3, <1>5, <1>6, <1>7

LEMMA TriedPush ==
  ASSUME NEW fct, NEW st \in Seq(Frame), NEW f \in Frame
  PROVE  /\ TriedOn(st, fct) \in Int /\ Tried(f, fct) \in Nat
         /\ TriedOn(Append(st, f), fct) = TriedOn(st, fct) + Tried(f, fct)
  <1> DEFINE new == Append(st, f)
  <1>1. /\ new \in Seq(Frame) /\ Len(new) = Len(st) + 1 /\ new[Len(new)] = f
        /\ \A i \in 1..Len(st) : new[i] = st[i]
    OBVIOUS
  <1> HIDE DEF new
  <1> QED
    BY <1>1, TriedOnTop DEF new

LEMMA TriedPop ==
  ASSUME NEW fct, NEW st \in Seq(Frame), st # <<>>
  PROVE  LET pre == SubSeq(st, 1, Len(st) - 1)
         IN  /\ TriedOn(pre, fct) \in Int /\ Tried(st[Len(st)], fct) \in Nat
             /\ TriedOn(st, fct) = TriedOn(pre, fct) + Tried(st[Len(st)], fct)
  <1> DEFINE pre == SubSeq(st, 1, Len(st) - 1)
  <1>1. /\ pre \in Seq(Frame) /\ Len(st) = Len(pre) + 1
        /\ \A i \in 1..Len(pre) : st[i] = pre[i]
    BY WithoutTop
  <1> HIDE DEF pre
  <1> QED
    BY <1>1, TriedOnTop DEF pre

LEMMA TriedReplace ==
  ASSUME NEW fct, NEW st \in Seq(Frame), st # <<>>, NEW g \in Frame
  PROVE  LET new == [st EXCEPT ![Len(st)] = g]
         IN  /\ TriedOn(st, fct) \in Int
             /\ Tried(st[Len(st)], fct) \in Nat /\ Tried(g, fct) \in Nat
             /\ TriedOn(new, fct) = TriedOn(st, fct) - Tried(st[Len(st)], fct) + Tried(g, fct)
  <1> DEFINE pre == SubSeq(st, 1, Len(st) - 1)
             new == [st EXCEPT ![Len(st)] = g]
  <1>1. /\ pre \in Seq(Frame) /\ Len(st) = Len(pre) + 1
        /\ \A i \in 1..Len(pre) : st[i] = pre[i]
    BY WithoutTop
  <1> HIDE DEF pre
  <1>2. /\ new \in Seq(Frame) /\ Len(new) = Len(pre) + 1 /\ new[Len(new)] = g
        /\ \A i \in 1..Len(pre) : new[i] = pre[i]
    BY <1>1
  <1> HIDE DEF new
  <1>3. /\ TriedOn(pre, fct) \in Int /\ Tried(st[Len(st)], fct) \in Nat
        /\ TriedOn(st, fct) = TriedOn(pre, fct) + Tried(st[Len(st)], fct)
    BY <1>1, TriedOnTop
  <1>4. /\ Tried(g, fct) \in Nat
        /\ TriedOn(new, fct) = TriedOn(pre, fct) + Tried(g, fct)
    BY <1>1, <1>2, TriedOnTop
  <1>5. /\ TriedOn(st, fct) \in Int
        /\ TriedOn(new, fct) = TriedOn(st, fct) - Tried(st[Len(st)], fct) + Tried(g, fct)
    BY <1>3, <1>4
  <1> QED
    BY <1>3, <1>4, <1>5 DEF new

\* One more state answered.
LEMMA AnsweredGrows ==
  ASSUME NEW fct, NEW m, IsFiniteSet(DOMAIN m), \A k \in DOMAIN m : \E t \in State : k = Key(t),
         NEW s \in State, Key(s) \notin DOMAIN m, NEW new, DOMAIN new = DOMAIN m \cup {Key(s)}
  PROVE  /\ IsFiniteSet(DOMAIN new)
         /\ AnsweredIn(m, fct) \in Int /\ Cardinality(Scored(s, fct)) \in Nat
         /\ AnsweredIn(new, fct) = AnsweredIn(m, fct) + Cardinality(Scored(s, fct))
  <1> DEFINE D == DOMAIN m
             y == Key(s)
             g == [k \in D |-> Cardinality(Scored(StateOf(k), fct))]
             h == [k \in D \cup {y} |-> Cardinality(Scored(StateOf(k), fct))]
  <1>1. ASSUME NEW t \in State PROVE Cardinality(Scored(t, fct)) \in Nat
    <2>1. Scored(t, fct) \ {} = Scored(t, fct)
      OBVIOUS
    <2> QED
      BY <2>1, ScoredFinite
  <1>2. ASSUME NEW k \in D \cup {y} PROVE h[k] \in Int
    <2>1. PICK t \in State : k = Key(t)
      OBVIOUS
    <2>2. StateOf(k) = t
      BY <2>1, StateOfKey
    <2> QED
      BY <1>1, <2>2
  <1>3. h[y] = Cardinality(Scored(s, fct))
    BY StateOfKey
  <1>4. \A k \in D : g[k] = h[k]
    OBVIOUS
  <1>5. AnsweredIn(m, fct) = Sum(g, D)
    BY SumOfFunction DEF AnsweredIn
  <1>6. AnsweredIn(new, fct) = Sum(h, D \cup {y})
    BY SumOfFunction DEF AnsweredIn
  <1>7. IsFiniteSet(D) /\ IsFiniteSet(D \cup {y}) /\ y \notin D
    BY FS_AddElement
  <1> HIDE DEF g, h, D, y
  <1>8. Sum(h, D \cup {y}) = Sum(h, D) + h[y]
    BY <1>2, <1>7, SumAdd
  <1>9. Sum(g, D) = Sum(h, D)
    BY <1>4, <1>7, SumSame
  <1>10. Sum(h, D) \in Int
    BY <1>2, <1>7, SumType
  <1>11. AnsweredIn(m, fct) \in Int
    BY <1>5, <1>9, <1>10
  <1>12. AnsweredIn(new, fct) = AnsweredIn(m, fct) + Cardinality(Scored(s, fct))
    BY <1>3, <1>5, <1>6, <1>8, <1>9
  <1> QED
    BY <1>1, <1>7, <1>11, <1>12 DEF D, y

LEMMA NothingCounted ==
  ASSUME NEW fct
  PROVE  AnsweredIn(<<>>, fct) = 0 /\ TriedOn(<<>>, fct) = 0
  <1> DEFINE g == [k \in DOMAIN <<>> |-> Cardinality(Scored(StateOf(k), fct))]
             h == [i \in DOMAIN <<>> |-> Tried(<<>>[i], fct)]
  <1>1. DOMAIN g = {} /\ DOMAIN h = {}
    OBVIOUS
  <1>2. AnsweredIn(<<>>, fct) = SumFunction(g) /\ TriedOn(<<>>, fct) = SumFunction(h)
    BY DEF AnsweredIn, TriedOn
  <1> HIDE DEF g, h
  <1> QED
    BY <1>1, <1>2, SumOfFunction, SumEmpty

LEMMA CountFacts ==
  ASSUME CountInv
  PROVE  /\ stack \in Seq(Frame) /\ nodes \in Nat /\ arg \in State
         /\ AnsweredIn(memo, facts) \in Int /\ TriedOn(stack, facts) \in Int
         /\ IsFiniteSet(DOMAIN memo) /\ \A k \in DOMAIN memo : \E t \in State : k = Key(t)
  <1>1. /\ stack \in Seq(Frame) /\ nodes \in Nat /\ arg \in State
        /\ IsFiniteSet(DOMAIN memo) /\ \A k \in DOMAIN memo : \E t \in State : k = Key(t)
    BY DEF CountInv, DescentInv, IInv, StackOK, RegistersOK, MemoOK
  <1>2. TriedOn(stack, facts) \in Int
    <2>1. CASE stack = <<>>
      BY <2>1, NothingCounted
    <2>2. CASE stack # <<>>
      BY <1>1, <2>2, TriedPop
    <2> QED
      BY <2>1, <2>2
  <1>3. AnsweredIn(memo, facts) \in Int
    <2> DEFINE D == DOMAIN memo
               g == [k \in D |-> Cardinality(Scored(StateOf(k), facts))]
    <2>1. ASSUME NEW k \in D PROVE g[k] \in Int
      <3>1. PICK t \in State : k = Key(t)
        BY <1>1
      <3>2. StateOf(k) = t
        BY <3>1, StateOfKey
      <3>3. Scored(t, facts) \ {} = Scored(t, facts)
        OBVIOUS
      <3>4. Cardinality(Scored(t, facts)) \in Nat
        BY <3>3, ScoredFinite
      <3> QED
        BY <3>2, <3>4
    <2>2. AnsweredIn(memo, facts) = Sum(g, D)
      BY SumOfFunction DEF AnsweredIn
    <2> HIDE DEF g
    <2> QED
      BY <1>1, <2>1, <2>2, SumType
  <1> QED
    BY <1>1, <1>2, <1>3

\* An activation makes one more call for a slice that fits, and none otherwise.
LEMMA TriedOneMore ==
  ASSUME NEW f \in Frame, NEW fct, NEW c \in f.todo, NEW g \in Frame,
         g.state = f.state, g.todo = f.todo \ {c}
  PROVE  /\ Tried(f, fct) \in Nat
         /\ Tried(g, fct) = IF c \in Scored(f.state, fct) THEN Tried(f, fct) + 1 ELSE Tried(f, fct)
  <1> DEFINE S == Scored(f.state, fct)
             A == S \ f.todo
  <1>1. IsFiniteSet(A) /\ Cardinality(A) \in Nat
    BY ScoredFinite DEF Frame
  <1>2. c \in S => S \ g.todo = A \cup {c}
    OBVIOUS
  <1>3. c \notin S => S \ g.todo = A
    OBVIOUS
  <1>4. c \notin A
    OBVIOUS
  <1> HIDE DEF S, A
  <1>5. Cardinality(A \cup {c}) = Cardinality(A) + 1
    BY <1>1, <1>4, FS_AddElement
  <1> QED
    BY <1>1, <1>2, <1>3, <1>5 DEF Tried, S, A

\* A step that replaces the top activation by one that has tried as much.
LEMMA CountReplace ==
  ASSUME CountInv, pc = "scan", stack # <<>>, NEW g \in Frame,
         Tried(g, facts) = Tried(Top, facts),
         stack' = WithTop(g), pc' = "scan", UNCHANGED <<facts, memo, nodes>>, DescentInv'
  PROVE  CountInv'
  <1>1. TriedOn(stack', facts) = TriedOn(stack, facts)
    <2>1. /\ TriedOn(stack, facts) \in Int
          /\ Tried(Top, facts) \in Nat /\ Tried(g, facts) \in Nat
          /\ TriedOn(stack', facts) = TriedOn(stack, facts) - Tried(Top, facts) + Tried(g, facts)
      BY CountFacts, TriedReplace DEF Top, WithTop
    <2> QED
      BY <2>1
  <1>2. nodes = Entered
    BY DEF CountInv, Counted
  <1>3. Entered' = Entered
    BY <1>1 DEF Entered
  <1> QED
    BY <1>2, <1>3 DEF CountInv, Counted

LEMMA CountEnter ==
  ASSUME CountInv, Enter, DescentInv'
  PROVE  CountInv'
  <1>1. /\ pc = "call" /\ nodes + 1 = Entered /\ facts' = facts /\ nodes' = nodes + 1
    BY DEF CountInv, Counted, Enter, MemoHit, NothingOpen, Expand
  <1>2. CASE MemoHit
    <2>1. Entered' = Entered /\ pc' = "return" /\ memo' = memo
      BY <1>1, <1>2 DEF MemoHit, Entered
    <2> QED
      BY <1>1, <2>1 DEF CountInv, Counted
  <1>3. CASE NothingOpen
    <2>1. /\ arg \in State /\ OpenLegs(arg) = {} /\ Key(arg) \notin DOMAIN memo
          /\ DOMAIN memo' = DOMAIN memo \cup {Key(arg)} /\ stack' = stack /\ pc' = "return"
      BY <1>3, CountFacts DEF NothingOpen, Memoized
    <2>2. /\ IsFiniteSet(DOMAIN memo')
          /\ AnsweredIn(memo, facts) \in Int
          /\ AnsweredIn(memo', facts) = AnsweredIn(memo, facts) + Cardinality(Scored(arg, facts))
      BY <2>1, CountFacts, AnsweredGrows
    <2>3. Cardinality(Scored(arg, facts)) = 0
      BY <2>1, NothingScored
    <2>4. AnsweredIn(memo', facts) = AnsweredIn(memo, facts)
      BY <2>2, <2>3
    <2>5. Entered' = Entered
      BY <1>1, <2>1, <2>4 DEF Entered
    <2> QED
      BY <1>1, <2>1, <2>2, <2>5 DEF CountInv, Counted
  <1>4. CASE Expand
    <2> DEFINE f == NewFrame(arg)
    <2>1. stack' = Append(stack, f) /\ memo' = memo /\ pc' = "scan"
      BY <1>4 DEF Expand
    <2>2. arg \in State /\ f \in Frame /\ f.state = arg /\ f.todo = Offers(arg)
      BY CountFacts, NewFrameOK DEF FrameOK, NewFrame
    <2> HIDE DEF f
    <2>3. Tried(f, facts) = 0
      <3>1. Scored(f.state, facts) \ f.todo = {}
        BY <2>2 DEF Scored
      <3> QED
        BY <3>1, FS_EmptySet DEF Tried
    <2>4. TriedOn(stack', facts) = TriedOn(stack, facts)
      <3>1. /\ TriedOn(stack, facts) \in Int
            /\ TriedOn(stack', facts) = TriedOn(stack, facts) + Tried(f, facts)
        BY <2>1, <2>2, CountFacts, TriedPush
      <3> QED
        BY <2>3, <3>1
    <2>5. Entered' = Entered
      BY <1>1, <2>1, <2>4 DEF Entered
    <2> QED
      BY <1>1, <2>1, <2>5 DEF CountInv, Counted
  <1> QED
    BY <1>2, <1>3, <1>4 DEF Enter

LEMMA CountScan ==
  ASSUME CountInv, pc = "scan", DescentInv', NEW c \in Top.todo,
         SkipChoice(c) \/ FailChoice(c) \/ Descend(c)
  PROVE  CountInv'
  <1>0. stack # <<>> /\ stack \in Seq(Frame)
    BY CountFacts DEF CountInv, DescentInv, IInv, ControlOK
  <1>1. FrameOK(Top) /\ Top \in Frame /\ Top.state \in State /\ c \in Offers(Top.state)
    BY <1>0, TopFacts DEF CountInv, DescentInv, FrameOK
  <1>2. nodes = Entered
    BY DEF CountInv, Counted
  <1>3. CASE SkipChoice(c)
    <2> DEFINE g == [Top EXCEPT !.todo = @ \ {c}]
    <2>1. g \in Frame /\ g.state = Top.state /\ g.todo = Top.todo \ {c}
      BY <1>1, SkipFrameOK DEF FrameOK, Frame
    <2>2. c \notin Scored(Top.state, facts)
      BY <1>3 DEF SkipChoice, Scored, Declines, Fits
    <2>3. /\ stack' = WithTop(g) /\ pc' = "scan" /\ UNCHANGED <<facts, memo, nodes>>
      BY <1>3 DEF SkipChoice
    <2> HIDE DEF g
    <2>4. Tried(g, facts) = Tried(Top, facts)
      BY <1>1, <2>1, <2>2, TriedOneMore
    <2> QED
      BY <1>0, <2>1, <2>3, <2>4, CountReplace
  <1>4. CASE FailChoice(c)
    <2>1. memo' = memo /\ pc' = "return" /\ ret'.err.kind = "hard"
      BY <1>4 DEF FailChoice, HardCarrier, Hard, EmptyDecomposition
    <2> QED
      BY <2>1 DEF CountInv, Counted
  <1>5. CASE Descend(c)
    <2>1. PICK p \in Plans(Targets[c[1]], Top.state, c[2], facts.U) :
            LET o == EvaluateRule(Targets[c[1]], c[2], p, facts)
            IN  /\ Fits(o)
                /\ stack' = WithTop([Top EXCEPT
                     !.todo = @ \ {c},
                     !.sub  = ScoredSub(Targets[c[1]], c[2], p, o),
                     !.rest = Remainder(Top.state, c[2], p)])
      BY <1>5 DEF Descend
    <2> DEFINE sub == ScoredSub(Targets[c[1]], c[2], p, EvaluateRule(Targets[c[1]], c[2], p, facts))
               g   == [Top EXCEPT !.todo = @ \ {c}, !.sub = sub,
                                  !.rest = Remainder(Top.state, c[2], p)]
    <2>2. /\ stack' = WithTop(g) /\ pc' = "call" /\ UNCHANGED <<facts, memo, nodes>>
      BY <1>5, <2>1 DEF Descend
    <2>3. c \in Scored(Top.state, facts)
      BY <1>1, <2>1 DEF Scored
    <2>4. sub \in SubPosition /\ Remainder(Top.state, c[2], p) \in State
      BY <1>1, <2>1, SliceOK DEF CountInv, DescentInv, IInv, RegistersOK
    <2> HIDE DEF sub
    <2>5. g \in Frame /\ g.state = Top.state /\ g.todo = Top.todo \ {c}
      BY <1>1, <2>4 DEF Frame
    <2> HIDE DEF g
    <2>6. Tried(Top, facts) \in Nat /\ Tried(g, facts) = Tried(Top, facts) + 1
      BY <1>1, <2>3, <2>5, TriedOneMore
    <2>7. TriedOn(stack', facts) = TriedOn(stack, facts) + 1
      <3>1. /\ TriedOn(stack, facts) \in Int
            /\ TriedOn(stack', facts) = TriedOn(stack, facts) - Tried(Top, facts) + Tried(g, facts)
        BY <1>0, <2>2, <2>5, TriedReplace DEF Top, WithTop
      <3> QED
        BY <2>6, <3>1
    <2>8. Entered' = Entered + 1
      <3>1. AnsweredIn(memo, facts) \in Int /\ TriedOn(stack, facts) \in Int
        BY CountFacts
      <3> QED
        BY <2>2, <2>7, <3>1 DEF Entered
    <2> QED
      BY <1>2, <2>2, <2>8 DEF CountInv, Counted
  <1> QED
    BY <1>3, <1>4, <1>5

LEMMA CountResidual ==
  ASSUME CountInv, pc = "scan", DescentInv', NEW l \in Top.left,
         ResidualShares(l) \/ ResidualNaked(l) \/ ResidualUnmatched(l)
  PROVE  CountInv'
  <1>0. stack # <<>>
    BY DEF CountInv, DescentInv, IInv, ControlOK
  <1>1. FrameOK(Top) /\ Top \in Frame /\ Top.state \in State
    BY <1>0, TopFacts DEF CountInv, DescentInv
  <1>2. PICK g : /\ stack' = WithTop(g) /\ g.state = Top.state /\ g.todo = Top.todo
                 /\ pc' = "scan" /\ UNCHANGED <<facts, memo, nodes>>
    <2>1. ASSUME NEW e, ResidualError(l, e)
          PROVE  /\ stack' = WithTop([Top EXCEPT !.left = @ \ {l}, !.res.err = Stronger(@, e)])
                 /\ pc' = "scan" /\ UNCHANGED <<facts, memo, nodes>>
      BY <2>1 DEF ResidualError
    <2>2. ASSUME NEW e, ResidualError(l, e)
          PROVE  \E g : /\ stack' = WithTop(g) /\ g.state = Top.state /\ g.todo = Top.todo
                        /\ pc' = "scan" /\ UNCHANGED <<facts, memo, nodes>>
      <3> DEFINE g == [Top EXCEPT !.left = @ \ {l}, !.res.err = Stronger(@, e)]
      <3>1. g.state = Top.state /\ g.todo = Top.todo
        BY <1>1 DEF Frame
      <3>2. stack' = WithTop(g) /\ pc' = "scan" /\ UNCHANGED <<facts, memo, nodes>>
        BY <2>1, <2>2
      <3> HIDE DEF g
      <3> QED
        BY <3>1, <3>2
    <2>3. CASE ResidualShares(l) \/ ResidualUnmatched(l)
      BY <2>2, <2>3 DEF ResidualShares, ResidualUnmatched
    <2>4. CASE ResidualNaked(l)
      <3>1. PICK i \in DOMAIN NakedRules :
              \/ ResidualError(l, Hard)
              \/ /\ stack' = WithTop([Top EXCEPT
                      !.left = @ \ {l},
                      !.res.subs = Append(@, ScoredSub(NakedRules[i], <<l>>, <<Top.state[l]>>,
                                                       NakedOutcome(l, i))),
                      !.res.total = @ + NakedOutcome(l, i).req,
                      !.res.used[l] = Top.state[l]])
                 /\ UNCHANGED <<pc, facts, memo, nodes>>
        BY <2>4 DEF ResidualNaked
      <3> DEFINE g == [Top EXCEPT
                      !.left = @ \ {l},
                      !.res.subs = Append(@, ScoredSub(NakedRules[i], <<l>>, <<Top.state[l]>>,
                                                       NakedOutcome(l, i))),
                      !.res.total = @ + NakedOutcome(l, i).req,
                      !.res.used[l] = Top.state[l]]
      <3>2. g.state = Top.state /\ g.todo = Top.todo
        BY <1>1 DEF Frame
      <3>3. CASE ResidualError(l, Hard)
        BY <2>2, <3>3
      <3>4. CASE stack' = WithTop(g) /\ UNCHANGED <<pc, facts, memo, nodes>>
        <4> HIDE DEF g
        <4> QED
          BY <3>2, <3>4
      <3> QED
        BY <3>1, <3>3, <3>4
    <2> QED
      BY <2>3, <2>4
  <1>3. g \in Frame
    <2>1. stack \in Seq(Frame) /\ stack' \in Seq(Frame) /\ Len(stack) \in DOMAIN stack
      BY <1>0, CountFacts DEF DescentInv, IInv, StackOK
    <2>2. stack'[Len(stack)] = g /\ DOMAIN stack' = DOMAIN stack
      BY <1>2, <2>1 DEF WithTop
    <2> QED
      BY <2>1, <2>2
  <1>4. Tried(g, facts) = Tried(Top, facts)
    BY <1>2 DEF Tried
  <1> QED
    BY <1>0, <1>2, <1>3, <1>4, CountReplace

LEMMA CountReturn ==
  ASSUME CountInv, DescentInv', Finish \/ Resume \/ Propagate \/ Answer
  PROVE  CountInv'
  <1>1. CASE Finish
    <2>1. stack # <<>> /\ stack \in Seq(Frame) /\ Len(stack) \in DOMAIN stack /\ nodes = Entered
      <3>1. stack # <<>> /\ nodes = Entered
        BY <1>1 DEF Finish, CountInv, Counted, DescentInv, IInv, ControlOK
      <3> QED
        BY <3>1, CountFacts
    <2>2. /\ Top \in Frame /\ Top.state \in State /\ Key(Top.state) \notin DOMAIN memo
      BY <2>1, TopFacts DEF CountInv, DescentInv, Unanswered, Top
    <2>3. /\ stack' = Popped /\ DOMAIN memo' = DOMAIN memo \cup {Key(Top.state)}
          /\ pc' = "return" /\ facts' = facts /\ nodes' = nodes
      BY <1>1 DEF Finish, Memoized
    <2>4. Tried(Top, facts) = Cardinality(Scored(Top.state, facts))
      <3>1. Scored(Top.state, facts) \ Top.todo = Scored(Top.state, facts)
        BY <1>1 DEF Finish
      <3> QED
        BY <3>1 DEF Tried
    <2>5. /\ IsFiniteSet(DOMAIN memo')
          /\ AnsweredIn(memo, facts) \in Int /\ Cardinality(Scored(Top.state, facts)) \in Nat
          /\ AnsweredIn(memo', facts)
             = AnsweredIn(memo, facts) + Cardinality(Scored(Top.state, facts))
      BY <2>2, <2>3, CountFacts, AnsweredGrows
    <2>6. /\ TriedOn(stack', facts) \in Int
          /\ TriedOn(stack, facts) = TriedOn(stack', facts) + Tried(Top, facts)
      BY <2>1, <2>3, TriedPop DEF Popped, Top
    <2>7. Entered' = Entered
      BY <2>3, <2>4, <2>5, <2>6 DEF Entered
    <2> QED
      BY <2>1, <2>3, <2>5, <2>7 DEF CountInv, Counted
  <1>2. CASE Resume
    <2> DEFINE b == IF ~Top.have \/ BetterCandidate(Combine(Top, ret), Top.best)
                    THEN Combine(Top, ret) ELSE Top.best
               g == [Top EXCEPT !.have = TRUE, !.best = b]
    <2>1. /\ stack # <<>> /\ stack' = WithTop(g) /\ pc' = "scan"
          /\ UNCHANGED <<facts, memo, nodes>>
          /\ pc = "return" /\ ret.err.kind # "hard"
      BY <1>2 DEF Resume
    <2>2. nodes = Entered
      BY <2>1 DEF CountInv, Counted
    <2>3. Top \in Frame
      BY <2>1, TopFacts DEF CountInv, DescentInv
    <2> HIDE DEF b
    <2>4. g.state = Top.state /\ g.todo = Top.todo
      BY <2>3 DEF Frame
    <2> HIDE DEF g
    <2>5. g \in Frame
      <3>1. stack \in Seq(Frame) /\ stack' \in Seq(Frame) /\ Len(stack) \in DOMAIN stack
        BY <2>1, CountFacts DEF DescentInv, IInv, StackOK
      <3>2. stack'[Len(stack)] = g /\ DOMAIN stack' = DOMAIN stack
        BY <2>1, <3>1 DEF WithTop
      <3> QED
        BY <3>1, <3>2
    <2>6. Tried(g, facts) = Tried(Top, facts)
      BY <2>4 DEF Tried
    <2>7. TriedOn(stack', facts) = TriedOn(stack, facts)
      <3>1. /\ TriedOn(stack, facts) \in Int /\ Tried(Top, facts) \in Nat
            /\ TriedOn(stack', facts) = TriedOn(stack, facts) - Tried(Top, facts) + Tried(g, facts)
        BY <2>1, <2>5, CountFacts, TriedReplace DEF Top, WithTop
      <3> QED
        BY <2>6, <3>1
    <2>8. Entered' = Entered
      BY <2>1, <2>7 DEF Entered
    <2> QED
      BY <2>1, <2>2, <2>8 DEF CountInv, Counted
  <1>3. CASE Propagate
    <2>1. memo' = memo /\ pc' = "return" /\ ret'.err.kind = "hard"
      BY <1>3 DEF Propagate
    <2> QED
      BY <2>1 DEF CountInv, Counted
  <1>4. CASE Answer
    <2>1. /\ pc = "return" /\ pc' = "done" /\ UNCHANGED <<facts, ret, stack, memo, nodes>>
      BY <1>4 DEF Answer
    <2>2. Entered' = Entered
      BY <2>1 DEF Entered
    <2> QED
      BY <2>1, <2>2 DEF CountInv, Counted
  <1> QED
    BY <1>1, <1>2, <1>3, <1>4

LEMMA CountStep == CountInv /\ [Next]_vars => CountInv'
  <1> SUFFICES ASSUME CountInv, [Next]_vars PROVE CountInv'
    OBVIOUS
  <1>0. DescentInv'
    BY DescentStep DEF CountInv
  <1>1. CASE Call
    <2>1. PICK f \in Facts, in \in Inputs :
            pc \in {"idle", "done"} /\ (Optimize(f, in) \/ Reject(f, in))
      BY <1>1 DEF Call
    <2>2. CASE Reject(f, in)
      <3>1. memo' = memo /\ pc' = "done" /\ ret'.err.kind = "invalid"
        BY <2>2 DEF Reject, Invalid, EmptyDecomposition
      <3> QED
        BY <1>0, <3>1 DEF CountInv, Counted
    <2>3. CASE Optimize(f, in)
      <3>1. memo' = <<>> /\ stack' = <<>> /\ pc' = "call" /\ nodes' = 0
        BY <2>3 DEF Optimize
      <3>2. Entered' = 1
        BY <3>1, NothingCounted DEF Entered
      <3>3. IsFiniteSet(DOMAIN memo')
        <4>1. DOMAIN memo' = {}
          BY <3>1
        <4> QED
          BY <4>1, FS_EmptySet
      <3> QED
        BY <1>0, <3>1, <3>2, <3>3 DEF CountInv, Counted
    <2> QED
      BY <2>1, <2>2, <2>3
  <1>2. CASE Enter
    BY <1>0, <1>2, CountEnter
  <1>3. CASE pc = "scan" /\ Scan
    BY <1>0, <1>3, CountScan DEF Scan
  <1>4. CASE pc = "scan" /\ Residual
    BY <1>0, <1>4, CountResidual DEF Residual
  <1>5. CASE Finish \/ Resume \/ Propagate \/ Answer
    BY <1>0, <1>5, CountReturn
  <1>6. CASE UNCHANGED vars
    BY <1>0, <1>6 DEF vars, CountInv, Counted, Entered
  <1> QED
    BY <1>1, <1>2, <1>3, <1>4, <1>5, <1>6 DEF Next, Work

\* NodeCount of a call that meets no hard error is one for the call and one for
\* each slice that fits in each state that was reached, for every engine and
\* input: however many paths lead to a state, it is worked on once.
THEOREM NodesAreSlices == Spec => []OneEntryPerSlice
  <1>1. Init => CountInv
    <2> SUFFICES ASSUME Init PROVE CountInv
      OBVIOUS
    <2>1. DescentInv
      BY InitInv DEF Init, DescentInv, Descends, Unanswered, CallsBelow
    <2>2. DOMAIN memo = {} /\ pc = "idle"
      BY DEF Init
    <2> QED
      BY <2>1, <2>2, FS_EmptySet DEF CountInv, Counted
  <1>2. CountInv => OneEntryPerSlice
    <2> SUFFICES ASSUME CountInv, pc = "done", ret.err.kind \notin {"hard", "invalid"}
                 PROVE  nodes = 1 + AnsweredIn(memo, facts)
      BY DEF OneEntryPerSlice, AnsweredIn
    <2>1. stack = <<>> /\ nodes = Entered
      BY DEF CountInv, Counted, DescentInv, IInv, ControlOK
    <2> QED
      BY <2>1, NothingCounted, CountFacts DEF Entered
  <1> QED
    BY <1>1, <1>2, CountStep, PTL DEF Spec

-----------------------------------------------------------------------------
(***************************************************************************)
(* Results can be replayed: Decompose implements Optimizer.                *)
(***************************************************************************)
\* A hard error is handed up as it is, so only other results replay.
Replays(d, s, fct) == d.err.kind # "hard" => Peels(d, s, fct)

\* The residual legs scored so far are naked legs of the state, in the order of
\* the legs, before those that are left.
ResidualReplays(f, fct) ==
  /\ \A i \in 1..Len(f.res.subs) :
       /\ IsNaked(f.res.subs[i], f.state, fct)
       /\ \A j \in 1..(i - 1) : f.res.subs[j].legs[1] < f.res.subs[i].legs[1]
       /\ \A l \in f.left : f.res.subs[i].legs[1] < l
  /\ IsTrueOf(f.res.err, f.state, fct)

FrameReplays(f, fct) ==
  /\ f.have => Replays(f.best, f.state, fct)
  /\ ResidualReplays(f, fct)

\* The activations but the one that is choosing have made a slice.
Sliced(fct) ==
  \A i \in DOMAIN stack :
    i < Len(stack) \/ pc # "scan" => IsSlice(stack[i].sub, stack[i].state, fct)

MemoReplays(fct) ==
  \A k \in DOMAIN memo : \E s \in State : k = Key(s) /\ Replays(memo[k], s, fct)

StackReplays(fct) == \A i \in DOMAIN stack : FrameReplays(stack[i], fct)

\* While a call runs: a call that is refused changes the facts, not the memo.
Running == pc \in {"call", "scan", "return"}

ReplayInv ==
  /\ SumsInv
  /\ Running => MemoReplays(facts) /\ StackReplays(facts) /\ Sliced(facts)
  /\ pc = "return" => Replays(ret, Handed(stack, start, Len(stack)), facts)
  /\ pc = "done" => Replays(ret, start, facts)

LEMMA LeftFirst ==
  ASSUME NEW d, NEW s \in State
  PROVE  Left(d, s, 0) = s
  <1>1. ASSUME NEW g PROVE SumFunctionOnSet(g, 1..0) = 0
    <2>1. 1..0 = {}
      OBVIOUS
    <2> QED
      BY <2>1, SumEmpty DEF Sum
  <1> QED
    BY <1>1 DEF Left, State

\* What is left after the slice in front is what the others begin with.
LEMMA LeftCombine ==
  ASSUME NEW f, FrameOK(f), OnceEach(f.sub), NEW d \in Decomposition, Sums(d),
         NEW i \in 0..Len(d.subs)
  PROVE  Left(Combine(f, d), f.state, i + 1) = Left(d, f.rest, i)
  <1> DEFINE t == Taken(f.sub.legs, f.sub.amt)
             e == Combine(f, d)
             n == Len(d.subs)
  <1>1. /\ d.subs \in Seq(SubPosition) /\ f.sub \in SubPosition /\ t \in [Legs -> Nat]
        /\ f.rest \in [Legs -> Nat] /\ f.state \in [Legs -> Nat]
        /\ \A l \in Legs : t[l] + f.rest[l] = f.state[l]
    BY DEF Decomposition, FrameOK, Frame, Splits, Adds, State
  <1>2. n \in Nat /\ i \in Nat /\ i <= n /\ DOMAIN d.subs = 1..n
    BY <1>1
  <1>3. e.subs = <<f.sub>> \o d.subs
    BY DEF Combine
  <1>4. /\ DOMAIN e.subs = 1..(n + 1) /\ e.subs[1] = f.sub
        /\ \A j \in 1..n : e.subs[j + 1] = d.subs[j]
    BY <1>1, <1>2, <1>3
  <1>5. \A l \in Legs : AttributedBy(f.sub, l) = t[l]
    BY <1>1, AttributedIsTaken
  <1>6. \A j \in 1..n, l \in Legs : AttributedBy(d.subs[j], l) \in Nat
    BY <1>2 DEF Sums
  <1> HIDE DEF t, e, n
  <1>7. ASSUME NEW l \in Legs
        PROVE  Left(e, f.state, i + 1)[l] = Left(d, f.rest, i)[l]
    <2> DEFINE g == [j \in DOMAIN e.subs |-> AttributedBy(e.subs[j], l)]
               h == [j \in DOMAIN d.subs |-> AttributedBy(d.subs[j], l)]
    <2>1. g[1] = t[l] /\ t[l] \in Int
      BY <1>1, <1>2, <1>4, <1>5
    <2>2. ASSUME NEW j \in 1..i PROVE h[j] \in Int /\ g[j + 1] = h[j]
      <3>1. j \in 1..n /\ j + 1 \in 1..(n + 1)
        BY <1>2
      <3>2. h[j] = AttributedBy(d.subs[j], l) /\ g[j + 1] = AttributedBy(e.subs[j + 1], l)
        BY <1>2, <1>4, <3>1
      <3> QED
        BY <1>4, <1>6, <3>1, <3>2
    <2>3. /\ Left(e, f.state, i + 1)[l] = f.state[l] - Sum(g, 1..(i + 1))
          /\ Left(d, f.rest, i)[l] = f.rest[l] - Sum(h, 1..i)
      BY DEF Left, Sum
    <2> HIDE DEF g, h
    <2>4. Sum(g, 1..(i + 1)) = g[1] + Sum(h, 1..i)
      BY <1>2, <2>1, <2>2, SumPrepend
    <2>5. Sum(h, 1..i) \in Int
      BY <1>2, <2>2, SumUpTo
    <2>6. /\ t[l] + f.rest[l] = f.state[l] /\ f.rest[l] \in Nat /\ f.state[l] \in Nat
          /\ t[l] \in Nat
      BY <1>1
    <2> QED
      BY <2>1, <2>3, <2>4, <2>5, <2>6
  <1>8. Left(e, f.state, i + 1) = Left(d, f.rest, i)
    BY <1>7 DEF Left
  <1> QED
    BY <1>8 DEF e

\* A slice in front of what replays.
LEMMA CombineReplays ==
  ASSUME NEW f, FrameOK(f), OnceEach(f.sub), NEW fct, IsSlice(f.sub, f.state, fct),
         NEW d \in Decomposition, Sums(d), Replays(d, f.rest, fct)
  PROVE  Replays(Combine(f, d), f.state, fct)
  <1> DEFINE e == Combine(f, d)
             n == Len(d.subs)
             s == f.state
             r == f.rest
  <1>1. /\ d.subs \in Seq(SubPosition) /\ f.sub \in SubPosition /\ s \in State /\ n \in Nat
    BY DEF Decomposition, FrameOK, Frame
  <1>2. e.subs = <<f.sub>> \o d.subs /\ e.err = d.err
    BY DEF Combine
  <1>3. /\ Len(e.subs) = n + 1 /\ e.subs[1] = f.sub
        /\ \A j \in 1..n : e.subs[j + 1] = d.subs[j]
    BY <1>1, <1>2
  <1>4. \A i \in 0..n : Left(e, s, i + 1) = Left(d, r, i)
    BY LeftCombine
  <1>5. Left(e, s, 0) = s
    BY <1>1, LeftFirst
  <1> SUFFICES ASSUME d.err.kind # "hard" PROVE Peels(e, s, fct)
    BY <1>2 DEF Replays, e, s
  <1>6. PICK m \in 0..n : PeelsTo(d, r, fct, m)
    BY DEF Replays, Peels
  <1>7. IsSlice(f.sub, s, fct)
    OBVIOUS
  <1> HIDE DEF e, n, s, r
  <1>8. Left(e, s, m + 1) = Left(d, r, m)
    BY <1>4
  <1>9. ASSUME NEW i \in 1..(m + 1) PROVE IsSlice(e.subs[i], Left(e, s, i - 1), fct)
    <2>1. CASE i = 1
      BY <1>3, <1>5, <1>7, <2>1
    <2>2. CASE i # 1
      <3> DEFINE j == i - 1
      <3>1. j \in 1..m /\ j \in 1..n /\ j - 1 \in 0..n /\ i = j + 1 /\ i - 1 = (j - 1) + 1
        BY <1>1, <2>2
      <3> HIDE DEF j
      <3>2. IsSlice(d.subs[j], Left(d, r, j - 1), fct)
        BY <1>6, <3>1 DEF PeelsTo
      <3>3. e.subs[i] = d.subs[j] /\ Left(e, s, i - 1) = Left(d, r, j - 1)
        BY <1>3, <1>4, <3>1
      <3> QED
        BY <3>2, <3>3
    <2> QED
      BY <2>1, <2>2
  <1>10. ASSUME NEW i \in (m + 2)..(n + 1)
         PROVE  /\ IsNaked(e.subs[i], Left(e, s, m + 1), fct)
                /\ \A j \in (m + 2)..(i - 1) : e.subs[j].legs[1] < e.subs[i].legs[1]
    <2> DEFINE k == i - 1
    <2>1. k \in (m + 1)..n /\ k \in 1..n /\ i = k + 1
      BY <1>1
    <2> HIDE DEF k
    <2>2. /\ IsNaked(d.subs[k], Left(d, r, m), fct)
          /\ \A j \in (m + 1)..(k - 1) : d.subs[j].legs[1] < d.subs[k].legs[1]
      BY <1>6, <2>1 DEF PeelsTo, n
    <2>3. e.subs[i] = d.subs[k]
      BY <1>3, <2>1
    <2>4. ASSUME NEW j \in (m + 2)..(i - 1) PROVE e.subs[j].legs[1] < e.subs[i].legs[1]
      <3>1. j - 1 \in (m + 1)..(k - 1) /\ j - 1 \in 1..n /\ j = (j - 1) + 1
        BY <1>1, <2>1
      <3>2. e.subs[j] = d.subs[j - 1]
        BY <1>3, <3>1
      <3> QED
        BY <2>2, <2>3, <3>1, <3>2
    <2> QED
      BY <1>8, <2>2, <2>3, <2>4
  <1>11. IsTrueOf(e.err, Left(e, s, m + 1), fct)
    BY <1>2, <1>6, <1>8 DEF PeelsTo
  <1>12. m + 1 \in 0..(n + 1) /\ (m + 1) + 1 = m + 2
    BY <1>1
  <1>13. PeelsTo(e, s, fct, m + 1)
    BY <1>3, <1>9, <1>10, <1>11, <1>12 DEF PeelsTo
  <1> QED
    BY <1>3, <1>12, <1>13 DEF Peels

\* What no slice is taken of replays as it was scored.
LEMMA ResidualPeels ==
  ASSUME NEW f, FrameOK(f), NEW fct, ResidualReplays(f, fct)
  PROVE  Replays(f.res, f.state, fct)
  <1>1. f.state \in State /\ Len(f.res.subs) \in Nat
    BY DEF FrameOK, Frame, Decomposition
  <1>2. Left(f.res, f.state, 0) = f.state
    BY <1>1, LeftFirst
  <1>3. PeelsTo(f.res, f.state, fct, 0)
    <2>1. 1..0 = {} /\ 0 + 1 = 1
      OBVIOUS
    <2> QED
      BY <1>2, <2>1 DEF PeelsTo, ResidualReplays
  <1>4. 0 \in 0..Len(f.res.subs)
    BY <1>1
  <1> QED
    BY <1>3, <1>4 DEF Replays, Peels

LEMMA NothingReplays ==
  ASSUME NEW s \in State, NEW fct, NEW e, e.kind \notin {"stock", "naked"}
  PROVE  Replays([EmptyDecomposition EXCEPT !.err = e], s, fct)
  <1> DEFINE d == [EmptyDecomposition EXCEPT !.err = e]
  <1>1. d.subs = <<>> /\ d.err = e /\ Len(d.subs) = 0
    BY DEF EmptyDecomposition
  <1> HIDE DEF d
  <1>2. PeelsTo(d, s, fct, 0)
    <2>1. 1..0 = {} /\ (0 + 1)..0 = {}
      OBVIOUS
    <2> QED
      BY <1>1, <2>1 DEF PeelsTo, IsTrueOf
  <1>3. 0 \in 0..Len(d.subs)
    BY <1>1
  <1> QED
    BY <1>2, <1>3 DEF Replays, Peels, d

LEMMA ReplayTop ==
  ASSUME ReplayInv, Running, stack # <<>>
  PROVE  /\ FrameOK(Top) /\ Top \in Frame /\ Top.state \in State /\ OnceEach(Top.sub)
         /\ FrameReplays(Top, facts)
         /\ pc # "scan" => IsSlice(Top.sub, Top.state, facts)
  <1>1. FrameOK(Top) /\ Top \in Frame /\ FrameSums(Top)
    BY SumsTop DEF ReplayInv
  <1>2. Len(stack) \in DOMAIN stack
    BY DEF ReplayInv, SumsInv, IInv, StackOK
  <1> QED
    BY <1>1, <1>2 DEF ReplayInv, StackReplays, Sliced, FrameSums, Frame, Top

\* A step that replaces the top activation: it goes on choosing, or has made a
\* slice.
LEMMA ReplayReplace ==
  ASSUME ReplayInv, Running, stack # <<>>, SumsInv', UNCHANGED <<facts, start, memo>>,
         NEW g, stack' = WithTop(g), FrameReplays(g, facts),
         pc' = "scan" \/ (pc' = "call" /\ IsSlice(g.sub, g.state, facts))
  PROVE  ReplayInv'
  <1>1. stack \in Seq(Frame) /\ Len(stack) \in Nat
    BY DEF ReplayInv, SumsInv, IInv, StackOK
  <1>2. /\ DOMAIN stack' = DOMAIN stack /\ Len(stack') = Len(stack)
        /\ \A i \in DOMAIN stack : stack'[i] = IF i = Len(stack) THEN g ELSE stack[i]
        /\ \A i \in DOMAIN stack : i < Len(stack) \/ i = Len(stack)
    BY <1>1 DEF WithTop
  <1>3. MemoReplays(facts)' /\ StackReplays(facts)'
    BY <1>2 DEF ReplayInv, MemoReplays, StackReplays
  <1>4. Sliced(facts)'
    BY <1>2 DEF ReplayInv, Sliced
  <1> QED
    BY <1>3, <1>4 DEF ReplayInv

\* A step that pops the top activation and returns what replays from its state.
LEMMA ReplayPop ==
  ASSUME ReplayInv, Running, stack # <<>>, SumsInv', UNCHANGED <<facts, start>>,
         stack' = Popped, pc' = "return", Replays(ret', Top.state, facts),
         memo' = memo \/ memo' = Memoized(Top.state, ret')
  PROVE  ReplayInv'
  <1>1. stack \in Seq(Frame) /\ Len(stack) \in Nat /\ StackOK(stack, start)
    BY DEF ReplayInv, SumsInv, IInv, StackOK
  <1>2. Handed(stack', start', Len(stack')) = Top.state
    BY <1>1, StackPop DEF Popped, Top
  <1>3. \A i \in DOMAIN stack' : /\ i \in DOMAIN stack /\ i < Len(stack)
                                 /\ stack'[i] = stack[i]
    BY <1>1, WithoutTop DEF Popped
  <1>4. Top.state \in State
    BY ReplayTop
  <1>5. MemoReplays(facts)'
    BY <1>4 DEF ReplayInv, MemoReplays, Memoized
  <1>6. StackReplays(facts)'
    BY <1>3 DEF ReplayInv, StackReplays
  <1>7. Sliced(facts)'
    BY <1>3 DEF ReplayInv, Sliced
  <1> QED
    BY <1>2, <1>5, <1>6, <1>7 DEF ReplayInv

LEMMA ReplayCall ==
  ASSUME ReplayInv, Call, SumsInv'
  PROVE  ReplayInv'
  <1>1. PICK f \in Facts, in \in Inputs :
          pc \in {"idle", "done"} /\ (Optimize(f, in) \/ Reject(f, in))
    BY DEF Call
  <1>2. CASE Optimize(f, in)
    BY <1>2 DEF Optimize, ReplayInv, MemoReplays, StackReplays, Sliced
  <1>3. CASE Reject(f, in)
    <2>1. Replays(ret', start', facts')
      BY <1>3, NothingType, NothingReplays DEF Reject, Invalid
    <2> QED
      BY <1>3, <2>1 DEF Reject, ReplayInv, Running
  <1> QED
    BY <1>1, <1>2, <1>3

LEMMA ReplayEnter ==
  ASSUME ReplayInv, Enter, SumsInv'
  PROVE  ReplayInv'
  <1>1. pc = "call" /\ Running /\ UNCHANGED <<facts, start, arg>> /\ arg \in State
    BY DEF Enter, MemoHit, NothingOpen, Expand, Running, ReplayInv, SumsInv, IInv, RegistersOK
  <1>2. arg = Handed(stack, start, Len(stack))
    BY <1>1 DEF ReplayInv, SumsInv, IInv, ControlOK
  <1>3. MemoReplays(facts) /\ StackReplays(facts) /\ Sliced(facts)
    BY <1>1 DEF ReplayInv
  <1>4. CASE MemoHit
    <2>1. stack' = stack /\ memo' = memo /\ pc' = "return" /\ ret' = memo[Key(arg)]
      BY <1>4 DEF MemoHit
    <2>2. PICK s \in State : Key(arg) = Key(s) /\ Replays(memo[Key(arg)], s, facts)
      BY <1>3, <1>4 DEF MemoHit, MemoReplays
    <2>3. Replays(ret', arg, facts)
      BY <1>1, <2>1, <2>2, KeyInjective
    <2>4. MemoReplays(facts)' /\ StackReplays(facts)' /\ Sliced(facts)'
      BY <1>1, <1>3, <2>1 DEF MemoReplays, StackReplays, Sliced
    <2> QED
      BY <1>1, <1>2, <2>1, <2>3, <2>4 DEF ReplayInv
  <1>5. CASE NothingOpen
    <2>1. /\ stack' = stack /\ memo' = Memoized(arg, EmptyDecomposition)
          /\ pc' = "return" /\ ret' = EmptyDecomposition
      BY <1>5 DEF NothingOpen
    <2>2. EmptyDecomposition = [EmptyDecomposition EXCEPT !.err = NoError]
      BY DEF EmptyDecomposition
    <2>3. Replays(EmptyDecomposition, arg, facts)
      <3>1. NoError.kind \notin {"stock", "naked"}
        BY DEF NoError
      <3> QED
        BY ONLY Zenon, <1>1, <2>2, <3>1, NothingReplays
    <2>4. MemoReplays(facts)'
      BY <1>1, <1>3, <2>1, <2>3 DEF MemoReplays, Memoized
    <2>5. StackReplays(facts)' /\ Sliced(facts)'
      BY <1>1, <1>3, <2>1 DEF StackReplays, Sliced
    <2> QED
      BY <1>1, <1>2, <2>1, <2>3, <2>4, <2>5 DEF ReplayInv
  <1>6. CASE Expand
    <2> DEFINE f == NewFrame(arg)
    <2>1. stack' = Append(stack, f) /\ memo' = memo /\ pc' = "scan"
      BY <1>6 DEF Expand
    <2>2. f.have = FALSE /\ f.res = EmptyDecomposition
      BY DEF NewFrame
    <2>3. FrameReplays(f, facts)
      <3>1. Len(f.res.subs) = 0 /\ f.res.err.kind = "none"
        BY <2>2 DEF EmptyDecomposition, NoError
      <3>2. 1..0 = {}
        OBVIOUS
      <3> HIDE DEF f
      <3> QED
        BY <2>2, <3>1, <3>2 DEF FrameReplays, ResidualReplays, IsTrueOf
    <2> HIDE DEF f
    <2>4. stack \in Seq(Frame)
      BY DEF ReplayInv, SumsInv, IInv, StackOK
    <2>5. \A i \in DOMAIN stack' : \/ i \in DOMAIN stack /\ stack'[i] = stack[i]
                                   \/ stack'[i] = f /\ i = Len(stack')
      BY <2>1, <2>4
    <2>6. \A i \in DOMAIN stack' : i = Len(stack') \/ i \in DOMAIN stack
      BY <2>5
    <2>7. \A i \in DOMAIN stack' : i < Len(stack') => stack'[i] = stack[i] /\ i \in DOMAIN stack
      BY <2>1, <2>4
    <2>8. StackReplays(facts)'
      BY <1>1, <1>3, <2>3, <2>5 DEF StackReplays
    <2>9. Sliced(facts)'
      BY <1>1, <1>3, <2>1, <2>7 DEF Sliced
    <2>10. MemoReplays(facts)'
      BY <1>1, <1>3, <2>1 DEF MemoReplays
    <2> QED
      BY <2>1, <2>8, <2>9, <2>10, <1>1 DEF ReplayInv
  <1> QED
    BY <1>4, <1>5, <1>6 DEF Enter

LEMMA ReplayScan ==
  ASSUME ReplayInv, pc = "scan", SumsInv', NEW c \in Top.todo,
         SkipChoice(c) \/ FailChoice(c) \/ Descend(c)
  PROVE  ReplayInv'
  <1>0. stack # <<>> /\ Running
    BY DEF ReplayInv, SumsInv, IInv, ControlOK, Running
  <1>1. FrameOK(Top) /\ Top \in Frame /\ Top.state \in State /\ FrameReplays(Top, facts)
    BY <1>0, ReplayTop
  <1>2. CASE SkipChoice(c)
    <2> DEFINE g == [Top EXCEPT !.todo = @ \ {c}]
    <2>1. FrameReplays(g, facts)
      BY <1>1 DEF FrameReplays, ResidualReplays, Frame
    <2>2. /\ stack' = WithTop(g) /\ pc' = "scan"
          /\ UNCHANGED <<facts, start, memo>>
      BY <1>2 DEF SkipChoice
    <2> HIDE DEF g
    <2> QED
      BY <1>0, <2>1, <2>2, ReplayReplace
  <1>3. CASE FailChoice(c)
    <2>1. /\ stack' = Popped /\ memo' = memo /\ ret' = HardCarrier /\ pc' = "return"
          /\ UNCHANGED <<facts, start>>
      BY <1>3 DEF FailChoice
    <2>2. Replays(ret', Top.state, facts)
      BY <1>1, <2>1, NothingReplays DEF HardCarrier, Hard
    <2> QED
      BY <1>0, <2>1, <2>2, ReplayPop
  <1>4. CASE Descend(c)
    <2>1. PICK p \in Plans(Targets[c[1]], Top.state, c[2], facts.U) :
            LET o == EvaluateRule(Targets[c[1]], c[2], p, facts)
            IN  /\ Fits(o)
                /\ stack' = WithTop([Top EXCEPT
                     !.todo = @ \ {c},
                     !.sub  = ScoredSub(Targets[c[1]], c[2], p, o),
                     !.rest = Remainder(Top.state, c[2], p)])
      BY <1>4 DEF Descend
    <2> DEFINE sub == ScoredSub(Targets[c[1]], c[2], p, EvaluateRule(Targets[c[1]], c[2], p, facts))
               g   == [Top EXCEPT !.todo = @ \ {c}, !.sub = sub,
                                  !.rest = Remainder(Top.state, c[2], p)]
    <2>2. /\ stack' = WithTop(g) /\ pc' = "call"
          /\ UNCHANGED <<facts, start, memo>>
      BY <1>4, <2>1 DEF Descend
    <2>3. c \in Offers(Top.state)
      BY <1>1 DEF FrameOK
    <2>4. IsSlice(sub, Top.state, facts)
      BY <2>1, <2>3 DEF IsSlice
    <2> HIDE DEF sub
    <2>5. FrameReplays(g, facts) /\ IsSlice(g.sub, g.state, facts)
      BY <1>1, <2>4 DEF FrameReplays, ResidualReplays, Frame
    <2> HIDE DEF g
    <2> QED
      BY <1>0, <2>2, <2>5, ReplayReplace
  <1> QED
    BY <1>2, <1>3, <1>4

\* A leg that an error stands for: the error tells the truth of the state.
LEMMA ReplayResidualError ==
  ASSUME ReplayInv, pc = "scan", stack # <<>>, SumsInv', NEW l \in Top.left, NEW e,
         ResidualError(l, e), IsTrueOf(e, Top.state, facts)
  PROVE  ReplayInv'
  <1> DEFINE g == [Top EXCEPT !.left = @ \ {l}, !.res.err = Stronger(@, e)]
  <1>0. Running
    BY DEF Running
  <1>1. Top \in Frame /\ FrameReplays(Top, facts)
    BY <1>0, ReplayTop
  <1>2. /\ g.have = Top.have /\ g.best = Top.best /\ g.state = Top.state
        /\ g.left = Top.left \ {l} /\ g.res.subs = Top.res.subs
        /\ g.res.err = Stronger(Top.res.err, e)
    BY <1>1 DEF Frame, Decomposition
  <1>3. stack' = WithTop(g) /\ pc' = "scan" /\ UNCHANGED <<facts, start, memo>>
    BY DEF ResidualError
  <1> HIDE DEF g
  <1>4. g.res.err = Top.res.err \/ g.res.err = e
    BY <1>2 DEF Stronger
  <1>5. FrameReplays(g, facts)
    BY <1>1, <1>2, <1>4 DEF FrameReplays, ResidualReplays
  <1> QED
    BY <1>0, <1>3, <1>5, ReplayReplace

\* A leg that a naked rule takes comes after those scored before it.
LEMMA ReplayResidualNaked ==
  ASSUME NEW f, FrameOK(f), NEW fct, FrameReplays(f, fct), NEW l \in f.left,
         \A m \in f.left : l <= m,
         NEW sub, sub.legs = <<l>>, IsNaked(sub, f.state, fct),
         NEW g, g.have = f.have, g.best = f.best, g.state = f.state, g.left = f.left \ {l},
         g.res.subs = Append(f.res.subs, sub), g.res.err = f.res.err
  PROVE  FrameReplays(g, fct)
  <1> DEFINE n == Len(f.res.subs)
  <1>1. f.res.subs \in Seq(SubPosition) /\ n \in Nat /\ f.left \subseteq Legs
    BY DEF FrameOK, Frame, Decomposition
  <1>2. /\ Len(g.res.subs) = n + 1 /\ g.res.subs[n + 1] = sub
        /\ \A i \in 1..n : g.res.subs[i] = f.res.subs[i]
    BY <1>1
  <1>3. sub.legs[1] = l
    OBVIOUS
  <1>4. ASSUME NEW m \in g.left PROVE l < m
    <2>1. l \in Nat /\ m \in Nat /\ m \in f.left /\ l # m
      BY <1>1, LegsAssumption
    <2> QED
      BY <2>1
  <1> HIDE DEF n
  <1>5. ASSUME NEW i \in 1..n
        PROVE  /\ IsNaked(g.res.subs[i], g.state, fct)
               /\ \A j \in 1..(i - 1) : g.res.subs[j].legs[1] < g.res.subs[i].legs[1]
               /\ \A m \in g.left : g.res.subs[i].legs[1] < m
               /\ g.res.subs[i].legs[1] < l
    <2>1. /\ IsNaked(f.res.subs[i], f.state, fct)
          /\ \A j \in 1..(i - 1) : f.res.subs[j].legs[1] < f.res.subs[i].legs[1]
          /\ \A m \in f.left : f.res.subs[i].legs[1] < m
      BY DEF FrameReplays, ResidualReplays, n
    <2>2. \A j \in 1..(i - 1) : j \in 1..n
      BY <1>1
    <2>3. g.res.subs[i] = f.res.subs[i] /\ \A j \in 1..(i - 1) : g.res.subs[j] = f.res.subs[j]
      BY <1>2, <2>2
    <2>4. \A m \in g.left : m \in f.left
      OBVIOUS
    <2> QED
      BY <2>1, <2>3, <2>4
  <1>6. ASSUME NEW i \in 1..(n + 1)
        PROVE  /\ IsNaked(g.res.subs[i], g.state, fct)
               /\ \A j \in 1..(i - 1) : g.res.subs[j].legs[1] < g.res.subs[i].legs[1]
               /\ \A m \in g.left : g.res.subs[i].legs[1] < m
    <2>1. CASE i \in 1..n
      BY <1>5, <2>1
    <2>2. CASE i = n + 1
      <3>1. \A j \in 1..(i - 1) : j \in 1..n
        BY <1>1, <2>2
      <3> QED
        BY <1>2, <1>3, <1>4, <1>5, <2>2, <3>1
    <2>3. i \in 1..n \/ i = n + 1
      BY <1>1
    <2> QED
      BY <2>1, <2>2, <2>3
  <1>7. IsTrueOf(g.res.err, g.state, fct) /\ (g.have => Replays(g.best, g.state, fct))
    BY DEF FrameReplays, ResidualReplays
  <1> QED
    BY <1>2, <1>6, <1>7 DEF FrameReplays, ResidualReplays

LEMMA ReplayResidual ==
  ASSUME ReplayInv, pc = "scan", SumsInv', NEW l \in Top.left,
         ResidualShares(l) \/ ResidualNaked(l) \/ ResidualUnmatched(l)
  PROVE  ReplayInv'
  <1>0. stack # <<>> /\ Running
    BY DEF ReplayInv, SumsInv, IInv, ControlOK, Running
  <1>1. /\ FrameOK(Top) /\ Top \in Frame /\ Top.state \in State /\ FrameReplays(Top, facts)
        /\ l \in OpenLegs(Top.state) /\ Top.res \in Decomposition
    BY <1>0, ReplayTop DEF FrameOK, Scores, Frame
  <1>2. CASE ResidualShares(l)
    <2>1. IsTrueOf(StockUnsupported(l, Top.state[l]), Top.state, facts)
      BY <1>2 DEF ResidualShares, StockUnsupported, IsTrueOf
    <2> QED
      BY <1>0, <1>2, <2>1, ReplayResidualError DEF ResidualShares
  <1>3. CASE ResidualUnmatched(l)
    <2>1. \A i \in DOMAIN NakedRules :
            Declines(EvaluateRule(NakedRules[i], <<l>>, <<Top.state[l]>>, facts))
      BY <1>3 DEF ResidualUnmatched, NakedOutcome
    <2>2. IsTrueOf(NoNakedRule(l), Top.state, facts)
      BY <1>1, <2>1 DEF NoNakedRule, IsTrueOf
    <2> QED
      BY <1>0, <1>3, <2>2, ReplayResidualError DEF ResidualUnmatched
  <1>4. CASE ResidualNaked(l)
    <2>1. /\ OpenShares(Top.state, l) = 0
          /\ \A m \in Top.left : l <= m
      BY <1>4 DEF ResidualNaked, NextResidual
    <2>2. PICK i \in DOMAIN NakedRules :
            /\ \A j \in 1..(i - 1) : Declines(NakedOutcome(l, j))
            /\ \/ ResidualError(l, Hard)
               \/ /\ Fits(NakedOutcome(l, i))
                  /\ stack' = WithTop([Top EXCEPT
                       !.left = @ \ {l},
                       !.res.subs = Append(@, ScoredSub(NakedRules[i], <<l>>, <<Top.state[l]>>,
                                                        NakedOutcome(l, i))),
                       !.res.total = @ + NakedOutcome(l, i).req,
                       !.res.used[l] = Top.state[l]])
                  /\ UNCHANGED <<pc, facts, start, memo>>
      BY <1>4 DEF ResidualNaked
    <2>3. CASE ResidualError(l, Hard)
      <3>1. IsTrueOf(Hard, Top.state, facts)
        BY DEF Hard, IsTrueOf
      <3> QED
        BY <1>0, <2>3, <3>1, ReplayResidualError
    <2> DEFINE o   == NakedOutcome(l, i)
               sub == ScoredSub(NakedRules[i], <<l>>, <<Top.state[l]>>, o)
               g   == [Top EXCEPT
                    !.left = @ \ {l},
                    !.res.subs = Append(@, sub),
                    !.res.total = @ + o.req,
                    !.res.used[l] = Top.state[l]]
    <2>4. CASE Fits(o) /\ stack' = WithTop(g) /\ UNCHANGED <<pc, facts, start, memo>>
      <3>1. sub.legs = <<l>>
        BY DEF ScoredSub
      <3>2. IsNaked(sub, Top.state, facts)
        BY <1>1, <2>1, <2>2, <2>4 DEF IsNaked, NakedOutcome
      <3> HIDE DEF sub, o
      <3>3. /\ g.have = Top.have /\ g.best = Top.best /\ g.state = Top.state
            /\ g.left = Top.left \ {l} /\ g.res.subs = Append(Top.res.subs, sub)
            /\ g.res.err = Top.res.err
        BY <1>1 DEF Frame, Decomposition
      <3> HIDE DEF g
      <3>4. FrameReplays(g, facts)
        BY <1>1, <2>1, <3>1, <3>2, <3>3, ReplayResidualNaked
      <3> QED
        BY <1>0, <2>4, <3>4, ReplayReplace
    <2> QED
      BY <2>2, <2>3, <2>4
  <1> QED
    BY <1>2, <1>3, <1>4

LEMMA ReplayReturn ==
  ASSUME ReplayInv, SumsInv', Finish \/ Resume \/ Propagate \/ Answer
  PROVE  ReplayInv'
  <1>0. Running
    BY DEF Finish, Resume, Propagate, Answer, Running
  <1>1. CASE Finish
    <2>1. stack # <<>>
      BY <1>1 DEF Finish, ReplayInv, SumsInv, IInv, ControlOK
    <2>2. FrameOK(Top) /\ FrameReplays(Top, facts)
      BY <1>0, <2>1, ReplayTop
    <2>3. /\ stack' = Popped /\ ret' = Chosen(Top) /\ pc' = "return"
          /\ memo' = Memoized(Top.state, ret') /\ UNCHANGED <<facts, start>>
      BY <1>1 DEF Finish
    <2>4. Replays(Top.res, Top.state, facts)
      BY <2>2, ResidualPeels DEF FrameReplays
    <2>5. Replays(ret', Top.state, facts)
      BY <2>2, <2>3, <2>4 DEF Chosen, FrameReplays
    <2> QED
      BY <1>0, <2>1, <2>3, <2>5, ReplayPop
  <1>2. CASE Resume
    <2> DEFINE b == IF ~Top.have \/ BetterCandidate(Combine(Top, ret), Top.best)
                    THEN Combine(Top, ret) ELSE Top.best
               g == [Top EXCEPT !.have = TRUE, !.best = b]
    <2>1. /\ stack # <<>> /\ stack' = WithTop(g) /\ pc' = "scan" /\ pc = "return"
          /\ UNCHANGED <<facts, start, memo>>
      BY <1>2 DEF Resume
    <2>2. /\ FrameOK(Top) /\ Top \in Frame /\ OnceEach(Top.sub)
          /\ FrameReplays(Top, facts) /\ IsSlice(Top.sub, Top.state, facts)
      BY <1>0, <2>1, ReplayTop
    <2>3. /\ ret \in Decomposition /\ Sums(ret)
          /\ Handed(stack, start, Len(stack)) = Top.rest
      BY <2>1, TopFacts DEF ReplayInv, SumsInv, IInv, RegistersOK
    <2>4. Replays(ret, Top.rest, facts)
      BY <2>1, <2>3 DEF ReplayInv
    <2>5. Replays(Combine(Top, ret), Top.state, facts)
      BY <2>2, <2>3, <2>4, CombineReplays
    <2>6. Replays(b, Top.state, facts)
      BY <2>2, <2>5 DEF FrameReplays
    <2> HIDE DEF b
    <2>7. FrameReplays(g, facts)
      BY <2>2, <2>6 DEF FrameReplays, ResidualReplays, Frame
    <2> HIDE DEF g
    <2> QED
      BY <1>0, <2>1, <2>7, ReplayReplace
  <1>3. CASE Propagate
    <2>1. /\ stack # <<>> /\ stack' = Popped /\ memo' = memo /\ ret' = ret
          /\ pc = "return" /\ pc' = "return" /\ ret.err.kind = "hard"
          /\ UNCHANGED <<facts, start>>
      BY <1>3 DEF Propagate
    <2>2. Replays(ret', Top.state, facts)
      BY <2>1 DEF Replays
    <2> QED
      BY <1>0, <2>1, <2>2, ReplayPop
  <1>4. CASE Answer
    <2>1. /\ pc = "return" /\ stack = <<>> /\ pc' = "done"
          /\ UNCHANGED <<facts, start, ret>>
      BY <1>4 DEF Answer
    <2>2. Replays(ret, start, facts)
      BY <2>1, EmptyStack DEF ReplayInv
    <2> QED
      BY <2>1, <2>2 DEF ReplayInv, Running
  <1> QED
    BY <1>1, <1>2, <1>3, <1>4

LEMMA ReplayStep == ReplayInv /\ [Next]_vars => ReplayInv'
  <1> SUFFICES ASSUME ReplayInv, [Next]_vars PROVE ReplayInv'
    OBVIOUS
  <1>0. SumsInv'
    BY SumsStep DEF ReplayInv
  <1>1. CASE Call
    BY <1>0, <1>1, ReplayCall
  <1>2. CASE Enter
    BY <1>0, <1>2, ReplayEnter
  <1>3. CASE pc = "scan" /\ Scan
    BY <1>0, <1>3, ReplayScan DEF Scan
  <1>4. CASE pc = "scan" /\ Residual
    BY <1>0, <1>4, ReplayResidual DEF Residual
  <1>5. CASE Finish \/ Resume \/ Propagate \/ Answer
    BY <1>0, <1>5, ReplayReturn
  <1>6. CASE UNCHANGED vars
    BY <1>0, <1>6 DEF vars, ReplayInv, Running, MemoReplays, StackReplays, Sliced
  <1> QED
    BY <1>1, <1>2, <1>3, <1>4, <1>5, <1>6 DEF Next, Work

\* Calling, refusing and answering are steps of the abstract Optimize; whatever
\* the search does in between is none.
LEMMA PromiseStep == ReplayInv /\ ReplayInv' /\ [Next]_vars => [Promise!Next]_Promise!vars
  <1> SUFFICES ASSUME ReplayInv, ReplayInv', [Next]_vars PROVE [Promise!Next]_Promise!vars
    OBVIOUS
  <1>1. CASE Call
    <2>1. PICK f \in Facts, in \in Inputs :
            pc \in {"idle", "done"} /\ (Optimize(f, in) \/ Reject(f, in))
      BY <1>1 DEF Call
    <2>2. CASE Optimize(f, in)
      <3>1. start' \in Openings
        BY <2>2 DEF Optimize, Openings
      <3>2. Promise!Accept
        BY <2>1, <2>2, <3>1 DEF Optimize, Promise!Accept
      <3> QED
        BY <3>2 DEF Promise!Next
    <2>3. CASE Reject(f, in)
      <3>1. Promise!Refuse
        BY <2>1, <2>3 DEF Reject, Promise!Refuse
      <3> QED
        BY <3>1 DEF Promise!Next
    <2> QED
      BY <2>1, <2>2, <2>3
  <1>2. CASE Answer
    <2>1. /\ pc = "return" /\ pc' = "done" /\ UNCHANGED <<facts, start>>
      BY <1>2 DEF Answer
    <2>2. AccountsFor(ret, start)' /\ Sums(ret)' /\ Replays(ret, start, facts)'
      BY <2>1 DEF ReplayInv, SumsInv, IInv, ControlOK
    <2>3. Promised(ret', start, facts)
      BY <2>1, <2>2 DEF Promised, Sums, Replays
    <2>4. Promise!Return
      BY <2>1, <2>3 DEF Promise!Return
    <2> QED
      BY <2>4 DEF Promise!Next
  <1>3. CASE Enter \/ (pc = "scan" /\ (Scan \/ Residual)) \/ Finish \/ Resume \/ Propagate
    <2>1. /\ pc \in {"call", "scan", "return"} /\ pc' \in {"call", "scan", "return"}
          /\ UNCHANGED <<facts, start>>
      BY <1>3 DEF Enter, MemoHit, NothingOpen, Expand, Scan, SkipChoice, FailChoice, Descend,
                  Residual, ResidualShares, ResidualNaked, ResidualUnmatched, ResidualError,
                  NextChoice, NextResidual, Finish, Resume, Propagate
    <2> QED
      BY <2>1 DEF Promise!vars
  <1>4. CASE UNCHANGED vars
    BY <1>4 DEF vars, Promise!vars
  <1> QED
    BY <1>1, <1>2, <1>3, <1>4 DEF Next, Work

\* Optimize implements the module Optimizer for every rulebook, engine, set of
\* legs and input: whatever the search did, the result it returns accounts for
\* its input, adds up, and replays as slices of what is left, each recognised
\* by the engine, and the naked legs at the end.
THEOREM OptimizeKeepsPromise == Spec => ResultsReplay
  <1>1. Init => ReplayInv
    <2> SUFFICES ASSUME Init PROVE ReplayInv
      OBVIOUS
    <2>1. SumsInv
      BY InitInv, NothingSums DEF Init, SumsInv
    <2> QED
      BY <2>1 DEF Init, ReplayInv, Running
  <1>2. Init => Promise!Init
    BY DEF Init, Promise!Init
  <1>3. Spec => Promise!Init /\ [][Promise!Next]_Promise!vars
    BY <1>1, <1>2, ReplayStep, PromiseStep, PTL DEF Spec
  <1> QED
    BY <1>3 DEF ResultsReplay, Promise!Spec

-----------------------------------------------------------------------------
(***************************************************************************)
(* Nothing is cheaper.  An activation's best is no dearer than any slice   *)
(* tried so far with the memo's answer for what it leaves; the one slice   *)
(* it is recursing on is still to be compared.                             *)
(***************************************************************************)
\* Only a stock error says how many shares are left.
Clean(d) == d.err.kind = "none" => d.err.open = 0

\* The slice of the choice c has been compared with the best.
Compared(f, c, m, fct) ==
  \A p \in Plans(Targets[c[1]], f.state, c[2], fct.U) :
    LET o == EvaluateRule(Targets[c[1]], c[2], p, fct)
    IN  Fits(o) => f.have /\ NoDearer(f.best, o.req, Remainder(f.state, c[2], p), m)

\* It is the slice being worked on.
InWork(f, c, fct) ==
  \A p \in Plans(Targets[c[1]], f.state, c[2], fct.U) :
    LET o == EvaluateRule(Targets[c[1]], c[2], p, fct)
    IN  Fits(o) => o.req = f.sub.req /\ Remainder(f.state, c[2], p) = f.rest

\* What the residual scorer has added up is what the legs it has scored cost.
ResidualCost(f, fct) ==
  LET T == OpenLegs(f.state) \ f.left
  IN  (\A l \in T : HasNaked(f.state, l, fct)) =>
        ~IsError(f.res) /\ f.res.total = NakedSum(f.state, T, fct)

FrameCheap(f, m, fct) ==
  /\ Clean(f.best) /\ Clean(f.res)
  /\ \A c \in Offers(f.state) \ f.todo : Compared(f, c, m, fct) \/ InWork(f, c, fct)
  /\ ResidualCost(f, fct)

AllCompared(f, m, fct) == \A c \in Offers(f.state) \ f.todo : Compared(f, c, m, fct)

\* An activation that is choosing has compared all that it tried.
StackCheap(fct) ==
  \A i \in DOMAIN stack :
    /\ FrameCheap(stack[i], memo, fct)
    /\ i = Len(stack) /\ pc = "scan" => AllCompared(stack[i], memo, fct)

MemoCheap(fct) ==
  \A k \in DOMAIN memo : \E s \in State :
    k = Key(s) /\ (memo[k].err.kind # "hard" => Unbeaten(memo[k], s, memo, fct))

\* What is returned for s is the memo's answer, or a hard error.
FromMemo(d, s, m) == d.err.kind = "hard" \/ (Key(s) \in DOMAIN m /\ d = m[Key(s)])

Accepted == Running \/ (pc = "done" /\ ret.err.kind # "invalid")

CheapInv ==
  /\ DescentInv
  /\ Clean(ret) /\ \A k \in DOMAIN memo : Clean(memo[k])
  /\ Accepted => MemoCheap(facts)
  /\ Running => StackCheap(facts)
  /\ pc = "return" => FromMemo(ret, Handed(stack, start, Len(stack)), memo)
  /\ pc = "done" /\ ret.err.kind # "invalid" => FromMemo(ret, start, memo)

-----------------------------------------------------------------------------
(***************************************************************************)
(* Choices and naked legs are unambiguous.                                 *)
(***************************************************************************)
LEMMA CommonUnitsType ==
  ASSUME NEW s \in State, NEW n \in Nat \ {0}, NEW a \in [1..n -> Legs]
  PROVE  CommonUnits(s, a) \subseteq Nat
  <1>1. 1 \in 1..n /\ a[1] \in Legs /\ s[a[1]] \in Nat
    BY DEF State
  <1>2. Leg[a[1]].mult * Unit \in Nat
    BY <1>1, LegAssumption, UnitAssumption
  <1>3. ASSUME NEW k \in 0..s[a[1]] PROVE k * (Leg[a[1]].mult * Unit) \in Nat
    <2> DEFINE d == Leg[a[1]].mult * Unit
    <2>1. k \in Nat /\ d \in Nat
      BY <1>1, <1>2
    <2> HIDE DEF d
    <2>2. k * d \in Nat
      BY <2>1
    <2> QED
      BY <2>2 DEF d
  <1> QED
    BY <1>3 DEF CommonUnits

\* A choice has one plan at most.
LEMMA PlanUnique ==
  ASSUME NEW s \in State, NEW i \in DOMAIN Targets, NEW a \in Bindings(Targets[i], s), NEW U,
         NEW p \in Plans(Targets[i], s, a, U), NEW q \in Plans(Targets[i], s, a, U)
  PROVE  p = q
  <1> DEFINE n == Len(Slots[Targets[i]])
             r == Targets[i]
  <1>1. n \in Nat \ {0} /\ a \in [1..n -> Legs]
    BY BindingType
  <1>2. CommonUnits(s, a) \subseteq Nat
    BY <1>1, CommonUnitsType
  <1>3. CASE r \in OptionOnlyRules
    <2>1. p \in OptionOnly(s, a) /\ q \in OptionOnly(s, a)
      BY <1>3 DEF Plans, EtfRule, OptionOnlyRules, SingleOptionRules, DualOptionRules
    <2>2. PICK u \in CommonUnits(s, a) :
            /\ \A v \in CommonUnits(s, a) : v <= u
            /\ p = [j \in DOMAIN a |-> u \div Leg[a[j]].mult]
      BY <2>1 DEF OptionOnly
    <2>3. PICK v \in CommonUnits(s, a) :
            /\ \A w \in CommonUnits(s, a) : w <= v
            /\ q = [j \in DOMAIN a |-> v \div Leg[a[j]].mult]
      BY <2>1 DEF OptionOnly
    <2>4. u = v
      BY <1>2, <2>2, <2>3
    <2> QED
      BY <2>2, <2>3, <2>4
  <1>4. CASE r \in SingleOptionRules
    <2>1. Plans(r, s, a, U) = SingleOptionStock(s, a[1], a[2])
      BY <1>4 DEF Plans, EtfRule, OptionOnlyRules, SingleOptionRules, DualOptionRules
    <2> QED
      BY <2>1 DEF SingleOptionStock
  <1>5. CASE r \in DualOptionRules
    <2>1. Plans(r, s, a, U) = DualOptionStock(s, a[1], a[2], a[3])
      BY <1>5 DEF Plans, EtfRule, OptionOnlyRules, SingleOptionRules, DualOptionRules
    <2> QED
      BY <2>1 DEF DualOptionStock
  <1>6. CASE r = EtfRule
    BY <1>6 DEF Plans, EtfNotional, EtfRule, OptionOnlyRules, SingleOptionRules, DualOptionRules
  <1> QED
    BY <1>3, <1>4, <1>5, <1>6 DEF Plans

LEMMA NakedUnique ==
  ASSUME NEW s, NEW l, NEW fct, NEW i \in DOMAIN NakedRules, NEW j \in DOMAIN NakedRules,
         TakesNaked(i, s, l, fct), TakesNaked(j, s, l, fct)
  PROVE  i = j
  <1>1. i \in Nat \ {0} /\ j \in Nat \ {0}
    BY NakedRulesAssumption
  <1>2. ASSUME NEW x \in DOMAIN NakedRules, NEW y \in DOMAIN NakedRules, x < y,
               TakesNaked(x, s, l, fct), TakesNaked(y, s, l, fct)
        PROVE  FALSE
    <2>1. x \in 1..(y - 1)
      BY <1>2, NakedRulesAssumption
    <2> QED
      BY <1>2, <2>1 DEF TakesNaked, Declines, Fits
  <1> QED
    BY <1>1, <1>2

LEMMA NakedReqIs ==
  ASSUME NEW s, NEW l, NEW fct, NEW i \in DOMAIN NakedRules, TakesNaked(i, s, l, fct)
  PROVE  /\ NakedReq(s, l, fct) = EvaluateRule(NakedRules[i], <<l>>, <<s[l]>>, fct).req
         /\ NakedReq(s, l, fct) \in Int
  <1>1. i = CHOOSE j \in DOMAIN NakedRules : TakesNaked(j, s, l, fct)
    BY NakedUnique
  <1>2. EvaluateRule(NakedRules[i], <<l>>, <<s[l]>>, fct).req \in Int
    BY DEF TakesNaked, Fits, Fails
  <1> QED
    BY <1>1, <1>2 DEF NakedReq

LEMMA NakedSumType ==
  ASSUME NEW s \in State, NEW fct, NEW T \in SUBSET Legs, \A l \in T : HasNaked(s, l, fct)
  PROVE  NakedSum(s, T, fct) \in Int
  <1> DEFINE g == [l \in T |-> NakedReq(s, l, fct)]
  <1>1. IsFiniteSet(T)
    BY LegsAssumption, FS_Subset
  <1>2. \A l \in T : g[l] \in Int
    BY NakedReqIs DEF HasNaked
  <1>3. NakedSum(s, T, fct) = Sum(g, T)
    BY DEF NakedSum, Sum
  <1> HIDE DEF g
  <1> QED
    BY <1>1, <1>2, <1>3, SumType

-----------------------------------------------------------------------------
(***************************************************************************)
(* The comparison of candidates.                                           *)
(***************************************************************************)
\* A better candidate keeps within what the old one kept within.
LEMMA BetterKeeps ==
  ASSUME NEW d \in Decomposition, NEW b \in Decomposition, Clean(d), Clean(b),
         NEW r \in Int, Within(b, r), BetterCandidate(d, b)
  PROVE  Within(d, r)
  <1>1. d.total \in Int /\ b.total \in Int
    BY DEF Decomposition
  <1>2. ~IsError(b) /\ b.total <= r
    BY DEF Within
  <1>3. ~IsError(d)
    BY <1>2 DEF BetterCandidate
  <1>4. StrandedShares(d) = 0 /\ StrandedShares(b) = 0
    BY <1>2, <1>3 DEF Clean, IsError, StrandedShares
  <1>5. d.total < b.total \/ d.total = b.total
    <2>1. Less(d, b)
      BY <1>2, <1>3, <1>4 DEF BetterCandidate
    <2> QED
      BY Zenon, <2>1 DEF Less
  <1> QED
    BY <1>1, <1>2, <1>3, <1>5 DEF Within

\* One that is not better leaves an old one that is no dearer.
LEMMA OtherKeeps ==
  ASSUME NEW d \in Decomposition, NEW b \in Decomposition, Clean(d), Clean(b),
         NEW r \in Int, Within(d, r), ~BetterCandidate(d, b)
  PROVE  Within(b, r)
  <1>1. d.total \in Int /\ b.total \in Int
    BY DEF Decomposition
  <1>2. ~IsError(d) /\ d.total <= r
    BY DEF Within
  <1>3. ~IsError(b)
    BY <1>2 DEF BetterCandidate, IsError
  <1>4. StrandedShares(d) = 0 /\ StrandedShares(b) = 0
    BY <1>2, <1>3 DEF Clean, IsError, StrandedShares
  <1>5. ~(d.total < b.total)
    <2>1. IsError(d) = IsError(b)
      BY <1>2, <1>3 DEF IsError
    <2>2. ~Less(d, b)
      BY <1>4, <2>1 DEF BetterCandidate
    <2> QED
      BY Zenon, <2>2 DEF Less
  <1> QED
    BY <1>1, <1>2, <1>3, <1>5 DEF Within

\* What decompose returns keeps within what its best candidate does, and what
\* its residual completion does.
LEMMA ChosenKeeps ==
  ASSUME NEW f \in Frame, Clean(f.best), Clean(f.res), NEW r \in Int,
         (f.have /\ Within(f.best, r)) \/ Within(f.res, r)
  PROVE  Within(Chosen(f), r)
  <1>1. f.best \in Decomposition /\ f.res \in Decomposition
    BY DEF Frame
  <1>2. CASE f.have /\ Within(f.best, r)
    <2>1. ~IsError(f.best)
      BY <1>2 DEF Within
    <2> QED
      BY <1>1, <1>2, <2>1, BetterKeeps DEF Chosen
  <1>3. CASE Within(f.res, r)
    <2>1. ~IsError(f.res)
      BY <1>3 DEF Within
    <2>2. CASE ~f.have \/ BetterCandidate(f.res, f.best)
      BY <1>3, <2>1, <2>2 DEF Chosen
    <2>3. CASE f.have /\ ~BetterCandidate(f.res, f.best)
      <3>1. Chosen(f) = f.best
        BY <2>3 DEF Chosen
      <3> QED
        BY <1>1, <1>3, <2>3, <3>1, OtherKeeps
    <2> QED
      BY <2>2, <2>3
  <1> QED
    BY <1>2, <1>3

\* A memo that grows still answers what it answered.
LEMMA NoDearerGrows ==
  ASSUME NEW d, NEW req, NEW rest, NEW m, NEW new, NoDearer(d, req, rest, m),
         \A k \in DOMAIN m : k \in DOMAIN new /\ new[k] = m[k]
  PROVE  NoDearer(d, req, rest, new)
  BY DEF NoDearer

LEMMA UnbeatenGrows ==
  ASSUME NEW d, NEW s, NEW fct, NEW m, NEW new, Unbeaten(d, s, m, fct),
         \A k \in DOMAIN m : k \in DOMAIN new /\ new[k] = m[k]
  PROVE  Unbeaten(d, s, new, fct)
  BY NoDearerGrows DEF Unbeaten

LEMMA FrameCheapGrows ==
  ASSUME NEW f, NEW fct, NEW m, NEW new, FrameCheap(f, m, fct),
         \A k \in DOMAIN m : k \in DOMAIN new /\ new[k] = m[k]
  PROVE  FrameCheap(f, new, fct)
  BY NoDearerGrows DEF FrameCheap, Compared

-----------------------------------------------------------------------------
(***************************************************************************)
(* The steps.                                                              *)
(***************************************************************************)
LEMMA CheapTop ==
  ASSUME CheapInv, Running, stack # <<>>
  PROVE  /\ FrameOK(Top) /\ Top \in Frame /\ Top.state \in State /\ Top.rest \in State
         /\ Handed(stack, start, Len(stack)) = Top.rest
         /\ FrameCheap(Top, memo, facts)
         /\ pc = "scan" => AllCompared(Top, memo, facts)
  <1>1. IInv
    BY DEF CheapInv, DescentInv
  <1>2. Len(stack) \in DOMAIN stack
    BY <1>1 DEF IInv, StackOK
  <1> QED
    BY <1>1, <1>2, TopFacts DEF CheapInv, StackCheap, Top

\* A step that replaces the top activation: it goes on choosing, or calls.
LEMMA CheapReplace ==
  ASSUME CheapInv, Running, stack # <<>>, DescentInv', UNCHANGED <<facts, start, ret, memo>>,
         NEW g, stack' = WithTop(g), FrameCheap(g, memo, facts),
         pc' = "call" \/ (pc' = "scan" /\ AllCompared(g, memo, facts))
  PROVE  CheapInv'
  <1>1. stack \in Seq(Frame) /\ Len(stack) \in Nat
    BY DEF CheapInv, DescentInv, IInv, StackOK
  <1>2. /\ DOMAIN stack' = DOMAIN stack /\ Len(stack') = Len(stack)
        /\ \A i \in DOMAIN stack : stack'[i] = IF i = Len(stack) THEN g ELSE stack[i]
    BY <1>1 DEF WithTop
  <1>3. StackCheap(facts)'
    BY <1>2 DEF CheapInv, StackCheap
  <1>4. MemoCheap(facts)'
    BY DEF CheapInv, Accepted, MemoCheap
  <1> QED
    BY <1>3, <1>4 DEF CheapInv

\* A step that pops the top activation and returns a hard error, or the answer
\* it stores.
LEMMA CheapPop ==
  ASSUME CheapInv, Running, stack # <<>>, DescentInv', UNCHANGED <<facts, start>>,
         stack' = Popped, pc' = "return", Clean(ret'),
         \/ memo' = memo /\ ret'.err.kind = "hard"
         \/ /\ memo' = Memoized(Top.state, ret')
            /\ ret'.err.kind # "hard" => Unbeaten(ret', Top.state, memo, facts)
  PROVE  CheapInv'
  <1>1. stack \in Seq(Frame) /\ Len(stack) \in Nat /\ StackOK(stack, start) /\ IInv'
    BY DEF CheapInv, DescentInv, IInv, StackOK
  <1>2. Handed(stack', start', Len(stack')) = Top.state
    BY <1>1, StackPop DEF Popped, Top
  <1>3. \A i \in DOMAIN stack' : i \in DOMAIN stack /\ stack'[i] = stack[i]
    BY <1>1, WithoutTop DEF Popped
  <1>4. Top.state \in State /\ Key(Top.state) \notin DOMAIN memo
    <2>1. Len(stack) \in DOMAIN stack
      BY <1>1
    <2> QED
      BY <2>1, CheapTop DEF CheapInv, DescentInv, Unanswered, Top
  <1>5. \A k \in DOMAIN memo : k \in DOMAIN memo' /\ memo'[k] = memo[k]
    BY <1>4 DEF Memoized
  <1>6. StackCheap(facts)'
    BY <1>3, <1>5, FrameCheapGrows DEF CheapInv, StackCheap
  <1>7. ASSUME NEW k \in DOMAIN memo'
        PROVE  /\ Clean(memo'[k])
               /\ \E s \in State : k = Key(s) /\ (memo'[k].err.kind # "hard"
                                                   => Unbeaten(memo'[k], s, memo', facts))
    <2>1. CASE k \in DOMAIN memo
      BY <1>5, <2>1, UnbeatenGrows DEF CheapInv, Accepted, MemoCheap
    <2>2. CASE k \notin DOMAIN memo
      <3>1. k = Key(Top.state) /\ memo'[k] = ret'
        BY <2>2 DEF Memoized
      <3>2. ret'.err.kind # "hard" => Unbeaten(ret', Top.state, memo', facts)
        BY <1>5, <2>2, UnbeatenGrows
      <3> QED
        BY <1>4, <3>1, <3>2
    <2> QED
      BY <2>1, <2>2
  <1>8. MemoCheap(facts)' /\ \A k \in DOMAIN memo' : Clean(memo'[k])
    BY <1>7 DEF MemoCheap
  <1>9. FromMemo(ret', Top.state, memo')
    BY DEF FromMemo, Memoized
  <1> QED
    BY <1>2, <1>6, <1>8, <1>9 DEF CheapInv

\* With nothing open there is nothing to pay.
LEMMA NothingUnbeaten ==
  ASSUME NEW s \in State, OpenLegs(s) = {}, NEW m, NEW fct
  PROVE  Unbeaten(EmptyDecomposition, s, m, fct)
  <1>1. ASSUME NEW i \in DOMAIN Targets
        PROVE  Bindings(Targets[i], s) = {}
    <2> SUFFICES ASSUME NEW a \in Bindings(Targets[i], s) PROVE FALSE
      OBVIOUS
    <2>1. Len(Slots[Targets[i]]) \in Nat \ {0}
      BY BindingType
    <2>2. a \in [1..Len(Slots[Targets[i]]) -> OpenLegs(s)]
      BY DEF Bindings
    <2>3. 1 \in 1..Len(Slots[Targets[i]])
      BY <2>1
    <2>4. a[1] \in OpenLegs(s)
      BY <2>2, <2>3
    <2> QED
      BY <2>4
  <1>2. Offers(s) = {}
    BY <1>1 DEF Offers
  <1>3. NakedSum(s, OpenLegs(s), fct) = 0
    BY SumEmpty DEF NakedSum, Sum
  <1>4. Within(EmptyDecomposition, 0)
    BY DEF Within, EmptyDecomposition, IsError, NoError
  <1> QED
    BY <1>2, <1>3, <1>4 DEF Unbeaten

LEMMA EmptyClean == Clean(EmptyDecomposition) /\ Clean(HardCarrier)
                    /\ Clean([EmptyDecomposition EXCEPT !.err = Invalid])
  BY DEF Clean, EmptyDecomposition, NoError, HardCarrier, Hard, Invalid

LEMMA CheapCall ==
  ASSUME CheapInv, Call, DescentInv'
  PROVE  CheapInv'
  <1>1. PICK f \in Facts, in \in Inputs :
          pc \in {"idle", "done"} /\ (Optimize(f, in) \/ Reject(f, in))
    BY DEF Call
  <1>2. CASE Optimize(f, in)
    BY <1>2 DEF Optimize, CheapInv, MemoCheap, StackCheap
  <1>3. CASE Reject(f, in)
    <2>1. Clean(ret') /\ ret'.err.kind = "invalid" /\ pc' = "done" /\ memo' = memo
      BY <1>3, EmptyClean DEF Reject, EmptyDecomposition, Invalid
    <2> QED
      BY <2>1 DEF CheapInv, Running, Accepted
  <1> QED
    BY <1>1, <1>2, <1>3

LEMMA CheapEnter ==
  ASSUME CheapInv, Enter, DescentInv'
  PROVE  CheapInv'
  <1>1. /\ pc = "call" /\ Running /\ Accepted /\ UNCHANGED <<facts, start, arg>>
        /\ arg \in State /\ stack \in Seq(Frame) /\ arg = Handed(stack, start, Len(stack))
    BY DEF Enter, MemoHit, NothingOpen, Expand, Running, Accepted, CheapInv, DescentInv, IInv,
           RegistersOK, StackOK, ControlOK
  <1>2. MemoCheap(facts) /\ StackCheap(facts)
    BY <1>1 DEF CheapInv
  <1>3. CASE MemoHit
    <2>1. /\ stack' = stack /\ memo' = memo /\ pc' = "return" /\ ret' = memo[Key(arg)]
          /\ Key(arg) \in DOMAIN memo
      BY <1>3 DEF MemoHit
    <2>2. FromMemo(ret', arg, memo') /\ Clean(ret')
      BY <2>1 DEF FromMemo, CheapInv
    <2>3. MemoCheap(facts)' /\ StackCheap(facts)'
      BY <1>1, <1>2, <2>1 DEF MemoCheap, StackCheap
    <2> QED
      BY <1>1, <2>1, <2>2, <2>3 DEF CheapInv
  <1>4. CASE NothingOpen
    <2>1. /\ stack' = stack /\ memo' = Memoized(arg, EmptyDecomposition)
          /\ pc' = "return" /\ ret' = EmptyDecomposition
          /\ OpenLegs(arg) = {} /\ Key(arg) \notin DOMAIN memo
      BY <1>4 DEF NothingOpen
    <2>2. FromMemo(ret', arg, memo') /\ Clean(ret')
      BY <2>1, EmptyClean DEF FromMemo, Memoized
    <2>3. \A k \in DOMAIN memo : k \in DOMAIN memo' /\ memo'[k] = memo[k]
      BY <2>1 DEF Memoized
    <2>4. ASSUME NEW k \in DOMAIN memo'
          PROVE  /\ Clean(memo'[k])
                 /\ \E s \in State : k = Key(s) /\ (memo'[k].err.kind # "hard"
                                                     => Unbeaten(memo'[k], s, memo', facts))
      <3>1. CASE k \in DOMAIN memo
        BY <1>2, <2>3, <3>1, UnbeatenGrows DEF CheapInv, MemoCheap
      <3>2. CASE k \notin DOMAIN memo
        <4>1. k = Key(arg) /\ memo'[k] = EmptyDecomposition
          BY <2>1, <3>2 DEF Memoized
        <4> QED
          BY <1>1, <2>1, <4>1, EmptyClean, NothingUnbeaten
      <3> QED
        BY <3>1, <3>2
    <2>5. MemoCheap(facts)' /\ \A k \in DOMAIN memo' : Clean(memo'[k])
      BY <1>1, <2>4 DEF MemoCheap
    <2>6. StackCheap(facts)'
      BY <1>1, <1>2, <2>1, <2>3, FrameCheapGrows DEF StackCheap
    <2> QED
      BY <1>1, <2>1, <2>2, <2>5, <2>6 DEF CheapInv
  <1>5. CASE Expand
    <2> DEFINE f == NewFrame(arg)
    <2>1. stack' = Append(stack, f) /\ memo' = memo /\ pc' = "scan" /\ ret' = ret
      BY <1>5 DEF Expand
    <2>2. /\ f.state = arg /\ f.todo = Offers(arg) /\ f.left = OpenLegs(arg)
          /\ f.res = EmptyDecomposition /\ f.best = EmptyDecomposition
      BY DEF NewFrame
    <2> HIDE DEF f
    <2>3. ResidualCost(f, facts)
      <3>1. NakedSum(arg, {}, facts) = 0
        BY SumEmpty DEF NakedSum, Sum
      <3>2. ~IsError(EmptyDecomposition) /\ EmptyDecomposition.total = 0
        BY DEF EmptyDecomposition, IsError, NoError
      <3>3. OpenLegs(f.state) \ f.left = {}
        BY <2>2
      <3> QED
        BY <2>2, <3>1, <3>2, <3>3 DEF ResidualCost
    <2>4. FrameCheap(f, memo, facts) /\ AllCompared(f, memo, facts)
      BY <2>2, <2>3, EmptyClean DEF FrameCheap, AllCompared
    <2>5. \A i \in DOMAIN stack' : \/ i \in DOMAIN stack /\ stack'[i] = stack[i] /\ i # Len(stack')
                                   \/ stack'[i] = f
      BY <1>1, <2>1
    <2>6. StackCheap(facts)'
      BY <1>1, <1>2, <2>1, <2>4, <2>5 DEF StackCheap
    <2>7. MemoCheap(facts)'
      BY <1>1, <1>2, <2>1 DEF MemoCheap
    <2> QED
      BY <2>1, <2>6, <2>7 DEF CheapInv
  <1> QED
    BY <1>3, <1>4, <1>5 DEF Enter

LEMMA CheapScan ==
  ASSUME CheapInv, pc = "scan", DescentInv', NEW c \in Top.todo,
         SkipChoice(c) \/ FailChoice(c) \/ Descend(c)
  PROVE  CheapInv'
  <1>0. stack # <<>> /\ Running
    BY DEF CheapInv, DescentInv, IInv, ControlOK, Running
  <1>1. /\ FrameOK(Top) /\ Top \in Frame /\ Top.state \in State
        /\ FrameCheap(Top, memo, facts) /\ AllCompared(Top, memo, facts)
    BY <1>0, CheapTop
  <1>2. c \in Offers(Top.state)
    BY <1>1 DEF FrameOK
  <1>3. CASE SkipChoice(c)
    <2> DEFINE g == [Top EXCEPT !.todo = @ \ {c}]
    <2>1. /\ g.state = Top.state /\ g.have = Top.have /\ g.best = Top.best /\ g.res = Top.res
          /\ g.left = Top.left /\ g.sub = Top.sub /\ g.rest = Top.rest
          /\ g.todo = Top.todo \ {c}
      BY <1>1 DEF Frame
    <2>2. /\ stack' = WithTop(g) /\ pc' = "scan" /\ UNCHANGED <<facts, start, ret, memo>>
          /\ \A p \in Plans(Targets[c[1]], Top.state, c[2], facts.U) :
               Declines(EvaluateRule(Targets[c[1]], c[2], p, facts))
      BY <1>3 DEF SkipChoice
    <2> HIDE DEF g
    <2>3. Compared(g, c, memo, facts)
      BY <2>1, <2>2 DEF Compared, Declines, Fits
    <2>4. AllCompared(g, memo, facts)
      BY <1>1, <2>1, <2>3 DEF AllCompared, Compared
    <2>5. FrameCheap(g, memo, facts)
      BY <1>1, <2>1, <2>4 DEF FrameCheap, ResidualCost, AllCompared
    <2> QED
      BY <1>0, <2>2, <2>4, <2>5, CheapReplace
  <1>4. CASE FailChoice(c)
    <2>1. /\ stack' = Popped /\ memo' = memo /\ ret' = HardCarrier /\ pc' = "return"
          /\ UNCHANGED <<facts, start>>
      BY <1>4 DEF FailChoice
    <2>2. ret'.err.kind = "hard"
      BY <2>1 DEF HardCarrier, EmptyDecomposition, Hard
    <2> QED
      BY <1>0, <2>1, <2>2, CheapPop, EmptyClean
  <1>5. CASE Descend(c)
    <2>1. PICK p \in Plans(Targets[c[1]], Top.state, c[2], facts.U) :
            LET o == EvaluateRule(Targets[c[1]], c[2], p, facts)
            IN  /\ Fits(o)
                /\ stack' = WithTop([Top EXCEPT
                     !.todo = @ \ {c},
                     !.sub  = ScoredSub(Targets[c[1]], c[2], p, o),
                     !.rest = Remainder(Top.state, c[2], p)])
      BY <1>5 DEF Descend
    <2> DEFINE o   == EvaluateRule(Targets[c[1]], c[2], p, facts)
               sub == ScoredSub(Targets[c[1]], c[2], p, o)
               g   == [Top EXCEPT !.todo = @ \ {c}, !.sub = sub,
                                  !.rest = Remainder(Top.state, c[2], p)]
    <2>2. /\ stack' = WithTop(g) /\ pc' = "call"
          /\ UNCHANGED <<facts, start, ret, memo>>
      BY <1>5, <2>1 DEF Descend
    <2>3. sub.req = o.req
      BY DEF ScoredSub
    <2> HIDE DEF sub, o
    <2>4. /\ g.state = Top.state /\ g.have = Top.have /\ g.best = Top.best /\ g.res = Top.res
          /\ g.left = Top.left /\ g.sub = sub /\ g.rest = Remainder(Top.state, c[2], p)
          /\ g.todo = Top.todo \ {c}
      BY <1>1 DEF Frame
    <2> HIDE DEF g
    <2>5. ASSUME NEW q \in Plans(Targets[c[1]], Top.state, c[2], facts.U) PROVE q = p
      <3>1. c[1] \in DOMAIN Targets /\ c[2] \in Bindings(Targets[c[1]], Top.state)
        BY <1>1, <1>2, OffersType
      <3> QED
        BY <1>1, <3>1, PlanUnique
    <2>6. InWork(g, c, facts)
      BY <2>3, <2>4, <2>5 DEF InWork, o
    <2>7. ASSUME NEW x \in Offers(g.state) \ g.todo
          PROVE  Compared(g, x, memo, facts) \/ InWork(g, x, facts)
      <3>1. x = c \/ Compared(Top, x, memo, facts)
        BY <1>1, <2>4 DEF AllCompared
      <3> QED
        BY <2>4, <2>6, <3>1 DEF Compared
    <2>8. FrameCheap(g, memo, facts)
      BY <1>1, <2>4, <2>7 DEF FrameCheap, ResidualCost
    <2> QED
      BY <1>0, <2>2, <2>8, CheapReplace
  <1> QED
    BY <1>3, <1>4, <1>5

\* A leg that an error stands for has no naked rule that takes it.
LEMMA CheapResidualError ==
  ASSUME CheapInv, pc = "scan", stack # <<>>, DescentInv', NEW l \in Top.left, Top.todo = {},
         NEW e, ResidualError(l, e), e.kind # "none", ~HasNaked(Top.state, l, facts)
  PROVE  CheapInv'
  <1> DEFINE g == [Top EXCEPT !.left = @ \ {l}, !.res.err = Stronger(@, e)]
  <1>0. Running
    BY DEF Running
  <1>1. /\ Top \in Frame /\ FrameCheap(Top, memo, facts) /\ AllCompared(Top, memo, facts)
        /\ Top.left \subseteq OpenLegs(Top.state)
    BY <1>0, CheapTop DEF FrameOK, Scores
  <1>2. /\ g.state = Top.state /\ g.have = Top.have /\ g.best = Top.best
        /\ g.left = Top.left \ {l} /\ g.sub = Top.sub /\ g.rest = Top.rest
        /\ g.todo = Top.todo /\ g.res.err = Stronger(Top.res.err, e)
    BY <1>1 DEF Frame, Decomposition
  <1>3. /\ stack' = WithTop(g) /\ pc' = "scan" /\ UNCHANGED <<facts, start, ret, memo>>
    BY DEF ResidualError
  <1> HIDE DEF g
  <1>4. ResidualCost(g, facts)
    <2>1. l \in OpenLegs(g.state) \ g.left
      BY <1>1, <1>2
    <2> QED
      BY <1>2, <2>1 DEF ResidualCost
  <1>5. Clean(g.res)
    <2>1. Clean(Top.res)
      BY <1>1 DEF FrameCheap
    <2> QED
      BY <1>2, <2>1 DEF Clean, Stronger
  <1>6. AllCompared(g, memo, facts)
    BY <1>1, <1>2 DEF AllCompared, Compared
  <1>7. FrameCheap(g, memo, facts)
    BY <1>1, <1>2, <1>4, <1>5, <1>6 DEF FrameCheap, AllCompared
  <1> QED
    BY <1>0, <1>3, <1>6, <1>7, CheapReplace

\* One more leg costs what the naked rule asks for it.
LEMMA NakedSumGrows ==
  ASSUME NEW s \in State, NEW fct, NEW T \in SUBSET Legs, \A x \in T : HasNaked(s, x, fct),
         NEW l \in Legs \ T, NEW i \in DOMAIN NakedRules, TakesNaked(i, s, l, fct)
  PROVE  NakedSum(s, T \cup {l}, fct)
         = NakedSum(s, T, fct) + EvaluateRule(NakedRules[i], <<l>>, <<s[l]>>, fct).req
  <1> DEFINE R == T \cup {l}
             g == [x \in T |-> NakedReq(s, x, fct)]
             h == [x \in R |-> NakedReq(s, x, fct)]
  <1>1. IsFiniteSet(T)
    BY LegsAssumption, FS_Subset
  <1>2. \A x \in R : h[x] \in Int
    BY NakedReqIs DEF HasNaked
  <1>3. \A x \in T : g[x] = h[x]
    OBVIOUS
  <1>4. h[l] = EvaluateRule(NakedRules[i], <<l>>, <<s[l]>>, fct).req
    BY NakedReqIs
  <1>5. NakedSum(s, T, fct) = Sum(g, T) /\ NakedSum(s, R, fct) = Sum(h, R)
    BY DEF NakedSum, Sum
  <1> HIDE DEF g, h
  <1>6. Sum(h, R) = Sum(h, T) + h[l]
    BY <1>1, <1>2, SumAdd
  <1>7. Sum(g, T) = Sum(h, T)
    BY <1>1, <1>3, SumSame
  <1> QED
    BY <1>4, <1>5, <1>6, <1>7

LEMMA CheapResidual ==
  ASSUME CheapInv, pc = "scan", DescentInv', NEW l \in Top.left,
         ResidualShares(l) \/ ResidualNaked(l) \/ ResidualUnmatched(l)
  PROVE  CheapInv'
  <1>0. stack # <<>> /\ Running
    BY DEF CheapInv, DescentInv, IInv, ControlOK, Running
  <1>1. /\ FrameOK(Top) /\ Top \in Frame /\ Top.state \in State /\ Top.res \in Decomposition
        /\ FrameCheap(Top, memo, facts) /\ AllCompared(Top, memo, facts)
        /\ Top.left \subseteq OpenLegs(Top.state) /\ OpenLegs(Top.state) \subseteq Legs
    BY <1>0, CheapTop DEF FrameOK, Scores, Frame, OpenLegs
  <1>2. Top.todo = {}
    BY DEF ResidualShares, ResidualNaked, ResidualUnmatched, NextResidual
  <1>3. CASE ResidualShares(l)
    <2>1. ~HasNaked(Top.state, l, facts)
      BY <1>3 DEF ResidualShares, HasNaked, TakesNaked
    <2> QED
      BY <1>0, <1>2, <1>3, <2>1, CheapResidualError DEF ResidualShares, StockUnsupported
  <1>4. CASE ResidualUnmatched(l)
    <2>1. ~HasNaked(Top.state, l, facts)
      BY <1>4 DEF ResidualUnmatched, HasNaked, TakesNaked, NakedOutcome, Declines, Fits
    <2> QED
      BY <1>0, <1>2, <1>4, <2>1, CheapResidualError DEF ResidualUnmatched, NoNakedRule
  <1>5. CASE ResidualNaked(l)
    <2>1. OpenShares(Top.state, l) = 0
      BY <1>5 DEF ResidualNaked
    <2>2. PICK i \in DOMAIN NakedRules :
            /\ \A j \in 1..(i - 1) : Declines(NakedOutcome(l, j))
            /\ \/ Fails(NakedOutcome(l, i)) /\ ResidualError(l, Hard)
               \/ /\ Fits(NakedOutcome(l, i))
                  /\ stack' = WithTop([Top EXCEPT
                       !.left = @ \ {l},
                       !.res.subs = Append(@, ScoredSub(NakedRules[i], <<l>>, <<Top.state[l]>>,
                                                        NakedOutcome(l, i))),
                       !.res.total = @ + NakedOutcome(l, i).req,
                       !.res.used[l] = Top.state[l]])
                  /\ UNCHANGED <<pc, facts, start, ret, memo>>
      BY <1>5 DEF ResidualNaked
    <2>3. CASE Fails(NakedOutcome(l, i)) /\ ResidualError(l, Hard)
      <3>1. ASSUME NEW j \in DOMAIN NakedRules, TakesNaked(j, Top.state, l, facts)
            PROVE  FALSE
        <4>1. Fits(NakedOutcome(l, j)) /\ \A k \in 1..(j - 1) : Declines(NakedOutcome(l, k))
          BY <3>1 DEF TakesNaked, NakedOutcome
        <4>2. i \in 1..(j - 1) \/ i = j \/ j \in 1..(i - 1)
          BY NakedRulesAssumption
        <4> QED
          BY <2>2, <2>3, <4>1, <4>2 DEF Fits, Declines
      <3>2. ~HasNaked(Top.state, l, facts)
        BY <3>1 DEF HasNaked
      <3> QED
        BY <1>0, <1>2, <2>3, <3>2, CheapResidualError DEF Hard
    <2> DEFINE o   == NakedOutcome(l, i)
               sub == ScoredSub(NakedRules[i], <<l>>, <<Top.state[l]>>, o)
               g   == [Top EXCEPT
                    !.left = @ \ {l},
                    !.res.subs = Append(@, sub),
                    !.res.total = @ + o.req,
                    !.res.used[l] = Top.state[l]]
    <2>4. CASE /\ Fits(o) /\ stack' = WithTop(g)
               /\ UNCHANGED <<pc, facts, start, ret, memo>>
      <3>1. TakesNaked(i, Top.state, l, facts)
        BY <2>1, <2>2, <2>4 DEF TakesNaked, NakedOutcome
      <3>2. o = EvaluateRule(NakedRules[i], <<l>>, <<Top.state[l]>>, facts) /\ o.req \in Int
        BY <2>4 DEF NakedOutcome, Fits, Fails
      <3> HIDE DEF sub, o
      <3>3. /\ g.state = Top.state /\ g.have = Top.have /\ g.best = Top.best
            /\ g.left = Top.left \ {l} /\ g.sub = Top.sub /\ g.rest = Top.rest
            /\ g.todo = Top.todo /\ g.res.total = Top.res.total + o.req
            /\ g.res.err = Top.res.err
        BY <1>1 DEF Frame, Decomposition
      <3> HIDE DEF g
      <3> DEFINE s == Top.state
                 T == OpenLegs(s) \ Top.left
      <3>4. ResidualCost(g, facts)
        <4>1. OpenLegs(g.state) \ g.left = T \cup {l} /\ T \in SUBSET Legs /\ l \in Legs \ T
          BY <1>1, <3>3
        <4>2. SUFFICES ASSUME \A x \in T \cup {l} : HasNaked(s, x, facts)
                       PROVE  ~IsError(g.res) /\ g.res.total = NakedSum(s, T \cup {l}, facts)
          BY <3>3, <4>1 DEF ResidualCost
        <4>3. ~IsError(Top.res) /\ Top.res.total = NakedSum(s, T, facts)
          BY <1>1, <4>2 DEF FrameCheap, ResidualCost
        <4>4. NakedSum(s, T \cup {l}, facts) = NakedSum(s, T, facts) + o.req
          BY <1>1, <3>1, <3>2, <4>1, <4>2, NakedSumGrows
        <4> QED
          BY <3>3, <4>3, <4>4 DEF IsError
      <3>5. AllCompared(g, memo, facts)
        BY <1>1, <3>3 DEF AllCompared, Compared
      <3>6. Clean(g.res)
        BY <1>1, <3>3 DEF FrameCheap, Clean
      <3>7. FrameCheap(g, memo, facts)
        BY <1>1, <3>3, <3>4, <3>5, <3>6 DEF FrameCheap, AllCompared
      <3> QED
        BY <1>0, <2>4, <3>5, <3>7, CheapReplace
    <2> QED
      BY <2>2, <2>3, <2>4
  <1> QED
    BY <1>3, <1>4, <1>5

\* The answer of an activation that has tried everything.
LEMMA ChosenUnbeaten ==
  ASSUME NEW f, FrameOK(f), f.left = {}, f.todo = {}, NEW m, NEW fct, FrameCheap(f, m, fct),
         AllCompared(f, m, fct), \A k \in DOMAIN m : m[k] \in Decomposition
  PROVE  Clean(Chosen(f)) /\ Unbeaten(Chosen(f), f.state, m, fct)
  <1>1. /\ f \in Frame /\ f.state \in State /\ Clean(f.best) /\ Clean(f.res)
        /\ OpenLegs(f.state) \in SUBSET Legs
    BY DEF FrameOK, Frame, FrameCheap, OpenLegs
  <1>2. ASSUME NEW c \in Offers(f.state), NEW p \in Plans(Targets[c[1]], f.state, c[2], fct.U),
               NEW o, o = EvaluateRule(Targets[c[1]], c[2], p, fct), Fits(o)
        PROVE  NoDearer(Chosen(f), o.req, Remainder(f.state, c[2], p), m)
    <2> DEFINE r == Remainder(f.state, c[2], p)
    <2>1. f.have /\ NoDearer(f.best, o.req, r, m)
      BY <1>2 DEF AllCompared, Compared
    <2> HIDE DEF r
    <2>2. ASSUME ~IsError(m[Key(r)])
          PROVE  Within(Chosen(f), o.req + m[Key(r)].total)
      <3>1. o.req \in Int /\ m[Key(r)].total \in Int
        BY <1>2, <2>1 DEF Fits, Fails, NoDearer, Decomposition
      <3>2. o.req + m[Key(r)].total \in Int
        BY <3>1
      <3>3. Within(f.best, o.req + m[Key(r)].total)
        BY <2>1, <2>2 DEF NoDearer
      <3> QED
        BY ONLY <1>1, <2>1, <3>2, <3>3, ChosenKeeps
    <2>3. NoDearer(Chosen(f), o.req, r, m)
      BY <2>1, <2>2 DEF NoDearer
    <2> QED
      BY <2>3 DEF r
  <1>3. ASSUME \A l \in OpenLegs(f.state) : HasNaked(f.state, l, fct)
        PROVE  Within(Chosen(f), NakedSum(f.state, OpenLegs(f.state), fct))
    <2> DEFINE r == NakedSum(f.state, OpenLegs(f.state), fct)
    <2>1. r \in Int
      BY <1>1, <1>3, NakedSumType
    <2>2. OpenLegs(f.state) \ f.left = OpenLegs(f.state)
      OBVIOUS
    <2>3. ~IsError(f.res) /\ f.res.total = r
      BY <1>3, <2>2 DEF FrameCheap, ResidualCost
    <2> HIDE DEF r
    <2>4. Within(f.res, r)
      BY <2>1, <2>3 DEF Within
    <2>5. Within(Chosen(f), r)
      BY <1>1, <2>1, <2>4, ChosenKeeps
    <2> QED
      BY <2>5 DEF r
  <1> QED
    BY <1>1, <1>2, <1>3 DEF Unbeaten, Chosen

LEMMA CheapReturn ==
  ASSUME CheapInv, DescentInv', Finish \/ Resume \/ Propagate \/ Answer
  PROVE  CheapInv'
  <1>0. Running /\ IInv
    BY DEF Finish, Resume, Propagate, Answer, Running, CheapInv, DescentInv
  <1>1. CASE Finish
    <2>1. stack # <<>> /\ pc = "scan" /\ Top.todo = {} /\ Top.left = {}
      BY <1>0, <1>1 DEF Finish, IInv, ControlOK
    <2>2. FrameOK(Top) /\ FrameCheap(Top, memo, facts) /\ AllCompared(Top, memo, facts)
      BY <1>0, <2>1, CheapTop
    <2>3. /\ stack' = Popped /\ ret' = Chosen(Top) /\ pc' = "return"
          /\ memo' = Memoized(Top.state, ret') /\ UNCHANGED <<facts, start>>
      BY <1>1 DEF Finish
    <2>4. \A k \in DOMAIN memo : memo[k] \in Decomposition
      BY <1>0 DEF IInv, MemoOK
    <2>5. Clean(ret') /\ Unbeaten(ret', Top.state, memo, facts)
      BY <2>1, <2>2, <2>3, <2>4, ChosenUnbeaten
    <2> QED
      BY <1>0, <2>1, <2>3, <2>5, CheapPop
  <1>2. CASE Resume
    <2> DEFINE d == Combine(Top, ret)
               b == IF ~Top.have \/ BetterCandidate(d, Top.best) THEN d ELSE Top.best
               g == [Top EXCEPT !.have = TRUE, !.best = b]
    <2>1. /\ stack # <<>> /\ stack' = WithTop(g) /\ pc' = "scan" /\ pc = "return"
          /\ UNCHANGED <<facts, start, ret, memo>> /\ ret.err.kind # "hard"
      BY <1>2 DEF Resume
    <2>2. /\ FrameOK(Top) /\ Top \in Frame /\ FrameCheap(Top, memo, facts)
          /\ Handed(stack, start, Len(stack)) = Top.rest
          /\ Top.best \in Decomposition /\ Top.sub.req \in Int
      BY <1>0, <2>1, CheapTop DEF Frame, SubPosition
    <2>3. ret \in Decomposition /\ Clean(ret) /\ AccountsFor(ret, Top.rest)
      BY <1>0, <2>1, <2>2 DEF CheapInv, IInv, RegistersOK, ControlOK
    <2>4. Key(Top.rest) \in DOMAIN memo /\ ret = memo[Key(Top.rest)]
      BY <2>1, <2>2 DEF CheapInv, FromMemo
    <2>5. d \in Decomposition /\ d.err = ret.err /\ d.total = Top.sub.req + ret.total
      BY <2>2, <2>3, CombineAccounts DEF Combine
    <2> HIDE DEF d
    <2>6. Clean(d) /\ Clean(Top.best)
      BY <2>2, <2>3, <2>5 DEF Clean, FrameCheap
    <2>7. ASSUME NEW r \in Int, Within(d, r) \/ (Top.have /\ Within(Top.best, r))
          PROVE  Within(b, r)
      <3>1. CASE Within(d, r)
        BY <2>2, <2>5, <2>6, <3>1, OtherKeeps
      <3>2. CASE Top.have /\ Within(Top.best, r)
        BY <2>2, <2>5, <2>6, <3>2, BetterKeeps
      <3> QED
        BY <2>7, <3>1, <3>2
    <2>8. Clean(b)
      BY <2>6
    <2> HIDE DEF b
    <2>9. /\ g.state = Top.state /\ g.have = TRUE /\ g.best = b /\ g.res = Top.res
          /\ g.left = Top.left /\ g.sub = Top.sub /\ g.rest = Top.rest /\ g.todo = Top.todo
      BY <2>2 DEF Frame
    <2> HIDE DEF g
    <2>10. ASSUME NEW c \in Offers(g.state) \ g.todo,
                  NEW p \in Plans(Targets[c[1]], g.state, c[2], facts.U),
                  NEW o, o = EvaluateRule(Targets[c[1]], c[2], p, facts), Fits(o)
           PROVE  NoDearer(g.best, o.req, Remainder(g.state, c[2], p), memo)
      <3> DEFINE x == Remainder(g.state, c[2], p)
      <3>1. \/ Top.have /\ NoDearer(Top.best, o.req, x, memo)
            \/ o.req = Top.sub.req /\ x = Top.rest
        BY <2>2, <2>9, <2>10 DEF FrameCheap, Compared, InWork
      <3> HIDE DEF x
      <3>2. /\ Key(x) \in DOMAIN memo /\ memo[Key(x)].err.kind # "hard"
            /\ memo[Key(x)] \in Decomposition
        BY <1>0, <2>1, <2>4, <3>1 DEF NoDearer, IInv, MemoOK
      <3> DEFINE y == o.req + memo[Key(x)].total
      <3>3. y \in Int
        BY <2>10, <3>2 DEF Fits, Fails, Decomposition
      <3>4. ASSUME ~IsError(memo[Key(x)]) PROVE Within(b, y)
        <4>1. CASE Top.have /\ NoDearer(Top.best, o.req, x, memo)
          <5>1. Within(Top.best, y)
            BY <3>4, <4>1 DEF NoDearer
          <5> HIDE DEF y
          <5> QED
            BY <2>7, <3>3, <4>1, <5>1
        <4>2. CASE o.req = Top.sub.req /\ x = Top.rest
          <5>1. ~IsError(d) /\ d.total = y
            BY <2>4, <2>5, <3>4, <4>2 DEF IsError
          <5> HIDE DEF y
          <5>2. Within(d, y)
            BY <3>3, <5>1 DEF Within
          <5> QED
            BY <2>7, <3>3, <5>2
        <4> QED
          BY <3>1, <4>1, <4>2
      <3>5. NoDearer(g.best, o.req, x, memo)
        BY <2>9, <3>2, <3>4 DEF NoDearer
      <3> QED
        BY <3>5 DEF x
    <2>11. AllCompared(g, memo, facts)
      BY <2>9, <2>10 DEF AllCompared, Compared
    <2>12. FrameCheap(g, memo, facts)
      BY <2>2, <2>8, <2>9, <2>11 DEF FrameCheap, ResidualCost, AllCompared
    <2> QED
      BY <1>0, <2>1, <2>11, <2>12, CheapReplace
  <1>3. CASE Propagate
    <2>1. /\ stack # <<>> /\ stack' = Popped /\ memo' = memo /\ ret' = ret
          /\ pc' = "return" /\ ret.err.kind = "hard" /\ UNCHANGED <<facts, start>>
      BY <1>3 DEF Propagate
    <2>2. Clean(ret')
      BY <2>1 DEF CheapInv
    <2> QED
      BY <1>0, <2>1, <2>2, CheapPop
  <1>4. CASE Answer
    <2>1. /\ pc = "return" /\ stack = <<>> /\ pc' = "done"
          /\ UNCHANGED <<facts, start, ret, memo>>
      BY <1>4 DEF Answer
    <2>2. FromMemo(ret, start, memo)
      BY <2>1, EmptyStack DEF CheapInv
    <2>3. MemoCheap(facts)'
      BY <1>0, <2>1 DEF CheapInv, Accepted, MemoCheap
    <2> QED
      BY <2>1, <2>2, <2>3 DEF CheapInv, Running
  <1> QED
    BY <1>1, <1>2, <1>3, <1>4

LEMMA CheapStep == CheapInv /\ [Next]_vars => CheapInv'
  <1> SUFFICES ASSUME CheapInv, [Next]_vars PROVE CheapInv'
    OBVIOUS
  <1>0. DescentInv'
    BY DescentStep DEF CheapInv
  <1>1. CASE Call
    BY <1>0, <1>1, CheapCall
  <1>2. CASE Enter
    BY <1>0, <1>2, CheapEnter
  <1>3. CASE pc = "scan" /\ Scan
    BY <1>0, <1>3, CheapScan DEF Scan
  <1>4. CASE pc = "scan" /\ Residual
    BY <1>0, <1>4, CheapResidual DEF Residual
  <1>5. CASE Finish \/ Resume \/ Propagate \/ Answer
    BY <1>0, <1>5, CheapReturn
  <1>6. CASE UNCHANGED vars
    BY <1>0, <1>6 DEF vars, CheapInv, Running, Accepted, MemoCheap, StackCheap
  <1> QED
    BY <1>1, <1>2, <1>3, <1>4, <1>5, <1>6 DEF Next, Work

LEMMA Cheap == Spec => []CheapInv
  <1>1. Init => CheapInv
    <2> SUFFICES ASSUME Init PROVE CheapInv
      OBVIOUS
    <2>1. DescentInv
      BY InitInv DEF Init, DescentInv, Descends, Unanswered, CallsBelow
    <2> QED
      BY <2>1, EmptyClean DEF Init, CheapInv, Running, Accepted
  <1> QED
    BY <1>1, CheapStep, PTL DEF Spec

\* Every answer in the memo of a call that has returned is as cheap as any slice
\* of its state with the answer for what the slice leaves, and as the naked legs.
THEOREM AnswersStayUnbeaten == Spec => []AnswersUnbeaten
  <1>1. CheapInv => AnswersUnbeaten
    <2> SUFFICES ASSUME CheapInv, pc = "done", ret.err.kind # "invalid", NEW k \in DOMAIN memo,
                        memo[k].err.kind # "hard"
                 PROVE  Unbeaten(memo[k], StateOf(k), memo, facts)
      BY DEF AnswersUnbeaten
    <2>1. PICK s \in State : k = Key(s) /\ Unbeaten(memo[k], s, memo, facts)
      BY DEF CheapInv, Accepted, MemoCheap
    <2> QED
      BY <2>1, StateOfKey
  <1> QED
    BY <1>1, Cheap, PTL

-----------------------------------------------------------------------------
(***************************************************************************)
(* From one slice to all of them.  Whatever replays from a state begins    *)
(* with a slice the memo's answer was compared with, or is all naked; what *)
(* follows the slice replays from what it leaves, and is shorter.          *)
(***************************************************************************)
\* Every slot of every sub-position has its amount.
Attributes(d) == \A i \in DOMAIN d.subs : Len(d.subs[i].amt) = Len(d.subs[i].legs)

LEMMA AttributesSums ==
  ASSUME NEW d \in Decomposition, Attributes(d), AddsUp(d)
  PROVE  Sums(d)
  <1>1. ASSUME NEW i \in DOMAIN d.subs, NEW l \in Legs PROVE AttributedBy(d.subs[i], l) \in Nat
    <2> DEFINE b == d.subs[i]
               J == {j \in DOMAIN b.legs : b.legs[j] = l}
               n == Len(b.amt)
    <2>1. b \in SubPosition
      BY DEF Decomposition
    <2>2. /\ b.amt \in Seq(Nat) /\ b.legs \in Seq(Nat) /\ n \in Nat
          /\ DOMAIN b.legs = 1..n /\ DOMAIN b.amt = 1..n
      BY <2>1 DEF SubPosition, Attributes
    <2>3. IsFiniteSet(1..n)
      BY <2>2, FS_Interval
    <2>4. J \subseteq 1..n
      BY <2>2
    <2>5. IsFiniteSet(J)
      BY <2>3, <2>4, FS_Subset
    <2>6. \A j \in J : b.amt[j] \in Int /\ b.amt[j] >= 0
      BY <2>2, <2>4
    <2>7. AttributedBy(b, l) = Sum(b.amt, J)
      BY DEF AttributedBy, Sum
    <2> HIDE DEF b, J, n
    <2>8. Sum(b.amt, J) \in Int /\ Sum(b.amt, J) >= 0
      BY <2>5, <2>6, SumType, SumNotNegative
    <2>9. AttributedBy(b, l) \in Nat
      BY <2>7, <2>8
    <2> QED
      BY <2>9 DEF b
  <1> QED
    BY <1>1 DEF Sums

\* d completes the state s in n slices and the naked legs of what they leave.
Completes(d, s, fct, n) ==
  /\ d \in Decomposition /\ Sums(d) /\ d.used = s /\ ~IsError(d)
  /\ n \in 0..Len(d.subs)
  /\ PeelsTo(d, s, fct, n)

\* Without a slice it is every open leg under its naked rule.
LEMMA AllNaked ==
  ASSUME NEW s \in State, NEW fct, NEW d, Completes(d, s, fct, 0)
  PROVE  /\ \A l \in OpenLegs(s) : HasNaked(s, l, fct)
         /\ d.total = NakedSum(s, OpenLegs(s), fct)
  <1> DEFINE n == Len(d.subs)
             D == 1..n
             O == OpenLegs(s)
             m == [i \in D |-> d.subs[i].legs[1]]
  <1>1. /\ d.subs \in Seq(SubPosition) /\ n \in Nat /\ DOMAIN d.subs = D
        /\ O \in SUBSET Legs
    BY DEF Completes, Decomposition, OpenLegs
  <1>2. Left(d, s, 0) = s
    BY LeftFirst
  <1>3. ASSUME NEW i \in D
        PROVE  /\ IsNaked(d.subs[i], s, fct)
               /\ \A j \in 1..(i - 1) : d.subs[j].legs[1] < d.subs[i].legs[1]
    <2>1. 0 + 1 = 1
      OBVIOUS
    <2> QED
      BY <1>2, <2>1 DEF Completes, PeelsTo
  <1>4. ASSUME NEW i \in D
        PROVE  /\ m[i] \in O /\ d.subs[i].legs = <<m[i]>> /\ HasNaked(s, m[i], fct)
               /\ d.subs[i].req = NakedReq(s, m[i], fct) /\ d.subs[i].req \in Int
    <2>1. PICK l \in O, k \in DOMAIN NakedRules :
            /\ TakesNaked(k, s, l, fct)
            /\ d.subs[i] = ScoredSub(NakedRules[k], <<l>>, <<s[l]>>,
                                     EvaluateRule(NakedRules[k], <<l>>, <<s[l]>>, fct))
      BY <1>3 DEF IsNaked, TakesNaked
    <2>2. d.subs[i].legs = <<l>> /\ m[i] = l
      BY <2>1 DEF ScoredSub
    <2>3. d.subs[i].req = EvaluateRule(NakedRules[k], <<l>>, <<s[l]>>, fct).req
      BY <2>1 DEF ScoredSub
    <2> HIDE DEF m
    <2>4. d.subs[i].req = NakedReq(s, l, fct) /\ NakedReq(s, l, fct) \in Int
      BY <2>1, <2>3, NakedReqIs
    <2> QED
      BY <2>1, <2>2, <2>4 DEF HasNaked
  <1>5. ASSUME NEW i \in D, NEW j \in D, m[i] = m[j] PROVE i = j
    <2>1. ASSUME NEW x \in D, NEW y \in D, x < y PROVE m[x] # m[y]
      <3>1. x \in 1..(y - 1)
        BY <2>1
      <3>2. m[x] < m[y]
        BY <1>3, <3>1
      <3>3. m[x] \in Nat
        BY <1>1, <1>4, LegsAssumption
      <3> QED
        BY <3>2, <3>3
    <2>2. i \in Int /\ j \in Int
      BY <1>1
    <2> HIDE DEF m
    <2> QED
      BY <1>5, <2>1, <2>2
  <1>6. ASSUME NEW l \in O, \A i \in D : m[i] # l PROVE FALSE
    <2> DEFINE g == [i \in 1..n |-> AttributedBy(d.subs[i], l)]
    <2>1. ASSUME NEW i \in D PROVE g[i] = 0
      <3>1. d.subs[i].legs = <<m[i]>> /\ m[i] # l
        BY <1>4, <1>6
      <3> HIDE DEF m
      <3>2. {j \in DOMAIN d.subs[i].legs : d.subs[i].legs[j] = l} = {}
        BY <3>1
      <3>3. AttributedBy(d.subs[i], l) = 0
        BY <3>2, SumEmpty DEF AttributedBy, Sum
      <3> QED
        BY <3>3
    <2>2. Attributed(d, l) = Sum(g, 1..n)
      BY Zenon, <1>1, LegSumByIndex
    <2>3. IsFiniteSet(1..n)
      BY <1>1, FS_Interval
    <2> HIDE DEF g, m, n
    <2>4. Sum(g, 1..n) = 0
      BY <2>1, <2>3, SumZero
    <2>5. s[l] = Attributed(d, l) /\ s[l] > 0
      BY <1>1 DEF Completes, Sums, AddsUp, OpenLegs
    <2> QED
      BY <2>2, <2>4, <2>5
  <1>7. {m[i] : i \in D} = O
    <2> HIDE DEF m, D, O
    <2> QED
      BY <1>4, <1>6
  <1> DEFINE f == [l \in O |-> NakedReq(s, l, fct)]
             g == [i \in 1..n |-> d.subs[i].req]
  <1>8. RequirementSum(d) = Sum(g, 1..n)
    BY Zenon, <1>1, SumsByIndex
  <1>9. NakedSum(s, O, fct) = Sum(f, O)
    BY DEF NakedSum, Sum
  <1>10. m \in [D -> O] /\ \A i \in D : g[i] \in Int /\ f[m[i]] = g[i]
    BY <1>4
  <1>11. IsFiniteSet(D) /\ IsFiniteSet(O)
    <2>1. IsFiniteSet(1..n)
      BY <1>1, FS_Interval
    <2> HIDE DEF O, n
    <2>2. IsFiniteSet(O)
      BY <1>1, FS_Subset, LegsAssumption
    <2> QED
      BY <2>1, <2>2
  <1>12. \A i, j \in D : m[i] = m[j] => i = j
    BY <1>5
  <1>13. \A l \in O : HasNaked(s, l, fct)
    BY <1>4, <1>7
  <1>14. D = 1..n
    OBVIOUS
  <1> HIDE DEF f, g, m, D, O, n
  <1>15. Sum(f, {m[i] : i \in D}) = Sum(g, D)
    BY <1>10, <1>11, <1>12, SumRenamed
  <1>16. d.total = RequirementSum(d)
    BY DEF Completes, Sums, AddsUp
  <1>17. d.total = NakedSum(s, O, fct)
    BY <1>7, <1>8, <1>9, <1>14, <1>15, <1>16
  <1> QED
    BY <1>13, <1>17 DEF O

\* With a slice, what follows the first one completes what that one leaves.
LEMMA AfterFirstSlice ==
  ASSUME NEW s \in State, NEW fct \in Facts, NEW d, NEW n \in Nat \ {0}, Completes(d, s, fct, n)
  PROVE  \E c \in Offers(s) : \E p \in Plans(Targets[c[1]], s, c[2], fct.U) :
           LET o == EvaluateRule(Targets[c[1]], c[2], p, fct)
               r == Remainder(s, c[2], p)
           IN  /\ Fits(o) /\ r \in State
               /\ \E e : Completes(e, r, fct, n - 1) /\ d.total = o.req + e.total
  <1> DEFINE N == Len(d.subs)
  <1>1. /\ d.subs \in Seq(SubPosition) /\ N \in Nat /\ DOMAIN d.subs = 1..N /\ N > 0 /\ n <= N
        /\ d.total \in Int /\ d.err \in Error
    BY DEF Completes, Decomposition
  <1>2. Left(d, s, 0) = s
    BY LeftFirst
  <1>3. IsSlice(d.subs[1], s, fct)
    <2>1. 1 \in 1..n /\ 1 - 1 = 0
      OBVIOUS
    <2> QED
      BY <1>2, <2>1 DEF Completes, PeelsTo
  <1>0. PICK c \in Offers(s) : \E p \in Plans(Targets[c[1]], s, c[2], fct.U) :
          LET o == EvaluateRule(Targets[c[1]], c[2], p, fct)
          IN  Fits(o) /\ d.subs[1] = ScoredSub(Targets[c[1]], c[2], p, o)
    BY <1>3 DEF IsSlice
  <1>4. PICK p \in Plans(Targets[c[1]], s, c[2], fct.U) :
          LET o == EvaluateRule(Targets[c[1]], c[2], p, fct)
          IN  Fits(o) /\ d.subs[1] = ScoredSub(Targets[c[1]], c[2], p, o)
    BY <1>0
  <1> DEFINE o   == EvaluateRule(Targets[c[1]], c[2], p, fct)
             sub == ScoredSub(Targets[c[1]], c[2], p, o)
             r   == Remainder(s, c[2], p)
             h   == NewFrame(s)
             f   == [h EXCEPT !.sub = sub, !.rest = r]
             e   == [subs |-> Tail(d.subs), total |-> d.total - o.req, used |-> r, err |-> d.err]
             t   == Taken(sub.legs, sub.amt)
  <1>5. FrameOK(h) /\ h.state = s /\ h \in Frame /\ c \in h.todo
    BY NewFrameOK DEF FrameOK, NewFrame
  <1>6. sub \in SubPosition /\ r \in State /\ Adds(s, sub, r) /\ Fits(o) /\ d.subs[1] = sub
    <2>1. Fits(o) /\ d.subs[1] = sub
      BY <1>4
    <2> HIDE DEF o, h
    <2> QED
      BY <1>5, <2>1, SliceOK
  <1>7. sub.req = o.req /\ o.req \in Int
    BY <1>6 DEF ScoredSub, Fits, Fails
  <1>8. OnceEach(sub)
    BY OffersType, BindingType DEF OnceEach, ScoredSub
  <1> HIDE DEF o, sub, r, h
  <1>9. FrameOK(f) /\ f.state = s /\ f.sub = sub /\ f.rest = r
    <2>1. /\ f \in Frame /\ f.todo = h.todo /\ f.sub = sub /\ f.rest = r /\ f.state = h.state
          /\ f.have = h.have /\ f.best = h.best /\ f.left = h.left /\ f.res = h.res
      BY <1>5, <1>6 DEF Frame
    <2> HIDE DEF f
    <2> QED
      BY <1>5, <1>6, <2>1, DescendFrameOK
  <1> HIDE DEF f
  <1>10. /\ e.subs = Tail(d.subs) /\ e.total = d.total - o.req /\ e.used = r /\ e.err = d.err
         /\ e = [subs |-> e.subs, total |-> e.total, used |-> e.used, err |-> e.err]
    OBVIOUS
  <1> HIDE DEF e
  <1>11. /\ e.subs \in Seq(SubPosition) /\ Len(e.subs) = N - 1 /\ DOMAIN e.subs = 1..(N - 1)
         /\ \A i \in 1..(N - 1) : e.subs[i] = d.subs[i + 1]
         /\ <<sub>> \o e.subs = d.subs
    BY <1>1, <1>6, <1>10
  <1>12. e \in Decomposition
    <2>1. e.total \in Int
      BY <1>1, <1>7, <1>10
    <2>2. e.subs \in Seq(SubPosition) /\ e.used \in State /\ e.err \in Error
      BY <1>1, <1>6, <1>10, <1>11
    <2> QED
      BY <1>10, <2>1, <2>2 DEF Decomposition, State
  <1>13. /\ t \in [Legs -> Nat] /\ \A l \in Legs : t[l] + r[l] = s[l]
    BY <1>6 DEF Adds
  <1>14. \A l \in Legs : AttributedBy(sub, l) = t[l]
    BY <1>8, <1>13, AttributedIsTaken
  <1> HIDE DEF t
  <1>15. e.total = RequirementSum(e)
    <2> DEFINE g == [i \in 1..N |-> d.subs[i].req]
               k == [i \in 1..(N - 1) |-> e.subs[i].req]
               K == N - 1
    <2>1. g[1] = o.req /\ \A i \in 1..K : k[i] \in Int /\ g[i + 1] = k[i]
      <3>1. \A i \in 1..K : e.subs[i] \in SubPosition /\ i + 1 \in 1..N
        BY <1>1, <1>11
      <3> QED
        <4>1. g[1] = o.req
          BY <1>1, <1>6, <1>7
        <4>2. ASSUME NEW i \in 1..K PROVE k[i] = e.subs[i].req /\ g[i + 1] = d.subs[i + 1].req
          BY <3>1
        <4>3. ASSUME NEW i \in 1..K PROVE e.subs[i].req \in Int /\ e.subs[i] = d.subs[i + 1]
          BY <1>11, <3>1 DEF SubPosition
        <4> HIDE DEF g, k
        <4> QED
          BY <4>1, <4>2, <4>3
    <2>2. RequirementSum(d) = Sum(g, 1..N)
      BY Zenon, <1>1, SumsByIndex
    <2>3. K \in Nat /\ N = K + 1
      BY <1>1
    <2>4. RequirementSum(e) = Sum(k, 1..K)
      BY Zenon, <1>11, <2>3, SumsByIndex
    <2> HIDE DEF g, k, K
    <2>5. Sum(g, 1..(K + 1)) = g[1] + Sum(k, 1..K)
      BY <1>7, <2>1, <2>3, SumPrepend
    <2>6. Sum(k, 1..K) \in Int
      BY <2>1, <2>3, SumUpTo
    <2>7. d.total = RequirementSum(d)
      BY DEF Completes, Sums, AddsUp
    <2> QED
      BY <1>1, <1>7, <1>10, <2>1, <2>2, <2>3, <2>4, <2>5, <2>6, <2>7
  <1>16. ASSUME NEW l \in Legs
         PROVE  /\ e.used[l] = Attributed(e, l)
                /\ \A i \in 1..(N - 1) : AttributedBy(e.subs[i], l) \in Nat
    <2> DEFINE g == [i \in 1..N |-> AttributedBy(d.subs[i], l)]
               k == [i \in 1..(N - 1) |-> AttributedBy(e.subs[i], l)]
               K == N - 1
    <2>0. \A i \in 1..N : AttributedBy(d.subs[i], l) \in Nat
      BY <1>1 DEF Completes, Sums
    <2>1. g[1] = t[l] /\ t[l] \in Int /\ \A i \in 1..K : k[i] \in Nat /\ g[i + 1] = k[i]
      <3>1. \A i \in 1..K : i + 1 \in 1..N
        BY <1>1
      <3> QED
        BY <1>1, <1>6, <1>11, <1>13, <1>14, <2>0, <3>1
    <2>2. Attributed(d, l) = Sum(g, 1..N)
      BY Zenon, <1>1, LegSumByIndex
    <2>3. K \in Nat /\ N = K + 1
      BY <1>1
    <2>4. Attributed(e, l) = Sum(k, 1..K)
      <3>1. DOMAIN e.subs = 1..K
        BY <1>11
      <3>2. k = [i \in 1..K |-> AttributedBy(e.subs[i], l)]
        OBVIOUS
      <3> HIDE DEF k, K
      <3> QED
        BY Zenon, <2>3, <3>1, <3>2, LegSumByIndex
    <2>5. \A i \in 1..(N - 1) : AttributedBy(e.subs[i], l) \in Nat
      BY <2>1
    <2> HIDE DEF g, k, K
    <2>6. Sum(g, 1..(K + 1)) = g[1] + Sum(k, 1..K)
      <3>1. g[1] \in Int /\ \A i \in 1..K : k[i] \in Int /\ g[i + 1] = k[i]
        BY <2>1
      <3> QED
        BY <2>3, <3>1, SumPrepend
    <2>7. Sum(k, 1..K) \in Int
      BY <2>1, <2>3, SumUpTo
    <2>8. s[l] = Attributed(d, l)
      BY DEF Completes, Sums, AddsUp
    <2>9. t[l] + r[l] = s[l] /\ r[l] \in Int /\ e.used[l] = r[l]
      BY <1>6, <1>10, <1>13 DEF State
    <2> QED
      BY <2>1, <2>2, <2>3, <2>4, <2>5, <2>6, <2>7, <2>8, <2>9
  <1>17. Sums(e)
    BY <1>11, <1>15, <1>16 DEF Sums, AddsUp
  <1>18. ASSUME NEW i \in 0..(N - 1) PROVE Left(d, s, i + 1) = Left(e, r, i)
    <2>1. Left(Combine(f, e), s, i + 1) = Left(e, r, i)
      BY <1>8, <1>9, <1>11, <1>12, <1>17, LeftCombine
    <2>2. Combine(f, e).subs = d.subs
      BY <1>9, <1>11 DEF Combine
    <2>3. Left(Combine(f, e), s, i + 1) = Left(d, s, i + 1)
      BY <2>2 DEF Left
    <2> QED
      BY <2>1, <2>3
  <1>19. PeelsTo(e, r, fct, n - 1)
    <2>1. ASSUME NEW i \in 1..(n - 1) PROVE IsSlice(e.subs[i], Left(e, r, i - 1), fct)
      <3>1. /\ i + 1 \in 1..n /\ i \in 1..(N - 1) /\ i - 1 \in 0..(N - 1)
            /\ (i - 1) + 1 = i /\ (i + 1) - 1 = i
        BY <1>1
      <3>2. IsSlice(d.subs[i + 1], Left(d, s, i), fct)
        BY <3>1 DEF Completes, PeelsTo
      <3>3. Left(d, s, i) = Left(e, r, i - 1)
        BY <1>18, <3>1
      <3> QED
        BY <1>11, <3>1, <3>2, <3>3
    <2>2. n - 1 \in 0..(N - 1) /\ (n - 1) + 1 = n
      BY <1>1
    <2>3. Left(d, s, n) = Left(e, r, n - 1)
      BY <1>18, <2>2
    <2>4. ASSUME NEW i \in n..(N - 1)
          PROVE  /\ IsNaked(e.subs[i], Left(e, r, n - 1), fct)
                 /\ \A j \in n..(i - 1) : e.subs[j].legs[1] < e.subs[i].legs[1]
      <3>1. i + 1 \in (n + 1)..N /\ i \in 1..(N - 1)
        BY <1>1
      <3>2. /\ IsNaked(d.subs[i + 1], Left(d, s, n), fct)
            /\ \A j \in (n + 1)..((i + 1) - 1) : d.subs[j].legs[1] < d.subs[i + 1].legs[1]
        BY <3>1 DEF Completes, PeelsTo
      <3>3. e.subs[i] = d.subs[i + 1]
        BY <1>11, <3>1
      <3>4. ASSUME NEW j \in n..(i - 1) PROVE e.subs[j].legs[1] < e.subs[i].legs[1]
        <4>1. j + 1 \in (n + 1)..((i + 1) - 1) /\ j \in 1..(N - 1)
          BY <1>1, <3>1
        <4>2. e.subs[j] = d.subs[j + 1]
          BY <1>11, <4>1
        <4> QED
          BY <3>2, <3>3, <4>1, <4>2
      <3> QED
        BY <2>3, <3>2, <3>3, <3>4
    <2>5. IsTrueOf(e.err, Left(e, r, n - 1), fct)
      BY <1>10, <2>3 DEF Completes, PeelsTo
    <2> QED
      BY <1>11, <2>1, <2>2, <2>4, <2>5 DEF PeelsTo
  <1>20. Completes(e, r, fct, n - 1) /\ d.total = o.req + e.total
    <2>1. n - 1 \in 0..Len(e.subs) /\ d.total = o.req + e.total
      BY <1>1, <1>7, <1>10, <1>11
    <2>2. ~IsError(e) /\ e.used = r
      BY <1>10 DEF Completes, IsError
    <2> QED
      BY <1>12, <1>17, <1>19, <2>1, <2>2 DEF Completes
  <1> QED
    BY <1>6, <1>20 DEF o, r

\* By induction on the number of slices: an answer that no first slice beats is
\* beaten by no completion.
LEMMA MemoCheapest ==
  ASSUME NEW fct \in Facts, MemoCheap(fct), \A k \in DOMAIN memo : memo[k] \in Decomposition,
         NEW s0 \in State, Key(s0) \in DOMAIN memo, memo[Key(s0)].err.kind # "hard",
         NEW d0, NEW n0, Completes(d0, s0, fct, n0)
  PROVE  Within(memo[Key(s0)], d0.total)
  <1> DEFINE Beats(s, d, n) == /\ Key(s) \in DOMAIN memo /\ memo[Key(s)].err.kind # "hard"
                               /\ Completes(d, s, fct, n)
                               /\ ~Within(memo[Key(s)], d.total)
             B == {n \in Nat : \E s \in State, d \in Decomposition : Beats(s, d, n)}
  <1>1. SUFFICES ASSUME ~Within(memo[Key(s0)], d0.total) PROVE FALSE
    OBVIOUS
  <1>2. n0 \in Nat /\ d0 \in Decomposition
    BY DEF Completes, Decomposition
  <1>3. n0 \in B
    BY <1>1, <1>2
  <1>4. PICK n \in B : \A m \in B : n <= m
    <2>1. B \in SUBSET Nat
      OBVIOUS
    <2> HIDE DEF B
    <2> QED
      BY <1>3, <2>1, LeastNatural
  <1>5. PICK s \in State, d \in Decomposition : Beats(s, d, n)
    BY <1>4
  <1>6. n \in Nat /\ n - 1 \notin B
    <2>1. n \in Nat
      BY <1>4
    <2>2. n - 1 \in B => n <= n - 1
      BY <1>4
    <2> HIDE DEF B
    <2> QED
      BY <2>1, <2>2
  <1>7. Unbeaten(memo[Key(s)], s, memo, fct)
    <2>1. PICK t \in State : /\ Key(s) = Key(t)
                             /\ memo[Key(s)].err.kind # "hard" => Unbeaten(memo[Key(s)], t, memo, fct)
      BY <1>5 DEF MemoCheap
    <2>2. s = t
      BY <2>1, KeyInjective
    <2> QED
      BY <1>5, <2>1, <2>2
  <1>8. CASE n = 0
    <2>1. /\ \A l \in OpenLegs(s) : HasNaked(s, l, fct)
          /\ d.total = NakedSum(s, OpenLegs(s), fct)
      BY <1>5, <1>8, AllNaked
    <2> QED
      BY <1>5, <1>7, <2>1 DEF Unbeaten
  <1>9. CASE n # 0
    <2>0. PICK c \in Offers(s) : \E p \in Plans(Targets[c[1]], s, c[2], fct.U) :
            LET o == EvaluateRule(Targets[c[1]], c[2], p, fct)
                r == Remainder(s, c[2], p)
            IN  /\ Fits(o) /\ r \in State
                /\ \E e : Completes(e, r, fct, n - 1) /\ d.total = o.req + e.total
      <3>1. n \in Nat \ {0} /\ Completes(d, s, fct, n)
        BY <1>5, <1>6, <1>9
      <3> QED
        BY <3>1, AfterFirstSlice
    <2>1. PICK p \in Plans(Targets[c[1]], s, c[2], fct.U) :
            LET o == EvaluateRule(Targets[c[1]], c[2], p, fct)
                r == Remainder(s, c[2], p)
            IN  /\ Fits(o) /\ r \in State
                /\ \E e : Completes(e, r, fct, n - 1) /\ d.total = o.req + e.total
      BY <2>0
    <2> DEFINE o == EvaluateRule(Targets[c[1]], c[2], p, fct)
               r == Remainder(s, c[2], p)
    <2>2. Fits(o) /\ r \in State
      BY <2>1
    <2>3. PICK e : Completes(e, r, fct, n - 1) /\ d.total = o.req + e.total
      BY <2>1
    <2>4. NoDearer(memo[Key(s)], o.req, r, memo)
      BY <1>7, <2>2 DEF Unbeaten
    <2> HIDE DEF o, r
    <2>5. e \in Decomposition /\ n - 1 \in Nat
      BY <1>6, <1>9, <2>3 DEF Completes
    <2>6. Key(r) \in DOMAIN memo /\ memo[Key(r)].err.kind # "hard"
      BY <2>4 DEF NoDearer
    <2>7. Within(memo[Key(r)], e.total)
      BY <1>6, <2>2, <2>3, <2>5, <2>6
    <2>8. Within(memo[Key(s)], o.req + memo[Key(r)].total)
      BY <2>4, <2>7 DEF NoDearer, Within
    <2>9. /\ memo[Key(s)].total \in Int /\ memo[Key(r)].total \in Int /\ e.total \in Int
          /\ o.req \in Int
      BY <1>5, <2>2, <2>5, <2>6 DEF Decomposition, Fits, Fails
    <2>10. Within(memo[Key(s)], d.total)
      BY <2>3, <2>7, <2>8, <2>9 DEF Within
    <2> QED
      BY <1>5, <2>10
  <1> QED
    BY <1>8, <1>9

\* No decomposition that Optimize could promise of its input is complete where the
\* result is not, or cheaper than the result.
NothingIsCheaper ==
  pc = "done" /\ ret.err.kind \notin {"hard", "invalid"} =>
    \A d \in Decomposition :
      Attributes(d) /\ ~IsError(d) /\ Promised(d, start, facts) => Within(ret, d.total)

\* Optimize returns the cheapest: for every rulebook, engine, set of legs and
\* input, of all complete decompositions that can be replayed as slices the
\* engine recognises and naked legs at the end, none is cheaper than the result,
\* and the result has an error only where there is none.
THEOREM ResultsAreCheapest == Spec => []NothingIsCheaper
  <1>1. CheapInv => NothingIsCheaper
    <2> SUFFICES ASSUME CheapInv, pc = "done", ret.err.kind \notin {"hard", "invalid"},
                        NEW d \in Decomposition, Attributes(d), ~IsError(d),
                        Promised(d, start, facts)
                 PROVE  Within(ret, d.total)
      BY DEF NothingIsCheaper
    <2>1. /\ MemoCheap(facts) /\ facts \in Facts /\ start \in State
          /\ \A k \in DOMAIN memo : memo[k] \in Decomposition
          /\ Key(start) \in DOMAIN memo /\ ret = memo[Key(start)]
      BY DEF CheapInv, Accepted, FromMemo, DescentInv, IInv, RegistersOK, MemoOK
    <2>2. Sums(d) /\ d.used = start
      BY AttributesSums DEF Promised, AccountsFor, IsError
    <2>3. PICK n \in 0..Len(d.subs) : PeelsTo(d, start, facts, n)
      BY DEF Promised, Peels, IsError
    <2>4. Completes(d, start, facts, n)
      BY <2>2, <2>3 DEF Completes
    <2> QED
      BY <2>1, <2>4, MemoCheapest
  <1> QED
    BY <1>1, Cheap, PTL
=============================================================================
