--------------------------- MODULE DispatchProofs ---------------------------
(***************************************************************************)
(* Facts about the engine's rulebook that hold whatever the rules, the     *)
(* positions and the outcomes of the expressions: what a single rule may   *)
(* answer, that every program it reads is compiled, and that the scan of   *)
(* Evaluate returns what the first rule that does not decline says.        *)
(***************************************************************************)
EXTENDS Dispatch, FiniteTheorems

-----------------------------------------------------------------------------
IsSeq(s) == \E S : s \in Seq(S)

LEMMA AppendFacts ==
  ASSUME NEW s, IsSeq(s), NEW x
  PROVE  /\ IsSeq(Append(s, x))
         /\ Len(s) \in Nat /\ DOMAIN s = 1..Len(s)
         /\ Len(Append(s, x)) = Len(s) + 1 /\ DOMAIN Append(s, x) = 1..(Len(s) + 1)
         /\ \A i \in 1..Len(s) : Append(s, x)[i] = s[i]
         /\ Append(s, x)[Len(s) + 1] = x
  <1>1. PICK S : s \in Seq(S)
    BY DEF IsSeq
  <1>2. s \in Seq(S \cup {x})
    BY <1>1
  <1>3. Append(s, x) \in Seq(S \cup {x})
    BY <1>2
  <1> QED
    BY <1>2, <1>3 DEF IsSeq

LEMMA ListIsSeq ==
  ASSUME NEW n \in Nat, NEW s, s = [i \in 1..n |-> s[i]]
  PROVE  IsSeq(s) /\ Len(s) = n /\ DOMAIN s = 1..n
  <1>1. s \in Seq({s[i] : i \in 1..n})
    OBVIOUS
  <1>2. DOMAIN s = 1..n /\ DOMAIN s = 1..Len(s) /\ Len(s) \in Nat
    BY <1>1
  <1>3. Len(s) = n
    BY <1>2
  <1> QED
    BY <1>1, <1>2, <1>3 DEF IsSeq

LEMMA ConcatIsSeq ==
  ASSUME NEW s, NEW t, IsSeq(s), IsSeq(t)
  PROVE  /\ IsSeq(s \o t) /\ Len(s \o t) = Len(s) + Len(t)
         /\ Len(s) \in Nat /\ Len(t) \in Nat
         /\ DOMAIN s = 1..Len(s) /\ DOMAIN t = 1..Len(t)
         /\ \A i \in 1..Len(s) : (s \o t)[i] = s[i]
         /\ \A i \in 1..Len(t) : (s \o t)[Len(s) + i] = t[i]
  <1>1. PICK S : s \in Seq(S)
    BY DEF IsSeq
  <1>2. PICK T : t \in Seq(T)
    BY DEF IsSeq
  <1>3. s \in Seq(S \cup T) /\ t \in Seq(S \cup T)
    BY <1>1, <1>2
  <1>4. s \o t \in Seq(S \cup T)
    BY <1>3
  <1>5. IsSeq(s \o t)
    BY <1>4 DEF IsSeq
  <1> QED
    BY <1>3, <1>5

LEMMA AppendMembers ==
  ASSUME NEW s, IsSeq(s), NEW x
  PROVE  \A y : y \in Members(Append(s, x)) <=> y \in Members(s) \/ y = x
  <1>1. /\ Len(s) \in Nat /\ DOMAIN s = 1..Len(s)
        /\ DOMAIN Append(s, x) = 1..(Len(s) + 1)
        /\ \A i \in 1..Len(s) : Append(s, x)[i] = s[i]
        /\ Append(s, x)[Len(s) + 1] = x
    BY AppendFacts
  <1>2. \A i \in 1..(Len(s) + 1) : i \in 1..Len(s) \/ i = Len(s) + 1
    BY <1>1
  <1>3. 1..Len(s) \subseteq 1..(Len(s) + 1) /\ Len(s) + 1 \in 1..(Len(s) + 1)
    BY <1>1
  <1> HIDE DEF Members
  <1>4. \A y : y \in Members(s) <=> \E i \in 1..Len(s) : y = s[i]
    BY <1>1 DEF Members
  <1>5. \A y : y \in Members(Append(s, x)) <=> \E i \in 1..(Len(s) + 1) : y = Append(s, x)[i]
    BY <1>1 DEF Members
  <1> QED
    BY <1>1, <1>2, <1>3, <1>4, <1>5

-----------------------------------------------------------------------------
(***************************************************************************)
(* Nth and Selection: the elements of a sequence at some of its places, in *)
(* their order, each of them once.                                         *)
(***************************************************************************)
LEMMA NthFacts ==
  ASSUME NEW is, IsFiniteSet(is), is \subseteq Int
  PROVE  /\ Cardinality(is) \in Nat
         /\ \A n \in 1..Cardinality(is) : Nth(is, n) \in is
         /\ \A m, n \in 1..Cardinality(is) : m < n => Nth(is, m) < Nth(is, n)
         /\ \A i \in is : \E n \in 1..Cardinality(is) : Nth(is, n) = i
  <1> DEFINE N == Cardinality(is)
  <1>0. N \in Nat
    BY FS_CardinalityType
  <1>1. PICK R : \A i, j \in is : <<j, i>> \in R <=> j < i
    <2>1. \A i, j \in is : <<j, i>> \in {p \in is \X is : p[1] < p[2]} <=> j < i
      OBVIOUS
    <2> QED
      BY <2>1
  <1>2. StrictOrder(is, R)
    BY <1>1 DEF StrictOrder
  <1>3. \A i \in is : RankIn(is, R, i) = Cardinality({j \in is : j < i})
    <2> TAKE i \in is
    <2>1. {j \in is : <<j, i>> \in R} = {j \in is : j < i}
      BY <1>1
    <2> QED
      BY <2>1 DEF RankIn
  <1>4. ASSUME NEW n \in 1..N PROVE Nth(is, n) \in is /\ RankIn(is, R, Nth(is, n)) = n - 1
    <2>0. PICK i \in is : RankIn(is, R, i) = n - 1
      BY <1>2, RankExists
    <2>1. Cardinality({j \in is : j < i}) = n - 1
      BY <1>3, <2>0
    <2>2. Nth(is, n) \in is /\ Cardinality({j \in is : j < Nth(is, n)}) = n - 1
      BY <2>1 DEF Nth
    <2> QED
      BY <1>3, <2>2
  <1>5. ASSUME NEW m \in 1..N, NEW n \in 1..N, m < n PROVE Nth(is, m) < Nth(is, n)
    <2> DEFINE i == Nth(is, m)
               j == Nth(is, n)
    <2>1. i \in is /\ j \in is /\ RankIn(is, R, i) = m - 1 /\ RankIn(is, R, j) = n - 1
      BY <1>4
    <2>2. <<j, i>> \in R => n - 1 < m - 1
      BY <1>2, <2>1, RankGrows
    <2> HIDE DEF i, j
    <2>3. <<j, i>> \notin R /\ i # j
      BY <1>5, <2>1, <2>2
    <2>4. i < j
      BY <1>1, <2>1, <2>3
    <2> QED
      BY <2>4 DEF i, j
  <1>6. ASSUME NEW i \in is PROVE \E n \in 1..N : Nth(is, n) = i
    <2>1. RankIn(is, R, i) \in 0..(N - 1)
      BY <1>2, RankGrows
    <2> DEFINE n == RankIn(is, R, i) + 1
    <2>2. n \in 1..N /\ n - 1 = RankIn(is, R, i)
      BY <1>0, <2>1
    <2>3. Nth(is, n) \in is /\ RankIn(is, R, Nth(is, n)) = RankIn(is, R, i)
      BY <1>4, <2>2
    <2>4. Nth(is, n) = i
      BY <1>2, <2>3, RankExists
    <2> QED
      BY <2>2, <2>4
  <1> QED
    BY <1>0, <1>4, <1>5, <1>6

LEMMA SelectionFacts ==
  ASSUME NEW s, NEW is, IsFiniteSet(is), is \subseteq Int
  PROVE  /\ IsSeq(Selection(s, is))
         /\ Cardinality(is) \in Nat /\ Len(Selection(s, is)) = Cardinality(is)
         /\ DOMAIN Selection(s, is) = 1..Cardinality(is)
         /\ \A n \in 1..Cardinality(is) : Nth(is, n) \in is /\ Selection(s, is)[n] = s[Nth(is, n)]
         /\ Members(Selection(s, is)) = {s[i] : i \in is}
  <1> DEFINE t == Selection(s, is)
             N == Cardinality(is)
  <1>1. N \in Nat /\ DOMAIN t = 1..N
    BY NthFacts DEF Selection
  <1>2. \A n \in 1..N : Nth(is, n) \in is /\ t[n] = s[Nth(is, n)]
    BY NthFacts DEF Selection
  <1>3. t = [n \in 1..N |-> t[n]] /\ \A n \in 1..N : t[n] \in {s[i] : i \in is}
    BY <1>2 DEF Selection
  <1>4. t \in Seq({s[i] : i \in is})
    BY <1>1, <1>3
  <1>5. Len(t) = N
    BY <1>1, <1>4
  <1> HIDE DEF t
  <1>6. Members(t) = {s[i] : i \in is}
    <2>1. \A i \in is : \E n \in 1..N : Nth(is, n) = i
      BY NthFacts
    <2>2. \A i \in is : \E n \in 1..N : t[n] = s[i]
      BY <1>2, <2>1
    <2>3. \A x : x \in Members(t) <=> \E n \in 1..N : x = t[n]
      BY <1>1 DEF Members
    <2>4. \A x : x \in {s[i] : i \in is} <=> \E n \in 1..N : x = t[n]
      BY <1>2, <2>2
    <2> QED
      BY <2>3, <2>4
  <1> QED
    BY <1>1, <1>2, <1>4, <1>5, <1>6 DEF IsSeq, t

-----------------------------------------------------------------------------
(***************************************************************************)
(* What a rule may answer.                                                 *)
(***************************************************************************)
Answered == {"no", "requires", "error", "result"}

Answer(o) ==
  /\ o.kind \in Answered
  /\ o.kind = "result" => /\ o.res.req \in Int /\ o.res.cashCall \in Int
                          /\ ~o.res.permitted => o.res.req = 0
  /\ o.kind # "result" => o = Outcome(o.kind)

LEMMA RequiresSayRange ==
  ASSUME NEW r, NEW p, NEW b
  PROVE  RequiresSay(r, p, b) \in {"ok", "requires", "error"}
  <1>1. \A m : MinimumSays(r, m, p, b) \in {"ok", "requires", "error"}
    BY DEF MinimumSays, AtLeast
  <1> QED
    BY <1>1 DEF RequiresSay

LEMMA EvalFormulasAnswers ==
  ASSUME NEW r, NEW p, NEW b, NEW account, NEW phase
  PROVE  Answer(EvalFormulas(r, p, b, account, phase))
  <1>1. Answer(Outcome("error"))
    BY DEF Answer, Answered, Outcome
  <1>2. ASSUME NEW deposit, NEW n \in Int, NEW m \in Int, NEW ok, ok \/ n = 0
               PROVE  Answer(Charge(r, deposit, n, m, ok))
    <2>1. n - m \in Int
      OBVIOUS
    <2> QED
      BY <1>2, <2>1 DEF Answer, Answered, Charge
  <1>3. ASSUME NEW deposit, NEW n, NEW m PROVE Answer(ChargeIfFinite(r, deposit, n, m))
    <2>1. n \in Int /\ m \in Int => Answer(Charge(r, deposit, n, m, TRUE))
      BY <1>2
    <2> QED
      BY <1>1, <2>1, Zenon DEF ChargeIfFinite, Finite
  <1>4. \A deposit, ok : Answer(Charge(r, deposit, 0, 0, ok))
    <2>1. 0 \in Int
      OBVIOUS
    <2> QED
      BY <1>2, <2>1, Zenon
  <1> QED
    BY <1>1, <1>3, <1>4, Zenon DEF EvalFormulas

LEMMA EvaluateOneAnswers ==
  ASSUME NEW r, NEW p, NEW account, NEW phase
  PROVE  Answer(EvaluateOne(r, p, account, phase))
  <1> DEFINE b == CHOOSE x \in TryMatch(r, p.legs) : TRUE
  <1>1. RequiresSay(r, p, b) \in {"ok", "requires", "error"}
    BY RequiresSayRange
  <1>2. Answer(EvalFormulas(r, p, b, account, phase))
    BY EvalFormulasAnswers
  <1>3. \A k \in Answered \ {"result"} : Answer(Outcome(k))
    BY DEF Answer, Answered, Outcome
  <1>4. \/ \E k \in Answered \ {"result"} : EvaluateOne(r, p, account, phase) = Outcome(k)
        \/ EvaluateOne(r, p, account, phase) = EvalFormulas(r, p, b, account, phase)
    BY <1>1 DEF EvaluateOne, Judged, Answered
  <1> QED
    BY <1>2, <1>3, <1>4

-----------------------------------------------------------------------------
(***************************************************************************)
(* Programs.                                                               *)
(***************************************************************************)
\* What a rule may look up is compiled with it.
LEMMA LookupsCompiled ==
  ASSUME NEW r, NEW account, NEW phase
  PROVE  Lookups(r, account, phase) \subseteq Constraints(r) \cup Formulas(r)
  BY DEF Lookups, Formulas, Block

\* The programs of a rulebook are those of its rules; without one there is no
\* rule to try.
Compiled ==
  /\ rb.rules \in Seq(Members(rb.rules))
  /\ \A i \in DOMAIN rb.rules : Constraints(rb.rules[i]) \cup Formulas(rb.rules[i]) \subseteq rb.progs

LEMMA NoRulebookCompiled == rb = NoRulebook => Compiled
  BY DEF Compiled, NoRulebook, Members

LEMMA LoadCompiles ==
  ASSUME NEW raw, raw.rules \in Seq(Members(raw.rules)), LoadRulebook(raw)
  PROVE  Compiled'
  <1>1. CASE rb'.rules = raw.rules /\ rb'.progs = UNION {Constraints(r) \cup Formulas(r) : r \in Members(raw.rules)}
    BY <1>1 DEF Compiled, Members
  <1>2. CASE rb'.rules = <<>>
    BY <1>2 DEF Compiled, Members
  <1> QED
    BY <1>1, <1>2 DEF LoadRulebook, NoRulebook

\* However far Evaluate's scan gets, it finds every program it looks up.
LEMMA LookupsFound ==
  ASSUME Compiled, NEW i \in DOMAIN rb.rules, NEW account, NEW phase
  PROVE  Lookups(rb.rules[i], account, phase) \subseteq rb.progs
  BY LookupsCompiled DEF Compiled

-----------------------------------------------------------------------------
(***************************************************************************)
(* The scan.                                                               *)
(***************************************************************************)
RuleSays(i) == EvaluateOne(rb.rules[i], call.pos, call.account, call.phase)

\* While Evaluate scans, every rule before the one it is at has declined; when it
\* has returned, it has returned what the first rule that does not decline says.
AnswersFirst ==
  /\ call = [pos |-> call.pos, account |-> call.account, phase |-> call.phase, rule |-> call.rule]
  /\ outcome = Scanning =>
       /\ ValidPosition(call.pos)
       /\ call.rule \in 1..(Len(rb.rules) + 1)
       /\ \A i \in 1..(call.rule - 1) : RuleSays(i).kind = "no"
  /\ Returned =>
       outcome = IF ValidPosition(call.pos) THEN FirstToDecide(call.pos, call.account, call.phase)
                 ELSE Outcome("invalid")

LEMMA KindsDiffer ==
  /\ Idle # Scanning
  /\ \A o : Answer(o) => o \notin {Idle, Scanning}
  /\ \A k \in {"invalid", "norule"} : Outcome(k) \notin {Idle, Scanning}
  BY DEF Idle, Scanning, Outcome, Answer, Answered

\* Of the rules that do not decline, FirstToDecide asks the one no smaller than
\* which is such.
LEMMA FirstIs ==
  ASSUME NEW S \in SUBSET Int, NEW n \in S, \A j \in S : n <= j
  PROVE  FirstOf(S) = n
  <1> DEFINE first(i) == i \in S /\ \A j \in S : i <= j
  <1>1. first(n) /\ FirstOf(S) = CHOOSE i : first(i)
    BY DEF FirstOf
  <1>2. first(CHOOSE i : first(i))
    BY <1>1, Zenon
  <1>3. \A i : first(i) => i = n
    BY SMT
  <1> QED
    BY <1>1, <1>2, <1>3

LEMMA FirstIsNth ==
  ASSUME NEW S \in SUBSET Int, IsFiniteSet(S), S # {}
  PROVE  /\ FirstOf(S) = Nth(S, 1) /\ FirstOf(S) \in S /\ 1 \in 1..Cardinality(S)
         /\ \A j \in S : FirstOf(S) <= j
  <1>1. 1 \in 1..Cardinality(S)
    <2>1. Cardinality(S) \in Nat /\ Cardinality(S) # 0
      BY FS_EmptySet, FS_CardinalityType
    <2> QED
      BY <2>1
  <1>2. Nth(S, 1) \in S
    BY <1>1, NthFacts
  <1>3. ASSUME NEW j \in S PROVE Nth(S, 1) <= j
    <2>1. PICK n \in 1..Cardinality(S) : Nth(S, n) = j
      BY NthFacts
    <2>2. 1 < n => Nth(S, 1) < Nth(S, n)
      BY <1>1, NthFacts
    <2>3. n \in Nat \ {0} /\ Nth(S, 1) \in Int /\ j \in Int
      <3>1. Cardinality(S) \in Nat
        BY FS_CardinalityType
      <3>2. n \in Nat \ {0}
        BY <3>1
      <3>3. \A i \in S : i \in Int
        OBVIOUS
      <3> QED
        BY <1>2, <3>2, <3>3
    <2> QED
      BY <2>1, <2>2, <2>3
  <1>4. FirstOf(S) = Nth(S, 1)
    BY <1>2, <1>3, FirstIs
  <1> QED
    BY <1>1, <1>2, <1>3, <1>4

\* Whatever lists the elements of a set in their order lists them as Nth does.
LEMMA NthUnique ==
  ASSUME NEW is, IsFiniteSet(is), is \subseteq Int, NEW m \in Nat, NEW f \in [1..m -> is],
         \A j, k \in 1..m : j < k => f[j] < f[k],
         \A i \in is : \E k \in 1..m : f[k] = i
  PROVE  m = Cardinality(is) /\ \A k \in 1..m : f[k] = Nth(is, k)
  <1>0. /\ \A k \in 1..m : f[k] \in is /\ f[k] \in Int /\ k \in Int
        /\ \A i \in is : i \in Int
    <2>1. \A i \in is : i \in Int
      OBVIOUS
    <2>2. \A k \in 1..m : f[k] \in is /\ k \in Int
      OBVIOUS
    <2> QED
      BY <2>1, <2>2
  <1>1. m = Cardinality(is)
    <2>1. \A j, k \in 1..m : j # k => f[j] # f[k]
      <3>1. \A j, k \in 1..m : j # k => j < k \/ k < j
        OBVIOUS
      <3>2. \A j, k \in 1..m : j < k => f[j] # f[k]
        BY <1>0
      <3> QED
        BY <3>1, <3>2
    <2>2. f \in Bijection(1..m, is)
      BY <2>1 DEF Bijection, Injection, Surjection, IsInjective
    <2>3. Cardinality(1..m) = m /\ IsFiniteSet(1..m)
      BY FS_Interval
    <2>4. ExistsBijection(1..m, is)
      BY <2>2 DEF ExistsBijection
    <2> QED
      BY <2>3, <2>4, FS_Bijection
  <1> DEFINE D == {k \in 1..m : f[k] # Nth(is, k)}
  <1>2. ASSUME D # {} PROVE FALSE
    <2>1. D \in SUBSET Int /\ IsFiniteSet(D)
      BY FS_Interval, FS_Subset
    <2> HIDE DEF D
    <2>2. PICK n \in D : \A j \in D : n <= j
      BY <1>2, <2>1, FirstIsNth
    <2>3. n \in 1..m /\ f[n] # Nth(is, n) /\ \A k \in 1..m : k < n => f[k] = Nth(is, k)
      BY <2>2 DEF D
    <2>4. f[n] \in is /\ Nth(is, n) \in is
      BY <1>1, <2>3, NthFacts
    <2>5. PICK k \in 1..m : Nth(is, k) = f[n]
      BY <1>1, <2>4, NthFacts
    <2>6. PICK l \in 1..m : f[l] = Nth(is, n)
      BY <2>4
    <2>7. ~(k < n)
      <3>1. ASSUME k < n PROVE FALSE
        <4>1. f[k] = f[n] /\ f[k] < f[n]
          BY <2>3, <2>5, <3>1
        <4> QED
          BY <1>0, <2>3, <4>1
      <3> QED
        BY <3>1
    <2>8. ~(l < n)
      <3>1. ASSUME l < n PROVE FALSE
        <4>1. Nth(is, l) < Nth(is, n)
          BY <1>1, <2>3, <3>1, NthFacts
        <4> QED
          BY <1>0, <2>3, <2>4, <2>6, <3>1, <4>1
      <3> QED
        BY <3>1
    <2>9. n < k => Nth(is, n) < f[n]
      <3>1. n < k => Nth(is, n) < Nth(is, k)
        BY <1>1, <2>3, NthFacts
      <3> QED
        BY <2>5, <3>1
    <2>10. n < l => f[n] < Nth(is, n)
      BY <2>3, <2>6
    <2> QED
      BY <1>0, <2>3, <2>4, <2>5, <2>6, <2>7, <2>8, <2>9, <2>10
  <1> QED
    BY <1>1, <1>2

LEMMA ScanStarts ==
  ASSUME NEW p, NEW account, NEW phase, Compiled, Evaluate(p, account, phase)
  PROVE  /\ AnswersFirst'
         /\ outcome' # Idle
         /\ call'.pos = Prepared(p) /\ call'.account = account /\ call'.phase = phase
  <1>1. Len(rb.rules) \in Nat
    BY DEF Compiled
  <1> QED
    BY <1>1, KindsDiffer DEF Evaluate, AnswersFirst, Returned

LEMMA ScanGoesOn ==
  ASSUME AnswersFirst, Compiled, TryRules
  PROVE  /\ AnswersFirst'
         /\ outcome' # Idle
         /\ call'.pos = call.pos /\ call'.account = call.account /\ call'.phase = call.phase
  <1>1. Len(rb.rules) \in Nat /\ DOMAIN rb.rules = 1..Len(rb.rules)
    BY DEF Compiled
  <1>2. outcome = Scanning /\ rb' = rb
    BY DEF TryRules, RuleDeclines, RuleDecides, NoRuleMatched
  <1>3. CASE RuleDeclines
    <2>1. call' = [call EXCEPT !.rule = call.rule + 1] /\ outcome' = Scanning
          /\ RuleSays(call.rule).kind = "no" /\ call.rule \in DOMAIN rb.rules
      BY <1>2, <1>3 DEF RuleDeclines, Asked, RuleSays
    <2>2. call' = [pos |-> call.pos, account |-> call.account, phase |-> call.phase,
                   rule |-> call.rule + 1]
      BY <2>1 DEF AnswersFirst
    <2> QED
      BY <1>1, <1>2, <2>1, <2>2, KindsDiffer DEF AnswersFirst, RuleSays, Returned
  <1>4. CASE RuleDecides
    <2>1. call' = call /\ outcome' = RuleSays(call.rule)
          /\ RuleSays(call.rule).kind # "no" /\ call.rule \in DOMAIN rb.rules
      BY <1>2, <1>4 DEF RuleDecides, Asked, RuleSays
    <2>2. FirstOf(Decided(call.pos, call.account, call.phase)) = call.rule
      <3> DEFINE S == Decided(call.pos, call.account, call.phase)
      <3>1. S \in SUBSET Int /\ call.rule \in S
        BY <1>1, <2>1 DEF Decided, RuleSays
      <3>2. ASSUME NEW j \in S PROVE call.rule <= j
        BY <1>1, <1>2, <3>1, <3>2 DEF Decided, RuleSays, AnswersFirst
      <3> HIDE DEF S
      <3>3. FirstOf(S) = call.rule
        BY <3>1, <3>2, FirstIs
      <3> QED
        BY <3>3 DEF S
    <2>3. outcome' = FirstToDecide(call.pos, call.account, call.phase)
      BY <2>1, <2>2 DEF FirstToDecide, Decided, RuleSays
    <2>4. outcome' \notin {Idle, Scanning}
      BY <2>1, EvaluateOneAnswers, KindsDiffer DEF RuleSays
    <2> QED
      BY <1>2, <2>1, <2>3, <2>4 DEF AnswersFirst, RuleSays, FirstToDecide, Decided
  <1>5. CASE NoRuleMatched
    <2>1. call' = call /\ outcome' = Outcome("norule") /\ call.rule > Len(rb.rules)
      BY <1>5 DEF NoRuleMatched
    <2>2. Decided(call.pos, call.account, call.phase) = {}
      BY <1>1, <1>2, <2>1 DEF Decided, RuleSays, AnswersFirst
    <2>3. outcome' = FirstToDecide(call.pos, call.account, call.phase)
      BY <2>1, <2>2 DEF FirstToDecide
    <2> QED
      BY <1>2, <2>1, <2>3, KindsDiffer DEF AnswersFirst, RuleSays, FirstToDecide, Decided
  <1> QED
    BY <1>3, <1>4, <1>5 DEF TryRules
=============================================================================
