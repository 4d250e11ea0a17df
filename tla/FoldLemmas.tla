------------------------------ MODULE FoldLemmas ------------------------------
(***************************************************************************)
(* Folding a sequence from the left, for any operator: what a loop over a  *)
(* list has computed is the last of a chain of values, each made from the  *)
(* one before it and the next element.  A proof about a fold instantiates  *)
(* this module with the operator folded, and goes along that chain.        *)
(***************************************************************************)
EXTENDS Integers, SequencesExt, TLAPS, WellFoundedInduction

CONSTANT Op(_,_)

\* Lemma: a set that has 0 and the successor of each number in it has all of
\* them.
LEMMA NatSetInduction ==
  ASSUME NEW S, 0 \in S, \A n \in Nat : n \in S => n + 1 \in S
  PROVE  Nat \subseteq S
<1> DEFINE T == {n \in Nat : n \notin S}
           R == OpToRel(<, Nat)
<1>1. SUFFICES ASSUME T # {} PROVE FALSE
  OBVIOUS
<1>2. IsWellFoundedOn(R, Nat)
  BY NatLessThanWellFounded
<1>3. \E x \in T : \A y \in T : ~ (<<y, x>> \in R)
  <2> HIDE DEF R
  <2>1. T \subseteq Nat OBVIOUS
  <2> HIDE DEF T
  <2> QED BY <1>1, <1>2, <2>1, WFMin
<1>4. PICK x \in T : \A y \in T : ~ (y < x)
  BY <1>3 DEF OpToRel
<1>5. x # 0
  OBVIOUS
<1>6. x - 1 \in Nat /\ x - 1 \notin T
  BY <1>4, <1>5
<1> QED BY <1>6

\* Lemma: a non-empty set of numbers has a least one.
LEMMA LeastNumber ==
  ASSUME NEW S \in SUBSET Nat, S # {}
  PROVE  \E x \in S : \A y \in S : x <= y
<1> DEFINE R == OpToRel(<, Nat)
<1>1. IsWellFoundedOn(R, Nat)
  BY NatLessThanWellFounded
<1>2. \E x \in S : \A y \in S : ~ (<<y, x>> \in R)
  <2> HIDE DEF R
  <2> QED BY <1>1, WFMin
<1>3. PICK x \in S : \A y \in S : ~ (y < x)
  BY <1>2 DEF OpToRel
<1> QED BY <1>3

\* Lemma: a non-empty set of positions has a greatest one.
LEMMA MaxIn ==
  ASSUME NEW k \in Nat, NEW s \in SUBSET (1 .. k), s # {}
  PROVE  Max(s) \in s /\ \A y \in s : Max(s) >= y
<1> DEFINE P(n) == \A t \in SUBSET (1 .. n) : t # {} => \E x \in t : \A y \in t : x >= y
           N == {n \in Nat : P(n)}
<1>1. 0 \in N
  <2>1. 1 .. 0 = {}
    OBVIOUS
  <2>2. P(0)
    BY <2>1
  <2> QED BY <2>2
<1>2. ASSUME NEW n \in Nat, n \in N PROVE n + 1 \in N
  <2>1. ASSUME NEW t \in SUBSET (1 .. n + 1), t # {} PROVE \E x \in t : \A y \in t : x >= y
    <3>1. CASE n + 1 \in t
      BY <3>1
    <3>2. CASE n + 1 \notin t
      <4>1. t \in SUBSET (1 .. n)
        BY <3>2
      <4> QED BY <1>2, <2>1, <4>1
    <3> QED BY <3>1, <3>2
  <2> QED BY <2>1
<1>3. Nat \subseteq N
  <2> HIDE DEF N
  <2> QED BY <1>1, <1>2, NatSetInduction
<1>4. \E x \in s : \A y \in s : x >= y
  BY <1>3
<1> QED BY <1>4 DEF Max

-----------------------------------------------------------------------------
\* The recursion FoldLeft is defined by, over the positions up to k.
Step(f, base, seq, k) ==
    [s \in SUBSET (1 .. k) |-> IF s = {} THEN base ELSE Op(f[s \ {Max(s)}], seq[Max(s)])]

\* Lemma: that recursion has a solution, so CHOOSE finds one.
LEMMA StepExists ==
  ASSUME NEW base, NEW seq, NEW m \in Nat
  PROVE  \E f : f = Step(f, base, seq, m)
<1> DEFINE N == {k \in Nat : \E f : f = Step(f, base, seq, k)}
<1>1. 0 \in N
  <2>1. [s \in SUBSET (1 .. 0) |-> base] = Step([s \in SUBSET (1 .. 0) |-> base], base, seq, 0)
    BY DEF Step
  <2> QED BY <2>1
<1>2. ASSUME NEW k \in Nat, k \in N PROVE k + 1 \in N
  <2>1. PICK f : f = Step(f, base, seq, k)
    BY <1>2
  <2> DEFINE g == [s \in SUBSET (1 .. k + 1) |->
                     IF k + 1 \in s THEN Op(f[s \ {k + 1}], seq[k + 1]) ELSE f[s]]
  <2>2. ASSUME NEW s \in SUBSET (1 .. k + 1)
        PROVE  g[s] = IF s = {} THEN base ELSE Op(g[s \ {Max(s)}], seq[Max(s)])
    <3>1. CASE k + 1 \in s
      <4>1. Max(s) = k + 1
        <5>1. k + 1 \in Nat /\ s # {}
          BY <3>1
        <5>2. Max(s) \in s /\ \A y \in s : Max(s) >= y
          BY <5>1, MaxIn
        <5>3. Max(s) \in 1 .. k + 1 /\ Max(s) >= k + 1
          BY <3>1, <5>2
        <5> QED BY <5>3
      <4>2. s \ {k + 1} \in SUBSET (1 .. k + 1) /\ k + 1 \notin s \ {k + 1}
        OBVIOUS
      <4>3. g[s \ {k + 1}] = f[s \ {k + 1}]
        BY <4>2
      <4> QED BY <3>1, <4>1, <4>3
    <3>2. CASE k + 1 \notin s /\ s # {}
      <4>1. s \in SUBSET (1 .. k)
        BY <3>2
      <4>2. Max(s) \in s
        BY <4>1, <3>2, MaxIn
      <4>3. g[s] = f[s] /\ g[s \ {Max(s)}] = f[s \ {Max(s)}]
        BY <3>2, <4>2
      <4> HIDE DEF g
      <4>4. f[s] = Op(f[s \ {Max(s)}], seq[Max(s)])
        BY <2>1, <4>1, <3>2 DEF Step
      <4> QED BY <4>3, <4>4, <3>2
    <3>3. CASE s = {}
      <4>1. f[s] = base
        BY <2>1, <3>3 DEF Step
      <4> QED BY <4>1, <3>3
    <3> QED BY <3>1, <3>2, <3>3
  <2>3. g = Step(g, base, seq, k + 1)
    BY <2>2 DEF Step
  <2> QED BY <2>3
<1>3. Nat \subseteq N
  <2> HIDE DEF N
  <2> QED BY <1>1, <1>2, NatSetInduction
<1> QED BY <1>3

-----------------------------------------------------------------------------
\* The fold of the community modules, with the operator of this module.
Fold(base, seq) == FoldLeft(Op, base, seq)

\* acc is the chain of values a fold goes through.
Chain(acc, base, seq) ==
  /\ acc[0] = base
  /\ \A k \in DOMAIN seq : acc[k] = Op(acc[k - 1], seq[k])

\* Lemma: a fold is the last value of a chain, the loop the code writes.
LEMMA FoldIsChain ==
  ASSUME NEW base, NEW seq, NEW n \in Nat, DOMAIN seq = 1 .. n
  PROVE  \E acc : Chain(acc, base, seq) /\ Fold(base, seq) = acc[n]
<1> DEFINE P(g) == g = Step(g, base, seq, n)
           c == CHOOSE g : P(g)
           acc == [k \in 0 .. n |-> c[1 .. k]]
<1>1. P(c)
  <2> HIDE DEF P
  <2>1. \E f : P(f)
     BY StepExists DEF P
  <2> QED BY <2>1
<1>2. Fold(base, seq) = c[1 .. n]
  BY DEF Fold, FoldLeft, MapThenFoldSet, Step
<1>3. ASSUME NEW k \in 1 .. n PROVE acc[k] = Op(acc[k - 1], seq[k])
  <2>1. 1 .. k \in SUBSET (1 .. n) /\ 1 .. k # {} /\ k \in 1 .. k
    <3>1. k \in Nat /\ k >= 1 /\ k <= n
      OBVIOUS
    <3>2. \A x : x \in 1 .. k => x \in 1 .. n
      BY <3>1
    <3>3. k \in 1 .. k
      BY <3>1
    <3> QED BY <3>2, <3>3
  <2>2. Max(1 .. k) = k
    <3>1. Max(1 .. k) \in 1 .. k /\ \A y \in 1 .. k : Max(1 .. k) >= y
      BY <2>1, MaxIn
    <3> QED BY <3>1
  <2>3. (1 .. k) \ {k} = 1 .. k - 1
    OBVIOUS
  <2>4. c[1 .. k] = Op(c[1 .. k - 1], seq[k])
    <3> HIDE DEF c
    <3> QED BY <1>1, <2>1, <2>2, <2>3 DEF Step
  <2> QED BY <2>4
<1>4. acc[0] = base
  <2>1. c[{}] = base
    <3> HIDE DEF c
    <3> QED BY <1>1 DEF Step
  <2> QED BY <2>1
<1>5. acc[n] = c[1 .. n]
  OBVIOUS
<1> QED BY <1>2, <1>3, <1>4, <1>5 DEF Chain

\* Lemma: folding one element more is one more step.
LEMMA FoldOneMore ==
  ASSUME NEW base, NEW n \in Nat, NEW short, DOMAIN short = 1 .. n,
         NEW long, DOMAIN long = 1 .. n + 1, \A i \in 1 .. n : long[i] = short[i]
  PROVE  Fold(base, long) = Op(Fold(base, short), long[n + 1])
<1>1. PICK a : Chain(a, base, short) /\ Fold(base, short) = a[n]
  BY FoldIsChain
<1>2. PICK b : Chain(b, base, long) /\ Fold(base, long) = b[n + 1]
  BY FoldIsChain
<1> DEFINE S == {k \in Nat : k <= n => a[k] = b[k]}
<1>3. 0 \in S
  BY <1>1, <1>2 DEF Chain
<1>4. ASSUME NEW k \in Nat, k \in S PROVE k + 1 \in S
  <2> SUFFICES ASSUME k + 1 <= n PROVE a[k + 1] = b[k + 1]
    OBVIOUS
  <2>1. /\ k + 1 \in 1 .. n /\ k + 1 \in 1 .. n + 1
        /\ (k + 1) - 1 = k /\ k <= n
    OBVIOUS
  <2>2. a[k + 1] = Op(a[k], short[k + 1]) /\ b[k + 1] = Op(b[k], long[k + 1])
    BY <1>1, <1>2, <2>1 DEF Chain
  <2> QED BY <1>4, <2>1, <2>2
<1>5. Nat \subseteq S
  <2> HIDE DEF S
  <2> QED BY <1>3, <1>4, NatSetInduction
<1>6. b[n + 1] = Op(b[n], long[n + 1])
  <2>1. n + 1 \in 1 .. n + 1 /\ (n + 1) - 1 = n
    OBVIOUS
  <2> QED BY <1>2, <2>1 DEF Chain
<1> QED BY <1>1, <1>2, <1>5, <1>6

=============================================================================
