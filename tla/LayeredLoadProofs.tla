-------------------------- MODULE LayeredLoadProofs --------------------------
(* What holds of every load: for any environment, any mounts and any number *)
(* of swaps between the steps of a load.                                    *)
EXTENDS JavaLoad, TLAPS, FiniteSetTheorems

\* The values a load goes on to merge are the ones it checked.
Checked ==
    pc = "merging" \/ Loaded =>
        (process.policy = "reject" => ~Shadowed(secrets, files))

\* Nothing of a load under way that saw no swap was refused so far, and a report
\* that failed did so for mounts a load refuses.
Accepted ==
    /\ steady /\ (pc \in {"collected", "merging"} \/ Loaded) => ~SecretsRefused(mount)
    /\ steady /\ (pc = "merging" \/ Loaded) => ~FilesRefused(mount)
    /\ report.kind = "error" => SecretsRefused(mount) \/ FilesRefused(mount)

\* Lemma: the initial states satisfy both.
LEMMA InitLoad == Init => Checked /\ Accepted
BY DEF Init, Checked, Accepted, Loaded, NoReport, Report

\* Lemma: what is refused depends on the process and the mounts alone.
LEMMA StableRefusals ==
    ASSUME UNCHANGED <<process, mount>>
    PROVE  /\ SecretsRefused(mount)' = SecretsRefused(mount)
           /\ FilesRefused(mount)' = FilesRefused(mount)
BY DEF SecretsRefused, FilesRefused, IsReserved, Usable, ToSet, Nothing

\* Lemma: the shadow check depends on the environment and the values it is given.
LEMMA StableShadowing ==
    ASSUME UNCHANGED <<process, secrets, files>>
    PROVE  Shadowed(secrets, files)' = Shadowed(secrets, files)
BY DEF Shadowed, PlainKeys, PlainVars, IsReserved, ToSet

\* Lemma: every step keeps both.
LEMMA StepLoad == Checked /\ Accepted /\ [Next]_vars => Checked' /\ Accepted'
<1> SUFFICES ASSUME Checked, Accepted, [Next]_vars PROVE Checked' /\ Accepted'
  OBVIOUS
<1>1. CASE Begin
  BY <1>1, StableRefusals DEF Begin, Checked, Accepted, Loaded
<1>2. CASE RefuseSecrets \/ RefuseFiles \/ RefuseShadowed \/ RefuseFragment
  BY <1>2, StableRefusals
  DEF RefuseSecrets, RefuseFiles, RefuseShadowed, RefuseFragment, Fail,
      Checked, Accepted, Loaded
<1>3. CASE CollectSecrets
  BY <1>3, StableRefusals DEF CollectSecrets, Checked, Accepted, Loaded
<1>4. CASE CollectFiles
  <2>1. process.policy = "reject" => ~Shadowed(secrets, files')
    BY <1>4 DEF CollectFiles
  <2>2. Shadowed(secrets, files)' = Shadowed(secrets, files')
    BY <1>4 DEF CollectFiles, Shadowed, PlainKeys, PlainVars, IsReserved, ToSet
  <2> QED
    BY <1>4, <2>1, <2>2, StableRefusals DEF CollectFiles, Checked, Accepted, Loaded
<1>5. CASE MergeFragment
  BY <1>5, StableRefusals, StableShadowing DEF MergeFragment, Checked, Accepted, Loaded
<1>6. CASE Finish
  BY <1>6, StableRefusals, StableShadowing DEF Finish, Checked, Accepted, Loaded
<1>7. CASE Explain
  BY <1>7, StableRefusals, StableShadowing
  DEF Explain, Report, Checked, Accepted, Loaded
<1>8. CASE \E m \in Mounts : Swap(m)
  BY <1>8, StableShadowing DEF Swap, NoReport, Report, Checked, Accepted, Loaded
<1>9. CASE UNCHANGED vars
  BY <1>9, StableRefusals, StableShadowing DEF vars, Checked, Accepted, Loaded
<1> QED
  BY <1>1, <1>2, <1>3, <1>4, <1>5, <1>6, <1>7, <1>8, <1>9 DEF Next

\* Lemma: what was checked has one supplier per key among the three mechanisms.
LEMMA CheckedMeansOneSupplier == Checked => OneSupplier
BY DEF Checked, OneSupplier, Shadowed, PlainKeys, PlainVars, EnvKeys, IsValue

\* For any environment, mounts and number of swaps while a load runs: under
\* ShadowPolicy::Reject a load succeeds only when no key comes from two of the
\* environment, the secrets directory and the indirections (layers.rs).
THEOREM NeverSuppliedTwice == Spec => []OneSupplier
<1>1. Init => Checked /\ Accepted
  BY InitLoad
<1>2. (Checked /\ Accepted) /\ [Next]_vars => (Checked /\ Accepted)'
  BY StepLoad
<1>3. Checked /\ Accepted => OneSupplier
  BY CheckedMeansOneSupplier
<1> QED
  BY <1>1, <1>2, <1>3, PTL DEF Spec

\* The report of Terrace::explain is as permissive as a load, whatever is mounted.
THEOREM ExplainNeverFailsAlone == Spec => []ReportIsPermissive
<1>1. Init => Checked /\ Accepted
  BY InitLoad
<1>2. (Checked /\ Accepted) /\ [Next]_vars => (Checked /\ Accepted)'
  BY StepLoad
<1>3. Checked /\ Accepted => ReportIsPermissive
  BY DEF Accepted, ReportIsPermissive, SameMounts
<1> QED
  BY <1>1, <1>2, <1>3, PTL DEF Spec

-----------------------------------------------------------------------------
(* Paths.                                                                  *)

KeyPaths == Seq(STRING) \ {<<>>}

\* Lemma: the parents of a path are its proper prefixes, and those of a parent
\* are among them.
LEMMA ParentsNest ==
    ASSUME NEW q \in Seq(STRING)
    PROVE  /\ Parents(q) \subseteq Seq(STRING)
           /\ \A p \in Seq(STRING) : p \in Parents(q) <=> IsStrictPrefix(p, q)
           /\ \A p \in Parents(q) : Parents(p) \subseteq Parents(q)
<1>1. \A r \in Seq(STRING) :
        /\ Parents(r) \subseteq Seq(STRING)
        /\ \A p \in Seq(STRING) : p \in Parents(r) <=> IsStrictPrefix(p, r)
  BY DEF IsPrefix, IsStrictPrefix, Parents
<1>2. \A a, b \in Seq(STRING) : IsStrictPrefix(a, b) /\ IsStrictPrefix(b, q) => IsStrictPrefix(a, q)
  BY DEF IsPrefix, IsStrictPrefix
<1> QED BY <1>1, <1>2

\* Lemma: the root is on the way to every key, and nothing is on the way to it.
LEMMA RootIsAbove ==
    /\ <<>> \in Seq(STRING) /\ Parents(<<>>) = {}
    /\ \A q \in KeyPaths : IsStrictPrefix(<<>>, q)
BY DEF KeyPaths, IsStrictPrefix, IsPrefix, Parents

-----------------------------------------------------------------------------
(* Layers.                                                                 *)

\* A table all of whose inner nodes are tables: what a layer holds.
IsLayer(t) ==
    /\ DOMAIN t \subseteq Seq(STRING) /\ <<>> \in DOMAIN t /\ t[<<>>] = Table
    /\ \A q \in DOMAIN t : \A p \in Parents(q) : p \in DOMAIN t /\ t[p] = Table

Over(key, keys) == \E p \in keys : IsStrictPrefix(p, key)
Within(key, keys) == \E p \in keys : IsStrictPrefix(key, p)

\* What a layer says, when it was made of these keys and `top` is what the last
\* to say each of them said: nothing else, each key unless another one ends on
\* the way to it, and each that is clear of the others as it was last said.
Says(t, keys, top) ==
    /\ IsLayer(t) /\ keys \subseteq KeyPaths
    /\ \A q \in DOMAIN t : t[q] # Table => q \in keys /\ (t[q] = top[q] \/ Over(q, keys))
    /\ \A q \in keys : ~Over(q, keys) => q \in DOMAIN t
    /\ \A q \in keys : ~Over(q, keys) /\ ~Within(q, keys) => t[q] = top[q]
    /\ \A q \in DOMAIN t : q = <<>> \/ q \in keys \/ Within(q, keys)

\* Lemma: what a merge holds.
LEMMA MergeHolds ==
    ASSUME NEW t, NEW over, IsLayer(t), IsLayer(over)
    PROVE  /\ \A q \in DOMAIN over : q \in DOMAIN Merge(t, over) /\ Merge(t, over)[q] = over[q]
           /\ \A q \in DOMAIN Merge(t, over) \ DOMAIN over :
                 q \in DOMAIN t /\ Merge(t, over)[q] = t[q]
           /\ \A q \in DOMAIN t \ DOMAIN over :
                 q \in DOMAIN Merge(t, over)
                    <=> \A p \in Parents(q) \cap DOMAIN over : over[p] = Table
<1> DEFINE kept == {q \in DOMAIN t : \A p \in (Parents(q) \cup {q}) \cap DOMAIN over : over[p] = Table}
<1>1. Merge(t, over) = [q \in DOMAIN over \cup kept |-> IF q \in DOMAIN over THEN over[q] ELSE t[q]]
  BY DEF Merge, Overlay, Restrict
<1> QED BY <1>1

\* Lemma: a layer over a layer is a layer.
LEMMA MergeIsLayer ==
    ASSUME NEW t, NEW over, IsLayer(t), IsLayer(over)
    PROVE  IsLayer(Merge(t, over))
<1> DEFINE m == Merge(t, over)
<1> HIDE DEF m
<1>1. /\ \A q \in DOMAIN over : q \in DOMAIN m /\ m[q] = over[q]
      /\ \A q \in DOMAIN m \ DOMAIN over : q \in DOMAIN t /\ m[q] = t[q]
      /\ \A q \in DOMAIN t \ DOMAIN over :
            q \in DOMAIN m <=> \A p \in Parents(q) \cap DOMAIN over : over[p] = Table
  BY MergeHolds DEF m
<1>2. DOMAIN m \subseteq Seq(STRING) /\ <<>> \in DOMAIN m /\ m[<<>>] = Table
  BY <1>1 DEF IsLayer
<1>3. ASSUME NEW q \in DOMAIN m, NEW p \in Parents(q) PROVE p \in DOMAIN m /\ m[p] = Table
  <2>1. CASE q \in DOMAIN over
    <3>1. p \in DOMAIN over /\ over[p] = Table
      BY <2>1 DEF IsLayer
    <3> QED BY <1>1, <3>1
  <2>2. CASE q \notin DOMAIN over
    <3>1. q \in DOMAIN t /\ p \in DOMAIN t /\ t[p] = Table
      BY <1>1, <2>2 DEF IsLayer
    <3>2. CASE p \in DOMAIN over
      BY <1>1, <2>2, <3>1, <3>2
    <3>3. CASE p \notin DOMAIN over
      <4>1. Parents(p) \subseteq Parents(q)
        BY <1>2, ParentsNest
      <4>2. p \in DOMAIN m
        BY <1>1, <2>2, <3>1, <3>3, <4>1
      <4> QED BY <1>1, <3>1, <3>3, <4>2
    <3> QED BY <3>2, <3>3
  <2> QED BY <2>1, <2>2
<1> QED BY <1>2, <1>3 DEF IsLayer, m

\* Lemma: a layer over another says what both say, its own word last.
LEMMA MergeSays ==
    ASSUME NEW t, NEW low, NEW below, Says(t, low, below),
           NEW over, NEW high, NEW above, Says(over, high, above),
           NEW top, \A q \in low \cup high : top[q] = IF q \in high THEN above[q] ELSE below[q]
    PROVE  Says(Merge(t, over), low \cup high, top)
<1> DEFINE m == Merge(t, over)
           keys == low \cup high
<1>1. IsLayer(t) /\ IsLayer(over) /\ low \subseteq KeyPaths /\ high \subseteq KeyPaths
  BY DEF Says
<1>2. IsLayer(m)
  BY <1>1, MergeIsLayer
<1> HIDE DEF m
<1>3. /\ \A q \in DOMAIN over : q \in DOMAIN m /\ m[q] = over[q]
      /\ \A q \in DOMAIN m \ DOMAIN over : q \in DOMAIN t /\ m[q] = t[q]
      /\ \A q \in DOMAIN t \ DOMAIN over :
            q \in DOMAIN m <=> \A p \in Parents(q) \cap DOMAIN over : over[p] = Table
  BY <1>1, MergeHolds DEF m
<1>4. ASSUME NEW q \in DOMAIN m, m[q] # Table
      PROVE  q \in keys /\ (m[q] = top[q] \/ Over(q, keys))
  <2>1. CASE q \in DOMAIN over
    BY <1>3, <1>4, <2>1 DEF Says, Over
  <2>2. CASE q \notin DOMAIN over
    <3>1. q \in DOMAIN t /\ m[q] = t[q]
      BY <1>3, <2>2
    <3>2. q \in low /\ (t[q] = below[q] \/ Over(q, low))
      BY <1>4, <3>1 DEF Says
    <3>3. q \in high => Over(q, high)
      BY <2>2 DEF Says
    <3> QED BY <3>1, <3>2, <3>3 DEF Over
  <2> QED BY <2>1, <2>2
<1>5. ASSUME NEW q \in keys, ~Over(q, keys) PROVE q \in DOMAIN m
  <2>1. CASE q \in DOMAIN over
    BY <1>3, <2>1
  <2>2. CASE q \notin DOMAIN over
    <3>1. q \in low /\ ~Over(q, low) /\ ~Over(q, high)
      BY <1>5, <2>2 DEF Says, Over
    <3>2. q \in DOMAIN t
      BY <3>1 DEF Says
    <3>3. \A p \in Parents(q) \cap DOMAIN over : over[p] = Table
      <4>1. \A p \in Parents(q) : p \in Seq(STRING) /\ IsStrictPrefix(p, q)
        BY <1>1, <3>1, ParentsNest DEF KeyPaths
      <4>2. \A p \in DOMAIN over : over[p] # Table => p \in high
        BY DEF Says
      <4> QED BY <3>1, <4>1, <4>2 DEF Over
    <3> QED BY <1>3, <2>2, <3>2, <3>3
  <2> QED BY <2>1, <2>2
<1>6. ASSUME NEW q \in keys, ~Over(q, keys), ~Within(q, keys) PROVE m[q] = top[q]
  <2>1. q \in DOMAIN m
    BY <1>5, <1>6
  <2>2. /\ ~Over(q, low) /\ ~Over(q, high)
        /\ ~Within(q, low) /\ ~Within(q, high)
    BY <1>6 DEF Over, Within
  <2>3. CASE q \in high
    BY <1>3, <2>2, <2>3 DEF Says
  <2>4. CASE q \notin high
    <3>1. q # <<>>
      BY <1>1 DEF KeyPaths
    <3>2. q \notin DOMAIN over
      BY <2>2, <2>4, <3>1 DEF Says
    <3> QED BY <1>3, <2>1, <2>2, <2>4, <3>2 DEF Says
  <2> QED BY <2>3, <2>4
<1>7. ASSUME NEW q \in DOMAIN m PROVE q = <<>> \/ q \in keys \/ Within(q, keys)
  BY <1>3 DEF Says, Within
<1> QED BY <1>1, <1>2, <1>4, <1>5, <1>6, <1>7 DEF Says, m

\* Lemma: the empty table says nothing.
LEMMA EmptySays == \A top : Says(EmptyTable, {}, top)
BY RootIsAbove DEF EmptyTable, Says, IsLayer

\* Lemma: a value on its own says its key.
LEMMA NestSays ==
    ASSUME NEW key \in KeyPaths, NEW value, value # Table, NEW top, top[key] = value
    PROVE  Says(Nest(key, value), {key}, top)
<1> DEFINE n == Nest(key, value)
<1>1. n = [q \in {key} \cup Parents(key) |-> IF q = key THEN value ELSE Table]
  BY DEF Nest, Overlay, Leading
<1>2. key \in Seq(STRING) /\ key # <<>>
  BY DEF KeyPaths
<1>3. /\ Parents(key) \subseteq Seq(STRING)
      /\ \A p \in Seq(STRING) : p \in Parents(key) <=> IsStrictPrefix(p, key)
      /\ \A p \in Parents(key) : Parents(p) \subseteq Parents(key)
  BY <1>2, ParentsNest
<1>4. <<>> \in Parents(key)
  BY <1>3, RootIsAbove
<1>5. ~IsStrictPrefix(key, key)
  BY DEF IsStrictPrefix
<1> HIDE DEF n
<1>6. IsLayer(n)
  BY <1>1, <1>2, <1>3, <1>4, <1>5 DEF IsLayer
<1> QED BY <1>1, <1>2, <1>3, <1>5, <1>6 DEF Says, Over, Within, n

\* Lemma: only what is said of its keys matters.
LEMMA SaysSame ==
    ASSUME NEW t, NEW keys, NEW a, Says(t, keys, a), NEW b, \A q \in keys : a[q] = b[q]
    PROVE  Says(t, keys, b)
BY DEF Says

-----------------------------------------------------------------------------
(* Layers made one key, or one fragment, after the other.                  *)

\* For what it says of numbers.
N == INSTANCE FoldLemmas WITH Op <- Merge

\* What the first k to say anything, over what was said below, said of a key.
SaidBy(low, keys, k) == low \cup UNION {keys[i] : i \in 1 .. k}

LastOf(with, q, below, said) ==
    IF with = {} THEN below[q] ELSE said[CHOOSE i \in with : \A j \in with : j <= i][q]

LastSaid(q, below, keys, said, k) == LastOf({i \in 1 .. k : q \in keys[i]}, q, below, said)

\* Lemma: a layer made step by step says what was last said in a step.
LEMMA ChainSays ==
    ASSUME NEW n \in Nat, NEW acc, NEW keys, NEW said,
           NEW low, NEW below, Says(acc[0], low, below),
           \A k \in 1 .. n :
              \E over : Says(over, keys[k], said[k]) /\ acc[k] = Merge(acc[k - 1], over)
    PROVE  Says(acc[n], SaidBy(low, keys, n),
                [q \in SaidBy(low, keys, n) |-> LastSaid(q, below, keys, said, n)])
<1> DEFINE K(k) == SaidBy(low, keys, k)
           top(k) == [q \in K(k) |-> LastSaid(q, below, keys, said, k)]
           S == {k \in Nat : k <= n => Says(acc[k], K(k), top(k))}
<1>1. 0 \in S
  <2>1. K(0) = low
    BY DEF SaidBy
  <2>2. \A q \in low : top(0)[q] = below[q]
    BY <2>1 DEF LastSaid, LastOf
  <2> HIDE DEF top
  <2> QED BY <2>1, <2>2, SaysSame
<1>2. ASSUME NEW k \in Nat, k \in S PROVE k + 1 \in S
  <2> SUFFICES ASSUME k + 1 <= n PROVE Says(acc[k + 1], K(k + 1), top(k + 1))
    OBVIOUS
  <2>1. Says(acc[k], K(k), top(k)) /\ k + 1 \in 1 .. n
    BY <1>2
  <2>2. K(k + 1) = K(k) \cup keys[k + 1]
    <3>1. 1 .. k + 1 = (1 .. k) \cup {k + 1}
      OBVIOUS
    <3> QED BY <3>1 DEF SaidBy
  <2>3. ASSUME NEW q \in K(k + 1)
        PROVE  top(k + 1)[q] = IF q \in keys[k + 1] THEN said[k + 1][q] ELSE top(k)[q]
    <3> DEFINE with == {i \in 1 .. k + 1 : q \in keys[i]}
    <3>1. top(k + 1)[q] = LastOf(with, q, below, said)
      BY DEF LastSaid
    <3>2. CASE q \in keys[k + 1]
      <4>1. k + 1 \in with /\ \A j \in with : j <= k + 1 /\ j \in Nat
        BY <3>2
      <4> DEFINE c == CHOOSE i \in with : \A j \in with : j <= i
      <4> HIDE DEF with
      <4>2. c \in with /\ \A j \in with : j <= c
        BY <4>1
      <4> HIDE DEF c
      <4>3. c = k + 1
        BY <4>1, <4>2
      <4>4. with # {}
        BY <4>1
      <4>5. top(k + 1)[q] = said[c][q]
        BY <3>1, <4>4 DEF c, LastOf
      <4> HIDE DEF top
      <4> QED BY <3>2, <4>3, <4>5
    <3>3. CASE q \notin keys[k + 1]
      <4>1. with = {i \in 1 .. k : q \in keys[i]}
        BY <3>3
      <4>2. q \in K(k)
        BY <2>2, <3>3
      <4>3. top(k)[q] = LastSaid(q, below, keys, said, k)
        BY <4>2
      <4> HIDE DEF top, with
      <4> QED BY <3>1, <3>3, <4>1, <4>3 DEF LastSaid
    <3> QED BY <3>2, <3>3
  <2> HIDE DEF top, K
  <2>4. PICK over : Says(over, keys[k + 1], said[k + 1]) /\ acc[k + 1] = Merge(acc[k], over)
    BY <2>1
  <2> QED BY <2>1, <2>2, <2>3, <2>4, MergeSays
<1>3. Nat \subseteq S
  <2> HIDE DEF S
  <2> QED BY <1>1, <1>2, N!NatSetInduction
<1> HIDE DEF K, top
<1>4. Says(acc[n], K(n), top(n))
  BY <1>3
<1> QED BY <1>4 DEF K, top

\* The n members of a set one after the other, the lighter before the heavier.
Ordered(order, set, weight, n) ==
    /\ order \in [1 .. n -> set] /\ IsInjective(order)
    /\ \A i, j \in 1 .. n : weight[order[i]] < weight[order[j]] => i < j

\* Lemma: there is one: the lightest member, and then the others in such an order.
LEMMA OrderExists ==
    ASSUME NEW whole, IsFiniteSet(whole), NEW weight, \A x \in whole : weight[x] \in Nat
    PROVE  \E order : Ordered(order, whole, weight, Cardinality(whole))
<1> DEFINE P(n) == \A set \in SUBSET whole :
                      Cardinality(set) = n => \E order : Ordered(order, set, weight, n)
           S == {n \in Nat : P(n)}
<1>1. 0 \in S
  <2>1. ASSUME NEW set \in SUBSET whole PROVE Ordered([i \in 1 .. 0 |-> <<>>], set, weight, 0)
    BY DEF Ordered, IsInjective
  <2> QED BY <2>1
<1>2. ASSUME NEW n \in Nat, n \in S PROVE n + 1 \in S
  <2>1. ASSUME NEW set \in SUBSET whole, Cardinality(set) = n + 1
        PROVE  \E order : Ordered(order, set, weight, n + 1)
    <3> DEFINE weights == {weight[x] : x \in set}
    <3>1. set # {} /\ IsFiniteSet(set)
      BY <2>1, FS_EmptySet, FS_Subset
    <3>2. weights # {} /\ weights \in SUBSET Nat
      BY <3>1
    <3>3. \E m \in weights : \A y \in weights : m <= y
      <4> HIDE DEF weights
      <4> QED BY <3>2, N!LeastNumber
    <3>4. PICK x \in set : \A y \in set : weight[x] <= weight[y]
      BY <3>3
    <3> DEFINE rest == set \ {x}
    <3>5. Cardinality(rest) = n /\ rest \in SUBSET whole
      <4>1. Cardinality(rest) = Cardinality(set) - 1
        BY <3>1, <3>4, FS_RemoveElement
      <4>2. rest \in SUBSET whole
        OBVIOUS
      <4> HIDE DEF rest
      <4> QED BY <2>1, <4>1, <4>2
    <3>6. PICK o : Ordered(o, rest, weight, n)
      <4> HIDE DEF rest
      <4> QED BY <1>2, <3>5
    <3> DEFINE order == [i \in 1 .. n + 1 |-> IF i = 1 THEN x ELSE o[i - 1]]
    <3>7. \A i \in 2 .. n + 1 : i - 1 \in 1 .. n /\ order[i] = o[i - 1] /\ o[i - 1] \in rest
      BY <3>6 DEF Ordered
    <3>8. order \in [1 .. n + 1 -> set] /\ order[1] = x
      <4>1. \A i \in 1 .. n + 1 : i = 1 \/ i \in 2 .. n + 1
        OBVIOUS
      <4>2. 1 \in 1 .. n + 1
        OBVIOUS
      <4> QED BY <3>4, <3>7, <4>1, <4>2
    <3>9. ASSUME NEW i \in 1 .. n + 1, NEW j \in 1 .. n + 1, order[i] = order[j] PROVE i = j
      <4>1. CASE i = 1 \/ j = 1
        <5> HIDE DEF order
        <5>1. \A k \in 2 .. n + 1 : order[k] # x
          BY <3>7
        <5>2. i = 1 \/ i \in 2 .. n + 1
          OBVIOUS
        <5>3. j = 1 \/ j \in 2 .. n + 1
          OBVIOUS
        <5> QED BY <3>8, <3>9, <4>1, <5>1, <5>2, <5>3
      <4>2. CASE i # 1 /\ j # 1
        <5>1. i \in 2 .. n + 1 /\ j \in 2 .. n + 1
          BY <4>2
        <5> HIDE DEF order
        <5>2. o[i - 1] = o[j - 1] /\ i - 1 \in 1 .. n /\ j - 1 \in 1 .. n
          BY <3>7, <3>9, <5>1
        <5>3. i - 1 = j - 1
          BY <3>6, <5>2 DEF Ordered, IsInjective
        <5> QED BY <5>3
      <4> QED BY <4>1, <4>2
    <3>10. ASSUME NEW i \in 1 .. n + 1, NEW j \in 1 .. n + 1, weight[order[i]] < weight[order[j]]
           PROVE  i < j
      <4>1. weight[x] \in Nat /\ \A y \in set : weight[y] \in Nat
        OBVIOUS
      <4>2. CASE i = 1
        <5>1. i # j
          <6> HIDE DEF order
          <6>1. weight[order[i]] \in Nat
            BY <3>8, <4>1
          <6> QED BY <3>10, <6>1
        <5> QED BY <4>2, <5>1
      <4>3. CASE i # 1 /\ j = 1
        <5>1. order[i] \in set /\ order[j] = x
          BY <3>8, <4>3
        <5> HIDE DEF order
        <5>2. weight[x] <= weight[order[i]]
          BY <3>4, <5>1
        <5> QED BY <3>10, <4>1, <5>1, <5>2
      <4>4. CASE i # 1 /\ j # 1
        <5>1. i \in 2 .. n + 1 /\ j \in 2 .. n + 1
          BY <4>4
        <5> HIDE DEF order
        <5>2. weight[o[i - 1]] < weight[o[j - 1]] /\ i - 1 \in 1 .. n /\ j - 1 \in 1 .. n
          BY <3>7, <3>10, <5>1
        <5>3. i - 1 < j - 1
          BY <3>6, <5>2 DEF Ordered
        <5> QED BY <5>3
      <4> QED BY <4>2, <4>3, <4>4
    <3> HIDE DEF order
    <3>11. DOMAIN order = 1 .. n + 1
      BY <3>8
    <3>12. Ordered(order, set, weight, n + 1)
      BY <3>8, <3>9, <3>10, <3>11 DEF Ordered, IsInjective
    <3> QED BY <3>12
  <2> QED BY <2>1
<1>3. Nat \subseteq S
  <2> HIDE DEF S
  <2> QED BY <1>1, <1>2, N!NatSetInduction
<1> HIDE DEF P
<1>4. P(Cardinality(whole))
  BY <1>3, FS_CardinalityType
<1> QED BY <1>4 DEF P

\* Lemma: a listing of a set is one, and lists every member.
LEMMA ListingLists ==
    ASSUME NEW set, IsFiniteSet(set), NEW weight, \A x \in set : weight[x] \in Nat
    PROVE  /\ Ordered(Listing(set, weight), set, weight, Cardinality(set))
           /\ \A x \in set : \E i \in 1 .. Cardinality(set) : Listing(set, weight)[i] = x
<1> DEFINE n == Cardinality(set)
           o == Listing(set, weight)
           P(order) == /\ IsInjective(order)
                       /\ \A i, j \in DOMAIN order : weight[order[i]] < weight[order[j]] => i < j
<1>1. n \in Nat
  BY FS_CardinalityType
<1>2. \E order \in [1 .. n -> set] : P(order)
  <2>1. PICK order : Ordered(order, set, weight, n)
    BY OrderExists
  <2>2. order \in [1 .. n -> set] /\ DOMAIN order = 1 .. n
    BY <2>1 DEF Ordered
  <2> QED BY <2>1, <2>2 DEF Ordered
<1>3. o = CHOOSE order \in [1 .. n -> set] : P(order)
  BY DEF Listing
<1>4. o \in [1 .. n -> set] /\ P(o)
  <2> HIDE DEF P, o
  <2> QED BY <1>2, <1>3
<1> HIDE DEF o
<1>5. Ordered(o, set, weight, n)
  BY <1>4 DEF Ordered
<1>6. ASSUME NEW x \in set, \A i \in 1 .. n : o[i] # x PROVE FALSE
  <2>1. o \in Injection(1 .. n, set \ {x})
    BY <1>4, <1>6 DEF Injection, IsInjective
  <2>2. IsFiniteSet(set \ {x}) /\ Cardinality(set \ {x}) = n - 1
    BY FS_RemoveElement
  <2>3. Cardinality(1 .. n) <= n - 1
    BY <2>1, <2>2, FS_Injection
  <2>4. Cardinality(1 .. n) = n
    BY <1>1, FS_Interval
  <2> QED BY <1>1, <2>3, <2>4
<1> QED BY <1>5, <1>6 DEF o

\* Lemma: a file layer is made of its keys, the shorter before the longer.
LEMMA InKeyOrderLists ==
    ASSUME NEW keys \in SUBSET Seq(STRING), IsFiniteSet(keys)
    PROVE  LET o == InKeyOrder(keys)
               n == Cardinality(keys)
           IN  /\ o \in [1 .. n -> keys]
               /\ \A i, j \in 1 .. n : Len(o[i]) < Len(o[j]) => i < j
               /\ \A key \in keys : \E i \in 1 .. n : o[i] = key
<1> DEFINE weight == [key \in keys |-> Len(key)]
<1>1. \A key \in keys : weight[key] = Len(key) /\ weight[key] \in Nat
  OBVIOUS
<1>2. InKeyOrder(keys) = Listing(keys, weight)
  BY DEF InKeyOrder
<1> HIDE DEF weight
<1>3. /\ Ordered(InKeyOrder(keys), keys, weight, Cardinality(keys))
      /\ \A key \in keys : \E i \in 1 .. Cardinality(keys) : InKeyOrder(keys)[i] = key
  BY <1>1, <1>2, ListingLists
<1> QED BY <1>1, <1>3 DEF Ordered

-----------------------------------------------------------------------------
(* The layers of a load.                                                   *)

\* Lemma: below a key that is no leaf there is a leaf: the longest key there.
LEMMA LeafBelow ==
    ASSUME NEW t, IsFragment(t), NEW q \in DOMAIN t, NEW r \in DOMAIN t, IsStrictPrefix(q, r)
    PROVE  Within(q, LeafKeys(t))
<1> DEFINE S == {k \in DOMAIN t : IsStrictPrefix(q, k)}
           o == InKeyOrder(S)
           n == Cardinality(S)
<1>1. S \in SUBSET Seq(STRING) /\ IsFiniteSet(S) /\ r \in S
  BY FS_Subset DEF IsFragment
<1> HIDE DEF S
<1>2. n \in Nat /\ n # 0
  BY <1>1, FS_CardinalityType, FS_EmptySet
<1>3. /\ o \in [1 .. n -> S] /\ \A i, j \in 1 .. n : Len(o[i]) < Len(o[j]) => i < j
      /\ \A k \in S : \E i \in 1 .. n : o[i] = k
  BY <1>1, InKeyOrderLists
<1> HIDE DEF o, n
<1> DEFINE x == o[n]
<1>4. n \in 1 .. n /\ x \in S /\ \A k \in S : ~(Len(x) < Len(k))
  <2>1. n \in 1 .. n
    BY <1>2
  <2>2. x \in S
    BY <1>3, <2>1
  <2>3. ASSUME NEW k \in S, Len(x) < Len(k) PROVE FALSE
    <3>1. PICK i \in 1 .. n : o[i] = k
      BY <1>3
    <3>2. n < i
      BY <1>3, <2>1, <2>3, <3>1
    <3> QED BY <1>2, <3>2
  <2> QED BY <2>1, <2>2, <2>3
<1> HIDE DEF x
<1>5. x \in DOMAIN t /\ x \in Seq(STRING) /\ q \in Seq(STRING) /\ IsStrictPrefix(q, x) /\ x # <<>>
  BY <1>1, <1>4 DEF S, IsFragment, IsStrictPrefix, IsPrefix
<1>6. ASSUME NEW k \in DOMAIN t, IsStrictPrefix(x, k) PROVE FALSE
  <2>1. k \in Seq(STRING)
    BY DEF IsFragment
  <2>2. IsStrictPrefix(q, k) /\ Len(x) < Len(k)
    BY <1>5, <1>6, <2>1 DEF IsStrictPrefix, IsPrefix
  <2> QED BY <1>4, <2>2 DEF S
<1>7. x \in LeafKeys(t)
  BY <1>5, <1>6 DEF LeafKeys
<1> QED BY <1>5, <1>7 DEF Within

\* Lemma: a fragment says its leaves.
LEMMA FragmentSays == ASSUME NEW t, IsFragment(t) PROVE Says(t, LeafKeys(t), t)
<1>1. IsLayer(t)
  BY DEF IsFragment, IsLayer
<1>2. LeafKeys(t) \subseteq KeyPaths /\ LeafKeys(t) \subseteq DOMAIN t
  BY DEF LeafKeys, IsFragment, KeyPaths
<1>3. \A q \in DOMAIN t : t[q] # Table => q \in LeafKeys(t)
  BY DEF LeafKeys, IsFragment
<1>4. \A q \in DOMAIN t : q = <<>> \/ q \in LeafKeys(t) \/ Within(q, LeafKeys(t))
  BY LeafBelow DEF LeafKeys
<1> QED BY <1>1, <1>2, <1>3, <1>4 DEF Says

\* Lemma: the empty table has no leaf, and is a fragment.
LEMMA EmptyFragment == IsFragment(EmptyTable) /\ LeafKeys(EmptyTable) = {}
BY FS_Singleton, RootIsAbove DEF EmptyTable, IsFragment, LeafKeys

\* Lemma: layers merged one after the other say what was last said in one.
LEMMA FoldSays ==
    ASSUME NEW base, NEW low, NEW below, Says(base, low, below),
           NEW layers, NEW n \in Nat, DOMAIN layers = 1 .. n, NEW keys, NEW said,
           \A i \in 1 .. n : Says(layers[i], keys[i], said[i])
    PROVE  Says(FoldLeft(Merge, base, layers), SaidBy(low, keys, n),
                [q \in SaidBy(low, keys, n) |-> LastSaid(q, below, keys, said, n)])
<1>1. PICK acc : N!Chain(acc, base, layers) /\ N!Fold(base, layers) = acc[n]
  BY N!FoldIsChain
<1>2. FoldLeft(Merge, base, layers) = N!Fold(base, layers)
  BY DEF N!Fold, N!FoldLeft, FoldLeft, N!MapThenFoldSet, MapThenFoldSet, N!Max, Max
<1>3. Says(acc[0], low, below)
  BY <1>1 DEF N!Chain
<1>4. \A k \in 1 .. n : Says(layers[k], keys[k], said[k]) /\ acc[k] = Merge(acc[k - 1], layers[k])
  BY <1>1 DEF N!Chain
<1>5. \A k \in 1 .. n :
         \E over : Says(over, keys[k], said[k]) /\ acc[k] = Merge(acc[k - 1], over)
  BY <1>4
<1>6. Says(acc[n], SaidBy(low, keys, n),
           [q \in SaidBy(low, keys, n) |-> LastSaid(q, below, keys, said, n)])
  BY ONLY <1>3, <1>5, n \in Nat, ChainSays
<1> QED BY <1>1, <1>2, <1>6

\* Lemma: of some positions there is one that is last, and one only.
LEMMA LastPosition ==
    ASSUME NEW n \in Nat, NEW with \in SUBSET (1 .. n), with # {}
    PROVE  \E i \in with : /\ \A j \in with : j <= i
                           /\ \A k \in with : (\A j \in with : j <= k) => k = i
<1>1. PICK m \in with : \A j \in with : m >= j
  BY N!MaxIn
<1>2. \A k \in with : k \in Nat
  OBVIOUS
<1>3. \A j \in with : j <= m
  BY <1>1, <1>2
<1>4. \A k \in with : (\A j \in with : j <= k) => k = m
  BY <1>2, <1>3
<1> QED BY <1>3, <1>4

\* Lemma: the environment says its variables, the last of each key.
LEMMA EnvSays ==
    ASSUME IsNames(process.env), \A v \in ToSet(process.env) : Env(v) # Table
    PROVE  Says(EnvLayer, EnvKeys, [q \in EnvKeys |-> Env(LastByKey(process.env, Values)[q])])
<1> DEFINE env == process.env
           n == Len(env)
           layer(v) == IF IsValue(v) THEN Nest(v.path, Env(v)) ELSE EmptyTable
           layers == [i \in 1 .. n |-> layer(env[i])]
           keys == [i \in 1 .. n |-> IF IsValue(env[i]) THEN {env[i].path} ELSE {}]
           said == [i \in 1 .. n |-> [q \in {env[i].path} |-> Env(env[i])]]
           all == SaidBy({}, keys, n)
<1>1. n \in Nat /\ DOMAIN env = 1 .. n /\ \A i \in 1 .. n : env[i].path \in KeyPaths
  BY DEF IsNames, KeyPaths
<1>2. EnvLayer = FoldLeft(Merge, EmptyTable, layers)
  BY <1>1 DEF EnvLayer
<1>3. ASSUME NEW i \in 1 .. n PROVE Says(layers[i], keys[i], said[i])
  <2>1. Env(env[i]) # Table
    BY <1>1 DEF ToSet
  <2>2. said[i][env[i].path] = Env(env[i])
    OBVIOUS
  <2> HIDE DEF said
  <2>3. CASE IsValue(env[i])
    BY <1>1, <2>1, <2>2, <2>3, NestSays
  <2>4. CASE ~IsValue(env[i])
    BY <2>4, EmptySays
  <2> QED BY <2>3, <2>4
<1>4. all = EnvKeys
  BY <1>1 DEF SaidBy, EnvKeys, ToSet
<1>5. Says(EnvLayer, all, [q \in all |-> LastSaid(q, <<>>, keys, said, n)])
  <2> HIDE DEF layers, keys, said
  <2>1. DOMAIN layers = 1 .. n
    BY DEF layers
  <2> QED BY <1>1, <1>2, <1>3, <2>1, EmptySays, FoldSays
<1>6. ASSUME NEW q \in EnvKeys
      PROVE  LastSaid(q, <<>>, keys, said, n) = Env(LastByKey(env, Values)[q])
  <2> DEFINE with == {i \in 1 .. n : IsValue(env[i]) /\ env[i].path = q}
  <2>1. {i \in 1 .. n : q \in keys[i]} = with
    OBVIOUS
  <2>2. with # {}
    BY <1>1 DEF EnvKeys, ToSet
  <2>3. with \in SUBSET (1 .. n)
    OBVIOUS
  <2> DEFINE kept == {i \in DOMAIN env : IsValue(env[i])}
             last == CHOOSE i \in kept : /\ env[i].path = q
                                         /\ \A j \in kept : env[j].path = q => j <= i
             top == CHOOSE i \in with : \A j \in with : j <= i
  <2>4. LastByKey(env, Values)[q] = env[last]
    <3>1. LastByKey(env, kept) =
            [key \in {env[i].path : i \in kept} |->
                env[CHOOSE i \in kept : /\ env[i].path = key
                                        /\ \A j \in kept : env[j].path = key => j <= i]]
      BY DEF LastByKey
    <3>2. q \in {env[i].path : i \in kept}
      BY <1>1 DEF EnvKeys, ToSet
    <3>3. Values = kept
      BY DEF Values
    <3> HIDE DEF kept
    <3> QED BY <3>1, <3>2, <3>3
  <2>5. PICK m \in with : /\ \A j \in with : j <= m
                          /\ \A k \in with : (\A j \in with : j <= k) => k = m
    <3> HIDE DEF with
    <3> QED BY <1>1, <2>2, <2>3, LastPosition
  <2>6. top = m
    <3> HIDE DEF with
    <3> QED BY <2>5
  <2>7. last = m
    <3>1. \A i \in kept : env[i].path = q <=> i \in with
      BY <1>1
    <3>2. with \subseteq kept
      BY <1>1
    <3> HIDE DEF with, kept
    <3>3. m \in kept /\ env[m].path = q /\ \A j \in kept : env[j].path = q => j <= m
      BY <2>5, <3>1, <3>2
    <3>4. last \in kept /\ env[last].path = q /\ \A j \in kept : env[j].path = q => j <= last
      BY <3>3
    <3> HIDE DEF last
    <3> QED BY <2>5, <3>1, <3>2, <3>4
  <2>8. LastSaid(q, <<>>, keys, said, n) = said[top][q]
    <3> HIDE DEF keys, said
    <3>1. LastSaid(q, <<>>, keys, said, n) = LastOf(with, q, <<>>, said)
      BY <2>1 DEF LastSaid
    <3> HIDE DEF with
    <3> QED BY <2>2, <3>1 DEF LastOf
  <2>9. said[m][q] = Env(env[m])
    BY <2>5
  <2> HIDE DEF last, top, said, keys, with
  <2> QED BY <2>4, <2>6, <2>7, <2>8, <2>9
<1> HIDE DEF keys, said, all
<1> QED BY <1>4, <1>5, <1>6, SaysSame

\* What a layer of files holds: values of finitely many keys.
FileValues(values) ==
    /\ DOMAIN values \subseteq KeyPaths /\ IsFiniteSet(DOMAIN values)
    /\ \A key \in DOMAIN values : values[key] # Table

\* These steps say these values and no others, each of them in some step.
Singly(n, keys, said, values) ==
    /\ \A i \in 1 .. n : keys[i] \subseteq DOMAIN values /\ said[i] = values
    /\ \A key \in DOMAIN values : \E i \in 1 .. n : key \in keys[i]

\* Lemma: values said one key at a time are said of their keys, and what was said
\* below of any other.
LEMMA SaidOnce ==
    ASSUME NEW n \in Nat, NEW keys, NEW said, NEW values, Singly(n, keys, said, values),
           NEW below, NEW q
    PROVE  LastSaid(q, below, keys, said, n) = IF q \in DOMAIN values THEN values[q] ELSE below[q]
<1> DEFINE with == {i \in 1 .. n : q \in keys[i]}
           at == CHOOSE i \in with : \A j \in with : j <= i
<1>1. LastSaid(q, below, keys, said, n) = LastOf(with, q, below, said)
  BY DEF LastSaid
<1>2. with \in SUBSET (1 .. n)
  OBVIOUS
<1>3. CASE q \in DOMAIN values
  <2>1. with # {}
    BY <1>3 DEF Singly
  <2> HIDE DEF with
  <2>2. at \in with
    BY <1>2, <2>1, LastPosition
  <2> HIDE DEF at
  <2>3. said[at] = values
    BY <1>2, <2>2 DEF Singly
  <2> QED BY <1>1, <1>3, <2>1, <2>3 DEF LastOf, at
<1>4. CASE q \notin DOMAIN values
  <2>1. with = {}
    BY <1>4 DEF Singly
  <2> QED BY <1>1, <1>4, <2>1 DEF LastOf
<1> QED BY <1>3, <1>4

\* Lemma: values nested one after the other say their keys, over what was said.
LEMMA NestedSays ==
    ASSUME NEW base, NEW low, NEW below, Says(base, low, below),
           NEW values, FileValues(values), NEW top,
           \A q \in low \cup DOMAIN values :
              top[q] = IF q \in DOMAIN values THEN values[q] ELSE below[q]
    PROVE  Says(FoldLeft(Merge, base, Nested(values)), low \cup DOMAIN values, top)
<1> DEFINE n == Cardinality(DOMAIN values)
           o == InKeyOrder(DOMAIN values)
           layers == Nested(values)
           keys == [i \in 1 .. n |-> {o[i]}]
           said == [i \in 1 .. n |-> values]
           all == SaidBy(low, keys, n)
<1>1. n \in Nat
  BY FS_CardinalityType DEF FileValues
<1>2. o \in [1 .. n -> DOMAIN values] /\ \A key \in DOMAIN values : \E i \in 1 .. n : o[i] = key
  BY InKeyOrderLists DEF FileValues, KeyPaths
<1>3. DOMAIN o = 1 .. n /\ \A i \in 1 .. n : o[i] \in DOMAIN values
  BY <1>2
<1>4. DOMAIN layers = 1 .. n /\ \A i \in 1 .. n : layers[i] = Nest(o[i], values[o[i]])
  BY <1>3 DEF Nested
<1> HIDE DEF n, o, layers
<1>5. ASSUME NEW i \in 1 .. n PROVE Says(layers[i], keys[i], said[i])
  <2>1. o[i] \in KeyPaths /\ values[o[i]] # Table
    BY <1>3 DEF FileValues
  <2> QED BY <1>4, <2>1, NestSays
<1>6. all = low \cup DOMAIN values
  BY <1>2, <1>3 DEF SaidBy
<1> HIDE DEF keys, said
<1>7. Says(FoldLeft(Merge, base, layers), all, [q \in all |-> LastSaid(q, below, keys, said, n)])
  BY <1>1, <1>4, <1>5, FoldSays
<1>8. ASSUME NEW q \in all
      PROVE  LastSaid(q, below, keys, said, n) = IF q \in DOMAIN values THEN values[q] ELSE below[q]
  <2>1. Singly(n, keys, said, values)
    BY <1>2, <1>3 DEF keys, said, Singly
  <2> QED BY <1>1, <2>1, SaidOnce
<1>9. \A q \in all : [p \in all |-> LastSaid(p, below, keys, said, n)][q] = top[q]
  BY <1>6, <1>8
<1> HIDE DEF all
<1>10. Says(FoldLeft(Merge, base, layers), all, top)
  BY <1>7, <1>9, SaysSame
<1> QED BY <1>6, <1>10 DEF layers

\* Lemma: the last of the items with a key is one of them.
LEMMA LastIsOne ==
    ASSUME NEW items, IsNames(items), NEW kept \in SUBSET DOMAIN items,
           NEW key \in {items[i].path : i \in kept}
    PROVE  (CHOOSE i \in kept : /\ items[i].path = key
                                /\ \A j \in kept : items[j].path = key => j <= i) \in DOMAIN items
<1> DEFINE with == {i \in kept : items[i].path = key}
<1>1. Len(items) \in Nat /\ with \in SUBSET (1 .. Len(items)) /\ with # {}
  BY DEF IsNames
<1>2. \E i \in with : \A j \in with : j <= i
  <2> HIDE DEF with
  <2> QED BY <1>1, LastPosition
<1>3. \E i \in kept : items[i].path = key /\ \A j \in kept : items[j].path = key => j <= i
  BY <1>2
<1> QED BY <1>3

\* Lemma: the keys that items spell.
LEMMA KeysOfNames ==
    ASSUME NEW items, IsNames(items), NEW kept \in SUBSET DOMAIN items,
           NEW keys, \A key : key \in keys <=> \E i \in kept : key = items[i].path
    PROVE  keys \subseteq KeyPaths /\ IsFiniteSet(keys)
<1> DEFINE f == [i \in kept |-> items[i].path]
<1>1. IsFiniteSet(kept)
  <2>1. IsFiniteSet(1 .. Len(items))
    BY FS_Interval DEF IsNames
  <2> QED BY <2>1, FS_Subset DEF IsNames
<1>2. f \in Surjection(kept, keys)
  BY DEF Surjection
<1> HIDE DEF f
<1>3. IsFiniteSet(keys)
  BY <1>1, <1>2, FS_Surjection
<1> QED BY <1>3 DEF IsNames, KeyPaths

\* Lemma: what the secrets directory and the indirections read.
LEMMA ReadsValues ==
    ASSUME process \in Processes
    PROVE  /\ \A m \in Mounts : ~SecretsRefused(m) => FileValues(SecretsRead(m))
           /\ FileValues(FilesRead)
<1>1. ASSUME NEW m \in Mounts, ~SecretsRefused(m) PROVE FileValues(SecretsRead(m))
  <2>1. CASE ~process.secretsDir
    <3>1. SecretsRead(m) = <<>>
      BY <2>1 DEF SecretsRead
    <3>2. DOMAIN <<>> = {}
      OBVIOUS
    <3> QED BY <3>1, <3>2, FS_EmptySet DEF FileValues
  <2>2. CASE process.secretsDir
    <3> DEFINE items == m.secrets[1]
               kept == {i \in DOMAIN items : Usable(items[i])}
               last == LastByKey(items, kept)
    <3>1. m.secrets # Nothing
      BY <1>1, <2>2 DEF SecretsRefused
    <3>2. IsNames(items) /\ \A entry \in ToSet(items) : Secret(entry) # Table
      BY <3>1, LayersAssumption
    <3>3. SecretsRead(m) = Secrets(last)
      BY <2>2 DEF SecretsRead
    <3> HIDE DEF items
    <3>4. /\ DOMAIN last = {items[i].path : i \in kept}
          /\ \A key \in DOMAIN last :
                last[key] = items[CHOOSE i \in kept :
                                    /\ items[i].path = key
                                    /\ \A j \in kept : items[j].path = key => j <= i]
      BY DEF LastByKey
    <3>5. kept \in SUBSET DOMAIN items
      OBVIOUS
    <3> HIDE DEF kept, last
    <3>6. \A key \in DOMAIN last : last[key] \in ToSet(items)
      BY <3>2, <3>4, <3>5, LastIsOne DEF ToSet
    <3>7. \A key : key \in DOMAIN last <=> \E i \in kept : key = items[i].path
      BY <3>4
    <3>8. DOMAIN last \subseteq KeyPaths /\ IsFiniteSet(DOMAIN last)
      BY <3>2, <3>5, <3>7, KeysOfNames
    <3> QED BY <3>2, <3>3, <3>6, <3>8 DEF FileValues, Secrets
  <2> QED BY <2>1, <2>2
<1>2. FileValues(FilesRead)
  <2> DEFINE items == process.env
             kept == {i \in DOMAIN items : IsIndirection(items[i])}
             last == LastByKey(items, kept)
  <2>1. IsNames(items) /\ \A v \in ToSet(items) : Target(v) # Table
    BY LayersAssumption
  <2>2. FilesRead = Targets(last)
    BY DEF FilesRead
  <2> HIDE DEF items
  <2>3. /\ DOMAIN last = {items[i].path : i \in kept}
        /\ \A key \in DOMAIN last :
              last[key] = items[CHOOSE i \in kept :
                                  /\ items[i].path = key
                                  /\ \A j \in kept : items[j].path = key => j <= i]
    BY DEF LastByKey
  <2>4. kept \in SUBSET DOMAIN items
    OBVIOUS
  <2> HIDE DEF kept, last
  <2>5. \A key \in DOMAIN last : last[key] \in ToSet(items)
    BY <2>1, <2>3, <2>4, LastIsOne DEF ToSet
  <2>6. \A key : key \in DOMAIN last <=> \E i \in kept : key = items[i].path
    BY <2>3
  <2>7. DOMAIN last \subseteq KeyPaths /\ IsFiniteSet(DOMAIN last)
    BY <2>1, <2>4, <2>6, KeysOfNames
  <2> QED BY <2>1, <2>2, <2>5, <2>7 DEF FileValues, Targets
<1> QED BY <1>1, <1>2

-----------------------------------------------------------------------------
(* What a load that succeeded has merged.                                  *)

\* What a load has read so far, and what it made of it.
Layered ==
    /\ process \in Processes /\ mount \in Mounts
    /\ Len(read) \in Nat /\ DOMAIN read = 1 .. Len(read)
    /\ \A i \in DOMAIN read : read[i] = Unparseable \/ IsFragment(read[i])
    /\ pc \in {"collected", "merging"} \/ Loaded => FileValues(secrets)
    /\ pc = "merging" \/ Loaded => FileValues(files)
    /\ Loaded => Unparseable \notin ToSet(read) /\ tree = Merged(read, secrets, files)

\* Lemma: the supplied keys are those of the documents and of the other layers.
LEMMA KeysSupplied ==
    ASSUME NEW n, DOMAIN read = 1 .. n, NEW leaves, \A i \in 1 .. n : leaves[i] = LeafKeys(read[i])
    PROVE  SuppliedKeys = (SaidBy({}, leaves, n) \cup EnvKeys) \cup (DOMAIN secrets \cup DOMAIN files)
<1> DEFINE docs == UNION {LeafKeys(read[i]) : i \in DOMAIN read}
<1>1. SaidBy({}, leaves, n) = docs
  BY DEF SaidBy
<1>2. SuppliedKeys = docs \cup EnvKeys \cup DOMAIN secrets \cup DOMAIN files
  BY DEF SuppliedKeys
<1> HIDE DEF docs
<1> QED BY ONLY <1>1, <1>2

\* Lemma: a merged tree says what was supplied, the highest layer last.
LEMMA MergedSays ==
    ASSUME process \in Processes, Len(read) \in Nat, DOMAIN read = 1 .. Len(read),
           \A i \in DOMAIN read : IsFragment(read[i]), FileValues(secrets), FileValues(files)
    PROVE  Says(Merged(read, secrets, files), SuppliedKeys, [q \in SuppliedKeys |-> TopValue(q)])
<1> DEFINE n == Len(read)
           leaves == [i \in 1 .. n |-> LeafKeys(read[i])]
           docs == SaidBy({}, leaves, n)
           doc == [q \in docs |-> LastSaid(q, <<>>, leaves, read, n)]
           env == [q \in EnvKeys |-> Env(LastByKey(process.env, Values)[q])]
           mounted == DOMAIN secrets \cup DOMAIN files
           file == [q \in mounted |-> IF q \in DOMAIN files THEN files[q] ELSE secrets[q]]
           low == [q \in docs \cup EnvKeys |-> IF q \in EnvKeys THEN env[q] ELSE doc[q]]
           top == [q \in SuppliedKeys |-> TopValue(q)]
<1>1. Says(FoldLeft(Merge, EmptyTable, read), docs, doc)
  <2>1. \A i \in 1 .. n : Says(read[i], leaves[i], read[i])
    BY FragmentSays
  <2> HIDE DEF leaves
  <2> QED BY <2>1, EmptySays, FoldSays
<1>2. Says(EnvLayer, EnvKeys, env)
  BY LayersAssumption, EnvSays
<1>3. Says(Merge(FoldLeft(Merge, EmptyTable, read), EnvLayer), docs \cup EnvKeys, low)
  <2>1. \A q \in docs \cup EnvKeys : low[q] = IF q \in EnvKeys THEN env[q] ELSE doc[q]
    OBVIOUS
  <2> HIDE DEF low, docs, doc, env
  <2> QED BY <1>1, <1>2, <2>1, MergeSays
<1>4. Says(FileLayer(secrets, files), mounted, file)
  <2>1. Says(EmptyTable, {}, <<>>)
    BY EmptySays
  <2>2. Says(FoldLeft(Merge, EmptyTable, Nested(secrets)), {} \cup DOMAIN secrets, secrets)
    BY <2>1, NestedSays
  <2>3. \A q \in DOMAIN secrets \cup DOMAIN files :
           file[q] = IF q \in DOMAIN files THEN files[q] ELSE secrets[q]
    OBVIOUS
  <2>4. {} \cup DOMAIN secrets = DOMAIN secrets
    OBVIOUS
  <2> HIDE DEF file
  <2> QED BY <2>2, <2>3, <2>4, NestedSays DEF FileLayer
<1>5. SuppliedKeys = (docs \cup EnvKeys) \cup mounted
  <2>1. \A i \in 1 .. n : leaves[i] = LeafKeys(read[i])
    OBVIOUS
  <2> HIDE DEF leaves
  <2> QED BY <2>1, KeysSupplied
<1>6. ASSUME NEW q \in SuppliedKeys PROVE top[q] = IF q \in mounted THEN file[q] ELSE low[q]
  <2>1. top[q] = TopValue(q)
    OBVIOUS
  <2>2. CASE q \in mounted
    BY <2>1, <2>2 DEF TopValue
  <2>3. CASE q \notin mounted /\ q \in EnvKeys
    BY <2>1, <2>3 DEF TopValue
  <2>4. CASE q \notin mounted /\ q \notin EnvKeys
    <3>1. q \in docs
      BY <1>5, <2>4
    <3> DEFINE with == {i \in 1 .. n : q \in leaves[i]}
               had == {i \in DOMAIN read : q \in LeafKeys(read[i])}
    <3>2. with = had /\ with # {}
      BY <3>1 DEF SaidBy
    <3>3. TopValue(q) = LastOf(with, q, <<>>, read)
      <4>1. TopValue(q) = read[CHOOSE i \in had : \A j \in had : j <= i][q]
        BY <2>4 DEF TopValue
      <4> HIDE DEF had, with
      <4> QED BY <3>2, <4>1 DEF LastOf
    <3>4. LastSaid(q, <<>>, leaves, read, n) = LastOf(with, q, <<>>, read)
      BY DEF LastSaid
    <3>5. low[q] = LastSaid(q, <<>>, leaves, read, n)
      BY <2>4, <3>1
    <3> HIDE DEF low, top, with
    <3> QED BY <2>1, <2>4, <3>3, <3>4, <3>5
  <2> QED BY <2>2, <2>3, <2>4
<1> HIDE DEF docs, doc, env, mounted, file, low, top
<1>7. Says(Merged(read, secrets, files), (docs \cup EnvKeys) \cup mounted, top)
  BY <1>3, <1>4, <1>5, <1>6, MergeSays DEF Merged
<1> QED BY <1>5, <1>7 DEF top

\* Lemma: what was supplied depends on the process and on what was read.
LEMMA StableMerge ==
    ASSUME UNCHANGED <<process, secrets, files, read>>
    PROVE  Merged(read, secrets, files)' = Merged(read, secrets, files)
BY DEF Merged, EnvLayer, IsValue, IsReserved, FileLayer, Nested, InKeyOrder, Listing

\* Lemma: the initial states have read nothing.
LEMMA InitLayered == Init => Layered
BY DEF Init, Layered, Loaded

\* Lemma: a fragment that was there and is TOML is a table, and so is an absent one.
LEMMA ReadsFragments ==
    ASSUME mount \in Mounts, NEW fragment
    PROVE  ReadFragment(mount, fragment) = Unparseable \/ IsFragment(ReadFragment(mount, fragment))
BY LayersAssumption, EmptyFragment DEF ReadFragment

\* Lemma: every step keeps it.
LEMMA StepLayered == Layered /\ [Next]_vars => Layered'
<1> SUFFICES ASSUME Layered, [Next]_vars PROVE Layered'
  OBVIOUS
<1> USE DEF Layered, Loaded
<1>1. CASE Begin
  BY <1>1 DEF Begin
<1>2. CASE RefuseSecrets \/ RefuseFiles \/ RefuseShadowed \/ RefuseFragment
  BY <1>2 DEF RefuseSecrets, RefuseFiles, RefuseShadowed, RefuseFragment, Fail
<1>3. CASE CollectSecrets
  <2>1. FileValues(SecretsRead(mount))
    BY <1>3, ReadsValues DEF CollectSecrets
  <2> QED BY <1>3, <2>1 DEF CollectSecrets
<1>4. CASE CollectFiles
  <2>1. FileValues(FilesRead)
    BY ReadsValues
  <2> QED BY <1>4, <2>1 DEF CollectFiles
<1>5. CASE MergeFragment
  <2> DEFINE next == ReadFragment(mount, listed[Len(read) + 1])
  <2>1. next = Unparseable \/ IsFragment(next)
    BY ReadsFragments
  <2> HIDE DEF next
  <2>2. read' = Append(read, next)
    BY <1>5 DEF MergeFragment, next
  <2>3. Len(read') = Len(read) + 1 /\ DOMAIN read' = 1 .. Len(read) + 1
    BY <2>2
  <2>4. \A i \in DOMAIN read' : read'[i] = IF i = Len(read) + 1 THEN next ELSE read[i]
    BY <2>2
  <2> QED BY <1>5, <2>1, <2>3, <2>4 DEF MergeFragment
<1>6. CASE Finish
  <2>1. Merged(read, secrets, files)' = Merged(read, secrets, files)
    BY <1>6, StableMerge DEF Finish
  <2> QED BY <1>6, <2>1 DEF Finish, ToSet
<1>7. CASE Explain
  BY <1>7, StableMerge DEF Explain, ToSet
<1>8. CASE \E m \in Mounts : Swap(m)
  BY <1>8, StableMerge DEF Swap, ToSet
<1>9. CASE UNCHANGED vars
  BY <1>9, StableMerge DEF vars, ToSet
<1> QED BY <1>1, <1>2, <1>3, <1>4, <1>5, <1>6, <1>7, <1>8, <1>9 DEF Next

\* Lemma: a load that succeeded runs on what the highest layers say.
LEMMA LayeredWins == Layered => HighestLayerWins
<1> SUFFICES ASSUME Layered, Loaded
             PROVE  HighestLayerWins
  BY DEF HighestLayerWins
<1>1. \A i \in DOMAIN read : IsFragment(read[i])
  BY DEF Layered, ToSet
<1> DEFINE top == [q \in SuppliedKeys |-> TopValue(q)]
<1>2. Says(tree, SuppliedKeys, top)
  BY <1>1, MergedSays DEF Layered
<1>3. \A q \in SuppliedKeys : top[q] = TopValue(q)
  OBVIOUS
<1> HIDE DEF top
<1> QED BY <1>2, <1>3 DEF HighestLayerWins, Says, Over, Within, Clear

\* For any environment, any mounts and fragments, and any number of swaps while
\* a load runs: the merged configuration is what the highest layer with a key
\* says (Terrace::assemble_watched, the order of the module doc).
THEOREM TheHighestLayerWins == Spec => []HighestLayerWins
<1>1. Init => Layered
  BY InitLayered
<1>2. Layered /\ [Next]_vars => Layered'
  BY StepLayered
<1>3. Layered => HighestLayerWins
  BY LayeredWins
<1> QED BY <1>1, <1>2, <1>3, PTL DEF Spec

-----------------------------------------------------------------------------
(* What Terrace::explain reports.                                          *)

\* A load that was refused because a key is supplied twice.
Refused == pc = "done" /\ outcome = "shadowed"

\* What a load that saw no swap has read is what is mounted, and a report that
\* was made is about what is mounted.
Truthful ==
    /\ Len(read) <= Len(listed)
    /\ Loaded => Len(read) = Len(listed)
    /\ steady /\ pc # "idle" =>
          /\ listed = Expand(mount)
          /\ \A i \in DOMAIN read : read[i] = ReadFragment(mount, listed[i])
          /\ pc \in {"collected", "merging"} \/ Loaded \/ Refused => secrets = SecretsRead(mount)
          /\ Refused => ~SecretsRefused(mount) /\ ~FilesRefused(mount)
    /\ pc = "merging" \/ Loaded => files = FilesRead
    /\ Refused => Shadowed(secrets, FilesRead)
    /\ report.kind \in {"none", "error", "made"}
    /\ report.kind = "none" => report = NoReport
    /\ report.kind = "made" => report.origins = Explanation(mount)

\* Lemma: what is read and reported depends on the process and the mounts alone.
LEMMA StableReading ==
    ASSUME UNCHANGED <<process, mount>>
    PROVE  /\ Expand(mount)' = Expand(mount)
           /\ SecretsRead(mount)' = SecretsRead(mount)
           /\ FilesRead' = FilesRead
           /\ Explanation(mount)' = Explanation(mount)
           /\ \A f : ReadFragment(mount, f)' = ReadFragment(mount, f)
<1>1. /\ Expand(mount)' = Expand(mount)
      /\ \A f : ReadFragment(mount, f)' = ReadFragment(mount, f)
  BY DEF Expand, ReadFragment
<1>2. SecretsRead(mount)' = SecretsRead(mount) /\ FilesRead' = FilesRead
  BY DEF SecretsRead, FilesRead, LastByKey, Usable, IsIndirection
<1>3. Explanation(mount)' = Explanation(mount)
  BY DEF Explanation, FragmentKeys, PlainKeys, PlainVars, IsReserved, Suppliers, SpelledAs,
         Expand, ReadFragment, SecretsRead, FilesRead, LastByKey, Usable, IsIndirection, ToSet
<1> QED BY <1>1, <1>2, <1>3

\* Lemma: the indirections depend on the process alone, and so does what they shadow.
LEMMA StableIndirections ==
    ASSUME UNCHANGED <<process, secrets>>
    PROVE  FilesRead' = FilesRead /\ Shadowed(secrets, FilesRead)' = Shadowed(secrets, FilesRead)
<1>1. FilesRead' = FilesRead
  BY DEF FilesRead, LastByKey, IsIndirection
<1>2. PlainKeys' = PlainKeys
  BY DEF PlainKeys, PlainVars, IsReserved, ToSet
<1> QED BY <1>1, <1>2 DEF Shadowed

\* Lemma: the fragments are listed in a sequence.
LEMMA ExpandLists ==
    ASSUME NEW m \in Mounts
    PROVE  Len(Expand(m)) \in Nat /\ DOMAIN Expand(m) = 1 .. Len(Expand(m))
<1>1. CASE m.dir
  <2> DEFINE weight == [f \in DOMAIN m.doc |-> f]
             n == Cardinality(DOMAIN m.doc)
  <2>1. IsFiniteSet(DOMAIN m.doc) /\ \A f \in DOMAIN m.doc : weight[f] \in Nat
    BY LayersAssumption
  <2>2. Expand(m) = Listing(DOMAIN m.doc, weight)
    BY <1>1 DEF Expand
  <2> HIDE DEF weight
  <2>3. n \in Nat /\ Expand(m) \in [1 .. n -> DOMAIN m.doc]
    BY <2>1, <2>2, ListingLists, FS_CardinalityType DEF Ordered
  <2> QED BY <2>3
<1>2. CASE ~m.dir
  BY <1>2 DEF Expand
<1> QED BY <1>1, <1>2

\* Lemma: the initial states have read and reported nothing.
LEMMA InitTruthful == Init => Truthful
BY DEF Init, Truthful, Loaded, Refused, NoReport, Report

\* Lemma: every step keeps it.
LEMMA StepTruthful == Layered /\ Accepted /\ Truthful /\ [Next]_vars => Truthful'
<1> SUFFICES ASSUME Layered, Accepted, Truthful, [Next]_vars PROVE Truthful'
  OBVIOUS
<1> USE DEF Truthful, Loaded, Refused
<1>1. CASE Begin
  <2>1. Len(Expand(mount)) \in Nat
    BY ExpandLists DEF Layered
  <2>2. Expand(mount)' = Expand(mount) /\ Explanation(mount)' = Explanation(mount)
    BY <1>1, StableReading DEF Begin
  <2> QED BY <1>1, <2>1, <2>2 DEF Begin
<1>2. CASE RefuseSecrets \/ RefuseFiles \/ RefuseFragment
  <2>1. /\ Expand(mount)' = Expand(mount) /\ Explanation(mount)' = Explanation(mount)
        /\ \A f : ReadFragment(mount, f)' = ReadFragment(mount, f)
    BY <1>2, StableReading DEF RefuseSecrets, RefuseFiles, RefuseFragment, Fail
  <2> QED BY <1>2, <2>1 DEF RefuseSecrets, RefuseFiles, RefuseFragment, Fail
<1>3. CASE RefuseShadowed
  <2>1. /\ Expand(mount)' = Expand(mount) /\ Explanation(mount)' = Explanation(mount)
        /\ SecretsRead(mount)' = SecretsRead(mount)
        /\ SecretsRefused(mount)' = SecretsRefused(mount)
        /\ FilesRefused(mount)' = FilesRefused(mount)
        /\ \A f : ReadFragment(mount, f)' = ReadFragment(mount, f)
    BY <1>3, StableReading, StableRefusals DEF RefuseShadowed, Fail
  <2>2. Shadowed(secrets, FilesRead)' = Shadowed(secrets, FilesRead)
    BY <1>3, StableIndirections DEF RefuseShadowed, Fail
  <2>3. steady => ~SecretsRefused(mount) /\ ~FilesRefused(mount)
    BY <1>3 DEF RefuseShadowed, Accepted
  <2> QED BY <1>3, <2>1, <2>2, <2>3 DEF RefuseShadowed, Fail
<1>4. CASE CollectSecrets
  BY <1>4, StableReading DEF CollectSecrets
<1>5. CASE CollectFiles
  BY <1>5, StableReading DEF CollectFiles
<1>6. CASE MergeFragment
  <2> DEFINE next == ReadFragment(mount, listed[Len(read) + 1])
  <2>1. /\ Expand(mount)' = Expand(mount) /\ Explanation(mount)' = Explanation(mount)
        /\ SecretsRead(mount)' = SecretsRead(mount) /\ FilesRead' = FilesRead
        /\ \A f : ReadFragment(mount, f)' = ReadFragment(mount, f)
    BY <1>6, StableReading DEF MergeFragment
  <2>2. \A i \in DOMAIN read' : \/ (i \in DOMAIN read /\ read'[i] = read[i])
                                 \/ (i = Len(read) + 1 /\ read'[i] = next)
    <3> HIDE DEF next
    <3>1. read' = Append(read, next)
      BY <1>6 DEF MergeFragment, next
    <3> QED BY <3>1 DEF Layered
  <2>3. Len(read') = Len(read) + 1
    BY <1>6 DEF MergeFragment, Layered
  <2>4. Len(read) \in Nat /\ Len(read) < Len(listed)
    BY <1>6 DEF MergeFragment, Layered
  <2>5. steady => Len(listed) \in Nat
    BY <1>6, ExpandLists DEF MergeFragment, Layered
  <2> QED BY <1>6, <2>1, <2>2, <2>3, <2>4, <2>5 DEF MergeFragment
<1>7. CASE Finish
  BY <1>7, StableReading DEF Finish
<1>8. CASE Explain
  <2>1. /\ Expand(mount)' = Expand(mount) /\ Explanation(mount)' = Explanation(mount)
        /\ SecretsRead(mount)' = SecretsRead(mount)
        /\ SecretsRefused(mount)' = SecretsRefused(mount)
        /\ FilesRefused(mount)' = FilesRefused(mount)
        /\ \A f : ReadFragment(mount, f)' = ReadFragment(mount, f)
    BY <1>8, StableReading, StableRefusals DEF Explain
  <2>2. /\ FilesRead' = FilesRead
        /\ Shadowed(secrets, FilesRead)' = Shadowed(secrets, FilesRead)
    BY <1>8, StableIndirections DEF Explain
  <2>3. /\ report'.kind \in {"error", "made"}
        /\ report'.kind = "made" => report'.origins = Explanation(mount)
    BY <1>8 DEF Explain, Report
  <2> QED BY <1>8, <2>1, <2>2, <2>3 DEF Explain
<1>9. CASE \E m \in Mounts : Swap(m)
  BY <1>9, StableIndirections DEF Swap, Report, NoReport
<1>10. CASE UNCHANGED vars
  <2>1. /\ Expand(mount)' = Expand(mount) /\ Explanation(mount)' = Explanation(mount)
        /\ SecretsRead(mount)' = SecretsRead(mount)
        /\ SecretsRefused(mount)' = SecretsRefused(mount)
        /\ FilesRefused(mount)' = FilesRefused(mount)
        /\ \A f : ReadFragment(mount, f)' = ReadFragment(mount, f)
    BY <1>10, StableReading, StableRefusals DEF vars
  <2>2. /\ FilesRead' = FilesRead
        /\ Shadowed(secrets, FilesRead)' = Shadowed(secrets, FilesRead)
    BY <1>10, StableIndirections DEF vars
  <2> QED BY <1>10, <2>1, <2>2 DEF vars, NoReport, Report
<1> QED
  BY <1>1, <1>2, <1>3, <1>4, <1>5, <1>6, <1>7, <1>8, <1>9, <1>10 DEF Next

\* Four lists put one after the other: how long they are, and which one ends them.
EndsAs(all, a, b, c, d) ==
    /\ Len(all) = Len(a) + Len(b) + Len(c) + Len(d)
    /\ Len(d) > 0 => Last(all) = d[Len(d)]
    /\ Len(d) = 0 /\ Len(c) > 0 => Last(all) = c[Len(c)]
    /\ Len(d) = 0 /\ Len(c) = 0 /\ Len(b) > 0 => Last(all) = b[Len(b)]
    /\ Len(d) = 0 /\ Len(c) = 0 /\ Len(b) = 0 /\ Len(a) > 0 => Last(all) = a[Len(a)]

\* Lemma: four lists put one after the other end as the last that has anything.
LEMMA LastOfFour ==
    ASSUME NEW S, NEW a \in Seq(S), NEW b \in Seq(S), NEW c \in Seq(S), NEW d \in Seq(S)
    PROVE  EndsAs(a \o b \o c \o d, a, b, c, d)
<1>1. ASSUME NEW x \in Seq(S), NEW y \in Seq(S)
      PROVE  /\ x \o y \in Seq(S) /\ Len(x \o y) = Len(x) + Len(y)
             /\ Len(y) > 0 => (x \o y)[Len(x \o y)] = y[Len(y)]
             /\ Len(y) = 0 /\ Len(x) > 0 => (x \o y)[Len(x \o y)] = x[Len(x)]
  OBVIOUS
<1>2. Len(a) \in Nat /\ Len(b) \in Nat /\ Len(c) \in Nat /\ Len(d) \in Nat
  OBVIOUS
<1> DEFINE ab == a \o b
           abc == ab \o c
           all == abc \o d
<1>3. /\ ab \in Seq(S) /\ Len(ab) = Len(a) + Len(b)
      /\ Len(b) > 0 => ab[Len(ab)] = b[Len(b)]
      /\ Len(b) = 0 /\ Len(a) > 0 => ab[Len(ab)] = a[Len(a)]
  BY <1>1
<1> HIDE DEF ab
<1>4. /\ abc \in Seq(S) /\ Len(abc) = Len(ab) + Len(c)
      /\ Len(c) > 0 => abc[Len(abc)] = c[Len(c)]
      /\ Len(c) = 0 /\ Len(ab) > 0 => abc[Len(abc)] = ab[Len(ab)]
  BY <1>1, <1>3
<1> HIDE DEF abc
<1>5. /\ Len(all) = Len(abc) + Len(d)
      /\ Len(d) > 0 => all[Len(all)] = d[Len(d)]
      /\ Len(d) = 0 /\ Len(abc) > 0 => all[Len(all)] = abc[Len(abc)]
  BY <1>1, <1>4
<1>6. Last(all) = all[Len(all)]
  BY DEF Last
<1> HIDE DEF all
<1>7. EndsAs(all, a, b, c, d)
  BY ONLY <1>2, <1>3, <1>4, <1>5, <1>6 DEF EndsAs
<1> QED BY <1>7 DEF all, abc, ab

\* The fragments that supply a key, as Suppliers lists them, and their places.
Having(m, key) == {i \in DOMAIN Expand(m) : key \in FragmentKeys(m, Expand(m)[i])}
Order(m, key) == Listing(Having(m, key), [i \in Having(m, key) |-> i])
Documents(m, key) == [i \in DOMAIN Order(m, key) |-> Toml(Expand(m)[Order(m, key)[i]])]
Spelled(key) == [i \in DOMAIN SpelledAs(key) |-> Env(SpelledAs(key)[i])]

\* Lemma: the fragments come in their order.
LEMMA DocumentsListed ==
    ASSUME NEW m \in Mounts, NEW key
    PROVE  LET had == Having(m, key)
               docs == Documents(m, key)
           IN  /\ Len(docs) \in Nat /\ DOMAIN docs = 1 .. Len(docs)
               /\ had = {} <=> Len(docs) = 0
               /\ had # {} => \E k \in had : /\ \A j \in had : j <= k
                                            /\ docs[Len(docs)] = Toml(Expand(m)[k])
<1> DEFINE had == Having(m, key)
           docs == Documents(m, key)
           n == Cardinality(had)
           o == Order(m, key)
           weight == [i \in had |-> i]
<1>1. /\ had \subseteq 1 .. Len(Expand(m)) /\ Len(Expand(m)) \in Nat
      /\ \A x \in had : x \in Nat
  BY ExpandLists DEF Having
<1>2. IsFiniteSet(had) /\ n \in Nat /\ (n = 0 <=> had = {})
  <2>1. IsFiniteSet(1 .. Len(Expand(m)))
    BY <1>1, FS_Interval
  <2> QED BY <1>1, <2>1, FS_Subset, FS_CardinalityType, FS_EmptySet
<1>3. \A i \in had : weight[i] = i /\ weight[i] \in Nat
  BY <1>1
<1>4. o = Listing(had, weight)
  BY DEF Order
<1> HIDE DEF weight, o, n
<1>5. Ordered(o, had, weight, n) /\ \A x \in had : \E i \in 1 .. n : o[i] = x
  <2> HIDE DEF had
  <2> QED BY <1>2, <1>3, <1>4, ListingLists DEF n
<1>6. o \in [1 .. n -> had] /\ \A i, j \in 1 .. n : o[i] < o[j] => i < j
  <2> HIDE DEF had
  <2> QED BY <1>3, <1>5 DEF Ordered
<1>7. DOMAIN docs = 1 .. n /\ \A i \in 1 .. n : docs[i] = Toml(Expand(m)[o[i]])
  BY <1>6 DEF Documents, o
<1>8. Len(docs) = n
  <2>1. docs \in Seq({docs[i] : i \in 1 .. n})
    BY <1>2, <1>7 DEF Documents
  <2> QED BY <1>2, <1>7, <2>1
<1> HIDE DEF docs, had
<1>9. ASSUME had # {} PROVE \E k \in had : (\A j \in had : j <= k) /\ docs[n] = Toml(Expand(m)[k])
  <2>1. n \in 1 .. n
    BY <1>2, <1>9
  <2>2. o[n] \in had /\ docs[n] = Toml(Expand(m)[o[n]])
    BY <1>6, <1>7, <2>1
  <2>3. ASSUME NEW j \in had, ~(j <= o[n]) PROVE FALSE
    <3>1. PICK i \in 1 .. n : o[i] = j
      BY <1>5
    <3>2. o[n] \in Nat /\ j \in Nat
      BY <1>1, <2>2
    <3>3. n < i
      BY <1>6, <2>1, <2>3, <3>1, <3>2
    <3> QED BY <1>2, <3>3
  <2> QED BY <2>2, <2>3
<1> QED BY <1>2, <1>7, <1>8, <1>9 DEF docs, had

\* Lemma: the spellings of a key are the variables that are values of it.
LEMMA SpellingsListed ==
    ASSUME process \in Processes, NEW key
    PROVE  /\ Len(Spelled(key)) = Len(SpelledAs(key)) /\ Len(Spelled(key)) \in Nat
           /\ DOMAIN Spelled(key) = 1 .. Len(Spelled(key))
           /\ key \in PlainKeys <=> Len(Spelled(key)) > 0
           /\ key \in PlainKeys /\ Len(Spelled(key)) = 1 =>
                 Spelled(key)[1] = Env(LastByKey(process.env, Values)[key])
<1> DEFINE set == {v \in PlainVars : v.path = key}
           weight == [v \in set |-> IF v.upper THEN 0 ELSE 1]
           n == Cardinality(set)
           o == SpelledAs(key)
           env == process.env
<1>1. IsNames(env)
  BY LayersAssumption
<1>2. IsFiniteSet(set) /\ n \in Nat /\ (n = 0 <=> set = {})
  <2> DEFINE f == [i \in 1 .. Len(env) |-> env[i]]
  <2>1. IsFiniteSet(1 .. Len(env))
    BY <1>1, FS_Interval DEF IsNames
  <2>2. f \in Surjection(1 .. Len(env), ToSet(env))
    BY <1>1 DEF Surjection, ToSet, IsNames
  <2> HIDE DEF f
  <2>3. IsFiniteSet(ToSet(env))
    BY <2>1, <2>2, FS_Surjection
  <2>4. set \subseteq ToSet(env)
    BY DEF PlainVars
  <2> HIDE DEF set
  <2> QED BY <2>3, <2>4, FS_Subset, FS_CardinalityType, FS_EmptySet
<1>3. \A v \in set : weight[v] \in Nat
  OBVIOUS
<1>4. o = Listing(set, weight)
  BY DEF SpelledAs
<1>5. o \in [1 .. n -> set] /\ \A v \in set : \E i \in 1 .. n : o[i] = v
  <2> HIDE DEF set, weight, o
  <2> QED BY <1>2, <1>3, <1>4, ListingLists DEF Ordered
<1>6. key \in PlainKeys <=> set # {}
  BY DEF PlainKeys
<1> HIDE DEF weight, o, n
<1>7. Len(o) = n /\ DOMAIN o = 1 .. n
  BY <1>2, <1>5
<1>8. /\ DOMAIN Spelled(key) = 1 .. n /\ Len(Spelled(key)) = n
      /\ \A i \in 1 .. n : Spelled(key)[i] = Env(o[i])
  <2>1. Spelled(key) = [i \in 1 .. n |-> Env(o[i])]
    BY <1>7 DEF Spelled, o
  <2>2. Spelled(key) \in [1 .. n -> {Env(o[i]) : i \in 1 .. n}]
    BY <2>1
  <2> QED BY <1>2, <2>1, <2>2
<1>9. key \in PlainKeys => LastByKey(env, Values)[key] \in set
  <2> SUFFICES ASSUME key \in PlainKeys PROVE LastByKey(env, Values)[key] \in set
    OBVIOUS
  <2>1. Values \in SUBSET DOMAIN env
    BY DEF Values
  <2>2. PICK v \in PlainVars : v.path = key
    BY DEF PlainKeys
  <2>3. key \in {env[i].path : i \in Values}
    BY <1>1, <2>2 DEF PlainVars, Values, IsValue, ToSet, IsNames
  <2> DEFINE last == CHOOSE i \in Values : /\ env[i].path = key
                                          /\ \A j \in Values : env[j].path = key => j <= i
  <2>4. LastByKey(env, Values)[key] = env[last]
    BY <2>3 DEF LastByKey
  <2>5. last \in Values /\ env[last].path = key
    <3> DEFINE with == {i \in Values : env[i].path = key}
    <3>1. with # {} /\ with \in SUBSET (1 .. Len(env)) /\ Len(env) \in Nat
      BY <1>1, <2>1, <2>3 DEF IsNames
    <3>2. \E i \in with : \A j \in with : j <= i
      <4> HIDE DEF with
      <4> QED BY <3>1, LastPosition
    <3>3. \E i \in Values : env[i].path = key /\ \A j \in Values : env[j].path = key => j <= i
      BY <3>2
    <3> QED BY <3>3
  <2> HIDE DEF last
  <2> QED BY <2>1, <2>4, <2>5 DEF Values, IsValue, PlainVars, ToSet
<1>10. key \in PlainKeys /\ n = 1 => o[1] = LastByKey(env, Values)[key]
  BY <1>5, <1>9
<1> HIDE DEF set
<1> QED BY <1>2, <1>6, <1>7, <1>8, <1>10 DEF o

\* Lemma: what the report lists for a key, and what it names last.
LEMMA SuppliersSay ==
    ASSUME process \in Processes, NEW m \in Mounts, NEW key
    PROVE  LET docs == Documents(m, key)
               vars1 == Spelled(key)
               secret == IF key \in DOMAIN SecretsRead(m) THEN 1 ELSE 0
               file == IF key \in DOMAIN FilesRead THEN 1 ELSE 0
               all == Suppliers(m, key)
           IN  /\ Len(all) = Len(docs) + Len(vars1) + secret + file
               /\ file = 1 => Last(all) = FilesRead[key]
               /\ file = 0 /\ secret = 1 => Last(all) = SecretsRead(m)[key]
               /\ file = 0 /\ secret = 0 /\ Len(vars1) > 0 => Last(all) = vars1[Len(vars1)]
               /\ file = 0 /\ secret = 0 /\ Len(vars1) = 0 /\ Len(docs) > 0 =>
                     Last(all) = docs[Len(docs)]
<1> DEFINE a == Documents(m, key)
           b == Spelled(key)
           c == Under(key, SecretsRead(m))
           d == Under(key, FilesRead)
           all == Suppliers(m, key)
           S == {a[i] : i \in DOMAIN a} \cup {b[i] : i \in DOMAIN b}
                \cup {FilesRead[key], SecretsRead(m)[key]}
<1>1. all = a \o b \o c \o d
  BY DEF Suppliers, Documents, Order, Having, Spelled
<1>2. a \in Seq(S)
  <2>1. Len(a) \in Nat /\ DOMAIN a = 1 .. Len(a)
    BY DocumentsListed
  <2>2. a = [i \in DOMAIN a |-> a[i]]
    BY DEF Documents
  <2> HIDE DEF a, b, c, d
  <2>3. a \in [1 .. Len(a) -> S]
    BY <2>1, <2>2
  <2> HIDE DEF S
  <2> QED BY <2>1, <2>3
<1>3. b \in Seq(S)
  <2>1. Len(b) \in Nat /\ DOMAIN b = 1 .. Len(b)
    BY SpellingsListed
  <2>2. b = [i \in DOMAIN b |-> b[i]]
    BY DEF Spelled
  <2> HIDE DEF a, b, c, d
  <2>3. b \in [1 .. Len(b) -> S]
    BY <2>1, <2>2
  <2> HIDE DEF S
  <2> QED BY <2>1, <2>3
<1>4. SecretsRead(m)[key] \in S /\ FilesRead[key] \in S
  OBVIOUS
<1> HIDE DEF a, b, S
<1>5. /\ c \in Seq(S) /\ Len(c) = IF key \in DOMAIN SecretsRead(m) THEN 1 ELSE 0
      /\ key \in DOMAIN SecretsRead(m) => c[1] = SecretsRead(m)[key]
  BY <1>4 DEF Under
<1>6. /\ d \in Seq(S) /\ Len(d) = IF key \in DOMAIN FilesRead THEN 1 ELSE 0
      /\ key \in DOMAIN FilesRead => d[1] = FilesRead[key]
  BY <1>4 DEF Under
<1> HIDE DEF c, d, all
<1>7. EndsAs(all, a, b, c, d)
  <2>1. EndsAs(a \o b \o c \o d, a, b, c, d)
    BY <1>2, <1>3, <1>5, <1>6, LastOfFour
  <2> QED BY <1>1, <2>1, Zenon
<1> QED BY <1>5, <1>6, <1>7 DEF EndsAs, a, b, all

\* Lemma: under a load that saw no swap the report knows the keys that were supplied.
LEMMA ReportedKeys ==
    ASSUME Layered, Truthful, Loaded, steady
    PROVE  /\ DOMAIN Explanation(mount) = SuppliedKeys
           /\ \A key \in SuppliedKeys : Explanation(mount)[key] = Suppliers(mount, key)
           /\ \A key : Having(mount, key) = {i \in DOMAIN read : key \in LeafKeys(read[i])}
           /\ EnvKeys = PlainKeys
<1>1. /\ listed = Expand(mount) /\ DOMAIN listed = DOMAIN read
      /\ \A i \in DOMAIN read : read[i] = ReadFragment(mount, listed[i]) /\ read[i] # Unparseable
  BY ExpandLists DEF Layered, Truthful, Loaded, ToSet
<1>2. \A i \in DOMAIN read : FragmentKeys(mount, listed[i]) = LeafKeys(read[i])
  BY <1>1 DEF FragmentKeys
<1>3. secrets = SecretsRead(mount) /\ files = FilesRead
  BY DEF Truthful, Loaded
<1>4. EnvKeys = PlainKeys
  BY DEF EnvKeys, PlainKeys, PlainVars, IsValue
<1> DEFINE docs == UNION {FragmentKeys(mount, fragment) : fragment \in ToSet(Expand(mount))}
           leaves == UNION {LeafKeys(read[i]) : i \in DOMAIN read}
<1>5. docs = leaves
  BY <1>1, <1>2 DEF ToSet
<1>6. SuppliedKeys = leaves \cup EnvKeys \cup DOMAIN secrets \cup DOMAIN files
  BY DEF SuppliedKeys
<1>7. Explanation(mount) = [key \in docs \cup PlainKeys \cup DOMAIN SecretsRead(mount)
                                    \cup DOMAIN FilesRead |-> Suppliers(mount, key)]
  BY DEF Explanation
<1> HIDE DEF docs, leaves
<1>8. docs \cup PlainKeys \cup DOMAIN SecretsRead(mount) \cup DOMAIN FilesRead = SuppliedKeys
  BY <1>3, <1>4, <1>5, <1>6
<1>9. \A key : Having(mount, key) = {i \in DOMAIN read : key \in LeafKeys(read[i])}
  BY <1>1, <1>2 DEF Having
<1> QED BY <1>4, <1>7, <1>8, <1>9

\* Lemma: of a key that one document or one spelling supplies last, the report
\* names the one whose value is in effect.
LEMMA ReportNamesTop ==
    ASSUME Layered, Truthful, Loaded, steady,
           NEW key \in SuppliedKeys, Len(SpelledAs(key)) < 2
    PROVE  TopValue(key) \in {Table, Last(Suppliers(mount, key))}
<1> DEFINE docs == Documents(mount, key)
           all == Suppliers(mount, key)
<1>1. process \in Processes /\ mount \in Mounts
  BY DEF Layered
<1>2. secrets = SecretsRead(mount) /\ files = FilesRead
  BY DEF Truthful, Loaded
<1>3. CASE key \in DOMAIN files
  BY <1>1, <1>2, <1>3, SuppliersSay DEF TopValue
<1>4. CASE key \notin DOMAIN files /\ key \in DOMAIN secrets
  BY <1>1, <1>2, <1>4, SuppliersSay DEF TopValue
<1>5. CASE key \notin DOMAIN files /\ key \notin DOMAIN secrets /\ key \in EnvKeys
  <2>1. key \in PlainKeys
    BY <1>5, ReportedKeys
  <2>2. /\ Len(Spelled(key)) = 1
        /\ Spelled(key)[1] = Env(LastByKey(process.env, Values)[key])
    <3>1. /\ Len(Spelled(key)) = Len(SpelledAs(key)) /\ Len(Spelled(key)) \in Nat
          /\ Len(Spelled(key)) > 0
          /\ Len(Spelled(key)) = 1 =>
                Spelled(key)[1] = Env(LastByKey(process.env, Values)[key])
      BY <1>1, <2>1, SpellingsListed
    <3>2. Len(Spelled(key)) = 1
      BY <3>1
    <3> QED BY <3>1, <3>2
  <2>3. Last(all) = Spelled(key)[1]
    <3>1. Len(Spelled(key)) > 0 => Last(all) = Spelled(key)[Len(Spelled(key))]
      BY <1>1, <1>2, <1>5, SuppliersSay
    <3> QED BY <2>2, <3>1
  <2>4. TopValue(key) = Env(LastByKey(process.env, Values)[key])
    BY <1>5 DEF TopValue
  <2> QED BY <2>2, <2>3, <2>4
<1>6. CASE key \notin DOMAIN files /\ key \notin DOMAIN secrets /\ key \notin EnvKeys
  <2> DEFINE with == {i \in DOMAIN read : key \in LeafKeys(read[i])}
             top == CHOOSE i \in with : \A j \in with : j <= i
  <2>1. with = Having(mount, key) /\ with # {} /\ key \notin PlainKeys
    BY <1>6, ReportedKeys DEF SuppliedKeys
  <2>2. PICK k \in with : /\ \A j \in with : j <= k
                         /\ docs[Len(docs)] = Toml(Expand(mount)[k])
    <3> HIDE DEF with
    <3> QED BY <1>1, <2>1, DocumentsListed
  <2>3. Len(docs) > 0 /\ Len(Spelled(key)) = 0
    <3> HIDE DEF with
    <3> QED BY <1>1, <2>1, DocumentsListed, SpellingsListed
  <2>4. Last(all) = Toml(Expand(mount)[k])
    BY <1>1, <1>2, <1>6, <2>2, <2>3, SuppliersSay
  <2>5. with \in SUBSET (1 .. Len(read)) /\ Len(read) \in Nat
    BY DEF Layered
  <2>6. top = k
    <3> HIDE DEF with
    <3>1. \A j \in with : (\A x \in with : x <= j) => j = k
      BY <2>2, <2>5
    <3> QED BY <2>2, <3>1
  <2>7. TopValue(key) = read[top][key]
    <3>1. TopValue(key) = read[CHOOSE i \in with : \A j \in with : j <= i][key]
      BY <1>6 DEF TopValue
    <3> QED BY <3>1
  <2> HIDE DEF top
  <2>8. read[k] = ReadFragment(mount, Expand(mount)[k]) /\ key \in LeafKeys(read[k])
    BY <2>2 DEF Truthful, Loaded
  <2>9. key \in DOMAIN read[k] /\ key # <<>> /\ read[k] # Unparseable
    BY <2>2, <2>8 DEF LeafKeys, Layered, Loaded, ToSet
  <2>10. read[k][key] \in {Table, Toml(Expand(mount)[k])}
    BY <1>1, <2>8, <2>9, LayersAssumption DEF ReadFragment, EmptyTable
  <2> QED BY <2>4, <2>6, <2>7, <2>10
<1> QED BY <1>3, <1>4, <1>5, <1>6

\* Lemma: a report is about the load beside it.
LEMMA TruthIsReported == Layered /\ Accepted /\ Truthful => ReportIsTrue
<1> SUFFICES ASSUME Layered, Accepted, Truthful, SameMounts, report # NoReport
             PROVE  /\ Refused =>
                          /\ report.kind = "made"
                          /\ \E key \in DOMAIN report.origins : Len(report.origins[key]) > 1
                    /\ Loaded /\ report.kind = "made" =>
                          /\ DOMAIN report.origins = SuppliedKeys
                          /\ \A key \in SuppliedKeys :
                                Clear(key, SuppliedKeys) /\ Len(SpelledAs(key)) < 2 =>
                                    tree[key] \in {Table, Last(report.origins[key])}
  BY DEF ReportIsTrue, Refused, SameMounts
<1>1. process \in Processes /\ mount \in Mounts /\ steady /\ pc = "done"
  BY DEF Layered, SameMounts
<1>2. ASSUME Refused
      PROVE  /\ report.kind = "made"
             /\ \E key \in DOMAIN report.origins : Len(report.origins[key]) > 1
  <2>1. ~SecretsRefused(mount) /\ ~FilesRefused(mount) /\ secrets = SecretsRead(mount)
    BY <1>1, <1>2 DEF Truthful
  <2>2. report.kind = "made" /\ report.origins = Explanation(mount)
    BY <2>1 DEF Truthful, Accepted
  <2>3. Shadowed(SecretsRead(mount), FilesRead)
    BY <1>2, <2>1 DEF Truthful
  <2>4. PICK key : \/ key \in DOMAIN SecretsRead(mount) \cap DOMAIN FilesRead
                   \/ key \in (DOMAIN SecretsRead(mount) \cup DOMAIN FilesRead) \cap PlainKeys
    BY <2>3 DEF Shadowed
  <2>5. Len(Documents(mount, key)) \in Nat /\ Len(Spelled(key)) \in Nat
        /\ (key \in PlainKeys => Len(Spelled(key)) > 0)
    BY <1>1, DocumentsListed, SpellingsListed
  <2>6. Len(Suppliers(mount, key)) =
           Len(Documents(mount, key)) + Len(Spelled(key))
           + (IF key \in DOMAIN SecretsRead(mount) THEN 1 ELSE 0)
           + (IF key \in DOMAIN FilesRead THEN 1 ELSE 0)
    BY <1>1, SuppliersSay
  <2>7. Len(Suppliers(mount, key)) > 1
    BY <2>4, <2>5, <2>6
  <2>8. key \in DOMAIN Explanation(mount) /\ Explanation(mount)[key] = Suppliers(mount, key)
    BY <2>4 DEF Explanation
  <2> QED BY <2>2, <2>7, <2>8
<1>3. ASSUME Loaded, report.kind = "made"
      PROVE  /\ DOMAIN report.origins = SuppliedKeys
             /\ \A key \in SuppliedKeys :
                   Clear(key, SuppliedKeys) /\ Len(SpelledAs(key)) < 2 =>
                       tree[key] \in {Table, Last(report.origins[key])}
  <2>1. report.origins = Explanation(mount)
    BY <1>3 DEF Truthful
  <2>2. /\ DOMAIN Explanation(mount) = SuppliedKeys
        /\ \A key \in SuppliedKeys : Explanation(mount)[key] = Suppliers(mount, key)
    BY <1>1, <1>3, ReportedKeys
  <2>3. \A key \in SuppliedKeys : Clear(key, SuppliedKeys) => tree[key] = TopValue(key)
    BY <1>3, LayeredWins DEF HighestLayerWins
  <2>4. \A key \in SuppliedKeys : Len(SpelledAs(key)) < 2 =>
           TopValue(key) \in {Table, Last(Suppliers(mount, key))}
    BY <1>1, <1>3, ReportNamesTop
  <2> QED BY <2>1, <2>2, <2>3, <2>4
<1> QED BY <1>2, <1>3

\* For any environment and mounts, and any number of swaps between the steps of
\* a load and the report: a report of the mounts a load saw lists two suppliers of
\* the key it was refused for, knows exactly the keys that were supplied, and
\* names the layer the service runs on (Terrace::explain).
THEOREM TheReportIsTrue == Spec => []ReportIsTrue
<1> DEFINE Inv == Checked /\ Accepted /\ Layered /\ Truthful
<1>1. Init => Inv
  BY InitLoad, InitLayered, InitTruthful
<1>2. Inv /\ [Next]_vars => Inv'
  BY StepLoad, StepLayered, StepTruthful
<1>3. Inv => ReportIsTrue
  BY TruthIsReported
<1> QED BY <1>1, <1>2, <1>3, PTL DEF Spec

-----------------------------------------------------------------------------
(* The Java loader's trees.                                                *)

\* Lemma: on layers deepMerge and figment's merge are one.
LEMMA DeepMergeIsMerge ==
    ASSUME NEW t, NEW over, IsLayer(t), IsLayer(over)
    PROVE  DeepMerge(t, over) = Merge(t, over)
<1> DEFINE joined(p) == p \in DOMAIN t /\ t[p] = Table /\ over[p] = Table
           kept == {q \in DOMAIN t : \A p \in (Parents(q) \cup {q}) \cap DOMAIN over : joined(p)}
           seen == {q \in DOMAIN t : \A p \in (Parents(q) \cup {q}) \cap DOMAIN over : over[p] = Table}
<1>1. DOMAIN over \cup kept = DOMAIN over \cup seen
  BY DEF IsLayer
<1>2. Merge(t, over) = [q \in DOMAIN over \cup seen |-> IF q \in DOMAIN over THEN over[q] ELSE t[q]]
  BY DEF Merge, Overlay, Restrict
<1>3. DeepMerge(t, over) = [q \in DOMAIN over \cup kept |-> IF q \in DOMAIN over THEN over[q] ELSE t[q]]
  BY DEF DeepMerge, Overlay, Restrict
<1> HIDE DEF kept, seen
<1> QED BY <1>1, <1>2, <1>3

\* Lemma: what is below a key has the key among its parents.
LEMMA PrefixIsParent ==
    ASSUME NEW p \in Seq(STRING), NEW q \in Seq(STRING)
    PROVE  /\ IsPrefix(p, q) <=> p \in Parents(q) \cup {q}
           /\ IsStrictPrefix(p, q) <=> p \in Parents(q)
<1>1. p \in Parents(q) <=> IsStrictPrefix(p, q)
  BY ParentsNest
<1>2. IsPrefix(p, q) <=> IsStrictPrefix(p, q) \/ p = q
  BY DEF IsPrefix, IsStrictPrefix
<1> QED BY <1>1, <1>2

\* Lemma: in a layer insertNested is the merge of a value on its own.
LEMMA InsertIsMerge ==
    ASSUME NEW dict, IsLayer(dict), NEW path \in KeyPaths, NEW value, value # Table
    PROVE  InsertNested(dict, path, value) = Merge(dict, Nest(path, value))
<1> DEFINE n == Nest(path, value)
           kept == {q \in DOMAIN dict \ Subtree(dict, path) :
                      ~ \E p \in Parents(path) \cap DOMAIN dict :
                          dict[p] # Table /\ IsStrictPrefix(p, q)}
           seen == {q \in DOMAIN dict : \A p \in (Parents(q) \cup {q}) \cap DOMAIN n : n[p] = Table}
<1>1. n = [q \in {path} \cup Parents(path) |-> IF q = path THEN value ELSE Table]
  BY DEF Nest, Overlay, Leading
<1>2. path \in Seq(STRING) /\ Parents(path) \subseteq Seq(STRING)
  BY ParentsNest DEF KeyPaths
<1>3. ASSUME NEW q \in DOMAIN dict PROVE q \in kept <=> q \in seen
  <2>1. q \in Seq(STRING)
    BY DEF IsLayer
  <2>2. q \in Subtree(dict, path) <=> path \in Parents(q) \cup {q}
    BY <1>2, <2>1, PrefixIsParent DEF Subtree
  <2>3. ASSUME NEW p \in Parents(path) \cap DOMAIN dict, IsStrictPrefix(p, q) PROVE dict[p] = Table
    <3>1. p \in Parents(q)
      BY <1>2, <2>1, <2>3, PrefixIsParent
    <3> QED BY <3>1 DEF IsLayer
  <2>4. q \in kept <=> path \notin Parents(q) \cup {q}
    BY <2>2, <2>3
  <2>5. q \in seen <=> path \notin Parents(q) \cup {q}
    <3> HIDE DEF n
    <3> QED BY <1>1
  <2> QED BY <2>4, <2>5
<1>4. kept = seen
  BY <1>3
<1>5. InsertNested(dict, path, value) = Overlay(n, Restrict(dict, kept))
  BY DEF InsertNested
<1>6. Merge(dict, n) = Overlay(n, Restrict(dict, seen))
  BY DEF Merge
<1> HIDE DEF kept, seen
<1> QED BY <1>4, <1>5, <1>6

-----------------------------------------------------------------------------
(* The Java loader's maps.                                                 *)

\* A sequence, of whatever.
IsList(map) == Len(map) \in Nat /\ map = [i \in 1 .. Len(map) |-> map[i]]

\* A map that holds these values, each key at one place.
Lists(map, values) ==
    /\ IsList(map)
    /\ \A i, j \in DOMAIN map : map[i].path = map[j].path => i = j
    /\ \A i \in DOMAIN map : map[i].path \in DOMAIN values /\ map[i].value = values[map[i].path]
    /\ \A key \in DOMAIN values : \E i \in DOMAIN map : map[i].path = key

\* The entry at i is one to take, and the last of the first k with its key.
LastEntry(entries, k, i) ==
    /\ entries[i] # Nothing
    /\ \A j \in 1 .. k : entries[j] # Nothing /\ entries[j][1].path = entries[i][1].path => j <= i

\* A map of what the first k entries say.
GatheredTo(map, entries, k) ==
    /\ IsList(map)
    /\ \A i, j \in DOMAIN map : map[i].path = map[j].path => i = j
    /\ \A j \in DOMAIN map : \E i \in 1 .. k : map[j] = entries[i][1] /\ LastEntry(entries, k, i)
    /\ \A i \in 1 .. k : entries[i] # Nothing => \E j \in DOMAIN map : map[j].path = entries[i][1].path

\* Lemma: a list of one element more.
LEMMA OneMore ==
    ASSUME NEW map, IsList(map), NEW x
    PROVE  /\ IsList(Append(map, x)) /\ Len(Append(map, x)) = Len(map) + 1
           /\ \A i \in 1 .. Len(map) : Append(map, x)[i] = map[i]
           /\ Append(map, x)[Len(map) + 1] = x
<1> DEFINE n == Len(map)
           S == {map[i] : i \in 1 .. n} \cup {x}
<1>1. n \in Nat /\ map \in [1 .. n -> S] /\ x \in S
  BY DEF IsList
<1> HIDE DEF S
<1>2. map \in Seq(S) /\ Append(map, x) \in Seq(S)
  BY <1>1
<1>3. Len(Append(map, x)) = n + 1
  BY <1>1, <1>2
<1>4. IsList(Append(map, x))
  <2>1. ASSUME NEW s \in Seq(S) PROVE IsList(s)
    <3>1. Len(s) \in Nat /\ s \in [1 .. Len(s) -> S]
      OBVIOUS
    <3>2. s = [i \in 1 .. Len(s) |-> s[i]]
      BY <3>1
    <3> QED BY <3>1, <3>2 DEF IsList
  <2> QED BY <1>2, <2>1
<1>5. /\ \A i \in 1 .. n : Append(map, x)[i] = map[i]
      /\ Append(map, x)[n + 1] = x
  BY <1>1, <1>2
<1> QED BY <1>3, <1>4, <1>5

\* Lemma: one more entry, put where its key is or at the end.
LEMMA GathersOne ==
    ASSUME NEW k \in Nat, NEW entries, NEW map, GatheredTo(map, entries, k)
    PROVE  GatheredTo(PutNext(map, entries[k + 1]), entries, k + 1)
<1> DEFINE new == entries[k + 1]
           next == PutNext(map, new)
           n == Len(map)
<1>1. 1 .. k + 1 = (1 .. k) \cup {k + 1} /\ n \in Nat /\ DOMAIN map = 1 .. n
  BY DEF GatheredTo, IsList
<1>2. CASE new = Nothing
  <2>1. next = map
    BY <1>2 DEF PutNext
  <2> HIDE DEF next, new
  <2>2. ASSUME NEW j \in DOMAIN map
        PROVE  \E i \in 1 .. k + 1 : map[j] = entries[i][1] /\ LastEntry(entries, k + 1, i)
    <3>1. PICK i \in 1 .. k : map[j] = entries[i][1] /\ LastEntry(entries, k, i)
      BY DEF GatheredTo
    <3>2. LastEntry(entries, k + 1, i)
      BY <1>1, <1>2, <3>1 DEF LastEntry, new
    <3> QED BY <1>1, <3>1, <3>2
  <2>3. \A i \in 1 .. k + 1 : entries[i] # Nothing =>
           \E j \in DOMAIN map : map[j].path = entries[i][1].path
    BY <1>1, <1>2 DEF GatheredTo, new
  <2>4. GatheredTo(map, entries, k + 1)
    BY <2>2, <2>3 DEF GatheredTo
  <2> QED BY <2>1, <2>4 DEF next, new
<1>3. CASE new # Nothing
  <2> DEFINE path == new[1].path
  <2>1. next = Put(map, new[1])
    BY <1>3 DEF PutNext
  <2>2. LastEntry(entries, k + 1, k + 1)
    BY <1>3 DEF LastEntry
  <2>3. ASSUME NEW j \in DOMAIN map, map[j].path # path
        PROVE  \E i \in 1 .. k + 1 : map[j] = entries[i][1] /\ LastEntry(entries, k + 1, i)
    <3>1. PICK i \in 1 .. k : map[j] = entries[i][1] /\ LastEntry(entries, k, i)
      BY DEF GatheredTo
    <3>2. LastEntry(entries, k + 1, i)
      BY <1>1, <2>3, <3>1 DEF LastEntry
    <3> QED BY <1>1, <3>1, <3>2
  <2>4. CASE \E i \in DOMAIN map : map[i].path = path
    <3>1. next = [i \in DOMAIN map |-> IF map[i].path = path THEN new[1] ELSE map[i]]
      BY <2>1, <2>4 DEF Put
    <3> HIDE DEF next, new
    <3>2. /\ DOMAIN next = 1 .. n
          /\ \A i \in 1 .. n : /\ next[i].path = map[i].path
                               /\ next[i] = IF map[i].path = path THEN new[1] ELSE map[i]
      <4>1. DOMAIN next = 1 .. n
        BY <1>1, <3>1
      <4>2. \A i \in 1 .. n : next[i] = IF map[i].path = path THEN new[1] ELSE map[i]
        BY <1>1, <3>1
      <4> QED BY <4>1, <4>2
    <3>3. Len(next) = n /\ IsList(next)
      BY <1>1, <3>1 DEF IsList
    <3>4. \A j \in DOMAIN next :
            \E i \in 1 .. k + 1 : next[j] = entries[i][1] /\ LastEntry(entries, k + 1, i)
      BY <1>1, <2>2, <2>3, <3>2 DEF new
    <3>5. ASSUME NEW i \in 1 .. k + 1, entries[i] # Nothing
          PROVE  \E j \in DOMAIN next : next[j].path = entries[i][1].path
      <4>1. \E j \in DOMAIN map : map[j].path = entries[i][1].path
        BY <1>1, <2>4, <3>5 DEF GatheredTo, new
      <4> QED BY <1>1, <3>2, <4>1
    <3>6. \A i, j \in DOMAIN next : next[i].path = next[j].path => i = j
      BY <1>1, <3>2 DEF GatheredTo
    <3> QED BY <1>1, <3>2, <3>3, <3>4, <3>5, <3>6 DEF GatheredTo, next, new
  <2>5. CASE ~ \E i \in DOMAIN map : map[i].path = path
    <3>1. next = Append(map, new[1])
      BY <2>1, <2>5 DEF Put
    <3> HIDE DEF next, new
    <3>2. /\ DOMAIN next = 1 .. n + 1 /\ Len(next) = n + 1 /\ IsList(next)
          /\ \A i \in 1 .. n : next[i] = map[i]
          /\ next[n + 1] = new[1]
      BY <1>1, <3>1, OneMore DEF GatheredTo, IsList
    <3>3. 1 .. n + 1 = (1 .. n) \cup {n + 1}
      BY <1>1
    <3>4. \A j \in DOMAIN next :
            \E i \in 1 .. k + 1 : next[j] = entries[i][1] /\ LastEntry(entries, k + 1, i)
      BY <1>1, <2>2, <2>3, <2>5, <3>2, <3>3 DEF new
    <3>5. \A i \in 1 .. k + 1 : entries[i] # Nothing =>
             \E j \in DOMAIN next : next[j].path = entries[i][1].path
      BY <1>1, <3>2, <3>3 DEF GatheredTo, new
    <3>6. \A i, j \in DOMAIN next : next[i].path = next[j].path => i = j
      BY <1>1, <2>5, <3>2, <3>3 DEF GatheredTo
    <3> QED BY <1>1, <3>2, <3>4, <3>5, <3>6 DEF GatheredTo, next, new
  <2> QED BY <2>4, <2>5
<1> QED BY <1>2, <1>3

\* For what they say of loops.
G == INSTANCE FoldLemmas WITH Op <- PutNext
I == INSTANCE FoldLemmas WITH Op <- InsertNext

\* Lemma: a loop that puts its entries has put them all.
LEMMA GathersAll ==
    ASSUME NEW n \in Nat, NEW entries, DOMAIN entries = 1 .. n
    PROVE  GatheredTo(Gathered(entries), entries, n)
<1>1. PICK acc : G!Chain(acc, <<>>, entries) /\ G!Fold(<<>>, entries) = acc[n]
  BY G!FoldIsChain
<1>2. Gathered(entries) = acc[n]
  <2>1. Gathered(entries) = G!Fold(<<>>, entries)
    BY DEF Gathered, G!Fold, G!FoldLeft, FoldLeft, G!MapThenFoldSet, MapThenFoldSet, G!Max, Max
  <2> QED BY <1>1, <2>1
<1> DEFINE S == {k \in Nat : k <= n => GatheredTo(acc[k], entries, k)}
<1>3. 0 \in S
  <2>1. acc[0] = <<>>
    BY <1>1 DEF G!Chain
  <2>2. GatheredTo(<<>>, entries, 0)
    BY DEF GatheredTo, IsList
  <2> QED BY <2>1, <2>2
<1>4. ASSUME NEW k \in Nat, k \in S PROVE k + 1 \in S
  <2> SUFFICES ASSUME k + 1 <= n PROVE GatheredTo(acc[k + 1], entries, k + 1)
    OBVIOUS
  <2>1. acc[k + 1] = PutNext(acc[k], entries[k + 1])
    <3>1. k + 1 \in 1 .. n /\ (k + 1) - 1 = k
      OBVIOUS
    <3> QED BY <1>1, <3>1 DEF G!Chain
  <2>2. GatheredTo(acc[k], entries, k)
    BY <1>4
  <2> QED BY <2>1, <2>2, GathersOne
<1>5. Nat \subseteq S
  <2> HIDE DEF S
  <2> QED BY <1>3, <1>4, N!NatSetInduction
<1> QED BY <1>2, <1>5

\* The entries that take what is kept of some items, and the last value of each key.
Taken(entries, items, kept, said) ==
    /\ DOMAIN entries = DOMAIN items
    /\ \A i \in DOMAIN items :
          entries[i] = IF i \in kept THEN <<Pair(items[i].path, said[i])>> ELSE Nothing

LastValues(values, items, kept, said) ==
    /\ DOMAIN values = {items[i].path : i \in kept}
    /\ \A i \in kept : (\A j \in kept : items[j].path = items[i].path => j <= i) =>
                           values[items[i].path] = said[i]

\* Lemma: a loop over items that puts some of them has made a map of the last of
\* each key.
LEMMA GatheredLists ==
    ASSUME NEW items, IsNames(items), NEW kept \in SUBSET DOMAIN items, NEW said,
           NEW entries, Taken(entries, items, kept, said),
           NEW values, LastValues(values, items, kept, said)
    PROVE  Lists(Gathered(entries), values)
<1> DEFINE n == Len(items)
           map == Gathered(entries)
<1> USE DEF Taken, LastValues
<1>1. n \in Nat /\ DOMAIN entries = 1 .. n /\ DOMAIN items = 1 .. n
  BY DEF IsNames
<1>2. GatheredTo(map, entries, n)
  BY <1>1, GathersAll
<1> HIDE DEF map
<1>3. \A i \in 1 .. n : (entries[i] # Nothing <=> i \in kept)
                        /\ (i \in kept => entries[i][1] = Pair(items[i].path, said[i]))
  BY <1>1 DEF Nothing
<1>4. ASSUME NEW j \in DOMAIN map
      PROVE  map[j].path \in DOMAIN values /\ map[j].value = values[map[j].path]
  <2>1. PICK i \in 1 .. n : map[j] = entries[i][1] /\ LastEntry(entries, n, i)
    BY <1>2 DEF GatheredTo
  <2>2. i \in kept /\ map[j].path = items[i].path /\ map[j].value = said[i]
    BY <1>3, <2>1 DEF LastEntry, Pair
  <2>3. \A k \in kept : items[k].path = items[i].path => k <= i
    BY <1>1, <1>3, <2>1, <2>2 DEF LastEntry, Pair
  <2> QED BY <2>2, <2>3
<1>5. ASSUME NEW key \in DOMAIN values PROVE \E j \in DOMAIN map : map[j].path = key
  <2>1. PICK i \in kept : items[i].path = key
    OBVIOUS
  <2>2. \E j \in DOMAIN map : map[j].path = entries[i][1].path
    BY <1>1, <1>2, <1>3 DEF GatheredTo
  <2> QED BY <1>1, <1>3, <2>1, <2>2 DEF Pair
<1> QED BY <1>2, <1>4, <1>5 DEF Lists, GatheredTo, map

\* Lemma: the last item of a key is the one that is kept for it.
LEMMA LastKept ==
    ASSUME NEW items, IsNames(items), NEW kept \in SUBSET DOMAIN items, NEW i \in kept,
           \A j \in kept : items[j].path = items[i].path => j <= i
    PROVE  LastByKey(items, kept)[items[i].path] = items[i]
<1> DEFINE key == items[i].path
           last == CHOOSE k \in kept : /\ items[k].path = key
                                       /\ \A j \in kept : items[j].path = key => j <= k
<1>1. LastByKey(items, kept)[key] = items[last]
  BY DEF LastByKey
<1>2. last \in kept /\ items[last].path = key /\ \A j \in kept : items[j].path = key => j <= last
  OBVIOUS
<1>3. kept \subseteq Nat
  BY DEF IsNames
<1> HIDE DEF last
<1>4. last = i
  BY <1>2, <1>3
<1> QED BY <1>1, <1>4

-----------------------------------------------------------------------------
(* What the Java loader reads.                                             *)

\* Lemma: both loaders refuse the same files, and know the same variables.
LEMMA SameReadings ==
    /\ \A name : JReserved(name) <=> IsReserved(name)
    /\ JSecretsRefused <=> SecretsRefused(mount)
    /\ JFilesRefused <=> FilesRefused(mount)
    /\ JPlainVars = PlainVars
    /\ JPlainKeys = PlainKeys
    /\ JExpand = Expand(mount)
    /\ \A key : JPlainEntries(key) = SpelledAs(key)
<1>1. \A name : JReserved(name) <=> IsReserved(name)
  BY DEF JReserved, IsReserved
<1>2. JSecretsRefused <=> SecretsRefused(mount)
  BY <1>1 DEF JSecretsRefused, SecretsRefused, JUsable, Usable
<1>3. JFilesRefused <=> FilesRefused(mount)
  BY <1>1 DEF JFilesRefused, FilesRefused
<1>4. JPlainVars = PlainVars
  BY <1>1 DEF JPlainVars, PlainVars
<1>5. JPlainKeys = PlainKeys
  BY <1>4 DEF JPlainKeys, PlainKeys
<1>6. JExpand = Expand(mount)
  BY DEF JExpand, Expand
<1>7. \A key : JPlainEntries(key) = SpelledAs(key)
  BY <1>4 DEF JPlainEntries, SpelledAs
<1> QED BY <1>1, <1>2, <1>3, <1>4, <1>5, <1>6, <1>7

\* Lemma: the map of the secrets directory holds what the Rust loader reads there.
LEMMA SecretsListed ==
    ASSUME process \in Processes, mount \in Mounts, ~SecretsRefused(mount)
    PROVE  Lists(JSecretsRead, SecretsRead(mount))
<1>1. CASE ~process.secretsDir
  <2>1. JSecretsRead = <<>> /\ SecretsRead(mount) = <<>>
    BY <1>1 DEF JSecretsRead, SecretsRead
  <2>2. Lists(<<>>, <<>>)
    BY DEF Lists, IsList
  <2> QED BY <2>1, <2>2
<1>2. CASE process.secretsDir
  <2> DEFINE items == mount.secrets[1]
             kept == {i \in DOMAIN items : Usable(items[i])}
             said == [i \in DOMAIN items |-> Secret(items[i])]
             entries == [i \in DOMAIN items |-> SecretEntry(items[i])]
             values == SecretsRead(mount)
             last == LastByKey(items, kept)
  <2>1. IsNames(items)
    BY <1>2, LayersAssumption DEF SecretsRefused
  <2>2. JSecretsRead = Gathered(entries)
    BY <1>2 DEF JSecretsRead
  <2>3. \A i \in DOMAIN items :
           entries[i] = IF i \in kept THEN <<Pair(items[i].path, said[i])>> ELSE Nothing
    BY DEF SecretEntry, JUsable, Usable
  <2>4. values = [key \in DOMAIN last |-> Secret(last[key])]
    BY <1>2 DEF SecretsRead, Secrets
  <2>5. DOMAIN last = {items[i].path : i \in kept}
    BY DEF LastByKey
  <2>6. kept \in SUBSET DOMAIN items /\ DOMAIN entries = DOMAIN items
    OBVIOUS
  <2>7. ASSUME NEW i \in kept, \A j \in kept : items[j].path = items[i].path => j <= i
        PROVE  values[items[i].path] = said[i]
    <3>1. last[items[i].path] = items[i]
      <4> HIDE DEF items, kept
      <4> QED BY <2>1, <2>6, <2>7, LastKept
    <3>2. items[i].path \in DOMAIN last /\ said[i] = Secret(items[i])
      BY <2>5
    <3> HIDE DEF items, kept, said, values, last
    <3> QED BY <2>4, <3>1, <3>2
  <2>8. DOMAIN values = {items[i].path : i \in kept}
    <3> HIDE DEF items, kept, said, values, last
    <3> QED BY <2>4, <2>5
  <2> HIDE DEF items, kept, said, values, last, entries
  <2>9. Taken(entries, items, kept, said) /\ LastValues(values, items, kept, said)
    BY <2>3, <2>6, <2>7, <2>8 DEF Taken, LastValues
  <2>10. Lists(Gathered(entries), values)
    BY <2>1, <2>6, <2>9, GatheredLists
  <2> QED BY <2>2, <2>10 DEF values
<1> QED BY <1>1, <1>2

\* Lemma: the map of the indirections holds what the Rust loader reads of them.
LEMMA FilesListed ==
    ASSUME process \in Processes
    PROVE  Lists(JFilesRead, FilesRead)
<1> DEFINE items == process.env
           kept == {i \in DOMAIN items : IsIndirection(items[i])}
           said == [i \in DOMAIN items |-> Target(items[i])]
           entries == [i \in DOMAIN items |-> FileEntry(items[i])]
           values == FilesRead
           last == LastByKey(items, kept)
<1>1. IsNames(items)
  BY LayersAssumption
<1>2. JFilesRead = Gathered(entries)
  BY DEF JFilesRead
<1>3. \A i \in DOMAIN items :
         entries[i] = IF i \in kept THEN <<Pair(items[i].path, said[i])>> ELSE Nothing
  BY DEF FileEntry, IsIndirection
<1>4. values = [key \in DOMAIN last |-> Target(last[key])]
  BY DEF FilesRead, Targets
<1>5. DOMAIN last = {items[i].path : i \in kept}
  BY DEF LastByKey
<1>6. kept \in SUBSET DOMAIN items /\ DOMAIN entries = DOMAIN items
  OBVIOUS
<1>7. ASSUME NEW i \in kept, \A j \in kept : items[j].path = items[i].path => j <= i
      PROVE  values[items[i].path] = said[i]
  <2>1. last[items[i].path] = items[i]
    <3> HIDE DEF items, kept
    <3> QED BY <1>1, <1>6, <1>7, LastKept
  <2>2. items[i].path \in DOMAIN last /\ said[i] = Target(items[i])
    BY <1>5
  <2> HIDE DEF items, kept, said, values, last
  <2> QED BY <1>4, <2>1, <2>2
<1>8. DOMAIN values = {items[i].path : i \in kept}
  <2> HIDE DEF items, kept, said, values, last
  <2> QED BY <1>4, <1>5
<1> HIDE DEF items, kept, said, values, last, entries
<1>9. Taken(entries, items, kept, said) /\ LastValues(values, items, kept, said)
  BY <1>3, <1>6, <1>7, <1>8 DEF Taken, LastValues
<1>10. Lists(Gathered(entries), values)
  BY <1>1, <1>6, <1>9, GatheredLists
<1> QED BY <1>2, <1>10 DEF values

\* Lemma: the paths of a map are its keys, and at each is its value.
LEMMA ListedValues ==
    ASSUME NEW map, NEW values, Lists(map, values)
    PROVE  /\ Paths(map) = DOMAIN values
           /\ map = <<>> <=> DOMAIN values = {}
           /\ \A key \in DOMAIN values : ValueAt(map, key) = values[key]
<1>1. IsList(map) /\ DOMAIN map = 1 .. Len(map)
  BY DEF Lists, IsList
<1>2. Paths(map) = DOMAIN values
  BY DEF Lists, Paths
<1>3. map = <<>> <=> DOMAIN values = {}
  <2>1. ASSUME map = <<>> PROVE DOMAIN values = {}
    BY <2>1 DEF Lists
  <2>2. ASSUME DOMAIN values = {} PROVE map = <<>>
    <3>1. 1 .. Len(map) = {}
      BY <1>1, <2>2 DEF Lists
    <3>2. Len(map) = 0
      BY <1>1, <3>1 DEF IsList
    <3> QED BY <1>1, <3>2 DEF IsList
  <2> QED BY <2>1, <2>2
<1>4. ASSUME NEW key \in DOMAIN values PROVE ValueAt(map, key) = values[key]
  <2> DEFINE e == CHOOSE e \in ToSet(map) : e.path = key
  <2>1. \E x \in ToSet(map) : x.path = key
    BY DEF Lists, ToSet
  <2>2. e \in ToSet(map) /\ e.path = key
    BY <2>1
  <2>3. ValueAt(map, key) = e.value
    BY DEF ValueAt
  <2> HIDE DEF e
  <2>4. PICK i \in DOMAIN map : e = map[i]
    BY <2>2 DEF ToSet
  <2> QED BY <2>2, <2>3, <2>4 DEF Lists
<1> QED BY <1>2, <1>3, <1>4

\* Lemma: what shadows what is the same to both loaders.
LEMMA SameShadows ==
    ASSUME NEW a, NEW s, Lists(a, s), NEW b, NEW f, Lists(b, f)
    PROVE  JShadowed(a, b) <=> Shadowed(s, f)
<1>1. Paths(a) = DOMAIN s /\ Paths(b) = DOMAIN f
  BY ListedValues
<1> QED BY <1>1, SameReadings DEF JShadowed, Shadowed

-----------------------------------------------------------------------------
(* What the Java loader merges.                                            *)

\* A layer, and a function.
IsTree(t) == IsLayer(t) /\ t = [q \in DOMAIN t |-> t[q]]

\* Lemma: what merges of trees are.
LEMMA MergeIsTree ==
    ASSUME NEW t, NEW over, IsLayer(t), IsLayer(over)
    PROVE  IsTree(Merge(t, over))
<1>1. IsLayer(Merge(t, over))
  BY MergeIsLayer
<1>2. Merge(t, over) = [q \in DOMAIN Merge(t, over) |-> Merge(t, over)[q]]
  <2> DEFINE kept == {q \in DOMAIN t : \A p \in (Parents(q) \cup {q}) \cap DOMAIN over : over[p] = Table}
  <2>1. Merge(t, over) = [q \in DOMAIN over \cup kept |-> IF q \in DOMAIN over THEN over[q] ELSE t[q]]
    BY DEF Merge, Overlay, Restrict
  <2> HIDE DEF kept
  <2> QED BY <2>1
<1> QED BY <1>1, <1>2 DEF IsTree

\* Lemma: the empty table changes nothing.
LEMMA MergeEmpty ==
    /\ IsTree(EmptyTable)
    /\ \A t : IsTree(t) => Merge(t, EmptyTable) = t
<1>1. IsLayer(EmptyTable)
  BY EmptySays DEF Says
<1>2. IsTree(EmptyTable)
  BY <1>1 DEF IsTree, EmptyTable
<1>3. ASSUME NEW t, IsTree(t) PROVE Merge(t, EmptyTable) = t
  <2> DEFINE m == Merge(t, EmptyTable)
  <2>1. IsTree(m)
    BY <1>1, <1>3, MergeIsTree DEF IsTree
  <2>2. /\ \A q \in DOMAIN EmptyTable : q \in DOMAIN m /\ m[q] = EmptyTable[q]
        /\ \A q \in DOMAIN m \ DOMAIN EmptyTable : q \in DOMAIN t /\ m[q] = t[q]
        /\ \A q \in DOMAIN t \ DOMAIN EmptyTable :
              q \in DOMAIN m <=> \A p \in Parents(q) \cap DOMAIN EmptyTable : EmptyTable[p] = Table
    BY <1>1, <1>3, MergeHolds DEF IsTree
  <2> HIDE DEF m
  <2>3. DOMAIN EmptyTable = {<<>>} /\ EmptyTable[<<>>] = Table
    BY DEF EmptyTable
  <2>4. <<>> \in DOMAIN t /\ t[<<>>] = Table
    BY <1>3 DEF IsTree, IsLayer
  <2>5. DOMAIN m = DOMAIN t /\ \A q \in DOMAIN t : m[q] = t[q]
    BY <2>2, <2>3, <2>4
  <2>6. m = [q \in DOMAIN m |-> m[q]] /\ t = [q \in DOMAIN t |-> t[q]]
    BY <1>3, <2>1 DEF IsTree
  <2>7. m = t
    BY <2>5, <2>6
  <2> QED BY <2>7 DEF m
<1> QED BY <1>2, <1>3

\* An entry and the layer it comes to.
Nests(entry, layer) ==
    \/ entry = Nothing /\ layer = EmptyTable
    \/ \E pair : /\ pair.path \in KeyPaths /\ pair.value # Table
                  /\ entry = <<pair>> /\ layer = Nest(pair.path, pair.value)

\* Lemma: the next entry inserted is the next layer merged.
LEMMA InsertsOne ==
    ASSUME NEW dict, IsTree(dict), NEW entry, NEW layer, Nests(entry, layer)
    PROVE  InsertNext(dict, entry) = Merge(dict, layer) /\ IsTree(Merge(dict, layer))
<1>1. CASE entry = Nothing /\ layer = EmptyTable
  BY <1>1, MergeEmpty DEF InsertNext
<1>2. ASSUME NEW pair, pair.path \in KeyPaths, pair.value # Table,
             entry = <<pair>>, layer = Nest(pair.path, pair.value)
      PROVE  InsertNext(dict, entry) = Merge(dict, layer) /\ IsTree(Merge(dict, layer))
  <2> DEFINE path == pair.path
             value == pair.value
  <2>1. InsertNext(dict, entry) = InsertNested(dict, path, value)
    BY <1>2 DEF InsertNext, Nothing
  <2>2. InsertNested(dict, path, value) = Merge(dict, Nest(path, value))
    BY <1>2, InsertIsMerge DEF IsTree
  <2>3. IsLayer(layer)
    <3> DEFINE top == [q \in {path} |-> value]
    <3>1. top[path] = value
      OBVIOUS
    <3> HIDE DEF top
    <3>2. Says(layer, {path}, top)
      BY <1>2, <3>1, NestSays
    <3> QED BY <3>2 DEF Says
  <2> QED BY <1>2, <2>1, <2>2, <2>3, MergeIsTree DEF IsTree
<1> QED BY <1>1, <1>2 DEF Nests

\* Lemma: entries inserted one after the other are layers merged so.
LEMMA InsertedIsMerged ==
    ASSUME NEW base, IsTree(base), NEW n \in Nat, NEW entries, DOMAIN entries = 1 .. n,
           NEW layers, DOMAIN layers = 1 .. n, \A i \in 1 .. n : Nests(entries[i], layers[i])
    PROVE  /\ Inserted(base, entries) = FoldLeft(Merge, base, layers)
           /\ IsTree(Inserted(base, entries))
<1>1. PICK made : I!Chain(made, base, entries) /\ I!Fold(base, entries) = made[n]
  BY I!FoldIsChain
<1>2. Inserted(base, entries) = made[n]
  <2>1. Inserted(base, entries) = I!Fold(base, entries)
    BY DEF Inserted, I!Fold, I!FoldLeft, FoldLeft, I!MapThenFoldSet, MapThenFoldSet, I!Max, Max
  <2> QED BY <1>1, <2>1
<1>3. PICK acc : N!Chain(acc, base, layers) /\ N!Fold(base, layers) = acc[n]
  BY N!FoldIsChain
<1>4. FoldLeft(Merge, base, layers) = acc[n]
  <2>1. FoldLeft(Merge, base, layers) = N!Fold(base, layers)
    BY DEF N!Fold, N!FoldLeft, FoldLeft, N!MapThenFoldSet, MapThenFoldSet, N!Max, Max
  <2> QED BY <1>3, <2>1
<1> DEFINE S == {k \in Nat : k <= n => made[k] = acc[k] /\ IsTree(acc[k])}
<1>5. 0 \in S
  BY <1>1, <1>3 DEF I!Chain, N!Chain
<1>6. ASSUME NEW k \in Nat, k \in S PROVE k + 1 \in S
  <2> SUFFICES ASSUME k + 1 <= n PROVE made[k + 1] = acc[k + 1] /\ IsTree(acc[k + 1])
    OBVIOUS
  <2>1. k + 1 \in 1 .. n /\ (k + 1) - 1 = k /\ k <= n
    OBVIOUS
  <2>2. made[k + 1] = InsertNext(made[k], entries[k + 1])
    BY <1>1, <2>1 DEF I!Chain
  <2>3. acc[k + 1] = Merge(acc[k], layers[k + 1])
    BY <1>3, <2>1 DEF N!Chain
  <2>4. made[k] = acc[k] /\ IsTree(acc[k]) /\ Nests(entries[k + 1], layers[k + 1])
    BY <1>6, <2>1
  <2> QED BY <2>2, <2>3, <2>4, InsertsOne
<1>7. Nat \subseteq S
  <2> HIDE DEF S
  <2> QED BY <1>5, <1>6, N!NatSetInduction
<1> QED BY <1>2, <1>4, <1>7

\* Lemma: the environments of both are one.
LEMMA SameEnvironment ==
    ASSUME process \in Processes
    PROVE  JEnvironmentLayer = EnvLayer /\ IsTree(EnvLayer)
<1> DEFINE env == process.env
           n == Len(env)
           entries == [i \in DOMAIN env |-> EnvEntry(env[i])]
           layer(v) == IF IsValue(v) THEN Nest(v.path, Env(v)) ELSE EmptyTable
           layers == [i \in DOMAIN env |-> layer(env[i])]
<1>1. n \in Nat /\ DOMAIN env = 1 .. n /\ \A i \in 1 .. n : env[i].path \in KeyPaths
  BY LayersAssumption DEF IsNames, KeyPaths
<1>2. ASSUME NEW i \in 1 .. n PROVE Nests(entries[i], layers[i])
  <2>1. Env(env[i]) # Table
    BY <1>1, LayersAssumption DEF ToSet
  <2>2. CASE IsValue(env[i])
    <3> DEFINE pair == Pair(env[i].path, Env(env[i]))
    <3>1. entries[i] = <<pair>> /\ layers[i] = Nest(env[i].path, Env(env[i]))
      BY <1>1, <2>2, SameReadings DEF EnvEntry, IsValue
    <3>2. pair.path = env[i].path /\ pair.value = Env(env[i])
      BY DEF Pair
    <3> HIDE DEF pair
    <3> QED BY <1>1, <2>1, <3>1, <3>2 DEF Nests
  <2>3. CASE ~IsValue(env[i])
    <3>1. entries[i] = Nothing /\ layers[i] = EmptyTable
      BY <1>1, <2>3, SameReadings DEF EnvEntry, IsValue
    <3> QED BY <3>1 DEF Nests
  <2> QED BY <2>2, <2>3
<1>3. JEnvironmentLayer = Inserted(EmptyTable, entries)
  BY DEF JEnvironmentLayer
<1>4. EnvLayer = FoldLeft(Merge, EmptyTable, layers)
  BY DEF EnvLayer
<1>5. DOMAIN entries = 1 .. n /\ DOMAIN layers = 1 .. n
  BY <1>1
<1> HIDE DEF entries, layers, n
<1>6. /\ Inserted(EmptyTable, entries) = FoldLeft(Merge, EmptyTable, layers)
      /\ IsTree(Inserted(EmptyTable, entries))
  BY <1>1, <1>2, <1>5, MergeEmpty, InsertedIsMerged
<1> QED BY <1>3, <1>4, <1>6

\* Lemma: a map inserted says its values, over what was said.
LEMMA MapSays ==
    ASSUME NEW base, IsTree(base), NEW low, NEW below, Says(base, low, below),
           NEW values, FileValues(values), NEW map, Lists(map, values), NEW top,
           \A q \in low \cup DOMAIN values :
              top[q] = IF q \in DOMAIN values THEN values[q] ELSE below[q]
    PROVE  /\ Says(Inserted(base, Each(map)), low \cup DOMAIN values, top)
           /\ IsTree(Inserted(base, Each(map)))
<1> DEFINE n == Len(map)
           layers == [i \in 1 .. n |-> Nest(map[i].path, map[i].value)]
           keys == [i \in 1 .. n |-> {map[i].path}]
           said == [i \in 1 .. n |-> values]
           all == SaidBy(low, keys, n)
<1>1. /\ n \in Nat /\ DOMAIN map = 1 .. n
      /\ \A i \in 1 .. n : /\ map[i].path \in DOMAIN values /\ map[i].path \in KeyPaths
                           /\ map[i].value = values[map[i].path] /\ map[i].value # Table
      /\ \A key \in DOMAIN values : \E i \in 1 .. n : map[i].path = key
  BY DEF Lists, IsList, FileValues
<1>2. DOMAIN layers = 1 .. n /\ DOMAIN Each(map) = 1 .. n
  BY <1>1 DEF Each
<1>3. ASSUME NEW i \in 1 .. n PROVE Nests(Each(map)[i], layers[i]) /\ Says(layers[i], keys[i], said[i])
  <2>1. Each(map)[i] = <<map[i]>>
    BY <1>1 DEF Each
  <2>2. layers[i] = Nest(map[i].path, map[i].value)
    OBVIOUS
  <2>3. said[i][map[i].path] = map[i].value
    BY <1>1
  <2>4. keys[i] = {map[i].path}
    OBVIOUS
  <2> HIDE DEF layers, keys, said
  <2>5. Says(layers[i], keys[i], said[i])
    BY <1>1, <2>2, <2>3, <2>4, NestSays
  <2> QED BY <1>1, <2>1, <2>2, <2>5 DEF Nests
<1>4. all = low \cup DOMAIN values
  BY <1>1 DEF SaidBy
<1> HIDE DEF layers, keys, said
<1>5. Inserted(base, Each(map)) = FoldLeft(Merge, base, layers) /\ IsTree(Inserted(base, Each(map)))
  BY <1>1, <1>2, <1>3, InsertedIsMerged
<1>6. Says(FoldLeft(Merge, base, layers), all, [q \in all |-> LastSaid(q, below, keys, said, n)])
  BY <1>1, <1>2, <1>3, FoldSays
<1>7. ASSUME NEW q \in all
      PROVE  LastSaid(q, below, keys, said, n) = IF q \in DOMAIN values THEN values[q] ELSE below[q]
  <2>1. Singly(n, keys, said, values)
    BY <1>1 DEF keys, said, Singly
  <2> QED BY <1>1, <2>1, SaidOnce
<1>8. \A q \in all : [p \in all |-> LastSaid(p, below, keys, said, n)][q] = top[q]
  BY <1>4, <1>7
<1> HIDE DEF all
<1>9. Says(FoldLeft(Merge, base, layers), all, top)
  BY <1>6, <1>8, SaysSame
<1> QED BY <1>4, <1>5, <1>9

\* Lemma: what is under the file layers says the leaves of the fragments and the
\* variables.
LEMMA UnderFilesSays ==
    ASSUME process \in Processes, NEW n \in Nat, NEW fragments, DOMAIN fragments = 1 .. n,
           \A i \in 1 .. n : IsFragment(fragments[i])
    PROVE  LET under == Merge(FoldLeft(Merge, EmptyTable, fragments), EnvLayer)
               keys == (UNION {LeafKeys(fragments[i]) : i \in 1 .. n}) \cup EnvKeys
           IN  /\ IsTree(FoldLeft(Merge, EmptyTable, fragments)) /\ IsTree(under)
               /\ \E top : Says(under, keys, top)
<1> DEFINE leaves == [i \in 1 .. n |-> LeafKeys(fragments[i])]
           docs == SaidBy({}, leaves, n)
           doc == [q \in docs |-> LastSaid(q, <<>>, leaves, fragments, n)]
           env == [q \in EnvKeys |-> Env(LastByKey(process.env, Values)[q])]
           low == [q \in docs \cup EnvKeys |-> IF q \in EnvKeys THEN env[q] ELSE doc[q]]
           tables == FoldLeft(Merge, EmptyTable, fragments)
<1>1. Says(tables, docs, doc)
  <2>1. \A i \in 1 .. n : Says(fragments[i], leaves[i], fragments[i])
    BY FragmentSays
  <2> HIDE DEF leaves
  <2> QED BY <2>1, EmptySays, FoldSays
<1>2. Says(EnvLayer, EnvKeys, env)
  BY LayersAssumption, EnvSays
<1>3. Says(Merge(tables, EnvLayer), docs \cup EnvKeys, low)
  <2>1. \A q \in docs \cup EnvKeys : low[q] = IF q \in EnvKeys THEN env[q] ELSE doc[q]
    OBVIOUS
  <2> HIDE DEF low, docs, doc, env, tables
  <2> QED BY <1>1, <1>2, <2>1, MergeSays
<1>4. docs = UNION {LeafKeys(fragments[i]) : i \in 1 .. n}
  BY DEF SaidBy
<1>5. IsTree(Merge(tables, EnvLayer))
  BY <1>1, <1>2, MergeIsTree DEF Says
<1>6. IsTree(tables)
  <2>1. PICK acc : N!Chain(acc, EmptyTable, fragments) /\ N!Fold(EmptyTable, fragments) = acc[n]
    BY N!FoldIsChain
  <2>2. tables = acc[n]
    <3>1. tables = N!Fold(EmptyTable, fragments)
      BY DEF N!Fold, N!FoldLeft, FoldLeft, N!MapThenFoldSet, MapThenFoldSet, N!Max, Max
    <3> QED BY <2>1, <3>1
  <2> DEFINE S == {k \in Nat : k <= n => IsTree(acc[k])}
  <2>3. 0 \in S
    BY <2>1, MergeEmpty DEF N!Chain
  <2>4. ASSUME NEW k \in Nat, k \in S PROVE k + 1 \in S
    <3> SUFFICES ASSUME k + 1 <= n PROVE IsTree(acc[k + 1])
      OBVIOUS
    <3>1. k + 1 \in 1 .. n /\ (k + 1) - 1 = k /\ k <= n
      OBVIOUS
    <3>2. acc[k + 1] = Merge(acc[k], fragments[k + 1])
      BY <2>1, <3>1 DEF N!Chain
    <3>3. IsLayer(acc[k])
      BY <2>4, <3>1 DEF IsTree
    <3>4. IsLayer(fragments[k + 1])
      BY <3>1 DEF IsFragment, IsLayer
    <3> QED BY <3>2, <3>3, <3>4, MergeIsTree
  <2>5. Nat \subseteq S
    <3> HIDE DEF S
    <3> QED BY <2>3, <2>4, N!NatSetInduction
  <2> QED BY <2>2, <2>5
<1> HIDE DEF docs, low, tables
<1>7. Says(Merge(tables, EnvLayer), (UNION {LeafKeys(fragments[i]) : i \in 1 .. n}) \cup EnvKeys, low)
  BY <1>3, <1>4
<1> QED BY <1>5, <1>6, <1>7 DEF tables

\* Lemma: the file layer says the secrets, and the indirections over them.
LEMMA FilesSay ==
    ASSUME NEW s, FileValues(s), NEW f, FileValues(f), NEW a, Lists(a, s), NEW b, Lists(b, f),
           NEW file, \A q \in DOMAIN s \cup DOMAIN f :
                        file[q] = IF q \in DOMAIN f THEN f[q] ELSE s[q]
    PROVE  /\ Says(FileLayer(s, f), DOMAIN s \cup DOMAIN f, file)
           /\ Says(JFileLayer(a, b), DOMAIN s \cup DOMAIN f, file)
<1>1. Says(EmptyTable, {}, <<>>) /\ IsTree(EmptyTable)
  BY EmptySays, MergeEmpty
<1>2. {} \cup DOMAIN s = DOMAIN s
  OBVIOUS
<1>3. Says(FoldLeft(Merge, EmptyTable, Nested(s)), {} \cup DOMAIN s, s)
  BY <1>1, NestedSays
<1>4. Says(FileLayer(s, f), DOMAIN s \cup DOMAIN f, file)
  BY <1>2, <1>3, NestedSays DEF FileLayer
<1>5. /\ Says(Inserted(EmptyTable, Each(a)), {} \cup DOMAIN s, s)
      /\ IsTree(Inserted(EmptyTable, Each(a)))
  BY <1>1, MapSays
<1>6. Says(JFileLayer(a, b), DOMAIN s \cup DOMAIN f, file)
  BY <1>2, <1>5, MapSays DEF JFileLayer
<1> QED BY <1>4, <1>6

\* What a Java load makes of the environment over the files.
JOver(under, a, b) == IF FilesEmpty(a, b) THEN under ELSE DeepMerge(under, JFileLayer(a, b))

\* Lemma: over the same tree the file layers of both come to the same value of
\* every key that no other key cuts through.
LEMMA TreesAgree ==
    ASSUME NEW under, IsTree(under), NEW low, NEW below, Says(under, low, below),
           NEW s, FileValues(s), NEW f, FileValues(f), NEW a, Lists(a, s), NEW b, Lists(b, f),
           NEW path \in low \cup (DOMAIN s \cup DOMAIN f),
           Clear(path, low \cup (DOMAIN s \cup DOMAIN f))
    PROVE  /\ path \in DOMAIN JOver(under, a, b)
           /\ JOver(under, a, b)[path] = Merge(under, FileLayer(s, f))[path]
<1> DEFINE mounted == DOMAIN s \cup DOMAIN f
           keys == low \cup mounted
           file == [q \in mounted |-> IF q \in DOMAIN f THEN f[q] ELSE s[q]]
           top == [q \in keys |-> IF q \in mounted THEN file[q] ELSE below[q]]
           all == JOver(under, a, b)
           theirs == Merge(under, FileLayer(s, f))
<1>1. /\ \A q \in mounted : file[q] = IF q \in DOMAIN f THEN f[q] ELSE s[q]
      /\ \A q \in keys : top[q] = IF q \in mounted THEN file[q] ELSE below[q]
  OBVIOUS
<1> HIDE DEF file, top
<1>2. Says(FileLayer(s, f), mounted, file) /\ Says(JFileLayer(a, b), mounted, file)
  BY <1>1, FilesSay
<1>3. Says(theirs, keys, top)
  <2> HIDE DEF mounted
  <2> QED BY <1>1, <1>2, MergeSays
<1>4. Says(all, keys, top)
  <2>1. CASE FilesEmpty(a, b)
    <3>1. mounted = {}
      BY <2>1, ListedValues DEF FilesEmpty
    <3>2. keys = low /\ \A q \in low : below[q] = top[q]
      BY <1>1, <3>1
    <3> HIDE DEF keys
    <3>3. Says(under, keys, top)
      BY <3>2, SaysSame
    <3> QED BY <2>1, <3>3 DEF JOver
  <2>2. CASE ~FilesEmpty(a, b)
    <3>1. DeepMerge(under, JFileLayer(a, b)) = Merge(under, JFileLayer(a, b))
      BY <1>2, DeepMergeIsMerge DEF Says, IsTree
    <3> HIDE DEF mounted
    <3>2. Says(Merge(under, JFileLayer(a, b)), keys, top)
      BY <1>1, <1>2, MergeSays
    <3> QED BY <2>2, <3>1, <3>2 DEF JOver
  <2> QED BY <2>1, <2>2
<1>5. path \in keys /\ ~Over(path, keys) /\ ~Within(path, keys)
  BY DEF Clear, Over, Within
<1> HIDE DEF all, theirs, keys
<1>6. path \in DOMAIN all /\ all[path] = top[path] /\ theirs[path] = top[path]
  BY <1>3, <1>4, <1>5 DEF Says
<1> QED BY <1>6 DEF all, theirs

-----------------------------------------------------------------------------
(* What the Java loader reports.                                           *)

\* Lemma: of a fragment both reports know the same keys.
LEMMA SameFragmentKeys ==
    ASSUME mount \in Mounts, NEW fragment
    PROVE  JFragmentKeys(fragment) = FragmentKeys(mount, fragment)
<1>1. CASE fragment \notin DOMAIN mount.doc
  <2>1. ReadFragment(mount, fragment) = EmptyTable
    BY <1>1 DEF ReadFragment
  <2>2. FragmentKeys(mount, fragment) = {}
    BY <2>1, EmptyFragment DEF FragmentKeys
  <2> QED BY <1>1, <2>2 DEF JFragmentKeys
<1>2. CASE fragment \in DOMAIN mount.doc /\ mount.doc[fragment] = Unparseable
  BY <1>2 DEF JFragmentKeys, FragmentKeys, ReadFragment
<1>3. CASE fragment \in DOMAIN mount.doc /\ mount.doc[fragment] # Unparseable
  <2> DEFINE table == mount.doc[fragment]
             below(q) == Subtree(table, q) \ {q}
  <2>1. JFragmentKeys(fragment) = {q \in DOMAIN table \ {<<>>} : table[q] # Table \/ below(q) = {}}
    BY <1>3 DEF JFragmentKeys
  <2>2. FragmentKeys(mount, fragment) = LeafKeys(table)
    BY <1>3 DEF FragmentKeys, ReadFragment
  <2>3. \A q : below(q) = {} <=> ~ \E r \in DOMAIN table : IsStrictPrefix(q, r)
    BY DEF Subtree, IsStrictPrefix
  <2> HIDE DEF table, below
  <2> QED BY <2>1, <2>2, <2>3 DEF LeafKeys
<1> QED BY <1>1, <1>2, <1>3

\* Lemma: of mounts that are read both reports are one.
LEMMA SameReport ==
    ASSUME process \in Processes, mount \in Mounts, ~SecretsRefused(mount)
    PROVE  JExplanation(JSecretsRead, JFilesRead) = Explanation(mount)
<1> DEFINE a == JSecretsRead
           b == JFilesRead
           s == SecretsRead(mount)
           f == FilesRead
<1>1. Lists(a, s) /\ Lists(b, f)
  BY SecretsListed, FilesListed
<1> HIDE DEF a, b, s, f
<1>2. /\ Paths(a) = DOMAIN s /\ \A key \in DOMAIN s : ValueAt(a, key) = s[key]
      /\ Paths(b) = DOMAIN f /\ \A key \in DOMAIN f : ValueAt(b, key) = f[key]
  BY <1>1, ListedValues
<1>3. \A fragment : JFragmentKeys(fragment) = FragmentKeys(mount, fragment)
  BY SameFragmentKeys
<1>4. JExpand = Expand(mount) /\ JPlainKeys = PlainKeys
  BY SameReadings
<1> DEFINE all == (UNION {FragmentKeys(mount, fragment) : fragment \in ToSet(Expand(mount))})
                    \cup PlainKeys \cup DOMAIN s \cup DOMAIN f
<1>5. ASSUME NEW key PROVE JSources(a, b, key) = Suppliers(mount, key)
  <2> DEFINE fragments == Expand(mount)
             mine == {i \in DOMAIN fragments : key \in JFragmentKeys(fragments[i])}
             theirs == {i \in DOMAIN fragments : key \in FragmentKeys(mount, fragments[i])}
             order(set) == Listing(set, [i \in set |-> i])
             docs(set) == [i \in DOMAIN order(set) |-> Toml(fragments[order(set)[i]])]
             variables == [i \in DOMAIN SpelledAs(key) |-> Env(SpelledAs(key)[i])]
             at(map) == IF key \in Paths(map) THEN <<ValueAt(map, key)>> ELSE <<>>
  <2>1. mine = theirs
    BY <1>3
  <2>2. JPlainEntries(key) = SpelledAs(key)
    BY SameReadings
  <2>3. JSources(a, b, key) = docs(mine) \o variables \o at(a) \o at(b)
    BY <1>4, <2>2 DEF JSources
  <2>4. Suppliers(mount, key) = docs(theirs) \o variables \o Under(key, s) \o Under(key, f)
    BY DEF Suppliers, s, f
  <2>5. at(a) = Under(key, s) /\ at(b) = Under(key, f)
    BY <1>2 DEF Under
  <2> HIDE DEF mine, theirs, docs, variables, at
  <2> QED BY <2>1, <2>3, <2>4, <2>5
<1>6. JExplanation(a, b) = [key \in all |-> JSources(a, b, key)]
  BY <1>2, <1>3, <1>4 DEF JExplanation
<1>7. Explanation(mount) = [key \in all |-> Suppliers(mount, key)]
  BY DEF Explanation, s, f
<1> HIDE DEF all
<1>8. JExplanation(a, b) = Explanation(mount)
  BY <1>5, <1>6, <1>7
<1> QED BY <1>8 DEF a, b

-----------------------------------------------------------------------------
(* A Java load that saw no swap.                                           *)

\* What the fragments hold, and what the first k of them come to.
ReadNow == [i \in DOMAIN Expand(mount) |-> ReadFragment(mount, Expand(mount)[i])]
MergedTo(k) == FoldLeft(Merge, EmptyTable, [i \in 1 .. k |-> ReadNow[i]])

\* Lemma: the fragments are those of the listing, each a table unless it is not TOML.
LEMMA ReadsAll ==
    ASSUME mount \in Mounts
    PROVE  LET n == Len(Expand(mount))
           IN  /\ n \in Nat /\ DOMAIN Expand(mount) = 1 .. n /\ DOMAIN ReadNow = 1 .. n
               /\ \A i \in 1 .. n : /\ ReadNow[i] = ReadFragment(mount, Expand(mount)[i])
                                    /\ ReadNow[i] = Unparseable \/ IsFragment(ReadNow[i])
               /\ MergedTo(0) = EmptyTable
               /\ MergedTo(n) = FoldLeft(Merge, EmptyTable, ReadNow)
<1> DEFINE n == Len(Expand(mount))
<1>1. n \in Nat /\ DOMAIN Expand(mount) = 1 .. n
  BY ExpandLists
<1>2. ReadNow = [i \in 1 .. n |-> ReadNow[i]] /\ DOMAIN ReadNow = 1 .. n
  BY <1>1 DEF ReadNow
<1>3. \A i \in 1 .. n : ReadNow[i] = ReadFragment(mount, Expand(mount)[i])
  BY <1>1 DEF ReadNow
<1>4. MergedTo(n) = FoldLeft(Merge, EmptyTable, ReadNow)
  BY <1>2 DEF MergedTo
<1>5. MergedTo(0) = EmptyTable
  <2> DEFINE none == [i \in 1 .. 0 |-> ReadNow[i]]
  <2>1. DOMAIN none = 1 .. 0
    OBVIOUS
  <2> HIDE DEF none
  <2>2. PICK acc : N!Chain(acc, EmptyTable, none) /\ N!Fold(EmptyTable, none) = acc[0]
    BY <2>1, N!FoldIsChain
  <2>3. FoldLeft(Merge, EmptyTable, none) = N!Fold(EmptyTable, none)
    BY DEF N!Fold, N!FoldLeft, FoldLeft, N!MapThenFoldSet, MapThenFoldSet, N!Max, Max
  <2>4. MergedTo(0) = FoldLeft(Merge, EmptyTable, none)
    BY DEF MergedTo, none
  <2> QED BY <2>2, <2>3, <2>4 DEF N!Chain
<1> QED BY <1>1, <1>2, <1>3, <1>4, <1>5, ReadsFragments

\* Lemma: a fragment that the Java loader merges is one step of the merge.
LEMMA MergesOne ==
    ASSUME process \in Processes, mount \in Mounts, NEW k \in Nat, k + 1 <= Len(Expand(mount)),
           \A i \in 1 .. k + 1 : ReadNow[i] # Unparseable
    PROVE  DeepMerge(MergedTo(k), ReadNow[k + 1]) = MergedTo(k + 1)
<1> DEFINE short == [i \in 1 .. k |-> ReadNow[i]]
           long == [i \in 1 .. k + 1 |-> ReadNow[i]]
<1>1. \A i \in 1 .. k + 1 : IsFragment(ReadNow[i])
  BY ReadsAll
<1>2. /\ DOMAIN short = 1 .. k /\ DOMAIN long = 1 .. k + 1
      /\ \A i \in 1 .. k : long[i] = short[i] /\ IsFragment(short[i])
      /\ long[k + 1] = ReadNow[k + 1]
  <2>1. \A i \in 1 .. k : i \in 1 .. k + 1
    OBVIOUS
  <2> QED BY <1>1, <2>1
<1>3. MergedTo(k) = FoldLeft(Merge, EmptyTable, short)
      /\ MergedTo(k + 1) = FoldLeft(Merge, EmptyTable, long)
  BY DEF MergedTo
<1> HIDE DEF short, long
<1>4. N!Fold(EmptyTable, long) = Merge(N!Fold(EmptyTable, short), long[k + 1])
  BY <1>2, N!FoldOneMore
<1>5. \A seq : FoldLeft(Merge, EmptyTable, seq) = N!Fold(EmptyTable, seq)
  BY DEF N!Fold, N!FoldLeft, FoldLeft, N!MapThenFoldSet, MapThenFoldSet, N!Max, Max
<1>6. IsTree(MergedTo(k))
  BY <1>2, <1>3, UnderFilesSays
<1>7. IsLayer(ReadNow[k + 1])
  <2>1. k + 1 \in 1 .. k + 1
    OBVIOUS
  <2> QED BY <1>1, <2>1 DEF IsFragment, IsLayer
<1>8. DeepMerge(MergedTo(k), ReadNow[k + 1]) = Merge(MergedTo(k), ReadNow[k + 1])
  BY <1>6, <1>7, DeepMergeIsMerge DEF IsTree
<1>9. MergedTo(k + 1) = Merge(MergedTo(k), long[k + 1])
  <2>1. /\ FoldLeft(Merge, EmptyTable, short) = N!Fold(EmptyTable, short)
        /\ FoldLeft(Merge, EmptyTable, long) = N!Fold(EmptyTable, long)
    BY <1>5
  <2> QED BY <1>3, <1>4, <2>1
<1> QED BY <1>2, <1>8, <1>9

\* What a Java load makes of the fragments it has merged.
JTree(tables, a, b) == JOver(DeepMerge(tables, JEnvironmentLayer), a, b)

\* Lemma: both loaders come to the same value of every clear key.
LEMMA SameTree ==
    ASSUME process \in Processes, mount \in Mounts, ~SecretsRefused(mount),
           \A i \in DOMAIN ReadNow : ReadNow[i] # Unparseable, NEW path \in ClearPaths
    PROVE  LET all == JTree(MergedTo(Len(Expand(mount))), JSecretsRead, JFilesRead)
           IN  path \in DOMAIN all /\ all[path] = RustTree[path]
<1> DEFINE n == Len(Expand(mount))
           tables == FoldLeft(Merge, EmptyTable, ReadNow)
           under == Merge(tables, EnvLayer)
           docs == UNION {LeafKeys(ReadNow[i]) : i \in 1 .. n}
           s == SecretsRead(mount)
           f == FilesRead
           all == JTree(MergedTo(n), JSecretsRead, JFilesRead)
<1>1. /\ n \in Nat /\ DOMAIN ReadNow = 1 .. n /\ MergedTo(n) = tables
      /\ DOMAIN Expand(mount) = 1 .. n
      /\ \A i \in 1 .. n : /\ ReadNow[i] = ReadFragment(mount, Expand(mount)[i])
                           /\ IsFragment(ReadNow[i])
  BY ReadsAll
<1>2. /\ IsTree(tables) /\ IsTree(under) /\ \E top : Says(under, docs \cup EnvKeys, top)
  BY <1>1, UnderFilesSays
<1>3. FileValues(s) /\ FileValues(f) /\ Lists(JSecretsRead, s) /\ Lists(JFilesRead, f)
  BY ReadsValues, SecretsListed, FilesListed
<1>4. JTree(tables, JSecretsRead, JFilesRead) = JOver(under, JSecretsRead, JFilesRead)
  <2>1. DeepMerge(tables, JEnvironmentLayer) = under
    BY <1>2, SameEnvironment, DeepMergeIsMerge DEF IsTree
  <2> HIDE DEF tables, under
  <2> QED BY <2>1 DEF JTree
<1>5. RustTree = Merge(under, FileLayer(s, f))
  <2>1. RustTree = Merged(ReadNow, s, f)
    BY DEF RustTree, ReadNow
  <2> QED BY <2>1 DEF Merged
<1>6. DOMAIN Explanation(mount) = (docs \cup EnvKeys) \cup (DOMAIN s \cup DOMAIN f)
  <2> DEFINE keys == UNION {FragmentKeys(mount, fragment) : fragment \in ToSet(Expand(mount))}
  <2>1. \A i \in 1 .. n : FragmentKeys(mount, Expand(mount)[i]) = LeafKeys(ReadNow[i])
    BY <1>1 DEF FragmentKeys
  <2>2. keys = docs
    BY <1>1, <2>1 DEF ToSet
  <2>3. EnvKeys = PlainKeys
    BY DEF EnvKeys, PlainKeys, PlainVars, IsValue
  <2>4. DOMAIN Explanation(mount) = keys \cup PlainKeys \cup DOMAIN s \cup DOMAIN f
    BY DEF Explanation
  <2> HIDE DEF keys, docs, s, f
  <2> QED BY <2>2, <2>3, <2>4
<1>7. /\ path \in (docs \cup EnvKeys) \cup (DOMAIN s \cup DOMAIN f)
      /\ Clear(path, (docs \cup EnvKeys) \cup (DOMAIN s \cup DOMAIN f))
  <2> HIDE DEF docs, s, f
  <2> QED BY <1>6 DEF ClearPaths
<1> HIDE DEF under, docs, s, f
<1>8. PICK below : Says(under, docs \cup EnvKeys, below)
  BY <1>2
<1> HIDE DEF n, tables
<1>9. /\ path \in DOMAIN JOver(under, JSecretsRead, JFilesRead)
      /\ JOver(under, JSecretsRead, JFilesRead)[path] = Merge(under, FileLayer(s, f))[path]
  BY <1>2, <1>3, <1>7, <1>8, TreesAgree
<1> QED BY <1>1, <1>4, <1>5, <1>9 DEF n

\* The fields of a load.
IsRun(j) ==
    j = [runs |-> j.runs, pc |-> j.pc, listed |-> j.listed, secrets |-> j.secrets,
         files |-> j.files, merged |-> j.merged, tree |-> j.tree,
         outcome |-> j.outcome, watched |-> j.watched, report |-> j.report,
         steady |-> j.steady]

JLoaded == java.pc = "done" /\ java.outcome = "loaded"

\* Where a load that saw no swap is, the Rust loader would be on these mounts.
Followed ==
    /\ java.listed = Expand(mount)
    /\ java.pc \in {"listed", "collected"} => java.merged = 0 /\ java.tree = EmptyTable
    /\ java.pc \in {"collected", "merging"} =>
          ~SecretsRefused(mount) /\ java.secrets = JSecretsRead
    /\ java.pc = "merging" =>
          /\ ~FilesRefused(mount)
          /\ process.policy = "reject" => ~Shadowed(SecretsRead(mount), FilesRead)
          /\ java.merged \in 0 .. Len(Expand(mount))
          /\ \A i \in 1 .. java.merged : ReadNow[i] # Unparseable
          /\ java.tree = MergedTo(java.merged)
    /\ java.pc = "done" => java.outcome = RustOutcome
    /\ JLoaded => \A path \in ClearPaths :
                     path \in DOMAIN java.tree /\ java.tree[path] = RustTree[path]

\* What a Java load has read and reported is what is mounted.
JavaTruth ==
    /\ process \in Processes /\ mount \in Mounts /\ swaps \in Nat /\ IsRun(java)
    /\ java.runs =>
          /\ java.pc = "merging" \/ JLoaded =>
                /\ java.files = JFilesRead
                /\ process.policy = "reject" => ~JShadowed(java.secrets, java.files)
          /\ java.report.kind = "made" => java.report.origins = Explanation(mount)
          /\ swaps = 0 /\ java.watched # Nothing => RustWatches \subseteq java.watched[1]
          /\ java.steady /\ java.pc # "idle" => Followed

\* Lemma: a process starts with nothing loaded.
LEMMA InitJava == JInit => JavaTruth
<1> SUFFICES ASSUME JInit PROVE JavaTruth
  OBVIOUS
<1>1. PICK runs \in BOOLEAN : java = Idle(runs)
  BY DEF JInit
<1>2. IsRun(java)
  BY <1>1 DEF Idle, IsRun
<1>3. java.pc = "idle" /\ java.watched = Nothing /\ java.report.kind = "none"
  BY <1>1 DEF Idle, NoReport, Report
<1> QED BY <1>2, <1>3 DEF JavaTruth, JInit, Init, JLoaded

\* Lemma: what both loaders come to depends on the process and the mounts alone.
LEMMA StableJava ==
    ASSUME UNCHANGED <<process, mount>>
    PROVE  /\ JSecretsRead' = JSecretsRead /\ JFilesRead' = JFilesRead
           /\ RustWatches' = RustWatches /\ ReadNow' = ReadNow
           /\ \A k : MergedTo(k)' = MergedTo(k)
           /\ ClearPaths' = ClearPaths
           /\ Shadowed(SecretsRead(mount), FilesRead)' = Shadowed(SecretsRead(mount), FilesRead)
           /\ RustOutcome' = RustOutcome
           /\ RustTree' = RustTree
<1>1. JSecretsRead' = JSecretsRead /\ JFilesRead' = JFilesRead
  BY DEF JSecretsRead, JFilesRead, SecretEntry, JUsable, FileEntry
<1>2. /\ Expand(mount)' = Expand(mount) /\ SecretsRead(mount)' = SecretsRead(mount)
      /\ FilesRead' = FilesRead /\ Explanation(mount)' = Explanation(mount)
      /\ SecretsRefused(mount)' = SecretsRefused(mount)
      /\ FilesRefused(mount)' = FilesRefused(mount)
  BY StableReading, StableRefusals
<1>3. RustWatches' = RustWatches
  BY <1>2 DEF RustWatches
<1>4. ReadNow' = ReadNow
  BY DEF ReadNow, Expand, ReadFragment
<1>5. \A k : MergedTo(k)' = MergedTo(k)
  BY <1>4 DEF MergedTo
<1>6. ClearPaths' = ClearPaths
  BY <1>2 DEF ClearPaths
<1>7. PlainKeys' = PlainKeys
  BY DEF PlainKeys, PlainVars, IsReserved, ToSet
<1>8. Shadowed(SecretsRead(mount), FilesRead)' = Shadowed(SecretsRead(mount), FilesRead)
  BY <1>2, <1>7 DEF Shadowed
<1>9. RustOutcome' = RustOutcome
  BY <1>2, <1>8 DEF RustOutcome, Expand, ReadFragment, ToSet
<1>10. RustTree' = RustTree
  BY <1>2
  DEF RustTree, Expand, ReadFragment, Merged, EnvLayer, IsValue, IsReserved, FileLayer, Nested,
      InKeyOrder, Listing
<1> QED BY <1>1, <1>3, <1>4, <1>5, <1>6, <1>8, <1>9, <1>10

\* Lemma: the indirections depend on the process alone, and so does what a map shadows.
LEMMA StableMaps ==
    ASSUME UNCHANGED process
    PROVE  /\ JFilesRead' = JFilesRead
           /\ \A a, b : JShadowed(a, b)' = JShadowed(a, b)
<1>1. JFilesRead' = JFilesRead
  BY DEF JFilesRead, FileEntry
<1>2. JPlainKeys' = JPlainKeys
  BY DEF JPlainKeys, JPlainVars, JReserved, ToSet
<1> QED BY <1>1, <1>2 DEF JShadowed

\* Lemma: a process stays what it is, and the volumes what they may be.
LEMMA StepPlace ==
    Next => /\ process' = process
            /\ mount \in Mounts => mount' \in Mounts
            /\ swaps \in Nat => swaps' \in Nat
BY DEF Next, Begin, RefuseSecrets, CollectSecrets, RefuseFiles, RefuseShadowed, CollectFiles,
       MergeFragment, RefuseFragment, Finish, Explain, Swap, Fail

\* Lemma: what a load comes to that is not refused for its files.
LEMMA OutcomeOf ==
    ASSUME mount \in Mounts, ~SecretsRefused(mount), ~FilesRefused(mount),
           process.policy = "reject" => ~Shadowed(SecretsRead(mount), FilesRead)
    PROVE  /\ (\E i \in DOMAIN ReadNow : ReadNow[i] = Unparseable) => RustOutcome = "unparseable"
           /\ (\A i \in DOMAIN ReadNow : ReadNow[i] # Unparseable) => RustOutcome = "loaded"
<1>1. DOMAIN ReadNow = DOMAIN Expand(mount)
      /\ \A i \in DOMAIN ReadNow : ReadNow[i] = ReadFragment(mount, Expand(mount)[i])
  BY DEF ReadNow
<1>2. (\E fragment \in ToSet(Expand(mount)) : ReadFragment(mount, fragment) = Unparseable)
        <=> \E i \in DOMAIN ReadNow : ReadNow[i] = Unparseable
  BY <1>1 DEF ToSet
<1> QED BY <1>2 DEF RustOutcome

\* Lemma: every step keeps it.
LEMMA StepJava == JavaTruth /\ [JNext]_jvars => JavaTruth'
<1> SUFFICES ASSUME JavaTruth, [JNext]_jvars PROVE JavaTruth'
  OBVIOUS
<1>1. process \in Processes /\ mount \in Mounts /\ swaps \in Nat /\ IsRun(java)
  BY DEF JavaTruth
<1>2. CASE ~java.runs /\ Next /\ UNCHANGED java
  <2>1. /\ process' \in Processes /\ mount' \in Mounts /\ swaps' \in Nat
    BY <1>1, <1>2, StepPlace
  <2> QED BY <1>1, <1>2, <2>1 DEF JavaTruth, IsRun
<1>3. CASE java.runs /\ \E m \in Mounts :
              Swap(m) /\ java' = [java EXCEPT !.steady = FALSE, !.report = NoReport]
  <2>1. /\ process' = process /\ mount' \in Mounts /\ swaps' \in Nat /\ swaps' # 0
    BY <1>1, <1>3 DEF Swap
  <2>2. /\ IsRun(java)' /\ java'.steady = FALSE /\ java'.report = NoReport
        /\ java'.pc = java.pc /\ java'.outcome = java.outcome
        /\ java'.secrets = java.secrets /\ java'.files = java.files
    BY <1>1, <1>3 DEF IsRun
  <2>3. NoReport.kind = "none"
    BY DEF NoReport, Report
  <2>4. JFilesRead' = JFilesRead /\ \A a, b : JShadowed(a, b)' = JShadowed(a, b)
    BY <2>1, StableMaps
  <2> QED BY <1>1, <1>3, <2>1, <2>2, <2>3, <2>4 DEF JavaTruth, JLoaded
<1>4. ASSUME UNCHANGED vars
      PROVE  /\ process' = process /\ mount' = mount /\ swaps' = swaps
             /\ JSecretsRead' = JSecretsRead /\ JFilesRead' = JFilesRead
             /\ \A a, b : JShadowed(a, b)' = JShadowed(a, b)
             /\ RustWatches' = RustWatches /\ ReadNow' = ReadNow
             /\ \A k : MergedTo(k)' = MergedTo(k)
             /\ ClearPaths' = ClearPaths
             /\ Shadowed(SecretsRead(mount), FilesRead)' = Shadowed(SecretsRead(mount), FilesRead)
             /\ RustOutcome' = RustOutcome
             /\ RustTree' = RustTree
             /\ Expand(mount)' = Expand(mount)
             /\ SecretsRefused(mount)' = SecretsRefused(mount)
             /\ FilesRefused(mount)' = FilesRefused(mount)
             /\ Explanation(mount)' = Explanation(mount)
  <2>1. process' = process /\ mount' = mount /\ swaps' = swaps
    BY <1>4 DEF vars
  <2> QED BY <2>1, StableJava, StableMaps, StableReading, StableRefusals
<1>5. /\ JSecretsRefused <=> SecretsRefused(mount)
      /\ JFilesRefused <=> FilesRefused(mount)
      /\ JExpand = Expand(mount)
  BY SameReadings
<1>6. CASE java.runs /\ JBegin
  <2>1. UNCHANGED vars
    BY <1>6 DEF JBegin, Moved
  <2>2. /\ IsRun(java)' /\ java'.pc = "listed" /\ java'.listed = Expand(mount)
        /\ java'.merged = 0 /\ java'.tree = EmptyTable
        /\ java'.watched = java.watched /\ java'.report = java.report
    BY <1>5, <1>6 DEF JBegin, Moved, Idle, IsRun
  <2>3. Followed'
    BY <1>4, <2>1, <2>2 DEF Followed, JLoaded
  <2> QED BY <1>1, <1>4, <1>6, <2>1, <2>2, <2>3 DEF JavaTruth, JLoaded
<1>7. CASE java.runs /\ JCollectSecrets
  <2>1. UNCHANGED vars
    BY <1>7 DEF JCollectSecrets, Moved, Refuse
  <2>2. CASE JSecretsRefused
    <3>1. /\ IsRun(java)' /\ java'.pc = "done" /\ java'.outcome = "source"
          /\ java'.listed = java.listed /\ java'.watched = java.watched
          /\ java'.report = java.report /\ java'.steady = java.steady
      BY <1>1, <1>7, <2>2 DEF JCollectSecrets, Moved, Refuse, IsRun
    <3>2. RustOutcome = "source"
      BY <1>5, <2>2 DEF RustOutcome
    <3>3. java'.steady => Followed'
      BY <1>4, <1>7, <2>1, <3>1, <3>2 DEF Followed, JLoaded, JavaTruth, JCollectSecrets
    <3> QED BY <1>1, <1>4, <1>7, <2>1, <3>1, <3>3 DEF JavaTruth, JLoaded
  <2>3. CASE ~JSecretsRefused
    <3>1. /\ IsRun(java)' /\ java'.pc = "collected" /\ java'.secrets = JSecretsRead
          /\ java'.listed = java.listed /\ java'.watched = java.watched
          /\ java'.report = java.report /\ java'.steady = java.steady
          /\ java'.merged = java.merged /\ java'.tree = java.tree
      BY <1>1, <1>7, <2>3 DEF JCollectSecrets, Moved, Refuse, IsRun
    <3>2. java'.steady => Followed'
      BY <1>4, <1>5, <1>7, <2>1, <2>3, <3>1 DEF Followed, JLoaded, JavaTruth, JCollectSecrets
    <3> QED BY <1>1, <1>4, <1>7, <2>1, <3>1, <3>2 DEF JavaTruth, JLoaded
  <2> QED BY <2>2, <2>3
<1>8. CASE java.runs /\ JCollectFiles
  <2>1. UNCHANGED vars
    BY <1>8 DEF JCollectFiles, Moved, Refuse
  <2>2. java.pc = "collected" /\ (java.steady => Followed)
    BY <1>8 DEF JCollectFiles, JavaTruth
  <2>3. java.steady => (JShadowed(java.secrets, JFilesRead) <=> Shadowed(SecretsRead(mount), FilesRead))
    BY <1>1, <2>2, SecretsListed, FilesListed, SameShadows DEF Followed
  <2>4. CASE JFilesRefused
    <3>1. /\ IsRun(java)' /\ java'.pc = "done" /\ java'.outcome = "source"
          /\ java'.listed = java.listed /\ java'.watched = java.watched
          /\ java'.report = java.report /\ java'.steady = java.steady
      BY <1>1, <1>8, <2>4 DEF JCollectFiles, Moved, Refuse, IsRun
    <3>2. RustOutcome = "source"
      BY <1>5, <2>4 DEF RustOutcome
    <3>3. java'.steady => Followed'
      BY <1>4, <2>1, <2>2, <3>1, <3>2 DEF Followed, JLoaded
    <3> QED BY <1>1, <1>4, <1>8, <2>1, <2>2, <3>1, <3>3 DEF JavaTruth, JLoaded
  <2>5. CASE ~JFilesRefused /\ process.policy = "reject" /\ JShadowed(java.secrets, JFilesRead)
    <3>1. /\ IsRun(java)' /\ java'.pc = "done" /\ java'.outcome = "shadowed"
          /\ java'.listed = java.listed /\ java'.watched = java.watched
          /\ java'.report = java.report /\ java'.steady = java.steady
      BY <1>1, <1>8, <2>5 DEF JCollectFiles, Moved, Refuse, IsRun
    <3>2. java.steady => RustOutcome = "shadowed"
      BY <1>5, <2>2, <2>3, <2>5 DEF RustOutcome, Followed
    <3>3. java'.steady => Followed'
      BY <1>4, <2>1, <2>2, <3>1, <3>2 DEF Followed, JLoaded
    <3> QED BY <1>1, <1>4, <1>8, <2>1, <2>2, <3>1, <3>3 DEF JavaTruth, JLoaded
  <2>6. CASE ~JFilesRefused /\ (process.policy = "reject" => ~JShadowed(java.secrets, JFilesRead))
    <3>1. /\ IsRun(java)' /\ java'.pc = "merging" /\ java'.files = JFilesRead
          /\ java'.listed = java.listed /\ java'.watched = java.watched
          /\ java'.report = java.report /\ java'.steady = java.steady
          /\ java'.merged = java.merged /\ java'.tree = java.tree
          /\ java'.secrets = java.secrets
      BY <1>1, <1>8, <2>6 DEF JCollectFiles, Moved, Refuse, IsRun
    <3>2. /\ Len(Expand(mount)) \in Nat /\ MergedTo(0) = EmptyTable
      BY <1>1, ReadsAll
    <3>3. java'.steady => Followed'
      BY <1>4, <1>5, <2>1, <2>2, <2>3, <2>6, <3>1, <3>2 DEF Followed, JLoaded
    <3> QED BY <1>1, <1>4, <1>8, <2>1, <2>2, <2>6, <3>1, <3>3 DEF JavaTruth, JLoaded
  <2> QED BY <2>4, <2>5, <2>6
<1>9. CASE java.runs /\ JMergeFragment
  <2> DEFINE k == java.merged
             fragment == java.listed[k + 1]
             found == IF fragment \in DOMAIN mount.doc THEN mount.doc[fragment] ELSE EmptyTable
             n == Len(Expand(mount))
  <2>1. UNCHANGED vars
    BY <1>9 DEF JMergeFragment, Moved, Refuse
  <2>2. java.pc = "merging" /\ k < Len(java.listed) /\ (java.steady => Followed)
    BY <1>9 DEF JMergeFragment, JavaTruth
  <2>3. /\ n \in Nat /\ DOMAIN ReadNow = 1 .. n
        /\ \A i \in 1 .. n : ReadNow[i] = ReadFragment(mount, Expand(mount)[i])
    BY <1>1, ReadsAll
  <2>4. java.steady => k \in Nat /\ k + 1 \in 1 .. n /\ found = ReadNow[k + 1]
    BY <2>2, <2>3 DEF Followed, ReadFragment
  <2>5. CASE found = Unparseable
    <3>1. /\ IsRun(java)' /\ java'.pc = "done" /\ java'.outcome = "unparseable"
          /\ java'.listed = java.listed /\ java'.watched = java.watched
          /\ java'.report = java.report /\ java'.steady = java.steady
      BY <1>1, <1>9, <2>5 DEF JMergeFragment, Moved, Refuse, IsRun
    <3>2. java.steady => RustOutcome = "unparseable"
      BY <1>1, <2>2, <2>3, <2>4, <2>5, OutcomeOf DEF Followed
    <3>3. java'.steady => Followed'
      BY <1>4, <2>1, <2>2, <3>1, <3>2 DEF Followed, JLoaded
    <3> QED BY <1>1, <1>4, <1>9, <2>1, <2>2, <3>1, <3>3 DEF JavaTruth, JLoaded
  <2>6. CASE found # Unparseable
    <3>1. /\ IsRun(java)' /\ java'.pc = "merging" /\ java'.files = java.files
          /\ java'.listed = java.listed /\ java'.watched = java.watched
          /\ java'.report = java.report /\ java'.steady = java.steady
          /\ java'.merged = k + 1 /\ java'.tree = DeepMerge(java.tree, found)
          /\ java'.secrets = java.secrets
      BY <1>1, <1>9, <2>6 DEF JMergeFragment, Moved, Refuse, IsRun
    <3> HIDE DEF found, k, n
    <3>2. java.steady => /\ k + 1 \in 0 .. n
                         /\ \A i \in 1 .. k + 1 : ReadNow[i] # Unparseable
      <4> SUFFICES ASSUME java.steady PROVE /\ k + 1 \in 0 .. n
                                            /\ \A i \in 1 .. k + 1 : ReadNow[i] # Unparseable
        OBVIOUS
      <4>1. k \in Nat /\ k + 1 \in 1 .. n
        BY <2>4
      <4>2. \A i \in 1 .. k : ReadNow[i] # Unparseable
        BY <2>2 DEF Followed, k
      <4>3. \A i \in 1 .. k + 1 : i \in 1 .. k \/ i = k + 1
        BY <4>1
      <4> QED BY <2>3, <2>4, <2>6, <4>1, <4>2, <4>3
    <3>3. java.steady => DeepMerge(java.tree, found) = MergedTo(k + 1)
      <4> SUFFICES ASSUME java.steady PROVE DeepMerge(java.tree, found) = MergedTo(k + 1)
        OBVIOUS
      <4>1. java.tree = MergedTo(k)
        BY <2>2 DEF Followed, k
      <4>2. k \in Nat /\ k + 1 <= Len(Expand(mount)) /\ found = ReadNow[k + 1]
        BY <2>3, <2>4 DEF n
      <4> QED BY <1>1, <3>2, <4>1, <4>2, MergesOne
    <3>4. java'.steady => Followed'
      BY <1>4, <2>1, <2>2, <3>1, <3>2, <3>3 DEF Followed, JLoaded, n
    <3> QED BY <1>1, <1>4, <1>9, <2>1, <2>2, <3>1, <3>4 DEF JavaTruth, JLoaded
  <2> QED BY <2>5, <2>6
<1>10. CASE java.runs /\ JFinish
  <2> DEFINE n == Len(Expand(mount))
             all == JTree(java.tree, java.secrets, java.files)
  <2>1. UNCHANGED vars
    BY <1>10 DEF JFinish, Moved
  <2>2. java.pc = "merging" /\ java.merged = Len(java.listed) /\ (java.steady => Followed)
    BY <1>10 DEF JFinish, JavaTruth
  <2>3. n \in Nat /\ DOMAIN ReadNow = 1 .. n
    BY <1>1, ReadsAll
  <2>4. /\ IsRun(java)' /\ java'.pc = "done" /\ java'.outcome = "loaded"
        /\ java'.listed = java.listed /\ java'.report = java.report
        /\ java'.secrets = java.secrets /\ java'.files = java.files
        /\ java'.steady = java.steady /\ java'.tree = all
        /\ java'.watched = IF java.watched = Nothing THEN <<JWatchPaths>> ELSE java.watched
    BY <1>1, <1>10 DEF JFinish, Moved, IsRun, JTree, JOver
  <2>5. ASSUME java.steady
        PROVE  /\ RustOutcome = "loaded"
               /\ \A path \in ClearPaths : path \in DOMAIN all /\ all[path] = RustTree[path]
    <3>1. \A i \in DOMAIN ReadNow : ReadNow[i] # Unparseable
      BY <2>2, <2>3, <2>5 DEF Followed
    <3>2. RustOutcome = "loaded"
      BY <1>1, <2>2, <2>5, <3>1, OutcomeOf DEF Followed
    <3>3. java.tree = MergedTo(n) /\ java.secrets = JSecretsRead /\ java.files = JFilesRead
      BY <1>10, <2>2, <2>5 DEF Followed, JavaTruth
    <3>4. ~SecretsRefused(mount)
      BY <2>2, <2>5 DEF Followed
    <3>5. \A path \in ClearPaths : path \in DOMAIN all /\ all[path] = RustTree[path]
      BY <1>1, <3>1, <3>3, <3>4, SameTree
    <3> QED BY <3>2, <3>5
  <2>6. RustWatches \subseteq JWatchPaths
    <3>1. java.files = JFilesRead
      BY <1>10, <2>2 DEF JavaTruth
    <3>2. JFilesRead = <<>> <=> DOMAIN FilesRead = {}
      BY <1>1, FilesListed, ListedValues
    <3> QED BY <3>1, <3>2 DEF RustWatches, JWatchPaths
  <2> HIDE DEF all
  <2>7. java'.steady => Followed'
    BY <1>4, <2>1, <2>2, <2>4, <2>5 DEF Followed, JLoaded
  <2>8. swaps = 0 => RustWatches \subseteq java'.watched[1]
    BY <1>10, <2>4, <2>6 DEF JavaTruth
  <2> QED BY <1>1, <1>4, <1>10, <2>1, <2>2, <2>4, <2>7, <2>8 DEF JavaTruth, JLoaded
<1>11. CASE java.runs /\ JExplain
  <2>1. UNCHANGED vars
    BY <1>11 DEF JExplain, Moved
  <2>2. /\ IsRun(java)' /\ java'.pc = java.pc /\ java'.outcome = java.outcome
        /\ java'.listed = java.listed /\ java'.watched = java.watched
        /\ java'.secrets = java.secrets /\ java'.files = java.files
        /\ java'.merged = java.merged /\ java'.tree = java.tree
        /\ java'.steady = java.steady
    BY <1>1, <1>11 DEF JExplain, Moved, IsRun
  <2>3. java'.report.kind = "made" => java'.report.origins = Explanation(mount)
    <3>1. \/ java'.report = Report("error", <<>>)
          \/ /\ ~JSecretsRefused
             /\ java'.report = Report("made", JExplanation(JSecretsRead, JFilesRead))
      BY <1>1, <1>11 DEF JExplain, Moved, IsRun
    <3> QED BY <1>1, <1>5, <3>1, SameReport DEF Report
  <2>4. java'.steady /\ java'.pc # "idle" => Followed'
    BY <1>4, <1>11, <2>1, <2>2 DEF JavaTruth, Followed, JLoaded
  <2> QED BY <1>1, <1>4, <1>11, <2>1, <2>2, <2>3, <2>4 DEF JavaTruth, JLoaded
<1>12. CASE UNCHANGED jvars
  <2>1. UNCHANGED vars /\ java' = java
    BY <1>12 DEF jvars
  <2>2. IsRun(java)'
    BY <1>1, <2>1 DEF IsRun
  <2>3. java'.steady /\ java'.pc # "idle" /\ java'.runs => Followed'
    BY <1>4, <2>1 DEF JavaTruth, Followed, JLoaded
  <2> QED BY <1>1, <1>4, <2>1, <2>2, <2>3 DEF JavaTruth, JLoaded
<1> QED
  BY <1>2, <1>3, <1>6, <1>7, <1>8, <1>9, <1>10, <1>11, <1>12 DEF JNext, JavaNext

\* On any deployment, whatever is mounted, the two loaders come to the same
\* outcome, the same value of every key that no other one cuts through and the
\* same report; the Java loader lets no key of two suppliers pass under REJECT,
\* whatever is swapped while it reads, and watches no less than the Rust one.
THEOREM TheLoadersAgree == JSpec => []LoadersAgree
<1>1. JInit => JavaTruth
  BY InitJava
<1>2. JavaTruth /\ [JNext]_jvars => JavaTruth'
  BY StepJava
<1>3. JavaTruth => LoadersAgree
  <2> SUFFICES ASSUME JavaTruth, java.runs, java.pc = "done" PROVE LoadersAgree
    BY DEF LoadersAgree
  <2>1. JPlainKeys = EnvKeys
    BY SameReadings DEF EnvKeys, PlainKeys, PlainVars, IsValue
  <2>2. java.steady => Followed
    BY DEF JavaTruth
  <2>3. java.outcome = "loaded" /\ process.policy = "reject" =>
          /\ Paths(java.secrets) \cap Paths(java.files) = {}
          /\ EnvKeys \cap (Paths(java.secrets) \cup Paths(java.files)) = {}
    BY <2>1 DEF JavaTruth, JLoaded, JShadowed
  <2> QED BY <2>2, <2>3 DEF LoadersAgree, JavaTruth, Followed, JLoaded
<1> QED BY <1>1, <1>2, <1>3, PTL DEF JSpec

\* Lemma: beside a Java loader the Rust one is what it is without: what holds of
\* every step of its own holds of a service that may run either.
LEMMA JavaLoadIsBeside == JSpec => Spec
<1>1. JInit => Init
  BY DEF JInit
<1>2. [JNext]_jvars => [Next]_vars
  BY DEF JNext, JavaNext, JBegin, JCollectSecrets, JCollectFiles, JMergeFragment, JFinish,
         JExplain, Moved, Refuse, Next, jvars
<1> QED BY <1>1, <1>2, PTL DEF JSpec, Spec

=============================================================================
