------------------------- MODULE PinnedReloadProofs -------------------------
(* What holds of the pinning reloader for every type, every set of restart *)
(* paths and every content of the layers.                                  *)
EXTENDS PinnedReload, TLAPS, FiniteSetTheorems, SequenceTheorems

\* Lemma: a value is the same as itself, floats included, so that comparing a
\* fingerprint with itself never reports a change.
LEMMA SameValueReflexive == \A t : SameValue(t, t)
BY DEF SameValue, SameLeaf

\* Lemma: nothing is pending in the tree the pins were captured from.
LEMMA NothingPendingAtBoot ==
    \A t : PendingIn(Capture(RestartPaths, t), t) = {}
BY SameValueReflexive DEF PendingIn, Capture

\* Lemma: without pins nothing is ever pending.
LEMMA NothingPendingWithoutPins == \A t : PendingIn(<<>>, t) = {}
BY DEF PendingIn

\* The bookkeeping of the loop, as a function of what the process was started
\* with and of what its last successful load read.
Bookkeeping ==
    /\ entry \in {"reloader", "watched"}
    /\ Up => /\ pins = IF entry = "reloader"
                       THEN Capture(RestartPaths, boot) ELSE <<>>
             /\ sources = Loaded(accepted)
             /\ sources.pending = PendingIn(pins, accepted)
             /\ logged = sources.pending
             /\ ~LoadFails(accepted)

\* Lemma: the initial states satisfy the bookkeeping.
LEMMA InitBookkeeping == Init => Bookkeeping
BY DEF Init, Bookkeeping, Up

\* Lemma: what a load returns as pending.
LEMMA LoadedPending == \A t : Loaded(t).pending = PendingIn(pins, t)
BY DEF Loaded, Sources

\* Lemma: every step keeps the bookkeeping.
LEMMA StepBookkeeping == Bookkeeping /\ [Next]_vars => Bookkeeping'
<1> SUFFICES ASSUME Bookkeeping, [Next]_vars PROVE Bookkeeping'
  OBVIOUS
<1>1. CASE Refuse
  BY <1>1 DEF Refuse, Bookkeeping, Up
<1>2. CASE Boot
  <2>1. PendingIn(pins', disk) = {}
    BY <1>2, NothingPendingAtBoot, NothingPendingWithoutPins DEF Boot
  <2>2. Loaded(accepted)' = Sources(disk, {})
    BY <1>2, <2>1 DEF Boot, Loaded
  <2>3. ~LoadFails(accepted)'
    BY <1>2, <2>1 DEF Boot, LoadFails
  <2> QED
    BY <1>2, <2>1, <2>2, <2>3 DEF Boot, Bookkeeping, Up, Sources
<1>3. CASE ReloadFailed
  <2>1. Loaded(accepted)' = Loaded(accepted) /\ LoadFails(accepted)' = LoadFails(accepted)
    BY <1>3 DEF ReloadFailed, Loaded, LoadFails
  <2> QED
    BY <1>3, <2>1 DEF ReloadFailed, Bookkeeping, Up
<1>4. CASE ReloadUnchanged \/ ReloadRebuilds
  <2>1. /\ Up /\ UNCHANGED <<pins, boot, entry, disk>> /\ accepted' = disk
        /\ sources' = Loaded(disk) /\ ~LoadFails(disk)
        /\ logged' = IF Loaded(disk).pending # sources.pending
                     THEN Loaded(disk).pending ELSE logged
    BY <1>4 DEF ReloadUnchanged, ReloadRebuilds, Up
  <2>2. Loaded(accepted)' = Loaded(disk)
    BY <2>1 DEF Loaded
  <2>3. Loaded(disk).pending = PendingIn(pins, disk)
    BY LoadedPending
  <2>4. logged' = sources'.pending
    BY <2>1 DEF Bookkeeping
  <2>5. ~LoadFails(accepted)'
    BY <2>1 DEF LoadFails
  <2> QED
    BY <2>1, <2>2, <2>3, <2>4, <2>5 DEF Bookkeeping
<1>5. CASE Exit
  BY <1>5 DEF Exit, Bookkeeping, Up
<1>6. ASSUME NEW t \in Trees, Edit(t) PROVE Bookkeeping'
  <2>1. Loaded(accepted)' = Loaded(accepted) /\ LoadFails(accepted)' = LoadFails(accepted)
    BY <1>6 DEF Edit, Loaded, LoadFails
  <2> QED
    BY <1>6, <2>1 DEF Edit, Bookkeeping, Up
<1>7. CASE UNCHANGED vars
  <2>1. Loaded(accepted)' = Loaded(accepted) /\ LoadFails(accepted)' = LoadFails(accepted)
    BY <1>7 DEF vars, Loaded, LoadFails
  <2> QED
    BY <1>7, <2>1 DEF vars, Bookkeeping, Up
<1> QED
  BY <1>1, <1>2, <1>3, <1>4, <1>5, <1>6, <1>7 DEF Next, Reload

\* What is held back is exactly what is reported and what was last logged.
THEOREM PendingReported == Spec => []PendingIsHeldBack
<1>1. Bookkeeping => PendingIsHeldBack
  BY DEF Bookkeeping, PendingIsHeldBack, PendingIn, Capture
<1> QED
  BY InitBookkeeping, StepBookkeeping, <1>1, PTL DEF Spec

\* Reading the same files again never rebuilds: the fingerprint is a function
\* of what was read and of the pins, and the comparison is reflexive.
THEOREM SameFilesNeverRebuild == Spec => NoRebuildWithoutChange
<1>1. Bookkeeping /\ ReloadRebuilds => disk # accepted
  BY SameValueReflexive DEF Bookkeeping, ReloadRebuilds, DiffersFrom, Up
<1>2. Bookkeeping /\ [Next]_vars => [ReloadRebuilds => disk # accepted]_vars
  BY <1>1
<1> QED
  BY InitBookkeeping, StepBookkeeping, <1>2, PTL
  DEF Spec, NoRebuildWithoutChange

-----------------------------------------------------------------------------
(* Paths.                                                                  *)

\* Lemma: being a prefix is an order.
LEMMA PrefixOrder ==
    ASSUME NEW p \in Seq(STRING), NEW q \in Seq(STRING), NEW r \in Seq(STRING)
    PROVE  /\ IsPrefix(p, p)
           /\ IsPrefix(p, q) /\ IsPrefix(q, p) => p = q
           /\ IsPrefix(p, q) /\ IsPrefix(q, r) => IsPrefix(p, r)
BY DEF IsPrefix

\* Lemma: the parents of a path are its proper prefixes.
LEMMA ParentsArePrefixes ==
    ASSUME NEW q \in Seq(STRING)
    PROVE  /\ Parents(q) \subseteq Seq(STRING)
           /\ \A p \in Seq(STRING) : p \in Parents(q) <=> IsPrefix(p, q) /\ p # q
BY DEF IsPrefix, Parents

\* Lemma: nothing of a path is below the path itself.
LEMMA NothingBelow ==
    ASSUME NEW p \in Seq(STRING)
    PROVE  p \o <<>> = p /\ SubSeq(p, Len(p) + 1, Len(p)) = <<>>
<1>1. p \o <<>> \in Seq(STRING)
  OBVIOUS
<1>2. Len(p \o <<>>) = Len(p) /\ \A i \in 1 .. Len(p) : (p \o <<>>)[i] = p[i]
  OBVIOUS
<1>3. p \o <<>> = p
  BY <1>1, <1>2
<1>4. SubSeq(p, Len(p) + 1, Len(p)) = <<>>
  OBVIOUS
<1> QED BY <1>3, <1>4

\* Lemma: a path is a prefix of it, and the rest.
LEMMA Below ==
    ASSUME NEW p \in Seq(STRING), NEW q \in Seq(STRING), IsPrefix(p, q)
    PROVE  p \o SubSeq(q, Len(p) + 1, Len(q)) = q
<1> DEFINE r == SubSeq(q, Len(p) + 1, Len(q))
<1>1. /\ Len(p) <= Len(q) /\ r \in Seq(STRING) /\ Len(r) = Len(q) - Len(p)
      /\ \A i \in 1 .. Len(r) : r[i] = q[Len(p) + i]
      /\ \A i \in 1 .. Len(p) : p[i] = q[i]
  BY DEF IsPrefix
<1> HIDE DEF r
<1>2. p \o r \in Seq(STRING) /\ Len(p \o r) = Len(q)
  BY <1>1
<1>3. ASSUME NEW i \in 1 .. Len(q) PROVE (p \o r)[i] = q[i]
  BY <1>1
<1>4. p \o r = q
  BY <1>2, <1>3, SeqEqual
<1> QED BY <1>4 DEF r

\* Lemma: the parents of a proper prefix are parents, too.
LEMMA ParentsNest ==
    ASSUME NEW p \in Seq(STRING), NEW q \in Seq(STRING), NEW r \in Seq(STRING)
    PROVE  /\ p \in Parents(q) /\ IsPrefix(q, r) => p \in Parents(r)
           /\ IsPrefix(p, q) /\ q \in Parents(r) => p \in Parents(r)
           /\ p \in Parents(q) => ~IsPrefix(q, p)
<1>1. \A a, b \in Seq(STRING) : a \in Parents(b) <=> IsPrefix(a, b) /\ a # b
  BY ParentsArePrefixes
<1> QED BY <1>1, PrefixOrder

-----------------------------------------------------------------------------
(* Values and what a type extracts from them.                              *)

\* A value as figment builds it.
IsTree(t) ==
    /\ DOMAIN t \subseteq Seq(STRING)
    /\ \A q \in DOMAIN t : \A p \in Parents(q) : p \in DOMAIN t /\ t[p] = Table

\* Lemma: a value the type extracts has nothing inside one of its leaves.
LEMMA NothingInsideLeaf ==
    ASSUME NEW t, IsTree(t), Extracts(t), NEW p \in Leaves, NEW q \in DOMAIN t,
           IsPrefix(p, q)
    PROVE  q = p
<1>1. p \in Seq(STRING) /\ q \in Seq(STRING)
  BY TreesAssumption DEF IsTree
<1>2. SUFFICES ASSUME p \in Parents(q) PROVE FALSE
  BY <1>1, ParentsArePrefixes
<1>3. p \in DOMAIN t /\ t[p] = Table
  BY <1>2 DEF IsTree
<1> QED BY <1>3 DEF Extracts

\* What the pins hold: a restart path had no value at boot, or it was a leaf of
\* the boot configuration, and no described key is on the way to it.
LeafPins(pinned) ==
    \A p \in RestartPaths :
        \/ pinned[p] = Nothing
        \/ /\ pinned[p] = [r \in {<<>>} |-> pinned[p][<<>>]]
           /\ pinned[p] # Nothing
           /\ Parents(p) \cap Leaves = {}

\* Lemma: the pins captured from a configuration the type extracts.
LEMMA CapturedPins ==
    ASSUME NEW t, IsTree(t), Extracts(t)
    PROVE  LeafPins(Capture(RestartPaths, t))
<1> SUFFICES ASSUME NEW p \in RestartPaths, Find(t, p) # Nothing
             PROVE  /\ Find(t, p) = [r \in {<<>>} |-> Find(t, p)[<<>>]]
                    /\ Parents(p) \cap Leaves = {}
  BY DEF LeafPins, Capture
<1> DEFINE D == {r \in DOMAIN t : IsPrefix(p, r)}
<1>1. p \in Leaves /\ p \in Seq(STRING)
  BY PinsAssumption, TreesAssumption
<1>2. Find(t, p) = [q \in {SubSeq(r, Len(p) + 1, Len(r)) : r \in D} |-> t[p \o q]]
  BY DEF Find
<1>3. D # {}
  <2>1. D = {} => Find(t, p) = Nothing
    BY <1>2 DEF Nothing
  <2> QED BY <2>1
<1>4. D = {p}
  BY <1>1, <1>3, NothingInsideLeaf
<1>5. {SubSeq(r, Len(p) + 1, Len(r)) : r \in D} = {<<>>}
  BY <1>1, <1>4, NothingBelow
<1>6. Find(t, p) = [q \in {<<>>} |-> t[p \o q]]
  BY <1>2, <1>5
<1>7. ASSUME NEW q \in Parents(p), q \in Leaves PROVE FALSE
  <2>1. p \in DOMAIN t
    BY <1>4
  <2>2. q \in DOMAIN t /\ t[q] = Table
    BY <2>1 DEF IsTree
  <2> QED BY <2>2, <1>7 DEF Extracts
<1> QED BY <1>6, <1>7

-----------------------------------------------------------------------------
(* Setting the pins back, one after the other.                             *)

\* The paths of a value that no pin of P reaches, the pins of P that hold a
\* value, and what leads to those.
Live(t, P) == {q \in DOMAIN t : \A p \in P : ~IsPrefix(p, q)}
Holding(pinned, P) == {p \in P : pinned[p] # Nothing}
Above(pinned, P) == UNION {Parents(p) : p \in Holding(pinned, P)}

\* A value with the pins of P set back.
SetBack(acc, t, pinned, P) ==
    /\ DOMAIN acc = Live(t, P) \cup Holding(pinned, P) \cup Above(pinned, P)
    /\ \A q \in Live(t, P) : acc[q] = t[q]
    /\ \A p \in Holding(pinned, P) : acc[p] = pinned[p][<<>>]
    /\ \A q \in Above(pinned, P) : acc[q] = Table

\* Lemma: set_path sets one more pin back, whichever were set before.
LEMMA SetsOneBack ==
    ASSUME NEW t, IsTree(t), Extracts(t), NEW pinned, LeafPins(pinned),
           NEW P \in SUBSET RestartPaths, NEW p \in RestartPaths,
           NEW acc, SetBack(acc, t, pinned, P)
    PROVE  SetBack(SetPath(acc, p, pinned[p]), t, pinned, P \cup {p})
<1> DEFINE Q == P \cup {p}
           next == SetPath(acc, p, pinned[p])
<1>1. /\ RestartPaths \subseteq Leaves /\ RestartPaths \subseteq Seq(STRING)
      /\ DOMAIN t \subseteq Seq(STRING)
  BY PinsAssumption, TreesAssumption DEF IsTree
<1>2. \A h \in Holding(pinned, Q) : /\ h \in RestartPaths
                                    /\ Parents(h) \cap Leaves = {}
                                    /\ Parents(h) \subseteq Seq(STRING)
                                    /\ \A q \in RestartPaths : IsPrefix(q, h) => q = h
  <2> SUFFICES ASSUME NEW h \in Holding(pinned, Q)
               PROVE  /\ h \in RestartPaths
                      /\ Parents(h) \cap Leaves = {}
                      /\ Parents(h) \subseteq Seq(STRING)
                      /\ \A q \in RestartPaths : IsPrefix(q, h) => q = h
    OBVIOUS
  <2>1. h \in RestartPaths /\ Parents(h) \cap Leaves = {}
    BY DEF Holding, LeafPins
  <2> QED BY <2>1, <1>1, ParentsArePrefixes
<1>3. Holding(pinned, P) \subseteq Holding(pinned, Q) /\ Above(pinned, P) \subseteq Above(pinned, Q)
  BY DEF Holding, Above
<1>4. DOMAIN acc \subseteq Seq(STRING)
  BY <1>1, <1>2, <1>3 DEF SetBack, Live, Above
\* What is no table in between is a leaf of the type.
<1>5. ASSUME NEW q \in DOMAIN acc, acc[q] # Table PROVE q \in Leaves
  BY <1>5, <1>1 DEF SetBack, Extracts, Live, Holding
<1>6. Live(t, Q) = {q \in Live(t, P) : ~IsPrefix(p, q)}
  BY DEF Live
<1>7. \A q \in Holding(pinned, P) : IsPrefix(p, q) => p = q
  BY <1>2, <1>3
<1>8. \A q \in Above(pinned, P) : ~IsPrefix(p, q)
  <2> SUFFICES ASSUME NEW h \in Holding(pinned, P), NEW q \in Parents(h), IsPrefix(p, q)
               PROVE  FALSE
    BY DEF Above
  <2>1. q \in Seq(STRING) /\ h \in Seq(STRING) /\ p \in Seq(STRING)
    BY <1>1, <1>2, <1>3
  <2>2. p \in Parents(h)
    BY <2>1, ParentsNest
  <2> QED BY <2>2, <1>1, <1>2, <1>3
<1>9. CASE pinned[p] = Nothing
  <2>1. Holding(pinned, Q) = Holding(pinned, P) /\ Above(pinned, Q) = Above(pinned, P)
    BY <1>9 DEF Holding, Above
  <2>2. \A q \in Holding(pinned, P) : ~IsPrefix(p, q)
    BY <1>7, <1>9 DEF Holding
  <2>3. {q \in DOMAIN acc : ~IsPrefix(p, q)}
        = Live(t, Q) \cup Holding(pinned, Q) \cup Above(pinned, Q)
    BY <1>6, <1>8, <2>1, <2>2 DEF SetBack
  <2>4. CASE Blocked(acc, p)
    <3>1. PICK b \in Parents(p) \cap DOMAIN acc : acc[b] # Table
      BY <2>4 DEF Blocked
    <3>2. b \in Leaves
      BY <1>5, <3>1
    <3>3. ASSUME NEW q \in DOMAIN acc, IsPrefix(p, q) PROVE FALSE
      <4>1. q \in Live(t, P)
        BY <3>3, <1>8, <2>2 DEF SetBack
      <4>2. b \in Parents(q)
        BY <3>1, <3>3, <1>1, <1>4, ParentsNest
      <4>3. b \in DOMAIN t /\ t[b] = Table
        BY <4>1, <4>2 DEF Live, IsTree
      <4> QED BY <4>3, <3>2 DEF Extracts
    <3>4. next = acc
      BY <2>4 DEF SetPath
    <3>5. DOMAIN acc = {q \in DOMAIN acc : ~IsPrefix(p, q)}
      BY <3>3
    <3> QED BY <3>4, <3>5, <2>1, <2>3, <1>6 DEF SetBack
  <2>5. CASE ~Blocked(acc, p)
    <3>1. next = Without(acc, p)
      BY <2>5, <1>9 DEF SetPath
    <3>2. /\ DOMAIN next = {q \in DOMAIN acc : ~IsPrefix(p, q)}
          /\ \A q \in DOMAIN next : next[q] = acc[q]
      BY <3>1 DEF Without, Restrict
    <3> HIDE DEF next
    <3> QED BY <3>2, <2>1, <2>3, <1>6 DEF SetBack, next
  <2> QED BY <2>4, <2>5
<1>10. CASE pinned[p] # Nothing
  <2>1. /\ pinned[p] = [r \in {<<>>} |-> pinned[p][<<>>]]
        /\ Parents(p) \cap Leaves = {}
        /\ p \in Seq(STRING)
        /\ p \in Holding(pinned, Q)
    BY <1>1, <1>10 DEF LeafPins, Holding
  <2>2. ~Blocked(acc, p)
    BY <1>5, <2>1 DEF Blocked
  <2>3. Holding(pinned, Q) = Holding(pinned, P) \cup {p}
    BY <1>10 DEF Holding
  <2>4. Above(pinned, Q) = Above(pinned, P) \cup Parents(p)
    BY <2>3 DEF Above
  <2>5. At(p, pinned[p]) = [q \in {p} |-> pinned[p][<<>>]]
    <3>1. {p \o r : r \in DOMAIN pinned[p]} = {p}
      BY <2>1, NothingBelow
    <3>2. At(p, pinned[p]) = [q \in {p} |-> pinned[p][SubSeq(q, Len(p) + 1, Len(q))]]
      BY <3>1 DEF At
    <3> QED BY <3>2, <2>1, NothingBelow
  <2>6. next = Overlay(At(p, pinned[p]), Overlay(Leading(p), Without(acc, p)))
    BY <2>2, <1>10 DEF SetPath
  <2>7. DOMAIN next = {p} \cup Parents(p) \cup {q \in DOMAIN acc : ~IsPrefix(p, q)}
    BY <2>5, <2>6 DEF Overlay, Leading, Without, Restrict
  <2>8. /\ next[p] = pinned[p][<<>>]
        /\ \A q \in Parents(p) \ {p} : next[q] = Table
        /\ \A q \in DOMAIN acc \ ({p} \cup Parents(p)) : ~IsPrefix(p, q) => next[q] = acc[q]
    BY <2>5, <2>6, <2>7 DEF Overlay, Leading, Without, Restrict
  <2> HIDE DEF next
  <2>9. p \notin Parents(p) /\ IsPrefix(p, p)
    BY <2>1, ParentsArePrefixes, PrefixOrder
  <2>10. DOMAIN next = Live(t, Q) \cup Holding(pinned, Q) \cup Above(pinned, Q)
    BY <1>6, <1>7, <1>8, <2>3, <2>4, <2>7 DEF SetBack
  <2>11. ASSUME NEW q \in Live(t, Q) PROVE next[q] = t[q]
    <3>1. q \in Live(t, P) /\ q \in DOMAIN acc /\ acc[q] = t[q] /\ ~IsPrefix(p, q) /\ q # p
      BY <1>6, <2>9 DEF SetBack
    <3>2. CASE q \in Parents(p)
      BY <3>1, <3>2, <2>1, <2>8, <1>5
    <3> QED BY <3>1, <3>2, <2>8
  <2>12. ASSUME NEW h \in Holding(pinned, Q) PROVE next[h] = pinned[h][<<>>]
    <3>1. CASE h = p
      BY <3>1, <2>8
    <3>2. CASE h # p
      <4>1. h \in Holding(pinned, P) /\ h \in DOMAIN acc /\ acc[h] = pinned[h][<<>>]
        BY <3>2, <2>3 DEF SetBack
      <4>2. ~IsPrefix(p, h)
        BY <3>2, <4>1, <1>7
      <4>3. h \notin Parents(p)
        BY <2>1, <1>1, <1>2
      <4> QED BY <3>2, <4>1, <4>2, <4>3, <2>8
    <3> QED BY <3>1, <3>2
  <2>13. ASSUME NEW q \in Above(pinned, Q) PROVE next[q] = Table
    <3>1. CASE q \in Parents(p)
      BY <3>1, <2>8, <2>9
    <3>2. CASE q \notin Parents(p)
      <4>1. q \in Above(pinned, P) /\ q \in DOMAIN acc /\ acc[q] = Table
        BY <3>2, <2>4 DEF SetBack
      <4>2. ~IsPrefix(p, q) /\ q # p
        BY <4>1, <1>8, <2>9
      <4> QED BY <3>2, <4>1, <4>2, <2>8
    <3> QED BY <3>1, <3>2
  <2> QED BY <2>10, <2>11, <2>12, <2>13 DEF SetBack, next
<1> QED BY <1>9, <1>10

-----------------------------------------------------------------------------
\* The operator Apply folds.
SetPinned(acc, path) == SetPath(acc, path, pins[path])

F == INSTANCE FoldLemmas WITH Op <- SetPinned

\* Lemma: Pins::apply sets every pin back.
LEMMA AppliesAll ==
    ASSUME NEW t, IsTree(t), Extracts(t), LeafPins(pins)
    PROVE  SetBack(Apply(pins, PinOrder, t), t, pins, RestartPaths)
<1> DEFINE n == Cardinality(RestartPaths)
           Done(k) == {PinOrder[i] : i \in 1 .. k}
<1>1. n \in Nat /\ DOMAIN PinOrder = 1 .. n
  BY PinsAssumption, FS_CardinalityType
<1>2. PICK acc : F!Chain(acc, t, PinOrder) /\ F!Fold(t, PinOrder) = acc[n]
  BY <1>1, F!FoldIsChain
<1>3. Apply(pins, PinOrder, t) = F!Fold(t, PinOrder)
  BY DEF F!Fold, F!FoldLeft, Apply, SetPinned, FoldLeft, F!MapThenFoldSet, MapThenFoldSet,
         F!Max, Max
<1> HIDE DEF n
<1> DEFINE N == {k \in Nat : k <= n => SetBack(acc[k], t, pins, Done(k))}
<1>4. 0 \in N
  <2>1. Done(0) = {} /\ acc[0] = t
    BY <1>2 DEF F!Chain
  <2>2. Live(t, {}) = DOMAIN t /\ Holding(pins, {}) = {} /\ Above(pins, {}) = {}
    BY DEF Live, Holding, Above
  <2>3. SetBack(t, t, pins, {})
    BY <2>2 DEF SetBack
  <2> QED BY <2>1, <2>3
<1>5. ASSUME NEW k \in Nat, k \in N PROVE k + 1 \in N
  <2> SUFFICES ASSUME k + 1 <= n PROVE SetBack(acc[k + 1], t, pins, Done(k + 1))
    OBVIOUS
  <2>1. k + 1 \in 1 .. n /\ k <= n
    BY <1>1
  <2>2. acc[k + 1] = SetPath(acc[k], PinOrder[k + 1], pins[PinOrder[k + 1]])
    BY <1>1, <1>2, <2>1 DEF F!Chain, SetPinned
  <2>3. /\ PinOrder[k + 1] \in RestartPaths
        /\ Done(k) \in SUBSET RestartPaths
    BY <1>1, <2>1, PinsAssumption
  <2>4. Done(k + 1) = Done(k) \cup {PinOrder[k + 1]}
    BY <2>1
  <2>5. SetBack(acc[k], t, pins, Done(k))
    BY <1>5, <2>1
  <2> DEFINE p == PinOrder[k + 1]
  <2> HIDE DEF Done, p
  <2>6. SetBack(SetPath(acc[k], p, pins[p]), t, pins, Done(k) \cup {p})
    BY <2>3, <2>5, SetsOneBack DEF p
  <2> QED BY <2>2, <2>4, <2>6 DEF p
<1>6. Nat \subseteq N
  <2> HIDE DEF N
  <2> QED BY <1>4, <1>5, F!NatSetInduction
<1>7. SetBack(acc[n], t, pins, Done(n))
  <2> HIDE DEF Done
  <2>1. n \in N
    BY <1>1, <1>6
  <2> QED BY <1>1, <2>1
<1>8. Done(n) = RestartPaths
  BY <1>1, PinsAssumption
<1> QED BY <1>2, <1>3, <1>7, <1>8

\* Lemma: a pinned path of the result is what the pin holds.
LEMMA FindsPin ==
    ASSUME NEW t, IsTree(t), Extracts(t), LeafPins(pins),
           NEW acc, SetBack(acc, t, pins, RestartPaths), NEW p \in RestartPaths
    PROVE  Find(acc, p) = pins[p]
<1> DEFINE D == {r \in DOMAIN acc : IsPrefix(p, r)}
<1>1. /\ RestartPaths \subseteq Leaves /\ RestartPaths \subseteq Seq(STRING)
  BY PinsAssumption, TreesAssumption
<1>2. \A h \in Holding(pins, RestartPaths) :
        /\ Parents(h) \cap Leaves = {}
        /\ \A q \in Parents(h) : ~IsPrefix(p, q)
        /\ IsPrefix(p, h) => h = p
  <2> TAKE h \in Holding(pins, RestartPaths)
  <2>1. h \in RestartPaths /\ Parents(h) \cap Leaves = {}
    BY DEF Holding, LeafPins
  <2>2. IsPrefix(p, h) => h = p
    BY <1>1, <2>1, ParentsArePrefixes
  <2>3. \A q \in Parents(h) : ~IsPrefix(p, q)
    BY <1>1, <2>1, ParentsArePrefixes, ParentsNest
  <2> QED BY <2>1, <2>2, <2>3
<1>3. D = {p} \cap Holding(pins, RestartPaths)
  <2>1. IsPrefix(p, p)
    BY <1>1, PrefixOrder
  <2>2. \A r \in D : r \in Holding(pins, RestartPaths)
    BY <1>2 DEF SetBack, Live, Above
  <2> QED BY <1>2, <2>1, <2>2 DEF SetBack
<1>4. Find(acc, p) = [q \in {SubSeq(r, Len(p) + 1, Len(r)) : r \in D} |-> acc[p \o q]]
  BY DEF Find
<1>5. CASE pins[p] = Nothing
  <2>1. {SubSeq(r, Len(p) + 1, Len(r)) : r \in D} = {}
    BY <1>3, <1>5 DEF Holding
  <2> QED BY <1>4, <1>5, <2>1 DEF Nothing
<1>6. CASE pins[p] # Nothing
  <2>1. p \in Holding(pins, RestartPaths) /\ p \in Seq(STRING)
    BY <1>1, <1>6 DEF Holding
  <2>2. {SubSeq(r, Len(p) + 1, Len(r)) : r \in D} = {<<>>}
    BY <1>3, <2>1, NothingBelow
  <2>3. Find(acc, p) = [q \in {<<>>} |-> acc[p]]
    BY <1>4, <2>1, <2>2, NothingBelow
  <2>4. acc[p] = pins[p][<<>>]
    BY <2>1 DEF SetBack
  <2> QED BY <1>6, <2>3, <2>4 DEF LeafPins
<1> QED BY <1>5, <1>6

-----------------------------------------------------------------------------
(* The process as a function of its boot and of its last load.             *)

\* The boot and every accepted load are values of the type, a binary that
\* declares a rebuild loads through the reloader, and the runtime has the
\* values of the fingerprint, which an unchanged re-read may replace.
Provenance ==
    /\ declared \in BOOLEAN
    /\ disk \in Trees
    /\ Up => /\ declared => entry = "reloader"
             /\ IsTree(boot) /\ Extracts(boot)
             /\ IsTree(accepted)
             /\ SameValue(running, sources.fingerprint)

IInv == Bookkeeping /\ Provenance

\* Lemma: what the layers say is a value.
LEMMA TreesAreTrees == \A t \in Trees : IsTree(t)
BY TreesAssumption DEF IsTree

\* Lemma: the initial states satisfy the invariant.
LEMMA InitIInv == Init => IInv
BY InitBookkeeping DEF Init, IInv, Provenance, Up

\* Lemma: every step keeps it.
LEMMA StepIInv == IInv /\ [Next]_vars => IInv'
<1> SUFFICES ASSUME IInv, [Next]_vars PROVE Provenance'
  BY StepBookkeeping DEF IInv
<1> USE DEF IInv
<1>1. CASE Refuse
  BY <1>1 DEF Refuse, Provenance, Up
<1>2. CASE Boot
  <2>1. running' = disk /\ boot' = disk /\ accepted' = disk /\ sources' = Sources(disk, {})
    BY <1>2 DEF Boot
  <2>2. SameValue(running, sources.fingerprint)'
    BY <2>1, SameValueReflexive DEF Sources
  <2>3. declared' => entry' = "reloader"
    BY <1>2 DEF Boot, Refuses, Bookkeeping
  <2> QED BY <1>2, <2>1, <2>2, <2>3, TreesAreTrees DEF Boot, Provenance
<1>3. CASE ReloadFailed
  BY <1>3 DEF ReloadFailed, Provenance, Up
<1>4. CASE ReloadUnchanged
  <2>1. /\ Up /\ UNCHANGED <<declared, entry, disk, running, boot>>
        /\ accepted' = disk /\ sources' = Loaded(disk)
        /\ SameValue(Loaded(disk).fingerprint, sources.fingerprint)
    BY <1>4 DEF ReloadUnchanged, Up, DiffersFrom
  <2>2. SameValue(running, sources.fingerprint)'
    BY <2>1 DEF Provenance, SameValue, SameLeaf
  <2> QED BY <2>1, <2>2, TreesAreTrees DEF Provenance
<1>5. CASE ReloadRebuilds
  <2>1. /\ Up /\ UNCHANGED <<declared, entry, disk, boot>>
        /\ accepted' = disk /\ sources' = Loaded(disk) /\ running' = Loaded(disk).fingerprint
    BY <1>5 DEF ReloadRebuilds, Up
  <2>2. SameValue(running, sources.fingerprint)'
    BY <2>1, SameValueReflexive
  <2> QED BY <2>1, <2>2, TreesAreTrees DEF Provenance
<1>6. CASE Exit
  BY <1>6 DEF Exit, Provenance, Up
<1>7. ASSUME NEW t \in Trees, Edit(t) PROVE Provenance'
  BY <1>7 DEF Edit, Provenance, Up
<1>8. CASE UNCHANGED vars
  BY <1>8 DEF vars, Provenance, Up
<1> QED
  BY <1>1, <1>2, <1>3, <1>4, <1>5, <1>6, <1>7, <1>8 DEF Next, Reload

\* Lemma: the pins of a running process.
LEMMA RunningPins ==
    ASSUME IInv, Up, entry = "reloader"
    PROVE  /\ pins = Capture(RestartPaths, boot)
           /\ LeafPins(pins)
           /\ Extracts(accepted) /\ IsTree(accepted)
           /\ sources = Loaded(accepted)
BY CapturedPins DEF IInv, Bookkeeping, Provenance, LoadFails

\* Lemma: values that are the same have the same values at every path.
LEMMA FindSame ==
    ASSUME NEW a, NEW b, SameValue(a, b), NEW p \in Seq(STRING), DOMAIN a \subseteq Seq(STRING)
    PROVE  SameValue(Find(a, p), Find(b, p))
<1> DEFINE D == {SubSeq(r, Len(p) + 1, Len(r)) : r \in {r \in DOMAIN a : IsPrefix(p, r)}}
<1>1. \A q \in D : p \o q \in DOMAIN a
  BY Below
<1>2. DOMAIN a = DOMAIN b /\ \A q \in DOMAIN a : a[q] = b[q]
  BY DEF SameValue, SameLeaf
<1>3. Find(a, p) = [q \in D |-> a[p \o q]] /\ Find(b, p) = [q \in D |-> b[p \o q]]
  BY <1>2 DEF Find
<1> QED BY <1>1, <1>2, <1>3 DEF SameValue, SameLeaf

\* Lemma: what a load through the reloader would build the runtime from holds
\* every restart path at its pin, and every other key at its new value.
LEMMA LoadedKeepsPins ==
    ASSUME NEW t, IsTree(t), Extracts(t), LeafPins(pins), DOMAIN pins = RestartPaths
    PROVE  LET built == Loaded(t).fingerprint
           IN  /\ DOMAIN built \subseteq Seq(STRING)
               /\ \A p \in RestartPaths : SameValue(Find(built, p), pins[p])
               /\ \A key \in Leaves \ RestartPaths :
                     /\ key \in DOMAIN built <=> key \in DOMAIN t
                     /\ key \in DOMAIN built => built[key] = t[key]
<1> DEFINE built == Loaded(t).fingerprint
<1>1. CASE PendingIn(pins, t) = {}
  <2>1. built = t
    BY <1>1 DEF Loaded, Sources
  <2>2. \A p \in RestartPaths : SameValue(pins[p], Find(t, p))
    BY <1>1 DEF PendingIn
  <2>3. \A p \in RestartPaths : SameValue(Find(t, p), pins[p])
    BY <2>2 DEF SameValue, SameLeaf
  <2> QED BY <2>1, <2>3 DEF IsTree
<1>2. CASE PendingIn(pins, t) # {}
  <2>1. built = Apply(pins, PinOrder, t)
    BY <1>2 DEF Loaded, Sources
  <2> HIDE DEF built
  <2>2. SetBack(built, t, pins, RestartPaths)
    BY <2>1, AppliesAll
  <2>3. \A p \in RestartPaths : SameValue(Find(built, p), pins[p])
    BY <2>2, FindsPin, SameValueReflexive
  <2>4. /\ RestartPaths \subseteq Leaves /\ Leaves \subseteq Seq(STRING)
        /\ Holding(pins, RestartPaths) \subseteq RestartPaths
        /\ Above(pins, RestartPaths) \cap Leaves = {}
        /\ Above(pins, RestartPaths) \subseteq Seq(STRING)
    <3>1. RestartPaths \subseteq Leaves /\ Leaves \subseteq Seq(STRING)
      BY PinsAssumption, TreesAssumption
    <3>2. \A h \in Holding(pins, RestartPaths) :
             h \in RestartPaths /\ Parents(h) \cap Leaves = {}
      BY DEF Holding, LeafPins
    <3> QED BY <3>1, <3>2, ParentsArePrefixes DEF Above
  <2>5. DOMAIN built \subseteq Seq(STRING)
    BY <2>2, <2>4 DEF SetBack, Live, IsTree
  <2>6. ASSUME NEW key \in Leaves \ RestartPaths, key \in DOMAIN t PROVE key \in Live(t, RestartPaths)
    BY <2>4, <2>6, NothingInsideLeaf DEF Live
  <2>7. ASSUME NEW key \in Leaves \ RestartPaths
        PROVE  /\ key \in DOMAIN built <=> key \in DOMAIN t
               /\ key \in DOMAIN built => built[key] = t[key]
    BY <2>2, <2>4, <2>6 DEF SetBack, Live
  <2> QED BY <2>3, <2>5, <2>7 DEF built
<1> QED BY <1>1, <1>2

-----------------------------------------------------------------------------
\* A binary that declared a rebuild keeps every restart-class key at the value
\* this process was started with: the runtime has the values of the last load,
\* which set every pin back, and the pins are those of the boot.
THEOREM RestartKeysStay == Spec => []RestartKeysAtBoot
<1>1. ASSUME IInv, Up, declared, NEW p \in RestartPaths
      PROVE  SameValue(Find(running, p), Find(boot, p))
  <2> DEFINE built == Loaded(accepted).fingerprint
  <2>1. entry = "reloader"
    BY <1>1 DEF IInv, Provenance
  <2>2. /\ pins = Capture(RestartPaths, boot) /\ LeafPins(pins)
        /\ Extracts(accepted) /\ IsTree(accepted) /\ sources = Loaded(accepted)
    BY <1>1, <2>1, RunningPins
  <2>3. DOMAIN pins = RestartPaths /\ pins[p] = Find(boot, p)
    BY <2>2 DEF Capture
  <2>4. SameValue(running, built)
    BY <1>1, <2>2 DEF IInv, Provenance
  <2>5. DOMAIN built \subseteq Seq(STRING) /\ SameValue(Find(built, p), pins[p])
    BY <2>2, <2>3, LoadedKeepsPins
  <2> HIDE DEF built
  <2>6. p \in Seq(STRING)
    BY PinsAssumption, TreesAssumption
  <2>7. DOMAIN running \subseteq Seq(STRING)
    BY <2>4, <2>5 DEF SameValue
  <2>8. SameValue(Find(running, p), Find(built, p))
    BY <2>4, <2>6, <2>7, FindSame
  <2> QED BY <2>3, <2>5, <2>8 DEF SameValue, SameLeaf
<1>2. IInv => RestartKeysAtBoot
  BY <1>1 DEF RestartKeysAtBoot
<1> QED BY InitIInv, StepIInv, <1>2, PTL DEF Spec

\* Every other key runs with the value the last load read: pinning one key
\* holds no other back and drops none.
THEOREM OtherKeysFollow == Spec => []LiveKeysFollow
<1>1. ASSUME IInv, Up PROVE LiveKeysFollow
  <2>1. SameValue(running, sources.fingerprint) /\ sources = Loaded(accepted)
        /\ entry \in {"reloader", "watched"}
    BY <1>1 DEF IInv, Provenance, Bookkeeping
  <2>2. CASE entry = "watched"
    <3>1. PendingIn(pins, accepted) = {}
      BY <1>1, <2>2, NothingPendingWithoutPins DEF IInv, Bookkeeping
    <3>2. SameValue(running, accepted)
      BY <2>1, <3>1 DEF Loaded, Sources
    <3> QED BY <2>2, <3>2 DEF LiveKeysFollow, SameValue, SameLeaf
  <2>3. CASE entry = "reloader"
    <3>1. /\ pins = Capture(RestartPaths, boot) /\ LeafPins(pins)
          /\ Extracts(accepted) /\ IsTree(accepted)
      BY <1>1, <2>3, RunningPins
    <3>2. DOMAIN pins = RestartPaths
      BY <3>1 DEF Capture
    <3> DEFINE built == Loaded(accepted).fingerprint
    <3>3. \A key \in Leaves \ RestartPaths :
             /\ key \in DOMAIN built <=> key \in DOMAIN accepted
             /\ key \in DOMAIN built => built[key] = accepted[key]
      BY <3>1, <3>2, LoadedKeepsPins
    <3>4. SameValue(running, built)
      BY <2>1
    <3> HIDE DEF built
    <3> QED BY <2>3, <3>3, <3>4 DEF LiveKeysFollow, SameValue, SameLeaf
  <2> QED BY <2>1, <2>2, <2>3
<1>2. IInv => LiveKeysFollow
  BY <1>1 DEF LiveKeysFollow
<1> QED BY InitIInv, StepIInv, <1>2, PTL DEF Spec

\* Setting the pins back one after the other, in any order, gives the tree with
\* the boot's values at the pinned paths and the new ones everywhere else.
THEOREM ApplyIsReference == Spec => []ApplyMatchesReference
<1>1. ASSUME IInv, Up, entry = "reloader", Extracts(disk) PROVE ApplyMatchesReference
  <2> DEFINE result == Apply(pins, PinOrder, disk)
             HeldAt(path) == {path \o r : r \in DOMAIN pins[path]}
             held == UNION {HeldAt(path) : path \in RestartPaths}
  <2>1. LeafPins(pins) /\ IsTree(disk)
    BY <1>1, RunningPins, TreesAreTrees DEF IInv, Provenance
  <2>2. SetBack(result, disk, pins, RestartPaths)
    BY <1>1, <2>1, AppliesAll
  <2>3. \A path \in RestartPaths : Find(result, path) = pins[path]
    BY <1>1, <2>1, <2>2, FindsPin
  <2>4. ASSUME NEW path \in RestartPaths
        PROVE  HeldAt(path) = IF pins[path] = Nothing THEN {} ELSE {path}
    <3>1. CASE pins[path] = Nothing
      BY <3>1 DEF Nothing
    <3>2. CASE pins[path] # Nothing
      <4>1. DOMAIN pins[path] = {<<>>}
        BY <3>2, <2>1 DEF LeafPins
      <4>2. path \o <<>> = path
        BY NothingBelow, PinsAssumption, TreesAssumption
      <4> QED BY <3>2, <4>1, <4>2
    <3> QED BY <3>1, <3>2
  <2>5. held = Holding(pins, RestartPaths)
    <3> HIDE DEF HeldAt
    <3> QED BY <2>4 DEF Holding
  <2> HIDE DEF result, held
  <2>6. /\ DOMAIN result = Live(disk, RestartPaths) \cup held
                           \cup UNION {Parents(path) : path \in Holding(pins, RestartPaths)}
        /\ \A q \in Live(disk, RestartPaths) : result[q] = disk[q]
        /\ \A path \in RestartPaths : Find(result, path) = pins[path]
        /\ \A q \in UNION {Parents(path) : path \in Holding(pins, RestartPaths)} :
              result[q] = Table
    BY <2>2, <2>3, <2>5 DEF SetBack, Above
  <2> QED BY <2>6 DEF ApplyMatchesReference, Live, Holding, result, held
<1>2. IInv => ApplyMatchesReference
  BY <1>1 DEF ApplyMatchesReference
<1> QED BY InitIInv, StepIInv, <1>2, PTL DEF Spec

-----------------------------------------------------------------------------
(* Values of two moments in one configuration.                             *)

\* Lemma: what a value the type extracts has at a restart path is one leaf, or
\* nothing.
LEMMA LeafValue ==
    ASSUME NEW t, IsTree(t), Extracts(t), NEW p \in RestartPaths
    PROVE  Find(t, p) = IF p \in DOMAIN t THEN [q \in {<<>>} |-> t[p]] ELSE Nothing
<1> DEFINE D == {r \in DOMAIN t : IsPrefix(p, r)}
<1>1. p \in Leaves /\ p \in Seq(STRING) /\ IsPrefix(p, p)
  BY PinsAssumption, TreesAssumption, PrefixOrder
<1>2. D = {p} \cap DOMAIN t
  BY <1>1, NothingInsideLeaf
<1>3. Find(t, p) = [q \in {SubSeq(r, Len(p) + 1, Len(r)) : r \in D} |-> t[p \o q]]
  BY DEF Find
<1>4. CASE p \in DOMAIN t
  <2>1. {SubSeq(r, Len(p) + 1, Len(r)) : r \in D} = {<<>>}
    BY <1>1, <1>2, <1>4, NothingBelow
  <2>2. Find(t, p) = [q \in {<<>>} |-> t[p \o q]]
    BY <1>3, <2>1
  <2>3. p \o <<>> = p
    BY <1>1, NothingBelow
  <2> QED BY <1>4, <2>2, <2>3
<1>5. CASE p \notin DOMAIN t
  <2>1. {SubSeq(r, Len(p) + 1, Len(r)) : r \in D} = {}
    BY <1>2, <1>5
  <2> QED BY <1>3, <1>5, <2>1 DEF Nothing
<1> QED BY <1>4, <1>5

\* Where a key of the mixture comes from.
From(q, t) == IF q \in RestartPaths THEN boot ELSE t

\* Lemma: a value with the boot's values set back has tables and leaves where
\* the type has them, and every leaf from the boot or from the value itself.
LEMMA MixtureOfTwo ==
    ASSUME NEW t, IsTree(t), Extracts(t), IsTree(boot), Extracts(boot),
           pins = Capture(RestartPaths, boot), NEW acc, SetBack(acc, t, pins, RestartPaths)
    PROVE  /\ \A q \in DOMAIN acc : (q \in Leaves <=> acc[q] # Table) /\ acc[q] # Bad
           /\ \A q \in Leaves : /\ q \in DOMAIN acc <=> q \in DOMAIN From(q, t)
                                /\ q \in DOMAIN acc => acc[q] = From(q, t)[q]
<1> DEFINE H == Holding(pins, RestartPaths)
<1>1. /\ RestartPaths \subseteq Leaves /\ Leaves \subseteq Seq(STRING)
      /\ \A p \in RestartPaths : IsPrefix(p, p)
  BY PinsAssumption, TreesAssumption, PrefixOrder
<1>2. \A p \in RestartPaths :
         pins[p] = IF p \in DOMAIN boot THEN [q \in {<<>>} |-> boot[p]] ELSE Nothing
  BY LeafValue DEF Capture
<1>3. \A p \in RestartPaths : /\ p \in H <=> p \in DOMAIN boot
                              /\ p \in H => pins[p][<<>>] = boot[p]
  <2> TAKE p \in RestartPaths
  <2>1. CASE p \in DOMAIN boot
    <3>1. pins[p] = [q \in {<<>>} |-> boot[p]]
      BY <1>2, <2>1
    <3>2. DOMAIN pins[p] = {<<>>} /\ DOMAIN Nothing = {}
      BY <3>1 DEF Nothing
    <3> QED BY <2>1, <3>1, <3>2 DEF Holding
  <2>2. CASE p \notin DOMAIN boot
    BY <1>2, <2>2 DEF Holding
  <2> QED BY <2>1, <2>2
<1>4. \A p \in H : Parents(p) \cap Leaves = {}
  BY CapturedPins DEF Holding, LeafPins
<1>5. ASSUME NEW q \in DOMAIN acc PROVE (q \in Leaves <=> acc[q] # Table) /\ acc[q] # Bad
  <2>1. CASE q \in Live(t, RestartPaths)
    BY <2>1 DEF SetBack, Live, Extracts
  <2>2. CASE q \in H
    <3>1. q \in RestartPaths /\ q \in DOMAIN boot /\ acc[q] = boot[q]
      BY <1>3, <2>2 DEF SetBack, Holding
    <3> QED BY <3>1 DEF Extracts
  <2>3. CASE q \in Above(pins, RestartPaths)
    <3>1. PICK p \in H : q \in Parents(p)
      BY <2>3 DEF Above
    <3>2. p \in DOMAIN boot /\ q \in DOMAIN boot /\ boot[q] = Table
      BY <1>3, <3>1 DEF Holding, IsTree
    <3>3. acc[q] = Table
      BY <2>3 DEF SetBack
    <3> QED BY <3>2, <3>3 DEF Extracts
  <2> QED BY <2>1, <2>2, <2>3 DEF SetBack
<1>6. ASSUME NEW q \in Leaves
      PROVE  /\ q \in DOMAIN acc <=> q \in DOMAIN From(q, t)
             /\ q \in DOMAIN acc => acc[q] = From(q, t)[q]
  <2>1. q \notin Above(pins, RestartPaths)
    BY <1>4 DEF Above
  <2>2. CASE q \in RestartPaths
    <3>1. q \notin Live(t, RestartPaths)
      BY <1>1, <2>2 DEF Live
    <3>2. q \in DOMAIN acc <=> q \in H
      BY <2>1, <3>1 DEF SetBack
    <3>3. q \in H => acc[q] = pins[q][<<>>]
      BY DEF SetBack
    <3> QED BY <1>3, <2>2, <3>2, <3>3 DEF From
  <2>3. CASE q \notin RestartPaths
    <3>1. q \in Live(t, RestartPaths) <=> q \in DOMAIN t
      BY <1>1, <2>3, NothingInsideLeaf DEF Live
    <3>2. q \notin H
      BY <2>3 DEF Holding
    <3> QED BY <2>1, <2>3, <3>1, <3>2 DEF SetBack, From
  <2> QED BY <2>2, <2>3
<1> QED BY <1>5, <1>6

\* Lemma: values that are the same are both values of the type, or neither is.
LEMMA ExtractsSame ==
    ASSUME NEW a, NEW b, SameValue(a, b), Extracts(b)
    PROVE  Extracts(a)
BY DEF SameValue, SameLeaf, Extracts

\* Lemma: what a load that does not fail builds the runtime from.
LEMMA LoadedExtracts ==
    ASSUME NEW t, ~LoadFails(t)
    PROVE  Extracts(Loaded(t).fingerprint)
BY DEF LoadFails, Loaded, Sources

\* What runs is a value of the type, and a reload is refused exactly when the
\* files alone, or the files beside the values of the boot, are none.
THEOREM MixturesAreValues == Spec => []MixturesExtract
<1>1. ASSUME IInv, Up PROVE Extracts(running)
  <2>1. SameValue(running, Loaded(accepted).fingerprint) /\ ~LoadFails(accepted)
    BY <1>1 DEF IInv, Provenance, Bookkeeping
  <2> QED BY <2>1, LoadedExtracts, ExtractsSame
<1>2. ASSUME IInv, Up, entry = "watched" PROVE LoadFails(disk) <=> ~Extracts(disk)
  <2>1. PendingIn(pins, disk) = {}
    BY <1>2, NothingPendingWithoutPins DEF IInv, Bookkeeping
  <2> QED BY <2>1 DEF LoadFails
<1>3. ASSUME IInv, Up, entry = "reloader", Extracts(disk)
      PROVE  LoadFails(disk) <=> BrokenTogether
  <2>1. /\ IsTree(disk) /\ IsTree(boot) /\ Extracts(boot)
        /\ pins = Capture(RestartPaths, boot) /\ LeafPins(pins)
    BY <1>3, RunningPins, TreesAreTrees DEF IInv, Provenance
  <2> DEFINE acc == Apply(pins, PinOrder, disk)
  <2>2. SetBack(acc, disk, pins, RestartPaths)
    BY <1>3, <2>1, AppliesAll
  <2> HIDE DEF acc
  <2>3. /\ \A q \in DOMAIN acc : (q \in Leaves <=> acc[q] # Table) /\ acc[q] # Bad
        /\ \A q \in Leaves : /\ q \in DOMAIN acc <=> q \in DOMAIN From(q, disk)
                             /\ q \in DOMAIN acc => acc[q] = From(q, disk)[q]
    BY <1>3, <2>1, <2>2, MixtureOfTwo
  <2>4. ASSUME NEW clash \in Clashes
        PROVE  (\A q \in DOMAIN clash : q \in DOMAIN acc /\ acc[q] = clash[q])
               <=> \A q \in DOMAIN clash : LET t == IF q \in RestartPaths THEN boot ELSE disk
                                           IN  q \in DOMAIN t /\ t[q] = clash[q]
    <3>1. DOMAIN clash \subseteq Leaves
      BY ClashesAssumption
    <3> QED BY <2>3, <3>1 DEF From
  <2>5. ~Extracts(acc) <=> BrokenTogether
    BY <2>3, <2>4 DEF Extracts, BrokenTogether
  <2>6. CASE PendingIn(pins, disk) # {}
    BY <1>3, <2>5, <2>6 DEF LoadFails, acc
  <2>7. CASE PendingIn(pins, disk) = {}
    <3>1. ASSUME NEW q \in RestartPaths
          PROVE  /\ q \in DOMAIN boot <=> q \in DOMAIN disk
                 /\ q \in DOMAIN boot => boot[q] = disk[q]
      <4>1. SameValue(Find(boot, q), Find(disk, q))
        BY <2>1, <2>7 DEF PendingIn, Capture
      <4>2. /\ Find(boot, q) = IF q \in DOMAIN boot THEN [r \in {<<>>} |-> boot[q]] ELSE Nothing
            /\ Find(disk, q) = IF q \in DOMAIN disk THEN [r \in {<<>>} |-> disk[q]] ELSE Nothing
        BY <1>3, <2>1, LeafValue
      <4>3. DOMAIN Nothing = {}
        BY DEF Nothing
      <4> QED BY <4>1, <4>2, <4>3 DEF SameValue, SameLeaf
    <3>2. ~BrokenTogether
      BY <1>3, <3>1 DEF BrokenTogether, Extracts
    <3> QED BY <1>3, <2>7, <3>2 DEF LoadFails
  <2> QED BY <2>6, <2>7
<1>4. IInv => MixturesExtract
  <2> SUFFICES ASSUME IInv, Up PROVE MixturesExtract
    BY DEF MixturesExtract
  <2>1. entry \in {"reloader", "watched"}
    BY DEF IInv, Bookkeeping
  <2>2. ~Extracts(disk) => LoadFails(disk)
    BY DEF LoadFails
  <2> QED BY <1>1, <1>2, <1>3, <2>1, <2>2 DEF MixturesExtract
<1> QED BY InitIInv, StepIInv, <1>4, PTL DEF Spec

=============================================================================
