--------------------------- MODULE RolloutProofs ---------------------------
(***************************************************************************)
(* No gated chart strands a change, for every set of keys, images and      *)
(* containers.  The argument: the gates and the generated set make every   *)
(* key that is not on its way in place part of the digest (Covered), and   *)
(* a value the digest covers changes in a process only by a new pod or by  *)
(* a rebuild that is on its way in place anyway (Held).                    *)
(***************************************************************************)
EXTENDS Rollout, TLAPS

\* A key a container takes in place, from where the chart delivers it.
InPlace(c, k) ==
    /\ k \in image[c].applies
    /\ c \notin init
    /\ delivery[k] \in {"document", "secrets_dir"} \ frozen

Shape ==
    /\ image \in [Containers -> Images]
    /\ init \subseteq Containers
    /\ delivery \in Deliveries
    /\ annotation \in {"none", "restart_set", "full"}
    /\ deployed \in [Keys -> {0, 1}]
    /\ mounted \in [Keys -> {0, 1}]
    /\ loaded \in [Containers -> [Keys -> {0, 1}]]
    /\ running \in [Containers -> [Keys -> {0, 1}]]

\* What passed the gates stays as it passed them.
Passed ==
    phase # "authored" =>
        /\ Current /\ ~Frozen /\ ~Unhashed
        /\ annotation = "restart_set" => tpl.exists

HashedKeys == {k \in Keys : Hashed(k)}

\* What a digest covers, the pod's processes hold, unless they take it in place.
Held ==
    phase = "deployed" =>
        /\ digest \in [HashedKeys -> {0, 1}]
        /\ \A k \in HashedKeys :
              delivery[k] \notin {"document", "secrets_dir"} \ frozen =>
                  mounted[k] = digest[k]
        /\ \A c \in Containers, k \in HashedKeys :
              InPlace(c, k) \/ running[c][k] = digest[k]
        /\ \A c \in Containers, k \in Keys :
              InPlace(c, k) => loaded[c][k] = running[c][k]

IInv == Shape /\ Passed /\ Held

(* The gates and the generated set leave no key of an answered chart out   *)
(* of both the digest and the images' in-place reload.                     *)
LEMMA Covered ==
    ASSUME HonestImages, Shape, Passed, phase = "deployed", Answered, Heeded,
           NEW c \in Containers, NEW k \in Keys, ~InPlace(c, k)
    PROVE  Hashed(k)
<1>1. CASE delivery[k] = "env"
  BY <1>1 DEF Hashed
<1>2. CASE delivery[k] # "env"
  <2>1. delivery[k] \in {"document", "secrets_dir"} /\ k \notin Reserved
    BY <1>2, RolloutAssumption DEF Shape, Channels
  <2>2. image[c] \in Images /\ image[c].contract \in Contracts
    BY DEF Shape, Contracts
  <2>3. AnyRebuilds /\ kind \in LongRunning
    BY DEF Answered
  <2>4. Stale = {} /\ tpl = RestartSet
    BY <2>3 DEF Passed, Current, Skipped
  <2>5. CASE annotation = "full"
    BY <2>1, <2>5 DEF Hashed
  <2>6. CASE annotation # "full"
    <3>1. \/ tpl.document_all /\ tpl.secrets_all
          \/ c \notin init /\ Classify(image[c].contract, k, delivery[k], FALSE) = "restart"
      <4>1. CASE c \in init
        <5>1. ~Rebuilds(image[c].contract)
          BY <2>6, <4>1 DEF Heeded, WarnedOfInit
        <5>2. \A layer : ~Watches(layer)
          BY <5>1, <2>2 DEF Watches
        <5> QED BY <2>4, <5>2 DEF RestartSet
      <4>2. CASE c \notin init
        <5>1. SUFFICES ASSUME Classify(image[c].contract, k, delivery[k], FALSE) = "live"
                       PROVE  FALSE
          BY <2>1, <4>2 DEF Classify
        <5>2. k \in image[c].applies
          BY <5>1, <2>1, <2>2 DEF HonestImages
        <5>3. delivery[k] \in frozen
          BY <5>2, <4>2, <2>1 DEF InPlace
        <5>4. FrozenMount(c, delivery[k])
          BY <5>1, <5>3 DEF FrozenMount
        <5>5. Frozen
          BY <5>4, <4>2, <2>1 DEF Frozen
        <5> QED BY <5>5 DEF Passed
      <4> QED BY <4>1, <4>2
    <3>2. annotation = "restart_set"
      <4>1. NeedsDigest
        <5>1. CASE c \in init
          BY <5>1 DEF NeedsDigest
        <5>2. CASE c \notin init
          <6>1. SUFFICES ASSUME Classify(image[c].contract, k, delivery[k], FALSE) # "restart"
                         PROVE  FALSE
            BY <5>2, <2>1 DEF NeedsDigest, HasRestartContent
          <6>2. Classify(image[c].contract, k, delivery[k], FALSE) = "live"
            BY <6>1, <2>1 DEF Classify
          <6>3. k \in image[c].applies
            BY <6>2, <2>1, <2>2 DEF HonestImages
          <6>4. delivery[k] \in frozen
            BY <6>3, <5>2, <2>1 DEF InPlace
          <6>5. FrozenMount(c, delivery[k])
            BY <6>2, <6>4 DEF FrozenMount
          <6>6. Frozen
            BY <6>5, <5>2, <2>1 DEF Frozen
          <6> QED BY <6>6 DEF Passed
        <5> QED BY <5>1, <5>2
      <4> QED BY <4>1, <2>6 DEF Passed, Unhashed, Shape
    <3>3. CASE tpl.document_all /\ tpl.secrets_all
      BY <3>2, <3>3, <2>1 DEF Hashed
    <3>4. CASE Classify(image[c].contract, k, delivery[k], FALSE) = "restart"
      <4>1. \/ ImageClass(image[c].contract, k) # "ok"
            \/ delivery[k] \notin image[c].contract.layers
        BY <3>4, <2>1 DEF Classify
      <4>2. CASE delivery[k] \notin image[c].contract.layers
        <5>1. ~Watches(delivery[k])
          BY <4>2, <2>2 DEF Watches
        <5> QED BY <5>1, <2>1, <2>4, <3>2 DEF Hashed, RestartSet
      <4>3. CASE ImageClass(image[c].contract, k) # "ok"
        <5>1. k \in RestartKeys
          BY <4>3, <2>1, <2>2 DEF RestartKeys
        <5>2. Spelling[k] \in UNION {Spellings(j) : j \in RestartKeys}
          BY <5>1, RolloutAssumption DEF Spellings
        <5>3. CASE delivery[k] = "document"
          BY <5>2, <5>3, <2>4, <3>2 DEF Hashed, RestartSet
        <5>4. CASE delivery[k] = "secrets_dir"
          BY <5>2, <5>4, <2>4, <3>2 DEF Hashed, RestartSet
        <5> QED BY <5>3, <5>4, <2>1
      <4> QED BY <4>1, <4>2, <4>3
    <3> QED BY <3>1, <3>3, <3>4
  <2> QED BY <2>5, <2>6
<1> QED BY <1>1, <1>2

(* A step that leaves the chart and its template alone leaves alone what   *)
(* the gates said of it, what its digest covers and what is in place.      *)
LEMMA ChartStays ==
    ASSUME UNCHANGED <<chart, tpl>>
    PROVE  /\ Current' = Current /\ Frozen' = Frozen /\ Unhashed' = Unhashed
           /\ HashedKeys' = HashedKeys /\ HashedKeys \subseteq Keys
           /\ \A c \in Containers, k \in Keys : (InPlace(c, k)' <=> InPlace(c, k))
<1>1. Contracts' = Contracts
  BY DEF chart, Contracts
<1>2. AnyRebuilds' = AnyRebuilds /\ Stale' = Stale /\ RestartKeys' = RestartKeys
  BY <1>1 DEF chart, AnyRebuilds, Stale, RestartKeys
<1>3. RestartSet' = RestartSet
  BY <1>1, <1>2 DEF RestartSet, Watches
<1>4. Current' = Current
  BY <1>2, <1>3 DEF Current, Skipped
<1>5. Frozen' = Frozen /\ Unhashed' = Unhashed
  BY <1>2 DEF chart, Frozen, Unhashed, Answered, FrozenMount, NeedsDigest, HasRestartContent
<1>6. HashedKeys' = HashedKeys /\ HashedKeys \subseteq Keys
  BY DEF chart, HashedKeys, Hashed
<1>7. \A c \in Containers, k \in Keys : (InPlace(c, k)' <=> InPlace(c, k))
  BY DEF chart, InPlace
<1> QED BY <1>4, <1>5, <1>6, <1>7

LEMMA InitIInv == Init => IInv
<1>1. Init => Shape
  BY RolloutAssumption DEF Init, Shape
<1>2. Init => Passed /\ Held
  BY DEF Init, Passed, Held
<1> QED BY <1>1, <1>2 DEF IInv

(* A pod that starts holds what is deployed, the digest included.          *)
LEMMA StartHolds ==
    ASSUME Shape, StartPod, UNCHANGED <<chart, tpl, deployed>>
    PROVE  Shape' /\ Held'
<1>1. Shape'
  BY DEF Shape, StartPod, chart
<1>2. HashedKeys' = HashedKeys
  BY ChartStays
<1>3. digest' = [k \in HashedKeys |-> deployed[k]]
  BY DEF StartPod, Digest, HashedKeys
<1>4. HashedKeys \subseteq Keys
  BY DEF HashedKeys
<1>5. digest' \in [HashedKeys' -> {0, 1}]
  BY <1>2, <1>3, <1>4 DEF Shape
<1>6. \A k \in HashedKeys' : mounted'[k] = digest'[k]
  BY <1>2, <1>3 DEF StartPod
<1>7. \A c \in Containers, k \in HashedKeys' : running'[c][k] = digest'[k]
  BY <1>2, <1>3 DEF StartPod
<1>8. \A c \in Containers : loaded'[c] = running'[c]
  BY DEF StartPod
<1> QED BY <1>1, <1>5, <1>6, <1>7, <1>8 DEF Held

(* Every step keeps the invariant.                                         *)
LEMMA StepIInv == ASSUME HonestImages PROVE IInv /\ [Next]_vars => IInv'
<1> SUFFICES ASSUME IInv, [Next]_vars PROVE IInv'
  OBVIOUS
<1> USE DEF IInv
<1>1. CASE Generate
  <2>1. Shape'
    BY <1>1 DEF Generate, Shape, chart, pod
  <2>2. phase' = "authored"
    BY <1>1 DEF Generate
  <2> QED BY <2>1, <2>2 DEF Passed, Held
<1>2. CASE Gate
  <2>1. Shape'
    BY <1>2 DEF Gate, Shape, chart, pod
  <2>2. UNCHANGED <<chart, tpl>> /\ phase' = "gated"
    BY <1>2 DEF Gate
  <2>3. Passed'
    BY <1>2, <2>2, ChartStays DEF Gate, Passed, chart
  <2> QED BY <2>1, <2>2, <2>3 DEF Held
<1>3. CASE Install
  <2>1. UNCHANGED <<chart, tpl, deployed>> /\ StartPod /\ phase = "gated"
    BY <1>3 DEF Install
  <2>2. Passed'
    BY <2>1, ChartStays DEF Passed, chart
  <2> QED BY <2>1, <2>2, StartHolds
<1>4. CASE Roll
  <2>1. UNCHANGED <<chart, tpl, deployed>> /\ StartPod /\ phase = "deployed"
    BY <1>4 DEF Roll
  <2>2. Passed'
    BY <2>1, ChartStays DEF Passed, chart
  <2> QED BY <2>1, <2>2, StartHolds
<1>5. ASSUME NEW j \in Keys, Upgrade(j) PROVE IInv'
  <2>1. UNCHANGED <<chart, tpl, phase, pod>>
    BY <1>5 DEF Upgrade
  <2>2. Shape'
    BY <1>5, <2>1 DEF Upgrade, Shape, chart, pod
  <2>3. Passed'
    BY <2>1, ChartStays DEF Passed, chart
  <2>4. Held'
    BY <2>1, ChartStays DEF Held, chart, pod
  <2> QED BY <2>2, <2>3, <2>4
<1>6. CASE KubeletSync
  <2>1. UNCHANGED <<chart, tpl, phase, digest, loaded, running, deployed>> /\ mounted' = Fresh
    BY <1>6 DEF KubeletSync
  <2>2. Shape'
    BY <2>1 DEF Shape, chart, Fresh
  <2>3. Passed'
    BY <2>1, ChartStays DEF Passed, chart
  <2>4. ASSUME NEW k \in HashedKeys, phase = "deployed",
               delivery[k] \notin {"document", "secrets_dir"} \ frozen
        PROVE  mounted'[k] = digest[k]
    <3>1. k \in Keys
      BY DEF HashedKeys
    <3>2. delivery[k] \notin Layers \ frozen
      BY <2>4, <3>1, RolloutAssumption DEF Shape, Channels, Layers
    <3>3. mounted'[k] = mounted[k]
      BY <2>1, <3>1, <3>2 DEF Fresh
    <3> QED BY <3>3, <2>4 DEF Held
  <2>5. Held'
    BY <2>1, <2>4, ChartStays DEF Held, chart
  <2> QED BY <2>2, <2>3, <2>5
<1>7. ASSUME NEW d \in Containers, Rebuild(d) PROVE IInv'
  <2>1. UNCHANGED <<chart, tpl, phase, digest, mounted, deployed>> /\ phase = "deployed"
    BY <1>7 DEF Rebuild
  <2>2. /\ d \notin init
        /\ loaded' = [loaded EXCEPT ![d] = mounted]
        /\ running' = [running EXCEPT ![d] =
             [k \in Keys |-> IF k \in image[d].applies THEN mounted[k] ELSE @[k]]]
    BY <1>7 DEF Rebuild
  <2>3. Shape'
    BY <2>1, <2>2 DEF Shape, chart
  <2>4. Passed'
    BY <2>1, ChartStays DEF Passed, chart
  <2>5. ASSUME NEW k \in HashedKeys, NEW c \in Containers, ~InPlace(c, k)
        PROVE  running'[c][k] = digest[k]
    <3>1. k \in Keys /\ running[c][k] = digest[k]
      BY <2>5, <2>1 DEF HashedKeys, Held
    <3>2. CASE c # d
      BY <3>1, <3>2, <2>2 DEF Shape
    <3>3. CASE c = d /\ k \in image[d].applies
      <4>1. delivery[k] \notin {"document", "secrets_dir"} \ frozen
        BY <2>2, <2>5, <3>3 DEF InPlace
      <4>2. mounted[k] = digest[k]
        BY <4>1, <2>1 DEF Held
      <4> QED BY <4>2, <3>1, <3>3, <2>2 DEF Shape
    <3>4. CASE c = d /\ k \notin image[d].applies
      BY <3>1, <3>4, <2>2 DEF Shape
    <3> QED BY <3>2, <3>3, <3>4
  <2>6. ASSUME NEW k \in Keys, NEW c \in Containers, InPlace(c, k)
        PROVE  loaded'[c][k] = running'[c][k]
    <3>1. CASE c # d
      BY <3>1, <2>1, <2>2, <2>6 DEF Shape, Held
    <3>2. CASE c = d
      BY <3>2, <2>2, <2>6 DEF Shape, InPlace
    <3> QED BY <3>1, <3>2
  <2>7. Held'
    BY <2>1, <2>5, <2>6, ChartStays DEF Held, chart
  <2> QED BY <2>3, <2>4, <2>7
<1>8. CASE UNCHANGED vars
  <2>1. UNCHANGED <<chart, tpl, phase, deployed, pod>>
    BY <1>8 DEF vars
  <2>2. Shape'
    BY <2>1 DEF Shape, chart, pod
  <2>3. Passed' /\ Held'
    BY <2>1, ChartStays DEF Passed, Held, chart, pod
  <2> QED BY <2>2, <2>3
<1> QED BY <1>1, <1>2, <1>3, <1>4, <1>5, <1>6, <1>7, <1>8 DEF Next

(* The invariant leaves a change no third way out: what the digest covers  *)
(* rolls, the rest is coming.                                              *)
LEMMA NeverStranded == ASSUME HonestImages PROVE IInv => NothingIsStranded
<1> SUFFICES ASSUME IInv, phase = "deployed", Answered, Heeded,
                    NEW c \in Containers, NEW k \in Keys, ~Applied(c, k), ~Rolls
             PROVE  Coming(c, k)
  BY DEF NothingIsStranded
<1>1. CASE ~InPlace(c, k)
  <2>1. Hashed(k)
    BY <1>1, Covered DEF IInv
  <2>2. running[c][k] = digest[k]
    BY <1>1, <2>1 DEF IInv, Held, HashedKeys
  <2>3. digest[k] = deployed[k]
    BY <2>1 DEF Rolls, Digest
  <2> QED BY <2>2, <2>3 DEF Applied
<1>2. CASE InPlace(c, k)
  <2>1. image[c] \in Images /\ image[c].applies # {}
    BY <1>2 DEF InPlace, IInv, Shape
  <2>2. Rebuilds(image[c].contract) /\ delivery[k] \in image[c].contract.layers
    BY <2>1, <1>2 DEF HonestImages, InPlace
  <2>3. loaded[c][k] = running[c][k]
    BY <1>2 DEF IInv, Held
  <2> QED BY <1>2, <2>2, <2>3 DEF Coming, InPlace
<1> QED BY <1>1, <1>2

(* No gated chart strands a change: what a process does not run with yet   *)
(* rolls the pods or is on its way in place.                               *)
THEOREM ChartStrandsNothing == ASSUME HonestImages PROVE Spec => []NothingIsStranded
<1>1. IInv /\ [Next]_vars => IInv'
  BY StepIInv
<1>2. IInv => NothingIsStranded
  BY NeverStranded
<1> QED BY <1>1, <1>2, InitIInv, PTL DEF Spec
-----------------------------------------------------------------------------
(* The images a producer publishes are honest.                             *)

Opened(scopes, class) == Open(class, scopes)
F == INSTANCE FoldLemmas WITH Op <- Opened

\* Lemma: the class of a key is that of the set of scopes on the way to it: one
\* restart is enough, in whatever order and however often they were opened.
LEMMA ClassOfScopes ==
    ASSUME NEW path \in Seq({"live", "restart"})
    PROVE  ClassOn(path) = IF "restart" \in Range(path) THEN "restart"
                           ELSE IF path # <<>> THEN "live" ELSE "undeclared"
<1> DEFINE n == Len(path)
<1>1. n \in Nat /\ DOMAIN path = 1 .. n
  OBVIOUS
<1>2. PICK acc : F!Chain(acc, Closed, path) /\ F!Fold(Closed, path) = acc[n]
  BY <1>1, F!FoldIsChain
<1>3. ClassOn(path) = Resolve(F!Fold(Closed, path))
  BY DEF F!Fold, F!FoldLeft, ClassOn, Opened, FoldLeft, F!MapThenFoldSet, MapThenFoldSet,
         F!Max, Max
<1>4. acc[0] = Closed /\ \A k \in 1 .. n : acc[k] = Open(path[k], acc[k - 1])
  BY <1>1, <1>2 DEF F!Chain, Opened
<1> HIDE DEF n
<1> DEFINE Counts(k) ==
             /\ acc[k] \in [live : Nat, restart : Nat]
             /\ acc[k].restart > 0 <=> \E j \in 1 .. k : path[j] = "restart"
             /\ acc[k].live > 0 <=> \E j \in 1 .. k : path[j] = "live"
           N == {k \in Nat : k <= n => Counts(k)}
<1>5. 0 \in N
  BY <1>4 DEF Closed
<1>6. ASSUME NEW k \in Nat, k \in N PROVE k + 1 \in N
  <2> SUFFICES ASSUME k + 1 <= n PROVE Counts(k + 1)
    OBVIOUS
  <2>1. Counts(k) /\ acc[k + 1] = Open(path[k + 1], acc[k])
    BY <1>1, <1>4, <1>6
  <2>2. path[k + 1] \in {"live", "restart"}
    BY <1>1
  <2>3. 1 .. k + 1 = (1 .. k) \cup {k + 1}
    OBVIOUS
  <2>4. CASE path[k + 1] = "live"
    <3>1. acc[k + 1] = [acc[k] EXCEPT !.live = @ + 1]
      BY <2>1, <2>4 DEF Open
    <3>2. /\ acc[k + 1] \in [live : Nat, restart : Nat]
          /\ acc[k + 1].restart = acc[k].restart /\ acc[k + 1].live > 0
      BY <2>1, <3>1
    <3> QED BY <2>1, <2>3, <2>4, <3>2
  <2>5. CASE path[k + 1] = "restart"
    <3>1. acc[k + 1] = [acc[k] EXCEPT !.restart = @ + 1]
      BY <2>1, <2>5 DEF Open
    <3>2. /\ acc[k + 1] \in [live : Nat, restart : Nat]
          /\ acc[k + 1].live = acc[k].live /\ acc[k + 1].restart > 0
      BY <2>1, <3>1
    <3> QED BY <2>1, <2>3, <2>5, <3>2
  <2> QED BY <2>2, <2>4, <2>5
<1>7. Counts(n)
  <2> HIDE DEF N
  <2>1. Nat \subseteq N
    BY <1>5, <1>6, F!NatSetInduction
  <2> QED BY <1>1, <2>1 DEF N
<1> HIDE DEF Counts
<1>8. /\ acc[n].restart > 0 <=> "restart" \in Range(path)
      /\ acc[n].live > 0 <=> "live" \in Range(path)
  BY <1>1, <1>7 DEF Counts, Range
<1>9. Range(path) \subseteq {"live", "restart"} /\ (path # <<>> <=> Range(path) # {})
  BY <1>1 DEF Range
<1> QED BY <1>2, <1>3, <1>8, <1>9 DEF Resolve

\* What a binary's reload support says of its layers: a rebuild watches every
\* file layer, and nothing else names any (ReloadSupport).
Supports(mode, layers) ==
    \/ mode = "rebuild" /\ {"document", "secrets_dir"} \subseteq layers /\ layers \subseteq Layers
    \/ mode \in {"none", "undeclared"} /\ layers = {}

\* An image of this producer: what it publishes of the scopes on the way to
\* each key, and what the code behind them does.
BuiltHere(i) ==
    \E mode \in Modes, layers \in SUBSET Layers, paths \in [Keys -> Seq({"live", "restart"})] :
        /\ Supports(mode, layers)
        /\ i.contract = Publish(mode, layers, paths)
        /\ i.applies = AppliedInPlace(mode, layers, paths)

\* An image of a later producer, in a word or a layer this consumer does not
\* know.
BuiltLater(i) ==
    /\ i.applies = {}
    /\ \/ i.contract.mode = "other"
       \/ i.contract.layers \subseteq {"other"}
       \/ \A k \in Keys : i.contract.class[k] = "other"

\* A key is read as live only where it is applied in place, for images built
\* with any scopes in any order, and for images of later producers.
THEOREM PublishedImagesAreHonest ==
    ASSUME \A i \in Images : BuiltHere(i) \/ BuiltLater(i)
    PROVE  HonestImages
<1>1. ASSUME NEW i \in Images, BuiltHere(i)
      PROVE  /\ \A k \in Keys, channel \in {"document", "secrets_dir"} :
                    Classify(i.contract, k, channel, FALSE) = "live" => k \in i.applies
             /\ i.applies # {} => /\ Rebuilds(i.contract)
                                  /\ {"document", "secrets_dir"} \subseteq i.contract.layers
  <2>1. PICK mode \in Modes, layers \in SUBSET Layers, paths \in [Keys -> Seq({"live", "restart"})] :
             /\ Supports(mode, layers)
             /\ i.contract = Publish(mode, layers, paths)
             /\ i.applies = AppliedInPlace(mode, layers, paths)
    BY <1>1 DEF BuiltHere
  <2>2. i.contract.mode = mode /\ i.contract.layers = layers
    BY <2>1 DEF Publish
  <2>3. ASSUME NEW k \in Keys, NEW channel \in {"document", "secrets_dir"},
               Classify(i.contract, k, channel, FALSE) = "live"
        PROVE  k \in i.applies
    <3>1. ImageClass(i.contract, k) = "ok"
      BY <2>3 DEF Classify
    <3>2. mode \notin {"undeclared", "none", "other"} /\ i.contract.class[k] # "restart"
      BY <2>2, <3>1 DEF ImageClass
    <3>3. /\ Rebuilds([mode |-> mode, layers |-> layers]) /\ k \notin Reserved
          /\ ClassOn(paths[k]) = "live"
      BY <2>1, <3>2 DEF Publish
    <3>4. "restart" \notin Range(paths[k]) /\ paths[k] # <<>>
      BY <3>3, ClassOfScopes
    <3>5. Range(paths[k]) = {"live"}
      BY <3>4 DEF Range
    <3> QED BY <2>1, <3>3, <3>5 DEF AppliedInPlace
  <2>4. ASSUME i.applies # {}
        PROVE  Rebuilds(i.contract) /\ {"document", "secrets_dir"} \subseteq i.contract.layers
    <3>1. Rebuilds([mode |-> mode, layers |-> layers])
      BY <2>1, <2>4 DEF AppliedInPlace
    <3> QED BY <2>1, <2>2, <3>1 DEF Rebuilds, Supports
  <2> QED BY <2>3, <2>4
<1>2. ASSUME NEW i \in Images, BuiltLater(i)
      PROVE  /\ \A k \in Keys, channel \in {"document", "secrets_dir"} :
                    Classify(i.contract, k, channel, FALSE) = "live" => k \in i.applies
             /\ i.applies # {} => /\ Rebuilds(i.contract)
                                  /\ {"document", "secrets_dir"} \subseteq i.contract.layers
  <2>1. ASSUME NEW k \in Keys, NEW channel \in {"document", "secrets_dir"}
        PROVE  Classify(i.contract, k, channel, FALSE) # "live"
    BY <1>2 DEF BuiltLater, Classify, ImageClass
  <2> QED BY <1>2, <2>1 DEF BuiltLater
<1> QED BY <1>1, <1>2 DEF HonestImages

\* No gated chart of published images strands a change.
THEOREM PublishedImagesStrandNothing ==
    ASSUME \A i \in Images : BuiltHere(i) \/ BuiltLater(i)
    PROVE  Spec => []NothingIsStranded
BY PublishedImagesAreHonest, ChartStrandsNothing
=============================================================================
