----------------------- MODULE VendoredContractsProofs -----------------------
(***************************************************************************)
(* For any images, charts and pins, and however often attachments, pins    *)
(* and tags move, a bound contract is its image's own.                     *)
(***************************************************************************)
EXTENDS VendoredContracts, TLAPS

\* What pull proved of a file when it wrote it.  Images never change under
\* their digest, so it stays true; what is attached may change and is left out.
ProvenFile(w) ==
    /\ w.digest \in Digests
    /\ [repository |-> w.image, digest |-> w.digest] \in Signed
    /\ Prefix[w.doc] = Content[w.digest].labels.prefix
    /\ Content[w.digest].labelled.ok
    /\ Content[w.digest].labelled.doc \in {w.doc, Nothing}

\* Every vendored contract was proven: the inductive invariant.
IInv ==
    /\ \A c \in ChartSet : \A f \in ContractsOf(c) :
          vendored[c][f] = NoFile \/ ProvenFile(vendored[c][f])

\* A fetch that succeeds found the document of the image's namespace, and no
\* other one inside the image.
LEMMA FetchProves ==
    ASSUME NEW d \in Digests, NEW held, NEW nested,
           Fetch(Content[d], held, nested).ok
    PROVE  LET doc == Fetch(Content[d], held, nested).doc
           IN  /\ Prefix[doc] = Content[d].labels.prefix
               /\ Content[d].labelled.ok
               /\ Content[d].labelled.doc \in {doc, Nothing}
<1> DEFINE e == Content[d].labelled
           a == FetchAttached(Content[d], held, nested)
           found == Agreed(a, e)
<1>1. /\ Fetch(Content[d], held, nested) = found
      /\ found.ok
      /\ Prefix[found.doc] = Content[d].labels.prefix
  BY DEF Fetch, Refused
<1>2. e.ok /\ e.doc \in {found.doc, Nothing}
  <2> HIDE DEF a, e
  <2> QED BY <1>1 DEF Agreed, Refused, Held
<1> QED BY <1>1, <1>2

\* What pull writes it has proven.
LEMMA PullProves ==
    ASSUME NEW answering \in SUBSET Digests, NEW c \in ChartSet,
           NEW f \in ContractsOf(c), IInv
    PROVE  LET w == Refreshed(answering)[c][f]
           IN  w = NoFile \/ ProvenFile(w)
<1> DEFINE Writing(g) == {i \in Reached(c, answering) : Entries[c][i].contract = g /\ Earlier(c, i) = {}}
           New(g) == Wrapper(pins[c][Entries[c][CHOOSE i \in Writing(g) : TRUE].values])
<1>1. Refreshed(answering)[c][f] =
        IF Writing(f) = {} \/ SameContract(vendored[c][f], New(f)) THEN vendored[c][f] ELSE New(f)
  BY DEF Refreshed, RefreshedChart
<1>2. CASE Writing(f) = {} \/ SameContract(vendored[c][f], New(f))
  <2>1. Refreshed(answering)[c][f] = vendored[c][f]
    BY <1>1, <1>2
  <2> QED BY <2>1 DEF IInv
<1>3. CASE ~(Writing(f) = {} \/ SameContract(vendored[c][f], New(f)))
  <2> DEFINE i == CHOOSE k \in Writing(f) : TRUE
             pin == pins[c][Entries[c][i].values]
             d == Resolved(pin)
  <2>1. i \in Writing(f)
    BY <1>3
  <2>2. i \in DOMAIN Entries[c] /\ ~Stops(c, i, answering) /\ Earlier(c, i) = {}
    <3>1. i \in Reached(c, answering) /\ Earlier(c, i) = {}
      BY <2>1
    <3>2. i \in DOMAIN Entries[c] /\ \A j \in 1 .. i : ~Stops(c, j, answering)
      BY <3>1 DEF Reached
    <3>3. PICK k \in DOMAIN Charts : c = Charts[k]
      BY DEF ChartSet
    <3> HIDE DEF i
    <3>4. i \in Nat \ {0} /\ i \in 1 .. i
      BY <3>2, <3>3, EntriesAssumption
    <3> QED BY <3>1, <3>2, <3>4
  <2>3. d \in Digests /\ FetchPinned(pin).ok
    BY <2>2 DEF Stops
  <2>4. /\ [repository |-> pin.repository, digest |-> d] \in Signed
        /\ FetchPinned(pin) = Fetch(Content[d], AttachedTo(d, attached), TRUE)
    BY <2>3 DEF FetchPinned, ReadOf, Refused
  <2>5. New(f) = [image |-> pin.repository, digest |-> d, doc |-> FetchPinned(pin).doc]
    BY DEF Wrapper
  <2>6. Refreshed(answering)[c][f] = New(f)
    BY <1>1, <1>3
  <2> HIDE DEF i, pin, d, New
  <2>7. ProvenFile(New(f))
    <3> DEFINE doc == Fetch(Content[d], AttachedTo(d, attached), TRUE).doc
    <3>1. /\ Prefix[doc] = Content[d].labels.prefix
          /\ Content[d].labelled.ok
          /\ Content[d].labelled.doc \in {doc, Nothing}
      BY <2>3, <2>4, FetchProves
    <3>2. New(f).image = pin.repository /\ New(f).digest = d /\ New(f).doc = doc
      BY <2>4, <2>5
    <3> HIDE DEF doc
    <3> QED BY <2>3, <2>4, <3>1, <3>2 DEF ProvenFile
  <2> QED BY <2>6, <2>7
<1> QED BY <1>2, <1>3

\* No chart has a vendored contract at first.
LEMMA InitProven == Init => IInv
BY DEF Init, IInv

\* Only pull writes a contract.
LEMMA NextProven == IInv /\ [Next]_vars => IInv'
<1> SUFFICES ASSUME IInv, [Next]_vars PROVE IInv'
  OBVIOUS
<1>1. ASSUME vendored' = vendored PROVE IInv'
  BY <1>1 DEF IInv, ProvenFile
<1>2. ASSUME NEW down \in Outages, Pull(Digests \ down) PROVE IInv'
  <2>1. vendored' = Refreshed(Digests \ down)
    BY <1>2 DEF Pull
  <2>2. ASSUME NEW c \in ChartSet, NEW f \in ContractsOf(c)
        PROVE  vendored'[c][f] = NoFile \/ ProvenFile(vendored'[c][f])
    <3>1. Digests \ down \in SUBSET Digests
      OBVIOUS
    <3> QED BY <2>1, <3>1, PullProves
  <2> QED BY <2>2 DEF IInv, ProvenFile
<1>3. CASE UNCHANGED vars
  BY <1>1, <1>3 DEF vars, chart
<1>4. ASSUME NEW b \in Builds, NEW h \in Handed, Ask(b, h.digest, h.doc) PROVE IInv'
  BY <1>1, <1>4 DEF Ask, chart
<1>5. ASSUME NEW b \in Builds, Attach(b) PROVE IInv'
  BY <1>1, <1>5 DEF Attach, chart
<1>6. ASSUME NEW d \in Tagged, Retag(d) PROVE IInv'
  BY <1>1, <1>6 DEF Retag, chart
<1>7. CASE Derive
  BY <1>1, <1>7 DEF Derive
<1>8. CASE Killed
  BY <1>1, <1>8 DEF Killed
<1>9. ASSUME NEW c \in ChartSet, NEW at \in ValuesOf(c), NEW pin \in Pins[c], Bump(c, at, pin)
      PROVE  IInv'
  BY <1>1, <1>9 DEF Bump
<1> QED BY <1>2, <1>3, <1>4, <1>5, <1>6, <1>7, <1>8, <1>9 DEF Next

\* Under the assumption on layers, reading a layer down finds what a container
\* sees.
LEMMA ReadIsSeen ==
    ASSUME NEW d \in Digests, NEW p \in Platforms(Image[d])
    PROVE  LET layers == Manifest(Image[d], p).layers
               path == Labels(Image[d]).path
           IN  /\ Seen(layers, path) = EmbeddedOn(layers, path)
               /\ path \in {Nothing, "/"} => Seen(layers, path) = Nothing
<1> DEFINE layers == Manifest(Image[d], p).layers
           path == Labels(Image[d]).path
<1>1. \A i \in DOMAIN layers : /\ layers[i].path \notin {Nothing, "/"}
                               /\ layers[i].path = path => layers[i].file \in Docs
  <2>1. CASE p # 0
    <3>1. p \in DOMAIN Image[d].entries
      BY <2>1 DEF Platforms
    <3>2. layers = Image[d].entries[p].layers
      BY <2>1 DEF Manifest
    <3> QED BY <3>1, <3>2, LayersAssumption
  <2>2. CASE p = 0 /\ Image[d].index
    <3>1. layers = <<>>
      BY <2>2 DEF Manifest, Bare
    <3> QED BY <3>1
  <2>3. CASE p = 0 /\ ~Image[d].index
    <3>1. layers = Image[d].entries[1].layers /\ 1 \in DOMAIN Image[d].entries
      BY <2>3, LayersAssumption, EntriesAssumption DEF Manifest
    <3> QED BY <3>1, LayersAssumption
  <2> QED BY <2>1, <2>2, <2>3
<1> HIDE DEF layers, path
<1>2. {i \in DOMAIN layers : layers[i].path = path}
      = {i \in DOMAIN layers : layers[i].path = path /\ layers[i].file \in Docs}
  BY <1>1
<1>3. Seen(layers, path) = EmbeddedOn(layers, path)
  <2> DEFINE W == {i \in DOMAIN layers : layers[i].path = path}
             H == {i \in DOMAIN layers : layers[i].path = path /\ layers[i].file \in Docs}
             FileOf(S) == IF S = {} THEN Nothing
                          ELSE layers[CHOOSE i \in S : \A j \in S : j <= i].file
  <2>1. Seen(layers, path) = FileOf(W)
    BY DEF Seen
  <2>2. EmbeddedOn(layers, path) = FileOf(H)
    BY DEF EmbeddedOn
  <2>3. W = H
    BY <1>2
  <2> QED BY <2>1, <2>2, <2>3
<1>4. path \in {Nothing, "/"} => Seen(layers, path) = Nothing
  <2> SUFFICES ASSUME path \in {Nothing, "/"} PROVE Seen(layers, path) = Nothing
    OBVIOUS
  <2>1. {i \in DOMAIN layers : layers[i].path = path} = {}
    BY <1>1
  <2> QED BY <2>1 DEF Seen
<1> QED BY <1>3, <1>4 DEF layers, path

\* Every platform of an image with one labelled document embeds that one.
LEMMA OneDocument ==
    ASSUME NEW d \in Digests, NEW doc, NEW p \in Platforms(Image[d]),
           Content[d].labelled.ok, Content[d].labelled.doc \in {doc, Nothing}
    PROVE  Seen(Manifest(Image[d], p).layers, Labels(Image[d]).path) \in {doc, Nothing}
<1> DEFINE path == Labels(Image[d]).path
           mine == EmbeddedOn(Manifest(Image[d], p).layers, path)
<1>1. Content[d].labelled = FetchEmbedded(Image[d], path)
  BY DEF Content, Inside
<1>2. CASE path \in {Nothing, "/"}
  BY <1>2, ReadIsSeen
<1>3. CASE path \notin {Nothing, "/"}
  <2>1. mine \in EmbeddedFiles(Image[d], path)
    BY DEF EmbeddedFiles
  <2> HIDE DEF mine, path
  <2>2. FetchEmbedded(Image[d], path) = Held(CHOOSE x \in EmbeddedFiles(Image[d], path) : TRUE)
    BY <1>1, <1>3 DEF FetchEmbedded, Refused
  <2>3. ~\E a, b \in EmbeddedFiles(Image[d], path) : a # b
    BY <1>1, <1>3 DEF FetchEmbedded, Refused
  <2>4. (CHOOSE x \in EmbeddedFiles(Image[d], path) : TRUE) = mine
    BY <2>1, <2>3
  <2>5. Content[d].labelled.doc = mine
    BY <1>1, <2>2, <2>4 DEF Held
  <2>6. Seen(Manifest(Image[d], p).layers, path) = mine
    BY ReadIsSeen DEF mine, path
  <2> QED BY <2>5, <2>6 DEF path
<1> QED BY <1>2, <1>3

\* A proven contract the interlock accepts is the pinned image's.
LEMMA ProvenIsPublished == IInv => BoundIsPublished
<1> SUFFICES ASSUME IInv, NEW c \in ChartSet, NEW document \in Documents(c), Binds(c, document),
                    NEW e \in EntriesOf(c), e.document = document
             PROVE  LET pin == pins[c][e.values]
                        doc == vendored[c][e.contract].doc
                    IN  /\ [repository |-> pin.repository, digest |-> pin.digest] \in Signed
                        /\ Prefix[doc] = Content[pin.digest].labels.prefix
                        /\ \A p \in Content[pin.digest].platforms :
                              Seen(Manifest(Image[pin.digest], p).layers,
                                   Content[pin.digest].labels.path) \in {doc, Nothing}
  BY DEF BoundIsPublished
<1> DEFINE pin == pins[c][e.values]
           w == vendored[c][e.contract]
<1>1. w # NoFile /\ w.digest = pin.digest /\ w.image = pin.repository
  BY DEF Binds, Fresh
<1>2. ProvenFile(w)
  BY <1>1 DEF IInv, ContractsOf
<1> HIDE DEF pin, w
<1>3. Content[w.digest].platforms = Platforms(Image[w.digest])
      /\ Content[w.digest].labels = Labels(Image[w.digest])
  BY <1>2 DEF ProvenFile, Content, Inside
<1>4. \A p \in Content[w.digest].platforms :
        Seen(Manifest(Image[w.digest], p).layers, Content[w.digest].labels.path) \in {w.doc, Nothing}
  BY <1>2, <1>3, OneDocument DEF ProvenFile
<1> QED BY <1>1, <1>2, <1>4 DEF ProvenFile, pin, w

\* A contract that gates run against is the signed, pinned image's own.
THEOREM BoundContractsArePublished == Spec => []BoundIsPublished
<1>1. Init => IInv
  BY InitProven
<1>2. IInv /\ [Next]_vars => IInv'
  BY NextProven
<1>3. IInv => BoundIsPublished
  BY ProvenIsPublished
<1> QED BY <1>1, <1>2, <1>3, PTL DEF Spec
-----------------------------------------------------------------------------
(* What is attached, and what a verification rests on.                     *)

\* For what it says of numbers.
F == INSTANCE FoldLemmas WITH Op <- Append

Attachments ==
    /\ attached \in [Digests -> Seq(Artifacts)]
    /\ asked \in [Builds -> [digest : Digests \cup {Nothing, "done"}, doc : Docs \cup {Nothing}]]
    /\ \A b \in Builds : asked[b].doc # Nothing => asked[b].digest \in Digests

\* What discovery finds on a digest, and the places it may find it at.
Found(d, held) == Discover(Content[d], AttachedTo(d, held), TRUE)
Occupied(d, held) == {p \in Places(d) : held[Place(d, p)] # <<>>}

\* A verified document is the one inside the image, or nothing is inside it and
\* something is attached.
Confirmed(d, held, doc) ==
    /\ doc \in Docs
    /\ \/ Content[d].labelled = Held(doc)
       \/ Content[d].labelled = Held(Nothing) /\ Found(d, held) # <<>>

VerifiedInv ==
    /\ Attachments
    /\ \A d \in Digests : \A doc \in verified[d] : Confirmed(d, attached, doc)

\* Lemma: the places of a digest are numbered, and are digests themselves.
LEMMA PlacesAreDigests ==
    ASSUME NEW d \in Digests
    PROVE  Places(d) \subseteq Nat /\ \A p \in Places(d) : Place(d, p) \in Digests
<1>1. Content[d].platforms = Platforms(Image[d])
  BY DEF Content, Inside
<1>2. ASSUME NEW p \in Platforms(Image[d]), p # 0
      PROVE  p \in Nat /\ Place(d, p) \in Digests
  <2>1. p \in DOMAIN Image[d].entries
    BY <1>2 DEF Platforms
  <2>2. DOMAIN Image[d].entries \subseteq Nat /\ Image[d].entries[p].digest \in Digests
    BY <1>2, EntriesAssumption
  <2> QED BY <1>2, <2>1, <2>2 DEF Place
<1>3. Place(d, 0) = d
  BY DEF Place
<1> QED BY <1>1, <1>2, <1>3 DEF Places

\* Lemma: discovery takes what the first occupied place has.
LEMMA FirstAnswers ==
    ASSUME NEW d \in Digests, NEW held
    PROVE  \/ Occupied(d, held) = {} /\ Found(d, held) = <<>>
           \/ \E p \in Occupied(d, held) : /\ \A q \in Occupied(d, held) : p <= q
                                         /\ Found(d, held) = held[Place(d, p)]
<1> DEFINE on == AttachedTo(d, held)
           below == {p \in Content[d].platforms \ {0} : on[p] # <<>>}
           first == CHOOSE p \in below : \A q \in below : p <= q
<1>1. Found(d, held) = IF on[0] # <<>> \/ below = {} THEN on[0] ELSE on[first]
  BY DEF Found, Discover
<1>2. \A p \in Places(d) : on[p] = held[Place(d, p)]
  BY DEF AttachedTo
<1>3. 0 \in Places(d) /\ Places(d) \subseteq Nat
      /\ \A p \in Places(d) : p # 0 => p \in Content[d].platforms
  BY PlacesAreDigests DEF Places
<1>4. below = Occupied(d, held) \ {0} /\ below \in SUBSET Nat
  BY <1>2, <1>3 DEF Occupied, Places
<1>5. CASE on[0] # <<>>
  <2>1. 0 \in Occupied(d, held) /\ \A q \in Occupied(d, held) : 0 <= q
    BY <1>2, <1>3, <1>5 DEF Occupied
  <2>2. Found(d, held) = held[Place(d, 0)]
    BY <1>1, <1>2, <1>3, <1>5
  <2> QED BY <2>1, <2>2
<1>6. CASE on[0] = <<>> /\ below = {}
  <2>1. Occupied(d, held) = {}
    BY <1>2, <1>3, <1>4, <1>6 DEF Occupied
  <2> QED BY <1>1, <1>6, <2>1
<1>7. CASE on[0] = <<>> /\ below # {}
  <2>1. first \in below /\ \A q \in below : first <= q
    <3> HIDE DEF below
    <3>1. \E p \in below : \A q \in below : p <= q
      BY <1>4, <1>7, F!LeastNumber
    <3> QED BY <3>1
  <2>2. below = Occupied(d, held)
    BY <1>2, <1>3, <1>4, <1>7 DEF Occupied
  <2>3. Found(d, held) = on[first]
    BY <1>1, <1>7
  <2> HIDE DEF first, below, on
  <2>4. first \in Places(d)
    BY <2>1, <2>2 DEF Occupied
  <2> QED BY <1>2, <2>1, <2>2, <2>3, <2>4
<1> QED BY <1>5, <1>6, <1>7

\* Lemma: an attachment leaves what is found on a digest as it was, or beside
\* the new one, unless its place is looked at before all that hold something.
LEMMA AttachFinds ==
    ASSUME NEW b \in Builds, Attachments, Attach(b), NEW d \in Digests
    PROVE  /\ Found(d, attached) # <<>> => Found(d, attached') # <<>>
           /\ \/ Found(d, attached') = Found(d, attached)
              \/ Len(Found(d, attached')) > 1
              \/ \E p \in Places(d) :
                    /\ Place(d, p) = asked[b].digest
                    /\ \A q \in Places(d) : attached[Place(d, q)] # <<>> => p < q
<1> DEFINE at == asked[b].digest
           new == asked[b].doc
           S == Occupied(d, attached)
           T == Occupied(d, attached')
           P == {p \in Places(d) : Place(d, p) = at}
<1>1. at \in Digests /\ attached' = [attached EXCEPT ![at] = Append(@, new)]
  BY DEF Attach, Attachments
<1> HIDE DEF at, new
<1>2. /\ Places(d) \subseteq Nat
      /\ \A p \in Places(d) :
            /\ attached[Place(d, p)] \in Seq(Artifacts)
            /\ attached'[Place(d, p)] = IF p \in P THEN Append(attached[Place(d, p)], new)
                                       ELSE attached[Place(d, p)]
  BY <1>1, PlacesAreDigests DEF Attachments
<1>3. \A p \in Places(d) : p \in P => attached'[Place(d, p)] # <<>>
  <2> HIDE DEF P
  <2>1. ASSUME NEW s \in Seq(Artifacts) PROVE Append(s, new) # <<>>
    <3>1. Len(Append(s, new)) = Len(s) + 1 /\ Len(s) \in Nat /\ Len(<<>>) = 0
      OBVIOUS
    <3>2. Len(Append(s, new)) # Len(<<>>)
      BY <3>1
    <3> QED BY <3>2
  <2> QED BY <1>2, <2>1
<1>4. T = S \cup P
  BY <1>2, <1>3 DEF Occupied
<1>5. CASE \E p \in P : \A q \in S : p < q
  <2>1. T # {}
    BY <1>4, <1>5
  <2>2. Found(d, attached') # <<>>
    BY <2>1, FirstAnswers DEF Occupied
  <2> QED BY <1>5, <2>2 DEF Occupied, at
<1>6. CASE ~ \E p \in P : \A q \in S : p < q
  <2>1. CASE S = {}
    <3>1. P = {} /\ T = {}
      BY <1>4, <1>6, <2>1
    <3>2. Found(d, attached) = <<>> /\ Found(d, attached') = <<>>
      BY <2>1, <3>1, FirstAnswers
    <3> QED BY <3>2
  <2>2. CASE S # {}
    <3> HIDE DEF S, T, P
    <3>1. PICK r \in S : (\A q \in S : r <= q) /\ Found(d, attached) = attached[Place(d, r)]
      BY <2>2, FirstAnswers DEF S
    <3>2. S \subseteq Nat /\ P \subseteq Nat /\ r \in Places(d)
      BY <1>2, <3>1 DEF S, P, Occupied
    <3>3. \A q \in T : r <= q
      <4>1. ASSUME NEW p \in P PROVE r <= p
        <5>1. PICK q \in S : ~(p < q)
          BY <1>6
        <5> QED BY <3>1, <3>2, <5>1
      <4> QED BY <1>4, <3>1, <4>1
    <3>4. PICK t \in T : (\A q \in T : t <= q) /\ Found(d, attached') = attached'[Place(d, t)]
      BY <1>4, <2>2, FirstAnswers DEF T
    <3>5. t = r
      BY <1>4, <3>1, <3>2, <3>3, <3>4
    <3>6. attached[Place(d, r)] # <<>> /\ attached[Place(d, r)] \in Seq(Artifacts)
      BY <1>2, <3>1, <3>2 DEF S, Occupied
    <3>7. CASE r \in P
      <4>1. Found(d, attached') = Append(attached[Place(d, r)], new)
        BY <1>2, <3>2, <3>4, <3>5, <3>7
      <4>2. Len(Append(attached[Place(d, r)], new)) > 1
        BY <3>6
      <4>3. Append(attached[Place(d, r)], new) # <<>>
        BY <3>6
      <4> QED BY <4>1, <4>2, <4>3
    <3>8. CASE r \notin P
      BY <1>2, <3>1, <3>2, <3>4, <3>5, <3>8
    <3> QED BY <3>7, <3>8
  <2> QED BY <2>1, <2>2
<1> QED BY <1>5, <1>6

\* Lemma: what is inside the image is read of it or nothing is, whatever is
\* attached to it.
LEMMA EmbeddedIsRead ==
    ASSUME NEW d \in Digests, NEW doc \in Docs, NEW held, Content[d].labelled = Held(doc)
    PROVE  ReadOf(d, held) \in {Held(doc), Refused}
<1> DEFINE a == FetchAttached(Content[d], AttachedTo(d, held), TRUE)
           e == Content[d].labelled
<1>1. ReadOf(d, held) \in {Agreed(a, e), Refused}
  BY DEF Fetch, ReadOf
<1>2. e.ok /\ e.doc = doc /\ doc # Nothing
  BY AttachmentsAssumption DEF Held
<1> HIDE DEF a, e
<1>3. CASE a.ok /\ a.doc \in {doc, Nothing}
  <2>1. Agreed(a, e) = Held(doc)
    BY <1>2, <1>3 DEF Agreed
  <2> QED BY <1>1, <2>1
<1>4. CASE ~(a.ok /\ a.doc \in {doc, Nothing})
  <2>1. Agreed(a, e) = Refused
    BY <1>2, <1>4 DEF Agreed
  <2> QED BY <1>1, <2>1
<1> QED BY <1>3, <1>4

\* Lemma: of two attachments none is read.
LEMMA TwoAreRefused ==
    ASSUME NEW d \in Digests, NEW held, Len(Found(d, held)) > 1, Found(d, held) # <<>>
    PROVE  ReadOf(d, held) = Refused
<1> DEFINE a == FetchAttached(Content[d], AttachedTo(d, held), TRUE)
           e == Content[d].labelled
<1>1. a = Refused
  BY DEF FetchAttached, Found
<1>2. Agreed(a, e) = Refused
  <2> HIDE DEF a, e
  <2> QED BY <1>1 DEF Agreed, Refused
<1> HIDE DEF a, e
<1>3. ~Agreed(a, e).ok
  BY <1>2 DEF Refused
<1> QED BY <1>3 DEF Fetch, ReadOf, a, e

\* Lemma: what a verification passes is confirmed.
LEMMA PublishedIsConfirmed ==
    ASSUME NEW d \in Digests, NEW held, NEW doc \in PublishedBy(d, held)
    PROVE  Confirmed(d, held, doc)
<1> DEFINE a == FetchAttached(Content[d], AttachedTo(d, held), TRUE)
           e == Content[d].embedded
<1>1. /\ doc \in Docs /\ doc # Nothing /\ Content[d].labels = LabelsOf(doc, EmbedPath)
      /\ a.ok /\ e.ok /\ a.doc \in {doc, Nothing} /\ e.doc \in {doc, Nothing}
      /\ a.doc = doc \/ e.doc = doc
  BY AttachmentsAssumption DEF PublishedBy, Publishes, CheckLabels
<1>2. Content[d].labelled = e
  <2>1. Content[d].labels.path = EmbedPath
    BY <1>1 DEF LabelsOf
  <2> QED BY <2>1 DEF Content, Inside
<1>3. e = Held(e.doc)
  <2>1. e = FetchEmbedded(Image[d], EmbedPath)
    BY DEF Content, Inside
  <2> HIDE DEF e
  <2> QED BY <1>1, <2>1 DEF FetchEmbedded, Held, Refused
<1> HIDE DEF e
<1>4. e.doc = Nothing => Found(d, held) # <<>>
  BY <1>1 DEF FetchAttached, Held, Found
<1> QED BY <1>1, <1>2, <1>3, <1>4 DEF Confirmed

\* Lemma: the initial states satisfy the invariant.
LEMMA InitVerified == Init => VerifiedInv
<1> SUFFICES ASSUME Init PROVE VerifiedInv
  OBVIOUS
<1>1. Attachments
  BY AttachmentsAssumption DEF Init, Attachments, NotAsked
<1> QED BY <1>1, PublishedIsConfirmed DEF Init, VerifiedInv

\* Lemma: every step keeps it; only builds change what is attached.
LEMMA StepVerified ==
    ASSUME VerifiedInv, [Next]_vars
    PROVE  /\ VerifiedInv'
           /\ UNCHANGED attached \/ \E b \in Builds : Attach(b)
<1> USE DEF VerifiedInv
<1>1. ASSUME UNCHANGED <<attached, asked, verified>> PROVE VerifiedInv'
  BY <1>1 DEF Attachments, Confirmed, Found, AttachedTo
<1>2. ASSUME NEW b \in Builds, NEW h \in Handed, Ask(b, h.digest, h.doc)
      PROVE  VerifiedInv' /\ UNCHANGED attached
  <2>1. /\ UNCHANGED <<attached, verified>>
        /\ asked' = [asked EXCEPT ![b] = [digest |-> h.digest, doc |-> h.doc]]
    BY <1>2 DEF Ask
  <2>2. h.digest \in Digests /\ h.doc \in Docs
    BY AttachmentsAssumption
  <2>3. Attachments'
    BY <2>1, <2>2 DEF Attachments
  <2> QED BY <2>1, <2>3 DEF Confirmed, Found, AttachedTo
<1>3. ASSUME NEW b \in Builds, Attach(b) PROVE VerifiedInv'
  <2>1. /\ attached' = [attached EXCEPT ![asked[b].digest] = Append(@, asked[b].doc)]
        /\ asked' = [asked EXCEPT ![b] = [NotAsked EXCEPT !.digest = "done"]]
        /\ verified' = [d \in Digests |-> verified[d] \cup PublishedBy(d, attached')]
        /\ asked[b].digest \in Digests /\ asked[b].doc \in Docs
    BY <1>3 DEF Attach, Attachments
  <2>2. Attachments'
    <3>1. asked[b].doc \in Artifacts
      BY <2>1 DEF Artifacts
    <3>2. attached' \in [Digests -> Seq(Artifacts)]
      BY <2>1, <3>1 DEF Attachments
    <3>3. /\ asked' \in [Builds -> [digest : Digests \cup {Nothing, "done"}, doc : Docs \cup {Nothing}]]
          /\ \A c \in Builds : asked'[c].doc # Nothing => asked'[c] = asked[c]
      BY <2>1 DEF Attachments, NotAsked
    <3> QED BY <3>2, <3>3 DEF Attachments
  <2>3. ASSUME NEW d \in Digests, NEW doc \in verified'[d] PROVE Confirmed(d, attached', doc)
    <3>1. CASE doc \in verified[d]
      <4>1. Found(d, attached) # <<>> => Found(d, attached') # <<>>
        BY <1>3, AttachFinds
      <4> QED BY <3>1, <4>1 DEF Confirmed
    <3>2. CASE doc \in PublishedBy(d, attached')
      BY <3>2, PublishedIsConfirmed
    <3> QED BY <2>1, <2>3, <3>1, <3>2
  <2>4. \A d \in Digests : \A doc \in verified'[d] : Confirmed(d, attached, doc)'
    BY <2>3 DEF Confirmed, Found, AttachedTo
  <2> QED BY <2>2, <2>4
<1>4. CASE UNCHANGED vars
  BY <1>1, <1>4 DEF vars, registry
<1>5. ASSUME NEW d \in Tagged, Retag(d) PROVE VerifiedInv' /\ UNCHANGED attached
  BY <1>1, <1>5 DEF Retag
<1>6. ASSUME NEW down \in Outages, Pull(Digests \ down) PROVE VerifiedInv' /\ UNCHANGED attached
  BY <1>1, <1>6 DEF Pull, registry
<1>7. CASE Derive
  BY <1>1, <1>7 DEF Derive, registry
<1>8. CASE Killed
  BY <1>1, <1>8 DEF Killed, registry
<1>9. ASSUME NEW c \in ChartSet, NEW at \in ValuesOf(c), NEW pin \in Pins[c], Bump(c, at, pin)
      PROVE  VerifiedInv' /\ UNCHANGED attached
  BY <1>1, <1>9 DEF Bump, registry
<1>10. UNCHANGED attached \/ \E b \in Builds : Attach(b)
  BY <1>2, <1>4, <1>5, <1>6, <1>7, <1>8, <1>9 DEF Next, vars, registry, Derive, Killed
<1>11. VerifiedInv'
  BY <1>2, <1>3, <1>4, <1>5, <1>6, <1>7, <1>8, <1>9 DEF Next
<1> QED BY <1>10, <1>11

\* Lemma: an attachment that replaces what was read of a verified digest
\* overtakes what was attached to it.
LEMMA OnlyOvertaken ==
    ASSUME VerifiedInv, NEW b \in Builds, Attach(b),
           NEW d \in Digests, NEW doc \in verified[d], ReadOf(d, attached) \in {Held(doc), Refused}
    PROVE  ReadOf(d, attached') \in {Held(doc), Refused} \/ Overtakes(b, d)
<1>1. Confirmed(d, attached, doc) /\ Attachments
  BY DEF VerifiedInv
<1>2. CASE Content[d].labelled = Held(doc)
  BY <1>1, <1>2, EmbeddedIsRead DEF Confirmed
<1>3. CASE Content[d].labelled = Held(Nothing) /\ Found(d, attached) # <<>>
  <2>1. CASE Found(d, attached') = Found(d, attached)
    <3>1. FetchAttached(Content[d], AttachedTo(d, attached'), TRUE)
            = FetchAttached(Content[d], AttachedTo(d, attached), TRUE)
      BY <2>1 DEF FetchAttached, Found
    <3>2. ReadOf(d, attached') = ReadOf(d, attached)
      BY <3>1 DEF ReadOf, Fetch
    <3> QED BY <3>2
  <2>2. CASE Len(Found(d, attached')) > 1
    <3>1. Found(d, attached') # <<>>
      BY <1>1, <1>3, AttachFinds
    <3> QED BY <2>2, <3>1, TwoAreRefused
  <2>3. CASE \E p \in Places(d) :
                /\ Place(d, p) = asked[b].digest
                /\ \A q \in Places(d) : attached[Place(d, q)] # <<>> => p < q
    <3>1. FetchAttached(Content[d], AttachedTo(d, attached), TRUE) # Held(Nothing)
      BY <1>3, AttachmentsAssumption DEF FetchAttached, Found, Held, Refused
    <3>2. Content[d].labelled.doc = Nothing
      BY <1>3 DEF Held
    <3> QED BY <2>3, <3>1, <3>2 DEF Overtakes, MayAttach
  <2> QED BY <1>1, <2>1, <2>2, <2>3, AttachFinds
<1> QED BY <1>1, <1>2, <1>3 DEF Confirmed

\* The action VerifiedStays allows.
Stays ==
    \A d \in Digests : \A doc \in verified[d] :
        ReadOf(d, attached) \in {Held(doc), Refused} =>
            \/ ReadOf(d, attached') \in {Held(doc), Refused}
            \/ \E b \in Builds : Attach(b) /\ Overtakes(b, d)

\* What was read of a verified digest stays, or is refused: what is found on a
\* digest stays the first, and of two none is read, unless an attachment comes
\* in before it at a place the first builder's answer said nothing about.
THEOREM VerifiedDocumentsStay == Spec => VerifiedStays
<1>1. VerifiedInv /\ [Next]_vars => VerifiedInv'
  BY StepVerified
<1>2. VerifiedInv /\ [Next]_vars => [Stays]_attached
  <2> SUFFICES ASSUME VerifiedInv, [Next]_vars, ~UNCHANGED attached PROVE Stays
    OBVIOUS
  <2>1. PICK b \in Builds : Attach(b)
    BY StepVerified
  <2> QED BY <2>1, OnlyOvertaken DEF Stays
<1> QED BY InitVerified, <1>1, <1>2, PTL DEF Spec, VerifiedStays, Stays

-----------------------------------------------------------------------------
(* What one synchronisation settles.                                       *)

\* Lemma: a refresh that reaches the registry leaves, in every file of a chart
\* in order, what the first entry of that file pins: and so does each other
\* entry of the file, since two images for one file are refused.
LEMMA RefreshWritesPinned ==
    ASSUME NEW c \in ChartSet, Refreshable(c), NEW e \in EntriesOf(c)
    PROVE  LET pin == pins[c][e.values]
           IN  /\ pin # NoImage /\ pin.digest # Nothing
               /\ Refreshed(Digests)[c][e.contract] = Wrapper(pin)
<1> DEFINE E == Entries[c]
           f == e.contract
           Same == {j \in DOMAIN E : E[j].contract = f}
           Writing(g) == {j \in Reached(c, Digests) : E[j].contract = g /\ Earlier(c, j) = {}}
           k == CHOOSE j \in Writing(f) : TRUE
           New(g) == Wrapper(pins[c][E[CHOOSE j \in Writing(g) : TRUE].values])
<1>1. Len(E) \in Nat /\ DOMAIN E = 1 .. Len(E)
  BY EntriesAssumption DEF ChartSet
<1>2. PICK i \in DOMAIN E : e = E[i]
  BY DEF EntriesOf
<1>3. Reached(c, Digests) = DOMAIN E /\ e \in EntriesOf(c) /\ pins[c][e.values].digest # Nothing
  BY DEF Refreshable, Problem
<1>4. \A j \in DOMAIN E : ~Stops(c, j, Digests)
  <2> TAKE j \in DOMAIN E
  <2>1. j \in Reached(c, Digests) /\ j \in 1 .. j
    BY <1>1, <1>3
  <2> QED BY <2>1 DEF Reached
<1>5. PICK m \in Same : \A j \in Same : m <= j
  <2>1. i \in Same /\ Same \in SUBSET Nat
    BY <1>1, <1>2
  <2> HIDE DEF Same
  <2> QED BY <2>1, F!LeastNumber
<1>6. Earlier(c, m) = {}
  BY <1>1, <1>5 DEF Earlier
<1>7. m \in Writing(f)
  BY <1>3, <1>5, <1>6
<1>8. k \in Writing(f)
  <2> HIDE DEF Writing
  <2> QED BY <1>7
<1>9. pins[c][E[k].values] = pins[c][e.values]
  <2>1. k \in DOMAIN E /\ E[k].contract = f /\ Earlier(c, k) = {}
    BY <1>3, <1>8
  <2> HIDE DEF k
  <2>2. CASE k = i
    BY <1>2, <2>2
  <2>3. CASE i < k
    <3>1. i \in Earlier(c, k)
      BY <1>1, <1>2, <2>1, <2>3 DEF Earlier
    <3> QED BY <2>1, <3>1
  <2>4. CASE k < i
    <3>1. k \in Earlier(c, i)
      BY <1>1, <1>2, <2>1, <2>4 DEF Earlier
    <3> QED BY <1>2, <1>4, <3>1 DEF Stops
  <2> QED BY <1>1, <2>1, <2>2, <2>3, <2>4
<1>10. Refreshed(Digests)[c][f] =
        IF Writing(f) = {} \/ SameContract(vendored[c][f], New(f)) THEN vendored[c][f] ELSE New(f)
  <2>1. f \in ContractsOf(c)
    BY DEF ContractsOf
  <2> QED BY <2>1 DEF Refreshed, RefreshedChart
<1>11. pins[c][e.values] # NoImage
  BY <1>2, <1>4 DEF Stops
<1>12. New(f) = Wrapper(pins[c][e.values])
  BY <1>9
<1> HIDE DEF New, Writing
<1> QED BY <1>3, <1>7, <1>10, <1>11, <1>12 DEF SameContract

\* Only a kill counts an event between a refresh and what is derived from it.
EventsInv == events \in Nat

\* Lemma: the counter of events stays a number.
LEMMA EventsCounted == (Init => EventsInv) /\ (EventsInv /\ [Next]_vars => EventsInv')
<1>1. Init => EventsInv
  BY DEF Init, EventsInv
<1>2. [Next]_vars => UNCHANGED events \/ events' = events + 1
  BY DEF Next, vars, registry, chart, Ask, Attach, Retag, Pull, Derive, Killed, Bump
<1>3. EventsInv /\ [Next]_vars => EventsInv'
  BY <1>2 DEF EventsInv
<1> QED BY <1>1, <1>3

\* The action OneSyncSettles allows.
Settles ==
    /\ (step = "idle" /\ step' = "derive" /\ vendored' = Refreshed(Digests)) =>
            \A c \in ChartSet : Refreshable(c) => Bound(c)'
    /\ (step = "derive" /\ step' = "idle" /\ events' = events) =>
            ((\A c \in ChartSet : Bound(c)) =>
                \A c \in ChartSet : \A f \in ContractsOf(c) : derived'[c][f] = vendored[c][f].doc)

\* Lemma: every step settles what it should.
LEMMA StepSettles == EventsInv /\ [Next]_vars => Settles
<1> SUFFICES ASSUME EventsInv, [Next]_vars PROVE Settles
  OBVIOUS
<1>1. ASSUME step = "idle", step' = "derive", vendored' = Refreshed(Digests),
             NEW c \in ChartSet, Refreshable(c)
      PROVE  Bound(c)'
  <2>1. UNCHANGED pins
    BY <1>1 DEF Next, vars, registry, chart, Ask, Attach, Retag, Pull, Derive, Killed, Bump
  <2>2. ASSUME NEW e \in EntriesOf(c) PROVE Fresh(c, e)'
    <3> DEFINE pin == pins[c][e.values]
               file == vendored'[c][e.contract]
    <3>1. pin # NoImage /\ pin.digest # Nothing /\ file = Wrapper(pin)
      BY <1>1, RefreshWritesPinned
    <3>2. file.image = pin.repository /\ file.digest = pin.digest
      BY <3>1 DEF Wrapper, Resolved
    <3>3. file # NoFile
      BY <3>1, <3>2 DEF NoFile
    <3> QED BY <2>1, <3>1, <3>2, <3>3 DEF Fresh
  <2> QED BY <2>2 DEF Bound, Binds
<1>2. ASSUME step = "derive", step' = "idle", events' = events, \A c \in ChartSet : Bound(c)
      PROVE  \A c \in ChartSet : \A f \in ContractsOf(c) : derived'[c][f] = vendored[c][f].doc
  <2>1. Derive
    BY <1>2 DEF EventsInv, Next, vars, registry, chart, Ask, Attach, Retag, Pull, Derive, Killed, Bump
  <2>2. \A c \in ChartSet : Readable(c)
    BY <1>2 DEF Bound, Binds, Documents, Fresh, Readable, ContractsOf
  <2>3. \A i \in DOMAIN Charts : Readable(Charts[i])
    BY <2>2 DEF ChartSet
  <2> QED BY <2>1, <2>3 DEF Derive, Derived
<1> QED BY <1>1, <1>2 DEF Settles

\* One refresh binds every chart in order, whatever came before it.
THEOREM SyncSettles == Spec => OneSyncSettles
<1>1. EventsInv /\ [Next]_vars => Settles
  BY StepSettles
<1>2. Init => EventsInv
  BY EventsCounted
<1>3. EventsInv /\ [Next]_vars => EventsInv'
  BY EventsCounted
<1> QED BY <1>1, <1>2, <1>3, PTL DEF Spec, OneSyncSettles, Settles

=============================================================================
