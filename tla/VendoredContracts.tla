--------------------------- MODULE VendoredContracts ---------------------------
(***************************************************************************)
(* A chart repository beside a registry.  Builds attach and verify         *)
(* documents, somebody moves a pin, and `sync` refreshes the vendored      *)
(* contracts (helm/pull.rs), then what is derived from them, step by step. *)
(* Every gate first asks the interlock (declaration.rs, bind) whether a    *)
(* vendored contract is for the digest its chart pins.                     *)
(***************************************************************************)
EXTENDS PublishedImage, FiniteSets, SequencesExt

CONSTANTS Charts,       \* the charts, in the order they are walked
          Entries,      \* per chart: its declared images, each [document, values, contract]
          Digests,
          Signed,       \* the [repository, digest] the required identity signed
          Image,        \* per digest: the image it names, for ever
          AttachedAtPush, \* per digest: what is attached from the start
          Tagged,       \* the digests a mutable tag may resolve to
          Outages,      \* the digests a registry may fail to answer for at once
          Pins,         \* per chart: what a values path may hold: [repository, digest], or no image block
          Starts,       \* what each chart may pin at first
          Builds,       \* the concurrent runs of `image attach`
          Handed,       \* the [digest, doc] they may be given
          MaxEvents     \* how often a pin or a tag moves or a run is killed

ChartSet == {Charts[i] : i \in DOMAIN Charts}
EntriesOf(c) == {Entries[c][i] : i \in DOMAIN Entries[c]}
ContractsOf(c) == {e.contract : e \in EntriesOf(c)}
ValuesOf(c) == {e.values : e \in EntriesOf(c)}
NoImage == [repository |-> Nothing, digest |-> Nothing]
NoFile == [image |-> Nothing, digest |-> Nothing, doc |-> Nothing]

\* A layer that writes the file can be read, and names it by a path.
ASSUME LayersAssumption ==
    \A d \in Digests : \A e \in DOMAIN Image[d].entries :
        \A i \in DOMAIN Image[d].entries[e].layers :
            LET layer == Image[d].entries[e].layers[i]
            IN  /\ layer.path \notin {Nothing, "/"}
                /\ layer.path = Labels(Image[d]).path => layer.file \in Docs

\* Declarations and manifests are lists; an image that is no index is its own
\* manifest, and a platform an index lists has a digest of its own.
ASSUME EntriesAssumption ==
    /\ \A i \in DOMAIN Charts : /\ Len(Entries[Charts[i]]) \in Nat
                                /\ DOMAIN Entries[Charts[i]] = 1 .. Len(Entries[Charts[i]])
    /\ \A d \in Digests : /\ DOMAIN Image[d].entries \subseteq Nat \ {0}
                          /\ Image[d].index \/ 1 \in DOMAIN Image[d].entries
                          /\ \A p \in Platforms(Image[d]) \ {0} :
                                Image[d].entries[p].digest \in Digests \ {d}

\* A document is something; what is attached to a digest is a list of artifacts;
\* builds attach documents, to an index or to anything it lists.
ASSUME AttachmentsAssumption ==
    /\ Nothing \notin Docs
    /\ AttachedAtPush \in [Digests -> Seq(Artifacts)]
    /\ Handed \subseteq [digest : Digests, doc : Docs]

\* What each digest holds.
Content == [d \in Digests |-> Inside(Image[d])]

VARIABLES
    attached,   \* per digest: what is attached to it
    latest,     \* the digest every mutable tag resolves to
    pins,       \* per chart: what each values path pins
    vendored,   \* per chart: its vendored contracts
    derived,    \* per chart: the contracts its values.yaml blocks and its README are from
    step,       \* of `sync`: "idle", or "derive" once it pulled
    asked,      \* per build: [digest, doc] once `image attach` found nothing attached
    verified,   \* history: the documents `image verify` would ever have passed
    events

registry == <<attached, latest, asked, verified>>
chart == <<pins, vendored, derived, step>>
vars == <<registry, chart, events>>

NotAsked == [digest |-> Nothing, doc |-> Nothing]

-----------------------------------------------------------------------------
(* The registry's side. *)

\* Where discovery looks: the digest itself, then the platforms below it.
Places(d) == {0} \cup Content[d].platforms
Place(d, p) == IF p = 0 THEN d ELSE Image[d].entries[p].digest
AttachedTo(d, held) == [p \in Places(d) |-> held[Place(d, p)]]

\* What fetch_contract returns of a digest, over what the registry holds.
ReadOf(d, held) == Fetch(Content[d], AttachedTo(d, held), TRUE)

\* `image attach` of an index or of any manifest below one, up to the answer of
\* fetch_referrer.  What is already there is left alone or refused.
Ask(b, d, doc) ==
    /\ asked[b] = NotAsked
    /\ MayAttach(Content[d], AttachedTo(d, attached), TRUE)
    /\ asked' = [asked EXCEPT ![b] = [digest |-> d, doc |-> doc]]
    /\ UNCHANGED <<attached, latest, verified, chart, events>>

\* The documents `image verify` finds a digest to publish.
PublishedBy(d, held) ==
    {doc \in Docs : Publishes(Content[d], AttachedTo(d, held), TRUE, doc)}

\* Another build may have attached in between.
Attach(b) ==
    /\ asked[b].doc # Nothing
    /\ attached' = [attached EXCEPT ![asked[b].digest] = Append(@, asked[b].doc)]
    /\ asked' = [asked EXCEPT ![b] = [NotAsked EXCEPT !.digest = "done"]]
    /\ verified' = [d \in Digests |-> verified[d] \cup PublishedBy(d, attached')]
    /\ UNCHANGED <<latest, chart, events>>

Retag(d) ==
    /\ events < MaxEvents /\ latest # d
    /\ latest' = d /\ events' = events + 1
    /\ UNCHANGED <<attached, asked, verified, chart>>

-----------------------------------------------------------------------------
(* pull *)

\* fetch_pinned: a mutable tag is resolved first, then the digest is proven.
Resolved(pin) == IF pin.digest = Nothing THEN latest ELSE pin.digest

FetchPinned(pin) ==
    LET d == Resolved(pin)
    IN  IF [repository |-> pin.repository, digest |-> d] \notin Signed THEN Refused
        ELSE ReadOf(d, attached)

Wrapper(pin) ==
    [image |-> pin.repository, digest |-> Resolved(pin), doc |-> FetchPinned(pin).doc]

\* same_contract: all but the moment of the fetch, which is not modelled.
SameContract(previous, rendered) == previous = rendered

\* An earlier entry of the chart writes the same file.
Earlier(c, i) == {j \in 1 .. i - 1 : Entries[c][j].contract = Entries[c][i].contract}

\* Entry i stops its chart: no image block, two images for one file, or
\* nothing that can be fetched and proven.
Stops(c, i, answering) ==
    LET pin == pins[c][Entries[c][i].values]
    IN  \/ pin = NoImage
        \/ \E j \in Earlier(c, i) : pins[c][Entries[c][j].values] # pin
        \/ Earlier(c, i) = {} /\ (Resolved(pin) \notin answering \/ ~FetchPinned(pin).ok)

\* The entries a refresh reaches before one stops it.
Reached(c, answering) ==
    {i \in DOMAIN Entries[c] : \A j \in 1 .. i : ~Stops(c, j, answering)}

Problem(c, answering) == Reached(c, answering) # DOMAIN Entries[c]

\* refresh_chart: the first entry of a file writes it, and what was written
\* before an error stays.
RefreshedChart(c, answering) ==
    LET reached == Reached(c, answering)
        Writing(f) == {i \in reached : Entries[c][i].contract = f /\ Earlier(c, i) = {}}
        New(f) == Wrapper(pins[c][Entries[c][CHOOSE i \in Writing(f) : TRUE].values])
    IN  [f \in ContractsOf(c) |->
            IF Writing(f) = {} \/ SameContract(vendored[c][f], New(f)) THEN vendored[c][f] ELSE New(f)]

\* Mutant: the first chart with a problem ends the refresh.
RefreshedUntilProblem(answering) ==
    [c \in ChartSet |->
        IF \E i, j \in DOMAIN Charts : i < j /\ Charts[j] = c /\ Problem(Charts[i], answering)
        THEN vendored[c] ELSE RefreshedChart(c, answering)]

\* refresh: every chart is attempted.
Refreshed(answering) == [c \in ChartSet |-> RefreshedChart(c, answering)]

\* The first step of `sync`, or `pull` alone when the run is cut short after
\* it.  Of the registry, any part may answer.
Pull(answering) ==
    /\ step = "idle"
    /\ vendored' = Refreshed(answering)
    /\ step' = "derive"
    /\ UNCHANGED <<registry, pins, derived, events>>

-----------------------------------------------------------------------------
(* What is derived from the vendored contracts, without the interlock. *)

Readable(c) == \A f \in ContractsOf(c) : vendored[c][f] # NoFile

\* A chart whose contracts cannot be read ends the walk; its own files and
\* those of the charts after it stay.
Derived ==
    [c \in ChartSet |->
        IF \E i, j \in DOMAIN Charts : i <= j /\ Charts[j] = c /\ ~Readable(Charts[i])
        THEN derived[c] ELSE [f \in ContractsOf(c) |-> vendored[c][f].doc]]

\* The steps after pull: `shapes`, then `readme`, from the same files.
Derive ==
    /\ step = "derive"
    /\ derived' = Derived
    /\ step' = "idle"
    /\ UNCHANGED <<registry, pins, vendored, events>>

Killed ==
    /\ events < MaxEvents /\ step # "idle"
    /\ step' = "idle" /\ events' = events + 1
    /\ UNCHANGED <<registry, pins, vendored, derived>>

\* Somebody edits the values, between runs.
Bump(c, at, pin) ==
    /\ events < MaxEvents /\ step = "idle" /\ pins[c][at] # pin
    /\ pins' = [pins EXCEPT ![c][at] = pin]
    /\ events' = events + 1
    /\ UNCHANGED <<registry, vendored, derived, step>>

-----------------------------------------------------------------------------
(* The interlock. *)

\* Mutant: the digest is compared and the image it was pulled from is not.
ForDigest(c, e) ==
    LET pin == pins[c][e.values]
        file == vendored[c][e.contract]
    IN  file # NoFile /\ pin # NoImage /\ file.digest = pin.digest

\* bind accepts this image: pinned by digest, and the file is for that digest
\* of that image.
Fresh(c, e) ==
    LET pin == pins[c][e.values]
        file == vendored[c][e.contract]
    IN  /\ file # NoFile /\ pin # NoImage
        /\ pin.digest # Nothing
        /\ file.digest = pin.digest
        /\ file.image = pin.repository

\* bind returns a binding for this document.
Binds(c, document) == \A e \in EntriesOf(c) : e.document = document => Fresh(c, e)
Documents(c) == {e.document : e \in EntriesOf(c)}

-----------------------------------------------------------------------------
Init ==
    /\ attached = AttachedAtPush
    /\ latest \in Tagged
    /\ \E start \in Starts : pins = [c \in ChartSet |-> [at \in ValuesOf(c) |-> start[c]]]
    /\ vendored = [c \in ChartSet |-> [f \in ContractsOf(c) |-> NoFile]]
    /\ derived = [c \in ChartSet |-> [f \in ContractsOf(c) |-> Nothing]]
    /\ step = "idle"
    /\ asked = [b \in Builds |-> NotAsked]
    /\ verified = [d \in Digests |-> PublishedBy(d, attached)]
    /\ events = 0

Next ==
    \/ \E b \in Builds, h \in Handed : Ask(b, h.digest, h.doc)
    \/ \E b \in Builds : Attach(b)
    \/ \E d \in Tagged : Retag(d)
    \/ \E down \in Outages : Pull(Digests \ down)
    \/ Derive
    \/ Killed
    \/ \E c \in ChartSet : \E at \in ValuesOf(c), pin \in Pins[c] : Bump(c, at, pin)

Spec == Init /\ [][Next]_vars

-----------------------------------------------------------------------------
\* The gap the code has: the image itself does not hold a document, and the build
\* attaches where discovery looks before every place it finds something at,
\* although asking about the digest would now refuse it: because it asked only
\* about a platform, or before somebody else attached.
Overtakes(b, d) ==
    /\ Content[d].labelled.doc = Nothing
    /\ \E p \in Places(d) :
          /\ Place(d, p) = asked[b].digest
          /\ \A q \in Places(d) : attached[Place(d, q)] # <<>> => p < q
    /\ ~MayAttach(Content[d], AttachedTo(d, attached), TRUE)

\* A digest once verified for a document yields that one or none, whatever is
\* attached to it or below it later and by however many builds at once, but for
\* that gap: two attachments to one digest never make it yield the second, nor
\* does any attachment replace what the image itself holds.
VerifiedStays ==
    [][\A d \in Digests : \A doc \in verified[d] :
           ReadOf(d, attached) \in {Held(doc), Refused} =>
               \/ ReadOf(d, attached') \in {Held(doc), Refused}
               \/ \E b \in Builds : Attach(b) /\ Overtakes(b, d)]_attached

\* What a container sees at a path: what the last layer to write it wrote.
Seen(layers, path) ==
    LET writing == {i \in DOMAIN layers : layers[i].path = path}
    IN  IF writing = {} THEN Nothing ELSE layers[CHOOSE i \in writing : \A j \in writing : j <= i].file

\* A document a chart is checked against comes from a signed image, the very
\* one its values pin, describes the namespace that image is labelled with, and
\* no platform of that image carries another one where its label points.
BoundIsPublished ==
    \A c \in ChartSet : \A document \in Documents(c) : Binds(c, document) =>
        \A e \in EntriesOf(c) : e.document = document =>
            LET pin == pins[c][e.values]
                doc == vendored[c][e.contract].doc
            IN  /\ [repository |-> pin.repository, digest |-> pin.digest] \in Signed
                /\ Prefix[doc] = Content[pin.digest].labels.prefix
                /\ \A p \in Content[pin.digest].platforms :
                      Seen(Manifest(Image[pin.digest], p).layers,
                           Content[pin.digest].labels.path) \in {doc, Nothing}

\* A chart all of whose images can be fetched, by digest, one per file.
Refreshable(c) ==
    /\ ~Problem(c, Digests)
    /\ \A e \in EntriesOf(c) : pins[c][e.values].digest # Nothing

Bound(c) == \A document \in Documents(c) : Binds(c, document)

\* One refresh that reaches the registry binds every chart whose pins and
\* images are in order, whatever an earlier run, cut short or refused, left
\* behind and however broken the charts before it are; the steps that follow
\* leave no file derived from an older contract once all could be read.
OneSyncSettles ==
    [][/\ (step = "idle" /\ step' = "derive" /\ vendored' = Refreshed(Digests)) =>
            \A c \in ChartSet : Refreshable(c) => Bound(c)'
       /\ (step = "derive" /\ step' = "idle" /\ events' = events) =>
            ((\A c \in ChartSet : Bound(c)) =>
                \A c \in ChartSet : \A f \in ContractsOf(c) : derived'[c][f] = vendored[c][f].doc)]_vars
=============================================================================
