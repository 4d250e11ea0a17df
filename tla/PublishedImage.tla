---------------------------- MODULE PublishedImage ----------------------------
(***************************************************************************)
(* What an image publishes, and how it is read back: cli/src/oci.  A       *)
(* digest names one manifest or an index of them; a document travels as a  *)
(* file inside the layers, as an artifact attached to a digest, or both.   *)
(* `image verify` asks with the document in hand, `pull` without it.       *)
(***************************************************************************)
EXTENDS Integers, Sequences

CONSTANTS Docs,         \* the documents builds produce
          Prefix,       \* the namespace each describes
          EmbedPath     \* where a build puts the document

\* Neither a document nor a label.
Nothing == "nothing"

\* A layer, at the labelled path: a document, nothing, or a blob no tar reader
\* opens; and the labels of an image config, each possibly absent.
LayerFiles == Docs \cup {Nothing, "unreadable"}

\* An artifact of the contract's type: a document, or a manifest or blob that
\* does not prove itself.
Artifacts == Docs \cup {"malformed"}

\* The labels a document renders.
LabelsOf(d, path) == [version |-> "1", path |-> path, prefix |-> Prefix[d]]

Refused == [ok |-> FALSE, doc |-> Nothing]
Held(d) == [ok |-> TRUE, doc |-> d]

-----------------------------------------------------------------------------
(***************************************************************************)
(* An image is [index, entries]: its manifests in order, each              *)
(* [os, labels, layers], and in an index also [digest], its own name.  One *)
(* that is no index has one entry, itself.  Attachments are kept apart,    *)
(* since a registry gains them later: 0 is the digest a chart pins, i the  *)
(* i-th entry of an index.                                                 *)
(***************************************************************************)
\* An index itself carries no config and no layers.
Bare == [labels |-> [version |-> Nothing, path |-> Nothing, prefix |-> Nothing], layers |-> <<>>]

\* platforms: the entries that are images, or the digest itself.
Platforms(image) ==
    LET found == {i \in DOMAIN image.entries : image.entries[i].os \notin {Nothing, "unknown"}}
    IN  IF image.index /\ found # {} THEN found ELSE {0}

Manifest(image, p) ==
    IF p # 0 THEN image.entries[p] ELSE IF image.index THEN Bare ELSE image.entries[1]

\* The labels every platform carries, or none they agree on.  An index read
\* as an image names no config blob, which is an error as well.
LabelsAgree(image) ==
    /\ \A p, q \in Platforms(image) : Manifest(image, p).labels = Manifest(image, q).labels
    /\ ~(image.index /\ Platforms(image) = {0})

Labels(image) == Manifest(image, CHOOSE p \in Platforms(image) : TRUE).labels

\* embedded_on: the first hit from the top; a layer that cannot be read is
\* passed over.
EmbeddedOn(layers, path) ==
    LET holding == {i \in DOMAIN layers : layers[i].path = path /\ layers[i].file \in Docs}
    IN  IF holding = {} THEN Nothing ELSE layers[CHOOSE i \in holding : \A j \in holding : j <= i].file

EmbeddedFiles(image, path) == {EmbeddedOn(Manifest(image, p).layers, path) : p \in Platforms(image)}

\* fetch_embedded: nothing without a path; an error when platforms differ.
FetchEmbedded(image, path) ==
    IF path \in {Nothing, "/"} THEN Held(Nothing)
    ELSE IF \E a, b \in EmbeddedFiles(image, path) : a # b THEN Refused
    ELSE Held(CHOOSE d \in EmbeddedFiles(image, path) : TRUE)

\* What a digest holds, for ever: all that is read of the image itself.
Inside(image) ==
    [platforms |-> Platforms(image), agree |-> LabelsAgree(image), labels |-> Labels(image),
     labelled |-> FetchEmbedded(image, Labels(image).path),
     embedded |-> FetchEmbedded(image, EmbedPath)]

-----------------------------------------------------------------------------
\* discover_contract: the pinned digest first, then the platforms in order.
Discover(inside, attached, nested) ==
    LET below == {p \in inside.platforms \ {0} : attached[p] # <<>>}
    IN  IF attached[0] # <<>> \/ ~nested \/ below = {} THEN attached[0]
        ELSE attached[CHOOSE p \in below : \A q \in below : p <= q]

\* fetch_attached: none, or the only one, proven.
FetchAttached(inside, attached, nested) ==
    LET found == Discover(inside, attached, nested)
    IN  IF found = <<>> THEN Held(Nothing)
        ELSE IF Len(found) > 1 \/ found[1] \notin Docs THEN Refused ELSE Held(found[1])

\* Mutant: whichever carrier answers first is believed.
FirstCarrier(a, e) ==
    IF ~a.ok \/ ~e.ok \/ (a.doc = Nothing /\ e.doc = Nothing) THEN Refused
    ELSE Held(IF a.doc = Nothing THEN e.doc ELSE a.doc)

\* One document from the two carriers, which must agree where both are.
Agreed(a, e) ==
    IF \/ ~a.ok \/ ~e.ok
       \/ a.doc = Nothing /\ e.doc = Nothing
       \/ a.doc # Nothing /\ e.doc # Nothing /\ a.doc # e.doc
    THEN Refused
    ELSE Held(IF a.doc = Nothing THEN e.doc ELSE a.doc)

\* fetch_contract, after the signature.
Fetch(inside, attached, nested) ==
    IF ~inside.agree \/ inside.labels.version # "1" THEN Refused
    ELSE LET found == Agreed(FetchAttached(inside, attached, nested), inside.labelled)
         IN  IF found.ok /\ Prefix[found.doc] = inside.labels.prefix THEN found ELSE Refused

-----------------------------------------------------------------------------

\* check_labels: every label the document renders, as it renders it.
CheckLabels(inside, d) == inside.labels = LabelsOf(d, EmbedPath)

\* verify_image found no fault, the signature set aside.
Publishes(inside, attached, nested, d) ==
    LET a == FetchAttached(inside, attached, nested)
        e == inside.embedded
    IN  /\ CheckLabels(inside, d) /\ inside.agree
        /\ a.ok /\ e.ok
        /\ {a.doc, e.doc} \subseteq {d, Nothing}
        /\ a.doc = d \/ e.doc = d

\* Mutant: only the digest itself is asked, not the platforms below it.
MayAttachHere(inside, attached, nested) == FetchAttached(inside, attached, FALSE) = Held(Nothing)

\* image attach: what is already attached, and nothing else, is looked at.
MayAttach(inside, attached, nested) == FetchAttached(inside, attached, nested) = Held(Nothing)
=============================================================================
