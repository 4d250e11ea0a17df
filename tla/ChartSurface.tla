---------------------------- MODULE ChartSurface ----------------------------
(***************************************************************************)
(* A chart's configuration surface over its life: the images release,      *)
(* `helm adopt` writes the values of new keys, `helm shapes` regenerates   *)
(* the @schema blocks (cli/src/helm/shapes.rs), people edit in between,    *)
(* and the bindings and shapes gates hold the result.                      *)
(***************************************************************************)
EXTENDS Adoption

CONSTANTS
    Charts,      \* bound: the charts the runs begin with
    Releases,    \* bound: document -> the contracts a release may publish
    Stricter,    \* bound: the fields a person adds to a block of their own
    Asked,       \* bound: the key sets adopt is asked for, {} for every key
    MaxReleases, MaxEdits

VARIABLES
    chart,       \* [contracts, declaration, file, templates]
    version,     \* document -> the release its vendored contract is of
    done,        \* the last operation, and what it was asked and wrote
    edits

vars == <<chart, version, done, edits>>

Newest(documents) == Max({version[d] : d \in documents})

-----------------------------------------------------------------------------
(* shapes.rs and shapes/resolve.rs.                                        *)

Derives(m) == m.class # "composed"
MarkersOf(file, path) == {m \in Markers(file) : m.path = path}
Transcribed(file) == {n \in Notes(file) : n.sort = "handwritten"}
BlockOf(file, path) == CHOOSE b \in Blocks(file) : b.path = path

\* generated: every value with a deriving marker and no transcription.
Generated(file) ==
    {b.path : b \in {k \in Blocks(file) : \E m \in k.markers : Derives(m)}}
        \ {n.path : n \in Transcribed(file)}

\* one_binding
OneBinding(file, path) == {m \in MarkersOf(file, path) : Derives(m)}

Carrying(c, path) ==
    UNION {Matched(c.contracts, m) : m \in OneBinding(c.file, path)}

\* resolve: a single marker, carried by documents of one constraint.
Resolves(c, path) ==
    /\ Cardinality(OneBinding(c.file, path)) = 1
    /\ Carrying(c, path) # {}
    /\ LET m == CHOOSE n \in OneBinding(c.file, path) : TRUE
       IN  Cardinality({c.contracts[d][m.target].constraint : d \in Carrying(c, path)}) = 1

Facts(c, path) ==
    LET m == CHOOSE n \in OneBinding(c.file, path) : TRUE
    IN  [constraint |-> c.contracts[CHOOSE d \in Carrying(c, path) : TRUE][m.target].constraint,
         optional   |-> m.optional,
         structured |-> \A d \in Carrying(c, path) : c.contracts[d][m.target].form = "structured"]

Departures(file, path) == {n \in Notes(file) : n.path = path /\ n.sort # "handwritten"}

\* superseded: the contract describes the value itself.
Superseded(facts) ==
    IF facts.structured THEN DescribesElement(facts.constraint) ELSE Describing(facts.constraint)

Applied(facts, present, departures) ==
    LET wanted == Expected(facts.constraint, facts.optional, facts.structured)
    IN  Settle(FoldSet(LAMBDA d, schema :
                 IF Refused(wanted, schema, present, d) THEN schema ELSE Kept(schema, present, d),
                 wanted, departures))

DepartureRefused(facts, present, departures) ==
    LET wanted == Expected(facts.constraint, facts.optional, facts.structured)
    IN  \E d \in departures : Refused(wanted, wanted, present, d)

\* target: the block a value is to have, if there is one.
Targeted(c, path) ==
    /\ Resolves(c, path)
    /\ LET facts == Facts(c, path)
       IN  /\ facts.structured => DescribesElement(facts.constraint)
           /\ Describing(facts.constraint)
           /\ ~DepartureRefused(facts, BlockOf(c.file, path).schema, Departures(c.file, path))

Target(c, path) ==
    Applied(Facts(c, path), BlockOf(c.file, path).schema, Departures(c.file, path))

\* rewrite
Rewritten(c) ==
    LET paths == {p \in Generated(c.file) : Targeted(c, p)}
        at(i) == {b \in Blocks(c.file) : b.line = i /\ b.path \in paths}
    IN  [i \in DOMAIN c.file |->
            IF at(i) = {} THEN c.file[i]
            ELSE [c.file[i] EXCEPT !.schema = Target(c, (CHOOSE b \in at(i) : TRUE).path)]]

\* check: the blocks that are not what their contract describes.
Drifted(c) ==
    {p \in Generated(c.file) : Targeted(c, p) /\ BlockOf(c.file, p).schema # Target(c, p)}

Undescribed(c) == {p \in Generated(c.file) : ~Targeted(c, p)}

\* covers
Covers(read, published) == read >= published

\* check_handwritten: superseded, or older than a release that publishes it;
\* where nothing publishes it, than the chart's own.
Reports(c, note) ==
    \/ ~\E b \in Blocks(c.file) : b.path = note.path
    \/ ~Resolves(c, note.path) /\ note.read # Newest(Docs)
    \/ Resolves(c, note.path) /\ \/ Superseded(Facts(c, note.path))
                                 \/ ~Covers(note.read, Newest(Carrying(c, note.path)))

\* check_markers: a departure from a block nothing generates.
Pointless(c) ==
    {n \in Notes(c.file) : n.sort # "handwritten" /\ n.path \notin Generated(c.file)}

ShapesPass(c) ==
    /\ Drifted(c) = {} /\ Undescribed(c) = {} /\ Pointless(c) = {}
    /\ \A n \in Transcribed(c.file) : ~Reports(c, n)

-----------------------------------------------------------------------------
Init ==
    /\ chart \in Charts
    /\ version = [d \in Docs |-> 1]
    /\ done = [op |-> "none"]
    /\ edits = 0

\* An image releases, and its contract is vendored anew.
Release(d) ==
    /\ MapThenSumSet(LAMBDA e : version[e] - 1, Docs) < MaxReleases
    /\ \E contract \in Releases[d] :
         /\ contract # chart.contracts[d]
         /\ chart' = [chart EXCEPT !.contracts[d] = contract]
    /\ version' = [version EXCEPT ![d] = @ + 1]
    /\ done' = [op |-> "release"]
    /\ UNCHANGED edits

\* helm adopt --write
Adopt(wanted) ==
    /\ Writes(chart, wanted)
    /\ chart' = Adopted(chart, wanted)
    /\ done' = [op |-> "adopt", wanted |-> wanted, refusals |-> Refusals(chart, wanted),
                placed |-> ToSet(Placeable(chart, wanted))]
    /\ UNCHANGED <<version, edits>>

\* helm shapes --write
Rewrite ==
    /\ Readable(chart.file)
    /\ Rewritten(chart) # chart.file
    /\ chart' = [chart EXCEPT !.file = Rewritten(chart)]
    /\ done' = [op |-> "rewrite"]
    /\ UNCHANGED <<version, edits>>

-----------------------------------------------------------------------------
(* What a person does in between; none of it is the program's.             *)

Edit(c, op) ==
    /\ edits < MaxEdits
    /\ edits' = edits + 1
    /\ chart' = c
    /\ done' = [op |-> op]
    /\ UNCHANGED version

\* A key is written off by hand, everywhere or in one document.
WriteOff ==
    \E k \in Declared(chart.contracts), documents \in {{}} \cup {{d} : d \in Docs} :
        /\ k \notin {e.key : e \in chart.declaration.unbound}
        /\ Edit([chart EXCEPT !.declaration.unbound = @ \cup {[key |-> k, documents |-> documents]}],
                "write off")

\* A stale write-off is removed.
Reinstate ==
    \E e \in chart.declaration.unbound :
        Edit([chart EXCEPT !.declaration.unbound = @ \ {e}], "reinstate")

\* A marker goes, with the value it bound.
Retire ==
    \E b \in Blocks(chart.file) :
        /\ b.markers # {}
        /\ Edit([chart EXCEPT !.file[b.line].markers = {}], "retire")

\* A person writes the marker adoption asks for, on a value that is there.
Bind ==
    \E b \in Blocks(chart.file), k \in Declared(chart.contracts) :
        LET d == CHOOSE e \in Docs : k \in DOMAIN chart.contracts[e]
            entry == chart.contracts[d][k]
        IN  /\ b.path = ValuesPath(k) /\ b.markers = {} /\ entry.form \in Implemented
            /\ Edit([chart EXCEPT !.file[b.line].markers =
                        {[class |-> IF entry.form = "structured" THEN "structured" ELSE "projection",
                          target |-> k, documents |-> {}, optional |-> ~entry.required,
                          when |-> <<>>]}], "bind")

\* A template renders a key by hand.
Wire ==
    \E k \in Declared(chart.contracts) :
        /\ Leaf(k) \notin chart.templates.names
        /\ Edit([chart EXCEPT !.templates.names = @ \cup {Leaf(k)},
                              !.templates.roots = @ \cup {Root(k)}], "wire")

\* A block is transcribed by hand, at the release it was read at.
Transcribe ==
    \E b \in Blocks(chart.file) :
        /\ b.markers # {} /\ ~\E n \in Notes(chart.file) : n.path = b.path
        /\ Edit([chart EXCEPT !.file = InsertAt(@, b.line,
                    Note([sort |-> "handwritten", path |-> b.path, position |-> <<>>,
                          read |-> Newest(Docs)]))], "transcribe")

\* A block keeps a position of its own, declared as one.
Depart ==
    \E b \in Blocks(chart.file), s \in Stricter, sort \in {"except", "narrow"} :
        /\ b.markers # {} /\ ~\E n \in Notes(chart.file) : n.path = b.path
        /\ Edit([chart EXCEPT !.file = InsertAt([@ EXCEPT ![b.line].schema = s @@ @],
                    b.line, Note([sort |-> sort, path |-> b.path,
                                  position |-> <<CHOOSE k \in DOMAIN s : TRUE>>, read |-> 0]))],
                "depart")

Next ==
    \/ \E d \in Docs : Release(d)
    \/ \E wanted \in Asked : Adopt(wanted)
    \/ Rewrite
    \/ WriteOff \/ Reinstate \/ Retire \/ Bind \/ Wire \/ Transcribe \/ Depart

Spec == Init /\ [][Next]_vars

-----------------------------------------------------------------------------
(* Properties.                                                             *)

Unscoped(c) == \A e \in c.declaration.unbound : e.documents = {}
Bare(blocks) == {[path |-> b.path, markers |-> b.markers, schema |-> b.schema] : b \in blocks}
ValueOf(values, path) == (CHOOSE v \in values : v.path = path).value

\* An adoption adds its own values and nothing else: every new value reads
\* back at its own path, bound to its own key, every old value and
\* block reads as it did, whatever lines the blocks met at; and what it renders,
\* it renders into every document that declares the key and has not written it
\* off, and into no other (adopt/apply.rs, placement.rs, template.rs, regions.rs).
AdoptedReadsBack ==
    LET before == Values(chart.file)
        after  == Values(chart'.file)
        paths  == {p.path : p \in done'.placed}
    IN  /\ Readable(chart'.file)
        /\ {v.path : v \in after} =
             {v.path : v \in before} \cup (UNION {Prefixes(path) : path \in paths} \ {<<>>})
        /\ \A v \in before :
             \/ ValueOf(after, v.path) = v.value
             \/ v.value = "null" /\ \E path \in paths : IsStrictPrefix(v.path, path)
        /\ \A p \in done'.placed :
             ValueOf(after, p.path) =
               IF p.to = "credential" THEN "blank" ELSE Default(p.entry)
        /\ Markers(chart'.file) =
             Markers(chart.file) \cup
             {[path |-> p.path] @@ MarkerOf(p) : p \in {q \in done'.placed : q.to = "projected"}}
        /\ Bare(Blocks(chart.file)) \subseteq Bare(Blocks(chart'.file))
        /\ \A r \in chart'.templates.rendered \ chart.templates.rendered :
             \A d \in Docs :
               d \in r.documents <=>
                 /\ d \in Declaring(chart.contracts, r.key)
                 /\ r.key \notin WrittenOff(chart.declaration, d)

\* What an adoption leaves behind for the bindings gate: nothing is missing,
\* contradicted or misread, nothing more is owed, and a key no template
\* renders is one the adoption reported as left to a person.
Settled(before, after, placed) ==
    /\ Loads(after.declaration)
    /\ ~StillOwes(after)
    /\ Premises(after.contracts, after.declaration, Markers(after.file), Values(after.file))
    /\ \A d \in Docs :
         /\ Missing(after.contracts, after.declaration, Markers(after.file), d) = {}
         /\ Contradicted(after.contracts, after.declaration, Markers(after.file), d) =
              Contradicted(before.contracts, before.declaration, Markers(before.file), d)
    /\ Unwired(after.templates, Markers(after.file)) \subseteq
         Unwired(before.templates, Markers(before.file))
         \cup {p.key : p \in placed \ Projected(before.templates, placed)}

\* An adoption reads back as what it adopted; one of everything that refused
\* nothing settles the chart whose write-offs are unscoped in one run
\* (adopt.rs, bindings.rs).
AdoptionSettles ==
    [][done'.op = "adopt" =>
         /\ AdoptedReadsBack
         /\ (done'.wanted = {} /\ done'.refusals = {} /\ Unscoped(chart)) =>
              Settled(chart, chart', done'.placed)]_vars

\* A green bindings gate: in every document every key is written off and
\* reached by no value, or is fed by one value, or by several that all say
\* so; and every marker names keys that are there (bindings.rs).  A green shapes
\* gate: no transcription is older than an image that publishes its value
\* (shapes.rs check_handwritten).
GreenMeansAccounted ==
    /\ (chart.declaration.bindings /\ Readable(chart.file)
        /\ Passes(chart.contracts, chart.declaration, Markers(chart.file), Values(chart.file),
                  chart.templates)) =>
           /\ \A d \in Docs : \A k \in DOMAIN chart.contracts[d] :
                LET feeds == {m \in Markers(chart.file) : m.target = k /\ d \in Scope(m.documents)}
                    off   == \E e \in chart.declaration.unbound : e.key = k /\ d \in Scope(e.documents)
                IN  /\ off <=> feeds = {}
                    /\ Cardinality(feeds) > 1 => \A m \in feeds : m.class = "composed"
                    /\ feeds # {} => Leaf(k) \in chart.templates.names
           /\ \A m \in Markers(chart.file) : m.target \in Declared(chart.contracts)
    /\ ShapesPass(chart) =>
           \A n \in Transcribed(chart.file) : \A d \in Carrying(chart, n.path) : n.read >= version[d]

\* A regenerated file says what it said, its own blocks and departures
\* included, and is what its contracts describe (shapes.rs).
RewritingSettles ==
    [][done'.op = "rewrite" =>
         /\ Values(chart'.file) = Values(chart.file)
         /\ Markers(chart'.file) = Markers(chart.file)
         /\ Drifted(chart') = {}
         /\ Undescribed(chart') = Undescribed(chart)
         /\ \A n \in Notes(chart.file) :
              LET old == BlockOf(chart.file, n.path).schema
                  new == BlockOf(chart'.file, n.path).schema
              IN  IF n.sort = "handwritten" THEN new = old
                  ELSE ~Holds(old, n.position) \/ At(new, n.position) = At(old, n.position)]_vars
=============================================================================
