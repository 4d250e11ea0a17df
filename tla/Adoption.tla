------------------------------ MODULE Adoption ------------------------------
(***************************************************************************)
(* What `helm adopt` plans for one chart: cli/src/helm/adopt.rs, its       *)
(* placement.rs, write_offs.rs and template.rs, and the plan and the       *)
(* blocks of scaffold.rs.                                                  *)
(*                                                                         *)
(* An entry of a contract is [form, required, secret, reserved, constraint,*)
(* default, file]: `default` is the published value or "none", `file`      *)
(* whether it names its secrets file.                                      *)
(* A chart is [contracts, declaration, file, templates]; its templates are *)
(* [derived, wraps, roots, names, secretData, files, rendered]: whether    *)
(* the derivedConfig define is there and hands its context on, the roots it *)
(* writes, every key the templates render, whether there is a secretData   *)
(* define and the files it writes, and the documents a key is rendered in. *)
(***************************************************************************)
EXTENDS ChartBindings, TLC

CONSTANTS
    KeyOrder,    \* every key a contract may declare, in the order of their texts
    NameOrder,   \* every segment and value name, in the order of their texts
    Camel,       \* segment -> the name of its chart value
    ServiceKey   \* the documents one of whose images sits under services.<key>

Implemented == {"text", "literal", "structured", "unknown"}

Sorted(S, order) == SelectSeq(order, LAMBDA x : x \in S)

\* values_path_for
ValuesPath(key) == [i \in DOMAIN key |-> Camel[key[i]]]

-----------------------------------------------------------------------------
(***************************************************************************)
(* The @schema block a contract's constraint becomes, and the positions a  *)
(* chart keeps its own: helm/shapes/expected.rs and divergences.rs.        *)
(*                                                                         *)
(* A schema is a function from keywords: "type" and "enum" to sets of      *)
(* names, "properties" to a function, "items" and "additionalProperties"   *)
(* to "element", "empty" or a Boolean's name, any other to a token.  A     *)
(* constraint nobody published is the empty function.                      *)
(***************************************************************************)

AnyType == {"string", "integer", "boolean", "array", "object", "null"}

Has(schema, keyword) == keyword \in DOMAIN schema
Only(schema, keywords) == [k \in DOMAIN schema \cap keywords |-> schema[k]]
Without(schema, keywords) == [k \in DOMAIN schema \ keywords |-> schema[k]]

\* describing
Describing(schema) == \E k \in {"type", "enum", "const"} : Has(schema, k)

\* describes_element
DescribesElement(schema) ==
    \E k \in {"items", "additionalProperties"} : Has(schema, k) /\ schema[k] = "element"

Nullable(optional, names) == IF optional THEN names \cup {"null"} ELSE names

AsMapping(schema, structured) ==
    /\ structured
    /\ Has(schema, "type") => "object" \in schema["type"]
    /\ ~Has(schema, "items")

\* expected: what the block says for a key of this constraint.
Expected(schema, optional, structured) ==
    IF Has(schema, "enum") THEN "enum" :> Nullable(optional, schema["enum"])
    ELSE IF AsMapping(schema, structured)
    THEN "type" :> Nullable(optional, {"object"})
         @@ "additionalProperties" :> (IF DescribesElement(schema) THEN "element" ELSE "true")
         @@ Only(schema, {"required", "properties", "propertyNames"})
    ELSE "type" :> Nullable(optional, IF Has(schema, "type") THEN schema["type"] ELSE AnyType)
         @@ Without(schema, {"type"})

-----------------------------------------------------------------------------
(* A position is a keyword, or a field under "properties".                 *)

\* dig
Holds(schema, position) ==
    /\ Has(schema, position[1])
    /\ Len(position) = 2 => position[2] \in DOMAIN schema[position[1]]

At(schema, position) ==
    IF Len(position) = 1 THEN schema[position[1]] ELSE schema[position[1]][position[2]]

\* put
Put(schema, position, value) ==
    IF Len(position) = 1 THEN position[1] :> value @@ schema
    ELSE IF ~Has(schema, position[1]) THEN schema
    ELSE [schema EXCEPT ![position[1]] = position[2] :> value @@ @]

\* settle: a type beside an enum goes.
Settle(schema) ==
    IF Has(schema, "enum") /\ Has(schema, "type") THEN Without(schema, {"type"}) ELSE schema

\* apply_divergences, one departure at a time: refused when the block below
\* does not declare it, an override of what is not generated, a narrowing of
\* what is, or a narrowing with nowhere to go.
Refused(generated, result, present, departure) ==
    LET described == Holds(generated, departure.position)
    IN  \/ ~Holds(present, departure.position)
        \/ departure.sort = "except" /\ ~described
        \/ departure.sort = "narrow" /\ described
        \/ ~described /\ Len(departure.position) = 2 /\ ~Has(result, departure.position[1])

\* Mutant: the departure takes what the contract generates there.
Regenerated(result, present, departure) ==
    IF Holds(result, departure.position) THEN result
    ELSE Put(result, departure.position, At(present, departure.position))

Kept(result, present, departure) ==
    Put(result, departure.position, At(present, departure.position))

-----------------------------------------------------------------------------
(* adopt.rs: the keys the chart is owed a value for.                       *)

AllMissing(contracts, declaration, markers) ==
    UNION {Missing(contracts, declaration, markers, d) : d \in Docs}

\* The documents an owed key is missing in.
MissingIn(contracts, declaration, markers, key) ==
    {d \in Docs : key \in Missing(contracts, declaration, markers, d)}

Disagree(contracts, documents, key) ==
    \E d, e \in documents : contracts[d][key] # contracts[e][key]

\* owed_keys and refuse_unknown_forms: what is refused before any planning.
Unplannable(contracts, declaration, markers) ==
    {k \in AllMissing(contracts, declaration, markers) :
        LET missing == MissingIn(contracts, declaration, markers, k)
        IN  \/ k \in {m.target : m \in markers}
            \/ Disagree(contracts, missing, k)
            \/ \E d \in missing : contracts[d][k].form \notin Implemented}

Owed(contracts, declaration, markers) ==
    AllMissing(contracts, declaration, markers)
        \ Unplannable(contracts, declaration, markers)

\* plan_keys: where one key goes.
Destination(entry) ==
    IF entry.reserved THEN "written off"
    ELSE IF ~entry.secret THEN "projected"
    ELSE IF entry.form = "text" THEN "credential" ELSE "written off"

Placement(contracts, declaration, markers, key) ==
    LET documents == MissingIn(contracts, declaration, markers, key)
        entry == contracts[CHOOSE d \in documents : TRUE][key]
    IN  [key |-> key, documents |-> documents, entry |-> entry,
         to |-> Destination(entry), path |-> ValuesPath(key)]

-----------------------------------------------------------------------------
(* scaffold.rs: the lines of a new value.                                  *)

MarkerOf(p) ==
    [class |-> IF p.entry.form = "structured" THEN "structured" ELSE "projection",
     target |-> p.key, documents |-> {}, optional |-> ~p.entry.required, when |-> <<>>]

\* default_for, the invented ones as one.
Default(entry) ==
    IF entry.default # "none" THEN entry.default
    ELSE IF ~entry.required THEN "null"
    ELSE IF entry.form = "structured" THEN "empty" ELSE "invented"

\* value_block
ValueBlock(p, indent) ==
    LET secret == p.to = "credential"
        name   == p.path[Len(p.path)]
    IN  <<Block(indent, IF secret THEN {} ELSE {MarkerOf(p)},
                Expected(p.entry.constraint, ~p.entry.required, p.entry.form = "structured")),
          Key(indent, name, IF secret THEN "blank" ELSE Default(p.entry))>>

OpenBlock(indent) == Block(indent, {}, "additionalProperties" :> "true")

\* render_tree: the blocks of a set of placements that share `depth` names.
RECURSIVE Render(_, _, _)
Render(placements, depth, indent) ==
    LET below(n) == {p \in placements : p.path[depth + 1] = n}
        block(n) ==
            IF \E p \in below(n) : Len(p.path) = depth + 1
            THEN ValueBlock(CHOOSE p \in below(n) : Len(p.path) = depth + 1, indent)
            ELSE <<OpenBlock(indent), Parent(indent, n)>>
                 \o Render(below(n), depth + 1, indent + 2)
        names == Sorted({p.path[depth + 1] : p \in placements}, NameOrder)
    IN  FlattenSeq([i \in DOMAIN names |->
            (IF i = 1 THEN <<>> ELSE <<Blank>>) \o block(names[i])])

\* tree_at: one chart value cannot feed two keys, nor lie under another.
Collide(placements) ==
    \E p, q \in placements : p # q /\ IsPrefix(p.path, q.path)

-----------------------------------------------------------------------------
(* placement.rs: where the blocks go.                                      *)

Placed(regions) == {r.path : r \in regions}
RegionOf(regions, path) == CHOOSE r \in regions : r.path = path

Ancestor(regions, path) ==
    LET held == {n \in 1..Len(path) - 1 : SubSeq(path, 1, n) \in Placed(regions)}
    IN  SubSeq(path, 1, Max(held \cup {0}))

Occupied(regions, values, path) == path \in Placed(regions) \/ HasPath(values, path)

\* dig: what the ancestor holds that no block child can go under.
Unusable(regions, values, path) ==
    LET ancestor == Ancestor(regions, path)
    IN  /\ ancestor # <<>>
        /\ \/ \E v \in values : v.path = ancestor /\ v.value \notin {"null", "mapping"}
           \/ ~RegionOf(regions, ancestor).bare

\* bearing: the regions that hold a marker.
Bearing(regions, markers) ==
    {r \in regions : \E m \in markers : IsPrefix(r.path, m.path)}

\* insertion_point
InsertionPoint(regions, markers, ancestor, lines) ==
    LET siblings == {r \in Bearing(regions, markers) :
                       Len(r.path) > 0 /\ SubSeq(r.path, 1, Len(r.path) - 1) = ancestor}
    IN  IF siblings # {} THEN Max({r.end : r \in siblings})
        ELSE IF ancestor = <<>> THEN lines ELSE RegionOf(regions, ancestor).end

\* insertions_for, over the surfaced placements no refusal takes.
Insertions(file, markers, placements) ==
    LET regions   == Regions(file)
        ancestors == FoldLeft(LAMBDA seen, p :
                        IF Ancestor(regions, p.path) \in ToSet(seen) THEN seen
                        ELSE Append(seen, Ancestor(regions, p.path)), <<>>, placements)
        group(a)  == {p \in ToSet(placements) : Ancestor(regions, p.path) = a}
        after(a)  == InsertionPoint(regions, markers, a, Len(file))
        indent(a) == IF a = <<>> THEN 0 ELSE RegionOf(regions, a).indent + 2
        spaced(a) == a = <<>> \/ RegionOf(regions, a).line # after(a)
        run(a)    == (IF spaced(a) THEN <<Blank>> ELSE <<>>) \o Render(group(a), Len(a), indent(a))
        planned   == SortSeq([i \in DOMAIN ancestors |->
                        [after |-> after(ancestors[i]), depth |-> Len(ancestors[i]),
                         index |-> i, lines |-> run(ancestors[i])]],
                        LAMBDA x, y : x.after < y.after \/ (x.after = y.after /\ x.index < y.index))
    IN  [i \in DOMAIN planned |-> [planned[i] EXCEPT !.index = i]]
-----------------------------------------------------------------------------
(* template.rs: the projections the define can take.                       *)

Root(key) == key[1]

\* projection_edits: roots the define does not write yet.
Eligible(templates, placements) ==
    {p \in placements : p.to = "projected" /\ Root(p.key) \notin templates.roots}

\* scope_new_roots: one scope for a root, and a service to name it by.
Scoped(templates, placements) ==
    {p \in Eligible(templates, placements) :
        /\ \A q \in Eligible(templates, placements) :
             Root(q.key) = Root(p.key) => q.documents = p.documents
        /\ p.documents = Docs \/ p.documents \subseteq ServiceKey}

Projected(templates, placements) ==
    IF ~templates.derived THEN {}
    ELSE IF Cardinality(Docs) = 1 THEN Eligible(templates, placements)
    ELSE IF templates.wraps THEN Scoped(templates, placements) ELSE {}

Delivered(templates, placements) ==
    {p \in placements : /\ p.to = "credential"
                        /\ templates.secretData
                        /\ p.key \notin templates.files}

\* guarded: the documents a projection is rendered in.
RenderedIn(p) == p.documents

\* derived_for, credential_entries_for
Edited(templates, placements) ==
    LET projected == Projected(templates, placements)
    IN  [templates EXCEPT
          !.roots = @ \cup {Root(p.key) : p \in projected},
          !.names = @ \cup UNION {Range(p.key) : p \in projected},
          !.files = @ \cup {p.key : p \in Delivered(templates, placements)},
          !.rendered = @ \cup {[key |-> p.key, documents |-> RenderedIn(p)] : p \in projected}]

-----------------------------------------------------------------------------
(* adopt.rs: the whole plan.                                               *)

\* A chart adopt reads at all; an unreadable one is an error of its own.
Adoptable(c) == c.declaration.bindings /\ Readable(c.file) /\ Loads(c.declaration)

Blocked(c) ==
    ~Premises(c.contracts, c.declaration, Markers(c.file), Values(c.file))

\* What is planned for the wanted keys, all of them when none is named.
Plan(c, wanted) ==
    LET markers == Markers(c.file)
        owed    == Owed(c.contracts, c.declaration, markers)
        keys    == IF wanted = {} THEN owed ELSE owed \cap wanted
    IN  {Placement(c.contracts, c.declaration, markers, k) : k \in keys}

Surfaced(c, wanted) ==
    LET plan    == Plan(c, wanted)
        ordered == Sorted({p.key : p \in plan}, KeyOrder)
        all     == [i \in DOMAIN ordered |-> CHOOSE p \in plan : p.key = ordered[i]]
    IN  SelectSeq(all, LAMBDA p : p.to = "projected")
        \o SelectSeq(all, LAMBDA p : p.to = "credential")

Free(c, p) ==
    LET regions == Regions(c.file)
        values  == Values(c.file)
    IN  ~Occupied(regions, values, p.path) /\ ~Unusable(regions, values, p.path)

\* Adoption::placed
Placeable(c, wanted) == SelectSeq(Surfaced(c, wanted), LAMBDA p : Free(c, p))

\* Adoption::occupied
OccupiedCredentials(c, wanted) ==
    {p \in ToSet(Surfaced(c, wanted)) :
        p.to = "credential" /\ Occupied(Regions(c.file), Values(c.file), p.path)}

\* Mutant: a credential gets a value and no write-off.
ReservedOnly(c, wanted) == {p.key : p \in {q \in Plan(c, wanted) : q.to = "written off"}}

\* write_off_groups and owed_write_offs, before what has an entry is left out.
Unsurfaced(c, wanted) ==
    {p.key : p \in {q \in Plan(c, wanted) : q.to = "written off"}
             \cup {q \in ToSet(Placeable(c, wanted)) : q.to = "credential"}
             \cup OccupiedCredentials(c, wanted)}

OwedWriteOffs(c, wanted) ==
    Unsurfaced(c, wanted) \ {e.key : e \in c.declaration.unbound}

\* credential_rows
OwedRows(c, wanted) ==
    {p.key : p \in {q \in ToSet(Placeable(c, wanted)) : q.to = "credential"}}
        \ c.declaration.credentials

\* declaration_edits: a block written on the key's own line cannot grow.
ByHand(c, wanted) ==
    \/ "unbound" \in c.declaration.inline /\ OwedWriteOffs(c, wanted) # {}
    \/ "credentials" \in c.declaration.inline /\ OwedRows(c, wanted) # {}

\* The errors that end the whole run: tree_at, secrets_file_name.
Fails(c, wanted) ==
    \/ Collide(ToSet(Placeable(c, wanted)))
    \/ \E p \in ToSet(Placeable(c, wanted)) \cup OccupiedCredentials(c, wanted) :
         p.to = "credential" /\ ~p.entry.file

Refusals(c, wanted) ==
    LET markers == Markers(c.file)
    IN  (IF wanted = {} THEN Unplannable(c.contracts, c.declaration, markers)
         ELSE wanted \ Owed(c.contracts, c.declaration, markers))
        \cup {p.key : p \in {q \in ToSet(Surfaced(c, wanted)) : ~Free(c, q)}}

Runs(c, wanted) == Insertions(c.file, Markers(c.file), Placeable(c, wanted))

Writes(c, wanted) ==
    /\ Adoptable(c) /\ ~Blocked(c) /\ ~Fails(c, wanted) /\ ~ByHand(c, wanted)
    /\ \/ Placeable(c, wanted) # <<>>
       \/ OwedWriteOffs(c, wanted) # {}

\* write_all: the chart after the adoption.
Adopted(c, wanted) ==
    [contracts   |-> c.contracts,
     declaration |-> [c.declaration EXCEPT
        !.unbound = @ \cup {[key |-> k, documents |-> {}] : k \in OwedWriteOffs(c, wanted)},
        !.credentials = @ \cup OwedRows(c, wanted)],
     file        |-> Splice(c.file, Ordered(Runs(c, wanted))),
     templates   |-> Edited(c.templates, ToSet(Placeable(c, wanted)))]

\* Adoption::owed, of a chart whose premises hold.
StillOwes(c) == Refusals(c, {}) # {} \/ ByHand(c, {}) \/ Writes(c, {}) \/ Fails(c, {})
=============================================================================
