---------------------------- MODULE ContractUnion ----------------------------
(***************************************************************************)
(* Several images, one document: the contracts of every reader merged into *)
(* one description (cli/src/union.rs), and the rendered document checked   *)
(* against it (cli/src/gate/document.rs, gate 1).                          *)
(*                                                                         *)
(* A contract is                                                           *)
(*   [label, dialect, loader, entries, ignore, unknown, schema]            *)
(* where `entries` is the sequence of its loader variables, keys and       *)
(* external variables, and `schema` maps the positions of its JSON Schema  *)
(* to what the level says.  A position is a sequence of steps: the name of *)
(* a property, or "*" and "[]" for the element schema of a map or array.   *)
(***************************************************************************)
EXTENDS Naturals, Sequences, SequencesExt, FiniteSets, TLC

CONSTANTS
    Contracts,      \* bound: the contracts on offer
    MaxItems,       \* bound: the images that read the document
    Documents,      \* bound: [rendered position -> value], or what is wrong with it
    Exemptions      \* bound: the gate 1 switches a values file may be exempt from

ASSUME UnionAssumption == MaxItems \in Nat \ {0}

\* What the reader of a contract returns.
ASSUME ContractsAssumption ==
    \A c \in Contracts :
        /\ c.entries \in Seq(Range(c.entries))
        /\ \A e \in Range(c.entries) :
               /\ e.required \in BOOLEAN
               /\ e = [section |-> e.section, name |-> e.name, fields |-> e.fields,
                       required |-> e.required]
        /\ \A level \in Range(c.schema) : level.properties \in BOOLEAN /\ level.maximum \in Nat

VARIABLES
    items,          \* the (label, contract) pairs
    next,           \* how many of them are merged
    union,          \* the accumulator
    refused,        \* whether union_contracts returned an error
    document,       \* the rendered document gate 1 was asked about, or Unasked
    relaxed,        \* the gates the values file is exempt from
    findings        \* what gate 1 found

vars == <<items, next, union, refused, document, relaxed, findings>>

Unasked == [read |-> "unasked"]
Elements == {"*", "[]"}
Policies == <<"allow", "warn", "reject">>

\* A level nobody described.
Nothing == [properties |-> FALSE, flag |-> "absent", required |-> {},
            maximum |-> 0, ref |-> "absent"]

InElement(position) == Range(position) \cap Elements # {}

-----------------------------------------------------------------------------
(* Entries: every field must agree, except `required`, which unions.       *)

\* Mutant: every policy is as strict as the next.
SameStrictness(policy) == 1

\* strictness: an unknown spelling is stricter than every known one.
Strictness(policy) ==
    IF policy \in Range(Policies) THEN CHOOSE i \in 1..3 : Policies[i] = policy ELSE 4

\* Ordered::get
Position(held, entry) ==
    {i \in 1..Len(held) : held[i].section = entry.section /\ held[i].name = entry.name}

\* Mutant: the entry listed last wins.
LastEntryWins(held, entry) ==
    IF Position(held, entry) = {} THEN [ok |-> TRUE, held |-> Append(held, entry)]
    ELSE [ok |-> TRUE, held |-> [i \in 1..Len(held) |->
                                    IF i \in Position(held, entry) THEN entry ELSE held[i]]]

\* `name` is "none" for an entry without the field it is keyed on.
MergeEntry(held, entry) ==
    LET at == Position(held, entry)
        agree == \A i \in at : held[i].fields = entry.fields
    IN  [ok   |-> entry.name # "none" /\ agree,
         held |-> IF at = {} THEN Append(held, entry)
                  ELSE [i \in 1..Len(held) |->
                           IF i \in at
                           THEN [held[i] EXCEPT !.required = @ \/ entry.required]
                           ELSE held[i]]]

MergeNext(acc, entry) == IF acc.ok THEN MergeEntry(acc.held, entry) ELSE acc

MergeEntries(held, entries) == FoldLeft(MergeNext, [ok |-> TRUE, held |-> held], entries)

-----------------------------------------------------------------------------
(* Schemas, level by level.  The recursion of merge_schema and merge_named *)
(* visits a position of the other contract with what is held there.        *)

Level(schema, position) ==
    IF position \in DOMAIN schema THEN schema[position] ELSE Nothing

\* A keyword is refused only where both say it and differ.
Disagree(mine, theirs) ==
    \/ mine.maximum # 0 /\ theirs.maximum # 0 /\ mine.maximum # theirs.maximum
    \/ mine.ref # "absent" /\ theirs.ref # "absent" /\ mine.ref # theirs.ref

\* The open/closed flag of either side is overruled, wherever the level is.
MergeLevel(mine, theirs) ==
    [properties |-> mine.properties \/ theirs.properties,
     flag       |-> "absent",
     required   |-> mine.required \cup theirs.required,
     maximum    |-> IF mine.maximum = 0 THEN theirs.maximum ELSE mine.maximum,
     ref        |-> IF mine.ref = "absent" THEN theirs.ref ELSE mine.ref]

\* Mutant: every level that enumerates is closed, an element's too.
CloseEverywhere(schema, position) ==
    IF schema[position].properties THEN [schema[position] EXCEPT !.flag = "false"]
    ELSE schema[position]

\* close_object, with merge_schema's `close`: false below an element schema.
CloseObject(schema, position) ==
    IF /\ schema[position].properties
       /\ ~InElement(position)
       /\ Append(position, "*") \notin DOMAIN schema
    THEN [schema[position] EXCEPT !.flag = "false"]
    ELSE schema[position]

MergeSchema(held, other) ==
    LET merged == [p \in DOMAIN held \cup DOMAIN other |->
                      MergeLevel(Level(held, p), Level(other, p))]
    IN  [ok     |-> \A p \in DOMAIN held \cap DOMAIN other : ~Disagree(held[p], other[p]),
         schema |-> [p \in DOMAIN merged |-> CloseObject(merged, p)]]

\* local_refs_only: the positions whose `$ref` leaves this machine.
RemoteRefs(schema) == {p \in DOMAIN schema : schema[p].ref = "remote"}

-----------------------------------------------------------------------------
Empty(contract) ==
    [sources |-> <<>>, dialect |-> contract.dialect, loader |-> contract.loader,
     entries |-> <<>>, ignore |-> {}, unknown |-> contract.unknown, schema |-> <<>>]

\* One turn of union_contracts' loop.
MergeContract(held, contract) ==
    LET entries == MergeEntries(held.entries, contract.entries)
        schema == MergeSchema(held.schema, contract.schema)
    IN  [ok    |-> contract.dialect = held.dialect /\ entries.ok /\ schema.ok,
         union |->
            [sources |-> Append(held.sources, contract.label),
             dialect |-> held.dialect,
             loader  |-> IF contract.loader = held.loader THEN held.loader ELSE "",
             entries |-> entries.held,
             ignore  |-> held.ignore \cup contract.ignore,
             unknown |-> IF Strictness(contract.unknown) > Strictness(held.unknown)
                         THEN contract.unknown ELSE held.unknown,
             schema  |-> schema.schema]]

Turn(acc, contract) == IF acc.ok THEN MergeContract(acc.union, contract) ELSE acc

UnionContracts(list) == FoldLeft(Turn, [ok |-> TRUE, union |-> Empty(list[1])], list)

Done == next = Len(items) /\ ~refused

-----------------------------------------------------------------------------
(* Gate 1.  A document is [read, values]: `read` says what stands between  *)
(* the manifests and a parsed instance, `values` the positions it carries. *)

Parent(position) == SubSeq(position, 1, Len(position) - 1)

MissingKeys(schema, values) ==
    (UNION {{Append(p, name) : name \in schema[p].required} :
               p \in DOMAIN schema \cap DOMAIN values}) \ DOMAIN values

UnknownKeys(schema, values) ==
    {q \in DOMAIN values : /\ q # <<>>
                           /\ Parent(q) \in DOMAIN schema
                           /\ schema[Parent(q)].flag = "false"
                           /\ q \notin DOMAIN schema}

BadValues(schema, values) ==
    {p \in DOMAIN schema \cap DOMAIN values :
        schema[p].maximum # 0 /\ values[p] > schema[p].maximum}

Finding(kind, places) == {[kind |-> kind, at |-> p] : p \in places}

\* open_schema: what the `closed` exemption drops.
OpenSchema(schema) ==
    [p \in DOMAIN schema |-> IF schema[p].flag = "false"
                             THEN [schema[p] EXCEPT !.flag = "absent"] ELSE schema[p]]

SchemaFindings(schema, values) ==
    Finding("unknown", UnknownKeys(schema, values))
        \cup Finding("missing", MissingKeys(schema, values))
        \cup Finding("value", BadValues(schema, values))

\* check_document: "absent" when the selector matched nothing.
CheckDocument(doc, schema, exempt) ==
    CASE "document" \in exempt -> {}
      [] doc.read = "no_object" -> Finding("absent", {<<>>})
      [] doc.read # "parsed"    -> Finding(doc.read, {<<>>})
      [] OTHER -> SchemaFindings(IF "closed" \in exempt THEN OpenSchema(schema) ELSE schema,
                                 doc.values)

-----------------------------------------------------------------------------
Init ==
    /\ items \in UNION {[1..n -> Contracts] : n \in 1..MaxItems}
    /\ next = 0
    /\ union = Empty(items[1])
    /\ refused = FALSE
    /\ document = Unasked /\ relaxed = {} /\ findings = {}

Merge ==
    /\ ~refused /\ next < Len(items)
    /\ LET turn == MergeContract(union, items[next + 1])
       IN  /\ refused' = ~turn.ok
           /\ union' = IF turn.ok THEN turn.union ELSE union
    /\ next' = next + 1
    /\ UNCHANGED <<items, document, relaxed, findings>>

\* A merged schema that leaves the machine is refused before it is compiled.
Gate1(doc, exempt) ==
    /\ Done /\ document = Unasked
    /\ RemoteRefs(union.schema) = {}
    /\ document' = doc /\ relaxed' = exempt
    /\ findings' = CheckDocument(doc, union.schema, exempt)
    /\ UNCHANGED <<items, next, union, refused>>

Next == Merge \/ \E doc \in Documents, exempt \in Exemptions : Gate1(doc, exempt)

Spec == Init /\ [][Next]_vars

-----------------------------------------------------------------------------
(* Properties.                                                             *)

\* What an image's own deserialiser makes of a document: the levels its schema
\* describes.  A level of the document itself is open, whatever it publishes;
\* an element is as open as its type.
ReaderAccepts(contract, values) ==
    LET schema == contract.schema
    IN  /\ MissingKeys(schema, values) = {}
        /\ BadValues(schema, values) = {}
        /\ \A q \in UnknownKeys(schema, values) : ~InElement(Parent(q))

\* Position p of one of the readers' schemas.
Described(p) == {i \in 1..Len(items) : p \in DOMAIN items[i].schema}

\* A key is known to some reader, at every level of the document a reader
\* enumerates.
Known(values) ==
    \A q \in DOMAIN values :
        \/ q = <<>>
        \/ InElement(Parent(q))
        \/ \A i \in Described(Parent(q)) : ~items[i].schema[Parent(q)].properties
        \/ Described(q) # {}

\* Two readers disagree when one entry, one schema position or the dialect is
\* described two ways.
Conflict(one, other) ==
    \/ one.dialect # other.dialect
    \/ \E e \in Range(one.entries), f \in Range(other.entries) :
          e.section = f.section /\ e.name = f.name /\ e.fields # f.fields
    \/ \E p \in DOMAIN one.schema \cap DOMAIN other.schema :
          Disagree(one.schema[p], other.schema[p])

\* The merge is refused exactly when two of the readers merged so far disagree
\* or an entry has no name, whatever was held when the second one came: what
\* the accumulator keeps loses no disagreement and makes none up.
RefusedExactlyOnDisagreement ==
    refused <=>
        \/ \E i, j \in 1..next : Conflict(items[i], items[j])
        \/ \E i \in 1..next : \E e \in Range(items[i].entries) : e.name = "none"

\* What does not depend on the order the images are listed in.  A policy of no
\* known spelling is as strict as any other, and the first one is kept.
Unordered(merged) ==
    [merged EXCEPT !.sources = Range(merged.sources), !.entries = Range(merged.entries),
                   !.unknown = IF @ \in Range(Policies) THEN @ ELSE "unknown"]

\* A declaration that lists its images in another order gets the same union.
OrderDoesNotMatter ==
    Done => \A order \in Bijection(1..Len(items), 1..Len(items)) :
               LET other == UnionContracts([i \in 1..Len(items) |-> items[order[i]]])
               IN  other.ok /\ Unordered(other.union) = Unordered(union)

\* "Rejecting a document the image accepts is the one direction to never be
\* wrong in": gate 1 finds nothing in a document every reader accepts and whose
\* keys some reader knows.  And a document it passes, even with unknown keys
\* exempted, has every key each reader requires and no value one of them
\* refuses.
PassedAsRead ==
    (Done /\ document.read = "parsed") =>
        /\ (/\ Known(document.values)
            /\ \A i \in 1..Len(items) : ReaderAccepts(items[i], document.values))
           => findings = {}
        /\ ("document" \notin relaxed /\ findings = {})
           => \A i \in 1..Len(items) :
                 /\ MissingKeys(items[i].schema, document.values) = {}
                 /\ BadValues(items[i].schema, document.values) = {}

=============================================================================
