---------------------------- MODULE LayeredLoad ----------------------------
(***************************************************************************)
(* One service's loads and reports: rust/src/terrace.rs, layers.rs,        *)
(* dialect.rs, provider/ and explain.rs.                                   *)
(*                                                                         *)
(* A load reads in steps: the fragments are listed, the secrets directory  *)
(* and the indirections are read and checked against each other, and only  *)
(* then are the fragments read, one by one.  The mounted volumes may be    *)
(* swapped between any two of these steps.                                 *)
(*                                                                         *)
(* A name is [path, upper]: the key it spells, and whether it is in upper  *)
(* case.  A value is the place it comes from, so that a merged tree says   *)
(* which layer each leaf is from.                                          *)
(***************************************************************************)
EXTENDS ConfigTree, FiniteSets

CONSTANTS
    Processes,  \* [env, reserved, policy, secretsDir, bare]: what never changes
    Mounts,     \* bound: what the volumes may hold
    MaxSwaps,   \* bound: how often they change
    Unparseable \* a fragment that is not TOML

VARIABLES
    process,    \* this process's environment and loader
    mount,      \* the files now: [dir, doc, secrets, targets]
    pc,         \* "idle" | "expanded" | "collected" | "merging" | "done"
    listed,     \* TomlLayers.files
    secrets,    \* SecretsDir.values
    files,      \* FileSuffixEnv.values
    read,       \* what each fragment merged so far supplied
    tree,       \* the merged figment
    outcome,    \* "none" | "source" | "shadowed" | "unparseable" | "loaded"
    watched,    \* the directories of the boot load, which the supervisor watches
    report,     \* the Explanation of these mounts, if one was asked for
    steady,     \* history: no swap since the load began
    swaps

vars == <<process, mount, pc, listed, secrets, files, read, tree, outcome,
          watched, report, steady, swaps>>

\* A name spells a key below the root; an environment and a directory list them.
IsNames(items) ==
    /\ Len(items) \in Nat /\ DOMAIN items = 1 .. Len(items)
    /\ \A i \in DOMAIN items : items[i].path \in Seq(STRING) \ {<<>>}

\* A fragment is a table, and so is whatever leads to a value in it.
IsFragment(t) ==
    /\ DOMAIN t \subseteq Seq(STRING) /\ IsFiniteSet(DOMAIN t)
    /\ <<>> \in DOMAIN t /\ t[<<>>] = Table
    /\ \A q \in DOMAIN t : \A p \in Parents(q) : p \in DOMAIN t /\ t[p] = Table

-----------------------------------------------------------------------------
(* dialect.rs                                                              *)

\* is_reserved: whatever the case, which on some platforms is one variable.
IsReserved(name) == \E r \in process.reserved : r.path = name.path

\* Mutant: whatever ends like an indirection is one, a key called `file` too.
PlainVarsByEnding ==
    {v \in ToSet(process.env) :
        ~IsReserved(v) /\ ~v.file /\ v.path # <<"file">>}

\* plain_env_entries: the variables the shadow check and the report know.
PlainVars == {v \in ToSet(process.env) : ~IsReserved(v) /\ ~v.file}

PlainKeys == {v.path : v \in PlainVars}

Toml(fragment) == [layer |-> "toml", fragment |-> fragment]
Env(var)       == [layer |-> "env", name |-> var]
Secret(entry)  == [layer |-> "secrets", name |-> entry]
Target(var)    == [layer |-> "indirection", name |-> var]

\* The last of the items kept that has a key: a BTreeMap filled in their order.
LastByKey(items, kept) ==
    [key \in {items[i].path : i \in kept} |->
        items[CHOOSE i \in kept :
                 /\ items[i].path = key
                 /\ \A j \in kept : items[j].path = key => j <= i]]

Secrets(last) == [key \in DOMAIN last |-> Secret(last[key])]

Targets(last) == [key \in DOMAIN last |-> Target(last[key])]

\* The members of a set one after the other, the lighter before the heavier.
Listing(set, weight) ==
    CHOOSE order \in [1 .. Cardinality(set) -> set] :
        /\ IsInjective(order)
        /\ \A i, j \in DOMAIN order : weight[order[i]] < weight[order[j]] => i < j

-----------------------------------------------------------------------------
(* provider/                                                               *)

\* TomlLayers::expand: the fragments in name order, or the path itself, absent
\* or not.
Expand(m) == IF m.dir THEN Listing(DOMAIN m.doc, [f \in DOMAIN m.doc |-> f]) ELSE <<0>>

\* SecretsDir::read refuses a directory it cannot read, a dotted name and a
\* reserved one; hidden entries and directories are skipped before that.
Usable(entry) == entry.kind # "skipped"

SecretsRefused(m) ==
    /\ process.secretsDir
    /\ m.secrets # Nothing =>
         \E entry \in ToSet(m.secrets[1]) :
             Usable(entry) /\ (entry.kind = "dotted" \/ IsReserved(entry))

SecretsRead(m) ==
    LET entries == m.secrets[1]
    IN  IF process.secretsDir
        THEN Secrets(LastByKey(entries, {i \in DOMAIN entries : Usable(entries[i])}))
        ELSE <<>>

IsIndirection(var) == var.file

\* FileSuffixEnv::read refuses a reserved key and a file it cannot read.
FilesRefused(m) ==
    \E v \in ToSet(process.env) :
        v.file /\ (IsReserved(v) \/ v \notin m.targets)

FilesRead ==
    Targets(LastByKey(process.env, {i \in DOMAIN process.env : IsIndirection(process.env[i])}))

\* reject_shadowed_keys
Shadowed(s, f) ==
    \/ DOMAIN s \cap DOMAIN f # {}
    \/ (DOMAIN s \cup DOMAIN f) \cap PlainKeys # {}

-----------------------------------------------------------------------------
(* The merge.                                                              *)

\* Terrace::environment: the variables that are values.
IsValue(var) == ~IsReserved(var) /\ ~var.file

Values == {i \in DOMAIN process.env : IsValue(process.env[i])}

\* figment::providers::Env: one variable after the other, in the platform's order.
EnvLayer ==
    LET supplied(v) == IF IsValue(v) THEN Nest(v.path, Env(v)) ELSE EmptyTable
    IN  FoldLeft(Merge, EmptyTable, [i \in DOMAIN process.env |-> supplied(process.env[i])])

\* BTreeMap order, as far as it matters: a key before what is below it.
InKeyOrder(keys) == Listing(keys, [key \in keys |-> Len(key)])

\* insert_nested, key after key.
Nested(values) ==
    LET order == InKeyOrder(DOMAIN values)
    IN  [i \in DOMAIN order |-> Nest(order[i], values[order[i]])]

\* Mutant: the secrets directory over the indirections.
FileLayerSwapped(s, f) ==
    FoldLeft(Merge, FoldLeft(Merge, EmptyTable, Nested(f)), Nested(s))

\* FileLayers::data: the secrets first, then the indirections.
FileLayer(s, f) ==
    FoldLeft(Merge, FoldLeft(Merge, EmptyTable, Nested(s)), Nested(f))

Merged(fragments, s, f) ==
    Merge(Merge(FoldLeft(Merge, EmptyTable, fragments), EnvLayer), FileLayer(s, f))

\* What a fragment supplies: an absent one nothing.
ReadFragment(m, fragment) ==
    IF fragment \in DOMAIN m.doc THEN m.doc[fragment] ELSE EmptyTable

\* FileLayers::watch_paths and TomlLayers::watch_dir: the parent of a path that
\* has none, as the default `config.toml`, is left out.
WatchPaths(m) ==
    (IF process.secretsDir THEN {"secrets"} ELSE {})
    \cup (IF DOMAIN files # {} THEN {"targets"} ELSE {})
    \cup (IF m.dir THEN {"fragments"} ELSE IF process.bare THEN {} ELSE {"parent"})

-----------------------------------------------------------------------------
(* A load: Terrace::collect_layers, then assemble_watched.                 *)

Begin ==
    /\ pc \in {"idle", "done"}
    /\ pc' = "expanded"
    /\ listed' = Expand(mount)
    /\ secrets' = <<>>
    /\ files' = <<>>
    /\ read' = <<>>
    /\ tree' = EmptyTable
    /\ outcome' = "none"
    /\ steady' = TRUE
    /\ UNCHANGED <<process, mount, watched, report, swaps>>

Fail(reason) ==
    /\ pc' = "done"
    /\ outcome' = reason
    /\ UNCHANGED <<process, mount, listed, secrets, files, read, tree, watched,
                   report, steady, swaps>>

RefuseSecrets == pc = "expanded" /\ SecretsRefused(mount) /\ Fail("source")

CollectSecrets ==
    /\ pc = "expanded"
    /\ ~SecretsRefused(mount)
    /\ secrets' = SecretsRead(mount)
    /\ pc' = "collected"
    /\ UNCHANGED <<process, mount, listed, files, read, tree, outcome, watched,
                   report, steady, swaps>>

RefuseFiles == pc = "collected" /\ FilesRefused(mount) /\ Fail("source")

RefuseShadowed ==
    /\ pc = "collected"
    /\ ~FilesRefused(mount)
    /\ process.policy = "reject"
    /\ Shadowed(secrets, FilesRead)
    /\ Fail("shadowed")

CollectFiles ==
    /\ pc = "collected"
    /\ ~FilesRefused(mount)
    /\ process.policy = "reject" => ~Shadowed(secrets, FilesRead)
    /\ files' = FilesRead
    /\ pc' = "merging"
    /\ UNCHANGED <<process, mount, listed, secrets, read, tree, outcome,
                   watched, report, steady, swaps>>

MergeFragment ==
    /\ pc = "merging"
    /\ Len(read) < Len(listed)
    /\ read' = Append(read, ReadFragment(mount, listed[Len(read) + 1]))
    /\ UNCHANGED <<process, mount, pc, listed, secrets, files, tree, outcome,
                   watched, report, steady, swaps>>

\* figment keeps the error of a fragment and raises it when the value is extracted.
RefuseFragment ==
    /\ pc = "merging"
    /\ Len(read) = Len(listed)
    /\ Unparseable \in ToSet(read)
    /\ Fail("unparseable")

Finish ==
    /\ pc = "merging"
    /\ Len(read) = Len(listed)
    /\ Unparseable \notin ToSet(read)
    /\ tree' = Merged(read, secrets, files)
    /\ watched' = IF watched = Nothing THEN <<WatchPaths(mount)>> ELSE watched
    /\ pc' = "done"
    /\ outcome' = "loaded"
    /\ UNCHANGED <<process, mount, listed, secrets, files, read, report, steady,
                   swaps>>

-----------------------------------------------------------------------------
(* Terrace::explain: the layers of a load, collected under LastWins.       *)

\* fragment_keys, push_leaves: the leaves of a table, empty tables included.
LeafKeys(t) ==
    {q \in DOMAIN t \ {<<>>} :
        t[q] = Table => ~ \E r \in DOMAIN t : IsStrictPrefix(q, r)}

FragmentKeys(m, fragment) ==
    IF ReadFragment(m, fragment) = Unparseable THEN {}
    ELSE LeafKeys(ReadFragment(m, fragment))

\* BTreeSet order of the spellings of one key: upper case first.
SpelledAs(key) ==
    LET spelled == {v \in PlainVars : v.path = key}
    IN  Listing(spelled, [v \in spelled |-> IF v.upper THEN 0 ELSE 1])

Under(key, values) == IF key \in DOMAIN values THEN <<values[key]>> ELSE <<>>

\* Everything that supplies a key, in the order of the merge.
Suppliers(m, key) ==
    LET fragments == Expand(m)
        having == {i \in DOMAIN fragments : key \in FragmentKeys(m, fragments[i])}
        order == Listing(having, [i \in having |-> i])
    IN  [i \in DOMAIN order |-> Toml(fragments[order[i]])]
        \o [i \in DOMAIN SpelledAs(key) |-> Env(SpelledAs(key)[i])]
        \o Under(key, SecretsRead(m))
        \o Under(key, FilesRead)

Explanation(m) ==
    [key \in (UNION {FragmentKeys(m, fragment) : fragment \in ToSet(Expand(m))})
             \cup PlainKeys \cup DOMAIN SecretsRead(m) \cup DOMAIN FilesRead
        |-> Suppliers(m, key)]

Report(kind, origins) == [kind |-> kind, origins |-> origins]
NoReport == Report("none", <<>>)

\* Mutant: the report is assembled under the policy of the loader.
ExplainUnderPolicy ==
    /\ report = NoReport
    /\ report' = IF \/ SecretsRefused(mount) \/ FilesRefused(mount)
                    \/ process.policy = "reject" /\ Shadowed(SecretsRead(mount), FilesRead)
                 THEN Report("error", <<>>)
                 ELSE Report("made", Explanation(mount))
    /\ UNCHANGED <<process, mount, pc, listed, secrets, files, read, tree,
                   outcome, watched, steady, swaps>>

Explain ==
    /\ report = NoReport
    /\ report' = IF SecretsRefused(mount) \/ FilesRefused(mount) THEN Report("error", <<>>)
                 ELSE Report("made", Explanation(mount))
    /\ UNCHANGED <<process, mount, pc, listed, secrets, files, read, tree,
                   outcome, watched, steady, swaps>>

-----------------------------------------------------------------------------
\* The volumes are swapped.  MaxSwaps bounds how often.
Swap(m) ==
    /\ swaps < MaxSwaps
    /\ m # mount
    /\ mount' = m
    /\ swaps' = swaps + 1
    /\ steady' = FALSE
    /\ report' = NoReport
    /\ UNCHANGED <<process, pc, listed, secrets, files, read, tree, outcome,
                   watched>>

Init ==
    /\ process \in Processes
    /\ mount \in Mounts
    /\ pc = "idle"
    /\ listed = <<>>
    /\ secrets = <<>>
    /\ files = <<>>
    /\ read = <<>>
    /\ tree = EmptyTable
    /\ outcome = "none"
    /\ watched = Nothing
    /\ report = NoReport
    /\ steady = TRUE
    /\ swaps = 0

ASSUME LayersAssumption ==
    /\ \A p \in Processes : /\ IsNames(p.env)
                             /\ \A v \in ToSet(p.env) : Table \notin {Env(v), Target(v)}
    /\ \A m \in Mounts :
          /\ DOMAIN m.doc \subseteq Nat /\ IsFiniteSet(DOMAIN m.doc)
          /\ \A f \in DOMAIN m.doc :
                \/ m.doc[f] = Unparseable
                \/ /\ IsFragment(m.doc[f])
                   /\ \A q \in DOMAIN m.doc[f] : m.doc[f][q] \in {Table, Toml(f)}
          /\ m.secrets # Nothing =>
                /\ IsNames(m.secrets[1])
                /\ \A entry \in ToSet(m.secrets[1]) : Secret(entry) # Table

Next ==
    \/ Begin \/ RefuseSecrets \/ CollectSecrets
    \/ RefuseFiles \/ RefuseShadowed \/ CollectFiles
    \/ MergeFragment \/ RefuseFragment \/ Finish
    \/ Explain
    \/ \E m \in Mounts : Swap(m)

Spec == Init /\ [][Next]_vars

-----------------------------------------------------------------------------
(* Properties.                                                             *)

Loaded == pc = "done" /\ outcome = "loaded"

EnvKeys == {v.path : v \in {v \in ToSet(process.env) : IsValue(v)}}

\* Under ShadowPolicy::Reject no key of a load that succeeded comes from two of
\* the environment, the secrets directory and the indirections, whatever was
\* mounted while it ran.
OneSupplier ==
    Loaded /\ process.policy = "reject" =>
        /\ DOMAIN secrets \cap DOMAIN files = {}
        /\ EnvKeys \cap (DOMAIN secrets \cup DOMAIN files) = {}

SuppliedKeys ==
    (UNION {LeafKeys(read[i]) : i \in DOMAIN read})
    \cup EnvKeys \cup DOMAIN secrets \cup DOMAIN files

\* The value of the highest layer that has the key, in the documented order.
TopValue(key) ==
    IF key \in DOMAIN files THEN files[key]
    ELSE IF key \in DOMAIN secrets THEN secrets[key]
    ELSE IF key \in EnvKeys THEN Env(LastByKey(process.env, Values)[key])
    ELSE LET with == {i \in DOMAIN read : key \in LeafKeys(read[i])}
         IN  read[CHOOSE i \in with : \A j \in with : j <= i][key]

\* A key that no other key runs through, or ends inside of.
Clear(key, keys) ==
    ~ \E other \in keys : IsStrictPrefix(key, other) \/ IsStrictPrefix(other, key)

\* Every leaf of the merged configuration is what the highest layer with that
\* key says, unless another key ends on the way to it: a layer that says a, and
\* then a table at a, has dropped what it said inside of a before, and a lower
\* layer is seen again.  And no key is lost unless another one cuts through it.
HighestLayerWins ==
    Loaded =>
        /\ \A q \in DOMAIN tree : tree[q] # Table =>
              /\ q \in SuppliedKeys
              /\ \/ tree[q] = TopValue(q)
                 \/ \E key \in SuppliedKeys : IsStrictPrefix(key, q)
        /\ \A key \in SuppliedKeys :
              Clear(key, SuppliedKeys) => key \in DOMAIN tree /\ tree[key] = TopValue(key)

\* Load and report saw the same mounts.
SameMounts == pc = "done" /\ steady

\* The report explains a boot that is refused for a key supplied twice.  Of one
\* that is not it lists exactly the supplied keys, and names the layer the service
\* runs on for each that no other key cuts through and that not two spellings of
\* one variable supply.
ReportIsTrue ==
    SameMounts /\ report # NoReport =>
        /\ outcome = "shadowed" =>
              /\ report.kind = "made"
              /\ \E key \in DOMAIN report.origins : Len(report.origins[key]) > 1
        /\ Loaded /\ report.kind = "made" =>
              /\ DOMAIN report.origins = SuppliedKeys
              /\ \A key \in SuppliedKeys :
                    Clear(key, SuppliedKeys) /\ Len(SpelledAs(key)) < 2 =>
                        tree[key] \in {Table, Last(report.origins[key])}

\* The report never fails where a load succeeds.
ReportIsPermissive ==
    SameMounts /\ Loaded => report.kind # "error"
=============================================================================
