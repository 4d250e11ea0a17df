---------------------------- MODULE ContractDiff ----------------------------
(***************************************************************************)
(* What changed between two revisions of a chart's vendored contracts, and *)
(* the version bump it justifies (cli/src/diff.rs, diff/keys.rs,           *)
(* diff/sections.rs, diff/tightening.rs, helm/diff.rs).                    *)
(*                                                                         *)
(* A branch refreshes contracts, file by file, bumps the chart's version   *)
(* and is merged; the diff compares its tree with the revision merged last.*)
(*                                                                         *)
(* A contract is a record                                                  *)
(*   [envelope, version, app, release, image, digest, dialect, loader,     *)
(*    keys, external, unknown, ignore, reload, schema]                     *)
(* where `loader`, `keys` and `external` are functions from names to       *)
(* entries, as `indexed` reads them.                                       *)
(***************************************************************************)
EXTENDS Naturals, Sequences, FiniteSets, FiniteSetsExt

CONSTANTS
    Files,          \* bound: the vendored documents a chart may carry
    Revisions,      \* bound: what such a file may hold: the pairs [read, contract]
    Deployments,    \* bound: what a chart renders, [env, files, doc]
    Namespace,      \* the names that start with the prefix
    Matches,        \* ignore pattern -> the names it matches
    Admits,         \* entry-name pattern -> the names it matches
    MaxVersion,     \* bound: the largest component of a chart version
    MaxRefreshes    \* bound: refreshes between two merges

\* The secrets file of a key that none can supply.
NoFile == ""

\* A published contract: a reserved key is one whose variable the loader reads
\* itself, and has no file; every other key has a file of its own; and what the
\* loader reads is neither external nor ignored.
Published(contract) ==
    LET keys == contract.keys
    IN  /\ contract.version \in Nat
        /\ \A p \in DOMAIN keys :
              /\ {keys[p].required, keys[p].reserved} \subseteq BOOLEAN
              /\ keys[p].reserved <=> keys[p].env \in DOMAIN contract.loader
              /\ keys[p].reserved => keys[p].file = NoFile
              /\ \A q \in DOMAIN keys : keys[p].file = keys[q].file => p = q \/ keys[p].file = NoFile
        /\ \A n \in DOMAIN contract.external : contract.external[n].required \in BOOLEAN
        /\ DOMAIN contract.loader \cap DOMAIN contract.external = {}
        /\ \A pattern \in contract.ignore : Matches[pattern] \cap DOMAIN contract.loader = {}

ASSUME RevisionsAssumption ==
    \A doc \in Revisions : doc.read = "contract" => Published(doc.contract)

ASSUME BranchAssumption ==
    /\ MaxVersion \in Nat /\ MaxRefreshes \in Nat
    /\ \A d \in Deployments : NoFile \notin d.files

VARIABLES
    base,           \* [docs, version]: the revision compared with
    tree,           \* [docs, version]: the working tree
    steps,          \* history: the largest impact of a single refresh since `base`
    returned,       \* history: whether one of them took back what one before it did
    refreshes       \* how many there were

branchVars == <<base, tree, steps, returned, refreshes>>

\* Severity
None == 0
Patch == 1
Minor == 2
Major == 3

Worst(changes) == Max({c.severity : c \in changes} \cup {None})

Absent == [read |-> "absent"]

Change(severity, area, kind, subject, field) ==
    [severity |-> severity, area |-> area, kind |-> kind, subject |-> subject, field |-> field]

-----------------------------------------------------------------------------
(* keys.rs: what both sides declare, field by field.                       *)

\* The fixed severities.  `accepted` stands for the fields that decide which
\* values are (ty, values, text_constraint, the constraint without its
\* tightenings), `unmodelled` for a field the diff has no opinion about.
KeyFields ==
    [env |-> Major, file |-> Major, accepted |-> Minor, aliases |-> Minor,
     reserved |-> Minor, secret |-> Minor, docs |-> Patch, unmodelled |-> Patch]

ExternalFields == [accepted |-> Minor, secret |-> Minor, docs |-> Patch, unmodelled |-> Patch]

DiffFields(area, subject, old, new, fields) ==
    {Change(fields[f], area, "changed", subject, f) :
        f \in {g \in DOMAIN fields : old[g] # new[g]}}

\* What is graded by direction: gaining it breaks a chart, losing it cannot.
Directed(area, subject, field, gained, lost) ==
    (IF gained THEN {Change(Major, area, "changed", subject, field)} ELSE {})
        \cup (IF lost THEN {Change(Minor, area, "changed", subject, field)} ELSE {})

DiffRequired(area, subject, old, new) ==
    Directed(area, subject, "required",
             new.required /\ ~old.required, old.required /\ ~new.required)

\* A pattern gained or replaced may refuse a name the chart writes.
DiffEntryNames(area, subject, old, new) ==
    Directed(area, subject, "constraint.propertyNames",
             new.names # old.names /\ new.names # "any",
             new.names # old.names /\ new.names = "any")

DiffRequiredEntries(area, subject, old, new) ==
    Directed(area, subject, "constraint.required",
             new.entries \ old.entries # {}, old.entries \ new.entries # {})

\* tightening.rs: `tight` maps the places of the tightenings, "*.required" or
\* "pattern", to what they say.  Of the key itself only a pattern is graded: its
\* entries and names are graded above, a condition ("allOf") is not.
Graded(entry) == DOMAIN entry.tight \ {"allOf"}

DiffTightenings(area, subject, old, new) ==
    LET gained == {p \in Graded(new) : p \notin Graded(old) \/ old.tight[p] # new.tight[p]}
        lost == Graded(old) \ Graded(new)
    IN  {Change(Major, area, "changed", subject, p) : p \in gained}
        \cup {Change(Minor, area, "changed", subject, p) : p \in lost}

\* Mutant: a moved form is a value that may not be accepted.
FormIsMinor(area, subject, old, new) ==
    Directed(area, subject, "text_form", FALSE, new.form # old.form)

\* A form that no longer is text takes the file layer with it.
DiffTextForm(area, subject, old, new) ==
    Directed(area, subject, "text_form",
             old.form = "text" /\ new.form # "text", new.form # old.form /\ old.form # "text")

DiffDefault(area, subject, old, new) ==
    IF old.default = new.default THEN {}
    ELSE {Change(Minor, area, "changed", subject, "default")}

\* diff_entry, of a key or an external variable.
DiffEntry(area, subject, old, new, fields) ==
    DiffFields(area, subject, old, new, fields)
        \cup DiffRequired(area, subject, old, new)
        \cup DiffRequiredEntries(area, subject, old, new)
        \cup DiffEntryNames(area, subject, old, new)
        \cup DiffTightenings(area, subject, old, new)
        \cup DiffTextForm(area, subject, old, new)
        \cup DiffDefault(area, subject, old, new)

DiffKeys(old, new) ==
    {Change(IF new[p].required THEN Major ELSE Minor, "key", "added", p, "") :
        p \in DOMAIN new \ DOMAIN old}
    \cup {Change(Major, "key", "removed", p, "") : p \in DOMAIN old \ DOMAIN new}
    \cup UNION {DiffEntry("key", p, old[p], new[p], KeyFields) : p \in DOMAIN old \cap DOMAIN new}

Absorbed(contract, name) == \E pattern \in contract.ignore : name \in Matches[pattern]

\* A removal costs what the classification does with the name afterwards.
DiffExternal(old, new) ==
    LET before == old.external
        after == new.external
        rejected(n) == new.unknown = "reject" /\ ~Absorbed(new, n)
    IN  {Change(IF after[n].required THEN Major ELSE Minor, "external", "added", n, "") :
            n \in DOMAIN after \ DOMAIN before}
        \cup {Change(IF rejected(n) THEN Major ELSE Minor, "external", "removed", n, "") :
            n \in DOMAIN before \ DOMAIN after}
        \cup UNION {DiffEntry("external", n, before[n], after[n], ExternalFields) :
                    n \in DOMAIN before \cap DOMAIN after}

-----------------------------------------------------------------------------
(* sections.rs                                                             *)

Moved(severity, subject, old, new) ==
    IF old = new THEN {} ELSE {Change(severity, "envelope", "changed", subject, "")}

DiffSource(old, new) ==
    Moved(Minor, "source.image", old.image, new.image)
        \cup Moved(Patch, "source.digest", old.digest, new.digest)

\* The schema version this build implements; 0 is a version that is no number.
SchemaVersion == 4

\* Mutant: only the next version is a widening.
NextVersionOnly(old, new) ==
    IF old # 0 /\ new = old + 1 /\ new <= SchemaVersion THEN Minor ELSE Major

VersionSeverity(old, new) ==
    IF old # 0 /\ old < new /\ new <= SchemaVersion THEN Minor ELSE Major

DiffDialect(old, new) == Moved(Major, "dialect", old.dialect, new.dialect)

DiffPolicy(old, new) ==
    Moved(IF new.unknown = "reject" THEN Major ELSE Minor,
          "external.unknown", old.unknown, new.unknown)
    \cup {Change(Minor, "envelope", "added", p, "ignore") : p \in new.ignore \ old.ignore}
    \cup {Change(Minor, "envelope", "removed", p, "ignore") : p \in old.ignore \ new.ignore}

DiffEnvelope(old, new) ==
    Moved(Major, "terrace_contract", old.envelope, new.envelope)
        \cup Moved(Minor, "app.name", old.app, new.app)
        \cup Moved(Patch, "app.version", old.release, new.release)
        \cup Moved(VersionSeverity(old.version, new.version),
                   "schema.schema_version", old.version, new.version)
        \cup DiffDialect(old, new)
        \cup DiffPolicy(old, new)

LoaderFields == [role |-> Major, default |-> Minor, docs |-> Patch]

DiffLoader(old, new) ==
    {Change(Minor, "loader", "added", n, "") : n \in DOMAIN new \ DOMAIN old}
    \cup {Change(Major, "loader", "removed", n, "") : n \in DOMAIN old \ DOMAIN new}
    \cup UNION {DiffFields("loader", n, old[n], new[n], LoaderFields) :
                    n \in DOMAIN old \cap DOMAIN new}

Rebuilds(declared) == declared.mode = "rebuild" /\ declared.layers # {}

\* The class a consumer derives.
Live(contract, path) == Rebuilds(contract.reload) /\ contract.keys[path].reload = "live"

DiffReload(old, new) ==
    LET turned == Rebuilds(old.reload) # Rebuilds(new.reload)
        published(p) == (old.keys[p].reload = "live") # (new.keys[p].reload = "live")
    IN  (IF turned \/ (Rebuilds(old.reload) /\ old.reload # new.reload)
         THEN {Change(Minor, "reload", "changed", "schema.reload", "")} ELSE {})
        \cup {Change(Minor, "reload", "changed", p, "reload") :
                 p \in {q \in DOMAIN old.keys \cap DOMAIN new.keys :
                           /\ Live(old, q) # Live(new, q)
                           /\ turned => published(q)}}

-----------------------------------------------------------------------------
(* diff.rs and helm/diff.rs                                                *)

\* Both sides are there.
DiffContract(old, new) ==
    LET keys == DiffKeys(old.keys, new.keys)
        schema == IF keys = {} THEN Moved(Patch, "json_schema", old.schema, new.schema) ELSE {}
    IN  DiffSource(old, new) \cup DiffEnvelope(old, new) \cup DiffLoader(old.loader, new.loader)
            \cup keys \cup DiffExternal(old, new) \cup DiffReload(old, new) \cup schema

Parsed(doc) == doc.read = "contract"

\* A file that cannot be read counts as absent, and is a problem reported.
Compare(old, new) ==
    CASE ~Parsed(old) /\ ~Parsed(new) -> {}
      [] ~Parsed(old) /\ Parsed(new) -> {Change(Minor, "envelope", "added", "contract", "")}
      [] Parsed(old) /\ ~Parsed(new) -> {Change(Major, "envelope", "removed", "contract", "")}
      [] Parsed(old) /\ Parsed(new) -> DiffContract(old.contract, new.contract)

Problems(from, to) ==
    {f \in Files : from.docs[f].read = "broken" \/ to.docs[f].read = "broken"}

Impact(from, to) == Worst(UNION {Compare(from.docs[f], to.docs[f]) : f \in Files})

\* observed_bump: {} when it cannot be told.
ObservedBump(old, new) ==
    IF old = <<>> \/ new = <<>> THEN {}
    ELSE IF new[1] # old[1] THEN {Major}
    ELSE IF new[2] # old[2] THEN {Minor}
    ELSE IF new[3] # old[3] THEN {Patch} ELSE {None}

\* suggest_version, the version itself where nothing is suggested.
SuggestVersion(current, impact) ==
    IF current = <<>> THEN current
    ELSE CASE impact = None  -> current
           [] impact = Patch -> <<current[1], current[2], current[3] + 1>>
           [] impact = Minor -> <<current[1], current[2] + 1, 0>>
           [] impact = Major -> <<current[1] + 1, 0, 0>>

\* ChartDiff::satisfied: {} when it cannot be decided.
Satisfied(from, to) ==
    IF Impact(from, to) = None THEN {TRUE}
    ELSE {bump >= Impact(from, to) : bump \in ObservedBump(from.version, to.version)}

-----------------------------------------------------------------------------
\* Chart versions, <<>> for a string that is none.
Versions == (0..MaxVersion) \X (0..MaxVersion) \X (0..MaxVersion) \cup {<<>>}

BranchInit ==
    /\ base \in [docs : [Files -> Revisions], version : {<<0, 0, 0>>, <<>>}]
    /\ tree = base
    /\ steps = None /\ returned = FALSE /\ refreshes = 0

\* What was withdrawn on the way comes back: an external variable of the base,
\* or the refusal of names that an ignore pattern let pass.
Returns(first, old, new) ==
    /\ Parsed(first) /\ Parsed(old) /\ Parsed(new)
    /\ \/ old.contract.ignore \ new.contract.ignore # {}
       \/ (DOMAIN new.contract.external \ DOMAIN old.contract.external)
            \cap DOMAIN first.contract.external # {}

\* One vendored file is written, broken or removed.
Refresh(f, doc) ==
    /\ refreshes < MaxRefreshes /\ doc # tree.docs[f]
    /\ tree' = [tree EXCEPT !.docs[f] = doc]
    /\ steps' = Max({steps, Worst(Compare(tree.docs[f], doc))})
    /\ returned' = (returned \/ Returns(base.docs[f], tree.docs[f], doc))
    /\ refreshes' = refreshes + 1
    /\ UNCHANGED base

\* The branch takes the suggested version.
TakeVersion ==
    /\ Satisfied(base, tree) = {FALSE}
    /\ LET version == SuggestVersion(tree.version, Impact(base, tree))
       IN  version \in Versions /\ tree' = [tree EXCEPT !.version = version]
    /\ UNCHANGED <<base, steps, returned, refreshes>>

\* Only an answered question about a sufficient bump lets a branch in.
Merge ==
    /\ Problems(base, tree) = {} /\ Satisfied(base, tree) # {FALSE} /\ tree # base
    /\ base' = tree
    /\ steps' = None /\ returned' = FALSE /\ refreshes' = 0
    /\ UNCHANGED tree

BranchNext ==
    \/ \E f \in Files, doc \in Revisions : Refresh(f, doc)
    \/ TakeVersion
    \/ Merge

BranchSpec == BranchInit /\ [][BranchNext]_branchVars

-----------------------------------------------------------------------------
(* Properties.  What an image makes of a deployment, as the gates judge it.*)

NamedBy(contract, name) == {p \in DOMAIN contract.keys : contract.keys[p].env = name}
Filed(contract, name) == {p \in DOMAIN contract.keys : contract.keys[p].file = name}

Supplied(contract, d, p) ==
    \/ contract.keys[p].env \in DOMAIN d.env
    \/ /\ ~contract.keys[p].reserved
       /\ p \in DOMAIN d.doc \/ (contract.keys[p].form = "text" /\ contract.keys[p].file \in d.files)

\* A rendered value keeps a key's tightenings.
Keeps(entry, value) ==
    /\ entry.entries \subseteq value.entries
    /\ entry.names # "any" => value.entries \subseteq Admits[entry.names]
    /\ \A place \in DOMAIN entry.tight : entry.tight[place] \in value.rules

\* The refusals of the gates, but for the value a key is given.
Unknown(contract, d) ==
    /\ contract.unknown = "reject"
    /\ \E n \in DOMAIN d.env \ (Namespace \cup DOMAIN contract.loader) :
          n \notin DOMAIN contract.external /\ ~Absorbed(contract, n)

Misspelt(contract, d) ==
    \/ \E n \in DOMAIN d.env \cap Namespace : n \notin DOMAIN contract.loader /\ NamedBy(contract, n) = {}
    \/ \E n \in d.files : Filed(contract, n) = {}
    \/ DOMAIN d.doc \ DOMAIN contract.keys # {}

\* A variable of the loader that names no layer of its role.
Mislaid(contract, d) ==
    \E n \in DOMAIN d.env \cap DOMAIN contract.loader : contract.loader[n].role # d.env[n]

Missing(contract, d) ==
    \/ \E p \in DOMAIN contract.keys : contract.keys[p].required /\ ~Supplied(contract, d, p)
    \/ \E n \in DOMAIN contract.external : contract.external[n].required /\ n \notin DOMAIN d.env

Formless(contract, d) ==
    \E n \in d.files : \E p \in Filed(contract, n) : contract.keys[p].form # "text"

Loose(contract, d) == \E p \in DOMAIN d.doc \cap DOMAIN contract.keys : ~Keeps(contract.keys[p], d.doc[p])

Refused(contract, d) ==
    \/ Unknown(contract, d) \/ Misspelt(contract, d) \/ Mislaid(contract, d)
    \/ Missing(contract, d) \/ Formless(contract, d) \/ Loose(contract, d)

\* The gaps of the table: a name only a withdrawn pattern absorbed, a new loader
\* variable where unknown names pass, a key without a file that became reserved, a
\* condition of the key itself.
Graders(old, new) ==
    /\ old.ignore \subseteq new.ignore
    /\ new.unknown = "reject" \/ DOMAIN new.loader \ DOMAIN old.loader \subseteq Namespace
    /\ \A p \in DOMAIN old.keys \cap DOMAIN new.keys :
          /\ new.keys[p].reserved => old.keys[p].reserved \/ old.keys[p].file # NoFile
          /\ DOMAIN new.keys[p].tight \ Graded(new.keys[p]) = {}

ContractPairs(from, to) ==
    {<<from.docs[f].contract, to.docs[f].contract>> :
        f \in {g \in Files : Parsed(from.docs[g]) /\ Parsed(to.docs[g])}}

Breaks(old, new, d) == ~Refused(old, d) /\ Refused(new, d)

\* "A deployment that works today stops working" is major: a branch that keeps
\* the major version, asked about in one piece and let in, breaks no deployment
\* of the revision before it but by a value it writes.
MajorMeansMajor ==
    [][/\ base' # base /\ base.version # <<>> /\ base'.version # <<>>
       /\ base'.version[1] = base.version[1]
       => \A pair \in ContractPairs(base, base') :
             Graders(pair[1], pair[2]) => \A d \in Deployments : ~Breaks(pair[1], pair[2], d)]_branchVars

\* Asking once about a whole branch finds nothing that asking at each of its
\* refreshes would have graded lower, unless a refresh took back what one before
\* it did.
StepsAddUp == ~returned => Impact(base, tree) <= steps
=============================================================================
