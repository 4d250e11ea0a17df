------------------------------ MODULE JavaLoad ------------------------------
(***************************************************************************)
(* The same service's loads and reports with the Java loader: TerraceLoader,*)
(* TomlLayers, FileLayers, SecretsDir, FileSuffixEnv, Dialect, LayerValues  *)
(* and Explanation of terrace-config-loader.                               *)
(*                                                                         *)
(* A process is a Rust or a Java one; the volumes under it are swapped the *)
(* same way.  A map of the Java loader keeps the order in which its keys   *)
(* first came, where a BTreeMap sorts them: it is a sequence of            *)
(* [path, value] here.                                                     *)
(***************************************************************************)
EXTENDS LayeredLoad

VARIABLE java   \* a Java process's load: [runs, pc, listed, secrets, files,
                \* dict, merged, tree, outcome, watched, report, steady]

jvars == <<vars, java>>

-----------------------------------------------------------------------------
(* Dialect.                                                                *)

\* isReserved
JReserved(name) == name.path \in {r.path : r \in process.reserved}

JPlainVars == {v \in ToSet(process.env) : ~JReserved(v) /\ ~v.file}

\* plainEnvEntries, sorted as a TreeSet sorts: upper case first.
JPlainEntries(path) ==
    LET plain == {v \in JPlainVars : v.path = path}
    IN  Listing(plain, [v \in plain |-> IF v.upper THEN 0 ELSE 1])

\* plainEnvKeys
JPlainKeys == {v.path : v \in JPlainVars}

-----------------------------------------------------------------------------
(* LayerValues.                                                            *)

Pair(path, value) == [path |-> path, value |-> value]

\* LinkedHashMap.put: a key that is there keeps its place.
Put(map, entry) ==
    IF \E i \in DOMAIN map : map[i].path = entry.path
    THEN [i \in DOMAIN map |-> IF map[i].path = entry.path THEN entry ELSE map[i]]
    ELSE Append(map, entry)

Paths(map) == {map[i].path : i \in DOMAIN map}

ValueAt(map, path) == (CHOOSE e \in ToSet(map) : e.path = path).value

Subtree(dict, path) == {q \in DOMAIN dict : IsPrefix(path, q)}

\* insertNested: whatever is on the way and is not a table becomes one.
InsertNested(dict, path, value) ==
    LET kept == {q \in DOMAIN dict \ Subtree(dict, path) :
                    ~ \E p \in Parents(path) \cap DOMAIN dict :
                        dict[p] # Table /\ IsStrictPrefix(p, q)}
    IN  Overlay(Nest(path, value), Restrict(dict, kept))

\* deepMerge: two tables are joined, anything else is replaced, with all that
\* was below it.
DeepMerge(target, source) ==
    LET joined(p) == p \in DOMAIN target /\ target[p] = Table /\ source[p] = Table
        kept == {q \in DOMAIN target :
                    \A p \in (Parents(q) \cup {q}) \cap DOMAIN source : joined(p)}
    IN  Overlay(source, Restrict(target, kept))

\* A loop over the entries of a map or of the environment, which passes over
\* some: an entry to take is <<entry>>.
PutNext(map, next) == IF next = Nothing THEN map ELSE Put(map, next[1])

InsertNext(dict, next) ==
    IF next = Nothing THEN dict ELSE InsertNested(dict, next[1].path, next[1].value)

Gathered(entries) == FoldLeft(PutNext, <<>>, entries)

Inserted(dict, entries) == FoldLeft(InsertNext, dict, entries)

Each(map) == [i \in DOMAIN map |-> <<map[i]>>]

-----------------------------------------------------------------------------
(* The layers.                                                             *)

\* TomlLayers.expand
JExpand ==
    IF mount.dir THEN Listing(DOMAIN mount.doc, [f \in DOMAIN mount.doc |-> f]) ELSE <<0>>

\* SecretsDir.read and keyFromName refuse a directory that is not there, a dotted
\* name and a reserved one, and pass over hidden entries before that.
JUsable(entry) == entry.kind # "skipped"

JSecretsRefused ==
    /\ process.secretsDir
    /\ mount.secrets # Nothing =>
         \E entry \in ToSet(mount.secrets[1]) :
             JUsable(entry) /\ (entry.kind = "dotted" \/ JReserved(entry))

SecretEntry(entry) ==
    IF JUsable(entry) THEN <<Pair(entry.path, Secret(entry))>> ELSE Nothing

JSecretsRead ==
    LET listing == mount.secrets[1]
    IN  IF process.secretsDir
        THEN Gathered([i \in DOMAIN listing |-> SecretEntry(listing[i])])
        ELSE <<>>

\* FileSuffixEnv.read refuses a reserved target and one it cannot read.
JFilesRefused ==
    \E var \in ToSet(process.env) : var.file /\ (JReserved(var) \/ var \notin mount.targets)

FileEntry(var) == IF var.file THEN <<Pair(var.path, Target(var))>> ELSE Nothing

JFilesRead == Gathered([i \in DOMAIN process.env |-> FileEntry(process.env[i])])

\* FileLayers.rejectShadowedKeys
JShadowed(secretValues, fileValues) ==
    \/ Paths(secretValues) \cap (Paths(fileValues) \cup JPlainKeys) # {}
    \/ Paths(fileValues) \cap JPlainKeys # {}

\* Mutant: no secrets, or no indirections, is no file layer.
EitherEmpty(secretValues, fileValues) == secretValues = <<>> \/ fileValues = <<>>

\* FileLayers.isEmpty
FilesEmpty(secretValues, fileValues) == secretValues = <<>> /\ fileValues = <<>>

\* FileLayers.merged: the indirections into what the secrets directory made.
JFileLayer(secretValues, fileValues) ==
    Inserted(Inserted(EmptyTable, Each(secretValues)), Each(fileValues))

\* TerraceLoader.environmentLayer
EnvEntry(var) ==
    IF ~JReserved(var) /\ ~var.file THEN <<Pair(var.path, Env(var))>> ELSE Nothing

JEnvironmentLayer ==
    Inserted(EmptyTable, [i \in DOMAIN process.env |-> EnvEntry(process.env[i])])

-----------------------------------------------------------------------------
(* TerraceLoader.loadWatched, in the steps in which it reads.              *)

Idle(runs) ==
    [runs |-> runs, pc |-> "idle", listed |-> <<>>, secrets |-> <<>>,
     files |-> <<>>, merged |-> 0, tree |-> EmptyTable, outcome |-> "none",
     watched |-> Nothing, report |-> NoReport, steady |-> TRUE]

Moved(to) == java' = to /\ UNCHANGED vars

Refuse(reason) == Moved([java EXCEPT !.pc = "done", !.outcome = reason])

\* buildLayers: the fragments are listed first.
JBegin ==
    /\ java.pc \in {"idle", "done"}
    /\ Moved([Idle(TRUE) EXCEPT !.pc = "listed", !.listed = JExpand,
                                !.watched = java.watched, !.report = java.report])

\* FileLayers.collect: the secrets directory.
JCollectSecrets ==
    /\ java.pc = "listed"
    /\ \/ JSecretsRefused /\ Refuse("source")
       \/ /\ ~JSecretsRefused
          /\ Moved([java EXCEPT !.pc = "collected", !.secrets = JSecretsRead])

\* FileLayers.collect: the indirections, and no key supplied twice.
JCollectFiles ==
    /\ java.pc = "collected"
    /\ \/ JFilesRefused /\ Refuse("source")
       \/ /\ ~JFilesRefused
          /\ IF process.policy = "reject" /\ JShadowed(java.secrets, JFilesRead)
             THEN Refuse("shadowed")
             ELSE Moved([java EXCEPT !.pc = "merging", !.files = JFilesRead])

\* TomlLayers.merged: fragment after fragment, and the first that is not TOML
\* is refused.
JMergeFragment ==
    /\ java.pc = "merging"
    /\ java.merged < Len(java.listed)
    /\ LET fragment == java.listed[java.merged + 1]
           found == IF fragment \in DOMAIN mount.doc THEN mount.doc[fragment]
                    ELSE EmptyTable
       IN  IF found = Unparseable THEN Refuse("unparseable")
           ELSE Moved([java EXCEPT !.merged = @ + 1,
                                   !.tree = DeepMerge(@, found)])

\* FileLayers.watchPaths and TomlLayers.watchDir, whose path is made absolute
\* before its parent is asked for.
JWatchPaths ==
    (IF process.secretsDir THEN {"secrets"} ELSE {})
    \cup (IF java.files # <<>> THEN {"targets"} ELSE {})
    \cup {IF mount.dir THEN "fragments" ELSE "parent"}

\* loadWatched: the environment over the files, the file layers over both.
JFinish ==
    /\ java.pc = "merging"
    /\ java.merged = Len(java.listed)
    /\ LET environment == DeepMerge(java.tree, JEnvironmentLayer)
           all == IF FilesEmpty(java.secrets, java.files) THEN environment
                  ELSE DeepMerge(environment, JFileLayer(java.secrets, java.files))
       IN  Moved([java EXCEPT !.pc = "done", !.outcome = "loaded", !.tree = all,
                              !.watched = IF @ = Nothing THEN <<JWatchPaths>> ELSE @])

-----------------------------------------------------------------------------
(* Explanation.                                                            *)

\* pushLeaves and fragmentKeys: none of a fragment that is not TOML.
JFragmentKeys(fragment) ==
    IF fragment \notin DOMAIN mount.doc \/ mount.doc[fragment] = Unparseable THEN {}
    ELSE LET table == mount.doc[fragment]
             below(q) == Subtree(table, q) \ {q}
         IN  {q \in DOMAIN table \ {<<>>} : table[q] # Table \/ below(q) = {}}

\* collectTomlFragments, collectEnvSources, collectSecretsSources and
\* collectIndirectionSources: the last is the one in effect.
JSources(secretValues, fileValues, path) ==
    LET fragments == JExpand
        having == {i \in DOMAIN fragments : path \in JFragmentKeys(fragments[i])}
        order == Listing(having, [i \in having |-> i])
        variables == JPlainEntries(path)
        at(map) == IF path \in Paths(map) THEN <<ValueAt(map, path)>> ELSE <<>>
    IN  [i \in DOMAIN order |-> Toml(fragments[order[i]])]
        \o [i \in DOMAIN variables |-> Env(variables[i])]
        \o at(secretValues) \o at(fileValues)

\* Explanation.of
JExplanation(secretValues, fileValues) ==
    [path \in (UNION {JFragmentKeys(fragment) : fragment \in ToSet(JExpand)})
              \cup JPlainKeys \cup Paths(secretValues) \cup Paths(fileValues)
        |-> JSources(secretValues, fileValues, path)]

\* explain: it collects as a load does, and is refused what a load is refused.
JExplain ==
    /\ java.report = NoReport
    /\ LET refused ==
               \/ JSecretsRefused \/ JFilesRefused
               \/ process.policy = "reject" /\ JShadowed(JSecretsRead, JFilesRead)
       IN  Moved([java EXCEPT !.report =
                     IF refused THEN Report("error", <<>>)
                     ELSE Report("made", JExplanation(JSecretsRead, JFilesRead))])

-----------------------------------------------------------------------------

JInit == Init /\ \E runs \in BOOLEAN : java = Idle(runs)

JavaNext ==
    \/ JBegin \/ JCollectSecrets \/ JCollectFiles
    \/ JMergeFragment \/ JFinish \/ JExplain
    \/ \E m \in Mounts :
         /\ Swap(m)
         /\ java' = [java EXCEPT !.steady = FALSE, !.report = NoReport]

JNext ==
    \/ ~java.runs /\ Next /\ UNCHANGED java
    \/ java.runs /\ JavaNext

JSpec == JInit /\ [][JNext]_jvars

-----------------------------------------------------------------------------
(* What the Java loader promises.                                          *)

\* What a load of the Rust loader comes to on these mounts, nothing moving.
RustOutcome ==
    IF SecretsRefused(mount) \/ FilesRefused(mount) THEN "source"
    ELSE IF process.policy = "reject" /\ Shadowed(SecretsRead(mount), FilesRead)
         THEN "shadowed"
    ELSE IF \E fragment \in ToSet(Expand(mount)) : ReadFragment(mount, fragment) = Unparseable
         THEN "unparseable"
    ELSE "loaded"

RustTree ==
    LET fragments == Expand(mount)
    IN  Merged([i \in DOMAIN fragments |-> ReadFragment(mount, fragments[i])],
               SecretsRead(mount), FilesRead)

\* The paths that no other path of the service's layers cuts through: of those
\* the order of a Java map does not matter.
ClearPaths ==
    LET paths == DOMAIN Explanation(mount)
    IN  {p \in paths : Clear(p, paths)}

\* What the Rust loader watches of these mounts.
RustWatches ==
    (IF process.secretsDir THEN {"secrets"} ELSE {})
    \cup (IF DOMAIN FilesRead # {} THEN {"targets"} ELSE {})
    \cup (IF mount.dir THEN {"fragments"} ELSE IF process.bare THEN {} ELSE {"parent"})

\* On one deployment both loaders come to the same outcome, load the same value
\* for every key no other key cuts through, and report the same layers of every
\* key; and whatever is swapped while it runs, no key the Java loader accepts
\* under REJECT has two suppliers, and what it watches is never less than what
\* the Rust loader watches of the same mounts.
LoadersAgree ==
    (java.runs /\ java.pc = "done") =>
        /\ java.steady => java.outcome = RustOutcome
        /\ (java.steady /\ java.outcome = "loaded") =>
             \A path \in ClearPaths :
                 path \in DOMAIN java.tree /\ java.tree[path] = RustTree[path]
        /\ (java.steady /\ java.report.kind = "made") =>
             java.report.origins = Explanation(mount)
        /\ (java.outcome = "loaded" /\ process.policy = "reject") =>
             /\ Paths(java.secrets) \cap Paths(java.files) = {}
             /\ EnvKeys \cap (Paths(java.secrets) \cup Paths(java.files)) = {}
        /\ (swaps = 0 /\ java.watched # Nothing) =>
             RustWatches \subseteq java.watched[1]
=============================================================================
