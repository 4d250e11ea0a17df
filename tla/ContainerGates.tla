--------------------------- MODULE ContainerGates ---------------------------
(***************************************************************************)
(* One container of a rendered chart against the contract of the image it  *)
(* runs (cli/src/gate/container.rs, classify.rs, k8s.rs): gates 2, 2b and  *)
(* 3.  The gates see the render; what it does not show (`valueFrom`, an    *)
(* object the cluster already holds, a volume another driver fills) is     *)
(* settled when the pod runs, and then the loader of the image boots on it *)
(* (rust/src/terrace.rs, layers.rs).                                       *)
(*                                                                         *)
(* A contract is a record                                                  *)
(*   [role, env, envFile, secretsFile, extends, leafFiles, withheld,       *)
(*    prefixed, external, ignored, unknown, reads, form, required, secret, *)
(*    reserved]                                                            *)
(* of what the union publishes: the first four map spellings to what they  *)
(* name, `extends` those that extend a key's own by the separator, for     *)
(* each kind of spelling.  `leafFiles` are the variables that name a file  *)
(* for a leaf, `withheld` the spellings by which a file would supply a     *)
(* reserved name; neither is published, both are the loader's.  A path is  *)
(* a sequence of directory names.                                          *)
(***************************************************************************)
EXTENDS Naturals, Sequences, SequencesExt, FiniteSets, TLC

CONSTANTS
    Contracts,      \* bound: the contracts an image may carry
    Aliases,        \* spelling -> key: what the image answers to besides, an alias
                    \* or another letter case
    Containers,     \* bound: [from, env, mounts, volumes, rendered]
    Renders,        \* bound: [document, relaxed]: the key paths of the rendered
                    \* document as [known, keys], and the gates the file is exempt from
    Runtime         \* bound: [text, path, objects, inside], what the render hides

VARIABLES
    pc,             \* "rendered" | "checked" | "booted"
    contract, container, document, relaxed,
    findings,       \* [gate, level, at]: what the gates reported
    hidden,         \* what the cluster turned out to hold
    outcome         \* why the boot failed, {} when it did not

vars == <<pc, contract, container, document, relaxed, findings, hidden, outcome>>

NotYet == [names |-> {}]

Spellings == {"env", "secrets_file"}

\* What a producer publishes of its keys (schema/mod.rs:1172, 1738, terrace.rs:240):
\* an indirection is of one key and no key's own variable, no file supplies a
\* reserved key, and one variable names the secrets directory.  A variable that
\* names a file for a leaf extends the key's own like one that sets the leaf.
WellSpelt(u) ==
    /\ "" \notin DOMAIN u.form /\ u.required \cup u.secret \subseteq DOMAIN u.form
    /\ {u.env[n] : n \in DOMAIN u.env} \subseteq DOMAIN u.form
    /\ {u.envFile[n] : n \in DOMAIN u.envFile} \subseteq DOMAIN u.form \ u.reserved
    /\ {u.secretsFile[n] : n \in DOMAIN u.secretsFile} \subseteq DOMAIN u.form \ u.reserved
    /\ \A s \in Spellings : \A n \in DOMAIN u.extends[s] :
          /\ u.extends[s][n].key \in DOMAIN u.form
          /\ u.extends[s][n].leaf \notin {"", "alias"}
          /\ n \notin u.withheld[s] /\ n \notin DOMAIN Aliases
    /\ (DOMAIN u.envFile \cup DOMAIN u.leafFiles) \cap (DOMAIN u.role \cup DOMAIN u.env) = {}
    /\ DOMAIN u.leafFiles \subseteq u.prefixed \ DOMAIN u.envFile
    /\ \A n \in DOMAIN u.leafFiles : n \in DOMAIN u.extends["env"]
                                    /\ u.leafFiles[n].key = u.extends["env"][n].key
                                    /\ u.leafFiles[n].leaf \notin {"", "alias"}
    /\ \A n, m \in DOMAIN u.envFile : u.envFile[n] = u.envFile[m] => n = m
    /\ \A n, m \in DOMAIN u.role : {u.role[n], u.role[m]} = {"secrets_dir"} => n = m
    /\ u.withheld["env"] \subseteq
          u.prefixed \ (DOMAIN u.role \cup DOMAIN u.env \cup DOMAIN u.envFile)
    /\ u.withheld["secrets_file"] \cap DOMAIN u.secretsFile = {}

\* A pod whose mounts name none of its volumes, or no path, is not admitted.
Mountable(c) ==
    \A m \in c.mounts : m.volume \in DOMAIN c.volumes \ {""} /\ m.path \in Seq(STRING) \ {<<>>}

ASSUME GatesAssumption ==
    (\A u \in Contracts : WellSpelt(u)) /\ (\A c \in Containers : Mountable(c))

-----------------------------------------------------------------------------
(* k8s.rs                                                                  *)

Empty == [text |-> "", path |-> <<>>]
Unset == [c \in {} |-> Empty]

\* Environment::set, over a map from names to [value, visible].
SetVariable(environment, name, value, visible) ==
    [n \in DOMAIN environment \cup {name} |->
        IF n = name THEN [value |-> IF visible THEN value ELSE Empty, visible |-> visible]
        ELSE environment[n]]

\* env_from_entries: every key of the object, a Secret's without its value.
FromSource(environment, source) ==
    LET step(acc, name) ==
            SetVariable(acc, name, source.data[name], source.kind = "ConfigMap")
    IN  FoldLeft(step, environment, SetToSeq(DOMAIN source.data))

\* environment_of: later sources override earlier ones, `env` all of them.
EnvironmentOf(c) ==
    LET from(acc, source) == IF source.rendered THEN FromSource(acc, source) ELSE acc
        own(acc, entry) == SetVariable(acc, entry.name, entry.value, ~entry.valueFrom)
    IN  FoldLeft(own, FoldLeft(from, Unset, c.from), c.env)

Unresolved(c) == {s.object : s \in {t \in Range(c.from) : ~t.rendered}}

InsideAMount(c, path) == \E m \in c.mounts : IsPrefix(m.path, path)

VolumeAt(c, path) == {m.volume : m \in {n \in c.mounts : n.path = path}}

\* projected_file_names: `items` name the files, else every key of the object.
FilesOf(source, objects) ==
    IF source.items # {} THEN source.items
    ELSE IF source.object \in DOMAIN objects THEN objects[source.object] ELSE {}

ProjectedFileNames(c, volume) ==
    IF volume \in DOMAIN c.volumes
    THEN UNION {FilesOf(s, c.rendered) : s \in c.volumes[volume].sources} ELSE {}

\* unlisted_sources: what the volume presents and the render cannot name.
UnlistedSources(c, volume) ==
    CASE volume \notin DOMAIN c.volumes -> {}
      [] ~c.volumes[volume].listable -> {volume}
      [] OTHER -> {s.object : s \in {t \in c.volumes[volume].sources :
                                        t.items = {} /\ t.object \notin DOMAIN c.rendered}}

-----------------------------------------------------------------------------
(* classify.rs: first match wins, and the order is normative.              *)

Classify(u, name) ==
    IF name \in DOMAIN u.role    THEN "Loader" ELSE
    IF name \in DOMAIN u.env     THEN "KeyEnv" ELSE
    IF name \in DOMAIN u.envFile THEN "KeyEnvFile" ELSE
    IF name \in u.prefixed       THEN "Prefixed" ELSE
    IF name \in u.external       THEN "External" ELSE
    IF name \in u.ignored        THEN "Ignored" ELSE "Unknown"

\* Union::container_of: the structured key whose spelling the name extends.
ContainerOf(u, spelling, name) ==
    {k \in {u.extends[spelling][n].key : n \in {name} \cap DOMAIN u.extends[spelling]} :
        u.form[k] = "structured"}

FileSupplyable(u, k) == u.form[k] = "text"

-----------------------------------------------------------------------------
(* container.rs                                                            *)

Names(e) == DOMAIN e
Kind(e, u, kind) == {n \in Names(e) : Classify(u, n) = kind}

SecretsDirVariable(e, u) == {n \in Kind(e, u, "Loader") : u.role[n] = "secrets_dir"}

\* ContainerView::secrets_dir: the path, when the render shows it.
SecretsDir(e, u) == {e[n].value.path : n \in {v \in SecretsDirVariable(e, u) : e[v].visible}}

\* ContainerView::indirect
Indirect(e, u) ==
    {e[n].value.path : n \in {v \in Kind(e, u, "KeyEnvFile") :
                                e[v].visible /\ e[v].value # Empty}}

Finding(gate, level, places) == {[gate |-> gate, level |-> level, at |-> p] : p \in places}

\* check_value: form, then range, which an unmeasured loader does not reach.
ValueRefused(u, value) ==
    value.text = "malformed" \/ (value.text = "out_of_range" /\ u.reads)

\* Gate 2, as to what the variables say.
EnvironmentGate(e, u) ==
    LET checked == {n \in Kind(e, u, "KeyEnv") \cup Kind(e, u, "External") : e[n].visible}
        unknown == Kind(e, u, "Unknown")
    IN  Finding("value", "error", {n \in checked : ValueRefused(u, e[n].value)})
        \cup Finding("no_key", "error",
                     {n \in Kind(e, u, "Prefixed") : ContainerOf(u, "env", n) = {}})
        \cup CASE u.unknown = "reject" -> Finding("unknown", "error", unknown)
               [] u.unknown = "warn"   -> Finding("unknown", "warning", unknown)
               [] OTHER                -> {}

LoaderPaths(c, e, u) ==
    Finding("unmounted", "error",
        {n \in Kind(e, u, "Loader") : /\ u.role[n] \in {"config", "secrets_dir"}
                                      /\ e[n].visible /\ e[n].value # Empty
                                      /\ ~InsideAMount(c, e[n].value.path)})

Indirection(c, e, u) ==
    LET variables == Kind(e, u, "KeyEnvFile")
    IN  Finding("file_typed", "error",
                {n \in variables : ~FileSupplyable(u, u.envFile[n])})
        \cup Finding("unmounted", "error",
                {n \in variables : /\ e[n].visible /\ e[n].value # Empty
                                   /\ ~InsideAMount(c, e[n].value.path)})

IsSecretsDir(m, e, u) == m.path \in SecretsDir(e, u)

\* The files at the secrets directory, and those anywhere else.
SecretFiles(c, e, u) ==
    UNION {ProjectedFileNames(c, m.volume) : m \in {n \in c.mounts : IsSecretsDir(n, e, u)}}

StrayFiles(c, e, u) ==
    UNION {{[path |-> Append(m.path, f), name |-> f] : f \in ProjectedFileNames(c, m.volume)} :
              m \in {n \in c.mounts : ~IsSecretsDir(n, e, u)}}

\* Where the directory's own name is hidden, no mount can be told not to be it.
DirectoryHidden(e, u) == SecretsDirVariable(e, u) # {} /\ SecretsDir(e, u) = {}

Mounts(c, e, u) ==
    LET named == {f \in SecretFiles(c, e, u) : f \in DOMAIN u.secretsFile}
        unnamed == SecretFiles(c, e, u) \ named
        unread == {s \in StrayFiles(c, e, u) : /\ s.name \in DOMAIN u.secretsFile
                                               /\ s.path \notin Indirect(e, u)
                                               /\ ~DirectoryHidden(e, u)}
    IN  Finding("no_key_file", "error", {f \in unnamed : ContainerOf(u, "secrets_file", f) = {}})
        \cup Finding("file_typed", "error",
                     {f \in named : ~FileSupplyable(u, u.secretsFile[f])})
        \cup Finding("unread", "error", {s.name : s \in unread})
        \cup Finding("unlistable", "warning",
                     {n \in SecretsDirVariable(e, u) :
                         \E p \in SecretsDir(e, u) : VolumeAt(c, p) = {} /\ InsideAMount(c, p)})

\* Suppliers: which layers supply a key, as gates 2 and 3 find them.
Layer(name, variable) == [layer |-> name, variable |-> variable]
EnvironmentLayer == Layer("env", "")
SecretsLayer == Layer("secrets", "")

Suppliers(c, e, u, exempt, k) ==
    {EnvironmentLayer : n \in {v \in Kind(e, u, "KeyEnv") : u.env[v] = k}}
    \cup {EnvironmentLayer : n \in {v \in Kind(e, u, "Prefixed") :
                            "env" \notin exempt /\ k \in ContainerOf(u, "env", v)}}
    \cup {Layer("file", n) : n \in {v \in Kind(e, u, "KeyEnvFile") : u.envFile[v] = k}}
    \cup {SecretsLayer : f \in {g \in SecretFiles(c, e, u) :
                            /\ "files" \notin exempt
                            /\ IF g \in DOMAIN u.secretsFile THEN u.secretsFile[g] = k
                               ELSE k \in ContainerOf(u, "secrets_file", g)}}

\* Mutant: two suppliers are one too few to tell.
CollisionOfThree(c, e, u, exempt) ==
    Finding("collision", "error",
            {k \in DOMAIN u.form : Cardinality(Suppliers(c, e, u, exempt, k)) > 2})

CollisionGate(c, e, u, exempt) ==
    Finding("collision", "error",
            {k \in DOMAIN u.form : \E a, b \in Suppliers(c, e, u, exempt, k) : a # b})

\* unseen_sources: what could hand the container a key the render does not show.
UnseenFiles(c, e, u) ==
    IF SecretsDir(e, u) = {} THEN SecretsDirVariable(e, u)
    ELSE UNION {IF VolumeAt(c, p) # {}
                THEN UNION {UnlistedSources(c, v) : v \in VolumeAt(c, p)}
                ELSE IF InsideAMount(c, p) THEN {"inside"} ELSE {} : p \in SecretsDir(e, u)}

FilesCount(u, k) == k \notin u.reserved /\ FileSupplyable(u, k)

\* Mutant: what the render does not show supplies nothing.
CouldSupplyNothing(c, e, u, k) == {}

CouldSupply(c, e, u, k) ==
    Unresolved(c) \cup (IF FilesCount(u, k) THEN UnseenFiles(c, e, u) ELSE {})

\* Gate 2b.  A document that could not be read leaves its keys undecided.
RequiredGate(c, e, u, doc, exempt) ==
    LET supplied(k) == \E layer \in Suppliers(c, e, u, exempt, k) :
                           FilesCount(u, k) \/ layer = EnvironmentLayer
        inDocument(k) == /\ k \notin u.secret \cup u.reserved
                         /\ doc.known => k \in doc.keys
        missing == {k \in u.required : ~supplied(k) /\ ~inDocument(k)}
    IN  Finding("required", "error", {k \in missing : CouldSupply(c, e, u, k) = {}})
        \cup Finding("required", "warning", {k \in missing : CouldSupply(c, e, u, k) # {}})

\* check_container, with the gates each exemption drops.
CheckContainer(c, u, doc, exempt) ==
    LET e == EnvironmentOf(c)
    IN  (IF "env" \in exempt THEN {}
         ELSE EnvironmentGate(e, u) \cup CollisionGate(c, e, u, exempt))
        \cup (IF "files" \in exempt THEN {}
              ELSE LoaderPaths(c, e, u) \cup Indirection(c, e, u) \cup Mounts(c, e, u))
        \cup (IF exempt \cap {"env", "files", "required"} # {} THEN {} ELSE RequiredGate(c, e, u, doc, exempt))

-----------------------------------------------------------------------------
(* The pod: what the render hid is settled, and the image's loader boots.  *)

Value(entry, h) == IF entry.visible THEN entry.value ELSE [text |-> h.text, path |-> h.path]

\* The environment of the process, an unrendered `envFrom` source included.
ProcessEnv(c, h) ==
    LET e == EnvironmentOf(c)
        given == IF Unresolved(c) = {} THEN {} ELSE h.names \ DOMAIN e
    IN  [n \in DOMAIN e \cup given |->
            IF n \in given THEN [text |-> h.text, path |-> h.path] ELSE Value(e[n], h)]

\* What each object holds: a rendered one what the render says.
Objects(c, h) ==
    [o \in DOMAIN c.rendered \cup DOMAIN h.objects |->
        IF o \in DOMAIN c.rendered THEN c.rendered[o] ELSE h.objects[o]]

\* The files a directory presents: those of the volume mounted there, or what
\* lies there inside one.
FilesIn(c, h, path) ==
    (UNION {(UNION {FilesOf(s, Objects(c, h)) : s \in c.volumes[v].sources})
            \cup (IF c.volumes[v].listable THEN {} ELSE h.inside) : v \in VolumeAt(c, path)})
    \cup (IF VolumeAt(c, path) = {} /\ InsideAMount(c, path) THEN h.inside ELSE {})

DirectoryExists(c, path) == InsideAMount(c, path)

FileExists(c, h, path) ==
    /\ InsideAMount(c, path)
    /\ path[Len(path)] \in FilesIn(c, h, SubSeq(path, 1, Len(path) - 1))

\* What the loader takes a spelling for: a key, an alias of one or a leaf below.
Target(u, keys, spelling, name) ==
    IF name \in DOMAIN keys THEN [key |-> keys[name], leaf |-> ""] ELSE
    IF name \in DOMAIN Aliases THEN [key |-> Aliases[name], leaf |-> "alias"] ELSE
    IF name \in DOMAIN u.extends[spelling] THEN u.extends[spelling][name]
    ELSE [key |-> "", leaf |-> name]

EnvTarget(u, n) == Target(u, u.env, "env", n)
SecretTarget(u, f) == Target(u, u.secretsFile, "secrets_file", f)
FileTarget(u, n) ==
    IF n \in DOMAIN u.envFile THEN [key |-> u.envFile[n], leaf |-> ""] ELSE u.leafFiles[n]

\* A leaf below a key that is no map: the key itself is not supplied.
Misshapen(u, target) ==
    /\ target.key \in DOMAIN u.form /\ target.leaf \notin {"", "alias"}
    /\ u.form[target.key] # "structured"

\* A spelling that reaches nothing the image reads.
Idle(u, target) == target.key = "" \/ Misshapen(u, target)

Configured(u, env) ==
    {n \in DOMAIN env \cap DOMAIN u.role : u.role[n] = "secrets_dir" /\ env[n] # Empty}

SecretsPresented(c, u, h, env) ==
    UNION {FilesIn(c, h, env[n].path) : n \in Configured(u, env)}

FileVariables(u, env) == DOMAIN env \cap (DOMAIN u.envFile \cup DOMAIN u.leafFiles)

\* Terrace::environment withholds what the loader reads itself and the indirections.
PlainVariables(u, env) ==
    (DOMAIN env \cap (DOMAIN u.env \cup u.prefixed)) \ (DOMAIN u.role \cup FileVariables(u, env))

EnvTargets(u, env) == {EnvTarget(u, n) : n \in PlainVariables(u, env)}
SecretTargets(c, u, h, env) == {SecretTarget(u, f) : f \in SecretsPresented(c, u, h, env)}
FileTargets(u, env) == {FileTarget(u, n) : n \in FileVariables(u, env)}

\* The keys some layer supplies: a document's are taken whatever they are.
KeysSupplied(c, u, doc, h) ==
    LET env == ProcessEnv(c, h)
        targets == EnvTargets(u, env) \cup SecretTargets(c, u, h, env) \cup FileTargets(u, env)
    IN  {t.key : t \in {x \in targets : ~Misshapen(u, x)}} \cup doc.keys

\* Why a boot fails: collect_layers, reject_shadowed_keys, then the extraction.
Refusals(c, u, doc, h) ==
    LET env == ProcessEnv(c, h)
        plain == EnvTargets(u, env)
        secrets == SecretTargets(c, u, h, env)
        files == FileTargets(u, env)
        supplied == plain \cup secrets \cup files
        reason(name, holds) == IF holds THEN {name} ELSE {}
    IN  reason("directory", \E n \in Configured(u, env) : ~DirectoryExists(c, env[n].path))
        \cup reason("file", \E n \in FileVariables(u, env) : ~FileExists(c, h, env[n].path))
        \cup reason("reserved",
                \/ DOMAIN env \cap u.withheld["env"] # {}
                \/ SecretsPresented(c, u, h, env) \cap u.withheld["secrets_file"] # {})
        \cup reason("shadowed", \/ plain \cap (secrets \cup files) # {}
                                \/ secrets \cap files # {})
        \cup reason("duplicate", \E t \in supplied :
                        /\ t.leaf = "alias"
                        /\ \/ [key |-> t.key, leaf |-> ""] \in supplied
                           \/ t.key \in doc.keys /\ t \notin plain)
        \cup reason("shape", \E t \in supplied :
                        Misshapen(u, t) /\ [key |-> t.key, leaf |-> ""] \notin supplied)
        \cup reason("string", \E t \in secrets \cup files :
                        /\ t.key \in DOMAIN u.form /\ t.leaf \in {"", "alias"}
                        /\ ~FileSupplyable(u, t.key))
        \cup reason("value", \E n \in PlainVariables(u, env) \cap DOMAIN u.env :
                        env[n].text \in {"malformed", "out_of_range"})
        \cup reason("missing", u.required \ KeysSupplied(c, u, doc, h) # {})

\* What the boot passes over in silence: a variable or a file nothing reads, a
\* configuration that is not there.
PassedOver(c, u, h) ==
    LET env == ProcessEnv(c, h)
        targets == {env[n].path : n \in FileVariables(u, env)}
        dirs == {env[n].path : n \in Configured(u, env)}
    IN  {n \in PlainVariables(u, env) \ DOMAIN u.env : Idle(u, EnvTarget(u, n))}
        \cup {f \in SecretsPresented(c, u, h, env) : Idle(u, SecretTarget(u, f))}
        \cup {m.volume : m \in {x \in c.mounts :
                 \E f \in FilesIn(c, h, x.path) :
                     /\ f \in DOMAIN u.secretsFile
                     /\ x.path \notin dirs /\ Append(x.path, f) \notin targets}}
        \cup {n \in DOMAIN env \cap DOMAIN u.role :
                 /\ u.role[n] = "config" /\ env[n] # Empty
                 /\ ~InsideAMount(c, env[n].path)}

-----------------------------------------------------------------------------
Init ==
    /\ contract \in Contracts
    /\ container \in Containers
    /\ \E render \in Renders : document = render.document /\ relaxed = render.relaxed
    /\ pc = "rendered" /\ findings = {} /\ hidden = NotYet /\ outcome = {}

Check ==
    /\ pc = "rendered" /\ pc' = "checked"
    /\ findings' = CheckContainer(container, contract, document, relaxed)
    /\ UNCHANGED <<contract, container, document, relaxed, hidden, outcome>>

Boot(h) ==
    /\ pc = "checked" /\ pc' = "booted"
    /\ hidden' = h
    /\ outcome' = Refusals(container, contract, document, h)
    /\ UNCHANGED <<contract, container, document, relaxed, findings>>

Next == Check \/ \E h \in Runtime : Boot(h)

Spec == Init /\ [][Next]_vars

-----------------------------------------------------------------------------
(* Properties.                                                             *)

Booted == pc = "booted"

\* Every spelling is a key's own and a reserved key has no other, no map is filled
\* at two of its places and no leaf of one by a file's name: what the gates and
\* the loader both speak of.
Canonical(c, u) ==
    LET e == EnvironmentOf(c)
        files == UNION {ProjectedFileNames(c, m.volume) : m \in c.mounts}
        spelt == {EnvTarget(u, n) : n \in DOMAIN e \ DOMAIN u.envFile}
                 \cup {FileTarget(u, n) : n \in DOMAIN e \cap DOMAIN u.envFile}
                 \cup {SecretTarget(u, f) : f \in files}
    IN  /\ (DOMAIN e \cup files) \cap DOMAIN Aliases = {}
        /\ \A x \in DOMAIN Aliases : Aliases[x] \notin u.reserved
        /\ DOMAIN e \cap DOMAIN u.leafFiles = {}
        /\ \A t, v \in spelt : t.key = v.key /\ t.key # "" => t = v

\* Every `_FILE` variable and its value are in the render.
IndirectionShown(c, u) ==
    LET e == EnvironmentOf(c)
    IN  /\ Unresolved(c) = {}
        /\ \A n \in Kind(e, u, "KeyEnvFile") : e[n].visible

\* The errors that accuse the container of something the loader minds: not those
\* the policy on unknown variables makes, nor of a variable only others read,
\* nor of a required map, whose leaves in files gate 2b does not count, or of a
\* key the document holds and gate 2b wants from elsewhere, nor of a file that
\* a variable the render hides may name.
Accuses(c, u, doc, f) ==
    /\ f.level = "error" /\ f.gate # "unknown"
    /\ f.gate = "value" => f.at \in DOMAIN u.env
    /\ f.gate = "required" => u.form[f.at] # "structured" /\ f.at \notin doc.keys
    /\ f.gate = "unread" => IndirectionShown(c, u)

Accused == \E f \in findings : Accuses(container, contract, document, f)

Harmless == outcome = {} /\ PassedOver(container, contract, hidden) = {}

\* The gates accuse nothing that works: an error is a boot that fails or a
\* setting that reaches nothing, on every cluster the render may be applied to.
ErrorsAreReal == Booted /\ Canonical(container, contract) /\ Accused => ~Harmless

\* The render showed everything the loader will read.
FullyShown(c, u, h) ==
    LET e == EnvironmentOf(c)
    IN  /\ \A n \in DOMAIN e : e[n].visible
        /\ Unresolved(c) = {}
        /\ \A v \in DOMAIN c.volumes : UnlistedSources(c, v) = {}
        /\ \A n \in Kind(e, u, "KeyEnvFile") : FileExists(c, h, e[n].value.path)

\* A container without a finding, no gate exempt, boots: no key supplied twice,
\* none missing, none given text its type refuses, no directory that is not
\* there.  Not so one that names a file for the leaf of a map, which gate 2
\* takes for a leaf of the variable's own.
SilenceBoots ==
    (Booted /\ findings = {} /\ relaxed = {} /\ document.known
        /\ DOMAIN EnvironmentOf(container) \cap DOMAIN contract.leafFiles = {}
        /\ contract.reads /\ FullyShown(container, contract, hidden))
    => outcome = {}
=============================================================================
