------------------------------ MODULE Rollout ------------------------------
(***************************************************************************)
(* A chart from its generated restart sets (cli/src/helm/restarts.rs) and  *)
(* the rollout gate (cli/src/helm/rollout.rs) to the pods it runs: every   *)
(* change an operator makes either rolls the pods, because the digest the  *)
(* chart annotates them with moved, or is applied by a rebuild in place.   *)
(*                                                                         *)
(* One document, one Secret, one workload.  Helm, the kubelet and the      *)
(* running images are the environment; an image applies in place exactly   *)
(* the keys its producer meant (`applies`), whatever the consumer makes of *)
(* the contract it published.                                              *)
(*                                                                         *)
(* What a producer publishes (rust/src/schema/reload.rs, with_reload) and  *)
(* what a consumer makes of it (cli/src/reload.rs) is a contract           *)
(*   [mode, layers, class]   schema.reload and every key's `reload`,       *)
(* with "undeclared" for an absent `schema.reload` or `reload`.            *)
(***************************************************************************)
EXTENDS Naturals, Sequences, SequencesExt, FiniteSets

CONSTANTS
    Keys,           \* the paths of the described keys
    Reserved,       \* keys the loader reads before its layers exist
    Containers,     \* the containers of the workload that read the document
    Workloads,      \* bound: [kind, init], init the containers run once per pod
    Images,         \* bound: [contract, applies] of the images on offer
    Spelling,       \* per key, the path or alias the chart writes it under
    Aliases,        \* per key, its other paths and its other file names
    Deliveries,     \* bound: how the chart delivers each key
    Mounts,         \* bound: subsets of {"document", "secrets_dir"} frozen (subPath)
    Overrides,      \* bound: what the declaration's `restart:` may name
    MaxChanges      \* bound: changes an operator makes

ASSUME ReservedAssumption == Reserved \subseteq Keys

Modes == {"undeclared", "none", "rebuild", "other"}
Classes == {"undeclared", "live", "restart", "other"}
Layers == {"document", "secrets_dir", "env_file", "other"}
Channels == {"document", "secrets_dir", "env_file", "env"}

ContractType ==
    [mode : Modes, layers : SUBSET Layers, class : [Keys -> Classes]]

-----------------------------------------------------------------------------
(* The producer.  The derive opens one scope per `#[config(reload)]` on    *)
(* the way to a key; what it resolves to cannot depend on their order.     *)

Closed == [live |-> 0, restart |-> 0]

Open(class, scopes) ==
    IF class = "live" THEN [scopes EXCEPT !.live = @ + 1]
    ELSE [scopes EXCEPT !.restart = @ + 1]

Resolve(scopes) ==
    IF scopes.restart > 0 THEN "restart"
    ELSE IF scopes.live > 0 THEN "live" ELSE "undeclared"

\* Mutant: the scope opened last decides.
ClassOnInnermost(path) == IF path = <<>> THEN "undeclared" ELSE path[Len(path)]

\* The class a key recorded under the scopes of `path` takes.
ClassOn(path) ==
    LET step(scopes, class) == Open(class, scopes)
    IN  Resolve(FoldLeft(step, Closed, path))

Rebuilds(contract) == contract.mode = "rebuild" /\ contract.layers # {}

\* Schema::with_reload: a key is live only where the binary rebuilds.  A binary
\* that declares nothing publishes the scopes as they are.
Publish(mode, layers, paths) ==
    LET live(k) == /\ Rebuilds([mode |-> mode, layers |-> layers])
                   /\ k \notin Reserved
                   /\ ClassOn(paths[k]) = "live"
    IN  [mode   |-> mode,
         layers |-> layers,
         class  |-> [k \in Keys |-> IF mode = "undeclared" THEN ClassOn(paths[k])
                                    ELSE IF live(k) THEN "live" ELSE "restart"]]

-----------------------------------------------------------------------------
(* What the code behind the scopes does: a key is applied in place when    *)
(* everything on its path is, in a binary that rebuilds.                   *)

AppliedInPlace(mode, layers, paths) ==
    {k \in Keys \ Reserved : /\ Rebuilds([mode |-> mode, layers |-> layers])
                             /\ Range(paths[k]) = {"live"}}

-----------------------------------------------------------------------------
(* The consumer: FORMAT.md's ordered list, every unknown a restart.        *)

\* image_class: the first reason that makes the key a restart, or "ok".
ImageClass(contract, k) ==
    CASE contract.mode = "undeclared"     -> "Undeclared"
      [] contract.mode = "none"           -> "NoRebuild"
      [] contract.mode = "other"          -> "UnknownMode"
      [] contract.class[k] = "restart"    -> "KeyRestart"
      [] contract.class[k] = "other"      -> "UnknownClass"
      [] contract.class[k] = "undeclared" -> "KeyUndeclared"
      [] OTHER                            -> "ok"

Classify(contract, k, channel, init) ==
    IF channel = "env" THEN "not_applicable"
    ELSE IF init \/ ImageClass(contract, k) # "ok" \/ channel \notin contract.layers
         THEN "restart"
    ELSE "live"

-----------------------------------------------------------------------------
(* The chart and its pods.                                                 *)

ASSUME RolloutAssumption ==
    /\ \A w \in Workloads : w.init \subseteq Containers
    /\ \A i \in Images : i.contract \in ContractType /\ i.applies \subseteq Keys
    /\ \A k \in Keys : Spelling[k] \in {k} \cup Aliases[k]
    /\ \A d \in Deliveries :
          /\ d \in [Keys -> Channels \ {"env_file"}]    \* restarts.rs:45
          /\ \A k \in Reserved : d[k] = "env"
    /\ MaxChanges \in Nat

VARIABLES
    kind,           \* the workload's kind
    image,          \* the image each container runs
    init,           \* the containers that are init containers
    delivery,       \* the channel of each key
    frozen,         \* the channels mounted with subPath
    restarts,       \* the declaration's `restart:` overrides
    annotation,     \* what the pod template's checksum/ annotation hashes
    tpl,            \* templates/_config-reload.tpl: NoFile or a restart set
    phase,          \* "authored" | "gated" | "deployed"
    deployed,       \* history: per key, the value the cluster's objects hold
    digest,         \* what the running pod's template hashed to
    mounted,        \* the values the pod's volumes present
    loaded,         \* per container, the values its process last read
    running,        \* per container, the values its process runs with
    changes         \* bound

chart == <<kind, image, init, delivery, frozen, restarts, annotation>>
pod == <<digest, mounted, loaded, running>>
vars == <<chart, tpl, phase, deployed, pod, changes>>

NoFile == [exists |-> FALSE]

\* Every image the document declares.
Contracts == {image[c].contract : c \in Containers}

-----------------------------------------------------------------------------
(* The generator.  The names are those a chart may write the key under.    *)

\* Mutant: only the key's own path is listed.
OwnSpelling(k) == {k}

Spellings(k) == {k} \cup Aliases[k]

Stale == {k \in restarts : k \notin Keys}

Watches(layer) == \A c \in Contracts : Rebuilds(c) /\ layer \in c.layers

RestartKeys ==
    {k \in Keys \ Reserved : \/ k \in restarts
                             \/ \E c \in Contracts : ImageClass(c, k) # "ok"}

RestartSet ==
    LET listed == UNION {Spellings(k) : k \in RestartKeys}
        all(layer) == ~Watches(layer)
    IN  [exists       |-> TRUE,
         document_all |-> all("document"),
         paths        |-> IF all("document") THEN {} ELSE listed,
         secrets_all  |-> all("secrets_dir"),
         files        |-> IF all("secrets_dir") THEN {} ELSE listed]

AnyRebuilds == \E c \in Contracts : Rebuilds(c)

\* A chart none of whose images rebuilds and which carries no file is skipped.
Skipped == Stale = {} /\ ~AnyRebuilds /\ ~tpl.exists

\* `terrace-contract reload`: walk and one_chart without --check.
Generate ==
    /\ phase = "authored"
    /\ Stale = {}
    /\ ~Skipped
    /\ tpl # RestartSet
    /\ tpl' = RestartSet
    /\ UNCHANGED <<chart, phase, deployed, pod, changes>>

\* `terrace-contract reload --check` finds nothing to say.
Current == Skipped \/ (Stale = {} /\ tpl = RestartSet)

-----------------------------------------------------------------------------
(* The rollout gate.                                                       *)

LongRunning == {"Deployment", "StatefulSet", "DaemonSet"}

HasRestartContent(contract) ==
    \E k \in Keys \ Reserved :
        \/ k \in restarts
        \/ \E channel \in {"document", "secrets_dir"} :
              Classify(contract, k, channel, FALSE) = "restart"

NeedsDigest ==
    \E c \in Containers : c \in init \/ HasRestartContent(image[c].contract)

\* Mutant: only the document's mount is looked at.
FrozenDocumentOnly(c, channel) ==
    /\ channel \in frozen \cap {"document"}
    /\ \E k \in Keys : Classify(image[c].contract, k, channel, FALSE) = "live"

\* A live key behind a mount the kubelet never updates.
FrozenMount(c, channel) ==
    /\ channel \in frozen
    /\ \E k \in Keys :
          /\ channel = "secrets_dir" => delivery[k] = "secrets_dir"
          /\ Classify(image[c].contract, k, channel, FALSE) = "live"

\* The gate answers for long-running workloads some image of which rebuilds.
Answered == AnyRebuilds /\ kind \in LongRunning

\* check_workload: its errors, and its one warning.
Frozen ==
    /\ Answered
    /\ \E c \in Containers \ init, channel \in {"document", "secrets_dir"} :
          FrozenMount(c, channel)

Unhashed == Answered /\ NeedsDigest /\ annotation = "none"

WarnedOfInit == Answered /\ \E c \in init : Rebuilds(image[c].contract)

\* The chart's pipeline: only a chart with no error goes out.
Gate ==
    /\ phase = "authored"
    /\ Current
    /\ ~Frozen
    /\ ~Unhashed
    /\ annotation = "restart_set" => tpl.exists   \* the template would not render
    /\ phase' = "gated"
    /\ UNCHANGED <<chart, tpl, deployed, pod, changes>>

-----------------------------------------------------------------------------
(* Helm and the cluster.                                                   *)

Hashed(k) ==
    \/ delivery[k] = "env"              \* part of the pod template itself
    \/ /\ annotation = "full"
       /\ delivery[k] \in {"document", "secrets_dir"}
    \/ /\ annotation = "restart_set"
       /\ \/ delivery[k] = "document" /\ (tpl.document_all \/ Spelling[k] \in tpl.paths)
          \/ delivery[k] = "secrets_dir" /\ (tpl.secrets_all \/ Spelling[k] \in tpl.files)

\* What the pod template hashes to: the values of the keys it covers.
Digest == [k \in {k \in Keys : Hashed(k)} |-> deployed[k]]

\* A pod that starts reads what the cluster holds.
StartPod ==
    /\ digest' = Digest
    /\ mounted' = deployed
    /\ loaded' = [c \in Containers |-> deployed]
    /\ running' = [c \in Containers |-> deployed]

Install ==
    /\ phase = "gated"
    /\ phase' = "deployed"
    /\ StartPod
    /\ UNCHANGED <<chart, tpl, deployed, changes>>

\* helm upgrade with one value changed.
Upgrade(k) ==
    /\ phase = "deployed"
    /\ changes < MaxChanges
    /\ changes' = changes + 1
    /\ deployed' = [deployed EXCEPT ![k] = 1 - @]
    /\ UNCHANGED <<chart, tpl, phase, pod>>

Rolls == digest # Digest

Roll ==
    /\ phase = "deployed"
    /\ Rolls \/ kind \notin LongRunning   \* a Job starts a fresh pod per run
    /\ StartPod
    /\ UNCHANGED <<chart, tpl, phase, deployed, changes>>

\* The kubelet refreshes the mounts it refreshes at all.
Fresh == [k \in Keys |-> IF delivery[k] \in Layers \ frozen THEN deployed[k] ELSE mounted[k]]

KubeletSync ==
    /\ phase = "deployed"
    /\ mounted # Fresh
    /\ mounted' = Fresh
    /\ UNCHANGED <<chart, tpl, phase, deployed, digest, loaded, running, changes>>

\* A process whose watched layer changed reloads: it re-reads everything and
\* applies what it can.
Wakes(c) ==
    \E k \in Keys : /\ delivery[k] \in image[c].contract.layers
                    /\ mounted[k] # loaded[c][k]

Rebuild(c) ==
    /\ phase = "deployed"
    /\ c \notin init
    /\ Rebuilds(image[c].contract)
    /\ Wakes(c)
    /\ loaded' = [loaded EXCEPT ![c] = mounted]
    /\ running' = [running EXCEPT ![c] =
                     [k \in Keys |-> IF k \in image[c].applies THEN mounted[k] ELSE @[k]]]
    /\ UNCHANGED <<chart, tpl, phase, deployed, digest, mounted, changes>>

-----------------------------------------------------------------------------
Init ==
    /\ \E w \in Workloads : kind = w.kind /\ init = w.init
    /\ image \in [Containers -> Images]
    /\ delivery \in Deliveries
    /\ frozen \in Mounts
    /\ restarts \in Overrides
    /\ annotation \in {"none", "restart_set", "full"}
    /\ tpl \in {NoFile, [exists |-> TRUE, document_all |-> FALSE, paths |-> {},
                         secrets_all |-> FALSE, files |-> {}]}
    /\ phase = "authored"
    /\ deployed = [k \in Keys |-> 0]
    /\ digest = <<>>
    /\ mounted = deployed
    /\ loaded = [c \in Containers |-> deployed]
    /\ running = loaded
    /\ changes = 0

Next ==
    \/ Generate \/ Gate \/ Install
    \/ \E k \in Keys : Upgrade(k)
    \/ Roll \/ KubeletSync
    \/ \E c \in Containers : Rebuild(c)

Fairness ==
    /\ WF_vars(Roll)
    /\ WF_vars(KubeletSync)
    /\ \A c \in Containers : WF_vars(Rebuild(c))

Spec == Init /\ [][Next]_vars
LiveSpec == Spec /\ Fairness

-----------------------------------------------------------------------------

\* Per container and key: the process runs the deployed value, or the pod is
\* about to roll, or the kubelet and a rebuild will bring it.
Applied(c, k) == running[c][k] = deployed[k]

Coming(c, k) ==
    /\ k \in image[c].applies
    /\ c \notin init
    /\ Rebuilds(image[c].contract)
    /\ delivery[k] \in image[c].contract.layers \ frozen
    /\ loaded[c][k] = running[c][k]

\* A warned chart has to hash the whole document.
Heeded == WarnedOfInit => annotation = "full"

\* A chart that passes its gates never strands a change: a value that differs
\* from the one a process runs with rolls the pods or is on its way in place
\* (the two rules of rollout.rs, over the sets restarts.rs writes).
NothingIsStranded ==
    phase = "deployed" /\ Answered /\ Heeded =>
        \A c \in Containers, k \in Keys : Applied(c, k) \/ Rolls \/ Coming(c, k)

\* What a contract promises, whatever the order of the scopes it came from: what
\* a consumer reads as live is applied in place, and an image that applies
\* anything watches every file layer (ReloadSupport::rebuild).
HonestImages ==
    \A i \in Images :
        /\ \A k \in Keys, channel \in {"document", "secrets_dir"} :
              Classify(i.contract, k, channel, FALSE) = "live" => k \in i.applies
        /\ i.applies # {} => /\ Rebuilds(i.contract)
                             /\ {"document", "secrets_dir"} \subseteq i.contract.layers

\* Every change an operator makes reaches every process of a gated chart.
ChangesArrive ==
    phase = "deployed" /\ (Answered \/ kind \notin LongRunning) /\ Heeded ~>
        \A c \in Containers : running[c] = deployed
=============================================================================
