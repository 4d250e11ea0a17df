-------------------------- MODULE CredentialSurface --------------------------
(***************************************************************************)
(* A chart and the two commands that hold its renders to the contracts it  *)
(* vendors: `helm check` (cli/src/helm/check.rs), which opens the          *)
(* containers a declaration names and runs the gates of ContainerGates on  *)
(* them, and `secrets` (cli/src/helm/secrets.rs), which follows every      *)
(* credential and every Secret file through all of them and keeps silent   *)
(* where gate 3 has spoken.  Both read the tree and change nothing.        *)
(*                                                                         *)
(* A chart is a record                                                     *)
(*   [images, documents, mentions, renders]                                *)
(* images     label of a vendored contract -> the contract                 *)
(* documents  name -> [images, current, declared, consumers, exempt]       *)
(* mentions   the spellings the chart's own files show                     *)
(* renders    values file -> [documents, workloads], where workloads maps  *)
(*            a workload to its containers, each [image, spec, mounted]    *)
(***************************************************************************)
EXTENDS ContainerGates

CONSTANTS
    Charts          \* bound: the charts the commands are run on

\* A document binds contracts the chart vendors, and a render is of pods.
ChartOfPods(ch) ==
    /\ \A i \in DOMAIN ch.images : WellSpelt(ch.images[i])
    /\ \A d \in DOMAIN ch.documents : ch.documents[d].images \subseteq DOMAIN ch.images
    /\ \A v \in DOMAIN ch.renders : \A w \in DOMAIN ch.renders[v].workloads :
          \A n \in DOMAIN ch.renders[v].workloads[w] :
             Mountable(ch.renders[v].workloads[w][n].spec)

ASSUME SurveyAssumption == \A ch \in Charts : ChartOfPods(ch)

VARIABLES
    chart,
    surface,        \* what `secrets` reported
    report          \* what `helm check` reported

surveyVars == <<chart, surface, report>>

NoChart == [images |-> {}]

-----------------------------------------------------------------------------
(* helm/declaration.rs: what binds, and who reads which document.          *)

Current(ch) == {d \in DOMAIN ch.documents : ch.documents[d].current}

\* by_digest, chart-wide.
Pinned(ch) == UNION {ch.documents[d].images : d \in Current(ch)}

\* Every container of one render, with the workload it is part of.
ContainersOf(render) ==
    UNION {{[workload |-> w, name |-> n] : n \in DOMAIN render.workloads[w]} :
              w \in DOMAIN render.workloads}

At(render, place) == render.workloads[place.workload][place.name]

\* infer_consumers: the containers that mount what the source selects.
Inferred(d, render) ==
    LET mounting(w) == {n \in DOMAIN render.workloads[w] :
                           d \in render.workloads[w][n].mounted}
    IN  {[workload |-> w, containers |-> mounting(w)] :
            w \in {x \in DOMAIN render.workloads :
                      d \in DOMAIN render.documents /\ mounting(x) # {}}}

\* Document::consumers_in
ConsumersIn(ch, d, render) ==
    IF ch.documents[d].declared THEN ch.documents[d].consumers ELSE Inferred(d, render)

\* Consumer::select, and the containers of its list the workload has.
Consumed(consumer, render) ==
    IF consumer.workload \notin DOMAIN render.workloads THEN {}
    ELSE {[workload |-> consumer.workload, name |-> n] :
             n \in consumer.containers \cap DOMAIN render.workloads[consumer.workload]}

\* Document::relaxed
Relaxed(ch, d, v) ==
    UNION {x.gates : x \in {e \in ch.documents[d].exempt : e.values \in {"*", v}}}

-----------------------------------------------------------------------------
(* helm/check.rs                                                           *)

Said(v, d, what, level, workload, name, places) ==
    {[values |-> v, document |-> d, what |-> what, level |-> level,
      workload |-> workload, name |-> name, at |-> p] : p \in places}

OfContainer(v, d, place, found) ==
    UNION {Said(v, d, f.gate, f.level, place.workload, place.name, {f.at}) : f \in found}

\* check_containers: the container's own image decides which contract is read.
CheckContainers(ch, d, v, consumer) ==
    LET render == ch.renders[v]
        exempt == Relaxed(ch, d, v)
        doc == [known |-> "document" \notin exempt, keys |-> render.documents[d]]
        found(place) ==
            LET held == At(render, place)
            IN  IF held.image \in ch.documents[d].images
                THEN OfContainer(v, d, place,
                        CheckContainer(held.spec, ch.images[held.image], doc, exempt))
                ELSE Said(v, d, "foreign", "error", place.workload, place.name, {held.image})
    IN  UNION {found(place) : place \in Consumed(consumer, render)}

\* check_pair, one consumer: a reader without its document is the error.
CheckConsumer(ch, d, v, consumer) ==
    LET matched == consumer.workload \in DOMAIN ch.renders[v].workloads
        present == d \in DOMAIN ch.renders[v].documents
    IN  CASE ~matched /\ present -> Said(v, d, "unread", "warning", consumer.workload, "", {d})
          [] matched /\ ~present -> Said(v, d, "absent", "error", consumer.workload, "", {d})
          [] matched /\ present  -> CheckContainers(ch, d, v, consumer)
          [] OTHER               -> {}

CheckPair(ch, d, v) ==
    LET consumers == ConsumersIn(ch, d, ch.renders[v])
        present == d \in DOMAIN ch.renders[v].documents
    IN  (IF present /\ ~ch.documents[d].declared /\ consumers = {}
         THEN Said(v, d, "unread", "warning", "", "", {d}) ELSE {})
        \cup UNION {CheckConsumer(ch, d, v, consumer) : consumer \in consumers}

\* Absent from one values file is normal, absent from every one is a name the
\* chart no longer produces.
NeverProduced(ch, d) ==
    LET produced == {v \in DOMAIN ch.renders : d \in DOMAIN ch.renders[v].documents}
        listed == IF ch.documents[d].declared
                  THEN UNION {c.containers : c \in ch.documents[d].consumers} ELSE {}
        seen == UNION {{p.name : p \in UNION {Consumed(c, ch.renders[v]) :
                           c \in ConsumersIn(ch, d, ch.renders[v])}} : v \in produced}
    IN  CASE DOMAIN ch.renders = {} -> {}
          [] produced = {} -> Said("", d, "never", "error", "", "", {d})
          [] OTHER         -> Said("", d, "never", "error", "", "", listed \ seen)

CheckDocumentOf(ch, d) ==
    IF d \notin Current(ch) THEN Said("", d, "stale", "error", "", "", {d})
    ELSE (UNION {CheckPair(ch, d, v) : v \in DOMAIN ch.renders}) \cup NeverProduced(ch, d)

CheckChart(ch) == UNION {CheckDocumentOf(ch, d) : d \in DOMAIN ch.documents}

-----------------------------------------------------------------------------
(* helm/secrets.rs: the inventory.                                         *)

SpellingsOf(map, k) == {x \in DOMAIN map : map[x] = k}

\* declared_credentials, over the documents that bind and those that do not.
DeclaredCredentials(ch) ==
    UNION {UNION {{[path |-> k, contract |-> i,
                    spelt |-> <<SpellingsOf(ch.images[i].secretsFile, k),
                                SpellingsOf(ch.images[i].env, k),
                                SpellingsOf(ch.images[i].envFile, k)>>,
                    required |-> k \in ch.images[i].required] : k \in ch.images[i].secret} :
                     i \in ch.documents[d].images} : d \in DOMAIN ch.documents}

\* credentials: merged by spelling, not by path alone.
Credentials(declared) ==
    LET same(x) == {y \in declared : y.path = x.path /\ y.spelt = x.spelt}
    IN  {[path |-> x.path, spelt |-> x.spelt, contracts |-> {y.contract : y \in same(x)},
          required |-> \E y \in same(x) : y.required] : x \in declared}

-----------------------------------------------------------------------------
(* helm/secrets.rs: the scan of one render.                                *)

\* secret_file_names: as projected_file_names, of the Secrets alone.
SecretFileNames(c, volume) ==
    IF volume \in DOMAIN c.volumes
    THEN UNION {FilesOf(s, c.rendered) :
                   s \in {t \in c.volumes[volume].sources : t.kind = "Secret"}} ELSE {}

\* Every Secret file of one container, by the directory it is mounted in.
SecretMounts(c) ==
    UNION {{[dir |-> m.path, name |-> f] : f \in SecretFileNames(c, m.volume)} :
              m \in {n \in c.mounts : n.volume # ""}}

\* The key a contract knows a file by: exactly, or as a leaf of its map.
Owner(u, name) ==
    IF name \in DOMAIN u.secretsFile THEN {u.secretsFile[name]} ELSE ContainerOf(u, "secrets_file", name)

NamedAnywhere(ch, name) == \E i \in Pinned(ch) : Owner(ch.images[i], name) # {}

Supply(label, paths, channel) ==
    {[contract |-> label, path |-> p, channel |-> channel] : p \in paths}

\* scan_document: a key the plaintext document sets is delivered to every image.
ScanDocument(ch, d, render) ==
    IF d \notin DOMAIN render.documents THEN {}
    ELSE UNION {Supply(i, render.documents[d] \cap DOMAIN ch.images[i].form, "document") :
                   i \in ch.documents[d].images}

\* scan_container: the variables, by the key they name.
ScanVariables(u, label, e) ==
    Supply(label, {u.env[n] : n \in Kind(e, u, "KeyEnv")}, "environment")
    \cup Supply(label, {u.envFile[n] : n \in Kind(e, u, "KeyEnvFile")}, "indirection")

\* scan_file, of a file the image's own contract knows.
ScanOwned(u, label, e, f) ==
    IF f.dir \in SecretsDir(e, u) THEN Supply(label, Owner(u, f.name), "secrets") ELSE
    IF Append(f.dir, f.name) \in Indirect(e, u)
    THEN Supply(label, Owner(u, f.name), "indirection") ELSE {}

\* An ordinary key delivered as a Secret: chart policy, stated.
Elevated(u, f) ==
    IF f.name \in DOMAIN u.secretsFile
    THEN {k \in {u.secretsFile[f.name]} : k \notin u.secret /\ FileSupplyable(u, k)} ELSE {}

\* Mutant: a workload a consumer names is judged, whatever its containers.
ReachOfWorkloads(ch, v) ==
    {p \in ContainersOf(ch.renders[v]) :
        \E d \in DOMAIN ch.documents : \E c \in ConsumersIn(ch, d, ch.renders[v]) :
            p.workload = c.workload}

\* gate_three_reach: the containers `helm check` opens the mounts of.
GateThreeReach(ch, v) ==
    UNION {UNION {Consumed(c, ch.renders[v]) : c \in ConsumersIn(ch, d, ch.renders[v])} :
              d \in DOMAIN ch.documents}

Reported(kind, level, v, place, at) ==
    [kind |-> kind, level |-> level, values |-> v,
     workload |-> place.workload, name |-> place.name, at |-> at]

\* scan_file, of a file it does not: gate 3's, a sibling's, or nobody's.
ScanStranger(ch, v, place, u, e, f) ==
    IF f.dir \in SecretsDir(e, u) /\ place \in GateThreeReach(ch, v) THEN {}
    ELSE {Reported(IF NamedAnywhere(ch, f.name) THEN "over_projected" ELSE "unclaimed",
                   "error", v, place, f)}

\* What one container is found to be given, and to be given wrongly.
ScanContainer(ch, v, place) ==
    LET held == At(ch.renders[v], place)
        u == ch.images[held.image]
        e == EnvironmentOf(held.spec)
        files == SecretMounts(held.spec)
        owned == {f \in files : Owner(u, f.name) # {}}
    IN  [supplied |-> ScanVariables(u, held.image, e)
                      \cup UNION {ScanOwned(u, held.image, e, f) : f \in owned},
         found |-> (UNION {{Reported("elevated", "warning", v, place, [f EXCEPT !.name = k]) :
                               k \in Elevated(u, f)} : f \in owned})
                   \cup UNION {ScanStranger(ch, v, place, u, e, f) : f \in files \ owned}]

\* Every container whose image the chart pins a contract for, consumer or not.
Scanned(ch, v) ==
    {p \in ContainersOf(ch.renders[v]) : At(ch.renders[v], p).image \in Pinned(ch)}

\* scan_render
ScanRender(ch, v) ==
    LET scans == {ScanContainer(ch, v, p) : p \in Scanned(ch, v)}
    IN  [supplied |-> (UNION {s.supplied : s \in scans})
                      \cup UNION {ScanDocument(ch, d, ch.renders[v]) : d \in Current(ch)},
         found |-> UNION {s.found : s \in scans}]

-----------------------------------------------------------------------------
(* helm/secrets.rs: the report.                                            *)

Nowhere == [workload |-> "", name |-> ""]

\* names_credential: whether the chart's own files show one of its spellings.
NamesCredential(ch, credential) ==
    ({credential.path} \cup UNION Range(credential.spelt)) \cap ch.mentions # {}

\* Mutant: a key one image is given is given to its siblings.
CollectByPath(ch, ledger) ==
    {Reported(IF NamesCredential(ch, c) THEN "unsupplied" ELSE "undeliverable",
              IF NamesCredential(ch, c) THEN "warning" ELSE "error", "", Nowhere, c) :
        c \in {x \in Credentials(DeclaredCredentials(ch)) :
                  ~\E s \in ledger : s.path = x.path}}

\* collect: delivered to any image that declares it is delivered.
Collect(ch, ledger) ==
    {Reported(IF NamesCredential(ch, c) THEN "unsupplied" ELSE "undeliverable",
              IF NamesCredential(ch, c) THEN "warning" ELSE "error", "", Nowhere, c) :
        c \in {x \in Credentials(DeclaredCredentials(ch)) :
                  ~\E s \in ledger : s.path = x.path /\ s.contract \in x.contracts}}

Note(what, places) == {Reported(what, "warning", "", Nowhere, p) : p \in places}

\* reconcile_chart, and the level report_of gives each of its findings.
ReconcileChart(ch) ==
    LET scans == {ScanRender(ch, v) : v \in DOMAIN ch.renders}
        stale == Note("stale", DOMAIN ch.documents \ Current(ch))
    IN  CASE Current(ch) = {}       -> stale
          [] DOMAIN ch.renders = {} -> stale \cup Note("unrendered", {"chart"})
          [] OTHER -> stale \cup (UNION {s.found : s \in scans})
                      \cup Collect(ch, UNION {s.supplied : s \in scans})

-----------------------------------------------------------------------------
\* A chart to survey, or one container by itself.
SurveyInit ==
    \/ Init /\ chart = NoChart /\ surface = {} /\ report = {}
    \/ /\ chart \in Charts /\ surface = {} /\ report = {}
       /\ pc = "charted" /\ findings = {} /\ hidden = NotYet /\ outcome = {}
       /\ contract = NotYet /\ container = NotYet /\ document = NotYet /\ relaxed = {}

SecretsCommand ==
    /\ pc = "charted" /\ pc' = "reconciled"
    /\ surface' = ReconcileChart(chart)
    /\ UNCHANGED <<chart, report, contract, container, document, relaxed, findings,
                   hidden, outcome>>

CheckCommand ==
    /\ pc = "reconciled" /\ pc' = "surveyed"
    /\ report' = CheckChart(chart)
    /\ UNCHANGED <<chart, surface, contract, container, document, relaxed, findings,
                   hidden, outcome>>

SurveyNext ==
    \/ Next /\ UNCHANGED surveyVars
    \/ SecretsCommand
    \/ CheckCommand

SurveySpec == SurveyInit /\ [][SurveyNext]_<<vars, surveyVars>>

-----------------------------------------------------------------------------
(* Properties.                                                             *)

Surveyed == pc = "surveyed"

\* Why `helm check` did not open a container it was to open: it said so, or the
\* values file is exempt from gate 3.
NotOpened(v, place) ==
    \E d \in DOMAIN chart.documents :
        /\ \E c \in ConsumersIn(chart, d, chart.renders[v]) :
               place \in Consumed(c, chart.renders[v])
        /\ \/ "files" \in Relaxed(chart, d, v)
           \/ \E r \in report :
                  /\ r.document = d /\ r.level = "error"
                  /\ \/ r.what = "stale"
                     \/ /\ r.values = v /\ r.workload = place.workload
                        /\ <<r.what, r.name>> \in {<<"absent", "">>, <<"foreign", place.name>>}

\* Every Secret file a container's own image does not know is one line of one of
\* the two reports, never of both and never of neither; one it knows is no line
\* of either.
FilesAreReportedOnce ==
    Surveyed /\ Current(chart) # {} =>
        \A v \in DOMAIN chart.renders : \A place \in Scanned(chart, v) :
            LET held == At(chart.renders[v], place)
                u == chart.images[held.image]
            IN  \A f \in SecretMounts(held.spec) :
                    LET gate == \E r \in report :
                                    /\ r.what = "no_key_file" /\ r.values = v
                                    /\ r.workload = place.workload /\ r.name = place.name
                                    /\ r.at = f.name
                                    /\ f.dir \in SecretsDir(EnvironmentOf(held.spec), u)
                        line == \E s \in surface :
                                    /\ s.kind \in {"over_projected", "unclaimed"}
                                    /\ s.values = v /\ s.workload = place.workload
                                    /\ s.name = place.name /\ s.at = f
                    IN  IF Owner(u, f.name) # {} THEN ~gate /\ ~line
                        ELSE ~(gate /\ line) /\ (gate \/ line \/ NotOpened(v, place))

\* What the image of a container reads when the pod of one render runs.
Reads(v, place, h) ==
    LET held == At(chart.renders[v], place)
        docs == held.mounted \cap DOMAIN chart.renders[v].documents
        doc == [known |-> TRUE, keys |-> UNION {chart.renders[v].documents[d] : d \in docs}]
    IN  KeysSupplied(held.spec, chart.images[held.image], doc, h)

Outstanding == {s \in surface : s.kind \in {"undeliverable", "unsupplied"}}

\* A cluster that adds nothing to what was rendered.
AsRendered ==
    [text |-> "", path |-> <<>>, objects |-> [o \in {} |-> {}], inside |-> {}, names |-> {}]

\* Some pod of some render reads the credential, as one of the images spells it.
Arrives(c) ==
    \E v \in DOMAIN chart.renders : \E place \in Scanned(chart, v) :
        /\ At(chart.renders[v], place).image \in c.contracts
        /\ c.path \in Reads(v, place, AsRendered)

\* What the scan of a container does not count: a map's leaf variables, a file of
\* a ConfigMap, an alias.
Uncounted(c, u, k) ==
    LET e == EnvironmentOf(c)
        files == UNION {ProjectedFileNames(c, m.volume) : m \in c.mounts}
    IN  \/ \E n \in Kind(e, u, "Prefixed") : k \in ContainerOf(u, "env", n)
        \/ \E m \in c.mounts : \E f \in ProjectedFileNames(c, m.volume) :
              k \in Owner(u, f) /\ [dir |-> m.path, name |-> f] \notin SecretMounts(c)
        \/ \E x \in DOMAIN Aliases \cap (DOMAIN e \cup files) : Aliases[x] = k

\* Nor does it count a document mounted by an image it does not list.
Overlooked(c) ==
    \E v \in DOMAIN chart.renders : \E place \in Scanned(chart, v) :
        LET held == At(chart.renders[v], place)
        IN  /\ held.image \in c.contracts
            /\ \/ Uncounted(held.spec, chart.images[held.image], c.path)
               \/ \E d \in held.mounted \cap DOMAIN chart.renders[v].documents :
                     ~(d \in DOMAIN chart.documents /\ held.image \in chart.documents[d].images)

\* What it counts though nothing reads it: a file under the credential's name that
\* the variable of another key names.
Borrowed(c) ==
    \E v \in DOMAIN chart.renders : \E place \in Scanned(chart, v) :
        LET held == At(chart.renders[v], place)
            u == chart.images[held.image]
            e == EnvironmentOf(held.spec)
        IN  /\ held.image \in c.contracts
            /\ \E f \in SecretMounts(held.spec) : \E n \in Kind(e, u, "KeyEnvFile") :
                  /\ c.path \in Owner(u, f.name) /\ u.envFile[n] # c.path
                  /\ e[n].visible /\ e[n].value.path = Append(f.dir, f.name)

\* A rendered document of an image that declares it carries it, read or not.
Carried(c) ==
    \E v \in DOMAIN chart.renders : \E d \in DOMAIN chart.renders[v].documents :
        /\ d \in DOMAIN chart.documents /\ chart.documents[d].images \cap c.contracts # {}
        /\ c.path \in chart.renders[v].documents[d]

\* A credential reported undelivered reaches no pod of any values file, but by a
\* way the scan does not count; one that is not is read by an image that declares
\* it, or written in its document, or a file of its name is read for another key.
UndeliveredExactly ==
    Surveyed /\ Current(chart) = DOMAIN chart.documents /\ DOMAIN chart.renders # {} =>
        \A c \in Credentials(DeclaredCredentials(chart)) :
            IF \E s \in Outstanding : s.at = c THEN Arrives(c) => Overlooked(c)
            ELSE Arrives(c) \/ Carried(c) \/ Borrowed(c)
=============================================================================
