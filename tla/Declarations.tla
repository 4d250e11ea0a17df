---------------------------- MODULE Declarations ----------------------------
(***************************************************************************)
(* What a chart's `config-contract.yaml` means (helm/declaration.rs), with *)
(* its enrolment in the round-trip suites (helm/suites.rs), and the same   *)
(* declaration shown with every default written out (helm/effective.rs,    *)
(* `config show --chart`), which is to replace it.                         *)
(*                                                                         *)
(* A file is a tree of nodes.  A text is opaque, empty or spaces; a dotted *)
(* values path, a contract path and a document's key are sequences.        *)
(***************************************************************************)
EXTENDS Naturals, Sequences, SequencesExt, TLC

CONSTANTS
    ChartName,      \* the name of the chart's directory
    Identifiers     \* the names that may be a segment of a values path

VARIABLES
    written,        \* the text of config-contract.yaml
    enrolled        \* the text of contract-tests.yaml, or no such file

Absent == [is |-> "absent"]
Null == [is |-> "null", text |-> "null"]
Str(text) == [is |-> "text", text |-> text, ink |-> "some"]
Empty == [is |-> "text", text |-> "", ink |-> "none"]
Spaces == [is |-> "text", text |-> " ", ink |-> "spaces"]
Number(text) == [is |-> "number", text |-> text]
Flag(held) == [is |-> "bool", held |-> held, text |-> IF held THEN "true" ELSE "false"]
Listing(items) == [is |-> "list", items |-> items]
Table(at) == [is |-> "map", at |-> [k \in {k \in DOMAIN at : at[k].is # "absent"} |-> at[k]]]

Field(n, k) == IF n.is = "map" /\ k \in DOMAIN n.at THEN n.at[k] ELSE Absent
Out(n) == n.is \in {"absent", "null"}
Items(n) == IF n.is = "list" THEN n.items ELSE <<>>
Fields(n) == IF n.is = "map" THEN DOMAIN n.at ELSE {}
Named(n) == n.is = "text" /\ n.ink # "none"
Told(n) == n.is = "text" /\ n.ink = "some"
Some(n) == n.is = "list" /\ n.items # <<>>
OrElse(n, default) == IF Out(n) THEN default ELSE n.text
Texts(n) == [i \in DOMAIN Items(n) |-> Items(n)[i].text]
Optional(n) == IF n.is = "text" THEN n ELSE Absent
Unless(none, n) == IF none THEN Absent ELSE n
Selector(n) == [l \in Fields(n) |-> n.at[l].text]

Unknown(n, keys) == ~(Fields(n) \subseteq keys)
Entry(n, keys) == n.is = "map" /\ Fields(n) \subseteq keys

-----------------------------------------------------------------------------
(* The source and the images of a document.                                *)

FormatOf(key) ==
    CASE Len(key) > 1 /\ Last(key) = "json"             -> "json"
      [] Len(key) > 1 /\ Last(key) \in {"yaml", "yml"}  -> "yaml"
      [] OTHER                                          -> "toml"

SourceRefused(n) ==
    \/ ~Out(n) /\ ~Entry(n, {"format", "key", "kind", "selector"})
    \/ \E f \in {"kind", "key", "format"} : ~Out(Field(n, f)) /\ ~Named(Field(n, f))
    \/ ~Out(Field(n, "selector")) /\ Fields(Field(n, "selector")) = {}
    \/ Named(Field(n, "format")) /\ n.at["format"].text \notin {"toml", "json", "yaml"}

Source(n) ==
    LET key == OrElse(Field(n, "key"), <<"config", "toml">>)
    IN  [kind     |-> OrElse(Field(n, "kind"), "ConfigMap"),
         selector |-> IF Out(Field(n, "selector"))
                      THEN [l \in {"app.kubernetes.io/instance"} |-> ChartName]
                      ELSE Selector(n.at["selector"]),
         key      |-> key,
         format   |-> OrElse(Field(n, "format"), FormatOf(key))]

DefaultContract(name) == <<"contracts", name>>

\* A path with a root or a `..` in it leaves the chart.
Confined(path) == path # <<>> /\ Range(path) \cap {"/", ".."} = {}

ContractAt(name, entry) ==
    IF Field(entry, "contract").is = "text" THEN entry.at["contract"].text
    ELSE DefaultContract(name)

ImagesRefused(name, n) ==
    IF Out(n) THEN ~Confined(DefaultContract(name))
    ELSE \/ ~Some(n)
         \/ \E e \in Range(Items(n)) :
                \/ ~Entry(e, {"contract", "values"})
                \/ Field(e, "values").is # "text"
                \/ Field(e, "contract").is # "text" /\ Len(n.items) > 1
                \/ ~Confined(ContractAt(name, e))

Images(name, n) ==
    IF Out(n) THEN <<[values |-> "image", contract |-> DefaultContract(name)]>>
    ELSE [i \in DOMAIN n.items |->
            [values |-> n.items[i].at["values"].text, contract |-> ContractAt(name, n.items[i])]]

-----------------------------------------------------------------------------
(* Its readers, and what it is let off.                                    *)

ConsumersRefused(source, n) ==
    IF Out(n) THEN source.kind \notin {"ConfigMap", "Secret"}
    ELSE \/ n.is # "list"
         \/ \E e \in Range(Items(n)) :
                \/ ~Entry(e, {"containers", "workload"})
                \/ Field(Field(e, "workload"), "kind").is # "text"
                \/ ~Some(Field(e, "containers"))

\* Left out, the readers are found in the manifests; an empty list is a decision.
Consumers(n) ==
    [inferred |-> Out(n),
     listed   |-> [i \in DOMAIN Items(n) |->
        LET workload == n.items[i].at["workload"]
        IN  [kind       |-> workload.at["kind"].text,
             selector   |-> Selector(Field(workload, "selector")),
             containers |-> Texts(n.items[i].at["containers"])]]]

Gates == {"closed", "document", "env", "files", "required"}

ExemptionsRefused(n) ==
    \E e \in Range(Items(n)) :
        \/ ~Entry(e, {"gates", "reason", "values"})
        \/ ~Some(Field(e, "gates"))
        \/ ~(Range(Texts(Field(e, "gates"))) \subseteq Gates)
        \/ ~Named(Field(e, "reason"))

Exemptions(n) ==
    [i \in DOMAIN Items(n) |->
        LET e == n.items[i]
        IN  [values |-> IF Field(e, "values").is = "text" THEN e.at["values"].text ELSE "",
             gates  |-> Texts(e.at["gates"]),
             reason |-> e.at["reason"]]]

RestartsRefused(n) ==
    \E e \in Range(Items(n)) :
        \/ ~Entry(e, {"keys", "reason"})
        \/ ~Some(Field(e, "keys"))
        \/ \E k \in Range(Items(Field(e, "keys"))) : ~Named(k) \/ k.text = "*"
        \/ ~Named(Field(e, "reason"))

Restarts(n) ==
    [i \in DOMAIN Items(n) |->
        [keys |-> Texts(n.items[i].at["keys"]), reason |-> n.items[i].at["reason"]]]

-----------------------------------------------------------------------------
(* How its suite is generated.                                             *)

Root == <<"config">>
IsValuesPath(path) == path # <<>> /\ Range(path) \subseteq Identifiers

Probe(n) == OrElse(Field(n, "probe"), Root)

ProbeRefused(n) == ~Out(n) /\ ~(Named(n) /\ IsValuesPath(n.text))

BaselineRefused(n, probe) ==
    /\ ~Out(n)
    /\ \/ n.is # "map"
       \/ \E k \in Fields(n) : ~IsStrictPrefix(probe, k) \/ n.at[k].is \in {"map", "list"}

PrerequisiteConflict(path, root) ==
    path = <<>> \/ IsPrefix(root, path) \/ IsStrictPrefix(path, root)

PrerequisitesRefused(n, probe) ==
    /\ ~Out(n)
    /\ \/ ~Entry(n, {"values", "reason"})
       \/ LET values == Field(n, "values")
          IN  \/ ~Out(values) /\ values.is # "map"
              \/ Fields(values) = {}
              \/ \E k \in Fields(values) : PrerequisiteConflict(k, probe)
              \/ \E j, k \in Fields(values) : IsStrictPrefix(j, k)
       \/ ~Named(Field(n, "reason"))

UnroutedRefused(n) ==
    /\ ~Out(n)
    /\ \/ n.is # "list"
       \/ \E e \in Range(Items(n)) :
              \/ ~Entry(e, {"keys", "reason"})
              \/ ~Some(Field(e, "keys"))
              \/ ~Told(Field(e, "reason"))
              \/ \E k \in Range(Items(Field(e, "keys"))) : ~Named(k)
       \/ LET keys == FlattenSeq([i \in DOMAIN Items(n) |-> Texts(Field(n.items[i], "keys"))])
          IN  ~IsInjective(keys)

SuiteKeys == {"baseline", "probe", "reason", "prerequisites", "unrouted"}

SuiteRefused(n, keys) ==
    \/ ~Entry(n, keys)
    \/ ProbeRefused(Field(n, "probe"))
    \/ BaselineRefused(Field(n, "baseline"), Probe(n))
    \/ (Fields(Field(n, "baseline")) # {} \/ Probe(n) # Root) /\ Field(n, "reason").is # "text"
    \/ PrerequisitesRefused(Field(n, "prerequisites"), Probe(n))
    \/ UnroutedRefused(Field(n, "unrouted"))

\* Each unrouted key with its reason; the values to set at each path.
Suite(n) ==
    LET unrouted == Range(Items(Field(n, "unrouted")))
        values(b) == [k \in Fields(b) |-> b.at[k]]
    IN  [probe         |-> Probe(n),
         baseline      |-> values(Field(n, "baseline")),
         reason        |-> Optional(Field(n, "reason")),
         prerequisites |-> values(Field(Field(n, "prerequisites"), "values")),
         required      |-> Optional(Field(Field(n, "prerequisites"), "reason")),
         unrouted      |-> UNION {{[key |-> k.text, reason |-> e.at["reason"]] :
                                      k \in Range(e.at["keys"].items)} : e \in unrouted}]

DefaultSuite == Suite(Absent)

-----------------------------------------------------------------------------
(* The declaration.                                                        *)

TestsRefused(n, on) == ~Out(n) /\ (~on \/ SuiteRefused(n, SuiteKeys))

DocumentRefused(n, on) ==
    \/ ~Entry(n, {"consumers", "exempt", "images", "name", "restart", "source", "tests"})
    \/ ~Named(Field(n, "name"))
    \/ SourceRefused(Field(n, "source"))
    \/ ImagesRefused(n.at["name"].text, Field(n, "images"))
    \/ ConsumersRefused(Source(Field(n, "source")), Field(n, "consumers"))
    \/ TestsRefused(Field(n, "tests"), on)
    \/ ExemptionsRefused(Field(n, "exempt"))
    \/ RestartsRefused(Field(n, "restart"))

\* The fields a document leaves to their defaults.
Defaulted(n) ==
    {<<"source", f>> : f \in {f \in {"kind", "selector", "key", "format"} :
                                Out(Field(Field(n, "source"), f))}}
    \cup {<<f>> : f \in {f \in {"images", "consumers"} : Out(Field(n, f))}}
    \cup {<<"images", "contract">> :
            e \in {e \in Range(Items(Field(n, "images"))) : Field(e, "contract").is # "text"}}

Document(n) ==
    [name      |-> n.at["name"].text,
     source    |-> Source(Field(n, "source")),
     images    |-> Images(n.at["name"].text, Field(n, "images")),
     consumers |-> Consumers(Field(n, "consumers")),
     exempt    |-> Exemptions(Field(n, "exempt")),
     restart   |-> Restarts(Field(n, "restart")),
     tests     |-> Suite(Field(n, "tests")),
     defaulted |-> Defaulted(n)]

\* What one write-off covers: each of its keys, everywhere or in each document.
WriteOffs(e) ==
    LET keys   == Texts(e.at["keys"])
        scopes == IF Out(Field(e, "documents")) THEN <<"everywhere">> ELSE Texts(e.at["documents"])
    IN  FlattenSeq([k \in DOMAIN keys |-> [i \in DOMAIN scopes |-> <<keys[k], scopes[i]>>]])

UnboundRefused(n, names) ==
    \/ \E e \in Range(Items(n)) :
           \/ ~Entry(e, {"documents", "keys", "reason"})
           \/ ~Some(Field(e, "keys"))
           \/ \E k \in Range(Items(Field(e, "keys"))) : ~Named(k)
           \/ ~Named(Field(e, "reason"))
           \/ ~Out(Field(e, "documents")) /\ ~Some(Field(e, "documents"))
           \/ ~(Range(Texts(Field(e, "documents"))) \subseteq names)
    \/ ~IsInjective(FlattenSeq([i \in DOMAIN Items(n) |-> WriteOffs(n.items[i])]))

Unbound(n) ==
    [i \in DOMAIN Items(n) |->
        LET e == n.items[i]
        IN  [keys      |-> Texts(e.at["keys"]),
             reason    |-> e.at["reason"],
             documents |-> Texts(Field(e, "documents"))]]

CredentialsRefused(n) ==
    \/ \E e \in Range(Items(n)) :
           \/ ~Entry(e, {"key", "note", "value"})
           \/ ~Named(Field(e, "key"))
           \/ \E f \in {"value", "note"} : ~Out(Field(e, f)) /\ ~Told(Field(e, f))
           \/ Out(Field(e, "value")) /\ Out(Field(e, "note"))
    \/ ~IsInjective([i \in DOMAIN Items(n) |-> n.items[i].at["key"].text])

Credentials(n) ==
    {[key |-> e.at["key"].text, value |-> Optional(Field(e, "value")),
      note |-> Optional(Field(e, "note"))] : e \in Range(Items(n))}

Switch(n) == n.is = "bool" /\ n.held

Refused(n) ==
    LET documents == Items(Field(n, "documents"))
        names == [i \in DOMAIN documents |-> documents[i].at["name"].text]
    IN  \/ ~Entry(n, {"bindings", "credentials", "documents", "reason", "tests", "unbound",
                      "unconfigured"})
        \/ Field(n, "documents").is # "list"
        \/ documents = <<>> /\ Field(n, "reason").is # "text"
        \/ \E f \in {"bindings", "tests"} : ~Out(Field(n, f)) /\ n.at[f].is # "bool"
        \/ \E e \in Range(documents) : DocumentRefused(e, Switch(Field(n, "tests")))
        \/ ~IsInjective(names)
        \/ UnboundRefused(Field(n, "unbound"), Range(names))
        \/ CredentialsRefused(Field(n, "credentials"))

Declaration(n) ==
    [documents    |-> [i \in DOMAIN n.at["documents"].items |-> Document(n.at["documents"].items[i])],
     reason       |-> Optional(Field(n, "reason")),
     unconfigured |-> Texts(Field(n, "unconfigured")),
     bindings     |-> Switch(Field(n, "bindings")),
     tests        |-> Switch(Field(n, "tests")),
     unbound      |-> Unbound(Field(n, "unbound")),
     credentials  |-> Credentials(Field(n, "credentials"))]

-----------------------------------------------------------------------------
(* The enrolment, in the declaration or in the older file.                 *)

EnrolmentRefused(tests, file) ==
    /\ file.is # "absent"
    /\ \/ tests
       \/ ~Entry(file, {"documents"})
       \/ ~Out(Field(file, "documents")) /\ file.at["documents"].is # "list"
       \/ \E e \in Range(Items(Field(file, "documents"))) :
              SuiteRefused(e, SuiteKeys \cup {"name"}) \/ ~Named(Field(e, "name"))
       \/ LET entries == Items(Field(file, "documents"))
          IN  ~IsInjective([i \in DOMAIN entries |-> entries[i].at["name"].text])

\* How each document's suite is generated; nothing where the chart has none.
Suites(d, file) ==
    IF d.tests THEN [i \in DOMAIN d.documents |-> d.documents[i].tests]
    ELSE IF file.is = "absent" THEN <<>>
    ELSE LET entries == Items(Field(file, "documents"))
         IN  [i \in DOMAIN d.documents |->
                LET own == SelectSeq(entries, LAMBDA e : e.at["name"].text = d.documents[i].name)
                IN  IF own = <<>> THEN DefaultSuite ELSE Suite(own[1])]

-----------------------------------------------------------------------------
(* effective.rs: the declaration with every default written out.           *)

Strings(texts) == Listing([i \in DOMAIN texts |-> Str(texts[i])])
Pairs(labels) == Unless(DOMAIN labels = {}, Table([l \in DOMAIN labels |-> Str(labels[l])]))
Many(items) == Unless(items = <<>>, Listing(items))

\* The unrouted keys, grouped by their reason.
UnroutedValue(unrouted) ==
    LET group(r) == {u.key : u \in {u \in unrouted : u.reason = r}}
        groups == {Table([keys |-> Strings(SetToSeq(group(r))), reason |-> r]) :
                     r \in {u.reason : u \in unrouted}}
    IN  Many(SetToSeq(groups))

TestsValue(suite) ==
    LET set(values) == Unless(DOMAIN values = {}, Table(values))
        required == Table([values |-> set(suite.prerequisites), reason |-> suite.required])
        block == Table([probe         |-> Unless(suite.probe = Root, Str(suite.probe)),
                        baseline      |-> set(suite.baseline),
                        reason        |-> suite.reason,
                        prerequisites |-> Unless(DOMAIN suite.prerequisites = {}, required),
                        unrouted      |-> UnroutedValue(suite.unrouted)])
    IN  Unless(Fields(block) = {}, block)

\* Mutant: a list of consumers is printed only when it names one.
ReadersNamed(consumers) ==
    Many([i \in DOMAIN consumers.listed |->
        LET c == consumers.listed[i]
        IN  Table([workload   |-> Table([kind |-> Str(c.kind), selector |-> Pairs(c.selector)]),
                   containers |-> Strings(c.containers)])])

ConsumersValue(consumers) ==
    Unless(consumers.inferred, Listing([i \in DOMAIN consumers.listed |->
        LET c == consumers.listed[i]
        IN  Table([workload   |-> Table([kind |-> Str(c.kind), selector |-> Pairs(c.selector)]),
                   containers |-> Strings(c.containers)])]))

DocumentValue(d, suite) ==
    Table([name      |-> Str(d.name),
           source    |-> Table([kind     |-> Str(d.source.kind),
                                selector |-> Pairs(d.source.selector),
                                key      |-> Str(d.source.key),
                                format   |-> Str(d.source.format)]),
           images    |-> Listing([i \in DOMAIN d.images |->
                            Table([values   |-> Str(d.images[i].values),
                                   contract |-> Str(d.images[i].contract)])]),
           consumers |-> ConsumersValue(d.consumers),
           exempt    |-> Many([i \in DOMAIN d.exempt |->
                            Table([values |-> Str(d.exempt[i].values),
                                   gates  |-> Strings(d.exempt[i].gates),
                                   reason |-> d.exempt[i].reason])]),
           restart   |-> Many([i \in DOMAIN d.restart |->
                            Table([keys   |-> Strings(d.restart[i].keys),
                                   reason |-> d.restart[i].reason])]),
           tests     |-> suite])

Effective(d, file) ==
    LET suites == Suites(d, file)
        noted == SetToSeq({Table([key |-> Str(c.key), value |-> c.value, note |-> c.note]) :
                             c \in d.credentials})
    IN  Table([bindings     |-> Unless(~d.bindings, Flag(TRUE)),
               tests        |-> Unless(~d.tests /\ file.is = "absent", Flag(TRUE)),
               reason       |-> d.reason,
               unconfigured |-> Unless(d.unconfigured = <<>>, Strings(d.unconfigured)),
               unbound      |-> Many([i \in DOMAIN d.unbound |->
                  LET u == d.unbound[i]
                  IN  Table([keys      |-> Strings(u.keys),
                             reason    |-> u.reason,
                             documents |-> Unless(u.documents = <<>>, Strings(u.documents))])]),
               credentials  |-> Many(noted),
               documents    |-> Listing([i \in DOMAIN d.documents |->
                  DocumentValue(d.documents[i],
                                IF suites = <<>> THEN Absent ELSE TestsValue(suites[i]))])])

-----------------------------------------------------------------------------
(* The files.                                                              *)

Reads == written.is # "absent" /\ ~Refused(written)
              /\ ~EnrolmentRefused(Declaration(written).tests, enrolled)

\* `config show --chart`, and what it prints put in the place of both files.
ShowChart ==
    /\ Reads
    /\ written' = Effective(Declaration(written), enrolled)
    /\ enrolled' = Absent

DeclarationNext == ShowChart

-----------------------------------------------------------------------------
(* Properties.                                                             *)

\* What a pair of files says of a chart: everything but where it was left out.
Meaning(text, file) ==
    LET d == Declaration(text)
    IN  [d EXCEPT
           !.documents = [i \in DOMAIN @ |->
              [f \in DOMAIN @[i] \ {"tests", "defaulted"} |-> @[i][f]]],
           !.tests = d.tests \/ file.is # "absent"]
        @@ [suites |-> Suites(d, file)]

\* The declaration shown is one, leaves nothing to a default but the readers it
\* found, and means exactly what the files it was read from meant (effective.rs:1).
ShownReadsBack ==
    [][/\ ~Refused(written') /\ ~EnrolmentRefused(Declaration(written').tests, enrolled')
       /\ Meaning(written', enrolled') = Meaning(written, enrolled)
       /\ \A d \in Range(Declaration(written').documents) : d.defaulted \subseteq {<<"consumers">>}
      ]_<<written, enrolled>>
=============================================================================
