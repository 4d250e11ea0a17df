-------------------------- MODULE MCContainerGates --------------------------
(* Four keys - a required text, an integer, a dynamic map, a reserved name - *)
(* over up to two variables and one volume of files.                        *)
EXTENDS CredentialSurface

Keys == {"a", "n", "m", "r"}

MCAliases == [x \in {"A_OLD", "a_old"} |-> "a"]

Contract(unknown, reads, required, secret) ==
    [role |-> [x \in {"DIR", "CFG", "R"} |->
                CASE x = "DIR" -> "secrets_dir" [] x = "CFG" -> "config" [] OTHER -> "reserved"],
     env |-> [x \in {"A", "N", "M", "R"} |->
                CASE x = "A" -> "a" [] x = "N" -> "n" [] x = "M" -> "m" [] OTHER -> "r"],
     envFile |-> [x \in {"A_FILE", "N_FILE"} |-> IF x = "A_FILE" THEN "a" ELSE "n"],
     secretsFile |-> [x \in {"a", "n"} |-> x],
     extends |-> [env |-> [x \in {"M__X", "M__X_FILE", "N__X"} |->
                             CASE x = "N__X" -> [key |-> "n", leaf |-> "x"]
                               [] x = "M__X" -> [key |-> "m", leaf |-> "x"]
                               [] OTHER      -> [key |-> "m", leaf |-> "x_file"]],
                  secrets_file |-> [x \in {"m__x", "m__y"} |->
                             [key |-> "m", leaf |-> IF x = "m__y" THEN "y" ELSE "x"]]],
     leafFiles |-> [x \in {"M__X_FILE"} |-> [key |-> "m", leaf |-> "x"]],
     withheld |-> [env |-> {"R_FILE"}, secrets_file |-> {"r"}],
     prefixed |-> {"DIR", "CFG", "A", "N", "M", "R", "A_FILE", "N_FILE", "R_FILE", "M__X",
                   "M__X_FILE", "N__X", "A_OLD", "TYPO"},
     external |-> {"PORT", "TYPO"}, ignored |-> {"K8S"}, unknown |-> unknown, reads |-> reads,
     form |-> [k \in Keys |-> CASE k = "n" -> "integer" [] k = "m" -> "structured"
                                [] OTHER -> "text"],
     required |-> required, secret |-> secret, reserved |-> {"r"}]

MCContracts ==
    {Contract("reject", TRUE, {"a"}, {"a"}), Contract("warn", FALSE, {"a", "n"}, {}),
     Contract("allow", TRUE, {"m", "r"}, {})}

At0(path) == [text |-> "path", path |-> path]
Text(text) == [text |-> text, path |-> <<>>]
Set(name, value) == [name |-> name, value |-> value, valueFrom |-> FALSE]
From(name) == [name |-> name, value |-> Empty, valueFrom |-> TRUE]

\* What a container's `env` may say, at most two of it.
Variables ==
    {Set("DIR", At0(<<"run">>)), Set("DIR", At0(<<"gone">>)), Set("DIR", At0(<<"run", "deep">>)),
     From("DIR"), Set("CFG", At0(<<"gone">>)), Set("A", Text("good")), From("A"),
     Set("N", Text("out_of_range")), Set("M", Text("good")), Set("M__X", Text("good")),
     Set("N__X", Text("good")), Set("R", Text("good")), Set("A_OLD", Text("good")),
     Set("A_FILE", At0(<<"run", "a">>)), Set("A_FILE", At0(<<"gone", "a">>)),
     Set("N_FILE", At0(<<"run", "n">>)), Set("TYPO", Text("good")), Set("K8S", Text("good")),
     From("A_FILE"), Set("M__X_FILE", At0(<<"run", "a">>)), Set("R_FILE", At0(<<"run", "a">>)),
     Set("PORT", Text("malformed")), Set("HOST", Text("good"))}

Environments ==
    {<<>>} \cup {<<v>> : v \in Variables}
    \cup {SetToSeq({p[1], p[2]}) : p \in {q \in Variables \X Variables : q[1].name # q[2].name}}

Source(kind, rendered) ==
    [object |-> "source", kind |-> kind, rendered |-> rendered,
     data |-> [n \in {"A"} |-> Text("good")]]

Mount(volume) == [volume |-> volume, path |-> <<"run">>]
Volume(listable, sources) == [listable |-> listable, sources |-> sources]
Files(object, items) == [object |-> object, items |-> items]

\* One volume, if any, at /run.
Volumes ==
    {Volume(TRUE, {Files("held", {})}), Volume(TRUE, {Files("held", {"a", "m__x"})}),
     Volume(TRUE, {Files("held", {"n"})}), Volume(TRUE, {Files("held", {"a_old"})}),
     Volume(TRUE, {Files("held", {"other", "m__y"})}),
     Volume(TRUE, {Files("elsewhere", {})}), Volume(FALSE, {})}

Mounted(env, from, mounted, volume) ==
    [env |-> env, from |-> from, mounts |-> IF mounted THEN {Mount("v")} ELSE {},
     volumes |-> [v \in {"v"} |-> volume],
     rendered |-> [o \in {"held"} |-> {"a"}]]

MCContainers ==
    {Mounted(env, <<>>, FALSE, Volume(FALSE, {})) : env \in Environments}
    \cup {Mounted(env, <<>>, TRUE, volume) : env \in Environments, volume \in Volumes}
    \cup {Mounted(env, from, TRUE, volume) :
             env \in {e \in Environments : Len(e) < 2}, volume \in Volumes,
             from \in {<<Source("ConfigMap", TRUE)>>, <<Source("Secret", FALSE)>>,
                      <<Source("ConfigMap", TRUE), Source("Secret", TRUE)>>}}

Document(known, keys) == [known |-> known, keys |-> keys]
Render(doc, exempt) == [document |-> doc, relaxed |-> exempt]

MCRenders ==
    {Render(Document(TRUE, {}), {}), Render(Document(TRUE, {"n", "r"}), {}),
     Render(Document(TRUE, {"a", "m"}), {}),
     Render(Document(FALSE, {"n"}), {}), Render(Document(TRUE, {}), {"env"}),
     Render(Document(TRUE, {"m"}), {"files"}), Render(Document(TRUE, {}), {"required"})}

MCRuntime ==
    {[text |-> "good", path |-> <<"run">>, objects |-> [o \in {"elsewhere"} |-> files],
      inside |-> inside, names |-> {"A"}] : files \in {{}, {"a"}}, inside \in {{}, {"a"}}}
    \cup {[text |-> "good", path |-> <<"run", "a">>, objects |-> [o \in {} |-> {}],
           inside |-> {}, names |-> {"A_FILE"}]}

-----------------------------------------------------------------------------
(* Charts: an application and a worker that spells the path `a` its own way *)
(* and has a credential `b` besides, in one pod with an init container.     *)

Worker ==
    [Contract("warn", TRUE, {}, {"a", "b"}) EXCEPT
        !.env = [x \in {"W_A"} |-> "a"], !.envFile = [x \in {"W_A_FILE"} |-> "a"],
        !.secretsFile = [x \in {"wa", "b"} |-> IF x = "b" THEN "b" ELSE "a"],
        !.extends = [env |-> [x \in {"M__X"} |-> [key |-> "m", leaf |-> "x"]],
                     secrets_file |-> [x \in {"m__x"} |-> [key |-> "m", leaf |-> "x"]]],
        !.leafFiles = <<>>, !.withheld = [s \in Spellings |-> {}],
        !.prefixed = {"DIR", "CFG", "W_A", "W_A_FILE"},
        !.form = [k \in Keys \cup {"b"} |-> IF k = "m" THEN "structured" ELSE "text"]]

Application(secret) == Contract("warn", TRUE, {"a"}, secret)

Given(kind, object, items) == [kind |-> kind, object |-> object, items |-> items]

Spec1(env, source) ==
    [env |-> env, from |-> <<>>, mounts |-> {Mount("v")},
     volumes |-> [v \in {"v"} |-> [listable |-> TRUE, sources |-> {source}]],
     rendered |-> [o \in {"held"} |-> {"a"}]]

Specs ==
    {Spec1(env, source) :
        env \in {<<>>, <<Set("DIR", At0(<<"run">>))>>, <<From("DIR")>>,
                 <<Set("A_FILE", At0(<<"run", "a">>))>>, <<Set("W_A", Text("good"))>>,
                 <<Set("DIR", At0(<<"run">>)), Set("M__X", Text("good"))>>},
        source \in {Given("Secret", "held", {}), Given("Secret", "held", {"b", "m__x"}),
                    Given("Secret", "held", {"stray"}), Given("ConfigMap", "held", {"a", "wa"})}}

Few == {Spec1(<<>>, Given("Secret", "held", {"wa"})),
        Spec1(<<Set("DIR", At0(<<"run">>))>>, Given("Secret", "held", {"wa", "stray"})),
        Spec1(<<From("A")>>, Given("Secret", "elsewhere", {}))}

\* A file of the worker's `b`, read for its `a`.
Lent == Spec1(<<Set("W_A_FILE", At0(<<"run", "b">>))>>, Given("Secret", "held", {"b"}))

Pairs ==
    (Specs \X Few)
    \cup ({Spec1(env, Given("Secret", "held", {"stray"})) :
              env \in {<<>>, <<Set("A_OLD", Text("good"))>>}} \X {Lent})

Held(image, spec, mounted) == [image |-> image, spec |-> spec, mounted |-> mounted]

Pod(main, init, image) ==
    [w \in {"web"} |-> [c \in {"main", "init"} |->
        IF c = "main" THEN Held("app", main, {"cfg"}) ELSE Held(image, init, {})]]

NoPods == [w \in {} |-> <<>>]
Rendered(docs, keys, workloads) ==
    [documents |-> [d \in docs |-> keys], workloads |-> workloads]

Declares(images, current, declared, containers, exempt) ==
    [images |-> images, current |-> current, declared |-> declared,
     consumers |-> {[workload |-> "web", containers |-> containers]}, exempt |-> exempt]

Exemption(values, gates) == [values |-> values, gates |-> gates]

Layouts ==
    {[d \in {"cfg"} |-> Declares({"app", "worker"}, TRUE, TRUE, {"main"}, {})],
     [d \in {"cfg"} |-> Declares({"app", "worker"}, TRUE, TRUE, {"main", "init", "gone"}, {})],
     [d \in {"cfg"} |-> Declares({"app"}, TRUE, FALSE, {}, {Exemption("b", {"files"})})],
     [d \in {"cfg", "job"} |->
        IF d = "cfg" THEN Declares({"app"}, TRUE, TRUE, {"main"}, {})
        ELSE Declares({"worker"}, TRUE, TRUE, {"main", "init"}, {Exemption("*", {"env"})})],
     [d \in {"cfg", "job"} |->
        IF d = "cfg" THEN Declares({"app"}, FALSE, TRUE, {"main", "init"}, {})
        ELSE Declares({"worker"}, TRUE, FALSE, {}, {})],
     [d \in {"cfg", "job"} |->
        IF d = "cfg" THEN Declares({"worker"}, TRUE, TRUE, {"main"}, {})
        ELSE Declares({"app"}, TRUE, TRUE, {"init"}, {})],
     [d \in {"cfg"} |-> Declares({"app"}, FALSE, TRUE, {"main"}, {})]}

Chart(layout, renders, secret, mentions) ==
    [images |-> [i \in {"app", "worker"} |->
        IF i = "app" THEN Application(secret) ELSE Worker],
     documents |-> layout, mentions |-> mentions, renders |-> renders]

RendersOf(main, init) ==
    {[v \in {"a"} |-> Rendered({"cfg"}, {"n", "m"}, Pod(main, init, "worker"))],
     [v \in {"a", "b"} |->
        IF v = "a" THEN Rendered({"cfg", "job"}, {"a"}, Pod(main, init, "other"))
        ELSE Rendered({}, {}, Pod(main, init, "app"))]}

MCCharts ==
    UNION {{Chart(layout, renders, secret, mentions) :
               renders \in RendersOf(pair[1], pair[2]), layout \in Layouts,
               secret \in {{"a"}, {"m"}}, mentions \in {{}, {"b", "a"}}} :
              pair \in Pairs}
    \cup {Chart(layout, [v \in vs |-> Rendered({}, {}, NoPods)], {"a"}, {}) :
              layout \in Layouts, vs \in {{}, {"a"}}}

-----------------------------------------------------------------------------
(* The declarations people write: one field at a time, and the fields that *)
(* are read together.                                                      *)

VARIABLES written, enrolled

Decl == INSTANCE Declarations WITH ChartName <- "app", Identifiers <- {"config", "api", "auth", "a"}

Str(text) == Decl!Str(text)
Table(at) == Decl!Table(at)
List(items) == Decl!Listing(items)
Absent == Decl!Absent
Blank == Decl!Empty
Label(text) == Table("app" :> text)

Doc(name, fields) == Table("name" :> Str(name) @@ fields)
File(documents, fields) == Table("documents" :> List(documents) @@ fields)

Sources ==
    {Absent, Decl!Null, Str("x"), Table("name" :> Str("x"))}
    \cup {Table("kind" :> kind @@ "key" :> key @@ "format" :> format @@ "selector" :> selector) :
            kind \in {Absent, Str("Secret"), Str("Route"), Blank},
            key \in {Absent, Str(<<"app", "yaml">>), Str(<<"app">>)},
            format \in {Absent, Decl!Null, Str("json"), Str("xml")},
            selector \in {Absent, Table(<<>>), Label(Str("x")), Label(Decl!Number("1"))}}

Image(values, path) == Table("values" :> values @@ "contract" :> path)

ImageLists ==
    {Absent, Decl!Null, List(<<>>), List(<<Image(Absent, Absent)>>)}
    \cup {List(<<Image(Str("image"), c)>>) :
            c \in {Absent, Decl!Number("1"), Str(<<"contracts", "x">>), Str(<<"..", "x">>)}}
    \cup {List(<<Image(Str("image"), c), Image(Str("web"), Str(<<"x">>))>>) :
            c \in {Absent, Str(<<"y">>)}}

Reader(kind, selector, containers) ==
    Table("workload" :> Table("kind" :> kind @@ "selector" :> selector)
          @@ "containers" :> containers)

Readers ==
    {Absent, List(<<>>), Str("x"), List(<<Reader(Absent, Absent, List(<<Str("main")>>))>>),
     List(<<Reader(Str("Job"), Absent, Absent)>>),
     List(<<Reader(Str("Job"), Label(Str("x")), List(<<Str("main"), Str("init")>>)),
            Reader(Str("Job"), Absent, List(<<Str("main")>>))>>)}

Exempt(values, gates, reason) ==
    Table("values" :> values @@ "gates" :> gates @@ "reason" :> reason)

Exempts ==
    {Absent} \cup {List(<<Exempt(values, List(gates), reason)>>) :
        values \in {Absent, Str("*")}, reason \in {Absent, Blank, Str("why")},
        gates \in {<<>>, <<Str("env"), Str("files")>>, <<Str("all")>>}}

Rolled ==
    {Absent} \cup {List(<<Table("keys" :> List(keys) @@ "reason" :> reason)>>) :
        keys \in {<<>>, <<Str("*")>>, <<Str("a"), Str("b")>>}, reason \in {Absent, Str("why")}}

Why(reason) == {Absent, Decl!Spaces, Str(reason)}
Grouped(keys, reason) == Table("keys" :> List(keys) @@ "reason" :> reason)

Unrouted ==
    {Absent, Decl!Null, Str("x"), List(<<Grouped(<<>>, Str("why"))>>)}
    \cup {List(<<Grouped(<<Str("a"), Str("b")>>, Str("why")), Grouped(<<Str(k)>>, reason)>>) :
            k \in {"a", "c"}, reason \in Why("else") \cup Why("why")}

Prerequisites ==
    {Absent, Str("x"), Table("values" :> Table(<<>>) @@ "reason" :> Str("why"))}
    \cup {Table("values" :> Table([p \in ps |-> Str("v")]) @@ "reason" :> reason) :
            reason \in {Absent, Str("why")},
            ps \in {ps \in SUBSET {<<"auth">>, <<"auth", "a">>, <<"config">>, <<"config", "api">>,
                                  <<"config", "api", "a">>, <<"config", "b">>} :
                     Cardinality(ps) \in 1..2}}

Block(probe, baseline, reason, prerequisites, unrouted) ==
    Table("probe" :> probe @@ "baseline" :> baseline @@ "reason" :> reason
          @@ "prerequisites" :> prerequisites @@ "unrouted" :> unrouted)

Blocks ==
    {Absent, Decl!Null, Table(<<>>), Str("x"), Table("name" :> Str("api"))}
    \cup {Block(Absent, Absent, Absent, Absent, u) : u \in Unrouted}
    \cup {Block(probe, baseline, reason, required, Absent) :
            probe \in {Absent, Str(<<"config", "api">>), Str(<<"0">>), [Blank EXCEPT !.text = <<>>]},
            baseline \in {Absent, Str("x")} \cup
                {Table([p \in {path} |-> Str("v")]) :
                    path \in {<<"config", "a">>, <<"config", "api", "a">>, <<"auth">>}},
            reason \in {Absent, Str("why")}, required \in Prerequisites}

On == "tests" :> Decl!Flag(TRUE)

WriteOff(keys, reason, documents) ==
    Table("keys" :> List(keys) @@ "reason" :> reason @@ "documents" :> documents)

WriteOffs ==
    {Absent} \cup {List(<<WriteOff(<<Str("a")>>, Str("why"), scope),
                         WriteOff(keys, reason, other)>>) :
        scope \in {Absent, List(<<Str("api")>>)}, reason \in {Absent, Str("else")},
        keys \in {<<>>, <<Str("a")>>, <<Str("b"), Str("b")>>, <<Str("b")>>},
        other \in {Absent, List(<<>>), List(<<Str("web")>>), List(<<Str("api"), Str("web")>>),
                    List(<<Str("gone")>>)}}

Credential(key, value, note) == Table("key" :> key @@ "value" :> value @@ "note" :> note)

Notes ==
    {Absent} \cup {List(<<Credential(Str("a"), value, note), Credential(key, Str("v"), Absent)>>) :
        key \in {Blank, Str("a"), Str("b")}, value \in {Absent, Str("v"), Decl!Spaces},
        note \in {Absent, Str("n"), Decl!Number("1")}}

Two == <<Doc("api", <<>>), Doc("web", <<>>)>>

Alone ==
    {File(<<Doc("api", "source" :> s)>>, <<>>) : s \in Sources}
    \cup {File(<<Doc("api", "images" :> i @@ "consumers" :> c @@ "source" :>
                       Table("kind" :> Str(kind)))>>, <<>>) :
            i \in ImageLists, c \in Readers, kind \in {"ConfigMap", "Route"}}
    \cup {File(<<Doc("api", "exempt" :> e @@ "restart" :> r)>>, <<>>) :
            e \in Exempts, r \in Rolled}
    \cup {File(<<Doc("api", "tests" :> b)>>, on) : b \in Blocks, on \in {<<>>, On}}
    \cup {File(Two, "unbound" :> u @@ "credentials" :> c) : u \in WriteOffs, c \in Notes}
    \cup {File(documents, "reason" :> reason @@ "tests" :> tests
                          @@ "bindings" :> bindings @@ "unconfigured" :> off) :
            documents \in {<<>>, Two, Two \o Two, <<Doc("..", <<>>)>>, <<Str("x")>>},
            reason \in {Absent, Str("why")}, tests \in {Absent, Decl!Flag(FALSE), Str("x")},
            bindings \in {Absent, Decl!Flag(TRUE)}, off \in {Absent, List(<<Str("sidecar")>>)}}

\* The older enrolment beside a declaration.
Legacy ==
    {Table(<<>>), Str("x"), Table("documents" :> Str("x"))}
    \cup {File(<<Doc(name, b.at)>>, <<>>) : name \in {"api", "gone"},
            b \in {b \in Blocks : b.is = "map" /\ "name" \notin DOMAIN b.at}}
    \cup {File(Two \o Two, <<>>), File(<<Table(<<>>)>>, <<>>)}

MCFiles ==
    (Alone \X {Absent}) \cup ({File(Two, <<>>)} \X Legacy)
    \cup ({File(Two, On)} \X {Table(<<>>)})

MCInit ==
    \/ SurveyInit /\ written = Absent /\ enrolled = Absent
    \/ /\ pc = "declared" /\ chart = NoChart /\ surface = {} /\ report = {}
       /\ contract = NotYet /\ container = NotYet /\ document = NotYet /\ relaxed = {}
       /\ findings = {} /\ hidden = NotYet /\ outcome = {}
       /\ \E files \in MCFiles : written = files[1] /\ enrolled = files[2]

MCNext ==
    \/ SurveyNext /\ UNCHANGED <<written, enrolled>>
    \/ Decl!DeclarationNext /\ UNCHANGED <<vars, surveyVars>>

MCSpec == MCInit /\ [][MCNext]_<<vars, surveyVars, written, enrolled>>

\* `config show --chart` prints a declaration that means what the files it was
\* read from meant (effective.rs:1).
ShownReadsBack == Decl!ShownReadsBack
=============================================================================
