--------------------------- MODULE MCContractDiff ---------------------------
(* One base contract and the contracts one or two edits away from it.       *)
EXTENDS ContractDiff, TLC

MCNamespace == {"APP_A", "APP_B", "APP_C", "APP_R", "APP_DIR", "NEW_A"}
MCMatches == [p \in {"K8S_*"} |-> {"K8S_HOST"}]
MCAdmits == [p \in {"lower", "short"} |-> IF p = "lower" THEN {"x", "y"} ELSE {"x"}]

Element == "*.required"
Pattern == "pattern"
Condition == "allOf"
NoTight == [place \in {} |-> "x"]
Tight(place, rule) == [p \in {place} |-> rule]

Key(env, file) ==
    [env |-> env, file |-> file, accepted |-> "wide", aliases |-> {}, reserved |-> FALSE,
     secret |-> FALSE, docs |-> "old", unmodelled |-> "old", required |-> FALSE, form |-> "text",
     entries |-> {}, names |-> "any", tight |-> NoTight, default |-> "1", reload |-> "live"]

Entry(required) ==
    [required |-> required, accepted |-> "wide", secret |-> FALSE, docs |-> "old",
     unmodelled |-> "old", form |-> "text", entries |-> {}, names |-> "any", tight |-> NoTight,
     default |-> "1"]

Base ==
    [envelope |-> 1, version |-> 1, app |-> "app", release |-> "1", image |-> "i", digest |-> "1",
     dialect |-> "app", loader |-> "APP_DIR" :> [role |-> "secrets_dir", default |-> "", docs |-> "old"],
     keys |-> "a" :> Key("APP_A", "a") @@ "b" :> Key("APP_B", "b"),
     external |-> "HOST" :> Entry(FALSE), unknown |-> "reject", ignore |-> {"K8S_*"},
     reload |-> [mode |-> "rebuild", layers |-> {"document"}], schema |-> "old"]

WithKey(edited) == [Base EXCEPT !.keys["a"] = edited]
A == Base.keys["a"]

\* Edits of the key a.
KeyEdits ==
    {WithKey(k) : k \in
        {[A EXCEPT !.required = TRUE, !.default = "none"],
         [A EXCEPT !.form = "integer", !.accepted = "narrow"],
         [A EXCEPT !.entries = {"x"}], [A EXCEPT !.names = "lower"], [A EXCEPT !.names = "short"],
         [A EXCEPT !.tight = Tight(Element, "r")], [A EXCEPT !.tight = Tight(Pattern, "r")],
         [A EXCEPT !.tight = Tight(Condition, "r")],
         [A EXCEPT !.tight = Tight(Pattern, "s"), !.docs = "new"],
         [A EXCEPT !.accepted = "narrow"],
         [A EXCEPT !.env = "NEW_A"], [A EXCEPT !.default = "2"], [A EXCEPT !.docs = "new"],
         [A EXCEPT !.reload = "restart"], [A EXCEPT !.unmodelled = "new"]}}

\* What names an ignore pattern lets pass, and what is read from them.
Open == [Base EXCEPT !.unknown = "allow"]
Strict == [Base EXCEPT !.ignore = {}]
Needed == [Key("APP_R", "r") EXCEPT !.required = TRUE]
Reserved == [Needed EXCEPT !.file = NoFile, !.reserved = TRUE]

\* Edits of the rest.
OtherEdits ==
    {Open, [Open EXCEPT !.external["HOST"].tight = Tight(Pattern, "r")],
     [Open EXCEPT !.loader = @ @@ "CFG" :> [role |-> "config", default |-> "", docs |-> "old"]],
     Strict, [Strict EXCEPT !.external = @ @@ "K8S_HOST" :> Entry(FALSE)],
     [Base EXCEPT !.keys = @ @@ "r" :> Needed],
     [Base EXCEPT !.keys = @ @@ "r" :> [Needed EXCEPT !.file = NoFile]],
     [Base EXCEPT !.keys = @ @@ "r" :> Reserved,
                  !.loader = @ @@ "APP_R" :> [role |-> "reserved", default |-> "", docs |-> "old"]],
     [Base EXCEPT !.keys = "b" :> Base.keys["b"]],
     [Base EXCEPT !.keys = @ @@ "c" :> Key("APP_C", "c")],
     [Base EXCEPT !.keys = @ @@ "c" :> [Key("APP_C", "c") EXCEPT !.required = TRUE]],
     [Base EXCEPT !.external = [n \in {} |-> Entry(FALSE)]],
     [Base EXCEPT !.external = @ @@ "K8S_HOST" :> Entry(FALSE)],
     [Base EXCEPT !.external["HOST"].required = TRUE],
     [Open EXCEPT !.external = [n \in {} |-> Entry(FALSE)]],
     [Base EXCEPT !.version = 2], [Base EXCEPT !.version = 3],
     [Base EXCEPT !.loader["APP_DIR"].role = "config"],
     [Base EXCEPT !.reload.mode = "none"], [Base EXCEPT !.reload.layers = {"secrets"}],
     [Base EXCEPT !.digest = "2", !.release = "2"], [Base EXCEPT !.schema = "new"]}

Known == {Base} \cup KeyEdits \cup OtherEdits
Vendored(contract) == [read |-> "contract", contract |-> contract]
MCDocuments == {Vendored(c) : c \in Known} \cup {Absent, [read |-> "broken"]}

Written(entries, rules) == [entries |-> entries, rules |-> rules]
Deployment(env, files, doc) == [env |-> env, files |-> files, doc |-> doc]
NoDoc == [p \in {} |-> Written({}, {})]

MCDeployments ==
    {Deployment("APP_A" :> "value", {}, NoDoc),
     Deployment("APP_DIR" :> "secrets_dir", {"a"}, NoDoc),
     Deployment("HOST" :> "value", {}, "a" :> Written({"x"}, {"r"})),
     Deployment("K8S_HOST" :> "value", {}, "a" :> Written({"y"}, {"s"})),
     Deployment("NEW_A" :> "value", {}, NoDoc),
     Deployment("CFG" :> "value", {}, NoDoc),
     Deployment("HOST" :> "value", {}, "r" :> Written({}, {})),
     Deployment("HOST" :> "value" @@ "APP_C" :> "value" @@ "APP_B" :> "value", {},
                "a" :> Written({}, {"r", "s"}))}
=============================================================================
