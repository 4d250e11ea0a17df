-------------------------- MODULE MCSchemaProducer --------------------------
(* Six programs, their lines in every order, and hand-written constraints;   *)
(* the programs a Java class can be written for are written in Java as well. *)
EXTENDS Conformance

VARIABLES
    probe,      \* a constraint written by hand, and a value to hold against it
    pattern     \* a pattern put before the parsers; no program is built from it

MCPrefix     == <<"app", "_">>
MCMaxDepth   == 6
MCMaxNesting == 3

MCLength   == "" :> 0 @@ "a" :> 1 @@ "bb" :> 2 @@ "terms" :> 5 @@ "Terms" :> 5 @@ "#" :> 1
MCLanguage == "any" :> {"a", "bb"} @@ "short" :> {"a"}
              @@ "slug" :> {"a", "bb", "terms"} @@ "foreign" :> {"a", "bb"}
MCPortable == {"any", "short", "slug"}

MCAtoms ==
    "auth" :> <<"auth">> @@ "login" :> <<"login">> @@ "file" :> <<"file">>
    @@ "unit" :> <<"unit">> @@ "unit_file" :> <<"unit", "_", "file">>
    @@ "a_" :> <<"a", "_">> @@ "id" :> <<"id">> @@ "entry" :> <<"entry">>
    @@ "distDir" :> <<"distdir">> @@ "routes" :> <<"routes">>
    @@ "limits" :> <<"limits">> @@ "max" :> <<"max">> @@ "config" :> <<"config">>
    @@ "terms" :> <<"terms">> @@ "Terms" :> <<"terms">> @@ "a" :> <<"a">>
    @@ "bb" :> <<"bb">> @@ "token" :> <<"token">> @@ "mode" :> <<"mode">>
    @@ "url" :> <<"url">> @@ "kind" :> <<"kind">> @@ "grace" :> <<"grace">>
    @@ "days" :> <<"days">>
MCLower == DOMAIN MCAtoms \ {"distDir", "Terms"}

-----------------------------------------------------------------------------
(* Types.                                                                  *)

Leaf(name, ty, required, secret, aliases) ==
    [call |-> "leaf", name |-> name, ty |-> ty, required |-> required,
     secret |-> secret, aliases |-> aliases]

Scope(call, name, class, of) ==
    [call |-> call, name |-> name, class |-> class, of |-> of]

Str     == [is |-> "string"]
Ranged(lo, hi) == [is |-> "integer", min |-> lo, max |-> hi]
MapOf(ty) == [is |-> "map", of |-> ty]

Route ==
    [is |-> "struct", of |->
        <<Leaf("url", Str, FALSE, FALSE, {}),
          Leaf("kind", [is |-> "choice", values |-> {"a", "bb"}], FALSE, FALSE, {}),
          Scope("nested", "grace", "none",
                <<Leaf("days", Ranged(0, 2), FALSE, FALSE, {})>>),
          [call |-> "deny"]>>]

\* A key under an alias, a section that may be left out, a class on a section,
\* a secret, and a key whose name does not survive the fold.
Plain ==
    <<Leaf("auth", Str, TRUE, FALSE, {"login"}),
      Scope("optional", "", "none",
            <<Scope("nested", "limits", "none",
                    <<Leaf("max", Ranged(0, 2), TRUE, FALSE, {}),
                      Scope("reload", "", "live",
                            <<Leaf("mode", [is |-> "choice", values |-> {"a", "bb"}],
                                   FALSE, FALSE, {})>>)>>)>>),
      Leaf("token", Str, FALSE, TRUE, {}),
      Leaf("config", Str, FALSE, FALSE, {}),
      Leaf("distDir", Str, FALSE, FALSE, {"unit"})>>

\* The same without what a Java class cannot say.
Bare ==
    <<Leaf("auth", Str, TRUE, FALSE, {"login"}),
      Scope("nested", "limits", "none",
            <<Leaf("max", Ranged(0, 2), TRUE, FALSE, {}),
              Leaf("mode", [is |-> "choice", values |-> {"a", "bb"}], FALSE, FALSE, {}),
              [call |-> "deny"]>>),
      Leaf("token", Str, FALSE, TRUE, {}),
      Leaf("config", Str, FALSE, FALSE, {}),
      Leaf("distDir", Str, FALSE, FALSE, {"unit"})>>

\* A map of structs, and a sequence.
Routes ==
    <<Leaf("routes", MapOf(Route), FALSE, FALSE, {}),
      Leaf("id", [is |-> "sequence", unique |-> TRUE, of |-> Str], FALSE, FALSE, {})>>

\* A key whose variable would be read as another key's indirection.
Indirect ==
    <<Leaf("unit", Str, FALSE, FALSE, {}),
      Scope("nested", "a", "none", <<Leaf("file", Str, FALSE, FALSE, {})>>)>>

\* Segments that end in the separator's own character.
Edge ==
    <<Leaf("a", Str, FALSE, FALSE, {}),
      Scope("nested", "unit", "none", <<Leaf("a_", Str, FALSE, FALSE, {})>>),
      Scope("nested", "a_", "none", <<Leaf("bb", Str, FALSE, FALSE, {})>>)>>

\* Two flattened structs with one field in common.
Twice ==
    <<Leaf("auth", Str, FALSE, FALSE, {}),
      Scope("flatten", "", "none", <<Leaf("auth", Str, FALSE, FALSE, {})>>)>>

-----------------------------------------------------------------------------
(* Conditions, refinements and values of the routes.                       *)

C(is, path, to) == [is |-> is, path |-> path, to |-> to]

Rule ==
    [is |-> "when", path |-> <<>>,
     if |-> C("differs", <<"kind">>, Text("a")),
     then |-> [is |-> "all", path |-> <<>>, of |->
                 <<C("empty", <<"url">>, 0), C("above", <<"grace", "days">>, 0)>>]]

Either ==
    [is |-> "one", path |-> <<>>, of |->
        <<C("non-empty", <<"url">>, 0), C("equals", <<"kind">>, Text("bb")),
          C("absent", <<"grace", "days">>, 0)>>]

R(path, kind, arg) == [path |-> path, kind |-> kind, arg |-> arg]

RouteLines ==
    {R(<<"routes">>, "entries", {"terms"}),
     R(<<"routes">>, "entries", {"Terms"}),
     R(<<"routes">>, "names", "slug"), R(<<"routes">>, "names", "short"),
     R(<<"routes", "*", "url">>, "pattern", "any"),
     R(<<"routes", "*", "kind">>, "pattern", "short"),
     R(<<"routes", "*">>, "holds", Rule), R(<<"routes", "*">>, "holds", Either),
     R(<<"id", "*">>, "pattern", "short"), R(<<"id", "terms">>, "pattern", "short")}

Obj(f) == Object(f)

RouteValues ==
    {Obj(<<>>), Obj("url" :> Text("a")), Obj("url" :> Text("")),
     Obj("kind" :> Text("a") @@ "url" :> Text("bb")),
     Obj("kind" :> Text("bb") @@ "grace" :> Obj("days" :> Num(1))),
     Obj("kind" :> Text("bb") @@ "grace" :> Obj(<<>>)),
     Obj("url" :> Text("") @@ "grace" :> Obj("days" :> Num(0)))}

RoutesValues ==
    {Obj(<<>>), Obj("terms" :> Obj(<<>>)), Text("a"),
     Obj("a" :> Obj("login" :> Text("a"))),
     Obj("a" :> Obj("grace" :> Obj("login" :> Text("a"))))}
    \cup {Obj("a" :> r) : r \in RouteValues}
    \cup {Obj("terms" :> Obj("url" :> Text("a")) @@ "a" :> r @@ "bb" :> r) :
            r \in {Obj("url" :> Text("")), Obj("kind" :> Text("bb"))}}

RouteRoots ==
    {Obj("routes" :> Obj("a" :> Obj("url" :> Text("a"))) @@ "id" :> [arr |-> <<>>]),
     Obj("routes" :> Obj("terms" :> Obj("kind" :> Text("bb")))
         @@ "id" :> [arr |-> <<Text("a"), Text("bb")>>])}

PlainLines ==
    {R(<<"auth">>, "pattern", "any"), R(<<"limits", "mode">>, "pattern", "short"),
     R(<<"limits", "max">>, "pattern", "short"), R(<<"config">>, "pattern", "any")}

PlainRoots ==
    {Obj("auth" :> Text("") @@ "token" :> Text("a") @@ "config" :> Text("")
         @@ "distDir" :> Text("a")
         @@ "limits" :> Obj("max" :> Num(1) @@ "mode" :> Text("bb"))),
     Obj("config" :> Num(1)
         @@ "limits" :> Obj("max" :> Num(3) @@ "mode" :> Text("a")))}

KeyValues(path) ==
    CASE path = <<"routes">> -> RoutesValues
      [] path = <<"id">> -> {v["id"] : v \in {r.obj : r \in RouteRoots}}
      [] path = <<"limits", "max">> -> {Num(0), Num(3), [num |-> 1]}
      [] OTHER -> {Text(t) : t \in {"", "a", "bb"}}

-----------------------------------------------------------------------------
(* Programs.                                                               *)

Carrying(names) == {MCPrefix \o n : n \in names}

LoaderNames == Carrying({<<"config">>}) \cup {<<"conf">>}

Ignore(name, star) == [name |-> name, star |-> star]

Says ==
    {[env |-> {<<"home">>}, ignore |-> {Ignore(<<"kube">>, TRUE)}],
     [env |-> {<<"conf">>}, ignore |-> {}],
     [env |-> {<<"home">>}, ignore |-> {Ignore(<<"conf">>, TRUE)}],
     [env |-> {<<"home">>}, ignore |-> {Ignore(<<"home">>, FALSE)}],
     [env |-> {<<"app", "_", "unit">>}, ignore |-> {}],
     [env |-> {}, ignore |-> {Ignore(<<"app", "_", "a">>, TRUE)}],
     [env |-> {}, ignore |-> {Ignore(<<"app">>, TRUE)}]}

Supports == {{}, {[mode |-> "none", layers |-> {}]},
             {[mode |-> "rebuild", layers |-> {"document"}]}}

Program(type, separator, support, lines, roots, says) ==
    [type |-> type, separator |-> separator, reserved |-> LoaderNames,
     loader |-> LoaderNames, support |-> support, lines |-> lines,
     roots |-> roots, says |-> says]

Double == <<"_", "_">>
Modest == {CHOOSE s \in Says : <<"home">> \in s.env /\ s.ignore = {Ignore(<<"kube">>, TRUE)}}

MCPrograms ==
    {Program(Plain, Double, support, PlainLines, PlainRoots, Says) :
        support \in Supports}
    \cup {Program(Bare, Double, {}, PlainLines, PlainRoots, Says)}
    \cup {Program(Routes, Double, {}, RouteLines, RouteRoots, Modest)}
    \cup {Program(type, separator, {}, {}, {}, Modest) :
            type \in {Indirect, Edge, Twice, Plain}, separator \in {Double, <<"_">>}}

-----------------------------------------------------------------------------
(* Constraints written by hand: Key::constraint is a public field.         *)

Unknown == "format" :> "email"
Foreign == "pattern" :> "foreign"
Atomic  == {Unknown, Foreign, Typed("string"), "const" :> Text("a"),
            "pattern" :> "short", "minLength" :> 1}

Negated(s) == "not" :> s

Hand ==
    Atomic \cup {Negated(s) : s \in Atomic}
    \cup {"anyOf" :> <<s, t>> : s \in Atomic, t \in {Unknown, "const" :> Text("bb")}}
    \cup {"oneOf" :> <<s, t>> : s \in Atomic, t \in {Unknown, Typed("string")}}
    \cup {"if" :> s @@ "then" :> t : s \in {Unknown, "const" :> Text("a")}, t \in Atomic}
    \cup {"if" :> s @@ "then" :> t @@ "else" :> ("minLength" :> 2) :
            s \in {Foreign, "const" :> Text("a")}, t \in {Typed("string"), Foreign}}
    \cup {"allOf" :> <<s, t>> @@ Typed("string") : s \in {Unknown, Foreign}, t \in Atomic}
    \cup {Negated(Negated(s)) : s \in {Unknown, "const" :> Text("a")}}
    \cup {"properties" :> ("a" :> s) @@ "additionalProperties" :> {t} @@ "propertyNames" :> u :
            s \in {Unknown, Typed("string")}, t \in {Foreign, Typed("number")},
            u \in {Foreign, "maxLength" :> 1}}
    \cup {"items" :> Negated(s) @@ "uniqueItems" :> TRUE : s \in {Unknown, "const" :> Text("a")}}
    \cup {"contains" :> s @@ "minItems" :> 1 : s \in {"const" :> Text("a"), Foreign}}
    \cup {"anyOf" :> <<s, "contains" :> t>> : s, t \in {"const" :> Text("a"), Typed("number")}}
    \cup {Negated(Negated(Negated(Negated(Negated(Negated(Negated("const" :> Text("a"))))))))}

HandValues ==
    {Text(""), Text("a"), Text("bb"), Num(1), Obj("a" :> Text("a")),
     Obj("a" :> Text("a") @@ "bb" :> Num(1)), [arr |-> <<Text("a"), Text("a")>>],
     [arr |-> <<Text("bb")>>]}

Word(word, sign, digits, literal) ==
    [padded |-> FALSE, sign |-> sign, word |-> word, digits |-> digits,
     bracketed |-> literal # {}, literal |-> literal]

\* The texts of a variable: words, signed numbers (but `-0`, of which the source
\* does not say how figment reads it), tables and lists.
MCTexts ==
    {Word(w, "", {}, {}) : w \in {"", "a", "bb", "Terms"}}
    \cup {Word("#", sign, {n}, {}) : sign \in {"", "+"}, n \in {0, 2, 4, 8}}
    \cup {Word("#", "-", {n}, {}) : n \in {2, 8}}
    \cup {Word("#", "", {}, {v}) : v \in RoutesValues \ {Text("a")}}
    \cup {Word("#", "", {}, {[arr |-> v]}) :
            v \in {<<>>, <<Text("a")>>, <<Text("a"), Text("a")>>, <<Num(1)>>}}

NoProbe == [schema |-> <<>>, value |-> Text("")]

\* `(` stands at the place of `$`, so that one may take the other's place.
Signs == <<"$", "&", "*", "-", "1", "2", "999", ":", "?", "0041", "D800", "[", "\\", "]", "^", "a",
           "d", "t", "u", "{", "|", "}", "~", ",", ")", ".", "n", "r", "f", "+">>

MCCode ==
    "(" :> 1 @@ "astral" :> 70000
    @@ [c \in {Signs[i] : i \in DOMAIN Signs} |-> CHOOSE i \in DOMAIN Signs : Signs[i] = c]

Digit(width, value) == [width |-> width, value |-> value]

Subset == INSTANCE PortablePatterns WITH
    Code <- MCCode, Surrogates <- {55296}, Hex <- "0041" :> 15 @@ "D800" :> 55296,
    Digits <- "1" :> Digit(10, 1) @@ "2" :> Digit(10, 2) @@ "999" :> Digit(1000, 999),
    MaxRepeat <- 1000, MaxCount <- 4000, MaxGroups <- 2, MaxLength <- 7

Tokens(alphabet, n) == UNION {[1..k -> alphabet] : k \in 0..n}
Around(open, middles, close) == {open \o w \o close : w \in middles}

\* Three characters of any kind; four inside a class, a count or a group.
Patterns ==
    Tokens({"$", "(", ")", "*", "+", "[", "]", "\\", "^", "a", "{", "}", "|", "1"}, 3)
    \cup Tokens({"a", ".", "\\", "astral", "u", "0041", "D800", "d", "t", "-", "?"}, 3)
    \cup Around(<<"[">>, Tokens({"]", "[", "^", "-", "\\", "&", "a", "$", "~"}, 4), <<"]">>)
    \cup Around(<<"[", "u">>, Tokens({"-", "\\", "u", "0041", "astral"}, 3), <<"]">>)
    \cup Around(<<"a", "{">>, Tokens({"1", "2", "999", ",", "}", "?"}, 4), <<"}">>)
    \cup Around(<<"(">>, Tokens({"(", ")", "?", ":", "|", "a", "$"}, 4), <<")">>)
    \cup Around(<<"(", "?", ":">>, Tokens({"(", ")", "|", "a", "*", "["}, 3), <<")">>)

\* A program to build, or a pattern to read.
MCInit ==
    /\ JInit
    /\ \/ /\ pattern = <<>>
          /\ probe \in IF program.type = Twice
                       THEN [schema : Hand, value : HandValues] ELSE {NoProbe}
       \/ /\ program = CHOOSE p \in Programs : p.type = Twice
          /\ probe = NoProbe /\ pattern \in Patterns \ {<<>>}

MCNext == pattern = <<>> /\ JNext /\ UNCHANGED <<probe, pattern>>

MCSpec == MCInit /\ [][MCNext]_<<vars, java, probe, pattern>>

-----------------------------------------------------------------------------
(* The properties, of the names, values and documents tried.               *)

Meanings == SUBSET {Text("a"), Text("bb"), Num(1)}

\* A hand-written constraint is called failed only where every meaning of the
\* keywords and patterns the producer does not read makes the value invalid, and
\* satisfied only where every one makes it valid: check.rs:1.
RefusalIsCertain ==
    LET verdict == Verdict(probe.schema, probe.value)
    IN  /\ verdict = "fails" =>
             \A meaning \in Meanings : ~Valid(probe.schema, probe.value, meaning)
        /\ verdict = "holds" =>
             \A meaning \in Meanings : Valid(probe.schema, probe.value, meaning)

\* Every refinement of the routes means what its author says, of the values a
\* key takes and of the default it is left with, in every order.
RefinementsHold ==
    /\ RefinementsMeanWhatTheySay([p \in DOMAIN keys |-> KeyValues(p)])
    /\ DefaultsFollowRefinements

Words == {<<"auth">>, <<"login">>, <<"unit">>, <<"file">>, <<"a">>, <<"bb">>,
          <<"config">>, <<"distdir">>, <<"limits">>, <<"mode">>, <<"a", "_">>}

Names ==
    Words \cup {w \o Suffix : w \in Words}
    \cup {v \o s \o w : v, w \in Words, s \in {<<"_">>, <<"_", "_">>}}

\* The published names of a contract are what its loader reads.
NamesReach == NamesReachTheirKey(Names)

Documents ==
    PlainRoots \cup {Obj(<<>>), Obj("login" :> Text("a") @@ "limits" :> Obj(<<>>)),
     Obj("auth" :> Text("a") @@ "limits" :> Text("a")),
     Obj("auth" :> Num(1)), Obj("atuh" :> Text("a")),
     Obj("login" :> Num(1)), Obj("unit" :> Text("a")),
     Obj("limits" :> Obj("max" :> Num(1) @@ "maxx" :> Num(1))),
     Obj("limits" :> Obj("max" :> Num(1))), Obj("a" :> Text("a")),
     Obj("a_" :> Obj("bb" :> Text("a"))), Obj("distDir" :> Text("a"))}
    \cup {Obj("routes" :> v) : v \in RoutesValues}

\* The published schema of the file is that of its keys.
DocumentHolds == DocumentSaysWhatTheKeysSay(Documents)

\* Both producers read a hand-written constraint alike, publish one program alike
\* (tiers 1 and 2 of spec/v1/CONFORMANCE.md, with what Disputed names), and accept
\* the patterns the format describes and no other (FORMAT.md, Portable patterns).
ProducersAgree ==
    /\ Verdict(probe.schema, probe.value) = JVerdict(probe.schema, probe.value)
    /\ SamePublished([p \in DOMAIN keys |-> KeyValues(p)], Documents)
    /\ pattern = <<>> \/ Subset!ReadAlike(pattern)

=============================================================================
