--------------------------- MODULE MCChartSurface ---------------------------
(***************************************************************************)
(* Instances of ChartSurface for TLC: an api and a web image, a chart of   *)
(* five layouts.                                                           *)
(***************************************************************************)
EXTENDS ChartSurface

Mode == <<"mode">>
Loader == <<"loader">>
Rate == <<"s", "rate">>
Sites == <<"s", "sites">>
Token == <<"s", "token">>
Twin == <<"s", "to_ken">>
Zone == <<"zone">>

MCDocs == {"api", "web"}
MCKeyOrder == <<Loader, Mode, Rate, Sites, Twin, Token, Zone>>
MCNameOrder == <<"loader", "mode", "rate", "s", "sites", "token", "zone">>
MCCamel == [n \in {"loader", "mode", "rate", "s", "sites", "token", "to_ken", "zone"} |->
              IF n = "to_ken" THEN "token" ELSE n]
MCServiceKey == {"api"}

Base == [form |-> "text", required |-> FALSE, secret |-> FALSE, reserved |-> FALSE,
         constraint |-> "type" :> {"string"}, default |-> "none", file |-> TRUE]
Integer == [Base EXCEPT !.form = "literal", !.default = "30",
              !.constraint = "type" :> {"integer"} @@ "minimum" :> "0"]
Enumerated == [Base EXCEPT !.required = TRUE, !.constraint = "enum" :> {"a", "b"}]
Elements == [Base EXCEPT !.form = "structured",
               !.constraint = "type" :> {"object"} @@ "additionalProperties" :> "element"]
Opaque == [Elements EXCEPT !.constraint = "type" :> {"object"}]
Secret == [Base EXCEPT !.secret = TRUE]
Reserved == [Base EXCEPT !.reserved = TRUE]

Old == Mode :> Enumerated @@ Rate :> Integer
MCReleases ==
    [d \in MCDocs |->
       IF d = "api"
       THEN {Old, Old @@ Sites :> Elements @@ Token :> Secret @@ Loader :> Reserved @@ Zone :> Base,
             Old @@ Sites :> Opaque @@ Twin :> Base @@ Token :> Secret,
             Mode :> Base @@ Token :> [Secret EXCEPT !.form = "literal"]}
       ELSE {Rate :> Integer, Rate :> [Integer EXCEPT !.default = "60"],
             Sites :> Elements, Mode :> Enumerated @@ Loader :> Reserved}]

Marked(indent, key, class, optional, entry) ==
    Block(indent, {[class |-> class, target |-> key, documents |-> {}, optional |-> optional,
                    when |-> <<>>]},
          Expected(entry.constraint, optional, class = "structured"))

Moded == <<Marked(0, Mode, "projection", FALSE, Enumerated), Key(0, "mode", "a")>>
Rated == <<Marked(2, Rate, "projection", TRUE, Integer), Key(2, "rate", "30")>>

\* A bound value at the end of its block, with plain values around it.
Usual == Moded \o <<Blank, Parent(0, "s")>> \o Rated \o <<Blank, Key(0, "replicas", "1")>>
\* The value of a credential is there already.
Held == Moded \o <<Parent(0, "s"), Key(2, "token", "blank")>> \o Rated
\* The block is there with no values, or in one line, or is not there.
Null == Moded \o <<Parent(0, "s")>>
Inline == Moded \o <<Flow(0, "s", {"rate"})>>
Short == <<Parent(0, "hosts"), Item(2), Item(2)>> \o Moded
\* A bound list nobody describes, transcribed when both images were of release 1.
Listed == Moded \o <<Parent(0, "s"),
                     Note([sort |-> "handwritten", path |-> Sites, position |-> <<>>, read |-> 1]),
                     Marked(2, Sites, "structured", TRUE, Elements), Parent(2, "sites"), Item(4)>>

\* One key bound by two values, which both say so or not.
Twice(class) == <<Marked(0, Mode, class, FALSE, Enumerated), Key(0, "mode", "a"),
                  Marked(0, Mode, "composed", FALSE, Enumerated), Key(0, "replicas", "1"),
                  Blank, Parent(0, "s")>> \o Rated

Templates == [derived |-> TRUE, wraps |-> TRUE, roots |-> {"mode"}, names |-> {"mode", "rate"},
              secretData |-> TRUE, files |-> {}, rendered |-> {}]
Declaration == [bindings |-> TRUE, unbound |-> {}, credentials |-> {}, inline |-> {}]

ChartOf(file, declaration, templates) ==
    [contracts |-> [d \in MCDocs |-> IF d = "api" THEN Old ELSE Rate :> Integer],
     declaration |-> declaration, file |-> file, templates |-> templates]

MCCharts ==
    {ChartOf(file, Declaration, Templates) : file \in {Usual, Held, Null, Inline, Short, Twice("composed"), Twice("projection")}}
    \cup {ChartOf(Usual, [Declaration EXCEPT !.inline = {"unbound"}], Templates),
          ChartOf(Usual, Declaration, [Templates EXCEPT !.wraps = FALSE]),
          [ChartOf(Listed, Declaration, [Templates EXCEPT !.names = @ \cup {"sites"}]) EXCEPT
             !.contracts = [d \in MCDocs |-> IF d = "api" THEN Mode :> Enumerated @@ Sites :> Opaque
                                             ELSE Sites :> Opaque]]}

MCAsked == {{}, {Rate}, {Token, Twin}}

MCStricter == {"minimum" :> "10", "pattern" :> "x"}
=============================================================================
