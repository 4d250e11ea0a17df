----------------------------- MODULE ValueCheck -----------------------------
(***************************************************************************)
(* How the consumer holds one value against what a contract publishes of   *)
(* its key (cli/src/value.rs), and what the producer publishes of the text *)
(* a variable may hold (rust/src/schema/rust_type.rs).                     *)
(*                                                                         *)
(* The text of a variable is a record [padded, sign, word, digits,         *)
(* bracketed, literal]: `word` is what is left once it is trimmed,         *)
(* `digits` the number the word is, its sign aside, and `literal` the TOML *)
(* value it is, none or one of each.  A check says "holds", "fails" or     *)
(* "error": a keyword or a form this build does not implement.             *)
(***************************************************************************)
EXTENDS SchemaProducer

-----------------------------------------------------------------------------
(* rust_type.rs: the text form of a type, and the pattern published of it. *)

\* one_of, integer_text and bracketed: all three permit outer whitespace.
Fits(pattern, text) ==
    CASE pattern.is = "one of"   -> text.word \in pattern.values
      [] pattern.is = "integer"  ->
            /\ text.digits # {}
            /\ text.sign \in {"", "+"} \cup (IF pattern.signed THEN {"-"} ELSE {})
      [] pattern.is = "brackets" -> text.bracketed

\* text_constraint and in_text
InText(ty) ==
    CASE ty.is = "choice" ->
            [form |-> "choice", pattern |-> {[is |-> "one of", values |-> ty.values]}]
      [] ty.is = "string" -> [form |-> "text", pattern |-> {}]
      [] ty.is = "integer" ->
            [form |-> "integer", pattern |-> {[is |-> "integer", signed |-> ty.min < 0]}]
      [] ty.is \in {"map", "sequence"} ->
            [form |-> "structured", pattern |-> {[is |-> "brackets"]}]
      [] OTHER -> [form |-> "unknown", pattern |-> {}]

RECURSIVE TypeAt(_, _)

\* The type of the leaf a program reports at a path.
TypeAt(calls, path) ==
    UNION {LET call == calls[i]
           IN  CASE call.call = "leaf" ->
                       IF path = <<call.name>> THEN {call.ty} ELSE {}
                 [] call.call = "nested" ->
                       IF Head(path) = call.name /\ Len(path) > 1
                       THEN TypeAt(call.of, Tail(path)) ELSE {}
                 [] call.call = "deny" -> {}
                 [] OTHER -> TypeAt(call.of, path) :
           i \in DOMAIN calls}

\* Entry: a key as the value checks see it.
EntryOf(key) ==
    LET ty == CHOOSE t \in TypeAt(program.type, key.path) : TRUE
    IN  [form       |-> InText(ty).form,
         text       |-> InText(ty).pattern,
         values     |-> IF ty.is = "choice" THEN ty.values ELSE {},
         constraint |-> key.constraint]

-----------------------------------------------------------------------------
(* The constraint vocabulary.                                              *)

Assertions ==
    {"type", "enum", "const", "minimum", "maximum", "exclusiveMinimum",
     "exclusiveMaximum", "multipleOf", "pattern", "minLength", "maxLength"}
Containers == {"items", "additionalProperties", "properties", "propertyNames"}
Combinators == {"allOf", "anyOf", "oneOf", "not", "if", "then", "else"}
Collections ==
    {"required", "uniqueItems", "minItems", "maxItems", "minProperties", "maxProperties"}
Annotations == {"description", "title", "default", "examples", "$comment", "format"}

Vocabulary == Assertions \cup Containers \cup Combinators \cup Collections \cup Annotations

\* The first of a sequence of checks that does not hold decides.
InOrder(checks) ==
    LET others == SelectSeq(checks, LAMBDA check : check # "holds")
    IN  IF others = <<>> THEN "holds" ELSE Head(others)

Held(condition) == IF condition THEN "holds" ELSE "fails"

\* bounds
Bounds(schema, value) ==
    /\ \A keyword \in {"minimum", "maximum", "exclusiveMinimum", "exclusiveMaximum"}
                          \cap DOMAIN schema : Bound(keyword, schema[keyword], value)
    /\ ("multipleOf" \in DOMAIN schema /\ schema["multipleOf"] # 0) =>
         value.num % schema["multipleOf"] = 0

\* flat: a pattern this engine cannot compile refuses nothing.
Flat(schema, value, compiled) ==
    LET says(keyword, holds) == keyword \in DOMAIN schema => holds
    IN  Held(/\ says("type", \E name \in schema["type"] : IsType(value, name))
             /\ says("enum", value \in schema["enum"])
             /\ says("const", value = schema["const"])
             /\ Is("num", value) => Bounds(schema, value)
             /\ Is("txt", value) =>
                  /\ says("pattern", schema["pattern"] \in compiled =>
                                         value.txt \in Language[schema["pattern"]])
                  /\ says("minLength", Length[value.txt] >= schema["minLength"])
                  /\ says("maxLength", Length[value.txt] <= schema["maxLength"]))

RECURSIVE AssertValue(_, _, _)

\* container, over a list.
ListHolds(schema, items, compiled) ==
    LET says(keyword, holds) == Held(keyword \in DOMAIN schema => holds)
        element(i) == IF "items" \in DOMAIN schema
                      THEN AssertValue(schema["items"], items[i], compiled) ELSE "holds"
    IN  InOrder(<<says("minItems", Len(items) >= schema["minItems"]),
                  says("maxItems", Len(items) <= schema["maxItems"]),
                  says("uniqueItems", \A i, j \in DOMAIN items :
                                          i # j => items[i] # items[j])>>
                \o [i \in DOMAIN items |-> element(i)])

\* container, over an object.  `minProperties` and `maxProperties` are in the
\* vocabulary and nothing reads them; a level that is closed is the union's.
ObjectHolds(schema, fields, compiled) ==
    LET says(keyword, holds) == Held(keyword \in DOMAIN schema => holds)
        declared == Branch(schema, "properties")
        over(names, check(_)) ==
            LET order == SetToSeq(names) IN [i \in DOMAIN order |-> check(order[i])]
        named(name) == AssertValue(schema["propertyNames"], Text(name), compiled)
        field(name) == AssertValue(declared[name], fields[name], compiled)
        extra(name) == InOrder(SetToSeq({AssertValue(element, fields[name], compiled) :
                                    element \in schema["additionalProperties"]}))
        when(keyword, names) == IF keyword \in DOMAIN schema THEN names ELSE {}
    IN  InOrder(<<says("required", schema["required"] \subseteq DOMAIN fields)>>
                \o over(DOMAIN declared \cap DOMAIN fields, field)
                \o over(when("propertyNames", DOMAIN fields), named)
                \o over(when("additionalProperties", DOMAIN fields \ DOMAIN declared),
                        extra))

Container(schema, value, compiled) ==
    IF Is("arr", value) THEN ListHolds(schema, value.arr, compiled)
    ELSE IF Is("obj", value) THEN ObjectHolds(schema, value.obj, compiled) ELSE "holds"


\* oneOf: every branch is read, and exactly one has to hold.
ExactlyOne(found) ==
    CASE "error" \in Range(found) -> "error"
      [] OTHER -> Held(Cardinality({i \in DOMAIN found : found[i] = "holds"}) = 1)

\* anyOf: read up to the first branch that holds.
SomeHolds(found) ==
    LET others == SelectSeq(found, LAMBDA check : check # "fails")
    IN  IF found = <<>> THEN "holds" ELSE IF others = <<>> THEN "fails" ELSE Head(others)

\* combined: allOf, anyOf, oneOf, not, and if with the branch it selects.
Combined(schema, value, compiled) ==
    LET each(schemas) == [i \in DOMAIN schemas |-> AssertValue(schemas[i], value, compiled)]
        of(keyword) == AssertValue(schema[keyword], value, compiled)
        selected == IF of("if") = "holds" THEN "then" ELSE "else"
        when(keyword, check) == IF keyword \in DOMAIN schema THEN check ELSE "holds"
    IN  InOrder(<<when("allOf", InOrder(each(schema["allOf"]))),
                  when("anyOf", SomeHolds(each(schema["anyOf"]))),
                  when("oneOf", ExactlyOne(each(schema["oneOf"]))),
                  when("not", CASE of("not") = "holds" -> "fails"
                                [] of("not") = "fails" -> "holds"
                                [] OTHER               -> "error"),
                  when("if", IF of("if") = "error" THEN "error"
                             ELSE IF selected \in DOMAIN schema THEN of(selected)
                             ELSE "holds")>>)

\* assert_value
AssertValue(schema, value, compiled) ==
    IF ~(DOMAIN schema \subseteq Vocabulary) THEN "error"
    ELSE InOrder(<<Flat(schema, value, compiled), Container(schema, value, compiled),
                   Combined(schema, value, compiled)>>)

-----------------------------------------------------------------------------
(* The two steps.                                                          *)

\* form: the characters, against what the producer measured.
FormHolds(entry, text) ==
    entry.form = "unknown" \/ \A pattern \in entry.text : Fits(pattern, text)

\* REGISTRY: the loaders whose reads were measured.
Measured == {"figment", "terrace-java"}

\* Figment::parse: the value this loader reads, if it can read the text so.
Parsed(form, text) ==
    CASE form = "integer" ->
            {Num(IF text.sign = "-" THEN 0 - n ELSE n) : n \in text.digits}
      [] form = "structured" -> IF text.bracketed THEN text.literal ELSE {}
      [] OTHER -> {Text(text.word)}

\* range: not performed for a loader nobody measured.
RangeOf(entry, loader, text, compiled) ==
    LET read == Parsed(entry.form, text)
        chosen == \A value \in read : entry.values # {} => value.txt \in entry.values
    IN  CASE entry.form \in {"text", "unknown"} -> "holds"
          [] loader \notin Measured             -> "not checked"
          [] read = {}                          -> "fails"
          [] entry.form = "choice" /\ ~chosen   -> "fails"
          [] OTHER ->
                InOrder(SetToSeq({AssertValue(c, value, compiled) :
                                      c \in entry.constraint, value \in read}))

-----------------------------------------------------------------------------
(* What the checks are about.                                              *)

RECURSIVE Stripped(_)

Unread(schema) ==
    {"minProperties", "maxProperties"}
    \cup {k \in DOMAIN schema : k = "additionalProperties" /\ schema[k] = {}}

\* A constraint without what the consumer passes over: a bound on the entries of
\* an object, and the closing of a level.
Stripped(schema) ==
    [keyword \in DOMAIN schema \ Unread(schema) |->
        CASE keyword = "additionalProperties" -> {Stripped(e) : e \in schema[keyword]}
          [] keyword \in {"items", "not", "if", "then", "else", "propertyNames"} ->
                Stripped(schema[keyword])
          [] keyword = "properties" ->
                [name \in DOMAIN schema[keyword] |-> Stripped(schema[keyword][name])]
          [] keyword \in {"allOf", "anyOf", "oneOf"} ->
                [i \in DOMAIN schema[keyword] |-> Stripped(schema[keyword][i])]
          [] OTHER -> schema[keyword]]

\* What figment hands the program for a text: a number, a literal, or the word.
Loaded(text) ==
    CASE text.digits # {} ->
            {Num(IF text.sign = "-" THEN 0 - n ELSE n) : n \in text.digits}
      [] text.literal # {} -> text.literal
      [] OTHER -> {Text(text.word)}

\* Where the producer decides what a constraint says of a value, so does the
\* consumer, whichever of the other patterns its engine compiles.
ConsumerAgrees(schema, value, compiled) ==
    LET says == AssertValue(schema, value, compiled)
        verdict == Verdict(Stripped(schema), value)
    IN  verdict # "undecided" /\ says # "error" => says = verdict

\* The text of a variable is refused only where the program would not load it
\* under what it promises, and of a form that can be read nothing else passes.
TextChecksAreReal(Texts) ==
    \A p \in DOMAIN keys : \A text \in Texts :
        LET entry == EntryOf(keys[p])
            range == RangeOf(entry, "figment", text, Portable)
            loads == \A c \in keys[p].constraint, value \in Loaded(text) :
                         Valid(Stripped(c), value, {})
        IN  /\ ~FormHolds(entry, text) \/ range = "fails" => ~loads
            /\ (FormHolds(entry, text) /\ range = "holds"
                  /\ entry.form \in {"integer", "choice", "structured"}) => loads
=============================================================================
