------------------------- MODULE ConstraintVerdict -------------------------
(***************************************************************************)
(* Whether a value satisfies a published constraint, as far as the         *)
(* producer can tell: rust/src/schema/check.rs.                            *)
(*                                                                         *)
(* A JSON value is a record with one field, named for its kind: [txt |->   *)
(* s], [num |-> n] (n is twice the number, so that halves exist), [nul |-> *)
(* 0], [arr |-> sequence], [obj |-> function from names to values].  A     *)
(* constraint is a function from keywords to their arguments.  "type",     *)
(* "enum" and "required" hold sets, "allOf", "anyOf" and "oneOf" sequences *)
(* of constraints, "additionalProperties" the set of constraints an extra  *)
(* entry may meet: none for `false`, {<<>>} for `true`.                    *)
(***************************************************************************)
EXTENDS Integers, Sequences, FiniteSets

CONSTANTS
    Length,     \* text -> how many characters it has
    Language,   \* pattern -> the texts it matches
    Portable,   \* the patterns every engine reads alike
    MaxDepth    \* MAX_DEPTH

Text(s)    == [txt |-> s]
Num(n)     == [num |-> 2 * n]
Object(f)  == [obj |-> f]

Is(kind, value) == kind \in DOMAIN value

-----------------------------------------------------------------------------
(* Verdict.                                                                *)

\* Verdict::and over any number of verdicts: a failure decides.
Every(verdicts) ==
    IF "fails" \in verdicts THEN "fails"
    ELSE IF "undecided" \in verdicts THEN "undecided" ELSE "holds"

Decided(holds) == IF holds THEN "holds" ELSE "fails"

\* is_type
IsType(value, name) ==
    CASE name = "null"    -> Is("nul", value)
      [] name = "object"  -> Is("obj", value)
      [] name = "array"   -> Is("arr", value)
      [] name = "string"  -> Is("txt", value)
      [] name = "number"  -> Is("num", value)
      [] name = "integer" -> Is("num", value) /\ value.num % 2 = 0

OfType(names, value) == Decided(\E name \in names : IsType(value, name))

Bound(keyword, limit, value) ==
    Is("num", value) =>
        CASE keyword = "minimum"          -> value.num >= limit
          [] keyword = "maximum"          -> value.num <= limit
          [] keyword = "exclusiveMinimum" -> value.num > limit
          [] keyword = "exclusiveMaximum" -> value.num < limit

\* length, count and size: a limit on how much a value of one kind holds.
Extent(value) ==
    IF Is("txt", value) THEN Length[value.txt]
    ELSE IF Is("arr", value) THEN Len(value.arr)
    ELSE Cardinality(DOMAIN value.obj)

AtLeast(kind, limit, value) == Is(kind, value) => Extent(value) >= limit
AtMost(kind, limit, value)  == Is(kind, value) => Extent(value) <= limit

\* pattern: one outside the portable subset may mean something else elsewhere.
Pattern(source, value) ==
    IF ~Is("txt", value) THEN "holds"
    ELSE IF source \notin Portable THEN "undecided"
    ELSE Decided(value.txt \in Language[source])

Unique(value) ==
    Is("arr", value) =>
        \A i, j \in DOMAIN value.arr : i # j => value.arr[i] # value.arr[j]

Required(names, value) == Is("obj", value) => names \subseteq DOMAIN value.obj

-----------------------------------------------------------------------------
(* The keywords that hold constraints.                                     *)

\* Mutant: a `not` over what nobody can tell counts as satisfied.
NotUnlessItHolds(verdict) == IF verdict = "holds" THEN "fails" ELSE "holds"

\* negated
Not(verdict) ==
    CASE verdict = "holds" -> "fails"
      [] verdict = "fails" -> "holds"
      [] OTHER             -> "undecided"

\* any_of stops at the first branch that does not fail, and says what it says.
AnyOf(verdicts) ==
    LET open == {i \in DOMAIN verdicts : verdicts[i] # "fails"}
    IN  IF verdicts = <<>> THEN "undecided"
        ELSE IF open = {} THEN "fails"
        ELSE verdicts[CHOOSE i \in open : \A j \in open : i <= j]

\* one_of_branches
OneOf(verdicts) ==
    LET holding == {i \in DOMAIN verdicts : verdicts[i] = "holds"}
    IN  IF verdicts = <<>> THEN "undecided"
        ELSE IF Cardinality(holding) >= 2 THEN "fails"
        ELSE IF \E i \in DOMAIN verdicts : verdicts[i] = "undecided"
             THEN "undecided"
        ELSE Decided(holding # {})

\* conditional: undecided unless both branches hold.
IfThenElse(condition, consequence, alternative) ==
    CASE condition = "holds" -> consequence
      [] condition = "fails" -> alternative
      [] OTHER -> IF {consequence, alternative} = {"holds"} THEN "holds"
                  ELSE "undecided"

Branch(schema, keyword) == IF keyword \in DOMAIN schema THEN schema[keyword] ELSE <<>>

\* additional: the entries `properties` does not declare.
Extras(schema, value) ==
    DOMAIN value.obj \ DOMAIN Branch(schema, "properties")

RECURSIVE Evaluate(_, _, _)

\* The keyword's verdict, an unknown keyword's being that nobody can tell.
OfKeyword(schema, keyword, value, depth) ==
    LET argument == schema[keyword]
        inside(constraint, held) == Evaluate(constraint, held, depth + 1)
        branches == [i \in DOMAIN argument |-> inside(argument[i], value)]
    IN  CASE keyword = "type"  -> OfType(argument, value)
          [] keyword = "enum"  -> Decided(value \in argument)
          [] keyword = "const" -> Decided(value = argument)
          [] keyword = "not"   -> Not(inside(argument, value))
          [] keyword \in {"minimum", "maximum", "exclusiveMinimum",
                          "exclusiveMaximum"} ->
                Decided(Bound(keyword, argument, value))
          [] keyword = "minLength"     -> Decided(AtLeast("txt", argument, value))
          [] keyword = "maxLength"     -> Decided(AtMost("txt", argument, value))
          [] keyword = "minItems"      -> Decided(AtLeast("arr", argument, value))
          [] keyword = "maxItems"      -> Decided(AtMost("arr", argument, value))
          [] keyword = "minProperties" -> Decided(AtLeast("obj", argument, value))
          [] keyword = "maxProperties" -> Decided(AtMost("obj", argument, value))
          [] keyword = "pattern"       -> Pattern(argument, value)
          [] keyword = "uniqueItems"   -> Decided(Unique(value))
          [] keyword = "items" ->
                IF Is("arr", value)
                THEN Every({inside(argument, value.arr[i]) :
                                i \in DOMAIN value.arr})
                ELSE "holds"
          [] keyword = "required" -> Decided(Required(argument, value))
          [] keyword = "properties" ->
                IF Is("obj", value)
                THEN Every({inside(argument[name], value.obj[name]) :
                                name \in DOMAIN argument \cap DOMAIN value.obj})
                ELSE "holds"
          [] keyword = "additionalProperties" ->
                IF ~Is("obj", value) \/ Extras(schema, value) = {} THEN "holds"
                ELSE IF argument = {} THEN "fails"
                ELSE Every(UNION {{inside(element, value.obj[name]) :
                                       name \in Extras(schema, value)} :
                                   element \in argument})
          [] keyword = "propertyNames" ->
                IF Is("obj", value)
                THEN Every({inside(argument, Text(name)) :
                                name \in DOMAIN value.obj})
                ELSE "holds"
          [] keyword = "allOf" ->
                Every({branches[i] : i \in DOMAIN branches})
          [] keyword = "anyOf" -> AnyOf(branches)
          [] keyword = "oneOf" -> OneOf(branches)
          [] keyword = "if" ->
                IfThenElse(inside(argument, value),
                           inside(Branch(schema, "then"), value),
                           inside(Branch(schema, "else"), value))
          [] keyword \in {"then", "else", "description"} -> "holds"
          [] OTHER -> "undecided"

\* evaluate
Evaluate(schema, value, depth) ==
    IF depth > MaxDepth THEN "undecided"
    ELSE Every({OfKeyword(schema, keyword, value, depth) :
                    keyword \in DOMAIN schema})

\* verdict
Verdict(schema, value) == Evaluate(schema, value, 0)

-----------------------------------------------------------------------------
(* What a constraint means to a validator, which gives the keyword the     *)
(* producer does not know and the pattern it cannot read some meaning:     *)
(* the values that meet them.                                              *)

RECURSIVE Valid(_, _, _)

Valid(schema, value, meaning) ==
    /\ "type" \in DOMAIN schema =>
         \E name \in schema["type"] : IsType(value, name)
    /\ "enum" \in DOMAIN schema => value \in schema["enum"]
    /\ "const" \in DOMAIN schema => value = schema["const"]
    /\ \A keyword \in {"minimum", "maximum", "exclusiveMinimum",
                       "exclusiveMaximum"} \cap DOMAIN schema :
         Bound(keyword, schema[keyword], value)
    /\ "minLength" \in DOMAIN schema => AtLeast("txt", schema["minLength"], value)
    /\ "maxLength" \in DOMAIN schema => AtMost("txt", schema["maxLength"], value)
    /\ "minItems" \in DOMAIN schema => AtLeast("arr", schema["minItems"], value)
    /\ "maxItems" \in DOMAIN schema => AtMost("arr", schema["maxItems"], value)
    /\ "minProperties" \in DOMAIN schema =>
         AtLeast("obj", schema["minProperties"], value)
    /\ "maxProperties" \in DOMAIN schema =>
         AtMost("obj", schema["maxProperties"], value)
    /\ "uniqueItems" \in DOMAIN schema => Unique(value)
    /\ "required" \in DOMAIN schema => Required(schema["required"], value)
    /\ ("pattern" \in DOMAIN schema /\ Is("txt", value)) =>
         value.txt \in IF schema["pattern"] \in Portable
                       THEN Language[schema["pattern"]]
                       ELSE {v.txt : v \in {m \in meaning : Is("txt", m)}}
    /\ "format" \in DOMAIN schema => value \in meaning
    /\ "not" \in DOMAIN schema => ~Valid(schema["not"], value, meaning)
    /\ "allOf" \in DOMAIN schema =>
         \A i \in DOMAIN schema["allOf"] :
             Valid(schema["allOf"][i], value, meaning)
    /\ "anyOf" \in DOMAIN schema =>
         \E i \in DOMAIN schema["anyOf"] :
             Valid(schema["anyOf"][i], value, meaning)
    /\ "oneOf" \in DOMAIN schema =>
         \E i \in DOMAIN schema["oneOf"] : \A j \in DOMAIN schema["oneOf"] :
             Valid(schema["oneOf"][j], value, meaning) <=> j = i
    /\ "if" \in DOMAIN schema =>
         IF Valid(schema["if"], value, meaning)
         THEN Valid(Branch(schema, "then"), value, meaning)
         ELSE Valid(Branch(schema, "else"), value, meaning)
    /\ ("items" \in DOMAIN schema /\ Is("arr", value)) =>
         \A i \in DOMAIN value.arr : Valid(schema["items"], value.arr[i], meaning)
    /\ Is("obj", value) =>
         /\ "propertyNames" \in DOMAIN schema =>
              \A name \in DOMAIN value.obj :
                  Valid(schema["propertyNames"], Text(name), meaning)
         /\ \A name \in DOMAIN value.obj :
              IF name \in DOMAIN Branch(schema, "properties")
              THEN Valid(schema["properties"][name], value.obj[name], meaning)
              ELSE "additionalProperties" \in DOMAIN schema =>
                     \E element \in schema["additionalProperties"] :
                         Valid(element, value.obj[name], meaning)
=============================================================================
