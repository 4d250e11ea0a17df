--------------------------- MODULE JavaConstraints ---------------------------
(***************************************************************************)
(* The Java producer's reading of a constraint and of a condition:         *)
(* ConstraintEvaluator.java and Conditions.java of terrace-config-core.    *)
(*                                                                         *)
(* Values, constraints and conditions are those of ConstraintVerdict and   *)
(* Conditions, which model the Rust producer's; one operator per method.   *)
(***************************************************************************)
EXTENDS Conditions, SequencesExt

-----------------------------------------------------------------------------
(* ConstraintEvaluator: the keywords that hold no constraint.              *)

\* and, over what a loop that stops at the first failure collects.
JAnd(verdicts) ==
    CASE "fails" \in verdicts     -> "fails"
      [] "undecided" \in verdicts -> "undecided"
      [] OTHER                    -> "holds"

JFails(outside) == IF outside THEN "fails" ELSE "holds"

\* isType, whose numbers are decimals: an integer has no fraction.
JIsType(value, name) ==
    \/ name = "null" /\ Is("nul", value)
    \/ name = "object" /\ Is("obj", value)
    \/ name = "array" /\ Is("arr", value)
    \/ name = "string" /\ Is("txt", value)
    \/ name = "number" /\ Is("num", value)
    \/ name = "integer" /\ Is("num", value) /\ value.num % 2 = 0

\* ofType
JOfType(names, value) == JFails(\A name \in names : ~JIsType(value, name))

RECURSIVE JSame(_, _)

\* same, sameItems and sameFields
JSame(left, right) ==
    \/ Is("num", left) /\ Is("num", right) /\ left.num = right.num
    \/ /\ Is("arr", left) /\ Is("arr", right)
       /\ Len(left.arr) = Len(right.arr)
       /\ \A i \in DOMAIN left.arr : JSame(left.arr[i], right.arr[i])
    \/ /\ Is("obj", left) /\ Is("obj", right)
       /\ DOMAIN left.obj = DOMAIN right.obj
       /\ \A name \in DOMAIN left.obj : JSame(left.obj[name], right.obj[name])
    \/ \E kind \in {"txt", "nul"} :
         Is(kind, left) /\ Is(kind, right) /\ left[kind] = right[kind]

\* oneOf, the `enum` of a value.
JEnum(choices, value) == JFails(\A choice \in choices : ~JSame(choice, value))

\* bound
JBound(keyword, limit, value) ==
    JFails(/\ Is("num", value)
           /\ \/ keyword = "minimum" /\ value.num < limit
              \/ keyword = "maximum" /\ value.num > limit
              \/ keyword = "exclusiveMinimum" /\ value.num <= limit
              \/ keyword = "exclusiveMaximum" /\ value.num >= limit)

\* length
JLength(keyword, limit, value) ==
    JFails(/\ Is("txt", value)
           /\ \/ keyword = "minLength" /\ Length[value.txt] < limit
              \/ keyword = "maxLength" /\ Length[value.txt] > limit)

\* pattern: one PortablePattern does not compile is undecided.
JPattern(source, value) ==
    IF ~Is("txt", value) THEN "holds"
    ELSE IF source \notin Portable THEN "undecided"
    ELSE JFails(value.txt \notin Language[source])

\* count
JCount(keyword, limit, value) ==
    JFails(/\ Is("arr", value)
           /\ \/ keyword = "minItems" /\ Len(value.arr) < limit
              \/ keyword = "maxItems" /\ Len(value.arr) > limit)

\* size
JSize(keyword, limit, value) ==
    JFails(/\ Is("obj", value)
           /\ \/ keyword = "minProperties"
                 /\ Cardinality(DOMAIN value.obj) < limit
              \/ keyword = "maxProperties"
                 /\ Cardinality(DOMAIN value.obj) > limit)

\* unique
JUnique(argument, value) ==
    JFails(/\ Is("arr", value) /\ argument
           /\ \E i \in DOMAIN value.arr : \E j \in 1 .. i - 1 :
                JSame(value.arr[j], value.arr[i]))

\* required
JRequired(names, value) ==
    JFails(Is("obj", value) /\ \E name \in names : name \notin DOMAIN value.obj)

-----------------------------------------------------------------------------
(* The keywords that hold constraints; `inner` is the depth of those.      *)

RECURSIVE JEvaluate(_, _, _)

\* negated
JNegated(argument, value, inner) ==
    LET held == JEvaluate(argument, value, inner)
    IN  IF held = "holds" THEN "fails"
        ELSE IF held = "fails" THEN "holds" ELSE "undecided"

\* items
JItems(argument, value, inner) ==
    IF ~Is("arr", value) THEN "holds"
    ELSE JAnd({JEvaluate(argument, value.arr[i], inner) : i \in DOMAIN value.arr})

\* properties
JProperties(argument, value, inner) ==
    IF ~Is("obj", value) THEN "holds"
    ELSE JAnd({JEvaluate(argument[name], value.obj[name], inner) :
                   name \in DOMAIN argument \cap DOMAIN value.obj})

\* additional
JAdditional(schema, argument, value, inner) ==
    LET extra == DOMAIN value.obj \ DOMAIN Branch(schema, "properties")
    IN  IF ~Is("obj", value) \/ extra = {} THEN "holds"
        ELSE IF argument = {} THEN "fails"
        ELSE JAnd({JEvaluate(CHOOSE c \in argument : TRUE, value.obj[name], inner) :
                       name \in extra})

\* names
JNames(argument, value, inner) ==
    IF ~Is("obj", value) THEN "holds"
    ELSE JAnd({JEvaluate(argument, Text(name), inner) : name \in DOMAIN value.obj})

\* allOf
JAllOf(schemas, value, inner) ==
    JAnd({JEvaluate(schemas[i], value, inner) : i \in DOMAIN schemas})

\* anyOf: the first branch that does not fail is returned.
JAnyOf(schemas, value, inner) ==
    LET found == [i \in DOMAIN schemas |-> JEvaluate(schemas[i], value, inner)]
        others == SelectSeq(found, LAMBDA verdict : verdict # "fails")
    IN  IF schemas = <<>> THEN "undecided"
        ELSE IF others = <<>> THEN "fails" ELSE Head(others)

\* oneOfBranches
JOneOf(schemas, value, inner) ==
    LET found == [i \in DOMAIN schemas |-> JEvaluate(schemas[i], value, inner)]
        holding == Len(SelectSeq(found, LAMBDA verdict : verdict = "holds"))
    IN  IF schemas = <<>> THEN "undecided"
        ELSE IF holding >= 2 THEN "fails"
        ELSE IF "undecided" \in ToSet(found) THEN "undecided"
        ELSE JFails(holding # 1)

\* conditional
JConditional(schema, argument, value, inner) ==
    LET condition == JEvaluate(argument, value, inner)
        then == JEvaluate(Branch(schema, "then"), value, inner)
        otherwise == JEvaluate(Branch(schema, "else"), value, inner)
        beside(keyword, found) == IF keyword \in DOMAIN schema THEN found ELSE "holds"
    IN  CASE condition = "holds" -> beside("then", then)
          [] condition = "fails" -> beside("else", otherwise)
          [] OTHER ->
                IF beside("then", then) = "holds" /\ beside("else", otherwise) = "holds"
                THEN "holds" ELSE "undecided"

\* evaluate: the keyword's method.
JKeyword(schema, keyword, value, inner) ==
    LET argument == schema[keyword]
    IN  CASE keyword = "type"  -> JOfType(argument, value)
          [] keyword = "enum"  -> JEnum(argument, value)
          [] keyword = "const" -> JFails(~JSame(argument, value))
          [] keyword = "not"   -> JNegated(argument, value, inner)
          [] keyword \in {"minimum", "maximum", "exclusiveMinimum",
                          "exclusiveMaximum"} -> JBound(keyword, argument, value)
          [] keyword \in {"minLength", "maxLength"} -> JLength(keyword, argument, value)
          [] keyword = "pattern" -> JPattern(argument, value)
          [] keyword \in {"minItems", "maxItems"} -> JCount(keyword, argument, value)
          [] keyword = "uniqueItems" -> JUnique(argument, value)
          [] keyword = "items"       -> JItems(argument, value, inner)
          [] keyword = "required"    -> JRequired(argument, value)
          [] keyword = "properties"  -> JProperties(argument, value, inner)
          [] keyword = "additionalProperties" ->
                JAdditional(schema, argument, value, inner)
          [] keyword = "propertyNames" -> JNames(argument, value, inner)
          [] keyword = "oneOf" -> JOneOf(argument, value, inner)
          [] keyword = "if"    -> JConditional(schema, argument, value, inner)
          [] keyword \in {"minProperties", "maxProperties"} ->
                JSize(keyword, argument, value)
          [] keyword = "allOf" -> JAllOf(argument, value, inner)
          [] keyword = "anyOf" -> JAnyOf(argument, value, inner)
          [] keyword \in {"then", "else", "description"} -> "holds"
          [] OTHER -> "undecided"

\* evaluate: every keyword, to the depth the evaluator follows.
JEvaluate(schema, value, depth) ==
    IF depth > MaxDepth THEN "undecided"
    ELSE JAnd({JKeyword(schema, keyword, value, depth + 1) :
                   keyword \in DOMAIN schema})

\* verdict
JVerdict(constraint, value) == JEvaluate(constraint, value, 0)

-----------------------------------------------------------------------------
(* Conditions: a condition as a constraint, or none where one is refused.  *)

\* isType, of what a constraint says.
JDeclared(held, name) == name \in Branch(held, "type")

\* field: none for a path that leaves the declared fields.
JField(target, path) ==
    FoldLeft(LAMBDA reached, segment :
                 UNION {IF segment \in DOMAIN Branch(schema, "properties")
                        THEN {schema["properties"][segment]} ELSE {} :
                        schema \in reached},
             {target}, path)

\* wrap: the levels from the innermost outwards.
JWrap(path, leaf, present) ==
    FoldRight(LAMBDA segment, inner :
                  (IF present THEN "required" :> {segment} ELSE <<>>)
                  @@ (IF DOMAIN inner = {} THEN <<>>
                      ELSE "properties" :> (segment :> inner)),
              path, leaf)

\* absent
JAbsent(path) ==
    JWrap(Front(path), "not" :> ("required" :> {Last(path)}), FALSE)

\* emptiness
JEmptiness(held, path, nonEmpty) ==
    LET counts(keyword) ==
            {JWrap(path, keyword :> (IF nonEmpty THEN 1 ELSE 0), nonEmpty)}
    IN  CASE JDeclared(held, "object") ->
                counts(IF nonEmpty THEN "minProperties" ELSE "maxProperties")
          [] JDeclared(held, "array") ->
                counts(IF nonEmpty THEN "minItems" ELSE "maxItems")
          [] JDeclared(held, "string") ->
                counts(IF nonEmpty THEN "minLength" ELSE "maxLength")
          [] OTHER -> {}

\* equality
JEquality(held, path, value, equal) ==
    IF JVerdict(held, value) = "fails" THEN {}
    ELSE {JWrap(path, IF equal THEN "const" :> value
                      ELSE "not" :> ("const" :> value), TRUE)}

\* above
JAbove(held, path, bound) ==
    IF JDeclared(held, "integer") \/ JDeclared(held, "number")
    THEN {JWrap(path, "exclusiveMinimum" :> bound, TRUE)} ELSE {}

\* matching
JMatching(held, path, source) ==
    IF JDeclared(held, "string") /\ source \in Portable
    THEN {JWrap(path, "pattern" :> source, TRUE)} ELSE {}

RECURSIVE JSchema(_, _, _)

\* nested: refused where any of them is.
JNested(conditions, target, depth) ==
    LET each == [i \in DOMAIN conditions |->
                    JSchema(conditions[i], target, depth + 1)]
    IN  IF {} \in ToSet(each) THEN {}
        ELSE {[i \in DOMAIN each |-> CHOOSE schema \in each[i] : TRUE]}

\* all
JAllConditions(conditions, target, depth) ==
    CASE Len(conditions) = 0 -> {}
      [] Len(conditions) = 1 -> JSchema(conditions[1], target, depth + 1)
      [] OTHER -> {"allOf" :> schemas : schemas \in JNested(conditions, target, depth)}

\* schema, of one condition on the field it names.
JOfField(condition, held) ==
    LET path == condition.path
    IN  CASE condition.is = "present"   -> {JWrap(path, <<>>, TRUE)}
          [] condition.is = "absent"    -> {JAbsent(path)}
          [] condition.is = "non-empty" -> JEmptiness(held, path, TRUE)
          [] condition.is = "empty"     -> JEmptiness(held, path, FALSE)
          [] condition.is = "equals"    -> JEquality(held, path, condition.to, TRUE)
          [] condition.is = "differs"   -> JEquality(held, path, condition.to, FALSE)
          [] condition.is = "above"     -> JAbove(held, path, condition.to)
          [] condition.is = "matches"   -> JMatching(held, path, condition.to)

\* schema
JSchema(condition, target, depth) ==
    CASE depth > MaxDepth -> {}
      [] condition.is = "all" -> JAllConditions(condition.of, target, depth)
      [] condition.is = "one" ->
            IF Len(condition.of) < 2 THEN {}
            ELSE {"oneOf" :> schemas :
                      schemas \in JNested(condition.of, target, depth)}
      [] condition.is = "when" ->
            {"if" :> schemas[1] @@ "then" :> schemas[2] :
                schemas \in JNested(<<condition.if, condition.then>>, target, depth)}
      [] OTHER ->
            UNION {JOfField(condition, held) :
                       held \in JField(target, condition.path)}
=============================================================================
