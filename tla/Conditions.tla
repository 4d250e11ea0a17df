----------------------------- MODULE Conditions -----------------------------
(***************************************************************************)
(* Conditions between the fields of one struct, and the constraint each is *)
(* published as: rust/src/schema/condition.rs.                             *)
(*                                                                         *)
(* A condition is [is |-> what it says, path |-> segments, to |-> its      *)
(* argument], or [is |-> "all" or "one", of |-> sequence of conditions],   *)
(* or [is |-> "when", if |-> condition, then |-> condition].               *)
(***************************************************************************)
EXTENDS ConstraintVerdict, TLC

Refused == [refused |-> TRUE]

\* is_type, of what a constraint says of its field.
Declares(schema, names) == Branch(schema, "type") \cap names # {}

-----------------------------------------------------------------------------
(* What a condition asks of the fields it names.                           *)

RECURSIVE Field(_, _)

\* field: the constraint at a path, through declared fields alone.
Field(schema, path) ==
    IF path = <<>> THEN schema
    ELSE IF Head(path) \in DOMAIN Branch(schema, "properties")
    THEN Field(schema["properties"][Head(path)], Tail(path))
    ELSE Refused

\* emptiness: what the field's kind counts.
Emptiness(held) ==
    CASE Declares(held, {"object"}) -> {"minProperties", "maxProperties"}
      [] Declares(held, {"array"})  -> {"minItems", "maxItems"}
      [] Declares(held, {"string"}) -> {"minLength", "maxLength"}
      [] OTHER -> {}

RECURSIVE Statable(_, _, _)

\* What `schema` refuses to compile, and everything else it can answer.
Statable(condition, target, depth) ==
    /\ depth <= MaxDepth
    /\ CASE condition.is = "all" ->
              /\ condition.of # <<>>
              /\ \A i \in DOMAIN condition.of :
                     Statable(condition.of[i], target, depth + 1)
         [] condition.is = "one" ->
              /\ Len(condition.of) >= 2
              /\ \A i \in DOMAIN condition.of :
                     Statable(condition.of[i], target, depth + 1)
         [] condition.is = "when" ->
              /\ Statable(condition.if, target, depth + 1)
              /\ Statable(condition.then, target, depth + 1)
         [] OTHER ->
              LET held == Field(target, condition.path)
              IN  /\ held # Refused
                  /\ condition.is \in {"non-empty", "empty"} =>
                       Emptiness(held) # {}
                  /\ condition.is \in {"equals", "differs"} =>
                       Verdict(held, condition.to) # "fails"
                  /\ condition.is = "above" =>
                       Declares(held, {"integer", "number"})
                  /\ condition.is = "matches" =>
                       Declares(held, {"string"}) /\ condition.to \in Portable

-----------------------------------------------------------------------------
(* The constraint it is published as.                                      *)

RECURSIVE Wrap(_, _, _)

\* wrap: the leaf's constraint at its path, requiring every step of it or none.
Wrap(path, leaf, present) ==
    IF path = <<>> THEN leaf
    ELSE LET inner == Wrap(Tail(path), leaf, present)
         IN  (IF present THEN "required" :> {Head(path)} ELSE <<>>)
             @@ (IF DOMAIN inner = {} THEN <<>>
                 ELSE "properties" :> (Head(path) :> inner))

\* Mutant: a nested absence that asks for the section it is in.
AbsentInSection(path) ==
    LET section == SubSeq(path, 1, Len(path) - 1)
    IN  Wrap(section, "not" :> ("required" :> {path[Len(path)]}), TRUE)

\* absent
AbsentAt(path) ==
    LET section == SubSeq(path, 1, Len(path) - 1)
    IN  Wrap(section, "not" :> ("required" :> {path[Len(path)]}), FALSE)

\* The keyword Emptiness names, for what is to hold of the count.
Counting(held, bound) ==
    CHOOSE keyword \in Emptiness(held) :
        keyword \in IF bound = 1 THEN {"minProperties", "minItems", "minLength"}
                    ELSE {"maxProperties", "maxItems", "maxLength"}

RECURSIVE Stated(_, _)

\* schema: a statable condition as a constraint.
Stated(condition, target) ==
    LET held == Field(target, condition.path)
        at(leaf) == Wrap(condition.path, leaf, TRUE)
        each == [i \in DOMAIN condition.of |-> Stated(condition.of[i], target)]
    IN  CASE condition.is = "present"   -> at(<<>>)
          [] condition.is = "absent"    -> AbsentAt(condition.path)
          [] condition.is = "non-empty" -> at(Counting(held, 1) :> 1)
          [] condition.is = "empty" ->
                Wrap(condition.path, Counting(held, 0) :> 0, FALSE)
          [] condition.is = "equals"  -> at("const" :> condition.to)
          [] condition.is = "differs" -> at("not" :> ("const" :> condition.to))
          [] condition.is = "above"   -> at("exclusiveMinimum" :> condition.to)
          [] condition.is = "matches" -> at("pattern" :> condition.to)
          [] condition.is = "all" ->
                IF Len(each) = 1 THEN each[1] ELSE "allOf" :> each
          [] condition.is = "one"  -> "oneOf" :> each
          [] condition.is = "when" ->
                "if" :> Stated(condition.if, target)
                @@ "then" :> Stated(condition.then, target)

-----------------------------------------------------------------------------
(* What the sentence of a condition says of a value.                       *)

RECURSIVE At(_, _)

\* What the value holds at a path: one value, or none.
At(value, path) ==
    IF path = <<>> THEN {value}
    ELSE IF Is("obj", value) /\ Head(path) \in DOMAIN value.obj
    THEN At(value.obj[Head(path)], Tail(path))
    ELSE {}

RECURSIVE Means(_, _)

Means(condition, value) ==
    LET here == At(value, condition.path)
        met(i) == Means(condition.of[i], value)
    IN  CASE condition.is = "present"   -> here # {}
          [] condition.is = "absent"    -> here = {}
          [] condition.is = "non-empty" -> \E v \in here : Extent(v) > 0
          [] condition.is = "empty"     -> \A v \in here : Extent(v) = 0
          [] condition.is = "equals"    -> here = {condition.to}
          [] condition.is = "differs"   -> here # {} /\ here # {condition.to}
          [] condition.is = "above"     -> \E v \in here : v.num > condition.to
          [] condition.is = "matches" ->
                \E v \in here : v.txt \in Language[condition.to]
          [] condition.is = "all" -> \A i \in DOMAIN condition.of : met(i)
          [] condition.is = "one" ->
                Cardinality({i \in DOMAIN condition.of : met(i)}) = 1
          [] condition.is = "when" ->
                Means(condition.if, value) => Means(condition.then, value)
=============================================================================
