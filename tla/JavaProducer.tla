---------------------------- MODULE JavaProducer ----------------------------
(***************************************************************************)
(* The same program written in Java, publishing beside the Rust one:       *)
(* FieldResolver.java of terrace-config-processor, and SchemaAssembler,    *)
(* Spellings, Refiner, Defaults, JsonSchemaRenderer, ContractAssembler and *)
(* ContractValidator of terrace-config-core.                               *)
(*                                                                         *)
(* The Java program is the one whose classes have the fields the Rust      *)
(* type reports, in its order, and whose author writes the same            *)
(* refinements, defaults and external surface: both take every step.       *)
(***************************************************************************)
EXTENDS SchemaProducer, JavaConstraints

VARIABLE java   \* the Java program: [stage, keys, document]

RECURSIVE Sayable(_)

\* The types a Java class can be written for: no flattening, no section that
\* may be left out, no reload class.
Sayable(calls) ==
    \A i \in DOMAIN calls :
        /\ calls[i].call \in {"leaf", "nested", "deny"}
        /\ calls[i].call = "nested" => Sayable(calls[i].of)

Spoken == Sayable(program.type) /\ program.support = {}

-----------------------------------------------------------------------------
(* FieldResolver: a field as a descriptor.                                 *)

IsContainer(ty) == ty.is \in {"map", "sequence"}

\* isClosed, of the type a field opens.
Closed(calls) == \E i \in DOMAIN calls : calls[i].call = "deny"

FieldsOf(calls) == SelectSeq(calls, LAMBDA call : call.call # "deny")

\* resolveValues and rangeExpression: what an annotation says of a type.
Annotated(ty) ==
    [form   |-> ty.is,
     values |-> IF ty.is = "choice" THEN ty.values ELSE {},
     range  |-> IF ty.is = "integer" THEN {[min |-> ty.min, max |-> ty.max]} ELSE {},
     of     |-> IF ty.is = "struct" THEN ty.of ELSE <<>>]

\* resolveLeafField and resolveContainerField
Descriptor(field) ==
    IF field.call = "nested"
    THEN [name |-> field.name, container |-> "none", secret |-> FALSE,
          hasDefault |-> FALSE, aliases |-> {}, own |-> {}, element |-> {},
          nested |-> field.of, closed |-> Closed(field.of)]
    ELSE [name |-> field.name, secret |-> field.secret, nested |-> <<>>,
          hasDefault |-> ~field.required, aliases |-> field.aliases,
          container |-> IF IsContainer(field.ty) THEN field.ty.is ELSE "none",
          own |-> IF IsContainer(field.ty) THEN {} ELSE {Annotated(field.ty)},
          element |-> IF IsContainer(field.ty) THEN {Annotated(field.ty.of)} ELSE {},
          closed |-> /\ IsContainer(field.ty) /\ field.ty.of.is = "struct"
                     /\ Closed(field.ty.of.of)]

-----------------------------------------------------------------------------
(* Spellings.                                                              *)

\* envSpelling: the variable, or why there is none.
JSpelling(path) ==
    LET name == EnvName(path, program.separator)
    IN  CASE IndirectionTarget(name) # {} ->
                [env |-> {}, unreachable |-> "indirection"]
          [] /\ IndirectionTarget(name) = {} /\ AllLower(path)
             /\ EnvLayerKey(name, program.separator) = {Spelled(path)} ->
                [env |-> {name}, unreachable |-> "none"]
          [] OTHER -> [env |-> {}, unreachable |-> "unnameable"]

\* indirectionName
JIndirectionName(env, path) ==
    {name \o Suffix : name \in
        {n \in env : KeyPath(n, program.separator) = Spelled(path)}}

\* secretsFileName, which keeps the case of the path.
JSecretsFileName(path) ==
    LET name == EnvName(path, program.separator)
    IN  IF AllLower(path) /\ KeyPath(name, program.separator) = Spelled(path)
        THEN {name} ELSE {}

-----------------------------------------------------------------------------
(* SchemaAssembler: a descriptor as keys, and JsonSchemaRenderer.          *)

\* textForm and leafConstraint: nothing is said of a type that is not known.
JLeafConstraint(annotated) ==
    CASE annotated.values # {} ->
            {Typed("string") @@ "enum" :> {Text(v) : v \in annotated.values}}
      [] annotated.form = "string"  -> {Typed("string")}
      [] annotated.form = "integer" ->
            {"minimum" :> 2 * range.min @@ "maximum" :> 2 * range.max
             @@ Typed("integer") : range \in annotated.range}
      [] OTHER -> {}

\* Node: the level of a key below a path.
AtLevel(level, at) == {k \in level : Front(k.path) = at}

Children(level, at) ==
    {k.path[Len(at) + 1] : k \in {key \in level : IsStrictPrefix(at, Front(key.path))}}

\* Node.required
AnyRequired(level, at) ==
    \E k \in level : k.required /\ IsPrefix(at, k.path)

RECURSIVE JClose(_)

\* close: a map is followed into its elements, a struct into its fields.
JClose(schema) ==
    LET elements == IF "additionalProperties" \in DOMAIN schema
                    THEN schema["additionalProperties"] ELSE {}
        items == IF "items" \in DOMAIN schema
                 THEN "items" :> JClose(schema["items"]) ELSE <<>>
        fields == Branch(schema, "properties")
    IN  IF elements # {}
        THEN items @@ "additionalProperties" :> {JClose(e) : e \in elements} @@ schema
        ELSE IF "properties" \notin DOMAIN schema THEN items @@ schema
        ELSE items @@ "additionalProperties" :> {}
             @@ "properties" :> [name \in DOMAIN fields |-> JClose(fields[name])]
             @@ schema

RECURSIVE JObject(_, _, _, _, _)

\* object, addKeyProperties and addChildProperties: where a key and a table
\* have one name, the table is rendered.
JObject(level, at, closed, levels, present) ==
    LET keyed == AtLevel(level, at)
        names(k) == {Last(p) : p \in {k.path} \cup k.aliases}
        leaf(k) == {IF closed THEN JClose(c) ELSE c : c \in k.constraint}
        needed == IF present THEN {k \in keyed : k.required} ELSE {}
        children == Children(level, at)
        held == IF present
                THEN {s \in children : AnyRequired(level, Append(at, s))} ELSE {}
        spelt(k) == "anyOf" :> SetToSeq({"required" :> {n} : n \in names(k)})
    IN  Typed("object")
        @@ "properties" :>
             [name \in UNION {names(k) : k \in keyed} \cup children |->
                 IF name \in children
                 THEN JObject(level, Append(at, name), closed, levels, present)
                 ELSE LET schemas == leaf(CHOOSE k \in keyed : name \in names(k))
                      IN  IF schemas = {} THEN <<>> ELSE CHOOSE c \in schemas : TRUE]
        @@ "required" :>
             {Last(k.path) : k \in {n \in needed : n.aliases = {}}} \cup held
        @@ "allOf" :> SetToSeq({spelt(k) : k \in {n \in needed : n.aliases # {}}})
        @@ (IF closed \/ at \in levels THEN "additionalProperties" :> {} ELSE <<>>)

RECURSIVE ClosedLevels(_, _)

\* closedLevels
ClosedLevels(calls, at) ==
    UNION {LET field == Descriptor(FieldsOf(calls)[i])
               below == Append(at, field.name)
           IN  IF field.nested = <<>> THEN {}
               ELSE (IF field.closed THEN {below} ELSE {})
                    \cup ClosedLevels(field.nested, below) :
           i \in DOMAIN FieldsOf(calls)}

\* Mutant: the levels an element closes are those of its sections alone.
LevelsOfSections(field, annotated) == ClosedLevels(annotated.of, <<>>)

\* The levels of an element that its types close, itself among them.
LevelsClosed(field, annotated) ==
    (IF field.closed THEN {<<>>} ELSE {}) \cup ClosedLevels(annotated.of, <<>>)

RECURSIVE JWalk(_, _, _)

\* elementSchema: walked outside every name the loader reserves.
ElementSchema(field) ==
    UNION {IF annotated.of = <<>> THEN JLeafConstraint(annotated)
           ELSE {JObject(JWalk(annotated.of, <<>>, {}), <<>>, FALSE,
                         LevelsClosed(field, annotated), TRUE)} :
           annotated \in field.element}

\* constraint: a container's is its kind, with what is known of its elements.
JConstraint(field) ==
    CASE field.container = "map" ->
            {Typed("object")
             @@ (IF ElementSchema(field) = {} THEN <<>>
                 ELSE "additionalProperties" :> ElementSchema(field))}
      [] field.container = "sequence" ->
            {Typed("array")
             @@ (IF ElementSchema(field) = {} THEN <<>>
                 ELSE "items" :> CHOOSE c \in ElementSchema(field) : TRUE)}
      [] OTHER -> UNION {JLeafConstraint(annotated) : annotated \in field.own}

\* leaf, resolveAliases and applyEnvSpelling: no file supplies a reserved key,
\* and every alias has the spellings of its own path.
JKey(field, prefix, reserved) ==
    LET path == Append(prefix, field.name)
        aliases == {Append(prefix, alias) : alias \in field.aliases}
        spelling == JSpelling(path)
        isReserved == Full(spelling.env) \cap reserved # {}
        spelt == {p \in aliases : JSpelling(p).env # {}}
    IN  [path |-> path, constraint |-> JConstraint(field), aliases |-> aliases,
         required |-> ~field.hasDefault, secret |-> field.secret,
         env |-> spelling.env, unreachable |-> spelling.unreachable,
         reserved |-> isReserved,
         envFile |-> IF isReserved THEN {} ELSE JIndirectionName(spelling.env, path),
         secretsFile |-> IF isReserved THEN {} ELSE JSecretsFileName(path),
         envAliases |-> UNION {JSpelling(p).env : p \in spelt},
         envFileAliases |->
             UNION {JIndirectionName(JSpelling(p).env, p) : p \in spelt},
         secretsFileAliases |-> UNION {JSecretsFileName(p) : p \in aliases},
         default |-> {}, redacted |-> FALSE, stated |-> {}]

\* walk: a section opens a level, anything else is a key.
JWalk(calls, prefix, reserved) ==
    UNION {LET field == Descriptor(FieldsOf(calls)[i])
           IN  IF field.nested # <<>>
               THEN JWalk(field.nested, Append(prefix, field.name), reserved)
               ELSE {JKey(field, prefix, reserved)} :
           i \in DOMAIN FieldsOf(calls)}

\* document: the keys no loader reads before the file, at closed levels.
JDocument(level) == JObject({k \in level : ~k.reserved}, <<>>, TRUE, {}, FALSE)

\* assemble
JAssemble ==
    LET level == JWalk(program.type, <<>>, program.reserved)
    IN  [p \in {k.path : k \in level} |-> CHOOSE k \in level : k.path = p]

-----------------------------------------------------------------------------
(* Refiner.                                                                *)

\* isMap
JIsMap(schema) ==
    Branch(schema, "type") = {"object"} /\ "properties" \notin DOMAIN schema

\* element and field: one step into a constraint, if it is one.
JStep(schema, segment) ==
    CASE segment = ElementSegment /\ JIsMap(schema) ->
            IF "additionalProperties" \in DOMAIN schema
            THEN schema["additionalProperties"] ELSE {}
      [] segment = ElementSegment /\ ~JIsMap(schema) ->
            IF Branch(schema, "type") = {"array"} /\ "items" \in DOMAIN schema
            THEN {schema["items"]} ELSE {}
      [] OTHER ->
            IF segment \in DOMAIN Branch(schema, "properties")
            THEN {schema["properties"][segment]} ELSE {}

\* descend
JDescend(schema, inside) ==
    FoldLeft(LAMBDA reached, segment : UNION {JStep(s, segment) : s \in reached},
             {schema}, inside)

\* checkMap
JOpenMap(schema) ==
    /\ JIsMap(schema)
    /\ "additionalProperties" \in DOMAIN schema => schema["additionalProperties"] # {}

\* Reach and checkSpellable: by every layer that reaches the key.
JSpellable(key, inside, entry) ==
    LET spelled == key.path \o [i \in DOMAIN inside |->
                       IF inside[i] = ElementSegment THEN "entry" ELSE inside[i]]
    IN  /\ (key.env # {} /\ ~key.reserved) => JSpelling(Append(spelled, entry)).env # {}
        /\ key.secretsFile # {} => JSecretsFileName(Append(spelled, entry)) # {}

\* refused
JRefused(schema, text) == JVerdict(schema, Text(text)) = "fails"

\* requireEntries
JRequireEntries(target, key, inside, entries) ==
    LET held == IF "required" \in DOMAIN target THEN target["required"] ELSE {}
        names == IF "propertyNames" \in DOMAIN target
                 THEN {target["propertyNames"]} ELSE {}
    IN  IF /\ JOpenMap(target)
           /\ \A entry \in entries : JSpellable(key, inside, entry)
           /\ \A entry \in entries, schema \in names : ~JRefused(schema, entry)
        THEN {"required" :> (held \cup entries) @@ target} ELSE {}

\* nameEntries: the pattern that is there already changes nothing.
JNameEntries(target, source) ==
    LET names == "pattern" :> source
        held == IF "required" \in DOMAIN target THEN target["required"] ELSE {}
    IN  CASE ~JOpenMap(target) \/ source \notin Portable -> {}
          [] "propertyNames" \in DOMAIN target ->
                IF target["propertyNames"] = names THEN {target} ELSE {}
          [] OTHER ->
                IF \E entry \in held : JRefused(names, entry) THEN {}
                ELSE {"propertyNames" :> names @@ target}

\* matchPattern and checkSomeChoiceMatches
JMatchPattern(target, source) ==
    CASE ~JDeclared(target, "string") \/ source \notin Portable -> {}
      [] "pattern" \in DOMAIN target ->
            IF target["pattern"] = source THEN {target} ELSE {}
      [] OTHER ->
            IF /\ "enum" \in DOMAIN target
               /\ \A choice \in target["enum"] :
                    JRefused("pattern" :> source, choice.txt)
            THEN {} ELSE {"pattern" :> source @@ target}

\* hold: a member that is listed already is not listed again.
JHold(target, condition) ==
    LET held == IF "allOf" \in DOMAIN target THEN target["allOf"] ELSE <<>>
        member(schema) == "description" :> condition @@ schema
    IN  IF Branch(target, "type") # {"object"} \/ "properties" \notin DOMAIN target
        THEN {}
        ELSE {IF member(schema) \in ToSet(held) THEN target
              ELSE "allOf" :> Append(held, member(schema)) @@ target :
              schema \in JSchema(condition, target, 0)}

JRefined(target, key, inside, refinement) ==
    CASE refinement.kind = "entries" ->
            JRequireEntries(target, key, inside, refinement.arg)
      [] refinement.kind = "names"   -> JNameEntries(target, refinement.arg)
      [] refinement.kind = "pattern" -> JMatchPattern(target, refinement.arg)
      [] refinement.kind = "holds"   -> JHold(target, refinement.arg)

\* rejectedByRefinement
JRejected(key, value) ==
    /\ \E refined \in key.constraint : JVerdict(refined, value) = "fails"
    /\ \E stated \in key.stated : JVerdict(stated, value) # "fails"

\* forgetRejectedDefault
JForget(key) ==
    IF \E value \in key.default : JRejected(key, value)
    THEN [key EXCEPT !.required = TRUE, !.default = {}, !.redacted = FALSE]
    ELSE key

\* locate: the key's own path, or the longest the path continues.
JLocate(path) ==
    {p \in DOMAIN java.keys :
        /\ IsPrefix(p, path)
        /\ \A q \in DOMAIN java.keys : IsPrefix(q, path) => Len(q) <= Len(p)}

\* refine, of the key it is located at: none, when it is refused.
JRefineKey(key, refinement) ==
    LET inside == SubSeq(refinement.path, Len(key.path) + 1, Len(refinement.path))
        tightened(root, new) == PutBack(root, inside, new)
        changed(root, new) ==
            JForget([key EXCEPT !.constraint = {tightened(root, new)},
                                !.stated = IF @ = {} THEN {root} ELSE @])
    IN  UNION {UNION {{IF new = target THEN key ELSE changed(root, new) :
                           new \in JRefined(target, key, inside, refinement)} :
                      target \in JDescend(root, inside)} :
               root \in key.constraint}

-----------------------------------------------------------------------------
(* Defaults.                                                               *)

\* withDefaultsFromValue, of one key and what its path holds.
JObserved(key, value) ==
    IF key.required THEN key
    ELSE IF key.secret THEN [key EXCEPT !.redacted = TRUE]
    ELSE IF JRejected(key, value) THEN [key EXCEPT !.required = TRUE]
    ELSE [key EXCEPT !.default = {value}]

\* find and containsPath: one value, or none.
JFind(root, path) ==
    FoldLeft(LAMBDA reached, segment :
                 UNION {IF Is("obj", v) /\ segment \in DOMAIN v.obj
                        THEN {v.obj[segment]} ELSE {} : v \in reached},
             {root}, path)

-----------------------------------------------------------------------------
(* ContractValidator.                                                      *)

\* checkExternalVariablesInPrefix and checkIgnorePatternsInPrefix
OutsidePrefix(says) ==
    /\ \A variable \in says.env : ~IsPrefix(Prefix, variable)
    /\ \A pattern \in says.ignore :
         /\ ~IsPrefix(Prefix, pattern.name)
         /\ pattern.star => ~IsPrefix(pattern.name, Prefix)

\* matches: only a trailing star is a wildcard.
JMatches(pattern, name) ==
    IF pattern.star THEN IsPrefix(pattern.name, name) ELSE pattern.name = name

\* checkExternalVariableCollisions and checkIgnorePatternCollisions
ClearOfLoader(says) ==
    /\ says.env \cap program.loader = {}
    /\ \A pattern \in says.ignore, name \in program.loader : ~JMatches(pattern, name)

\* checkSecretsWithDefaults
SecretsBare ==
    \A p \in DOMAIN java.keys :
        java.keys[p].secret => /\ ~java.keys[p].redacted
                               /\ java.keys[p].default = {}

\* checkIndirectionCollisions: of the keys a variable names.
NoCollision ==
    \A p, q \in DOMAIN java.keys :
        p # q => java.keys[p].env \cap java.keys[q].envFile = {}

\* checkDefaultsAgainstConstraints
DefaultsPass ==
    \A p \in DOMAIN java.keys :
        \A c \in java.keys[p].constraint, value \in java.keys[p].default :
            JVerdict(c, value) # "fails"

\* validate; nothing a Java program says of reloading can fail it.
JValidated(says) ==
    /\ OutsidePrefix(says) /\ ClearOfLoader(says)
    /\ SecretsBare /\ NoCollision /\ DefaultsPass

-----------------------------------------------------------------------------
(* The steps, of the two programs side by side.                            *)

JInit ==
    /\ Init
    /\ java = IF Spoken
              THEN [stage |-> "open", keys |-> JAssemble, document |-> {}]
              ELSE [stage |-> "unspoken", keys |-> <<>>, document |-> {}]

\* Schema.refine
JRefine(refinement) ==
    LET at == JLocate(refinement.path)
        outcome == UNION {JRefineKey(java.keys[p], refinement) : p \in at}
    IN  java' = IF java.stage # "open" THEN java
                ELSE IF outcome = {} THEN [java EXCEPT !.stage = "refused"]
                ELSE [java EXCEPT !.keys =
                         [p \in DOMAIN java.keys |->
                             IF p \in at THEN CHOOSE k \in outcome : TRUE
                             ELSE java.keys[p]]]

\* Schema.withDefaultsFromValue
JObserveDefaults(root) ==
    LET kept(p) == java.keys[p]
        observed1(p) == JObserved(kept(p), CHOOSE v \in JFind(root, p) : TRUE)
    IN  java' = IF java.stage # "open" THEN java
                ELSE [java EXCEPT !.keys =
                         [p \in DOMAIN java.keys |->
                             IF JFind(root, p) = {} THEN kept(p) ELSE observed1(p)]]

\* ContractAssembler.assemble
JBuild(says) ==
    LET level == {java.keys[p] : p \in DOMAIN java.keys}
    IN  java' = IF java.stage # "open" THEN java
                ELSE IF JValidated(says)
                THEN [java EXCEPT !.stage = "published", !.document = {JDocument(level)}]
                ELSE [java EXCEPT !.stage = "rejected"]

JNext ==
    \/ \E refinement \in program.lines : Refine(refinement) /\ JRefine(refinement)
    \/ \E root \in program.roots : ObserveDefaults(root) /\ JObserveDefaults(root)
    \/ \E says \in program.says : Build(says) /\ JBuild(says)

-----------------------------------------------------------------------------
(* What the two producers promise of each other.                           *)

\* What the two are known to differ in: a key that is another's indirection,
\* which only the Rust producer refuses, and a variable both declared and ignored.
Disputed ==
    \/ \E p \in DOMAIN keys : KeyUnreachable(keys[p]) = "indirection"
    \/ \E says \in external : \E pattern \in says.ignore :
         ~pattern.star /\ pattern.name \in says.env

\* One key of each: the same names in every layer, the same need of a value,
\* the same default, and a constraint that says the same of every value tried.
SameKey(key, other, values) ==
    /\ EnvNames(key) = other.env \cup other.envAliases
    /\ EnvFileNames(key) = other.envFile \cup other.envFileAliases
    /\ SecretsNames(key) = other.secretsFile \cup other.secretsFileAliases
    /\ Reserved(key) = other.reserved
    /\ key.required = other.required
    /\ key.secret = other.secret /\ key.withheld = other.redacted
    /\ key.default = other.default
    /\ \A value \in values :
         {Verdict(c, value) : c \in key.constraint}
           = {JVerdict(c, value) : c \in other.constraint}

\* Conformance tiers 1 and 2: of one program, both producers refuse the same
\* lines, publish the same keys under the same names, and describe files that
\* the same documents satisfy.
SamePublished(Values, Documents) ==
    (Spoken /\ ~Disputed) =>
        /\ java.stage = stage
        /\ DOMAIN java.keys = DOMAIN keys
        /\ \A p \in DOMAIN keys : SameKey(keys[p], java.keys[p], Values[p])
        /\ \A document \in java.document, d \in Documents :
             Valid(document, d, {}) <=> Valid(Document(TRUE), d, {})
=============================================================================
