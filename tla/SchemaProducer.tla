--------------------------- MODULE SchemaProducer ---------------------------
(***************************************************************************)
(* A program publishing its contract: rust/src/schema/mod.rs, refine.rs,   *)
(* json_schema.rs, rust_type.rs, reload.rs and contract.rs.                *)
(*                                                                         *)
(* The derived code reports a configuration type to a Sink, call by call;  *)
(* the program then refines keys and observes defaults in the order its    *)
(* author wrote those lines, and builds the contract.                      *)
(*                                                                         *)
(* A type is a sequence of calls: [call |-> "leaf", name, ty, required,    *)
(* secret, aliases], [call |-> "nested" | "flatten" | "optional" |         *)
(* "reload", name, class, of |-> calls] or [call |-> "deny"].  A type of a *)
(* leaf is [is |-> "string" | "integer" | "choice" | "map" | "sequence" |  *)
(* "struct" | "opaque", ...].                                              *)
(***************************************************************************)
EXTENDS Conditions, KeySpelling

CONSTANTS
    Programs,   \* bound: [type, separator, reserved, loader, support, lines,
                \* roots, says], the last three the refinements, the default
                \* values and the External it may come to publish
    Prefix,     \* the loader's, as atoms
    MaxNesting  \* MAX_DEPTH of a Sink

VARIABLES
    program,
    keys,       \* path -> key
    stage,      \* "panicked" | "open" | "refused" | "published" | "rejected"
    applied,    \* history: the refinements accepted so far
    observed,   \* history: the default observed, if one was
    external    \* what build was given

vars == <<program, keys, stage, applied, observed, external>>

ElementSegment == "*"

-----------------------------------------------------------------------------
(* rust_type.rs and json_schema.rs: what a type says.                      *)

Typed(name) == "type" :> {name}

\* integer and bounded: the width's limits, narrowed by the declared bounds.
IntegerConstraint(ty) ==
    Typed("integer") @@ "minimum" :> 2 * ty.min @@ "maximum" :> 2 * ty.max

\* choice
Choice(values) == Typed("string") @@ "enum" :> {Text(v) : v \in values}

Sections(level, at) ==
    {k.path[Len(at) + 1] : k \in {key \in level : Len(key.path) > Len(at) + 1}}

Below(level, at, section) ==
    {k \in level : Len(k.path) > Len(at) + 1 /\ k.path[Len(at) + 1] = section}

Own(level, at) == {k \in level : Len(k.path) = Len(at) + 1}

\* Mutant: a key has the spelling of its field alone.
CanonicalSpelling(key) == {key.path[Len(key.path)]}

Spellings(key) == {key.path[Len(key.path)]} \cup key.aliases

RECURSIVE Close(_)

\* close: every declared level of a constraint refuses what it did not declare.
Close(schema) ==
    LET items == IF "items" \in DOMAIN schema
                 THEN [schema EXCEPT !["items"] = Close(schema["items"])]
                 ELSE schema
        elements == Branch(schema, "additionalProperties")
    IN  IF "additionalProperties" \in DOMAIN schema /\ elements # {}
        THEN [items EXCEPT !["additionalProperties"] = {Close(e) : e \in elements}]
        ELSE IF "properties" \notin DOMAIN schema THEN items
        ELSE "additionalProperties" :> {}
             @@ [items EXCEPT !["properties"] =
                    [name \in DOMAIN schema["properties"] |->
                        Close(schema["properties"][name])]]

\* leaf: a key without a constraint says nothing of its value.
LeafConstraint(key, closed) ==
    IF key.constraint = {} THEN <<>>
    ELSE LET schema == CHOOSE c \in key.constraint : TRUE
         IN  IF closed THEN Close(schema) ELSE schema

\* What must be present: a key under any of its spellings, a section that
\* holds anything required.
Presence(level, at) ==
    LET needed == {k \in Own(level, at) : k.required}
        sections == {s \in Sections(level, at) :
                        \E k \in Below(level, at, s) : k.required}
        plain == {k \in needed : k.aliases = {}}
        either(k) == "anyOf" :> SetToSeq({"required" :> {s} : s \in Spellings(k)})
    IN  "required" :> UNION {Spellings(k) : k \in plain} \cup sections
        @@ "allOf" :> SetToSeq({either(k) : k \in needed \ plain})

RECURSIVE ObjectOf(_, _, _, _, _)

\* object: one level of the document, with a section for each node below it.
ObjectOf(level, at, closed, denied, present) ==
    LET leaves == Own(level, at)
        owner(name) == CHOOSE k \in leaves : name \in Spellings(k)
        names == UNION {Spellings(k) : k \in leaves}
        sections == Sections(level, at)
    IN  Typed("object")
        @@ "properties" :>
             [name \in names \cup sections |->
                 IF name \in sections
                 THEN ObjectOf(Below(level, at, name), Append(at, name), closed,
                               denied, present)
                 ELSE LeafConstraint(owner(name), closed)]
        @@ (IF present THEN Presence(level, at) ELSE <<>>)
        @@ (IF closed \/ at \in denied THEN "additionalProperties" :> {}
            ELSE <<>>)

-----------------------------------------------------------------------------
(* Sink: what the derived code reports.                                    *)

\* Scopes::resolve: a restart anywhere on the path wins.
Resolve(scope) ==
    IF scope.restart > 0 THEN "restart"
    ELSE IF scope.live > 0 THEN "live" ELSE "undeclared"

Root == [prefix |-> <<>>, live |-> 0, restart |-> 0, optional |-> 0, depth |-> 0]

\* A report is a key, or a level that refuses undeclared keys.
Denial(report) == "denies" \in DOMAIN report

KeysOf(reports) == {r \in ToSet(reports) : ~Denial(r)}

DeniedBy(reports) == {r.denies : r \in {s \in ToSet(reports) : Denial(s)}}

\* Two fields on one path, or a type that contains itself: describing panics.
Panics(reports) ==
    \E i, j \in DOMAIN reports :
        /\ ~Denial(reports[i]) /\ ~Denial(reports[j])
        /\ \/ reports[i].path = reports[j].path /\ i # j
           \/ reports[i].depth > MaxNesting

\* Sink::leaf: required only where every section above is.
RequiredIn(leaf, scope) == leaf.required /\ scope.optional = 0

RECURSIVE TypeConstraint(_, _)
RECURSIVE Described(_, _)

\* constraint: a type the producer cannot read says nothing.
TypeConstraint(ty, depth) ==
    CASE ty.is = "string"  -> {Typed("string")}
      [] ty.is = "integer" -> {IntegerConstraint(ty)}
      [] ty.is = "choice"  -> {Choice(ty.values)}
      [] ty.is = "map" ->
            {Typed("object")
             @@ (IF TypeConstraint(ty.of, depth) = {} THEN <<>>
                 ELSE "additionalProperties" :> TypeConstraint(ty.of, depth))}
      [] ty.is = "sequence" ->
            {Typed("array")
             @@ (IF ty.unique THEN "uniqueItems" :> TRUE ELSE <<>>)
             @@ (IF TypeConstraint(ty.of, depth) = {} THEN <<>>
                 ELSE "items" :> CHOOSE c \in TypeConstraint(ty.of, depth) : TRUE)}
      [] ty.is = "struct" ->
            LET reports == Described(ty.of, [Root EXCEPT !.depth = depth + 1])
            IN  {ObjectOf(KeysOf(reports), <<>>, FALSE, DeniedBy(reports), TRUE)}
      [] OTHER -> {}

\* One leaf or one scope, in the scopes open where it is reported.
Report(call, scope) ==
    CASE call.call = "leaf" ->
            <<[path       |-> Append(scope.prefix, call.name),
               depth      |-> scope.depth,
               constraint |-> TypeConstraint(call.ty, scope.depth),
               aliases    |-> call.aliases,
               required   |-> RequiredIn(call, scope),
               secret     |-> call.secret,
               reload     |-> Resolve(scope),
               default    |-> {},
               withheld   |-> FALSE,
               stated     |-> {}]>>
      [] call.call = "deny" -> <<[denies |-> scope.prefix]>>
      [] call.call = "nested" ->
            Described(call.of, [scope EXCEPT !.prefix = Append(@, call.name),
                                             !.depth = @ + 1])
      [] call.call = "flatten"  -> Described(call.of, scope)
      [] call.call = "optional" ->
            Described(call.of, [scope EXCEPT !.optional = @ + 1])
      [] call.call = "reload" ->
            Described(call.of,
                      IF call.class = "live" THEN [scope EXCEPT !.live = @ + 1]
                      ELSE [scope EXCEPT !.restart = @ + 1])

\* Describe::describe, the calls in order.
Described(calls, scope) ==
    IF calls = <<>> THEN <<>>
    ELSE Report(Head(calls), scope) \o Described(Tail(calls), scope)

-----------------------------------------------------------------------------
(* describe_at and with_reload: what the dialect and the program say.      *)

AliasPaths(key) ==
    {Append(SubSeq(key.path, 1, Len(key.path) - 1), a) : a \in key.aliases}

\* Key::unreachable: one spelling that is another key's indirection suffices,
\* and only a key nothing names is unnameable.
KeyUnreachable(key) ==
    LET separator == program.separator
        reasons == {Unreachable(p, separator) : p \in {key.path} \cup AliasPaths(key)}
    IN  IF "indirection" \in reasons THEN "indirection"
        ELSE IF reasons = {"unnameable"} THEN "unnameable" ELSE "none"

Full(names) == {Prefix \o n : n \in names}

\* Dialect::is_reserved, of the canonical spelling.
Reserved(key) ==
    Full(EnvSpelling(key.path, program.separator)) \cap program.reserved # {}

\* env and env_aliases
EnvNames(key) ==
    UNION {EnvSpelling(p, program.separator) : p \in {key.path} \cup AliasPaths(key)}

\* env_file and env_file_aliases: no file supplies a reserved key.
EnvFileNames(key) ==
    IF Reserved(key) THEN {}
    ELSE UNION {IndirectionName(p, program.separator) :
                    p \in {key.path} \cup AliasPaths(key)}

\* secrets_file and secrets_file_aliases
SecretsNames(key) ==
    IF Reserved(key) THEN {}
    ELSE UNION {SecretsFileName(p, program.separator) :
                    p \in {key.path} \cup AliasPaths(key)}

\* ReloadSupport::rebuilds
Rebuilds(support) == support.mode = "rebuild" /\ support.layers # {}

\* with_reload: live is what an author wrote and the program can keep.
WithReload(key) ==
    IF program.support = {} THEN key
    ELSE [key EXCEPT !.reload =
             IF /\ \A s \in program.support : Rebuilds(s)
                /\ ~Reserved(key) /\ key.reload = "live"
             THEN "live" ELSE "restart"]

-----------------------------------------------------------------------------
(* refine.rs                                                               *)

\* is_map
IsMap(schema) == Declares(schema, {"object"}) /\ "properties" \notin DOMAIN schema

RECURSIVE Descend(_, _)

\* descend, element and field: the constraint at a position, if it is one.
Descend(schema, inside) ==
    IF inside = <<>> THEN {schema}
    ELSE IF Head(inside) = ElementSegment
    THEN IF IsMap(schema)
         THEN UNION {Descend(e, Tail(inside)) :
                        e \in Branch(schema, "additionalProperties")}
         ELSE IF Declares(schema, {"array"}) /\ "items" \in DOMAIN schema
         THEN Descend(schema["items"], Tail(inside)) ELSE {}
    ELSE IF Head(inside) \in DOMAIN Branch(schema, "properties")
    THEN Descend(schema["properties"][Head(inside)], Tail(inside))
    ELSE {}

RECURSIVE PutBack(_, _, _)

\* The constraint with the one at a position replaced.
PutBack(schema, inside, target) ==
    IF inside = <<>> THEN target
    ELSE IF Head(inside) # ElementSegment
    THEN [schema EXCEPT !["properties"] =
             [@ EXCEPT ![Head(inside)] = PutBack(@, Tail(inside), target)]]
    ELSE IF IsMap(schema)
    THEN [schema EXCEPT !["additionalProperties"] =
             {PutBack(e, Tail(inside), target) : e \in @}]
    ELSE [schema EXCEPT !["items"] = PutBack(@, Tail(inside), target)]

\* map_constraint: an object whose entries are open.
OpenMap(schema) ==
    IsMap(schema) /\ ("additionalProperties" \in DOMAIN schema =>
                         schema["additionalProperties"] # {})

\* spellable: an entry every layer that reaches the key can supply.
Spellable(key, inside, entry) ==
    LET at == key.path \o [i \in DOMAIN inside |->
                  IF inside[i] = ElementSegment THEN "entry" ELSE inside[i]]
        path == Append(at, entry)
    IN  /\ EnvSpelling(key.path, program.separator) # {} /\ ~Reserved(key) =>
             EnvSpelling(path, program.separator) # {}
        /\ SecretsFileName(key.path, program.separator) # {} /\ ~Reserved(key) =>
             SecretsFileName(path, program.separator) # {}

\* refused: certainly not a text the constraint takes.
RefusesText(schema, text) == Verdict(schema, Text(text)) = "fails"

\* require_entries
RequireEntries(target, key, inside, entries) ==
    IF /\ OpenMap(target)
       /\ \A e \in entries :
            /\ Spellable(key, inside, e)
            /\ "propertyNames" \in DOMAIN target =>
                 ~RefusesText(target["propertyNames"], e)
    THEN {"required" :> ((IF "required" \in DOMAIN target THEN target["required"]
                          ELSE {}) \cup entries) @@ target}
    ELSE {}

\* name_entries: one pattern, which every required entry may meet.
NameEntries(target, source) ==
    LET names == "pattern" :> source
    IN  IF /\ OpenMap(target) /\ source \in Portable
           /\ "propertyNames" \in DOMAIN target => target["propertyNames"] = names
           /\ "required" \in DOMAIN target =>
                \A e \in target["required"] : ~RefusesText(names, e)
        THEN {"propertyNames" :> names @@ target} ELSE {}

\* match_pattern
MatchPattern(target, source) ==
    IF /\ Declares(target, {"string"}) /\ source \in Portable
       /\ "pattern" \in DOMAIN target => target["pattern"] = source
       /\ "enum" \in DOMAIN target =>
            \E choice \in target["enum"] :
                ~RefusesText("pattern" :> source, choice.txt)
    THEN {"pattern" :> source @@ target} ELSE {}

\* hold: one more condition, unless it is there already.
Hold(target, condition) ==
    IF /\ Declares(target, {"object"}) /\ "properties" \in DOMAIN target
       /\ Statable(condition, target, 0)
    THEN LET member == "description" :> condition @@ Stated(condition, target)
             held == IF "allOf" \in DOMAIN target THEN target["allOf"] ELSE <<>>
         IN  IF member \in ToSet(held) THEN {target}
             ELSE {"allOf" :> Append(held, member) @@ target}
    ELSE {}

\* The target as refined: none, when the refinement is refused.
Refined(target, key, inside, refinement) ==
    CASE refinement.kind = "entries" ->
            RequireEntries(target, key, inside, refinement.arg)
      [] refinement.kind = "names"   -> NameEntries(target, refinement.arg)
      [] refinement.kind = "pattern" -> MatchPattern(target, refinement.arg)
      [] refinement.kind = "holds"   -> Hold(target, refinement.arg)

\* rejected_by_refinement: what the refined constraint refuses and the type's
\* own does not.
RejectedByRefinement(key, value) ==
    /\ \E refined \in key.constraint : Verdict(refined, value) = "fails"
    /\ \E stated \in key.stated : Verdict(stated, value) # "fails"

\* forget_rejected_default
ForgetRejectedDefault(key) ==
    IF \E value \in key.default : RejectedByRefinement(key, value)
    THEN [key EXCEPT !.required = TRUE, !.default = {}, !.withheld = FALSE]
    ELSE key

\* locate: the key itself, or the one that most of the path goes through.
Located(path) == {p \in DOMAIN keys : IsPrefix(p, path)}

Inside(path, at) == SubSeq(path, Len(at) + 1, Len(path))

\* Schema::refine of one key: none, when it is refused.
RefinedKey(key, refinement) ==
    LET inside == Inside(refinement.path, key.path)
        targets == UNION {Descend(c, inside) : c \in key.constraint}
        root == CHOOSE c \in key.constraint : TRUE
    IN  UNION {{LET now == PutBack(root, inside, new)
                IN  IF new = target THEN key
                    ELSE ForgetRejectedDefault(
                             [key EXCEPT !.constraint = {now},
                                         !.stated = IF @ = {} THEN {root} ELSE @]) :
                    new \in Refined(target, key, inside, refinement)} :
               target \in targets}

-----------------------------------------------------------------------------
(* with_defaults_from_value                                                *)

\* One key's default: none when it is required, withheld when it is secret, and
\* the key required when the refined constraint refuses it.
Observe(key, value) ==
    IF key.required THEN key
    ELSE IF key.secret THEN [key EXCEPT !.withheld = TRUE]
    ELSE IF RejectedByRefinement(key, value) THEN [key EXCEPT !.required = TRUE]
    ELSE [key EXCEPT !.default = {value}]

WithDefaults(root) ==
    [p \in DOMAIN keys |->
        IF At(root, p) = {} THEN keys[p]
        ELSE Observe(keys[p], CHOOSE v \in At(root, p) : TRUE)]

-----------------------------------------------------------------------------
(* ContractBuilder::build                                                  *)

\* validate_reachable
AllReachable == \A p \in DOMAIN keys : KeyUnreachable(keys[p]) # "indirection"

\* loader_spellings
LoaderSpellings ==
    Full(UNION {EnvNames(keys[p]) \cup EnvFileNames(keys[p]) : p \in DOMAIN keys})
    \cup program.loader

\* pattern_matches: a trailing star, or the name itself.
PatternMatches(pattern, variable) ==
    IF pattern.star THEN IsPrefix(pattern.name, variable)
    ELSE pattern.name = variable

\* validate_pattern: neither the loader's namespace nor a variable it reads.
IgnoreAccepted(pattern) ==
    /\ pattern.name # <<>>
    /\ ~IsPrefix(Prefix, pattern.name)
    /\ pattern.star => ~IsPrefix(pattern.name, Prefix)
    /\ \A spelling \in LoaderSpellings : ~PatternMatches(pattern, spelling)

\* validate_external: nothing declared is the loader's, nothing ignored is
\* declared.
ExternalAccepted(says) ==
    /\ \A v \in says.env : ~IsPrefix(Prefix, v) /\ v \notin LoaderSpellings
    /\ \A pattern \in says.ignore :
         /\ IgnoreAccepted(pattern)
         /\ ~pattern.star => pattern.name \notin says.env

\* validate_secrets
NoSecretDefault ==
    \A p \in DOMAIN keys :
        keys[p].secret => keys[p].default = {} /\ ~keys[p].withheld

\* validate_defaults
DefaultsHold ==
    \A p \in DOMAIN keys :
        \A c \in keys[p].constraint, value \in keys[p].default :
            Verdict(c, value) # "fails"

\* validate_reload
ReloadSound ==
    /\ \A s \in program.support : s.mode = "rebuild" => s.layers # {}
    /\ \A p \in DOMAIN keys :
         keys[p].reload = "live" =>
             /\ ~Reserved(keys[p])
             /\ program.support # {} /\ \A s \in program.support : Rebuilds(s)

\* document: the JSON Schema of the whole file; a reserved key is not in it.
Document(closed) ==
    ObjectOf({keys[p] : p \in {q \in DOMAIN keys : ~Reserved(keys[q])}},
             <<>>, closed, {}, FALSE)

-----------------------------------------------------------------------------
(* The steps.                                                              *)

\* Terrace::schema: describe, then settle the reload classes.
Init ==
    /\ program \in Programs
    /\ LET reports == Described(program.type, Root)
           settled(p) == WithReload(CHOOSE k \in KeysOf(reports) : k.path = p)
       IN  /\ stage = IF Panics(reports) THEN "panicked" ELSE "open"
           /\ keys = [p \in {k.path : k \in KeysOf(reports)} |-> settled(p)]
    /\ applied = {}
    /\ observed = {}
    /\ external = {}

\* Schema::refine: the program stops at the first refusal.
Refine(refinement) ==
    /\ stage = "open"
    /\ refinement \notin applied
    /\ LET at == {p \in Located(refinement.path) :
                    \A q \in Located(refinement.path) : Len(q) <= Len(p)}
           outcome == UNION {RefinedKey(keys[p], refinement) : p \in at}
       IN  IF outcome = {}
           THEN stage' = "refused" /\ UNCHANGED <<keys, applied>>
           ELSE /\ keys' = [p \in DOMAIN keys |->
                               IF p \in at THEN CHOOSE k \in outcome : TRUE
                               ELSE keys[p]]
                /\ applied' = applied \cup {refinement}
                /\ UNCHANGED stage
    /\ UNCHANGED <<program, observed, external>>

\* Schema::with_defaults_from_value
ObserveDefaults(root) ==
    /\ stage = "open"
    /\ observed = {}
    /\ keys' = WithDefaults(root)
    /\ observed' = {root}
    /\ UNCHANGED <<program, stage, applied, external>>

\* ContractBuilder::build; a schema without a prefix is not among the programs.
Build(says) ==
    /\ stage = "open"
    /\ external' = {says}
    /\ stage' = IF /\ AllReachable /\ ExternalAccepted(says) /\ NoSecretDefault
                   /\ DefaultsHold /\ ReloadSound
                THEN "published" ELSE "rejected"
    /\ UNCHANGED <<program, keys, applied, observed>>

Next ==
    \/ \E refinement \in program.lines : Refine(refinement)
    \/ \E root \in program.roots : ObserveDefaults(root)
    \/ \E says \in program.says : Build(says)

Spec == Init /\ [][Next]_vars

-----------------------------------------------------------------------------
(* What a published schema promises.                                       *)

RECURSIVE Reached(_, _)

\* The values at a position inside a value, `*` being every element.
Reached(value, inside) ==
    IF inside = <<>> THEN {value}
    ELSE IF Head(inside) # ElementSegment
    THEN UNION {Reached(v, Tail(inside)) : v \in At(value, <<Head(inside)>>)}
    ELSE IF Is("obj", value)
    THEN UNION {Reached(value.obj[n], Tail(inside)) : n \in DOMAIN value.obj}
    ELSE UNION {Reached(value.arr[i], Tail(inside)) : i \in DOMAIN value.arr}

\* What the author of a refinement means by it.
Meets(refinement, value) ==
    CASE refinement.kind = "entries" -> refinement.arg \subseteq DOMAIN value.obj
      [] refinement.kind = "names" ->
            DOMAIN value.obj \subseteq Language[refinement.arg]
      [] refinement.kind = "pattern" -> value.txt \in Language[refinement.arg]
      [] refinement.kind = "holds"   -> Means(refinement.arg, value)

MeetsAll(key, value) ==
    \A r \in {x \in applied : IsPrefix(key.path, x.path)} :
        \A v \in Reached(value, Inside(r.path, key.path)) : Meets(r, v)

\* The constraint before the first refinement that changed it.
Original(key) == IF key.stated = {} THEN key.constraint ELSE key.stated

\* A refined constraint takes exactly the values the type's own takes and every
\* refinement's author means, whatever the order of the refinements.
RefinementsMeanWhatTheySay(Values) ==
    \A p \in DOMAIN keys : \A value \in Values[p] :
        LET own == \A c \in Original(keys[p]) : Verdict(c, value) = "holds"
            now == {Verdict(c, value) : c \in keys[p].constraint}
        IN  own => now \subseteq {IF MeetsAll(keys[p], value) THEN "holds"
                                  ELSE "fails"}

\* However observing and refining are ordered, a key that may be left out has
\* the default the program gave it, and one whose default a refinement refuses
\* is required and has none: mod.rs:1405.
DefaultsFollowRefinements ==
    \A root \in observed : \A p \in DOMAIN keys :
        LET key == keys[p]
            held == At(root, p)
            refused == \E v \in held :
                          /\ \A c \in Original(key) : Verdict(c, v) = "holds"
                          /\ ~MeetsAll(key, v)
        IN  /\ (refused /\ ~key.secret) => key.required
            /\ key.required => key.default = {}
            /\ (~key.required /\ ~key.secret) => key.default = held

\* Of the variables with the prefix, the loader reads exactly the published
\* ones as a key, as that key and as the value or the file they are published
\* as; no file of the secrets directory is read as a key under another name.
NamesReachTheirKey(Names) ==
    stage = "published" =>
        \A p \in DOMAIN keys :
            LET key == keys[p]
                separator == program.separator
                paths == {q \in {p} \cup AliasPaths(key) : AllLower(q)}
                spelled == {Spelled(q) : q \in paths}
            IN  ~Reserved(key) =>
                  \A n \in Names :
                    /\ n \in EnvNames(key) <=>
                         /\ Prefix \o n \notin program.reserved
                         /\ IndirectionTarget(n) = {}
                         /\ EnvLayerKey(n, separator) \cap spelled # {}
                    /\ n \in EnvFileNames(key) <=>
                         \E stem \in IndirectionTarget(n) :
                             /\ Prefix \o n \notin program.reserved
                             /\ KeyPath(stem, separator) \in spelled
                    /\ n \in SecretsNames(key) <=>
                         KeyPath(n, separator) \in spelled

\* To a validator, the JSON Schema of the file takes exactly the documents in which every
\* table is one that keys are below, every name one that a key is declared or
\* aliased under, and every value one its key's constraint takes.
DocumentSaysWhatTheKeysSay(Documents) ==
    stage = "published" =>
        LET shown == {p \in DOMAIN keys : ~Reserved(keys[p])}
            places == UNION {{p} \cup AliasPaths(keys[p]) : p \in shown}
            tables == UNION {{SubSeq(p, 1, n) : n \in 0 .. Len(p) - 1} : p \in shown}
        IN  \A document \in Documents :
              Valid(Document(TRUE), document, {}) <=>
                /\ \A t \in tables : \A v \in At(document, t) :
                     /\ Is("obj", v)
                     /\ \A name \in DOMAIN v.obj :
                          Append(t, name) \in places \cup tables
                /\ \A p \in shown : \A q \in {p} \cup AliasPaths(keys[p]) :
                     \A v \in At(document, q) : \A c \in keys[p].constraint :
                       Valid(Close(c), v, {})
=============================================================================
