---------------------------- MODULE Conformance ----------------------------
(***************************************************************************)
(* `terrace-contract conform`: what makes a document a contract, and its   *)
(* names those of its dialect (cli/src/conform.rs).                        *)
(*                                                                         *)
(* It is held against what both producers of a program would publish,      *)
(* whether or not their own checks let them: a document here has [keys,    *)
(* reload, loader, external], a key [path, env, envFile, unreachable,      *)
(* secret, reserved, reload, default, constraint], and a violation is      *)
(* [rule, at].                                                             *)
(***************************************************************************)
EXTENDS JavaProducer, ValueCheck

Violation(rule, at) == [rule |-> rule, at |-> at]

\* ignore_covers
IgnoreCovers(pattern, name) ==
    IF pattern.star THEN IsPrefix(pattern.name, name) ELSE pattern.name = name

-----------------------------------------------------------------------------
(* Tier 1: the refusals.  A prefix is never empty here, and no external     *)
(* variable is declared twice or carries a default.                         *)

\* external_refusals
ExternalRefusals(document) ==
    {Violation(1, v) : v \in {n \in document.external.env : IsPrefix(Prefix, n)}}
    \cup {Violation(3, v) : v \in document.external.env \cap document.loader}

\* ignore_refusals
IgnoreRefusals(document) ==
    LET covering(names) ==
            {pattern \in document.external.ignore :
                \E name \in names : IgnoreCovers(pattern, name)}
    IN  {Violation(2, pattern) : pattern \in covering({Prefix})}
        \cup {Violation(4, pattern) : pattern \in covering(document.loader)}

\* default_violation: a validator of JSON Schema, whatever keywords it meets.
DefaultViolation(key) ==
    \E c \in key.constraint, value \in key.default :
        value # [nul |-> TRUE] /\ ~Valid(c, value, {})

\* Mutant: a key that is another's indirection is passed over.
KeyRefusalsOfValues(document) ==
    {Violation(6, key.path) :
        key \in {k \in document.keys : k.secret /\ k.default # {}}}
    \cup {Violation(9, key.path) : key \in {k \in document.keys : DefaultViolation(k)}}

\* key_refusals
KeyRefusals(document) ==
    LET of(rule, breaks(_)) ==
            {Violation(rule, key.path) : key \in {k \in document.keys : breaks(k)}}
        secretDefault(key) == key.secret /\ key.default # {}
        indirect(key) == key.unreachable = "indirection"
    IN  of(6, secretDefault) \cup of(8, indirect) \cup of(9, DefaultViolation)

\* reload_refusals
ReloadRefusals(document) ==
    LET live == {k \in document.keys : k.reload = "live"}
        rebuilds == {s \in document.reload : s.mode = "rebuild"}
    IN  {Violation(12, s) : s \in {r \in rebuilds : r.layers = {}}}
        \cup {Violation(11, k.path) : k \in {l \in live : l.reserved}}
        \cup {Violation(10, k.path) : k \in {l \in live : rebuilds = {}}}

\* refusals
Refusals(document) ==
    ExternalRefusals(document) \cup IgnoreRefusals(document)
    \cup KeyRefusals(document) \cup ReloadRefusals(document)

-----------------------------------------------------------------------------
(* Tier 2: the dialect.                                                    *)

\* derive_env: none where a segment holds the separator, or where lower-casing
\* the name does not give the path back.
DeriveEnv(path) ==
    LET separator == program.separator
        holds(part) == Len(Split(part, separator)) > 1
        name == Join(Spelled(path), separator)
    IN  IF /\ \A i \in DOMAIN path : ~holds(Atoms[path[i]])
           /\ AllLower(path) /\ Split(name, separator) = Spelled(path)
        THEN {Prefix \o name} ELSE {}

\* dialect
Dialect(document) ==
    LET silent(key) == key.env = {} /\ key.unreachable = "none"
        other(key) == key.env # {} /\ key.env # DeriveEnv(key.path)
        suffixed(key) == {name \o Suffix : name \in key.env}
        misnamed(key) ==
            key.env # {} /\ key.envFile # {} /\ key.envFile # suffixed(key)
    IN  {Violation("tier 2", key.path) :
            key \in {k \in document.keys : silent(k) \/ other(k) \/ misnamed(k)}}

\* conform
Conform(document, tier) ==
    Refusals(document) \cup (IF tier = "dialect" THEN Dialect(document) ELSE {})

-----------------------------------------------------------------------------
(* The documents of the two producers.                                     *)

\* describe_at: the key's own spellings, its aliases' apart.
RustDocument(says) ==
    [keys |->
        {LET key == keys[p]
         IN  [path |-> p,
              env |-> Full(EnvSpelling(p, program.separator)),
              envFile |-> IF Reserved(key) THEN {}
                          ELSE Full(IndirectionName(p, program.separator)),
              unreachable |-> KeyUnreachable(key), reserved |-> Reserved(key),
              secret |-> key.secret, reload |-> key.reload,
              default |-> key.default, constraint |-> key.constraint] :
         p \in DOMAIN keys},
     reload |-> program.support, loader |-> program.loader, external |-> says]

\* leaf and applyEnvSpelling
JavaDocument(says) ==
    [keys |->
        {LET key == java.keys[p]
         IN  [path |-> p, env |-> Full(key.env), envFile |-> Full(key.envFile),
              unreachable |-> key.unreachable, reserved |-> key.reserved,
              secret |-> key.secret, reload |-> "undeclared",
              default |-> key.default, constraint |-> key.constraint] :
         p \in DOMAIN java.keys},
     reload |-> {}, loader |-> program.loader, external |-> says]

-----------------------------------------------------------------------------
(* What conforming means.                                                  *)

\* What no rule of it reads: a pattern about part of the loader's namespace, a
\* declared variable that is ignored by name, and the rendering of a secret's
\* default.
Overlooked(says) ==
    \/ \E pattern \in says.ignore :
         \/ IsStrictPrefix(Prefix, pattern.name)
         \/ ~pattern.star /\ pattern.name \in says.env
    \/ \E p \in DOMAIN keys : keys[p].withheld

\* A key that only an alias names: published without a variable of its own and
\* without a reason.
AliasOnly(key) ==
    EnvSpelling(key.path, program.separator) = {} /\ KeyUnreachable(key) = "none"

\* Whichever language a program is written in, the document it describes
\* conforms exactly when the Rust producer publishes it; and every name of one
\* that is published is the one the dialect derives.
ConformIsNormative ==
    (stage \in {"published", "rejected"}) =>
        \A says \in external :
            /\ ~Overlooked(says) =>
                 /\ (stage = "published") <=> Conform(RustDocument(says), "document") = {}
                 /\ java.stage \in {"published", "rejected"} =>
                      (stage = "published") <=>
                          (Conform(JavaDocument(says), "document") = {})
            /\ stage = "published" =>
                 \A violation \in Conform(RustDocument(says), "dialect") :
                     AliasOnly(keys[violation.at])
            /\ java.stage = "published" =>
                 \A violation \in Conform(JavaDocument(says), "dialect") :
                     violation.rule = 8
=============================================================================
