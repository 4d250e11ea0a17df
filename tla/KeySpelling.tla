---------------------------- MODULE KeySpelling ----------------------------
(***************************************************************************)
(* How a key is spelled outside the file: rust/src/dialect.rs and the      *)
(* derivations at the end of rust/src/schema/mod.rs.                       *)
(*                                                                         *)
(* A segment of a path has a spelling, Atoms[segment]: words and "_".  A   *)
(* variable that carries the loader's prefix is the atoms after the        *)
(* prefix; all variables are upper case, so the case is lost in them.      *)
(***************************************************************************)
EXTENDS Integers, Sequences, SequencesExt

CONSTANTS
    Atoms,      \* segment -> its spelling, in lower case
    Lower       \* the segments that are in lower case

Suffix == <<"_", "file">>

Spelled(path) == [i \in DOMAIN path |-> Atoms[path[i]]]

\* key.to_ascii_uppercase().replace('.', separator)
Join(parts, separator) ==
    FoldLeft(LAMBDA name, part :
                 IF name = <<>> THEN part ELSE name \o separator \o part,
             <<>>, parts)

RECURSIVE Split(_, _)

\* suffix.split(separator): the leftmost separator first.
Split(name, separator) ==
    LET n == Len(separator)
        starts == {i \in 1 .. Len(name) - n + 1 :
                       SubSeq(name, i, i + n - 1) = separator}
        first == CHOOSE i \in starts : \A j \in starts : i <= j
    IN  IF starts = {} THEN <<name>>
        ELSE <<SubSeq(name, 1, first - 1)>>
             \o Split(SubSeq(name, first + n, Len(name)), separator)

\* Dialect::env_spelling
EnvName(path, separator) == Join(Spelled(path), separator)

\* Dialect::indirection_target, as what is left of the name: none, or one.
IndirectionTarget(name) ==
    LET stem == SubSeq(name, 1, Len(name) - Len(Suffix))
    IN  IF Len(name) > Len(Suffix) /\ name = stem \o Suffix THEN {stem} ELSE {}

\* env_layer_key: what the environment layer makes of a variable, unless one
\* of the segments is empty.
EnvLayerKey(name, separator) ==
    LET parts == Split(name, separator)
    IN  IF <<>> \in ToSet(parts) THEN {} ELSE {parts}

\* Dialect::key_path, what a secrets file or an indirection is read as.
KeyPath(name, separator) == Split(name, separator)

AllLower(path) == \A i \in DOMAIN path : path[i] \in Lower

\* Mutant: a key whose variable is read as an indirection is published under it.
EnvSpellingUnread(path, separator) ==
    IF AllLower(path) THEN {EnvName(path, separator)} ELSE {}

\* env_spelling: the variable that is read as this path, if there is one.
EnvSpelling(path, separator) ==
    LET name == EnvName(path, separator)
    IN  IF /\ IndirectionTarget(name) = {}
           /\ EnvLayerKey(name, separator) = {Spelled(path)}
           /\ AllLower(path)
        THEN {name} ELSE {}

\* Why there is none: another key's indirection, or no way to name it.
Unreachable(path, separator) ==
    IF EnvSpelling(path, separator) # {} THEN "none"
    ELSE IF IndirectionTarget(EnvName(path, separator)) # {} THEN "indirection"
    ELSE "unnameable"

\* indirection_name, of a path the environment can spell.
IndirectionName(path, separator) ==
    {name \o Suffix : name \in
        {n \in EnvSpelling(path, separator) :
            KeyPath(n, separator) = Spelled(path)}}

\* secrets_file_name
SecretsFileName(path, separator) ==
    LET name == EnvName(path, separator)
    IN  IF KeyPath(name, separator) = Spelled(path) /\ AllLower(path)
        THEN {name} ELSE {}
=============================================================================
