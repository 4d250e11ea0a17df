----------------------------- MODULE ConfigTree -----------------------------
(***************************************************************************)
(* Merged configuration values, as figment hands them to the reloader.     *)
(*                                                                         *)
(* A value is a function from the paths inside it to what is there: the    *)
(* empty path is the value itself, a table is Table, anything else (a      *)
(* number, a string, an array) is a leaf.  Every proper prefix of a path   *)
(* of a value is a path of it, and a table there.                          *)
(***************************************************************************)
EXTENDS Naturals, Sequences, SequencesExt

CONSTANTS Table,    \* a node that holds other nodes
          NaN       \* a float that is not equal to itself

\* No value at all: Option::None, where a value is asked for.
Nothing == <<>>

\* Value::find_ref: walks the tables of `path`, one segment at a time.
Find(t, path) ==
    [q \in {SubSeq(r, Len(path) + 1, Len(r)) :
              r \in {r \in DOMAIN t : IsPrefix(path, r)}} |-> t[path \o q]]

\* same_num: floats compare by their bits, which makes the relation reflexive.
SameLeaf(a, b) == a = b

\* same_value: the same tables with the same keys, and the same leaves.
SameValue(a, b) ==
    /\ DOMAIN a = DOMAIN b
    /\ \A q \in DOMAIN a : SameLeaf(a[q], b[q])

\* What `f` says where it says anything, and `g` everywhere else.
Overlay(f, g) ==
    [q \in DOMAIN f \cup DOMAIN g |-> IF q \in DOMAIN f THEN f[q] ELSE g[q]]

Parents(path) == {SubSeq(path, 1, n) : n \in 0 .. Len(path) - 1}

\* A path that runs through something that is not a table.
Blocked(t, path) == \E q \in Parents(path) \cap DOMAIN t : t[q] # Table

\* A value at a path, and the tables that lead to it.
At(path, value) ==
    [q \in {path \o r : r \in DOMAIN value} |-> value[SubSeq(q, Len(path) + 1, Len(q))]]
Leading(path) == [q \in Parents(path) |-> Table]

Without(t, path) == Restrict(t, {q \in DOMAIN t : ~IsPrefix(path, q)})

\* Mutant: removing a key removes the table it was the last key of.
SetPathPruning(t, path, value) ==
    IF Blocked(t, path) THEN t
    ELSE IF value = Nothing
         THEN IF Len(path) > 1 THEN Without(t, Front(path)) ELSE Without(t, path)
    ELSE Overlay(At(path, value), Overlay(Leading(path), Without(t, path)))

\* set_path: the tables on the way are created when setting, never when removing.
SetPath(t, path, value) ==
    IF Blocked(t, path) THEN t
    ELSE IF value = Nothing THEN Without(t, path)
    ELSE Overlay(At(path, value), Overlay(Leading(path), Without(t, path)))

-----------------------------------------------------------------------------
(* Merging, as figment does it when a layer is put over another.           *)

EmptyTable == [q \in {<<>>} |-> Table]

\* A value on its own, with the tables that lead to it.
Nest(path, leaf) == Overlay([q \in {path} |-> leaf], Leading(path))

\* Coalescible::merge: tables are joined, anything else of `over` replaces.
Merge(t, over) ==
    Overlay(over, Restrict(t, {q \in DOMAIN t :
                                \A p \in (Parents(q) \cup {q}) \cap DOMAIN over :
                                    over[p] = Table}))

-----------------------------------------------------------------------------
(* Pins: the restart-class paths, in the order Pins::capture sorts them,   *)
(* and what each held at boot.                                             *)

\* Pins::capture, over distinct paths.
Capture(paths, boot) == [path \in paths |-> Find(boot, path)]

\* Pins::pending: the pinned paths whose value is not the one of the boot.
PendingIn(pins, t) == {path \in DOMAIN pins : ~SameValue(pins[path], Find(t, path))}

\* Pins::apply: every pinned path set back, one after the other.
Apply(pins, order, t) ==
    FoldLeft(LAMBDA acc, path : SetPath(acc, path, pins[path]), t, order)

=============================================================================
