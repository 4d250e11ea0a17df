----------------------------- MODULE ChartWrites -----------------------------
(***************************************************************************)
(* Writing a set of chart files all at once, or not at all:                *)
(* cli/src/helm/files.rs, which `adopt`, `helm init` and `helm pull` end   *)
(* with.  Every call to the file system may fail, and the process may die  *)
(* between any two.  Two planned files may resolve to one path.            *)
(***************************************************************************)
EXTENDS Integers, FiniteSets

CONSTANTS N,        \* how many files are planned
          Paths     \* the canonical paths they may resolve to

ASSUME NAssumption == N \in Nat

Planned == 1 .. N

\* Where each planned file resolves to, which of them resolve outside their
\* chart, and which paths exist before the write.
Plans == [target : [Planned -> Paths], escapes : SUBSET Planned,
          existing : SUBSET Paths]

VARIABLES
    plan,       \* what is to be written
    phase,      \* what the write is doing, or how it ended
    next,       \* the file it is at
    content,    \* per path: 0 as before, i the text of planned file i, -1 part of one
    temporaries,\* the planned files whose temporary exists
    original,   \* what stage kept of each target
    replaced,   \* how many renames were done when one failed
    unrestored, \* the paths the error names
    stuck       \* history: temporaries whose removal failed

writeVars == <<plan, phase, next, content, temporaries, original, replaced, unrestored, stuck>>

Destination == plan.target[next]

-----------------------------------------------------------------------------

\* inside: the deepest existing ancestor lies in the chart.
Inside(i) == i \notin plan.escapes

Resolve ==
    /\ phase = "resolve" /\ next \in Planned /\ Inside(next)
    /\ next' = next + 1
    /\ UNCHANGED <<plan, phase, content, temporaries, original, replaced, unrestored, stuck>>

\* A file outside its chart, or a directory that cannot be read or created.
ResolveFails ==
    /\ phase = "resolve" /\ next \in Planned
    /\ phase' = "failed"
    /\ UNCHANGED <<plan, next, content, temporaries, original, replaced, unrestored, stuck>>

\* discard: what cannot be removed is given up.
Discard(files) ==
    \E kept \in SUBSET files :
        /\ temporaries' = (temporaries \ files) \cup kept
        /\ stuck' = stuck \cup kept

\* Mutant: each file is written to its target as soon as it is staged.
StageReplacing ==
    /\ phase = "stage" /\ next \in Planned
    /\ original' = [original EXCEPT ![next] = content[Destination]]
    /\ content' = [content EXCEPT ![Destination] = next]
    /\ next' = next + 1
    /\ UNCHANGED <<plan, phase, temporaries, replaced, unrestored, stuck>>

\* stage: what the target holds is kept, and the new text written beside it.
Stage ==
    /\ phase = "stage" /\ next \in Planned
    /\ original' = [original EXCEPT ![next] = content[Destination]]
    /\ temporaries' = temporaries \cup {next}
    /\ next' = next + 1
    /\ UNCHANGED <<plan, phase, content, replaced, unrestored, stuck>>

\* A read or a write fails: this temporary and those before it are removed.
StageFails ==
    /\ phase = "stage" /\ next \in Planned
    /\ Discard(1 .. next)
    /\ phase' = "failed"
    /\ UNCHANGED <<plan, next, content, original, replaced, unrestored>>

Rename ==
    /\ phase = "rename" /\ next \in Planned
    /\ content' = [content EXCEPT ![Destination] = next]
    /\ temporaries' = temporaries \ {next}
    /\ next' = next + 1
    /\ UNCHANGED <<plan, phase, original, replaced, unrestored, stuck>>

Discarded == next .. N

RenameFails ==
    /\ phase = "rename" /\ next \in Planned
    /\ Discard(Discarded)
    /\ replaced' = next - 1
    /\ next' = 1
    /\ phase' = "restore"
    /\ UNCHANGED <<plan, content, original, unrestored>>

\* restore: a target that did not exist is removed, once.
RestoreAbsent ==
    /\ phase = "restore" /\ next <= replaced
    /\ Destination \notin plan.existing /\ content[Destination] # 0
    /\ content' = [content EXCEPT ![Destination] = original[next]]
    /\ next' = next + 1
    /\ UNCHANGED <<plan, phase, temporaries, original, replaced, unrestored, stuck>>

\* restore: one that did exist is truncated, and written again in place.
RestoreTruncates ==
    /\ phase = "restore" /\ next <= replaced
    /\ Destination \in plan.existing
    /\ content' = [content EXCEPT ![Destination] = -1]
    /\ phase' = "rewrite"
    /\ UNCHANGED <<plan, next, temporaries, original, replaced, unrestored, stuck>>

RestoreWrites ==
    /\ phase = "rewrite"
    /\ content' = [content EXCEPT ![Destination] = original[next]]
    /\ phase' = "restore"
    /\ next' = next + 1
    /\ UNCHANGED <<plan, temporaries, original, replaced, unrestored, stuck>>

\* Mutant: a file that was opened counts as put back.
NamedIfNotOpened == IF phase = "rewrite" THEN {} ELSE {Destination}

Named == {Destination}

\* It could not be removed, opened or written: the error names it.
RestoreFails ==
    /\ phase \in {"restore", "rewrite"} /\ next <= replaced
    /\ unrestored' = unrestored \cup Named
    /\ phase' = "restore"
    /\ next' = next + 1
    /\ UNCHANGED <<plan, content, temporaries, original, replaced, stuck>>

\* What follows a phase that is through with its files.
After == [resolve |-> "stage", stage |-> "rename", rename |-> "ok",
          restore |-> "failed"]

PhaseDone ==
    /\ phase \in DOMAIN After
    /\ next > IF phase = "restore" THEN replaced ELSE N
    /\ phase' = After[phase]
    /\ next' = 1
    /\ UNCHANGED <<plan, content, temporaries, original, replaced, unrestored, stuck>>

Returned == phase \in {"ok", "failed"}

\* The process is killed.
Crash ==
    /\ ~Returned /\ phase # "crashed"
    /\ phase' = "crashed"
    /\ UNCHANGED <<plan, next, content, temporaries, original, replaced, unrestored, stuck>>

WriteInit ==
    /\ plan \in Plans
    /\ phase = "resolve"
    /\ next = 1
    /\ content = [path \in Paths |-> 0]
    /\ temporaries = {}
    /\ original = [i \in Planned |-> 0]
    /\ replaced = 0
    /\ unrestored = {}
    /\ stuck = {}

WriteNext ==
    \/ Resolve \/ ResolveFails \/ Stage \/ StageFails \/ Rename \/ RenameFails
    \/ RestoreAbsent \/ RestoreTruncates \/ RestoreWrites \/ RestoreFails
    \/ PhaseDone \/ Crash

WriteSpec == WriteInit /\ [][WriteNext]_writeVars

-----------------------------------------------------------------------------
(* Properties.                                                             *)

TypeOK ==
    /\ plan \in Plans
    /\ phase \in {"resolve", "stage", "rename", "restore", "rewrite", "ok", "failed", "crashed"}
    /\ next \in 1 .. N + 1
    /\ content \in [Paths -> -1 .. N]
    /\ temporaries \subseteq Planned
    /\ original \in [Planned -> -1 .. N]
    /\ replaced \in 0 .. N
    /\ unrestored \subseteq Paths
    /\ stuck \subseteq Planned

Untouched == \A path \in Paths : content[path] = 0

\* A write that returns Ok has written every file; one that returns an error has
\* changed none, except those the error names.
AllOrNothing ==
    /\ phase = "ok" => \A i \in Planned :
                         \E j \in Planned : /\ content[plan.target[i]] = j
                                           /\ plan.target[j] = plan.target[i]
    /\ phase = "failed" => \A path \in Paths : content[path] = 0 \/ path \in unrestored

\* One file outside its chart fails the whole write before anything lands, a
\* temporary included.
EscapeChangesNothing ==
    plan.escapes # {} => Untouched /\ temporaries = {}

\* A write that returned has left no temporary but those it could not remove.
NothingLeftBehind ==
    Returned => temporaries \subseteq stuck

\* A write killed before a rename fails has lost no text: each is in its file,
\* or the one after it for the same file is, or it waits in its temporary; a
\* write that had touched no file is as if it had not begun.
KilledWriteLosesNothing ==
    phase = "crashed" /\ replaced = 0 /\ ~Untouched =>
        \A i \in Planned :
            \/ i \in temporaries
            \/ \E j \in i .. N : /\ content[plan.target[i]] = j
                                 /\ plan.target[j] = plan.target[i]

=============================================================================
