---------------------------- MODULE PinnedReload ----------------------------
(***************************************************************************)
(* A service that keeps its restart-class keys at their boot values: the   *)
(* two loading entry points of rust/src/terrace.rs, the Reloader of        *)
(* rust/src/reloader.rs, and what the supervisor does with each reload.    *)
(*                                                                         *)
(* One action is one whole reload here; ReloadSupervisor models what runs  *)
(* between its steps.  Restarting the process is the only way to change    *)
(* the pins, so the model restarts it.                                     *)
(***************************************************************************)
EXTENDS ConfigTree, FiniteSets

CONSTANTS
    Trees,          \* bound: what the merged layers may say
    Leaves,         \* the paths of the described keys
    RestartPaths,   \* Schema::restart_paths, aliases included
    PinOrder,       \* the same, in the order Pins::capture sorts them
    Bad,            \* a leaf that fails to parse
    Clashes         \* combinations of leaves a condition of the type refuses

ASSUME PinsAssumption ==
    /\ RestartPaths \subseteq Leaves /\ IsFiniteSet(RestartPaths)
    /\ PinOrder \in [1 .. Cardinality(RestartPaths) -> RestartPaths]
    /\ RestartPaths = {PinOrder[i] : i \in DOMAIN PinOrder}

\* Keys are dotted paths, and a value is a tree: what leads to a node is a table.
ASSUME TreesAssumption ==
    /\ Leaves \subseteq Seq(STRING)
    /\ \A t \in Trees :
          /\ DOMAIN t \subseteq Seq(STRING)
          /\ \A q \in DOMAIN t : \A p \in Parents(q) : p \in DOMAIN t /\ t[p] = Table

\* A condition of the type names leaves, and what it refuses them to be together.
ASSUME ClashesAssumption == \A clash \in Clashes : DOMAIN clash \subseteq Leaves

VARIABLES
    declared,   \* did the builder declare ReloadSupport::rebuild?
    entry,      \* "reloader" | "watched": how the binary loads
    phase,      \* "down" | "up" | "refused"
    disk,       \* what the layers say now
    pins,       \* what each restart path held at boot
    running,    \* the configuration the current runtime was built with
    sources,    \* the fingerprint and the pending list the loop compares with
    logged,     \* what the operator was last told is waiting for a restart
    outcome,    \* what the last load came to
    boot,       \* history: what this process was started with
    accepted    \* history: what the last successful load read

vars == <<declared, entry, phase, disk, pins, running, sources, logged,
          outcome, boot, accepted>>

-----------------------------------------------------------------------------
(* figment.extract::<T>(): the tables and the leaves are where the type    *)
(* has them, every leaf parses, and no condition of the type is broken.    *)

Extracts(t) ==
    /\ \A q \in DOMAIN t : q \in Leaves <=> t[q] # Table
    /\ \A q \in DOMAIN t : t[q] # Bad
    /\ \A clash \in Clashes :
         ~ \A q \in DOMAIN clash : q \in DOMAIN t /\ t[q] = clash[q]

Sources(fingerprint, pending) == [fingerprint |-> fingerprint,
                                  pending |-> pending]

\* reload::Source for Sources: whether a re-read resolves to different values.
DiffersFrom(next, current) == ~SameValue(next.fingerprint, current.fingerprint)

\* Mutant: only the configuration the runtime would get is extracted.
LoadFailsPinnedOnly(t) ==
    IF PendingIn(pins, t) = {} THEN ~Extracts(t)
    ELSE ~Extracts(Apply(pins, PinOrder, t))

\* Mutant: only what the files say is extracted.
LoadFailsDiskOnly(t) == ~Extracts(t)

\* Reloader::reload, or the closure around Terrace::load_watched (no pins).
LoadFails(t) ==
    \/ ~Extracts(t)
    \/ /\ PendingIn(pins, t) # {}
       /\ ~Extracts(Apply(pins, PinOrder, t))

Loaded(t) ==
    LET pending == PendingIn(pins, t)
    IN  IF pending = {} THEN Sources(t, {})
        ELSE Sources(Apply(pins, PinOrder, t), pending)

-----------------------------------------------------------------------------
\* Terrace::reloader and Terrace::load_watched refuse each other's loaders.
Refuses == \/ entry = "reloader" /\ ~declared
           \/ entry = "watched" /\ declared

Refuse ==
    /\ phase = "down"
    /\ Refuses
    /\ phase' = "refused"
    /\ UNCHANGED <<declared, entry, disk, pins, running, sources, logged,
                   outcome, boot, accepted>>

Boot ==
    /\ phase = "down"
    /\ ~Refuses
    /\ Extracts(disk)
    /\ phase' = "up"
    /\ pins' = IF entry = "reloader" THEN Capture(RestartPaths, disk) ELSE <<>>
    /\ running' = disk
    /\ sources' = Sources(disk, {})
    /\ logged' = {}
    /\ outcome' = "booted"
    /\ boot' = disk
    /\ accepted' = disk
    /\ UNCHANGED <<declared, entry, disk>>

Edit(t) ==
    /\ disk' = t
    /\ UNCHANGED <<declared, entry, phase, pins, running, sources, logged,
                   outcome, boot, accepted>>

ReloadFailed ==
    /\ phase = "up"
    /\ LoadFails(disk)
    /\ outcome' = "failed"
    /\ UNCHANGED <<declared, entry, phase, disk, pins, running, sources,
                   logged, boot, accepted>>

\* Mutant: an unchanged re-read leaves the bookkeeping as it was.
ReloadUnchangedForgets ==
    /\ phase = "up"
    /\ ~LoadFails(disk)
    /\ ~DiffersFrom(Loaded(disk), sources)
    /\ logged' = Loaded(disk).pending
    /\ outcome' = "unchanged"
    /\ accepted' = disk
    /\ UNCHANGED <<declared, entry, phase, disk, pins, running, sources, boot>>

\* report_pending, then Reread::Unchanged: the sources are adopted, no rebuild.
ReloadUnchanged ==
    /\ phase = "up"
    /\ ~LoadFails(disk)
    /\ ~DiffersFrom(Loaded(disk), sources)
    /\ logged' = IF Loaded(disk).pending # sources.pending
                 THEN Loaded(disk).pending ELSE logged
    /\ sources' = Loaded(disk)
    /\ outcome' = "unchanged"
    /\ accepted' = disk
    /\ UNCHANGED <<declared, entry, phase, disk, pins, running, boot>>

\* Mutant: each generation pins to the one before it.
ReloadRepins ==
    /\ phase = "up"
    /\ ~LoadFails(disk)
    /\ DiffersFrom(Loaded(disk), sources)
    /\ logged' = IF Loaded(disk).pending # sources.pending
                 THEN Loaded(disk).pending ELSE logged
    /\ pins' = [path \in DOMAIN pins |-> Find(disk, path)]
    /\ sources' = Loaded(disk)
    /\ running' = Loaded(disk).fingerprint
    /\ outcome' = "rebuilt"
    /\ accepted' = disk
    /\ UNCHANGED <<declared, entry, phase, disk, boot>>

\* report_pending, then Reread::Changed: the runtime is rebuilt.
ReloadRebuilds ==
    /\ phase = "up"
    /\ ~LoadFails(disk)
    /\ DiffersFrom(Loaded(disk), sources)
    /\ logged' = IF Loaded(disk).pending # sources.pending
                 THEN Loaded(disk).pending ELSE logged
    /\ sources' = Loaded(disk)
    /\ running' = Loaded(disk).fingerprint
    /\ outcome' = "rebuilt"
    /\ accepted' = disk
    /\ UNCHANGED <<declared, entry, phase, disk, pins, boot>>

Reload == ReloadFailed \/ ReloadUnchanged \/ ReloadRebuilds

\* The process exits, and its scheduler starts it again.
Exit ==
    /\ phase = "up"
    /\ phase' = "down"
    /\ UNCHANGED <<declared, entry, disk, pins, running, sources, logged,
                   outcome, boot, accepted>>

Init ==
    /\ declared \in BOOLEAN
    /\ entry \in {"reloader", "watched"}
    /\ phase = "down"
    /\ disk \in Trees
    /\ pins = <<>>
    /\ running = <<>>
    /\ sources = Sources(<<>>, {})
    /\ logged = {}
    /\ outcome = "none"
    /\ boot = <<>>
    /\ accepted = <<>>

Next == Refuse \/ Boot \/ Reload \/ Exit \/ \E t \in Trees : Edit(t)

Spec == Init /\ [][Next]_vars

-----------------------------------------------------------------------------
(* Properties.                                                             *)

Up == phase = "up"

\* A binary that declared a rebuild keeps every restart-class key, aliases
\* included, at the value this process was started with, however many rebuilds
\* have happened and whatever the files said in between.
RestartKeysAtBoot ==
    Up /\ declared =>
        \A path \in RestartPaths :
            SameValue(Find(running, path), Find(boot, path))

\* Every other key runs with the value the last load read, with or without pins:
\* holding one key back holds no other back and drops none.
LiveKeysFollow ==
    Up => \A key \in Leaves \ (IF entry = "reloader" THEN RestartPaths ELSE {}) :
              /\ key \in DOMAIN running <=> key \in DOMAIN accepted
              /\ key \in DOMAIN running => running[key] = accepted[key]

\* What is held back is exactly what is reported, and what was last logged: a
\* key is pending iff the last load read another value than it had at boot.
PendingIsHeldBack ==
    Up /\ entry = "reloader" =>
        /\ sources.pending =
             {path \in RestartPaths :
                 ~SameValue(Find(boot, path), Find(accepted, path))}
        /\ logged = sources.pending

\* A condition that the live values of the files break together with the
\* restart values this process was started with, many reloads ago.
BrokenTogether ==
    \E clash \in Clashes : \A q \in DOMAIN clash :
        LET t == IF q \in RestartPaths THEN boot ELSE disk
        IN  q \in DOMAIN t /\ t[q] = clash[q]

\* What runs mixes the values of two moments, and is a value of the type all the
\* same: a reload is refused when the files would fail the next boot, or when
\* their live values break a condition with the restart values of the boot, which
\* the files themselves keep; and for no other reason.
MixturesExtract ==
    Up => /\ Extracts(running)
          /\ LoadFails(disk) <=>
                (~Extracts(disk) \/ (entry = "reloader" /\ BrokenTogether))

\* Reading the same files again never tears the service down, whatever floats
\* they hold.
NoRebuildWithoutChange ==
    [][ReloadRebuilds => disk # accepted]_vars

-----------------------------------------------------------------------------
\* Setting the pinned paths back, one after the other, gives the tree that has
\* the boot's values at the pinned paths and the new ones everywhere else, with
\* a table wherever one of the two needs it.
ApplyMatchesReference ==
    Up /\ entry = "reloader" /\ Extracts(disk) =>
        LET result == Apply(pins, PinOrder, disk)
            live   == {q \in DOMAIN disk :
                          \A path \in RestartPaths : ~IsPrefix(path, q)}
            held   == UNION {{path \o r : r \in DOMAIN pins[path]} :
                                path \in RestartPaths}
            above  == UNION {Parents(path) : path \in
                          {p \in RestartPaths : pins[p] # Nothing}}
        IN  /\ DOMAIN result = live \cup held \cup above
            /\ \A q \in live : result[q] = disk[q]
            /\ \A path \in RestartPaths : Find(result, path) = pins[path]
            /\ \A q \in above : result[q] = Table

=============================================================================
