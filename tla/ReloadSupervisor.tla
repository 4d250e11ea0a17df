-------------------------- MODULE ReloadSupervisor --------------------------
(***************************************************************************)
(* The supervisor of rust/src/reload.rs: a service that is torn down and   *)
(* rebuilt when the files its configuration came from change.              *)
(*                                                                         *)
(* Four actors share the state: whoever updates the mounted directories    *)
(* (the kubelet, an editor), the debouncer's thread, the supervisor's      *)
(* `select!` loop, and the runtimes it builds.  A re-read is not atomic:   *)
(* it reads one key at a time, and the directories move underneath it.     *)
(*                                                                         *)
(* A key stands for one file-backed configuration value.  What a value is  *)
(* matters only as far as the supervisor tells values apart: Bad does not  *)
(* load, Fatal loads but the runtime built from it fails to start, Absent  *)
(* is a key no file supplies, and the members of Good work.                *)
(***************************************************************************)
EXTENDS Naturals, Sequences, FiniteSets

CONSTANTS
    Keys,           \* the file-backed keys
    Dirs,           \* the directories Source::watch_paths names
    Home,           \* the directory that supplies each key
    Good,           \* values that load and build
    Bad, Fatal, Absent,
    Written,        \* bound: the values an update may leave in a file
    MaxUpdates,     \* bound: how often the directories are updated
    AtomicSwap,     \* TRUE: a `..data` rename; FALSE: files rewritten in place
    WatcherMayFail, \* may the install fail, or the debouncer's thread die?
    MayEndAlone     \* may a runtime return without having been told to?

Contents == Good \cup {Bad, Fatal, Absent}
Configs  == [Keys -> Contents]

ASSUME ConstantsAssumption ==
    /\ Home \in [Keys -> Dirs]
    /\ Written \subseteq Contents
    /\ MaxUpdates \in Nat
    /\ AtomicSwap \in BOOLEAN
    /\ WatcherMayFail \in BOOLEAN
    /\ MayEndAlone \in BOOLEAN
    /\ {Bad, Fatal, Absent} \cap Good = {}
    /\ Bad # Fatal /\ Bad # Absent /\ Fatal # Absent

VARIABLES
    disk,       \* what the files hold now
    target,     \* what they hold once the update under way is complete
    mounted,    \* the directories that exist
    updates,    \* how many updates have begun
    watcher,    \* "none" | "on" | "dead": the debouncer behind Watch
    watched,    \* the directories it watches, fixed when it is installed
    dirty,      \* an event is on its way to the debouncer or waiting in it
    signal,     \* the channel between the two threads, of depth one
    shutdown,   \* the process's own cancellation token
    pc,         \* where the supervisor is
    unread,     \* the keys the load under way has still to read
    reading,    \* what the last load read, or has read so far
    sources,    \* the fingerprint a re-read is compared with
    gens,       \* the runtimes built so far, oldest first
    blind       \* history: keys whose last change no watch covered

envVars   == <<target, mounted, updates>>
watchVars == <<watcher, watched>>
loopVars  == <<pc, unread, reading, sources>>
vars == <<disk, envVars, watchVars, dirty, signal, shutdown, loopVars, gens,
          blind>>

-----------------------------------------------------------------------------
(* Configurations and runtimes.                                            *)

Loadable(c)  == \A k \in Keys : c[k] # Bad
Buildable(c) == \A k \in Keys : c[k] # Fatal

Runtimes == [config : Configs, state : {"serving", "ok", "err"},
             cancelled : BOOLEAN, alone : BOOLEAN]

\* build(config, token): a future that serves, or fails as it starts.
Built(c) == [config |-> c, state |-> IF Buildable(c) THEN "serving" ELSE "err",
             cancelled |-> FALSE, alone |-> FALSE]

Latest == gens[Len(gens)]

\* Mutant: only the first generation's token is a child of the shutdown token.
OnlyFirstIsChild(i) == gens[i].cancelled \/ (shutdown /\ i = 1)

\* Every generation's token is a child of the shutdown token.
Stopping(i) == gens[i].cancelled \/ shutdown

-----------------------------------------------------------------------------
(* The directories.  An update is a burst of events: it begins (a new      *)
(* timestamped directory is written beside `..data`), then its content     *)
(* becomes visible, all at once by the rename or one file at a time.       *)

Pending == {k \in Keys : target[k] # disk[k]}

Covered(S) == watcher = "on" /\ \A k \in S : Home[k] \in watched

BeginUpdate(d) ==
    /\ target = disk
    /\ updates < MaxUpdates
    /\ \E new \in [Keys -> Contents] :
         /\ new # disk
         /\ \A k \in Keys : new[k] # disk[k] => new[k] \in Written
         /\ \A k \in Keys : Home[k] # d => new[k] = disk[k]
         /\ target' = new
    /\ mounted' = mounted \cup {d}
    /\ updates' = updates + 1
    /\ dirty' = (dirty \/ (watcher = "on" /\ d \in watched))
    /\ UNCHANGED <<disk, watchVars, signal, shutdown, loopVars, gens, blind>>

Portions == IF AtomicSwap THEN {Pending} ELSE {{k} : k \in Pending}

StepUpdate ==
    /\ target # disk
    /\ \E S \in Portions :
         /\ disk' = [k \in Keys |-> IF k \in S THEN target[k] ELSE disk[k]]
         /\ dirty' = (dirty \/ Covered(S))
         /\ blind' = IF Covered(S) THEN blind \ S ELSE blind \cup S
    /\ UNCHANGED <<envVars, watchVars, signal, shutdown, loopVars, gens>>

-----------------------------------------------------------------------------
(* The debouncer.  One notification per quiet period, and try_send drops   *)
(* it when one is already pending.  The gaps inside one burst are shorter  *)
(* than the window, so the timer never fires while an update is under way. *)

\* Mutant: a notification that finds the supervisor re-reading is dropped.
QuietDropsWhileBusy ==
    /\ watcher = "on"
    /\ dirty
    /\ target = disk
    /\ dirty' = FALSE
    /\ signal' = (signal \/ pc # "reread")
    /\ UNCHANGED <<disk, envVars, watchVars, shutdown, loopVars, gens, blind>>

Quiet ==
    /\ watcher = "on"
    /\ dirty
    /\ target = disk
    /\ dirty' = FALSE
    /\ signal' = TRUE
    /\ UNCHANGED <<disk, envVars, watchVars, shutdown, loopVars, gens, blind>>

WatcherDies ==
    /\ WatcherMayFail
    /\ watcher = "on"
    /\ watcher' = "dead"
    /\ dirty' = FALSE
    /\ UNCHANGED <<disk, envVars, watched, signal, shutdown, loopVars, gens,
                   blind>>

-----------------------------------------------------------------------------
(* The supervisor.                                                         *)

\* One file of a load: the boot load of the caller, or a re-read.
ReadKey(k) ==
    /\ pc \in {"boot", "reread"}
    /\ k \in unread
    /\ unread' = unread \ {k}
    /\ reading' = [reading EXCEPT ![k] = disk[k]]
    /\ blind' = blind \ {k}
    /\ UNCHANGED <<disk, envVars, watchVars, dirty, signal, shutdown, pc,
                   sources, gens>>

BootLoaded ==
    /\ pc = "boot"
    /\ unread = {}
    /\ pc' = IF Loadable(reading) THEN "install" ELSE "returned"
    /\ sources' = reading
    /\ UNCHANGED <<disk, envVars, watchVars, dirty, signal, shutdown, unread,
                   reading, gens, blind>>

\* Watch::install over the directories that exist, then the first build.
Install ==
    /\ pc = "install"
    /\ watched' = mounted
    /\ watcher' = IF mounted = {} THEN "none" ELSE "on"
    /\ gens' = <<Built(reading)>>
    /\ pc' = "select"
    /\ UNCHANGED <<disk, envVars, dirty, signal, shutdown, unread, reading,
                   sources, blind>>

InstallFails ==
    /\ WatcherMayFail
    /\ pc = "install"
    /\ mounted # {}
    /\ pc' = "returned"
    /\ UNCHANGED <<disk, envVars, watchVars, dirty, signal, shutdown, unread,
                   reading, sources, gens, blind>>

\* Mutant: the shutdown token makes run return without awaiting the runtime.
ReturnOnShutdown ==
    /\ pc = "select"
    /\ Latest.state # "serving" \/ shutdown
    /\ pc' = "returned"
    /\ UNCHANGED <<disk, envVars, watchVars, dirty, signal, shutdown, unread,
                   reading, sources, gens, blind>>

\* The two arms of `select!`.  Both may be ready, and either may be taken.
ReturnOutcome ==
    /\ pc = "select"
    /\ Latest.state # "serving"
    /\ pc' = "returned"
    /\ UNCHANGED <<disk, envVars, watchVars, dirty, signal, shutdown, unread,
                   reading, sources, gens, blind>>

TakeSignal ==
    /\ pc = "select"
    /\ signal
    /\ signal' = FALSE
    /\ pc' = "reread"
    /\ unread' = Keys
    /\ UNCHANGED <<disk, envVars, watchVars, dirty, shutdown, reading, sources,
                   gens, blind>>

\* Reread::Failed: the running configuration stays, bookkeeping and all.
RereadFailed ==
    /\ pc = "reread"
    /\ unread = {}
    /\ ~Loadable(reading)
    /\ pc' = "select"
    /\ UNCHANGED <<disk, envVars, watchVars, dirty, signal, shutdown, unread,
                   reading, sources, gens, blind>>

\* Source::differs_from, on the fingerprints.
Differs(next, current) == next # current

\* Reread::Unchanged: nothing is torn down, the sources are adopted.
RereadUnchanged ==
    /\ pc = "reread"
    /\ unread = {}
    /\ Loadable(reading)
    /\ ~Differs(reading, sources)
    /\ sources' = reading
    /\ pc' = "select"
    /\ UNCHANGED <<disk, envVars, watchVars, dirty, signal, shutdown, unread,
                   reading, gens, blind>>

\* Reread::Changed: generation.cancel(), then wait for the runtime.
RereadChanged ==
    /\ pc = "reread"
    /\ unread = {}
    /\ Loadable(reading)
    /\ Differs(reading, sources)
    /\ gens' = [gens EXCEPT ![Len(gens)].cancelled = TRUE]
    /\ pc' = "drain"
    /\ UNCHANGED <<disk, envVars, watchVars, dirty, signal, shutdown, unread,
                   reading, sources, blind>>

\* Mutant: the new runtime is built from the old configuration.
RebuildFromOld ==
    /\ pc = "drain"
    /\ Latest.state # "serving"
    /\ gens' = Append(gens, Built(sources))
    /\ sources' = reading
    /\ pc' = "select"
    /\ UNCHANGED <<disk, envVars, watchVars, dirty, signal, shutdown, unread,
                   reading, blind>>

\* The old runtime has completed, whatever it returned: build the next one.
Rebuild ==
    /\ pc = "drain"
    /\ Latest.state # "serving"
    /\ gens' = Append(gens, Built(reading))
    /\ sources' = reading
    /\ pc' = "select"
    /\ UNCHANGED <<disk, envVars, watchVars, dirty, signal, shutdown, unread,
                   reading, blind>>

-----------------------------------------------------------------------------
(* The runtimes, and the process's shutdown signal.                        *)

\* A runtime that was told to stop drains, and succeeds or fails at it.
StopOnToken(i) ==
    /\ gens[i].state = "serving"
    /\ Stopping(i)
    /\ \E s \in {"ok", "err"} : gens' = [gens EXCEPT ![i].state = s]
    /\ UNCHANGED <<disk, envVars, watchVars, dirty, signal, shutdown, loopVars,
                   blind>>

EndAlone(i) ==
    /\ MayEndAlone
    /\ gens[i].state = "serving"
    /\ ~Stopping(i)
    /\ \E s \in {"ok", "err"} :
         gens' = [gens EXCEPT ![i].state = s, ![i].alone = TRUE]
    /\ UNCHANGED <<disk, envVars, watchVars, dirty, signal, shutdown, loopVars,
                   blind>>

Shutdown ==
    /\ ~shutdown
    /\ shutdown' = TRUE
    /\ UNCHANGED <<disk, envVars, watchVars, dirty, signal, loopVars, gens,
                   blind>>

-----------------------------------------------------------------------------
Init ==
    /\ mounted \in SUBSET Dirs
    /\ disk \in {c \in Configs : \A k \in Keys :
                   IF Home[k] \in mounted THEN c[k] \in Good
                                          ELSE c[k] = Absent}
    /\ target = disk
    /\ updates = 0
    /\ watcher = "none"
    /\ watched = {}
    /\ dirty = FALSE
    /\ signal = FALSE
    /\ shutdown = FALSE
    /\ pc = "boot"
    /\ unread = Keys
    /\ reading = [k \in Keys |-> Absent]
    /\ sources = [k \in Keys |-> Absent]
    /\ gens = <<>>
    /\ blind = {}

Environment == StepUpdate \/ Shutdown \/ \E d \in Dirs : BeginUpdate(d)

Debouncer == Quiet \/ WatcherDies

Load == \E k \in Keys : ReadKey(k)

Reread == RereadFailed \/ RereadUnchanged \/ RereadChanged

Supervisor ==
    \/ Load
    \/ BootLoaded
    \/ Install
    \/ InstallFails
    \/ ReturnOutcome
    \/ TakeSignal
    \/ Reread
    \/ Rebuild

Stop == \E i \in DOMAIN gens : StopOnToken(i)
End  == \E i \in DOMAIN gens : EndAlone(i)

Next == Environment \/ Debouncer \/ Supervisor \/ Stop \/ End

Spec == Init /\ [][Next]_vars

(***************************************************************************)
(* Fairness.  The executor keeps polling the supervisor's future (WF on    *)
(* its steps), the debouncer's timer fires once the files are quiet, an    *)
(* update that has begun is completed, and `build` honours its contract:   *)
(* a runtime whose token is cancelled stops.  Nothing is assumed of        *)
(* updates beginning, runtimes ending alone, failures or the shutdown.     *)
(***************************************************************************)
Fairness ==
    /\ WF_vars(StepUpdate)
    /\ WF_vars(Quiet)
    /\ WF_vars(Load)
    /\ WF_vars(BootLoaded)
    /\ WF_vars(Install)
    /\ WF_vars(ReturnOutcome)
    /\ WF_vars(TakeSignal)
    /\ WF_vars(Reread)
    /\ WF_vars(Rebuild)
    /\ WF_vars(Stop)

FairSpec == Spec /\ Fairness

-----------------------------------------------------------------------------
(* Properties.                                                             *)

\* Every variable keeps to its values; in particular the runtimes are a
\* sequence of well-formed records (`run_with` and `Watch`).
TypeOK ==
    /\ disk \in Configs /\ target \in Configs
    /\ mounted \in SUBSET Dirs /\ watched \in SUBSET Dirs
    /\ updates \in Nat
    /\ watcher \in {"none", "on", "dead"}
    /\ dirty \in BOOLEAN /\ signal \in BOOLEAN /\ shutdown \in BOOLEAN
    /\ pc \in {"boot", "install", "select", "reread", "drain", "returned"}
    /\ unread \in SUBSET Keys /\ blind \in SUBSET Keys
    /\ reading \in Configs /\ sources \in Configs
    /\ gens \in Seq(Runtimes)

\* No two runtimes serve at once, so the old listener has released its address
\* before the new one binds it ("the replacement is not built until it does").
OneRuntime ==
    \A i, j \in DOMAIN gens :
        gens[i].state = "serving" /\ gens[j].state = "serving" => i = j

\* A re-read is always compared with the configuration that is running, never
\* with one that failed to load or that was read but not built.
SourcesAreRunning ==
    pc \in {"select", "reread", "drain"} =>
        gens # <<>> /\ sources = Latest.config

\* A runtime is told to stop by the supervisor only for a successor that loads
\* and has other values: a failed or no-op reload disturbs nothing.
StoppedForCause ==
    /\ \A i \in DOMAIN gens :
         /\ Loadable(gens[i].config)
         /\ i + 1 \in DOMAIN gens => gens[i + 1].config # gens[i].config
         /\ gens[i].cancelled => i < Len(gens) \/ pc = "drain"
    /\ pc = "drain" => Loadable(reading) /\ reading # sources

\* A change a watch covered is never lost, whatever the interleaving of the
\* update, the debouncer and the re-read: when the last load saw another value
\* than the file holds, a further re-read of that key is already on its way.
NoLostUpdate ==
    watcher # "dead" =>
        \A k \in Keys \ blind :
            disk[k] # reading[k] => dirty \/ signal \/ k \in unread

\* Once the files are quiet, the service runs what they say, unless what they
\* say does not load, no watch saw the change, or the service is gone.
FollowsFiles ==
    <>[](\/ pc = "returned"
         \/ gens # <<>> /\ Latest.config = disk
         \/ ~Loadable(disk)
         \/ blind # {}
         \/ watcher = "dead")

\* A cancelled shutdown token takes the service down whatever the supervisor
\* is doing: loading, re-reading, or between two runtimes.
ShutdownReturns == shutdown ~> pc = "returned"

-----------------------------------------------------------------------------
(* What the caller of reload::run sees.                                    *)

PhaseSeen ==
    IF pc = "returned" THEN "down"
    ELSE IF gens = <<>> THEN "starting"
    ELSE IF pc = "drain" THEN "swapping" ELSE "up"

ConfSeen == IF gens = <<>> THEN Absent ELSE sources

ServedSeen == {gens[i].config :
                  i \in {j \in DOMAIN gens : gens[j].state = "serving"}}

Lifecycle == INSTANCE ServiceLifecycle WITH
    LoadableOnes  <- {c \in Configs : Loadable(c)},
    StartableOnes <- {c \in Configs : Buildable(c)},
    None          <- Absent,
    phase         <- PhaseSeen,
    conf          <- ConfSeen,
    served        <- ServedSeen

\* The supervisor keeps the promises of ServiceLifecycle, fairness included.
KeepsLifecycle == Lifecycle!LifecycleSpec

-----------------------------------------------------------------------------
(* What comments of the source say, and the code does not keep.            *)

\* "A reload ... that fails to build, leaves the running service exactly as it
\* was" (module documentation): only the boot configuration can be fatal.
BadReloadIsHarmless ==
    pc = "returned" /\ Len(gens) > 1 => Buildable(Latest.config)

=============================================================================
