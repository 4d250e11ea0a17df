-------------------------- MODULE ServiceLifecycle --------------------------
(***************************************************************************)
(* What reload::run promises its caller, without files, watchers or        *)
(* re-reads: a service is started once, serves one configuration at a      *)
(* time, is replaced only by one with different values that load, is never *)
(* replaced before it has stopped, and once down stays down.               *)
(***************************************************************************)
CONSTANTS LoadableOnes,     \* the configurations a load accepts
          StartableOnes,    \* those whose runtime starts serving
          None

VARIABLES phase,    \* "starting" | "up" | "swapping" | "down"
          conf,     \* the configuration of the current generation
          served    \* the configurations some runtime is serving

lifecycleVars == <<phase, conf, served>>

Serving(c) == {c} \cap StartableOnes

LifecycleInit == phase = "starting" /\ conf = None /\ served = {}

Start(c) ==
    /\ phase = "starting"
    /\ phase' = "up"
    /\ conf' = c
    /\ served' = Serving(c)

Abort ==
    /\ phase = "starting"
    /\ phase' = "down"
    /\ UNCHANGED <<conf, served>>

BeginSwap ==
    /\ phase = "up"
    /\ phase' = "swapping"
    /\ UNCHANGED <<conf, served>>

RuntimeStops ==
    /\ served # {}
    /\ served' = {}
    /\ UNCHANGED <<phase, conf>>

Replace(c) ==
    /\ phase = "swapping"
    /\ served = {}
    /\ c # conf
    /\ phase' = "up"
    /\ conf' = c
    /\ served' = Serving(c)

GoDown ==
    /\ phase = "up"
    /\ served = {}
    /\ phase' = "down"
    /\ UNCHANGED <<conf, served>>

LifecycleNext ==
    \/ \E c \in LoadableOnes : Start(c) \/ Replace(c)
    \/ Abort \/ BeginSwap \/ RuntimeStops \/ GoDown

\* A swap that has begun is completed: the old runtime stops, the new is built.
LifecycleFairness ==
    /\ WF_lifecycleVars(phase = "swapping" /\ RuntimeStops)
    /\ WF_lifecycleVars(\E c \in LoadableOnes : Replace(c))

LifecycleSafety == LifecycleInit /\ [][LifecycleNext]_lifecycleVars

LifecycleSpec == LifecycleSafety /\ LifecycleFairness

=============================================================================
