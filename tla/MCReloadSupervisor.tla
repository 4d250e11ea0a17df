------------------------ MODULE MCReloadSupervisor ------------------------
(* Small instances of ReloadSupervisor for TLC. *)
EXTENDS ReloadSupervisor, TLC

CONSTANTS k1, k2, d1, d2

\* Two keys of one volume, which an update moves together and a re-read sees
\* in turn.
OneVolume == [k \in {k1, k2} |-> d1]

\* One key in each of two directories: either may be missing when the watch
\* starts, and their updates interleave.
TwoVolumes == (k1 :> d1) @@ (k2 :> d2)

=============================================================================
