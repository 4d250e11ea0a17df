----------------------- MODULE ReloadSupervisorProofs -----------------------
(* The safety of the reload supervisor, for every set of keys and          *)
(* directories, every content and any number of updates.                   *)
EXTENDS ReloadSupervisor, SequenceTheorems, TLAPS

\* Lemma: a runtime as `build` returns it is a well-formed record, whatever
\* loadable or unbuildable configuration it is given.
LEMMA BuiltType == ASSUME NEW c \in Configs
                   PROVE  /\ Built(c) \in Runtimes
                          /\ Built(c).config = c
                          /\ Built(c).cancelled = FALSE
BY DEF Built, Runtimes

\* Lemma: what cancelling or ending one runtime does to the sequence of them.
LEMMA RuntimeReplaced ==
    ASSUME NEW s \in Seq(Runtimes), NEW i \in DOMAIN s, NEW r \in Runtimes
    PROVE  LET t == [s EXCEPT ![i] = r]
           IN  /\ t \in Seq(Runtimes)
               /\ Len(t) = Len(s)
               /\ DOMAIN t = DOMAIN s
               /\ \A j \in DOMAIN s : t[j] = IF j = i THEN r ELSE s[j]
BY ExceptSeq, LenProperties

\* Lemma: what building the next runtime does to the sequence of them.
LEMMA RuntimeAppended ==
    ASSUME NEW s \in Seq(Runtimes), NEW r \in Runtimes
    PROVE  LET t == Append(s, r)
           IN  /\ t \in Seq(Runtimes)
               /\ Len(t) = Len(s) + 1
               /\ DOMAIN t = 1 .. Len(s) + 1
               /\ t[Len(s) + 1] = r
               /\ \A j \in DOMAIN s : t[j] = s[j]
BY AppendProperties, LenProperties

\* Lemma: what each action that touches a runtime does to the sequence of them.
LEMMA CancelEffect ==
    ASSUME TypeOK, gens # <<>>, RereadChanged
    PROVE  LET i == Len(gens)
               r == [gens[i] EXCEPT !.cancelled = TRUE]
           IN  i \in DOMAIN gens /\ r \in Runtimes
               /\ gens' = [gens EXCEPT ![i] = r]
<1>1. Len(gens) \in DOMAIN gens
  BY LenProperties, EmptySeq DEF TypeOK
<1>2. gens[Len(gens)] \in Runtimes
  BY <1>1, LenProperties DEF TypeOK
<1> QED
  BY <1>1, <1>2 DEF RereadChanged, Runtimes

LEMMA StopEffect ==
    ASSUME TypeOK, NEW i \in DOMAIN gens, StopOnToken(i) \/ EndAlone(i)
    PROVE  \E r \in Runtimes :
               /\ r.config = gens[i].config
               /\ r.cancelled = gens[i].cancelled
               /\ r.state # "serving"
               /\ gens' = [gens EXCEPT ![i] = r]
<1>1. gens[i] \in Runtimes
  BY LenProperties DEF TypeOK
<1>2. CASE StopOnToken(i)
  <2>1. PICK s \in {"ok", "err"} : gens' = [gens EXCEPT ![i].state = s]
    BY <1>2 DEF StopOnToken
  <2> DEFINE r == [gens[i] EXCEPT !.state = s]
  <2>2. r \in Runtimes /\ gens' = [gens EXCEPT ![i] = r]
    BY <1>1, <2>1 DEF Runtimes
  <2>3. r.config = gens[i].config /\ r.cancelled = gens[i].cancelled
        /\ r.state # "serving"
    BY <1>1 DEF Runtimes
  <2> QED
    BY <2>2, <2>3
<1>3. CASE EndAlone(i)
  <2>1. PICK s \in {"ok", "err"} :
           gens' = [gens EXCEPT ![i].state = s, ![i].alone = TRUE]
    BY <1>3 DEF EndAlone
  <2> DEFINE r == [gens[i] EXCEPT !.state = s, !.alone = TRUE]
  <2>2. r \in Runtimes /\ gens' = [gens EXCEPT ![i] = r]
    BY <1>1, <2>1 DEF Runtimes
  <2>3. r.config = gens[i].config /\ r.cancelled = gens[i].cancelled
        /\ r.state # "serving"
    BY <1>1 DEF Runtimes
  <2> QED
    BY <2>2, <2>3
<1> QED
  BY <1>2, <1>3

-----------------------------------------------------------------------------
\* A supervisor that is in its loop has built a runtime: TypeOK alone is not
\* inductive, because cancelling the latest runtime needs one.
Started == pc \in {"select", "reread", "drain"} => gens # <<>>

\* Lemma: the initial states are well typed.
LEMMA InitTyped == Init => TypeOK /\ Started
<1> SUFFICES ASSUME Init PROVE TypeOK /\ Started
  OBVIOUS
<1>1. disk \in Configs /\ target \in Configs
  BY DEF Init
<1>2. [k \in Keys |-> Absent] \in Configs
  BY DEF Configs, Contents
<1>3. gens \in Seq(Runtimes)
  BY EmptySeq DEF Init
<1> QED
  BY <1>1, <1>2, <1>3 DEF Init, TypeOK, Started

\* Lemma: every step of the four actors keeps every variable well typed.
LEMMA StepTyped == TypeOK /\ Started /\ [Next]_vars => TypeOK' /\ Started'
<1> SUFFICES ASSUME TypeOK, Started, [Next]_vars PROVE TypeOK' /\ Started'
  OBVIOUS
<1> USE DEF Started
<1>1. ASSUME NEW d \in Dirs, BeginUpdate(d) PROVE TypeOK' /\ Started'
  BY <1>1 DEF TypeOK, BeginUpdate, envVars, watchVars, loopVars, Configs
<1>2. CASE StepUpdate
  <2>1. PICK S \in Portions :
            /\ disk' = [k \in Keys |-> IF k \in S THEN target[k] ELSE disk[k]]
            /\ dirty' = (dirty \/ Covered(S))
            /\ blind' = IF Covered(S) THEN blind \ S ELSE blind \cup S
    BY <1>2 DEF StepUpdate
  <2>2. S \subseteq Keys
    BY DEF Portions, Pending
  <2>3. disk' \in Configs
    BY <2>1 DEF Configs, TypeOK
  <2>4. dirty' \in BOOLEAN
    BY <2>1 DEF TypeOK, Covered
  <2> QED
    BY <1>2, <2>1, <2>2, <2>3, <2>4
    DEF TypeOK, StepUpdate, envVars, watchVars, loopVars
<1>3. CASE Quiet
  BY <1>3 DEF TypeOK, Quiet, envVars, watchVars, loopVars
<1>4. CASE WatcherDies
  BY <1>4 DEF TypeOK, WatcherDies, envVars, loopVars
<1>5. ASSUME NEW k \in Keys, ReadKey(k) PROVE TypeOK' /\ Started'
  BY <1>5 DEF TypeOK, ReadKey, envVars, watchVars, Configs
<1>6. CASE BootLoaded
  BY <1>6 DEF TypeOK, BootLoaded, envVars, watchVars
<1>7. CASE Install
  <2>1. Built(reading) \in Runtimes
    BY BuiltType DEF TypeOK
  <2>2. gens' = <<Built(reading)>>
    BY <1>7 DEF Install
  <2> HIDE DEF Built
  <2>3. gens' \in Seq(Runtimes) /\ gens' # <<>>
    BY <2>1, <2>2
  <2> QED
    BY <1>7, <2>3 DEF TypeOK, Install, envVars
<1>8. CASE InstallFails
  BY <1>8 DEF TypeOK, InstallFails, envVars, watchVars
<1>9. CASE ReturnOutcome
  BY <1>9 DEF TypeOK, ReturnOutcome, envVars, watchVars
<1>10. CASE TakeSignal
  BY <1>10 DEF TypeOK, TakeSignal, envVars, watchVars
<1>11. CASE RereadFailed
  BY <1>11 DEF TypeOK, RereadFailed, envVars, watchVars
<1>12. CASE RereadUnchanged
  BY <1>12 DEF TypeOK, RereadUnchanged, envVars, watchVars
<1>13. CASE RereadChanged
  <2>1. gens # <<>>
    BY <1>13 DEF RereadChanged
  <2> DEFINE n == Len(gens)
             r == [gens[n] EXCEPT !.cancelled = TRUE]
  <2>0. n \in DOMAIN gens /\ r \in Runtimes /\ gens' = [gens EXCEPT ![n] = r]
    BY <1>13, <2>1, CancelEffect
  <2>2. gens' \in Seq(Runtimes) /\ Len(gens') = Len(gens)
    <3> HIDE DEF n, r
    <3> QED
    BY <2>0, RuntimeReplaced DEF TypeOK
  <2>3. Len(gens) # 0
    BY <2>1, EmptySeq DEF TypeOK
  <2>4. gens' # <<>>
    BY <2>2, <2>3
  <2> QED
    BY <1>13, <2>2, <2>4 DEF TypeOK, RereadChanged, envVars, watchVars
<1>14. CASE Rebuild
  <2>1. Built(reading) \in Runtimes
    BY BuiltType DEF TypeOK
  <2>2. gens' = Append(gens, Built(reading))
    BY <1>14 DEF Rebuild
  <2>3. gens' \in Seq(Runtimes) /\ gens' # <<>>
    BY <2>1, <2>2, AppendProperties DEF TypeOK
  <2> QED
    BY <1>14, <2>3 DEF TypeOK, Rebuild, envVars, watchVars
<1>15. ASSUME NEW i \in DOMAIN gens, StopOnToken(i) \/ EndAlone(i)
       PROVE TypeOK' /\ Started'
  <2>1. gens' \in Seq(Runtimes) /\ (gens # <<>> => gens' # <<>>)
    BY <1>15, StopEffect, RuntimeReplaced, EmptySeq DEF TypeOK
  <2> QED
    BY <1>15, <2>1
    DEF TypeOK, StopOnToken, EndAlone, envVars, watchVars, loopVars
<1>16. CASE Shutdown
  BY <1>16 DEF TypeOK, Shutdown, envVars, watchVars, loopVars
<1>17. CASE UNCHANGED vars
  BY <1>17 DEF TypeOK, vars, envVars, watchVars, loopVars
<1> QED
  BY <1>1, <1>2, <1>3, <1>4, <1>5, <1>6, <1>7, <1>8, <1>9, <1>10, <1>11,
     <1>12, <1>13, <1>14, <1>15, <1>16, <1>17
  DEF Next, Environment, Debouncer, Supervisor, Load, Reread, Stop, End

\* Type correctness: whatever the interleaving of the directories' updates, the
\* debouncer, the supervisor and the runtimes, no variable leaves its type.
THEOREM TypeCorrect == Spec => []TypeOK
<1>1. TypeOK /\ Started /\ [Next]_vars => (TypeOK /\ Started)'
  BY StepTyped
<1> QED
  BY InitTyped, <1>1, PTL DEF Spec

-----------------------------------------------------------------------------
(* The supervisor's loop.  Besides the three invariants to be proved, the  *)
(* induction needs what the loop knows at each point: nothing is built     *)
(* before the watch is installed, a load that is not under way has read    *)
(* every key, and only the latest runtime can be serving.                  *)

OnlyLatestServes ==
    \A i \in DOMAIN gens : gens[i].state = "serving" => i = Len(gens)

LoopState ==
    /\ pc \in {"boot", "install"} => gens = <<>> /\ watcher = "none"
    /\ pc = "install" => Loadable(reading) /\ sources = reading
    /\ pc \notin {"boot", "reread"} => unread = {}
    /\ gens = <<>> => pc \in {"boot", "install", "returned"}

LoopInv == LoopState /\ OnlyLatestServes /\ SourcesAreRunning
                     /\ StoppedForCause

\* Lemma: the initial states satisfy the loop invariant.
LEMMA InitLoop == Init => LoopInv
BY DEF Init, LoopInv, LoopState, OnlyLatestServes, SourcesAreRunning,
       StoppedForCause

\* Lemma: a step that only moves files, the debouncer or the shutdown token
\* keeps the loop invariant.
LEMMA OutsideLoop ==
    ASSUME LoopInv, UNCHANGED <<loopVars, gens>>,
           watcher' = watcher \/ watcher = "on"
    PROVE  LoopInv'
BY DEF LoopInv, LoopState, OnlyLatestServes, SourcesAreRunning,
       StoppedForCause, loopVars, Latest, Loadable

\* Lemma: every step keeps the loop invariant.
LEMMA StepLoop == TypeOK /\ LoopInv /\ [Next]_vars => LoopInv'
<1> SUFFICES ASSUME TypeOK, LoopInv, [Next]_vars PROVE LoopInv'
  OBVIOUS
<1>0. /\ gens \in Seq(Runtimes) /\ Len(gens) \in Nat
      /\ DOMAIN gens = 1 .. Len(gens)
      /\ gens # <<>> => Len(gens) \in DOMAIN gens
  BY LenProperties, EmptySeq DEF TypeOK
<1>1. ASSUME NEW d \in Dirs, BeginUpdate(d) PROVE LoopInv'
  BY <1>1, OutsideLoop DEF BeginUpdate, watchVars
<1>2. CASE StepUpdate
  BY <1>2, OutsideLoop DEF StepUpdate, watchVars
<1>3. CASE Quiet
  BY <1>3, OutsideLoop DEF Quiet, watchVars
<1>4. CASE WatcherDies
  BY <1>4, OutsideLoop DEF WatcherDies
<1>5. ASSUME NEW k \in Keys, ReadKey(k) PROVE LoopInv'
  BY <1>5 DEF ReadKey, watchVars, LoopInv, LoopState, OnlyLatestServes,
              SourcesAreRunning, StoppedForCause, Latest, Loadable
<1>6. CASE BootLoaded
  BY <1>6 DEF BootLoaded, watchVars, LoopInv, LoopState, OnlyLatestServes,
              SourcesAreRunning, StoppedForCause, Latest, Loadable
<1>7. CASE Install
  <2>1. gens' = <<Built(reading)>> /\ Built(reading).config = reading
        /\ Built(reading).cancelled = FALSE
    BY <1>7, BuiltType DEF Install, TypeOK
  <2>2. Len(gens') = 1 /\ DOMAIN gens' = {1} /\ gens'[1] = Built(reading)
    BY <2>1
  <2>3. pc' = "select" /\ pc = "install" /\ UNCHANGED <<reading, sources, unread>>
    BY <1>7 DEF Install
  <2>4. Loadable(reading) /\ sources = reading /\ unread = {}
    BY <2>3 DEF LoopInv, LoopState
  <2> QED
    BY <2>1, <2>2, <2>3, <2>4
    DEF LoopInv, LoopState, OnlyLatestServes, SourcesAreRunning,
        StoppedForCause, Latest
<1>8. CASE InstallFails
  BY <1>8 DEF InstallFails, watchVars, LoopInv, LoopState, OnlyLatestServes,
              SourcesAreRunning, StoppedForCause, Latest, Loadable
<1>9. CASE ReturnOutcome
  BY <1>9 DEF ReturnOutcome, watchVars, LoopInv, LoopState, OnlyLatestServes,
              SourcesAreRunning, StoppedForCause, Latest, Loadable
<1>10. CASE TakeSignal
  BY <1>10 DEF TakeSignal, watchVars, LoopInv, LoopState, OnlyLatestServes,
               SourcesAreRunning, StoppedForCause, Latest, Loadable
<1>11. CASE RereadFailed
  BY <1>11 DEF RereadFailed, watchVars, LoopInv, LoopState, OnlyLatestServes,
               SourcesAreRunning, StoppedForCause, Latest, Loadable
<1>12. CASE RereadUnchanged
  BY <1>12 DEF RereadUnchanged, Differs, watchVars, LoopInv, LoopState,
               OnlyLatestServes, SourcesAreRunning, StoppedForCause, Latest,
               Loadable
<1>13. CASE RereadChanged
  <2>1. gens # <<>>
    BY <1>13 DEF RereadChanged, LoopInv, LoopState
  <2> DEFINE n == Len(gens)
             r == [gens[n] EXCEPT !.cancelled = TRUE]
  <2>2. n \in DOMAIN gens /\ r \in Runtimes /\ gens' = [gens EXCEPT ![n] = r]
    BY <1>13, <2>1, CancelEffect
  <2>3. r.config = gens[n].config /\ r.state = gens[n].state
    BY <1>0, <2>2, ElementOfSeq DEF Runtimes
  <2>4. /\ Len(gens') = n /\ DOMAIN gens' = DOMAIN gens /\ gens'[n] = r
        /\ \A j \in DOMAIN gens : j # n => gens'[j] = gens[j]
    BY <1>0, <2>2, RuntimeReplaced
  <2>5. \A j \in DOMAIN gens : gens'[j].config = gens[j].config
                               /\ gens'[j].state = gens[j].state
    BY <2>3, <2>4
  <2>6. /\ pc = "reread" /\ pc' = "drain" /\ Loadable(reading)
        /\ reading # sources /\ UNCHANGED <<reading, sources, unread, watcher>>
        /\ unread = {}
    BY <1>13 DEF RereadChanged, Differs, watchVars
  <2>7. LoopState' /\ OnlyLatestServes' /\ SourcesAreRunning'
    <3> HIDE DEF n, r
    <3> QED
    BY <1>0, <2>1, <2>2, <2>4, <2>5, <2>6
    DEF LoopInv, LoopState, OnlyLatestServes, SourcesAreRunning, Latest, n
  <2>8. StoppedForCause'
    <3> HIDE DEF n, r
    <3> QED
    BY <1>0, <2>2, <2>4, <2>5, <2>6 DEF LoopInv, StoppedForCause, Loadable, n
  <2> QED
    BY <2>7, <2>8 DEF LoopInv
<1>14. CASE Rebuild
  <2> DEFINE n == Len(gens)
  <2>1. /\ Built(reading) \in Runtimes /\ Built(reading).config = reading
        /\ Built(reading).cancelled = FALSE
    BY BuiltType DEF TypeOK
  <2>2. gens' = Append(gens, Built(reading))
    BY <1>14 DEF Rebuild
  <2>3. /\ Len(gens') = n + 1 /\ DOMAIN gens' = 1 .. n + 1
        /\ gens'[n + 1] = Built(reading)
        /\ \A j \in 1 .. n : gens'[j] = gens[j]
    BY <1>0, <2>1, <2>2, RuntimeAppended
  <2>4. /\ pc = "drain" /\ pc' = "select" /\ gens[n].state # "serving"
        /\ sources' = reading /\ UNCHANGED <<reading, unread, watcher>>
    BY <1>14 DEF Rebuild, Latest, watchVars
  <2>5. /\ gens # <<>> /\ gens[n].config = sources /\ Loadable(reading)
        /\ reading # sources /\ unread = {}
    BY <2>4 DEF LoopInv, LoopState, SourcesAreRunning, StoppedForCause, Latest
  <2>6. LoopState'
    BY <1>0, <2>3, <2>4, <2>5 DEF LoopInv, LoopState
  <2>7. OnlyLatestServes'
    BY <1>0, <2>3, <2>4 DEF LoopInv, OnlyLatestServes
  <2>8. SourcesAreRunning'
    <3>1. gens' # <<>>
      BY <1>0, <2>1, <2>2, AppendProperties
    <3> QED
      BY <1>0, <2>1, <2>3, <2>4, <3>1 DEF SourcesAreRunning, Latest
  <2>9. StoppedForCause'
    <3> SUFFICES ASSUME NEW i \in DOMAIN gens'
                 PROVE  /\ Loadable(gens'[i].config)
                        /\ i + 1 \in DOMAIN gens' =>
                             gens'[i + 1].config # gens'[i].config
                        /\ gens'[i].cancelled => i < Len(gens')
      BY <2>4 DEF StoppedForCause, Loadable
    <3>1. CASE i = n + 1
      BY <1>0, <2>1, <2>3, <2>5, <3>1
    <3>2. CASE i \in 1 .. n
      <4>1. gens'[i] = gens[i] /\ Loadable(gens[i].config) /\ i < Len(gens')
        BY <1>0, <2>3, <3>2 DEF LoopInv, StoppedForCause
      <4>2. CASE i = n
        BY <1>0, <2>1, <2>3, <2>5, <4>1, <4>2
      <4>3. CASE i < n
        BY <1>0, <2>3, <3>2, <4>1, <4>3 DEF LoopInv, StoppedForCause
      <4> QED
        BY <1>0, <3>2, <4>2, <4>3
    <3> QED
      BY <1>0, <2>3, <3>1, <3>2
  <2> QED
    BY <2>6, <2>7, <2>8, <2>9 DEF LoopInv
<1>15. ASSUME NEW i \in DOMAIN gens, StopOnToken(i) \/ EndAlone(i)
       PROVE LoopInv'
  <2>1. PICK r \in Runtimes : /\ r.config = gens[i].config
                              /\ r.cancelled = gens[i].cancelled
                              /\ r.state # "serving"
                              /\ gens' = [gens EXCEPT ![i] = r]
    BY <1>15, StopEffect
  <2>2. /\ Len(gens') = Len(gens) /\ DOMAIN gens' = DOMAIN gens
        /\ \A j \in DOMAIN gens : gens'[j] = IF j = i THEN r ELSE gens[j]
    BY <1>0, <2>1, RuntimeReplaced
  <2>3. \A j \in DOMAIN gens :
            /\ gens'[j].config = gens[j].config
            /\ gens'[j].cancelled = gens[j].cancelled
            /\ gens'[j].state = "serving" => gens[j].state = "serving"
    BY <2>1, <2>2
  <2>4. UNCHANGED <<loopVars, watcher>>
    BY <1>15 DEF StopOnToken, EndAlone, watchVars
  <2>5. gens # <<>> /\ gens' # <<>>
    BY <1>0, <2>2
  <2>6. LoopState' /\ OnlyLatestServes'
    BY <2>2, <2>3, <2>4, <2>5
    DEF LoopInv, LoopState, OnlyLatestServes, loopVars, Loadable
  <2>7. SourcesAreRunning'
    BY <1>0, <2>2, <2>3, <2>4, <2>5
    DEF LoopInv, SourcesAreRunning, Latest, loopVars
  <2>8. StoppedForCause'
    BY <1>0, <2>2, <2>3, <2>4 DEF LoopInv, StoppedForCause, loopVars, Loadable
  <2> QED
    BY <2>6, <2>7, <2>8 DEF LoopInv
<1>16. CASE Shutdown
  BY <1>16, OutsideLoop DEF Shutdown, watchVars
<1>17. CASE UNCHANGED vars
  BY <1>17, OutsideLoop DEF vars, watchVars
<1> QED
  BY <1>1, <1>2, <1>3, <1>4, <1>5, <1>6, <1>7, <1>8, <1>9, <1>10, <1>11,
     <1>12, <1>13, <1>14, <1>15, <1>16, <1>17
  DEF Next, Environment, Debouncer, Supervisor, Load, Reread, Stop, End

\* No two runtimes serve at once, for any number of rebuilds: a replacement is
\* built only once the runtime it replaces has returned.
THEOREM AtMostOneRuntime == Spec => []OneRuntime
<1>1. TypeOK /\ Started /\ LoopInv /\ [Next]_vars
        => (TypeOK /\ Started /\ LoopInv)'
  BY StepTyped, StepLoop
<1>2. LoopInv => OneRuntime
  BY DEF LoopInv, OnlyLatestServes, OneRuntime
<1> QED
  BY InitTyped, InitLoop, <1>1, <1>2, PTL DEF Spec

\* A re-read is always compared with the configuration that is running: no
\* failed or unapplied re-read leaks into the bookkeeping.
THEOREM ComparedWithRunning == Spec => []SourcesAreRunning
<1>1. TypeOK /\ Started /\ LoopInv /\ [Next]_vars
        => (TypeOK /\ Started /\ LoopInv)'
  BY StepTyped, StepLoop
<1>2. LoopInv => SourcesAreRunning
  BY DEF LoopInv
<1> QED
  BY InitTyped, InitLoop, <1>1, <1>2, PTL DEF Spec

\* A runtime is cancelled by the supervisor only for a successor that loads and
\* differs from it, so a failed or no-op reload never disturbs the service.
THEOREM NeverStoppedInVain == Spec => []StoppedForCause
<1>1. TypeOK /\ Started /\ LoopInv /\ [Next]_vars
        => (TypeOK /\ Started /\ LoopInv)'
  BY StepTyped, StepLoop
<1>2. LoopInv => StoppedForCause
  BY DEF LoopInv
<1> QED
  BY InitTyped, InitLoop, <1>1, <1>2, PTL DEF Spec

-----------------------------------------------------------------------------
(* No update is lost.  The induction is on the keys whose last change a    *)
(* watch covered: such a key leaves the set of those in step with the last *)
(* load only through an event, an event only becomes a signal, and a       *)
(* signal is taken only by a load that reads every key again.              *)

\* Lemma: every step keeps the promise that a covered change is re-read.
LEMMA StepNoLostUpdate ==
    TypeOK /\ LoopInv /\ NoLostUpdate /\ [Next]_vars => NoLostUpdate'
<1> SUFFICES ASSUME TypeOK, LoopInv, NoLostUpdate, [Next]_vars,
                    watcher' # "dead", NEW k \in Keys, k \notin blind',
                    disk'[k] # reading'[k]
             PROVE  dirty' \/ signal' \/ k \in unread'
  BY DEF NoLostUpdate
<1> USE DEF NoLostUpdate
<1>1. ASSUME NEW d \in Dirs, BeginUpdate(d)
      PROVE  dirty' \/ signal' \/ k \in unread'
  BY <1>1 DEF BeginUpdate, watchVars, loopVars
<1>2. CASE StepUpdate
  <2>1. PICK S \in Portions :
            /\ disk' = [j \in Keys |-> IF j \in S THEN target[j] ELSE disk[j]]
            /\ dirty' = (dirty \/ Covered(S))
            /\ blind' = IF Covered(S) THEN blind \ S ELSE blind \cup S
    BY <1>2 DEF StepUpdate
  <2>2. UNCHANGED <<watcher, signal, unread, reading>>
    BY <1>2 DEF StepUpdate, watchVars, loopVars
  <2>3. CASE k \in S
    BY <2>1, <2>3
  <2>4. CASE k \notin S
    BY <2>1, <2>2, <2>4
  <2> QED
    BY <2>3, <2>4
<1>3. CASE Quiet
  BY <1>3 DEF Quiet
<1>4. CASE WatcherDies
  BY <1>4 DEF WatcherDies
<1>5. ASSUME NEW j \in Keys, ReadKey(j)
      PROVE  dirty' \/ signal' \/ k \in unread'
  BY <1>5 DEF ReadKey, watchVars, TypeOK, Configs
<1>6. CASE BootLoaded
  BY <1>6 DEF BootLoaded, watchVars
<1>7. CASE Install
  BY <1>7 DEF Install, LoopInv, LoopState
<1>8. CASE InstallFails
  BY <1>8 DEF InstallFails, watchVars
<1>9. CASE ReturnOutcome
  BY <1>9 DEF ReturnOutcome, watchVars
<1>10. CASE TakeSignal
  BY <1>10 DEF TakeSignal
<1>11. CASE RereadFailed
  BY <1>11 DEF RereadFailed, watchVars
<1>12. CASE RereadUnchanged
  BY <1>12 DEF RereadUnchanged, watchVars
<1>13. CASE RereadChanged
  BY <1>13 DEF RereadChanged, watchVars
<1>14. CASE Rebuild
  BY <1>14 DEF Rebuild, watchVars
<1>15. ASSUME NEW i \in DOMAIN gens, StopOnToken(i) \/ EndAlone(i)
       PROVE  dirty' \/ signal' \/ k \in unread'
  BY <1>15 DEF StopOnToken, EndAlone, watchVars, loopVars
<1>16. CASE Shutdown
  BY <1>16 DEF Shutdown, watchVars, loopVars
<1>17. CASE UNCHANGED vars
  BY <1>17 DEF vars, watchVars, loopVars
<1> QED
  BY <1>1, <1>2, <1>3, <1>4, <1>5, <1>6, <1>7, <1>8, <1>9, <1>10, <1>11,
     <1>12, <1>13, <1>14, <1>15, <1>16, <1>17
  DEF Next, Environment, Debouncer, Supervisor, Load, Reread, Stop, End

\* A change that a watch covered is never lost: a re-read of the key is on its
\* way for as long as the last load saw another value than the file holds.
THEOREM CoveredChangesAreRead == Spec => []NoLostUpdate
<1>1. Init => NoLostUpdate
  BY DEF Init, NoLostUpdate
<1>2. TypeOK /\ Started /\ LoopInv /\ NoLostUpdate /\ [Next]_vars
        => (TypeOK /\ Started /\ LoopInv /\ NoLostUpdate)'
  BY StepTyped, StepLoop, StepNoLostUpdate
<1> QED
  BY InitTyped, InitLoop, <1>1, <1>2, PTL DEF Spec

-----------------------------------------------------------------------------
(* The supervisor implements ServiceLifecycle (its safety part).           *)

LatestServed == IF gens # <<>> /\ Latest.state = "serving"
                THEN {Latest.config} ELSE {}

\* Lemma: what is served is the latest runtime's configuration, or nothing.
LEMMA ServedIsLatest == TypeOK /\ LoopInv => ServedSeen = LatestServed
<1> SUFFICES ASSUME TypeOK, LoopInv PROVE ServedSeen = LatestServed
  OBVIOUS
<1>1. /\ DOMAIN gens = 1 .. Len(gens) /\ Len(gens) \in Nat
      /\ gens # <<>> => Len(gens) \in DOMAIN gens
      /\ gens = <<>> => DOMAIN gens = {}
  BY LenProperties, EmptySeq DEF TypeOK
<1>2. \A i \in DOMAIN gens : gens[i].state = "serving" => i = Len(gens)
  BY DEF LoopInv, OnlyLatestServes
<1> QED
  BY <1>1, <1>2 DEF ServedSeen, Latest, LatestServed

\* Lemma: the runtime built for a configuration serves it if it can start.
LEMMA BuiltServes ==
    ASSUME NEW c \in Configs
    PROVE  Lifecycle!Serving(c) = IF Built(c).state = "serving" THEN {c} ELSE {}
BY DEF Lifecycle!Serving, Built

\* Lemma: a step that leaves the runtimes, the sources and the loop's position
\* alone is a stutter of the lifecycle.
LEMMA OutsideStutters ==
    ASSUME UNCHANGED <<gens, sources, pc>>
    PROVE  UNCHANGED Lifecycle!lifecycleVars
BY DEF Lifecycle!lifecycleVars, PhaseSeen, ConfSeen, ServedSeen

\* Lemma: every step of the supervisor is a step or a stutter of the lifecycle.
LEMMA StepRefines ==
    TypeOK /\ LoopInv /\ TypeOK' /\ LoopInv' /\ [Next]_vars
        => [Lifecycle!LifecycleNext]_(Lifecycle!lifecycleVars)
<1> SUFFICES ASSUME TypeOK, LoopInv, TypeOK', LoopInv', [Next]_vars
             PROVE  Lifecycle!LifecycleNext \/ UNCHANGED Lifecycle!lifecycleVars
  OBVIOUS
<1>18. ServedSeen = LatestServed /\ (ServedSeen = LatestServed)'
  BY ServedIsLatest, PTL
<1>19. ServedSeen = IF gens # <<>> /\ Latest.state = "serving"
                    THEN {Latest.config} ELSE {}
  BY <1>18 DEF LatestServed
<1>20. ServedSeen' = IF gens' # <<>> /\ Latest'.state = "serving"
                     THEN {Latest'.config} ELSE {}
  BY <1>18 DEF LatestServed
<1>1. ASSUME NEW d \in Dirs, BeginUpdate(d)
      PROVE UNCHANGED Lifecycle!lifecycleVars
  BY <1>1, OutsideStutters DEF BeginUpdate, loopVars
<1>2. CASE StepUpdate
  BY <1>2, OutsideStutters DEF StepUpdate, loopVars
<1>3. CASE Quiet
  BY <1>3, OutsideStutters DEF Quiet, loopVars
<1>4. CASE WatcherDies
  BY <1>4, OutsideStutters DEF WatcherDies, loopVars
<1>5. ASSUME NEW k \in Keys, ReadKey(k) PROVE UNCHANGED Lifecycle!lifecycleVars
  BY <1>5, OutsideStutters DEF ReadKey
<1>6. CASE BootLoaded
  <2>1. gens = <<>> /\ gens' = <<>> /\ ServedSeen' = ServedSeen
    BY <1>6 DEF BootLoaded, LoopInv, LoopState, ServedSeen
  <2> QED
    BY <1>6, <2>1, <1>19
    DEF BootLoaded, PhaseSeen, ConfSeen, Lifecycle!lifecycleVars,
        Lifecycle!LifecycleNext, Lifecycle!Abort
<1>7. CASE Install
  <2>1. /\ Built(reading) \in Runtimes /\ Built(reading).config = reading
        /\ reading \in Configs /\ Loadable(reading)
    BY <1>7, BuiltType DEF TypeOK, Install, LoopInv, LoopState
  <2>2. gens' = <<Built(reading)>> /\ gens = <<>>
    BY <1>7 DEF Install, LoopInv, LoopState
  <2>3. Latest' = Built(reading) /\ gens' # <<>>
    BY <2>2 DEF Latest
  <2>4. ServedSeen' = Lifecycle!Serving(reading)
    BY <2>1, <2>3, <1>20, BuiltServes
  <2>5. /\ PhaseSeen = "starting" /\ PhaseSeen' = "up" /\ ConfSeen' = reading
    BY <1>7, <2>2, <2>3 DEF Install, LoopInv, LoopState, PhaseSeen, ConfSeen
  <2> QED
    BY <2>1, <2>4, <2>5 DEF Lifecycle!LifecycleNext, Lifecycle!Start
<1>8. CASE InstallFails
  <2>1. gens = <<>> /\ gens' = <<>> /\ ServedSeen' = ServedSeen
    BY <1>8 DEF InstallFails, LoopInv, LoopState, ServedSeen
  <2> QED
    BY <1>8, <2>1
    DEF InstallFails, PhaseSeen, ConfSeen, Lifecycle!LifecycleNext,
        Lifecycle!Abort
<1>9. CASE ReturnOutcome
  <2>1. /\ gens # <<>> /\ ServedSeen = {} /\ ServedSeen' = {}
        /\ PhaseSeen = "up" /\ PhaseSeen' = "down" /\ ConfSeen' = ConfSeen
    BY <1>9, <1>19 DEF ReturnOutcome, LoopInv, LoopState, PhaseSeen, ConfSeen,
                      ServedSeen
  <2> QED
    BY <2>1 DEF Lifecycle!LifecycleNext, Lifecycle!GoDown
<1>10. CASE TakeSignal
  BY <1>10 DEF TakeSignal, PhaseSeen, ConfSeen, ServedSeen,
               Lifecycle!lifecycleVars
<1>11. CASE RereadFailed
  BY <1>11 DEF RereadFailed, PhaseSeen, ConfSeen, ServedSeen,
               Lifecycle!lifecycleVars
<1>12. CASE RereadUnchanged
  BY <1>12 DEF RereadUnchanged, Differs, PhaseSeen, ConfSeen, ServedSeen,
               Lifecycle!lifecycleVars
<1>13. CASE RereadChanged
  <2>1. gens # <<>>
    BY <1>13 DEF RereadChanged, LoopInv, LoopState
  <2> DEFINE n == Len(gens)
             r == [gens[n] EXCEPT !.cancelled = TRUE]
  <2>2. n \in DOMAIN gens /\ r \in Runtimes /\ gens' = [gens EXCEPT ![n] = r]
    BY <1>13, <2>1, CancelEffect
  <2>3. r.config = gens[n].config /\ r.state = gens[n].state
    BY <2>2, ElementOfSeq, LenProperties DEF Runtimes, TypeOK
  <2>4. Len(gens') = n /\ gens'[n] = r
    BY <2>2, RuntimeReplaced DEF TypeOK
  <2>5. gens' # <<>>
    <3>1. Len(gens) # 0
      BY <2>1, EmptySeq DEF TypeOK
    <3> QED
      BY <2>4, <3>1
  <2>6. ServedSeen' = ServedSeen
    BY <1>19, <1>20, <2>1, <2>3, <2>4, <2>5 DEF Latest
  <2>7. PhaseSeen = "up" /\ PhaseSeen' = "swapping" /\ ConfSeen' = ConfSeen
    BY <1>13, <2>1, <2>5 DEF RereadChanged, PhaseSeen, ConfSeen
  <2> QED
    BY <2>6, <2>7 DEF Lifecycle!LifecycleNext, Lifecycle!BeginSwap
<1>14. CASE Rebuild
  <2>1. /\ Built(reading) \in Runtimes /\ Built(reading).config = reading
        /\ reading \in Configs
    BY BuiltType DEF TypeOK
  <2>2. /\ gens' = Append(gens, Built(reading)) /\ pc = "drain"
        /\ pc' = "select" /\ sources' = reading /\ Latest.state # "serving"
    BY <1>14 DEF Rebuild
  <2>3. gens # <<>> /\ Loadable(reading) /\ reading # sources
    BY <2>2 DEF LoopInv, LoopState, StoppedForCause
  <2>4. gens' # <<>> /\ Latest' = Built(reading)
    BY <2>1, <2>2, AppendProperties DEF TypeOK, Latest
  <2>5. ServedSeen = {} /\ ServedSeen' = Lifecycle!Serving(reading)
    BY <1>19, <1>20, <2>1, <2>2, <2>4, BuiltServes
  <2>6. /\ PhaseSeen = "swapping" /\ PhaseSeen' = "up"
        /\ ConfSeen = sources /\ ConfSeen' = reading
    BY <2>2, <2>3, <2>4 DEF PhaseSeen, ConfSeen
  <2> QED
    BY <2>1, <2>3, <2>5, <2>6 DEF Lifecycle!LifecycleNext, Lifecycle!Replace
<1>15. ASSUME NEW i \in DOMAIN gens, StopOnToken(i) \/ EndAlone(i)
       PROVE Lifecycle!LifecycleNext
  <2>1. PICK r \in Runtimes : /\ r.config = gens[i].config
                              /\ r.cancelled = gens[i].cancelled
                              /\ r.state # "serving"
                              /\ gens' = [gens EXCEPT ![i] = r]
    BY <1>15, StopEffect
  <2>2. gens[i].state = "serving" /\ UNCHANGED <<pc, sources>>
    BY <1>15 DEF StopOnToken, EndAlone, loopVars
  <2>3. i = Len(gens) /\ gens # <<>>
    BY <2>2, LenProperties, EmptySeq DEF LoopInv, OnlyLatestServes, TypeOK
  <2>4. Len(gens') = Len(gens) /\ DOMAIN gens' = DOMAIN gens /\ gens'[i] = r
    BY <2>1, RuntimeReplaced DEF TypeOK
  <2>5. gens' # <<>>
    <3>1. Len(gens) # 0
      BY <2>3, EmptySeq DEF TypeOK
    <3> QED
      BY <2>4, <3>1
  <2>6. ServedSeen # {} /\ ServedSeen' = {}
    BY <1>19, <1>20, <2>1, <2>2, <2>3, <2>4 DEF Latest
  <2>7. PhaseSeen' = PhaseSeen /\ ConfSeen' = ConfSeen
    BY <2>2, <2>3, <2>5 DEF PhaseSeen, ConfSeen
  <2> QED
    BY <2>6, <2>7 DEF Lifecycle!LifecycleNext, Lifecycle!RuntimeStops
<1>16. CASE Shutdown
  BY <1>16, OutsideStutters DEF Shutdown, loopVars
<1>17. CASE UNCHANGED vars
  BY <1>17, OutsideStutters DEF vars, loopVars
<1> QED
  BY <1>1, <1>2, <1>3, <1>4, <1>5, <1>6, <1>7, <1>8, <1>9, <1>10, <1>11,
     <1>12, <1>13, <1>14, <1>15, <1>16, <1>17
  DEF Next, Environment, Debouncer, Supervisor, Load, Reread, Stop, End

\* The supervisor implements ServiceLifecycle: seen from outside, the service is
\* started once, serves one configuration at a time, is replaced only after it
\* has stopped and only by different values that load, and stays down.
THEOREM ImplementsLifecycle == Spec => Lifecycle!LifecycleSafety
<1>1. Init => Lifecycle!LifecycleInit
  BY DEF Init, Lifecycle!LifecycleInit, PhaseSeen, ConfSeen, ServedSeen
<1>2. TypeOK /\ Started /\ LoopInv /\ [Next]_vars
        => (TypeOK /\ Started /\ LoopInv)'
  BY StepTyped, StepLoop
<1> QED
  BY InitTyped, InitLoop, StepRefines, <1>1, <1>2, PTL
  DEF Spec, Lifecycle!LifecycleSafety

=============================================================================
