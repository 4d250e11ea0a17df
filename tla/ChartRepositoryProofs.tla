------------------------ MODULE ChartRepositoryProofs ------------------------
(***************************************************************************)
(* What is proved of the commands a chart's repository lives by, which     *)
(* read no registry: the write of its files, ChartWrites, the diff of two  *)
(* of its revisions, ContractDiff, the surveys of its Secret files,        *)
(* CredentialSurface, and the gates on a container, ContainerGates.  Each  *)
(* for every value of its constants, from an inductive invariant of its    *)
(* own.                                                                    *)
(***************************************************************************)
EXTENDS ContractDiff, ChartWrites, CredentialSurface, TLAPS

-----------------------------------------------------------------------------
(* ChartWrites: type correctness and the four promises of write_all, for   *)
(* any number of planned files over any paths.                             *)

InRestore == phase \in {"restore", "rewrite"}

\* What each phase has done to the paths.
Contents ==
    /\ \A i \in Planned : original[i] = 0
    /\ phase \in {"resolve", "stage"} => Untouched
    /\ phase = "rename" =>
         /\ \A path \in Paths :
               content[path] = 0 \/ \E j \in 1 .. next - 1 : plan.target[j] = path
         /\ \A i \in 1 .. next - 1 :
               \E j \in i .. N : /\ content[plan.target[i]] = j
                                /\ plan.target[j] = plan.target[i]
    /\ InRestore =>
         \A path \in Paths :
            \/ content[path] = 0
            \/ path \in unrestored
            \/ \E j \in next .. replaced : plan.target[j] = path
    /\ phase = "rewrite" => next <= replaced
    /\ phase \in {"resolve", "stage", "rename"} => replaced = 0
    /\ InRestore /\ replaced = 0 => Untouched

\* Which temporaries each phase has left.
Temporaries ==
    /\ phase = "resolve" => temporaries = {}
    /\ phase = "stage" => temporaries = 1 .. next - 1
    /\ phase = "rename" => temporaries = next .. N
    /\ InRestore => temporaries \subseteq stuck

\* A file outside its chart is met before the resolution ends.
Escapes ==
    /\ phase = "resolve" => \A i \in 1 .. next - 1 : i \notin plan.escapes
    /\ plan.escapes # {} => phase \in {"resolve", "failed", "crashed"}

WriteInv == /\ TypeOK /\ Contents /\ Temporaries /\ Escapes
        /\ AllOrNothing /\ KilledWriteLosesNothing
        /\ EscapeChangesNothing /\ NothingLeftBehind

-----------------------------------------------------------------------------
\* The initial states satisfy it: nothing has been done yet.
LEMMA InitHolds == WriteInit => WriteInv
  BY NAssumption DEF WriteInit, WriteInv, TypeOK, Contents, Temporaries, Escapes, AllOrNothing,
     KilledWriteLosesNothing, EscapeChangesNothing, NothingLeftBehind, Untouched, InRestore, Planned, Plans, Returned

\* Every step keeps every variable in its type.
LEMMA TypeStep == WriteInv /\ WriteNext => TypeOK'
  <1> SUFFICES ASSUME WriteInv, WriteNext PROVE TypeOK'
    OBVIOUS
  <1> USE NAssumption DEF WriteInv, TypeOK, Plans, Planned, Destination
  <1>1. CASE Resolve
    BY <1>1 DEF Resolve
  <1>2. CASE ResolveFails
    BY <1>2 DEF ResolveFails
  <1>3. CASE Stage
    BY <1>3 DEF Stage
  <1>4. CASE StageFails
    BY <1>4 DEF StageFails, Discard
  <1>5. CASE Rename
    BY <1>5 DEF Rename
  <1>6. CASE RenameFails
    BY <1>6 DEF RenameFails, Discard, Discarded
  <1>7. CASE RestoreAbsent
    BY <1>7 DEF RestoreAbsent
  <1>8. CASE RestoreTruncates
    BY <1>8 DEF RestoreTruncates
  <1>9. CASE RestoreWrites
    BY <1>9 DEF RestoreWrites, Contents
  <1>10. CASE RestoreFails
    BY <1>10 DEF RestoreFails, Named
  <1>11. CASE PhaseDone
    BY <1>11 DEF PhaseDone, After
  <1>12. CASE Crash
    BY <1>12 DEF Crash
  <1> QED
    BY <1>1, <1>2, <1>3, <1>4, <1>5, <1>6, <1>7, <1>8, <1>9, <1>10, <1>11, <1>12 DEF WriteNext

\* What the paths hold, and the promise at the end of it.
LEMMA ContentStep == WriteInv /\ WriteNext => (Contents /\ AllOrNothing)'
  <1> SUFFICES ASSUME WriteInv, WriteNext PROVE (Contents /\ AllOrNothing)'
    OBVIOUS
  <1> USE NAssumption DEF WriteInv, TypeOK, Plans, Planned, Destination, Contents, AllOrNothing,
                          InRestore, Untouched
  <1>1. CASE Resolve
    BY <1>1 DEF Resolve
  <1>2. CASE ResolveFails
    BY <1>2 DEF ResolveFails
  <1>3. CASE Stage
    BY <1>3 DEF Stage
  <1>4. CASE StageFails
    BY <1>4 DEF StageFails
  <1>5. CASE Rename
    <2> USE <1>5 DEF Rename
    <2>1. next \in Planned /\ plan.target[next] \in Paths
      OBVIOUS
    <2>2. ASSUME NEW path \in Paths
          PROVE  content'[path] = 0 \/ \E j \in 1 .. next' - 1 : plan.target[j] = path
      <3>1. CASE path = plan.target[next]
        BY <2>1, <3>1
      <3>2. CASE path # plan.target[next]
        <4>1. content'[path] = content[path]
          BY <2>1, <3>2
        <4>2. content[path] = 0 \/ \E j \in 1 .. next - 1 : plan.target[j] = path
          BY <2>1
        <4>3. next' - 1 = next /\ 1 .. next - 1 \subseteq 1 .. next
          BY <2>1
        <4> QED
          BY <4>1, <4>2, <4>3
      <3> QED
        BY <3>1, <3>2
    <2>3. ASSUME NEW i \in 1 .. next' - 1
          PROVE  \E j \in i .. N : /\ content'[plan.target[i]] = j
                                   /\ plan.target[j] = plan.target[i]
      <3>1. i \in 1 .. next /\ i \in Planned /\ plan.target[i] \in Paths
        BY <2>1, <2>3
      <3>2. CASE plan.target[i] = plan.target[next]
        <4>1. content'[plan.target[i]] = next
          BY <2>1, <3>1, <3>2
        <4> QED
          BY <2>1, <3>2, <4>1
      <3>3. CASE plan.target[i] # plan.target[next]
        <4>1. content'[plan.target[i]] = content[plan.target[i]] /\ i \in 1 .. next - 1
          BY <2>1, <3>1, <3>3
        <4>2. \E j \in i .. N : /\ content[plan.target[i]] = j
                               /\ plan.target[j] = plan.target[i]
          BY <4>1
        <4> QED
          BY <4>1, <4>2
      <3> QED
        BY <3>2, <3>3
    <2> QED
      BY <2>2, <2>3
  <1>6. CASE RenameFails
    <2> USE <1>6 DEF RenameFails
    <2>1. /\ phase = "rename" /\ phase' = "restore" /\ next' = 1 /\ replaced' = next - 1
          /\ content' = content /\ plan' = plan /\ original' = original
          /\ next \in Planned
      OBVIOUS
    <2>2. \A path \in Paths :
             content[path] = 0 \/ \E j \in next' .. replaced' : plan.target[j] = path
      BY <2>1
    <2>3. replaced' = 0 => Untouched'
      BY <2>1, <2>2
    <2> QED
      BY <2>1, <2>2, <2>3
  <1>7. CASE RestoreAbsent
    BY <1>7 DEF RestoreAbsent
  <1>8. CASE RestoreTruncates
    <2> USE <1>8 DEF RestoreTruncates
    <2>1. /\ next \in 1 .. replaced /\ next \in Planned /\ plan.target[next] \in Paths
          /\ phase = "restore" /\ phase' = "rewrite" /\ next' = next /\ replaced' = replaced
          /\ plan' = plan /\ original' = original /\ unrestored' = unrestored
      OBVIOUS
    <2>2. ASSUME NEW path \in Paths
          PROVE  \/ content'[path] = 0
                 \/ path \in unrestored
                 \/ \E j \in next .. replaced : plan.target[j] = path
      <3>1. CASE path = plan.target[next]
        BY <2>1, <3>1
      <3>2. CASE path # plan.target[next]
        <4>1. content'[path] = content[path]
          BY <2>1, <3>2
        <4> QED
          BY <2>1, <4>1
      <3> QED
        BY <3>1, <3>2
    <2> QED
      BY <2>1, <2>2
  <1>9. CASE RestoreWrites
    <2> USE <1>9 DEF RestoreWrites
    <2>1. next \in 1 .. replaced /\ next \in Planned /\ plan.target[next] \in Paths
      OBVIOUS
    <2>2. ASSUME NEW path \in Paths
          PROVE  \/ content'[path] = 0
                 \/ path \in unrestored'
                 \/ \E j \in next' .. replaced' : plan.target[j] = path
      <3>1. CASE path = plan.target[next]
        BY <2>1, <3>1
      <3>2. CASE path # plan.target[next]
        <4>1. content'[path] = content[path]
          BY <2>1, <3>2
        <4> QED
          BY <2>1, <3>2, <4>1
      <3> QED
        BY <3>1, <3>2
    <2> QED
      BY <2>2
  <1>10. CASE RestoreFails
    BY <1>10 DEF RestoreFails, Named
  <1>11. CASE PhaseDone
    <2> USE <1>11 DEF PhaseDone, After
    <2>1. CASE phase = "resolve"
      BY <2>1
    <2>2. CASE phase = "stage"
      <3>1. /\ Untouched /\ phase' = "rename" /\ next' = 1 /\ replaced' = 0
            /\ content' = content /\ original' = original
        BY <2>2
      <3>2. \A path \in Paths : content'[path] = 0
        BY <3>1
      <3> QED
        BY <3>1, <3>2
    <2>3. CASE phase = "rename"
      <3>1. phase' = "ok" /\ next = N + 1
        BY <2>3
      <3>2. ASSUME NEW i \in Planned
            PROVE  \E j \in Planned : /\ content[plan.target[i]] = j
                                      /\ plan.target[j] = plan.target[i]
        <4>1. i \in 1 .. next - 1 /\ i .. N \subseteq Planned
          BY <3>1
        <4>2. PICK j \in i .. N : /\ content[plan.target[i]] = j
                                  /\ plan.target[j] = plan.target[i]
          BY <2>3, <4>1
        <4> QED
          BY <4>1, <4>2
      <3>3. /\ content' = content /\ plan' = plan /\ original' = original
            /\ phase' # "failed" /\ ~InRestore' /\ phase' \notin {"resolve", "stage", "rename", "rewrite"}
        BY <2>3, <3>1
      <3> QED
        BY <2>3, <3>1, <3>2, <3>3
    <2>4. CASE phase = "restore"
      <3>1. phase' = "failed" /\ next > replaced
        BY <2>4
      <3> QED
        BY <2>4, <3>1
    <2> QED
      BY <2>1, <2>2, <2>3, <2>4
  <1>12. CASE Crash
    BY <1>12 DEF Crash
  <1> QED
    BY <1>1, <1>2, <1>3, <1>4, <1>5, <1>6, <1>7, <1>8, <1>9, <1>10, <1>11, <1>12 DEF WriteNext

\* Which temporaries are left, and what an escape stops.
LEMMA TemporaryStep ==
    WriteInv /\ WriteNext => (Temporaries /\ Escapes /\ EscapeChangesNothing /\ NothingLeftBehind)'
  <1> SUFFICES ASSUME WriteInv, WriteNext
               PROVE (Temporaries /\ Escapes /\ EscapeChangesNothing /\ NothingLeftBehind)'
    OBVIOUS
  <1> USE NAssumption DEF WriteInv, TypeOK, Plans, Planned, Temporaries, Escapes, InRestore,
                          EscapeChangesNothing, NothingLeftBehind, Untouched, Returned
  <1>1. CASE Resolve
    BY <1>1 DEF Resolve, Inside
  <1>2. CASE ResolveFails
    BY <1>2 DEF ResolveFails
  <1>3. CASE Stage
    BY <1>3 DEF Stage
  <1>4. CASE StageFails
    BY <1>4 DEF StageFails, Discard
  <1>5. CASE Rename
    BY <1>5 DEF Rename
  <1>6. CASE RenameFails
    BY <1>6 DEF RenameFails, Discard, Discarded
  <1>7. CASE RestoreAbsent
    BY <1>7 DEF RestoreAbsent
  <1>8. CASE RestoreTruncates
    BY <1>8 DEF RestoreTruncates
  <1>9. CASE RestoreWrites
    BY <1>9 DEF RestoreWrites
  <1>10. CASE RestoreFails
    BY <1>10 DEF RestoreFails
  <1>11. CASE PhaseDone
    BY <1>11 DEF PhaseDone, After
  <1>12. CASE Crash
    BY <1>12 DEF Crash
  <1> QED
    BY <1>1, <1>2, <1>3, <1>4, <1>5, <1>6, <1>7, <1>8, <1>9, <1>10, <1>11, <1>12 DEF WriteNext

\* A stuttering step keeps it.
LEMMA StutterHolds == WriteInv /\ UNCHANGED writeVars => WriteInv'
  BY DEF WriteInv, TypeOK, Contents, Temporaries, Escapes, AllOrNothing,
     KilledWriteLosesNothing, EscapeChangesNothing, NothingLeftBehind, Untouched, InRestore, Returned, writeVars

\* A killed write was resolving or staging, and has touched no file; or renaming,
\* and has each text in one of the two places; or undoing.
LEMMA KilledStep == WriteInv /\ WriteNext => KilledWriteLosesNothing'
  <1> SUFFICES ASSUME WriteInv, WriteNext PROVE KilledWriteLosesNothing'
    OBVIOUS
  <1> USE NAssumption DEF WriteInv, TypeOK, Plans, Planned, Contents, Temporaries,
                          KilledWriteLosesNothing, InRestore, Untouched, Returned
  <1>1. CASE Crash
    <2> USE <1>1 DEF Crash
    <2>1. CASE phase = "rename"
      <3>1. \A i \in Planned : i \in 1 .. next - 1 \/ i \in next .. N
        BY <2>1
      <3> QED
        BY <2>1, <3>1
    <2>2. CASE phase \in {"resolve", "stage", "restore", "rewrite"}
      BY <2>2
    <2> QED
      BY <2>1, <2>2
  <1>2. CASE phase' # "crashed"
    BY <1>2
  <1>3. CASE ~Crash /\ phase' = "crashed"
    BY <1>3 DEF WriteNext, Resolve, ResolveFails, Stage, StageFails, Rename, RenameFails,
       RestoreAbsent, RestoreTruncates, RestoreWrites, RestoreFails, PhaseDone, After
  <1> QED
    BY <1>1, <1>2, <1>3

\* It is an invariant of the specification.
LEMMA WriteInvariance == WriteSpec => []WriteInv
  <1>1. WriteInv /\ [WriteNext]_writeVars => WriteInv'
    BY TypeStep, ContentStep, KilledStep, TemporaryStep, StutterHolds DEF WriteInv
  <1> QED
    BY InitHolds, <1>1, PTL DEF WriteSpec

\* Each variable of a write stays in its type, however many files are planned.
THEOREM WriteTypes == WriteSpec => []TypeOK
  <1>1. WriteInv => TypeOK
    BY DEF WriteInv
  <1> QED
    BY WriteInvariance, <1>1, PTL

\* A write that returns has written every file, or has changed none but those
\* its error names, whichever calls to the file system fail.
THEOREM AllFilesOrNone == WriteSpec => []AllOrNothing
  <1>1. WriteInv => AllOrNothing
    BY DEF WriteInv
  <1> QED
    BY WriteInvariance, <1>1, PTL

\* Wherever a write is killed before a rename fails, each text it planned is in
\* its file or beside it.
THEOREM KilledWritesCanBeFinished == WriteSpec => []KilledWriteLosesNothing
  <1>1. WriteInv => KilledWriteLosesNothing
    BY DEF WriteInv
  <1> QED
    BY WriteInvariance, <1>1, PTL

\* A file outside its chart stops the write before anything lands.
THEOREM EscapesStopTheWrite == WriteSpec => []EscapeChangesNothing
  <1>1. WriteInv => EscapeChangesNothing
    BY DEF WriteInv
  <1> QED
    BY WriteInvariance, <1>1, PTL

\* A write that returned left no temporary but those it could not remove.
THEOREM TemporariesAreRemoved == WriteSpec => []NothingLeftBehind
  <1>1. WriteInv => NothingLeftBehind
    BY DEF WriteInv
  <1> QED
    BY WriteInvariance, <1>1, PTL

-----------------------------------------------------------------------------
(* ContractDiff.  A set of changes is reduced to the severities it asks    *)
(* for: AllIn(changes, S) says that all of them are in S.  Upper bounds    *)
(* are S = 0 .. s, "no change at all" is S = {}.  Each section of the      *)
(* table gets a formula that says when its changes are in S (the ...Most   *)
(* lemmas), and the rest of the proof is about the formulas.               *)


\* Every change has a severity of S.
AllIn(changes, S) == \A ch \in changes : ch.severity \in S

Grades == None .. Major

\* Lemma: what the parts ask for, the whole asks for.
LEMMA BothMost ==
  ASSUME NEW A, NEW B, NEW S
  PROVE  AllIn(A \cup B, S) <=> AllIn(A, S) /\ AllIn(B, S)
  BY DEF AllIn

\* Lemma: what every member of a family asks for, the family asks for.
LEMMA EachMost ==
  ASSUME NEW SS, NEW S
  PROVE  AllIn(UNION SS, S) <=> \A T \in SS : AllIn(T, S)
  BY DEF AllIn

\* Lemma: the largest of graded changes is graded, and is what they ask for.
LEMMA WorstIsLargest ==
  ASSUME NEW changes, \A ch \in changes : ch.severity \in Grades
  PROVE  /\ Worst(changes) \in Grades
         /\ \A s \in Grades : AllIn(changes, 0 .. s) <=> Worst(changes) <= s
<1> DEFINE S == {ch.severity : ch \in changes} \cup {None}
<1>1. S \subseteq 0 .. 3 /\ 0 \in S
  BY DEF Grades, None, Major
<1>2. \E x \in S : \A y \in S : x >= y
  <2> HIDE DEF S
  <2>1. CASE 3 \in S
    BY <1>1, <2>1
  <2>2. CASE 3 \notin S /\ 2 \in S
    BY <1>1, <2>2
  <2>3. CASE 3 \notin S /\ 2 \notin S /\ 1 \in S
    BY <1>1, <2>3
  <2>4. CASE 3 \notin S /\ 2 \notin S /\ 1 \notin S
    BY <1>1, <2>4
  <2> QED BY <2>1, <2>2, <2>3, <2>4
<1>3. Max(S) \in S /\ \A y \in S : Max(S) >= y
  <2> HIDE DEF S
  <2> QED BY <1>2 DEF Max
<1>4. Worst(changes) = Max(S)
  BY DEF Worst
<1>5. Worst(changes) \in Grades
  BY <1>1, <1>3, <1>4 DEF Grades, None, Major
<1>6. ASSUME NEW s \in Grades PROVE AllIn(changes, 0 .. s) <=> Worst(changes) <= s
  <2>1. \A ch \in changes : ch.severity \in S
    OBVIOUS
  <2>2. ASSUME AllIn(changes, 0 .. s) PROVE Worst(changes) <= s
    <3>1. Max(S) = 0 \/ \E ch \in changes : Max(S) = ch.severity
      BY <1>3 DEF None
    <3> HIDE DEF S
    <3> QED BY <2>2, <3>1, <1>4 DEF AllIn, Grades, None, Major
  <2>3. ASSUME Worst(changes) <= s PROVE AllIn(changes, 0 .. s)
    <3> HIDE DEF S
    <3>1. ASSUME NEW ch \in changes PROVE ch.severity \in 0 .. s
      <4>1. ch.severity \in S /\ ch.severity \in 0 .. 3
        BY <2>1, <1>1
      <4>2. Max(S) >= ch.severity /\ Max(S) <= s /\ Max(S) \in 0 .. 3 /\ s \in 0 .. 3
        BY <4>1, <1>1, <1>3, <1>4, <2>3 DEF Grades, None, Major
      <4> QED BY <4>1, <4>2
    <3> QED BY <3>1 DEF AllIn
  <2> QED BY <2>2, <2>3
<1> QED BY <1>5, <1>6

-----------------------------------------------------------------------------
(* What each part of the table asks for, as a formula.                     *)

\* What the fields that are graded one by one ask for.
FieldsWithin(old, new, fields, S) ==
  \A g \in DOMAIN fields : old[g] # new[g] => fields[g] \in S

\* Lemma: the fields graded one by one ask for what their table says.
LEMMA FieldsMost ==
  ASSUME NEW area, NEW subject, NEW old, NEW new, NEW fields, NEW S
  PROVE  AllIn(DiffFields(area, subject, old, new, fields), S)
         <=> FieldsWithin(old, new, fields, S)
<1>1. \A g : Change(fields[g], area, "changed", subject, g).severity = fields[g]
  BY DEF Change
<1>2. \A ch : ch \in DiffFields(area, subject, old, new, fields)
              <=> \E g \in DOMAIN fields : old[g] # new[g] /\ ch = Change(fields[g], area, "changed", subject, g)
  BY Zenon DEF DiffFields
<1> QED BY <1>1, <1>2, Zenon DEF AllIn, FieldsWithin

\* Lemma: what is graded by direction asks for major gained and for minor lost.
LEMMA DirectedMost ==
  ASSUME NEW area, NEW subject, NEW field, NEW gained, NEW lost, NEW S
  PROVE  AllIn(Directed(area, subject, field, gained, lost), S)
         <=> (gained => Major \in S) /\ (lost => Minor \in S)
<1> DEFINE G == Change(Major, area, "changed", subject, field)
           L == Change(Minor, area, "changed", subject, field)
<1>1. G.severity = Major /\ L.severity = Minor
  BY DEF Change
<1>2. \A ch : ch \in Directed(area, subject, field, gained, lost)
              <=> (gained /\ ch = G) \/ (lost /\ ch = L)
  <2> HIDE DEF G, L
  <2>1. Directed(area, subject, field, gained, lost)
        = (IF gained THEN {G} ELSE {}) \cup (IF lost THEN {L} ELSE {})
    BY DEF Directed, G, L
  <2> QED BY <2>1, Zenon
<1> HIDE DEF G, L
<1> QED BY <1>1, <1>2, Zenon DEF AllIn

\* Lemma: a field of the envelope asks for its severity when it moved.
LEMMA MovedMost ==
  ASSUME NEW v, NEW subject, NEW old, NEW new, NEW S
  PROVE  AllIn(Moved(v, subject, old, new), S) <=> (old # new => v \in S)
<1>1. Change(v, "envelope", "changed", subject, "").severity = v
  BY DEF Change
<1>2. CASE old = new
  BY <1>2 DEF AllIn, Moved
<1>3. CASE old # new
  BY <1>1, <1>3 DEF AllIn, Moved
<1> QED BY <1>2, <1>3

\* Lemma: a tightening gained or replaced asks for major, one lost for minor.
LEMMA TighteningsMost ==
  ASSUME NEW area, NEW subject, NEW old, NEW new, NEW S
  PROVE  AllIn(DiffTightenings(area, subject, old, new), S)
         <=> /\ \A p \in Graded(new) :
                   p \notin Graded(old) \/ old.tight[p] # new.tight[p] => Major \in S
             /\ \A p \in Graded(old) \ Graded(new) : Minor \in S
<1>1. \A p : /\ Change(Major, area, "changed", subject, p).severity = Major
             /\ Change(Minor, area, "changed", subject, p).severity = Minor
  BY DEF Change
<1>2. \A ch : ch \in DiffTightenings(area, subject, old, new)
              <=> \/ \E p \in Graded(new) : /\ p \notin Graded(old) \/ old.tight[p] # new.tight[p]
                                            /\ ch = Change(Major, area, "changed", subject, p)
                  \/ \E p \in Graded(old) \ Graded(new) : ch = Change(Minor, area, "changed", subject, p)
  BY Zenon DEF DiffTightenings
<1> QED BY <1>1, <1>2, Zenon DEF AllIn

\* Lemma: a default that moved asks for minor.
LEMMA DefaultMost ==
  ASSUME NEW area, NEW subject, NEW old, NEW new, NEW S
  PROVE  AllIn(DiffDefault(area, subject, old, new), S)
         <=> (old.default # new.default => Minor \in S)
<1>1. Change(Minor, area, "changed", subject, "default").severity = Minor
  BY DEF Change
<1>2. CASE old.default = new.default
  BY <1>2 DEF AllIn, DiffDefault
<1>3. CASE old.default # new.default
  BY <1>1, <1>3, Zenon DEF AllIn, DiffDefault
<1> QED BY <1>2, <1>3

\* What an entry that both sides declare asks for.
EntryWithin(old, new, fields, S) ==
  /\ FieldsWithin(old, new, fields, S)
  /\ new.required /\ ~old.required => Major \in S
  /\ old.required /\ ~new.required => Minor \in S
  /\ new.entries \ old.entries # {} => Major \in S
  /\ old.entries \ new.entries # {} => Minor \in S
  /\ new.names # old.names /\ new.names # "any" => Major \in S
  /\ new.names # old.names /\ new.names = "any" => Minor \in S
  /\ \A p \in Graded(new) : p \notin Graded(old) \/ old.tight[p] # new.tight[p] => Major \in S
  /\ \A p \in Graded(old) \ Graded(new) : Minor \in S
  /\ old.form = "text" /\ new.form # "text" => Major \in S
  /\ new.form # old.form /\ old.form # "text" => Minor \in S
  /\ old.default # new.default => Minor \in S

\* Lemma: what an entry asks for is the formula above.
LEMMA EntryMost ==
  ASSUME NEW area, NEW subject, NEW old, NEW new, NEW fields, NEW S
  PROVE  AllIn(DiffEntry(area, subject, old, new, fields), S) <=> EntryWithin(old, new, fields, S)
<1>1. AllIn(DiffRequired(area, subject, old, new), S)
      <=> (new.required /\ ~old.required => Major \in S) /\ (old.required /\ ~new.required => Minor \in S)
  BY DirectedMost DEF DiffRequired
<1>2. AllIn(DiffRequiredEntries(area, subject, old, new), S)
      <=> (new.entries \ old.entries # {} => Major \in S) /\ (old.entries \ new.entries # {} => Minor \in S)
  BY DirectedMost DEF DiffRequiredEntries
<1>3. AllIn(DiffEntryNames(area, subject, old, new), S)
      <=> /\ new.names # old.names /\ new.names # "any" => Major \in S
          /\ new.names # old.names /\ new.names = "any" => Minor \in S
  BY DirectedMost DEF DiffEntryNames
<1>4. AllIn(DiffTextForm(area, subject, old, new), S)
      <=> /\ old.form = "text" /\ new.form # "text" => Major \in S
          /\ new.form # old.form /\ old.form # "text" => Minor \in S
  BY DirectedMost DEF DiffTextForm
<1> DEFINE A1 == DiffFields(area, subject, old, new, fields)
           A2 == DiffRequired(area, subject, old, new)
           A3 == DiffRequiredEntries(area, subject, old, new)
           A4 == DiffEntryNames(area, subject, old, new)
           A5 == DiffTightenings(area, subject, old, new)
           A6 == DiffTextForm(area, subject, old, new)
           A7 == DiffDefault(area, subject, old, new)
<1>5. DiffEntry(area, subject, old, new, fields) = A1 \cup A2 \cup A3 \cup A4 \cup A5 \cup A6 \cup A7
  BY DEF DiffEntry
<1>6. AllIn(A1 \cup A2 \cup A3 \cup A4 \cup A5 \cup A6 \cup A7, S)
      <=> /\ AllIn(A1, S) /\ AllIn(A2, S) /\ AllIn(A3, S) /\ AllIn(A4, S)
          /\ AllIn(A5, S) /\ AllIn(A6, S) /\ AllIn(A7, S)
  <2> HIDE DEF A1, A2, A3, A4, A5, A6, A7
  <2> QED BY DEF AllIn
<1>7. AllIn(A1, S) <=> FieldsWithin(old, new, fields, S)
  BY FieldsMost
<1>8. AllIn(A5, S)
      <=> /\ \A p \in Graded(new) : p \notin Graded(old) \/ old.tight[p] # new.tight[p] => Major \in S
          /\ \A p \in Graded(old) \ Graded(new) : Minor \in S
  BY TighteningsMost
<1>9. AllIn(A7, S) <=> (old.default # new.default => Minor \in S)
  BY DefaultMost
<1>10. AllIn(DiffEntry(area, subject, old, new, fields), S)
       <=> /\ AllIn(A1, S) /\ AllIn(A2, S) /\ AllIn(A3, S) /\ AllIn(A4, S)
           /\ AllIn(A5, S) /\ AllIn(A6, S) /\ AllIn(A7, S)
  <2> HIDE DEF A1, A2, A3, A4, A5, A6, A7
  <2> QED BY <1>5, <1>6
<1> HIDE DEF A1, A5, A7
<1> QED BY <1>1, <1>2, <1>3, <1>4, <1>7, <1>8, <1>9, <1>10 DEF EntryWithin

\* What the keys of two sides ask for.
KeysWithin(old, new, S) ==
  /\ \A p \in DOMAIN new \ DOMAIN old : (IF new[p].required THEN Major ELSE Minor) \in S
  /\ DOMAIN old \ DOMAIN new # {} => Major \in S
  /\ \A p \in DOMAIN old \cap DOMAIN new : EntryWithin(old[p], new[p], KeyFields, S)

\* Lemma: what the keys ask for is the formula above.
LEMMA KeysMost ==
  ASSUME NEW old, NEW new, NEW S
  PROVE  AllIn(DiffKeys(old, new), S) <=> KeysWithin(old, new, S)
<1> DEFINE A == {Change(IF new[p].required THEN Major ELSE Minor, "key", "added", p, "") :
                    p \in DOMAIN new \ DOMAIN old}
           B == {Change(Major, "key", "removed", p, "") : p \in DOMAIN old \ DOMAIN new}
           CC == {DiffEntry("key", p, old[p], new[p], KeyFields) : p \in DOMAIN old \cap DOMAIN new}
<1>1. AllIn(A, S) <=> \A p \in DOMAIN new \ DOMAIN old : (IF new[p].required THEN Major ELSE Minor) \in S
  <2>1. \A p : Change(IF new[p].required THEN Major ELSE Minor, "key", "added", p, "").severity
                 = (IF new[p].required THEN Major ELSE Minor)
    BY DEF Change
  <2> QED BY <2>1, Zenon DEF AllIn
<1>2. AllIn(B, S) <=> (DOMAIN old \ DOMAIN new # {} => Major \in S)
  <2>1. \A p : Change(Major, "key", "removed", p, "").severity = Major
    BY DEF Change
  <2> QED BY <2>1, Zenon DEF AllIn
<1>3. AllIn(UNION CC, S) <=> \A p \in DOMAIN old \cap DOMAIN new : EntryWithin(old[p], new[p], KeyFields, S)
  <2>1. AllIn(UNION CC, S) <=> \A p \in DOMAIN old \cap DOMAIN new :
                                   AllIn(DiffEntry("key", p, old[p], new[p], KeyFields), S)
    BY DEF AllIn
  <2> QED BY <2>1, EntryMost, Zenon
<1>4. DiffKeys(old, new) = A \cup B \cup UNION CC
  BY DEF DiffKeys
<1>5. AllIn(DiffKeys(old, new), S) <=> AllIn(A, S) /\ AllIn(B, S) /\ AllIn(UNION CC, S)
  <2> HIDE DEF A, B, CC
  <2> QED BY <1>4, BothMost
<1> HIDE DEF A, B, CC
<1> QED BY <1>1, <1>2, <1>3, <1>5 DEF KeysWithin

Rejected(c, n) == c.unknown = "reject" /\ ~Absorbed(c, n)

\* What the external variables ask for.
ExternalWithin(old, new, S) ==
  /\ \A n \in DOMAIN new.external \ DOMAIN old.external :
        (IF new.external[n].required THEN Major ELSE Minor) \in S
  /\ \A n \in DOMAIN old.external \ DOMAIN new.external :
        (IF Rejected(new, n) THEN Major ELSE Minor) \in S
  /\ \A n \in DOMAIN old.external \cap DOMAIN new.external :
        EntryWithin(old.external[n], new.external[n], ExternalFields, S)

\* Lemma: what the external variables ask for is the formula above.
LEMMA ExternalMost ==
  ASSUME NEW old, NEW new, NEW S
  PROVE  AllIn(DiffExternal(old, new), S) <=> ExternalWithin(old, new, S)
<1> DEFINE before == old.external
           after == new.external
           A == {Change(IF after[n].required THEN Major ELSE Minor, "external", "added", n, "") :
                    n \in DOMAIN after \ DOMAIN before}
           B == {Change(IF Rejected(new, n) THEN Major ELSE Minor, "external", "removed", n, "") :
                    n \in DOMAIN before \ DOMAIN after}
           CC == {DiffEntry("external", n, before[n], after[n], ExternalFields) :
                    n \in DOMAIN before \cap DOMAIN after}
<1>1. AllIn(A, S) <=> \A n \in DOMAIN after \ DOMAIN before : (IF after[n].required THEN Major ELSE Minor) \in S
  <2>1. \A n : Change(IF after[n].required THEN Major ELSE Minor, "external", "added", n, "").severity
                 = (IF after[n].required THEN Major ELSE Minor)
    BY DEF Change
  <2> QED BY <2>1, Zenon DEF AllIn
<1>2. AllIn(B, S) <=> \A n \in DOMAIN before \ DOMAIN after : (IF Rejected(new, n) THEN Major ELSE Minor) \in S
  <2>1. \A n : Change(IF Rejected(new, n) THEN Major ELSE Minor, "external", "removed", n, "").severity
                 = (IF Rejected(new, n) THEN Major ELSE Minor)
    BY DEF Change
  <2> QED BY <2>1, Zenon DEF AllIn
<1>3. AllIn(UNION CC, S) <=> \A n \in DOMAIN before \cap DOMAIN after : EntryWithin(before[n], after[n], ExternalFields, S)
  <2>1. AllIn(UNION CC, S) <=> \A n \in DOMAIN before \cap DOMAIN after :
                                   AllIn(DiffEntry("external", n, before[n], after[n], ExternalFields), S)
    BY DEF AllIn
  <2> QED BY <2>1, EntryMost, Zenon
<1>4. DiffExternal(old, new) = A \cup B \cup UNION CC
  <2>1. ASSUME NEW n
        PROVE  Rejected(new, n) <=> new.unknown = "reject" /\ ~Absorbed(new, n)
    BY DEF Rejected
  <2> QED BY <2>1 DEF DiffExternal
<1>5. AllIn(DiffExternal(old, new), S) <=> AllIn(A, S) /\ AllIn(B, S) /\ AllIn(UNION CC, S)
  <2> HIDE DEF A, B, CC
  <2> QED BY <1>4, BothMost
<1> HIDE DEF A, B, CC
<1> QED BY <1>1, <1>2, <1>3, <1>5 DEF ExternalWithin

\* Lemma: an image asks for minor, its digest for patch.
LEMMA SourceMost ==
  ASSUME NEW old, NEW new, NEW S
  PROVE  AllIn(DiffSource(old, new), S)
         <=> (old.image # new.image => Minor \in S) /\ (old.digest # new.digest => Patch \in S)
<1>1. AllIn(Moved(Minor, "source.image", old.image, new.image), S) <=> (old.image # new.image => Minor \in S)
  BY MovedMost
<1>2. AllIn(Moved(Patch, "source.digest", old.digest, new.digest), S) <=> (old.digest # new.digest => Patch \in S)
  BY MovedMost
<1>3. AllIn(DiffSource(old, new), S)
      <=> /\ AllIn(Moved(Minor, "source.image", old.image, new.image), S)
          /\ AllIn(Moved(Patch, "source.digest", old.digest, new.digest), S)
  BY BothMost DEF DiffSource
<1> QED BY <1>1, <1>2, <1>3

\* What becomes of the names nobody declares.
PolicyWithin(old, new, S) ==
  /\ old.unknown # new.unknown => (IF new.unknown = "reject" THEN Major ELSE Minor) \in S
  /\ new.ignore \ old.ignore # {} => Minor \in S
  /\ old.ignore \ new.ignore # {} => Minor \in S

\* Lemma: what the policy for undeclared names asks for is the formula above.
LEMMA PolicyMost ==
  ASSUME NEW old, NEW new, NEW S
  PROVE  AllIn(DiffPolicy(old, new), S) <=> PolicyWithin(old, new, S)
<1> DEFINE A == Moved(IF new.unknown = "reject" THEN Major ELSE Minor,
                      "external.unknown", old.unknown, new.unknown)
           B == {Change(Minor, "envelope", "added", p, "ignore") : p \in new.ignore \ old.ignore}
           CC == {Change(Minor, "envelope", "removed", p, "ignore") : p \in old.ignore \ new.ignore}
<1>1. AllIn(A, S) <=> (old.unknown # new.unknown => (IF new.unknown = "reject" THEN Major ELSE Minor) \in S)
  BY MovedMost
<1>2. \A p : /\ Change(Minor, "envelope", "added", p, "ignore").severity = Minor
             /\ Change(Minor, "envelope", "removed", p, "ignore").severity = Minor
  BY DEF Change
<1>3. AllIn(B, S) <=> (new.ignore \ old.ignore # {} => Minor \in S)
  BY <1>2, Zenon DEF AllIn
<1>4. AllIn(CC, S) <=> (old.ignore \ new.ignore # {} => Minor \in S)
  BY <1>2, Zenon DEF AllIn
<1>5. DiffPolicy(old, new) = A \cup B \cup CC
  BY DEF DiffPolicy
<1>6. AllIn(DiffPolicy(old, new), S) <=> AllIn(A, S) /\ AllIn(B, S) /\ AllIn(CC, S)
  <2> HIDE DEF A, B, CC
  <2> QED BY <1>5, BothMost
<1> HIDE DEF A, B, CC
<1> QED BY <1>1, <1>3, <1>4, <1>6 DEF PolicyWithin

\* What the envelope asks for.
EnvelopeWithin(old, new, S) ==
  /\ old.envelope # new.envelope => Major \in S
  /\ old.app # new.app => Minor \in S
  /\ old.release # new.release => Patch \in S
  /\ old.version # new.version => VersionSeverity(old.version, new.version) \in S
  /\ old.dialect # new.dialect => Major \in S
  /\ PolicyWithin(old, new, S)

\* Lemma: what the envelope asks for is the formula above.
LEMMA EnvelopeMost ==
  ASSUME NEW old, NEW new, NEW S
  PROVE  AllIn(DiffEnvelope(old, new), S) <=> EnvelopeWithin(old, new, S)
<1> DEFINE A1 == Moved(Major, "terrace_contract", old.envelope, new.envelope)
           A2 == Moved(Minor, "app.name", old.app, new.app)
           A3 == Moved(Patch, "app.version", old.release, new.release)
           A4 == Moved(VersionSeverity(old.version, new.version),
                       "schema.schema_version", old.version, new.version)
           A5 == Moved(Major, "dialect", old.dialect, new.dialect)
<1>1. AllIn(A1, S) <=> (old.envelope # new.envelope => Major \in S)
  BY MovedMost
<1>2. AllIn(A2, S) <=> (old.app # new.app => Minor \in S)
  BY MovedMost
<1>3. AllIn(A3, S) <=> (old.release # new.release => Patch \in S)
  BY MovedMost
<1>4. AllIn(A4, S) <=> (old.version # new.version => VersionSeverity(old.version, new.version) \in S)
  BY MovedMost
<1>5. AllIn(A5, S) <=> (old.dialect # new.dialect => Major \in S)
  BY MovedMost
<1>6. DiffEnvelope(old, new) = A1 \cup A2 \cup A3 \cup A4 \cup A5 \cup DiffPolicy(old, new)
  BY DEF DiffEnvelope, DiffDialect
<1>7. AllIn(DiffEnvelope(old, new), S)
      <=> /\ AllIn(A1, S) /\ AllIn(A2, S) /\ AllIn(A3, S) /\ AllIn(A4, S) /\ AllIn(A5, S)
          /\ AllIn(DiffPolicy(old, new), S)
  <2> HIDE DEF A1, A2, A3, A4, A5
  <2> QED BY <1>6 DEF AllIn
<1> HIDE DEF A1, A2, A3, A4, A5
<1> QED BY <1>1, <1>2, <1>3, <1>4, <1>5, <1>7, PolicyMost DEF EnvelopeWithin

\* What the variables the loader reads ask for.
LoaderWithin(old, new, S) ==
  /\ DOMAIN new \ DOMAIN old # {} => Minor \in S
  /\ DOMAIN old \ DOMAIN new # {} => Major \in S
  /\ \A n \in DOMAIN old \cap DOMAIN new :
        FieldsWithin(old[n], new[n], LoaderFields, S)

\* Lemma: what the loader's variables ask for is the formula above.
LEMMA LoaderMost ==
  ASSUME NEW old, NEW new, NEW S
  PROVE  AllIn(DiffLoader(old, new), S) <=> LoaderWithin(old, new, S)
<1> DEFINE A == {Change(Minor, "loader", "added", n, "") : n \in DOMAIN new \ DOMAIN old}
           B == {Change(Major, "loader", "removed", n, "") : n \in DOMAIN old \ DOMAIN new}
           CC == {DiffFields("loader", n, old[n], new[n], LoaderFields) : n \in DOMAIN old \cap DOMAIN new}
<1>1. \A n : /\ Change(Minor, "loader", "added", n, "").severity = Minor
             /\ Change(Major, "loader", "removed", n, "").severity = Major
  BY DEF Change
<1>2. AllIn(A, S) <=> (DOMAIN new \ DOMAIN old # {} => Minor \in S)
  BY <1>1, Zenon DEF AllIn
<1>3. AllIn(B, S) <=> (DOMAIN old \ DOMAIN new # {} => Major \in S)
  BY <1>1, Zenon DEF AllIn
<1>4. AllIn(UNION CC, S)
      <=> \A n \in DOMAIN old \cap DOMAIN new :
             FieldsWithin(old[n], new[n], LoaderFields, S)
  <2>1. AllIn(UNION CC, S) <=> \A n \in DOMAIN old \cap DOMAIN new :
                                  AllIn(DiffFields("loader", n, old[n], new[n], LoaderFields), S)
    BY DEF AllIn
  <2> QED BY <2>1, FieldsMost, Zenon
<1>5. DiffLoader(old, new) = A \cup B \cup UNION CC
  BY DEF DiffLoader
<1>6. AllIn(DiffLoader(old, new), S) <=> AllIn(A, S) /\ AllIn(B, S) /\ AllIn(UNION CC, S)
  <2> HIDE DEF A, B, CC
  <2> QED BY <1>5, BothMost
<1> HIDE DEF A, B, CC
<1> QED BY <1>2, <1>3, <1>4, <1>6 DEF LoaderWithin

\* What the reload classes ask for.
ReloadTurned(old, new) == Rebuilds(old.reload) # Rebuilds(new.reload)

ReloadWithin(old, new, S) ==
  /\ ReloadTurned(old, new) \/ (Rebuilds(old.reload) /\ old.reload # new.reload) => Minor \in S
  /\ \A p \in DOMAIN old.keys \cap DOMAIN new.keys :
        /\ Live(old, p) # Live(new, p)
        /\ ReloadTurned(old, new) => (old.keys[p].reload = "live") # (new.keys[p].reload = "live")
        => Minor \in S

\* Lemma: what the reload classes ask for is the formula above.
LEMMA ReloadMost ==
  ASSUME NEW old, NEW new, NEW S
  PROVE  AllIn(DiffReload(old, new), S) <=> ReloadWithin(old, new, S)
<1> DEFINE A == IF ReloadTurned(old, new) \/ (Rebuilds(old.reload) /\ old.reload # new.reload)
                THEN {Change(Minor, "reload", "changed", "schema.reload", "")} ELSE {}
           Q == {q \in DOMAIN old.keys \cap DOMAIN new.keys :
                    /\ Live(old, q) # Live(new, q)
                    /\ ReloadTurned(old, new)
                       => (old.keys[q].reload = "live") # (new.keys[q].reload = "live")}
           B == {Change(Minor, "reload", "changed", p, "reload") : p \in Q}
<1>1. \A p, f : Change(Minor, "reload", "changed", p, f).severity = Minor
  BY DEF Change
<1>2. AllIn(A, S) <=> (ReloadTurned(old, new) \/ (Rebuilds(old.reload) /\ old.reload # new.reload) => Minor \in S)
  BY <1>1, Zenon DEF AllIn
<1>3. AllIn(B, S) <=> \A p \in Q : Minor \in S
  <2> HIDE DEF Q
  <2> QED BY <1>1, Zenon DEF AllIn
<1>4. DiffReload(old, new) = A \cup B
  BY DEF DiffReload, ReloadTurned
<1>5. AllIn(DiffReload(old, new), S) <=> AllIn(A, S) /\ AllIn(B, S)
  <2> HIDE DEF A, B
  <2> QED BY <1>4, BothMost
<1>6. (\A p \in Q : Minor \in S)
      <=> \A p \in DOMAIN old.keys \cap DOMAIN new.keys :
             /\ Live(old, p) # Live(new, p)
             /\ ReloadTurned(old, new) => (old.keys[p].reload = "live") # (new.keys[p].reload = "live")
             => Minor \in S
  BY Zenon
<1> HIDE DEF A, B, Q
<1> QED BY <1>2, <1>3, <1>5, <1>6 DEF ReloadWithin

-----------------------------------------------------------------------------
(* What two contracts ask for.                                             *)

\* What allows a severity allows those below it.
Downward(S) == (Major \in S => Minor \in S) /\ (Minor \in S => Patch \in S)

Everything == {Patch, Minor, Major}

ContractWithin(old, new, S) ==
  /\ old.image # new.image => Minor \in S
  /\ old.digest # new.digest => Patch \in S
  /\ old.schema # new.schema => Patch \in S
  /\ EnvelopeWithin(old, new, S)
  /\ LoaderWithin(old.loader, new.loader, S)
  /\ KeysWithin(old.keys, new.keys, S)
  /\ ExternalWithin(old, new, S)
  /\ ReloadWithin(old, new, S)

\* Lemma: where every severity is allowed, two entries may differ in anything.
LEMMA EntryEverything ==
  ASSUME NEW old, NEW new, NEW S, Everything \subseteq S
  PROVE  /\ EntryWithin(old, new, KeyFields, S)
         /\ EntryWithin(old, new, ExternalFields, S)
         /\ FieldsWithin(old, new, LoaderFields, S)
<1>1. Patch \in S /\ Minor \in S /\ Major \in S
  BY DEF Everything
<1>2. \A g \in DOMAIN KeyFields : KeyFields[g] \in S
  BY <1>1 DEF KeyFields
<1>3. \A g \in DOMAIN ExternalFields : ExternalFields[g] \in S
  BY <1>1 DEF ExternalFields
<1>4. \A g \in DOMAIN LoaderFields : LoaderFields[g] \in S
  BY <1>1 DEF LoaderFields
<1>5. FieldsWithin(old, new, KeyFields, S)
  BY <1>2 DEF FieldsWithin
<1>6. FieldsWithin(old, new, ExternalFields, S)
  BY <1>3 DEF FieldsWithin
<1>7. FieldsWithin(old, new, LoaderFields, S)
  BY <1>4 DEF FieldsWithin
<1> QED BY <1>1, <1>5, <1>6, <1>7 DEF EntryWithin

\* Lemma: where every severity is allowed, two key sets may differ in anything.
LEMMA KeysEverything ==
  ASSUME NEW old, NEW new, NEW S, Everything \subseteq S
  PROVE  KeysWithin(old, new, S)
<1>1. Patch \in S /\ Minor \in S /\ Major \in S
  BY DEF Everything
<1>2. \A p : (IF new[p].required THEN Major ELSE Minor) \in S
  BY <1>1
<1> QED BY <1>1, <1>2, EntryEverything DEF KeysWithin

\* Lemma: where every severity is allowed, two contracts may differ in anything.
LEMMA ContractEverything ==
  ASSUME NEW old, NEW new, NEW S, Everything \subseteq S
  PROVE  ContractWithin(old, new, S)
<1>1. Patch \in S /\ Minor \in S /\ Major \in S
  BY DEF Everything
<1>2. EnvelopeWithin(old, new, S)
  <2>1. VersionSeverity(old.version, new.version) \in S
    BY <1>1 DEF VersionSeverity
  <2>2. PolicyWithin(old, new, S)
    BY <1>1 DEF PolicyWithin
  <2> QED BY <1>1, <2>1, <2>2 DEF EnvelopeWithin
<1>3. LoaderWithin(old.loader, new.loader, S)
  BY <1>1, EntryEverything DEF LoaderWithin
<1>4. ExternalWithin(old, new, S)
  <2>1. \A n : /\ (IF new.external[n].required THEN Major ELSE Minor) \in S
               /\ (IF Rejected(new, n) THEN Major ELSE Minor) \in S
    BY <1>1
  <2> QED BY <1>1, <2>1, EntryEverything DEF ExternalWithin
<1>5. ReloadWithin(old, new, S)
  BY <1>1 DEF ReloadWithin
<1> QED BY <1>1, <1>2, <1>3, <1>4, <1>5, KeysEverything DEF ContractWithin

\* Lemma: what two contracts ask for is the formula above; the rendered schema counts
\* only where no key changed, and a key that did asks for more.
LEMMA ContractMost ==
  ASSUME NEW old, NEW new, NEW S, Downward(S)
  PROVE  AllIn(DiffContract(old, new), S) <=> ContractWithin(old, new, S)
<1> DEFINE keys == DiffKeys(old.keys, new.keys)
           schema == IF keys = {} THEN Moved(Patch, "json_schema", old.schema, new.schema) ELSE {}
           A1 == DiffSource(old, new)
           A2 == DiffEnvelope(old, new)
           A3 == DiffLoader(old.loader, new.loader)
           A4 == DiffExternal(old, new)
           A5 == DiffReload(old, new)
<1>1. AllIn(A1, S) <=> (old.image # new.image => Minor \in S) /\ (old.digest # new.digest => Patch \in S)
  BY SourceMost
<1>2. AllIn(A2, S) <=> EnvelopeWithin(old, new, S)
  BY EnvelopeMost
<1>3. AllIn(A3, S) <=> LoaderWithin(old.loader, new.loader, S)
  BY LoaderMost
<1>4. AllIn(keys, S) <=> KeysWithin(old.keys, new.keys, S)
  BY KeysMost
<1>5. AllIn(A4, S) <=> ExternalWithin(old, new, S)
  BY ExternalMost
<1>6. AllIn(A5, S) <=> ReloadWithin(old, new, S)
  BY ReloadMost
<1>7. AllIn(Moved(Patch, "json_schema", old.schema, new.schema), S) <=> (old.schema # new.schema => Patch \in S)
  BY MovedMost
<1>8. AllIn(keys, Everything)
  BY KeysMost, KeysEverything
<1>9. AllIn(keys, S) => (AllIn(schema, S) <=> (old.schema # new.schema => Patch \in S))
  <2>1. CASE keys = {}
    <3> HIDE DEF keys
    <3> QED BY <1>7, <2>1
  <2>2. ASSUME keys # {}, AllIn(keys, S) PROVE Patch \in S
    <3> HIDE DEF keys
    <3>1. PICK ch \in keys : TRUE
      BY <2>2
    <3>2. ch.severity \in Everything /\ ch.severity \in S
      BY <1>8, <2>2 DEF AllIn
    <3> QED BY <3>2 DEF Everything, Downward
  <2>3. ASSUME keys # {} PROVE AllIn(schema, S)
    <3> HIDE DEF keys
    <3> QED BY <2>3 DEF AllIn
  <2> QED BY <2>1, <2>2, <2>3
<1>10. DiffContract(old, new) = A1 \cup A2 \cup A3 \cup keys \cup A4 \cup A5 \cup schema
  BY DEF DiffContract
<1>11. AllIn(DiffContract(old, new), S)
       <=> /\ AllIn(A1, S) /\ AllIn(A2, S) /\ AllIn(A3, S) /\ AllIn(keys, S)
           /\ AllIn(A4, S) /\ AllIn(A5, S) /\ AllIn(schema, S)
  <2> HIDE DEF A1, A2, A3, A4, A5, keys, schema
  <2> QED BY <1>10 DEF AllIn
<1> HIDE DEF A1, A2, A3, A4, A5, keys, schema
<1> QED BY <1>1, <1>2, <1>3, <1>4, <1>5, <1>6, <1>9, <1>11 DEF ContractWithin

\* What two documents ask for.
DocumentWithin(old, new, S) ==
  /\ ~Parsed(old) /\ Parsed(new) => Minor \in S
  /\ Parsed(old) /\ ~Parsed(new) => Major \in S
  /\ Parsed(old) /\ Parsed(new) => ContractWithin(old.contract, new.contract, S)

\* Lemma: what two documents ask for is the formula above.
LEMMA DocumentMost ==
  ASSUME NEW old, NEW new, NEW S, Downward(S)
  PROVE  AllIn(Compare(old, new), S) <=> DocumentWithin(old, new, S)
<1>1. /\ Change(Minor, "envelope", "added", "contract", "").severity = Minor
      /\ Change(Major, "envelope", "removed", "contract", "").severity = Major
  BY DEF Change
<1>2. CASE ~Parsed(old) /\ ~Parsed(new)
  <2>1. Compare(old, new) = {}
    BY <1>2 DEF Compare
  <2> QED BY <1>2, <2>1 DEF AllIn, DocumentWithin
<1>3. CASE ~Parsed(old) /\ Parsed(new)
  <2>1. Compare(old, new) = {Change(Minor, "envelope", "added", "contract", "")}
    BY <1>3 DEF Compare
  <2> QED BY <1>1, <1>3, <2>1, Zenon DEF AllIn, DocumentWithin
<1>4. CASE Parsed(old) /\ ~Parsed(new)
  <2>1. Compare(old, new) = {Change(Major, "envelope", "removed", "contract", "")}
    BY <1>4 DEF Compare
  <2> QED BY <1>1, <1>4, <2>1, Zenon DEF AllIn, DocumentWithin
<1>5. CASE Parsed(old) /\ Parsed(new)
  <2>1. Compare(old, new) = DiffContract(old.contract, new.contract)
    BY <1>5 DEF Compare
  <2> QED BY <1>5, <2>1, ContractMost DEF DocumentWithin
<1> QED BY <1>2, <1>3, <1>4, <1>5

\* Lemma: every change of the table is graded.
LEMMA CompareGraded ==
  ASSUME NEW old, NEW new
  PROVE  AllIn(Compare(old, new), Everything)
<1>1. Downward(Everything)
  BY DEF Downward, Everything
<1>2. DocumentWithin(old, new, Everything)
  BY ContractEverything DEF DocumentWithin, Everything
<1> QED BY <1>1, <1>2, DocumentMost

\* Lemma: a document differs from itself in nothing.
LEMMA CompareSame ==
  ASSUME NEW doc
  PROVE  AllIn(Compare(doc, doc), {})
<1> DEFINE c == doc.contract
<1>1. \A e, fields : EntryWithin(e, e, fields, {})
  BY DEF EntryWithin, FieldsWithin
<1>2. \A e, fields : FieldsWithin(e, e, fields, {})
  BY DEF FieldsWithin
<1> HIDE DEF c
<1>3. EnvelopeWithin(c, c, {})
  BY DEF EnvelopeWithin, PolicyWithin
<1>4. LoaderWithin(c.loader, c.loader, {})
  BY <1>2 DEF LoaderWithin
<1>5. KeysWithin(c.keys, c.keys, {})
  BY <1>1 DEF KeysWithin
<1>6. ExternalWithin(c, c, {})
  BY <1>1 DEF ExternalWithin
<1>7. ReloadWithin(c, c, {})
  BY DEF ReloadWithin, ReloadTurned
<1>8. ContractWithin(c, c, {})
  BY <1>3, <1>4, <1>5, <1>6, <1>7 DEF ContractWithin
<1>9. DocumentWithin(doc, doc, {})
  BY <1>8 DEF DocumentWithin, c
<1>10. Downward({})
  BY DEF Downward
<1> QED BY <1>9, <1>10, DocumentMost

-----------------------------------------------------------------------------
(* Two comparisons in a row ask for what one asks for.                     *)

\* Lemma: two comparisons of an entry in a row ask for what the comparison of its ends asks for.
LEMMA EntryChain ==
  ASSUME NEW a, NEW b, NEW c, NEW fields, NEW S, Downward(S),
         EntryWithin(a, b, fields, S), EntryWithin(b, c, fields, S)
  PROVE  EntryWithin(a, c, fields, S)
<1>1. FieldsWithin(a, c, fields, S)
  BY DEF EntryWithin, FieldsWithin
<1>2. /\ c.required /\ ~a.required => Major \in S
      /\ a.required /\ ~c.required => Minor \in S
  BY DEF EntryWithin
<1>3. /\ c.entries \ a.entries # {} => Major \in S
      /\ a.entries \ c.entries # {} => Minor \in S
  BY DEF EntryWithin
<1>4. /\ c.names # a.names /\ c.names # "any" => Major \in S
      /\ c.names # a.names /\ c.names = "any" => Minor \in S
  BY DEF EntryWithin
<1>5. \A p \in Graded(c) : p \notin Graded(a) \/ a.tight[p] # c.tight[p] => Major \in S
  BY DEF EntryWithin
<1>6. \A p \in Graded(a) \ Graded(c) : Minor \in S
  BY DEF EntryWithin
<1>7. /\ a.form = "text" /\ c.form # "text" => Major \in S
      /\ c.form # a.form /\ a.form # "text" => Minor \in S
  BY DEF EntryWithin
<1>8. a.default # c.default => Minor \in S
  BY DEF EntryWithin
<1> QED BY <1>1, <1>2, <1>3, <1>4, <1>5, <1>6, <1>7, <1>8 DEF EntryWithin

\* Lemma: the same of the loader's variables: one that is removed on the way is major.
LEMMA LoaderChain ==
  ASSUME NEW a, NEW b, NEW c, NEW S, Downward(S), LoaderWithin(a, b, S), LoaderWithin(b, c, S)
  PROVE  LoaderWithin(a, c, S)
<1>1. CASE Major \in S
  <2>1. Everything \subseteq S
    BY <1>1 DEF Downward, Everything
  <2>2. \A n : FieldsWithin(a[n], c[n], LoaderFields, S)
    BY <2>1, EntryEverything
  <2> QED BY <1>1, <2>2 DEF LoaderWithin, Downward
<1>2. CASE Major \notin S
  <2>1. DOMAIN a \subseteq DOMAIN b /\ DOMAIN b \subseteq DOMAIN c
    BY <1>2 DEF LoaderWithin
  <2>2. DOMAIN c \ DOMAIN a # {} => Minor \in S
    BY DEF LoaderWithin
  <2>3. \A n \in DOMAIN a : FieldsWithin(a[n], b[n], LoaderFields, S) /\ FieldsWithin(b[n], c[n], LoaderFields, S)
    BY <2>1 DEF LoaderWithin
  <2>4. \A n \in DOMAIN a : FieldsWithin(a[n], c[n], LoaderFields, S)
    BY <2>3 DEF FieldsWithin
  <2> QED BY <2>1, <2>2, <2>4 DEF LoaderWithin
<1> QED BY <1>1, <1>2

\* Lemma: the same of the keys: one that is removed on the way is major.
LEMMA KeysChain ==
  ASSUME NEW a, NEW b, NEW c, NEW S, Downward(S), KeysWithin(a, b, S), KeysWithin(b, c, S)
  PROVE  KeysWithin(a, c, S)
<1>1. CASE Major \in S
  <2>1. Everything \subseteq S
    BY <1>1 DEF Downward, Everything
  <2> QED BY <2>1, KeysEverything
<1>2. CASE Major \notin S
  <2>1. DOMAIN a \subseteq DOMAIN b /\ DOMAIN b \subseteq DOMAIN c
    BY <1>2 DEF KeysWithin
  <2>2. ASSUME NEW p \in DOMAIN c \ DOMAIN a
        PROVE  (IF c[p].required THEN Major ELSE Minor) \in S
    <3>1. CASE p \in DOMAIN b
      <4>1. (IF b[p].required THEN Major ELSE Minor) \in S
        BY <3>1 DEF KeysWithin
      <4>2. EntryWithin(b[p], c[p], KeyFields, S)
        BY <3>1 DEF KeysWithin
      <4> QED BY <1>2, <4>1, <4>2 DEF EntryWithin
    <3>2. CASE p \notin DOMAIN b
      BY <3>2 DEF KeysWithin
    <3> QED BY <3>1, <3>2
  <2>3. ASSUME NEW p \in DOMAIN a
        PROVE  EntryWithin(a[p], c[p], KeyFields, S)
    <3>1. EntryWithin(a[p], b[p], KeyFields, S) /\ EntryWithin(b[p], c[p], KeyFields, S)
      BY <2>1 DEF KeysWithin
    <3> QED BY <3>1, EntryChain
  <2> QED BY <2>1, <2>2, <2>3 DEF KeysWithin
<1> QED BY <1>1, <1>2

\* Lemma: the same of the envelope: a step backwards in the schema version is major.
LEMMA EnvelopeChain ==
  ASSUME NEW a, NEW b, NEW c, NEW S, Downward(S),
         a.version \in Nat, b.version \in Nat, c.version \in Nat,
         EnvelopeWithin(a, b, S), EnvelopeWithin(b, c, S)
  PROVE  EnvelopeWithin(a, c, S)
<1>1. /\ a.envelope # c.envelope => Major \in S
      /\ a.app # c.app => Minor \in S
      /\ a.release # c.release => Patch \in S
      /\ a.dialect # c.dialect => Major \in S
  BY DEF EnvelopeWithin
<1>2. PolicyWithin(a, b, S) /\ PolicyWithin(b, c, S)
  BY DEF EnvelopeWithin
<1>3. PolicyWithin(a, c, S)
  BY <1>2 DEF PolicyWithin, Downward
<1>4. ASSUME a.version # c.version
      PROVE  VersionSeverity(a.version, c.version) \in S
  <2> DEFINE V(x, y) == x # y => VersionSeverity(x, y) \in S
  <2>1. V(a.version, b.version) /\ V(b.version, c.version)
    BY DEF EnvelopeWithin
  <2>2. \A x \in Nat, y \in Nat :
           VersionSeverity(x, y) = IF x # 0 /\ x < y /\ y <= 4 THEN Minor ELSE Major
    BY DEF VersionSeverity, SchemaVersion
  <2>3. CASE Major \in S
    BY <2>2, <2>3 DEF Downward
  <2>4. CASE Major \notin S
    <3>1. \A x \in Nat, y \in Nat : V(x, y) => x = y \/ (x # 0 /\ x < y /\ y <= 4 /\ Minor \in S)
      BY <2>2, <2>4
    <3> HIDE DEF V
    <3>2. a.version # 0 /\ a.version < c.version /\ c.version <= 4 /\ Minor \in S
      BY <1>4, <2>1, <3>1
    <3> QED BY <2>2, <3>2
  <2> QED BY <2>3, <2>4
<1> QED BY <1>1, <1>3, <1>4 DEF EnvelopeWithin

\* Nothing is taken back on the way from a over b to c.
Onwards(a, b, c) ==
  /\ b.ignore \ c.ignore = {}
  /\ (DOMAIN c.external \ DOMAIN b.external) \cap DOMAIN a.external = {}

\* Lemma: the same of the external variables, unless one comes back or a pattern is withdrawn.
LEMMA ExternalChain ==
  ASSUME NEW a, NEW b, NEW c, NEW S, Downward(S), Onwards(a, b, c),
         PolicyWithin(b, c, S), ExternalWithin(a, b, S), ExternalWithin(b, c, S)
  PROVE  ExternalWithin(a, c, S)
<1>1. ASSUME NEW n \in DOMAIN c.external \ DOMAIN a.external
      PROVE  (IF c.external[n].required THEN Major ELSE Minor) \in S
  <2>1. CASE n \in DOMAIN b.external
    <3>1. (IF b.external[n].required THEN Major ELSE Minor) \in S
      BY <2>1 DEF ExternalWithin
    <3>2. EntryWithin(b.external[n], c.external[n], ExternalFields, S)
      BY <2>1 DEF ExternalWithin
    <3> QED BY <3>1, <3>2 DEF EntryWithin, Downward
  <2>2. CASE n \notin DOMAIN b.external
    BY <2>2 DEF ExternalWithin
  <2> QED BY <2>1, <2>2
<1>2. ASSUME NEW n \in DOMAIN a.external \ DOMAIN c.external
      PROVE  (IF Rejected(c, n) THEN Major ELSE Minor) \in S
  <2>1. CASE n \in DOMAIN b.external
    BY <2>1 DEF ExternalWithin
  <2>2. CASE n \notin DOMAIN b.external
    <3>1. (IF Rejected(b, n) THEN Major ELSE Minor) \in S
      BY <2>2 DEF ExternalWithin
    <3>2. ASSUME Rejected(c, n), ~Rejected(b, n) PROVE Major \in S
      <4>1. c.unknown = "reject" /\ ~Absorbed(c, n)
        BY <3>2 DEF Rejected
      <4>2. b.ignore \subseteq c.ignore
        BY DEF Onwards
      <4>3. ~Absorbed(b, n)
        BY <4>1, <4>2 DEF Absorbed
      <4>4. b.unknown # "reject"
        BY <3>2, <4>3 DEF Rejected
      <4> QED BY <4>1, <4>4 DEF PolicyWithin
    <3> QED BY <3>1, <3>2 DEF Downward
  <2> QED BY <2>1, <2>2
<1>3. ASSUME NEW n \in DOMAIN a.external \cap DOMAIN c.external
      PROVE  EntryWithin(a.external[n], c.external[n], ExternalFields, S)
  <2>1. n \in DOMAIN b.external
    BY DEF Onwards
  <2>2. EntryWithin(a.external[n], b.external[n], ExternalFields, S)
    BY <2>1 DEF ExternalWithin
  <2>3. EntryWithin(b.external[n], c.external[n], ExternalFields, S)
    BY <2>1 DEF ExternalWithin
  <2> QED BY <2>2, <2>3, EntryChain
<1> QED BY <1>1, <1>2, <1>3 DEF ExternalWithin

\* Lemma: the same of the reload classes, of keys that stayed.
LEMMA ReloadChain ==
  ASSUME NEW a, NEW b, NEW c, NEW S, Downward(S),
         KeysWithin(a.keys, b.keys, S), KeysWithin(b.keys, c.keys, S),
         ReloadWithin(a, b, S), ReloadWithin(b, c, S)
  PROVE  ReloadWithin(a, c, S)
<1>1. CASE Minor \in S
  BY <1>1 DEF ReloadWithin
<1>2. CASE Minor \notin S
  <2>1. Major \notin S
    BY <1>2 DEF Downward
  <2>2. \A p : (IF b.keys[p].required THEN Major ELSE Minor) \notin S
    BY <1>2, <2>1
  <2>3. DOMAIN a.keys \subseteq DOMAIN b.keys /\ DOMAIN b.keys \subseteq DOMAIN a.keys
    BY <1>2, <2>1, <2>2 DEF KeysWithin
  <2>4. DOMAIN b.keys \subseteq DOMAIN c.keys
    BY <2>1 DEF KeysWithin
  <2>5. ~ReloadTurned(a, b) /\ ~ReloadTurned(b, c)
    BY <1>2 DEF ReloadWithin
  <2>6. Rebuilds(a.reload) = Rebuilds(b.reload) /\ Rebuilds(b.reload) = Rebuilds(c.reload)
    BY <2>5 DEF ReloadTurned
  <2>7. Rebuilds(a.reload) => a.reload = b.reload /\ b.reload = c.reload
    BY <1>2, <2>6 DEF ReloadWithin
  <2>8. \A p \in DOMAIN a.keys : Live(a, p) = Live(b, p) /\ Live(b, p) = Live(c, p)
    BY <1>2, <2>3, <2>4, <2>5 DEF ReloadWithin
  <2> QED BY <1>2, <2>6, <2>7, <2>8 DEF ReloadWithin, ReloadTurned
<1> QED BY <1>1, <1>2

\* Lemma: the same of two contracts.
LEMMA ContractChain ==
  ASSUME NEW a, NEW b, NEW c, NEW S, Downward(S), Onwards(a, b, c),
         a.version \in Nat, b.version \in Nat, c.version \in Nat,
         ContractWithin(a, b, S), ContractWithin(b, c, S)
  PROVE  ContractWithin(a, c, S)
<1>1. /\ a.image # c.image => Minor \in S
      /\ a.digest # c.digest => Patch \in S
      /\ a.schema # c.schema => Patch \in S
  BY DEF ContractWithin
<1>2. EnvelopeWithin(a, b, S) /\ EnvelopeWithin(b, c, S)
  BY DEF ContractWithin
<1>3. EnvelopeWithin(a, c, S)
  BY <1>2, EnvelopeChain
<1>4. LoaderWithin(a.loader, c.loader, S)
  BY LoaderChain DEF ContractWithin
<1>5. KeysWithin(a.keys, b.keys, S) /\ KeysWithin(b.keys, c.keys, S)
  BY DEF ContractWithin
<1>6. KeysWithin(a.keys, c.keys, S)
  BY <1>5, KeysChain
<1>7. ExternalWithin(a, c, S)
  <2>1. PolicyWithin(b, c, S)
    BY <1>2 DEF EnvelopeWithin
  <2>2. ExternalWithin(a, b, S) /\ ExternalWithin(b, c, S)
    BY DEF ContractWithin
  <2> QED BY <2>1, <2>2, ExternalChain
<1>8. ReloadWithin(a, c, S)
  <2>1. ReloadWithin(a, b, S) /\ ReloadWithin(b, c, S)
    BY DEF ContractWithin
  <2> QED BY <1>5, <2>1, ReloadChain
<1> QED BY <1>1, <1>3, <1>4, <1>6, <1>7, <1>8 DEF ContractWithin

\* Lemma: two comparisons in a row, with nothing taken back on the way, ask for
\* what the comparison of the ends asks for.
LEMMA CompareChain ==
  ASSUME NEW a \in Revisions, NEW b \in Revisions, NEW c \in Revisions, NEW S, Downward(S),
         ~Returns(a, b, c), AllIn(Compare(a, b), S), AllIn(Compare(b, c), S)
  PROVE  AllIn(Compare(a, c), S)
<1>1. DocumentWithin(a, b, S) /\ DocumentWithin(b, c, S)
  BY DocumentMost
<1>2. CASE Major \in S
  <2>1. Everything \subseteq S
    BY <1>2 DEF Downward, Everything
  <2>2. DocumentWithin(a, c, S)
    BY <2>1, ContractEverything DEF DocumentWithin, Everything
  <2> QED BY <2>2, DocumentMost
<1>3. CASE Major \notin S
  <2>1. ~Parsed(a) /\ Parsed(c) => Minor \in S
    BY <1>1 DEF DocumentWithin
  <2>2. (Parsed(a) => Parsed(b)) /\ (Parsed(b) => Parsed(c))
    BY <1>1, <1>3 DEF DocumentWithin
  <2>3. ASSUME Parsed(a)
        PROVE  ContractWithin(a.contract, c.contract, S)
    <3>1. Parsed(b) /\ Parsed(c)
      BY <2>2, <2>3
    <3>2. ContractWithin(a.contract, b.contract, S) /\ ContractWithin(b.contract, c.contract, S)
      BY <1>1, <2>3, <3>1 DEF DocumentWithin
    <3>3. Onwards(a.contract, b.contract, c.contract)
      BY <2>3, <3>1 DEF Returns, Onwards
    <3>4. Published(a.contract) /\ Published(b.contract) /\ Published(c.contract)
      BY RevisionsAssumption, <2>3, <3>1 DEF Parsed
    <3>5. a.contract.version \in Nat /\ b.contract.version \in Nat /\ c.contract.version \in Nat
      BY <3>4 DEF Published
    <3> QED BY <3>2, <3>3, <3>5, ContractChain
  <2>4. DocumentWithin(a, c, S)
    BY <2>1, <2>2, <2>3 DEF DocumentWithin
  <2> QED BY <2>4, DocumentMost
<1> QED BY <1>2, <1>3

-----------------------------------------------------------------------------
(* A contract no change of which is major refuses no deployment that the   *)
(* one before it let through.                                              *)

\* No change is major.
Mild(old, new) ==
  /\ Published(old) /\ Published(new) /\ Graders(old, new)
  /\ ContractWithin(old, new, 0 .. Minor)

\* Lemma: no variable of the loader went, and none changed its role.
LEMMA MildLoader ==
  ASSUME NEW old, NEW new, Mild(old, new)
  PROVE  /\ DOMAIN old.loader \subseteq DOMAIN new.loader
         /\ \A n \in DOMAIN old.loader : new.loader[n].role = old.loader[n].role
<1>1. Major \notin 0 .. Minor
  BY DEF Major, Minor
<1>2. LoaderWithin(old.loader, new.loader, 0 .. Minor)
  BY DEF Mild, ContractWithin
<1>3. DOMAIN old.loader \subseteq DOMAIN new.loader
  BY <1>1, <1>2 DEF LoaderWithin
<1>4. "role" \in DOMAIN LoaderFields /\ LoaderFields["role"] = Major
  BY DEF LoaderFields
<1>5. ASSUME NEW n \in DOMAIN old.loader
      PROVE  new.loader[n].role = old.loader[n].role
  <2>1. FieldsWithin(old.loader[n], new.loader[n], LoaderFields, 0 .. Minor)
    BY <1>2, <1>3 DEF LoaderWithin
  <2> QED BY <1>1, <1>4, <2>1 DEF FieldsWithin
<1> QED BY <1>3, <1>5

\* What holds of a key that both sides have.
MildKey(old, new) ==
  /\ new.env = old.env /\ new.file = old.file
  /\ new.required => old.required
  /\ new.entries \subseteq old.entries
  /\ new.names # "any" => new.names = old.names
  /\ \A p \in Graded(new) : p \in Graded(old) /\ new.tight[p] = old.tight[p]
  /\ old.form = "text" => new.form = "text"

\* Lemma: no key went, none became mandatory, and those of both sides only loosened.
LEMMA MildKeys ==
  ASSUME NEW old, NEW new, Mild(old, new)
  PROVE  /\ DOMAIN old.keys \subseteq DOMAIN new.keys
         /\ \A p \in DOMAIN old.keys : MildKey(old.keys[p], new.keys[p])
         /\ \A p \in DOMAIN new.keys : new.keys[p].required => p \in DOMAIN old.keys
<1>1. Major \notin 0 .. Minor
  BY DEF Major, Minor
<1>2. KeysWithin(old.keys, new.keys, 0 .. Minor)
  BY DEF Mild, ContractWithin
<1>3. DOMAIN old.keys \subseteq DOMAIN new.keys
  BY <1>1, <1>2 DEF KeysWithin
<1>4. /\ "env" \in DOMAIN KeyFields /\ KeyFields["env"] = Major
      /\ "file" \in DOMAIN KeyFields /\ KeyFields["file"] = Major
  BY DEF KeyFields
<1>5. ASSUME NEW p \in DOMAIN old.keys
      PROVE  MildKey(old.keys[p], new.keys[p])
  <2> DEFINE a == old.keys[p]
             b == new.keys[p]
  <2>1. EntryWithin(a, b, KeyFields, 0 .. Minor)
    BY <1>2, <1>3 DEF KeysWithin
  <2> HIDE DEF a, b
  <2>2. FieldsWithin(a, b, KeyFields, 0 .. Minor)
    BY <2>1 DEF EntryWithin
  <2>3. b["env"] = a["env"] /\ b["file"] = a["file"]
    BY <1>1, <1>4, <2>2 DEF FieldsWithin
  <2>4. /\ b.required => a.required
        /\ b.names # "any" => b.names = a.names
        /\ a.form = "text" => b.form = "text"
        /\ b.entries \subseteq a.entries
        /\ \A q \in Graded(b) : q \in Graded(a) /\ b.tight[q] = a.tight[q]
    BY <1>1, <2>1 DEF EntryWithin
  <2>5. MildKey(a, b)
    BY <2>3, <2>4 DEF MildKey
  <2> QED BY <2>5 DEF a, b
<1>6. \A p \in DOMAIN new.keys : new.keys[p].required => p \in DOMAIN old.keys
  BY <1>1, <1>2 DEF KeysWithin
<1> QED BY <1>3, <1>5, <1>6

\* Lemma: no name that passed is rejected, and no external variable became mandatory.
LEMMA MildNames ==
  ASSUME NEW old, NEW new, Mild(old, new)
  PROVE  /\ new.unknown = "reject" => old.unknown = "reject"
         /\ \A n : Absorbed(old, n) => Absorbed(new, n)
         /\ \A n \in DOMAIN old.external \ DOMAIN new.external : ~Rejected(new, n)
         /\ \A n \in DOMAIN new.external :
               new.external[n].required => n \in DOMAIN old.external /\ old.external[n].required
<1>1. Major \notin 0 .. Minor
  BY DEF Major, Minor
<1>2. PolicyWithin(old, new, 0 .. Minor)
  BY DEF Mild, ContractWithin, EnvelopeWithin
<1>3. new.unknown = "reject" => old.unknown = "reject"
  BY <1>1, <1>2 DEF PolicyWithin
<1>4. old.ignore \subseteq new.ignore
  BY DEF Mild, Graders
<1>5. \A n : Absorbed(old, n) => Absorbed(new, n)
  BY <1>4 DEF Absorbed
<1>6. ExternalWithin(old, new, 0 .. Minor)
  BY DEF Mild, ContractWithin
<1>7. \A n \in DOMAIN old.external \ DOMAIN new.external : ~Rejected(new, n)
  BY <1>1, <1>6 DEF ExternalWithin
<1>8. ASSUME NEW n \in DOMAIN new.external, new.external[n].required
      PROVE  n \in DOMAIN old.external /\ old.external[n].required
  <2>1. n \in DOMAIN old.external
    BY <1>1, <1>6, <1>8 DEF ExternalWithin
  <2>2. EntryWithin(old.external[n], new.external[n], ExternalFields, 0 .. Minor)
    BY <1>6, <2>1 DEF ExternalWithin
  <2> QED BY <1>1, <1>8, <2>1, <2>2 DEF EntryWithin
<1> QED BY <1>3, <1>5, <1>7, <1>8

\* Lemma: a key that did not become one of the loader's stays none.
LEMMA MildReserved ==
  ASSUME NEW old, NEW new, Mild(old, new), NEW p \in DOMAIN old.keys, new.keys[p].reserved
  PROVE  old.keys[p].reserved
<1>1. p \in DOMAIN new.keys /\ MildKey(old.keys[p], new.keys[p])
  BY MildKeys
<1>2. new.keys[p].file = NoFile
  BY <1>1 DEF Mild, Published
<1>3. old.keys[p].reserved \/ old.keys[p].file # NoFile
  BY <1>1 DEF Mild, Graders
<1> QED BY <1>1, <1>2, <1>3 DEF MildKey

\* Lemma: no variable of the deployment became unknown.
LEMMA MildUnknown ==
  ASSUME NEW old, NEW new, Mild(old, new), NEW d, ~Refused(old, d)
  PROVE  ~Unknown(new, d)
<1>1. ~Unknown(old, d)
  BY DEF Refused
<1>2. SUFFICES ASSUME new.unknown = "reject",
                      NEW n \in DOMAIN d.env \ (Namespace \cup DOMAIN new.loader),
                      n \notin DOMAIN new.external, ~Absorbed(new, n)
               PROVE  FALSE
  BY DEF Unknown
<1>3. n \notin Namespace /\ n \notin DOMAIN old.loader
  BY MildLoader
<1>4. old.unknown = "reject" /\ ~Absorbed(old, n)
  BY <1>2, MildNames
<1>5. n \in DOMAIN old.external
  BY <1>1, <1>3, <1>4 DEF Unknown
<1>6. Rejected(new, n)
  BY <1>2 DEF Rejected
<1> QED BY <1>2, <1>5, <1>6, MildNames

\* Lemma: every spelling of the deployment still names a key.
LEMMA MildMisspelt ==
  ASSUME NEW old, NEW new, Mild(old, new), NEW d, ~Refused(old, d)
  PROVE  ~Misspelt(new, d)
<1>1. ~Misspelt(old, d)
  BY DEF Refused
<1>2. \A n : NamedBy(old, n) \subseteq NamedBy(new, n) /\ Filed(old, n) \subseteq Filed(new, n)
  BY MildKeys DEF NamedBy, Filed, MildKey
<1>3. DOMAIN old.keys \subseteq DOMAIN new.keys /\ DOMAIN old.loader \subseteq DOMAIN new.loader
  BY MildKeys, MildLoader
<1> QED BY <1>1, <1>2, <1>3 DEF Misspelt

\* Lemma: a variable the loader reads anew is none that the deployment sets: within the
\* prefix it named a key, which then is reserved and has no file, and outside of it
\* it was external or absorbed.
LEMMA MildMislaid ==
  ASSUME NEW old, NEW new, Mild(old, new), NEW d, ~Refused(old, d)
  PROVE  ~Mislaid(new, d)
<1>1. ~Mislaid(old, d) /\ ~Misspelt(old, d) /\ ~Unknown(old, d)
  BY DEF Refused
<1>2. SUFFICES ASSUME NEW n \in DOMAIN d.env \cap DOMAIN new.loader, new.loader[n].role # d.env[n]
               PROVE  FALSE
  BY DEF Mislaid
<1>3. n \notin DOMAIN old.loader
  BY <1>1, <1>2, MildLoader DEF Mislaid
<1>4. CASE n \in Namespace
  <2>1. NamedBy(old, n) # {}
    BY <1>1, <1>3, <1>4 DEF Misspelt
  <2>2. PICK p \in DOMAIN old.keys : old.keys[p].env = n
    BY <2>1 DEF NamedBy
  <2>3. p \in DOMAIN new.keys /\ new.keys[p].env = n
    BY <2>2, MildKeys DEF MildKey
  <2>4. new.keys[p].reserved
    BY <1>2, <2>3 DEF Mild, Published
  <2>5. old.keys[p].reserved
    BY <2>2, <2>4, MildReserved
  <2>6. n \in DOMAIN old.loader
    BY <2>2, <2>5 DEF Mild, Published
  <2> QED BY <1>3, <2>6
<1>5. CASE n \notin Namespace
  <2>1. new.unknown = "reject"
    BY <1>2, <1>3, <1>5 DEF Mild, Graders
  <2>2. old.unknown = "reject"
    BY <2>1, MildNames
  <2>3. ~Absorbed(new, n)
    BY <1>2 DEF Mild, Published, Absorbed
  <2>4. n \notin DOMAIN new.external
    BY <1>2 DEF Mild, Published
  <2>5. n \in DOMAIN old.external
    BY <1>1, <1>2, <1>3, <1>5, <2>2, <2>3, MildNames DEF Unknown
  <2>6. Rejected(new, n)
    BY <2>1, <2>3 DEF Rejected
  <2> QED BY <2>4, <2>5, <2>6, MildNames
<1> QED BY <1>4, <1>5

\* Lemma: what is mandatory was mandatory, and is supplied as it was.
LEMMA MildMissing ==
  ASSUME NEW old, NEW new, Mild(old, new), NEW d, ~Refused(old, d)
  PROVE  ~Missing(new, d)
<1>1. ~Missing(old, d)
  BY DEF Refused
<1>2. ASSUME NEW p \in DOMAIN new.keys, new.keys[p].required
      PROVE  Supplied(new, d, p)
  <2>1. p \in DOMAIN old.keys
    BY <1>2, MildKeys
  <2>2. MildKey(old.keys[p], new.keys[p])
    BY <2>1, MildKeys
  <2>3. Supplied(old, d, p)
    BY <1>1, <1>2, <2>1, <2>2 DEF Missing, MildKey
  <2>4. new.keys[p].reserved => old.keys[p].reserved
    BY <2>1, MildReserved
  <2> QED BY <2>2, <2>3, <2>4 DEF Supplied, MildKey
<1>3. ASSUME NEW n \in DOMAIN new.external, new.external[n].required
      PROVE  n \in DOMAIN d.env
  BY <1>1, <1>3, MildNames DEF Missing
<1> QED BY <1>2, <1>3 DEF Missing

\* Lemma: a file of the deployment names the key it named, which still is text.
LEMMA MildFormless ==
  ASSUME NEW old, NEW new, Mild(old, new), NEW d \in Deployments, ~Refused(old, d)
  PROVE  ~Formless(new, d)
<1>1. ~Formless(old, d) /\ ~Misspelt(old, d)
  BY DEF Refused
<1>2. SUFFICES ASSUME NEW n \in d.files, NEW p \in Filed(new, n)
               PROVE  new.keys[p].form = "text"
  BY DEF Formless
<1>3. n # NoFile
  BY BranchAssumption
<1>4. PICK q \in Filed(old, n) : TRUE
  BY <1>1 DEF Misspelt
<1>5. q \in DOMAIN old.keys /\ old.keys[q].file = n /\ old.keys[q].form = "text"
  BY <1>1, <1>4 DEF Formless, Filed
<1>6. q \in DOMAIN new.keys /\ new.keys[q].file = n /\ new.keys[q].form = "text"
  BY <1>5, MildKeys DEF MildKey
<1>7. p \in DOMAIN new.keys /\ new.keys[p].file = n
  BY DEF Filed
<1>8. p = q
  BY <1>3, <1>6, <1>7 DEF Mild, Published
<1> QED BY <1>6, <1>8

\* Lemma: a value that kept a key's tightenings keeps those it has now.
LEMMA MildLoose ==
  ASSUME NEW old, NEW new, Mild(old, new), NEW d, ~Refused(old, d)
  PROVE  ~Loose(new, d)
<1>1. ~Loose(old, d) /\ ~Misspelt(old, d)
  BY DEF Refused
<1>2. SUFFICES ASSUME NEW p \in DOMAIN d.doc \cap DOMAIN new.keys
               PROVE  Keeps(new.keys[p], d.doc[p])
  BY DEF Loose
<1>3. p \in DOMAIN old.keys
  BY <1>1 DEF Misspelt
<1>4. Keeps(old.keys[p], d.doc[p])
  BY <1>1, <1>3 DEF Loose
<1>5. MildKey(old.keys[p], new.keys[p])
  BY <1>3, MildKeys
<1>6. \A place \in DOMAIN new.keys[p].tight : place \in Graded(new.keys[p])
  BY <1>3 DEF Mild, Graders
<1>7. \A place \in Graded(old.keys[p]) : place \in DOMAIN old.keys[p].tight
  BY DEF Graded
<1> QED BY <1>4, <1>5, <1>6, <1>7 DEF Keeps, MildKey

\* Lemma: within the gaps of the table, what is not major breaks no deployment.
LEMMA MildBreaksNothing ==
  ASSUME NEW old, NEW new, Mild(old, new), NEW d \in Deployments
  PROVE  ~Breaks(old, new, d)
<1>1. SUFFICES ASSUME ~Refused(old, d) PROVE ~Refused(new, d)
  BY DEF Breaks
<1> QED BY <1>1, MildUnknown, MildMisspelt, MildMislaid, MildMissing, MildFormless, MildLoose DEF Refused

-----------------------------------------------------------------------------
(* The branch.                                                             *)

Trees == [docs : [Files -> Revisions], version : Versions]

BranchType ==
  /\ base \in Trees /\ tree \in Trees
  /\ steps \in Grades /\ returned \in BOOLEAN /\ refreshes \in Nat

\* Every file's change since the base is within what the refreshes asked for.
WithinSteps ==
  ~returned => \A f \in Files : AllIn(Compare(base.docs[f], tree.docs[f]), None .. steps)

BranchInv == BranchType /\ WithinSteps

\* Lemma: all grades up to one allow those below it.
LEMMA UptoDownward ==
  ASSUME NEW s \in Grades
  PROVE  Downward(None .. s)
  BY DEF Downward, Grades, None, Patch, Minor, Major

\* Lemma: the larger of two grades is the largest of the pair.
LEMMA LargerGrade ==
  ASSUME NEW a \in Grades, NEW b \in Grades
  PROVE  Max({a, b}) \in Grades /\ a <= Max({a, b}) /\ b <= Max({a, b})
<1>1. \E m \in {a, b} : \A y \in {a, b} : m >= y
  BY DEF Grades, None, Major
<1>2. Max({a, b}) \in {a, b} /\ \A y \in {a, b} : Max({a, b}) >= y
  BY <1>1 DEF Max
<1> QED BY <1>2 DEF Grades, None, Major

\* Lemma: the grade of one comparison is its largest severity.
LEMMA CompareWorst ==
  ASSUME NEW old, NEW new
  PROVE  /\ Worst(Compare(old, new)) \in Grades
         /\ \A s \in Grades : AllIn(Compare(old, new), None .. s) <=> Worst(Compare(old, new)) <= s
<1>1. \A ch \in Compare(old, new) : ch.severity \in Grades
  <2>1. Everything \subseteq Grades
    BY DEF Everything, Grades, None, Patch, Minor, Major
  <2> QED BY <2>1, CompareGraded DEF AllIn
<1> QED BY <1>1, WorstIsLargest DEF None

\* Lemma: the impact of a branch is the largest severity in any of its files.
LEMMA ImpactIsLargest ==
  ASSUME NEW from, NEW to
  PROVE  /\ Impact(from, to) \in Grades
         /\ \A s \in Grades :
               Impact(from, to) <= s
               <=> \A f \in Files : AllIn(Compare(from.docs[f], to.docs[f]), None .. s)
<1> DEFINE all == UNION {Compare(from.docs[f], to.docs[f]) : f \in Files}
<1>1. \A ch \in all : ch.severity \in Grades
  <2>1. Everything \subseteq Grades
    BY DEF Everything, Grades, None, Patch, Minor, Major
  <2>2. \A f \in Files : \A ch \in Compare(from.docs[f], to.docs[f]) : ch.severity \in Grades
    BY <2>1, CompareGraded DEF AllIn
  <2> QED BY <2>2
<1>2. \A S : AllIn(all, S) <=> \A f \in Files : AllIn(Compare(from.docs[f], to.docs[f]), S)
  BY DEF AllIn
<1>3. Impact(from, to) = Worst(all)
  BY DEF Impact
<1> HIDE DEF all
<1>4. Worst(all) \in Grades /\ \A s \in Grades : AllIn(all, None .. s) <=> Worst(all) <= s
  BY <1>1, WorstIsLargest DEF None
<1> QED BY <1>2, <1>3, <1>4

\* Lemma: a branch starts from the base, and nothing differs from itself.
LEMMA BranchStarts == BranchInit => BranchInv
<1> SUFFICES ASSUME BranchInit PROVE BranchInv
  OBVIOUS
<1>1. <<0, 0, 0>> \in Versions /\ <<>> \in Versions
  BY BranchAssumption DEF Versions
<1>2. BranchType
  <2>1. steps \in Grades /\ returned \in BOOLEAN /\ refreshes \in Nat
    <3>1. None \in Grades /\ 0 \in Nat
      BY DEF Grades, None, Major
    <3>2. steps = None /\ returned = FALSE /\ refreshes = 0
      BY DEF BranchInit
    <3> QED BY <3>1, <3>2, Zenon
  <2>2. base \in Trees /\ tree \in Trees
    BY <1>1 DEF BranchInit, Trees
  <2> QED BY <2>1, <2>2 DEF BranchType
<1>3. ASSUME NEW f \in Files
      PROVE  AllIn(Compare(base.docs[f], tree.docs[f]), None .. steps)
  <2>1. AllIn(Compare(base.docs[f], base.docs[f]), {})
    BY CompareSame
  <2>2. tree.docs[f] = base.docs[f]
    BY DEF BranchInit
  <2> QED BY <2>1, <2>2 DEF AllIn
<1> QED BY <1>2, <1>3 DEF BranchInv, WithinSteps

\* Lemma: a refresh keeps the invariant: its file by CompareChain, the others unchanged.
LEMMA RefreshKeeps ==
  ASSUME BranchInv, NEW f \in Files, NEW doc \in Revisions, Refresh(f, doc)
  PROVE  BranchInv'
<1> DEFINE cost == Worst(Compare(tree.docs[f], doc))
<1>1. cost \in Grades /\ steps \in Grades
  BY CompareWorst DEF BranchInv, BranchType
<1>2. steps' = Max({steps, cost})
  BY DEF Refresh
<1>3. steps' \in Grades /\ steps <= steps' /\ cost <= steps'
  <2> HIDE DEF cost
  <2> QED BY <1>1, <1>2, LargerGrade
<1>4. tree'.docs = [tree.docs EXCEPT ![f] = doc] /\ tree'.version = tree.version /\ tree' \in Trees
  BY DEF Refresh, BranchInv, BranchType, Trees
<1>5. base' = base /\ base \in Trees /\ tree \in Trees
  BY DEF Refresh, BranchInv, BranchType
<1>6. BranchType'
  <2>1. returned' \in BOOLEAN /\ refreshes' \in Nat
    BY DEF Refresh, BranchInv, BranchType
  <2> QED BY <1>3, <1>4, <1>5, <2>1 DEF BranchType
<1>7. ASSUME ~returned', NEW g \in Files
      PROVE  AllIn(Compare(base'.docs[g], tree'.docs[g]), None .. steps')
  <2>1. ~returned /\ ~Returns(base.docs[f], tree.docs[f], doc)
    BY <1>7 DEF Refresh
  <2>2. AllIn(Compare(base.docs[g], tree.docs[g]), None .. steps)
    BY <2>1 DEF BranchInv, WithinSteps
  <2>3. None .. steps \subseteq None .. steps'
    BY <1>1, <1>3 DEF Grades, None, Major
  <2>4. AllIn(Compare(base.docs[g], tree.docs[g]), None .. steps')
    BY <2>2, <2>3 DEF AllIn
  <2>5. CASE g # f
    <3>1. tree'.docs[g] = tree.docs[g]
      BY <1>4, <1>5, <2>5 DEF Trees
    <3> QED BY <1>5, <2>4, <3>1
  <2>6. CASE g = f
    <3>1. tree'.docs[f] = doc
      BY <1>4, <1>5 DEF Trees
    <3>2. AllIn(Compare(tree.docs[f], doc), None .. steps')
      BY <1>3, CompareWorst
    <3>3. base.docs[f] \in Revisions /\ tree.docs[f] \in Revisions
      BY <1>5 DEF Trees
    <3>4. Downward(None .. steps')
      BY <1>3, UptoDownward
    <3>5. AllIn(Compare(base.docs[f], doc), None .. steps')
      BY <2>1, <2>4, <2>6, <3>2, <3>3, <3>4, CompareChain
    <3> QED BY <1>5, <2>6, <3>1, <3>5
  <2> QED BY <2>5, <2>6
<1> QED BY <1>6, <1>7 DEF BranchInv, WithinSteps

\* Lemma: taking a version changes no document.
LEMMA TakeVersionKeeps ==
  ASSUME BranchInv, TakeVersion
  PROVE  BranchInv'
<1>1. /\ tree'.docs = tree.docs /\ tree' \in Trees
      /\ UNCHANGED <<base, steps, returned, refreshes>>
  BY DEF TakeVersion, BranchInv, BranchType, Trees
<1> QED BY <1>1 DEF BranchInv, BranchType, WithinSteps

\* Lemma: a merge makes the tree its own base.
LEMMA MergeKeeps ==
  ASSUME BranchInv, Merge
  PROVE  BranchInv'
<1>1. BranchType'
  <2>1. steps' \in Grades /\ returned' \in BOOLEAN /\ refreshes' \in Nat
    <3>1. None \in Grades /\ 0 \in Nat
      BY DEF Grades, None, Major
    <3>2. steps' = None /\ returned' = FALSE /\ refreshes' = 0
      BY DEF Merge
    <3> QED BY <3>1, <3>2, Zenon
  <2>2. base' \in Trees /\ tree' \in Trees
    BY DEF Merge, BranchInv, BranchType
  <2> QED BY <2>1, <2>2 DEF BranchType
<1>2. ASSUME NEW f \in Files
      PROVE  AllIn(Compare(base'.docs[f], tree'.docs[f]), None .. steps')
  <2>1. AllIn(Compare(tree.docs[f], tree.docs[f]), {})
    BY CompareSame
  <2>2. base'.docs[f] = tree.docs[f] /\ tree'.docs[f] = tree.docs[f]
    BY DEF Merge
  <2> QED BY <2>1, <2>2 DEF AllIn
<1> QED BY <1>1, <1>2 DEF BranchInv, WithinSteps

\* Theorem: in every branch that is never asked to take anything back, each file's
\* change since the base is within the largest impact a refresh had (diff.rs).
THEOREM BranchInvariant == BranchSpec => []BranchInv
<1>1. BranchInit => BranchInv
  BY BranchStarts
<1>2. BranchInv /\ [BranchNext]_branchVars => BranchInv'
  <2> SUFFICES ASSUME BranchInv, [BranchNext]_branchVars PROVE BranchInv'
    OBVIOUS
  <2>1. CASE \E f \in Files, doc \in Revisions : Refresh(f, doc)
    BY <2>1, RefreshKeeps
  <2>2. CASE TakeVersion
    BY <2>2, TakeVersionKeeps
  <2>3. CASE Merge
    BY <2>3, MergeKeeps
  <2>4. CASE UNCHANGED branchVars
    BY <2>4 DEF branchVars, BranchInv, BranchType, WithinSteps
  <2> QED BY <2>1, <2>2, <2>3, <2>4 DEF BranchNext
<1> QED BY <1>1, <1>2, PTL DEF BranchSpec

\* Theorem: whatever the documents hold and however many refreshes there were, the
\* impact `helm diff` finds over a whole branch is no larger than the largest of its
\* refreshes, unless one took back what one before it did (diff.rs, helm/diff.rs).
THEOREM BranchStepsAddUp == BranchSpec => []StepsAddUp
<1>1. BranchInv => StepsAddUp
  <2> SUFFICES ASSUME BranchInv, ~returned PROVE Impact(base, tree) <= steps
    BY DEF StepsAddUp
  <2>1. steps \in Grades
    BY DEF BranchInv, BranchType
  <2>2. \A f \in Files : AllIn(Compare(base.docs[f], tree.docs[f]), None .. steps)
    BY DEF BranchInv, WithinSteps
  <2> QED BY <2>1, <2>2, ImpactIsLargest
<1> QED BY <1>1, BranchInvariant, PTL

\* Lemma: what is let in with the major version it had has no major change.
LEMMA LetInIsMild ==
  ASSUME NEW from \in Trees, NEW to \in Trees, Satisfied(from, to) # {FALSE},
         from.version # <<>>, to.version # <<>>, to.version[1] = from.version[1]
  PROVE  Impact(from, to) <= Minor
<1>1. Impact(from, to) \in 0 .. 3
  BY ImpactIsLargest DEF Grades, None, Major
<1>2. SUFFICES ASSUME Impact(from, to) = 3 PROVE FALSE
  BY <1>1 DEF Minor
<1>3. ObservedBump(from.version, to.version) \in {{Minor}, {Patch}, {None}}
  BY DEF ObservedBump
<1>4. PICK bump \in {Minor, Patch, None} : ObservedBump(from.version, to.version) = {bump}
  BY <1>3
<1>5. Satisfied(from, to) = {b >= Impact(from, to) : b \in {bump}}
  BY <1>2, <1>4 DEF Satisfied, None
<1>6. (bump >= 3) = FALSE
  BY DEF Minor, Patch, None
<1> QED BY <1>2, <1>5, <1>6

\* Theorem: for every set of documents and every deployment, what `helm diff` lets in
\* without a major version makes the gates refuse no deployment they let through
\* before, but by a value and outside the gaps of Graders (sections.rs, keys.rs).
THEOREM BranchMajorMeansMajor == BranchSpec => MajorMeansMajor
<1> DEFINE Step == base' # base /\ base.version # <<>> /\ base'.version # <<>>
                   /\ base'.version[1] = base.version[1]
           Safe == \A pair \in ContractPairs(base, base') :
                      Graders(pair[1], pair[2]) => \A d \in Deployments : ~Breaks(pair[1], pair[2], d)
<1>1. BranchInv /\ [BranchNext]_branchVars /\ Step => Safe
  <2> SUFFICES ASSUME BranchInv, [BranchNext]_branchVars, Step,
                      NEW pair \in ContractPairs(base, base'), Graders(pair[1], pair[2]),
                      NEW d \in Deployments
               PROVE  ~Breaks(pair[1], pair[2], d)
    OBVIOUS
  <2>1. Merge
    BY DEF BranchNext, Refresh, TakeVersion, branchVars
  <2>2. base' = tree /\ Satisfied(base, tree) # {FALSE}
    BY <2>1 DEF Merge
  <2>3. base \in Trees /\ tree \in Trees
    BY DEF BranchInv, BranchType
  <2>4. Impact(base, tree) <= Minor
    BY <2>2, <2>3, LetInIsMild
  <2>5. PICK f \in Files : /\ Parsed(base.docs[f]) /\ Parsed(tree.docs[f])
                           /\ pair = <<base.docs[f].contract, tree.docs[f].contract>>
    BY <2>2 DEF ContractPairs
  <2>6. Minor \in Grades
    BY DEF Minor, Grades, None, Major
  <2>7. AllIn(Compare(base.docs[f], tree.docs[f]), 0 .. Minor)
    BY <2>4, <2>6, ImpactIsLargest DEF None
  <2>8. Downward(0 .. Minor)
    BY <2>6, UptoDownward DEF None
  <2>9. ContractWithin(pair[1], pair[2], 0 .. Minor)
    BY <2>5, <2>7, <2>8, DocumentMost DEF DocumentWithin
  <2>10. base.docs[f] \in Revisions /\ tree.docs[f] \in Revisions
    BY <2>3 DEF Trees
  <2>11. Published(pair[1]) /\ Published(pair[2])
    BY <2>5, <2>10, RevisionsAssumption DEF Parsed
  <2>12. Mild(pair[1], pair[2])
    BY <2>9, <2>11 DEF Mild
  <2> QED BY <2>12, MildBreaksNothing
<1>2. BranchInv /\ [BranchNext]_branchVars
      => [/\ base' # base /\ base.version # <<>> /\ base'.version # <<>>
          /\ base'.version[1] = base.version[1]
          => \A pair \in ContractPairs(base, base') :
                Graders(pair[1], pair[2])
                => \A d \in Deployments : ~Breaks(pair[1], pair[2], d)]_branchVars
  BY <1>1
<1> QED BY <1>2, BranchInvariant, PTL DEF BranchSpec, MajorMeansMajor
-----------------------------------------------------------------------------
(* `secrets` and `helm check`: every Secret file is reported once.         *)

\* Each command reports of the chart what it finds there: the inductive
\* invariant.
SurveyInv ==
    /\ pc \in {"charted", "reconciled", "surveyed"} => chart \in Charts
    /\ pc \in {"reconciled", "surveyed"} => surface = ReconcileChart(chart)
    /\ pc = "surveyed" => report = CheckChart(chart)

\* Nothing but the two commands writes a report, and neither touches the chart.
LEMMA SurveyInvariance == SurveySpec => []SurveyInv
<1>1. SurveyInit => SurveyInv
  BY DEF SurveyInit, Init, SurveyInv
<1>2. SurveyInv /\ [SurveyNext]_<<vars, surveyVars>> => SurveyInv'
  BY DEF SurveyInv, SurveyNext, Next, Check, Boot, SecretsCommand, CheckCommand, vars, surveyVars
<1> QED BY <1>1, <1>2, PTL DEF SurveySpec

\* A container is told from another by its workload and its name.
LEMMA PlacesDiffer ==
    ASSUME NEW render, NEW a \in ContainersOf(render), NEW b \in ContainersOf(render),
           a.workload = b.workload, a.name = b.name
    PROVE  a = b
  BY DEF ContainersOf

\* What a consumer consumes is a container of the render.
LEMMA ConsumedAreContainers ==
    ASSUME NEW c, NEW render, NEW place \in Consumed(c, render)
    PROVE  /\ place \in ContainersOf(render)
           /\ place.workload = c.workload
           /\ c.workload \in DOMAIN render.workloads
<1>1. c.workload \in DOMAIN render.workloads
  BY DEF Consumed
<1>2. place \in {[workload |-> c.workload, name |-> n] :
                    n \in c.containers \cap DOMAIN render.workloads[c.workload]}
  BY <1>1 DEF Consumed
<1> QED BY <1>1, <1>2 DEF ContainersOf

\* `secrets` has a line for a file of a container.
Line(ch, v, place, f) ==
    \E s \in ReconcileChart(ch) :
        /\ s.kind \in {"over_projected", "unclaimed"}
        /\ s.values = v /\ s.workload = place.workload
        /\ s.name = place.name /\ s.at = f

\* A line of one container is of a stranger among its files that gate 3 does
\* not reach.
LEMMA LineOfContainer ==
    ASSUME NEW ch, NEW v, NEW place, NEW s \in ScanContainer(ch, v, place).found,
           s.kind \in {"over_projected", "unclaimed"}
    PROVE  LET held == At(ch.renders[v], place)
               u == ch.images[held.image]
           IN  /\ s.values = v /\ s.workload = place.workload /\ s.name = place.name
               /\ s.at \in SecretMounts(held.spec)
               /\ Owner(u, s.at.name) = {}
               /\ ~(/\ s.at.dir \in SecretsDir(EnvironmentOf(held.spec), u)
                    /\ place \in GateThreeReach(ch, v))
<1> DEFINE held == At(ch.renders[v], place)
           u == ch.images[held.image]
           e == EnvironmentOf(held.spec)
           files == SecretMounts(held.spec)
           owned == {f \in files : Owner(u, f.name) # {}}
           elevated(f) == {Reported("elevated", "warning", v, place, [f EXCEPT !.name = k]) :
                              k \in Elevated(u, f)}
<1>1. s \in (UNION {elevated(f) : f \in owned})
            \cup UNION {ScanStranger(ch, v, place, u, e, f) : f \in files \ owned}
  BY DEF ScanContainer
<1>2. s \notin UNION {elevated(f) : f \in owned}
  BY DEF Reported
<1>3. PICK f \in files \ owned : s \in ScanStranger(ch, v, place, u, e, f)
  <2> DEFINE first == UNION {elevated(f) : f \in owned}
  <2>1. s \in UNION {ScanStranger(ch, v, place, u, e, f) : f \in files \ owned}
    <3>1. s \in first \/ s \in UNION {ScanStranger(ch, v, place, u, e, f) : f \in files \ owned}
      BY <1>1, Zenon
    <3> QED BY <1>2, <3>1, Zenon
  <2> HIDE DEF elevated, files, owned, u, e
  <2> QED BY <2>1, Zenon
<1>4. /\ ~(f.dir \in SecretsDir(e, u) /\ place \in GateThreeReach(ch, v))
      /\ s.values = v /\ s.workload = place.workload /\ s.name = place.name /\ s.at = f
  BY <1>3 DEF ScanStranger, Reported
<1> QED BY <1>3, <1>4

\* What is collected is of a credential, and of no file.
LEMMA CollectedIs ==
    ASSUME NEW ch, NEW ledger, NEW s \in Collect(ch, ledger)
    PROVE  s.kind \in {"unsupplied", "undeliverable"}
<1>1. PICK c : s = Reported(IF NamesCredential(ch, c) THEN "unsupplied" ELSE "undeliverable",
                            IF NamesCredential(ch, c) THEN "warning" ELSE "error",
                            "", Nowhere, c)
  BY Zenon DEF Collect
<1>2. s.kind = IF NamesCredential(ch, c) THEN "unsupplied" ELSE "undeliverable"
  BY <1>1 DEF Reported
<1> QED BY <1>2

\* `secrets` has a line for exactly the strangers gate 3 does not reach.
LEMMA LineIs ==
    ASSUME NEW ch, Current(ch) # {}, NEW v \in DOMAIN ch.renders, NEW place \in Scanned(ch, v),
           NEW f \in SecretMounts(At(ch.renders[v], place).spec)
    PROVE  LET held == At(ch.renders[v], place)
               u == ch.images[held.image]
           IN  Line(ch, v, place, f) <=>
                   /\ Owner(u, f.name) = {}
                   /\ ~(/\ f.dir \in SecretsDir(EnvironmentOf(held.spec), u)
                        /\ place \in GateThreeReach(ch, v))
<1> DEFINE held == At(ch.renders[v], place)
           u == ch.images[held.image]
           e == EnvironmentOf(held.spec)
           files == SecretMounts(held.spec)
           owned == {x \in files : Owner(u, x.name) # {}}
           scans == {ScanRender(ch, w) : w \in DOMAIN ch.renders}
           stale == Note("stale", DOMAIN ch.documents \ Current(ch))
           rest == Collect(ch, UNION {s.supplied : s \in scans})
<1>1. ReconcileChart(ch) = stale \cup (UNION {s.found : s \in scans}) \cup rest
  BY DEF ReconcileChart
<1>2. \A s \in stale \cup rest : s.kind \notin {"over_projected", "unclaimed"}
  <2>1. \A k, l, w, p, a : Reported(k, l, w, p, a).kind = k
    BY DEF Reported
  <2>2. \A s \in stale : s.kind = "stale"
    <3>1. \A p : Reported("stale", "warning", "", Nowhere, p).kind = "stale"
      BY <2>1
    <3> QED BY <3>1, Zenon DEF Note
  <2>3. \A ledger : \A s \in Collect(ch, ledger) : s.kind \in {"unsupplied", "undeliverable"}
    BY <2>1, CollectedIs
  <2>4. \A s \in rest : s.kind \in {"unsupplied", "undeliverable"}
    BY <2>3
  <2> QED BY <2>2, <2>4
<1>3. \A w : ScanRender(ch, w).found = UNION {ScanContainer(ch, w, p).found : p \in Scanned(ch, w)}
  BY DEF ScanRender
<1>4. ASSUME Line(ch, v, place, f)
      PROVE  /\ Owner(u, f.name) = {}
             /\ ~(f.dir \in SecretsDir(e, u) /\ place \in GateThreeReach(ch, v))
  <2>1. PICK s \in ReconcileChart(ch) :
            /\ s.kind \in {"over_projected", "unclaimed"}
            /\ s.values = v /\ s.workload = place.workload
            /\ s.name = place.name /\ s.at = f
    BY <1>4 DEF Line
  <2>2. PICK w \in DOMAIN ch.renders : s \in ScanRender(ch, w).found
    <3>1. s \in UNION {x.found : x \in scans}
      <4> HIDE DEF stale, rest, scans
      <4>1. s \in stale \cup (UNION {x.found : x \in scans}) \cup rest
        BY <1>1, <2>1, Zenon
      <4>2. s \notin stale \cup rest
        BY <1>2, <2>1, Zenon
      <4> QED BY <4>1, <4>2, Zenon
    <3>2. PICK x \in scans : s \in x.found
      BY <3>1
    <3> QED BY <3>2
  <2>3. PICK p \in Scanned(ch, w) : s \in ScanContainer(ch, w, p).found
    BY <1>3, <2>2
  <2>4. w = v /\ p.workload = place.workload /\ p.name = place.name
    BY <2>1, <2>3, LineOfContainer
  <2>5. p = place
    BY <2>4, PlacesDiffer, SMTT(20) DEF Scanned
  <2> QED BY <2>1, <2>3, <2>4, <2>5, LineOfContainer
<1>5. ASSUME Owner(u, f.name) = {},
             ~(f.dir \in SecretsDir(e, u) /\ place \in GateThreeReach(ch, v))
      PROVE  Line(ch, v, place, f)
  <2> DEFINE kind == IF NamedAnywhere(ch, f.name) THEN "over_projected" ELSE "unclaimed"
             s == Reported(kind, "error", v, place, f)
  <2>1. ScanStranger(ch, v, place, u, e, f) = {s}
    BY <1>5 DEF ScanStranger
  <2>2. f \in files \ owned
    BY <1>5
  <2>3. UNION {ScanStranger(ch, v, place, u, e, x) : x \in files \ owned}
            \subseteq ScanContainer(ch, v, place).found
    <3> DEFINE elevated(x) == {Reported("elevated", "warning", v, place, [x EXCEPT !.name = k]) :
                                  k \in Elevated(u, x)}
               strangers == UNION {ScanStranger(ch, v, place, u, e, x) : x \in files \ owned}
    <3>1. ScanContainer(ch, v, place).found = (UNION {elevated(x) : x \in owned}) \cup strangers
      BY DEF ScanContainer
    <3>2. strangers \subseteq ScanContainer(ch, v, place).found
      <4> HIDE DEF elevated, strangers
      <4> QED BY <3>1, Zenon
    <3> QED BY <3>2, Zenon
  <2>4. s \in ScanContainer(ch, v, place).found
    <3> HIDE DEF s, files, owned
    <3> QED BY <2>1, <2>2, <2>3
  <2>5. s \in ReconcileChart(ch)
    <3> HIDE DEF s, stale, rest
    <3>1. s \in ScanRender(ch, v).found
      BY <1>3, <2>4
    <3> QED BY <1>1, <3>1
  <2>6. /\ s.kind \in {"over_projected", "unclaimed"}
        /\ s.values = v /\ s.workload = place.workload
        /\ s.name = place.name /\ s.at = f
    BY DEF Reported
  <2> QED BY <2>5, <2>6 DEF Line
<1> QED BY <1>4, <1>5

\* Gate 3 has a finding for a file name of a container.
Gated(ch, v, place, name) ==
    \E r \in CheckChart(ch) :
        /\ r.what = "no_key_file" /\ r.values = v
        /\ r.workload = place.workload /\ r.name = place.name
        /\ r.at = name

\* Only gate 3 itself says that a file has no key, and of no file the image knows.
LEMMA NoKeyFileIsAStranger ==
    ASSUME NEW c, NEW u, NEW doc, NEW exempt,
           NEW x \in CheckContainer(c, u, doc, exempt), x.gate = "no_key_file"
    PROVE  Owner(u, x.at) = {}
<1> DEFINE e == EnvironmentOf(c)
<1>1. \A g, l, P : \A y \in Finding(g, l, P) : y.gate = g
  BY DEF Finding
<1>2. /\ \A y \in EnvironmentGate(e, u) : y.gate # "no_key_file"
      /\ \A y \in CollisionGate(c, e, u, exempt) : y.gate # "no_key_file"
      /\ \A y \in LoaderPaths(c, e, u) : y.gate # "no_key_file"
      /\ \A y \in Indirection(c, e, u) : y.gate # "no_key_file"
      /\ \A y \in RequiredGate(c, e, u, doc, exempt) : y.gate # "no_key_file"
  <2>1. \A y \in EnvironmentGate(e, u) : y.gate # "no_key_file"
    BY <1>1 DEF EnvironmentGate
  <2>2. \A y \in CollisionGate(c, e, u, exempt) : y.gate # "no_key_file"
    BY <1>1 DEF CollisionGate
  <2>3. \A y \in LoaderPaths(c, e, u) : y.gate # "no_key_file"
    BY <1>1 DEF LoaderPaths
  <2>4. \A y \in Indirection(c, e, u) : y.gate # "no_key_file"
    BY <1>1 DEF Indirection
  <2>5. \A y \in RequiredGate(c, e, u, doc, exempt) : y.gate # "no_key_file"
    BY <1>1 DEF RequiredGate
  <2> QED BY <2>1, <2>2, <2>3, <2>4, <2>5
<1>3. x \in Mounts(c, e, u)
  BY <1>2 DEF CheckContainer
<1>4. x.at \notin DOMAIN u.secretsFile /\ ContainerOf(u, "secrets_file", x.at) = {}
  <2> DEFINE named == {f \in SecretFiles(c, e, u) : f \in DOMAIN u.secretsFile}
             strange == {f \in SecretFiles(c, e, u) \ named : ContainerOf(u, "secrets_file", f) = {}}
  <2>1. x \in Finding("no_key_file", "error", strange)
    BY <1>1, <1>3 DEF Mounts
  <2>2. x.at \in strange
    <3> HIDE DEF strange
    <3> QED BY <2>1 DEF Finding
  <2> QED BY <2>2
<1> QED BY <1>4 DEF Owner

\* A finding of what CheckContainer says is gate 3's own.
LEMMA GatedIsOfAContainer ==
    ASSUME NEW ch, NEW v \in DOMAIN ch.renders, NEW place \in ContainersOf(ch.renders[v]),
           NEW name, Gated(ch, v, place, name)
    PROVE  /\ Owner(ch.images[At(ch.renders[v], place).image], name) = {}
           /\ place \in GateThreeReach(ch, v)
<1>1. PICK r \in CheckChart(ch) :
          /\ r.what = "no_key_file" /\ r.values = v
          /\ r.workload = place.workload /\ r.name = place.name
          /\ r.at = name
  BY DEF Gated
<1>2. \A w, d, what, level, workload, n, places :
          r \in Said(w, d, what, level, workload, n, places) => what = "no_key_file"
  <2> TAKE w, d, what, level, workload, n, places
  <2> HAVE r \in Said(w, d, what, level, workload, n, places)
  <2>1. r.what = what
    BY DEF Said
  <2> QED BY <1>1, <2>1
<1>3. PICK d \in DOMAIN ch.documents : r \in CheckDocumentOf(ch, d)
  BY <1>1, Zenon DEF CheckChart
<1>4. r \notin NeverProduced(ch, d)
  <2>1. \A places : r \notin Said("", d, "never", "error", "", "", places)
    BY <1>2
  <2> QED BY <2>1, Zenon DEF NeverProduced
<1>5. PICK w \in DOMAIN ch.renders : r \in CheckPair(ch, d, w)
  <2>1. CASE d \notin Current(ch)
    <3>1. r \in Said("", d, "stale", "error", "", "", {d})
      BY <1>3, <2>1, Zenon DEF CheckDocumentOf
    <3> QED BY <1>2, <3>1
  <2>2. CASE d \in Current(ch)
    BY <1>3, <1>4, <2>2, Zenon DEF CheckDocumentOf
  <2> QED BY <2>1, <2>2
<1>6. PICK consumer \in ConsumersIn(ch, d, ch.renders[w]) : r \in CheckConsumer(ch, d, w, consumer)
  <2> DEFINE alone == Said(w, d, "unread", "warning", "", "", {d})
             each == UNION {CheckConsumer(ch, d, w, c) : c \in ConsumersIn(ch, d, ch.renders[w])}
  <2>1. r \notin alone
    <3>1. \A places : r \notin Said(w, d, "unread", "warning", "", "", places)
      BY <1>2
    <3> QED BY <3>1, Zenon
  <2>2. r \in alone \cup each
    <3> HIDE DEF alone, each
    <3>1. CheckPair(ch, d, w) \subseteq alone \cup each
      BY Zenon DEF CheckPair, alone, each
    <3> QED BY <1>5, <3>1, Zenon
  <2>3. r \in each
    <3> HIDE DEF alone, each
    <3> QED BY <2>1, <2>2
  <2> QED BY <2>3, Zenon
<1>7. r \in CheckContainers(ch, d, w, consumer)
  <2>1. /\ r \notin Said(w, d, "unread", "warning", consumer.workload, "", {d})
        /\ r \notin Said(w, d, "absent", "error", consumer.workload, "", {d})
    BY <1>2
  <2> QED BY <1>6, <2>1, Zenon DEF CheckConsumer
<1> DEFINE render == ch.renders[w]
           exempt == Relaxed(ch, d, w)
           doc == [known |-> "document" \notin exempt, keys |-> render.documents[d]]
           held(p) == At(render, p)
           judged(p) == CheckContainer(held(p).spec, ch.images[held(p).image], doc, exempt)
           foreign(p) == Said(w, d, "foreign", "error", p.workload, p.name, {held(p).image})
<1>8. PICK p \in Consumed(consumer, render) :
          r \in OfContainer(w, d, p, judged(p)) \cup foreign(p)
  <2> DEFINE found(p) == IF held(p).image \in ch.documents[d].images
                         THEN OfContainer(w, d, p, judged(p)) ELSE foreign(p)
  <2>1. CheckContainers(ch, d, w, consumer) = UNION {found(p) : p \in Consumed(consumer, render)}
    BY Zenon DEF CheckContainers
  <2>2. PICK p \in Consumed(consumer, render) : r \in found(p)
    <3> HIDE DEF found
    <3> QED BY <1>7, <2>1, Zenon
  <2> QED BY <2>2, Zenon
<1>9. PICK x \in judged(p) : r \in Said(w, d, x.gate, x.level, p.workload, p.name, {x.at})
  <2>1. r \notin foreign(p)
    BY <1>2
  <2> HIDE DEF judged, foreign
  <2>2. r \in OfContainer(w, d, p, judged(p))
    BY <1>8, <2>1
  <2> QED BY <2>2, Zenon DEF OfContainer
<1>10. x.gate = "no_key_file" /\ w = v /\ p.workload = place.workload /\ p.name = place.name /\ x.at = name
  <2> HIDE DEF judged
  <2>1. /\ r.what = x.gate /\ r.values = w /\ r.workload = p.workload /\ r.name = p.name
        /\ r.at \in {x.at}
    BY <1>9 DEF Said
  <2> QED BY <1>1, <2>1
<1>11. p \in ContainersOf(ch.renders[v])
  BY <1>10, ConsumedAreContainers
<1>12. p = place
  BY <1>10, <1>11, PlacesDiffer
<1>13. Owner(ch.images[held(place).image], name) = {}
  BY <1>9, <1>10, <1>12, NoKeyFileIsAStranger
<1>14. place \in GateThreeReach(ch, v)
  <2> DEFINE consumed(g) == UNION {Consumed(c, ch.renders[v]) : c \in ConsumersIn(ch, g, ch.renders[v])}
  <2>1. place \in Consumed(consumer, ch.renders[v]) /\ consumer \in ConsumersIn(ch, d, ch.renders[v])
    BY <1>10, <1>12
  <2>2. place \in consumed(d)
    BY <2>1, Zenon
  <2>3. GateThreeReach(ch, v) = UNION {consumed(g) : g \in DOMAIN ch.documents}
    BY Zenon DEF GateThreeReach
  <2> HIDE DEF consumed
  <2> QED BY <2>2, <2>3, Zenon
<1> QED BY <1>10, <1>13, <1>14

\* The same of a container: why `helm check` did not open it.
Unopened(ch, v, place) ==
    \E d \in DOMAIN ch.documents :
        /\ \E c \in ConsumersIn(ch, d, ch.renders[v]) : place \in Consumed(c, ch.renders[v])
        /\ \/ "files" \in Relaxed(ch, d, v)
           \/ \E r \in CheckChart(ch) :
                  /\ r.document = d /\ r.level = "error"
                  /\ \/ r.what = "stale"
                     \/ /\ r.values = v /\ r.workload = place.workload
                        /\ <<r.what, r.name>> \in {<<"absent", "">>, <<"foreign", place.name>>}

\* Where gate 3 opens a container, a stranger in its secrets directory is a
\* finding.
LEMMA StrangersAreFound ==
    ASSUME NEW c, NEW u, NEW doc, NEW exempt, "files" \notin exempt,
           NEW f \in SecretMounts(c), f.dir \in SecretsDir(EnvironmentOf(c), u),
           Owner(u, f.name) = {}
    PROVE  [gate |-> "no_key_file", level |-> "error", at |-> f.name]
              \in CheckContainer(c, u, doc, exempt)
<1> DEFINE e == EnvironmentOf(c)
           named == {g \in SecretFiles(c, e, u) : g \in DOMAIN u.secretsFile}
           strange == {g \in SecretFiles(c, e, u) \ named : ContainerOf(u, "secrets_file", g) = {}}
<1>1. PICK m \in c.mounts : /\ f \in {[dir |-> m.path, name |-> g] : g \in SecretFileNames(c, m.volume)}
  BY Zenon DEF SecretMounts
<1>2. f.dir = m.path /\ f.name \in SecretFileNames(c, m.volume)
  BY <1>1
<1>3. f.name \in ProjectedFileNames(c, m.volume)
  <2>1. /\ m.volume \in DOMAIN c.volumes
        /\ f.name \in UNION {FilesOf(s, c.rendered) :
                   s \in {t \in c.volumes[m.volume].sources : t.kind = "Secret"}}
    BY <1>2 DEF SecretFileNames
  <2> QED BY <2>1, Zenon DEF ProjectedFileNames
<1>4. f.name \in SecretFiles(c, e, u)
  <2>1. IsSecretsDir(m, e, u)
    BY <1>2 DEF IsSecretsDir
  <2> QED BY <1>3, <2>1, Zenon DEF SecretFiles
<1>5. f.name \in strange
  BY <1>4 DEF Owner
<1>6. [gate |-> "no_key_file", level |-> "error", at |-> f.name]
          \in Finding("no_key_file", "error", strange)
  <2> HIDE DEF strange
  <2> QED BY <1>5 DEF Finding
<1>7. Finding("no_key_file", "error", strange) \subseteq Mounts(c, e, u)
  BY Zenon DEF Mounts
<1>8. Mounts(c, e, u) \subseteq CheckContainer(c, u, doc, exempt)
  BY Zenon DEF CheckContainer
<1> HIDE DEF strange
<1> QED BY <1>6, <1>7, <1>8


\* `secrets` and gate 3 share the strangers of a container: a file the image
\* knows is no finding of either, another is one of just one of them, unless
\* `helm check` could not open the container.
LEMMA EachStrangerOnce ==
    ASSUME NEW ch, Current(ch) # {}, NEW v \in DOMAIN ch.renders, NEW place \in Scanned(ch, v),
           NEW f \in SecretMounts(At(ch.renders[v], place).spec)
    PROVE  LET held == At(ch.renders[v], place)
               u == ch.images[held.image]
               gate == /\ Gated(ch, v, place, f.name)
                       /\ f.dir \in SecretsDir(EnvironmentOf(held.spec), u)
               line == Line(ch, v, place, f)
           IN  IF Owner(u, f.name) # {} THEN ~gate /\ ~line
               ELSE ~(gate /\ line) /\ (gate \/ line \/ Unopened(ch, v, place))
<1> DEFINE held == At(ch.renders[v], place)
           u == ch.images[held.image]
           e == EnvironmentOf(held.spec)
           gate == Gated(ch, v, place, f.name) /\ f.dir \in SecretsDir(e, u)
           line == Line(ch, v, place, f)
           reach == GateThreeReach(ch, v)
<1>1. line <=> Owner(u, f.name) = {} /\ ~(f.dir \in SecretsDir(e, u) /\ place \in reach)
  BY LineIs
<1>2. place \in ContainersOf(ch.renders[v])
  BY DEF Scanned
<1>3. gate => Owner(u, f.name) = {} /\ place \in reach
  BY <1>2, GatedIsOfAContainer
<1>4. ASSUME Owner(u, f.name) = {}, ~line PROVE gate \/ Unopened(ch, v, place)
  <2>1. f.dir \in SecretsDir(e, u) /\ place \in reach
    BY <1>1, <1>4
  <2>2. PICK d \in DOMAIN ch.documents :
            place \in UNION {Consumed(c, ch.renders[v]) : c \in ConsumersIn(ch, d, ch.renders[v])}
    BY <2>1, Zenon DEF GateThreeReach
  <2>3. PICK c \in ConsumersIn(ch, d, ch.renders[v]) : place \in Consumed(c, ch.renders[v])
    BY <2>2, Zenon
  <2> DEFINE excused(r) == /\ r.document = d /\ r.level = "error"
                           /\ \/ r.what = "stale"
                              \/ /\ r.values = v /\ r.workload = place.workload
                                 /\ <<r.what, r.name>> \in {<<"absent", "">>, <<"foreign", place.name>>}
             exempt == Relaxed(ch, d, v)
  <2>4. (\E r \in CheckChart(ch) : excused(r)) => Unopened(ch, v, place)
    BY <2>3, Zenon DEF Unopened
  <2>5. CheckDocumentOf(ch, d) \subseteq CheckChart(ch)
    BY Zenon DEF CheckChart
  <2>6. CASE d \notin Current(ch)
    <3> DEFINE r == [values |-> "", document |-> d, what |-> "stale", level |-> "error",
                     workload |-> "", name |-> "", at |-> d]
    <3>1. r \in CheckDocumentOf(ch, d)
      BY <2>6 DEF CheckDocumentOf, Said
    <3>2. excused(r)
      OBVIOUS
    <3> HIDE DEF r, excused
    <3> QED BY <2>4, <2>5, <3>1, <3>2
  <2>7. CASE "files" \in exempt
    BY <2>3, <2>7, Zenon DEF Unopened
  <2>8. CASE d \in Current(ch) /\ "files" \notin exempt
    <3>1. CheckConsumer(ch, d, v, c) \subseteq CheckChart(ch)
      <4>1. CheckConsumer(ch, d, v, c) \subseteq CheckPair(ch, d, v)
        <5> DEFINE each == UNION {CheckConsumer(ch, d, v, x) : x \in ConsumersIn(ch, d, ch.renders[v])}
        <5>1. CheckConsumer(ch, d, v, c) \subseteq each
          BY <2>3, Zenon
        <5>2. each \subseteq CheckPair(ch, d, v)
          BY Zenon DEF CheckPair
        <5> HIDE DEF each
        <5> QED BY <5>1, <5>2
      <4>2. CheckPair(ch, d, v) \subseteq CheckDocumentOf(ch, d)
        <5> DEFINE pairs == UNION {CheckPair(ch, d, w) : w \in DOMAIN ch.renders}
        <5>1. CheckPair(ch, d, v) \subseteq pairs
          BY Zenon
        <5>2. CheckDocumentOf(ch, d) = pairs \cup NeverProduced(ch, d)
          BY <2>8 DEF CheckDocumentOf
        <5> HIDE DEF pairs
        <5> QED BY <5>1, <5>2
      <4> QED BY <2>5, <4>1, <4>2
    <3>2. c.workload \in DOMAIN ch.renders[v].workloads /\ place.workload = c.workload
      BY <2>3, ConsumedAreContainers
    <3>3. CASE d \notin DOMAIN ch.renders[v].documents
      <4> DEFINE r == [values |-> v, document |-> d, what |-> "absent", level |-> "error",
                       workload |-> c.workload, name |-> "", at |-> d]
      <4>1. CheckConsumer(ch, d, v, c) = Said(v, d, "absent", "error", c.workload, "", {d})
        BY <3>2, <3>3 DEF CheckConsumer
      <4>2. r \in Said(v, d, "absent", "error", c.workload, "", {d})
        BY DEF Said
      <4>3. excused(r)
        BY <3>2
      <4> HIDE DEF r, excused
      <4> QED BY <2>4, <3>1, <4>1, <4>2, <4>3
    <3>4. CASE d \in DOMAIN ch.renders[v].documents
      <4> DEFINE doc == [known |-> "document" \notin exempt, keys |-> ch.renders[v].documents[d]]
                 judged(p) == CheckContainer(At(ch.renders[v], p).spec,
                                             ch.images[At(ch.renders[v], p).image], doc, exempt)
                 found(p) == IF At(ch.renders[v], p).image \in ch.documents[d].images
                             THEN OfContainer(v, d, p, judged(p))
                             ELSE Said(v, d, "foreign", "error", p.workload, p.name,
                                       {At(ch.renders[v], p).image})
      <4>1. CheckConsumer(ch, d, v, c) = CheckContainers(ch, d, v, c)
        BY <3>2, <3>4, Zenon DEF CheckConsumer
      <4>2. CheckContainers(ch, d, v, c) = UNION {found(p) : p \in Consumed(c, ch.renders[v])}
        BY Zenon DEF CheckContainers
      <4>3. found(place) \subseteq CheckChart(ch)
        <5> HIDE DEF found
        <5> QED BY <2>3, <3>1, <4>1, <4>2, Zenon
      <4>4. CASE held.image \notin ch.documents[d].images
        <5> DEFINE r == [values |-> v, document |-> d, what |-> "foreign", level |-> "error",
                         workload |-> place.workload, name |-> place.name, at |-> held.image]
        <5>1. r \in found(place)
          BY <4>4 DEF Said
        <5>2. excused(r)
          OBVIOUS
        <5> HIDE DEF r, excused, found
        <5> QED BY <2>4, <4>3, <5>1, <5>2
      <4>5. CASE held.image \in ch.documents[d].images
        <5> DEFINE x == [gate |-> "no_key_file", level |-> "error", at |-> f.name]
                   r == [values |-> v, document |-> d, what |-> "no_key_file", level |-> "error",
                         workload |-> place.workload, name |-> place.name, at |-> f.name]
        <5>1. x \in judged(place)
          BY <1>4, <2>1, <2>8, StrangersAreFound
        <5>2. Said(v, d, x.gate, x.level, place.workload, place.name, {x.at})
                  \subseteq OfContainer(v, d, place, judged(place))
          <6> HIDE DEF judged, x
          <6> QED BY <5>1, Zenon DEF OfContainer
        <5>3. r \in Said(v, d, x.gate, x.level, place.workload, place.name, {x.at})
          BY DEF Said
        <5>4. r \in CheckChart(ch)
          <6>1. found(place) = OfContainer(v, d, place, judged(place))
            BY <4>5
          <6> HIDE DEF r, x, found, judged
          <6> QED BY <4>3, <5>2, <5>3, <6>1
        <5>5. Gated(ch, v, place, f.name)
          <6>1. /\ r.what = "no_key_file" /\ r.values = v
                /\ r.workload = place.workload /\ r.name = place.name
                /\ r.at = f.name
            OBVIOUS
          <6> HIDE DEF r
          <6> QED BY <5>4, <6>1 DEF Gated
        <5> QED BY <2>1, <5>5
      <4> QED BY <4>4, <4>5
    <3> QED BY <3>3, <3>4
  <2> QED BY <2>6, <2>7, <2>8
<1> HIDE DEF gate, line
<1>5. IF Owner(u, f.name) # {} THEN ~gate /\ ~line
      ELSE ~(gate /\ line) /\ (gate \/ line \/ Unopened(ch, v, place))
  <2>1. ~(gate /\ line)
    BY <1>1, <1>3 DEF gate
  <2> QED BY <1>1, <1>3, <1>4, <2>1
<1> QED BY <1>5 DEF gate, line

\* Whatever a chart's declaration binds, consumes and exempts, a Secret file a
\* container's own image does not know is one line of `secrets` or one finding
\* of gate 3, never both, and neither only where `helm check` said it could not
\* look, or was told not to.
THEOREM SecretFilesAreReportedOnce == SurveySpec => []FilesAreReportedOnce
<1>1. SurveyInv => FilesAreReportedOnce
  <2> SUFFICES ASSUME SurveyInv, Surveyed, Current(chart) # {},
                      NEW v \in DOMAIN chart.renders, NEW place \in Scanned(chart, v),
                      NEW f \in SecretMounts(At(chart.renders[v], place).spec)
               PROVE  LET held == At(chart.renders[v], place)
                          u == chart.images[held.image]
                          gate == \E r \in report :
                                    /\ r.what = "no_key_file" /\ r.values = v
                                    /\ r.workload = place.workload /\ r.name = place.name
                                    /\ r.at = f.name
                                    /\ f.dir \in SecretsDir(EnvironmentOf(held.spec), u)
                          line == \E s \in surface :
                                    /\ s.kind \in {"over_projected", "unclaimed"}
                                    /\ s.values = v /\ s.workload = place.workload
                                    /\ s.name = place.name /\ s.at = f
                      IN  IF Owner(u, f.name) # {} THEN ~gate /\ ~line
                          ELSE ~(gate /\ line) /\ (gate \/ line \/ NotOpened(v, place))
    BY DEF FilesAreReportedOnce
  <2>1. surface = ReconcileChart(chart) /\ report = CheckChart(chart)
    BY DEF SurveyInv, Surveyed
  <2>2. NotOpened(v, place) <=> Unopened(chart, v, place)
    BY <2>1, Zenon DEF NotOpened, Unopened
  <2> DEFINE held == At(chart.renders[v], place)
             u == chart.images[held.image]
             inside == f.dir \in SecretsDir(EnvironmentOf(held.spec), u)
             gate == \E r \in report :
                        /\ r.what = "no_key_file" /\ r.values = v
                        /\ r.workload = place.workload /\ r.name = place.name
                        /\ r.at = f.name
                        /\ inside
             line == \E s \in surface :
                        /\ s.kind \in {"over_projected", "unclaimed"}
                        /\ s.values = v /\ s.workload = place.workload
                        /\ s.name = place.name /\ s.at = f
  <2>3. gate <=> Gated(chart, v, place, f.name) /\ inside
    <3> HIDE DEF inside
    <3> QED BY <2>1, Zenon DEF Gated
  <2>4. line <=> Line(chart, v, place, f)
    BY <2>1, Zenon DEF Line
  <2>5. LET g == Gated(chart, v, place, f.name) /\ inside
            l == Line(chart, v, place, f)
        IN  IF Owner(u, f.name) # {} THEN ~g /\ ~l
            ELSE ~(g /\ l) /\ (g \/ l \/ Unopened(chart, v, place))
    BY EachStrangerOnce
  <2> HIDE DEF gate, line, inside
  <2>6. IF Owner(u, f.name) # {} THEN ~gate /\ ~line
        ELSE ~(gate /\ line) /\ (gate \/ line \/ NotOpened(v, place))
    BY <2>2, <2>3, <2>4, <2>5
  <2> QED BY <2>6 DEF gate, line, inside
<1> QED BY <1>1, SurveyInvariance, PTL

-----------------------------------------------------------------------------
(* ContainerGates: what the gates' errors and their silence are worth, for  *)
(* every contract a producer may publish, container, document and cluster.  *)

\* What a step leaves behind of its subject: the inductive invariant.
GatesInv ==
    /\ pc \in {"rendered", "checked", "booted"} =>
          contract \in Contracts /\ container \in Containers
    /\ pc \in {"checked", "booted"} =>
          findings = CheckContainer(container, contract, document, relaxed)
    /\ pc = "booted" => outcome = Refusals(container, contract, document, hidden)

\* The gates and the boot judge one container, and neither changes it.
LEMMA GatesInvariance == SurveySpec => []GatesInv
<1>1. SurveyInit => GatesInv
  BY DEF SurveyInit, Init, GatesInv
<1>2. GatesInv /\ [SurveyNext]_<<vars, surveyVars>> => GatesInv'
  <2> SUFFICES ASSUME GatesInv, [SurveyNext]_<<vars, surveyVars>> PROVE GatesInv'
    OBVIOUS
  <2>1. CASE Check
    BY <2>1 DEF GatesInv, Check
  <2>2. CASE \E h \in Runtime : Boot(h)
    BY <2>2 DEF GatesInv, Boot
  <2>3. CASE SecretsCommand \/ CheckCommand
    BY <2>3 DEF GatesInv, SecretsCommand, CheckCommand
  <2>4. CASE UNCHANGED vars
    BY <2>4 DEF GatesInv, vars
  <2> QED BY <2>1, <2>2, <2>3, <2>4 DEF SurveyNext, Next
<1> QED BY <1>1, <1>2, PTL DEF SurveySpec

\* A spelling of a key's own names a key of the image, and a file's no reserved one.
LEMMA OwnSpellingsName ==
    ASSUME NEW u, WellSpelt(u)
    PROVE  /\ \A n \in DOMAIN u.env : u.env[n] \in DOMAIN u.form
           /\ \A n \in DOMAIN u.envFile : u.envFile[n] \in DOMAIN u.form \ u.reserved
           /\ \A f \in DOMAIN u.secretsFile : u.secretsFile[f] \in DOMAIN u.form \ u.reserved
  BY DEF WellSpelt

\* A spelling that supplies a reserved name is no key's own.
LEMMA WithheldIsNoKeys ==
    ASSUME NEW u, WellSpelt(u), NEW f \in DOMAIN u.secretsFile
    PROVE  f \notin u.withheld["secrets_file"]
  BY DEF WellSpelt

\* A variable that names a file is no key's own and none of the loader's.
LEMMA FilesHaveTheirOwn ==
    ASSUME NEW u, WellSpelt(u), NEW n \in DOMAIN u.envFile \cup DOMAIN u.leafFiles
    PROVE  n \notin DOMAIN u.role /\ n \notin DOMAIN u.env
  BY DEF WellSpelt

\* One variable names the secrets directory.
LEMMA OneSecretsVariable ==
    ASSUME NEW u, WellSpelt(u), NEW n \in DOMAIN u.role, NEW v \in DOMAIN u.role,
           u.role[n] = "secrets_dir", u.role[v] = "secrets_dir"
    PROVE  n = v
<1>1. {u.role[n], u.role[v]} = {"secrets_dir"}
  OBVIOUS
<1>2. \A x, y \in DOMAIN u.role : {u.role[x], u.role[y]} = {"secrets_dir"} => x = y
  BY DEF WellSpelt
<1> QED BY <1>1, <1>2

\* A list of findings is empty when nothing is found.
LEMMA NoFinding ==
    ASSUME NEW gate, NEW level, NEW places, Finding(gate, level, places) = {}
    PROVE  places = {}
  BY DEF Finding

\* What the environment of a container comes to, once all of it is shown.
LEMMA ShownEnvironment ==
    ASSUME NEW c, NEW h, Unresolved(c) = {},
           NEW n \in DOMAIN EnvironmentOf(c), EnvironmentOf(c)[n].visible
    PROVE  /\ DOMAIN ProcessEnv(c, h) = DOMAIN EnvironmentOf(c)
           /\ ProcessEnv(c, h)[n] = EnvironmentOf(c)[n].value
  BY DEF ProcessEnv, Value

\* Whatever is hidden, what the render shows is so.
LEMMA VisibleIsSo ==
    ASSUME NEW c, NEW h, NEW n \in DOMAIN EnvironmentOf(c)
    PROVE  /\ n \in DOMAIN ProcessEnv(c, h)
           /\ EnvironmentOf(c)[n].visible => ProcessEnv(c, h)[n] = EnvironmentOf(c)[n].value
  BY DEF ProcessEnv, Value

\* The files gate 3 lists are there.
LEMMA ListedIsThere ==
    ASSUME NEW c, NEW h, NEW m \in c.mounts, NEW f \in ProjectedFileNames(c, m.volume)
    PROVE  f \in FilesIn(c, h, m.path)
<1>1. m.volume \in VolumeAt(c, m.path)
  BY DEF VolumeAt
<1>2. PICK s \in c.volumes[m.volume].sources : f \in FilesOf(s, c.rendered)
  BY DEF ProjectedFileNames
<1>3. f \in FilesOf(s, Objects(c, h))
  BY <1>2 DEF FilesOf, Objects
<1> DEFINE P(v) == (UNION {FilesOf(x, Objects(c, h)) : x \in c.volumes[v].sources})
                   \cup (IF c.volumes[v].listable THEN {} ELSE h.inside)
<1>4. f \in P(m.volume)
  BY <1>2, <1>3
<1>5. f \in UNION {P(v) : v \in VolumeAt(c, m.path)}
  BY <1>1, <1>4, Zenon
<1> QED BY <1>5 DEF FilesIn

\* Where a volume's files can all be listed, no other is there.
LEMMA NoneUnlisted ==
    ASSUME NEW c, NEW h, NEW path, NEW f \in FilesIn(c, h, path), Mountable(c),
           VolumeAt(c, path) # {},
           \A v \in VolumeAt(c, path) : UnlistedSources(c, v) = {}
    PROVE  \E m \in c.mounts : m.path = path /\ f \in ProjectedFileNames(c, m.volume)
<1> DEFINE P(v) == (UNION {FilesOf(x, Objects(c, h)) : x \in c.volumes[v].sources})
                   \cup (IF c.volumes[v].listable THEN {} ELSE h.inside)
<1>1. f \in UNION {P(v) : v \in VolumeAt(c, path)}
  BY DEF FilesIn
<1>2. PICK v \in VolumeAt(c, path) : f \in P(v)
  BY <1>1, Zenon
<1>3. PICK m \in c.mounts : m.path = path /\ m.volume = v
  BY <1>2 DEF VolumeAt
<1>4. v \in DOMAIN c.volumes
  BY <1>3 DEF Mountable
<1>5. c.volumes[v].listable /\ {s.object : s \in {t \in c.volumes[v].sources :
                     t.items = {} /\ t.object \notin DOMAIN c.rendered}} = {}
  BY <1>2, <1>4 DEF UnlistedSources
<1>6. PICK s \in c.volumes[v].sources : f \in FilesOf(s, Objects(c, h))
  BY <1>2, <1>5
<1>7. s.items # {} \/ s.object \in DOMAIN c.rendered
  BY <1>5, <1>6
<1>8. f \in FilesOf(s, c.rendered)
  BY <1>6, <1>7 DEF FilesOf, Objects
<1>9. f \in ProjectedFileNames(c, v)
  BY <1>4, <1>6, <1>8 DEF ProjectedFileNames
<1> QED BY <1>3, <1>9
\* What gates 2, 2b and 3 assure of a container they keep silent about.
Quiet(c, u, doc, e) ==
    /\ \A n \in Kind(e, u, "KeyEnv") : e[n].visible => ~ValueRefused(u, e[n].value)
    /\ \A n \in Kind(e, u, "Prefixed") : ContainerOf(u, "env", n) # {}
    /\ \A k \in DOMAIN u.form : \A a, b \in Suppliers(c, e, u, {}, k) : a = b
    /\ \A n \in Kind(e, u, "Loader") :
          u.role[n] = "secrets_dir" /\ e[n].visible /\ e[n].value # Empty
              => InsideAMount(c, e[n].value.path)
    /\ \A n \in Kind(e, u, "KeyEnvFile") : FileSupplyable(u, u.envFile[n])
    /\ \A f \in SecretFiles(c, e, u) :
          IF f \in DOMAIN u.secretsFile THEN FileSupplyable(u, u.secretsFile[f])
          ELSE ContainerOf(u, "secrets_file", f) # {}
    /\ \A n \in SecretsDirVariable(e, u) : \A p \in SecretsDir(e, u) :
          ~(VolumeAt(c, p) = {} /\ InsideAMount(c, p))

\* Gate 2b's assurance: what is required is supplied or stands in the document.
Provided(c, u, doc, e) ==
    \A k \in u.required :
        \/ Suppliers(c, e, u, {}, k) # {}
        \/ k \in doc.keys

\* No finding of the first two gates: nothing they look for is there.
LEMMA SilenceIsQuiet ==
    ASSUME NEW c, NEW u, NEW doc, CheckContainer(c, u, doc, {}) = {}
    PROVE  Quiet(c, u, doc, EnvironmentOf(c))
<1> DEFINE e == EnvironmentOf(c)
<1>1. EnvironmentGate(e, u) = {} /\ CollisionGate(c, e, u, {}) = {} /\ LoaderPaths(c, e, u) = {}
      /\ Indirection(c, e, u) = {} /\ Mounts(c, e, u) = {}
  BY DEF CheckContainer
<1> HIDE DEF e
<1> DEFINE refused == {n \in {v \in Kind(e, u, "KeyEnv") \cup Kind(e, u, "External") :
                                 e[v].visible} : ValueRefused(u, e[n].value)}
           keyless == {n \in Kind(e, u, "Prefixed") : ContainerOf(u, "env", n) = {}}
<1>a. Finding("value", "error", refused) = {} /\ Finding("no_key", "error", keyless) = {}
  BY <1>1 DEF EnvironmentGate
<1>2. refused = {}
  <2> HIDE DEF refused
  <2> QED BY <1>a, NoFinding
<1>3. keyless = {}
  <2> HIDE DEF keyless
  <2> QED BY <1>a, NoFinding
<1>4. {k \in DOMAIN u.form : \E a, b \in Suppliers(c, e, u, {}, k) : a # b} = {}
  BY <1>1, NoFinding DEF CollisionGate
<1>5. {n \in Kind(e, u, "Loader") : /\ u.role[n] \in {"config", "secrets_dir"}
                                    /\ e[n].visible /\ e[n].value # Empty
                                    /\ ~InsideAMount(c, e[n].value.path)} = {}
  BY <1>1, NoFinding DEF LoaderPaths
<1>6. {n \in Kind(e, u, "KeyEnvFile") : ~FileSupplyable(u, u.envFile[n])} = {}
  BY <1>1, NoFinding DEF Indirection
<1> DEFINE named == {f \in SecretFiles(c, e, u) : f \in DOMAIN u.secretsFile}
<1> DEFINE strange == {f \in SecretFiles(c, e, u) \ named : ContainerOf(u, "secrets_file", f) = {}}
           typed == {f \in named : ~FileSupplyable(u, u.secretsFile[f])}
           nowhere == {n \in SecretsDirVariable(e, u) :
               \E p \in SecretsDir(e, u) : VolumeAt(c, p) = {} /\ InsideAMount(c, p)}
<1>b. /\ Finding("no_key_file", "error", strange) = {} /\ Finding("file_typed", "error", typed) = {}
      /\ Finding("unlistable", "warning", nowhere) = {}
  BY <1>1 DEF Mounts
<1>7. strange = {}
  <2> HIDE DEF strange
  <2> QED BY <1>b, NoFinding
<1>8. typed = {}
  <2> HIDE DEF typed
  <2> QED BY <1>b, NoFinding
<1>9. nowhere = {}
  <2> HIDE DEF nowhere
  <2> QED BY <1>b, NoFinding
<1>10. \A f \in SecretFiles(c, e, u) :
          IF f \in DOMAIN u.secretsFile THEN FileSupplyable(u, u.secretsFile[f])
          ELSE ContainerOf(u, "secrets_file", f) # {}
  BY <1>7, <1>8
<1>11. \A n \in Kind(e, u, "KeyEnv") : e[n].visible => ~ValueRefused(u, e[n].value)
  BY <1>2
<1>12. \A k \in DOMAIN u.form : \A a, b \in Suppliers(c, e, u, {}, k) : a = b
  BY <1>4
<1> QED BY <1>3, <1>5, <1>6, <1>9, <1>10, <1>11, <1>12 DEF Quiet, e

\* Nor of the third, of a document that could be read.
LEMMA SilenceProvides ==
    ASSUME NEW c, NEW u, NEW doc, CheckContainer(c, u, doc, {}) = {}, doc.known
    PROVE  Provided(c, u, doc, EnvironmentOf(c))
<1> DEFINE e == EnvironmentOf(c)
<1>1. RequiredGate(c, e, u, doc, {}) = {}
  BY DEF CheckContainer
<1> HIDE DEF e
<1> DEFINE supplied(k) == \E layer \in Suppliers(c, e, u, {}, k) :
                              FilesCount(u, k) \/ layer = EnvironmentLayer
           inDocument(k) == /\ k \notin u.secret \cup u.reserved
                            /\ doc.known => k \in doc.keys
           missing == {k \in u.required : ~supplied(k) /\ ~inDocument(k)}
<1>2. /\ Finding("required", "error", {k \in missing : CouldSupply(c, e, u, k) = {}}) = {}
      /\ Finding("required", "warning", {k \in missing : CouldSupply(c, e, u, k) # {}}) = {}
  BY <1>1 DEF RequiredGate
<1> HIDE DEF missing
<1>3. missing = {}
  BY <1>2, NoFinding
<1>4. ASSUME NEW k \in u.required PROVE supplied(k) \/ inDocument(k)
  BY <1>3 DEF missing
<1> QED BY <1>4 DEF Provided, e
\* The antecedent of SilenceBoots, for one container.
Shown(c, u, doc, h) ==
    /\ WellSpelt(u) /\ Mountable(c) /\ u.reads
    /\ DOMAIN EnvironmentOf(c) \cap DOMAIN u.leafFiles = {}
    /\ FullyShown(c, u, h)
    /\ Quiet(c, u, doc, EnvironmentOf(c)) /\ Provided(c, u, doc, EnvironmentOf(c))

\* The process is given the variables of the render, and no other.
LEMMA ShownIsGiven ==
    ASSUME NEW c, NEW u, NEW doc, NEW h, Shown(c, u, doc, h)
    PROVE  /\ DOMAIN ProcessEnv(c, h) = DOMAIN EnvironmentOf(c)
           /\ \A n \in DOMAIN EnvironmentOf(c) :
                 /\ EnvironmentOf(c)[n].visible
                 /\ ProcessEnv(c, h)[n] = EnvironmentOf(c)[n].value
  BY DEF Shown, FullyShown, ProcessEnv, Value

\* The loader's own files are those gate 3 looked at.
LEMMA PresentedWereListed ==
    ASSUME NEW c, NEW u, NEW doc, NEW h, Shown(c, u, doc, h)
    PROVE  SecretsPresented(c, u, h, ProcessEnv(c, h)) \subseteq SecretFiles(c, EnvironmentOf(c), u)
<1> DEFINE e == EnvironmentOf(c)
           env == ProcessEnv(c, h)
<1> SUFFICES ASSUME NEW f \in SecretsPresented(c, u, h, env) PROVE f \in SecretFiles(c, e, u)
  OBVIOUS
<1> DEFINE F(n) == FilesIn(c, h, env[n].path)
<1>1. f \in UNION {F(n) : n \in Configured(u, env)}
  BY DEF SecretsPresented
<1>2. PICK n \in Configured(u, env) : f \in F(n)
  BY <1>1, Zenon
<1>3. /\ n \in DOMAIN e /\ n \in DOMAIN u.role /\ u.role[n] = "secrets_dir"
      /\ e[n].visible /\ e[n].value # Empty /\ env[n] = e[n].value
  BY <1>2, ShownIsGiven DEF Configured
<1> HIDE DEF e, env
<1>4. n \in Kind(e, u, "Loader") /\ n \in SecretsDirVariable(e, u)
  BY <1>3 DEF Kind, Names, Classify, SecretsDirVariable
<1> DEFINE p == e[n].value.path
<1>5. p \in SecretsDir(e, u)
  BY <1>3, <1>4 DEF SecretsDir
<1>6. VolumeAt(c, p) # {}
  <2>1. InsideAMount(c, p)
    BY <1>3, <1>4 DEF Shown, Quiet, e
  <2>2. ~(VolumeAt(c, p) = {} /\ InsideAMount(c, p))
    BY <1>4, <1>5 DEF Shown, Quiet, e
  <2> QED BY <2>1, <2>2
<1>7. \A v \in VolumeAt(c, p) : UnlistedSources(c, v) = {}
  BY DEF Shown, FullyShown, Mountable, VolumeAt
<1>8. f \in FilesIn(c, h, p) /\ Mountable(c)
  BY <1>2, <1>3 DEF Shown
<1>9. PICK m \in c.mounts : m.path = p /\ f \in ProjectedFileNames(c, m.volume)
  BY <1>6, <1>7, <1>8, NoneUnlisted
<1>10. m \in {x \in c.mounts : IsSecretsDir(x, e, u)}
  BY <1>5, <1>9 DEF IsSecretsDir
<1> DEFINE G(x) == ProjectedFileNames(c, x.volume)
<1>11. f \in UNION {G(x) : x \in {y \in c.mounts : IsSecretsDir(y, e, u)}}
  BY <1>9, <1>10, Zenon
<1> QED BY <1>11 DEF SecretFiles, e

\* And those gate 3 looked at are presented: the directory is the loader's.
LEMMA ListedArePresented ==
    ASSUME NEW c, NEW u, NEW h, Mountable(c), NEW f \in SecretFiles(c, EnvironmentOf(c), u)
    PROVE  f \in SecretsPresented(c, u, h, ProcessEnv(c, h))
<1> DEFINE e == EnvironmentOf(c)
           env == ProcessEnv(c, h)
           G(x) == ProjectedFileNames(c, x.volume)
           F(n) == FilesIn(c, h, env[n].path)
<1>1. f \in UNION {G(x) : x \in {y \in c.mounts : IsSecretsDir(y, e, u)}}
  BY DEF SecretFiles
<1>2. PICK m \in {y \in c.mounts : IsSecretsDir(y, e, u)} : f \in G(m)
  BY <1>1, Zenon
<1>3. PICK n \in SecretsDirVariable(e, u) : e[n].visible /\ e[n].value.path = m.path
  BY <1>2 DEF IsSecretsDir, SecretsDir
<1>4. n \in DOMAIN e /\ n \in DOMAIN u.role /\ u.role[n] = "secrets_dir"
  BY <1>3 DEF SecretsDirVariable, Kind, Names, Classify
<1>5. n \in DOMAIN env /\ env[n] = e[n].value
  BY <1>3, <1>4, VisibleIsSo
<1>6. m.path # <<>>
  BY <1>2 DEF Mountable
<1>7. env[n] # Empty
  <2>1. Empty.path = <<>>
    BY DEF Empty
  <2> HIDE DEF e, env
  <2>2. env[n].path = m.path
    BY <1>3, <1>5
  <2> QED BY <1>6, <2>1, <2>2
<1>8. n \in Configured(u, env)
  BY <1>4, <1>5, <1>7 DEF Configured
<1>9. f \in F(n)
  BY <1>2, <1>3, <1>5, ListedIsThere
<1>10. f \in UNION {F(x) : x \in Configured(u, env)}
  BY <1>8, <1>9, Zenon
<1> QED BY <1>10 DEF SecretsPresented

\* What a variable of the environment layer supplies, once gate 2 is silent.
LEMMA PlainIsSupply ==
    ASSUME NEW c, NEW u, NEW doc, NEW h, Shown(c, u, doc, h),
           NEW n \in PlainVariables(u, ProcessEnv(c, h))
    PROVE  /\ EnvTarget(u, n).key \in DOMAIN u.form
           /\ EnvironmentLayer \in Suppliers(c, EnvironmentOf(c), u, {}, EnvTarget(u, n).key)
           /\ EnvTarget(u, n).leaf # "alias" /\ ~Misshapen(u, EnvTarget(u, n))
<1> DEFINE e == EnvironmentOf(c)
<1>1. n \in DOMAIN e /\ n \notin DOMAIN u.role /\ n \notin DOMAIN u.envFile
      /\ n \in DOMAIN u.env \cup u.prefixed
  BY ShownIsGiven DEF PlainVariables, FileVariables
<1>2. CASE n \in DOMAIN u.env
  <2>1. n \in Kind(e, u, "KeyEnv")
    BY <1>1, <1>2 DEF Kind, Names, Classify
  <2>2. EnvTarget(u, n).key = u.env[n] /\ EnvTarget(u, n).leaf = ""
    BY <1>2 DEF EnvTarget, Target
  <2>3. u.env[n] \in DOMAIN u.form
    BY <1>2, OwnSpellingsName DEF Shown
  <2>4. EnvironmentLayer \in Suppliers(c, e, u, {}, u.env[n])
    BY <2>1 DEF Suppliers
  <2> QED BY <2>2, <2>3, <2>4 DEF Misshapen
<1>3. CASE n \notin DOMAIN u.env
  <2>1. n \in Kind(e, u, "Prefixed")
    BY <1>1, <1>3 DEF Kind, Names, Classify
  <2>2. ContainerOf(u, "env", n) # {}
    BY <2>1 DEF Shown, Quiet
  <2>3. n \in DOMAIN u.extends["env"] /\ u.extends["env"][n].key \in ContainerOf(u, "env", n)
        /\ u.form[u.extends["env"][n].key] = "structured"
    BY <2>2 DEF ContainerOf
  <2>7. n \notin DOMAIN Aliases
    BY <2>3 DEF Shown, WellSpelt, Spellings
  <2>4. EnvTarget(u, n) = u.extends["env"][n]
    BY <1>3, <2>3, <2>7 DEF EnvTarget, Target
  <2>5. u.extends["env"][n].key \in DOMAIN u.form /\ u.extends["env"][n].leaf # "alias"
    BY <2>3 DEF Shown, WellSpelt, Spellings
  <2>6. EnvironmentLayer \in Suppliers(c, e, u, {}, u.extends["env"][n].key)
    BY <2>1, <2>3 DEF Suppliers
  <2> QED BY <2>3, <2>4, <2>5, <2>6 DEF Misshapen
<1> QED BY <1>2, <1>3

\* What a file of the secrets directory supplies, once gate 3 is silent.
LEMMA SecretIsSupply ==
    ASSUME NEW c, NEW u, NEW doc, NEW h, Shown(c, u, doc, h),
           NEW f \in SecretFiles(c, EnvironmentOf(c), u)
    PROVE  /\ SecretTarget(u, f).key \in DOMAIN u.form
           /\ SecretsLayer \in Suppliers(c, EnvironmentOf(c), u, {}, SecretTarget(u, f).key)
           /\ SecretTarget(u, f).leaf # "alias" /\ ~Misshapen(u, SecretTarget(u, f))
           /\ SecretTarget(u, f).leaf = "" => FileSupplyable(u, SecretTarget(u, f).key)
           /\ f \notin u.withheld["secrets_file"]
<1> DEFINE e == EnvironmentOf(c)
<1>1. IF f \in DOMAIN u.secretsFile THEN FileSupplyable(u, u.secretsFile[f])
      ELSE ContainerOf(u, "secrets_file", f) # {}
  BY DEF Shown, Quiet
<1> HIDE DEF e
<1>2. CASE f \in DOMAIN u.secretsFile
  <2>1. SecretTarget(u, f).key = u.secretsFile[f] /\ SecretTarget(u, f).leaf = ""
    BY <1>2 DEF SecretTarget, Target
  <2>2. u.secretsFile[f] \in DOMAIN u.form /\ f \notin u.withheld["secrets_file"]
    BY <1>2, OwnSpellingsName, WithheldIsNoKeys DEF Shown
  <2>3. SecretsLayer \in Suppliers(c, e, u, {}, u.secretsFile[f])
    BY <1>2 DEF Suppliers, e
  <2> QED BY <1>1, <1>2, <2>1, <2>2, <2>3 DEF e, Misshapen
<1>3. CASE f \notin DOMAIN u.secretsFile
  <2>1. f \in DOMAIN u.extends["secrets_file"]
        /\ u.extends["secrets_file"][f].key \in ContainerOf(u, "secrets_file", f)
        /\ u.form[u.extends["secrets_file"][f].key] = "structured"
    BY <1>1, <1>3 DEF ContainerOf
  <2>2. /\ u.extends["secrets_file"][f].key \in DOMAIN u.form
        /\ u.extends["secrets_file"][f].leaf \notin {"", "alias"}
        /\ f \notin DOMAIN Aliases /\ f \notin u.withheld["secrets_file"]
    BY <2>1 DEF Shown, WellSpelt, Spellings
  <2>3. SecretTarget(u, f) = u.extends["secrets_file"][f]
    BY <1>3, <2>1, <2>2 DEF SecretTarget, Target
  <2>4. SecretsLayer \in Suppliers(c, e, u, {}, u.extends["secrets_file"][f].key)
    BY <1>3, <2>1 DEF Suppliers, e
  <2> QED BY <2>1, <2>2, <2>3, <2>4 DEF e, Misshapen
<1> QED BY <1>2, <1>3

\* What a `_FILE` variable supplies, once gate 2 is silent.
LEMMA IndirectionIsSupply ==
    ASSUME NEW c, NEW u, NEW doc, NEW h, Shown(c, u, doc, h),
           NEW n \in FileVariables(u, ProcessEnv(c, h))
    PROVE  /\ n \in Kind(EnvironmentOf(c), u, "KeyEnvFile")
           /\ FileTarget(u, n).key \in DOMAIN u.form
           /\ Layer("file", n) \in Suppliers(c, EnvironmentOf(c), u, {}, FileTarget(u, n).key)
           /\ FileTarget(u, n).leaf = ""
           /\ FileSupplyable(u, FileTarget(u, n).key)
<1> DEFINE e == EnvironmentOf(c)
<1>1. n \in DOMAIN e /\ n \in DOMAIN u.envFile
  BY ShownIsGiven DEF FileVariables, Shown
<1>2. n \in Kind(e, u, "KeyEnvFile")
  BY <1>1, FilesHaveTheirOwn DEF Kind, Names, Classify, Shown
<1>3. FileTarget(u, n).key = u.envFile[n] /\ FileTarget(u, n).leaf = ""
  BY <1>1 DEF FileTarget
<1>4. u.envFile[n] \in DOMAIN u.form
  BY <1>1, OwnSpellingsName DEF Shown
<1>5. Layer("file", n) \in Suppliers(c, e, u, {}, u.envFile[n])
  BY <1>2 DEF Suppliers
<1>6. FileSupplyable(u, u.envFile[n])
  BY <1>2 DEF Shown, Quiet
<1> QED BY <1>2, <1>3, <1>4, <1>5, <1>6

\* The four reasons that take two suppliers, or a spelling the loader minds.
LEMMA NothingClashes ==
    ASSUME NEW c, NEW u, NEW doc, NEW h, Shown(c, u, doc, h)
    PROVE  LET env == ProcessEnv(c, h) IN
           /\ EnvTargets(u, env) \cap SecretTargets(c, u, h, env) = {}
           /\ EnvTargets(u, env) \cap FileTargets(u, env) = {}
           /\ SecretTargets(c, u, h, env) \cap FileTargets(u, env) = {}
           /\ \A t \in EnvTargets(u, env) \cup SecretTargets(c, u, h, env) \cup FileTargets(u, env) :
                 t.leaf # "alias" /\ ~Misshapen(u, t)
           /\ \A t \in SecretTargets(c, u, h, env) \cup FileTargets(u, env) :
                 t.leaf = "" => FileSupplyable(u, t.key)
<1> DEFINE env == ProcessEnv(c, h)
           e == EnvironmentOf(c)
<1>1. /\ EnvironmentLayer # SecretsLayer
      /\ \A n : EnvironmentLayer # Layer("file", n) /\ SecretsLayer # Layer("file", n)
  BY DEF EnvironmentLayer, SecretsLayer, Layer
<1>2. \A k \in DOMAIN u.form : \A a, b \in Suppliers(c, e, u, {}, k) : a = b
  BY DEF Shown, Quiet
<1>3. ASSUME NEW t \in EnvTargets(u, env)
      PROVE  t.key \in DOMAIN u.form /\ t.leaf # "alias" /\ ~Misshapen(u, t)
             /\ EnvironmentLayer \in Suppliers(c, e, u, {}, t.key)
  <2>1. PICK n \in PlainVariables(u, env) : t = EnvTarget(u, n)
    BY DEF EnvTargets
  <2> QED BY <2>1, PlainIsSupply
<1>4. ASSUME NEW t \in SecretTargets(c, u, h, env)
      PROVE  t.key \in DOMAIN u.form /\ t.leaf # "alias" /\ ~Misshapen(u, t)
             /\ SecretsLayer \in Suppliers(c, e, u, {}, t.key)
             /\ (t.leaf = "" => FileSupplyable(u, t.key))
  <2>1. PICK f \in SecretsPresented(c, u, h, env) : t = SecretTarget(u, f)
    BY DEF SecretTargets
  <2>2. f \in SecretFiles(c, e, u)
    BY PresentedWereListed
  <2> QED BY <2>1, <2>2, SecretIsSupply
<1>5. ASSUME NEW t \in FileTargets(u, env)
      PROVE  t.key \in DOMAIN u.form /\ t.leaf # "alias" /\ ~Misshapen(u, t)
             /\ (\E n : Layer("file", n) \in Suppliers(c, e, u, {}, t.key))
             /\ FileSupplyable(u, t.key)
  <2>1. PICK n \in FileVariables(u, env) : t = FileTarget(u, n)
    BY DEF FileTargets
  <2> QED BY <2>1, IndirectionIsSupply DEF Misshapen
<1> HIDE DEF e, env
<1> QED BY <1>1, <1>2, <1>3, <1>4, <1>5 DEF env

\* What a variable or a file is read for: a key, or a leaf of a map.
Supplies(u, t, k) == t.key = k /\ ~Misshapen(u, t)

\* A spelling the loader reads for the key, and that the gates count as `a`.
ReadAs(c, u, h, k, a) ==
    LET env == ProcessEnv(c, h)
        e == EnvironmentOf(c)
    IN  \/ /\ a = EnvironmentLayer
           /\ \E n \in PlainVariables(u, env) : n \in DOMAIN e /\ Supplies(u, EnvTarget(u, n), k)
        \/ /\ a = SecretsLayer
           /\ \E f \in SecretsPresented(c, u, h, env) :
                 f \in SecretFiles(c, e, u) /\ Supplies(u, SecretTarget(u, f), k)
        \/ \E n \in FileVariables(u, env) :
              /\ n \in DOMAIN e /\ n \in DOMAIN u.envFile
              /\ a = Layer("file", n) /\ Supplies(u, FileTarget(u, n), k)

\* A key's own spelling supplies it.
LEMMA OwnSupplies ==
    ASSUME NEW u, NEW n, NEW map, NEW spelling, n \in DOMAIN map
    PROVE  Supplies(u, Target(u, map, spelling, n), map[n])
  BY DEF Supplies, Target, Misshapen

\* One that extends the spelling of a map supplies the map.
LEMMA LeafSupplies ==
    ASSUME NEW u, NEW n, NEW map, NEW spelling, NEW k \in ContainerOf(u, spelling, n),
           n \notin DOMAIN map, n \notin DOMAIN Aliases
    PROVE  Supplies(u, Target(u, map, spelling, n), k)
<1>1. n \in DOMAIN u.extends[spelling] /\ u.extends[spelling][n].key = k
      /\ u.form[k] = "structured"
  BY DEF ContainerOf
<1>2. Target(u, map, spelling, n) = u.extends[spelling][n]
  BY <1>1 DEF Target
<1> QED BY <1>1, <1>2 DEF Supplies, Misshapen

\* A variable of a key's own is read for the key.
LEMMA KeyVariableIsRead ==
    ASSUME NEW c, NEW u, NEW h, WellSpelt(u), NEW n \in Kind(EnvironmentOf(c), u, "KeyEnv")
    PROVE  /\ n \in PlainVariables(u, ProcessEnv(c, h))
           /\ n \in DOMAIN u.env /\ Supplies(u, EnvTarget(u, n), u.env[n])
<1>1. n \in DOMAIN EnvironmentOf(c) /\ n \notin DOMAIN u.role /\ n \in DOMAIN u.env
  BY DEF Kind, Names, Classify
<1>2. n \in DOMAIN ProcessEnv(c, h)
  BY <1>1, VisibleIsSo
<1>3. n \notin DOMAIN u.envFile \cup DOMAIN u.leafFiles
  BY <1>1, FilesHaveTheirOwn
<1>4. Supplies(u, EnvTarget(u, n), u.env[n])
  BY <1>1, OwnSupplies DEF EnvTarget
<1> QED BY <1>1, <1>2, <1>3, <1>4 DEF PlainVariables, FileVariables

\* So is the file a key's `_FILE` variable names.
LEMMA FileVariableIsRead ==
    ASSUME NEW c, NEW u, NEW h, NEW n \in Kind(EnvironmentOf(c), u, "KeyEnvFile")
    PROVE  /\ n \in FileVariables(u, ProcessEnv(c, h))
           /\ n \in DOMAIN u.envFile /\ Supplies(u, FileTarget(u, n), u.envFile[n])
<1>1. n \in DOMAIN EnvironmentOf(c) /\ n \in DOMAIN u.envFile
  BY DEF Kind, Names, Classify
<1>2. n \in DOMAIN ProcessEnv(c, h)
  BY <1>1, VisibleIsSo
<1>3. FileTarget(u, n).key = u.envFile[n] /\ FileTarget(u, n).leaf = ""
  BY <1>1 DEF FileTarget
<1> QED BY <1>1, <1>2, <1>3 DEF FileVariables, Supplies, Misshapen

\* And a file of the secrets directory, for the key that owns its name.
LEMMA SecretFileIsRead ==
    ASSUME NEW c, NEW u, NEW h, WellSpelt(u), Mountable(c),
           NEW f \in SecretFiles(c, EnvironmentOf(c), u), NEW k \in Owner(u, f)
    PROVE  /\ f \in SecretsPresented(c, u, h, ProcessEnv(c, h))
           /\ Supplies(u, SecretTarget(u, f), k)
<1>1. f \in SecretsPresented(c, u, h, ProcessEnv(c, h))
  BY ListedArePresented
<1>2. CASE f \in DOMAIN u.secretsFile
  <2>1. k = u.secretsFile[f]
    BY <1>2 DEF Owner
  <2> QED BY <1>1, <1>2, <2>1, OwnSupplies DEF SecretTarget
<1>3. CASE f \notin DOMAIN u.secretsFile
  <2>1. k \in ContainerOf(u, "secrets_file", f)
    BY <1>3 DEF Owner
  <2>2. f \notin DOMAIN Aliases
    BY <2>1 DEF ContainerOf, WellSpelt, Spellings
  <2> QED BY <1>1, <1>3, <2>1, <2>2, LeafSupplies DEF SecretTarget
<1> QED BY <1>2, <1>3

\* A key some spelling is read for is supplied.
LEMMA SpellingSupplies ==
    ASSUME NEW c, NEW u, NEW doc, NEW h, NEW k,
           \/ \E n \in PlainVariables(u, ProcessEnv(c, h)) : Supplies(u, EnvTarget(u, n), k)
           \/ \E f \in SecretsPresented(c, u, h, ProcessEnv(c, h)) :
                 Supplies(u, SecretTarget(u, f), k)
           \/ \E n \in FileVariables(u, ProcessEnv(c, h)) : Supplies(u, FileTarget(u, n), k)
    PROVE  k \in KeysSupplied(c, u, doc, h)
  BY DEF KeysSupplied, EnvTargets, SecretTargets, FileTargets, Supplies

\* Every supplier the gates count is a spelling the loader reads for the key.
LEMMA SupplierIsRead ==
    ASSUME NEW c, NEW u, NEW h, NEW exempt, NEW k, WellSpelt(u), Mountable(c),
           DOMAIN EnvironmentOf(c) \cap DOMAIN u.leafFiles = {},
           NEW a \in Suppliers(c, EnvironmentOf(c), u, exempt, k)
    PROVE  ReadAs(c, u, h, k, a)
<1> DEFINE e == EnvironmentOf(c)
           env == ProcessEnv(c, h)
<1>1. \A n \in DOMAIN e : n \in DOMAIN env /\ n \notin DOMAIN u.leafFiles
  BY VisibleIsSo
<1>2. \/ a = EnvironmentLayer /\ \E n \in Kind(e, u, "KeyEnv") : u.env[n] = k
      \/ a = EnvironmentLayer /\ \E n \in Kind(e, u, "Prefixed") : k \in ContainerOf(u, "env", n)
      \/ \E n \in Kind(e, u, "KeyEnvFile") : a = Layer("file", n) /\ u.envFile[n] = k
      \/ a = SecretsLayer /\ \E f \in SecretFiles(c, e, u) :
            IF f \in DOMAIN u.secretsFile THEN u.secretsFile[f] = k
            ELSE k \in ContainerOf(u, "secrets_file", f)
  BY DEF Suppliers
<1>3. ASSUME NEW n \in Kind(e, u, "KeyEnv"), u.env[n] = k
      PROVE  n \in PlainVariables(u, env) /\ n \in DOMAIN e /\ Supplies(u, EnvTarget(u, n), k)
  BY <1>3, KeyVariableIsRead DEF Kind, Names
<1>4. ASSUME NEW n \in Kind(e, u, "Prefixed"), k \in ContainerOf(u, "env", n)
      PROVE  n \in PlainVariables(u, env) /\ n \in DOMAIN e /\ Supplies(u, EnvTarget(u, n), k)
  <2>1. n \in DOMAIN e /\ n \notin DOMAIN u.role /\ n \notin DOMAIN u.env
        /\ n \notin DOMAIN u.envFile /\ n \in u.prefixed
    BY DEF Kind, Names, Classify
  <2>2. n \in DOMAIN u.extends["env"]
    BY <1>4 DEF ContainerOf
  <2>3. n \in PlainVariables(u, env)
    BY <1>1, <2>1 DEF PlainVariables, FileVariables
  <2>4. n \notin DOMAIN Aliases
    BY <2>2 DEF WellSpelt, Spellings
  <2>5. Supplies(u, EnvTarget(u, n), k)
    BY <1>4, <2>1, <2>4, LeafSupplies DEF EnvTarget
  <2> QED BY <2>1, <2>3, <2>5
<1>5. ASSUME NEW n \in Kind(e, u, "KeyEnvFile"), u.envFile[n] = k
      PROVE  /\ n \in FileVariables(u, env) /\ n \in DOMAIN e /\ n \in DOMAIN u.envFile
             /\ Supplies(u, FileTarget(u, n), k)
  BY <1>5, FileVariableIsRead DEF Kind, Names
<1>6. ASSUME NEW f \in SecretFiles(c, e, u),
             IF f \in DOMAIN u.secretsFile THEN u.secretsFile[f] = k
             ELSE k \in ContainerOf(u, "secrets_file", f)
      PROVE  f \in SecretsPresented(c, u, h, env) /\ Supplies(u, SecretTarget(u, f), k)
  <2>1. k \in Owner(u, f)
    BY <1>6 DEF Owner
  <2> QED BY <2>1, SecretFileIsRead
<1> HIDE DEF e, env
<1> QED BY <1>2, <1>3, <1>4, <1>5, <1>6 DEF ReadAs, e, env

\* So a key the gates find supplied is one the boot has.
LEMMA SuppliedIsRead ==
    ASSUME NEW c, NEW u, NEW doc, NEW h, Shown(c, u, doc, h),
           NEW k, Suppliers(c, EnvironmentOf(c), u, {}, k) # {}
    PROVE  k \in KeysSupplied(c, u, doc, h)
<1> DEFINE env == ProcessEnv(c, h)
<1>1. PICK a \in Suppliers(c, EnvironmentOf(c), u, {}, k) : TRUE
  OBVIOUS
<1>2. \/ \E n \in PlainVariables(u, env) : Supplies(u, EnvTarget(u, n), k)
      \/ \E f \in SecretsPresented(c, u, h, env) : Supplies(u, SecretTarget(u, f), k)
      \/ \E n \in FileVariables(u, env) : Supplies(u, FileTarget(u, n), k)
  <2>1. ReadAs(c, u, h, k, a)
    BY <1>1, SupplierIsRead DEF Shown
  <2> QED BY <2>1 DEF ReadAs
<1> QED BY <1>2, SpellingSupplies

\* A container all of whose reading was shown, and shown quiet, boots.
LEMMA ShownBoots ==
    ASSUME NEW c, NEW u, NEW doc, NEW h, Shown(c, u, doc, h)
    PROVE  Refusals(c, u, doc, h) = {}
<1> DEFINE env == ProcessEnv(c, h)
           e == EnvironmentOf(c)
           plain == EnvTargets(u, env)
           secrets == SecretTargets(c, u, h, env)
           files == FileTargets(u, env)
           supplied == plain \cup secrets \cup files
<1>1. DOMAIN env = DOMAIN e /\ \A n \in DOMAIN e : e[n].visible /\ env[n] = e[n].value
  BY ShownIsGiven
<1>2. ~\E n \in Configured(u, env) : ~DirectoryExists(c, env[n].path)
  <2> SUFFICES ASSUME NEW n \in Configured(u, env) PROVE InsideAMount(c, env[n].path)
    BY DEF DirectoryExists
  <2>1. /\ n \in DOMAIN e /\ n \in DOMAIN u.role /\ u.role[n] = "secrets_dir"
        /\ e[n].visible /\ e[n].value # Empty /\ env[n] = e[n].value
    BY <1>1 DEF Configured
  <2>2. n \in Kind(e, u, "Loader")
    BY <2>1 DEF Kind, Names, Classify
  <2> QED BY <2>1, <2>2 DEF Shown, Quiet
<1>3. ~\E n \in FileVariables(u, env) : ~FileExists(c, h, env[n].path)
  <2> SUFFICES ASSUME NEW n \in FileVariables(u, env) PROVE FileExists(c, h, env[n].path)
    OBVIOUS
  <2>1. n \in Kind(e, u, "KeyEnvFile")
    BY IndirectionIsSupply
  <2>2. n \in DOMAIN e
    BY <2>1 DEF Kind, Names
  <2>3. FileExists(c, h, e[n].value.path)
    BY <2>1 DEF Shown, FullyShown
  <2> QED BY <1>1, <2>2, <2>3
<1>4. DOMAIN env \cap u.withheld["env"] = {}
  <2> SUFFICES ASSUME NEW n \in DOMAIN e, n \in u.withheld["env"] PROVE FALSE
    BY <1>1
  <2>1. n \in u.prefixed /\ n \notin DOMAIN u.role /\ n \notin DOMAIN u.env /\ n \notin DOMAIN u.envFile
    BY DEF Shown, WellSpelt
  <2>2. n \in Kind(e, u, "Prefixed")
    BY <2>1 DEF Kind, Names, Classify
  <2>3. ContainerOf(u, "env", n) # {}
    BY <2>2 DEF Shown, Quiet
  <2>4. n \in DOMAIN u.extends["env"]
    BY <2>3 DEF ContainerOf
  <2> QED BY <2>4 DEF Shown, WellSpelt, Spellings
<1>5. SecretsPresented(c, u, h, env) \cap u.withheld["secrets_file"] = {}
  BY PresentedWereListed, SecretIsSupply
<1>6. /\ plain \cap secrets = {} /\ plain \cap files = {} /\ secrets \cap files = {}
      /\ \A t \in supplied : t.leaf # "alias" /\ ~Misshapen(u, t)
      /\ \A t \in secrets \cup files : t.leaf = "" => FileSupplyable(u, t.key)
  BY NothingClashes
<1>7. ~\E n \in PlainVariables(u, env) \cap DOMAIN u.env :
          env[n].text \in {"malformed", "out_of_range"}
  <2> SUFFICES ASSUME NEW n \in PlainVariables(u, env), n \in DOMAIN u.env
               PROVE  env[n].text \notin {"malformed", "out_of_range"}
    OBVIOUS
  <2>1. n \in DOMAIN e /\ n \notin DOMAIN u.role
    BY <1>1 DEF PlainVariables
  <2>2. n \in Kind(e, u, "KeyEnv")
    BY <2>1 DEF Kind, Names, Classify
  <2>3. ~ValueRefused(u, e[n].value) /\ u.reads
    BY <1>1, <2>1, <2>2 DEF Shown, Quiet
  <2> QED BY <1>1, <2>1, <2>3 DEF ValueRefused
<1>8. u.required \subseteq KeysSupplied(c, u, doc, h)
  <2> SUFFICES ASSUME NEW k \in u.required PROVE k \in KeysSupplied(c, u, doc, h)
    OBVIOUS
  <2>1. CASE Suppliers(c, e, u, {}, k) # {}
    BY <2>1, SuppliedIsRead
  <2>2. CASE k \in doc.keys
    BY <2>2 DEF KeysSupplied
  <2> QED BY <2>1, <2>2 DEF Shown, Provided
<1> HIDE DEF env, plain, secrets, files, supplied, e
<1>11. ~\E t \in supplied : Misshapen(u, t) /\ [key |-> t.key, leaf |-> ""] \notin supplied
  BY <1>6
<1>9. ~\E t \in secrets \cup files :
          /\ t.key \in DOMAIN u.form /\ t.leaf \in {"", "alias"} /\ ~FileSupplyable(u, t.key)
  BY <1>6 DEF supplied
<1>10. ~\E t \in supplied : t.leaf = "alias" /\ ([key |-> t.key, leaf |-> ""] \in supplied
                                               \/ (t.key \in doc.keys /\ t \notin plain))
  BY <1>6
<1> QED
  BY <1>2, <1>3, <1>4, <1>5, <1>6, <1>7, <1>8, <1>9, <1>10, <1>11
  DEF Refusals, env, plain, secrets, files, supplied

\* The state-level fact: silence, of a render that shows all, is a boot.
LEMMA SilenceHolds ==
    ASSUME GatesInv PROVE SilenceBoots
<1> SUFFICES ASSUME Booted, findings = {}, relaxed = {}, document.known,
                    DOMAIN EnvironmentOf(container) \cap DOMAIN contract.leafFiles = {},
                    contract.reads, FullyShown(container, contract, hidden)
             PROVE  outcome = {}
  BY DEF SilenceBoots
<1>1. /\ contract \in Contracts /\ container \in Containers
      /\ CheckContainer(container, contract, document, {}) = {}
      /\ outcome = Refusals(container, contract, document, hidden)
  BY DEF GatesInv, Booted
<1>2. WellSpelt(contract) /\ Mountable(container)
  BY <1>1, GatesAssumption
<1>3. /\ Quiet(container, contract, document, EnvironmentOf(container))
      /\ Provided(container, contract, document, EnvironmentOf(container))
  BY <1>1, SilenceIsQuiet, SilenceProvides
<1>4. Shown(container, contract, document, hidden)
  BY <1>2, <1>3 DEF Shown
<1> QED BY <1>1, <1>4, ShownBoots

\* Gates 2, 2b and 3 find what keeps a container from booting, where the render
\* shows it: for every contract, container, document and cluster.
THEOREM SilenceIsABoot == SurveySpec => []SilenceBoots
<1>1. GatesInv => SilenceBoots
  BY SilenceHolds
<1> QED BY <1>1, GatesInvariance, PTL

-----------------------------------------------------------------------------
\* What the proofs of ErrorsAreReal know of a container: its spellings.
Spelt(c, u) == WellSpelt(u) /\ Mountable(c) /\ Canonical(c, u)

\* A boot with a reason to fail, or something it passed over.
Matters(c, u, doc, h) == Refusals(c, u, doc, h) # {} \/ PassedOver(c, u, h) # {}

\* A place of a configuration the render fills.
FilledAt(c, u, t) ==
    LET e == EnvironmentOf(c)
    IN  \/ \E n \in DOMAIN e : n \notin DOMAIN u.envFile /\ t = EnvTarget(u, n)
        \/ \E n \in DOMAIN e : n \in DOMAIN u.envFile /\ t = FileTarget(u, n)
        \/ \E f \in SecretFiles(c, e, u) : t = SecretTarget(u, f)

\* A variable of the render is no alias, and none names a file for a leaf.
LEMMA NamesAreOwn ==
    ASSUME NEW c, NEW u, Spelt(c, u), NEW n \in DOMAIN EnvironmentOf(c)
    PROVE  n \notin DOMAIN Aliases /\ n \notin DOMAIN u.leafFiles
  BY DEF Spelt, Canonical

\* The files of the secrets directory are files the render shows.
LEMMA SecretsAreShown ==
    ASSUME NEW c, NEW u, NEW f \in SecretFiles(c, EnvironmentOf(c), u)
    PROVE  f \in UNION {ProjectedFileNames(c, m.volume) : m \in c.mounts}
<1> DEFINE e == EnvironmentOf(c)
           G(x) == ProjectedFileNames(c, x.volume)
<1>1. f \in UNION {G(x) : x \in {y \in c.mounts : IsSecretsDir(y, e, u)}}
  BY DEF SecretFiles
<1>2. f \in UNION {G(x) : x \in c.mounts}
  BY <1>1, Zenon
<1> QED BY <1>2

\* None of them is an alias.
LEMMA FilesAreOwn ==
    ASSUME NEW c, NEW u, Spelt(c, u), NEW f \in SecretFiles(c, EnvironmentOf(c), u)
    PROVE  f \notin DOMAIN Aliases
  BY SecretsAreShown DEF Spelt, Canonical

\* Two spellings of one key fill one place of it.
LEMMA OnePlace ==
    ASSUME NEW c, NEW u, Spelt(c, u), NEW t, NEW v, FilledAt(c, u, t), FilledAt(c, u, v),
           t.key = v.key, t.key # ""
    PROVE  t = v
<1> DEFINE e == EnvironmentOf(c)
           files == UNION {ProjectedFileNames(c, m.volume) : m \in c.mounts}
           spelt == {EnvTarget(u, n) : n \in DOMAIN e \ DOMAIN u.envFile}
                    \cup {FileTarget(u, n) : n \in DOMAIN e \cap DOMAIN u.envFile}
                    \cup {SecretTarget(u, f) : f \in files}
<1>1. \A x, y \in spelt : x.key = y.key /\ x.key # "" => x = y
  BY DEF Spelt, Canonical
<1>2. SecretFiles(c, e, u) \subseteq files
  BY SecretsAreShown
<1>3. ASSUME NEW x, FilledAt(c, u, x) PROVE x \in spelt
  <2> HIDE DEF e, files
  <2> QED BY <1>2, <1>3 DEF FilledAt, e
<1> HIDE DEF spelt
<1> QED BY <1>1, <1>3

\* A supplier fills a place, and the loader takes it there.
LEMMA SupplierFills ==
    ASSUME NEW c, NEW u, NEW h, NEW exempt, NEW k, Spelt(c, u),
           NEW a \in Suppliers(c, EnvironmentOf(c), u, exempt, k)
    PROVE  \E t : /\ FilledAt(c, u, t) /\ t.key = k
                  /\ \/ a = EnvironmentLayer /\ t \in EnvTargets(u, ProcessEnv(c, h))
                     \/ a = SecretsLayer /\ t \in SecretTargets(c, u, h, ProcessEnv(c, h))
                     \/ /\ t \in FileTargets(u, ProcessEnv(c, h))
                        /\ \E n \in DOMAIN u.envFile : a = Layer("file", n) /\ u.envFile[n] = k
<1> DEFINE e == EnvironmentOf(c)
           env == ProcessEnv(c, h)
<1>0. WellSpelt(u) /\ Mountable(c) /\ DOMAIN e \cap DOMAIN u.leafFiles = {}
  BY DEF Spelt, Canonical
<1>1. CASE a = EnvironmentLayer /\ \E n \in PlainVariables(u, env) :
               n \in DOMAIN e /\ Supplies(u, EnvTarget(u, n), k)
  <2>1. PICK n \in PlainVariables(u, env) : n \in DOMAIN e /\ Supplies(u, EnvTarget(u, n), k)
    BY <1>1
  <2>2. n \notin DOMAIN u.envFile
    BY <2>1 DEF PlainVariables, FileVariables
  <2>3. FilledAt(c, u, EnvTarget(u, n)) /\ EnvTarget(u, n) \in EnvTargets(u, env)
    BY <2>1, <2>2 DEF FilledAt, EnvTargets
  <2> QED BY <1>1, <2>1, <2>3 DEF Supplies
<1>2. CASE a = SecretsLayer /\ \E f \in SecretsPresented(c, u, h, env) :
               f \in SecretFiles(c, e, u) /\ Supplies(u, SecretTarget(u, f), k)
  <2>1. PICK f \in SecretsPresented(c, u, h, env) :
               f \in SecretFiles(c, e, u) /\ Supplies(u, SecretTarget(u, f), k)
    BY <1>2
  <2>2. FilledAt(c, u, SecretTarget(u, f)) /\ SecretTarget(u, f) \in SecretTargets(c, u, h, env)
    BY <2>1 DEF FilledAt, SecretTargets
  <2> QED BY <1>2, <2>1, <2>2 DEF Supplies
<1>3. CASE \E n \in FileVariables(u, env) :
              /\ n \in DOMAIN e /\ n \in DOMAIN u.envFile
              /\ a = Layer("file", n) /\ Supplies(u, FileTarget(u, n), k)
  <2>1. PICK n \in FileVariables(u, env) :
              /\ n \in DOMAIN e /\ n \in DOMAIN u.envFile
              /\ a = Layer("file", n) /\ Supplies(u, FileTarget(u, n), k)
    BY <1>3
  <2>2. FilledAt(c, u, FileTarget(u, n)) /\ FileTarget(u, n) \in FileTargets(u, env)
    BY <2>1 DEF FilledAt, FileTargets
  <2>3. u.envFile[n] = k
    BY <2>1 DEF FileTarget, Supplies
  <2> QED BY <2>1, <2>2, <2>3 DEF Supplies
<1>4. \/ a = EnvironmentLayer /\ \E n \in PlainVariables(u, env) :
               n \in DOMAIN e /\ Supplies(u, EnvTarget(u, n), k)
      \/ a = SecretsLayer /\ \E f \in SecretsPresented(c, u, h, env) :
               f \in SecretFiles(c, e, u) /\ Supplies(u, SecretTarget(u, f), k)
      \/ \E n \in FileVariables(u, env) :
              /\ n \in DOMAIN e /\ n \in DOMAIN u.envFile
              /\ a = Layer("file", n) /\ Supplies(u, FileTarget(u, n), k)
  <2>1. ReadAs(c, u, h, k, a)
    BY <1>0, SupplierIsRead
  <2> QED BY <2>1 DEF ReadAs
<1> QED BY <1>1, <1>2, <1>3, <1>4

\* What the boot refuses: a secret or an indirection the type cannot take ...
LEMMA TextRefused ==
    ASSUME NEW c, NEW u, NEW doc, NEW h,
           NEW t \in SecretTargets(c, u, h, ProcessEnv(c, h)) \cup FileTargets(u, ProcessEnv(c, h)),
           t.key \in DOMAIN u.form, t.leaf \in {"", "alias"}, ~FileSupplyable(u, t.key)
    PROVE  Matters(c, u, doc, h)
<1>1. "string" \in Refusals(c, u, doc, h)
  BY DEF Refusals
<1> QED BY <1>1 DEF Matters

\* ... two layers that fill one place ...
LEMMA ShadowRefused ==
    ASSUME NEW c, NEW u, NEW doc, NEW h, NEW t,
           LET env == ProcessEnv(c, h) IN
           \/ t \in EnvTargets(u, env) /\ t \in SecretTargets(c, u, h, env)
           \/ t \in EnvTargets(u, env) /\ t \in FileTargets(u, env)
           \/ t \in SecretTargets(c, u, h, env) /\ t \in FileTargets(u, env)
    PROVE  Matters(c, u, doc, h)
<1>1. "shadowed" \in Refusals(c, u, doc, h)
  BY DEF Refusals
<1> QED BY <1>1 DEF Matters

\* ... a file that is not there, a directory that is not, a value no type takes
\* and a key nothing supplies.
LEMMA OthersRefused ==
    ASSUME NEW c, NEW u, NEW doc, NEW h,
           LET env == ProcessEnv(c, h) IN
           \/ \E n \in FileVariables(u, env) : ~FileExists(c, h, env[n].path)
           \/ \E n \in Configured(u, env) : ~DirectoryExists(c, env[n].path)
           \/ \E n \in PlainVariables(u, env) :
                 n \in DOMAIN u.env /\ env[n].text \in {"malformed", "out_of_range"}
           \/ \E k \in u.required : k \notin KeysSupplied(c, u, doc, h)
    PROVE  Matters(c, u, doc, h)
<1> DEFINE env == ProcessEnv(c, h)
<1>1. CASE \E n \in FileVariables(u, env) : ~FileExists(c, h, env[n].path)
  <2>1. "file" \in Refusals(c, u, doc, h)
    BY <1>1 DEF Refusals
  <2> QED BY <2>1 DEF Matters
<1>2. CASE \E n \in Configured(u, env) : ~DirectoryExists(c, env[n].path)
  <2>1. "directory" \in Refusals(c, u, doc, h)
    BY <1>2 DEF Refusals
  <2> QED BY <2>1 DEF Matters
<1>3. CASE \E n \in PlainVariables(u, env) :
               n \in DOMAIN u.env /\ env[n].text \in {"malformed", "out_of_range"}
  <2>1. "value" \in Refusals(c, u, doc, h)
    BY <1>3 DEF Refusals
  <2> QED BY <2>1 DEF Matters
<1>4. CASE \E k \in u.required : k \notin KeysSupplied(c, u, doc, h)
  <2>1. "missing" \in Refusals(c, u, doc, h)
    BY <1>4 DEF Refusals
  <2> QED BY <2>1 DEF Matters
<1> QED BY <1>1, <1>2, <1>3, <1>4

\* What it passes over: a variable that names nothing ...
LEMMA IdleVariable ==
    ASSUME NEW c, NEW u, NEW doc, NEW h, NEW n \in PlainVariables(u, ProcessEnv(c, h)),
           n \notin DOMAIN u.env, Idle(u, EnvTarget(u, n))
    PROVE  Matters(c, u, doc, h)
<1>1. n \in PassedOver(c, u, h)
  BY DEF PassedOver
<1> QED BY <1>1 DEF Matters

\* ... a file that does not ...
LEMMA IdleFile ==
    ASSUME NEW c, NEW u, NEW doc, NEW h, NEW f \in SecretsPresented(c, u, h, ProcessEnv(c, h)),
           Idle(u, SecretTarget(u, f))
    PROVE  Matters(c, u, doc, h)
<1>1. f \in PassedOver(c, u, h)
  BY DEF PassedOver
<1> QED BY <1>1 DEF Matters

\* ... and a secret mounted where nothing reads it.
LEMMA UnreadFile ==
    ASSUME NEW c, NEW u, NEW doc, NEW h, NEW x \in c.mounts, NEW f \in FilesIn(c, h, x.path),
           f \in DOMAIN u.secretsFile,
           LET env == ProcessEnv(c, h) IN
           /\ x.path \notin {env[n].path : n \in Configured(u, env)}
           /\ Append(x.path, f) \notin {env[n].path : n \in FileVariables(u, env)}
    PROVE  Matters(c, u, doc, h)
<1>1. x.volume \in PassedOver(c, u, h)
  BY DEF PassedOver
<1> QED BY <1>1 DEF Matters

\* Two suppliers of a key: they fill one place of it, and the boot refuses.
LEMMA CollisionMatters ==
    ASSUME NEW c, NEW u, NEW doc, NEW h, NEW exempt, NEW k \in DOMAIN u.form, Spelt(c, u),
           NEW a \in Suppliers(c, EnvironmentOf(c), u, exempt, k),
           NEW b \in Suppliers(c, EnvironmentOf(c), u, exempt, k), a # b
    PROVE  Matters(c, u, doc, h)
<1> DEFINE env == ProcessEnv(c, h)
           InPlain(t) == t \in EnvTargets(u, env)
           InSecrets(t) == t \in SecretTargets(c, u, h, env)
           InFiles(t) == t \in FileTargets(u, env)
           Fills(t, x) == \/ x = EnvironmentLayer /\ InPlain(t)
                          \/ x = SecretsLayer /\ InSecrets(t)
                          \/ /\ InFiles(t)
                             /\ \E n \in DOMAIN u.envFile : x = Layer("file", n) /\ u.envFile[n] = k
<1>1. PICK t : FilledAt(c, u, t) /\ t.key = k /\ Fills(t, a)
  BY SupplierFills
<1>2. PICK v : FilledAt(c, u, v) /\ v.key = k /\ Fills(v, b)
  BY SupplierFills
<1>3. k # ""
  BY DEF Spelt, WellSpelt
<1>4. t = v
  BY <1>1, <1>2, <1>3, OnePlace
<1>5. \A n, m \in DOMAIN u.envFile : u.envFile[n] = u.envFile[m] => n = m
  BY DEF Spelt, WellSpelt
<1>6. \/ InPlain(t) /\ InSecrets(t)
      \/ InPlain(t) /\ InFiles(t)
      \/ InSecrets(t) /\ InFiles(t)
  <2> HIDE DEF InPlain, InSecrets, InFiles
  <2> QED BY <1>1, <1>2, <1>4, <1>5
<1> QED BY <1>6, ShadowRefused

\* Gate 2: a variable of a key with a value its type refuses.
LEMMA ValueMatters ==
    ASSUME NEW c, NEW u, NEW doc, NEW h, Spelt(c, u),
           NEW n \in Kind(EnvironmentOf(c), u, "KeyEnv"), EnvironmentOf(c)[n].visible,
           ValueRefused(u, EnvironmentOf(c)[n].value)
    PROVE  Matters(c, u, doc, h)
<1> DEFINE e == EnvironmentOf(c)
           env == ProcessEnv(c, h)
<1>1. n \in DOMAIN e /\ n \notin DOMAIN u.role /\ n \in DOMAIN u.env
  BY DEF Kind, Names, Classify
<1>2. n \notin DOMAIN u.envFile /\ n \notin DOMAIN u.leafFiles
  BY <1>1, NamesAreOwn DEF Spelt, WellSpelt
<1>3. n \in DOMAIN env /\ env[n] = e[n].value
  BY <1>1, VisibleIsSo
<1>4. n \in PlainVariables(u, env)
  BY <1>1, <1>2, <1>3 DEF PlainVariables, FileVariables
<1>5. env[n].text \in {"malformed", "out_of_range"}
  BY <1>3 DEF ValueRefused
<1> QED BY <1>1, <1>4, <1>5, OthersRefused

\* Gate 2: a variable under the prefix that names no key.
LEMMA NoKeyMatters ==
    ASSUME NEW c, NEW u, NEW doc, NEW h, Spelt(c, u),
           NEW n \in Kind(EnvironmentOf(c), u, "Prefixed"), ContainerOf(u, "env", n) = {}
    PROVE  Matters(c, u, doc, h)
<1> DEFINE e == EnvironmentOf(c)
           env == ProcessEnv(c, h)
<1>1. n \in DOMAIN e /\ n \notin DOMAIN u.role /\ n \notin DOMAIN u.env
      /\ n \notin DOMAIN u.envFile /\ n \in u.prefixed
  BY DEF Kind, Names, Classify
<1>2. n \notin DOMAIN Aliases /\ n \notin DOMAIN u.leafFiles
  BY <1>1, NamesAreOwn
<1>3. n \in PlainVariables(u, env)
  BY <1>1, <1>2, VisibleIsSo DEF PlainVariables, FileVariables
<1>4. CASE n \in DOMAIN u.extends["env"]
  <2>1. EnvTarget(u, n) = u.extends["env"][n]
    BY <1>1, <1>2, <1>4 DEF EnvTarget, Target
  <2>2. Misshapen(u, u.extends["env"][n])
    BY <1>4 DEF ContainerOf, Misshapen, Spelt, WellSpelt, Spellings
  <2> QED BY <1>1, <1>3, <2>1, <2>2, IdleVariable DEF Idle
<1>5. CASE n \notin DOMAIN u.extends["env"]
  <2>1. EnvTarget(u, n).key = ""
    BY <1>1, <1>2, <1>5 DEF EnvTarget, Target
  <2> QED BY <1>1, <1>3, <2>1, IdleVariable DEF Idle
<1> QED BY <1>4, <1>5

\* Gate 2: a path of the loader's own that no mount holds.
LEMMA UnmountedMatters ==
    ASSUME NEW c, NEW u, NEW doc, NEW h,
           NEW n \in Kind(EnvironmentOf(c), u, "Loader"), u.role[n] \in {"config", "secrets_dir"},
           EnvironmentOf(c)[n].visible, EnvironmentOf(c)[n].value # Empty,
           ~InsideAMount(c, EnvironmentOf(c)[n].value.path)
    PROVE  Matters(c, u, doc, h)
<1> DEFINE e == EnvironmentOf(c)
           env == ProcessEnv(c, h)
<1>1. n \in DOMAIN e /\ n \in DOMAIN u.role
  BY DEF Kind, Names, Classify
<1>2. n \in DOMAIN env /\ env[n] = e[n].value
  BY <1>1, VisibleIsSo
<1>3. CASE u.role[n] = "config"
  <2>1. n \in PassedOver(c, u, h)
    BY <1>1, <1>2, <1>3 DEF PassedOver
  <2> QED BY <2>1 DEF Matters
<1>4. CASE u.role[n] = "secrets_dir"
  <2>1. n \in Configured(u, env) /\ ~DirectoryExists(c, env[n].path)
    BY <1>1, <1>2, <1>4 DEF Configured, DirectoryExists
  <2> QED BY <2>1, OthersRefused
<1> QED BY <1>3, <1>4

\* Gate 2: a `_FILE` variable of a key that is no text, or that names no mount.
LEMMA IndirectionMatters ==
    ASSUME NEW c, NEW u, NEW doc, NEW h, Spelt(c, u),
           NEW n \in Kind(EnvironmentOf(c), u, "KeyEnvFile"),
           \/ ~FileSupplyable(u, u.envFile[n])
           \/ EnvironmentOf(c)[n].visible /\ ~InsideAMount(c, EnvironmentOf(c)[n].value.path)
    PROVE  Matters(c, u, doc, h)
<1> DEFINE e == EnvironmentOf(c)
           env == ProcessEnv(c, h)
<1>1. n \in DOMAIN e /\ n \in DOMAIN u.envFile
  BY DEF Kind, Names, Classify
<1>2. n \in FileVariables(u, env)
  BY <1>1, VisibleIsSo DEF FileVariables
<1>3. CASE ~FileSupplyable(u, u.envFile[n])
  <2>1. FileTarget(u, n).key = u.envFile[n] /\ FileTarget(u, n).leaf = ""
    BY <1>1 DEF FileTarget
  <2>2. FileTarget(u, n) \in FileTargets(u, env)
    BY <1>2 DEF FileTargets
  <2>3. u.envFile[n] \in DOMAIN u.form
    BY <1>1 DEF Spelt, WellSpelt
  <2> QED BY <1>3, <2>1, <2>2, <2>3, TextRefused
<1>4. CASE e[n].visible /\ ~InsideAMount(c, e[n].value.path)
  <2>1. env[n] = e[n].value
    BY <1>1, <1>4, VisibleIsSo
  <2>2. ~FileExists(c, h, env[n].path)
    BY <1>4, <2>1 DEF FileExists
  <2> QED BY <1>2, <2>2, OthersRefused
<1> QED BY <1>3, <1>4

\* Gate 3: a file that names no key.
LEMMA NoKeyFileMatters ==
    ASSUME NEW c, NEW u, NEW doc, NEW h, Spelt(c, u),
           NEW f \in SecretFiles(c, EnvironmentOf(c), u), f \notin DOMAIN u.secretsFile,
           ContainerOf(u, "secrets_file", f) = {}
    PROVE  Matters(c, u, doc, h)
<1>1. f \in SecretsPresented(c, u, h, ProcessEnv(c, h))
  BY ListedArePresented DEF Spelt
<1>2. f \notin DOMAIN Aliases
  BY FilesAreOwn
<1>3. CASE f \in DOMAIN u.extends["secrets_file"]
  <2>1. SecretTarget(u, f) = u.extends["secrets_file"][f]
    BY <1>2, <1>3 DEF SecretTarget, Target
  <2>2. Misshapen(u, u.extends["secrets_file"][f])
    BY <1>3 DEF ContainerOf, Misshapen, Spelt, WellSpelt, Spellings
  <2> QED BY <1>1, <2>1, <2>2, IdleFile DEF Idle
<1>4. CASE f \notin DOMAIN u.extends["secrets_file"]
  <2>1. SecretTarget(u, f).key = ""
    BY <1>2, <1>4 DEF SecretTarget, Target
  <2> QED BY <1>1, <2>1, IdleFile DEF Idle
<1> QED BY <1>3, <1>4

\* Gate 3: a file of a key that is no text, listed or not.
LEMMA FileTypedMatters ==
    ASSUME NEW c, NEW u, NEW doc, NEW h, Spelt(c, u),
           NEW f \in SecretsPresented(c, u, h, ProcessEnv(c, h)), f \in DOMAIN u.secretsFile,
           ~FileSupplyable(u, u.secretsFile[f])
    PROVE  Matters(c, u, doc, h)
<1>1. SecretTarget(u, f).key = u.secretsFile[f] /\ SecretTarget(u, f).leaf = ""
  BY DEF SecretTarget, Target
<1>2. u.secretsFile[f] \in DOMAIN u.form
  BY DEF Spelt, WellSpelt
<1>3. SecretTarget(u, f) \in SecretTargets(c, u, h, ProcessEnv(c, h))
  BY DEF SecretTargets
<1> QED BY <1>1, <1>2, <1>3, TextRefused

\* Where the render hides no variable, the process has those it shows.
LEMMA ResolvedIsGiven ==
    ASSUME NEW c, NEW h, Unresolved(c) = {}
    PROVE  DOMAIN ProcessEnv(c, h) = DOMAIN EnvironmentOf(c)
  BY DEF ProcessEnv

\* One variable names the secrets directory: where it is shown, it is the one.
LEMMA OneDirectory ==
    ASSUME NEW c, NEW u, NEW h, WellSpelt(u), Unresolved(c) = {},
           NEW n \in Configured(u, ProcessEnv(c, h)),
           ~DirectoryHidden(EnvironmentOf(c), u)
    PROVE  /\ n \in SecretsDirVariable(EnvironmentOf(c), u)
           /\ ProcessEnv(c, h)[n].path \in SecretsDir(EnvironmentOf(c), u)
<1> DEFINE e == EnvironmentOf(c)
           env == ProcessEnv(c, h)
<1>1. n \in DOMAIN e /\ n \in DOMAIN u.role /\ u.role[n] = "secrets_dir"
  BY ResolvedIsGiven DEF Configured
<1>2. n \in SecretsDirVariable(e, u)
  BY <1>1 DEF SecretsDirVariable, Kind, Names, Classify
<1>3. SecretsDir(e, u) # {}
  BY <1>2 DEF DirectoryHidden
<1>4. PICK v \in SecretsDirVariable(e, u) : e[v].visible
  BY <1>3 DEF SecretsDir
<1>5. v \in DOMAIN u.role /\ u.role[v] = "secrets_dir"
  BY <1>4 DEF SecretsDirVariable, Kind, Names, Classify
<1>6. n = v
  BY <1>1, <1>5, OneSecretsVariable
<1>7. env[n] = e[n].value
  BY <1>1, <1>4, <1>6, VisibleIsSo
<1> QED BY <1>2, <1>4, <1>6, <1>7 DEF SecretsDir

\* A path below another is not the empty one.
LEMMA BelowIsSomewhere ==
    ASSUME NEW p \in Seq(STRING), NEW f PROVE Append(p, f) # <<>>
<1>1. p \in Seq(STRING \cup {f})
  OBVIOUS
<1>2. Len(Append(p, f)) = Len(p) + 1 /\ Len(p) \in Nat
  BY <1>1
<1>3. Len(<<>>) = 0
  OBVIOUS
<1> QED BY <1>2, <1>3

\* Gate 3: a secret mounted elsewhere, that no `_FILE` variable names.
LEMMA UnreadMatters ==
    ASSUME NEW c, NEW u, NEW doc, NEW h, Spelt(c, u), IndirectionShown(c, u),
           NEW s \in StrayFiles(c, EnvironmentOf(c), u), s.name \in DOMAIN u.secretsFile,
           s.path \notin Indirect(EnvironmentOf(c), u), ~DirectoryHidden(EnvironmentOf(c), u)
    PROVE  Matters(c, u, doc, h)
<1> DEFINE e == EnvironmentOf(c)
           env == ProcessEnv(c, h)
           G(m) == {[path |-> Append(m.path, f), name |-> f] : f \in ProjectedFileNames(c, m.volume)}
<1>1. s \in UNION {G(m) : m \in {n \in c.mounts : ~IsSecretsDir(n, e, u)}}
  BY DEF StrayFiles
<1>2. PICK m \in {n \in c.mounts : ~IsSecretsDir(n, e, u)} : s \in G(m)
  BY <1>1, Zenon
<1>3. PICK f \in ProjectedFileNames(c, m.volume) : s = [path |-> Append(m.path, f), name |-> f]
  BY <1>2
<1>4. s.path = Append(m.path, f) /\ s.name = f
  BY <1>3
<1>5. f \in FilesIn(c, h, m.path)
  BY <1>2, <1>3, ListedIsThere
<1>6. Unresolved(c) = {} /\ \A n \in Kind(e, u, "KeyEnvFile") : e[n].visible
  BY DEF IndirectionShown
<1>7. m.path \notin {env[n].path : n \in Configured(u, env)}
  <2> SUFFICES ASSUME NEW n \in Configured(u, env) PROVE m.path # env[n].path
    OBVIOUS
  <2>1. env[n].path \in SecretsDir(e, u)
    BY <1>6, OneDirectory DEF Spelt
  <2> QED BY <1>2, <2>1 DEF IsSecretsDir
<1>8. Append(m.path, f) \notin {env[n].path : n \in FileVariables(u, env)}
  <2> SUFFICES ASSUME NEW n \in FileVariables(u, env), env[n].path = Append(m.path, f)
               PROVE  FALSE
    OBVIOUS
  <2>1. n \in DOMAIN e /\ n \in DOMAIN u.envFile
    BY <1>6, ResolvedIsGiven, NamesAreOwn DEF FileVariables
  <2>2. n \in Kind(e, u, "KeyEnvFile")
    BY <2>1 DEF Kind, Names, Classify, Spelt, WellSpelt
  <2>3. e[n].visible /\ env[n] = e[n].value
    BY <1>6, <2>1, <2>2, VisibleIsSo
  <2>4. Append(m.path, f) # <<>>
    BY <1>2, BelowIsSomewhere DEF Spelt, Mountable
  <2>5. Empty.path = <<>>
    BY DEF Empty
  <2>6. e[n].value # Empty /\ e[n].value.path = Append(m.path, f)
    <3> HIDE DEF e, env
    <3> QED BY <2>3, <2>4, <2>5
  <2>7. Append(m.path, f) \in Indirect(e, u)
    BY <2>2, <2>3, <2>6 DEF Indirect
  <2> QED BY <1>4, <2>7
<1> QED BY <1>2, <1>4, <1>5, <1>7, <1>8, UnreadFile

\* A key of the boot that no document holds, some spelling supplies.
LEMMA SuppliedBySpelling ==
    ASSUME NEW c, NEW u, NEW doc, NEW h, NEW k \in KeysSupplied(c, u, doc, h), k \notin doc.keys
    PROVE  \/ \E n \in PlainVariables(u, ProcessEnv(c, h)) : Supplies(u, EnvTarget(u, n), k)
           \/ \E f \in SecretsPresented(c, u, h, ProcessEnv(c, h)) :
                 Supplies(u, SecretTarget(u, f), k)
           \/ \E n \in FileVariables(u, ProcessEnv(c, h)) : Supplies(u, FileTarget(u, n), k)
<1> DEFINE env == ProcessEnv(c, h)
<1>1. PICK t \in EnvTargets(u, env) \cup SecretTargets(c, u, h, env) \cup FileTargets(u, env) :
          Supplies(u, t, k)
  BY DEF KeysSupplied, Supplies
<1> QED BY <1>1 DEF EnvTargets, SecretTargets, FileTargets

\* Where gate 2b finds nothing hidden, the files presented are those listed.
LEMMA NoneUnseen ==
    ASSUME NEW c, NEW u, NEW h, WellSpelt(u), Mountable(c), Unresolved(c) = {},
           UnseenFiles(c, EnvironmentOf(c), u) = {},
           NEW f \in SecretsPresented(c, u, h, ProcessEnv(c, h))
    PROVE  f \in SecretFiles(c, EnvironmentOf(c), u)
<1> DEFINE e == EnvironmentOf(c)
           env == ProcessEnv(c, h)
           F(n) == FilesIn(c, h, env[n].path)
<1>1. f \in UNION {F(n) : n \in Configured(u, env)}
  BY DEF SecretsPresented
<1>2. PICK n \in Configured(u, env) : f \in F(n)
  BY <1>1, Zenon
<1>3. n \in SecretsDirVariable(e, u)
  <2>1. n \in DOMAIN e /\ n \in DOMAIN u.role /\ u.role[n] = "secrets_dir"
    BY <1>2, ResolvedIsGiven DEF Configured
  <2> QED BY <2>1 DEF SecretsDirVariable, Kind, Names, Classify
<1>4. SecretsDir(e, u) # {}
  BY <1>3 DEF UnseenFiles
<1> DEFINE p == env[n].path
<1>5. p \in SecretsDir(e, u)
  BY <1>2, <1>4, OneDirectory DEF DirectoryHidden
<1> DEFINE unlisted(x) == UNION {UnlistedSources(c, v) : v \in VolumeAt(c, x)}
           unseen(x) == IF VolumeAt(c, x) # {} THEN unlisted(x)
                        ELSE IF InsideAMount(c, x) THEN {"inside"} ELSE {}
<1>6. unseen(p) = {}
  <2>1. UNION {unseen(x) : x \in SecretsDir(e, u)} = {}
    BY <1>4 DEF UnseenFiles
  <2> HIDE DEF unseen, p, e
  <2> QED BY <1>5, <2>1, Zenon
<1>7. VolumeAt(c, p) # {}
  <2> SUFFICES ASSUME VolumeAt(c, p) = {} PROVE FALSE
    OBVIOUS
  <2>1. ~InsideAMount(c, p)
    BY <1>6
  <2>2. FilesIn(c, h, p) = {}
    BY <2>1 DEF FilesIn
  <2> QED BY <1>2, <2>2
<1>8. \A v \in VolumeAt(c, p) : UnlistedSources(c, v) = {}
  <2>1. UNION {UnlistedSources(c, v) : v \in VolumeAt(c, p)} = {}
    BY <1>6, <1>7
  <2> HIDE DEF p
  <2> QED BY <2>1, Zenon
<1>9. PICK m \in c.mounts : m.path = p /\ f \in ProjectedFileNames(c, m.volume)
  BY <1>2, <1>7, <1>8, NoneUnlisted
<1> DEFINE G(x) == ProjectedFileNames(c, x.volume)
<1>10. m \in {x \in c.mounts : IsSecretsDir(x, e, u)}
  BY <1>5, <1>9 DEF IsSecretsDir
<1>11. f \in UNION {G(x) : x \in {y \in c.mounts : IsSecretsDir(y, e, u)}}
  BY <1>9, <1>10, Zenon
<1> QED BY <1>11 DEF SecretFiles, e

\* Gate 2b: a key that nothing supplies and nothing hidden could.
LEMMA RequiredMatters ==
    ASSUME NEW c, NEW u, NEW doc, NEW h, NEW exempt, NEW k \in u.required, Spelt(c, u),
           "env" \notin exempt, "files" \notin exempt,
           CouldSupply(c, EnvironmentOf(c), u, k) = {},
           \A layer \in Suppliers(c, EnvironmentOf(c), u, exempt, k) :
               ~FilesCount(u, k) /\ layer # EnvironmentLayer,
           u.form[k] # "structured", k \notin doc.keys
    PROVE  Matters(c, u, doc, h)
<1> DEFINE e == EnvironmentOf(c)
           env == ProcessEnv(c, h)
<1>1. /\ Unresolved(c) = {} /\ DOMAIN env = DOMAIN e
      /\ FilesCount(u, k) => UnseenFiles(c, e, u) = {}
  BY ResolvedIsGiven DEF CouldSupply
<1>2. WellSpelt(u) /\ Mountable(c) /\ k \in DOMAIN u.form
  BY DEF Spelt, WellSpelt
<1>3. ASSUME NEW n \in PlainVariables(u, env), Supplies(u, EnvTarget(u, n), k)
      PROVE  Matters(c, u, doc, h)
  <2>1. n \in DOMAIN e /\ n \notin DOMAIN u.role /\ n \notin DOMAIN u.envFile
        /\ n \in DOMAIN u.env \cup u.prefixed
    BY <1>1 DEF PlainVariables, FileVariables
  <2>2. n \notin DOMAIN Aliases
    BY <2>1, NamesAreOwn
  <2>3. CASE n \in DOMAIN u.env
    <3>1. n \in Kind(e, u, "KeyEnv") /\ u.env[n] = k
      BY <1>3, <2>1, <2>3 DEF Kind, Names, Classify, EnvTarget, Target, Supplies
    <3>2. EnvironmentLayer \in Suppliers(c, e, u, exempt, k)
      BY <3>1 DEF Suppliers
    <3> QED BY <3>2
  <2>4. CASE n \notin DOMAIN u.env /\ n \in DOMAIN u.extends["env"]
    <3>1. EnvTarget(u, n) = u.extends["env"][n]
      BY <2>2, <2>4 DEF EnvTarget, Target
    <3>2. Misshapen(u, EnvTarget(u, n))
      BY <1>2, <1>3, <2>4, <3>1 DEF Misshapen, Supplies, WellSpelt, Spellings
    <3> QED BY <1>3, <3>2 DEF Supplies
  <2>5. CASE n \notin DOMAIN u.env /\ n \notin DOMAIN u.extends["env"]
    <3>1. EnvTarget(u, n).key = ""
      BY <2>2, <2>5 DEF EnvTarget, Target
    <3> QED BY <2>5, <3>1, IdleVariable DEF Idle
  <2> QED BY <2>3, <2>4, <2>5
<1>4. ASSUME NEW f \in SecretsPresented(c, u, h, env), Supplies(u, SecretTarget(u, f), k)
      PROVE  Matters(c, u, doc, h)
  <2>1. CASE f \in DOMAIN u.secretsFile
    <3>1. u.secretsFile[f] = k
      BY <1>4, <2>1 DEF SecretTarget, Target, Supplies
    <3>2. CASE FileSupplyable(u, k)
      <4>1. k \notin u.reserved
        BY <2>1, <3>1 DEF Spelt, WellSpelt
      <4>2. FilesCount(u, k)
        BY <3>2, <4>1 DEF FilesCount
      <4>3. f \in SecretFiles(c, e, u)
        BY <1>1, <1>2, <4>2, NoneUnseen
      <4>4. SecretsLayer \in Suppliers(c, e, u, exempt, k)
        BY <2>1, <3>1, <4>3 DEF Suppliers
      <4> QED BY <4>2, <4>4
    <3>3. CASE ~FileSupplyable(u, k)
      BY <2>1, <3>1, <3>3, FileTypedMatters
    <3> QED BY <3>2, <3>3
  <2>2. CASE f \notin DOMAIN u.secretsFile /\ f \in DOMAIN Aliases
    <3>1. SecretTarget(u, f).leaf = "alias" /\ Aliases[f] = k
      BY <1>4, <2>2 DEF SecretTarget, Target, Supplies
    <3>2. k \notin u.reserved
      BY <2>2, <3>1 DEF Spelt, Canonical
    <3>3. CASE FileSupplyable(u, k)
      <4>1. f \in SecretFiles(c, e, u)
        BY <1>1, <1>2, <3>2, <3>3, NoneUnseen DEF FilesCount
      <4> QED BY <2>2, <4>1, FilesAreOwn
    <3>4. CASE ~FileSupplyable(u, k)
      <4>1. SecretTarget(u, f) \in SecretTargets(c, u, h, env)
        BY DEF SecretTargets
      <4> QED BY <1>2, <1>4, <3>1, <3>4, <4>1, TextRefused DEF Supplies
    <3> QED BY <3>3, <3>4
  <2>3. CASE f \notin DOMAIN u.secretsFile /\ f \notin DOMAIN Aliases
    <3>1. CASE f \in DOMAIN u.extends["secrets_file"]
      <4>1. SecretTarget(u, f) = u.extends["secrets_file"][f]
        BY <2>3, <3>1 DEF SecretTarget, Target
      <4>2. Misshapen(u, SecretTarget(u, f))
        BY <1>2, <1>4, <3>1, <4>1 DEF Misshapen, Supplies, WellSpelt, Spellings
      <4> QED BY <1>4, <4>2 DEF Supplies
    <3>2. CASE f \notin DOMAIN u.extends["secrets_file"]
      <4>1. SecretTarget(u, f).key = ""
        BY <2>3, <3>2 DEF SecretTarget, Target
      <4> QED BY <4>1, IdleFile DEF Idle
    <3> QED BY <3>1, <3>2
  <2> QED BY <2>1, <2>2, <2>3
<1>5. ASSUME NEW n \in FileVariables(u, env), Supplies(u, FileTarget(u, n), k)
      PROVE  Matters(c, u, doc, h)
  <2>1. n \in DOMAIN e /\ n \in DOMAIN u.envFile
    BY <1>1, NamesAreOwn DEF FileVariables
  <2>2. n \in Kind(e, u, "KeyEnvFile") /\ u.envFile[n] = k
    BY <1>5, <2>1 DEF Kind, Names, Classify, FileTarget, Spelt, WellSpelt, Supplies
  <2>3. Layer("file", n) \in Suppliers(c, e, u, exempt, k)
    BY <2>2 DEF Suppliers
  <2>4. ~FilesCount(u, k)
    BY <2>3
  <2>5. ~FileSupplyable(u, u.envFile[n])
    BY <2>1, <2>2, <2>4, OwnSpellingsName DEF FilesCount, Spelt
  <2> QED BY <2>2, <2>5, IndirectionMatters
<1>6. CASE k \in KeysSupplied(c, u, doc, h)
  <2>1. \/ \E n \in PlainVariables(u, env) : Supplies(u, EnvTarget(u, n), k)
        \/ \E f \in SecretsPresented(c, u, h, env) : Supplies(u, SecretTarget(u, f), k)
        \/ \E n \in FileVariables(u, env) : Supplies(u, FileTarget(u, n), k)
    BY <1>6, SuppliedBySpelling DEF KeysSupplied
  <2> QED BY <1>3, <1>4, <1>5, <2>1
<1>7. CASE k \notin KeysSupplied(c, u, doc, h)
  BY <1>7, OthersRefused
<1> QED BY <1>6, <1>7

\* A finding says which gate found what, and where.
LEMMA FindingSays ==
    ASSUME NEW gate, NEW level, NEW places, NEW f \in Finding(gate, level, places)
    PROVE  f.gate = gate /\ f.level = level /\ f.at \in places
  BY DEF Finding

\* An error of gate 2, the collisions apart.
LEMMA EnvironmentAccuses ==
    ASSUME NEW c, NEW u, NEW doc, NEW h, Spelt(c, u),
           NEW f \in EnvironmentGate(EnvironmentOf(c), u), Accuses(c, u, doc, f)
    PROVE  Matters(c, u, doc, h)
<1> DEFINE e == EnvironmentOf(c)
           refused == {n \in {v \in Kind(e, u, "KeyEnv") \cup Kind(e, u, "External") :
                                 e[v].visible} : ValueRefused(u, e[n].value)}
           keyless == {n \in Kind(e, u, "Prefixed") : ContainerOf(u, "env", n) = {}}
<1>1. \/ f \in Finding("value", "error", refused)
      \/ f \in Finding("no_key", "error", keyless)
      \/ \E level, places : f \in Finding("unknown", level, places)
  <2>1. CASE u.unknown = "reject"
    BY <2>1 DEF EnvironmentGate
  <2>2. CASE u.unknown # "reject" /\ u.unknown = "warn"
    BY <2>2 DEF EnvironmentGate
  <2>3. CASE u.unknown # "reject" /\ u.unknown # "warn"
    BY <2>3 DEF EnvironmentGate
  <2> QED BY <2>1, <2>2, <2>3
<1>2. CASE f \in Finding("value", "error", refused)
  <2>1. f.gate = "value" /\ f.at \in refused
    <3> HIDE DEF refused
    <3> QED BY <1>2, FindingSays
  <2>2. f.at \in DOMAIN u.env
    BY <2>1 DEF Accuses
  <2>3. f.at \in Kind(e, u, "KeyEnv")
    BY <2>1, <2>2 DEF Kind, Names, Classify
  <2> QED BY <2>1, <2>3, ValueMatters
<1>3. CASE f \in Finding("no_key", "error", keyless)
  <2>1. f.at \in keyless
    <3> HIDE DEF keyless
    <3> QED BY <1>3, FindingSays
  <2> QED BY <2>1, NoKeyMatters
<1>4. CASE \E level, places : f \in Finding("unknown", level, places)
  BY <1>4, FindingSays DEF Accuses
<1> QED BY <1>1, <1>2, <1>3, <1>4

\* An error of gate 3 about the files.
LEMMA MountsAccuse ==
    ASSUME NEW c, NEW u, NEW doc, NEW h, Spelt(c, u),
           NEW f \in Mounts(c, EnvironmentOf(c), u), Accuses(c, u, doc, f)
    PROVE  Matters(c, u, doc, h)
<1> DEFINE e == EnvironmentOf(c)
           named == {x \in SecretFiles(c, e, u) : x \in DOMAIN u.secretsFile}
           strange == {x \in SecretFiles(c, e, u) \ named : ContainerOf(u, "secrets_file", x) = {}}
           typed == {x \in named : ~FileSupplyable(u, u.secretsFile[x])}
           unread == {s \in StrayFiles(c, e, u) : /\ s.name \in DOMAIN u.secretsFile
                                                  /\ s.path \notin Indirect(e, u)
                                                  /\ ~DirectoryHidden(e, u)}
           names == {s.name : s \in unread}
           nowhere == {n \in SecretsDirVariable(e, u) :
               \E p \in SecretsDir(e, u) : VolumeAt(c, p) = {} /\ InsideAMount(c, p)}
<1>1. \/ f \in Finding("no_key_file", "error", strange)
      \/ f \in Finding("file_typed", "error", typed)
      \/ f \in Finding("unread", "error", names)
      \/ f \in Finding("unlistable", "warning", nowhere)
  BY DEF Mounts
<1>2. CASE f \in Finding("no_key_file", "error", strange)
  <2>1. f.at \in strange
    <3> HIDE DEF strange
    <3> QED BY <1>2, FindingSays
  <2> QED BY <2>1, NoKeyFileMatters
<1>3. CASE f \in Finding("file_typed", "error", typed)
  <2>1. f.at \in typed
    <3> HIDE DEF typed
    <3> QED BY <1>3, FindingSays
  <2>2. f.at \in SecretsPresented(c, u, h, ProcessEnv(c, h))
    BY <2>1, ListedArePresented DEF Spelt
  <2> QED BY <2>1, <2>2, FileTypedMatters
<1>4. CASE f \in Finding("unread", "error", names)
  <2>1. f.gate = "unread" /\ f.at \in names
    <3> HIDE DEF names
    <3> QED BY <1>4, FindingSays
  <2>2. PICK s \in unread : TRUE
    BY <2>1
  <2>3. IndirectionShown(c, u)
    BY <2>1 DEF Accuses
  <2> QED BY <2>2, <2>3, UnreadMatters
<1>5. CASE f \in Finding("unlistable", "warning", nowhere)
  <2>1. f.level = "warning"
    <3> HIDE DEF nowhere
    <3> QED BY <1>5, FindingSays
  <2> QED BY <2>1 DEF Accuses
<1> QED BY <1>1, <1>2, <1>3, <1>4, <1>5

\* An error of gate 2 about a path or an indirection.
LEMMA PathsAccuse ==
    ASSUME NEW c, NEW u, NEW doc, NEW h, Spelt(c, u),
           NEW f \in LoaderPaths(c, EnvironmentOf(c), u) \cup Indirection(c, EnvironmentOf(c), u)
    PROVE  Matters(c, u, doc, h)
<1> DEFINE e == EnvironmentOf(c)
           variables == Kind(e, u, "KeyEnvFile")
           lost == {n \in Kind(e, u, "Loader") : /\ u.role[n] \in {"config", "secrets_dir"}
                                                 /\ e[n].visible /\ e[n].value # Empty
                                                 /\ ~InsideAMount(c, e[n].value.path)}
           typed == {n \in variables : ~FileSupplyable(u, u.envFile[n])}
           astray == {n \in variables : /\ e[n].visible /\ e[n].value # Empty
                                        /\ ~InsideAMount(c, e[n].value.path)}
<1>1. \/ f \in Finding("unmounted", "error", lost)
      \/ f \in Finding("file_typed", "error", typed)
      \/ f \in Finding("unmounted", "error", astray)
  BY DEF LoaderPaths, Indirection
<1>2. CASE f \in Finding("unmounted", "error", lost)
  <2>1. f.at \in lost
    <3> HIDE DEF lost
    <3> QED BY <1>2, FindingSays
  <2> QED BY <2>1, UnmountedMatters
<1>3. CASE f \in Finding("file_typed", "error", typed)
  <2>1. f.at \in typed
    <3> HIDE DEF typed
    <3> QED BY <1>3, FindingSays
  <2> QED BY <2>1, IndirectionMatters
<1>4. CASE f \in Finding("unmounted", "error", astray)
  <2>1. f.at \in astray
    <3> HIDE DEF astray
    <3> QED BY <1>4, FindingSays
  <2> QED BY <2>1, IndirectionMatters
<1> QED BY <1>1, <1>2, <1>3, <1>4

\* An error of gate 2b.
LEMMA RequiredAccuses ==
    ASSUME NEW c, NEW u, NEW doc, NEW h, NEW exempt, Spelt(c, u),
           "env" \notin exempt, "files" \notin exempt,
           NEW f \in RequiredGate(c, EnvironmentOf(c), u, doc, exempt), Accuses(c, u, doc, f)
    PROVE  Matters(c, u, doc, h)
<1> DEFINE e == EnvironmentOf(c)
           supplied(k) == \E layer \in Suppliers(c, e, u, exempt, k) :
                              FilesCount(u, k) \/ layer = EnvironmentLayer
           inDocument(k) == /\ k \notin u.secret \cup u.reserved
                            /\ doc.known => k \in doc.keys
           missing == {k \in u.required : ~supplied(k) /\ ~inDocument(k)}
           hopeless == {k \in missing : CouldSupply(c, e, u, k) = {}}
           hopeful == {k \in missing : CouldSupply(c, e, u, k) # {}}
<1>1. \/ f \in Finding("required", "error", hopeless)
      \/ f \in Finding("required", "warning", hopeful)
  BY DEF RequiredGate
<1>2. CASE f \in Finding("required", "error", hopeless)
  <2>1. f.gate = "required" /\ f.at \in hopeless
    <3> HIDE DEF hopeless
    <3> QED BY <1>2, FindingSays
  <2>2. u.form[f.at] # "structured" /\ f.at \notin doc.keys
    BY <2>1 DEF Accuses
  <2>3. /\ f.at \in u.required /\ CouldSupply(c, e, u, f.at) = {}
        /\ \A layer \in Suppliers(c, e, u, exempt, f.at) :
               ~FilesCount(u, f.at) /\ layer # EnvironmentLayer
    BY <2>1
  <2> QED BY <2>2, <2>3, RequiredMatters
<1>3. CASE f \in Finding("required", "warning", hopeful)
  <2>1. f.level = "warning"
    <3> HIDE DEF hopeful
    <3> QED BY <1>3, FindingSays
  <2> QED BY <2>1 DEF Accuses
<1> QED BY <1>1, <1>2, <1>3

\* Every error that accuses the container is of something the loader minds.
LEMMA ErrorMatters ==
    ASSUME NEW c, NEW u, NEW doc, NEW h, NEW exempt, Spelt(c, u),
           NEW f \in CheckContainer(c, u, doc, exempt), Accuses(c, u, doc, f)
    PROVE  Matters(c, u, doc, h)
<1> DEFINE e == EnvironmentOf(c)
<1>1. \/ f \in EnvironmentGate(e, u)
      \/ f \in CollisionGate(c, e, u, exempt)
      \/ f \in LoaderPaths(c, e, u) \cup Indirection(c, e, u)
      \/ f \in Mounts(c, e, u)
      \/ f \in RequiredGate(c, e, u, doc, exempt) /\ "env" \notin exempt /\ "files" \notin exempt
  BY DEF CheckContainer
<1>2. CASE f \in CollisionGate(c, e, u, exempt)
  <2> DEFINE twice == {k \in DOMAIN u.form : \E a, b \in Suppliers(c, e, u, exempt, k) : a # b}
  <2>1. f \in Finding("collision", "error", twice)
    BY <1>2 DEF CollisionGate
  <2>2. f.at \in twice
    <3> HIDE DEF twice
    <3> QED BY <2>1, FindingSays
  <2> QED BY <2>2, CollisionMatters
<1> QED BY <1>1, <1>2, EnvironmentAccuses, PathsAccuse, MountsAccuse, RequiredAccuses

\* The errors of gates 2, 2b and 3 are of a boot that fails, or of a setting
\* that reaches nothing, on every cluster the render may be applied to.
THEOREM ErrorsMatter == SurveySpec => []ErrorsAreReal
<1>1. GatesInv => ErrorsAreReal
  <2> SUFFICES ASSUME GatesInv, Booted, Canonical(container, contract), Accused PROVE ~Harmless
    BY DEF ErrorsAreReal
  <2>1. /\ contract \in Contracts /\ container \in Containers
        /\ findings = CheckContainer(container, contract, document, relaxed)
        /\ outcome = Refusals(container, contract, document, hidden)
    BY DEF GatesInv, Booted
  <2>2. Spelt(container, contract)
    BY <2>1, GatesAssumption DEF Spelt
  <2>3. PICK f \in findings : Accuses(container, contract, document, f)
    BY DEF Accused
  <2>4. Matters(container, contract, document, hidden)
    BY <2>1, <2>2, <2>3, ErrorMatters
  <2> QED BY <2>1, <2>4 DEF Matters, Harmless
<1> QED BY <1>1, GatesInvariance, PTL

-----------------------------------------------------------------------------
(* `secrets`: what it reports undelivered, and what reaches a pod.         *)

\* Whose files the scan follows.
LEMMA FileOfASecret ==
    ASSUME NEW c, NEW f \in SecretMounts(c)
    PROVE  \E m \in c.mounts : f.dir = m.path /\ f.name \in SecretFileNames(c, m.volume)
<1> DEFINE G(m) == {[dir |-> m.path, name |-> x] : x \in SecretFileNames(c, m.volume)}
           M == {n \in c.mounts : n.volume # ""}
<1>1. f \in UNION {G(m) : m \in M}
  BY DEF SecretMounts
<1>2. PICK m \in M : f \in G(m)
  <2> HIDE DEF G, M
  <2> QED BY <1>1, Zenon
<1>3. PICK x \in SecretFileNames(c, m.volume) : f = [dir |-> m.path, name |-> x]
  <2> HIDE DEF M
  <2> QED BY <1>2, Zenon
<1>4. m \in c.mounts
  BY <1>2
<1>5. f.dir = m.path /\ f.name = x
  BY <1>3
<1> HIDE DEF G, M
<1> QED BY <1>3, <1>4, <1>5

-----------------------------------------------------------------------------
\* What the scan of a container counts as delivered.
Counted(c, u, k) ==
    LET e == EnvironmentOf(c)
    IN  \/ \E n \in Kind(e, u, "KeyEnv") : u.env[n] = k
        \/ \E n \in Kind(e, u, "KeyEnvFile") : u.envFile[n] = k
        \/ \E f \in SecretMounts(c) :
              /\ k \in Owner(u, f.name)
              /\ f.dir \in SecretsDir(e, u) \/ Append(f.dir, f.name) \in Indirect(e, u)

\* A file of a key is read for another.
LentTo(c, u, k) ==
    LET e == EnvironmentOf(c)
    IN  \E f \in SecretMounts(c) : \E n \in Kind(e, u, "KeyEnvFile") :
           /\ k \in Owner(u, f.name) /\ u.envFile[n] # k
           /\ e[n].visible /\ e[n].value.path = Append(f.dir, f.name)

\* What is counted is read, or lent.
LEMMA CountedIsRead ==
    ASSUME NEW c, NEW u, NEW doc, NEW h, NEW k, WellSpelt(u), Mountable(c), Counted(c, u, k)
    PROVE  k \in KeysSupplied(c, u, doc, h) \/ LentTo(c, u, k)
<1> DEFINE e == EnvironmentOf(c)
           env == ProcessEnv(c, h)
<1>1. CASE \E n \in Kind(e, u, "KeyEnv") : u.env[n] = k
  BY <1>1, KeyVariableIsRead, SpellingSupplies
<1>2. CASE \E n \in Kind(e, u, "KeyEnvFile") : u.envFile[n] = k
  BY <1>2, FileVariableIsRead, SpellingSupplies
<1>3. ASSUME NEW f \in SecretMounts(c), k \in Owner(u, f.name), f.dir \in SecretsDir(e, u)
      PROVE  k \in KeysSupplied(c, u, doc, h)
  <2>1. PICK m \in c.mounts : f.dir = m.path /\ f.name \in SecretFileNames(c, m.volume)
    BY FileOfASecret
  <2>2. f.name \in ProjectedFileNames(c, m.volume)
    BY <2>1 DEF SecretFileNames, ProjectedFileNames
  <2>3. m \in {x \in c.mounts : IsSecretsDir(x, e, u)}
    BY <1>3, <2>1 DEF IsSecretsDir
  <2>4. f.name \in SecretFiles(c, e, u)
    BY <2>2, <2>3, Zenon DEF SecretFiles
  <2> QED BY <1>3, <2>4, SecretFileIsRead, SpellingSupplies
<1>4. ASSUME NEW f \in SecretMounts(c), k \in Owner(u, f.name),
             Append(f.dir, f.name) \in Indirect(e, u)
      PROVE  k \in KeysSupplied(c, u, doc, h) \/ LentTo(c, u, k)
  <2>1. PICK n \in Kind(e, u, "KeyEnvFile") : e[n].visible /\ e[n].value.path = Append(f.dir, f.name)
    BY <1>4 DEF Indirect
  <2> QED BY <1>2, <1>4, <2>1 DEF LentTo
<1> QED BY <1>1, <1>2, <1>3, <1>4 DEF Counted

-----------------------------------------------------------------------------
\* A cluster that adds nothing: what is read of it is what the render shows.
LEMMA AsShown ==
    ASSUME NEW c, NEW n \in DOMAIN ProcessEnv(c, AsRendered)
    PROVE  /\ n \in DOMAIN EnvironmentOf(c)
           /\ ProcessEnv(c, AsRendered)[n] # Empty =>
                 /\ EnvironmentOf(c)[n].visible
                 /\ ProcessEnv(c, AsRendered)[n] = EnvironmentOf(c)[n].value
  BY DEF ProcessEnv, AsRendered, Value, Empty

\* A leaf that supplies a key is one of a map.
LEMMA LeafOfAMap ==
    ASSUME NEW u, WellSpelt(u), NEW spelling \in Spellings, NEW n \in DOMAIN u.extends[spelling],
           NEW k \in DOMAIN u.form, Supplies(u, u.extends[spelling][n], k)
    PROVE  k \in ContainerOf(u, spelling, n)
<1>1. u.extends[spelling][n].leaf \notin {"", "alias"}
  BY DEF WellSpelt
<1>2. u.extends[spelling][n].key = k /\ u.form[k] = "structured"
  BY <1>1 DEF Supplies, Misshapen
<1> QED BY <1>2 DEF ContainerOf

\* So is one a file is named for.
LEMMA FileOfAMap ==
    ASSUME NEW u, WellSpelt(u), NEW n \in DOMAIN u.leafFiles,
           NEW k \in DOMAIN u.form, Supplies(u, u.leafFiles[n], k)
    PROVE  k \in ContainerOf(u, "env", n) /\ n \in u.prefixed
<1>1. /\ n \in u.prefixed /\ n \in DOMAIN u.extends["env"]
      /\ u.extends["env"][n].key = u.leafFiles[n].key
      /\ u.leafFiles[n].leaf \notin {"", "alias"}
  BY DEF WellSpelt
<1>2. u.leafFiles[n].key = k /\ u.form[k] = "structured"
  BY <1>1 DEF Supplies, Misshapen
<1> QED BY <1>1, <1>2 DEF ContainerOf

\* The files there are those the render lists.
LEMMA FilesAsShown ==
    ASSUME NEW c, Mountable(c), NEW path, NEW f \in FilesIn(c, AsRendered, path)
    PROVE  \E m \in c.mounts : m.path = path /\ f \in ProjectedFileNames(c, m.volume)
<1> DEFINE objects == Objects(c, AsRendered)
           G(s) == FilesOf(s, objects)
           F(v) == UNION {G(s) : s \in c.volumes[v].sources}
           H(v) == F(v) \cup (IF c.volumes[v].listable THEN {} ELSE {})
<1>1. FilesIn(c, AsRendered, path) = UNION {H(v) : v \in VolumeAt(c, path)}
  BY DEF FilesIn, AsRendered
<1>2. PICK v \in VolumeAt(c, path) : f \in H(v)
  <2> HIDE DEF H
  <2> QED BY <1>1, Zenon
<1>3. f \in F(v)
  <2> HIDE DEF F
  <2> QED BY <1>2
<1>4. PICK s \in c.volumes[v].sources : f \in G(s)
  <2> HIDE DEF G
  <2> QED BY <1>3, Zenon
<1>5. f \in FilesOf(s, c.rendered)
  <2>1. \A o : o \in DOMAIN objects <=> o \in DOMAIN c.rendered
    BY DEF Objects, AsRendered
  <2>2. \A o \in DOMAIN objects : objects[o] = c.rendered[o]
    BY <2>1 DEF Objects
  <2> HIDE DEF objects
  <2> QED BY <1>4, <2>1, <2>2 DEF FilesOf
<1>6. PICK m \in c.mounts : m.path = path /\ m.volume = v
  BY <1>2 DEF VolumeAt
<1>7. v \in DOMAIN c.volumes
  BY <1>6 DEF Mountable
<1>8. f \in UNION {FilesOf(x, c.rendered) : x \in c.volumes[v].sources}
  BY <1>4, <1>5, Zenon
<1> QED BY <1>6, <1>7, <1>8 DEF ProjectedFileNames

\* What is read in such a cluster is counted, or is uncounted for one of the
\* three reasons.
LEMMA ReadIsCounted ==
    ASSUME NEW c, NEW u, NEW doc, NEW k \in DOMAIN u.form, WellSpelt(u), Mountable(c),
           k \in KeysSupplied(c, u, doc, AsRendered), k \notin doc.keys
    PROVE  Counted(c, u, k) \/ Uncounted(c, u, k)
<1> DEFINE e == EnvironmentOf(c)
           env == ProcessEnv(c, AsRendered)
<1>1. k # ""
  BY DEF WellSpelt
<1>2. ASSUME NEW n \in PlainVariables(u, env), Supplies(u, EnvTarget(u, n), k)
      PROVE  Counted(c, u, k) \/ Uncounted(c, u, k)
  <2>1. /\ n \in DOMAIN e /\ n \in DOMAIN u.env \cup u.prefixed
        /\ n \notin DOMAIN u.role /\ n \notin DOMAIN u.envFile
    BY AsShown DEF PlainVariables, FileVariables
  <2>2. CASE n \in DOMAIN u.env
    <3>1. n \in Kind(e, u, "KeyEnv") /\ u.env[n] = k
      BY <1>2, <2>1, <2>2 DEF Kind, Names, Classify, EnvTarget, Target, Supplies
    <3> QED BY <3>1 DEF Counted
  <2>3. CASE n \notin DOMAIN u.env /\ n \in DOMAIN Aliases
    <3>1. Aliases[n] = k
      BY <1>2, <2>3 DEF EnvTarget, Target, Supplies
    <3> QED BY <2>1, <2>3, <3>1 DEF Uncounted
  <2>4. CASE n \notin DOMAIN u.env /\ n \notin DOMAIN Aliases
    <3>1. n \in DOMAIN u.extends["env"] /\ EnvTarget(u, n) = u.extends["env"][n]
      BY <1>1, <1>2, <2>4 DEF EnvTarget, Target, Supplies
    <3>2. k \in ContainerOf(u, "env", n)
      BY <1>2, <3>1, LeafOfAMap, Zenon DEF Spellings
    <3>3. n \in Kind(e, u, "Prefixed")
      BY <2>1, <2>4 DEF Kind, Names, Classify
    <3> QED BY <3>2, <3>3 DEF Uncounted
  <2> QED BY <2>2, <2>3, <2>4
<1>3. ASSUME NEW f \in SecretsPresented(c, u, AsRendered, env), Supplies(u, SecretTarget(u, f), k)
      PROVE  Counted(c, u, k) \/ Uncounted(c, u, k)
  <2>1. PICK n \in Configured(u, env) : f \in FilesIn(c, AsRendered, env[n].path)
    <3> DEFINE F(n) == FilesIn(c, AsRendered, env[n].path)
    <3>1. f \in UNION {F(n) : n \in Configured(u, env)}
      BY DEF SecretsPresented
    <3> HIDE DEF F
    <3>2. PICK n \in Configured(u, env) : f \in F(n)
      BY <3>1, Zenon
    <3> QED BY <3>2 DEF F
  <2>2. PICK m \in c.mounts : m.path = env[n].path /\ f \in ProjectedFileNames(c, m.volume)
    BY <2>1, FilesAsShown
  <2>3. m.path \in SecretsDir(e, u)
    BY <2>1, <2>2, AsShown DEF Configured, SecretsDir, SecretsDirVariable, Kind, Names, Classify
  <2>4. CASE k \in Owner(u, f)
    <3>1. CASE [dir |-> m.path, name |-> f] \in SecretMounts(c)
      BY <2>3, <2>4, <3>1 DEF Counted
    <3>2. CASE [dir |-> m.path, name |-> f] \notin SecretMounts(c)
      BY <2>2, <2>4, <3>2 DEF Uncounted
    <3> QED BY <3>1, <3>2
  <2>5. CASE f \in DOMAIN u.secretsFile
    <3>1. k \in Owner(u, f)
      BY <1>3, <2>5 DEF Owner, SecretTarget, Target, Supplies
    <3> QED BY <2>4, <3>1
  <2>6. CASE f \notin DOMAIN u.secretsFile /\ f \in DOMAIN Aliases
    <3>1. Aliases[f] = k
      BY <1>3, <2>6 DEF SecretTarget, Target, Supplies
    <3>2. f \in UNION {ProjectedFileNames(c, x.volume) : x \in c.mounts}
      BY <2>2, Zenon
    <3> QED BY <2>6, <3>1, <3>2 DEF Uncounted
  <2>7. CASE f \notin DOMAIN u.secretsFile /\ f \notin DOMAIN Aliases
    <3>1. f \in DOMAIN u.extends["secrets_file"]
          /\ SecretTarget(u, f) = u.extends["secrets_file"][f]
      BY <1>1, <1>3, <2>7 DEF SecretTarget, Target, Supplies
    <3>2. k \in ContainerOf(u, "secrets_file", f)
      BY <1>3, <3>1, LeafOfAMap, Zenon DEF Spellings
    <3> QED BY <2>4, <2>7, <3>2 DEF Owner
  <2> QED BY <2>5, <2>6, <2>7
<1>4. ASSUME NEW n \in FileVariables(u, env), Supplies(u, FileTarget(u, n), k)
      PROVE  Counted(c, u, k) \/ Uncounted(c, u, k)
  <2>1. n \in DOMAIN e /\ n \notin DOMAIN u.role /\ n \notin DOMAIN u.env
    BY AsShown, FilesHaveTheirOwn DEF FileVariables
  <2>2. CASE n \in DOMAIN u.envFile
    <3>1. n \in Kind(e, u, "KeyEnvFile") /\ u.envFile[n] = k
      BY <1>4, <2>1, <2>2 DEF Kind, Names, Classify, FileTarget, Supplies
    <3> QED BY <3>1 DEF Counted
  <2>3. CASE n \notin DOMAIN u.envFile
    <3>1. n \in DOMAIN u.leafFiles /\ FileTarget(u, n) = u.leafFiles[n]
      BY <2>3 DEF FileVariables, FileTarget
    <3>2. k \in ContainerOf(u, "env", n) /\ n \in u.prefixed
      BY <1>4, <3>1, FileOfAMap
    <3>3. n \in Kind(e, u, "Prefixed")
      BY <2>1, <2>3, <3>2 DEF Kind, Names, Classify
    <3> QED BY <3>2, <3>3 DEF Uncounted
  <2> QED BY <2>2, <2>3
<1> HIDE DEF e, env
<1> QED BY <1>2, <1>3, <1>4, SuppliedBySpelling DEF env

-----------------------------------------------------------------------------
\* What a container, and what a document, is counted to give an image.
Served(ch, v, place, i, k) ==
    LET held == At(ch.renders[v], place)
    IN  held.image = i /\ Counted(held.spec, ch.images[held.image], k)

Written(ch, v, d, i, k) ==
    /\ d \in DOMAIN ch.renders[v].documents /\ i \in ch.documents[d].images
    /\ k \in ch.renders[v].documents[d] \cap DOMAIN ch.images[i].form

\* A credential one of its contracts is counted to be given.
Delivered(ch, c) ==
    \E v \in DOMAIN ch.renders : \E i \in c.contracts :
        \/ \E place \in Scanned(ch, v) : Served(ch, v, place, i, c.path)
        \/ \E d \in Current(ch) : Written(ch, v, d, i, c.path)

\* A supply says to whom, and of which key.
LEMMA SupplySays ==
    ASSUME NEW label, NEW paths, NEW channel
    PROVE  /\ \A s \in Supply(label, paths, channel) : s.contract = label /\ s.path \in paths
           /\ \A k \in paths : \E s \in Supply(label, paths, channel) :
                 s.contract = label /\ s.path = k
<1> DEFINE of(p) == [contract |-> label, path |-> p, channel |-> channel]
<1>1. Supply(label, paths, channel) = {of(p) : p \in paths}
  BY DEF Supply
<1>2. \A p : of(p).contract = label /\ of(p).path = p
  OBVIOUS
<1> HIDE DEF of
<1> QED BY <1>1, <1>2

\* The ledger of one container.
LEMMA ContainerLedger ==
    ASSUME NEW ch, NEW v, NEW place, NEW i, NEW k
    PROVE  (\E s \in ScanContainer(ch, v, place).supplied : s.contract = i /\ s.path = k)
               <=> Served(ch, v, place, i, k)
<1> DEFINE held == At(ch.renders[v], place)
           u == ch.images[held.image]
           e == EnvironmentOf(held.spec)
           files == SecretMounts(held.spec)
           owned == {f \in files : Owner(u, f.name) # {}}
           variables == ScanVariables(u, held.image, e)
           filed == UNION {ScanOwned(u, held.image, e, f) : f \in owned}
           of(s) == s.contract = i /\ s.path = k
<1>1. ScanContainer(ch, v, place).supplied = variables \cup filed
  BY DEF ScanContainer
<1>2. (\E s \in variables : of(s)) <=>
          /\ held.image = i
          /\ \/ \E n \in Kind(e, u, "KeyEnv") : u.env[n] = k
             \/ \E n \in Kind(e, u, "KeyEnvFile") : u.envFile[n] = k
  <2> DEFINE own == {u.env[n] : n \in Kind(e, u, "KeyEnv")}
             indirect == {u.envFile[n] : n \in Kind(e, u, "KeyEnvFile")}
  <2>1. variables = Supply(held.image, own, "environment")
                    \cup Supply(held.image, indirect, "indirection")
    BY DEF ScanVariables
  <2>2. (\E s \in variables : of(s)) <=> held.image = i /\ (k \in own \/ k \in indirect)
    <3> HIDE DEF own, indirect, held
    <3> QED BY <2>1, SupplySays
  <2> QED BY <2>2
<1>3. \A f : (\E s \in ScanOwned(u, held.image, e, f) : of(s)) <=>
          /\ held.image = i /\ k \in Owner(u, f.name)
          /\ f.dir \in SecretsDir(e, u) \/ Append(f.dir, f.name) \in Indirect(e, u)
  <2> HIDE DEF held, e, u
  <2> QED BY SupplySays DEF ScanOwned
<1>4. (\E s \in filed : of(s)) <=> \E f \in owned : \E s \in ScanOwned(u, held.image, e, f) : of(s)
  <2> HIDE DEF owned, held, e, u, of
  <2> QED BY Zenon
<1>5. (\E s \in filed : of(s)) <=>
          /\ held.image = i
          /\ \E f \in files : /\ k \in Owner(u, f.name)
                               /\ \/ f.dir \in SecretsDir(e, u)
                                  \/ Append(f.dir, f.name) \in Indirect(e, u)
  <2> HIDE DEF files, held, e, u, of, filed
  <2> QED BY <1>3, <1>4
<1>6. (\E s \in ScanContainer(ch, v, place).supplied : of(s)) <=>
          (\E s \in variables : of(s)) \/ \E s \in filed : of(s)
  <2> HIDE DEF variables, filed, of
  <2> QED BY <1>1
<1>7. Served(ch, v, place, i, k) <=> held.image = i /\ Counted(held.spec, u, k)
  BY DEF Served
<1> HIDE DEF variables, filed
<1> QED BY <1>2, <1>5, <1>6, <1>7, Zenon DEF Counted

\* The ledger of one render: its containers', and its documents'.
LEMMA RenderLedger ==
    ASSUME NEW ch, NEW v, NEW i, NEW k
    PROVE  (\E s \in ScanRender(ch, v).supplied : s.contract = i /\ s.path = k) <=>
               \/ \E place \in Scanned(ch, v) : Served(ch, v, place, i, k)
               \/ \E d \in Current(ch) : Written(ch, v, d, i, k)
<1> DEFINE of(s) == s.contract = i /\ s.path = k
           render == ch.renders[v]
           scans == {ScanContainer(ch, v, p) : p \in Scanned(ch, v)}
           containers == UNION {x.supplied : x \in scans}
           documents == UNION {ScanDocument(ch, d, render) : d \in Current(ch)}
<1>1. ScanRender(ch, v).supplied = containers \cup documents
  BY DEF ScanRender
<1>2. (\E s \in containers : of(s)) <=>
          \E place \in Scanned(ch, v) : \E s \in ScanContainer(ch, v, place).supplied : of(s)
  <2> HIDE DEF of
  <2> QED BY Zenon
<1>3. \A d : (\E s \in ScanDocument(ch, d, render) : of(s)) <=> Written(ch, v, d, i, k)
  <2> TAKE d
  <2> DEFINE told(j) == Supply(j, render.documents[d] \cap DOMAIN ch.images[j].form, "document")
  <2>1. CASE d \notin DOMAIN render.documents
    BY <2>1 DEF ScanDocument, Written
  <2>2. CASE d \in DOMAIN render.documents
    <3>1. ScanDocument(ch, d, render) = UNION {told(j) : j \in ch.documents[d].images}
      BY <2>2 DEF ScanDocument
    <3>2. (\E s \in ScanDocument(ch, d, render) : of(s)) <=>
              \E j \in ch.documents[d].images : \E s \in told(j) : of(s)
      <4> HIDE DEF told, of, render
      <4> QED BY <3>1, Zenon
    <3>3. \A j : (\E s \in told(j) : of(s)) <=>
                    i = j /\ k \in render.documents[d] \cap DOMAIN ch.images[j].form
      BY SupplySays
    <3>4. Written(ch, v, d, i, k) <=>
              i \in ch.documents[d].images /\ k \in render.documents[d] \cap DOMAIN ch.images[i].form
      BY <2>2 DEF Written
    <3> HIDE DEF told, of, render
    <3> QED BY <3>2, <3>3, <3>4
  <2> QED BY <2>1, <2>2
<1>4. (\E s \in documents : of(s)) <=>
          \E d \in Current(ch) : \E s \in ScanDocument(ch, d, render) : of(s)
  <2> HIDE DEF of, render
  <2> QED BY Zenon
<1>5. \A place : (\E s \in ScanContainer(ch, v, place).supplied : of(s))
                    <=> Served(ch, v, place, i, k)
  BY ContainerLedger
<1>6. (\E s \in ScanRender(ch, v).supplied : of(s)) <=>
          (\E s \in containers : of(s)) \/ \E s \in documents : of(s)
  <2> HIDE DEF containers, documents, of
  <2> QED BY <1>1
<1> HIDE DEF containers, documents
<1> QED BY <1>2, <1>3, <1>4, <1>5, <1>6, Zenon

-----------------------------------------------------------------------------
\* What one container is found to be given wrongly is none of a credential.
LEMMA FoundIsOfFiles ==
    ASSUME NEW ch, NEW v, NEW place, NEW s \in ScanContainer(ch, v, place).found
    PROVE  s.kind \in {"elevated", "over_projected", "unclaimed"}
<1> DEFINE held == At(ch.renders[v], place)
           u == ch.images[held.image]
           e == EnvironmentOf(held.spec)
           files == SecretMounts(held.spec)
           owned == {f \in files : Owner(u, f.name) # {}}
           elevated(f) == {Reported("elevated", "warning", v, place, [f EXCEPT !.name = k]) :
                              k \in Elevated(u, f)}
           stranger(f) == ScanStranger(ch, v, place, u, e, f)
<1>1. s \in (UNION {elevated(f) : f \in owned}) \cup UNION {stranger(f) : f \in files \ owned}
  BY DEF ScanContainer
<1>2. (\E f : s \in elevated(f)) \/ (\E f : s \in stranger(f))
  <2> HIDE DEF elevated, stranger, files, owned
  <2> QED BY <1>1, Zenon
<1>3. ASSUME NEW f, s \in elevated(f) PROVE s.kind = "elevated"
  BY <1>3 DEF Reported
<1>4. ASSUME NEW f, s \in stranger(f) PROVE s.kind \in {"over_projected", "unclaimed"}
  BY <1>4 DEF ScanStranger, Reported
<1> QED BY <1>2, <1>3, <1>4

\* What is collected is every credential the ledger lacks.
LEMMA CollectIs ==
    ASSUME NEW ch, NEW ledger, NEW c \in Credentials(DeclaredCredentials(ch))
    PROVE  (\E s \in Collect(ch, ledger) :
               s.kind \in {"undeliverable", "unsupplied"} /\ s.at = c)
               <=> ~\E s \in ledger : s.path = c.path /\ s.contract \in c.contracts
<1> DEFINE line(x) == Reported(IF NamesCredential(ch, x) THEN "unsupplied" ELSE "undeliverable",
                               IF NamesCredential(ch, x) THEN "warning" ELSE "error",
                               "", Nowhere, x)
           lacking == {x \in Credentials(DeclaredCredentials(ch)) :
                          ~\E s \in ledger : s.path = x.path /\ s.contract \in x.contracts}
<1>1. Collect(ch, ledger) = {line(x) : x \in lacking}
  BY DEF Collect
<1>2. \A x : line(x).at = x /\ line(x).kind \in {"undeliverable", "unsupplied"}
  BY DEF Reported
<1>3. c \in lacking <=> ~\E s \in ledger : s.path = c.path /\ s.contract \in c.contracts
  OBVIOUS
<1> HIDE DEF line, lacking
<1> QED BY <1>1, <1>2, <1>3

\* A credential is reported exactly when no ledger of a render has it.
LEMMA OutstandingIs ==
    ASSUME NEW ch, Current(ch) # {}, DOMAIN ch.renders # {},
           NEW c \in Credentials(DeclaredCredentials(ch))
    PROVE  (\E s \in ReconcileChart(ch) : s.kind \in {"undeliverable", "unsupplied"} /\ s.at = c)
               <=> ~Delivered(ch, c)
<1> DEFINE scans == {ScanRender(ch, v) : v \in DOMAIN ch.renders}
           ledger == UNION {s.supplied : s \in scans}
           found == UNION {s.found : s \in scans}
           stale == Note("stale", DOMAIN ch.documents \ Current(ch))
           missing(s) == s.kind \in {"undeliverable", "unsupplied"} /\ s.at = c
<1>1. ReconcileChart(ch) = stale \cup found \cup Collect(ch, ledger)
  BY DEF ReconcileChart
<1>2. \A s \in stale : ~missing(s)
  <2>1. \A p : Reported("stale", "warning", "", Nowhere, p).kind = "stale"
    BY DEF Reported
  <2>2. \A s \in stale : s.kind = "stale"
    BY <2>1, Zenon DEF Note
  <2> HIDE DEF stale
  <2> QED BY <2>2
<1>3. \A s \in found : ~missing(s)
  <2> SUFFICES ASSUME NEW s \in found PROVE s.kind \in {"elevated", "over_projected", "unclaimed"}
    <3> HIDE DEF found
    <3> QED OBVIOUS
  <2>1. PICK v \in DOMAIN ch.renders : s \in ScanRender(ch, v).found
    BY Zenon
  <2>2. PICK place \in Scanned(ch, v) : s \in ScanContainer(ch, v, place).found
    <3> DEFINE G(p) == ScanContainer(ch, v, p)
               each == {G(p) : p \in Scanned(ch, v)}
    <3>1. s \in UNION {x.found : x \in each}
      BY <2>1 DEF ScanRender
    <3> HIDE DEF G
    <3>2. PICK p \in Scanned(ch, v) : s \in G(p).found
      BY <3>1, Zenon
    <3> QED BY <3>2 DEF G
  <2> HIDE DEF found
  <2> QED BY <2>2, FoundIsOfFiles
<1>4. (\E s \in ledger : s.path = c.path /\ s.contract \in c.contracts) <=> Delivered(ch, c)
  <2> DEFINE of(s) == s.path = c.path /\ s.contract \in c.contracts
  <2>1. (\E s \in ledger : of(s)) <=>
            \E v \in DOMAIN ch.renders : \E s \in ScanRender(ch, v).supplied : of(s)
    <3> HIDE DEF of
    <3> QED BY Zenon
  <2>2. \A v : (\E s \in ScanRender(ch, v).supplied : of(s)) <=>
            \E i \in c.contracts : \E s \in ScanRender(ch, v).supplied :
               s.contract = i /\ s.path = c.path
    BY Zenon
  <2>3. \A v, i : (\E s \in ScanRender(ch, v).supplied : s.contract = i /\ s.path = c.path) <=>
            \/ \E place \in Scanned(ch, v) : Served(ch, v, place, i, c.path)
            \/ \E d \in Current(ch) : Written(ch, v, d, i, c.path)
    BY RenderLedger
  <2> DEFINE at(v, i) == \/ \E place \in Scanned(ch, v) : Served(ch, v, place, i, c.path)
                         \/ \E d \in Current(ch) : Written(ch, v, d, i, c.path)
             in(v, i) == \E s \in ScanRender(ch, v).supplied : s.contract = i /\ s.path = c.path
  <2>4. \A v : (\E s \in ScanRender(ch, v).supplied : of(s)) <=> \E i \in c.contracts : at(v, i)
    <3>1. \A v : (\E s \in ScanRender(ch, v).supplied : of(s)) <=> \E i \in c.contracts : in(v, i)
      BY <2>2
    <3>2. \A v, i : in(v, i) <=> at(v, i)
      BY <2>3
    <3> HIDE DEF of, at, in
    <3> QED BY <3>1, <3>2
  <2>5. Delivered(ch, c) <=> \E v \in DOMAIN ch.renders : \E i \in c.contracts : at(v, i)
    BY DEF Delivered
  <2>6. (\E s \in ledger : of(s)) <=> Delivered(ch, c)
    <3> HIDE DEF ledger, of, at
    <3> QED BY <2>1, <2>4, <2>5
  <2> QED BY <2>6
<1>5. (\E s \in Collect(ch, ledger) : missing(s)) <=>
          ~\E s \in ledger : s.path = c.path /\ s.contract \in c.contracts
  <2> HIDE DEF ledger
  <2> QED BY CollectIs
<1>6. (\E s \in ReconcileChart(ch) : missing(s)) <=> \E s \in Collect(ch, ledger) : missing(s)
  <2> HIDE DEF stale, found, ledger, missing
  <2> QED BY <1>1, <1>2, <1>3, Zenon
<1> HIDE DEF ledger
<1> QED BY <1>4, <1>5, <1>6

\* Who declares a credential.
LEMMA DeclaredIs ==
    ASSUME NEW ch, NEW y \in DeclaredCredentials(ch)
    PROVE  \E d \in DOMAIN ch.documents : \E i \in ch.documents[d].images :
              y.contract = i /\ y.path \in ch.images[i].secret
<1> DEFINE entry(i, k) == [path |-> k, contract |-> i,
                           spelt |-> <<SpellingsOf(ch.images[i].secretsFile, k),
                                       SpellingsOf(ch.images[i].env, k),
                                       SpellingsOf(ch.images[i].envFile, k)>>,
                           required |-> k \in ch.images[i].required]
           of(i) == {entry(i, k) : k \in ch.images[i].secret}
           in(d) == UNION {of(i) : i \in ch.documents[d].images}
<1>1. y \in UNION {in(d) : d \in DOMAIN ch.documents}
  BY DEF DeclaredCredentials
<1>2. PICK d \in DOMAIN ch.documents : y \in in(d)
  <2> HIDE DEF in
  <2> QED BY <1>1, Zenon
<1>3. PICK i \in ch.documents[d].images : y \in of(i)
  <2> HIDE DEF of
  <2> QED BY <1>2, Zenon
<1>4. PICK k \in ch.images[i].secret : y = entry(i, k)
  BY <1>3, Zenon
<1>5. y.contract = i /\ y.path = k
  BY <1>4
<1> QED BY <1>5

\* Where there is a credential, a document declares it.
LEMMA SomethingDeclares ==
    ASSUME NEW ch, Current(ch) = DOMAIN ch.documents,
           NEW c \in Credentials(DeclaredCredentials(ch))
    PROVE  Current(ch) # {}
<1>1. PICK y \in DeclaredCredentials(ch) : TRUE
  BY DEF Credentials
<1> QED BY <1>1, DeclaredIs

\* A credential is a secret key of each image it is of.
LEMMA CredentialIs ==
    ASSUME NEW ch, ChartOfPods(ch), NEW c \in Credentials(DeclaredCredentials(ch)),
           NEW i \in c.contracts
    PROVE  /\ i \in DOMAIN ch.images /\ WellSpelt(ch.images[i])
           /\ c.path \in DOMAIN ch.images[i].form
<1> DEFINE declared == DeclaredCredentials(ch)
           same(x) == {y \in declared : y.path = x.path /\ y.spelt = x.spelt}
           merged(x) == [path |-> x.path, spelt |-> x.spelt,
                         contracts |-> {y.contract : y \in same(x)},
                         required |-> \E y \in same(x) : y.required]
<1>1. PICK x \in declared : c = merged(x)
  <2>1. c \in {merged(x) : x \in declared}
    BY DEF Credentials
  <2> HIDE DEF declared, merged
  <2> QED BY <2>1, Zenon
<1>2. PICK y \in declared : y.path = c.path /\ y.contract = i
  <2>1. c.path = x.path /\ c.contracts = {y.contract : y \in same(x)}
    <3> HIDE DEF same
    <3> QED BY <1>1
  <2> HIDE DEF declared, merged
  <2> QED BY <2>1
<1>3. PICK d \in DOMAIN ch.documents : \E j \in ch.documents[d].images :
          y.contract = j /\ y.path \in ch.images[j].secret
  BY <1>2, DeclaredIs
<1>4. i \in DOMAIN ch.images /\ c.path \in ch.images[i].secret
  BY <1>2, <1>3 DEF ChartOfPods
<1>5. WellSpelt(ch.images[i])
  BY <1>4 DEF ChartOfPods
<1>6. ch.images[i].secret \subseteq DOMAIN ch.images[i].form
  BY <1>5 DEF WellSpelt
<1> QED BY <1>4, <1>5, <1>6

\* A container that is scanned is of a pod, and its image one the chart vendors.
LEMMA ScannedIs ==
    ASSUME NEW ch, ChartOfPods(ch), NEW v \in DOMAIN ch.renders, NEW place \in Scanned(ch, v)
    PROVE  Mountable(At(ch.renders[v], place).spec)
<1> DEFINE workloads == ch.renders[v].workloads
           G(w) == {[workload |-> w, name |-> n] : n \in DOMAIN workloads[w]}
<1>1. place \in UNION {G(w) : w \in DOMAIN workloads}
  BY DEF Scanned, ContainersOf
<1>2. PICK w \in DOMAIN workloads : place \in G(w)
  <2> HIDE DEF G
  <2> QED BY <1>1, Zenon
<1>3. place.workload = w /\ place.name \in DOMAIN workloads[w]
  BY <1>2
<1> QED BY <1>2, <1>3 DEF At, ChartOfPods

\* What is counted reaches a pod, stands in a document or is lent to another key.
LEMMA DeliveredArrives ==
    ASSUME ChartOfPods(chart), NEW c \in Credentials(DeclaredCredentials(chart)),
           Delivered(chart, c)
    PROVE  Arrives(c) \/ Carried(c) \/ Borrowed(c)
<1>1. PICK v \in DOMAIN chart.renders, i \in c.contracts :
          \/ \E place \in Scanned(chart, v) : Served(chart, v, place, i, c.path)
          \/ \E d \in Current(chart) : Written(chart, v, d, i, c.path)
  BY DEF Delivered
<1>2. ASSUME NEW place \in Scanned(chart, v), Served(chart, v, place, i, c.path)
      PROVE  Arrives(c) \/ Borrowed(c)
  <2> DEFINE held == At(chart.renders[v], place)
             u == chart.images[held.image]
  <2>1. held.image = i /\ Counted(held.spec, u, c.path)
    BY <1>2 DEF Served
  <2>2. WellSpelt(u) /\ Mountable(held.spec)
    BY <2>1, CredentialIs, ScannedIs
  <2>3. c.path \in Reads(v, place, AsRendered) \/ LentTo(held.spec, u, c.path)
    BY <2>1, <2>2, CountedIsRead DEF Reads
  <2>4. CASE c.path \in Reads(v, place, AsRendered)
    BY <2>1, <2>4 DEF Arrives
  <2>5. CASE LentTo(held.spec, u, c.path)
    BY <2>1, <2>5 DEF Borrowed, LentTo
  <2> QED BY <2>3, <2>4, <2>5
<1>3. ASSUME NEW d \in Current(chart), Written(chart, v, d, i, c.path) PROVE Carried(c)
  BY <1>3 DEF Carried, Written, Current
<1> QED BY <1>1, <1>2, <1>3

\* What reaches a pod is counted, but by a way the scan overlooks.
LEMMA ArrivesDelivered ==
    ASSUME ChartOfPods(chart), Current(chart) = DOMAIN chart.documents,
           NEW c \in Credentials(DeclaredCredentials(chart)), Arrives(c)
    PROVE  Delivered(chart, c) \/ Overlooked(c)
<1>0. PICK v \in DOMAIN chart.renders : \E place \in Scanned(chart, v) :
          /\ At(chart.renders[v], place).image \in c.contracts
          /\ c.path \in Reads(v, place, AsRendered)
  BY DEF Arrives
<1>1. PICK place \in Scanned(chart, v) :
          /\ At(chart.renders[v], place).image \in c.contracts
          /\ c.path \in Reads(v, place, AsRendered)
  BY <1>0
<1> DEFINE held == At(chart.renders[v], place)
           u == chart.images[held.image]
           mounted == held.mounted \cap DOMAIN chart.renders[v].documents
           keys == UNION {chart.renders[v].documents[d] : d \in mounted}
           doc == [known |-> TRUE, keys |-> keys]
<1>2. WellSpelt(u) /\ c.path \in DOMAIN u.form /\ Mountable(held.spec)
  BY <1>1, CredentialIs, ScannedIs
<1>3. CASE c.path \in keys
  <2>1. PICK d \in mounted : c.path \in chart.renders[v].documents[d]
    BY <1>3
  <2>2. CASE d \in DOMAIN chart.documents /\ held.image \in chart.documents[d].images
    <3>1. Written(chart, v, d, held.image, c.path)
      BY <1>2, <2>1, <2>2 DEF Written
    <3> QED BY <1>1, <2>2, <3>1 DEF Delivered
  <2>3. CASE ~(d \in DOMAIN chart.documents /\ held.image \in chart.documents[d].images)
    BY <1>1, <2>1, <2>3 DEF Overlooked
  <2> QED BY <2>2, <2>3
<1>4. CASE c.path \notin keys
  <2>1. c.path \in KeysSupplied(held.spec, u, doc, AsRendered) /\ c.path \notin doc.keys
    BY <1>1, <1>4 DEF Reads
  <2>2. Counted(held.spec, u, c.path) \/ Uncounted(held.spec, u, c.path)
    <3> HIDE DEF doc, held, u
    <3> QED BY <1>2, <2>1, ReadIsCounted
  <2>3. CASE Counted(held.spec, u, c.path)
    <3>1. Served(chart, v, place, held.image, c.path)
      BY <2>3 DEF Served
    <3> QED BY <1>1, <3>1 DEF Delivered
  <2>4. CASE Uncounted(held.spec, u, c.path)
    BY <1>1, <2>4 DEF Overlooked
  <2> QED BY <2>2, <2>3, <2>4
<1> QED BY <1>3, <1>4

\* A credential `secrets` reports undelivered reaches no pod of any values file,
\* whatever the chart, but by a way the scan does not count (secrets.rs:580-705);
\* one it does not report is read by an image that declares it, or stands in its
\* document, or a file of its name is read for another key.
THEOREM CredentialsAreAccounted == SurveySpec => []UndeliveredExactly
<1>1. SurveyInv => UndeliveredExactly
  <2> SUFFICES ASSUME SurveyInv, Surveyed,
                      Current(chart) = DOMAIN chart.documents, DOMAIN chart.renders # {},
                      NEW c \in Credentials(DeclaredCredentials(chart))
               PROVE  IF \E s \in Outstanding : s.at = c THEN Arrives(c) => Overlooked(c)
                      ELSE Arrives(c) \/ Carried(c) \/ Borrowed(c)
    BY DEF UndeliveredExactly
  <2>1. surface = ReconcileChart(chart) /\ ChartOfPods(chart)
    BY SurveyAssumption DEF SurveyInv, Surveyed
  <2>2. Current(chart) # {}
    BY SomethingDeclares
  <2>3. (\E s \in Outstanding : s.at = c) <=> ~Delivered(chart, c)
    <3>1. (\E s \in Outstanding : s.at = c) <=>
              \E s \in ReconcileChart(chart) :
                 s.kind \in {"undeliverable", "unsupplied"} /\ s.at = c
      BY <2>1, Zenon DEF Outstanding
    <3> QED BY <2>2, <3>1, OutstandingIs
  <2> QED BY <2>1, <2>3, DeliveredArrives, ArrivesDelivered
<1> QED BY <1>1, SurveyInvariance, PTL
=============================================================================
