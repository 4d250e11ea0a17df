------------------------- MODULE ContractUnionProofs -------------------------
(***************************************************************************)
(* The merge of contracts, for any contracts and any number of them.  What *)
(* the accumulator holds is a function of the SET of contracts merged, not *)
(* of the order they came in: Holds says so of the entries, Describes of   *)
(* the schema, IsUnion of the whole.  The three properties follow.         *)
(***************************************************************************)
EXTENDS ContractUnion, TLAPS

\* Two entries of one section and one name.
Same(e, f) == e.section = f.section /\ e.name = f.name

IsEntry(e) ==
    /\ e.required \in BOOLEAN
    /\ e = [section |-> e.section, name |-> e.name, fields |-> e.fields,
            required |-> e.required]

\* Entries that can be merged.
Named(E) == \A e \in E : e.name # "none"
Alike(E) == \A e, f \in E : Same(e, f) => e.fields = f.fields
Agreeing(E) == Named(E) /\ Alike(E)

\* An entry held once the entries of E are merged.
JoinedIn(e, E) ==
    /\ IsEntry(e)
    /\ \E f \in E : Same(e, f) /\ f.fields = e.fields
    /\ e.required <=> \E f \in E : Same(e, f) /\ f.required

Holds(held, E) ==
    /\ held \in Seq(Range(held))
    /\ \A i \in 1..Len(held) : JoinedIn(held[i], E)
    /\ \A e \in E : \E i \in 1..Len(held) : Same(held[i], e)

\* Lemma: an entry is merged when it agrees with every entry before it, and then
\* the entries held are those of one more.
LEMMA EntryMerged ==
    ASSUME NEW E, NEW held, NEW entry, IsEntry(entry), Agreeing(E), Holds(held, E)
    PROVE  /\ MergeEntry(held, entry).ok <=> Agreeing(E \cup {entry})
           /\ Agreeing(E \cup {entry}) => Holds(MergeEntry(held, entry).held, E \cup {entry})
<1> DEFINE at == Position(held, entry)
           n == Len(held)
           more == MergeEntry(held, entry).held
<1>0. n \in Nat /\ at = {i \in 1..n : Same(held[i], entry)}
  BY DEF Holds, Position, Same
<1>1. MergeEntry(held, entry).ok <=>
         entry.name # "none" /\ \A i \in at : held[i].fields = entry.fields
  BY DEF MergeEntry
<1>2. more = IF at = {} THEN Append(held, entry)
             ELSE [i \in 1..n |-> IF i \in at
                                  THEN [held[i] EXCEPT !.required = @ \/ entry.required]
                                  ELSE held[i]]
  BY DEF MergeEntry
<1> HIDE DEF at, n, more
<1>3. ASSUME Agreeing(E \cup {entry}) PROVE MergeEntry(held, entry).ok
  <2>1. ASSUME NEW i \in at PROVE held[i].fields = entry.fields
    <3>1. i \in 1..n /\ Same(held[i], entry)
      BY <1>0
    <3>2. PICK f \in E : Same(held[i], f) /\ f.fields = held[i].fields
      BY <3>1 DEF Holds, JoinedIn, n
    <3>3. Same(f, entry)
      BY <3>1, <3>2 DEF Same
    <3> QED BY <1>3, <3>2, <3>3 DEF Agreeing, Alike
  <2> QED BY <1>1, <1>3, <2>1 DEF Agreeing, Named
<1>4. ASSUME MergeEntry(held, entry).ok PROVE Agreeing(E \cup {entry})
  <2>1. ASSUME NEW e \in E, Same(e, entry) PROVE e.fields = entry.fields
    <3>1. PICK i \in 1..n : Same(held[i], e)
      BY DEF Holds, n
    <3>2. i \in at
      BY <1>0, <2>1, <3>1 DEF Same
    <3>3. PICK f \in E : Same(held[i], f) /\ f.fields = held[i].fields
      BY <3>1 DEF Holds, JoinedIn, n
    <3>4. e.fields = f.fields
      BY <3>1, <3>3 DEF Agreeing, Alike, Same
    <3> QED BY <1>1, <1>4, <3>2, <3>3, <3>4
  <2>2. \A e, f : Same(e, f) => Same(f, e)
    BY DEF Same
  <2> QED BY <1>1, <1>4, <2>1, <2>2 DEF Agreeing, Named, Alike
<1>5. ASSUME Agreeing(E \cup {entry}) PROVE Holds(more, E \cup {entry})
  <2>1. ASSUME NEW x, JoinedIn(x, E), ~ Same(x, entry)
        PROVE  JoinedIn(x, E \cup {entry})
    BY <2>1 DEF JoinedIn
  <2>2. CASE at = {}
    <3>1. more = Append(held, entry) /\ held \in Seq(Range(held) \cup {entry})
      BY <1>2, <2>2 DEF Holds
    <3>2. more \in Seq(Range(held) \cup {entry}) /\ Len(more) = n + 1
          /\ more[n + 1] = entry /\ \A i \in 1..n : more[i] = held[i]
      BY <3>1, <1>0 DEF n
    <3>3. more \in Seq(Range(more))
      BY <3>2 DEF Range
    <3>4. \A e \in E : ~ Same(e, entry)
      BY <1>0, <2>2 DEF Holds, Same, n
    <3>5. JoinedIn(entry, E \cup {entry})
      BY <3>4 DEF JoinedIn, Same, IsEntry
    <3>6. ASSUME NEW i \in 1..n PROVE JoinedIn(more[i], E \cup {entry})
      BY <1>0, <2>1, <2>2, <3>2 DEF Holds, n
    <3>7. ASSUME NEW e \in E \cup {entry} PROVE \E i \in 1..Len(more) : Same(more[i], e)
      <4>1. CASE e = entry
        BY <3>2, <1>0, <4>1 DEF Same
      <4>2. CASE e \in E
        <5>1. PICK i \in 1..n : Same(held[i], e)
          BY <4>2 DEF Holds, n
        <5> QED BY <5>1, <3>2, <1>0
      <4> QED BY <4>1, <4>2
    <3>8. \A i \in 1..Len(more) : i \in 1..n \/ i = n + 1
      BY <3>2, <1>0
    <3> QED BY <3>2, <3>3, <3>5, <3>6, <3>7, <3>8 DEF Holds
  <2>3. CASE at # {}
    <3>1. more = [i \in 1..n |-> IF i \in at
                                 THEN [held[i] EXCEPT !.required = @ \/ entry.required]
                                 ELSE held[i]]
      BY <1>2, <2>3
    <3>2. more \in Seq(Range(more)) /\ Len(more) = n
      <4>1. DOMAIN more = 1..n /\ \A i \in 1..n : more[i] \in Range(more)
        BY <3>1 DEF Range
      <4>2. more = [i \in 1..n |-> more[i]]
        BY <3>1
      <4> QED BY <1>0, <4>1, <4>2
    <3>3. ASSUME NEW i \in 1..n PROVE JoinedIn(more[i], E \cup {entry}) /\ Same(more[i], held[i])
      <4>0. JoinedIn(held[i], E)
        BY DEF Holds, n
      <4>1. CASE i \notin at
        BY <1>0, <2>1, <3>1, <4>0, <4>1 DEF Same
      <4>2. CASE i \in at
        <5>1. Same(held[i], entry)
          BY <1>0, <4>2
        <5>2. more[i] = [section |-> held[i].section, name |-> held[i].name,
                         fields |-> held[i].fields,
                         required |-> held[i].required \/ entry.required]
          BY <3>1, <4>0, <4>2 DEF JoinedIn, IsEntry
        <5>3. IsEntry(more[i]) /\ Same(more[i], held[i]) /\ more[i].fields = held[i].fields
          BY <5>2 DEF IsEntry, Same
        <5>4. more[i].required <=> held[i].required \/ entry.required
          <6> DEFINE v == held[i].required \/ entry.required
          <6>1. more[i].required = v
            BY <5>2
          <6> QED BY <6>1
        <5>5. Same(more[i], entry) /\ \A f : Same(more[i], f) <=> Same(held[i], f)
          BY <5>1, <5>3 DEF Same
        <5> QED BY <4>0, <5>3, <5>4, <5>5 DEF JoinedIn
      <4> QED BY <4>1, <4>2
    <3>4. ASSUME NEW e \in E \cup {entry} PROVE \E i \in 1..n : Same(more[i], e)
      <4>1. PICK i \in 1..n : Same(held[i], e)
        BY <1>0, <2>3 DEF Holds, n
      <4> QED BY <3>3, <4>1 DEF Same
    <3> QED BY <3>2, <3>3, <3>4 DEF Holds
  <2> QED BY <2>2, <2>3
<1> QED BY <1>3, <1>4, <1>5 DEF more

-----------------------------------------------------------------------------
OfEntries == INSTANCE FoldLemmas WITH Op <- MergeNext

\* Entries were merged if those of S agree, and then they are held.
MergedInto(merged, S) ==
    (merged.ok <=> Agreeing(S)) /\ (merged.ok => Holds(merged.held, S))

\* Lemma: the entries of a contract are merged when all of them agree with each
\* other and with those held, and then every one of them is held.
LEMMA EntriesMerged ==
    ASSUME NEW S, NEW held, NEW entries, entries \in Seq(Range(entries)),
           \A e \in Range(entries) : IsEntry(e), Agreeing(S), Holds(held, S)
    PROVE  MergedInto(MergeEntries(held, entries), S \cup Range(entries))
<1> DEFINE n == Len(entries)
           base == [ok |-> TRUE, held |-> held]
           all(k) == S \cup {entries[i] : i \in 1..k}
<1>1. n \in Nat /\ DOMAIN entries = 1..n /\ \A i \in 1..n : IsEntry(entries[i])
  BY DEF Range
<1>2. PICK acc : OfEntries!Chain(acc, base, entries) /\ OfEntries!Fold(base, entries) = acc[n]
  <2> HIDE DEF base, n
  <2> QED BY <1>1, OfEntries!FoldIsChain
<1>3. OfEntries!Fold(base, entries) = MergeEntries(held, entries)
  BY DEF OfEntries!Fold, OfEntries!FoldLeft, FoldLeft, OfEntries!MapThenFoldSet, MapThenFoldSet, OfEntries!Max, Max, MergeEntries
<1>4. acc[0] = base /\ \A k \in 1..n : acc[k] = MergeNext(acc[k - 1], entries[k])
  BY <1>1, <1>2 DEF OfEntries!Chain
<1> DEFINE T == {k \in Nat : k <= n => MergedInto(acc[k], all(k))}
<1>5. 0 \in T
  <2>1. all(0) = S
    OBVIOUS
  <2>2. MergedInto(base, S)
    BY DEF MergedInto
  <2> HIDE DEF all, base
  <2> QED BY <1>4, <2>1, <2>2
<1>6. ASSUME NEW k \in Nat, k \in T PROVE k + 1 \in T
  <2> SUFFICES ASSUME k + 1 <= n PROVE MergedInto(acc[k + 1], all(k + 1))
    OBVIOUS
  <2>1. MergedInto(acc[k], all(k)) /\ acc[k + 1] = MergeNext(acc[k], entries[k + 1])
    BY <1>4, <1>6, <1>1
  <2>2. all(k + 1) = all(k) \cup {entries[k + 1]} /\ IsEntry(entries[k + 1])
    BY <1>1
  <2> HIDE DEF all
  <2>3. CASE acc[k].ok
    <3>1. Agreeing(all(k)) /\ Holds(acc[k].held, all(k))
      BY <2>1, <2>3 DEF MergedInto
    <3>2. acc[k + 1] = MergeEntry(acc[k].held, entries[k + 1])
      BY <2>1, <2>3 DEF MergeNext
    <3> QED BY <2>2, <3>1, <3>2, EntryMerged DEF MergedInto
  <2>4. CASE ~ acc[k].ok
    <3>1. ~ Agreeing(all(k)) /\ acc[k + 1] = acc[k]
      BY <2>1, <2>4 DEF MergeNext, MergedInto
    <3>2. ~ Agreeing(all(k + 1))
      BY <2>2, <3>1 DEF Agreeing, Named, Alike
    <3> QED BY <2>4, <3>1, <3>2 DEF MergedInto
  <2> QED BY <2>3, <2>4
<1>7. n \in T
  <2> HIDE DEF T
  <2> QED BY <1>1, <1>5, <1>6, OfEntries!NatSetInduction
<1>8. all(n) = S \cup Range(entries)
  BY <1>1 DEF Range
<1>9. MergedInto(acc[n], all(n))
  BY <1>1, <1>7
<1> HIDE DEF all, base, n
<1> QED BY <1>2, <1>3, <1>8, <1>9

-----------------------------------------------------------------------------
(* Schemas.                                                                *)

IsSchema(schema) ==
    \A p \in DOMAIN schema : schema[p].properties \in BOOLEAN /\ schema[p].maximum \in Nat

\* The contracts that describe a position.
At(M, p) == {c \in M : p \in DOMAIN c.schema}

Compatible(M) ==
    \A c, d \in M : \A p \in DOMAIN c.schema \cap DOMAIN d.schema :
        ~ Disagree(c.schema[p], d.schema[p])

\* A level holds what the contracts C say of a position: what one requires is
\* required, and the bound and the reference of one are those of the union.
Sums(level, C, p) ==
    /\ level = [properties |-> level.properties, flag |-> level.flag,
                required |-> UNION {c.schema[p].required : c \in C},
                maximum |-> level.maximum, ref |-> level.ref]
    /\ level.properties \in BOOLEAN
    /\ level.properties <=> \E c \in C : c.schema[p].properties
    /\ level.maximum \in Nat
    /\ \A c \in C : /\ c.schema[p].maximum \in {0, level.maximum}
                    /\ c.schema[p].ref \in {"absent", level.ref}
    /\ level.maximum # 0 => \E c \in C : c.schema[p].maximum = level.maximum
    /\ level.ref # "absent" => \E c \in C : c.schema[p].ref = level.ref

Closing(schema, p) ==
    schema[p].properties /\ ~InElement(p) /\ Append(p, "*") \notin DOMAIN schema

Describes(schema, M) ==
    /\ schema = [p \in UNION {DOMAIN c.schema : c \in M} |-> schema[p]]
    /\ \A p \in DOMAIN schema :
          /\ Sums(schema[p], At(M, p), p)
          /\ schema[p].flag = IF Closing(schema, p) THEN "false" ELSE "absent"

\* Lemma: a level merged with one more says what all of them say, if they agree.
LEMMA LevelMerged ==
    ASSUME NEW C, NEW c, NEW p, NEW level, Sums(level, C, p),
           c.schema[p].properties \in BOOLEAN, c.schema[p].maximum \in Nat,
           ~ Disagree(level, c.schema[p])
    PROVE  Sums(MergeLevel(level, c.schema[p]), C \cup {c}, p)
<1> DEFINE merged == MergeLevel(level, c.schema[p])
           properties == level.properties \/ c.schema[p].properties
           req(D) == UNION {d.schema[p].required : d \in D}
<1>0. level.required = req(C)
  BY DEF Sums
<1>1. merged = [properties |-> properties, flag |-> "absent",
                required |-> req(C) \cup c.schema[p].required,
                maximum |-> merged.maximum, ref |-> merged.ref]
  <2> HIDE DEF req
  <2> QED BY <1>0 DEF MergeLevel
<1>2. req(C \cup {c}) = req(C) \cup c.schema[p].required
  OBVIOUS
<1>3. /\ merged.maximum = IF level.maximum = 0 THEN c.schema[p].maximum ELSE level.maximum
      /\ merged.ref = IF level.ref = "absent" THEN c.schema[p].ref ELSE level.ref
  BY DEF MergeLevel
<1> HIDE DEF merged, req
<1>4. merged.properties = properties
  BY <1>1
<1>5. merged.properties \in BOOLEAN
      /\ (merged.properties <=> \E d \in C \cup {c} : d.schema[p].properties)
  BY <1>4 DEF Sums
<1>6. merged = [properties |-> merged.properties, flag |-> merged.flag,
                required |-> req(C \cup {c}), maximum |-> merged.maximum, ref |-> merged.ref]
  <2>1. merged.flag = "absent" /\ merged.required = req(C) \cup c.schema[p].required
    <3> HIDE DEF properties
    <3> QED BY <1>1
  <2>2. merged.required = req(C \cup {c})
    BY <1>2, <2>1
  <2> QED BY <1>1, <1>4, <2>1, <2>2
<1>7. ASSUME NEW d \in C \cup {c}
      PROVE  /\ d.schema[p].maximum \in {0, merged.maximum}
             /\ d.schema[p].ref \in {"absent", merged.ref}
  BY <1>3 DEF Sums, Disagree
<1>8. /\ merged.maximum \in Nat
      /\ merged.maximum # 0 => \E d \in C \cup {c} : d.schema[p].maximum = merged.maximum
      /\ merged.ref # "absent" => \E d \in C \cup {c} : d.schema[p].ref = merged.ref
  BY <1>3 DEF Sums
<1> QED BY <1>5, <1>6, <1>7, <1>8 DEF Sums, merged, req

\* Lemma: nothing described is the sum of no contract.
LEMMA NothingSums == ASSUME NEW p PROVE Sums(Nothing, {}, p)
<1>1. UNION {c.schema[p].required : c \in {}} = {}
  OBVIOUS
<1> QED BY <1>1 DEF Sums, Nothing

\* Lemma: a level the next contract says nothing of says what it said.
LEMMA LevelKept ==
    ASSUME NEW C, NEW p, NEW level, Sums(level, C, p)
    PROVE  Sums(MergeLevel(level, Nothing), C, p)
<1> DEFINE merged == MergeLevel(level, Nothing)
           properties == level.properties \/ FALSE
           req == UNION {d.schema[p].required : d \in C}
<1>1. level.required = req
  BY DEF Sums
<1> HIDE DEF req
<1>2. merged = [properties |-> properties, flag |-> "absent", required |-> req,
                maximum |-> level.maximum, ref |-> level.ref]
  <2>1. level.required \cup {} = req
    BY <1>1
  <2>2. /\ (IF level.maximum = 0 THEN 0 ELSE level.maximum) = level.maximum
        /\ (IF level.ref = "absent" THEN "absent" ELSE level.ref) = level.ref
    OBVIOUS
  <2> QED BY <2>1, <2>2 DEF MergeLevel, Nothing
<1>3. properties = level.properties
  BY DEF Sums
<1> HIDE DEF merged, properties
<1>4. /\ merged = [properties |-> merged.properties, flag |-> merged.flag, required |-> req,
                   maximum |-> merged.maximum, ref |-> merged.ref]
      /\ merged.properties = level.properties /\ merged.maximum = level.maximum
      /\ merged.ref = level.ref
  BY <1>2, <1>3
<1> QED BY <1>4 DEF Sums, merged, req

\* Lemma: close_object changes the flag of a level and nothing else.
LEMMA LevelClosed ==
    ASSUME NEW schema, NEW p, NEW C, Sums(schema[p], C, p), schema[p].flag = "absent"
    PROVE  LET closed == CloseObject(schema, p)
           IN  /\ Sums(closed, C, p)
               /\ closed.properties = schema[p].properties
               /\ closed.flag = IF Closing(schema, p) THEN "false" ELSE "absent"
<1> DEFINE level == schema[p]
           closed == CloseObject(schema, p)
           req == UNION {d.schema[p].required : d \in C}
<1>1. level = [properties |-> level.properties, flag |-> level.flag, required |-> req,
               maximum |-> level.maximum, ref |-> level.ref]
  BY DEF Sums
<1> HIDE DEF req
<1>2. CASE Closing(schema, p)
  <2>1. closed = [level EXCEPT !.flag = "false"]
    BY <1>2 DEF Closing, CloseObject
  <2> HIDE DEF closed, level
  <2>2. /\ closed = [properties |-> closed.properties, flag |-> closed.flag, required |-> req,
                     maximum |-> closed.maximum, ref |-> closed.ref]
        /\ closed.properties = level.properties /\ closed.maximum = level.maximum
        /\ closed.ref = level.ref /\ closed.flag = "false"
    BY <1>1, <2>1
  <2> QED BY <1>2, <2>2 DEF Sums, closed, req, level
<1>3. CASE ~ Closing(schema, p)
  <2>1. closed = level
    BY <1>3 DEF Closing, CloseObject
  <2> QED BY <1>3, <2>1
<1> QED BY <1>2, <1>3

\* Lemma: the schema of a contract is merged when no position of it disagrees
\* with one before it, and then the schema held is that of one contract more.
LEMMA SchemaMerged ==
    ASSUME NEW M, NEW c, NEW schema, Describes(schema, M), Compatible(M), IsSchema(c.schema)
    PROVE  LET merged == MergeSchema(schema, c.schema)
           IN  /\ merged.ok <=> Compatible(M \cup {c})
               /\ merged.ok => Describes(merged.schema, M \cup {c})
<1> DEFINE other == c.schema
           all == DOMAIN schema \cup DOMAIN other
           merged == [p \in all |-> MergeLevel(Level(schema, p), Level(other, p))]
           result == [p \in all |-> CloseObject(merged, p)]
           ok == \A p \in DOMAIN schema \cap DOMAIN other : ~Disagree(schema[p], other[p])
           N == M \cup {c}
<1>1. MergeSchema(schema, other) = [ok |-> ok, schema |-> result]
  BY DEF MergeSchema
<1>2. /\ DOMAIN schema = UNION {DOMAIN d.schema : d \in M}
      /\ \A p \in DOMAIN schema : Sums(schema[p], At(M, p), p)
  BY DEF Describes
<1>3. ASSUME NEW p \in DOMAIN schema, p \in DOMAIN other
      PROVE  Disagree(schema[p], other[p]) <=> \E d \in At(M, p) : Disagree(d.schema[p], other[p])
  <2>1. Sums(schema[p], At(M, p), p)
    BY <1>2
  <2> QED BY <2>1 DEF Sums, Disagree
<1>4. ok <=> Compatible(N)
  <2>1. ASSUME NEW d \in M, NEW p \in DOMAIN d.schema, p \in DOMAIN other, ok
        PROVE  ~Disagree(d.schema[p], other[p])
    <3>1. p \in DOMAIN schema /\ d \in At(M, p)
      BY <1>2 DEF At
    <3> QED BY <1>3, <2>1, <3>1
  <2>2. \A one, two : Disagree(one, two) <=> Disagree(two, one)
    BY DEF Disagree
  <2>3. \A one : ~Disagree(one, one)
    BY DEF Disagree
  <2>4. ok => Compatible(N)
    <3> HIDE DEF ok
    <3> QED BY <2>1, <2>2, <2>3 DEF Compatible
  <2>5. ASSUME Compatible(N) PROVE ok
    <3> SUFFICES ASSUME NEW p \in DOMAIN schema \cap DOMAIN other
                 PROVE  ~Disagree(schema[p], other[p])
      OBVIOUS
    <3>1. ASSUME NEW d \in At(M, p) PROVE ~Disagree(d.schema[p], other[p])
      BY <2>5 DEF Compatible, At
    <3> QED BY <1>3, <3>1
  <2> QED BY <2>4, <2>5
<1>5. ASSUME NEW p \in all, ok PROVE Sums(merged[p], At(N, p), p) /\ merged[p].flag = "absent"
  <2>1. merged[p] = MergeLevel(Level(schema, p), Level(other, p)) /\ merged[p].flag = "absent"
    BY DEF MergeLevel
  <2>2. p \in DOMAIN other => other[p].properties \in BOOLEAN /\ other[p].maximum \in Nat
    BY DEF IsSchema
  <2>3. p \notin DOMAIN schema => At(M, p) = {}
    BY <1>2 DEF At
  <2>4. At(N, p) = IF p \in DOMAIN other THEN At(M, p) \cup {c} ELSE At(M, p)
    BY DEF At
  <2>5. Sums(Level(schema, p), At(M, p), p)
    BY <1>2, <2>3, NothingSums DEF Level
  <2>6. CASE p \in DOMAIN other
    <3>1. ~Disagree(Level(schema, p), other[p])
      BY <1>5, <2>6 DEF Level, Nothing, Disagree
    <3>2. Level(other, p) = other[p]
      BY <2>6 DEF Level
    <3>3. Sums(MergeLevel(Level(schema, p), other[p]), At(M, p) \cup {c}, p)
      <4> HIDE DEF ok, all, merged, N
      <4> QED BY <2>2, <2>5, <2>6, <3>1, LevelMerged
    <3> QED BY <2>1, <2>4, <2>6, <3>2, <3>3
  <2>7. CASE p \notin DOMAIN other
    <3>1. Level(other, p) = Nothing
      BY <2>7 DEF Level
    <3> QED BY <2>1, <2>4, <2>5, <2>7, <3>1, LevelKept
  <2> QED BY <2>6, <2>7
<1>6. ASSUME ok PROVE Describes(result, N)
  <2>1. all = UNION {DOMAIN d.schema : d \in N} /\ DOMAIN merged = all /\ DOMAIN result = all
    BY <1>2
  <2>2. ASSUME NEW p \in all
        PROVE  /\ Sums(result[p], At(N, p), p)
               /\ result[p].flag = IF Closing(result, p) THEN "false" ELSE "absent"
    <3>1. /\ Sums(result[p], At(N, p), p) /\ result[p].properties = merged[p].properties
          /\ result[p].flag = IF Closing(merged, p) THEN "false" ELSE "absent"
      <4>1. result[p] = CloseObject(merged, p)
        OBVIOUS
      <4> HIDE DEF merged, result, ok, all, N
      <4> QED BY <1>5, <1>6, <4>1, LevelClosed
    <3>2. Closing(merged, p) <=> Closing(result, p)
      <4> HIDE DEF merged, result, all
      <4> QED BY <2>1, <3>1 DEF Closing
    <3> QED BY <3>1, <3>2
  <2>3. result = [p \in all |-> result[p]]
    OBVIOUS
  <2> HIDE DEF result, all, N, merged
  <2> QED BY <2>1, <2>2, <2>3 DEF Describes
<1> HIDE DEF ok, result
<1>7. MergeSchema(schema, other).ok = ok /\ MergeSchema(schema, other).schema = result
  BY <1>1
<1> QED BY <1>4, <1>6, <1>7

-----------------------------------------------------------------------------
(* Contracts.                                                              *)

IsContract(c) ==
    /\ c.entries \in Seq(Range(c.entries))
    /\ \A e \in Range(c.entries) : IsEntry(e)
    /\ IsSchema(c.schema)

EntriesOf(M) == UNION {Range(c.entries) : c \in M}
Ignored(M) == UNION {c.ignore : c \in M}
Labels(M) == {c.label : c \in M}

\* Contracts no two of which disagree.
Clean(M) ==
    /\ \A c, d \in M : ~Conflict(c, d)
    /\ \A c \in M : \A e \in Range(c.entries) : e.name # "none"

IsHeld(u) ==
    u = [sources |-> u.sources, dialect |-> u.dialect, loader |-> u.loader,
         entries |-> u.entries, ignore |-> u.ignore, unknown |-> u.unknown,
         schema |-> u.schema]

\* What union_contracts holds once the contracts of M are merged.
IsUnion(u, M, first) ==
    /\ IsHeld(u) /\ u.dialect = first.dialect /\ u.ignore = Ignored(M)
    /\ u.sources \in Seq(Range(u.sources)) /\ Range(u.sources) = Labels(M)
    /\ u.loader = IF \A c \in M \cup {first} : c.loader = first.loader THEN first.loader ELSE ""
    /\ \E c \in M \cup {first} : u.unknown = c.unknown
    /\ \A c \in M \cup {first} : Strictness(c.unknown) <= Strictness(u.unknown)
    /\ Holds(u.entries, EntriesOf(M))
    /\ Describes(u.schema, M)

\* Lemma: a policy has a strictness.
LEMMA StrictnessIsNumber == ASSUME NEW policy PROVE Strictness(policy) \in 1..4
<1>1. Range(Policies) = {Policies[i] : i \in 1..3}
  BY DEF Policies, Range
<1> QED BY <1>1 DEF Strictness

\* Lemma: contracts are clean when they have one dialect, and their entries and
\* their schemas agree.
LEMMA CleanParts ==
    ASSUME NEW M
    PROVE  Clean(M) <=> /\ \A c, d \in M : c.dialect = d.dialect
                        /\ Agreeing(EntriesOf(M))
                        /\ Compatible(M)
<1>1. ASSUME Clean(M) PROVE Agreeing(EntriesOf(M))
  BY <1>1 DEF Clean, Conflict, Agreeing, Named, Alike, EntriesOf, Same
<1>2. ASSUME Clean(M) PROVE Compatible(M) /\ \A c, d \in M : c.dialect = d.dialect
  BY <1>2 DEF Clean, Conflict, Compatible
<1>3. ASSUME \A c, d \in M : c.dialect = d.dialect, Agreeing(EntriesOf(M)), Compatible(M)
      PROVE  Clean(M)
  <2>1. \A c \in M : \A e \in Range(c.entries) : e \in EntriesOf(M)
    BY DEF EntriesOf
  <2> QED BY <1>3, <2>1 DEF Clean, Conflict, Compatible, Agreeing, Named, Alike, Same
<1> QED BY <1>1, <1>2, <1>3

\* Lemma: before the first contract nothing is held.
LEMMA EmptyIsUnion == ASSUME NEW first PROVE IsUnion(Empty(first), {}, first) /\ Clean({})
<1> DEFINE u == Empty(first)
           described == UNION {DOMAIN c.schema : c \in {}}
<1>1. described = {} /\ EntriesOf({}) = {} /\ Ignored({}) = {} /\ Labels({}) = {}
  BY DEF EntriesOf, Ignored, Labels
<1>2. Range(<<>>) = {} /\ <<>> \in Seq({}) /\ Len(<<>>) = 0 /\ 1..0 = {}
  BY DEF Range
<1>3. Holds(u.entries, EntriesOf({}))
  BY <1>1, <1>2 DEF Holds, Empty
<1>4. Describes(u.schema, {})
  <2>1. u.schema = <<>> /\ DOMAIN <<>> = {} /\ <<>> = [p \in {} |-> <<>>[p]]
    BY DEF Empty
  <2> HIDE DEF described, u
  <2>2. u.schema = [p \in described |-> u.schema[p]]
    BY <1>1, <2>1
  <2> QED BY <2>1, <2>2 DEF Describes, described
<1>5. Strictness(first.unknown) <= Strictness(first.unknown)
  BY StrictnessIsNumber
<1>6. /\ u.sources = <<>> /\ u.loader = first.loader /\ u.unknown = first.unknown
      /\ u.ignore = {} /\ u.dialect = first.dialect /\ IsHeld(u)
  BY DEF Empty, IsHeld
<1>7. Clean({})
  BY DEF Clean
<1> HIDE DEF u
<1>8. /\ u.ignore = Ignored({})
      /\ u.sources \in Seq(Range(u.sources)) /\ Range(u.sources) = Labels({})
  BY <1>1, <1>2, <1>6
<1> QED BY <1>3, <1>4, <1>5, <1>6, <1>7, <1>8 DEF IsUnion, u

\* Lemma: what Append adds.
LEMMA AppendRange ==
    ASSUME NEW S, NEW s \in Seq(S), NEW x \in S
    PROVE  /\ Append(s, x) \in Seq(Range(Append(s, x)))
           /\ Range(Append(s, x)) = Range(s) \cup {x}
<1> DEFINE n == Len(s)
           t == Append(s, x)
<1>1. /\ n \in Nat /\ DOMAIN s = 1..n /\ DOMAIN t = 1..n + 1 /\ Len(t) = n + 1 /\ t \in Seq(S)
      /\ t[n + 1] = x /\ \A i \in 1..n : t[i] = s[i]
  OBVIOUS
<1> HIDE DEF t, n
<1>2. \A i : i \in 1..n + 1 <=> i \in 1..n \/ i = n + 1
  BY <1>1
<1>3. Range(t) = Range(s) \cup {x}
  BY <1>1, <1>2 DEF Range
<1>4. t \in Seq(Range(t))
  BY <1>1 DEF Range
<1> QED BY <1>3, <1>4 DEF t

\* Lemma: a contract is merged when it agrees with all before it, and then the
\* union is that of one contract more.
LEMMA ContractMerged ==
    ASSUME NEW M, NEW first, NEW u, NEW c, IsContract(c), IsUnion(u, M, first), Clean(M),
           M # {} => first \in M, M = {} => c = first
    PROVE  LET merged == MergeContract(u, c)
           IN  /\ merged.ok <=> Clean(M \cup {c})
               /\ merged.ok => IsUnion(merged.union, M \cup {c}, first)
<1> DEFINE N == M \cup {c}
           entries == MergeEntries(u.entries, c.entries)
           schema == MergeSchema(u.schema, c.schema)
           after == [sources |-> Append(u.sources, c.label),
                     dialect |-> u.dialect,
                     loader |-> IF c.loader = u.loader THEN u.loader ELSE "",
                     entries |-> entries.held,
                     ignore |-> u.ignore \cup c.ignore,
                     unknown |-> IF Strictness(c.unknown) > Strictness(u.unknown)
                                 THEN c.unknown ELSE u.unknown,
                     schema |-> schema.schema]
           ok == c.dialect = u.dialect /\ entries.ok /\ schema.ok
<1>1. MergeContract(u, c) = [ok |-> ok, union |-> after]
  BY DEF MergeContract
<1>2. MergedInto(entries, EntriesOf(N))
  <2>1. EntriesOf(N) = EntriesOf(M) \cup Range(c.entries)
    BY DEF EntriesOf
  <2>2. Agreeing(EntriesOf(M)) /\ Holds(u.entries, EntriesOf(M))
    BY CleanParts DEF IsUnion
  <2>3. MergedInto(MergeEntries(u.entries, c.entries), EntriesOf(M) \cup Range(c.entries))
    BY <2>2, EntriesMerged DEF IsContract
  <2> QED BY <2>1, <2>3
<1>3. /\ schema.ok <=> Compatible(N)
      /\ schema.ok => Describes(schema.schema, N)
  BY CleanParts, SchemaMerged DEF IsUnion, IsContract
<1>4. c.dialect = u.dialect <=> \A d, e \in N : d.dialect = e.dialect
  <2>1. u.dialect = first.dialect
    BY DEF IsUnion
  <2>2. \A d, e \in M : d.dialect = e.dialect
    BY CleanParts
  <2> QED BY <2>1, <2>2
<1>5. ok <=> Clean(N)
  BY <1>2, <1>3, <1>4, CleanParts DEF MergedInto
<1>6. ASSUME ok PROVE IsUnion(after, N, first)
  <2>1. /\ Ignored(N) = Ignored(M) \cup c.ignore
        /\ Labels(N) = Labels(M) \cup {c.label}
    BY DEF Ignored, Labels
  <2>2. /\ after.sources = Append(u.sources, c.label) /\ after.dialect = first.dialect
        /\ after.loader = IF c.loader = u.loader THEN u.loader ELSE ""
        /\ after.entries = entries.held /\ after.ignore = u.ignore \cup c.ignore
        /\ after.unknown = IF Strictness(c.unknown) > Strictness(u.unknown)
                           THEN c.unknown ELSE u.unknown
        /\ after.schema = schema.schema
        /\ IsHeld(after)
    <3>1. u.dialect = first.dialect
      BY DEF IsUnion
    <3> HIDE DEF entries, schema
    <3> QED BY <3>1 DEF IsHeld
  <2>3. Holds(after.entries, EntriesOf(N)) /\ Describes(after.schema, N)
    <3> HIDE DEF after, entries, schema, N
    <3> QED BY <1>2, <1>3, <1>6, <2>2 DEF MergedInto
  <2> HIDE DEF after, entries, schema
  <2>4. /\ after.sources \in Seq(Range(after.sources))
        /\ Range(after.sources) = Labels(N)
    <3>1. u.sources \in Seq(Range(u.sources)) /\ Range(u.sources) = Labels(M)
      BY DEF IsUnion
    <3>2. c.label \in Labels(N) /\ u.sources \in Seq(Labels(N))
      <4> HIDE DEF N
      <4> QED BY <2>1, <3>1
    <3>3. /\ after.sources \in Seq(Range(after.sources))
          /\ Range(after.sources) = Range(u.sources) \cup {c.label}
      <4> HIDE DEF N
      <4>1. Append(u.sources, c.label) = after.sources
        BY <2>2
      <4>2. /\ Append(u.sources, c.label) \in Seq(Range(Append(u.sources, c.label)))
            /\ Range(Append(u.sources, c.label)) = Range(u.sources) \cup {c.label}
        BY <3>2, AppendRange
      <4> QED BY <4>1, <4>2
    <3> QED BY <2>1, <3>1, <3>3
  <2>5. after.loader = IF \A d \in N \cup {first} : d.loader = first.loader
                       THEN first.loader ELSE ""
    <3>1. u.loader = IF \A d \in M \cup {first} : d.loader = first.loader
                     THEN first.loader ELSE ""
      BY DEF IsUnion
    <3> QED BY <2>2, <3>1
  <2>6. /\ \E d \in N \cup {first} : after.unknown = d.unknown
        /\ \A d \in N \cup {first} : Strictness(d.unknown) <= Strictness(after.unknown)
    <3>1. /\ \E d \in M \cup {first} : u.unknown = d.unknown
          /\ \A d \in M \cup {first} : Strictness(d.unknown) <= Strictness(u.unknown)
      BY DEF IsUnion
    <3>2. \A d : Strictness(d) \in Nat
      BY StrictnessIsNumber
    <3>3. /\ c \in N \cup {first} /\ M \cup {first} \subseteq N \cup {first}
          /\ \A d \in N \cup {first} : d = c \/ d \in M \cup {first}
      OBVIOUS
    <3>4. CASE Strictness(c.unknown) > Strictness(u.unknown)
      <4>1. after.unknown = c.unknown
        BY <2>2, <3>4
      <4> HIDE DEF N
      <4> QED BY <3>1, <3>2, <3>3, <3>4, <4>1
    <3>5. CASE ~ (Strictness(c.unknown) > Strictness(u.unknown))
      <4>1. after.unknown = u.unknown
        BY <2>2, <3>5
      <4> HIDE DEF N
      <4> QED BY <3>1, <3>2, <3>3, <3>5, <4>1
    <3> QED BY <3>4, <3>5
  <2> HIDE DEF N
  <2>7. after.ignore = Ignored(N)
    BY <2>1, <2>2 DEF IsUnion
  <2> QED BY <2>2, <2>3, <2>4, <2>5, <2>6, <2>7 DEF IsUnion
<1> HIDE DEF ok, after, N
<1>7. MergeContract(u, c).ok = ok /\ MergeContract(u, c).union = after
  BY <1>1
<1> QED BY <1>5, <1>6, <1>7 DEF N

-----------------------------------------------------------------------------
OfContracts == INSTANCE FoldLemmas WITH Op <- Turn

\* Contracts were merged if those of M agree, and then they are held.
UnitedInto(acc, M, first) ==
    (acc.ok <=> Clean(M)) /\ (acc.ok => IsUnion(acc.union, M, first))

\* Theorem: union_contracts, of any list, succeeds when no two contracts of it
\* disagree, and then returns the union of their set.
THEOREM UnionOfList ==
    ASSUME NEW list, NEW n \in Nat \ {0}, DOMAIN list = 1..n,
           \A i \in 1..n : IsContract(list[i])
    PROVE  UnitedInto(UnionContracts(list), {list[i] : i \in 1..n}, list[1])
<1> DEFINE base == [ok |-> TRUE, union |-> Empty(list[1])]
           all(k) == {list[i] : i \in 1..k}
<1>1. PICK acc : OfContracts!Chain(acc, base, list) /\ OfContracts!Fold(base, list) = acc[n]
  <2> HIDE DEF base
  <2> QED BY OfContracts!FoldIsChain
<1>2. OfContracts!Fold(base, list) = UnionContracts(list)
  BY DEF OfContracts!Fold, OfContracts!FoldLeft, FoldLeft, OfContracts!MapThenFoldSet,
         MapThenFoldSet, OfContracts!Max, Max, UnionContracts
<1>3. acc[0] = base /\ \A k \in 1..n : acc[k] = Turn(acc[k - 1], list[k])
  BY <1>1 DEF OfContracts!Chain
<1> DEFINE T == {k \in Nat : k <= n => UnitedInto(acc[k], all(k), list[1])}
<1>4. 0 \in T
  <2>1. all(0) = {}
    OBVIOUS
  <2>2. UnitedInto(base, {}, list[1])
    BY EmptyIsUnion DEF UnitedInto
  <2> HIDE DEF all, base
  <2> QED BY <1>3, <2>1, <2>2
<1>5. ASSUME NEW k \in Nat, k \in T PROVE k + 1 \in T
  <2> SUFFICES ASSUME k + 1 <= n PROVE UnitedInto(acc[k + 1], all(k + 1), list[1])
    OBVIOUS
  <2>1. UnitedInto(acc[k], all(k), list[1]) /\ acc[k + 1] = Turn(acc[k], list[k + 1])
    BY <1>3, <1>5
  <2>2. /\ all(k + 1) = all(k) \cup {list[k + 1]} /\ IsContract(list[k + 1])
        /\ all(k) # {} => list[1] \in all(k)
        /\ all(k) = {} => list[k + 1] = list[1]
    <3>1. all(k + 1) = all(k) \cup {list[k + 1]} /\ k + 1 \in 1..n
      OBVIOUS
    <3>2. CASE k = 0
      <4>1. all(k) = {} /\ list[k + 1] = list[1]
        BY <3>2
      <4> HIDE DEF all
      <4> QED BY <3>1, <4>1
    <3>3. CASE k # 0
      <4>1. 1 \in 1..k
        BY <3>3
      <4>2. list[1] \in all(k)
        BY <4>1
      <4> HIDE DEF all
      <4> QED BY <3>1, <4>2
    <3> QED BY <3>2, <3>3
  <2> HIDE DEF all
  <2>3. CASE acc[k].ok
    <3>1. acc[k + 1] = MergeContract(acc[k].union, list[k + 1])
      BY <2>1, <2>3 DEF Turn
    <3>2. Clean(all(k)) /\ IsUnion(acc[k].union, all(k), list[1])
      BY <2>1, <2>3 DEF UnitedInto
    <3> QED BY <2>2, <3>1, <3>2, ContractMerged DEF UnitedInto
  <2>4. CASE ~ acc[k].ok
    <3>1. ~ Clean(all(k)) /\ acc[k + 1] = acc[k]
      BY <2>1, <2>4 DEF Turn, UnitedInto
    <3>2. ~ Clean(all(k + 1))
      BY <2>2, <3>1 DEF Clean
    <3> QED BY <2>4, <3>1, <3>2 DEF UnitedInto
  <2> QED BY <2>3, <2>4
<1>6. n \in T
  <2> HIDE DEF T
  <2> QED BY <1>4, <1>5, OfContracts!NatSetInduction
<1> HIDE DEF all, base
<1>7. UnitedInto(acc[n], all(n), list[1])
  BY <1>6
<1> QED BY <1>1, <1>2, <1>7 DEF all

\* Lemma: of clean contracts there is one union, but for the order of its parts.
LEMMA UnionIsUnique ==
    ASSUME NEW M, NEW u, NEW v, NEW first \in M, NEW head \in M,
           Clean(M), IsUnion(u, M, first), IsUnion(v, M, head)
    PROVE  Unordered(u) = Unordered(v)
<1>1. u.dialect = v.dialect /\ u.ignore = v.ignore /\ Range(u.sources) = Range(v.sources)
  BY CleanParts DEF IsUnion
<1>2. u.loader = v.loader
  <2>1. /\ u.loader = IF \A c \in M : c.loader = first.loader THEN first.loader ELSE ""
        /\ v.loader = IF \A c \in M : c.loader = head.loader THEN head.loader ELSE ""
    <3>1. M \cup {first} = M /\ M \cup {head} = M
      OBVIOUS
    <3> QED BY <3>1 DEF IsUnion
  <2> QED BY <2>1
<1>3. ASSUME NEW x, NEW y, IsUnion(x, M, first) \/ IsUnion(x, M, head),
             IsUnion(y, M, first) \/ IsUnion(y, M, head)
      PROVE  Range(x.entries) \subseteq Range(y.entries)
  <2>1. Holds(x.entries, EntriesOf(M)) /\ Holds(y.entries, EntriesOf(M))
    BY <1>3 DEF IsUnion
  <2>2. Alike(EntriesOf(M))
    BY CleanParts DEF Agreeing
  <2>3. ASSUME NEW e, JoinedIn(e, EntriesOf(M)), NEW f, JoinedIn(f, EntriesOf(M)), Same(e, f)
        PROVE  e = f
    <3>1. e.fields = f.fields
      <4>1. PICK a \in EntriesOf(M) : Same(e, a) /\ a.fields = e.fields
        BY <2>3 DEF JoinedIn
      <4>2. PICK b \in EntriesOf(M) : Same(f, b) /\ b.fields = f.fields
        BY <2>3 DEF JoinedIn
      <4>3. Same(a, b)
        BY <2>3, <4>1, <4>2 DEF Same
      <4>4. a.fields = b.fields
        BY <2>2, <4>1, <4>2, <4>3 DEF Alike
      <4> QED BY <4>1, <4>2, <4>4
    <3>2. e.required <=> f.required
      BY <2>3 DEF JoinedIn, Same
    <3>3. e.required = f.required
      BY <2>3, <3>2 DEF JoinedIn, IsEntry
    <3> QED BY <2>3, <3>1, <3>3 DEF JoinedIn, IsEntry, Same
  <2>4. ASSUME NEW i \in 1..Len(x.entries)
        PROVE  \E j \in 1..Len(y.entries) : x.entries[i] = y.entries[j]
    <3>1. JoinedIn(x.entries[i], EntriesOf(M))
      BY <2>1 DEF Holds
    <3>2. PICK e \in EntriesOf(M) : Same(x.entries[i], e)
      BY <3>1 DEF JoinedIn
    <3>3. PICK j \in 1..Len(y.entries) : Same(y.entries[j], e)
      BY <2>1 DEF Holds
    <3>4. JoinedIn(y.entries[j], EntriesOf(M)) /\ Same(x.entries[i], y.entries[j])
      BY <2>1, <3>2, <3>3 DEF Holds, Same
    <3> QED BY <2>3, <3>1, <3>4
  <2>5. DOMAIN x.entries = 1..Len(x.entries) /\ DOMAIN y.entries = 1..Len(y.entries)
    BY <2>1 DEF Holds
  <2> QED BY <2>4, <2>5 DEF Range
<1>4. Range(u.entries) = Range(v.entries)
  <2>1. Range(u.entries) \subseteq Range(v.entries)
    BY <1>3
  <2>2. Range(v.entries) \subseteq Range(u.entries)
    BY <1>3
  <2> QED BY <2>1, <2>2
<1>5. u.schema = v.schema
  <2>1. /\ Describes(u.schema, M) /\ Describes(v.schema, M)
    BY DEF IsUnion
  <2> DEFINE all == UNION {DOMAIN c.schema : c \in M}
  <2>2. u.schema = [p \in all |-> u.schema[p]] /\ v.schema = [p \in all |-> v.schema[p]]
    BY <2>1 DEF Describes
  <2> HIDE DEF all
  <2>3. ASSUME NEW p \in all PROVE u.schema[p] = v.schema[p]
    <3> DEFINE C == At(M, p)
               req == UNION {c.schema[p].required : c \in C}
               mine == u.schema[p]
               theirs == v.schema[p]
    <3>1. Sums(mine, C, p) /\ Sums(theirs, C, p)
      BY <2>1, <2>2 DEF Describes
    <3>2. mine.properties = theirs.properties
      BY <3>1 DEF Sums
    <3>3. mine.flag = theirs.flag
      <4>1. Closing(u.schema, p) <=> Closing(v.schema, p)
        <5>1. DOMAIN u.schema = all /\ DOMAIN v.schema = all
          BY <2>2
        <5> QED BY <3>2, <5>1 DEF Closing
      <4>2. /\ mine.flag = IF Closing(u.schema, p) THEN "false" ELSE "absent"
            /\ theirs.flag = IF Closing(v.schema, p) THEN "false" ELSE "absent"
        BY <2>1, <2>2 DEF Describes
      <4> QED BY <4>1, <4>2
    <3>4. mine.maximum = theirs.maximum /\ mine.ref = theirs.ref
      <4> HIDE DEF C, mine, theirs
      <4> QED BY <3>1 DEF Sums
    <3>5. /\ mine = [properties |-> mine.properties, flag |-> mine.flag, required |-> req,
                     maximum |-> mine.maximum, ref |-> mine.ref]
          /\ theirs = [properties |-> theirs.properties, flag |-> theirs.flag, required |-> req,
                       maximum |-> theirs.maximum, ref |-> theirs.ref]
      BY <3>1 DEF Sums
    <3> HIDE DEF req, mine, theirs
    <3>6. mine = theirs
      BY <3>2, <3>3, <3>4, <3>5
    <3> QED BY <3>6 DEF mine, theirs
  <2> QED BY <2>2, <2>3
<1>6. LET known(policy) == IF policy \in Range(Policies) THEN policy ELSE "unknown"
      IN  known(u.unknown) = known(v.unknown)
  <2>1. M \cup {first} = M /\ M \cup {head} = M
    OBVIOUS
  <2>2. Strictness(u.unknown) = Strictness(v.unknown)
    <3>1. Strictness(u.unknown) <= Strictness(v.unknown)
      BY <2>1 DEF IsUnion
    <3>2. Strictness(v.unknown) <= Strictness(u.unknown)
      BY <2>1 DEF IsUnion
    <3> QED BY <3>1, <3>2, StrictnessIsNumber
  <2>3. \A policy \in Range(Policies) :
           Strictness(policy) \in 1..3 /\ Policies[Strictness(policy)] = policy
    <3>1. Range(Policies) = {Policies[i] : i \in 1..3}
      BY DEF Policies, Range
    <3> QED BY <3>1 DEF Strictness
  <2>4. \A policy : policy \notin Range(Policies) => Strictness(policy) = 4
    BY DEF Strictness
  <2> QED BY <2>2, <2>3, <2>4
<1> HIDE DEF Range
<1>7. IsHeld(u) /\ IsHeld(v)
  BY DEF IsUnion
<1> QED BY <1>1, <1>2, <1>4, <1>5, <1>6, <1>7 DEF Unordered, IsHeld

-----------------------------------------------------------------------------
\* The contracts of the first n readers.
Readers(n) == {items[i] : i \in 1..n}

\* The inductive invariant: what is merged so far is the union of a set of
\* contracts that agree, a refusal is due to two that do not, and a document is
\* checked against the union of all of them.
Inv ==
    /\ \E n \in 1..MaxItems : items \in [1..n -> Contracts]
    /\ next \in 0..Len(items)
    /\ ~refused => Clean(Readers(next)) /\ IsUnion(union, Readers(next), items[1])
    /\ refused => ~Clean(Readers(next))
    /\ document # Unasked =>
          Done /\ findings = CheckDocument(document, union.schema, relaxed)

\* Lemma: the contracts on offer are contracts.
LEMMA ContractsAreContracts == \A c \in Contracts : IsContract(c)
BY ContractsAssumption DEF IsContract, IsEntry, IsSchema, Range

\* Lemma: the readers of a state.
LEMMA ItemsAreContracts ==
    ASSUME Inv
    PROVE  /\ Len(items) \in Nat \ {0} /\ DOMAIN items = 1..Len(items)
           /\ \A i \in 1..Len(items) : items[i] \in Contracts /\ IsContract(items[i])
<1>1. PICK n \in 1..MaxItems : items \in [1..n -> Contracts]
  BY DEF Inv
<1>2. Len(items) = n /\ n \in Nat \ {0}
  BY <1>1, UnionAssumption
<1> QED BY <1>1, <1>2, ContractsAreContracts

\* Lemma: one reader more.
LEMMA OneReaderMore ==
    ASSUME NEW n \in Nat
    PROVE  /\ Readers(n + 1) = Readers(n) \cup {items[n + 1]}
           /\ Readers(n) = {} => items[n + 1] = items[1]
           /\ Readers(n) # {} => items[1] \in Readers(n)
<1>1. Readers(n + 1) = Readers(n) \cup {items[n + 1]}
  BY DEF Readers
<1>2. CASE n = 0
  BY <1>1, <1>2 DEF Readers
<1>3. CASE n # 0
  <2>1. 1 \in 1..n
    BY <1>3
  <2> QED BY <1>1, <2>1 DEF Readers
<1> QED BY <1>2, <1>3

\* Lemma: the invariant is inductive.
LEMMA InvInductive == Spec => []Inv
<1>1. Init => Inv
  <2> SUFFICES ASSUME Init PROVE Inv
    OBVIOUS
  <2>1. PICK n \in 1..MaxItems : items \in [1..n -> Contracts]
    BY DEF Init
  <2>2. Len(items) = n /\ n \in Nat
    BY <2>1, UnionAssumption
  <2>3. Readers(0) = {}
    BY DEF Readers
  <2>4. Clean(Readers(0)) /\ IsUnion(union, Readers(0), items[1])
    BY <2>3, EmptyIsUnion DEF Init
  <2> QED BY <2>1, <2>2, <2>4 DEF Init, Inv
<1>2. Inv /\ [Next]_vars => Inv'
  <2> SUFFICES ASSUME Inv, [Next]_vars PROVE Inv'
    OBVIOUS
  <2>1. CASE Merge
    <3> DEFINE turn == MergeContract(union, items[next + 1])
    <3>1. /\ ~refused /\ next < Len(items) /\ refused' = ~turn.ok /\ next' = next + 1
          /\ union' = IF turn.ok THEN turn.union ELSE union
          /\ items' = items /\ document' = document /\ findings' = findings
      BY <2>1 DEF Merge
    <3>2. /\ next \in Nat /\ next' \in 0..Len(items') /\ IsContract(items[next + 1])
          /\ \E n \in 1..MaxItems : items' \in [1..n -> Contracts]
      BY <3>1, ItemsAreContracts DEF Inv
    <3>3. document = Unasked
      BY <3>1, ItemsAreContracts DEF Inv, Done
    <3>4. Readers(next)' = Readers(next) \cup {items[next + 1]}
      BY <3>1, <3>2, OneReaderMore DEF Readers
    <3>5. /\ turn.ok <=> Clean(Readers(next) \cup {items[next + 1]})
          /\ turn.ok => IsUnion(turn.union, Readers(next) \cup {items[next + 1]}, items[1])
      <4>1. /\ Clean(Readers(next)) /\ IsUnion(union, Readers(next), items[1])
            /\ Readers(next) # {} => items[1] \in Readers(next)
            /\ Readers(next) = {} => items[next + 1] = items[1]
        BY <3>1, <3>2, OneReaderMore DEF Inv
      <4> QED BY <3>2, <4>1, ContractMerged
    <3> HIDE DEF turn
    <3>6. refused' <=> ~Clean(Readers(next)')
      BY <3>1, <3>4, <3>5
    <3>7. ~refused' => IsUnion(union', Readers(next)', items[1])
      BY <3>1, <3>4, <3>5
    <3> QED BY <3>1, <3>2, <3>3, <3>6, <3>7 DEF Inv, Clean, Unasked
  <2>2. ASSUME NEW doc \in Documents, NEW exempt \in Exemptions, Gate1(doc, exempt) PROVE Inv'
    <3>1. /\ Done' /\ findings' = CheckDocument(document', union'.schema, relaxed')
          /\ items' = items /\ next' = next /\ union' = union /\ refused' = refused
      BY <2>2 DEF Gate1, Done
    <3>2. Readers(next)' = Readers(next)
      BY <3>1 DEF Readers
    <3> QED BY <3>1, <3>2 DEF Inv, Clean
  <2>3. CASE UNCHANGED vars
    BY <2>3 DEF vars, Inv, Done, Readers, Clean, IsUnion
  <2> QED BY <2>1, <2>2, <2>3 DEF Next
<1> QED BY <1>1, <1>2, PTL DEF Spec

-----------------------------------------------------------------------------
\* Theorem: the merge is refused exactly when two of the readers merged so far
\* disagree, or an entry has no name (union_contracts, merge_entry,
\* merge_schema): the accumulator loses no disagreement and makes none up.
THEOREM TheRefusalIsExact == Spec => []RefusedExactlyOnDisagreement
<1>1. Inv => RefusedExactlyOnDisagreement
  BY DEF Inv, RefusedExactlyOnDisagreement, Clean, Readers
<1> QED BY <1>1, InvInductive, PTL

\* Theorem: a declaration that lists its images in another order gets the same
\* union, but for the order of its sources and entries.
THEOREM TheOrderDoesNotMatter == Spec => []OrderDoesNotMatter
<1>1. Inv => OrderDoesNotMatter
  <2> SUFFICES ASSUME Inv, Done, NEW order \in Bijection(1..Len(items), 1..Len(items))
               PROVE  LET other == UnionContracts([i \in 1..Len(items) |-> items[order[i]]])
                      IN  other.ok /\ Unordered(other.union) = Unordered(union)
    BY DEF OrderDoesNotMatter
  <2> DEFINE n == Len(items)
             list == [i \in 1..n |-> items[order[i]]]
             M == Readers(n)
  <2>1. n \in Nat \ {0} /\ \A i \in 1..n : IsContract(items[i])
    BY ItemsAreContracts
  <2>2. Clean(M) /\ IsUnion(union, M, items[1])
    BY DEF Inv, Done
  <2>3. order \in [1..n -> 1..n] /\ \A j \in 1..n : \E i \in 1..n : order[i] = j
    BY DEF Bijection, Surjection
  <2> HIDE DEF n
  <2>4. DOMAIN list = 1..n /\ \A i \in 1..n : list[i] = items[order[i]] /\ IsContract(list[i])
    BY <2>1, <2>3
  <2> HIDE DEF list
  <2>5. {list[i] : i \in 1..n} = M
    <3>1. \A i \in 1..n : \E j \in 1..n : list[i] = items[j]
      BY <2>3, <2>4
    <3>2. \A j \in 1..n : \E i \in 1..n : items[j] = list[i]
      BY <2>3, <2>4
    <3>3. \A c : c \in M <=> \E j \in 1..n : c = items[j]
      BY DEF Readers
    <3> DEFINE L == {list[i] : i \in 1..n}
    <3>4. \A c : c \in L <=> \E i \in 1..n : c = list[i]
      OBVIOUS
    <3> HIDE DEF M, L
    <3>5. \A c : c \in L <=> c \in M
      BY <3>1, <3>2, <3>3, <3>4
    <3>6. L = M
      BY <3>5
    <3> QED BY <3>6 DEF L
  <2>6. items[1] \in M /\ list[1] \in M
    <3>1. 1 \in 1..n
      BY <2>1
    <3> QED BY <3>1, <2>5 DEF Readers
  <2>7. UnitedInto(UnionContracts(list), M, list[1])
    BY <2>1, <2>4, <2>5, UnionOfList
  <2>8. UnionContracts(list).ok /\ IsUnion(UnionContracts(list).union, M, list[1])
    BY <2>2, <2>7 DEF UnitedInto
  <2>9. Unordered(UnionContracts(list).union) = Unordered(union)
    <3> HIDE DEF M
    <3> QED BY <2>2, <2>6, <2>8, UnionIsUnique
  <2> QED BY <2>8, <2>9 DEF list, n
<1> QED BY <1>1, InvInductive, PTL

\* Lemma: a schema misses no key when every required one is there.
LEMMA NothingMissing ==
    ASSUME NEW schema, NEW values
    PROVE  MissingKeys(schema, values) = {} <=>
              \A p \in DOMAIN schema : p \in DOMAIN values =>
                 \A name \in schema[p].required : Append(p, name) \in DOMAIN values
<1> DEFINE named(p) == {Append(p, name) : name \in schema[p].required}
           both == DOMAIN schema \cap DOMAIN values
           all == UNION {named(p) : p \in both}
<1>1. MissingKeys(schema, values) = all \ DOMAIN values
  BY DEF MissingKeys
<1>2. \A q : q \in all <=> \E p \in both : q \in named(p)
  <2> HIDE DEF named, both
  <2> QED OBVIOUS
<1>3. \A p, q : q \in named(p) <=> \E name \in schema[p].required : q = Append(p, name)
  OBVIOUS
<1> HIDE DEF named, all
<1>4. ASSUME all \subseteq DOMAIN values, NEW p \in both, NEW name \in schema[p].required
      PROVE  Append(p, name) \in DOMAIN values
  <2>1. Append(p, name) \in named(p)
    BY <1>3
  <2> QED BY <1>2, <1>4, <2>1
<1>5. ASSUME \A p \in both : \A name \in schema[p].required : Append(p, name) \in DOMAIN values,
             NEW q \in all
      PROVE  q \in DOMAIN values
  <2>1. PICK p \in both : q \in named(p)
    BY <1>2
  <2>2. PICK name \in schema[p].required : q = Append(p, name)
    BY <1>3, <2>1
  <2> QED BY <1>5, <2>1, <2>2
<1>6. MissingKeys(schema, values) = {} <=> all \subseteq DOMAIN values
  BY <1>1
<1> QED BY <1>4, <1>5, <1>6

\* Lemma: a level requires what one of its contracts requires.
LEMMA SumRequires ==
    ASSUME NEW level, NEW C, NEW p, Sums(level, C, p)
    PROVE  \A name : name \in level.required <=> \E c \in C : name \in c.schema[p].required
<1> DEFINE req == UNION {c.schema[p].required : c \in C}
<1>1. level.required = req
  BY DEF Sums
<1> QED BY <1>1

\* Lemma: the keys a schema misses and the values it refuses do not depend on
\* its flags.
LEMMA OpeningKeeps ==
    ASSUME NEW schema, NEW values, NEW M, Describes(schema, M)
    PROVE  /\ MissingKeys(OpenSchema(schema), values) = MissingKeys(schema, values)
           /\ BadValues(OpenSchema(schema), values) = BadValues(schema, values)
           /\ UnknownKeys(OpenSchema(schema), values) = {}
<1> DEFINE open == OpenSchema(schema)
<1>1. /\ DOMAIN open = DOMAIN schema
      /\ \A p \in DOMAIN schema : /\ open[p].required = schema[p].required
                                 /\ open[p].maximum = schema[p].maximum
                                 /\ open[p].flag # "false"
  <2>1. DOMAIN open = DOMAIN schema
    BY DEF OpenSchema
  <2>2. ASSUME NEW p \in DOMAIN schema
        PROVE  /\ open[p].required = schema[p].required
               /\ open[p].maximum = schema[p].maximum
               /\ open[p].flag # "false"
    <3> DEFINE level == schema[p]
               req == UNION {c.schema[p].required : c \in At(M, p)}
    <3>1. level = [properties |-> level.properties, flag |-> level.flag, required |-> req,
                   maximum |-> level.maximum, ref |-> level.ref]
      BY DEF Describes, Sums
    <3>2. open[p] = IF level.flag = "false" THEN [level EXCEPT !.flag = "absent"] ELSE level
      BY DEF OpenSchema
    <3> HIDE DEF req, level, open
    <3> QED BY <3>1, <3>2 DEF level
  <2> QED BY <2>1, <2>2
<1> HIDE DEF open
<1>2. UnknownKeys(open, values) = {}
  BY <1>1 DEF UnknownKeys
<1>3. BadValues(open, values) = BadValues(schema, values)
  BY <1>1 DEF BadValues
<1>4. MissingKeys(open, values) = MissingKeys(schema, values)
  BY <1>1 DEF MissingKeys
<1> QED BY <1>2, <1>3, <1>4 DEF open

\* Theorem: gate 1 finds nothing in a document every reader accepts and whose
\* keys some reader knows, and what it passes has every key each reader requires
\* and no value one of them refuses (merge_schema, close_object, check_document).
THEOREM TheGateReadsForEveryImage == Spec => []PassedAsRead
<1>1. Inv => PassedAsRead
  <2> SUFFICES ASSUME Inv, Done, document.read = "parsed" PROVE PassedAsRead
    BY DEF PassedAsRead
  <2> DEFINE M == Readers(Len(items))
             schema == union.schema
             values == document.values
             used == IF "closed" \in relaxed THEN OpenSchema(schema) ELSE schema
  <2>1. Describes(schema, M)
    BY DEF Inv, Done, IsUnion
  <2>2. findings = CheckDocument(document, schema, relaxed)
    BY DEF Inv, Unasked
  <2>3. /\ MissingKeys(used, values) = MissingKeys(schema, values)
        /\ BadValues(used, values) = BadValues(schema, values)
        /\ UnknownKeys(used, values) \subseteq UnknownKeys(schema, values)
    BY <2>1, OpeningKeeps
  <2>4. findings = IF "document" \in relaxed THEN {} ELSE SchemaFindings(used, values)
    BY <2>2 DEF CheckDocument
  <2>5. /\ DOMAIN schema = UNION {DOMAIN c.schema : c \in M}
        /\ \A p \in DOMAIN schema : Sums(schema[p], At(M, p), p)
    BY <2>1 DEF Describes
  <2>6. \A c \in M : \E i \in 1..Len(items) : c = items[i]
    BY DEF Readers
  <2> HIDE DEF used, schema, values, M
  <2>7. ASSUME Known(values), \A i \in 1..Len(items) : ReaderAccepts(items[i], values)
        PROVE  findings = {}
    <3>1. MissingKeys(schema, values) = {}
      <4> SUFFICES ASSUME NEW p \in DOMAIN schema, p \in DOMAIN values, NEW name \in schema[p].required
                   PROVE  Append(p, name) \in DOMAIN values
        BY NothingMissing
      <4>1. PICK c \in At(M, p) : name \in c.schema[p].required
        BY <2>5, SumRequires
      <4>2. MissingKeys(c.schema, values) = {}
        BY <2>6, <2>7, <4>1 DEF At, ReaderAccepts
      <4> QED BY <4>1, <4>2, NothingMissing DEF At
    <3>2. BadValues(schema, values) = {}
      <4> SUFFICES ASSUME NEW p \in DOMAIN schema, p \in DOMAIN values, schema[p].maximum # 0
                   PROVE  ~ (values[p] > schema[p].maximum)
        BY DEF BadValues
      <4>1. PICK c \in At(M, p) : c.schema[p].maximum = schema[p].maximum
        BY <2>5 DEF Sums
      <4>2. BadValues(c.schema, values) = {}
        BY <2>6, <2>7, <4>1 DEF At, ReaderAccepts
      <4> QED BY <4>1, <4>2 DEF At, BadValues
    <3>3. UnknownKeys(schema, values) = {}
      <4> SUFFICES ASSUME NEW q \in DOMAIN values, q # <<>>, Parent(q) \in DOMAIN schema,
                          schema[Parent(q)].flag = "false", q \notin DOMAIN schema
                   PROVE  FALSE
        BY DEF UnknownKeys
      <4>1. Closing(schema, Parent(q))
        BY <2>1 DEF Describes
      <4>2. PICK c \in At(M, Parent(q)) : c.schema[Parent(q)].properties
        BY <2>5, <4>1 DEF Sums, Closing
      <4>3. \E i \in Described(Parent(q)) : items[i].schema[Parent(q)].properties
        BY <2>6, <4>2 DEF At, Described
      <4>4. Described(q) = {}
        BY <2>5 DEF Described, M, Readers
      <4> QED BY <2>7, <4>1, <4>3, <4>4 DEF Known, Closing
    <3> QED BY <2>3, <2>4, <3>1, <3>2, <3>3 DEF SchemaFindings, Finding
  <2>8. ASSUME "document" \notin relaxed, findings = {}, NEW i \in 1..Len(items)
        PROVE  MissingKeys(items[i].schema, values) = {} /\ BadValues(items[i].schema, values) = {}
    <3>1. MissingKeys(schema, values) = {} /\ BadValues(schema, values) = {}
      BY <2>3, <2>4, <2>8 DEF SchemaFindings, Finding
    <3>2. ASSUME NEW p \in DOMAIN items[i].schema
          PROVE  p \in DOMAIN schema /\ items[i] \in At(M, p) /\ Sums(schema[p], At(M, p), p)
      <4>1. items[i] \in M
        BY DEF M, Readers
      <4> QED BY <2>5, <4>1 DEF At
    <3>3. ASSUME NEW p \in DOMAIN items[i].schema, p \in DOMAIN values,
                 NEW name \in items[i].schema[p].required
          PROVE  Append(p, name) \in DOMAIN values
      <4>1. name \in schema[p].required
        BY <3>2, <3>3, SumRequires
      <4> QED BY <3>1, <3>2, <3>3, <4>1, NothingMissing
    <3>4. ASSUME NEW p \in DOMAIN items[i].schema, p \in DOMAIN values,
                 items[i].schema[p].maximum # 0
          PROVE  ~ (values[p] > items[i].schema[p].maximum)
      <4>1. schema[p].maximum = items[i].schema[p].maximum
        BY <3>2, <3>4 DEF Sums
      <4> QED BY <3>1, <3>2, <3>4, <4>1 DEF BadValues
    <3>5. MissingKeys(items[i].schema, values) = {}
      BY <3>3, NothingMissing
    <3>6. BadValues(items[i].schema, values) = {}
      BY <3>4 DEF BadValues
    <3> QED BY <3>5, <3>6
  <2> QED BY <2>7, <2>8 DEF PassedAsRead, values
<1> QED BY <1>1, InvInductive, PTL

=============================================================================
