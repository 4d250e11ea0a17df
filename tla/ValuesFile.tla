----------------------------- MODULE ValuesFile -----------------------------
(***************************************************************************)
(* A chart's values.yaml as the lines a writer splices into and a reader   *)
(* reads: cli/src/helm/regions.rs, markers.rs and adopt/apply.rs.          *)
(*                                                                         *)
(* A line is a key (bare, with a scalar or with a flow mapping on its own  *)
(* line), a sequence item, a whole @schema block (its markers and its      *)
(* schema), a @config-shape note of its own, or blank.                     *)
(***************************************************************************)
EXTENDS Naturals, SequencesExt, FiniteSetsExt

Plain == [kind |-> "blank", indent |-> 0, name |-> "", value |-> "", flow |-> {},
          markers |-> {}, schema |-> <<>>, note |-> <<>>]

Blank == Plain
Key(indent, name, value) ==
    [Plain EXCEPT !.kind = "key", !.indent = indent, !.name = name, !.value = value]
Parent(indent, name) == Key(indent, name, "bare")
Flow(indent, name, inner) == [Key(indent, name, "flow") EXCEPT !.flow = inner]
Item(indent) == [Plain EXCEPT !.kind = "item", !.indent = indent]
Block(indent, markers, schema) ==
    [Plain EXCEPT !.kind = "block", !.indent = indent, !.markers = markers, !.schema = schema]
Note(note) == [Plain EXCEPT !.kind = "note", !.note = note]

Keyed(file) == {i \in DOMAIN file : file[i].kind = "key"}
Content(file) == {i \in DOMAIN file : file[i].kind \in {"key", "item"}}
Above(file, i) == {j \in Keyed(file) : j < i /\ file[j].indent < file[i].indent}

\* The stack of the line walk: the path of every key line.
PathAt(file) ==
    LET at[i \in Keyed(file)] ==
            Append(IF Above(file, i) = {} THEN <<>> ELSE at[Max(Above(file, i))],
                   file[i].name)
    IN  at

\* The last line of content deeper than the key, before the first that is not.
End(file, i) ==
    LET below  == {j \in Content(file) : j > i}
        within == {j \in below :
                     \A k \in below : k <= j => file[k].indent > file[i].indent}
    IN  Max(within \cup {i})

Regions(file) ==
    LET path == PathAt(file)
    IN  {[path |-> path[i], line |-> i, indent |-> file[i].indent,
          end |-> End(file, i), bare |-> file[i].value = "bare"] : i \in Keyed(file)}

-----------------------------------------------------------------------------
(* What YAML makes of the lines.                                           *)

Parses(file) ==
    LET content == Content(file)
        path    == PathAt(file)
        before(i) == {j \in content : j < i}
        first(i)  == Min({j \in content : j > i})
        Under(i)  == IF Above(file, i) = {} THEN 0 ELSE Max(Above(file, i))
        KeyFits(i) == IF Under(i) = 0 THEN file[i].indent = 0
                      ELSE /\ file[Under(i)].value = "bare"
                           /\ file[first(Under(i))].kind = "key"
        ItemFits(i) == /\ before(i) # {}
                       /\ LET last == file[Max(before(i))]
                          IN  \/ last.kind = "item" /\ last.indent = file[i].indent
                              \/ last.value = "bare" /\ last.indent <= file[i].indent
    IN  /\ \A i, j \in Keyed(file) : path[i] = path[j] => i = j
        /\ \A i, j \in Keyed(file) : Under(i) = Under(j) => file[i].indent = file[j].indent
        /\ \A i \in content : IF file[i].kind = "key" THEN KeyFits(i) ELSE ItemFits(i)

Values(file) ==
    LET path == PathAt(file)
        next(i) == {j \in Content(file) : j > i}
        nested(i) == IF next(i) = {} THEN "null"
                     ELSE LET j == Min(next(i))
                          IN  IF file[j].kind = "item" /\ file[j].indent >= file[i].indent
                              THEN "sequence"
                              ELSE IF file[j].indent > file[i].indent THEN "mapping" ELSE "null"
        held(i) == IF file[i].value = "bare" THEN nested(i)
                   ELSE IF file[i].value = "flow" THEN "mapping" ELSE file[i].value
    IN  {[path |-> path[i], value |-> held(i)] : i \in Keyed(file)}
        \cup UNION {{[path |-> Append(path[i], n), value |-> "inner"] : n \in file[i].flow}
                    : i \in Keyed(file)}

\* has_path
HasPath(values, path) == \E v \in values : v.path = path

-----------------------------------------------------------------------------
(* markers.rs: a block, and the markers in it, belong to the key below it. *)

Below(file, i) == {j \in DOMAIN file : j > i /\ file[j].kind # "note"}

Described(file, i) ==
    Below(file, i) # {} /\ file[Min(Below(file, i))].kind = "key"

\* strand: a marker no value follows is a problem of the whole file.
Stranded(file) ==
    \E i \in DOMAIN file :
        file[i].kind = "block" /\ file[i].markers # {} /\ ~Described(file, i)

TwiceBound(file) ==
    \E i \in DOMAIN file : \E a, b \in file[i].markers :
        a # b /\ a.target = b.target /\ a.documents = b.documents

Readable(file) == Parses(file) /\ ~Stranded(file) /\ ~TwiceBound(file)

Blocks(file) ==
    {[path |-> PathAt(file)[Min(Below(file, i))], line |-> i,
      markers |-> file[i].markers, schema |-> file[i].schema] :
        i \in {b \in DOMAIN file : file[b].kind = "block" /\ Described(file, b)}}

\* Every marker of the file, with the path of the value it binds.
Markers(file) ==
    UNION {{[path |-> b.path] @@ m : m \in b.markers} : b \in Blocks(file)}

Notes(file) ==
    {[line |-> i] @@ file[i].note : i \in {n \in DOMAIN file : file[n].kind = "note"}}

-----------------------------------------------------------------------------
(* apply.rs: runs of whole lines, each going in after a line.              *)

\* Splice::apply, over the runs in the order they are to land.
Splice(file, runs) ==
    LET landing(after) == SelectSeq(runs, LAMBDA r : r.after = after)
        lines(after) == FlattenSeq([i \in DOMAIN landing(after) |-> landing(after)[i].lines])
    IN  lines(0) \o FlattenSeq([i \in DOMAIN file |-> <<file[i]>> \o lines(i)])

\* splices: by line; of one line, the deeper first, the later planned above.
Lands(a, b) ==
    \/ a.after < b.after
    \/ a.after = b.after /\ a.depth > b.depth
    \/ a.after = b.after /\ a.depth = b.depth /\ a.index > b.index

Ordered(runs) == SortSeq(runs, Lands)
=============================================================================
