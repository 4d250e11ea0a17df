---------------------------- MODULE ChartBindings ---------------------------
(***************************************************************************)
(* What binds a contract's keys to a chart: the declaration's write-offs   *)
(* (cli/src/helm/declaration.rs), the markers of the values file, and the  *)
(* gate that holds the two against the contracts (bindings.rs).            *)
(*                                                                         *)
(* A key is its path.  contracts[d] is a function from the keys document d *)
(* declares to their entries; a marker or a write-off with no documents is *)
(* unscoped.                                                               *)
(***************************************************************************)
EXTENDS ValuesFile

CONSTANT Docs   \* the documents the chart declares

Scope(documents) == IF documents = {} THEN Docs ELSE documents
Declared(contracts) == UNION {DOMAIN contracts[d] : d \in Docs}
Declaring(contracts, key) == {d \in Docs : key \in DOMAIN contracts[d]}

\* load_unbound, load_credentials: one reason for a key in one scope, in
\* documents the chart declares; one row for a credential.
Loads(declaration) ==
    /\ \A e \in declaration.unbound : e.documents \subseteq Docs
    /\ \A e, f \in declaration.unbound :
         (e # f /\ e.key = f.key) => e.documents \cap f.documents = {}

\* Mutant: an entry writes its keys off whatever its scope.
WrittenOffAnywhere(declaration, d) == {e.key : e \in declaration.unbound}

\* written_off_in
WrittenOff(declaration, d) ==
    {e.key : e \in {u \in declaration.unbound : d \in Scope(u.documents)}}

-----------------------------------------------------------------------------
(* Rules 1 to 3, one marker at a time.                                     *)

Matched(contracts, m) == Declaring(contracts, m.target) \cap Scope(m.documents)

\* resolve_documents: the documents a marker binds its target in, none if
\* its scope names one that does not declare it.
BindsIn(contracts, m) ==
    IF m.documents # {} /\ Matched(contracts, m) # m.documents THEN {}
    ELSE Matched(contracts, m)

\* check_shape
ShapeFits(contracts, m) ==
    LET forms == {contracts[d][m.target].form : d \in Matched(contracts, m)}
    IN  /\ Cardinality(forms) <= 1
        /\ m.class = "structured" => forms = {"structured"}
        /\ m.class = "projection" => forms # {"structured"}

\* resolve
Resolved(contracts, markers) ==
    UNION {{[marker |-> m, document |-> d] : d \in BindsIn(contracts, m)} :
             m \in {n \in markers : ShapeFits(contracts, n)}}

Conditional(markers) == {m \in markers : m.when # <<>>}

\* The markers the first three rules refuse.
Misread(contracts, markers, values) ==
    {m \in markers : BindsIn(contracts, m) = {} \/ ~ShapeFits(contracts, m)}
    \cup {m \in Conditional(markers) :
            /\ BindsIn(contracts, m) # {} /\ ShapeFits(contracts, m)
            /\ ~HasPath(values, m.when)}

\* Mutant: one value that says it is one of several is enough.
BoundTwiceUnsaid(contracts, markers) ==
    LET held == Resolved(contracts, markers)
        of(d, k) == {r.marker : r \in {h \in held : h.document = d /\ h.marker.target = k}}
    IN  {<<d, k>> \in Docs \X {m.target : m \in markers} :
            /\ Cardinality(of(d, k)) > 1
            /\ \A m \in of(d, k) : m.class # "composed"}

\* check_uniqueness
BoundTwice(contracts, markers) ==
    LET held == Resolved(contracts, markers)
        of(d, k) == {r.marker : r \in {h \in held : h.document = d /\ h.marker.target = k}}
    IN  {<<d, k>> \in Docs \X {m.target : m \in markers} :
            /\ Cardinality(of(d, k)) > 1
            /\ \E m \in of(d, k) : m.class # "composed"}

\* check_write_offs
StaleWriteOffs(contracts, declaration) ==
    {e \in declaration.unbound : Declaring(contracts, e.key) \cap Scope(e.documents) = {}}

\* premises
Premises(contracts, declaration, markers, values) ==
    /\ Misread(contracts, markers, values) = {}
    /\ BoundTwice(contracts, markers) = {}
    /\ StaleWriteOffs(contracts, declaration) = {}

-----------------------------------------------------------------------------
(* Rule 5: every key of every document is bound or written off.            *)

\* bound_in
BoundIn(contracts, markers, d) ==
    {r.marker.target : r \in {h \in Resolved(contracts, markers) : h.document = d}}

\* missing_keys
Missing(contracts, declaration, markers, d) ==
    DOMAIN contracts[d] \ (BoundIn(contracts, markers, d) \cup WrittenOff(declaration, d))

\* check_coverage: a key that is both.
Contradicted(contracts, declaration, markers, d) ==
    DOMAIN contracts[d] \cap BoundIn(contracts, markers, d) \cap WrittenOff(declaration, d)

\* check_wired: the template names the last segment of the key somewhere.
Leaf(key) == key[Len(key)]
Unwired(templates, markers) == {m.target : m \in {n \in markers : Leaf(n.target) \notin templates.names}}

\* check_chart, once the values file reads and the declaration loads.
Passes(contracts, declaration, markers, values, templates) ==
    IF ~declaration.bindings THEN markers = {}
    ELSE /\ markers # {}
         /\ Unwired(templates, markers) = {}
         /\ Premises(contracts, declaration, markers, values)
         /\ \A d \in Docs :
              /\ Missing(contracts, declaration, markers, d) = {}
              /\ Contradicted(contracts, declaration, markers, d) = {}
=============================================================================
