-------------------------- MODULE MCVendoredContracts --------------------------
(***************************************************************************)
(* Two charts, the first with two images in two documents, over seven      *)
(* images, each built well or badly in its own way, and the platforms the  *)
(* indexes among them list.                                                *)
(***************************************************************************)
EXTENDS VendoredContracts

CONSTANTS A, B, b1, b2

\* The builds are alike.
MCSymmetry == Permutations({b1, b2})

MCPrefix == (A :> "APP_") @@ (B :> "APP_")

Layer(path, file) == [path |-> path, file |-> file]
Good(d) == [digest |-> Nothing, os |-> "linux", labels |-> LabelsOf(d, "/c.json"), layers |-> <<Layer("/c.json", d)>>]
Unembedded(d) == [Good(d) EXCEPT !.layers = <<Layer("/other", "unreadable")>>]
Single(entry) == [index |-> FALSE, entries |-> <<entry>>]

\* What an index lists: a name of its own, and the manifest under it.
Below ==
       ("both1" :> Good(A)) @@ ("both3" :> Good(A))
    @@ ("labelled1" :> Unembedded(A)) @@ ("labelled2" :> Unembedded(A))
    @@ ("split1" :> Good(A)) @@ ("split2" :> [Good(A) EXCEPT !.layers = <<Layer("/c.json", B)>>])
Listed(name) == [Below[name] EXCEPT !.digest = name]
Index(entries) == [index |-> TRUE, entries |-> entries]

\* Built well: embedded on both platforms beside an attestation, overwritten
\* by a later layer, only labelled, or built again with the same document;
\* and badly: a platform that embeds another document, a label of another
\* namespace, or of another path.
MCImage ==
       ("both" :> Index(<<Listed("both1"), [Unembedded(A) EXCEPT !.os = "unknown"], Listed("both3")>>))
    @@ ("layered" :> Single([Good(A) EXCEPT !.layers =
            <<Layer("/c.json", B), Layer("/c.json", A), Layer("/x", "unreadable")>>]))
    @@ ("labelled" :> Index(<<Listed("labelled1"), Listed("labelled2")>>))
    @@ ("again" :> Single(Good(A)))
    @@ ("split" :> Index(<<Listed("split1"), Listed("split2")>>))
    @@ ("foreign" :> Single([Good(A) EXCEPT !.labels.prefix = "OTHER_"]))
    @@ ("moved" :> Single([Good(A) EXCEPT !.labels.path = "/d.json",
            !.layers = Append(@, Layer("/d.json", B))]))
    @@ [name \in DOMAIN Below |-> Single(Below[name])]
MCDigests == DOMAIN MCImage

\* One image was pushed with its document attached, one with a broken artifact.
\* Builds attach to an index, or to its first or second platform.
MCAttached ==
    [d \in MCDigests |-> IF d = "again" THEN <<A>> ELSE IF d = "moved" THEN <<"malformed">> ELSE <<>>]
MCHanded == [digest : {"both", "labelled", "labelled1"}, doc : {B}]
    \cup [digest : {"labelled2"}, doc : {A}]

MCCharts == <<"shop", "mail">>
MCEntries ==
    ("shop" :> << [document |-> "web", values |-> "api", contract |-> "api.json"],
                  [document |-> "web", values |-> "worker", contract |-> "worker.json"],
                  [document |-> "jobs", values |-> "api", contract |-> "api.json"] >>)
    @@ ("mail" :> << [document |-> "app", values |-> "image", contract |-> "app.json"] >>)

Address(r, d) == [repository |-> r, digest |-> d]
Main(d) == Address("main", d)
MCSigned == {Main(d) : d \in MCDigests \ {"again"}} \cup {Address("mirror", "again")}
MCPins ==
    ("shop" :> {Main("layered"), Main("labelled"), Main("again"), Address("mirror", "again"),
                Main("split"), Main(Nothing), NoImage})
    @@ ("mail" :> {Main("both"), Address("mirror", "again")})
MCStarts == {("shop" :> pin) @@ ("mail" :> Main("both")) : pin \in MCPins["shop"]}
MCOutages == {{}, {"labelled"}}
=============================================================================
