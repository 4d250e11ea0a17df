--------------------------- MODULE MCContractUnion ---------------------------
(* Up to three readers of one document out of twelve contracts: a shared    *)
(* key, a map with an element schema, an object of the same name, and the   *)
(* ways two contracts may disagree.                                         *)
EXTENDS ContractUnion

Table(required) == [Nothing EXCEPT !.properties = TRUE, !.required = required]
Leaf(maximum) == [Nothing EXCEPT !.maximum = maximum]
Closed(level) == [level EXCEPT !.flag = "false"]

Key(name, docs, required) ==
    [section |-> "key", name |-> name, fields |-> [docs |-> docs], required |-> required]

Contract(label, entries, schema) ==
    [label |-> label, dialect |-> "app", loader |-> "serde", entries |-> entries,
     ignore |-> {}, unknown |-> "allow", schema |-> schema]

\* A root with the key `a`, and one with the map `m`.
Root(a, m, required) ==
    [p \in {<<>>} \cup DOMAIN a \cup DOMAIN m |->
        IF p = <<>> THEN Table(required)
        ELSE IF p \in DOMAIN a THEN a[p] ELSE m[p]]

KeyA(maximum) == [p \in {<<"a">>} |-> Leaf(maximum)]
None == [p \in {} |-> Nothing]
MapM(element, t) ==
    [p \in {<<"m">>, <<"m", "*">>, <<"m", "*", "t">>} |->
        IF p = <<"m">> THEN Nothing ELSE IF Len(p) = 2 THEN element ELSE t]

MCContracts ==
    {Contract("needs_a", <<Key("a", "d", TRUE)>>, Root(KeyA(2), None, {"a"})),
     [Contract("takes_a", <<Key("a", "d", FALSE)>>, Root(KeyA(0), None, {}))
        EXCEPT !.unknown = "newest"],
     Contract("loose_a", <<Key("a", "d", FALSE)>>, Root(KeyA(3), None, {})),
     Contract("other_docs", <<Key("a", "other", FALSE)>>, Root(KeyA(2), None, {})),
     Contract("open_map", <<Key("b", "d", FALSE), Key("m", "d", FALSE)>>,
              Root([p \in {<<"b">>} |-> Nothing], MapM(Table({}), Nothing), {})),
     Contract("closed_map", <<Key("m", "d", FALSE)>>,
              Root(None, MapM(Closed(Table({"t"})), Nothing), {})),
     [Contract("strict", <<Key("a", "d", FALSE)>>, Root(KeyA(2), None, {}))
        EXCEPT !.schema = [@ EXCEPT ![<<>>] = Closed(@)],
               !.unknown = "reject", !.ignore = {"K*"}, !.loader = "other"],
     [Contract("nameless", <<Key("none", "d", FALSE)>>, Root(None, None, {}))
        EXCEPT !.loader = ""],
     [Contract("foreign", <<>>, Root(None, None, {})) EXCEPT !.dialect = "web",
                                                            !.unknown = "later"],
     [Contract("newer", <<>>, Root(None, None, {})) EXCEPT !.unknown = "newer"],
     \* m is an object of known keys here, and a leaf in the others.
     Contract("object_m", <<>>,
              Root(None, [p \in {<<"m">>, <<"m", "t">>} |->
                             IF Len(p) = 1 THEN Table({}) ELSE Nothing], {})),
     Contract("remote", <<>>, Root([p \in {<<"r">>} |-> [Nothing EXCEPT !.ref = "remote"]],
                                   None, {}))}

Values(present, a) == [p \in present |-> IF p = <<"a">> THEN a ELSE 0]

MCDocuments ==
    {[read |-> "parsed", values |-> Values({<<>>} \cup present, a)] :
        present \in {s \in SUBSET {<<"a">>, <<"b">>, <<"z">>, <<"m">>, <<"m", "*">>,
                                  <<"m", "*", "t">>, <<"m", "*", "u">>, <<"m", "t">>} :
                        \A q \in s : Parent(q) \in s \cup {<<>>}},
        a \in 2..3}
    \cup {[read |-> r, values |-> Values({}, 1)] :
             r \in {"no_object", "two_objects", "no_key", "unreadable"}}

MCExemptions == {{}, {"closed"}, {"document"}}
=============================================================================
