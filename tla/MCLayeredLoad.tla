---------------------------- MODULE MCLayeredLoad ----------------------------
(* Small deployments for LayeredLoad: the keys a, a.b, file and the         *)
(* reserved config, in the spellings that matter.                           *)
EXTENDS JavaLoad

Var(path, upper, file) == [path |-> path, upper |-> upper, file |-> file]
Name(path, upper) == [path |-> path, upper |-> upper]

upperA   == Var(<<"a">>, TRUE, FALSE)
lowerA   == Var(<<"a">>, FALSE, FALSE)
nestedAB == Var(<<"a", "b">>, TRUE, FALSE)
nestedAC == Var(<<"a", "c">>, TRUE, FALSE)
fileKey  == Var(<<"file">>, TRUE, FALSE)
config   == Var(<<"config">>, FALSE, FALSE)
fileOfA  == Var(<<"a">>, TRUE, TRUE)
fileOfAB == Var(<<"a", "b">>, TRUE, TRUE)
fileOfConfig == Var(<<"config">>, FALSE, TRUE)

Vars == {upperA, lowerA, nestedAB, fileKey, config, fileOfA, fileOfAB, fileOfConfig}

\* Up to two variables, in either order.
Environments ==
    {<<>>} \cup {<<v>> : v \in Vars}
           \cup {<<p[1], p[2]>> : p \in {p \in Vars \X Vars : p[1] # p[2]}}

\* A value that comes and goes between two keys inside of it.
Cutting == <<nestedAB, upperA, nestedAC>>

Loaders(bare) ==
    [env : Environments \cup {Cutting}, reserved : {{Name(<<"config">>, TRUE)}},
     policy : {"reject", "last wins"}, secretsDir : {TRUE}, bare : bare]

MCProcesses ==
    Loaders({FALSE}) \cup {p \in Loaders({TRUE}) : p.env = <<>>} \cup
    {[env |-> <<upperA>>, reserved |-> {}, policy |-> "reject",
      secretsDir |-> FALSE, bare |-> FALSE]}

\* Entries of the secrets directory.
Entry(path, upper, kind) == [path |-> path, upper |-> upper, kind |-> kind]
key(path) == Entry(path, FALSE, "key")

Dirs ==
    {Nothing, << <<>> >>, << <<key(<<"a">>)>> >>,
     << <<key(<<"a">>), Entry(<<"a">>, TRUE, "key")>> >>,
     << <<key(<<"a", "b">>), Entry(<<"..data">>, FALSE, "skipped")>> >>,
     << <<key(<<"file">>)>> >>, << <<key(<<"config">>)>> >>,
     << <<Entry(<<"a.b">>, FALSE, "dotted")>> >>}

Plain(secretsDir, targets) ==
    [dir |-> FALSE, doc |-> 0 :> Nest(<<"a">>, Toml(0)),
     secrets |-> secretsDir, targets |-> targets]

Fragments(doc) ==
    [dir |-> TRUE, doc |-> doc, secrets |-> << <<>> >>, targets |-> Vars]

MCMounts ==
    {Plain(d, Vars) : d \in Dirs}
    \cup {Plain(<< <<key(<<"a">>)>> >>, {}),
          [Plain(<< <<>> >>, Vars) EXCEPT !.doc = <<>>]}
    \cup {Fragments(doc) : doc \in
            {<<>>, 1 :> Unparseable, 2 :> Nest(<<"a">>, Toml(2)),
             (1 :> Nest(<<"a">>, Toml(1))) @@ (2 :> Nest(<<"a", "b">>, Toml(2))),
             (1 :> Nest(<<"c">>, Table)) @@ (2 :> Nest(<<"c">>, Toml(2)))}}

=============================================================================
