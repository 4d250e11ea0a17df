-------------------------- MODULE MCPinnedReload --------------------------
(* A small type for PinnedReload: a live root key, and a table with one    *)
(* restart key, its alias, and one live key.                               *)
EXTENDS PinnedReload

CONSTANTS one, two

ttl   == <<"ttl">>
log   == <<"log">>
level == <<"log", "level">>
lvl   == <<"log", "lvl">>
fmt   == <<"log", "fmt">>

MCLeaves   == {ttl, level, lvl, fmt}
MCRestart  == {level, lvl}
MCPinOrder == <<level, lvl>>

\* The condition of the type: no fmt with the second level.
MCClashes == {(fmt :> two) @@ (level :> two)}

Optional(path, values) ==
    {<<>>} \cup {path :> v : v \in values}

\* Root tables with a ttl and either no log, a log that is no table, or one
\* with any of the keys.
MCTrees ==
    {(<<>> :> Table) @@ a @@ b :
        a \in Optional(ttl, {one, NaN}),
        b \in Optional(log, {one}) \cup
              {(log :> Table) @@ c @@ d :
                  c \in Optional(level, {one, two, Bad}) \cup Optional(lvl, {one}),
                  d \in Optional(fmt, {two})}}

=============================================================================
