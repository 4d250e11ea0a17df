----------------------------- MODULE MCRollout -----------------------------
(* Two keys, one written under an alias; two containers; seven images.     *)
EXTENDS Rollout

MCKeys == {"level", "ttl"}
MCReserved == {}
MCContainers == {"app", "side"}
MCSpelling == [k \in MCKeys |-> IF k = "ttl" THEN "ttl_alias" ELSE k]
MCAliases == [k \in MCKeys |-> IF k = "ttl" THEN {"ttl_alias"} ELSE {}]

\* An image built with this producer: the scopes on the way to each key.
Built(mode, layers, level, ttl) ==
    LET paths == [k \in MCKeys |-> IF k = "ttl" THEN ttl ELSE level]
    IN  [contract |-> Publish(mode, layers, paths),
         applies |-> AppliedInPlace(mode, layers, paths)]

\* An image built with a later producer, whose words this build does not know.
Newer(mode, layers, class) ==
    [contract |-> [mode |-> mode, layers |-> layers,
                   class |-> [k \in MCKeys |-> class]],
     applies |-> {}]

MCImages ==
    {Built("undeclared", {}, <<"live">>, <<>>),
     Built("none", {}, <<"live">>, <<>>),
     Built("rebuild", {"document", "secrets_dir", "env_file"}, <<"restart", "live">>, <<"live">>),
     Built("rebuild", {"document", "secrets_dir", "env_file"}, <<"live">>, <<"live", "live">>),
     Newer("other", {"document", "secrets_dir"}, "live"),
     Newer("rebuild", {"other"}, "live"),
     Newer("rebuild", {"document", "secrets_dir"}, "other")}

MCWorkloads ==
    {[kind |-> "Deployment", init |-> {}], [kind |-> "Deployment", init |-> {"side"}],
     [kind |-> "Job", init |-> {}]}

MCDeliveries ==
    {[k \in MCKeys |-> "document"],
     [k \in MCKeys |-> IF k = "ttl" THEN "secrets_dir" ELSE "document"],
     [k \in MCKeys |-> IF k = "ttl" THEN "secrets_dir" ELSE "env"]}

MCMounts == {{}, {"document"}, {"secrets_dir"}}
MCOverrides == {{}, {"ttl"}, {"gone"}}
=============================================================================
