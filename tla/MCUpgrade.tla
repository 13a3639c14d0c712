----------------------------- MODULE MCUpgrade -----------------------------
(* Instances of Upgrade for TLC: three releases, 1.18.0, 1.18.1 and 1.19.0; *)
(* the last brings a deployment more, at the end of its manifests.         *)
EXTENDS Upgrade

MCMinor == <<18, 18, 19>>
MCParsers == <<"eventing", "kafka">>
MCDeployments == {"controller", "jobsink", "kafka"}
MCManifest ==
    [eventing |-> [r \in 1..3 |-> IF r < 3 THEN <<"controller">> ELSE <<"controller", "jobsink">>],
     kafka |-> [r \in 1..3 |-> <<"kafka">>]]
=============================================================================
