-------------------------- MODULE MCConfiguration --------------------------
(* Instances of Configuration for TLC: the config maps of the manifests in *)
(* cmd/operator/kodata that transformers are about, with the keys that     *)
(* matter, and specs that between them use every field of an EventMesh.    *)
EXTENDS Configuration

MCManifest ==
    ("config-logging" :> (
        [k \in {"loglevel.controller", "loglevel.webhook", "zap-logger-config/level"} |-> "info"]
        @@ ("zap-logger-config/rest" :> "manifest")))
    @@ ("config-features" :> [k \in {"transport-encryption", "new-apiserversource-filters"} |-> "disabled"])
    @@ ("config-br-defaults" :> (
        ("default-br-config/class" :> "MTChannelBasedBroker")
        @@ ("default-br-config/config" :> "config-br-default-channel")))
    @@ ("default-ch-webhook" :> ("default-ch-config" :> "InMemoryChannel"))
    @@ ("kafka-config-logging" :> (("config.xml/level" :> "INFO") @@ ("config.xml/rest" :> "manifest")))
    @@ ("config-kafka-features" :>
        [k \in {"dispatcher-rate-limiter", "controller-autoscaler-keda"} |-> "disabled"])
    @@ ("kafka-broker-config" :> (
        ("default.topic.partitions" :> "10") @@ ("default.topic.replication.factor" :> "3")
        @@ ("bootstrap.servers" :> "my-cluster")))
    @@ ("kafka-channel-config" :> ("bootstrap.servers" :> "my-cluster"))

\* None of them depends on another: one order stands for all.
MCOrder ==
    <<"config-logging", "config-features", "config-br-defaults", "default-ch-webhook", "kafka-config-logging",
      "config-kafka-features", "kafka-broker-config", "kafka-channel-config", "kafka-channel">>

MCToLower ==
    [l \in LogLevels \cup {"", "disabled", "strict", "loud"} |-> l]
    @@ ("TRACE" :> "trace") @@ ("Warn" :> "warn") @@ ("Strict" :> "strict") @@ ("Disabled" :> "disabled")
MCToUpper ==
    ("trace" :> "TRACE") @@ ("debug" :> "DEBUG") @@ ("info" :> "INFO")
    @@ ("warn" :> "WARN") @@ ("error" :> "ERROR") @@ ("fatal" :> "FATAL")

Base ==
    [log |-> "debug", broker |-> "", channel |-> "", servers |-> <<"a", "b">>,
     partitions |-> 0, replication |-> 0, options |-> Empty,
     eventing |-> Nil, kafka |-> Nil, overrides |-> Empty]

MTBroker ==
    [Base EXCEPT !.log = "TRACE", !.broker = "MTChannelBasedBroker", !.channel = "InMemoryChannel",
                 !.partitions = 5, !.eventing = ("transport-encryption" :> "Disabled")]

Encrypted ==
    [Base EXCEPT !.log = "Warn", !.eventing = ("transport-encryption" :> "Strict"),
                 !.kafka = ("controller-autoscaler-keda" :> "enabled"),
                 !.overrides = ("kafka-features" :> ("dispatcher-rate-limiter" :> "enabled"))]

Overriding ==
    [Base EXCEPT !.log = "fatal", !.options = ("retention.ms" :> "1"),
                 !.overrides =
                    ("features" :> ("new-apiserversource-filters" :> "enabled"))
                    @@ ("kafka-broker-config" :> (
                        ("default.topic.partitions" :> "99") @@ ("group.id" :> "mine")))
                    @@ ("config-kafka-features" :> ("dispatcher-rate-limiter" :> "enabled"))
                    @@ ("logging" :> ("loglevel.webhook" :> "error"))]

\* Without features, and with an XML of the user's.
OwnXML ==
    [Base EXCEPT !.log = "", !.eventing = Empty,
                 !.overrides = ("kafka-config-logging" :> (
                    ("config.xml/level" :> "mixed") @@ ("config.xml/rest" :> "user")))]

DefaultLevel == [Base EXCEPT !.log = ""]
NoOverrides  == [Base EXCEPT !.overrides = Nil]
NoServers    == [Base EXCEPT !.servers = <<>>]
UnknownLog   == [Base EXCEPT !.log = "loud"]

MCSubmissions ==
    {Base, MTBroker, Encrypted, Overriding, OwnXML, DefaultLevel, NoOverrides, NoServers, UnknownLog}

\* A key of the spec's, a flag, a key that some spec overrides and another drops.
MCEdits ==
    {<<"kafka-broker-config", "bootstrap.servers", "c">>,
     <<"kafka-broker-config", "group.id", "mine">>,
     <<"config-features", "transport-encryption", "strict">>,
     <<"config-features", "new-apiserversource-filters", Nil>>}
=============================================================================
