--------------------------- MODULE ConfigTransform ---------------------------
(***************************************************************************)
(* What the spec of an EventMesh makes of the config maps in the manifests: *)
(* the defaulting and validation of the webhook (pkg/apis/operator), and   *)
(* the transformers the two manifest parsers register, in the order in     *)
(* which they run (pkg/manifests, pkg/manifests/transform).                *)
(*                                                                         *)
(* The data of a config map is a function from keys to values.  A value    *)
(* that holds a document (JSON, XML or YAML) is split into its parts that  *)
(* the transformers tell apart, "<key>/<part>", of which "rest" is all     *)
(* that they leave alone.  The part "level" of config.xml is the level of  *)
(* its root and logger elements: "none" if it has none of them, "mixed" if *)
(* they differ.                                                            *)
(***************************************************************************)
EXTENDS Integers, TLC, SequencesExt, KeyValues

CONSTANTS
    Nil,        \* the nil pointer or map
    Manifest,   \* the data of every config map of the manifests, by its name
    ToLower,    \* strings.ToLower, on the spellings that occur
    ToUpper     \* strings.ToUpper, likewise

Maps == DOMAIN Manifest \cup {"kafka-channel"}

LogLevels == {"trace", "debug", "info", "warn", "error", "fatal"}
BrokerClasses == {"Kafka", "MTChannelBasedBroker"}
ChannelImplementations == {"KafkaChannel", "InMemoryChannel"}

-----------------------------------------------------------------------------
(* Admission.  A spec is a record of log, broker, channel, servers,        *)
(* partitions, replication, options, eventing and kafka (the features, or  *)
(* Nil) and overrides (of config maps, or Nil).                            *)

SetDefaults(s) ==
    [s EXCEPT !.log = IF @ = "" THEN "info" ELSE ToLower[@],
              !.partitions = IF @ <= 0 THEN 3 ELSE @,
              !.replication = IF @ <= 0 THEN 1 ELSE @]

Validate(s) ==
    /\ s.log \in LogLevels \cup {""}
    /\ s.broker \in BrokerClasses \cup {""}
    /\ s.channel \in ChannelImplementations \cup {""}
    /\ s.servers # <<>>
    /\ s.partitions >= 0 /\ s.replication >= 0

-----------------------------------------------------------------------------
(* Feature flags.                                                          *)

ValueOf(d, k, default) == IF k \in DOMAIN d THEN d[k] ELSE default

\* ~IsDisabledTransportEncryption, of flags in which an unset one is disabled
\* and the spelling of "disabled" does not matter.
EncryptionOn(flags) == ToLower[ValueOf(flags, "transport-encryption", "disabled")] # "disabled"

\* GetEventingFeatureFlags, of the spec alone.
TLSEnabled(s) == s.eventing # Nil /\ EncryptionOn(s.eventing)

-----------------------------------------------------------------------------
(* The transformers: the data d of the config map cm, after.               *)

HasPrefix(k, p) == Len(k) >= Len(p) /\ SubSeq(k, 1, Len(p)) = p

InvalidLevel == "invalid level"

\* zap has no level trace.
MutConvertToZapLogLevel(l) ==
    CASE ToLower[l] = "debug" -> "debug"
      [] ToLower[l] = "info"  -> "info"
      [] ToLower[l] = "warn"  -> "warn"
      [] ToLower[l] = "error" -> "error"
      [] ToLower[l] = "fatal" -> "fatal"
      [] OTHER -> InvalidLevel

\* The switch has a list of levels of its own, next to LogLevels.
convertToZapLogLevel(l) ==
    CASE ToLower[l] \in {"trace", "debug"} -> "debug"
      [] ToLower[l] = "info"  -> "info"
      [] ToLower[l] = "warn"  -> "warn"
      [] ToLower[l] = "error" -> "error"
      [] ToLower[l] = "fatal" -> "fatal"
      [] OTHER -> InvalidLevel

\* The level of zap-logger-config is set; a missing one is made up.
updateZapConfigLevel(d, l) ==
    Single("zap-logger-config/level", l) ?? d ?? Single("zap-logger-config/rest", "default")

EventingCoreLogging(cm, d, s) ==
    LET level == convertToZapLogLevel(s.log)
        components == [k \in DOMAIN d |-> IF HasPrefix(k, "loglevel.") THEN level ELSE d[k]]
    IN  IF cm = "config-logging" THEN updateZapConfigLevel(components, level) ELSE d

DefaultChannelImplementation(cm, d, s) ==
    IF cm = "default-ch-webhook"
    THEN Single("default-ch-config", IF s.channel = "" THEN "KafkaChannel" ELSE s.channel) ?? d
    ELSE d

MutConfigMapForBrokerClass(class, channel) ==
    IF class = "MTChannelBasedBroker"
    THEN IF channel = "KafkaChannel" THEN "kafka-channel" ELSE "config-br-default-channel"
    ELSE "kafka-broker-config"

configMapForBrokerClass(class, channel) ==
    IF class = "MTChannelBasedBroker"
    THEN IF channel = "InMemoryChannel" THEN "config-br-default-channel" ELSE "kafka-channel"
    ELSE "kafka-broker-config"

DefaultBrokerClass(cm, d, s) ==
    LET class == IF s.broker = "" THEN "Kafka" ELSE s.broker
        alternative == IF class = "Kafka" THEN "MTChannelBasedBroker" ELSE "Kafka"
    IN  IF cm = "config-br-defaults"
        THEN Single("default-br-config/class", class)
             ?? Single("default-br-config/config", configMapForBrokerClass(class, s.channel))
             ?? Single("default-br-config/alternative", alternative)
             ?? Single("default-br-config/alternativeConfig", configMapForBrokerClass(alternative, s.channel))
             ?? d
        ELSE d

\* ConfigMapMultipleValues: values replace the data of the map, or are merged.
ConfigMapMultipleValues(name, cm, d, values, merge) ==
    IF cm # name THEN d ELSE IF merge THEN values ?? d ELSE values

EventingFeatureFlags(cm, d, s) ==
    IF s.eventing # Nil THEN ConfigMapMultipleValues("config-features", cm, d, s.eventing, FALSE) ELSE d

\* The name of a config map without the first len("config-") letters.
shortName(cm) == SubSeq(cm, Len("config-") + 1, Len(cm))

ConfigMapOverride(cm, d, s) ==
    IF cm \in DOMAIN s.overrides THEN s.overrides[cm] ?? d
    ELSE IF shortName(cm) \in DOMAIN s.overrides THEN s.overrides[shortName(cm)] ?? d
    ELSE d

KafkaLogging(cm, d, s) ==
    IF cm = "kafka-config-logging" THEN Single("config.xml/level", ToUpper[s.log]) ?? d ELSE d

EventingKafkaBrokerFeatureFlags(cm, d, s) ==
    IF s.kafka # Nil THEN ConfigMapMultipleValues("config-kafka-features", cm, d, s.kafka, FALSE) ELSE d

ConfigMap(name, cm, d, k, v) == IF cm = name THEN Single(k, v) ?? d ELSE d

\* strings.Join(servers, ",")
Join(servers) ==
    FoldLeft(LAMBDA joined, server : IF joined = "" THEN server ELSE joined \o "," \o server, "", servers)

MutBootstrapServersBroker(cm, d, s) ==
    IF cm = "kafka-broker-config" THEN Single("bootstrap.servers", Join(s.servers)) ?? d ELSE d

BootstrapServers(cm, d, s) ==
    IF cm \in {"kafka-broker-config", "kafka-channel-config"}
    THEN Single("bootstrap.servers", Join(s.servers)) ?? d
    ELSE d

NumberOfPartitions(cm, d, s) ==
    ConfigMap("kafka-broker-config", cm, d, "default.topic.partitions", ToString(s.partitions))
ReplicationFactor(cm, d, s) ==
    ConfigMap("kafka-broker-config", cm, d, "default.topic.replication.factor", ToString(s.replication))

\* The options of topics under the keys that they have in the config map.
TopicOptions(s) ==
    LET prefixed == {<<"default.topic.config." \o k, s.options[k]>> : k \in DOMAIN s.options}
    IN  [k \in {o[1] : o \in prefixed} |-> (CHOOSE o \in prefixed : o[1] = k)[2]]

KafkaTopicOption(cm, d, s) ==
    ConfigMapMultipleValues("kafka-broker-config", cm, d, TopicOptions(s), TRUE)

-----------------------------------------------------------------------------
(* The pipeline: the parser of eventing, then that of the Kafka broker.    *)

\* What is loaded: the manifests, and the template of Kafka channels.
eventingKafkaChannelTemplateConfigMap(s) ==
    [k \in {"channel-template-spec/numPartitions", "channel-template-spec/replicationFactor"} |->
        ToString(IF k = "channel-template-spec/numPartitions" THEN s.partitions ELSE s.replication)]
Loaded(cm, s) ==
    IF cm = "kafka-channel" THEN eventingKafkaChannelTemplateConfigMap(s) ELSE Manifest[cm]

\* The transformers of eventingCoreManifests (those of workloads aside).
Core(cm, s) ==
    LET logging == EventingCoreLogging(cm, Loaded(cm, s), s)
        channel == DefaultChannelImplementation(cm, logging, s)
        broker  == DefaultBrokerClass(cm, channel, s)
        flags   == EventingFeatureFlags(cm, broker, s)
    IN  ConfigMapOverride(cm, flags, s)

\* As the comment of ConfigMapOverride has it: the overrides have the last word.
MutTransformedOverridesLast(cm, s) ==
    LET logging     == KafkaLogging(cm, Core(cm, s), s)
        flags       == EventingKafkaBrokerFeatureFlags(cm, logging, s)
        servers     == BootstrapServers(cm, flags, s)
        partitions  == NumberOfPartitions(cm, servers, s)
        replication == ReplicationFactor(cm, partitions, s)
    IN  ConfigMapOverride(cm, KafkaTopicOption(cm, replication, s), s)

\* The transformers of eventingKafkaBrokerCoreManifests follow.
Transformed(cm, s) ==
    LET logging     == KafkaLogging(cm, Core(cm, s), s)
        flags       == EventingKafkaBrokerFeatureFlags(cm, logging, s)
        servers     == BootstrapServers(cm, flags, s)
        partitions  == NumberOfPartitions(cm, servers, s)
        replication == ReplicationFactor(cm, partitions, s)
    IN  KafkaTopicOption(cm, replication, s)

UnknownLevel == "unknown log level"
NoLevels == "no logger or root level elements found"

\* The level elements of config.xml before KafkaLogging sets them.
XMLLevel(s) == Core("kafka-config-logging", s)["config.xml/level"]

\* Why the transformers refuse a spec, if they do: EventingCoreLogging cannot
\* convert its level; or KafkaLogging takes a replacement that changes nothing
\* for one that finds nothing.
TransformError(s) ==
    IF convertToZapLogLevel(s.log) = InvalidLevel THEN UnknownLevel
    ELSE IF XMLLevel(s) \in {"none", ToUpper[s.log]} THEN NoLevels
    ELSE ""

-----------------------------------------------------------------------------
(* Who asks for what: the parties to the precedence of values.             *)

\* The override that is meant for a config map, by its full or its short name.
Overridden(cm, s) ==
    ValueOf(s.overrides, cm, ValueOf(s.overrides, shortName(cm), <<>>))

\* What the fields of the spec for the Kafka broker ask of a config map.
BrokerFields(s) ==
    TopicOptions(s)
    ?? Single("default.topic.replication.factor", ToString(s.replication))
    ?? Single("default.topic.partitions", ToString(s.partitions))
    ?? Single("bootstrap.servers", Join(s.servers))
KafkaFields(cm, s) ==
    CASE cm = "kafka-config-logging" -> Single("config.xml/level", ToUpper[s.log])
      [] cm = "kafka-channel-config" -> Single("bootstrap.servers", Join(s.servers))
      [] cm = "kafka-broker-config" -> BrokerFields(s)
      [] cm = "config-kafka-features" /\ s.kafka # Nil -> s.kafka
      [] OTHER -> <<>>

=============================================================================
