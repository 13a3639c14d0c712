---------------------------- MODULE Configuration ----------------------------
(***************************************************************************)
(* The configuration of an EventMesh, from the webhook that admits its     *)
(* spec to the config maps and TLS resources in the cluster: admission     *)
(* (cmd/webhook), the reconcile as far as it installs configuration        *)
(* (pkg/reconciler/eventmesh, pkg/manifests), and the three-way merge with *)
(* which manifestival applies a config map.                                *)
(*                                                                         *)
(* What the transformers make of a spec is in ConfigTransform.  Here the   *)
(* spec is edited while a reconcile of an older one runs, every request    *)
(* may fail, the operator may crash, or be made to by a spec, and users    *)
(* change config maps by hand.                                             *)
(***************************************************************************)
EXTENDS ConfigTransform

CONSTANTS
    Submissions,    \* the specs users submit
    Order,          \* the config maps in the order in which they are applied
    Edits,          \* what users change by hand: <<map, key, value>>
    MaxSubmits,     \* bound: admitted submissions
    MaxEdits,       \* bound: changes by hand
    MaxFailures     \* bound: failing requests and crashes

ASSUME OrderAssumption ==
    /\ Order \in Seq(Maps)
    /\ \A cm \in Maps : \E i \in 1..Len(Order) : Order[i] = cm
ASSUME EditsAssumption == \A e \in Edits : e[1] \in Maps
ASSUME BoundsAssumption == MaxSubmits \in Nat /\ MaxEdits \in Nat /\ MaxFailures \in Nat
\* Lower case is the lower case of itself, and only nothing that of nothing.
ASSUME ToLowerAssumption ==
    /\ \A l \in LogLevels : ToLower[l] = l
    /\ \A l \in DOMAIN ToLower : ToLower[l] = "" => l = ""
ASSUME SubmissionsAssumption ==
    /\ Nil \notin {SetDefaults(s) : s \in Submissions}
    /\ \A s \in Submissions :
        /\ DOMAIN s = {"log", "broker", "channel", "servers", "partitions", "replication", "options",
                       "eventing", "kafka", "overrides"}
        /\ s.log \in DOMAIN ToLower
\* The config maps of the manifests that others have to agree with; there,
\* transport encryption is off.
ASSUME ManifestAssumption ==
    /\ {"config-features", "config-br-defaults", "default-ch-webhook", "kafka-broker-config",
        "kafka-channel-config"} \subseteq DOMAIN Manifest
    /\ ~EncryptionOn(Manifest["config-features"])
\* No option of a topic has the key of another field when it has its prefix.
ASSUME PrefixAssumption ==
    \A s \in Submissions : \A k \in DOMAIN s.options :
        "default.topic.config." \o k \notin {"bootstrap.servers", "default.topic.partitions"}

VARIABLES
    spec,       \* the spec of the EventMesh in the API server, Nil before there is one
    cached,     \* the spec in the informer cache
    queued,     \* the key of the EventMesh is in the work queue
    pc,         \* where the reconcile is
    loc,        \* its spec, and the config maps it is to apply
    next,       \* the next config map to apply, an index of Order
    cfg,        \* the data of every config map in the cluster
    last,       \* the data in its last-applied annotation
    tls,        \* the TLS resources exist
    cert,       \* cert-manager is installed
    err,        \* the error of the transformers in the last reconcile, "" if there is none
    done,       \* history: the spec last installed completely, Nil if the reconcile after it failed
    byHand,     \* history: the keys of every config map that users put there
    dirty,      \* history: the keys users changed since the map was last applied
    budget      \* what is left of the bounds

mapVars == <<cfg, last, byHand, dirty>>
vars == <<spec, cached, queued, pc, loc, next, mapVars, tls, cert, err, done, budget>>

Empty == <<>>

\* The specs the webhook lets pass: defaulted, then validated.
Admitted == {s \in {SetDefaults(r) : r \in Submissions} : Validate(s)}

Budget == [submits : Nat, edits : Nat, failures : Nat]

TypeOK ==
    /\ spec \in Admitted \cup {Nil} /\ cached \in Admitted \cup {Nil} /\ done \in Admitted \cup {Nil}
    /\ queued \in BOOLEAN /\ tls \in BOOLEAN /\ cert \in BOOLEAN
    /\ pc \in {"idle", "transform", "delete", "apply"}
    /\ (spec = Nil => cached = Nil) /\ (queued \/ pc # "idle" => cached # Nil)
    /\ DOMAIN loc = {"spec", "toApply"} /\ (pc # "idle" => loc.spec \in Admitted)
    /\ next \in 1..(Len(Order) + 1)
    /\ DOMAIN cfg = Maps /\ DOMAIN last = Maps
    /\ DOMAIN byHand = Maps /\ DOMAIN dirty = Maps
    /\ err \in {"", UnknownLevel, NoLevels}
    /\ budget \in Budget

Init ==
    /\ spec = Nil /\ cached = Nil /\ queued = FALSE
    /\ pc = "idle" /\ loc = [spec |-> Nil, toApply |-> Empty] /\ next = 1
    /\ cfg = [cm \in Maps |-> Empty] /\ last = [cm \in Maps |-> Empty]
    /\ byHand = [cm \in Maps |-> {}] /\ dirty = [cm \in Maps |-> {}]
    /\ tls = FALSE /\ cert \in BOOLEAN /\ err = "" /\ done = Nil
    /\ budget = [submits |-> MaxSubmits, edits |-> MaxEdits, failures |-> MaxFailures]

Spend(what) == budget[what] > 0 /\ budget' = [budget EXCEPT ![what] = @ - 1]

-----------------------------------------------------------------------------
(* Users, the webhook and the informer.                                    *)

\* A spec is created or updated, if the webhook admits it.
Submit(s) ==
    /\ Spend("submits")
    /\ Validate(SetDefaults(s))
    /\ spec' = SetDefaults(s)
    /\ UNCHANGED <<cached, queued, pc, loc, next, mapVars, tls, cert, err, done>>

\* A key is set by hand, or removed (a value of Nil).
Edit(cm, k, v) ==
    /\ Spend("edits")
    /\ cfg' = [cfg EXCEPT ![cm] =
                  IF v = Nil THEN [j \in DOMAIN @ \ {k} |-> @[j]]
                  ELSE [j \in DOMAIN @ \cup {k} |-> IF j = k THEN v ELSE @[j]]]
    /\ byHand' = [byHand EXCEPT ![cm] = IF v = Nil THEN @ \ {k} ELSE @ \cup {k}]
    /\ dirty' = [dirty EXCEPT ![cm] = @ \cup {k}]
    /\ UNCHANGED <<spec, cached, queued, pc, loc, next, last, tls, cert, err, done>>

\* A config map is deleted, and its annotation with it.
DeleteMap(cm) ==
    /\ cfg[cm] # Empty /\ Spend("edits")
    /\ cfg' = [cfg EXCEPT ![cm] = Empty] /\ last' = [last EXCEPT ![cm] = Empty]
    /\ byHand' = [byHand EXCEPT ![cm] = {}]
    /\ dirty' = [dirty EXCEPT ![cm] = @ \cup DOMAIN cfg[cm]]
    /\ UNCHANGED <<spec, cached, queued, pc, loc, next, tls, cert, err, done>>

Deliver ==
    /\ cached # spec
    /\ cached' = spec /\ queued' = TRUE
    /\ UNCHANGED <<spec, pc, loc, next, mapVars, tls, cert, err, done, budget>>

Resync ==
    /\ cached # Nil /\ ~queued /\ queued' = TRUE
    /\ UNCHANGED <<spec, cached, pc, loc, next, mapVars, tls, cert, err, done, budget>>

-----------------------------------------------------------------------------
(* The reconcile.                                                          *)

MutRestartEnqueues ==
    /\ pc' = "idle" /\ cached' = spec /\ queued' = TRUE
    /\ UNCHANGED <<spec, loc, next, mapVars, tls, cert, err, done>>

\* The operator starts anew, lists the EventMesh and enqueues it.
Restart ==
    /\ pc' = "idle" /\ cached' = spec /\ queued' = (spec # Nil)
    /\ UNCHANGED <<spec, loc, next, mapVars, tls, cert, err, done>>

Crash == Spend("failures") /\ Restart

Start ==
    /\ pc = "idle" /\ queued
    /\ queued' = FALSE /\ pc' = "transform" /\ next' = 1
    /\ loc' = [spec |-> cached, toApply |-> Empty]
    /\ done' = Nil /\ err' = ""
    /\ UNCHANGED <<spec, cached, mapVars, tls, cert, budget>>

PrecheckPasses == TLSEnabled(loc.spec) => cert

\* runPrechecks: without cert-manager there is no TLS, and no retry.
Refuse ==
    /\ pc = "transform" /\ ~PrecheckPasses
    /\ pc' = "idle"
    /\ UNCHANGED <<spec, cached, queued, loc, next, mapVars, tls, cert, err, done, budget>>

\* The parser dereferences spec.overrides, which is optional.
Panic ==
    /\ pc = "transform" /\ PrecheckPasses /\ loc.spec.overrides = Nil
    /\ Restart /\ UNCHANGED budget

\* What the transformers make of the specs they take: the config maps to apply.
ToApply ==
    [s \in {a \in Admitted : a.overrides # Nil /\ TransformError(a) = ""} |->
        [cm \in Maps |-> Transformed(cm, s)]]

\* Both parsers and Transform.
Transform ==
    /\ pc = "transform" /\ PrecheckPasses /\ loc.spec.overrides # Nil
    /\ TransformError(loc.spec) = ""
    /\ loc' = [loc EXCEPT !.toApply = ToApply[loc.spec]]
    /\ pc' = "delete"
    /\ UNCHANGED <<spec, cached, queued, next, mapVars, tls, cert, err, done, budget>>

\* The reconcile ends with an error and the key goes back to the queue.
Requeue ==
    /\ pc' = "idle" /\ queued' = TRUE
    /\ UNCHANGED <<spec, cached, loc, next, mapVars, tls, cert, done>>

TransformFails ==
    /\ pc = "transform" /\ PrecheckPasses /\ loc.spec.overrides # Nil
    /\ TransformError(loc.spec) # ""
    /\ err' = TransformError(loc.spec)
    /\ Requeue /\ UNCHANGED budget

\* A request of Install fails.
RequestFails ==
    /\ pc \in {"delete", "apply"} /\ Spend("failures")
    /\ Requeue /\ UNCHANGED err

MutDeleteNever ==
    /\ pc = "delete"
    /\ tls' = tls
    /\ pc' = "apply"
    /\ UNCHANGED <<spec, cached, queued, loc, next, mapVars, cert, err, done, budget>>

\* Install deletes: the TLS resources, if TLS is off and their kinds exist.
Delete ==
    /\ pc = "delete"
    /\ tls' = (tls /\ (TLSEnabled(loc.spec) \/ ~cert))
    /\ pc' = "apply"
    /\ UNCHANGED <<spec, cached, queued, loc, next, mapVars, cert, err, done, budget>>

MutMergeKeepsCurrent(current, applied, data) ==
    [k \in DOMAIN data \cup (DOMAIN current \ DOMAIN applied) |->
        IF k \in DOMAIN current THEN current[k] ELSE data[k]]

\* The three-way merge: keys to apply, and keys of others; those applied
\* before and not any more are dropped.
Merge(current, applied, data) ==
    [k \in DOMAIN data \cup (DOMAIN current \ DOMAIN applied) |->
        IF k \in DOMAIN data THEN data[k] ELSE current[k]]

\* The patch is empty: nothing to drop and nothing to change.
NoDiff(current, applied, data) ==
    /\ DOMAIN applied # {}
    /\ DOMAIN applied \subseteq DOMAIN data /\ DOMAIN data \subseteq DOMAIN current
    /\ \A k \in DOMAIN data : current[k] = data[k]

MutApplyTwoWay ==
    /\ pc = "apply" /\ next <= Len(Order)
    /\ LET cm == Order[next]
           data == loc.toApply[cm]
       IN  /\ cfg' = [cfg EXCEPT ![cm] = Merge(@, Empty, data)]
           /\ last' = [last EXCEPT ![cm] = data]
           /\ byHand' = [byHand EXCEPT ![cm] = @ \ (DOMAIN data \cup DOMAIN last[cm])]
           /\ dirty' = [dirty EXCEPT ![cm] = {}]
    /\ next' = next + 1
    /\ UNCHANGED <<spec, cached, queued, pc, loc, tls, cert, err, done, budget>>

\* Install applies the next config map.  An empty patch is not sent, and so
\* leaves the annotation as it is.
ApplyMap ==
    /\ pc = "apply" /\ next <= Len(Order)
    /\ LET cm == Order[next]
           data == loc.toApply[cm]
           unchanged == NoDiff(cfg[cm], last[cm], data)
       IN  /\ cfg' = [cfg EXCEPT ![cm] = Merge(@, last[cm], data)]
           /\ last' = [last EXCEPT ![cm] = IF unchanged THEN @ ELSE data]
           /\ byHand' = [byHand EXCEPT ![cm] =
                            IF unchanged THEN @ ELSE @ \ (DOMAIN data \cup DOMAIN last[cm])]
           /\ dirty' = [dirty EXCEPT ![cm] = {}]
    /\ next' = next + 1
    /\ UNCHANGED <<spec, cached, queued, pc, loc, tls, cert, err, done, budget>>

\* The custom resources of TLS come last; with them the spec is installed.
ApplyTLS ==
    /\ pc = "apply" /\ next > Len(Order)
    /\ tls' = (tls \/ TLSEnabled(loc.spec))
    /\ done' = loc.spec
    /\ pc' = "idle"
    /\ UNCHANGED <<spec, cached, queued, loc, next, mapVars, cert, err, budget>>

-----------------------------------------------------------------------------
Users ==
    \/ \E s \in Submissions : Submit(s)
    \/ \E e \in Edits : Edit(e[1], e[2], e[3])
    \/ \E e \in Edits : DeleteMap(e[1])

ReconcileStep ==
    \/ Start \/ Refuse \/ Panic \/ Transform \/ TransformFails
    \/ Delete \/ ApplyMap \/ ApplyTLS \/ RequestFails

Next == Users \/ Deliver \/ Resync \/ Crash \/ ReconcileStep

Spec == Init /\ [][Next]_vars

\* The cache catches up, the worker goes on, and the informer resyncs.
FairSpec == Spec /\ WF_vars(Deliver) /\ WF_vars(ReconcileStep) /\ WF_vars(Resync)

-----------------------------------------------------------------------------
(* Properties.                                                             *)

\* The reconcile is at rest with the current spec installed.
Settled == pc = "idle" /\ ~queued /\ cached = spec /\ spec # Nil /\ done = spec

\* What a config map holds of the data the spec asks for, and by hand.
Holds(cm, data) ==
    /\ \A k \in DOMAIN data \ dirty[cm] : k \in DOMAIN cfg[cm] /\ cfg[cm][k] = data[k]
    /\ DOMAIN cfg[cm] \subseteq DOMAIN data \cup byHand[cm]

\* Whatever specs came before, and whatever failed or crashed on the way: once
\* the reconcile is at rest, every config map holds what the transformers make
\* of the current spec, nothing of an earlier one, and besides only keys that
\* users put there (manifestival's three-way merge under Install).
Converged == Settled => \A cm \in Maps : Holds(cm, Transformed(cm, spec))

\* Who has the last word on a config map that Install is about to apply: the
\* fields of the spec for the Kafka broker, whose transformers are registered
\* last (kafkabroker.go:70-77) and whose feature flags replace the whole map;
\* after them the override meant for the map, under its full or its short name.
\* This is less than the comment of ConfigMapOverride says, "Let any config in
\* instance override everything else" (configmap-override.go:14): an override of
\* a key that a Kafka field sets is lost, and that of config-kafka-features as a
\* whole where the spec has Kafka features.
Precedence ==
    pc = "apply" =>
        \A cm \in Maps :
            LET data == loc.toApply[cm]
                fields == KafkaFields(cm, loc.spec)
                override == Overridden(cm, loc.spec)
                replaced == cm = "config-kafka-features" /\ loc.spec.kafka # Nil
            IN  /\ \A k \in DOMAIN fields : k \in DOMAIN data /\ data[k] = fields[k]
                /\ IF replaced THEN DOMAIN data = DOMAIN fields
                   ELSE \A k \in DOMAIN override \ DOMAIN fields : k \in DOMAIN data /\ data[k] = override[k]

\* A key of a config map in the cluster that nobody set but the fields of the spec.
Plain(cm, k) == k \notin dirty[cm] \cup byHand[cm] \cup DOMAIN Overridden(cm, spec)

\* The default channel and the channel behind MT channel based brokers are of
\* the same kind, whichever of them the spec leaves open (DefaultBrokerClass
\* and DefaultChannelImplementation default it separately).
ChannelsAgree ==
    Settled /\ (\A k \in {"default-br-config/class", "default-br-config/config",
                          "default-br-config/alternative", "default-br-config/alternativeConfig"} :
                    Plain("config-br-defaults", k))
            /\ Plain("default-ch-webhook", "default-ch-config")
        => LET d == cfg["config-br-defaults"]
               mtConfig == IF d["default-br-config/class"] = "MTChannelBasedBroker"
                           THEN d["default-br-config/config"] ELSE d["default-br-config/alternativeConfig"]
           IN  cfg["default-ch-webhook"]["default-ch-config"] =
                   IF mtConfig = "kafka-channel" THEN "KafkaChannel" ELSE "InMemoryChannel"

\* Kafka brokers and Kafka channels are given the same bootstrap servers, and
\* as many partitions (BootstrapServers; NumberOfPartitions and the template).
KafkaAgrees ==
    /\ Settled /\ "bootstrap.servers" \notin dirty["kafka-broker-config"] \cup dirty["kafka-channel-config"]
        => cfg["kafka-broker-config"]["bootstrap.servers"] = cfg["kafka-channel-config"]["bootstrap.servers"]
    /\ Settled /\ "default.topic.partitions" \notin dirty["kafka-broker-config"]
               /\ Plain("kafka-channel", "channel-template-spec/numPartitions")
        => cfg["kafka-broker-config"]["default.topic.partitions"]
              = cfg["kafka-channel"]["channel-template-spec/numPartitions"]

\* The TLS resources are there if and only if the components, which read
\* config-features, use them: unless an override or a user sets the flag, of
\* which eventingTLSManifests does not know.
TLSAgrees ==
    Settled /\ Plain("config-features", "transport-encryption")
        => tls = EncryptionOn(cfg["config-features"])

\* Of an admitted spec, the transformers know the log level: every level in the
\* list of the validation has a case in the switch of convertToZapLogLevel, and
\* the empty one, which the validation lets pass too, is filled in by the
\* defaulting before it.
AdmittedLevelsKnown == err # UnknownLevel

\* The error says that config.xml has no level elements (logging.go:93) only if
\* it has none.
NoLevelsMeansNone == err = NoLevels => XMLLevel(loc.spec) = "none"

\* A spec that can be installed at all.
Installable(s) ==
    s # Nil /\ s.overrides # Nil /\ TransformError(s) = "" /\ (TLSEnabled(s) => cert)

\* When such a spec stays, every key it asks for has its value in the end and
\* for good: changes by hand, failures, and the restarts that an earlier spec
\* without overrides caused, are made up for.
ConfiguredEventually ==
    <>[]Installable(spec) =>
        <>[](Installable(spec) /\ \A cm \in Maps : LET data == Transformed(cm, spec) IN
                \A k \in DOMAIN data : k \in DOMAIN cfg[cm] /\ cfg[cm][k] = data[k])

=============================================================================
