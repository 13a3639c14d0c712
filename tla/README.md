# A TLA+ verification of the EventMesh operator

The EventMesh operator (`src/`) installs Knative Eventing and the Knative Kafka
broker from one custom resource, the EventMesh, and scales their in-memory
channel and multi-tenant broker deployments to zero while nobody uses them.
This directory holds TLA+ modules that model its control flow, TLC
configurations that check them on small instances, and TLAPS proofs.

## Inventory

| Component | State it keeps | Operations | Correct if |
|---|---|---|---|
| Dynamic informers, `pkg/dynamicinformer` | `cancel`, `lister` (atomic pointers), `mu`; the informers started | Setup (under `mu`), Stop (without), `Lister()` (under `mu`) | no informer is leaked, no unfilled lister is published, the lister follows the CRD, no caller blocks for good |
| Scaler, `pkg/scaler` | none of its own; reads the informers' stores | `CRDEventHandler`, `handleOnlyOnScaleToZeroOrOneItemsHandler`, the scale targets | every change from and to "no objects" leads to a reconcile that sees it |
| Reconciler, `pkg/reconciler/eventmesh` and the generated `pkg/client/injection/reconciler` | the EventMesh's status; owned objects in the cluster | prechecks, stages (parse, scale, own, transform, install, check), status update | the status says only what was done, and becomes Ready |
| Manifests, `pkg/manifests` | what to apply, delete, post-install | parsers, Transform, Install, version detection | post-install runs on minor upgrades, and only then; TLS resources go when TLS goes |
| Scaling and overrides, `applyScaling`, `pkg/manifests/transform` | replicas and HPAs in the manifests, pod templates | `HPAReplicas`, `Scale`, `WorkloadsOverride` | overrides win over scale targets, HPAs are valid and not disabled by a leftover 0, the last override of a field has its way |
| Configuration, `pkg/manifests/transform` | the data of the config maps | one transformer per concern, registered by two parsers | the cluster has what the last spec asks for and nothing of an earlier one; what two transformers write agrees |
| API and webhook, `pkg/apis`, `cmd/webhook` | the spec | defaults, validation, conditions | what is admitted can be transformed |
| Leader awareness, generated `pkg/client/injection/reconciler` | buckets led, queue, worker of every replica | promotion, demotion, skipped keys, status update | a leader forgets nothing, and what an old leader does late is made good |
| Other generated clients, wiring of the commands | | | not modelled, see below |

How they interact. The EventMesh informer enqueues the EventMesh; a worker
reconciles it from lister caches, which lag behind the API server. The
reconcile calls `Lister()` of both dynamic informers and then applies
manifests, which contain the very CRDs these informers wait for. The CRD
informer calls the scaler's handler on ONE goroutine for all CRDs; the handler
sets informers up and stops them. A dynamic informer first updates its store,
and then notifies the item handler through a queue; the handler may call
`GlobalResync`, which enqueues the EventMesh again. A spec reaches the API server
through the webhook, which defaults and validates it. Several replicas of the
operator may run, of which the holder of a lease reconciles.

What is hard. The stores are ahead of the notifications and behind the API
server; a mutex is held over a wait of unbounded length; a failed reconcile is
repeated from the start, after some of its effects happened; an operator may
restart between any two requests; the watch may break, and a relist delivers
tombstones and merges changes; a replica that lost the lease finishes the
reconcile it is in; users edit what the operator applies. `PROJECT.json` lists these hazards line by line.

## Modules

| Module | Models | Code |
|---|---|---|
| `InformerLifecycle` | what dynamic informers promise: an abstract specification | `dynamicinformer.go`, from outside |
| `DynamicInformer` | mutex, pointers and life of the informers; CRD handler; workers in `Lister()` | `dynamicinformer.go`, `CRDEventHandler` |
| `Installer` | what the operator promises of generations and reports: an abstract specification | `Install`, the status update, from outside |
| `ScaleHandler` | objects -> store -> notifications -> work queue -> scale | the item handler and scale targets of `scaler.go`, `applyScaling`; client-go's stores |
| `EventMeshReconcile` | one reconcile, step by step, and the status conditions | `eventmesh.go`, generated `reconciler.go`, `eventmesh_lifecycle.go`, knative `pkg/apis`, `pkg/reconciler` |
| `Upgrade` | release changes, version detection, Install request by request | `version.go`, `stages.go`, post-install parts of the parsers |
| `KeyValues` | maps of keys to values: two operators that the prover can see into | labels, data of config maps |
| `WorkloadOverride` | what overrides make of a pod template: functions | `transform/workload-override.go` |
| `Scaling` | overrides and scale targets -> manifests -> cluster, next to the HPA controller and the validation of the API server | `eventmesh.go:133-220`, `transform/` |
| `ConfigTransform` | defaulting, validation and every config map transformer, in their order: functions | `pkg/apis`, `transform/`, the parsers |
| `Configuration` | webhook -> spec -> reconcile -> config maps and TLS resources, next to users who edit them | `cmd/webhook`, `stages.go`, manifestival's `apply` |
| `Replicas` | leader election, queue and worker of several replicas; deletion and re-creation of the EventMesh | generated `controller.go`, `state.go`, `reconciler.go`; knative `pkg/reconciler`, `pkg/leaderelection` |
| `MC*` | instances for TLC | |
| `*_proofs` | theorems | |

The modules cut the system at narrow interfaces. `ScaleHandler` sees the dynamic
informer of `DynamicInformer` as three phases, which `Stop` ends with the store and the
waiting notifications when an informer that is up loses its CRD (a CRD that goes
during a Setup is the matter of `DynamicInformer`); `Scaling` takes the scale target,
which `ScaleHandler` computes, as an input that changes at any time;
`EventMeshReconcile` sees all deployments as one object and leaves versions to
`Upgrade`, replicas and templates to `Scaling`, which extends `WorkloadOverride`,
and config maps to `Configuration`, which extends `ConfigTransform`; `Replicas`
sees all that is installed with an owner reference, namespaces excepted, as one object
with an owner and a generation.
`DynamicInformer` instantiates `InformerLifecycle`: its `ImplementsLifecycle` maps
the creation of an informer to `Prepare`, the poll's end to `Start`, the sync to
`Fill`, the stores and loads of the pointer to `HandOut` and `TakeBack`, and the
cancelled context to `Stop`. `EventMeshReconcile` instantiates `Installer`: its
`ImplementsInstaller` maps the end of `PostInstall` to `Install`, a written status
to `Report`, the TLS resources that come and go to `Bring` and `Remove`, and all
else but an edit to stuttering.

State and actions. Each module's header says what it abstracts. Actions carry the
names of the functions they translate, or of a part of one: `SetupLock`, ...,
`SetupUnlock` are `SetupInformerAndRegisterEventHandler` cut wherever another
goroutine can see the difference; `PrecheckFailed`, `Parse`, `Delete`, `Apply`,
`CheckDeployments`, ... are the stages of `ReconcileKind`, cut at their requests,
each with an action for its failure. History variables (`installed`, `ran`,
`applied`, `swapped`, `crowded`, `dropped`, `tombstoned`, `settled`, `done`, `byHand`, `dirty`) serve the properties and guard
nothing.

Abstractions a reader should know of:

- There is one EventMesh at a time. Only `Replicas` deletes and re-creates it. A
  `Namespace` is given no owner (`ownerreference.go:8-13`) and stays behind when the
  EventMesh goes; `CleanedUp` is about the other objects.
- Cases that the code does not handle, and no comment promises it would, are named by
  history variables and left out of the properties they would break: a CRD removal that
  arrives as a tombstone (`tombstoned`, from `ListerTracksCRD`), objects that changed
  their class behind a broken watch (`swapped`), and deletions that were still waiting
  when the CRD went and `Stop` dropped them (`dropped`; without it TLC finds
  `ScaleDownPending` violated), the last two until the next reconcile.
- `OverrideWins` leaves out `mt-broker-ingress`: `eventmesh.go:173` looks for its overrides
  under `mt-ingress-filter`, and removes its HPA despite an override. The run
  `scaling_ingress` is about the same name.
- `spec.overrides` is set, except in `Configuration`, where a spec without makes
  the parser dereference a nil pointer (`eventing.go:82`) and the operator restart.
- Documents in a config map (JSON, XML, YAML) are split into the parts that the
  transformers tell apart, with a "rest" that they leave alone; the spellings of
  a level are related by `ToLower` and `ToUpper`, constants of the module.
- A probe override gives settings, never the request that the probe makes: the
  API server rejects a probe without one, and a template whose labels no longer
  match the selector (`Accepted`).
- In `Replicas` the status is left out: with the status of the API server and of
  every copy the state space is out of TLC's reach.
- A status is its observed generation and the three conditions. The comparison of
  statuses in the code includes messages; `UpdateStatus` may therefore write a
  status that equals the original one in the model.
- `cert` is both the CRD cache's and the API server's view of cert-manager.
- Resources of one kind are applied in any order: the sort is by kind and not
  stable.
- A missing replicas field is resolved as the three-way merge and the API
  server's default do: removed if the last applied configuration had it, then 1.
- The processes outside the operator (users, HPA and deployment controllers, API
  server validation) are modelled from how the operator depends on them.

## Runs

| Run | Checks | Shows |
|---|---|---|
| `dynamic_informer` | `NoLeakedInformer`, `ListerTracksCRD`, `ListerReturns`, `ListersAvailable`, `ImplementsLifecycle` | two kinds, CRDs removed and installed again, broken CRD watch, a worker, a shutdown; the mutex held over the poll blocks nobody for good *if* the CRDs are there in the end |
| `dynamic_informer_blocked` | `ListerUsableBeforeCRD` **violated** | otherwise it does: a CRD removed right after it was announced blocks reconciles, which would bring it back |
| `scale` | `ScaleDownPending`, `ScaledDown`, `ScaleUpPending`, `ScaledUp` | brokers of two classes: scale-downs are not lost, and happen, through broken watches, failures, panics, restarts and a CRD that goes and comes back, unless `Stop` dropped the waiting deletion (`dropped`); scale-ups neither, unless several objects came together since the scale target was last read (`crowded`); for both, unless an object changed its class while the watch was broken (`swapped`) |
| `scale_up_lost` | `IdleOnlyIfUnused` **violated** | an operator started over two in-memory channels scales their deployments to 0 and leaves them there |
| `reconcile` | `ReadyMeansInstalled`, `TLSRemoved`, `ReadyEventually`, `ImplementsInstaller` | what the status says is true, through failures, a crash and stale caches; generations are installed in their order; the EventMesh becomes Ready |
| `upgrade` | `PostInstallOnlyOnUpgrade`, `UpgradeRecognised`, `UpgradeCompletes` | failures, a crash, rollbacks and a new deployment: an upgrade is seen by every parser when it starts, nothing else is taken for one, every rollout completes |
| `upgrade_lost` | `PostInstallOnUpgrade` **violated** | a request that fails after the deployments were applied |
| `scaling` | `ScaledToZero`, `ScaledFromZero`, `OverrideWins`, `HPABounds`, `LastOverrideWins`, `Undisturbed`, `Converges` | all sequences of two edits of overrides and targets; the last override of a label, probe setting or host network has its way, and none of them is dropped; reconciling again disturbs nothing, the HPA controller's scale included; overrides that make nothing invalid (`Feasible`) are brought about, though one that does came before |
| `scaling_ingress` | `IngressScaledToZero` **violated** | a deployment scaled under the wrong name |
| `config` | `Converged`, `Precedence`, `ChannelsAgree`, `KafkaAgrees`, `TLSAgrees`, `AdmittedLevelsKnown`, `ConfiguredEventually` | specs, edits by hand, failures and crashes in any order: config maps and TLS resources end up as the last spec asks; fields for Kafka have the last word on a config map, and overrides after them (see the findings); every level that is admitted has a case in the switch that converts it; what is written in two places agrees |
| `config_default_level` | `NoLevelsMeansNone` **violated** | the default log level, which the manifest has already, fails the reconcile with an error that says something else |
| `replicas` | `NoLostKey`, `Takeover`, `CleanedUp` | a lost lease, a restart or a failing request, late reconciles of an old leader, deletion and re-creation |

One run of each module also checks its `TypeOK`. Every property of a passing
run has a mutant in `PROJECT.json`: a changed definition (`Mut...` in the
modules) under which TLC finds it violated.

Bounds, and why they suffice to meet the cases. Two kinds are needed for one
Setup to hold back the notifications of the other; one removal of either CRD
lets it go and come back under a Setup or a Stop. Two
objects of a class distinguish "first", "last" and "one of several"; two classes
are needed for the filter; three changes let the last object and the CRD go and an
object come after the CRD is back. Two generations let a status of the first meet the
second; two parsers let them disagree. Three releases give a patch and a minor
upgrade in a row, and the third brings a new deployment at the end of its
manifest, where `getVersions` looks first; two failures and a crash let a retry
fail again. The overrides contain none, one of each sort of deployment, one
without replicas, two of the same deployment, of which the second disables a
probe that the first set, zeros, one of which no HPA can follow, a probe without
a request and a changed label of the selector: while one of these three is in
force every reconcile fails (it is not in `Feasible`), and `Converges` speaks of
what comes after. The specs of `config` differ in what the transformers tell
apart (level, broker class, channel, features, overrides by full and by short
name and of keys that other transformers set), and one has no overrides at all;
two submissions, one change by hand and one failure let each of them meet the
remains of another. In `replicas`, two changes are a deletion and a re-creation,
and one fault hands the lease over while a reconcile runs. Failures, crashes and changes by others
are bounded by 1 or 2 each. No symmetry is used, since every run but `scale_up_lost`
and those about upgrades, ingress and log level checks liveness. Deadlock checking is off
only in `DynamicInformer`, where the operator may shut down, and in `Replicas`, where
all may be at rest without an EventMesh.

Fairness. Goroutines and workers run (weak fairness of their steps), caches catch
up, and a mutex is not withheld from one waiter forever: Go hands a mutex to a
starving goroutine after 1 ms, hence strong fairness of taking it. Repeated
reconciles do not fail forever (`SF(Apply)` in `ScaleHandler`, bounded failures
elsewhere). Users are not fair in anything. The ten-hourly resync of the
EventMesh is assumed by `ReadyEventually`, because no handler watches deployments,
by `ConfiguredEventually`, because none watches config maps, and by `Takeover`,
because nothing announces the late write of a replica that no longer leads. Some
replica takes a free lease, and the garbage collector runs; `Scaling` assumes that the EventMesh is reconciled
again after an edit, which an edit of the spec brings about by itself and a
change of the target through `ScaleHandler`. (Its fairness is written
`[]<><<TRUE>>_work`: some step of the reconcile is always possible, and only such
steps change `work`, so this is weak fairness of `ReconcileStep`, in a form that
TLC need not evaluate the manifests for.) Liveness properties have their
premises written into them (`<>[]...`): the CRDs, or cert-manager and the
deployments, are there in the end.

## Proofs

| Theorem | States, for all constants |
|---|---|
| `DynamicInformer_proofs`: `TypeCorrect`, `NoLeak`, `ListersAreSynced`, `TracksCRD` | `TypeOK`, `NoLeakedInformer`, `ListerSynced`, `ListerTracksCRD`; `Implementation`: the refinement `ImplementsLifecycle` |
| `ScaleHandler_proofs`: `TypeCorrect`, `NoLostScaleDown`, `NoLostScaleUp` | `TypeOK`, `ScaleDownPending`, `ScaleUpPending` |
| `EventMeshReconcile_proofs`: `TypeCorrect`, `ReadyOnlyIfInstalled`, `ObservedNeverDecreases`, `TLSIsRemoved` | `TypeOK`, `ReadyMeansInstalled`, `ObservedMonotonic`, `TLSRemoved`; `Implementation`: the refinement `ImplementsInstaller` |
| `Upgrade_proofs`: `TypeCorrect`, `OnlyOnUpgrade`, `AlwaysRecognised` | `TypeOK`, `PostInstallOnlyOnUpgrade`, `UpgradeRecognised` |
| `Scaling_proofs`: `TypeCorrect`, `BoundsKept`, `ScalesToZero`, `ScalesFromZero`, `OverridesOfReplicasWin`, `OverridesOfTemplatesWin`, `ReconcilesAgain` | `TypeOK`, `HPABounds`, `ScaledToZero`, `ScaledFromZero`, `OverrideWins`, `LastOverrideWins`, `Undisturbed` |
| `Configuration_proofs`: `TypeCorrect`, `Convergence`, `LevelsKnown`, `KafkaFieldsPrevail`, `SameChannels`, `SameKafka`, `SameEncryption` | `TypeOK`, `Converged`, `AdmittedLevelsKnown`, `Precedence`, `ChannelsAgree`, `KafkaAgrees`, `TLSAgrees` |
| `Replicas_proofs`: `TypeCorrect`, `NothingForgotten` | `TypeOK`, `NoLostKey` |

The assumptions are those named in the modules: bounds are natural numbers,
classes, releases and manifests are of their kind, actors' names differ, any
two releases share a deployment of each parser (`SharedAssumption`), every config
map is applied at some point (`OrderAssumption`), and lower case is the lower case
of itself (`ToLowerAssumption`). `Scaling` assumes that overrides are a list whose
replicas are numbers or left out (`OverridesAssumption`), that templates have their
fields (`TemplatesAssumption`) and that the HPA of the manifests is in order
(`DefaultHPAAssumption`); `Configuration` that the manifest has the config maps that
the transformers look for, and transport encryption off, as `kodata` has
(`ManifestAssumption`), and that an option with the prefix of topic options is none
of the two keys it must not collide with (`PrefixAssumption`, which is true of the
strings, but the prover does not look into a string). TLC evaluates them on the
values of the runs. No proof uses the values of a bound, so the theorems hold for
any number of CRD removals, objects, edits, failures and crashes.

The arguments:

- `DynamicInformer`. That no informer leaks rests on one fact about the single
  handler goroutine: between the guard and the store of `cancel`, `cancel` is
  nil, and whatever runs is the instance created last. `TracksCRD` needs an
  invariant about the notification queue: of the last notification of a kind,
  which must agree with the cache, and of the handler's position if none is
  left. The refinement maps `live` to the set of running informers and `handle`
  to the pointer; its step lemma goes through the actions one by one, with the
  same invariant: those that touch neither map to stutters, and `Prepare`, which
  the abstract specification allows only when nothing lives, needs the fact about
  the handler goroutine again.
- `ScaleHandler`. The inductive invariant says of the store without objects of
  the class that a scale-down is applied, under way, queued or announced by a
  deletion still in the queue; that a deletion, when handled, finds the store
  that the invariant speaks of, since the store is ahead of it; and that a
  reconcile which reads early enough reads that store. A `Stop` empties store and
  queue at once, which is harmless if no object of the class and no deletion of one is
  lost with them, and `dropped` otherwise. For scale-ups the
  invariant adds when the store can hold several objects of the class: only if
  they came together, or a reconcile that scales up is under way or was the last;
  otherwise the handler of a first object counts exactly one.
- `EventMeshReconcile`. Ready for a generation is traced back to the reconcile that
  set it: generations grow from the reconcile's copy over the cache to the API
  server; a status that is Ready in the cache or in the reconcile's copy is of an
  installed generation; one with a new generation is not Ready before
  `CheckDeployments`, which comes after `PostInstall`. For the TLS resources the
  invariant says that what parsers have decided to delete covers what exists of
  theirs, which the disappearance of cert-manager, taking all of it along,
  preserves.
- `Upgrade`. What the lister shows, and what is on its way to it, was applied once;
  a parser in `post` saw a lower minor version in it. For `AlwaysRecognised` the
  invariant adds that all deployments of the last completed release exist, and that
  the lister of any other release, which lists when it starts, has them; the running
  release shares one of them, so `getVersions` finds some deployment, the last one
  it finds exists because positions are well-founded, and whatever release that one
  carries is of a lower minor version.
- `Scaling`. Overrides are applied by a fold over a list of any length. The library's
  induction theorems take an operator and cannot be used, but their base can: a set of
  naturals that has 0 and successors is all of them, because a non-empty set of others
  would have a least member (`SetInduction`). By it the recursive function behind the
  fold exists (`FoldExists`, from functions on ever longer initial parts), it computes
  step by step (`AfterSteps`), and of the values that a fold writes the last one stays
  (`LatestWins`), for replicas, labels, the host network and the probes, where a
  disabling override clears what came before. The invariant of the state machine says
  of each deployment what its last applied configuration means for its replicas
  (`Scaled`: given replicas are there; where none are given it is not at 0, which is why
  an HPA that comes back is not disabled), what the reconcile has done so far
  (`Progress`) and what a completed one has left (`Installed`). The properties then
  follow from what the manifests say (`Manifests`). `Undisturbed` follows from
  `Installed`, too: a patch against an unchanged configuration leaves the field alone.
- `EventMeshReconcile` implements `Installer`. No installed generation is newer than the
  cached one, nor than that of a reconcile under way (`OrderInv`), so what is installed
  or reported is the latest; a reconcile that brings TLS resources works for a
  generation with TLS, and no report denies them (`NotCleanedYet`).
- `Configuration`. For convergence what the transformers compute stays opaque. A key that is
  neither in the annotation nor put there by hand does not exist (`Known`, which
  an empty patch, not sent, preserves); the maps before `next` hold the data of
  the reconcile's spec (`Begun`), and keep it, changes by hand aside, until the
  next reconcile starts (`Finished`). `LevelsKnown` goes through the two lists of the code: each
  level that `Validate` admits has a case in `convertToZapLogLevel`, and the empty one,
  admitted as well, is replaced by `SetDefaults`.
  The others go through the transformers: which keys each of them sets and that
  it keeps the rest (`ConfigMapKeeps`, `KafkaLast`, `CoreSets`, `BrokerDefaults`),
  that at rest a key nobody else touched has the transformed value (`AtRest`), and,
  for the TLS resources, an invariant that relates them, through the reconcile,
  to the encryption that the spec asks for (`TLSInv`).
- `Replicas`. `NoLostKey` is inductive together with `BusyCurrent`: a worker
  that is busy although the cached EventMesh was reconciled since the promotion
  has a copy of just that one.

Checked with TLC only: what needs fairness, that is `ListerReturns`, `ListersAvailable`,
`ScaledDown`, `ScaledUp`, `ReadyEventually`, `UpgradeCompletes`, `Converges`,
`ConfiguredEventually`, `Takeover` and `CleanedUp`; the prover has neither fairness
nor ENABLED. Every invariant, action property and refinement of a passing run is a
theorem. Two theorems state properties that a refinement implies and no run repeats:
`ListersAreSynced` (a lister that is published, or used, is filled) and
`ObservedNeverDecreases` (a generation once observed is never unobserved); they are
defined next to their proofs.

## Findings

The five violated runs, and one passing run, are disagreements between the code and its
own comments; `PROJECT.json` quotes both sides. In short: a reconcile can block in `Lister()`;
scale-ups are lost at a restart over several objects, and by the same condition when
two objects appear at once; the post-install manifests of an upgrade are lost when a
request fails in between; the broker ingress is never scaled to zero; a spec with the
default log level is refused because the manifest has that level already; and overrides
of config maps do not "override everything else" (`configmap-override.go:14`), since the
transformers of the Kafka parser (`kafkabroker.go:70-77`) run after them and set their
keys again, or replace `config-kafka-features` as a whole. The last one is stated as what
the code does for every spec, in `Precedence`, checked by `config` and proved as
`KafkaFieldsPrevail`; the order that the comment speaks of is its mutant. `UpgradeLost.cfg`
with `Rollbacks = TRUE`, three rollouts and no failure shows another way to lose
post-install manifests: a deployment that only the newer release has survives a
rollback with its version, and the next upgrade is judged by it. An override of 0 replicas of an autoscaled deployment, which never applies, is
a hazard rather than a finding: no comment promises that it would. The same goes for a
spec without overrides (the operator panics until it is changed), for probe settings of a
container without that probe, and for labels of a selector.

## Not modelled

- Finalizers, observers and config stores of the generated reconciler: the operator
  implements none of their interfaces, the branches are dead.
- The status in `Replicas`, more than one bucket, and more than one EventMesh.
- Missing or malformed version labels, and config maps whose documents do not parse.
- Generated clients, listers, informer factories and deep copies: no logic of their own.
- The commands' wiring, certificates of the webhook and the schema command.
- The content of the manifests in `kodata`, other than deployments, HPAs, config maps and
  TLS resources.
- `common.NonRecoverableError`: no stage returns one.

## Plan

Done: the components above. What is left:

1. A composition of `DynamicInformer`, `ScaleHandler` and the reconcile for two kinds:
   the CRD handler busy with one kind while a reconcile scales the other; an
   abstract specification "the scale follows the existence of objects".
2. An abstract specification of `Replicas` (who may write what, and when it is made
   good) as a refinement, and the status in it, if its state space allows.
3. Proofs: every safety property has one; with the composition, its invariants.
