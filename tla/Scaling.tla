------------------------------- MODULE Scaling -------------------------------
(***************************************************************************)
(* From a scale target to replicas: applyScaling and the workload          *)
(* overrides decide what the manifests say of the deployments' replicas    *)
(* and of their HorizontalPodAutoscalers (HPA), and Install brings that    *)
(* into the cluster, where the HPA controller scales, too.                 *)
(*                                                                         *)
(* An HPA is identified by the deployment it scales, which is the          *)
(* correspondence of getHPAName and of the manifests.  The deployments of  *)
(* the manifests say nothing about replicas.  A field that an earlier      *)
(* Apply had set and this one does not is removed (three-way merge), upon  *)
(* which the API server defaults it to 1.                                  *)
(***************************************************************************)
EXTENDS WorkloadOverride

CONSTANTS
    Deployments,    \* names of the deployments looked at
    Overrides,      \* a sequence: the values of spec.overrides.workloads users choose from
    DefaultHPA,     \* minReplicas and maxReplicas of the HPAs in the manifests
    MaxEdits,       \* bound: changes of the overrides and of the scale targets
    MaxFailures     \* bound: failing requests

None == -1
NoHPA == [min |-> None, max |-> None]

\* hasHorizontalPodOrCustomAutoscaler: as far as the manifests have an HPA.
Autoscaled == Deployments \cap {"eventing-webhook", "mt-broker-ingress", "mt-broker-filter"}

ASSUME DefaultHPAAssumption ==
    DefaultHPA \in [min : Nat \ {0}, max : Nat] /\ DefaultHPA.min <= DefaultHPA.max
\* An override without replicas has None.  A negative number, with which the
\* API server takes neither a deployment nor an HPA, is left out.
ASSUME OverridesAssumption ==
    \A f \in DOMAIN Overrides :
        /\ Overrides[f] \in Seq(Range(Overrides[f]))
        /\ \A i \in DOMAIN Overrides[f] : Overrides[f][i].replicas \in Nat \cup {None}
ASSUME TemplatesAssumption ==
    \A d \in Deployments :
        DOMAIN Templates[d] = {"selector", "labels", "placement", "hostNetwork", "dnsPolicy", "containers"}
ASSUME BoundsAssumption == MaxEdits \in Nat /\ MaxFailures \in Nat

VARIABLES
    overrides,  \* spec.overrides.workloads, an index of Overrides
    target,     \* the scale targets that the scaler would return
    pc,         \* where the reconcile is
    input,      \* the overrides and targets it works with
    todo,       \* deployments to be applied
    todoHPA,    \* HPAs to be applied
    live,       \* API server: replicas of each deployment, None if there is none
    last,       \* the replicas field of the last applied configuration
    hpa,        \* API server: the HPAs
    settled,    \* history: a reconcile with the present overrides and targets completed
    edits, failures

spec == <<overrides, target>>
work == <<pc, input, todo, todoHPA>>
cluster == <<live, last, hpa>>
vars == <<spec, work, cluster, settled, edits, failures>>

Targets == [imc : {0, 1}, mt : {0, 1}]

TypeOK ==
    /\ overrides \in DOMAIN Overrides /\ target \in Targets
    /\ pc \in {"idle", "delete", "apply"}
    /\ input \in [overrides : DOMAIN Overrides, target : Targets]
    /\ todo \subseteq Deployments /\ todoHPA \subseteq Autoscaled
    /\ live \in [Deployments -> Nat \cup {None}] /\ last \in [Deployments -> Nat \cup {None}]
    /\ hpa \in [Autoscaled -> [min : Int, max : Int]]
    /\ settled \in BOOLEAN /\ edits \in 0..MaxEdits /\ failures \in 0..MaxFailures

Init ==
    /\ overrides \in DOMAIN Overrides /\ target \in Targets
    /\ pc = "idle" /\ input = [overrides |-> overrides, target |-> target]
    /\ todo = {} /\ todoHPA = {}
    /\ live = [d \in Deployments |-> None] /\ last = live
    /\ hpa = [d \in Autoscaled |-> NoHPA]
    /\ settled = FALSE /\ edits = 0 /\ failures = 0

-----------------------------------------------------------------------------
(* What the manifests say.                                                 *)

\* GetByName(name).HasAtLeastOneWithReplicasSet().
ReplicasSet(ov, name) == \E i \in DOMAIN ov : ov[i].name = name /\ ov[i].replicas # None

\* The name under which applyScalingForMTBroker and applyScalingForIMC know a
\* deployment.
ScaleName(d) == IF d = "mt-broker-ingress" THEN "mt-ingress-filter" ELSE d

ScaleTargetOf(name, t) ==
    CASE name \in {"imc-controller", "imc-dispatcher"} -> t.imc
      [] name \in {"mt-broker-controller", "mt-broker-filter", "mt-ingress-filter"} -> t.mt
      [] OTHER -> None

MutHPAReplicasKeepsMax(h, r) == [min |-> r, max |-> h.max]
MutHPAReplicasDelta(h, r) == [min |-> r - h.min, max |-> h.max + (r - h.min)]

\* transform.HPAReplicas: the maximum moves with the minimum.
HPAReplicas(h, r) == [min |-> r, max |-> h.max + (r - h.min)]

\* WorkloadsOverride: the overrides of d are applied one after the other, to
\* the HPA if d has one, and to the deployment otherwise.
OverriddenHPA(ov, d) ==
    FoldLeft(LAMBDA h, o : IF o.name = d /\ o.replicas # None THEN HPAReplicas(h, o.replicas) ELSE h,
             DefaultHPA, ov)
OverriddenReplicas(ov, d) ==
    FoldLeft(LAMBDA r, o : IF o.name = d /\ o.replicas # None /\ d \notin Autoscaled
                           THEN o.replicas ELSE r,
             None, ov)

MutRemovedHPADespiteOverride(ov, t, d) == ScaleTargetOf(ScaleName(d), t) = 0

\* addHPATransformerIfNeeded: with a scale target of 0 the HPA is removed.
RemovedHPA(ov, t, d) ==
    ~ReplicasSet(ov, ScaleName(d)) /\ ScaleTargetOf(ScaleName(d), t) = 0

\* The HPA of d after all transformers; NoHPA if it is filtered out of ToApply.
ManifestHPA(ov, t, d) ==
    IF RemovedHPA(ov, t, d) THEN NoHPA
    ELSE IF ~ReplicasSet(ov, ScaleName(d)) /\ ScaleTargetOf(ScaleName(d), t) = 1
    THEN HPAReplicas(OverriddenHPA(ov, d), 1)
    ELSE OverriddenHPA(ov, d)

MutManifestReplicasKeepsHPAScale(ov, t, d) ==
    IF d \in Autoscaled \/ ReplicasSet(ov, d) \/ ScaleTargetOf(d, t) = None
    THEN OverriddenReplicas(ov, d) ELSE ScaleTargetOf(d, t)

MutManifestReplicasScalesAll(ov, t, d) ==
    IF ReplicasSet(ov, d) \/ ScaleTargetOf(d, t) = None
    THEN OverriddenReplicas(ov, d) ELSE ScaleTargetOf(d, t)

\* spec.replicas of d after all transformers: those of transform.Scale come
\* after WorkloadsOverride, but only if no override sets the replicas; of a
\* deployment with an HPA only a scale target of 0 is set.
ManifestReplicas(ov, t, d) ==
    IF ReplicasSet(ov, d) \/ ScaleTargetOf(d, t) = None \/ (d \in Autoscaled /\ ScaleTargetOf(d, t) # 0)
    THEN OverriddenReplicas(ov, d)
    ELSE ScaleTargetOf(d, t)

\* The overrides, by their index, and the deployments whose template the API
\* server rejects because of them.
Invalid ==
    { p \in (DOMAIN Overrides) \X Deployments :
        ~Accepted(p[2], WorkloadsOverride(Overrides[p[1]], p[2])) }

-----------------------------------------------------------------------------
(* Users, the scaler and the HPA controller.                               *)

Edit ==
    /\ edits < MaxEdits /\ edits' = edits + 1
    /\ overrides' \in DOMAIN Overrides /\ target' \in Targets /\ spec' # spec
    /\ settled' = FALSE
    /\ UNCHANGED <<work, cluster, failures>>

\* The HPA controller scales between the bounds, but not a deployment with 0
\* replicas, for which autoscaling is disabled.
Autoscale(d) ==
    /\ hpa[d] # NoHPA /\ live[d] > 0
    /\ \E r \in hpa[d].min..hpa[d].max : r # live[d] /\ live' = [live EXCEPT ![d] = r]
    /\ UNCHANGED <<spec, work, last, hpa, settled, edits, failures>>

-----------------------------------------------------------------------------
(* The reconcile.                                                          *)

MutStartNoKindFilter ==
    /\ pc = "idle"
    /\ pc' = "delete"
    /\ input' = [overrides |-> overrides, target |-> target]
    /\ todo' = Deployments
    /\ todoHPA' = {d \in Deployments : ~RemovedHPA(Overrides[overrides], target, d)}
    /\ UNCHANGED <<spec, cluster, settled, edits, failures>>

\* Parse, applyScaling and Transform have no effect outside.
Start ==
    /\ pc = "idle"
    /\ pc' = "delete"
    /\ input' = [overrides |-> overrides, target |-> target]
    /\ todo' = Deployments
    /\ todoHPA' = {d \in Autoscaled : ~RemovedHPA(Overrides[overrides], target, d)}
    /\ UNCHANGED <<spec, cluster, settled, edits, failures>>

\* Install first deletes the HPAs that were filtered out.
DeleteHPA ==
    /\ pc = "delete"
    /\ hpa' = [d \in Autoscaled |->
                  IF RemovedHPA(Overrides[input.overrides], input.target, d) THEN NoHPA ELSE hpa[d]]
    /\ pc' = "apply"
    /\ UNCHANGED <<spec, input, todo, todoHPA, live, last, settled, edits, failures>>

MutApplyDeploymentMerges(d) ==
    LET r == ManifestReplicas(Overrides[input.overrides], input.target, d)
    IN  /\ pc = "apply" /\ d \in todo
        /\ live' = [live EXCEPT ![d] = IF r # None THEN r ELSE IF @ = None THEN 1 ELSE @]
        /\ last' = [last EXCEPT ![d] = r]
        /\ todo' = todo \ {d}
        /\ UNCHANGED <<spec, pc, input, todoHPA, hpa, settled, edits, failures>>

\* Deployments are applied before HPAs.
ApplyDeployment(d) ==
    LET r == ManifestReplicas(Overrides[input.overrides], input.target, d)
    IN  /\ pc = "apply" /\ d \in todo /\ <<input.overrides, d>> \notin Invalid
        /\ live' = [live EXCEPT ![d] = IF r # None THEN r
                                       ELSE IF @ = None \/ last[d] # None THEN 1 ELSE @]
        /\ last' = [last EXCEPT ![d] = r]
        /\ todo' = todo \ {d}
        /\ UNCHANGED <<spec, pc, input, todoHPA, hpa, settled, edits, failures>>

\* The API server rejects a pod template, and with it the reconcile.
RejectDeployment(d) ==
    /\ pc = "apply" /\ d \in todo /\ <<input.overrides, d>> \in Invalid
    /\ pc' = "idle"
    /\ UNCHANGED <<spec, input, todo, todoHPA, cluster, settled, edits, failures>>

\* The API server takes an HPA only if its minReplicas is at least 1.
ApplyHPA(d) ==
    LET h == ManifestHPA(Overrides[input.overrides], input.target, d)
    IN  /\ pc = "apply" /\ todo = {} /\ d \in todoHPA /\ h.min >= 1
        /\ hpa' = [hpa EXCEPT ![d] = h]
        /\ todoHPA' = todoHPA \ {d}
        /\ UNCHANGED <<spec, pc, input, todo, live, last, settled, edits, failures>>

\* It rejects others, and with them the reconcile, which is retried.
RejectHPA(d) ==
    /\ pc = "apply" /\ todo = {} /\ d \in todoHPA
    /\ ManifestHPA(Overrides[input.overrides], input.target, d).min < 1
    /\ pc' = "idle"
    /\ UNCHANGED <<spec, input, todo, todoHPA, cluster, settled, edits, failures>>

RequestFailed ==
    /\ pc # "idle" /\ failures < MaxFailures
    /\ failures' = failures + 1
    /\ pc' = "idle"
    /\ UNCHANGED <<spec, input, todo, todoHPA, cluster, settled, edits>>

Finish ==
    /\ pc = "apply" /\ todo = {} /\ todoHPA = {}
    /\ pc' = "idle"
    /\ settled' = (settled \/ (input.overrides = overrides /\ input.target = target))
    /\ UNCHANGED <<spec, input, todo, todoHPA, cluster, edits, failures>>

ReconcileStep ==
    \/ Start \/ DeleteHPA \/ RequestFailed \/ Finish
    \/ \E d \in Deployments : ApplyDeployment(d) \/ RejectDeployment(d)
    \/ \E d \in Autoscaled : ApplyHPA(d) \/ RejectHPA(d)

Next == Edit \/ (\E d \in Autoscaled : Autoscale(d)) \/ ReconcileStep

Spec == Init /\ [][Next]_vars

\* The EventMesh is reconciled again and again.  A step of the reconcile is
\* always possible and changes work, which nothing else does: this is weak
\* fairness of ReconcileStep.
FairSpec == Spec /\ []<><<TRUE>>_work

-----------------------------------------------------------------------------
(* Properties.  mt-broker-ingress has its own, since the operator knows it *)
(* under another name.                                                     *)

Unscaled(d) == settled /\ ScaleTargetOf(d, target) = 0 /\ ~ReplicasSet(Overrides[overrides], d)

\* Once a reconcile with the present spec went through, a deployment without
\* objects to serve and without override has no replicas, and no HPA that
\* would give it some, whatever was overridden, scaled up or failed before.
ScaledToZero ==
    \A d \in Deployments : Unscaled(d) => live[d] = 0 /\ (d \in Autoscaled => hpa[d] = NoHPA)

\* Likewise one with objects to serve has at least one replica, and its HPA:
\* the 0 of an earlier scale-down does not stay behind and disable the HPA.
ScaledFromZero ==
    \A d \in Deployments :
        settled /\ ScaleTargetOf(d, target) = 1 /\ ~ReplicasSet(Overrides[overrides], d)
            => live[d] >= 1 /\ (d \in Autoscaled => hpa[d] # NoHPA)

\* An override of the replicas wins over the scale target: the last one given
\* is what the deployment has, or what its HPA has for a minimum, and then the
\* HPA is not disabled by a deployment left at 0.  Not so mt-broker-ingress,
\* which is left out: applyScalingForMTBroker (eventmesh.go:173) looks for its
\* overrides under mt-ingress-filter, finds none, and removes the HPA that the
\* override has set; IngressScaledToZero is about the same name.
OverrideWins ==
    \A d \in Deployments : \A i \in DOMAIN Overrides[overrides] :
        LET o == Overrides[overrides][i]
        IN  /\ settled /\ o.name = d /\ o.replicas # None /\ d # "mt-broker-ingress"
            /\ ~ReplicasSet(SubSeq(Overrides[overrides], i + 1, Len(Overrides[overrides])), d)
            => IF d \in Autoscaled THEN hpa[d].min = o.replicas /\ live[d] > 0 ELSE live[d] = o.replicas

\* Every HPA in the cluster has 1 <= min <= max.
HPABounds ==
    \A d \in Autoscaled : hpa[d] # NoHPA => 1 <= hpa[d].min /\ hpa[d].min <= hpa[d].max

\* In the pod template that Install is about to apply, the last override that
\* says something of a label, of a setting of a probe or of the host network
\* has its way, and a probe that was disabled has no settings but those given
\* after that: whatever other overrides of the deployment, and of others, come
\* in between (WorkloadsOverride).  Nothing is dropped on the way: a label of
\* the manifest or of an override is there, and so is a setting, unless the
\* probe was disabled after it was given.
LastOverrideWins ==
    pc = "delete" => \A d \in Deployments :
        LET ov == Overrides[input.overrides]
            t == WorkloadsOverride(ov, d)
        IN  /\ \A l \in DOMAIN t.labels :
                LET i == LastOf(ov, d, LAMBDA o : l \in DOMAIN o.labels)
                IN  t.labels[l] = IF i = 0 THEN Templates[d].labels[l] ELSE ov[i].labels[l]
            /\ \A c \in DOMAIN t.containers, p \in Probes : \A k \in DOMAIN t.containers[c][p] :
                LET i == LastOf(ov, d, LAMBDA o : Says(o, p, c) /\ k \in DOMAIN Values(o, p, c))
                    disabled == LastOf(ov, d, LAMBDA o : Says(o, p, c) /\ Values(o, p, c) = Empty)
                IN  /\ i >= disabled
                    /\ t.containers[c][p][k] =
                          IF i = 0 THEN Templates[d].containers[c][p][k] ELSE Values(ov[i], p, c)[k]
            /\ LET i == LastOf(ov, d, LAMBDA o : o.hostNetwork # {})
               IN  t.hostNetwork = IF i = 0 THEN Templates[d].hostNetwork ELSE ov[i].hostNetwork
            /\ DOMAIN Templates[d].labels \subseteq DOMAIN t.labels
            /\ \A i \in DOMAIN ov : ov[i].name = d => DOMAIN ov[i].labels \subseteq DOMAIN t.labels
            /\ DOMAIN t.containers = DOMAIN Templates[d].containers
            /\ \A c \in DOMAIN t.containers, p \in Probes :
                LET disabled == LastOf(ov, d, LAMBDA o : Says(o, p, c) /\ Values(o, p, c) = Empty)
                IN  /\ disabled = 0 => DOMAIN Templates[d].containers[c][p] \subseteq DOMAIN t.containers[c][p]
                    /\ \A i \in DOMAIN ov :
                        ov[i].name = d /\ i > disabled /\ Says(ov[i], p, c)
                            => DOMAIN Values(ov[i], p, c) \subseteq DOMAIN t.containers[c][p]

\* Once the spec is in the cluster, reconciling it again disturbs nothing there:
\* neither does it take back what the HPA controller, which does no work of the
\* reconcile, has scaled in the meantime, nor does an HPA go and come back.
Undisturbed == [][settled /\ work' # work => cluster' = cluster]_vars

\* No autoscaled deployment is given 0 replicas, which no HPA can follow, and
\* no template is made invalid.
Feasible ==
    { f \in DOMAIN Overrides :
        LET ov == Overrides[f]
        IN  /\ \A i \in DOMAIN ov : ov[i].name \in Autoscaled => ov[i].replicas # 0
            /\ \A d \in Deployments : SelectorKept(ov, d) /\ ProbesThere(ov, d) }

\* A feasible spec that is no longer changed is brought into the cluster, though
\* an infeasible one, or failing requests, came before it.
Converges == <>[](overrides \in Feasible) => <>[]settled

\* What the comment of eventingMTBrokerManifests says ("scale the deployments
\* down when no MTCB broker exists"), for the ingress.
IngressScaledToZero ==
    settled /\ target.mt = 0 /\ ~ReplicasSet(Overrides[overrides], "mt-broker-ingress")
        => live["mt-broker-ingress"] = 0

=============================================================================
