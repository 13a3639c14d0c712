-------------------------- MODULE WorkloadOverride --------------------------
(***************************************************************************)
(* What spec.overrides.workloads makes of the pod templates in the         *)
(* manifests (pkg/manifests/transform/workload-override.go), replicas      *)
(* aside, which are the matter of Scaling.                                 *)
(*                                                                         *)
(* Labels (and annotations, likewise), resources, environment variables    *)
(* and the settings of a probe are functions from names to values.  A      *)
(* probe without any setting is none; "handler" is the request it makes,   *)
(* which an override cannot give.                                          *)
(***************************************************************************)
EXTENDS Integers, TLC, SequencesExt, KeyValues

CONSTANT Templates  \* the pod templates of the manifests, by deployment

Empty == <<>>
Probes == {"readiness", "liveness"}

\* The first entry of a list of overrides that is about the container c, or 0.
find(list, c) == SelectInSeq(list, LAMBDA o : o.container = c)

\* merge and mergeEnv: values of the override come before those there are.
merge(list, c, values) ==
    IF find(list, c) = 0 THEN values ELSE list[find(list, c)].values ?? values

MutMergeProbeKeepsEmpty(list, c, probe) == merge(list, c, probe)

\* The settings of an override are merged into the probe, or make up one; an
\* override without settings disables it.
mergeProbe(list, c, probe) ==
    IF find(list, c) # 0 /\ list[find(list, c)].values = Empty THEN Empty ELSE merge(list, c, probe)

replaceLabels(o, t) == [t EXCEPT !.labels = o.labels ?? @]

\* nodeSelector, topologySpreadConstraints, tolerations and affinity: each is
\* replaced as a whole if the override has it.
replacePlacement(o, t) == [t EXCEPT !.placement = o.placement ?? @]

replaceContainers(o, t) ==
    [t EXCEPT !.containers =
        [c \in DOMAIN @ |->
            [resources |-> merge(o.resources, c, @[c].resources),
             env       |-> merge(o.env, c, @[c].env),
             readiness |-> mergeProbe(o.readiness, c, @[c].readiness),
             liveness  |-> mergeProbe(o.liveness, c, @[c].liveness)]]]

\* The override has a hostNetwork, or the empty set.
replaceHostNetwork(o, t) ==
    [t EXCEPT !.hostNetwork = IF o.hostNetwork = {} THEN @ ELSE o.hostNetwork,
              !.dnsPolicy = IF o.hostNetwork = {TRUE} THEN "ClusterFirstWithHostNet" ELSE @]

\* The template of d after the overrides that name it, one after the other.
WorkloadsOverride(ov, d) ==
    FoldLeft(LAMBDA t, o :
                IF o.name # d THEN t
                ELSE replaceHostNetwork(o, replaceContainers(o, replacePlacement(o, replaceLabels(o, t)))),
             Templates[d], ov)

\* The API server takes a deployment only if its template has the labels of
\* its selector, and its probes make a request.
Accepted(d, t) ==
    /\ \A l \in t.selector : t.labels[l] = Templates[d].labels[l]
    /\ \A c \in DOMAIN t.containers, p \in Probes :
        t.containers[c][p] # Empty => "handler" \in DOMAIN t.containers[c][p]

-----------------------------------------------------------------------------
(* What the overrides of a deployment ought to do.                         *)

\* The last override of d before the n-th for which Sets holds, or 0.
LastBefore(ov, d, n, Sets(_)) ==
    Max({0} \cup {i \in DOMAIN ov : i < n /\ ov[i].name = d /\ Sets(ov[i])})
LastOf(ov, d, Sets(_)) == LastBefore(ov, d, Len(ov) + 1, Sets)

\* What override o says of the container c in one of its lists.
Says(o, p, c) == find(o[p], c) # 0
Values(o, p, c) == o[p][find(o[p], c)].values

\* A probe that is given settings is there: in the manifest, and not disabled
\* by an earlier override.
ProbesThere(ov, d) ==
    \A i \in DOMAIN ov, c \in DOMAIN Templates[d].containers, p \in Probes :
        ov[i].name = d /\ Says(ov[i], p, c) /\ Values(ov[i], p, c) # Empty =>
            /\ Templates[d].containers[c][p] # Empty
            /\ LastBefore(ov, d, i, LAMBDA o : Says(o, p, c) /\ Values(o, p, c) = Empty) = 0

\* The labels of the selector are left alone.
SelectorKept(ov, d) ==
    \A i \in DOMAIN ov : ov[i].name = d => DOMAIN ov[i].labels \cap Templates[d].selector = {}

=============================================================================
