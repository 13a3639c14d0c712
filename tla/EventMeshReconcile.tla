-------------------------- MODULE EventMeshReconcile --------------------------
(***************************************************************************)
(* The reconcile of one EventMesh: the generated Reconcile of              *)
(* pkg/client/injection/reconciler, ReconcileKind with its prechecks and   *)
(* stages (pkg/reconciler/eventmesh), and the conditions of the status     *)
(* (eventmesh_lifecycle.go over knative.dev/pkg/apis).                     *)
(*                                                                         *)
(* The reconcile works on what its listers show: the EventMesh, the        *)
(* deployments and the cert-manager CRD come from informer caches, which   *)
(* lag behind the API server.  Every request may fail, the operator may    *)
(* crash between any two steps, and users edit the spec, install and       *)
(* remove cert-manager and other eventing installations at any time.       *)
(*                                                                         *)
(* The manifests are abstracted to two things: the deployments (as a       *)
(* whole: who owns them, and whether all of them are available) and, per   *)
(* parser, the TLS resources, the only ones that are deleted again.  What  *)
(* version they have is the matter of module Upgrade, and how far they are *)
(* scaled that of module ScaleHandler.                                     *)
(***************************************************************************)
EXTENDS Integers

CONSTANTS
    Parsers,        \* the manifest parsers that bring TLS resources
    MaxGen,         \* bound: generations of the spec
    MaxFailures,    \* bound: failing requests and stages
    MaxCrashes,     \* bound: restarts of the operator
    MaxChanges      \* bound: changes of cert-manager and of the deployments by others

ASSUME BoundsAssumption ==
    MaxGen \in Nat /\ MaxFailures \in Nat /\ MaxCrashes \in Nat /\ MaxChanges \in Nat

VARIABLES
    em,         \* the EventMesh in the API server
    cached,     \* the EventMesh in the informer cache
    queued,     \* its key is in the work queue
    pc,         \* where the reconcile is
    loc,        \* its local state
    cert,       \* the CRD lister knows the cert-manager CRD
    deps,       \* the deployments in the API server
    depsSeen,   \* the deployments in the informer cache
    tlsObjs,    \* the parsers whose TLS resources exist
    installed,  \* history: generations whose manifests were completely installed
    budget      \* what is left of the bounds

clusterVars == <<cert, deps, tlsObjs>>
vars == <<em, cached, queued, pc, loc, clusterVars, depsSeen, installed, budget>>

ConditionStatus == {"True", "False", "Unknown"}
Status == [obs : Nat, install : ConditionStatus, avail : ConditionStatus, ready : ConditionStatus]
EventMesh == [gen : Nat, tls : BOOLEAN, status : Status]
\* owner: whose the eventing-controller deployment is, "none" if there is none.
DeploymentState == [owner : {"none", "em", "other"}, ready : BOOLEAN]
Local == [gen : Nat, tls : BOOLEAN, orig : Status, status : Status,
          parsed : SUBSET Parsers, toDelete : SUBSET Parsers, failed : BOOLEAN]
PCs == {"idle", "precheck", "parse", "transform", "delete", "apply", "postInstall", "check", "update"}

TypeOK ==
    /\ em \in EventMesh /\ cached \in EventMesh
    /\ queued \in BOOLEAN /\ pc \in PCs /\ loc \in Local
    /\ cert \in BOOLEAN
    /\ deps \in DeploymentState /\ depsSeen \in DeploymentState
    /\ tlsObjs \subseteq Parsers
    /\ installed \subseteq Nat
    /\ budget \in [failures : Nat, crashes : Nat, changes : Nat]

-----------------------------------------------------------------------------
(* Conditions: Ready is the happy condition over the two dependents        *)
(* InstallSucceeded and DeploymentsAvailable.                              *)

NewStatus == [obs |-> 0, install |-> "Unknown", avail |-> "Unknown", ready |-> "Unknown"]

Dependents(s) == {s.install, s.avail}

\* recomputeHappiness: False outweighs Unknown, Unknown outweighs True.
Happiness(s) ==
    IF "False" \in Dependents(s) THEN "False"
    ELSE IF "Unknown" \in Dependents(s) THEN "Unknown" ELSE "True"

MarkInstallSucceeded(s) ==
    LET t == [s EXCEPT !.install = "True"] IN [t EXCEPT !.ready = Happiness(t)]
MarkDeploymentsAvailable(s) ==
    LET t == [s EXCEPT !.avail = "True"] IN [t EXCEPT !.ready = Happiness(t)]
MarkInstallFailed(s) == [s EXCEPT !.install = "False", !.ready = "False"]
MarkDeploymentsNotReady(s) == [s EXCEPT !.avail = "False", !.ready = "False"]

MutPreProcessKeepsReady(s, g) == s
MutPreProcessClears(s, g) ==
    IF s.obs = g THEN s
    ELSE [s EXCEPT !.ready = IF "False" \in Dependents(s) THEN "False" ELSE ""]

\* PreProcessReconcile: a new generation makes Ready unknown, or keeps it
\* False if a dependent is.
PreProcess(s, g) ==
    IF s.obs = g THEN s
    ELSE [s EXCEPT !.ready = IF "False" \in Dependents(s) THEN "False" ELSE "Unknown"]

\* PostProcessReconcile: the generation is observed, whatever came of it.
PostProcess(s, g) == [s EXCEPT !.obs = g]

-----------------------------------------------------------------------------
Init ==
    /\ em \in [gen : {1}, tls : BOOLEAN, status : {NewStatus}]
    /\ cached = em /\ queued = TRUE
    /\ pc = "idle"
    /\ loc = [gen |-> 0, tls |-> FALSE, orig |-> NewStatus, status |-> NewStatus,
              parsed |-> {}, toDelete |-> {}, failed |-> FALSE]
    /\ cert \in BOOLEAN
    /\ deps \in [owner : {"none", "other"}, ready : {FALSE}] /\ depsSeen = deps
    /\ tlsObjs = {} /\ installed = {}
    /\ budget = [failures |-> MaxFailures, crashes |-> MaxCrashes, changes |-> MaxChanges]

Spend(what) == budget[what] > 0 /\ budget' = [budget EXCEPT ![what] = @ - 1]

-----------------------------------------------------------------------------
(* Users, the cluster and the informers.                                   *)

EditSpec(tls) ==
    /\ em.gen < MaxGen
    /\ em' = [em EXCEPT !.gen = @ + 1, !.tls = tls]
    /\ UNCHANGED <<cached, queued, pc, loc, clusterVars, depsSeen, installed, budget>>

\* The EventMesh informer delivers: HandleAll(impl.Enqueue).
DeliverEventMesh ==
    /\ cached # em
    /\ cached' = em /\ queued' = TRUE
    /\ UNCHANGED <<em, pc, loc, clusterVars, depsSeen, installed, budget>>

\* The informer's periodic resync enqueues the EventMesh, too.
Resync ==
    /\ ~queued /\ queued' = TRUE
    /\ UNCHANGED <<em, cached, pc, loc, clusterVars, depsSeen, installed, budget>>

\* No handler is registered for deployments: nothing is enqueued.
DeliverDeployments ==
    /\ depsSeen # deps
    /\ depsSeen' = deps
    /\ UNCHANGED <<em, cached, queued, pc, loc, clusterVars, installed, budget>>

\* Deployments become available or unavailable.
ToggleReady ==
    /\ deps.owner # "none" /\ (deps.ready => Spend("changes")) /\ (~deps.ready => UNCHANGED budget)
    /\ deps' = [deps EXCEPT !.ready = ~@]
    /\ UNCHANGED <<em, cached, queued, pc, loc, cert, tlsObjs, depsSeen, installed>>

\* Eventing is installed, or removed, by somebody else.
OtherInstallation ==
    /\ deps.owner # "em" /\ Spend("changes")
    /\ deps' = [owner |-> IF deps.owner = "none" THEN "other" ELSE "none", ready |-> FALSE]
    /\ UNCHANGED <<em, cached, queued, pc, loc, cert, tlsObjs, depsSeen, installed>>

\* cert-manager comes or goes; with its CRDs go the resources of their kinds.
ToggleCertManager ==
    /\ Spend("changes")
    /\ cert' = ~cert
    /\ tlsObjs' = IF cert THEN {} ELSE tlsObjs
    /\ UNCHANGED <<em, cached, queued, pc, loc, deps, depsSeen, installed>>

\* The operator restarts: its informers list afresh, the key is enqueued.
Crash ==
    /\ Spend("crashes")
    /\ pc' = "idle" /\ queued' = TRUE /\ cached' = em /\ depsSeen' = deps
    /\ UNCHANGED <<em, loc, clusterVars, installed>>

-----------------------------------------------------------------------------
(* The reconcile.  A stage goes on, ends the reconcile, or fails.          *)

goto(l) == pc' = l
fail == pc' = "update" /\ loc' = [loc EXCEPT !.failed = TRUE]
local == UNCHANGED <<em, cached, queued, depsSeen, installed>>

\* Reconcile takes the EventMesh from the lister and preprocesses a copy.
Start ==
    /\ pc = "idle" /\ queued
    /\ queued' = FALSE
    /\ loc' = [gen |-> cached.gen, tls |-> cached.tls, orig |-> cached.status,
               status |-> PreProcess(cached.status, cached.gen),
               parsed |-> {}, toDelete |-> {}, failed |-> FALSE]
    /\ goto("precheck")
    /\ UNCHANGED <<em, cached, clusterVars, depsSeen, installed, budget>>

hasForeignEventingInstalled == depsSeen.owner = "other"
IsCertmanagerInstalled == cert

\* runPrechecks, either of which sets the status.
PrecheckFails == hasForeignEventingInstalled \/ (loc.tls /\ ~IsCertmanagerInstalled)

PrecheckFailed ==
    /\ pc = "precheck" /\ PrecheckFails
    /\ loc' = [loc EXCEPT !.status = MarkInstallFailed(@)]
    /\ goto("update")
    /\ local /\ UNCHANGED <<clusterVars, budget>>

PrecheckPassed ==
    /\ pc = "precheck" /\ ~PrecheckFails
    /\ goto("parse") /\ UNCHANGED loc
    /\ local /\ UNCHANGED <<clusterVars, budget>>

MutParseNothingToDelete(p) ==
    /\ pc = "parse" /\ p \notin loc.parsed /\ (loc.tls => IsCertmanagerInstalled)
    /\ loc' = [loc EXCEPT !.parsed = @ \cup {p}]
    /\ goto(IF loc'.parsed = Parsers THEN "transform" ELSE "parse")
    /\ local /\ UNCHANGED <<clusterVars, budget>>

\* A parser looks for cert-manager again.  With TLS its resources are to be
\* applied; without, they are to be deleted if they can exist.
Parse(p) ==
    /\ pc = "parse" /\ p \notin loc.parsed /\ (loc.tls => IsCertmanagerInstalled)
    /\ loc' = [loc EXCEPT !.parsed = @ \cup {p},
                          !.toDelete = IF ~loc.tls /\ IsCertmanagerInstalled THEN @ \cup {p} ELSE @]
    /\ goto(IF loc'.parsed = Parsers THEN "transform" ELSE "parse")
    /\ local /\ UNCHANGED <<clusterVars, budget>>

ParseFailed ==
    /\ pc = "parse" /\ loc.tls /\ ~IsCertmanagerInstalled
    /\ fail
    /\ local /\ UNCHANGED <<clusterVars, budget>>

\* applyScaling, addOwnerReference, Transform: no effect outside.
Transform ==
    /\ pc = "transform"
    /\ goto("delete") /\ UNCHANGED loc
    /\ local /\ UNCHANGED <<clusterVars, budget>>

TransformFailed ==
    /\ pc = "transform" /\ Spend("failures")
    /\ fail
    /\ local /\ UNCHANGED clusterVars

\* Install, first part: delete what is not needed.
Delete ==
    /\ pc = "delete"
    /\ tlsObjs' = tlsObjs \ loc.toDelete
    /\ goto("apply") /\ UNCHANGED loc
    /\ local /\ UNCHANGED <<cert, deps, budget>>

DeleteFailed ==
    /\ pc = "delete" /\ Spend("failures")
    /\ \E done \in SUBSET loc.toDelete : tlsObjs' = tlsObjs \ done
    /\ fail
    /\ local /\ UNCHANGED <<cert, deps>>

\* The deployments after Apply: owned by the EventMesh (InjectOwner), new ones
\* not available yet.
Applied == [owner |-> "em", ready |-> deps.owner # "none" /\ deps.ready]

\* Install, second part: apply, in which TLS resources need cert-manager.
Apply ==
    /\ pc = "apply" /\ (loc.tls => cert)
    /\ deps' = Applied
    /\ tlsObjs' = IF loc.tls THEN Parsers ELSE tlsObjs
    /\ goto("postInstall") /\ UNCHANGED loc
    /\ local /\ UNCHANGED <<cert, budget>>

ApplyFailed ==
    /\ pc = "apply"
    /\ (loc.tls => cert) => Spend("failures")
    /\ ~(loc.tls => cert) => UNCHANGED budget
    /\ deps' \in {deps, Applied}
    /\ \E done \in SUBSET Parsers : tlsObjs' = IF loc.tls /\ cert THEN tlsObjs \cup done ELSE tlsObjs
    /\ fail
    /\ local /\ UNCHANGED cert

\* Install, third part; with it the generation is installed.
PostInstall ==
    /\ pc = "postInstall"
    /\ installed' = installed \cup {loc.gen}
    /\ goto("check") /\ UNCHANGED loc
    /\ UNCHANGED <<em, cached, queued, clusterVars, depsSeen, budget>>

PostInstallFailed ==
    /\ pc = "postInstall" /\ Spend("failures")
    /\ fail
    /\ local /\ UNCHANGED clusterVars

MutCheckDeploymentsNoSuccess ==
    /\ pc = "check"
    /\ loc' = [loc EXCEPT !.status =
                  IF depsSeen.owner # "none" /\ depsSeen.ready
                  THEN MarkDeploymentsAvailable(@) ELSE MarkDeploymentsNotReady(@)]
    /\ goto("update")
    /\ local /\ UNCHANGED <<clusterVars, budget>>

\* checkDeployments looks at the lister; a missing or unavailable deployment is
\* no error, so MarkInstallSucceeded ends ReconcileKind either way.
CheckDeployments ==
    /\ pc = "check"
    /\ loc' = [loc EXCEPT !.status = MarkInstallSucceeded(
                  IF depsSeen.owner # "none" /\ depsSeen.ready
                  THEN MarkDeploymentsAvailable(@) ELSE MarkDeploymentsNotReady(@))]
    /\ goto("update")
    /\ local /\ UNCHANGED <<clusterVars, budget>>

MutUpdateStatusCurrent ==
    /\ pc = "update"
    /\ em' = [em EXCEPT !.status = PostProcess(loc.status, em.gen)]
    /\ queued' = (queued \/ loc.failed)
    /\ goto("idle") /\ UNCHANGED loc
    /\ UNCHANGED <<cached, clusterVars, depsSeen, installed, budget>>

\* The status is written unless it is the one the reconcile started from (one
\* that differs from it in a message only is written, too); a failed reconcile
\* is enqueued again.
UpdateStatus ==
    /\ pc = "update"
    /\ LET s == PostProcess(loc.status, loc.gen)
       IN  \/ em' = [em EXCEPT !.status = s]
           \/ s = loc.orig /\ em' = em
    /\ queued' = (queued \/ loc.failed)
    /\ goto("idle") /\ UNCHANGED loc
    /\ UNCHANGED <<cached, clusterVars, depsSeen, installed, budget>>

UpdateStatusFailed ==
    /\ pc = "update" /\ Spend("failures")
    /\ queued' = TRUE
    /\ goto("idle") /\ UNCHANGED loc
    /\ UNCHANGED <<em, cached, clusterVars, depsSeen, installed>>

-----------------------------------------------------------------------------
Environment ==
    \/ \E tls \in BOOLEAN : EditSpec(tls)
    \/ ToggleReady \/ OtherInstallation \/ ToggleCertManager \/ Crash

Informers == DeliverEventMesh \/ DeliverDeployments

ReconcileStep ==
    \/ Start \/ PrecheckFailed \/ PrecheckPassed
    \/ (\E p \in Parsers : Parse(p)) \/ ParseFailed
    \/ Transform \/ TransformFailed \/ Delete \/ DeleteFailed
    \/ Apply \/ ApplyFailed \/ PostInstall \/ PostInstallFailed
    \/ CheckDeployments \/ UpdateStatus \/ UpdateStatusFailed

Next == Environment \/ Informers \/ Resync \/ ReconcileStep

Spec == Init /\ [][Next]_vars

\* Caches catch up, the worker makes progress, and the EventMesh informer
\* resyncs (every ten hours).
Fairness ==
    /\ WF_vars(DeliverEventMesh) /\ WF_vars(DeliverDeployments)
    /\ WF_vars(ReconcileStep) /\ WF_vars(Resync)
FairSpec == Spec /\ Fairness

-----------------------------------------------------------------------------
(* Properties.                                                             *)

\* Ready is true for a generation only after its manifests were completely
\* installed, through failures, crashes, stale caches and skipped status
\* updates: the status of an older generation never passes for that of a
\* newer one.
ReadyMeansInstalled ==
    em.status.ready = "True" => em.status.obs \in installed

\* An EventMesh that is Ready in its current generation, with TLS disabled,
\* has no TLS resources left, of no parser.
TLSRemoved ==
    em.status.ready = "True" /\ em.status.obs = em.gen /\ ~em.tls => tlsObjs = {}

\* When cert-manager and the deployments are there for good and nobody else's
\* installation is, the EventMesh becomes and stays Ready in its last generation.
ReadyEventually ==
    <>[](cert /\ deps.owner # "other") /\ <>[](deps.owner = "em" => deps.ready)
        => <>[](em.status.ready = "True" /\ em.status.obs = em.gen)

\* The reconcile with its caches, failures and restarts implements what module
\* Installer promises of generations, reports and TLS resources: generations are
\* installed in order, and a status never speaks of an older generation than the
\* one that was installed last.
Promise == INSTANCE Installer
    WITH gen <- em.gen, tls <- em.tls, rest <- (tlsObjs # {}),
         observed <- em.status.obs, ready <- (em.status.ready = "True")
ImplementsInstaller == Promise!Spec

=============================================================================
