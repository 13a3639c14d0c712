------------------------------- MODULE Upgrade -------------------------------
(***************************************************************************)
(* Upgrades: a new release of the operator brings new manifests, and the   *)
(* reconcile that first applies them also applies the post-install         *)
(* manifests (storage version migration jobs).  Whether a reconcile is an  *)
(* upgrade is found out by each parser from the version label of one       *)
(* deployment in the deployment lister (version.go); what follows are      *)
(* Install's requests one by one (stages.go), any of which may fail.       *)
(*                                                                         *)
(* Only deployments are modelled of the manifests, each by the release     *)
(* whose manifest was applied to it last.  Jobs are recorded when they     *)
(* are created; what they do is not modelled.                              *)
(***************************************************************************)
EXTENDS Integers, Sequences

CONSTANTS
    Parsers,        \* the manifest parsers, in the order of the stages
    Deployments,
    Releases,       \* numbers of the releases of the operator
    Minor,          \* their (major and) minor version, ordered
    Manifest,       \* Manifest[p][r]: the deployments in p's core manifests, in order
    Rollbacks,      \* whether an older release may follow a newer one
    MaxRollouts,    \* bound: changes of the operator's release
    MaxFailures,    \* bound: failing requests
    MaxCrashes      \* bound: stops of the operator in the middle of a reconcile

ASSUME ReleasesAssumption == Releases \subseteq Nat \ {0} /\ Minor \in [Releases -> Nat]

ParserSet == {Parsers[i] : i \in DOMAIN Parsers}

ASSUME ParsersAssumption == Parsers \in Seq(ParserSet) /\ Parsers # <<>>
ASSUME ManifestAssumption ==
    \A p \in ParserSet : \A r \in Releases :
        Manifest[p][r] \in Seq(Deployments) /\ Manifest[p][r] # <<>>
\* A release keeps some deployment of every other (eventing-controller is in all).
ASSUME SharedAssumption ==
    \A p \in ParserSet : \A r, s \in Releases :
        \E i \in DOMAIN Manifest[p][r] : \E j \in DOMAIN Manifest[p][s] :
            Manifest[p][r][i] = Manifest[p][s][j]
ASSUME BoundsAssumption ==
    Rollbacks \in BOOLEAN /\ MaxRollouts \in Nat /\ MaxFailures \in Nat /\ MaxCrashes \in Nat

VARIABLES
    rel,        \* the release of the running operator
    dep,        \* API server: the release of each deployment, 0 if there is none
    seen,       \* the same in the deployment lister
    events,     \* changes on their way to the lister
    queued,     \* the EventMesh's key is in the work queue
    pc,         \* where the reconcile is
    parsed,     \* parsers done
    post,       \* parsers whose post-install manifests are to be applied
    todo,       \* deployments to be applied
    budget,     \* what is left of the bounds
    ran,        \* history: parsers and releases of the post-installs since the last completion
    done,       \* history: the release of the last completed reconcile
    applied     \* history: deployments and releases ever applied

cluster == <<dep, seen, events>>
worker == <<queued, pc, parsed, post, todo>>
history == <<ran, done, applied>>
vars == <<rel, cluster, worker, budget, history>>

DeploymentsOf(p, r) == {Manifest[p][r][i] : i \in DOMAIN Manifest[p][r]}

TypeOK ==
    /\ rel \in Releases
    /\ dep \in [Deployments -> Releases \cup {0}] /\ seen \in [Deployments -> Releases \cup {0}]
    /\ events \in Seq(Deployments \X Releases)
    /\ queued \in BOOLEAN /\ pc \in {"idle", "parse", "apply", "postInstall"}
    /\ parsed \in 0..Len(Parsers) /\ post \subseteq ParserSet /\ todo \subseteq Deployments
    /\ budget \in [rollouts : Nat, failures : Nat, crashes : Nat]
    /\ ran \subseteq ParserSet \X Releases /\ done \in Releases \cup {0}
    /\ applied \subseteq Deployments \X Releases

Init ==
    /\ rel \in Releases
    /\ dep = [d \in Deployments |-> 0] /\ seen = dep /\ events = <<>>
    /\ queued = TRUE /\ pc = "idle" /\ parsed = 0 /\ post = {} /\ todo = {}
    /\ budget = [rollouts |-> MaxRollouts, failures |-> MaxFailures, crashes |-> MaxCrashes]
    /\ ran = {} /\ done = 0 /\ applied = {}

Spend(what) == budget[what] > 0 /\ budget' = [budget EXCEPT ![what] = @ - 1]

-----------------------------------------------------------------------------
(* The operator's process and the lister.                                  *)

\* A starting operator lists the deployments and enqueues every EventMesh.
Boot ==
    /\ seen' = dep /\ events' = <<>>
    /\ queued' = TRUE /\ pc' = "idle"
    /\ UNCHANGED <<dep, parsed, post, todo, history>>

Crash == pc # "idle" /\ Spend("crashes") /\ Boot /\ UNCHANGED rel

\* Another release is rolled out while no reconcile is running.
Rollout(r) ==
    /\ pc = "idle" /\ Spend("rollouts")
    /\ r # rel /\ (r < rel => Rollbacks)
    /\ rel' = r /\ Boot

Deliver ==
    /\ events # <<>>
    /\ seen' = [seen EXCEPT ![Head(events)[1]] = Head(events)[2]]
    /\ events' = Tail(events)
    /\ UNCHANGED <<rel, dep, worker, budget, history>>

\* An event or a periodic resync of the EventMesh.
Resync ==
    /\ ~queued /\ queued' = TRUE
    /\ UNCHANGED <<rel, cluster, pc, parsed, post, todo, budget, history>>

-----------------------------------------------------------------------------
(* Whether this is an upgrade: version.go.                                 *)

\* The positions in p's manifests of the deployments that the lister has.
Found(p) == {i \in DOMAIN Manifest[p][rel] : seen[Manifest[p][rel][i]] # 0}

MutIsUpgradePatch(p) ==
    \E i \in Found(p) :
        /\ \A j \in Found(p) : j <= i
        /\ Minor[seen[Manifest[p][rel][i]]] <= Minor[rel]

MutIsUpgradeLastOnly(p) ==
    LET i == Len(Manifest[p][rel])
    IN  i \in Found(p) /\ Minor[seen[Manifest[p][rel][i]]] < Minor[rel]

\* isUpgrade over getVersions: the last of them decides, with its patch version
\* ignored.  If there is none, the installation is new.
isUpgrade(p) ==
    \E i \in Found(p) :
        /\ \A j \in Found(p) : j <= i
        /\ Minor[seen[Manifest[p][rel][i]]] < Minor[rel]

-----------------------------------------------------------------------------
(* The reconcile.                                                          *)

Start ==
    /\ pc = "idle" /\ queued
    /\ queued' = FALSE /\ pc' = "parse" /\ parsed' = 0 /\ post' = {} /\ todo' = {}
    /\ UNCHANGED <<rel, cluster, budget, history>>

MutParseOffByOne ==
    /\ pc = "parse"
    /\ IF parsed < Len(Parsers)
       THEN LET p == Parsers[parsed + 1]
            IN  /\ post' = IF isUpgrade(p) THEN post \cup {p} ELSE post
                /\ todo' = todo \cup DeploymentsOf(p, rel)
       ELSE UNCHANGED <<post, todo>>
    /\ parsed' = parsed + 1
    /\ pc' = IF parsed' > Len(Parsers) THEN "apply" ELSE "parse"
    /\ UNCHANGED <<rel, cluster, queued, budget, history>>

\* Parse of the next parser; the stages before Install have no effect outside.
Parse ==
    /\ pc = "parse"
    /\ LET p == Parsers[parsed + 1]
       IN  /\ post' = IF isUpgrade(p) THEN post \cup {p} ELSE post
           /\ todo' = todo \cup DeploymentsOf(p, rel)
    /\ parsed' = parsed + 1
    /\ pc' = IF parsed' = Len(Parsers) THEN "apply" ELSE "parse"
    /\ UNCHANGED <<rel, cluster, queued, budget, history>>

\* Apply creates or updates one deployment after the other.  Sort orders the
\* resources by kind only, and not stably: any order within a kind.
ApplyDeployment(d) ==
    /\ pc = "apply" /\ d \in todo
    /\ dep' = [dep EXCEPT ![d] = rel]
    /\ events' = IF dep[d] = rel THEN events ELSE Append(events, <<d, rel>>)
    /\ todo' = todo \ {d}
    /\ pc' = IF todo' = {} THEN "postInstall" ELSE "apply"
    /\ applied' = applied \cup {<<d, rel>>}
    /\ UNCHANGED <<rel, seen, queued, parsed, post, budget, ran, done>>

\* Apply of the post-install manifests: a parser's jobs are created.
PostInstall(p) ==
    /\ pc = "postInstall" /\ p \in post
    /\ ran' = ran \cup {<<p, rel>>}
    /\ post' = post \ {p}
    /\ UNCHANGED <<rel, cluster, queued, pc, parsed, todo, budget, done, applied>>

MutRequestFailedForgets ==
    /\ pc \in {"apply", "postInstall"} /\ Spend("failures")
    /\ pc' = "idle"
    /\ UNCHANGED <<rel, cluster, queued, parsed, post, todo, history>>

\* A request fails, and with it the reconcile, which is enqueued again.
RequestFailed ==
    /\ pc \in {"apply", "postInstall"} /\ Spend("failures")
    /\ queued' = TRUE /\ pc' = "idle"
    /\ UNCHANGED <<rel, cluster, parsed, post, todo, history>>

\* Install is through, and the status is set.
Finish ==
    /\ pc = "postInstall" /\ post = {}
    /\ pc' = "idle"
    /\ done' = rel /\ ran' = {}
    /\ UNCHANGED <<rel, cluster, queued, parsed, post, todo, budget, applied>>

ReconcileStep ==
    \/ Start \/ Parse \/ (\E d \in Deployments : ApplyDeployment(d))
    \/ (\E p \in ParserSet : PostInstall(p)) \/ RequestFailed \/ Finish

Next ==
    \/ Crash \/ (\E r \in Releases : Rollout(r)) \/ Deliver \/ Resync
    \/ ReconcileStep

Spec == Init /\ [][Next]_vars

\* The worker makes progress and the watch delivers; no resync is relied upon.
Fairness == WF_vars(ReconcileStep) /\ WF_vars(Deliver)
FairSpec == Spec /\ Fairness

-----------------------------------------------------------------------------
(* Properties.                                                             *)

\* Post-install manifests of a release are applied only where a release of a
\* lower minor version had been deployed: not on a new installation, whatever
\* part of it failed and was repeated, and not for a patch release.
PostInstallOnlyOnUpgrade ==
    \A pr \in ran : \E dr \in applied :
        dr[1] \in DeploymentsOf(pr[1], pr[2]) /\ Minor[dr[2]] < Minor[pr[2]]

\* No reconcile completes an upgrade to a new minor version without having
\* applied every parser's post-install manifests, in itself or in the failed
\* ones before it.
PostInstallOnUpgrade ==
    [][done' # done /\ done # 0 /\ Minor[done] < Minor[rel]
         => \A p \in ParserSet : <<p, rel>> \in ran]_vars

\* The first reconcile that applies anything of a new minor version, on top of
\* a completed older one, recognises the upgrade for every parser: whatever
\* deployments the new release adds or drops, whatever failed before, and though
\* the lister lags behind.
UpgradeRecognised ==
    [][pc = "parse" /\ pc' = "apply" /\ done # 0
         /\ (\A dr \in applied : Minor[dr[2]] < Minor[rel])
         => post' = ParserSet]_vars

\* A release that stays is in the end the one of all its deployments, though
\* requests fail and the operator crashes.
UpgradeCompletes ==
    <>[](\A p \in ParserSet : \A d \in DeploymentsOf(p, rel) : dep[d] = rel)

=============================================================================
