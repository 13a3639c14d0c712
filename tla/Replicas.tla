------------------------------ MODULE Replicas ------------------------------
(***************************************************************************)
(* Replicas of the operator that share one EventMesh: the leader awareness *)
(* of the generated controller (pkg/client/injection/reconciler, NewImpl,  *)
(* newState, Reconcile, updateStatus) over the leader election and work    *)
(* queue of knative.dev/pkg, and what becomes of the installed objects     *)
(* when the EventMesh is deleted, and created again under its old name.    *)
(*                                                                         *)
(* Every replica has its own informer cache, queue and worker.  Whether it *)
(* leads is looked up once, when a reconcile begins; a reconcile that runs *)
(* on when the lease is lost is not cancelled.  So two replicas may write  *)
(* at the same time, one of them from an old cache.                        *)
(*                                                                         *)
(* The installed objects are one: whose it is, by the UID in its owner     *)
(* reference, and of which generation of the spec.  It stands for those    *)
(* that InjectOwner gives an owner reference, which are all but those of   *)
(* kind Namespace: the namespaces stay when the EventMesh is deleted.  How *)
(* the objects are installed is the matter of EventMeshReconcile and       *)
(* Configuration.                                                          *)
(***************************************************************************)
EXTENDS Integers

CONSTANTS
    Replica,        \* the replicas of the operator
    None,           \* nobody, nothing
    MaxChanges,     \* bound: creations, updates and deletions of the EventMesh
    MaxFaults       \* bound: leases lost, replicas restarted and failing requests

ASSUME BoundsAssumption ==
    MaxChanges \in Nat /\ MaxFaults \in Nat
ASSUME NoneAssumption == None \notin Replica

VARIABLES
    mesh,       \* the EventMesh in the API server; its UID is 0 if there is none
    created,    \* how many EventMeshes were created, and so the last UID
    objs,       \* the installed objects with an owner; it is 0 if there are none
    lease,      \* the holder of the lease, or None
    term,       \* the elector of the replica believes to hold the lease
    leader,     \* the bucket of the EventMesh is set in LeaderAwareFuncs
    promotion,  \* where the goroutine of OnStartedLeading is
    cache,      \* the EventMesh in the informer cache of the replica
    queue,      \* the key is in its queue
    worker,     \* where its worker is
    obj,        \* the copy of the EventMesh the worker reconciles
    done,       \* history: what is in the cache was reconciled since the promotion
    budget      \* what is left of the bounds

clusterVars == <<mesh, created, objs>>
electionVars == <<lease, term, leader, promotion>>
workerVars == <<worker, obj, done>>
vars == <<clusterVars, electionVars, cache, queue, workerVars, budget>>

EventMesh == [uid : Nat, gen : Nat]
Budget == [changes : Nat, faults : Nat]
NoMesh == [uid |-> 0, gen |-> 0]
NoObjs == [owner |-> 0, gen |-> 0]

TypeOK ==
    /\ mesh \in EventMesh /\ created \in Nat /\ objs \in [owner : Nat, gen : Nat]
    /\ lease \in Replica \cup {None}
    /\ term \in [Replica -> BOOLEAN] /\ leader \in [Replica -> BOOLEAN]
    /\ promotion \in [Replica -> {"none", "set", "enqueue"}]
    /\ cache \in [Replica -> EventMesh] /\ queue \in [Replica -> BOOLEAN]
    /\ worker \in [Replica -> {"idle", "apply", "status"}]
    /\ obj \in [Replica -> EventMesh] /\ done \in [Replica -> BOOLEAN]
    /\ budget \in Budget

\* The replicas start, and have listed the EventMesh if there is one.
Init ==
    /\ \E exists \in {0, 1} :
        /\ mesh = [uid |-> exists, gen |-> exists] /\ created = exists
        /\ queue = [r \in Replica |-> exists = 1]
    /\ objs = NoObjs /\ cache = [r \in Replica |-> mesh]
    /\ lease = None
    /\ term = [r \in Replica |-> FALSE] /\ leader = [r \in Replica |-> FALSE]
    /\ promotion = [r \in Replica |-> "none"]
    /\ worker = [r \in Replica |-> "idle"] /\ obj = [r \in Replica |-> NoMesh]
    /\ done = [r \in Replica |-> FALSE]
    /\ budget = [changes |-> MaxChanges, faults |-> MaxFaults]

Spend(what) == budget[what] > 0 /\ budget' = [budget EXCEPT ![what] = @ - 1]

-----------------------------------------------------------------------------
(* Users and the garbage collector.                                        *)

Create ==
    /\ mesh.uid = 0 /\ Spend("changes")
    /\ created' = created + 1
    /\ mesh' = [uid |-> created + 1, gen |-> 1]
    /\ UNCHANGED <<objs, electionVars, cache, queue, workerVars>>

Update ==
    /\ mesh.uid # 0 /\ Spend("changes")
    /\ mesh' = [mesh EXCEPT !.gen = @ + 1]
    /\ UNCHANGED <<created, objs, electionVars, cache, queue, workerVars>>

\* The operator sets no finalizer: its Reconciler is no Finalizer.
DeleteMesh ==
    /\ mesh.uid # 0 /\ Spend("changes")
    /\ mesh' = NoMesh
    /\ UNCHANGED <<created, objs, electionVars, cache, queue, workerVars>>

\* Objects whose owner is gone are deleted.
CollectGarbage ==
    /\ objs.owner # 0 /\ objs.owner # mesh.uid
    /\ objs' = NoObjs
    /\ UNCHANGED <<mesh, created, electionVars, cache, queue, workerVars, budget>>

-----------------------------------------------------------------------------
(* The informer of a replica.                                              *)

MutDeliverNoDeletion(r) ==
    /\ mesh.uid # 0 /\ cache[r] # mesh
    /\ cache' = [cache EXCEPT ![r] = mesh] /\ queue' = [queue EXCEPT ![r] = TRUE]
    /\ done' = [done EXCEPT ![r] = FALSE]
    /\ UNCHANGED <<clusterVars, electionVars, worker, obj, budget>>

Deliver(r) ==
    /\ cache[r] # mesh
    /\ cache' = [cache EXCEPT ![r] = mesh] /\ queue' = [queue EXCEPT ![r] = TRUE]
    /\ done' = [done EXCEPT ![r] = FALSE]
    /\ UNCHANGED <<clusterVars, electionVars, worker, obj, budget>>

Resync(r) ==
    /\ cache[r].uid # 0 /\ ~queue[r]
    /\ queue' = [queue EXCEPT ![r] = TRUE]
    /\ UNCHANGED <<clusterVars, electionVars, cache, workerVars, budget>>

-----------------------------------------------------------------------------
(* Leader election.  OnStartedLeading runs in a goroutine of its own, which *)
(* may be slower than the term.                                            *)

Acquire(r) ==
    /\ lease = None /\ ~term[r]
    /\ lease' = r /\ term' = [term EXCEPT ![r] = TRUE]
    /\ promotion' = [promotion EXCEPT ![r] = "set"]
    /\ UNCHANGED <<clusterVars, leader, cache, queue, workerVars, budget>>

\* The lease runs out or is released.
Expire ==
    /\ lease # None /\ Spend("faults")
    /\ lease' = None
    /\ UNCHANGED <<clusterVars, term, leader, promotion, cache, queue, workerVars>>

Demote(r) ==
    /\ term[r] /\ lease # r
    /\ term' = [term EXCEPT ![r] = FALSE] /\ leader' = [leader EXCEPT ![r] = FALSE]
    /\ done' = [done EXCEPT ![r] = FALSE]
    /\ UNCHANGED <<clusterVars, lease, promotion, cache, queue, worker, obj, budget>>

\* Promote sets the bucket; what was reconciled in earlier terms is out of date.
PromoteSet(r) ==
    /\ promotion[r] = "set"
    /\ leader' = [leader EXCEPT ![r] = TRUE]
    /\ promotion' = [promotion EXCEPT ![r] = "enqueue"]
    /\ done' = [done EXCEPT ![r] = FALSE]
    /\ UNCHANGED <<clusterVars, lease, term, cache, queue, worker, obj, budget>>

MutPromoteEnqueueNothing(r) ==
    /\ promotion[r] = "enqueue"
    /\ queue' = queue
    /\ promotion' = [promotion EXCEPT ![r] = "none"]
    /\ UNCHANGED <<clusterVars, lease, term, leader, cache, workerVars, budget>>

\* PromoteFunc of NewImpl enqueues all that the lister has.
PromoteEnqueue(r) ==
    /\ promotion[r] = "enqueue"
    /\ queue' = [queue EXCEPT ![r] = @ \/ cache[r].uid # 0]
    /\ promotion' = [promotion EXCEPT ![r] = "none"]
    /\ UNCHANGED <<clusterVars, lease, term, leader, cache, workerVars, budget>>

\* A replica restarts, and lists the EventMesh.
Restart(r) ==
    /\ Spend("faults")
    /\ lease' = IF lease = r THEN None ELSE lease
    /\ term' = [term EXCEPT ![r] = FALSE] /\ leader' = [leader EXCEPT ![r] = FALSE]
    /\ promotion' = [promotion EXCEPT ![r] = "none"]
    /\ cache' = [cache EXCEPT ![r] = mesh] /\ queue' = [queue EXCEPT ![r] = mesh.uid # 0]
    /\ worker' = [worker EXCEPT ![r] = "idle"] /\ obj' = [obj EXCEPT ![r] = NoMesh]
    /\ done' = [done EXCEPT ![r] = FALSE]
    /\ UNCHANGED clusterVars

-----------------------------------------------------------------------------
(* The worker of a replica.                                                *)

isNotLeaderNorObserver(r) == ~leader[r]

\* A replica that does not lead skips the key, and the queue forgets it.
Skip(r) ==
    /\ worker[r] = "idle" /\ queue[r] /\ isNotLeaderNorObserver(r)
    /\ queue' = [queue EXCEPT ![r] = FALSE]
    /\ UNCHANGED <<clusterVars, electionVars, cache, workerVars, budget>>

\* The EventMesh no longer exists: nothing to do, and no OnDeletionInterface.
Gone(r) ==
    /\ worker[r] = "idle" /\ queue[r] /\ ~isNotLeaderNorObserver(r) /\ cache[r].uid = 0
    /\ queue' = [queue EXCEPT ![r] = FALSE]
    /\ UNCHANGED <<clusterVars, electionVars, cache, workerVars, budget>>

MutBeginObserves(r) ==
    /\ worker[r] = "idle" /\ queue[r] /\ ~isNotLeaderNorObserver(r) /\ cache[r].uid # 0
    /\ queue' = [queue EXCEPT ![r] = FALSE]
    /\ obj' = [obj EXCEPT ![r] = cache[r]]
    /\ worker' = [worker EXCEPT ![r] = "observe"]
    /\ UNCHANGED <<clusterVars, electionVars, cache, done, budget>>

\* ReconcileKind begins, on a copy of what the lister has.
Begin(r) ==
    /\ worker[r] = "idle" /\ queue[r] /\ ~isNotLeaderNorObserver(r) /\ cache[r].uid # 0
    /\ queue' = [queue EXCEPT ![r] = FALSE]
    /\ obj' = [obj EXCEPT ![r] = cache[r]]
    /\ worker' = [worker EXCEPT ![r] = "apply"]
    /\ UNCHANGED <<clusterVars, electionVars, cache, done, budget>>

MutApplyCreateOnly(r) ==
    /\ worker[r] = "apply"
    /\ objs' = IF objs.owner = 0 THEN [owner |-> obj[r].uid, gen |-> obj[r].gen] ELSE objs
    /\ worker' = [worker EXCEPT ![r] = "status"]
    /\ UNCHANGED <<mesh, created, electionVars, cache, queue, obj, done, budget>>

\* Install, with InjectOwner: the owner reference is that of the copy.  (Not
\* in objs: a Namespace is passed over by InjectOwner.)
Apply(r) ==
    /\ worker[r] = "apply"
    /\ objs' = [owner |-> obj[r].uid, gen |-> obj[r].gen]
    /\ worker' = [worker EXCEPT ![r] = "status"]
    /\ UNCHANGED <<mesh, created, electionVars, cache, queue, obj, done, budget>>

\* The reconcile is over; after an error its key goes back to the queue.
Finish(r, error) ==
    /\ worker' = [worker EXCEPT ![r] = "idle"] /\ obj' = [obj EXCEPT ![r] = NoMesh]
    /\ queue' = [queue EXCEPT ![r] = @ \/ error]
    /\ done' = [done EXCEPT ![r] = leader[r] /\ ~error /\ obj[r] = cache[r]]

\* A request of the installation fails.  The status is written all the same,
\* and the error returned.
ApplyFails(r) ==
    /\ worker[r] = "apply" /\ Spend("faults")
    /\ Finish(r, TRUE)
    /\ UNCHANGED <<clusterVars, electionVars, cache>>

\* The status is written, at a conflict to whichever EventMesh has the name by
\* now, or is the one that the copy had and is not written.
UpdateStatus(r) ==
    /\ worker[r] = "status"
    /\ Finish(r, FALSE)
    /\ UNCHANGED <<clusterVars, electionVars, cache, budget>>

\* It cannot be written: the request fails, or the EventMesh is gone.
StatusFails(r) ==
    /\ worker[r] = "status"
    /\ IF mesh.uid = 0 THEN UNCHANGED budget ELSE Spend("faults")
    /\ Finish(r, TRUE)
    /\ UNCHANGED <<clusterVars, electionVars, cache>>

-----------------------------------------------------------------------------
Users == Create \/ Update \/ DeleteMesh
Work(r) ==
    \/ Skip(r) \/ Gone(r) \/ Begin(r) \/ Apply(r) \/ ApplyFails(r)
    \/ UpdateStatus(r) \/ StatusFails(r)
Promote(r) == PromoteSet(r) \/ PromoteEnqueue(r)

Next ==
    \/ Users \/ CollectGarbage \/ Expire
    \/ \E r \in Replica :
        Deliver(r) \/ Resync(r) \/ Acquire(r) \/ Demote(r) \/ Promote(r) \/ Restart(r) \/ Work(r)

Spec == Init /\ [][Next]_vars

\* Caches catch up and resync, workers and electors go on, some replica takes
\* a free lease, and the garbage collector runs.
FairSpec ==
    /\ Spec
    /\ WF_vars(CollectGarbage) /\ WF_vars(\E r \in Replica : Acquire(r))
    /\ \A r \in Replica :
        WF_vars(Deliver(r)) /\ WF_vars(Resync(r)) /\ WF_vars(Demote(r))
        /\ WF_vars(Promote(r)) /\ WF_vars(Work(r))

-----------------------------------------------------------------------------
(* Properties.                                                             *)

\* A leader forgets nothing: the EventMesh in its cache was reconciled since
\* it was promoted, is being reconciled, or is in its queue, although keys
\* that came before the promotion were skipped.
NoLostKey ==
    \A r \in Replica :
        leader[r] /\ promotion[r] = "none" /\ cache[r].uid # 0 =>
            \/ queue[r]
            \/ worker[r] # "idle" /\ obj[r] = cache[r]
            \/ done[r]

\* What makes it inductive: a reconcile that runs although its EventMesh was
\* reconciled before has the copy that is in the cache.
BusyCurrent ==
    \A r \in Replica : done[r] /\ worker[r] # "idle" => obj[r] = cache[r]

IInv == TypeOK /\ NoLostKey /\ BusyCurrent

\* An EventMesh that stays has its objects in the end, of its last generation
\* and with its own UID as their owner: through changes of the leader, late
\* writes of one that leads no more, and deletion and creation under the old
\* name.
Takeover ==
    <>[](mesh.uid # 0) =>
        <>[](objs.owner = mesh.uid /\ objs.gen = mesh.gen)

\* An EventMesh that is deleted for good leaves none of its objects behind but
\* the namespaces, which have no owner, even if a reconcile that had its copy
\* installs once more.
CleanedUp == <>[](mesh.uid = 0) => <>[](objs.owner = 0)

=============================================================================
