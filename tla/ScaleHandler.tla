----------------------------- MODULE ScaleHandler -----------------------------
(***************************************************************************)
(* From the objects of one kind (InMemoryChannels, or Brokers) to the      *)
(* scale of the deployments that serve them: the informer's store and its  *)
(* notifications, handleOnlyOnScaleToZeroOrOneItemsHandler, the work       *)
(* queue, and the reconcile that reads the scale target and applies it.    *)
(*                                                                         *)
(* The informer updates its store first and notifies the handler through a *)
(* queue served by a goroutine of its own, so the handler that asks "is    *)
(* this the first?" or "was this the last?" looks at a store that may be   *)
(* ahead of the notification at hand.                                      *)
(*                                                                         *)
(* Setup and the lister pointer are those of module DynamicInformer, here  *)
(* seen as three phases: "down" (the pointer is nil), "setup" (di.mu is    *)
(* held, a reconcile blocks in Lister()), "up" (the pointer is set).  The  *)
(* removal of a CRD is seen here from the moment an informer is up; what   *)
(* it does to a Setup under way is the subject of that module.             *)
(***************************************************************************)
EXTENDS Integers, Sequences, FiniteSets

CONSTANTS
    Names,          \* names of objects
    Classes,        \* broker classes; one class for a kind without classes
    Target,         \* the class whose deployments are scaled
    Filtered,       \* TRUE: brokerClassFilter (Broker), FALSE: nil (InMemoryChannel)
    Gaps,           \* TRUE: the watch may break
    MaxPerClass,    \* bound: objects of one class at a time
    MaxListed,      \* bound: objects that exist while no informer has listed them
    MaxChanges,     \* bound: creations and deletions of objects, and removals of the CRD
    MaxCrashes      \* bound: restarts of the operator that no panic caused

None == "none"

ASSUME ClassAssumption == Target \in Classes /\ None \notin Classes
ASSUME FilteredAssumption == Filtered \in BOOLEAN /\ (~Filtered => Classes = {Target})
ASSUME BoundAssumption == {MaxPerClass, MaxListed, MaxChanges, MaxCrashes} \subseteq Nat

VARIABLES
    api,        \* api[n]: the class of the object named n, or None
    crd,        \* the CRD of the kind is installed
    removed,    \* its removal is not yet handled
    store,      \* the informer's store, likewise
    listed,     \* the initial list was received
    initial,    \* what of it is not yet in the store
    phase,      \* of the dynamic informer
    notes,      \* notifications not yet handled
    queued,     \* the EventMesh is in the work queue
    rpc,        \* where the reconcile is
    target,     \* the scale target it read
    applied,    \* the replicas the deployments were last given
    swapped,    \* history: an update changed a class since the last read
    crowded,    \* history: several objects came together since the last read
    dropped,    \* history: Stop dropped a deletion since the last read
    changes, crashes

apiVars == <<api, crd, changes>>
informerVars == <<store, listed, initial, phase, removed>>
workerVars == <<rpc, target, applied>>
historyVars == <<swapped, crowded, dropped>>
vars == <<apiVars, informerVars, notes, queued, workerVars, historyVars, crashes>>

Objects == [Names -> Classes \cup {None}]
Note == [type : {"add", "delete", "tombstone"}, class : Classes]
Empty == [n \in Names |-> None]
Present(objs) == {n \in Names : objs[n] # None}

TypeOK ==
    /\ api \in Objects /\ store \in Objects /\ initial \in Objects
    /\ listed \in BOOLEAN /\ phase \in {"down", "setup", "up"}
    /\ notes \in Seq(Note)
    /\ crd \in BOOLEAN /\ removed \in BOOLEAN /\ queued \in BOOLEAN
    /\ swapped \in BOOLEAN /\ crowded \in BOOLEAN /\ dropped \in BOOLEAN
    /\ rpc \in {"idle", "read", "apply"}
    /\ target \in {0, 1} /\ applied \in {0, 1}
    /\ changes \in Nat /\ crashes \in Nat

\* The operator has just started; the deployments are as some earlier run of
\* it left them, and the EventMesh is queued by its informer's first list.
Init ==
    /\ api \in Objects /\ store = Empty /\ initial = Empty
    /\ \A c \in Classes : Cardinality({n \in Names : api[n] = c}) <= MaxPerClass
    /\ Cardinality(Present(api)) <= MaxListed
    /\ crd \in BOOLEAN /\ (~crd => api = Empty) /\ removed = FALSE
    /\ listed = FALSE /\ phase = "down" /\ notes = <<>>
    /\ queued = TRUE /\ rpc = "idle" /\ target = 0
    /\ applied \in {0, 1}
    /\ swapped = FALSE /\ crowded = FALSE /\ dropped = FALSE
    /\ changes = 0 /\ crashes = 0

-----------------------------------------------------------------------------
(* The informer.                                                           *)

HasSynced == listed /\ initial = Empty
Notify(t, c) == notes' = Append(notes, [type |-> t, class |-> c])

\* More than one object (of the scaled class) is among objs.
Several(objs) == \E m, n \in Present(objs) : m # n
SeveralTargets(objs) == \E m, n \in Names : m # n /\ objs[m] = Target /\ objs[n] = Target

\* An object of the scaled class is among objs; the deletion of one waits.
HasTarget(objs) == \E n \in Names : objs[n] = Target
RemovalWaits ==
    \E i \in 1..Len(notes) : notes[i].type \in {"delete", "tombstone"} /\ notes[i].class = Target

\* An object is created or deleted.  A working watch brings the change into
\* the store and notifies it; a change during the initial list follows it.
Change(n, c) ==
    /\ changes < MaxChanges /\ changes' = changes + 1
    /\ api' = [api EXCEPT ![n] = c]
    /\ \/ /\ HasSynced /\ store = api
          /\ store' = api'
          /\ IF c # None THEN Notify("add", c) ELSE Notify("delete", api[n])
       \/ /\ ~listed \/ (Gaps /\ HasSynced)
          /\ UNCHANGED <<store, notes>>
    /\ crowded' = (crowded \/ SeveralTargets(store'))
    /\ UNCHANGED <<crd, removed, listed, initial, phase, queued, workerVars, swapped, dropped, crashes>>

Create(n, c) ==
    /\ crd /\ api[n] = None
    /\ Cardinality({m \in Names : api[m] = c}) < MaxPerClass
    /\ ~listed => Cardinality(Present(api)) < MaxListed
    /\ Change(n, c)

Delete(n) == api[n] # None /\ Change(n, None)

\* The reflector lists again after its watch broke: what appeared is added,
\* what disappeared leaves a tombstone, and an object that was replaced by
\* one of another class under the same name is an update, which is ignored.
\* There is nothing to list without the CRD.
Relist(n) ==
    /\ crd /\ HasSynced /\ store[n] # api[n]
    /\ store' = [store EXCEPT ![n] = api[n]]
    /\ CASE store[n] = None -> Notify("add", api[n]) /\ swapped' = swapped
         [] api[n] = None   -> Notify("tombstone", store[n]) /\ swapped' = swapped
         [] OTHER           -> notes' = notes /\ swapped' = TRUE
    /\ crowded' = (crowded \/ SeveralTargets(store'))
    /\ UNCHANGED <<apiVars, removed, listed, initial, phase, queued, workerVars, dropped, crashes>>

\* The CRD goes, after the objects of its kind, and may come back: at the next
\* reconcile, which applies it, or by a user.
RemoveCRD ==
    /\ phase = "up" /\ ~removed /\ crd /\ api = Empty
    /\ changes < MaxChanges /\ changes' = changes + 1
    /\ crd' = FALSE /\ removed' = TRUE
    /\ UNCHANGED <<api, store, listed, initial, phase, notes, queued, workerVars, historyVars, crashes>>

InstallCRD ==
    /\ ~crd /\ crd' = TRUE
    /\ UNCHANGED <<api, changes, informerVars, notes, queued, workerVars, historyVars, crashes>>

\* DeleteFunc of the CRD: Stop ends the informer, whose store and waiting
\* notifications go with it, and nobody is told.  (Those that the handler still
\* gets to are steps before this one, or, after a reconcile in between, an
\* Enqueue.)
Stop ==
    /\ removed /\ phase = "up"
    /\ removed' = FALSE
    /\ store' = Empty /\ listed' = FALSE /\ initial' = Empty /\ phase' = "down" /\ notes' = <<>>
    /\ dropped' = (dropped \/ HasTarget(store) \/ RemovalWaits)
    /\ UNCHANGED <<apiVars, queued, workerVars, swapped, crowded, crashes>>

\* AddFunc of the CRD: the informer is started, lists, and fills its store one
\* by one.
SetupBegin ==
    /\ phase = "down" /\ crd
    /\ phase' = "setup"
    /\ UNCHANGED <<apiVars, removed, store, listed, initial, notes, queued, workerVars, historyVars, crashes>>

InitialList ==
    /\ phase = "setup" /\ ~listed
    /\ listed' = TRUE /\ initial' = api
    /\ crowded' = (crowded \/ Several(api))
    /\ UNCHANGED <<apiVars, removed, store, phase, notes, queued, workerVars, swapped, dropped, crashes>>

PopInitial(n) ==
    /\ initial[n] # None
    /\ store' = [store EXCEPT ![n] = initial[n]]
    /\ initial' = [initial EXCEPT ![n] = None]
    /\ Notify("add", initial[n])
    /\ UNCHANGED <<apiVars, removed, listed, phase, queued, workerVars, historyVars, crashes>>

\* WaitForCacheSync returns, and the lister is stored.
SetupEnd ==
    /\ phase = "setup" /\ HasSynced
    /\ phase' = "up"
    /\ UNCHANGED <<apiVars, removed, store, listed, initial, notes, queued, workerVars, historyVars, crashes>>

\* The process ends and starts again; only the cluster's state survives.
Restart ==
    /\ store' = Empty /\ listed' = FALSE /\ initial' = Empty /\ phase' = "down"
    /\ removed' = FALSE /\ notes' = <<>> /\ queued' = TRUE /\ rpc' = "idle"
    /\ UNCHANGED <<apiVars, target, applied, historyVars>>

Crash ==
    /\ crashes < MaxCrashes /\ crashes' = crashes + 1
    /\ Cardinality(Present(api)) <= MaxListed
    /\ Restart

-----------------------------------------------------------------------------
(* handleOnlyOnScaleToZeroOrOneItemsHandler.                               *)

MutMatchingNoFilter(c) == Present(store)

\* The objects of the store that count with an object of class c.
Matching(c) == {n \in Present(store) : Filtered => store[n] = c}

resync == queued' = TRUE
skip == queued' = queued

MutOnAddSecond ==
    /\ notes # <<>> /\ Head(notes).type = "add"
    /\ notes' = Tail(notes)
    /\ IF HasSynced /\ Cardinality(Matching(Head(notes).class)) = 2 THEN resync ELSE skip
    /\ UNCHANGED <<apiVars, informerVars, workerVars, historyVars, crashes>>

\* AddFunc: resync if the object is the only one of its class.
OnAdd ==
    /\ notes # <<>> /\ Head(notes).type = "add"
    /\ notes' = Tail(notes)
    /\ IF HasSynced /\ Cardinality(Matching(Head(notes).class)) = 1 THEN resync ELSE skip
    /\ UNCHANGED <<apiVars, informerVars, workerVars, historyVars, crashes>>

MutOnDeleteOne ==
    /\ notes # <<>> /\ Head(notes).type = "delete"
    /\ notes' = Tail(notes)
    /\ IF Cardinality(Matching(Head(notes).class)) = 1 THEN resync ELSE skip
    /\ UNCHANGED <<apiVars, informerVars, workerVars, historyVars, crashes>>

\* DeleteFunc: resync if no object of the class is left.
OnDelete ==
    /\ notes # <<>> /\ Head(notes).type = "delete"
    /\ notes' = Tail(notes)
    /\ IF Matching(Head(notes).class) = {} THEN resync ELSE skip
    /\ UNCHANGED <<apiVars, informerVars, workerVars, historyVars, crashes>>

\* DeleteFunc of a tombstone.  deletedObj.(*T) panics, but it is evaluated
\* only by a filter that has objects to look at.
OnTombstone ==
    /\ notes # <<>> /\ Head(notes).type = "tombstone"
    /\ ~(Filtered /\ Present(store) # {})
    /\ notes' = Tail(notes)
    /\ IF Present(store) = {} THEN resync ELSE skip
    /\ UNCHANGED <<apiVars, informerVars, workerVars, historyVars, crashes>>

OnTombstonePanic ==
    /\ notes # <<>> /\ Head(notes).type = "tombstone"
    /\ Filtered /\ Present(store) # {}
    /\ Restart /\ UNCHANGED crashes

-----------------------------------------------------------------------------
(* The work queue and the reconcile.                                       *)

\* The EventMesh is queued for another reason: it was edited, or resynced.
Enqueue ==
    /\ ~queued /\ queued' = TRUE
    /\ UNCHANGED <<apiVars, informerVars, notes, workerVars, historyVars, crashes>>

Dequeue ==
    /\ queued /\ rpc = "idle"
    /\ queued' = FALSE /\ rpc' = "read"
    /\ UNCHANGED <<apiVars, informerVars, notes, target, applied, historyVars, crashes>>

MutScaleTargetCount ==
    IF phase = "up" THEN Cardinality({n \in Names : store[n] = Target}) ELSE 0

\* IMCScaleTarget, MTBrokerScaleTarget.
ScaleTarget ==
    IF phase = "up" /\ \E n \in Names : store[n] = Target THEN 1 ELSE 0

\* applyScaling; Lister() returns only when no Setup is under way.
ReadTarget ==
    /\ rpc = "read" /\ phase # "setup"
    /\ target' = ScaleTarget /\ rpc' = "apply"
    /\ swapped' = FALSE /\ crowded' = FALSE /\ dropped' = FALSE
    /\ UNCHANGED <<apiVars, informerVars, notes, queued, applied, crashes>>

Apply ==
    /\ rpc = "apply"
    /\ applied' = target /\ rpc' = "idle"
    /\ UNCHANGED <<apiVars, informerVars, notes, queued, target, historyVars, crashes>>

MutApplyFailedForgets ==
    /\ rpc = "apply"
    /\ applied' \in {applied, target} /\ rpc' = "idle"
    /\ UNCHANGED <<apiVars, informerVars, notes, queued, target, historyVars, crashes>>

\* Some stage fails, before or after the deployments are scaled: retried.
ApplyFailed ==
    /\ rpc = "apply"
    /\ applied' \in {applied, target} /\ rpc' = "idle"
    /\ queued' = TRUE
    /\ UNCHANGED <<apiVars, informerVars, notes, target, historyVars, crashes>>

-----------------------------------------------------------------------------
Users == RemoveCRD \/ InstallCRD \/ \E n \in Names : Delete(n) \/ \E c \in Classes : Create(n, c)
Informer == Stop \/ SetupBegin \/ InitialList \/ SetupEnd \/ \E n \in Names : PopInitial(n) \/ Relist(n)
EventHandler == OnAdd \/ OnDelete \/ OnTombstone \/ OnTombstonePanic
Reconcile == Dequeue \/ ReadTarget \/ Apply \/ ApplyFailed

Next == Users \/ Informer \/ EventHandler \/ Enqueue \/ Reconcile \/ Crash

Spec == Init /\ [][Next]_vars

\* The goroutines are scheduled; a reconcile that is retried again and again
\* succeeds in the end.  Nothing is assumed of Enqueue: the periodic resync of
\* the EventMesh informer comes once in ten hours.
Fairness ==
    /\ WF_vars(Informer) /\ WF_vars(EventHandler)
    /\ WF_vars(Reconcile) /\ SF_vars(Apply)
FairSpec == Spec /\ Fairness

-----------------------------------------------------------------------------
(* Properties.                                                             *)

\* A reconcile that has not read the scale target yet is bound to happen.
ReconcileAhead == queued \/ rpc = "read"

\* The deployments have, and stay at, the scale v.
SettledAt(v) == applied = v /\ (rpc = "apply" => target = v)

\* No scale-down is lost: when the store holds no object of the class, the
\* deployments are scaled to 0, or a reconcile that will do so is under way or
\* queued, or the notification that will queue it is still to be handled.
\* Two cases the code does not notice, and this leaves out until the next
\* reconcile: an update that changed the class of an object (swapped), and a
\* CRD that went before the deletions of its objects were handled, which Stop
\* then drops (dropped).
ScaleDownPending ==
    ~HasTarget(store) /\ ~swapped /\ ~dropped =>
        SettledAt(0) \/ ReconcileAhead \/ (rpc = "apply" /\ target = 0) \/ RemovalWaits

\* No scale-up is lost, likewise, as long as objects come one by one: the
\* handler asks whether the store holds exactly one, so that of several which
\* come together, or are listed together at a start, none is the first.
ScaleUpPending ==
    HasTarget(store) /\ HasSynced /\ ~swapped /\ ~crowded =>
        \/ SettledAt(1) \/ ReconcileAhead \/ (rpc = "apply" /\ target = 1)
        \/ \E i \in 1..Len(notes) : notes[i].type = "add" /\ notes[i].class = Target

\* What the comments of eventingIMCManifests and eventingMTBrokerManifests say
\* ("scale the deployments down when no IMC exists"): when everything is at
\* rest and objects exist, the deployments that serve them are not at 0.
IdleOnlyIfUnused ==
    phase = "up" /\ store = api /\ notes = <<>> /\ ~queued /\ rpc = "idle" /\ HasTarget(api)
        => applied = 1

\* When the last object of the class is gone for good, the deployments end up
\* at 0, through restarts, failed reconciles, broken watches and a CRD that
\* comes and goes, if no Stop dropped the deletion since the last reconcile.
ScaledDown ==
    <>[](~HasTarget(api) /\ ~swapped /\ ~dropped) => <>[](applied = 0)

\* When an object of the class stays, and did not come together with others,
\* the deployments end up at 1.
ScaledUp ==
    <>[](HasTarget(api) /\ ~swapped /\ ~crowded) => <>[](applied = 1)

=============================================================================
