--------------------------- MODULE DynamicInformer ---------------------------
(***************************************************************************)
(* The dynamic informers of pkg/dynamicinformer and the handler that       *)
(* starts and stops them, Scaler.CRDEventHandler of pkg/scaler.            *)
(*                                                                         *)
(* There is one DynamicInformer per kind of resource the operator scales   *)
(* on (InMemoryChannel, Broker).  Three sorts of actors meet here:         *)
(*                                                                         *)
(*  - the goroutine that delivers CRD notifications.  It is ONE goroutine  *)
(*    for all kinds, so an AddFunc that does not return also holds back    *)
(*    every later notification, of every kind;                             *)
(*  - the reconcile workers, which call Lister() of each informer before   *)
(*    they apply the manifests the CRDs are part of;                       *)
(*  - whoever adds and removes CRDs, and the watch of the CRD informer,    *)
(*    which may break and be replaced by a relist.                         *)
(*                                                                         *)
(* Informer instances are numbered per kind in the order of their          *)
(* creation; the number stands for the lister pointer and for the cancel   *)
(* function of that instance, and Nil for the nil pointer.                 *)
(***************************************************************************)
EXTENDS Integers, Sequences

CONSTANTS
    Kinds,          \* the resources with a dynamic informer
    Order,          \* the order in which a reconcile asks for their listers
    Reconcilers,    \* the workers of the controller
    MaxDeletes      \* bound: how often a CRD is removed

Nil == 0
Free == "free"
Handler == "handler"

ASSUME OrderAssumption == Order \in Seq(Kinds) /\ Len(Order) > 0
ASSUME ReconcilersAssumption == Free \notin Reconcilers /\ Handler \notin Reconcilers
ASSUME MaxDeletesAssumption == MaxDeletes \in Nat

VARIABLES
    crd,        \* crd[k]: the CRD of k exists in the API server
    seen,       \* seen[k]: the CRD of k is in the cache of the CRD informer
    events,     \* CRD notifications not yet handled, in order
    deletes,    \* removals so far
    tombstoned, \* history: kinds whose last removal was notified by a tombstone
    mu,         \* di.mu: who holds it
    cancel,     \* di.cancel
    lister,     \* di.lister
    created,    \* instances created by factoryFunc so far
    running,    \* instances started whose context is not cancelled
    synced,     \* instances whose initial list completed (HasSynced)
    cpc, cur,   \* the CRD handler: where it is, and for which kind
    rpc, rk,    \* a worker: where it is, and at which position of Order
    used,       \* the lister pointer the worker loaded last
    stopped     \* the operator's context is done

apiVars == <<crd, seen, events, deletes, tombstoned>>
diVars == <<mu, cancel, lister, created, running, synced>>
handlerVars == <<cpc, cur>>
workerVars == <<rpc, rk, used>>
vars == <<apiVars, diVars, handlerVars, workerVars, stopped>>

EventTypes == {"add", "delete", "tombstone"}
Event == [type : EventTypes, kind : Kinds]
SetupPCs == {"guard", "poll", "sync", "storeLister", "storeCancel", "unlock"}
HandlerPCs == {"idle", "lock", "stop", "stopLister", "stopCancel"} \cup SetupPCs
WorkerPCs == {"idle", "lock", "locked", "load", "apply"}

TypeOK ==
    /\ crd \in [Kinds -> BOOLEAN] /\ seen \in [Kinds -> BOOLEAN]
    /\ events \in Seq(Event)
    /\ deletes \in Nat
    /\ tombstoned \subseteq Kinds
    /\ mu \in [Kinds -> {Free, Handler} \cup Reconcilers]
    /\ cancel \in [Kinds -> Nat] /\ lister \in [Kinds -> Nat]
    /\ created \in [Kinds -> Nat]
    /\ running \in [Kinds -> SUBSET Nat] /\ synced \in [Kinds -> SUBSET Nat]
    /\ cpc \in HandlerPCs /\ cur \in Kinds
    /\ rpc \in [Reconcilers -> WorkerPCs]
    /\ rk \in [Reconcilers -> 1..Len(Order)]
    /\ used \in [Reconcilers -> Nat]
    /\ stopped \in BOOLEAN

Init ==
    /\ crd \in [Kinds -> BOOLEAN] /\ seen = [k \in Kinds |-> FALSE]
    /\ events = <<>> /\ deletes = 0 /\ tombstoned = {}
    /\ mu = [k \in Kinds |-> Free]
    /\ cancel = [k \in Kinds |-> Nil] /\ lister = [k \in Kinds |-> Nil]
    /\ created = [k \in Kinds |-> 0]
    /\ running = [k \in Kinds |-> {}] /\ synced = [k \in Kinds |-> {}]
    /\ cpc = "idle" /\ cur = Order[1]
    /\ rpc = [r \in Reconcilers |-> "idle"] /\ rk = [r \in Reconcilers |-> 1]
    /\ used = [r \in Reconcilers |-> Nil]
    /\ stopped = FALSE

-----------------------------------------------------------------------------
(* The API server, and the watch of the CRD informer.                      *)

Notify(t, k) == events' = Append(events, [type |-> t, kind |-> k])

\* The CRD of k appears or disappears.  A working watch turns the change into
\* a notification; while it is broken the change goes unnoticed.
SetCRD(k, present) ==
    /\ crd' = [crd EXCEPT ![k] = present]
    /\ \/ /\ seen = crd
          /\ seen' = crd'
          /\ Notify(IF present THEN "add" ELSE "delete", k)
          /\ tombstoned' = IF present THEN tombstoned ELSE tombstoned \ {k}
       \/ UNCHANGED <<seen, events, tombstoned>>

\* Somebody installs the CRD of k (a user, another installation).
CreateCRD(k) ==
    /\ ~crd[k]
    /\ SetCRD(k, TRUE)
    /\ UNCHANGED <<deletes, diVars, handlerVars, workerVars, stopped>>

\* Somebody removes the CRD of k.
DeleteCRD(k) ==
    /\ crd[k] /\ deletes < MaxDeletes
    /\ SetCRD(k, FALSE)
    /\ deletes' = deletes + 1
    /\ UNCHANGED <<diVars, handlerVars, workerVars, stopped>>

\* The informer lists again (at start, or after its watch broke).  A CRD that
\* disappeared meanwhile is notified as a DeletedFinalStateUnknown; one that
\* was replaced is an update, which UpdateFunc ignores.
Relist(k) ==
    /\ seen[k] # crd[k] /\ ~stopped
    /\ seen' = [seen EXCEPT ![k] = crd[k]]
    /\ Notify(IF crd[k] THEN "add" ELSE "tombstone", k)
    /\ tombstoned' = IF crd[k] THEN tombstoned ELSE tombstoned \cup {k}
    /\ UNCHANGED <<crd, deletes, diVars, handlerVars, workerVars, stopped>>

-----------------------------------------------------------------------------
(* CRDEventHandler: one notification at a time.                            *)

\* AddFunc: SetupInformerAndRegisterEventHandler of the informer of the kind.
AddFunc ==
    /\ cpc = "idle" /\ events # <<>> /\ Head(events).type = "add"
    /\ cur' = Head(events).kind /\ cpc' = "lock"
    /\ events' = Tail(events)
    /\ UNCHANGED <<crd, seen, deletes, tombstoned, diVars, workerVars, stopped>>

\* DeleteFunc: Stop of the informer of the kind.
DeleteFunc ==
    /\ cpc = "idle" /\ events # <<>> /\ Head(events).type = "delete"
    /\ cur' = Head(events).kind /\ cpc' = "stop"
    /\ events' = Tail(events)
    /\ UNCHANGED <<crd, seen, deletes, tombstoned, diVars, workerVars, stopped>>

\* DeleteFunc of a tombstone: not a *CustomResourceDefinition, ignored.
DeleteFuncUnexpected ==
    /\ cpc = "idle" /\ events # <<>> /\ Head(events).type = "tombstone"
    /\ events' = Tail(events)
    /\ UNCHANGED <<crd, seen, deletes, tombstoned, diVars, handlerVars, workerVars, stopped>>

-----------------------------------------------------------------------------
(* SetupInformerAndRegisterEventHandler, under di.mu.                      *)

goto(l) == cpc' = l /\ cur' = cur

SetupLock ==
    /\ cpc = "lock" /\ mu[cur] = Free
    /\ mu' = [mu EXCEPT ![cur] = Handler]
    /\ goto("guard")
    /\ UNCHANGED <<apiVars, cancel, lister, created, running, synced, workerVars, stopped>>

MutSetupSkipKeepsLock ==
    /\ cpc = "guard" /\ cancel[cur] # Nil
    /\ goto("idle")
    /\ UNCHANGED <<apiVars, diVars, workerVars, stopped>>

\* An informer runs already: nothing to set up.
SetupSkip ==
    /\ cpc = "guard" /\ cancel[cur] # Nil
    /\ goto("unlock")
    /\ UNCHANGED <<apiVars, diVars, workerVars, stopped>>

MutSetupCreateUnguarded ==
    /\ cpc = "guard"
    /\ created' = [created EXCEPT ![cur] = @ + 1]
    /\ goto("poll")
    /\ UNCHANGED <<apiVars, mu, cancel, lister, running, synced, workerVars, stopped>>

\* A context, a factory and an informer with its event handler.
SetupCreate ==
    /\ cpc = "guard" /\ cancel[cur] = Nil
    /\ created' = [created EXCEPT ![cur] = @ + 1]
    /\ goto("poll")
    /\ UNCHANGED <<apiVars, mu, cancel, lister, running, synced, workerVars, stopped>>

isCRDInstalled(k) == crd[k]

\* PollUntilContextCancel: isCRDInstalled finds the CRD, and the factory is
\* started.  A failing Get, or a missing CRD, only means another round.
SetupStart ==
    /\ cpc = "poll" /\ isCRDInstalled(cur) /\ ~stopped
    /\ running' = [running EXCEPT ![cur] = @ \cup {created[cur]}]
    /\ goto("sync")
    /\ UNCHANGED <<apiVars, mu, cancel, lister, created, synced, workerVars, stopped>>

\* PollUntilContextCancel returns the context's error.
SetupPollCancelled ==
    /\ cpc = "poll" /\ stopped
    /\ goto("unlock")
    /\ UNCHANGED <<apiVars, diVars, workerVars, stopped>>

\* WaitForCacheSync returns true.
SetupSynced ==
    /\ cpc = "sync" /\ created[cur] \in synced[cur]
    /\ goto("storeLister")
    /\ UNCHANGED <<apiVars, diVars, workerVars, stopped>>

\* WaitForCacheSync returns false: the context is done.
SetupSyncFailed ==
    /\ cpc = "sync" /\ stopped
    /\ running' = [running EXCEPT ![cur] = @ \ {created[cur]}]
    /\ goto("unlock")
    /\ UNCHANGED <<apiVars, mu, cancel, lister, created, synced, workerVars, stopped>>

SetupStoreLister ==
    /\ cpc = "storeLister"
    /\ lister' = [lister EXCEPT ![cur] = created[cur]]
    /\ goto("storeCancel")
    /\ UNCHANGED <<apiVars, mu, cancel, created, running, synced, workerVars, stopped>>

SetupStoreCancel ==
    /\ cpc = "storeCancel"
    /\ cancel' = [cancel EXCEPT ![cur] = created[cur]]
    /\ goto("unlock")
    /\ UNCHANGED <<apiVars, mu, lister, created, running, synced, workerVars, stopped>>

SetupUnlock ==
    /\ cpc = "unlock"
    /\ mu' = [mu EXCEPT ![cur] = Free]
    /\ goto("idle")
    /\ UNCHANGED <<apiVars, cancel, lister, created, running, synced, workerVars, stopped>>

-----------------------------------------------------------------------------
(* Stop, which does not take di.mu.                                        *)

StopNothing ==
    /\ cpc = "stop" /\ cancel[cur] = Nil
    /\ goto("idle")
    /\ UNCHANGED <<apiVars, diVars, workerVars, stopped>>

MutStopClearListerEarly ==
    /\ cpc = "stop" /\ cancel[cur] # Nil
    /\ lister' = [lister EXCEPT ![cur] = Nil]
    /\ goto("stopLister")
    /\ UNCHANGED <<apiVars, mu, cancel, created, running, synced, workerVars, stopped>>

StopCancelContext ==
    /\ cpc = "stop" /\ cancel[cur] # Nil
    /\ running' = [running EXCEPT ![cur] = @ \ {cancel[cur]}]
    /\ goto("stopLister")
    /\ UNCHANGED <<apiVars, mu, cancel, lister, created, synced, workerVars, stopped>>

StopClearLister ==
    /\ cpc = "stopLister"
    /\ lister' = [lister EXCEPT ![cur] = Nil]
    /\ goto("stopCancel")
    /\ UNCHANGED <<apiVars, mu, cancel, created, running, synced, workerVars, stopped>>

MutStopKeepsCancel ==
    /\ cpc = "stopCancel"
    /\ goto("idle")
    /\ UNCHANGED <<apiVars, diVars, workerVars, stopped>>

StopClearCancel ==
    /\ cpc = "stopCancel"
    /\ cancel' = [cancel EXCEPT ![cur] = Nil]
    /\ goto("idle")
    /\ UNCHANGED <<apiVars, mu, lister, created, running, synced, workerVars, stopped>>

-----------------------------------------------------------------------------
(* A started informer: its initial list succeeds once the CRD is there.    *)

InitialList(k) ==
    /\ crd[k]
    /\ \E i \in running[k] \ synced[k] : synced' = [synced EXCEPT ![k] = @ \cup {i}]
    /\ UNCHANGED <<apiVars, mu, cancel, lister, created, running, handlerVars, workerVars, stopped>>

-----------------------------------------------------------------------------
(* A reconcile, as far as it meets the dynamic informers: the scale        *)
(* targets are computed first, the manifests (with the CRDs) applied last. *)

Kind(r) == Order[rk[r]]
step(r, l) == rpc' = [rpc EXCEPT ![r] = l]

ReconcileStart(r) ==
    /\ rpc[r] = "idle"
    /\ step(r, "lock") /\ rk' = [rk EXCEPT ![r] = 1]
    /\ UNCHANGED <<apiVars, diVars, handlerVars, used, stopped>>

\* Lister() takes the lock ...
ListerLock(r) ==
    /\ rpc[r] = "lock" /\ mu[Kind(r)] = Free
    /\ mu' = [mu EXCEPT ![Kind(r)] = r]
    /\ step(r, "locked")
    /\ UNCHANGED <<apiVars, cancel, lister, created, running, synced, handlerVars, rk, used, stopped>>

\* ... and returns the address of the pointer, releasing the lock.
ListerUnlock(r) ==
    /\ rpc[r] = "locked"
    /\ mu' = [mu EXCEPT ![Kind(r)] = Free]
    /\ step(r, "load")
    /\ UNCHANGED <<apiVars, cancel, lister, created, running, synced, handlerVars, rk, used, stopped>>

MutListerLoadOffByOne(r) ==
    /\ rpc[r] = "load"
    /\ used' = [used EXCEPT ![r] = lister[Kind(r)]]
    /\ IF rk[r] <= Len(Order)
       THEN step(r, "lock") /\ rk' = [rk EXCEPT ![r] = @ + 1]
       ELSE step(r, "apply") /\ rk' = rk
    /\ UNCHANGED <<apiVars, diVars, handlerVars, stopped>>

\* The scale target is computed with the pointer loaded from there.
ListerLoad(r) ==
    /\ rpc[r] = "load"
    /\ used' = [used EXCEPT ![r] = lister[Kind(r)]]
    /\ IF rk[r] < Len(Order)
       THEN step(r, "lock") /\ rk' = [rk EXCEPT ![r] = @ + 1]
       ELSE step(r, "apply") /\ rk' = rk
    /\ UNCHANGED <<apiVars, diVars, handlerVars, stopped>>

\* Apply creates a CRD that is missing.
ApplyCRD(r, k) ==
    /\ rpc[r] = "apply" /\ ~crd[k]
    /\ SetCRD(k, TRUE)
    /\ UNCHANGED <<deletes, diVars, handlerVars, workerVars, stopped>>

\* The reconcile ends: everything is applied, or a request failed.
ReconcileEnd(r) ==
    /\ rpc[r] = "apply"
    /\ step(r, "idle")
    /\ UNCHANGED <<apiVars, diVars, handlerVars, rk, used, stopped>>

\* The operator is told to stop: its context is done, and with it the
\* contexts derived for the informers.
Shutdown ==
    /\ ~stopped
    /\ stopped' = TRUE
    /\ running' = [k \in Kinds |-> {}]
    /\ UNCHANGED <<apiVars, mu, cancel, lister, created, synced, handlerVars, workerVars>>

-----------------------------------------------------------------------------
CRDHandler ==
    \/ AddFunc \/ DeleteFunc \/ DeleteFuncUnexpected
    \/ SetupLock \/ SetupSkip \/ SetupCreate \/ SetupStart \/ SetupPollCancelled
    \/ SetupSynced \/ SetupSyncFailed \/ SetupStoreLister \/ SetupStoreCancel \/ SetupUnlock
    \/ StopNothing \/ StopCancelContext \/ StopClearLister \/ StopClearCancel

Reconcile(r) ==
    \/ ReconcileStart(r) \/ ListerLock(r) \/ ListerUnlock(r) \/ ListerLoad(r)
    \/ (\E k \in Kinds : ApplyCRD(r, k)) \/ ReconcileEnd(r)

Environment ==
    \/ \E k \in Kinds : CreateCRD(k) \/ DeleteCRD(k)
    \/ Shutdown

Next ==
    \/ Environment
    \/ \E k \in Kinds : Relist(k) \/ InitialList(k)
    \/ CRDHandler
    \/ \E r \in Reconcilers : Reconcile(r)

Spec == Init /\ [][Next]_vars

\* The operator's goroutines are scheduled and its requests answered in the
\* end; a mutex handed around by two callers is not starved (Go's mutexes are
\* fair after 1ms of waiting), hence strong fairness for taking it.  Nothing
\* is assumed of the users who install and remove CRDs.
Fairness ==
    /\ \A k \in Kinds : WF_vars(Relist(k)) /\ WF_vars(InitialList(k))
    /\ WF_vars(CRDHandler) /\ SF_vars(SetupLock)
    /\ \A r \in Reconcilers :
          /\ WF_vars(ReconcileStart(r)) /\ SF_vars(ListerLock(r))
          /\ WF_vars(ListerUnlock(r)) /\ WF_vars(ListerLoad(r))
          /\ WF_vars(rpc[r] = "apply" /\ Reconcile(r))

FairSpec == Spec /\ Fairness

-----------------------------------------------------------------------------
(* Properties.                                                             *)

\* An informer is under construction by Setup and not yet guarded by cancel.
Building(k) ==
    cur = k /\ cpc \in {"poll", "sync", "storeLister", "storeCancel"}

\* No informer is leaked: whatever runs for a kind is the one instance that
\* di.cancel can stop, or the one Setup is still building (and then there is
\* no other).  An informer outside both would watch, and trigger resyncs,
\* until the operator ends.
NoLeakedInformer ==
    \A k \in Kinds :
        running[k] \subseteq IF Building(k) THEN {created[k]} ELSE {cancel[k]}

\* No notification about k is waiting or being handled.
Quiet(k) ==
    /\ ~stopped /\ seen[k] = crd[k]
    /\ \A i \in 1..Len(events) : events[i].kind # k
    /\ cpc = "idle" \/ cur # k

\* When all notifications are handled, the lister of a kind is available
\* exactly if its CRD is installed, and belongs to a running informer; the one
\* exception is a CRD whose removal was notified by a tombstone, which
\* DeleteFunc ignores.
ListerTracksCRD ==
    \A k \in Kinds : Quiet(k) =>
        /\ crd[k] => lister[k] # Nil /\ running[k] = {lister[k]}
        /\ ~crd[k] => lister[k] = Nil \/ k \in tombstoned

Waiting(r) == rpc[r] = "lock"
Returned(r) == rpc[r] # "lock"

\* Lister() returns, however often CRDs come and go, provided that they are
\* installed in the end or the operator is shut down.
ListerReturns ==
    <>[](\A k \in Kinds : crd[k]) \/ <>stopped
        => \A r \in Reconcilers : Waiting(r) ~> Returned(r)

\* If the CRDs are installed in the end, every kind gets its lister for good.
ListersAvailable ==
    <>[](\A k \in Kinds : crd[k]) /\ []~stopped
        => <>[](\A k \in Kinds : lister[k] # Nil)

\* What the comment of DynamicInformer promises: Lister() can be called, and
\* returns, whether or not the CRD exists.
ListerUsableBeforeCRD ==
    \A r \in Reconcilers : Waiting(r) ~> Returned(r)

\* The pointers, the mutex and the handler goroutine together implement the
\* life of an informer that module InformerLifecycle promises.
Lifecycle == INSTANCE InformerLifecycle
    WITH serial <- created, live <- running, filled <- synced, handle <- lister
ImplementsLifecycle == Lifecycle!Spec

=============================================================================
