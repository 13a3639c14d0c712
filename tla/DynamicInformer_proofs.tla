------------------------ MODULE DynamicInformer_proofs ------------------------
(***************************************************************************)
(* Proofs about DynamicInformer, for any set of kinds, any order in which  *)
(* a reconcile visits them and any set of workers.                         *)
(***************************************************************************)
EXTENDS DynamicInformer, TLAPS

-----------------------------------------------------------------------------
(* The inductive invariant.                                                *)

Stopping(k) == cur = k /\ cpc \in {"stopLister", "stopCancel"}
At(k, l) == cur = k /\ cpc = l

\* Instance numbers: every pointer and every running instance was created,
\* and the instance under construction has a number of its own.
Numbered ==
    \A k \in Kinds :
        /\ Nil \notin running[k]
        /\ Building(k) => cancel[k] = Nil /\ created[k] # Nil

\* What runs at each point of Setup and Stop.
RunningAt ==
    \A k \in Kinds :
        /\ At(k, "poll") \/ Stopping(k) => running[k] = {}
        /\ At(k, "sync") \/ At(k, "storeLister") \/ At(k, "storeCancel") =>
              running[k] \subseteq {created[k]} /\ (~stopped => running[k] = {created[k]})
        /\ ~Building(k) /\ ~Stopping(k) =>
              running[k] \subseteq {cancel[k]} /\ (~stopped /\ cancel[k] # Nil => running[k] = {cancel[k]})

\* The lister pointer against its guard, cancel.
ListerAt ==
    \A k \in Kinds :
        /\ At(k, "storeCancel") => lister[k] = created[k]
        /\ At(k, "stopCancel") => lister[k] = Nil
        /\ ~At(k, "storeCancel") /\ ~At(k, "stopCancel") => lister[k] = cancel[k]

\* Only instances that are synced get as far as being stored.
SyncedAt ==
    \A k \in Kinds :
        At(k, "storeLister") \/ At(k, "storeCancel") => created[k] \in synced[k]

\* The informer of k is, or is about to be, up (down) once the notification
\* at hand is dealt with.
Up(k) ==
    \/ cur = k /\ cpc \in {"lock", "guard", "poll", "sync", "storeLister", "storeCancel"}
    \/ cancel[k] # Nil /\ ~(cur = k /\ cpc \in {"stop", "stopLister", "stopCancel"})
Down(k) ==
    \/ cur = k /\ cpc \in {"stop", "stopLister", "stopCancel"}
    \/ cancel[k] = Nil /\ ~(cur = k /\ cpc \in {"lock", "guard", "poll", "sync", "storeLister", "storeCancel"})

\* events[i] is the last waiting notification about k.
LastOf(i, k) ==
    events[i].kind = k /\ \A j \in 1..Len(events) : j > i => events[j].kind # k
NoneOf(k) == \A i \in 1..Len(events) : events[i].kind # k

\* The last notification about k tells what the CRD informer has seen; if it
\* is handled already, the informer of k is where that notification put it.
EventsTellSeen ==
    \A k \in Kinds : \A i \in 1..Len(events) : LastOf(i, k) =>
        /\ events[i].type = "add" <=> seen[k]
        /\ events[i].type = "tombstone" => k \in tombstoned
HandledTellsSeen ==
    ~stopped => \A k \in Kinds : NoneOf(k) =>
        /\ seen[k] => Up(k)
        /\ ~seen[k] => Down(k) \/ k \in tombstoned

\* Whoever loads a lister gets one whose cache is filled: a reconcile never
\* computes a scale target of 0 from a store that was not listed yet.
ListerSynced ==
    /\ \A k \in Kinds : lister[k] # Nil => lister[k] \in synced[k]
    /\ \A r \in Reconcilers :
          rpc[r] = "apply" /\ used[r] # Nil => used[r] \in synced[Kind(r)]

SyncInv == SyncedAt /\ ListerSynced
PointerInv == Numbered /\ RunningAt /\ ListerAt
EventInv == EventsTellSeen /\ HandledTellsSeen
IInv == TypeOK /\ PointerInv /\ SyncInv /\ EventInv

-----------------------------------------------------------------------------
(* Types.                                                                  *)

LEMMA OrderFacts ==
  /\ Len(Order) \in Nat /\ 1 \in 1..Len(Order)
  /\ \A i \in 1..Len(Order) : Order[i] \in Kinds
BY OrderAssumption

LEMMA TypeInit == Init => TypeOK
<1> SUFFICES ASSUME Init PROVE TypeOK
  OBVIOUS
<1>1. events \in Seq(Event) BY DEF Init
<1>2. cpc \in HandlerPCs /\ cur \in Kinds
  BY OrderFacts DEF Init, HandlerPCs
<1>3. rpc \in [Reconcilers -> WorkerPCs] /\ rk \in [Reconcilers -> 1..Len(Order)]
  BY OrderFacts DEF Init, WorkerPCs
<1>4. /\ crd \in [Kinds -> BOOLEAN] /\ seen \in [Kinds -> BOOLEAN]
      /\ deletes \in Nat /\ tombstoned \subseteq Kinds
  BY DEF Init
<1>5. /\ mu \in [Kinds -> {Free, Handler} \cup Reconcilers]
      /\ cancel \in [Kinds -> Nat] /\ lister \in [Kinds -> Nat]
      /\ created \in [Kinds -> Nat] /\ used \in [Reconcilers -> Nat]
      /\ running \in [Kinds -> SUBSET Nat] /\ synced \in [Kinds -> SUBSET Nat]
      /\ stopped \in BOOLEAN
  BY DEF Init, Nil
<1> QED BY <1>1, <1>2, <1>3, <1>4, <1>5 DEF TypeOK

LEMMA NotifyType ==
  ASSUME TypeOK, NEW t \in EventTypes, NEW k \in Kinds, Notify(t, k)
  PROVE  events' \in Seq(Event)
<1>1. [type |-> t, kind |-> k] \in Event BY DEF Event
<1> QED BY <1>1 DEF Notify, TypeOK

LEMMA SetCRDType ==
  ASSUME TypeOK, NEW k \in Kinds, NEW present \in BOOLEAN, SetCRD(k, present)
  PROVE  /\ crd' \in [Kinds -> BOOLEAN] /\ seen' \in [Kinds -> BOOLEAN]
         /\ events' \in Seq(Event) /\ tombstoned' \subseteq Kinds
<1>1. crd' \in [Kinds -> BOOLEAN] BY DEF SetCRD, TypeOK
<1>2. CASE UNCHANGED <<seen, events, tombstoned>>
  BY <1>1, <1>2 DEF TypeOK
<1>3. CASE /\ seen' = crd' /\ Notify(IF present THEN "add" ELSE "delete", k)
           /\ tombstoned' = IF present THEN tombstoned ELSE tombstoned \ {k}
  <2>1. events' \in Seq(Event) BY <1>3, NotifyType DEF EventTypes
  <2> QED BY <1>1, <1>3, <2>1 DEF TypeOK
<1> QED BY <1>2, <1>3 DEF SetCRD

LEMMA DequeueType ==
  ASSUME TypeOK, events # <<>>
  PROVE  Head(events) \in Event /\ Tail(events) \in Seq(Event)
BY DEF TypeOK

\* Every step of every actor keeps the variables in their types.
LEMMA TypeNext == TypeOK /\ [Next]_vars => TypeOK'
<1> SUFFICES ASSUME TypeOK, [Next]_vars PROVE TypeOK'
  OBVIOUS
<1> USE OrderFacts
    DEF TypeOK, HandlerPCs, SetupPCs, WorkerPCs, Nil, Free, Handler,
        apiVars, diVars, handlerVars, workerVars
<1>1. ASSUME NEW k \in Kinds, CreateCRD(k) PROVE TypeOK'
  <2>1. SetCRD(k, TRUE) BY <1>1 DEF CreateCRD
  <2> QED BY <1>1, <2>1, SetCRDType DEF CreateCRD
<1>2. ASSUME NEW k \in Kinds, DeleteCRD(k) PROVE TypeOK'
  <2>1. SetCRD(k, FALSE) BY <1>2 DEF DeleteCRD
  <2>2. deletes' = deletes + 1 BY <1>2 DEF DeleteCRD
  <2>3. deletes' \in Nat BY <2>2
  <2> QED BY <1>2, <2>1, <2>3, SetCRDType DEF DeleteCRD
<1>3. ASSUME NEW k \in Kinds, Relist(k) PROVE TypeOK'
  BY <1>3, NotifyType DEF Relist, EventTypes
<1>4. ASSUME NEW k \in Kinds, InitialList(k) PROVE TypeOK'
  <2> PICK i \in running[k] \ synced[k] : synced' = [synced EXCEPT ![k] = @ \cup {i}]
    BY <1>4 DEF InitialList
  <2>1. synced' \in [Kinds -> SUBSET Nat]
    OBVIOUS
  <2> QED BY <1>4, <2>1 DEF InitialList
<1>5. CASE Shutdown
  BY <1>5 DEF Shutdown
<1>6. CASE AddFunc
  BY <1>6, DequeueType DEF AddFunc, Event
<1>7. CASE DeleteFunc
  BY <1>7, DequeueType DEF DeleteFunc, Event
<1>8. CASE DeleteFuncUnexpected
  BY <1>8, DequeueType DEF DeleteFuncUnexpected
<1>9. CASE SetupLock
  BY <1>9 DEF SetupLock, goto
<1>10. CASE SetupSkip
  BY <1>10 DEF SetupSkip, goto
<1>11. CASE SetupCreate
  <2>1. created' \in [Kinds -> Nat]
    BY <1>11 DEF SetupCreate
  <2> QED BY <1>11, <2>1 DEF SetupCreate, goto
<1>12. CASE SetupStart
  <2>1. running' \in [Kinds -> SUBSET Nat]
    BY <1>12 DEF SetupStart
  <2> QED BY <1>12, <2>1 DEF SetupStart, goto
<1>13. CASE SetupPollCancelled
  BY <1>13 DEF SetupPollCancelled, goto
<1>14. CASE SetupSynced
  BY <1>14 DEF SetupSynced, goto
<1>15. CASE SetupSyncFailed
  BY <1>15 DEF SetupSyncFailed, goto
<1>16. CASE SetupStoreLister
  BY <1>16 DEF SetupStoreLister, goto
<1>17. CASE SetupStoreCancel
  BY <1>17 DEF SetupStoreCancel, goto
<1>18. CASE SetupUnlock
  BY <1>18 DEF SetupUnlock, goto
<1>19. CASE StopNothing
  BY <1>19 DEF StopNothing, goto
<1>20. CASE StopCancelContext
  BY <1>20 DEF StopCancelContext, goto
<1>21. CASE StopClearLister
  BY <1>21 DEF StopClearLister, goto
<1>22. CASE StopClearCancel
  BY <1>22 DEF StopClearCancel, goto
<1>23. ASSUME NEW r \in Reconcilers, ReconcileStart(r) PROVE TypeOK'
  BY <1>23 DEF ReconcileStart, step
<1>24. ASSUME NEW r \in Reconcilers, ListerLock(r) PROVE TypeOK'
  BY <1>24 DEF ListerLock, step, Kind
<1>25. ASSUME NEW r \in Reconcilers, ListerUnlock(r) PROVE TypeOK'
  BY <1>25 DEF ListerUnlock, step, Kind
<1>26. ASSUME NEW r \in Reconcilers, ListerLoad(r) PROVE TypeOK'
  <2>1. used' \in [Reconcilers -> Nat]
    BY <1>26 DEF ListerLoad, Kind
  <2>2. rpc' \in [Reconcilers -> WorkerPCs] /\ rk' \in [Reconcilers -> 1..Len(Order)]
    <3>1. CASE rk[r] < Len(Order)
      <4>1. rk[r] + 1 \in 1..Len(Order) BY <1>26, <3>1
      <4>2. rpc' = [rpc EXCEPT ![r] = "lock"] /\ rk' = [rk EXCEPT ![r] = rk[r] + 1]
        BY <1>26, <3>1 DEF ListerLoad, step
      <4> QED BY <4>1, <4>2
    <3>2. CASE ~(rk[r] < Len(Order))
      BY <1>26, <3>2 DEF ListerLoad, step
    <3> QED BY <3>1, <3>2
  <2> QED BY <1>26, <2>1, <2>2 DEF ListerLoad
<1>27. ASSUME NEW r \in Reconcilers, ReconcileEnd(r) PROVE TypeOK'
  BY <1>27 DEF ReconcileEnd, step
<1>28. ASSUME NEW r \in Reconcilers, NEW k \in Kinds, ApplyCRD(r, k) PROVE TypeOK'
  BY <1>28, SetCRDType DEF ApplyCRD
<1>29. CASE UNCHANGED vars
  BY <1>29 DEF vars
<1> QED
  BY <1>1, <1>2, <1>3, <1>4, <1>5, <1>6, <1>7, <1>8, <1>9, <1>10, <1>11, <1>12, <1>13, <1>14, <1>15, <1>16, <1>17, <1>18, <1>19, <1>20, <1>21, <1>22, <1>23, <1>24, <1>25, <1>26, <1>27, <1>28, <1>29 DEF Next, Environment, CRDHandler, Reconcile

\* THEOREM: the variables stay in their types, whatever the interleaving of
\* the CRD handler, the reconcile workers, the watch and the users.
THEOREM TypeCorrect == Spec => []TypeOK
<1> QED BY TypeInit, TypeNext, PTL DEF Spec

-----------------------------------------------------------------------------
(* Pointers and running informers.                                         *)

\* Setup and Stop keep lister, cancel and the running instances in step; no
\* other actor writes them, although Stop does not take the lock.
LEMMA PointerNext == TypeOK /\ PointerInv /\ [Next]_vars => PointerInv'
<1> SUFFICES ASSUME TypeOK, PointerInv, [Next]_vars PROVE PointerInv'
  OBVIOUS
<1> USE DEF PointerInv, Numbered, RunningAt, ListerAt, Building, Stopping, At, Nil
<1>1. CASE UNCHANGED <<cancel, lister, created, running, cpc, cur, stopped>>
  BY <1>1
<1>2. CASE Shutdown
  BY <1>2 DEF Shutdown, handlerVars
<1>3. CASE AddFunc
  BY <1>3 DEF AddFunc, diVars, TypeOK, SetupPCs, HandlerPCs
<1>4. CASE DeleteFunc
  BY <1>4 DEF DeleteFunc, diVars, TypeOK, SetupPCs, HandlerPCs
<1>5. CASE SetupLock
  BY <1>5 DEF SetupLock, goto, diVars, TypeOK, SetupPCs, HandlerPCs
<1>6. CASE SetupSkip
  BY <1>6 DEF SetupSkip, goto, diVars, TypeOK, SetupPCs, HandlerPCs
<1>7. CASE SetupCreate
  BY <1>7 DEF SetupCreate, goto, diVars, TypeOK, SetupPCs, HandlerPCs
<1>8. CASE SetupStart
  BY <1>8 DEF SetupStart, goto, diVars, TypeOK, SetupPCs, HandlerPCs
<1>9. CASE SetupPollCancelled
  BY <1>9 DEF SetupPollCancelled, goto, diVars, TypeOK, SetupPCs, HandlerPCs
<1>10. CASE SetupSynced
  BY <1>10 DEF SetupSynced, goto, diVars, TypeOK, SetupPCs, HandlerPCs
<1>11. CASE SetupSyncFailed
  BY <1>11 DEF SetupSyncFailed, goto, diVars, TypeOK, SetupPCs, HandlerPCs
<1>12. CASE SetupStoreLister
  BY <1>12 DEF SetupStoreLister, goto, diVars, TypeOK, SetupPCs, HandlerPCs
<1>13. CASE SetupStoreCancel
  BY <1>13 DEF SetupStoreCancel, goto, diVars, TypeOK, SetupPCs, HandlerPCs
<1>14. CASE SetupUnlock
  BY <1>14 DEF SetupUnlock, goto, diVars, TypeOK, SetupPCs, HandlerPCs
<1>15. CASE StopNothing
  BY <1>15 DEF StopNothing, goto, diVars, TypeOK, SetupPCs, HandlerPCs
<1>16. CASE StopCancelContext
  BY <1>16 DEF StopCancelContext, goto, diVars, TypeOK, SetupPCs, HandlerPCs
<1>17. CASE StopClearLister
  BY <1>17 DEF StopClearLister, goto, diVars, TypeOK, SetupPCs, HandlerPCs
<1>18. CASE StopClearCancel
  BY <1>18 DEF StopClearCancel, goto, diVars, TypeOK, SetupPCs, HandlerPCs
<1> QED
  BY <1>1, <1>2, <1>3, <1>4, <1>5, <1>6, <1>7, <1>8, <1>9, <1>10, <1>11, <1>12, <1>13, <1>14, <1>15, <1>16, <1>17, <1>18
  DEF Next, Environment, CRDHandler, Reconcile, CreateCRD, DeleteCRD, Relist, InitialList,
      DeleteFuncUnexpected, ReconcileStart, ListerLock, ListerUnlock, ListerLoad, ApplyCRD,
      ReconcileEnd, vars, apiVars, diVars, handlerVars

\* THEOREM: no informer is leaked: what runs for a kind can be stopped through
\* di.cancel, or is the one instance Setup is building.
THEOREM NoLeak == Spec => []NoLeakedInformer
<1>1. Init => PointerInv
  BY DEF Init, PointerInv, Numbered, RunningAt, ListerAt, Building, Stopping, At, Nil
<1>2. PointerInv => NoLeakedInformer
  BY DEF PointerInv, RunningAt, NoLeakedInformer, Building, Stopping, At
<1> QED BY <1>1, <1>2, TypeCorrect, PointerNext, PTL DEF Spec

-----------------------------------------------------------------------------
(* Only synced caches are handed out.                                      *)

LEMMA SyncNext == TypeOK /\ PointerInv /\ SyncInv /\ [Next]_vars => SyncInv'
<1> SUFFICES ASSUME TypeOK, PointerInv, SyncInv, [Next]_vars PROVE SyncInv'
  OBVIOUS
<1> USE OrderFacts DEF SyncInv, SyncedAt, ListerSynced, At, Nil, Kind
<1>1. CASE /\ UNCHANGED <<lister, created, synced, rpc, rk, used>>
           /\ cpc' \notin {"storeLister", "storeCancel"} \/ UNCHANGED <<cpc, cur>>
  BY <1>1
<1>2. ASSUME NEW k \in Kinds, InitialList(k) PROVE SyncInv'
  <2> PICK i \in running[k] \ synced[k] : synced' = [synced EXCEPT ![k] = @ \cup {i}]
    BY <1>2 DEF InitialList
  <2>1. \A l \in Kinds : synced[l] \subseteq synced'[l]
    BY DEF TypeOK
  <2>2. UNCHANGED <<lister, created, cpc, cur, rpc, rk, used>>
    BY <1>2 DEF InitialList, handlerVars, workerVars
  <2>3. SyncedAt' BY <2>1, <2>2
  <2>4. ListerSynced' BY <2>1, <2>2 DEF TypeOK
  <2> QED BY <2>3, <2>4
<1>3. CASE SetupCreate
  BY <1>3 DEF SetupCreate, goto, workerVars, TypeOK
<1>4. CASE SetupSynced
  BY <1>4 DEF SetupSynced, goto, diVars, workerVars
<1>5. CASE SetupStoreLister
  BY <1>5 DEF SetupStoreLister, goto, workerVars, TypeOK
<1>6. CASE SetupStoreCancel
  BY <1>6 DEF SetupStoreCancel, goto, workerVars
<1>7. CASE StopClearLister
  BY <1>7 DEF StopClearLister, goto, workerVars, TypeOK
<1>8. ASSUME NEW r \in Reconcilers, ReconcileStart(r) PROVE SyncInv'
  BY <1>8 DEF ReconcileStart, step, diVars, handlerVars, TypeOK
<1>9. ASSUME NEW r \in Reconcilers, ListerLock(r) PROVE SyncInv'
  BY <1>9 DEF ListerLock, step, handlerVars, TypeOK
<1>10. ASSUME NEW r \in Reconcilers, ListerUnlock(r) PROVE SyncInv'
  BY <1>10 DEF ListerUnlock, step, handlerVars, TypeOK
<1>11. ASSUME NEW r \in Reconcilers, ListerLoad(r) PROVE SyncInv'
  BY <1>11 DEF ListerLoad, step, diVars, handlerVars, TypeOK
<1>12. ASSUME NEW r \in Reconcilers, ReconcileEnd(r) PROVE SyncInv'
  BY <1>12 DEF ReconcileEnd, step, diVars, handlerVars, TypeOK
<1> QED
  BY <1>1, <1>2, <1>3, <1>4, <1>5, <1>6, <1>7, <1>8, <1>9, <1>10, <1>11, <1>12
  DEF Next, Environment, CRDHandler, Reconcile, CreateCRD, DeleteCRD, Relist, Shutdown,
      AddFunc, DeleteFunc, DeleteFuncUnexpected, SetupLock, SetupSkip, SetupStart,
      SetupPollCancelled, SetupSyncFailed, SetupUnlock, StopNothing, StopCancelContext,
      StopClearCancel, ApplyCRD, goto, vars, apiVars, diVars, handlerVars, workerVars

\* THEOREM: the lister a reconcile loads has completed its initial list, so a
\* scale target is never computed from an empty cache that was not filled yet.
THEOREM ListersAreSynced == Spec => []ListerSynced
<1>1. Init => PointerInv /\ SyncInv
  BY DEF Init, PointerInv, Numbered, RunningAt, ListerAt, SyncInv, SyncedAt, ListerSynced,
         Building, Stopping, At, Nil
<1>2. SyncInv => ListerSynced BY DEF SyncInv
<1> QED BY <1>1, <1>2, TypeCorrect, PointerNext, SyncNext, PTL DEF Spec

-----------------------------------------------------------------------------
(* Notifications and what they bring about.                                *)

\* A change of seen[k] is queued as a notification that tells it.
LEMMA Enqueued ==
  ASSUME TypeOK, EventInv, NEW t \in EventTypes, NEW k \in Kinds, Notify(t, k),
         \A l \in Kinds \ {k} : seen'[l] = seen[l] /\ (l \in tombstoned' <=> l \in tombstoned),
         t = "add" <=> seen'[k],
         t = "tombstone" => k \in tombstoned',
         UNCHANGED <<cancel, cpc, cur, stopped>>
  PROVE  EventInv'
<1> DEFINE n == Len(events)
<1>1. /\ n \in Nat /\ Len(events') = n + 1
      /\ \A i \in 1..n : events'[i] = events[i]
      /\ events'[n + 1] = [type |-> t, kind |-> k]
  BY DEF Notify, TypeOK
<1>2. ASSUME NEW l \in Kinds, NEW i \in 1..Len(events'), LastOf(i, l)'
      PROVE  /\ events'[i].type = "add" <=> seen'[l]
             /\ events'[i].type = "tombstone" => l \in tombstoned'
  <2>1. CASE i = n + 1
    BY <1>1, <1>2, <2>1 DEF LastOf
  <2>2. CASE i # n + 1
    <3>1. i \in 1..n /\ events'[i] = events[i] BY <1>1, <2>2
    <3>2. l # k BY <1>1, <1>2, <3>1 DEF LastOf
    <3>3. LastOf(i, l) BY <1>1, <1>2, <3>1 DEF LastOf
    <3> QED BY <3>1, <3>2, <3>3 DEF EventInv, EventsTellSeen
  <2> QED BY <2>1, <2>2
<1>3. ASSUME ~stopped, NEW l \in Kinds, NoneOf(l)'
      PROVE  (seen'[l] => Up(l)') /\ (~seen'[l] => Down(l)' \/ l \in tombstoned')
  <2>1. l # k /\ NoneOf(l) BY <1>1, <1>3 DEF NoneOf
  <2> QED BY <1>3, <2>1 DEF EventInv, HandledTellsSeen, Up, Down
<1>4. EventsTellSeen' BY <1>2 DEF EventsTellSeen
<1>5. HandledTellsSeen' BY <1>3 DEF HandledTellsSeen
<1> QED BY <1>4, <1>5 DEF EventInv

\* The handler takes the oldest notification and starts on what it asks for.
LEMMA Dequeued ==
  ASSUME TypeOK, EventInv, events # <<>>, events' = Tail(events),
         cpc = "idle", UNCHANGED <<seen, tombstoned, cancel, stopped>>,
         \/ Head(events).type = "add" /\ cur' = Head(events).kind /\ cpc' = "lock"
         \/ Head(events).type = "delete" /\ cur' = Head(events).kind /\ cpc' = "stop"
         \/ Head(events).type = "tombstone" /\ UNCHANGED <<cur, cpc>>
  PROVE  EventInv'
<1> DEFINE n == Len(events)
<1>1. /\ n \in Nat \ {0} /\ Len(events') = n - 1
      /\ \A i \in 1..n - 1 : events'[i] = events[i + 1]
      /\ Head(events) = events[1]
  BY DEF TypeOK
<1>2. ASSUME NEW l \in Kinds, NEW i \in 1..Len(events'), LastOf(i, l)'
      PROVE  /\ events'[i].type = "add" <=> seen'[l]
             /\ events'[i].type = "tombstone" => l \in tombstoned'
  <2>1. i + 1 \in 1..n /\ events'[i] = events[i + 1] BY <1>1
  <2>2. ASSUME NEW j \in 1..n, j > i + 1 PROVE events[j].kind # l
    <3>1. j - 1 \in 1..Len(events') /\ j - 1 > i /\ events'[j - 1] = events[j]
      BY <1>1, <2>2
    <3> QED BY <1>2, <3>1 DEF LastOf
  <2>3. LastOf(i + 1, l) BY <1>2, <2>1, <2>2 DEF LastOf
  <2> QED BY <2>1, <2>3 DEF EventInv, EventsTellSeen
<1>3. ASSUME ~stopped, NEW l \in Kinds, NoneOf(l)'
      PROVE  (seen'[l] => Up(l)') /\ (~seen'[l] => Down(l)' \/ l \in tombstoned')
  <2>1. ASSUME NEW j \in 1..n, j > 1 PROVE events[j].kind # l
    <3>1. j - 1 \in 1..Len(events') /\ events'[j - 1] = events[j]
      BY <1>1, <2>1
    <3> QED BY <1>3, <3>1 DEF NoneOf
  <2>2. CASE Head(events).kind = l
    <3>1. LastOf(1, l) /\ 1 \in 1..n BY <1>1, <2>1, <2>2 DEF LastOf
    <3>2. /\ Head(events).type = "add" <=> seen[l]
          /\ Head(events).type = "tombstone" => l \in tombstoned
      BY <1>1, <3>1 DEF EventInv, EventsTellSeen
    <3> QED BY <2>2, <3>2 DEF Up, Down
  <2>3. CASE Head(events).kind # l
    <3>1. NoneOf(l) BY <1>1, <2>1, <2>3 DEF NoneOf
    <3> QED BY <1>3, <2>3, <3>1 DEF EventInv, HandledTellsSeen, Up, Down
  <2> QED BY <2>2, <2>3
<1>4. EventsTellSeen' BY <1>2 DEF EventsTellSeen
<1>5. HandledTellsSeen' BY <1>3 DEF HandledTellsSeen
<1> QED BY <1>4, <1>5 DEF EventInv

LEMMA SetCRDEvents ==
  ASSUME TypeOK, EventInv, NEW k \in Kinds, NEW present \in BOOLEAN, crd[k] # present,
         SetCRD(k, present), UNCHANGED <<cancel, cpc, cur, stopped>>
  PROVE  EventInv'
<1>1. CASE UNCHANGED <<seen, events, tombstoned>>
  BY <1>1 DEF EventInv, EventsTellSeen, HandledTellsSeen, LastOf, NoneOf, Up, Down
<1>2. CASE /\ seen = crd /\ seen' = crd'
           /\ Notify(IF present THEN "add" ELSE "delete", k)
           /\ tombstoned' = IF present THEN tombstoned ELSE tombstoned \ {k}
  <2> DEFINE t == IF present THEN "add" ELSE "delete"
  <2>1. t \in EventTypes /\ t # "tombstone" BY DEF EventTypes
  <2>2. \A l \in Kinds \ {k} : seen'[l] = seen[l] /\ (l \in tombstoned' <=> l \in tombstoned)
    BY <1>2 DEF SetCRD, TypeOK
  <2>3. t = "add" <=> seen'[k] BY <1>2 DEF SetCRD, TypeOK
  <2>4. Notify(t, k) BY <1>2
  <2> HIDE DEF t
  <2> QED BY <2>1, <2>2, <2>3, <2>4, Enqueued
<1> QED BY <1>1, <1>2 DEF SetCRD

LEMMA EventNext == TypeOK /\ PointerInv /\ EventInv /\ [Next]_vars => EventInv'
<1> SUFFICES ASSUME TypeOK, PointerInv, EventInv, [Next]_vars PROVE EventInv'
  OBVIOUS
<1> USE DEF apiVars, diVars, handlerVars
<1>1. CASE UNCHANGED <<seen, events, tombstoned, cancel, cpc, cur, stopped>>
  BY <1>1 DEF EventInv, EventsTellSeen, HandledTellsSeen, LastOf, NoneOf, Up, Down
<1>2. ASSUME NEW k \in Kinds, CreateCRD(k) \/ \E r \in Reconcilers : ApplyCRD(r, k)
      PROVE  EventInv'
  <2>1. SetCRD(k, TRUE) BY <1>2 DEF CreateCRD, ApplyCRD
  <2> QED BY <1>2, <2>1, SetCRDEvents DEF CreateCRD, ApplyCRD
<1>3. ASSUME NEW k \in Kinds, DeleteCRD(k) PROVE EventInv'
  <2>1. SetCRD(k, FALSE) BY <1>3 DEF DeleteCRD
  <2> QED BY <1>3, <2>1, SetCRDEvents DEF DeleteCRD
<1>4. ASSUME NEW k \in Kinds, Relist(k) PROVE EventInv'
  <2> DEFINE t == IF crd[k] THEN "add" ELSE "tombstone"
  <2>1. t \in EventTypes BY DEF EventTypes
  <2>2. \A l \in Kinds \ {k} : seen'[l] = seen[l] /\ (l \in tombstoned' <=> l \in tombstoned)
    BY <1>4 DEF Relist, TypeOK
  <2>3. (t = "add" <=> seen'[k]) /\ (t = "tombstone" => k \in tombstoned')
    BY <1>4 DEF Relist, TypeOK
  <2>4. Notify(t, k) BY <1>4 DEF Relist
  <2>5. UNCHANGED <<cancel, cpc, cur, stopped>> BY <1>4 DEF Relist
  <2> HIDE DEF t
  <2> QED BY <2>1, <2>2, <2>3, <2>4, <2>5, Enqueued
<1>5. CASE AddFunc \/ DeleteFunc \/ DeleteFuncUnexpected
  BY <1>5, Dequeued DEF AddFunc, DeleteFunc, DeleteFuncUnexpected
<1>6. CASE Shutdown
  BY <1>6 DEF Shutdown, EventInv, EventsTellSeen, HandledTellsSeen, LastOf
<1>7. CASE /\ UNCHANGED <<seen, events, tombstoned, stopped>>
           /\ ~stopped => \A k \in Kinds : (Up(k) => Up(k)') /\ (Down(k) => Down(k)')
  BY <1>7 DEF EventInv, EventsTellSeen, HandledTellsSeen, LastOf, NoneOf
<1>8. CASE \/ SetupLock \/ SetupSkip \/ SetupCreate \/ SetupStart \/ SetupPollCancelled
           \/ SetupSynced \/ SetupSyncFailed \/ SetupStoreLister \/ SetupStoreCancel
           \/ SetupUnlock \/ StopNothing \/ StopCancelContext \/ StopClearLister
           \/ StopClearCancel
  <2>1. ASSUME ~stopped, NEW k \in Kinds PROVE (Up(k) => Up(k)') /\ (Down(k) => Down(k)')
    BY <1>8, <2>1 DEF Up, Down, TypeOK, PointerInv, Numbered, Building, Nil, goto,
       SetupLock, SetupSkip, SetupCreate, SetupStart, SetupPollCancelled, SetupSynced,
       SetupSyncFailed, SetupStoreLister, SetupStoreCancel, SetupUnlock, StopNothing,
       StopCancelContext, StopClearLister, StopClearCancel
  <2> QED BY <1>7, <1>8, <2>1 DEF SetupLock, SetupSkip, SetupCreate, SetupStart,
       SetupPollCancelled, SetupSynced, SetupSyncFailed, SetupStoreLister, SetupStoreCancel,
       SetupUnlock, StopNothing, StopCancelContext, StopClearLister, StopClearCancel
<1> QED
  BY <1>1, <1>2, <1>3, <1>4, <1>5, <1>6, <1>8
  DEF Next, Environment, CRDHandler, Reconcile, InitialList, ReconcileStart, ListerLock,
      ListerUnlock, ListerLoad, ReconcileEnd, vars

\* THEOREM: when the notifications about a kind are handled, its lister is
\* available and belongs to a running informer if the CRD is installed, and is
\* gone if it is not, unless the removal came as a tombstone.
THEOREM TracksCRD == Spec => []ListerTracksCRD
<1>1. Init => PointerInv /\ EventInv
  BY DEF Init, PointerInv, Numbered, RunningAt, ListerAt, EventInv, EventsTellSeen,
         HandledTellsSeen, NoneOf, Up, Down, Building, Stopping, At, Nil
<1>2. TypeOK /\ PointerInv /\ EventInv => ListerTracksCRD
  <2> SUFFICES ASSUME TypeOK, PointerInv, EventInv, NEW k \in Kinds, Quiet(k)
               PROVE  /\ crd[k] => lister[k] # Nil /\ running[k] = {lister[k]}
                      /\ ~crd[k] => lister[k] = Nil \/ k \in tombstoned
    BY DEF ListerTracksCRD
  <2>1. ~stopped /\ NoneOf(k) /\ seen[k] = crd[k] /\ (cpc = "idle" \/ cur # k)
    BY DEF Quiet, NoneOf
  <2>2. (crd[k] => Up(k)) /\ (~crd[k] => Down(k) \/ k \in tombstoned)
    BY <2>1 DEF EventInv, HandledTellsSeen
  <2>3. lister[k] = cancel[k] /\ (cancel[k] # Nil => running[k] = {cancel[k]})
    BY <2>1 DEF PointerInv, RunningAt, ListerAt, At, Building, Stopping
  <2> QED BY <2>1, <2>2, <2>3 DEF Up, Down
<1> QED BY <1>1, <1>2, TypeCorrect, PointerNext, EventNext, PTL DEF Spec

-----------------------------------------------------------------------------
(* The implementation of InformerLifecycle.                                *)

\* An instance that can be cancelled is the newest one.
Newest == \A k \in Kinds : cancel[k] # Nil => cancel[k] = created[k]

LEMMA NewestNext == TypeOK /\ PointerInv /\ Newest /\ [Next]_vars => Newest'
<1> SUFFICES ASSUME TypeOK, PointerInv, Newest, [Next]_vars PROVE Newest'
  OBVIOUS
<1> USE DEF Newest, Nil
<1>1. CASE UNCHANGED <<cancel, created>> BY <1>1
<1>2. CASE SetupCreate BY <1>2 DEF SetupCreate, TypeOK
<1>3. CASE SetupStoreCancel BY <1>3 DEF SetupStoreCancel, TypeOK
<1>4. CASE StopClearCancel BY <1>4 DEF StopClearCancel, TypeOK
<1> QED
  BY <1>1, <1>2, <1>3, <1>4
  DEF Next, Environment, CRDHandler, Reconcile, CreateCRD, DeleteCRD, Relist, InitialList,
      Shutdown, AddFunc, DeleteFunc, DeleteFuncUnexpected, SetupLock, SetupSkip, SetupStart,
      SetupPollCancelled, SetupSynced, SetupSyncFailed, SetupStoreLister, SetupUnlock,
      StopNothing, StopCancelContext, StopClearLister, ReconcileStart, ListerLock, ListerUnlock,
      ListerLoad, ApplyCRD, ReconcileEnd, goto, vars, diVars

\* Every step is a step of the informer of one kind, or changes nothing that
\* callers of Lister() can tell.
LEMMA LifecycleStep ==
  TypeOK /\ PointerInv /\ SyncInv /\ Newest /\ [Next]_vars => [Lifecycle!Next]_(Lifecycle!vars)
<1> SUFFICES ASSUME TypeOK, PointerInv, SyncInv, Newest, [Next]_vars
             PROVE  [Lifecycle!Next]_(Lifecycle!vars)
  OBVIOUS
<1> USE DEF Nil, Lifecycle!None
<1>1. CASE UNCHANGED <<created, running, synced, lister>>
  BY <1>1 DEF Lifecycle!vars
<1>2. CASE Shutdown
  <2>1. Lifecycle!End BY <1>2 DEF Shutdown, Lifecycle!End
  <2> QED BY <2>1 DEF Lifecycle!Next
<1>3. CASE SetupCreate
  <2>1. cur \in Kinds BY DEF TypeOK
  <2>2. running[cur] = {} /\ lister[cur] = Nil
    BY <1>3, <2>1 DEF SetupCreate, PointerInv, Numbered, RunningAt, ListerAt, At, Building, Stopping
  <2>3. Lifecycle!Prepare(cur) BY <1>3, <2>2 DEF SetupCreate, Lifecycle!Prepare
  <2> QED BY <2>1, <2>3 DEF Lifecycle!Next
<1>4. CASE SetupStart
  <2>1. cur \in Kinds BY DEF TypeOK
  <2>2. running[cur] = {} /\ lister[cur] = Nil /\ created[cur] # Nil
    BY <1>4, <2>1 DEF SetupStart, PointerInv, Numbered, RunningAt, ListerAt, At, Building
  <2>3. running' = [running EXCEPT ![cur] = {created[cur]}] BY <1>4, <2>2 DEF SetupStart
  <2>4. Lifecycle!Start(cur) BY <1>4, <2>2, <2>3 DEF SetupStart, Lifecycle!Start
  <2> QED BY <2>1, <2>4 DEF Lifecycle!Next
<1>5. CASE SetupSyncFailed \/ StopCancelContext
  <2>1. cur \in Kinds BY DEF TypeOK
  <2>2. running' = [running EXCEPT ![cur] = {}]
    <3>1. CASE SetupSyncFailed
      BY <2>1, <3>1 DEF SetupSyncFailed, PointerInv, RunningAt, At
    <3>2. CASE StopCancelContext
      BY <2>1, <3>2 DEF StopCancelContext, PointerInv, RunningAt, At, Building, Stopping
    <3> QED BY <1>5, <3>1, <3>2
  <2>3. UNCHANGED <<created, synced, lister>> BY <1>5 DEF SetupSyncFailed, StopCancelContext
  <2>4. CASE running[cur] = {} BY <1>1, <2>2, <2>3, <2>4 DEF TypeOK
  <2>5. CASE running[cur] # {}
    <3>1. Lifecycle!Stop(cur) BY <2>2, <2>3, <2>5 DEF Lifecycle!Stop
    <3> QED BY <2>1, <3>1 DEF Lifecycle!Next
  <2> QED BY <2>4, <2>5
<1>6. CASE SetupStoreLister
  <2>1. cur \in Kinds BY DEF TypeOK
  <2>2. lister[cur] = Nil /\ created[cur] \in synced[cur]
    BY <1>6, <2>1
    DEF SetupStoreLister, PointerInv, Numbered, ListerAt, SyncInv, SyncedAt, At, Building
  <2>3. Lifecycle!HandOut(cur) BY <1>6, <2>2 DEF SetupStoreLister, Lifecycle!HandOut
  <2> QED BY <2>1, <2>3 DEF Lifecycle!Next
<1>7. CASE StopClearLister
  <2>1. cur \in Kinds BY DEF TypeOK
  <2>2. running[cur] = {}
    BY <1>7, <2>1 DEF StopClearLister, PointerInv, RunningAt, At, Stopping
  <2>3. UNCHANGED <<created, running, synced>> BY <1>7 DEF StopClearLister
  <2>4. CASE lister[cur] = Nil BY <1>1, <1>7, <2>3, <2>4 DEF StopClearLister, TypeOK
  <2>5. CASE lister[cur] # Nil
    <3>1. Lifecycle!TakeBack(cur)
      BY <1>7, <2>2, <2>3, <2>5 DEF StopClearLister, Lifecycle!TakeBack
    <3> QED BY <2>1, <3>1 DEF Lifecycle!Next
  <2> QED BY <2>4, <2>5
<1>8. ASSUME NEW k \in Kinds, InitialList(k) PROVE [Lifecycle!Next]_(Lifecycle!vars)
  <2> PICK i \in running[k] \ synced[k] : synced' = [synced EXCEPT ![k] = @ \cup {i}]
    BY <1>8 DEF InitialList
  <2>1. i = created[k]
    <3>1. CASE Building(k)
      BY <3>1 DEF PointerInv, RunningAt, At, Building
    <3>2. CASE ~Building(k)
      <4>1. ~Stopping(k) BY DEF PointerInv, RunningAt
      <4>2. i = cancel[k] /\ i # Nil
        BY <3>2, <4>1 DEF PointerInv, RunningAt, Numbered
      <4> QED BY <4>2 DEF Newest
    <3> QED BY <3>1, <3>2
  <2>2. Lifecycle!Fill(k) BY <1>8, <2>1 DEF InitialList, Lifecycle!Fill
  <2> QED BY <2>2 DEF Lifecycle!Next
<1> QED
  BY <1>1, <1>2, <1>3, <1>4, <1>5, <1>6, <1>7, <1>8
  DEF Next, Environment, CRDHandler, Reconcile, CreateCRD, DeleteCRD, Relist,
      AddFunc, DeleteFunc, DeleteFuncUnexpected, SetupLock, SetupSkip, SetupPollCancelled,
      SetupSynced, SetupStoreCancel, SetupUnlock, StopNothing, StopClearCancel,
      ReconcileStart, ListerLock, ListerUnlock, ListerLoad, ApplyCRD, ReconcileEnd, goto,
      vars, diVars

\* THEOREM: the dynamic informers implement InformerLifecycle: callers of
\* Lister() see one filled informer at a time, taken back only when stopped.
THEOREM Implementation == Spec => ImplementsLifecycle
<1>1. Init => Lifecycle!Init
  BY DEF Init, Lifecycle!Init, Nil, Lifecycle!None
<1>2. Init => PointerInv /\ SyncInv /\ Newest
  BY DEF Init, PointerInv, Numbered, RunningAt, ListerAt, SyncInv, SyncedAt, ListerSynced,
         Building, Stopping, At, Nil, Newest
<1> QED
  BY <1>1, <1>2, TypeCorrect, PointerNext, SyncNext, NewestNext, LifecycleStep, PTL
  DEF Spec, ImplementsLifecycle, Lifecycle!Spec

=============================================================================
