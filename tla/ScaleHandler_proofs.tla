------------------------- MODULE ScaleHandler_proofs -------------------------
(***************************************************************************)
(* Proofs about ScaleHandler, for any names, classes and bounds, with and  *)
(* without a filter, with and without broken watches.                      *)
(***************************************************************************)
EXTENDS ScaleHandler, FiniteSetTheorems, TLAPS

-----------------------------------------------------------------------------
(* Types.                                                                  *)

LEMMA TypeInit == Init => TypeOK
<1> SUFFICES ASSUME Init PROVE TypeOK
  OBVIOUS
<1>1. Empty \in Objects BY DEF Empty, Objects
<1>2. notes \in Seq(Note) BY DEF Init
<1> QED BY <1>1, <1>2 DEF Init, TypeOK

LEMMA NotifyType ==
  ASSUME TypeOK, NEW t \in {"add", "delete", "tombstone"}, NEW c \in Classes, Notify(t, c)
  PROVE  notes' \in Seq(Note)
<1>1. [type |-> t, class |-> c] \in Note BY DEF Note
<1> QED BY <1>1 DEF Notify, TypeOK

LEMMA ChangeType ==
  ASSUME TypeOK, NEW n \in Names, NEW c \in Classes \cup {None}, Change(n, c),
         c = None => api[n] # None
  PROVE  TypeOK'
<1>1. api' \in Objects BY DEF Change, TypeOK, Objects
<1>2. changes' \in Nat
  <2>1. changes' = changes + 1 BY DEF Change
  <2> QED BY <2>1 DEF TypeOK
<1>3. store' \in Objects BY <1>1 DEF Change, TypeOK
<1>4. notes' \in Seq(Note)
  <2>1. CASE notes' = notes BY <2>1 DEF TypeOK
  <2>2. CASE c # None /\ Notify("add", c)
    BY <2>2, NotifyType
  <2>3. CASE c = None /\ Notify("delete", api[n])
    <3>1. api[n] \in Classes BY <2>3 DEF TypeOK, Objects
    <3> QED BY <2>3, <3>1, NotifyType
  <2> QED BY <2>1, <2>2, <2>3 DEF Change
<1> QED BY <1>1, <1>2, <1>3, <1>4 DEF Change, TypeOK, workerVars

LEMMA RestartType == TypeOK /\ Restart /\ crashes' \in Nat => TypeOK'
<1> SUFFICES ASSUME TypeOK, Restart, crashes' \in Nat PROVE TypeOK'
  OBVIOUS
<1>1. Empty \in Objects BY DEF Empty, Objects
<1>2. notes' \in Seq(Note) BY DEF Restart
<1> QED BY <1>1, <1>2 DEF Restart, TypeOK, apiVars, historyVars

LEMMA DequeueType ==
  ASSUME TypeOK, notes # <<>>
  PROVE  Head(notes) \in Note /\ Tail(notes) \in Seq(Note)
BY DEF TypeOK

LEMMA TypeNext == TypeOK /\ [Next]_vars => TypeOK'
<1> SUFFICES ASSUME TypeOK, [Next]_vars PROVE TypeOK'
  OBVIOUS
<1> USE DEF apiVars, informerVars, workerVars, historyVars
<1>1. ASSUME NEW n \in Names, NEW c \in Classes, Create(n, c) PROVE TypeOK'
  BY <1>1, ChangeType, ClassAssumption DEF Create
<1>2. ASSUME NEW n \in Names, Delete(n) PROVE TypeOK'
  BY <1>2, ChangeType DEF Delete
<1>3. ASSUME NEW n \in Names, Relist(n) PROVE TypeOK'
  <2>1. store' \in Objects BY <1>3 DEF Relist, TypeOK, Objects
  <2>2. notes' \in Seq(Note) /\ swapped' \in BOOLEAN
    <3>1. CASE store[n] = None
      <4>1. api[n] \in Classes BY <1>3, <3>1 DEF Relist, TypeOK, Objects
      <4>2. Notify("add", api[n]) /\ swapped' = swapped BY <1>3, <3>1 DEF Relist
      <4> QED BY <4>1, <4>2, NotifyType DEF TypeOK
    <3>2. CASE store[n] # None /\ api[n] = None
      <4>1. store[n] \in Classes BY <3>2 DEF TypeOK, Objects
      <4>2. Notify("tombstone", store[n]) /\ swapped' = swapped BY <1>3, <3>2 DEF Relist
      <4> QED BY <4>1, <4>2, NotifyType DEF TypeOK
    <3>3. CASE store[n] # None /\ api[n] # None
      BY <1>3, <3>3 DEF Relist, TypeOK
    <3> QED BY <3>1, <3>2, <3>3
  <2> QED BY <1>3, <2>1, <2>2 DEF Relist, TypeOK
<1>4. CASE SetupBegin BY <1>4 DEF SetupBegin, TypeOK
<1>5. CASE InitialList BY <1>5 DEF InitialList, TypeOK
<1>6. ASSUME NEW n \in Names, PopInitial(n) PROVE TypeOK'
  <2>1. initial[n] \in Classes BY <1>6 DEF PopInitial, TypeOK, Objects
  <2>2. notes' \in Seq(Note) BY <1>6, <2>1, NotifyType DEF PopInitial
  <2>3. store' \in Objects /\ initial' \in Objects
    BY <1>6 DEF PopInitial, TypeOK, Objects
  <2> QED BY <1>6, <2>2, <2>3 DEF PopInitial, TypeOK
<1>7. CASE SetupEnd BY <1>7 DEF SetupEnd, TypeOK
<1>8. CASE Crash
  <2>1. crashes' = crashes + 1 BY <1>8 DEF Crash
  <2> QED BY <1>8, <2>1, RestartType DEF Crash, TypeOK
<1>9. CASE OnAdd \/ OnDelete \/ OnTombstone
  <2>1. notes' \in Seq(Note) /\ queued' \in BOOLEAN
    BY <1>9, DequeueType DEF OnAdd, OnDelete, OnTombstone, resync, skip, TypeOK
  <2>2. UNCHANGED <<apiVars, informerVars, workerVars, historyVars, crashes>>
    BY <1>9 DEF OnAdd, OnDelete, OnTombstone
  <2> QED BY <2>1, <2>2 DEF TypeOK
<1>10. CASE OnTombstonePanic
  BY <1>10, RestartType DEF OnTombstonePanic, TypeOK
<1>11. CASE Enqueue BY <1>11 DEF Enqueue, TypeOK
<1>12. CASE Dequeue BY <1>12 DEF Dequeue, TypeOK
<1>13. CASE ReadTarget
  <2>1. ScaleTarget \in {0, 1} BY DEF ScaleTarget
  <2> QED BY <1>13, <2>1 DEF ReadTarget, TypeOK
<1>14. CASE Apply BY <1>14 DEF Apply, TypeOK
<1>15. CASE ApplyFailed BY <1>15 DEF ApplyFailed, TypeOK
<1>16. CASE RemoveCRD
  <2>1. changes' \in Nat
    <3>1. changes' = changes + 1 BY <1>16 DEF RemoveCRD
    <3> QED BY <3>1 DEF TypeOK
  <2>2. crd' \in BOOLEAN /\ removed' \in BOOLEAN BY <1>16 DEF RemoveCRD
  <2>3. UNCHANGED <<api, store, listed, initial, phase, notes, queued, workerVars, historyVars, crashes>>
    BY <1>16 DEF RemoveCRD
  <2> QED BY <2>1, <2>2, <2>3 DEF TypeOK
<1>17. CASE InstallCRD BY <1>17 DEF InstallCRD, TypeOK
<1>18. CASE Stop
  <2>1. Empty \in Objects BY DEF Empty, Objects
  <2>2. notes' \in Seq(Note) BY <1>18 DEF Stop
  <2>3. dropped' \in BOOLEAN BY <1>18 DEF Stop, TypeOK, HasTarget, RemovalWaits
  <2> QED BY <1>18, <2>1, <2>2, <2>3 DEF Stop, TypeOK
<1>19. CASE UNCHANGED vars BY <1>19 DEF vars, TypeOK
<1> QED
  BY <1>1, <1>2, <1>3, <1>4, <1>5, <1>6, <1>7, <1>8, <1>9, <1>10, <1>11, <1>12, <1>13,
     <1>14, <1>15, <1>16, <1>17, <1>18, <1>19
  DEF Next, Users, Informer, EventHandler, Reconcile

\* THEOREM: the variables stay in their types; in particular the scale targets
\* and the replicas applied are 0 or 1.
THEOREM TypeCorrect == Spec => []TypeOK
<1> QED BY TypeInit, TypeNext, PTL DEF Spec

-----------------------------------------------------------------------------
(* No scale-down is lost.                                                  *)

\* The initial list fills names of the store that are empty.
InitialInv ==
    /\ ~listed => store = Empty /\ initial = Empty
    /\ \A n \in Names : initial[n] # None => store[n] = None

LEMMA InitialNext == TypeOK /\ InitialInv /\ [Next]_vars => InitialInv'
<1> SUFFICES ASSUME TypeOK, InitialInv, [Next]_vars PROVE InitialInv'
  OBVIOUS
<1> USE DEF InitialInv, Empty, apiVars, informerVars, workerVars, historyVars
<1>1. CASE UNCHANGED <<store, listed, initial>> BY <1>1
<1>2. CASE HasSynced /\ UNCHANGED <<listed, initial>> BY <1>2 DEF HasSynced
<1>3. CASE InitialList BY <1>3 DEF InitialList
<1>4. ASSUME NEW n \in Names, PopInitial(n) PROVE InitialInv'
  BY <1>4 DEF PopInitial, TypeOK, Objects
<1>5. CASE Restart BY <1>5 DEF Restart
<1>6. ASSUME NEW n \in Names, NEW c, Change(n, c) PROVE InitialInv'
  BY <1>1, <1>2, <1>6 DEF Change
<1>7. CASE Users BY <1>1, <1>6, <1>7 DEF Users, Create, Delete, RemoveCRD, InstallCRD
<1>8. ASSUME NEW n \in Names, Relist(n) PROVE InitialInv'
  BY <1>2, <1>8 DEF Relist
<1>9. CASE Stop BY <1>9 DEF Stop
<1> QED
  BY <1>1, <1>3, <1>4, <1>5, <1>7, <1>8, <1>9
  DEF Next, Informer, EventHandler, Reconcile, SetupBegin, SetupEnd, Crash, OnAdd, OnDelete,
      OnTombstone, OnTombstonePanic, Enqueue, Dequeue, ReadTarget, Apply, ApplyFailed, vars

\* A notification about the scaled class, of one of the types T, is waiting.
Pending(T) == \E i \in 1..Len(notes) : notes[i].type \in T /\ notes[i].class = Target
PendingRemoval == Pending({"delete", "tombstone"})
PendingAdd == Pending({"add"})

\* A waiting notification keeps waiting while another one is queued ...
LEMMA PendingAppend ==
  ASSUME TypeOK, NEW t \in {"add", "delete", "tombstone"}, NEW c \in Classes, Notify(t, c),
         NEW T
  PROVE  /\ Pending(T) => Pending(T)'
         /\ t \in T /\ c = Target => Pending(T)'
<1> DEFINE k == Len(notes)
<1>1. /\ k \in Nat /\ Len(notes') = k + 1
      /\ \A i \in 1..k : notes'[i] = notes[i]
      /\ notes'[k + 1] = [type |-> t, class |-> c]
  BY DEF Notify, TypeOK
<1>2. ASSUME Pending(T) PROVE Pending(T)'
  <2> PICK i \in 1..k : notes[i].type \in T /\ notes[i].class = Target
    BY <1>2 DEF Pending
  <2>1. i \in 1..Len(notes') /\ notes'[i] = notes[i] BY <1>1
  <2> QED BY <2>1 DEF Pending
<1>3. ASSUME t \in T, c = Target PROVE Pending(T)'
  <2>1. k + 1 \in 1..Len(notes') BY <1>1
  <2> QED BY <1>1, <1>3, <2>1 DEF Pending
<1> QED BY <1>2, <1>3

\* ... and while another one is handled.
LEMMA PendingTail ==
  ASSUME TypeOK, notes # <<>>, notes' = Tail(notes), NEW T, Pending(T),
         ~(Head(notes).type \in T /\ Head(notes).class = Target)
  PROVE  Pending(T)'
<1> PICK i \in 1..Len(notes) : notes[i].type \in T /\ notes[i].class = Target
  BY DEF Pending
<1>1. i # 1 BY DEF TypeOK
<1>2. i - 1 \in 1..Len(notes') /\ notes'[i - 1] = notes[i] BY <1>1 DEF TypeOK
<1> QED BY <1>2 DEF Pending

LEMMA DownDef ==
  ScaleDownPending <=>
    (~HasTarget(store) /\ ~swapped /\ ~dropped =>
        \/ SettledAt(0) \/ ReconcileAhead \/ (rpc = "apply" /\ target = 0) \/ PendingRemoval)
BY DEF ScaleDownPending, RemovalWaits, PendingRemoval, Pending

LEMMA DownNext ==
  TypeOK /\ InitialInv /\ ScaleDownPending /\ [Next]_vars => ScaleDownPending'
<1> SUFFICES ASSUME TypeOK, InitialInv, ScaleDownPending, [Next]_vars,
                    ~HasTarget(store'), ~swapped', ~dropped'
             PROVE  \/ SettledAt(0)' \/ ReconcileAhead' \/ (rpc' = "apply" /\ target' = 0)
                    \/ PendingRemoval'
  BY DEF ScaleDownPending, RemovalWaits, PendingRemoval, Pending, HasTarget
<1> DEFINE Goal == SettledAt(0)' \/ ReconcileAhead' \/ (rpc' = "apply" /\ target' = 0)
                   \/ PendingRemoval'
<1> USE DEF apiVars, informerVars, workerVars, historyVars, PendingRemoval
\* A step that leaves queue and reconcile alone, and loses no waiting removal.
<1>1. ASSUME UNCHANGED <<queued, rpc, target, applied>>, ~HasTarget(store), ~swapped, ~dropped,
             PendingRemoval => PendingRemoval'
      PROVE  Goal
  BY <1>1, DownDef DEF SettledAt, ReconcileAhead
<1>2. ASSUME NEW n \in Names, NEW c \in Classes, Create(n, c) PROVE Goal
  <2>1. c # None /\ api[n] = None BY <1>2, ClassAssumption DEF Create
  <2>2. ~HasTarget(store)
    BY <1>2, <2>1, ClassAssumption DEF Create, Change, HasTarget, TypeOK, Objects
  <2>3. PendingRemoval => PendingRemoval'
    <3>1. CASE Notify("add", c) BY <3>1, PendingAppend
    <3>2. CASE notes' = notes BY <3>2 DEF Pending
    <3> QED BY <1>2, <2>1, <3>1, <3>2 DEF Create, Change
  <2> QED BY <1>1, <1>2, <2>2, <2>3 DEF Create, Change
<1>3. ASSUME NEW n \in Names, Delete(n) PROVE Goal
  <2>1. api[n] \in Classes BY <1>3 DEF Delete, TypeOK, Objects
  <2>2. CASE notes' = notes /\ store' = store
    BY <1>1, <1>3, <2>2 DEF Delete, Change, Pending
  <2>3. CASE Notify("delete", api[n]) /\ store = api /\ store' = api'
    <3>1. CASE api[n] = Target BY <2>1, <2>3, <3>1, PendingAppend
    <3>2. CASE api[n] # Target
      <4>1. ~HasTarget(store)
        BY <1>3, <2>3, <3>2 DEF Delete, Change, HasTarget, TypeOK, Objects
      <4>2. PendingRemoval => PendingRemoval' BY <2>1, <2>3, PendingAppend
      <4> QED BY <1>1, <1>3, <4>1, <4>2 DEF Delete, Change
    <3> QED BY <3>1, <3>2
  <2> QED BY <1>3, <2>2, <2>3 DEF Delete, Change
<1>4. ASSUME NEW n \in Names, Relist(n) PROVE Goal
  <2>1. CASE store[n] = None
    <3>1. api[n] \in Classes BY <1>4, <2>1 DEF Relist, TypeOK, Objects
    <3>2. Notify("add", api[n]) /\ swapped' = swapped BY <1>4, <2>1 DEF Relist
    <3>3. PendingRemoval => PendingRemoval' BY <3>1, <3>2, PendingAppend
    <3>4. ~HasTarget(store)
      BY <1>4, <2>1, ClassAssumption DEF Relist, HasTarget, TypeOK, Objects
    <3> QED BY <1>1, <1>4, <3>2, <3>3, <3>4 DEF Relist
  <2>2. CASE store[n] # None /\ api[n] = None
    <3>1. store[n] \in Classes BY <2>2 DEF TypeOK, Objects
    <3>2. Notify("tombstone", store[n]) /\ swapped' = swapped BY <1>4, <2>2 DEF Relist
    <3>3. CASE store[n] = Target BY <3>1, <3>2, <3>3, PendingAppend
    <3>4. CASE store[n] # Target
      <4>1. PendingRemoval => PendingRemoval' BY <3>1, <3>2, PendingAppend
      <4>2. ~HasTarget(store) BY <1>4, <3>4 DEF Relist, HasTarget, TypeOK, Objects
      <4> QED BY <1>1, <1>4, <3>2, <4>1, <4>2 DEF Relist
    <3> QED BY <3>3, <3>4
  <2>3. CASE store[n] # None /\ api[n] # None
    BY <1>4, <2>3 DEF Relist
  <2> QED BY <2>1, <2>2, <2>3
<1>5. CASE SetupBegin BY <1>1, <1>5 DEF SetupBegin, Pending
<1>6. CASE InitialList BY <1>1, <1>6 DEF InitialList, Pending
<1>7. ASSUME NEW n \in Names, PopInitial(n) PROVE Goal
  <2>1. initial[n] \in Classes BY <1>7 DEF PopInitial, TypeOK, Objects
  <2>2. PendingRemoval => PendingRemoval' BY <1>7, <2>1, PendingAppend DEF PopInitial
  <2>3. store[n] # Target BY <1>7, ClassAssumption DEF PopInitial, InitialInv
  <2>4. ~HasTarget(store) BY <1>7, <2>3 DEF PopInitial, HasTarget, TypeOK, Objects
  <2> QED BY <1>1, <1>7, <2>2, <2>4 DEF PopInitial
<1>8. CASE SetupEnd BY <1>1, <1>8 DEF SetupEnd, Pending
<1>9. CASE Crash \/ OnTombstonePanic
  BY <1>9 DEF Crash, OnTombstonePanic, Restart, ReconcileAhead
<1>10. CASE OnAdd
  <2>1. PendingRemoval => PendingRemoval' BY <1>10, PendingTail DEF OnAdd
  <2> QED BY <1>1, <1>10, <2>1 DEF OnAdd, resync, skip, ReconcileAhead
<1>11. CASE OnDelete
  <2>1. CASE Head(notes).class = Target
    <3>1. Matching(Target) = {}
      BY <1>11, FilteredAssumption
      DEF OnDelete, Matching, Present, HasTarget, TypeOK, Objects
    <3> QED BY <1>11, <2>1, <3>1 DEF OnDelete, resync, ReconcileAhead
  <2>2. CASE Head(notes).class # Target
    <3>1. PendingRemoval => PendingRemoval' BY <1>11, <2>2, PendingTail DEF OnDelete
    <3> QED BY <1>1, <1>11, <3>1 DEF OnDelete, resync, skip, ReconcileAhead
  <2> QED BY <2>1, <2>2
<1>12. CASE OnTombstone
  <2>1. Present(store) = {}
    BY <1>12, FilteredAssumption DEF OnTombstone, Present, HasTarget, TypeOK, Objects
  <2> QED BY <1>12, <2>1 DEF OnTombstone, resync, ReconcileAhead
<1>13. CASE Enqueue BY <1>13 DEF Enqueue, ReconcileAhead
<1>14. CASE Dequeue BY <1>14 DEF Dequeue, ReconcileAhead
<1>15. CASE ReadTarget
  <2>1. ScaleTarget = 0 BY <1>15 DEF ReadTarget, ScaleTarget, HasTarget
  <2> QED BY <1>15, <2>1 DEF ReadTarget
<1>16. CASE Apply
  BY <1>16, DownDef DEF Apply, SettledAt, ReconcileAhead, Pending, TypeOK
<1>17. CASE ApplyFailed BY <1>17 DEF ApplyFailed, ReconcileAhead
<1>18. CASE UNCHANGED vars BY <1>1, <1>18 DEF vars, Pending
<1>19. CASE RemoveCRD \/ InstallCRD BY <1>1, <1>19 DEF RemoveCRD, InstallCRD, Pending
\* Stop drops no removal unless it says so.
<1>20. CASE Stop
  <2>1. ~HasTarget(store) /\ ~PendingRemoval /\ ~dropped /\ ~swapped
    BY <1>20 DEF Stop, RemovalWaits, Pending
  <2> QED BY <1>1, <1>20, <2>1 DEF Stop
<1> QED
  BY <1>2, <1>3, <1>4, <1>5, <1>6, <1>7, <1>8, <1>9, <1>10, <1>11, <1>12, <1>13,
     <1>14, <1>15, <1>16, <1>17, <1>18, <1>19, <1>20
  DEF Next, Users, Informer, EventHandler, Reconcile

\* THEOREM: no scale-down is lost, however the informer, the handler, failing
\* reconciles and restarts interleave: with no object of the class in the
\* store, the deployments are at 0 or a reconcile that reads 0 is bound to come,
\* unless the class of an object was changed unseen, or Stop dropped the
\* deletion with the informer of a removed CRD.
THEOREM NoLostScaleDown == Spec => []ScaleDownPending
<1>1. Init => InitialInv /\ ScaleDownPending
  BY DEF Init, InitialInv, Empty, ScaleDownPending, ReconcileAhead
<1> QED BY <1>1, TypeCorrect, InitialNext, DownNext, PTL DEF Spec

-----------------------------------------------------------------------------
(* No scale-up is lost while objects come one by one.                      *)

\* The deployments are at 1, or a reconcile under way or to come takes care.
SecuredUp == SettledAt(1) \/ ReconcileAhead \/ (rpc = "apply" /\ target = 1)

\* What several objects at once leave behind: crowded, or a reconcile that saw
\* one of them.  During Setup only a list of several leaves the store filled
\* and the informer not synced.
CrowdInv ==
    /\ phase = "down" => ~listed
    /\ phase = "up" => HasSynced
    /\ SeveralTargets(store) => crowded \/ SecuredUp
    /\ phase # "up" /\ listed /\ ~HasSynced /\ Present(store) # {} => crowded
    /\ phase # "up" /\ Several(initial) => crowded

\* A reconcile that is secured stays so while an object of the class exists.
LEMMA SecuredNext ==
  ASSUME TypeOK, InitialInv, CrowdInv, [Next]_vars, SecuredUp, HasTarget(store')
  PROVE  SecuredUp'
<1> USE DEF apiVars, informerVars, workerVars, historyVars, SecuredUp, SettledAt, ReconcileAhead
<1>1. CASE UNCHANGED <<rpc, target, applied>> /\ (queued => queued') BY <1>1
<1>2. CASE Restart BY <1>2 DEF Restart
<1>3. CASE Dequeue BY <1>3 DEF Dequeue
<1>4. CASE ReadTarget
  <2>1. phase = "up"
    BY <1>4, ClassAssumption DEF ReadTarget, CrowdInv, InitialInv, HasTarget, Empty, TypeOK
  <2>2. ScaleTarget = 1 BY <1>4, <2>1 DEF ReadTarget, ScaleTarget, HasTarget
  <2> QED BY <1>4, <2>2 DEF ReadTarget
<1>5. CASE Apply BY <1>5 DEF Apply, TypeOK
<1>6. CASE ApplyFailed BY <1>6 DEF ApplyFailed
<1>7. CASE Users
  <2>1. UNCHANGED <<queued, rpc, target, applied>>
    BY <1>7 DEF Users, Create, Delete, Change, RemoveCRD, InstallCRD
  <2> QED BY <1>1, <2>1
<1>8. CASE Informer
  BY <1>1, <1>8 DEF Informer, Stop, SetupBegin, InitialList, SetupEnd, PopInitial, Relist
<1>9. CASE EventHandler
  BY <1>1, <1>2, <1>9
  DEF EventHandler, OnAdd, OnDelete, OnTombstone, OnTombstonePanic, resync, skip
<1>10. CASE Enqueue BY <1>10 DEF Enqueue
<1>11. CASE Crash BY <1>2, <1>11 DEF Crash
<1>12. CASE UNCHANGED vars BY <1>1, <1>12 DEF vars
<1> QED BY <1>3, <1>4, <1>5, <1>6, <1>7, <1>8, <1>9, <1>10, <1>11, <1>12 DEF Next, Reconcile

LEMMA CrowdNext ==
  TypeOK /\ InitialInv /\ CrowdInv /\ [Next]_vars => CrowdInv'
<1> SUFFICES ASSUME TypeOK, InitialInv, CrowdInv, [Next]_vars PROVE CrowdInv'
  OBVIOUS
<1> USE DEF apiVars, informerVars, workerVars, historyVars
<1>1. (phase = "down" => ~listed)' /\ (phase = "up" => HasSynced)'
  <2>1. CASE UNCHANGED <<phase, listed, initial>> BY <2>1 DEF CrowdInv, HasSynced
  <2>2. CASE Restart BY <2>2 DEF Restart
  <2>3. CASE SetupBegin BY <2>3 DEF SetupBegin, CrowdInv
  <2>4. CASE InitialList BY <2>4 DEF InitialList
  <2>5. ASSUME NEW n \in Names, PopInitial(n) PROVE (phase = "down" => ~listed)' /\ (phase = "up" => HasSynced)'
    <3>1. initial # Empty BY <2>5 DEF PopInitial, Empty
    <3> QED BY <2>5, <3>1 DEF PopInitial, CrowdInv, HasSynced
  <2>6. CASE SetupEnd BY <2>6 DEF SetupEnd, HasSynced
  <2>7. CASE Stop BY <2>7 DEF Stop
  <2> QED
    BY <2>1, <2>2, <2>3, <2>4, <2>5, <2>6, <2>7
    DEF Next, Users, Create, Delete, Change, RemoveCRD, InstallCRD, Informer, Relist, EventHandler, Reconcile, Crash,
        OnAdd, OnDelete, OnTombstone, OnTombstonePanic, Enqueue, Dequeue, ReadTarget, Apply,
        ApplyFailed, vars
<1>2. (SeveralTargets(store) => crowded \/ SecuredUp)'
  <2> SUFFICES ASSUME SeveralTargets(store)', ~crowded' PROVE SecuredUp'
    OBVIOUS
  <2>1. HasTarget(store') BY DEF SeveralTargets, HasTarget
  <2>2. CASE SecuredUp BY <2>1, <2>2, SecuredNext
  <2>3. CASE ~SecuredUp /\ crowded
    <3>1. ReadTarget
      <4>1. ~Users BY <2>3 DEF Users, Create, Delete, Change, RemoveCRD, InstallCRD
      <4>2. ~Informer
        BY <2>3 DEF Informer, Stop, Relist, SetupBegin, InitialList, PopInitial, SetupEnd
      <4> QED
        BY <2>3, <4>1, <4>2
        DEF Next, EventHandler, Reconcile, Crash, Restart, OnAdd, OnDelete, OnTombstone,
            OnTombstonePanic, Enqueue, Dequeue, Apply, ApplyFailed, vars
    <3>2. phase = "up"
      BY <2>1, <3>1, ClassAssumption DEF ReadTarget, CrowdInv, InitialInv, HasTarget, Empty, TypeOK
    <3>3. ScaleTarget = 1 BY <2>1, <3>1, <3>2 DEF ReadTarget, ScaleTarget, HasTarget
    <3> QED BY <3>1, <3>3 DEF ReadTarget, SecuredUp
  <2>4. CASE ~SecuredUp /\ ~crowded
    <3>1. ~SeveralTargets(store) BY <2>4 DEF CrowdInv
    <3>2. store' # store BY <3>1
    <3>3. ~Users BY <2>4, <3>2 DEF Users, Create, Delete, Change, RemoveCRD, InstallCRD
    <3>4. ASSUME NEW n \in Names, Relist(n) PROVE FALSE BY <3>4 DEF Relist
    <3>5. ASSUME NEW n \in Names, PopInitial(n) PROVE FALSE
      <4>1. PICK m \in Names : m # n /\ store'[m] = Target BY DEF SeveralTargets
      <4>2. store[m] = Target BY <3>5, <4>1 DEF PopInitial, TypeOK, Objects
      <4>3. m \in Present(store) BY <4>2, ClassAssumption DEF Present
      <4>4. initial # Empty BY <3>5 DEF PopInitial, Empty
      <4>5. listed /\ ~HasSynced BY <4>4 DEF InitialInv, HasSynced
      <4> QED BY <2>4, <4>3, <4>5 DEF CrowdInv
    <3>6. ~Restart /\ ~Stop BY <2>1, ClassAssumption DEF Restart, Stop, HasTarget, Empty
    <3> QED
      BY <3>2, <3>3, <3>4, <3>5, <3>6
      DEF Next, Informer, SetupBegin, InitialList, SetupEnd, EventHandler, Reconcile, Crash, OnAdd,
          OnDelete, OnTombstone, OnTombstonePanic, Enqueue, Dequeue, ReadTarget, Apply, ApplyFailed,
          vars
  <2> QED BY <2>2, <2>3, <2>4
<1>3. /\ (phase # "up" /\ listed /\ ~HasSynced /\ Present(store) # {} => crowded)'
      /\ (phase # "up" /\ Several(initial) => crowded)'
  <2> DEFINE G == /\ (phase # "up" /\ listed /\ ~HasSynced /\ Present(store) # {} => crowded)'
                  /\ (phase # "up" /\ Several(initial) => crowded)'
  <2>1. CASE UNCHANGED <<store, listed, initial, phase, crowded>>
    BY <2>1 DEF CrowdInv, HasSynced, Present, Several
  <2>2. CASE HasSynced /\ UNCHANGED <<listed, initial, phase>>
    BY <2>2 DEF HasSynced, Several, Present, Empty
  <2>3. CASE ~listed /\ UNCHANGED <<listed, initial>>
    BY <2>3 DEF InitialInv, Several, Present, Empty
  <2>4. CASE Restart BY <2>4 DEF Restart, Several, Present, Empty
  <2>5. CASE SetupBegin BY <2>5 DEF SetupBegin, CrowdInv, HasSynced, InitialInv, Several, Present, Empty
  <2>6. CASE InitialList
    BY <2>6 DEF InitialList, InitialInv, Several, Present, Empty
  <2>7. ASSUME NEW n \in Names, PopInitial(n) PROVE G
    <3>1. phase # "up" /\ phase' # "up" /\ crowded' = crowded
      BY <2>7 DEF PopInitial, CrowdInv, HasSynced, Empty
    <3>2. ASSUME NEW m \in Names, initial'[m] # None PROVE m # n /\ initial[m] # None
      BY <2>7, <3>2 DEF PopInitial, TypeOK, Objects
    <3>3. ASSUME NEW m \in Names, initial'[m] # None PROVE Several(initial)
      BY <2>7, <3>2, <3>3 DEF PopInitial, Several, Present
    <3>4. initial' # Empty => \E m \in Names : initial'[m] # None
      <4>1. initial' \in Objects BY <2>7 DEF PopInitial, TypeOK, Objects
      <4> QED BY <4>1 DEF Objects, Empty
    <3>5. Several(initial)' => \E m \in Names : initial'[m] # None BY DEF Several, Present
    <3>6. listed' = listed BY <2>7 DEF PopInitial
    <3> QED BY <3>1, <3>3, <3>4, <3>5, <3>6 DEF CrowdInv, HasSynced
  <2>8. CASE SetupEnd BY <2>8 DEF SetupEnd
  <2>9. CASE ReadTarget
    <3>1. CASE phase = "up" BY <2>9, <3>1 DEF ReadTarget
    <3>2. CASE phase # "up"
      <4>1. ~listed BY <2>9, <3>2 DEF ReadTarget, CrowdInv, TypeOK
      <4> QED BY <2>3, <2>9, <4>1 DEF ReadTarget
    <3> QED BY <3>1, <3>2
  <2>10. CASE Users
    BY <2>2, <2>3, <2>10, <2>1 DEF Users, Create, Delete, Change, RemoveCRD, InstallCRD
  <2>11. ASSUME NEW n \in Names, Relist(n) PROVE G BY <2>2, <2>11 DEF Relist
  <2>12. CASE Stop BY <2>12 DEF Stop, Several, Present, Empty
  <2> QED
    BY <2>1, <2>4, <2>5, <2>6, <2>7, <2>8, <2>9, <2>10, <2>11, <2>12
    DEF Next, Informer, EventHandler, Reconcile, Crash, OnAdd, OnDelete, OnTombstone,
        OnTombstonePanic, Enqueue, Dequeue, Apply, ApplyFailed, vars
<1> QED BY <1>1, <1>2, <1>3 DEF CrowdInv

LEMMA UpDef ==
  ScaleUpPending <=>
    (HasTarget(store) /\ HasSynced /\ ~swapped /\ ~crowded => SecuredUp \/ PendingAdd)
BY DEF ScaleUpPending, SecuredUp, PendingAdd, Pending

LEMMA UpNext ==
  TypeOK /\ InitialInv /\ CrowdInv /\ ScaleUpPending /\ [Next]_vars => ScaleUpPending'
<1> SUFFICES ASSUME TypeOK, InitialInv, CrowdInv, ScaleUpPending, [Next]_vars,
                    HasTarget(store'), HasSynced', ~swapped', ~crowded', ~SecuredUp
             PROVE  SecuredUp' \/ PendingAdd'
  BY SecuredNext DEF ScaleUpPending, SecuredUp, PendingAdd, Pending, HasTarget
<1> DEFINE Goal == SecuredUp' \/ PendingAdd'
<1> USE DEF apiVars, informerVars, workerVars, historyVars, PendingAdd
\* Without an object before, or with one that was announced, it is announced.
<1>1. ASSUME HasTarget(store), HasSynced, ~swapped, ~crowded, Pending({"add"}) => Pending({"add"})'
      PROVE  Goal
  BY <1>1, UpDef
<1>2. ASSUME NEW n \in Names, NEW c \in Classes, Create(n, c) PROVE Goal
  <2>1. c # None BY ClassAssumption
  <2>2. ~crowded /\ ~swapped /\ HasSynced BY <1>2 DEF Create, Change, HasSynced
  <2>3. CASE UNCHANGED <<store, notes>>
    BY <1>1, <2>2, <2>3 DEF Pending, HasTarget
  <2>4. CASE Notify("add", c) /\ store = api /\ store' = api'
    <3>1. CASE c = Target BY <2>4, <3>1, PendingAppend
    <3>2. CASE c # Target
      <4>1. HasTarget(store)
        BY <1>2, <2>4, <3>2 DEF Create, Change, HasTarget, TypeOK, Objects
      <4> QED BY <1>1, <2>2, <2>4, <4>1, PendingAppend
    <3> QED BY <3>1, <3>2
  <2> QED BY <1>2, <2>1, <2>3, <2>4 DEF Create, Change
<1>3. ASSUME NEW n \in Names, Delete(n) PROVE Goal
  <2>1. api[n] \in Classes BY <1>3 DEF Delete, TypeOK, Objects
  <2>2. ~crowded /\ ~swapped /\ HasSynced BY <1>3 DEF Delete, Change, HasSynced
  <2>3. HasTarget(store)
    BY <1>3, ClassAssumption DEF Delete, Change, HasTarget, TypeOK, Objects
  <2>4. Pending({"add"}) => Pending({"add"})'
    <3>1. CASE notes' = notes BY <3>1 DEF Pending
    <3>2. CASE Notify("delete", api[n]) BY <2>1, <3>2, PendingAppend
    <3> QED BY <1>3, <3>1, <3>2 DEF Delete, Change
  <2> QED BY <1>1, <2>2, <2>3, <2>4
<1>4. ASSUME NEW n \in Names, Relist(n) PROVE Goal
  <2>1. ~crowded /\ HasSynced BY <1>4 DEF Relist
  <2>2. CASE store[n] = None
    <3>1. api[n] \in Classes BY <1>4, <2>2 DEF Relist, TypeOK, Objects
    <3>2. Notify("add", api[n]) /\ swapped' = swapped BY <1>4, <2>2 DEF Relist
    <3>3. CASE api[n] = Target BY <3>1, <3>2, <3>3, PendingAppend
    <3>4. CASE api[n] # Target
      <4>1. HasTarget(store) BY <1>4, <3>4 DEF Relist, HasTarget, TypeOK, Objects
      <4> QED BY <1>1, <2>1, <3>1, <3>2, <4>1, PendingAppend
    <3> QED BY <3>3, <3>4
  <2>3. CASE store[n] # None /\ api[n] = None
    <3>1. store[n] \in Classes BY <2>3 DEF TypeOK, Objects
    <3>2. Notify("tombstone", store[n]) /\ swapped' = swapped BY <1>4, <2>3 DEF Relist
    <3>3. HasTarget(store)
      BY <1>4, <2>3, ClassAssumption DEF Relist, HasTarget, TypeOK, Objects
    <3> QED BY <1>1, <2>1, <3>1, <3>2, <3>3, PendingAppend
  <2>4. CASE store[n] # None /\ api[n] # None BY <1>4, <2>4 DEF Relist
  <2> QED BY <2>2, <2>3, <2>4
<1>5. CASE SetupBegin \/ SetupEnd
  BY <1>1, <1>5 DEF SetupBegin, SetupEnd, Pending, HasSynced, HasTarget
<1>6. CASE InitialList
  <2>1. FALSE BY <1>6, ClassAssumption DEF InitialList, InitialInv, HasTarget, Empty
  <2> QED BY <2>1
<1>7. ASSUME NEW n \in Names, PopInitial(n) PROVE Goal
  <2>1. initial[n] \in Classes BY <1>7 DEF PopInitial, TypeOK, Objects
  <2>2. CASE initial[n] = Target BY <1>7, <2>2, <2>1, PendingAppend DEF PopInitial
  <2>3. CASE initial[n] # Target
    <3>1. PICK m \in Names : store'[m] = Target BY DEF HasTarget
    <3>2. m \in Present(store)
      BY <1>7, <2>3, <3>1, ClassAssumption DEF PopInitial, Present, TypeOK, Objects
    <3>3. listed /\ ~HasSynced BY <1>7 DEF PopInitial, InitialInv, HasSynced, Empty
    <3>4. phase # "up" BY <3>3 DEF CrowdInv
    <3> QED BY <1>7, <3>2, <3>3, <3>4 DEF CrowdInv, PopInitial
  <2> QED BY <2>2, <2>3
<1>8. CASE Crash \/ OnTombstonePanic
  BY <1>8 DEF Crash, OnTombstonePanic, Restart, SecuredUp, ReconcileAhead
<1>9. CASE OnAdd
  <2>1. HasTarget(store) /\ HasSynced /\ ~swapped /\ ~crowded /\ Pending({"add"})
    BY <1>9, UpDef DEF OnAdd, HasSynced, HasTarget
  <2>2. CASE Head(notes).class = Target
    <3>1. PICK n \in Names : store[n] = Target BY <2>1 DEF HasTarget
    <3>2. ~SeveralTargets(store) BY <2>1 DEF CrowdInv
    <3>3. Matching(Target) = {n}
      BY <3>1, <3>2, ClassAssumption, FilteredAssumption
      DEF Matching, Present, SeveralTargets, TypeOK, Objects
    <3>4. Cardinality(Matching(Target)) = 1 BY <3>3, FS_Singleton
    <3> QED BY <1>9, <2>1, <2>2, <3>4 DEF OnAdd, resync, SecuredUp, ReconcileAhead
  <2>3. CASE Head(notes).class # Target
    BY <1>9, <2>1, <2>3, PendingTail DEF OnAdd
  <2> QED BY <2>2, <2>3
<1>10. CASE OnDelete \/ OnTombstone
  <2>1. UNCHANGED <<store, listed, initial, swapped, crowded>>
    BY <1>10 DEF OnDelete, OnTombstone
  <2>2. HasTarget(store) /\ HasSynced /\ ~swapped /\ ~crowded
    BY <2>1 DEF HasSynced, HasTarget
  <2>3. Pending({"add"}) BY <2>2, UpDef
  <2> QED BY <1>10, <2>3, PendingTail DEF OnDelete, OnTombstone
<1>11. CASE Enqueue BY <1>11 DEF Enqueue, SecuredUp, ReconcileAhead
<1>12. CASE Dequeue BY <1>12 DEF Dequeue, SecuredUp, ReconcileAhead
<1>13. CASE ReadTarget
  <2>1. phase = "up" BY <1>13 DEF ReadTarget, CrowdInv, HasSynced, TypeOK
  <2>2. ScaleTarget = 1 BY <1>13, <2>1 DEF ReadTarget, ScaleTarget, HasTarget
  <2> QED BY <1>13, <2>2 DEF ReadTarget, SecuredUp
<1>14. CASE Apply BY <1>1, <1>14 DEF Apply, Pending, HasSynced, HasTarget
<1>15. CASE ApplyFailed BY <1>15 DEF ApplyFailed, SecuredUp, ReconcileAhead
<1>16. CASE UNCHANGED vars BY <1>1, <1>16 DEF vars, Pending, HasSynced, HasTarget
<1>17. CASE RemoveCRD \/ InstallCRD
  BY <1>1, <1>17 DEF RemoveCRD, InstallCRD, Pending, HasSynced, HasTarget
<1>18. CASE Stop
  <2>1. FALSE BY <1>18 DEF Stop, HasSynced
  <2> QED BY <2>1
<1> QED
  BY <1>2, <1>3, <1>4, <1>5, <1>6, <1>7, <1>8, <1>9, <1>10, <1>11, <1>12, <1>13,
     <1>14, <1>15, <1>16, <1>17, <1>18
  DEF Next, Users, Informer, EventHandler, Reconcile

\* THEOREM: no scale-up is lost while objects come one by one: the add of a
\* first object finds the store with exactly that object, or a reconcile that
\* reads the store later than the add is under way.
THEOREM NoLostScaleUp == Spec => []ScaleUpPending
<1>1. Init => InitialInv /\ CrowdInv /\ ScaleUpPending
  BY ClassAssumption
  DEF Init, InitialInv, CrowdInv, Several, SeveralTargets, Present, HasSynced, Empty,
      ScaleUpPending, HasTarget
<1> QED BY <1>1, TypeCorrect, InitialNext, CrowdNext, UpNext, PTL DEF Spec

=============================================================================
