--------------------------- MODULE Replicas_proofs ---------------------------
(* Proofs of the type invariant of Replicas and of NoLostKey.              *)
EXTENDS Replicas, TLAPS

(* What a worker, an elector and the users may do, split up for the proofs. *)

LEMMA SpendType ==
    ASSUME TypeOK, NEW what \in {"changes", "faults"}, Spend(what)
    PROVE  budget' \in Budget
BY DEF TypeOK, Spend, Budget

LEMMA FinishType ==
    ASSUME TypeOK, NEW r \in Replica, NEW error \in BOOLEAN, Finish(r, error)
    PROVE  /\ worker' \in [Replica -> {"idle", "apply", "status"}]
           /\ obj' \in [Replica -> EventMesh] /\ queue' \in [Replica -> BOOLEAN]
           /\ done' \in [Replica -> BOOLEAN]
BY DEF TypeOK, Finish, NoMesh, EventMesh

\* The type invariant is inductive.
LEMMA TypeStep == TypeOK /\ [Next]_vars => TypeOK'
<1> SUFFICES ASSUME TypeOK, [Next]_vars PROVE TypeOK'
    OBVIOUS
<1>1. CASE Create
    <2>1. budget' \in Budget
        BY <1>1, SpendType DEF Create
    <2> QED
        BY <1>1, <2>1 DEF TypeOK, Create, EventMesh, electionVars, workerVars
<1>2. CASE Update
    <2>1. budget' \in Budget
        BY <1>2, SpendType DEF Update
    <2> QED
        BY <1>2, <2>1 DEF TypeOK, Update, EventMesh, electionVars, workerVars
<1>3. CASE DeleteMesh
    <2>1. budget' \in Budget
        BY <1>3, SpendType DEF DeleteMesh
    <2> QED
        BY <1>3, <2>1 DEF TypeOK, DeleteMesh, NoMesh, EventMesh, electionVars, workerVars
<1>4. CASE CollectGarbage
    BY <1>4 DEF TypeOK, CollectGarbage, NoObjs, electionVars, workerVars
<1>5. CASE Expire
    <2>1. budget' \in Budget
        BY <1>5, SpendType DEF Expire
    <2> QED
        BY <1>5, <2>1 DEF TypeOK, Expire, clusterVars, workerVars
<1>6. ASSUME NEW r \in Replica,
             Deliver(r) \/ Resync(r) \/ Acquire(r) \/ Demote(r) \/ Promote(r)
      PROVE  TypeOK'
    <2>1. CASE Deliver(r)
        BY <2>1 DEF TypeOK, Deliver, clusterVars, electionVars
    <2>6. CASE Resync(r)
        BY <2>6 DEF TypeOK, Resync, clusterVars, electionVars, workerVars
    <2>2. CASE Acquire(r)
        BY <2>2 DEF TypeOK, Acquire, clusterVars, workerVars
    <2>3. CASE Demote(r)
        BY <2>3 DEF TypeOK, Demote, clusterVars
    <2>4. CASE PromoteSet(r)
        BY <2>4 DEF TypeOK, PromoteSet, clusterVars
    <2>5. CASE PromoteEnqueue(r)
        <3>1. queue' \in [Replica -> BOOLEAN]
            BY <2>5 DEF TypeOK, PromoteEnqueue
        <3> QED
            BY <2>5, <3>1 DEF TypeOK, PromoteEnqueue, clusterVars, workerVars
    <2> QED
        BY <1>6, <2>1, <2>2, <2>3, <2>4, <2>5, <2>6 DEF Promote
<1>7. ASSUME NEW r \in Replica, Restart(r) PROVE TypeOK'
    <2>1. budget' \in Budget
        BY <1>7, SpendType DEF Restart
    <2> QED
        BY <1>7, <2>1 DEF TypeOK, Restart, NoMesh, EventMesh, clusterVars
<1>8. ASSUME NEW r \in Replica, Skip(r) \/ Gone(r) \/ Begin(r) \/ Apply(r) PROVE TypeOK'
    <2>1. CASE Skip(r) \/ Gone(r)
        BY <2>1 DEF TypeOK, Skip, Gone, clusterVars, electionVars, workerVars
    <2>2. CASE Begin(r)
        BY <2>2 DEF TypeOK, Begin, clusterVars, electionVars
    <2>3. CASE Apply(r)
        <3>1. obj[r].uid \in Nat /\ obj[r].gen \in Nat
            BY DEF TypeOK, EventMesh
        <3> QED
            BY <2>3, <3>1 DEF TypeOK, Apply, electionVars
    <2> QED
        BY <1>8, <2>1, <2>2, <2>3
<1>9. ASSUME NEW r \in Replica, ApplyFails(r) PROVE TypeOK'
    <2>1. budget' \in Budget
        BY <1>9, SpendType DEF ApplyFails
    <2>2. Finish(r, TRUE)
        BY <1>9 DEF ApplyFails
    <2> QED
        BY <1>9, <2>1, <2>2, FinishType DEF TypeOK, ApplyFails, clusterVars, electionVars
<1>10. ASSUME NEW r \in Replica, UpdateStatus(r) PROVE TypeOK'
    <2>1. Finish(r, FALSE)
        BY <1>10 DEF UpdateStatus
    <2> QED
        BY <1>10, <2>1, FinishType DEF TypeOK, UpdateStatus, clusterVars, electionVars
<1>11. ASSUME NEW r \in Replica, StatusFails(r) PROVE TypeOK'
    <2>1. budget' \in Budget
        BY <1>11, SpendType DEF StatusFails, TypeOK
    <2>2. Finish(r, TRUE)
        BY <1>11 DEF StatusFails
    <2> QED
        BY <1>11, <2>1, <2>2, FinishType DEF TypeOK, StatusFails, clusterVars, electionVars
<1>12. CASE UNCHANGED vars
    BY <1>12 DEF TypeOK, vars, clusterVars, electionVars, workerVars
<1> QED
    BY <1>1, <1>2, <1>3, <1>4, <1>5, <1>6, <1>7, <1>8, <1>9, <1>10, <1>11, <1>12
    DEF Next, Users, Work

LEMMA InitInv == Init => IInv
<1> SUFFICES ASSUME Init PROVE IInv
    OBVIOUS
<1>1. PICK exists \in {0, 1} :
        /\ mesh = [uid |-> exists, gen |-> exists] /\ created = exists
        /\ queue = [r \in Replica |-> exists = 1]
    BY DEF Init
<1>2. TypeOK
    BY <1>1, BoundsAssumption DEF Init, TypeOK, EventMesh, NoMesh, NoObjs, Budget
<1>3. NoLostKey /\ BusyCurrent
    BY DEF Init, NoLostKey, BusyCurrent
<1> QED
    BY <1>2, <1>3 DEF IInv

\* The state of the replicas, their queues and the cluster is well typed.
THEOREM TypeCorrect == Spec => []TypeOK
<1>1. Init => TypeOK
    BY InitInv DEF IInv
<1> QED
    BY <1>1, TypeStep, PTL DEF Spec

-----------------------------------------------------------------------------
\* The two parts are about one replica at a time: p is the one in question,
\* and what another replica does leaves its state alone.
Own(p) ==
    /\ leader[p] /\ promotion[p] = "none" /\ cache[p].uid # 0 =>
        queue[p] \/ (worker[p] # "idle" /\ obj[p] = cache[p]) \/ done[p]
    /\ done[p] /\ worker[p] # "idle" => obj[p] = cache[p]

LEMMA OwnStep ==
    ASSUME TypeOK, NEW p \in Replica, Own(p), [Next]_vars
    PROVE  Own(p)'
<1>1. CASE Users \/ CollectGarbage \/ Expire \/ UNCHANGED vars
    BY <1>1 DEF Own, Users, Create, Update, DeleteMesh, CollectGarbage, Expire, vars,
                electionVars, workerVars
<1>2. ASSUME NEW r \in Replica, Deliver(r) \/ Resync(r) PROVE Own(p)'
    BY <1>2 DEF TypeOK, Own, Deliver, Resync, electionVars, workerVars
<1>3. ASSUME NEW r \in Replica, Acquire(r) \/ Demote(r) \/ Promote(r) PROVE Own(p)'
    BY <1>3 DEF TypeOK, Own, Acquire, Demote, Promote, PromoteSet, PromoteEnqueue,
                electionVars, workerVars
<1>4. ASSUME NEW r \in Replica, Restart(r) PROVE Own(p)'
    BY <1>4 DEF TypeOK, Own, Restart
<1>5. ASSUME NEW r \in Replica, Skip(r) \/ Gone(r) \/ Begin(r) \/ Apply(r) PROVE Own(p)'
    BY <1>5 DEF TypeOK, Own, Skip, Gone, Begin, Apply, isNotLeaderNorObserver,
                electionVars, workerVars
<1>6. ASSUME NEW r \in Replica, NEW error \in BOOLEAN, worker[r] # "idle", Finish(r, error),
             UNCHANGED <<electionVars, cache>>
      PROVE  Own(p)'
    BY <1>6 DEF TypeOK, Own, Finish, electionVars
<1>7. ASSUME NEW r \in Replica, ApplyFails(r) \/ UpdateStatus(r) \/ StatusFails(r)
      PROVE  Own(p)'
    BY <1>6, <1>7 DEF ApplyFails, UpdateStatus, StatusFails
<1> QED
    BY <1>1, <1>2, <1>3, <1>4, <1>5, <1>7 DEF Next, Work

LEMMA OwnIsInvariant == NoLostKey /\ BusyCurrent <=> \A p \in Replica : Own(p)
BY DEF NoLostKey, BusyCurrent, Own

\* IInv is an invariant.
THEOREM Inductive == Spec => []IInv
<1>1. IInv /\ [Next]_vars => IInv'
    <2> SUFFICES ASSUME IInv, [Next]_vars PROVE IInv'
        OBVIOUS
    <2>1. TypeOK'
        BY TypeStep DEF IInv
    <2>2. \A p \in Replica : Own(p)'
        BY OwnStep, OwnIsInvariant DEF IInv
    <2>3. NoLostKey' /\ BusyCurrent'
        BY <2>2 DEF NoLostKey, BusyCurrent, Own
    <2> QED
        BY <2>1, <2>3 DEF IInv
<1> QED
    BY InitInv, <1>1, PTL DEF Spec

\* A leader forgets no EventMesh, for any number of replicas, changes of the
\* leader, restarts, failures and changes of the EventMesh.
THEOREM NothingForgotten == Spec => []NoLostKey
<1>1. IInv => NoLostKey
    BY DEF IInv
<1> QED
    BY Inductive, <1>1, PTL

=============================================================================
