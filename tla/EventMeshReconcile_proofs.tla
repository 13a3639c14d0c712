---------------------- MODULE EventMeshReconcile_proofs ----------------------
(***************************************************************************)
(* Proofs about EventMeshReconcile, for every set of parsers and all       *)
(* bounds.                                                                 *)
(***************************************************************************)
EXTENDS EventMeshReconcile, TLAPS

Budget == [failures : Nat, crashes : Nat, changes : Nat]

LEMMA Spent ==
    ASSUME TypeOK, NEW what \in {"failures", "crashes", "changes"}, Spend(what)
    PROVE  budget' \in Budget
BY DEF TypeOK, Spend, Budget

\* Every operation on the conditions yields a status.
LEMMA StatusTypes ==
    ASSUME NEW s \in Status, NEW g \in Nat
    PROVE  /\ PreProcess(s, g) \in Status /\ PostProcess(s, g) \in Status
           /\ MarkInstallFailed(s) \in Status /\ MarkInstallSucceeded(s) \in Status
           /\ MarkDeploymentsAvailable(s) \in Status /\ MarkDeploymentsNotReady(s) \in Status
<1> USE DEF Status, ConditionStatus
<1>1. \A t \in Status : Happiness(t) \in ConditionStatus
  BY DEF Happiness
<1>2. PreProcess(s, g) \in Status /\ PostProcess(s, g) \in Status
  BY DEF PreProcess, PostProcess
<1>3. MarkInstallFailed(s) \in Status /\ MarkDeploymentsNotReady(s) \in Status
  BY DEF MarkInstallFailed, MarkDeploymentsNotReady
<1>4. MarkInstallSucceeded(s) \in Status
  BY <1>1 DEF MarkInstallSucceeded
<1>5. MarkDeploymentsAvailable(s) \in Status
  BY <1>1 DEF MarkDeploymentsAvailable
<1> QED BY <1>2, <1>3, <1>4, <1>5

LEMMA InitType == Init => TypeOK
<1> SUFFICES ASSUME Init PROVE TypeOK
  OBVIOUS
<1>1. NewStatus \in Status
  BY DEF NewStatus, Status, ConditionStatus
<1>2. em \in EventMesh /\ cached \in EventMesh
  BY <1>1 DEF Init, EventMesh
<1>3. loc \in Local
  BY <1>1 DEF Init, Local
<1>4. deps \in DeploymentState /\ depsSeen \in DeploymentState
  BY DEF Init, DeploymentState
<1>5. budget \in [failures : Nat, crashes : Nat, changes : Nat]
  BY BoundsAssumption DEF Init
<1> QED BY <1>2, <1>3, <1>4, <1>5 DEF Init, TypeOK, PCs

\* A reconcile step that changes nothing but the program counter, the local
\* state and the cluster.
LEMMA LocalType ==
    ASSUME TypeOK, local, pc' \in PCs, loc' \in Local, cert' \in BOOLEAN,
           deps' \in DeploymentState, tlsObjs' \subseteq Parsers, budget' \in Budget
    PROVE  TypeOK'
BY DEF TypeOK, local, Budget

LEMMA NextType == TypeOK /\ [Next]_vars => TypeOK'
<1> SUFFICES ASSUME TypeOK, [Next]_vars PROVE TypeOK'
  OBVIOUS
<1>0. /\ em \in EventMesh /\ cached \in EventMesh /\ queued \in BOOLEAN /\ pc \in PCs
      /\ loc \in Local /\ cert \in BOOLEAN /\ deps \in DeploymentState
      /\ depsSeen \in DeploymentState /\ tlsObjs \subseteq Parsers
      /\ installed \subseteq Nat /\ budget \in Budget
  BY DEF TypeOK, Budget
<1>L. /\ loc.gen \in Nat /\ loc.status \in Status /\ loc.toDelete \subseteq Parsers
      /\ \A s \in Status : [loc EXCEPT !.status = s] \in Local
      /\ [loc EXCEPT !.failed = TRUE] \in Local
  <2>1. loc.gen \in Nat /\ loc.status \in Status /\ loc.toDelete \subseteq Parsers
    BY <1>0 DEF Local
  <2>2. ASSUME NEW s \in Status PROVE [loc EXCEPT !.status = s] \in Local
    BY <1>0 DEF Local
  <2>3. [loc EXCEPT !.failed = TRUE] \in Local
    BY <1>0 DEF Local
  <2> QED BY <2>1, <2>2, <2>3
<1>1. ASSUME NEW tls \in BOOLEAN, EditSpec(tls) PROVE TypeOK'
  <2>1. em' \in EventMesh
    <3>1. em.gen \in Nat /\ em.status \in Status
      BY <1>0 DEF EventMesh
    <3>2. em' = [gen |-> em.gen + 1, tls |-> tls, status |-> em.status]
      BY <1>0, <1>1 DEF EditSpec, EventMesh
    <3>3. em.gen + 1 \in Nat
      BY <3>1
    <3> QED BY <3>1, <3>2, <3>3 DEF EventMesh
  <2> QED BY <1>0, <1>1, <2>1 DEF EditSpec, clusterVars, TypeOK, Budget
<1>2. CASE ToggleReady
  <2>1. budget' \in Budget
    BY <1>0, <1>2, Spent DEF ToggleReady
  <2>2. deps' \in DeploymentState
    BY <1>0, <1>2 DEF ToggleReady, DeploymentState
  <2> QED BY <1>0, <1>2, <2>1, <2>2 DEF ToggleReady, TypeOK, Budget
<1>3. CASE OtherInstallation
  <2>1. budget' \in Budget
    BY <1>0, <1>3, Spent DEF OtherInstallation
  <2> QED BY <1>0, <1>3, <2>1 DEF OtherInstallation, TypeOK, DeploymentState, Budget
<1>4. CASE ToggleCertManager
  <2>1. budget' \in Budget
    BY <1>0, <1>4, Spent DEF ToggleCertManager
  <2> QED BY <1>0, <1>4, <2>1 DEF ToggleCertManager, TypeOK, Budget
<1>5. CASE Crash
  <2>1. budget' \in Budget
    BY <1>0, <1>5, Spent DEF Crash
  <2> QED BY <1>0, <1>5, <2>1 DEF Crash, clusterVars, TypeOK, PCs, Budget
<1>6. CASE DeliverEventMesh
  BY <1>0, <1>6 DEF DeliverEventMesh, clusterVars, TypeOK, Budget
<1>7. CASE DeliverDeployments
  BY <1>0, <1>7 DEF DeliverDeployments, clusterVars, TypeOK, Budget
<1>8. CASE Resync
  BY <1>0, <1>8 DEF Resync, clusterVars, TypeOK, Budget
<1>9. CASE Start
  <2>1. cached.status \in Status /\ cached.gen \in Nat /\ cached.tls \in BOOLEAN
    BY <1>0 DEF EventMesh
  <2>2. PreProcess(cached.status, cached.gen) \in Status
    BY <2>1, StatusTypes
  <2>3. loc' \in Local
    BY <1>9, <2>1, <2>2 DEF Start, Local
  <2> QED BY <1>0, <1>9, <2>3 DEF Start, goto, clusterVars, TypeOK, PCs, Budget
<1>10. CASE PrecheckFailed
  <2>1. loc' \in Local
    BY <1>L, <1>10, StatusTypes DEF PrecheckFailed
  <2> QED BY <1>0, <1>10, <2>1, LocalType DEF PrecheckFailed, goto, clusterVars, PCs
<1>11. CASE PrecheckPassed
  BY <1>0, <1>11, LocalType DEF PrecheckPassed, goto, clusterVars, PCs
<1>12. ASSUME NEW p \in Parsers, Parse(p) PROVE TypeOK'
  <2>1. loc' \in Local
    BY <1>0, <1>12 DEF Parse, Local
  <2> QED BY <1>0, <1>12, <2>1, LocalType DEF Parse, goto, clusterVars, PCs
<1>13. CASE ParseFailed
  BY <1>0, <1>L, <1>13, LocalType DEF ParseFailed, fail, clusterVars, PCs
<1>14. CASE Transform
  BY <1>0, <1>14, LocalType DEF Transform, goto, clusterVars, PCs
<1>15. CASE TransformFailed
  <2>1. budget' \in Budget
    BY <1>15, Spent DEF TransformFailed
  <2> QED BY <1>0, <1>L, <1>15, <2>1, LocalType DEF TransformFailed, fail, clusterVars, PCs
<1>16. CASE Delete
  BY <1>0, <1>16, LocalType DEF Delete, goto, PCs
<1>17. CASE DeleteFailed
  <2>1. budget' \in Budget
    BY <1>17, Spent DEF DeleteFailed
  <2> QED BY <1>0, <1>L, <1>17, <2>1, LocalType DEF DeleteFailed, fail, PCs
<1>18. CASE Apply
  <2>1. Applied \in DeploymentState
    BY <1>0 DEF Applied, DeploymentState
  <2> QED BY <1>0, <1>18, <2>1, LocalType DEF Apply, goto, PCs
<1>19. CASE ApplyFailed
  <2>1. Applied \in DeploymentState
    BY <1>0 DEF Applied, DeploymentState
  <2>2. budget' \in Budget
    BY <1>0, <1>19, Spent DEF ApplyFailed
  <2>3. tlsObjs' \subseteq Parsers
    BY <1>0, <1>19 DEF ApplyFailed
  <2> QED BY <1>0, <1>L, <1>19, <2>1, <2>2, <2>3, LocalType DEF ApplyFailed, fail, PCs
<1>20. CASE PostInstall
  BY <1>0, <1>L, <1>20 DEF PostInstall, goto, clusterVars, TypeOK, PCs, Budget
<1>21. CASE PostInstallFailed
  <2>1. budget' \in Budget
    BY <1>21, Spent DEF PostInstallFailed
  <2> QED BY <1>0, <1>L, <1>21, <2>1, LocalType DEF PostInstallFailed, fail, clusterVars, PCs
<1>22. CASE CheckDeployments
  <2>1. \A s \in Status : MarkInstallSucceeded(s) \in Status
    BY StatusTypes
  <2>2. loc' \in Local
    BY <1>L, <1>22, <2>1, StatusTypes DEF CheckDeployments
  <2> QED BY <1>0, <1>22, <2>2, LocalType DEF CheckDeployments, goto, clusterVars, PCs
<1>23. CASE UpdateStatus
  <2>1. PostProcess(loc.status, loc.gen) \in Status
    BY <1>L, StatusTypes
  <2>2. em' \in EventMesh
    BY <1>0, <1>23, <2>1 DEF UpdateStatus, EventMesh
  <2>3. queued' \in BOOLEAN
    BY <1>23 DEF UpdateStatus
  <2> QED BY <1>0, <1>23, <2>2, <2>3 DEF UpdateStatus, goto, clusterVars, TypeOK, PCs, Budget
<1>24. CASE UpdateStatusFailed
  <2>1. budget' \in Budget
    BY <1>24, Spent DEF UpdateStatusFailed
  <2> QED BY <1>0, <1>24, <2>1 DEF UpdateStatusFailed, goto, clusterVars, TypeOK, PCs, Budget
<1>25. CASE UNCHANGED vars
  BY <1>25 DEF vars, clusterVars, TypeOK
<1> QED
  BY <1>1, <1>2, <1>3, <1>4, <1>5, <1>6, <1>7, <1>8, <1>9, <1>10, <1>11, <1>12, <1>13, <1>14,
     <1>15, <1>16, <1>17, <1>18, <1>19, <1>20, <1>21, <1>22, <1>23, <1>24, <1>25
  DEF Next, Environment, Informers, ReconcileStep

\* Type correctness: every status written is one of the conditions' values.
THEOREM TypeCorrect == Spec => []TypeOK
BY InitType, NextType, PTL DEF Spec

-----------------------------------------------------------------------------
(* Generations.  What the reconcile works on is never newer than what the  *)
(* cache shows, nor that than the API server; and no status is ahead of    *)
(* the reconcile that is to write the next one.                            *)

GenInv ==
    /\ cached.gen <= em.gen /\ (cached.gen = em.gen => cached.tls = em.tls)
    /\ cached.status.obs <= em.status.obs
    /\ em.status.obs <= cached.gen
    /\ pc # "idle" => /\ em.status.obs <= loc.gen /\ loc.gen <= cached.gen
                      /\ loc.gen = cached.gen => loc.tls = cached.tls

\* Ready is true only of installed generations, in every copy of the status.
ReadyInv ==
    /\ ReadyMeansInstalled
    /\ cached.status.ready = "True" => cached.status.obs \in installed
    /\ pc # "idle" /\ loc.status.ready = "True" => loc.gen \in installed
    /\ pc = "check" => loc.gen \in installed

IInv == TypeOK /\ GenInv /\ ReadyInv

\* The parts of the state the invariant speaks about.
LEMMA Parts ==
    ASSUME TypeOK
    PROVE  /\ em.gen \in Nat /\ em.tls \in BOOLEAN /\ em.status \in Status /\ em.status.obs \in Nat
           /\ cached.gen \in Nat /\ cached.tls \in BOOLEAN /\ cached.status \in Status
           /\ cached.status.obs \in Nat
           /\ loc.gen \in Nat /\ loc.tls \in BOOLEAN /\ loc.status \in Status
BY DEF TypeOK, EventMesh, Local, Status

\* PreProcess lets Ready stand only for the generation that was observed;
\* PostProcess writes the generation and nothing else.
LEMMA ProcessFacts ==
    ASSUME NEW s \in Status, NEW g \in Nat
    PROVE  /\ PreProcess(s, g).ready = "True" => s.obs = g /\ s.ready = "True"
           /\ PostProcess(s, g).obs = g /\ PostProcess(s, g).ready = s.ready
BY DEF PreProcess, PostProcess, Status, ConditionStatus

\* A step of the reconcile that leaves the EventMesh, the cache and the
\* history alone, and the status, too, or makes Ready other than true.
LEMMA StageStep ==
    ASSUME IInv, TypeOK', UNCHANGED <<em, cached, installed>>, pc # "idle", pc' # "check",
           loc'.gen = loc.gen, loc'.tls = loc.tls,
           loc'.status.ready = "True" => loc.status.ready = "True"
    PROVE  IInv'
BY DEF IInv, GenInv, ReadyInv, ReadyMeansInstalled

LEMMA InitIInv == Init => IInv
<1> SUFFICES ASSUME Init PROVE IInv
  OBVIOUS
<1>1. TypeOK
  BY InitType
<1>2. em.status = NewStatus /\ em.gen = 1 /\ cached = em /\ pc = "idle"
  BY DEF Init
<1> QED BY <1>1, <1>2 DEF IInv, GenInv, ReadyInv, ReadyMeansInstalled, NewStatus

LEMMA NextIInv == IInv /\ [Next]_vars => IInv'
<1> SUFFICES ASSUME IInv, [Next]_vars PROVE IInv'
  OBVIOUS
<1>T. TypeOK /\ TypeOK'
  BY NextType DEF IInv
<1>0. /\ em.gen \in Nat /\ em.status \in Status /\ em.status.obs \in Nat
      /\ cached.gen \in Nat /\ cached.status \in Status /\ cached.status.obs \in Nat
      /\ loc.gen \in Nat /\ loc.status \in Status
      /\ em \in EventMesh /\ loc \in Local
  BY <1>T, Parts DEF TypeOK
<1> USE DEF IInv
<1>1. ASSUME NEW tls \in BOOLEAN, EditSpec(tls) PROVE IInv'
  <2>1. em'.gen = em.gen + 1 /\ em'.status = em.status
    BY <1>0, <1>1 DEF EditSpec, EventMesh
  <2> QED BY <1>T, <1>0, <1>1, <2>1 DEF EditSpec, GenInv, ReadyInv, ReadyMeansInstalled
<1>2. CASE ToggleReady \/ OtherInstallation \/ ToggleCertManager \/ DeliverDeployments \/ Resync
  BY <1>T, <1>2 DEF ToggleReady, OtherInstallation, ToggleCertManager, DeliverDeployments, Resync,
                    GenInv, ReadyInv, ReadyMeansInstalled
<1>3. CASE Crash
  BY <1>T, <1>0, <1>3 DEF Crash, GenInv, ReadyInv, ReadyMeansInstalled
<1>4. CASE DeliverEventMesh
  BY <1>T, <1>0, <1>4 DEF DeliverEventMesh, GenInv, ReadyInv, ReadyMeansInstalled
<1>5. CASE Start
  <2>1. /\ loc'.gen = cached.gen /\ loc'.tls = cached.tls
        /\ loc'.status = PreProcess(cached.status, cached.gen)
        /\ pc = "idle" /\ pc' = "precheck"
    BY <1>5 DEF Start, goto
  <2>2. loc'.status.ready = "True" =>
            cached.status.obs = cached.gen /\ cached.status.ready = "True"
    BY <1>0, <2>1, ProcessFacts
  <2> QED BY <1>T, <1>0, <1>5, <2>1, <2>2 DEF Start, GenInv, ReadyInv, ReadyMeansInstalled
<1>6. CASE PrecheckFailed
  <2>1. loc'.gen = loc.gen /\ loc'.tls = loc.tls /\ loc'.status.ready = "False"
    BY <1>0, <1>6 DEF PrecheckFailed, MarkInstallFailed, Local, Status
  <2> QED BY <1>T, <1>6, <2>1, StageStep DEF PrecheckFailed, goto, local
<1>7. CASE PrecheckPassed \/ Transform \/ Delete \/ Apply
  BY <1>T, <1>7, StageStep DEF PrecheckPassed, Transform, Delete, Apply, goto, local
<1>8. ASSUME NEW p \in Parsers, Parse(p) PROVE IInv'
  <2>1. loc'.gen = loc.gen /\ loc'.tls = loc.tls /\ loc'.status = loc.status
    BY <1>0, <1>8 DEF Parse, Local
  <2> QED BY <1>T, <1>8, <2>1, StageStep DEF Parse, goto, local
<1>9. CASE ParseFailed \/ TransformFailed \/ DeleteFailed \/ ApplyFailed \/ PostInstallFailed
  <2>1. fail /\ local /\ pc # "idle"
    BY <1>9 DEF ParseFailed, TransformFailed, DeleteFailed, ApplyFailed, PostInstallFailed
  <2>2. loc'.gen = loc.gen /\ loc'.tls = loc.tls /\ loc'.status = loc.status
    BY <1>0, <2>1 DEF fail, Local
  <2> QED BY <1>T, <2>1, <2>2, StageStep DEF fail, local
<1>10. CASE PostInstall
  BY <1>T, <1>10 DEF PostInstall, goto, GenInv, ReadyInv, ReadyMeansInstalled
<1>11. CASE CheckDeployments
  <2>1. loc'.gen = loc.gen /\ loc'.tls = loc.tls
    BY <1>0, <1>11 DEF CheckDeployments, Local
  <2> QED BY <1>T, <1>11, <2>1 DEF CheckDeployments, goto, local, GenInv, ReadyInv, ReadyMeansInstalled
<1>12. CASE UpdateStatus
  <2> DEFINE s == PostProcess(loc.status, loc.gen)
  <2>1. s.obs = loc.gen /\ s.ready = loc.status.ready
    BY <1>0, ProcessFacts
  <2>2. CASE em' = em
    BY <1>T, <1>12, <2>2 DEF UpdateStatus, goto, GenInv, ReadyInv, ReadyMeansInstalled
  <2>3. CASE em' = [em EXCEPT !.status = s]
    <3>1. em'.gen = em.gen /\ em'.tls = em.tls /\ em'.status = s
      BY <1>0, <2>3 DEF EventMesh
    <3> HIDE DEF s
    <3> QED BY <1>T, <1>0, <1>12, <2>1, <3>1
            DEF UpdateStatus, goto, GenInv, ReadyInv, ReadyMeansInstalled
  <2> QED BY <1>12, <2>2, <2>3 DEF UpdateStatus
<1>13. CASE UpdateStatusFailed
  BY <1>T, <1>13 DEF UpdateStatusFailed, goto, GenInv, ReadyInv, ReadyMeansInstalled
<1>14. CASE UNCHANGED vars
  BY <1>T, <1>14 DEF vars, GenInv, ReadyInv, ReadyMeansInstalled
<1> QED
  BY <1>1, <1>2, <1>3, <1>4, <1>5, <1>6, <1>7, <1>8, <1>9, <1>10, <1>11, <1>12, <1>13, <1>14
  DEF Next, Environment, Informers, ReconcileStep

\* Ready is never reported of a generation whose manifests were not installed.
THEOREM ReadyOnlyIfInstalled == Spec => []ReadyMeansInstalled
<1>1. IInv => ReadyMeansInstalled
  BY DEF IInv, ReadyInv
<1> QED BY <1>1, InitIInv, NextIInv, PTL DEF Spec

\* A generation once observed is never unobserved: no reconcile overwrites the
\* status of a newer generation with that of an older one it had cached.
ObservedMonotonic == [][em'.status.obs >= em.status.obs]_vars

\* No step makes the observed generation smaller.
THEOREM ObservedNeverDecreases == Spec => ObservedMonotonic
<1>1. IInv /\ [Next]_vars => [em'.status.obs >= em.status.obs]_vars
  <2> SUFFICES ASSUME IInv, Next PROVE em'.status.obs >= em.status.obs
    OBVIOUS
  <2>0. /\ em \in EventMesh /\ em.status.obs \in Nat /\ loc.gen \in Nat /\ loc.status \in Status
    BY Parts DEF IInv, TypeOK
  <2>1. CASE UpdateStatus
    <3>1. em' = em \/ em'.status = PostProcess(loc.status, loc.gen)
      BY <2>0, <2>1 DEF UpdateStatus, EventMesh
    <3>2. em'.status.obs = em.status.obs \/ em'.status.obs = loc.gen
      BY <2>0, <3>1, ProcessFacts
    <3>3. em.status.obs <= loc.gen
      BY <2>1 DEF IInv, GenInv, UpdateStatus
    <3> QED BY <2>0, <3>2, <3>3
  <2>2. CASE \E tls \in BOOLEAN : EditSpec(tls)
    BY <2>0, <2>2 DEF EditSpec, EventMesh
  <2>3. CASE em' = em
    BY <2>0, <2>3
  <2> QED
    BY <2>1, <2>2, <2>3
    DEF Next, Environment, Informers, ReconcileStep, ToggleReady, OtherInstallation,
        ToggleCertManager, Crash, DeliverEventMesh, DeliverDeployments, Resync, local, Start,
        PrecheckFailed, PrecheckPassed, Parse, ParseFailed, Transform, TransformFailed, Delete,
        DeleteFailed, Apply, ApplyFailed, PostInstall, PostInstallFailed, CheckDeployments,
        UpdateStatusFailed
<1> QED BY <1>1, InitIInv, NextIInv, PTL DEF Spec, ObservedMonotonic

-----------------------------------------------------------------------------
(* TLS resources.  A reconcile without TLS has, after Delete, none left;    *)
(* while it parses, those of the parsers done are scheduled for deletion.  *)
(* No reconcile adds any once a generation without TLS is Ready, since by  *)
(* GenInv all copies of the spec are then of that generation.              *)

Clean(x) ==
    x.status.ready = "True" /\ x.status.obs = x.gen /\ ~x.tls => tlsObjs = {}

TLSInv ==
    /\ ~cert => tlsObjs = {}
    /\ Clean(em) /\ Clean(cached)
    /\ pc # "idle" /\ loc.status.ready = "True" /\ ~loc.tls => tlsObjs = {}
    /\ pc = "precheck" => loc.parsed = {}
    /\ pc = "parse" /\ ~loc.tls => tlsObjs \cap loc.parsed \subseteq loc.toDelete
    /\ pc \in {"transform", "delete"} /\ ~loc.tls => tlsObjs \subseteq loc.toDelete
    /\ pc \in {"apply", "postInstall", "check"} /\ ~loc.tls => tlsObjs = {}

\* A failing stage ends the reconcile with the status it had.
LEMMA FailedStage ==
    ASSUME IInv, TLSInv, fail, local, pc # "idle", tlsObjs' \subseteq tlsObjs, UNCHANGED cert
    PROVE  TLSInv'
<1>1. loc'.tls = loc.tls /\ loc'.status = loc.status
  BY DEF IInv, TypeOK, Local, fail
<1> QED BY <1>1 DEF TLSInv, Clean, fail, local

\* While a reconcile with TLS is under way, no copy of the EventMesh is Ready
\* in its current generation with TLS disabled.
LEMMA NotCleanedYet ==
    ASSUME IInv, pc # "idle", loc.tls
    PROVE  /\ em.status.obs = em.gen => em.tls
           /\ cached.status.obs = cached.gen => cached.tls
<1>1. /\ em.gen \in Nat /\ em.status.obs \in Nat /\ cached.gen \in Nat
      /\ cached.status.obs \in Nat /\ loc.gen \in Nat
  BY Parts DEF IInv
<1>2. em.status.obs = em.gen => loc.gen = cached.gen /\ cached.gen = em.gen
  BY <1>1 DEF IInv, GenInv
<1>3. cached.status.obs = cached.gen => loc.gen = cached.gen
  BY <1>1 DEF IInv, GenInv
<1> QED BY <1>2, <1>3 DEF IInv, GenInv

LEMMA NextTLSInv == IInv /\ TLSInv /\ [Next]_vars => TLSInv'
<1> SUFFICES ASSUME IInv, TLSInv, [Next]_vars PROVE TLSInv'
  OBVIOUS
<1>T. TypeOK
  BY DEF IInv
<1>0. /\ em.gen \in Nat /\ em.status.obs \in Nat /\ cached.gen \in Nat /\ cached.status \in Status
      /\ loc.gen \in Nat /\ loc.status \in Status /\ em \in EventMesh /\ loc \in Local
  BY <1>T, Parts DEF TypeOK
<1>1. ASSUME NEW tls \in BOOLEAN, EditSpec(tls) PROVE TLSInv'
  <2>1. em'.gen = em.gen + 1 /\ em'.status = em.status
    BY <1>0, <1>1 DEF EditSpec, EventMesh
  <2>2. em'.status.obs # em'.gen
    BY <1>0, <2>1, Parts DEF IInv, GenInv
  <2> QED BY <1>1, <2>2 DEF EditSpec, clusterVars, TLSInv, Clean
<1>2. CASE ToggleReady \/ OtherInstallation \/ DeliverDeployments \/ Resync
  BY <1>2 DEF ToggleReady, OtherInstallation, DeliverDeployments, Resync, clusterVars, TLSInv, Clean
<1>3. CASE ToggleCertManager
  BY <1>3 DEF ToggleCertManager, TLSInv, Clean
<1>4. CASE Crash \/ DeliverEventMesh
  BY <1>4 DEF Crash, DeliverEventMesh, clusterVars, TLSInv, Clean
<1>5. CASE Start
  <2>1. /\ loc'.gen = cached.gen /\ loc'.tls = cached.tls /\ loc'.parsed = {}
        /\ loc'.status = PreProcess(cached.status, cached.gen)
        /\ pc' = "precheck"
    BY <1>5 DEF Start, goto
  <2>2. loc'.status.ready = "True" =>
            cached.status.obs = cached.gen /\ cached.status.ready = "True"
    BY <1>0, <2>1, ProcessFacts
  <2> QED BY <1>5, <2>1, <2>2 DEF Start, clusterVars, TLSInv, Clean
<1>6. CASE PrecheckFailed
  <2>1. loc'.status.ready = "False"
    BY <1>0, <1>6 DEF PrecheckFailed, MarkInstallFailed, Local, Status
  <2> QED BY <1>6, <2>1 DEF PrecheckFailed, goto, local, clusterVars, TLSInv, Clean
<1>7. CASE PrecheckPassed \/ Transform
  BY <1>7 DEF PrecheckPassed, Transform, goto, local, clusterVars, TLSInv, Clean
<1>8. ASSUME NEW p \in Parsers, Parse(p) PROVE TLSInv'
  <2>1. /\ loc'.tls = loc.tls /\ loc'.status = loc.status /\ loc'.parsed = loc.parsed \cup {p}
        /\ loc'.toDelete = IF ~loc.tls /\ cert THEN loc.toDelete \cup {p} ELSE loc.toDelete
    BY <1>0, <1>8 DEF Parse, IsCertmanagerInstalled, Local
  <2>2. ~loc.tls => tlsObjs \cap loc'.parsed \subseteq loc'.toDelete
    BY <1>8, <2>1 DEF Parse, TLSInv
  <2>3. loc'.parsed = Parsers /\ ~loc.tls => tlsObjs \subseteq loc'.toDelete
    BY <1>T, <2>2 DEF TypeOK
  <2> QED BY <1>8, <2>1, <2>2, <2>3 DEF Parse, goto, local, clusterVars, TLSInv, Clean
<1>9. CASE ParseFailed \/ TransformFailed \/ DeleteFailed \/ PostInstallFailed
  <2>1. fail /\ local /\ pc # "idle" /\ tlsObjs' \subseteq tlsObjs /\ UNCHANGED cert
    BY <1>9 DEF ParseFailed, TransformFailed, DeleteFailed, PostInstallFailed, clusterVars
  <2> QED BY <2>1, FailedStage
<1>10. CASE Delete
  BY <1>10 DEF Delete, goto, local, TLSInv, Clean
<1>11. CASE Apply
  <2>1. CASE loc.tls
    BY <1>11, <2>1, NotCleanedYet DEF Apply, goto, local, TLSInv, Clean
  <2>2. CASE ~loc.tls
    BY <1>11, <2>2 DEF Apply, goto, local, TLSInv, Clean
  <2> QED BY <2>1, <2>2
<1>12. CASE ApplyFailed
  <2>1. CASE loc.tls /\ cert
    <3>1. loc'.tls = loc.tls /\ pc' = "update"
      BY <1>0, <1>12 DEF ApplyFailed, fail, Local
    <3> QED BY <1>12, <2>1, <3>1, NotCleanedYet DEF ApplyFailed, local, TLSInv, Clean
  <2>2. CASE ~(loc.tls /\ cert)
    BY <1>12, <2>2, FailedStage DEF ApplyFailed
  <2> QED BY <2>1, <2>2
<1>13. CASE PostInstall
  BY <1>13 DEF PostInstall, goto, clusterVars, TLSInv, Clean
<1>14. CASE CheckDeployments
  <2>1. loc'.tls = loc.tls
    BY <1>0, <1>14 DEF CheckDeployments, Local
  <2> QED BY <1>14, <2>1 DEF CheckDeployments, goto, local, clusterVars, TLSInv, Clean
<1>15. CASE UpdateStatus
  <2> DEFINE s == PostProcess(loc.status, loc.gen)
  <2>1. s.obs = loc.gen /\ s.ready = loc.status.ready
    BY <1>0, ProcessFacts
  <2>2. Clean(em)'
    <3>1. CASE em' = em
      BY <1>15, <3>1 DEF UpdateStatus, clusterVars, TLSInv, Clean
    <3>2. CASE em' = [em EXCEPT !.status = s]
      <4>1. em'.gen = em.gen /\ em'.tls = em.tls /\ em'.status = s
        BY <1>0, <3>2 DEF EventMesh
      <4>2. loc.gen = em.gen => loc.tls = em.tls
        BY <1>0, <1>15 DEF UpdateStatus, IInv, GenInv
      <4> HIDE DEF s
      <4> QED BY <1>15, <2>1, <4>1, <4>2 DEF UpdateStatus, clusterVars, TLSInv, Clean
    <3> QED BY <1>15, <3>1, <3>2 DEF UpdateStatus
  <2> QED BY <1>15, <2>2 DEF UpdateStatus, goto, clusterVars, TLSInv, Clean
<1>16. CASE UpdateStatusFailed
  BY <1>16 DEF UpdateStatusFailed, goto, clusterVars, TLSInv, Clean
<1>17. CASE UNCHANGED vars
  BY <1>17 DEF vars, clusterVars, TLSInv, Clean
<1> QED
  BY <1>1, <1>2, <1>3, <1>4, <1>5, <1>6, <1>7, <1>8, <1>9, <1>10, <1>11, <1>12, <1>13, <1>14,
     <1>15, <1>16, <1>17
  DEF Next, Environment, Informers, ReconcileStep

\* An EventMesh that is Ready in its current generation with TLS disabled has
\* no TLS resources left.
THEOREM TLSIsRemoved == Spec => []TLSRemoved
<1>1. Init => TLSInv
  BY DEF Init, TLSInv, Clean
<1>2. TLSInv => TLSRemoved
  BY DEF TLSInv, Clean, TLSRemoved
<1> QED BY <1>1, <1>2, InitIInv, NextIInv, NextTLSInv, PTL DEF Spec

-----------------------------------------------------------------------------
(* The refinement of Installer.  No generation that was installed is newer *)
(* than the one the cache shows, nor, while a reconcile runs, than its own; *)
(* so what a reconcile installs, and reports of, is the latest.            *)

OrderInv ==
    /\ em.gen >= 1 /\ cached.gen >= 1
    /\ \A h \in installed : h <= cached.gen
    /\ pc # "idle" => loc.gen >= 1 /\ \A h \in installed : h <= loc.gen

\* The steps that leave both EventMeshes and the history alone.
Inner ==
    \/ ToggleReady \/ OtherInstallation \/ ToggleCertManager \/ DeliverDeployments \/ Resync
    \/ PrecheckFailed \/ PrecheckPassed \/ (\E p \in Parsers : Parse(p)) \/ ParseFailed
    \/ Transform \/ TransformFailed \/ Delete \/ DeleteFailed \/ Apply \/ ApplyFailed
    \/ PostInstallFailed \/ CheckDeployments \/ UpdateStatusFailed \/ UNCHANGED vars

Steps ==
    \/ (\E tls \in BOOLEAN : EditSpec(tls)) \/ Crash \/ DeliverEventMesh
    \/ Start \/ PostInstall \/ UpdateStatus \/ Inner

LEMMA NextSteps == [Next]_vars => Steps
BY DEF Next, Environment, Informers, ReconcileStep, Steps, Inner

\* They leave the reconcile's copy alone, too, or there is no reconcile.
LEMMA InnerStep ==
    ASSUME TypeOK, Inner
    PROVE  /\ UNCHANGED <<em, cached, installed>>
           /\ pc' # "idle" => pc # "idle" /\ loc'.gen = loc.gen
<1>0. loc \in Local
  BY DEF TypeOK
<1>1. CASE ToggleReady \/ OtherInstallation \/ ToggleCertManager \/ DeliverDeployments \/ Resync
  BY <1>1 DEF ToggleReady, OtherInstallation, ToggleCertManager, DeliverDeployments, Resync
<1>2. CASE PrecheckFailed \/ PrecheckPassed \/ (\E p \in Parsers : Parse(p)) \/ CheckDeployments
  BY <1>0, <1>2 DEF PrecheckFailed, PrecheckPassed, Parse, CheckDeployments, local, Local
<1>3. CASE Transform \/ Delete \/ Apply
  BY <1>3 DEF Transform, Delete, Apply, local
<1>4. CASE ParseFailed \/ TransformFailed \/ DeleteFailed \/ ApplyFailed \/ PostInstallFailed
  <2>1. fail /\ local /\ pc # "idle"
    BY <1>4 DEF ParseFailed, TransformFailed, DeleteFailed, ApplyFailed, PostInstallFailed
  <2> QED BY <1>0, <2>1 DEF fail, local, Local
<1>5. CASE UpdateStatusFailed
  BY <1>5 DEF UpdateStatusFailed, goto
<1>6. CASE UNCHANGED vars
  BY <1>6 DEF vars
<1> QED BY <1>1, <1>2, <1>3, <1>4, <1>5, <1>6 DEF Inner

LEMMA NextOrder == IInv /\ OrderInv /\ [Next]_vars => OrderInv'
<1> SUFFICES ASSUME IInv, OrderInv, Steps PROVE OrderInv'
  BY NextSteps
<1>0. /\ em \in EventMesh /\ em.gen \in Nat /\ cached.gen \in Nat /\ loc.gen \in Nat
      /\ installed \subseteq Nat /\ cached.gen <= em.gen
      /\ pc # "idle" => loc.gen <= cached.gen
  BY Parts DEF IInv, TypeOK, GenInv
<1>1. ASSUME NEW tls \in BOOLEAN, EditSpec(tls) PROVE OrderInv'
  <2>1. em'.gen = em.gen + 1
    BY <1>0, <1>1 DEF EditSpec, EventMesh
  <2> QED BY <1>0, <1>1, <2>1 DEF EditSpec, OrderInv
<1>2. CASE Crash \/ DeliverEventMesh
  <2>1. cached' = em /\ UNCHANGED <<em, installed, loc>> /\ (pc' # "idle" => pc # "idle")
    BY <1>2 DEF Crash, DeliverEventMesh
  <2>2. \A h \in installed : h <= em.gen
    BY <1>0 DEF OrderInv
  <2> QED BY <2>1, <2>2 DEF OrderInv
<1>3. CASE Start
  BY <1>3 DEF Start, goto, OrderInv
<1>4. CASE PostInstall
  <2>1. UNCHANGED <<em, cached, loc>> /\ installed' = installed \cup {loc.gen} /\ pc # "idle"
    BY <1>4 DEF PostInstall
  <2> QED BY <1>0, <2>1 DEF OrderInv
<1>5. CASE UpdateStatus
  <2>1. em'.gen = em.gen
    BY <1>0, <1>5 DEF UpdateStatus, EventMesh
  <2> QED BY <1>5, <2>1 DEF UpdateStatus, goto, OrderInv
<1>6. CASE Inner
  <2>1. UNCHANGED <<em, cached, installed>> /\ (pc' # "idle" => pc # "idle" /\ loc'.gen = loc.gen)
    BY <1>6, InnerStep DEF IInv
  <2> QED BY <2>1 DEF OrderInv
<1> QED BY <1>1, <1>2, <1>3, <1>4, <1>5, <1>6 DEF Steps

\* TLS resources come only from a reconcile with TLS, which means that no
\* report denies them.
LEMMA InnerPromised ==
    ASSUME IInv, Inner
    PROVE  [Promise!Next]_(Promise!vars)
<1>1. UNCHANGED <<em, installed>>
  BY InnerStep DEF IInv
<1>2. CASE tlsObjs' # {} /\ tlsObjs = {}
  <2>1. pc # "idle" /\ loc.tls
    <3>1. Apply \/ ApplyFailed
      BY <1>2 DEF Inner, ToggleReady, OtherInstallation, ToggleCertManager, DeliverDeployments,
                  Resync, PrecheckFailed, PrecheckPassed, Parse, ParseFailed, Transform,
                  TransformFailed, Delete, DeleteFailed, PostInstallFailed, CheckDeployments,
                  UpdateStatusFailed, clusterVars, vars
    <3> QED BY <1>2, <3>1 DEF Apply, ApplyFailed
  <2>2. em.status.obs = em.gen => em.tls
    BY <2>1, NotCleanedYet
  <2>3. Promise!Bring
    BY <1>1, <1>2, <2>2 DEF Promise!Bring, Promise!Clean
  <2> QED BY <2>3 DEF Promise!Next
<1>3. CASE tlsObjs' = {}
  <2>1. Promise!Remove
    BY <1>1, <1>3 DEF Promise!Remove
  <2> QED BY <2>1 DEF Promise!Next
<1>4. CASE tlsObjs' # {} /\ tlsObjs # {}
  BY <1>1, <1>4 DEF Promise!vars
<1> QED BY <1>2, <1>3, <1>4

LEMMA PromisedStep ==
    IInv /\ TLSInv /\ TLSInv' /\ OrderInv /\ [Next]_vars => [Promise!Next]_(Promise!vars)
<1> SUFFICES ASSUME IInv, TLSInv, TLSInv', OrderInv, Steps
             PROVE  [Promise!Next]_(Promise!vars)
  BY NextSteps
<1>0. /\ em \in EventMesh /\ em.gen \in Nat /\ em.status.obs \in Nat /\ cached.gen \in Nat
      /\ loc.gen \in Nat /\ loc.status \in Status
  BY Parts DEF IInv, TypeOK
<1>R. pc # "idle" => loc.gen \in 1..em.gen /\ Promise!Latest(loc.gen)
  BY <1>0 DEF OrderInv, IInv, GenInv, Promise!Latest
<1>1. ASSUME NEW tls \in BOOLEAN, EditSpec(tls) PROVE [Promise!Next]_(Promise!vars)
  <2>1. em'.gen = em.gen + 1 /\ em'.tls = tls /\ em'.status = em.status
    BY <1>0, <1>1 DEF EditSpec, EventMesh
  <2>2. UNCHANGED <<tlsObjs, installed>>
    BY <1>1 DEF EditSpec, clusterVars
  <2>3. Promise!Edit(tls)
    BY <2>1, <2>2 DEF Promise!Edit
  <2> QED BY <2>3 DEF Promise!Next
<1>2. CASE Crash \/ DeliverEventMesh \/ Start
  <2>1. UNCHANGED <<em, tlsObjs, installed>>
    BY <1>2 DEF Crash, DeliverEventMesh, Start, clusterVars
  <2> QED BY <2>1 DEF Promise!vars
<1>3. CASE PostInstall
  <2>1. pc # "idle" /\ UNCHANGED <<em, tlsObjs>> /\ installed' = installed \cup {loc.gen}
    BY <1>3 DEF PostInstall, clusterVars
  <2>2. Promise!Install(loc.gen)
    BY <1>R, <2>1 DEF Promise!Install
  <2> QED BY <1>R, <2>1, <2>2 DEF Promise!Next
<1>4. CASE UpdateStatus
  <2> DEFINE s == PostProcess(loc.status, loc.gen)
             ok == loc.status.ready = "True"
  <2>1. s.obs = loc.gen /\ s.ready = loc.status.ready
    BY <1>0, ProcessFacts
  <2>2. pc # "idle" /\ UNCHANGED <<tlsObjs, installed>>
    BY <1>4 DEF UpdateStatus, clusterVars
  <2>3. CASE em' = em
    BY <2>2, <2>3 DEF Promise!vars
  <2>4. CASE em' = [em EXCEPT !.status = s]
    <3>1. em'.gen = em.gen /\ em'.tls = em.tls /\ em'.status = s
      BY <1>0, <2>4 DEF EventMesh
    <3>2. loc.gen >= em.status.obs /\ (ok => loc.gen \in installed)
      BY <1>0, <2>2 DEF IInv, GenInv, ReadyInv
    <3>3. em'.status.ready = "True" /\ em'.status.obs = em'.gen /\ ~em'.tls => tlsObjs = {}
      BY <2>2 DEF TLSInv, Clean
    <3>4. em'.status.obs = loc.gen /\ em'.status.ready = loc.status.ready
      BY <2>1, <3>1
    <3> HIDE DEF s
    <3>5. Promise!Report(loc.gen, ok)
      BY <1>R, <2>2, <3>1, <3>2, <3>3, <3>4 DEF Promise!Report, Promise!Clean
    <3> QED BY <1>R, <2>2, <3>5 DEF Promise!Next
  <2> QED BY <1>4, <2>3, <2>4 DEF UpdateStatus
<1>5. CASE Inner
  BY <1>5, InnerPromised
<1> QED BY <1>1, <1>2, <1>3, <1>4, <1>5 DEF Steps

\* THEOREM: the reconcile implements Installer: through stale caches, failures
\* and restarts, generations are installed in order, and a status that is
\* written is of the one that was installed last or of a later one.
THEOREM Implementation == Spec => ImplementsInstaller
<1>1. Init => Promise!Init
  BY DEF Init, NewStatus, Promise!Init
<1>2. Init => TLSInv
  BY DEF Init, TLSInv, Clean
<1>3. Init => OrderInv
  BY DEF Init, OrderInv
<1> QED
  BY <1>1, <1>2, <1>3, InitIInv, NextIInv, NextTLSInv, NextOrder, PromisedStep, PTL
  DEF Spec, ImplementsInstaller, Promise!Spec

=============================================================================
