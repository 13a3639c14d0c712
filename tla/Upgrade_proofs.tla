--------------------------- MODULE Upgrade_proofs ---------------------------
(***************************************************************************)
(* Proofs about Upgrade, for every number of parsers, releases and         *)
(* deployments, whatever the manifests contain.                            *)
(***************************************************************************)
EXTENDS Upgrade, WellFoundedInduction, TLAPS

\* The index of the next parser is one while parsing, and nothing is pending
\* that is not in the manifests.
ParsingInv == pc = "parse" => parsed < Len(Parsers)
TInv == TypeOK /\ ParsingInv

\* What the API server, the watch and the lister hold was applied once.
Witnessed ==
    /\ \A d \in Deployments : dep[d] # 0 => <<d, dep[d]>> \in applied
    /\ \A d \in Deployments : seen[d] # 0 => <<d, seen[d]>> \in applied
    /\ \A i \in DOMAIN events : events[i] \in applied

\* A release of a lower minor version than r's was deployed for parser p.
Upgraded(p, r) ==
    \E dr \in applied : dr[1] \in DeploymentsOf(p, r) /\ Minor[dr[2]] < Minor[r]

\* The post-installs a reconcile still has to apply are due.
PostDue == pc # "idle" => \A p \in post : Upgraded(p, rel)

IInv == TInv /\ Witnessed /\ PostDue /\ PostInstallOnlyOnUpgrade

LEMMA ParserTypes ==
    /\ Len(Parsers) \in Nat \ {0}
    /\ \A i \in 1..Len(Parsers) : Parsers[i] \in ParserSet
BY ParsersAssumption DEF ParserSet

LEMMA ManifestTypes ==
    ASSUME NEW p \in ParserSet, NEW r \in Releases
    PROVE  /\ \A i \in DOMAIN Manifest[p][r] : Manifest[p][r][i] \in Deployments /\ i \in Nat
           /\ DeploymentsOf(p, r) \subseteq Deployments
BY ManifestAssumption DEF DeploymentsOf

LEMMA Spent ==
    ASSUME TypeOK, NEW what \in {"rollouts", "failures", "crashes"}, Spend(what)
    PROVE  budget' \in [rollouts : Nat, failures : Nat, crashes : Nat]
BY DEF TypeOK, Spend

LEMMA InitTInv == Init => TInv
BY BoundsAssumption, ParserTypes DEF Init, TInv, TypeOK, ParsingInv

LEMMA NextTInv == TInv /\ [Next]_vars => TInv'
<1> SUFFICES ASSUME TInv, [Next]_vars PROVE TInv'
  OBVIOUS
<1> USE ReleasesAssumption, ParserTypes DEF TInv, TypeOK, ParsingInv
<1>1. CASE Crash
  <2>1. events' \in Seq(Deployments \X Releases)
    BY <1>1 DEF Crash, Boot
  <2>2. budget' \in [rollouts : Nat, failures : Nat, crashes : Nat]
    BY <1>1, Spent DEF Crash
  <2> QED BY <1>1, <2>1, <2>2 DEF Crash, Boot, history
<1>2. ASSUME NEW r \in Releases, Rollout(r) PROVE TInv'
  <2>1. events' \in Seq(Deployments \X Releases)
    BY <1>2 DEF Rollout, Boot
  <2>2. budget' \in [rollouts : Nat, failures : Nat, crashes : Nat]
    BY <1>2, Spent DEF Rollout
  <2> QED BY <1>2, <2>1, <2>2 DEF Rollout, Boot, history
<1>3. CASE Deliver
  <2>1. Head(events) \in Deployments \X Releases /\ Tail(events) \in Seq(Deployments \X Releases)
    BY <1>3 DEF Deliver
  <2> QED BY <1>3, <2>1 DEF Deliver, worker, history
<1>4. CASE Resync
  BY <1>4 DEF Resync, cluster, history
<1>5. CASE Start
  <2>1. parsed' \in 0..Len(Parsers) /\ parsed' < Len(Parsers)
    BY <1>5 DEF Start
  <2>2. post' \subseteq ParserSet /\ todo' \subseteq Deployments
    BY <1>5 DEF Start
  <2> QED BY <1>5, <2>1, <2>2 DEF Start, cluster, history
<1>6. CASE Parse
  <2>1. Parsers[parsed + 1] \in ParserSet
    BY <1>6 DEF Parse
  <2>2. DeploymentsOf(Parsers[parsed + 1], rel) \subseteq Deployments
    BY <2>1, ManifestTypes
  <2> QED BY <1>6, <2>1, <2>2 DEF Parse, cluster, history
<1>7. ASSUME NEW d \in Deployments, ApplyDeployment(d) PROVE TInv'
  BY <1>7 DEF ApplyDeployment
<1>8. ASSUME NEW p \in ParserSet, PostInstall(p) PROVE TInv'
  BY <1>8 DEF PostInstall, cluster
<1>9. CASE RequestFailed
  BY <1>9 DEF RequestFailed, Spend, cluster, history
<1>10. CASE Finish
  BY <1>10 DEF Finish, cluster
<1>11. CASE UNCHANGED vars
  BY <1>11 DEF vars, cluster, worker, history
<1> QED
  BY <1>1, <1>2, <1>3, <1>4, <1>5, <1>6, <1>7, <1>8, <1>9, <1>10, <1>11 DEF Next, ReconcileStep

\* Type correctness: among others, no parser is looked up beyond the last.
THEOREM TypeCorrect == Spec => []TypeOK
<1>1. TInv => TypeOK
  BY DEF TInv
<1> QED BY <1>1, InitTInv, NextTInv, PTL DEF Spec

LEMMA InitIInv == Init => IInv
BY InitTInv DEF Init, IInv, Witnessed, PostDue, PostInstallOnlyOnUpgrade

\* isUpgrade is sound: what the lister shows was deployed, and is older.
LEMMA UpgradeSound ==
    ASSUME TypeOK, Witnessed, NEW p \in ParserSet, isUpgrade(p)
    PROVE  Upgraded(p, rel)
<1>1. PICK i \in Found(p) : Minor[seen[Manifest[p][rel][i]]] < Minor[rel]
  BY DEF isUpgrade
<1> DEFINE d == Manifest[p][rel][i]
<1>2. d \in DeploymentsOf(p, rel) /\ d \in Deployments /\ seen[d] # 0
  BY <1>1, ManifestTypes DEF Found, DeploymentsOf, TypeOK
<1>3. <<d, seen[d]>> \in applied
  BY <1>2 DEF Witnessed
<1> QED BY <1>1, <1>2, <1>3 DEF Upgraded

\* Histories only grow, so what was deployed stays deployed.
LEMMA UpgradedStays ==
    ASSUME NEW p, NEW r, applied \subseteq applied', Upgraded(p, r)
    PROVE  Upgraded(p, r)'
BY DEF Upgraded

LEMMA NextIInv == IInv /\ [Next]_vars => IInv'
<1> SUFFICES ASSUME IInv, [Next]_vars PROVE IInv'
  OBVIOUS
<1>0. TInv'
  BY NextTInv DEF IInv
<1> USE DEF IInv
<1> HIDE DEF TInv
<1>T. TypeOK
  BY DEF TInv
<1>1. CASE Crash
  BY <1>0, <1>1, <1>T DEF Crash, Boot, history, Witnessed, PostDue, PostInstallOnlyOnUpgrade
<1>2. ASSUME NEW r \in Releases, Rollout(r) PROVE IInv'
  BY <1>0, <1>2, <1>T DEF Rollout, Boot, history, Witnessed, PostDue, PostInstallOnlyOnUpgrade
<1>3. CASE Deliver
  <2> USE <1>3 DEF Deliver, worker, history
  <2>1. Head(events) \in Deployments \X Releases /\ Head(events) \in applied
    BY <1>T DEF TypeOK, Witnessed
  <2>2. \A i \in DOMAIN events' : events'[i] \in applied
    BY <1>T DEF TypeOK, Witnessed
  <2>3. \A d \in Deployments : seen'[d] # 0 => <<d, seen'[d]>> \in applied
    BY <1>T, <2>1 DEF TypeOK, Witnessed
  <2>4. Witnessed'
    BY <2>2, <2>3 DEF Witnessed
  <2> QED BY <1>0, <2>4 DEF PostDue, PostInstallOnlyOnUpgrade, Upgraded
<1>4. CASE Resync
  BY <1>0, <1>4 DEF Resync, cluster, history, Witnessed, PostDue, PostInstallOnlyOnUpgrade, Upgraded
<1>5. CASE Start
  BY <1>0, <1>5 DEF Start, cluster, history, Witnessed, PostDue, PostInstallOnlyOnUpgrade
<1>6. CASE Parse
  <2> USE <1>6 DEF Parse, cluster, history
  <2>1. Parsers[parsed + 1] \in ParserSet
    BY <1>T, ParserTypes DEF TypeOK, TInv, ParsingInv
  <2>2. \A p \in post' : Upgraded(p, rel)
    BY <1>T, <2>1, UpgradeSound DEF PostDue
  <2>3. PostDue'
    BY <2>2 DEF PostDue, Upgraded
  <2> QED BY <1>0, <2>3 DEF Witnessed, PostInstallOnlyOnUpgrade
<1>7. ASSUME NEW d \in Deployments, ApplyDeployment(d) PROVE IInv'
  <2> USE <1>7 DEF ApplyDeployment
  <2>1. \A e \in Deployments : dep'[e] # 0 => <<e, dep'[e]>> \in applied'
    BY <1>T DEF TypeOK, Witnessed
  <2>2. \A i \in DOMAIN events' : events'[i] \in applied'
    BY <1>T DEF TypeOK, Witnessed
  <2>3. Witnessed'
    BY <2>1, <2>2 DEF Witnessed
  <2>4. PostDue'
    BY UpgradedStays DEF PostDue, Upgraded
  <2> QED BY <1>0, <2>3, <2>4 DEF PostInstallOnlyOnUpgrade
<1>8. ASSUME NEW p \in ParserSet, PostInstall(p) PROVE IInv'
  <2> USE <1>8 DEF PostInstall, cluster
  <2>1. Upgraded(p, rel)
    BY DEF PostDue
  <2>2. PostInstallOnlyOnUpgrade'
    BY <2>1 DEF PostInstallOnlyOnUpgrade, Upgraded
  <2> QED BY <1>0, <2>2 DEF Witnessed, PostDue, Upgraded
<1>9. CASE RequestFailed
  BY <1>0, <1>9 DEF RequestFailed, cluster, history, Witnessed, PostDue, PostInstallOnlyOnUpgrade
<1>10. CASE Finish
  BY <1>0, <1>10 DEF Finish, cluster, Witnessed, PostDue, PostInstallOnlyOnUpgrade
<1>11. CASE UNCHANGED vars
  BY <1>0, <1>11 DEF vars, cluster, worker, history, Witnessed, PostDue, PostInstallOnlyOnUpgrade, Upgraded
<1> QED
  BY <1>1, <1>2, <1>3, <1>4, <1>5, <1>6, <1>7, <1>8, <1>9, <1>10, <1>11 DEF Next, ReconcileStep

\* Post-install manifests are applied only where a lower minor version had
\* been deployed, however stale the lister, and wherever reconciles fail.
THEOREM OnlyOnUpgrade == Spec => []PostInstallOnlyOnUpgrade
<1>1. IInv => PostInstallOnlyOnUpgrade
  BY DEF IInv
<1> QED BY <1>1, InitIInv, NextIInv, PTL DEF Spec

-----------------------------------------------------------------------------
(* Upgrades are recognised.  The invariant follows a release from the      *)
(* parsers over Apply to its completion, and from there to the lister of   *)
(* the release after it.                                                   *)

\* What has been parsed is applied or still to be applied.
Progress ==
    /\ pc # "idle" => \A i \in 1..parsed : \A d \in DeploymentsOf(Parsers[i], rel) :
                          d \in todo \/ <<d, rel>> \in applied
    /\ pc \in {"apply", "postInstall"} => parsed = Len(Parsers)
    /\ pc = "postInstall" => todo = {}

\* What was applied exists.
Exists == \A dr \in applied : dep[dr[1]] # 0

\* Of a completed release everything was applied; a later one's lister has it.
Completed ==
    done # 0 => \A p \in ParserSet : \A d \in DeploymentsOf(p, done) :
                    <<d, done>> \in applied /\ (done # rel => seen[d] # 0)

\* Nothing of this minor version or a newer one was applied since the last
\* completed reconcile, or ever before.
FirstOfMinor == done # 0 /\ \A dr \in applied : Minor[dr[2]] < Minor[rel]

\* So far every parser has recognised the upgrade.
Recognised == pc = "parse" /\ FirstOfMinor => \A i \in 1..parsed : Parsers[i] \in post

RInv == TInv /\ Progress /\ Exists /\ Completed /\ Recognised

\* A nonempty set of positions has a last one.
LEMMA LastPosition ==
    ASSUME NEW n \in Nat, NEW S, S \subseteq 1..n, S # {}
    PROVE  \E i \in S : \A j \in S : j <= i
<1> DEFINE R == OpToRel(<, Nat)
           T == {n - i : i \in S}
<1>1. T \subseteq Nat /\ T # {}
  <2>1. \A i \in S : i \in Int /\ i <= n
    OBVIOUS
  <2>2. \A i \in S : n - i \in Nat
    BY <2>1
  <2> QED BY <2>2
<1>2. \E x \in T : \A y \in T : ~(<<y, x>> \in R)
  <2> HIDE DEF T, R
  <2>1. IsWellFoundedOn(R, Nat)
    BY NatLessThanWellFounded DEF R
  <2> QED BY <1>1, <2>1, WFMin
<1>3. PICK x \in T : \A y \in T : ~(<<y, x>> \in R)
  BY <1>2
<1>4. \A y \in T : x <= y
  <2> TAKE y \in T
  <2>1. x \in Nat /\ y \in Nat /\ ~(<<y, x>> \in R)
    BY <1>1, <1>3
  <2>2. <<y, x>> \in R <=> y < x
    BY <2>1 DEF OpToRel
  <2> HIDE DEF R, T
  <2>3. ~(y < x)
    BY <2>1, <2>2
  <2> QED BY <2>1, <2>3
<1>5. PICK i \in S : x = n - i
  OBVIOUS
<1>6. ASSUME NEW j \in S PROVE j <= i
  <2>1. n - j \in T
    OBVIOUS
  <2>2. n - i <= n - j
    BY <1>4, <1>5, <2>1
  <2>3. i \in Int /\ j \in Int
    OBVIOUS
  <2> QED BY <2>2, <2>3
<1> QED BY <1>6

\* isUpgrade is complete: it finds the first step to a new minor version.
LEMMA UpgradeComplete ==
    ASSUME TypeOK, Witnessed, Completed, FirstOfMinor, NEW p \in ParserSet
    PROVE  isUpgrade(p)
<1>1. done \in Releases /\ rel \in Releases
  BY DEF TypeOK, FirstOfMinor
<1>2. PICK i \in DOMAIN Manifest[p][rel] : \E j \in DOMAIN Manifest[p][done] :
          Manifest[p][rel][i] = Manifest[p][done][j]
  BY <1>1, SharedAssumption
<1>3. Manifest[p][rel][i] \in DeploymentsOf(p, done)
  BY <1>2 DEF DeploymentsOf
<1>4. done # rel
  <2>1. <<Manifest[p][rel][i], done>> \in applied
    BY <1>3 DEF Completed, FirstOfMinor
  <2>2. Minor[done] < Minor[rel]
    BY <2>1 DEF FirstOfMinor
  <2> QED BY <1>1, <2>2, ReleasesAssumption
<1>5. i \in Found(p)
  BY <1>3, <1>4 DEF Completed, FirstOfMinor, Found
<1>6. Found(p) \subseteq 1..Len(Manifest[p][rel]) /\ Len(Manifest[p][rel]) \in Nat
  BY <1>1, ManifestAssumption DEF Found
<1>7. PICK k \in Found(p) : \A j \in Found(p) : j <= k
  BY <1>5, <1>6, LastPosition
<1>8. Manifest[p][rel][k] \in Deployments /\ seen[Manifest[p][rel][k]] # 0
  BY <1>1, <1>7, ManifestTypes DEF Found
<1>9. <<Manifest[p][rel][k], seen[Manifest[p][rel][k]]>> \in applied
  BY <1>8 DEF Witnessed
<1>10. Minor[seen[Manifest[p][rel][k]]] < Minor[rel]
  BY <1>9 DEF FirstOfMinor
<1> QED BY <1>7, <1>10 DEF isUpgrade

LEMMA InitRInv == Init => RInv
BY InitTInv DEF Init, RInv, Progress, Exists, Completed, Recognised, FirstOfMinor

\* Nothing a reconcile relies on changes under it.
LEMMA NextRInv == RInv /\ IInv /\ [Next]_vars => RInv'
<1> SUFFICES ASSUME RInv, IInv, [Next]_vars PROVE RInv'
  OBVIOUS
<1>0. TInv'
  BY NextTInv DEF RInv
<1>T. TypeOK /\ ParsingInv
  BY DEF RInv, TInv
<1> USE DEF RInv
<1> HIDE DEF TInv
<1>1. ASSUME Boot, rel' \in Releases PROVE Progress' /\ Exists' /\ Completed' /\ Recognised'
  <2>1. ASSUME NEW p \in ParserSet, NEW d \in DeploymentsOf(p, done), done # 0 PROVE dep[d] # 0
    BY <2>1 DEF Completed, Exists
  <2> QED BY <1>1, <2>1 DEF Boot, history, Progress, Exists, Completed, Recognised
<1>2. CASE Crash
  BY <1>0, <1>1, <1>2, <1>T DEF Crash, TypeOK
<1>3. ASSUME NEW r \in Releases, Rollout(r) PROVE RInv'
  BY <1>0, <1>1, <1>3 DEF Rollout
<1>4. CASE Deliver
  <2>1. Head(events) \in Deployments \X Releases
    BY <1>4, <1>T DEF Deliver, TypeOK
  <2>2. ASSUME NEW p \in ParserSet, NEW d \in DeploymentsOf(p, done), done # 0, seen[d] # 0
        PROVE  seen'[d] # 0
    BY <1>4, <1>T, <2>1, <2>2, ReleasesAssumption, ManifestTypes DEF Deliver, TypeOK
  <2> QED BY <1>0, <1>4, <2>2 DEF Deliver, worker, history, Progress, Exists, Completed, Recognised, FirstOfMinor
<1>5. CASE Resync
  BY <1>0, <1>5 DEF Resync, cluster, history, Progress, Exists, Completed, Recognised, FirstOfMinor
<1>6. CASE Start
  BY <1>0, <1>6 DEF Start, cluster, history, Progress, Exists, Completed, Recognised
<1>7. CASE Parse
  <2> USE <1>7 DEF Parse, cluster, history
  <2>1. Parsers[parsed + 1] \in ParserSet /\ parsed' = parsed + 1 /\ parsed \in Nat
    BY <1>T, ParserTypes DEF TypeOK, ParsingInv
  <2>2. \A i \in 1..parsed' : i \in 1..parsed \/ i = parsed + 1
    BY <2>1
  <2>3. Progress'
    BY <1>T, <2>1, <2>2 DEF Progress
  <2>4. Recognised'
    BY <1>T, <2>1, <2>2, UpgradeComplete DEF Recognised, FirstOfMinor, IInv
  <2> QED BY <1>0, <2>3, <2>4 DEF Exists, Completed
<1>8. ASSUME NEW d \in Deployments, ApplyDeployment(d) PROVE RInv'
  <2> USE <1>8 DEF ApplyDeployment
  <2>1. Progress'
    BY <1>T DEF Progress
  <2>2. Exists'
    BY <1>T, ReleasesAssumption DEF Exists, TypeOK
  <2>3. Completed' /\ Recognised'
    BY DEF Completed, Recognised
  <2> QED BY <1>0, <2>1, <2>2, <2>3
<1>9. ASSUME NEW p \in ParserSet, PostInstall(p) PROVE RInv'
  BY <1>0, <1>9 DEF PostInstall, cluster, Progress, Exists, Completed, Recognised
<1>10. CASE RequestFailed
  BY <1>0, <1>10 DEF RequestFailed, cluster, history, Progress, Exists, Completed, Recognised
<1>11. CASE Finish
  <2> USE <1>11 DEF Finish, cluster
  <2>1. ASSUME NEW p \in ParserSet, NEW d \in DeploymentsOf(p, rel) PROVE <<d, rel>> \in applied
    <3>1. PICK i \in 1..Len(Parsers) : Parsers[i] = p
      BY ParsersAssumption DEF ParserSet
    <3> QED BY <3>1, <2>1 DEF Progress
  <2>2. Completed'
    BY <2>1 DEF Completed
  <2> QED BY <1>0, <2>2 DEF Progress, Exists, Recognised
<1>12. CASE UNCHANGED vars
  BY <1>0, <1>12 DEF vars, cluster, worker, history, Progress, Exists, Completed, Recognised, FirstOfMinor
<1> QED
  BY <1>2, <1>3, <1>4, <1>5, <1>6, <1>7, <1>8, <1>9, <1>10, <1>11, <1>12 DEF Next, ReconcileStep

\* The reconcile that first applies something of a new minor version has every
\* parser's post-install manifests to apply, whatever failed before it.
THEOREM AlwaysRecognised == Spec => UpgradeRecognised
<1>1. RInv /\ RInv' /\ IInv /\ [Next]_vars =>
        [pc = "parse" /\ pc' = "apply" /\ done # 0
           /\ (\A dr \in applied : Minor[dr[2]] < Minor[rel])
           => post' = ParserSet]_vars
  <2> SUFFICES ASSUME RInv, IInv, Next, pc = "parse", pc' = "apply", FirstOfMinor
               PROVE  post' = ParserSet
    BY DEF FirstOfMinor
  <2>T. TypeOK /\ ParsingInv
    BY DEF RInv, TInv
  <2>1. Parse
    BY DEF Next, ReconcileStep, Crash, Rollout, Boot, Deliver, worker, Resync, Start, ApplyDeployment,
           PostInstall, RequestFailed, Finish
  <2>2. parsed + 1 = Len(Parsers) /\ Parsers[parsed + 1] \in ParserSet /\ parsed \in Nat
    BY <2>T, <2>1, ParserTypes DEF Parse, TypeOK, ParsingInv
  <2>3. isUpgrade(Parsers[parsed + 1])
    BY <2>T, <2>2, UpgradeComplete DEF RInv, IInv
  <2>4. post' = post \cup {Parsers[parsed + 1]}
    BY <2>1, <2>3 DEF Parse
  <2>5. \A i \in 1..Len(Parsers) : Parsers[i] \in post'
    BY <2>2, <2>4 DEF RInv, Recognised
  <2>6. \A p \in ParserSet : \E i \in 1..Len(Parsers) : Parsers[i] = p
    BY ParsersAssumption DEF ParserSet
  <2> QED BY <2>T, <2>2, <2>4, <2>5, <2>6 DEF TypeOK
<1> QED BY <1>1, InitIInv, NextIInv, InitRInv, NextRInv, PTL DEF Spec, UpgradeRecognised

=============================================================================
