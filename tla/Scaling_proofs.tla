--------------------------- MODULE Scaling_proofs ---------------------------
(***************************************************************************)
(* Theorems about Scaling.  The overrides are applied one after the other, *)
(* by folds over their sequence; the first part of the module is about     *)
(* what these compute, the second about the reconcile.                     *)
(***************************************************************************)
EXTENDS Scaling, WellFoundedInduction, TLAPS

-----------------------------------------------------------------------------
(* Natural numbers.                                                        *)

\* Induction, for the set of the numbers that have a property.
LEMMA SetInduction ==
    ASSUME NEW S, 0 \in S, \A k \in Nat : k \in S => k + 1 \in S
    PROVE  Nat \subseteq S
<1> DEFINE R == OpToRel(<, Nat)
           T == Nat \ S
<1> SUFFICES ASSUME T # {} PROVE FALSE
  OBVIOUS
<1>1. \E x \in T : \A y \in T : ~(<<y, x>> \in R)
  <2>1. T \subseteq Nat
    OBVIOUS
  <2> HIDE DEF T, R
  <2>2. IsWellFoundedOn(R, Nat)
    BY NatLessThanWellFounded DEF R
  <2> QED BY <2>1, <2>2, WFMin
<1>2. PICK x \in T : \A y \in T : ~(<<y, x>> \in R)
  BY <1>1
<1>3. x - 1 \in Nat /\ x - 1 + 1 = x
  OBVIOUS
<1>4. x - 1 \notin T
  <2>1. x - 1 < x
    BY <1>3
  <2>2. <<x - 1, x>> \in R
    BY <1>3, <2>1 DEF OpToRel
  <2> HIDE DEF R, T
  <2> QED BY <1>2, <2>2
<1>5. x \in S
  BY <1>3, <1>4
<1> QED BY <1>5

\* The greatest of a set of numbers that has one.
LEMMA MaxIs ==
    ASSUME NEW S, NEW m \in S, S \subseteq Int, \A x \in S : x <= m
    PROVE  Max(S) = m
<1>1. m \in S /\ \A y \in S : m >= y
  OBVIOUS
<1>2. Max(S) \in S /\ \A y \in S : Max(S) >= y
  BY <1>1, Zenon DEF Max
<1>3. Max(S) >= m /\ m >= Max(S) /\ Max(S) \in Int /\ m \in Int
  BY <1>1, <1>2
<1> QED BY <1>3

-----------------------------------------------------------------------------
(* The folds.  A fold is defined on the subsets of the domain of its       *)
(* sequence.  After(what, ov, d, k) is what the first k overrides make of  *)
(* the pod template of d, of its HPA or of its replicas.                   *)

Before(what, d) ==
    IF what = "template" THEN Templates[d] ELSE IF what = "hpa" THEN DefaultHPA ELSE None

OverrideTemplate(d, t, o) ==
    IF o.name # d THEN t
    ELSE replaceHostNetwork(o, replaceContainers(o, replacePlacement(o, replaceLabels(o, t))))
OverrideHPA(d, h, o) == IF o.name = d /\ o.replicas # None THEN HPAReplicas(h, o.replicas) ELSE h
OverrideReplicas(d, r, o) ==
    IF o.name = d /\ o.replicas # None /\ d \notin Autoscaled THEN o.replicas ELSE r

OverrideOne(what, d, x, o) ==
    IF what = "template" THEN OverrideTemplate(d, x, o)
    ELSE IF what = "hpa" THEN OverrideHPA(d, x, o) ELSE OverrideReplicas(d, x, o)

IsFold(what, ov, d, n, f) ==
    f = [s \in SUBSET (1..n) |->
            IF s = {} THEN Before(what, d) ELSE OverrideOne(what, d, f[s \ {Max(s)}], ov[Max(s)])]

After(what, ov, d, k) == (CHOOSE f : IsFold(what, ov, d, Len(ov), f))[1..k]

LEMMA FoldExtends ==
    ASSUME NEW what, NEW ov, NEW d, NEW k \in Nat, NEW g, IsFold(what, ov, d, k, g)
    PROVE  \E f : IsFold(what, ov, d, k + 1, f)
<1> DEFINE f == [s \in SUBSET (1..(k + 1)) |->
                    IF k + 1 \in s THEN OverrideOne(what, d, g[s \ {k + 1}], ov[k + 1]) ELSE g[s]]
<1>1. ASSUME NEW s \in SUBSET (1..(k + 1)), s # {}
      PROVE  f[s] = OverrideOne(what, d, f[s \ {Max(s)}], ov[Max(s)])
  <2>1. CASE k + 1 \in s
    <3>1. Max(s) = k + 1
      <4>1. s \subseteq Int /\ \A x \in s : x <= k + 1
        OBVIOUS
      <4> QED BY <2>1, <4>1, MaxIs, Zenon
    <3>2. s \ {k + 1} \in SUBSET (1..(k + 1)) /\ k + 1 \notin s \ {k + 1}
      OBVIOUS
    <3>3. f[s \ {k + 1}] = g[s \ {k + 1}]
      BY <3>2, Zenon
    <3>4. f[s] = OverrideOne(what, d, g[s \ {k + 1}], ov[k + 1])
      BY <2>1, Zenon
    <3> HIDE DEF f
    <3> QED BY <3>1, <3>3, <3>4
  <2>2. CASE k + 1 \notin s
    <3>1. s \in SUBSET (1..k)
      BY <2>2
    <3>2. s \ {Max(s)} \in SUBSET (1..k) /\ s \ {Max(s)} \in SUBSET (1..(k + 1)) /\ k + 1 \notin s \ {Max(s)}
      BY <2>2, <3>1
    <3>3. f[s] = g[s] /\ f[s \ {Max(s)}] = g[s \ {Max(s)}]
      BY <2>2, <3>2, Zenon
    <3>4. g[s] = OverrideOne(what, d, g[s \ {Max(s)}], ov[Max(s)])
      BY <1>1, <3>1, Zenon DEF IsFold
    <3> HIDE DEF f
    <3> QED BY <3>3, <3>4
  <2> QED BY <2>1, <2>2
<1>2. f[{}] = Before(what, d)
  <2>1. {} \in SUBSET (1..k) /\ {} \in SUBSET (1..(k + 1)) /\ k + 1 \notin {}
    OBVIOUS
  <2>2. g[{}] = Before(what, d)
    BY <2>1, Zenon DEF IsFold
  <2> QED BY <2>1, <2>2, Zenon
<1>3. f = [s \in SUBSET (1..(k + 1)) |-> f[s]]
  OBVIOUS
<1>4. IsFold(what, ov, d, k + 1, f)
  <2> HIDE DEF f
  <2> QED BY <1>1, <1>2, <1>3 DEF IsFold
<1> QED BY <1>4

LEMMA FoldExists ==
    ASSUME NEW what, NEW ov, NEW d, NEW n \in Nat
    PROVE  \E f : IsFold(what, ov, d, n, f)
<1> DEFINE S == {k \in Nat : \E f : IsFold(what, ov, d, k, f)}
<1>1. 0 \in S
  <2> DEFINE f == [s \in SUBSET (1..0) |-> Before(what, d)]
  <2>1. \A s \in SUBSET (1..0) : s = {}
    OBVIOUS
  <2>2. IsFold(what, ov, d, 0, f)
    BY <2>1 DEF IsFold
  <2> QED BY <2>2
<1>2. ASSUME NEW k \in Nat, k \in S PROVE k + 1 \in S
  BY <1>2, FoldExtends
<1>3. Nat \subseteq S
  <2> HIDE DEF S
  <2> QED BY <1>1, <1>2, SetInduction
<1> QED BY <1>3

LEMMA AfterAll ==
    ASSUME NEW ov, NEW d, Len(ov) \in Nat, DOMAIN ov = 1..Len(ov)
    PROVE  /\ WorkloadsOverride(ov, d) = After("template", ov, d, Len(ov))
           /\ OverriddenHPA(ov, d) = After("hpa", ov, d, Len(ov))
           /\ OverriddenReplicas(ov, d) = After("replicas", ov, d, Len(ov))
<1>1. WorkloadsOverride(ov, d) = After("template", ov, d, Len(ov))
  BY DEF WorkloadsOverride, FoldLeft, MapThenFoldSet, After, IsFold, Before, OverrideOne, OverrideTemplate
<1>2. OverriddenHPA(ov, d) = After("hpa", ov, d, Len(ov))
  BY DEF OverriddenHPA, FoldLeft, MapThenFoldSet, After, IsFold, Before, OverrideOne, OverrideHPA
<1>3. OverriddenReplicas(ov, d) = After("replicas", ov, d, Len(ov))
  BY DEF OverriddenReplicas, FoldLeft, MapThenFoldSet, After, IsFold, Before, OverrideOne, OverrideReplicas
<1> QED BY <1>1, <1>2, <1>3

LEMMA AfterSteps ==
    ASSUME NEW what, NEW ov, NEW d, Len(ov) \in Nat
    PROVE  /\ After(what, ov, d, 0) = Before(what, d)
           /\ \A k \in 1..Len(ov) : After(what, ov, d, k) = OverrideOne(what, d, After(what, ov, d, k - 1), ov[k])
<1> DEFINE f == CHOOSE f : IsFold(what, ov, d, Len(ov), f)
<1>1. IsFold(what, ov, d, Len(ov), f)
  BY FoldExists, Zenon
<1>2. \A k : After(what, ov, d, k) = f[1..k]
  BY DEF After
<1> HIDE DEF f
<1>3. f[{}] = Before(what, d) /\ 1..0 = {}
  BY <1>1 DEF IsFold
<1>4. ASSUME NEW k \in 1..Len(ov)
      PROVE  f[1..k] = OverrideOne(what, d, f[1..(k - 1)], ov[k])
  <2>1. Max(1..k) = k /\ (1..k) \ {k} = 1..(k - 1) /\ 1..k # {} /\ 1..k \in SUBSET (1..Len(ov))
    <3>1. k \in 1..k /\ 1..k \subseteq Int /\ \A x \in 1..k : x <= k
      OBVIOUS
    <3>2. Max(1..k) = k
      BY <3>1, MaxIs, Zenon
    <3>3. (1..k) \ {k} = 1..(k - 1)
      OBVIOUS
    <3>4. 1..k # {} /\ 1..k \in SUBSET (1..Len(ov))
      BY <3>1
    <3> QED BY <3>2, <3>3, <3>4, Zenon
  <2> QED BY <1>1, <2>1, Zenon DEF IsFold
<1> QED BY <1>2, <1>3, <1>4


-----------------------------------------------------------------------------
(* What the folds compute.                                                 *)

Latest(I) == Max({0} \cup I)

LEMMA LatestIs ==
    ASSUME NEW n \in Nat, NEW I \in SUBSET (1..n)
    PROVE  /\ Latest(I) \in {0} \cup I
           /\ \A i \in I : i <= Latest(I)
           /\ \A m \in {0} \cup I : (\A i \in I : i <= m) => Latest(I) = m
<1> DEFINE S == {k \in Nat : \A J \in SUBSET (1..k) : \E m \in {0} \cup J : \A j \in J : j <= m}
<1>1. 0 \in S
  OBVIOUS
<1>2. ASSUME NEW k \in Nat, k \in S PROVE k + 1 \in S
  <2> SUFFICES ASSUME NEW J \in SUBSET (1..(k + 1))
               PROVE  \E m \in {0} \cup J : \A j \in J : j <= m
    OBVIOUS
  <2>1. CASE k + 1 \in J
    BY <2>1
  <2>2. CASE k + 1 \notin J
    <3>1. J \in SUBSET (1..k)
      BY <2>2
    <3> QED BY <1>2, <3>1
  <2> QED BY <2>1, <2>2
<1>3. n \in S
  <2> HIDE DEF S
  <2> QED BY <1>1, <1>2, SetInduction
<1>4. PICK m \in {0} \cup I : \A i \in I : i <= m
  BY <1>3
<1>5. \A x \in {0} \cup I : (\A i \in I : i <= x) => Latest(I) = x
  <2> TAKE x \in {0} \cup I
  <2> HAVE \A i \in I : i <= x
  <2>1. {0} \cup I \subseteq Int /\ \A y \in {0} \cup I : y <= x
    OBVIOUS
  <2> QED BY <2>1, MaxIs, Zenon DEF Latest
<1> QED BY <1>4, <1>5

\* If the k-th step replaces a value where k is in I, and keeps it elsewhere,
\* the latest replacement stays.
LEMMA LatestWins ==
    ASSUME NEW n \in Nat, NEW I \in SUBSET (1..n), NEW v, NEW w,
           \A k \in 1..n : v[k] = IF k \in I THEN w[k] ELSE v[k - 1]
    PROVE  v[n] = IF Latest(I) = 0 THEN v[0] ELSE w[Latest(I)]
<1> DEFINE m == Latest(I)
           kept == IF m = 0 THEN v[0] ELSE w[m]
           S == {j \in Nat : m + j <= n => v[m + j] = kept}
<1>1. m \in {0} \cup I /\ (\A i \in I : i <= m) /\ m \in 0..n
  <2>1. m \in {0} \cup I /\ \A i \in I : i <= m
    BY LatestIs, Zenon
  <2> HIDE DEF m, S, kept
  <2>2. 0 \in 0..n /\ \A i \in I : i \in 0..n
    OBVIOUS
  <2> QED BY <2>1, <2>2, Zenon
<1> HIDE DEF m
<1>2. 0 \in S
  BY <1>1
<1>3. ASSUME NEW j \in Nat, j \in S PROVE j + 1 \in S
  <2> SUFFICES ASSUME m + (j + 1) <= n PROVE v[m + (j + 1)] = kept
    OBVIOUS
  <2>1. m + (j + 1) \in 1..n /\ m + (j + 1) \notin I /\ (m + (j + 1)) - 1 = m + j /\ m + j <= n
    BY <1>1
  <2>2. v[m + j] = kept
    BY <1>3, <2>1
  <2> HIDE DEF kept
  <2> QED BY <2>1, <2>2
<1>4. n - m \in S
  <2>1. n - m \in Nat
    BY <1>1
  <2> HIDE DEF S
  <2> QED BY <1>2, <1>3, <2>1, SetInduction
<1>5. v[n] = kept
  <2>1. m + (n - m) = n /\ n <= n
    BY <1>1
  <2> HIDE DEF kept
  <2> QED BY <1>4, <2>1
<1> QED BY <1>5 DEF m

\* The overrides of the replicas of d.
Replacing(ov, d) == {i \in DOMAIN ov : ov[i].name = d /\ ov[i].replicas # None}

IsOverrides(ov) ==
    /\ Len(ov) \in Nat /\ DOMAIN ov = 1..Len(ov)
    /\ \A i \in DOMAIN ov : ov[i].replicas \in Nat \cup {None}

LEMMA OverridesGiven == ASSUME NEW f \in DOMAIN Overrides PROVE IsOverrides(Overrides[f])
<1>1. Overrides[f] \in Seq(Range(Overrides[f]))
  BY OverridesAssumption
<1>2. Len(Overrides[f]) \in Nat /\ DOMAIN Overrides[f] = 1..Len(Overrides[f])
  BY <1>1
<1> QED BY <1>2, OverridesAssumption DEF IsOverrides

\* The last override of the replicas of a deployment without HPA has its way;
\* nothing is said of the replicas of one with an HPA.
LEMMA ReplicasOverridden ==
    ASSUME NEW ov, NEW d, IsOverrides(ov)
    PROVE  OverriddenReplicas(ov, d) =
              IF d \in Autoscaled \/ Latest(Replacing(ov, d)) = 0 THEN None
              ELSE ov[Latest(Replacing(ov, d))].replicas
<1> DEFINE n == Len(ov)
           v == [k \in 0..n |-> After("replicas", ov, d, k)]
           w == [k \in 1..n |-> ov[k].replicas]
           I == IF d \in Autoscaled THEN {} ELSE Replacing(ov, d)
<1>1. n \in Nat /\ DOMAIN ov = 1..n
  BY DEF IsOverrides
<1>2. I \in SUBSET (1..n)
  BY <1>1 DEF Replacing
<1>3. v[0] = None /\ v[n] = OverriddenReplicas(ov, d)
  BY <1>1, AfterAll, AfterSteps DEF Before
<1>4. ASSUME NEW k \in 1..n PROVE v[k] = IF k \in I THEN w[k] ELSE v[k - 1]
  <2>1. k - 1 \in 0..n /\ k \in 0..n
    BY <1>1
  <2>2. After("replicas", ov, d, k) = OverrideReplicas(d, After("replicas", ov, d, k - 1), ov[k])
    BY <1>1, AfterSteps DEF OverrideOne
  <2> QED BY <1>1, <2>1, <2>2 DEF OverrideReplicas, Replacing
<1>5. v[n] = IF Latest(I) = 0 THEN v[0] ELSE w[Latest(I)]
  <2> HIDE DEF v, w, I, n
  <2> QED BY <1>1, <1>2, <1>4, LatestWins
<1>6. Latest({}) = 0
  BY LatestIs
<1>7. Latest(I) \in {0} \cup I
  <2> HIDE DEF I, n
  <2> QED BY <1>1, <1>2, LatestIs
<1>8. Latest(I) # 0 => w[Latest(I)] = ov[Latest(I)].replicas
  <2> HIDE DEF I, n
  <2> QED BY <1>2, <1>7
<1> HIDE DEF v, w, n
<1> QED BY <1>3, <1>5, <1>6, <1>8


\* The minimum of the HPA is what the last override of the replicas says, and
\* the maximum is as far above it as in the manifest.
LEMMA HPAOverridden ==
    ASSUME NEW ov, NEW d, IsOverrides(ov)
    PROVE  LET h == OverriddenHPA(ov, d)
           IN  /\ h \in [min : Nat, max : Nat]
               /\ h.max - h.min = DefaultHPA.max - DefaultHPA.min
               /\ h.min = IF Latest(Replacing(ov, d)) = 0 THEN DefaultHPA.min
                          ELSE ov[Latest(Replacing(ov, d))].replicas
<1> DEFINE n == Len(ov)
           H(k) == After("hpa", ov, d, k)
           v == [k \in 0..n |-> H(k).min]
           w == [k \in 1..n |-> ov[k].replicas]
           I == Replacing(ov, d)
           S == {k \in Nat : k <= n => /\ H(k) \in [min : Nat, max : Nat]
                                       /\ H(k).max - H(k).min = DefaultHPA.max - DefaultHPA.min}
<1>1. n \in Nat /\ DOMAIN ov = 1..n
  BY DEF IsOverrides
<1>2. H(0) = DefaultHPA /\ H(n) = OverriddenHPA(ov, d)
  BY <1>1, AfterAll, AfterSteps DEF Before
<1>3. \A k \in 1..n : H(k) = IF k \in I THEN HPAReplicas(H(k - 1), ov[k].replicas) ELSE H(k - 1)
  BY <1>1, AfterSteps DEF OverrideOne, OverrideHPA, Replacing
<1>4. \A k \in I : k \in 1..n /\ ov[k].replicas \in Nat
  BY <1>1 DEF Replacing, IsOverrides
<1> HIDE DEF n, H, I
<1>5. n \in S
  <2>1. 0 \in S
    BY <1>2, DefaultHPAAssumption
  <2>2. ASSUME NEW k \in Nat, k \in S PROVE k + 1 \in S
    <3> SUFFICES ASSUME k + 1 <= n
                 PROVE  /\ H(k + 1) \in [min : Nat, max : Nat]
                        /\ H(k + 1).max - H(k + 1).min = DefaultHPA.max - DefaultHPA.min
      OBVIOUS
    <3>1. k + 1 \in 1..n /\ (k + 1) - 1 = k /\ k <= n
      BY <1>1
    <3>2. H(k) \in [min : Nat, max : Nat] /\ H(k).max - H(k).min = DefaultHPA.max - DefaultHPA.min
      BY <2>2, <3>1
    <3>3. CASE k + 1 \in I
      <4> DEFINE r == ov[k + 1].replicas
      <4>1. H(k + 1) = [min |-> r, max |-> H(k).max + (r - H(k).min)]
        BY <1>3, <3>1, <3>3 DEF HPAReplicas
      <4>2. r \in Nat
        BY <1>4, <3>3
      <4>3. DefaultHPA.max - DefaultHPA.min \in Nat
        BY DefaultHPAAssumption
      <4> HIDE DEF r
      <4> QED BY <3>2, <4>1, <4>2, <4>3
    <3>4. CASE k + 1 \notin I
      BY <1>3, <3>1, <3>2, <3>4
    <3> QED BY <3>3, <3>4
  <2> HIDE DEF S
  <2> QED BY <1>1, <2>1, <2>2, SetInduction
<1>6. ASSUME NEW k \in 1..n PROVE v[k] = IF k \in I THEN w[k] ELSE v[k - 1]
  <2>1. k - 1 \in 0..n /\ k \in 0..n
    BY <1>1
  <2> QED BY <1>3, <2>1 DEF HPAReplicas
<1>7. v[n] = IF Latest(I) = 0 THEN v[0] ELSE w[Latest(I)]
  <2>1. I \in SUBSET (1..n)
    BY <1>4
  <2> HIDE DEF v, w
  <2> QED BY <1>1, <1>6, <2>1, LatestWins
<1>8. Latest(I) # 0 => w[Latest(I)] = ov[Latest(I)].replicas
  <2>1. Latest(I) \in {0} \cup I
    BY <1>1, <1>4, LatestIs
  <2> QED BY <1>4, <2>1
<1>9. v[0] = DefaultHPA.min /\ v[n] = OverriddenHPA(ov, d).min
  BY <1>1, <1>2
<1> HIDE DEF v, w
<1>10. OverriddenHPA(ov, d).min = IF Latest(I) = 0 THEN DefaultHPA.min ELSE ov[Latest(I)].replicas
  BY <1>7, <1>8, <1>9
<1> QED BY <1>1, <1>2, <1>5, <1>10 DEF I


-----------------------------------------------------------------------------
(* What the overrides make of a pod template.                              *)

Fields == {"selector", "labels", "placement", "hostNetwork", "dnsPolicy", "containers"}

\* What an override makes of a template t, in the fields that LastOverrideWins
\* is about.
Changes(o, t, u) ==
    /\ DOMAIN u = Fields
    /\ u.labels = o.labels ?? t.labels
    /\ u.hostNetwork = IF o.hostNetwork = {} THEN t.hostNetwork ELSE o.hostNetwork
    /\ DOMAIN u.containers = DOMAIN t.containers
    /\ \A c \in DOMAIN t.containers :
        /\ u.containers[c].readiness = mergeProbe(o.readiness, c, t.containers[c].readiness)
        /\ u.containers[c].liveness = mergeProbe(o.liveness, c, t.containers[c].liveness)

LEMMA OneOverride ==
    ASSUME NEW d, NEW o, NEW t, DOMAIN t = Fields, o.name = d
    PROVE  Changes(o, t, OverrideTemplate(d, t, o))
<1> DEFINE t1 == replaceLabels(o, t)
           t2 == replacePlacement(o, t1)
           t3 == replaceContainers(o, t2)
           u == replaceHostNetwork(o, t3)
<1>1. /\ DOMAIN t1 = Fields
      /\ t1.labels = o.labels ?? t.labels
      /\ t1.hostNetwork = t.hostNetwork /\ t1.containers = t.containers
  BY DEF replaceLabels, Fields
<1> HIDE DEF t1
<1>2. /\ DOMAIN t2 = Fields
      /\ t2.labels = t1.labels /\ t2.hostNetwork = t1.hostNetwork /\ t2.containers = t1.containers
  BY <1>1 DEF replacePlacement, Fields
<1> HIDE DEF t2
<1>3. /\ DOMAIN t3 = Fields
      /\ t3.labels = t2.labels /\ t3.hostNetwork = t2.hostNetwork
      /\ DOMAIN t3.containers = DOMAIN t2.containers
      /\ \A c \in DOMAIN t2.containers :
            /\ t3.containers[c].readiness = mergeProbe(o.readiness, c, t2.containers[c].readiness)
            /\ t3.containers[c].liveness = mergeProbe(o.liveness, c, t2.containers[c].liveness)
  BY <1>2 DEF replaceContainers, Fields
<1> HIDE DEF t3
<1>4. /\ DOMAIN u = Fields
      /\ u.labels = t3.labels /\ u.containers = t3.containers
      /\ u.hostNetwork = IF o.hostNetwork = {} THEN t3.hostNetwork ELSE o.hostNetwork
  BY <1>3 DEF replaceHostNetwork, Fields
<1>5. OverrideTemplate(d, t, o) = u
  BY DEF OverrideTemplate, t1, t2, t3
<1> HIDE DEF u
<1> QED BY <1>1, <1>2, <1>3, <1>4, <1>5 DEF Changes

\* After any number of overrides, a template has the fields and the containers
\* it had before.
LEMMA TemplateKept ==
    ASSUME NEW ov, NEW d \in Deployments, IsOverrides(ov), NEW n \in 0..Len(ov)
    PROVE  /\ DOMAIN After("template", ov, d, n) = Fields
           /\ DOMAIN After("template", ov, d, n).containers = DOMAIN Templates[d].containers
<1> DEFINE T(k) == After("template", ov, d, k)
           S == {k \in Nat : k <= Len(ov) => /\ DOMAIN T(k) = Fields
                                             /\ DOMAIN T(k).containers = DOMAIN Templates[d].containers}
<1>1. Len(ov) \in Nat
  BY DEF IsOverrides
<1>2. T(0) = Templates[d]
  BY <1>1, AfterSteps DEF Before
<1>3. \A k \in 1..Len(ov) : T(k) = OverrideTemplate(d, T(k - 1), ov[k])
  BY <1>1, AfterSteps DEF OverrideOne
<1> HIDE DEF T
<1>4. 0 \in S
  BY <1>2, TemplatesAssumption DEF Fields
<1>5. ASSUME NEW k \in Nat, k \in S PROVE k + 1 \in S
  <2> SUFFICES ASSUME k + 1 <= Len(ov)
               PROVE  /\ DOMAIN T(k + 1) = Fields
                      /\ DOMAIN T(k + 1).containers = DOMAIN Templates[d].containers
    OBVIOUS
  <2>1. k + 1 \in 1..Len(ov) /\ (k + 1) - 1 = k /\ k <= Len(ov)
    BY <1>1
  <2>2. DOMAIN T(k) = Fields /\ DOMAIN T(k).containers = DOMAIN Templates[d].containers
    BY <1>5, <2>1
  <2>3. T(k + 1) = OverrideTemplate(d, T(k), ov[k + 1])
    BY <1>3, <2>1
  <2>4. CASE ov[k + 1].name = d
    <3>1. Changes(ov[k + 1], T(k), T(k + 1))
      BY <2>2, <2>3, <2>4, OneOverride
    <3> QED BY <2>2, <3>1 DEF Changes
  <2>5. CASE ov[k + 1].name # d
    BY <2>2, <2>3, <2>5 DEF OverrideTemplate
  <2> QED BY <2>4, <2>5
<1>6. n \in S
  <2> HIDE DEF S
  <2> QED BY <1>1, <1>4, <1>5, SetInduction
<1> QED BY <1>1, <1>6 DEF T


\* The overrides of d that say something of a label, of the host network, or of
\* a setting of a probe; and those that disable a probe.
Labelling(ov, d, l) == {i \in DOMAIN ov : ov[i].name = d /\ l \in DOMAIN ov[i].labels}
Networking(ov, d) == {i \in DOMAIN ov : ov[i].name = d /\ ov[i].hostNetwork # {}}
Setting(ov, d, c, p, k) ==
    {i \in DOMAIN ov : ov[i].name = d /\ Says(ov[i], p, c) /\ k \in DOMAIN Values(ov[i], p, c)}
Disabling(ov, d, c, p) ==
    {i \in DOMAIN ov : ov[i].name = d /\ Says(ov[i], p, c) /\ Values(ov[i], p, c) = Empty}

\* The value of a key, as a set that is empty if there is none.
Get(m, k) == IF k \in DOMAIN m THEN {m[k]} ELSE {}

LEMMA TemplateSteps ==
    ASSUME NEW ov, NEW d \in Deployments, IsOverrides(ov)
    PROVE  /\ Len(ov) \in Nat /\ DOMAIN ov = 1..Len(ov)
           /\ After("template", ov, d, 0) = Templates[d]
           /\ After("template", ov, d, Len(ov)) = WorkloadsOverride(ov, d)
           /\ \A k \in 1..Len(ov) :
                IF ov[k].name = d
                THEN Changes(ov[k], After("template", ov, d, k - 1), After("template", ov, d, k))
                ELSE After("template", ov, d, k) = After("template", ov, d, k - 1)
<1>1. Len(ov) \in Nat /\ DOMAIN ov = 1..Len(ov)
  BY DEF IsOverrides
<1>2. After("template", ov, d, 0) = Templates[d] /\ After("template", ov, d, Len(ov)) = WorkloadsOverride(ov, d)
  BY <1>1, AfterAll, AfterSteps DEF Before
<1>3. ASSUME NEW k \in 1..Len(ov)
      PROVE  IF ov[k].name = d
             THEN Changes(ov[k], After("template", ov, d, k - 1), After("template", ov, d, k))
             ELSE After("template", ov, d, k) = After("template", ov, d, k - 1)
  <2>1. After("template", ov, d, k) = OverrideTemplate(d, After("template", ov, d, k - 1), ov[k])
    BY <1>1, AfterSteps DEF OverrideOne
  <2>2. k - 1 \in 0..Len(ov)
    BY <1>1
  <2>3. DOMAIN After("template", ov, d, k - 1) = Fields
    BY <2>2, TemplateKept
  <2>4. CASE ov[k].name = d
    BY <2>1, <2>3, <2>4, OneOverride
  <2>5. CASE ov[k].name # d
    BY <2>1, <2>5 DEF OverrideTemplate
  <2> QED BY <2>4, <2>5
<1> QED BY <1>1, <1>2, <1>3

LEMMA LabelsOverridden ==
    ASSUME NEW ov, NEW d \in Deployments, IsOverrides(ov), NEW l
    PROVE  LET i == Latest(Labelling(ov, d, l))
           IN  Get(WorkloadsOverride(ov, d).labels, l) =
                  IF i = 0 THEN Get(Templates[d].labels, l) ELSE {ov[i].labels[l]}
<1> DEFINE n == Len(ov)
           T(k) == After("template", ov, d, k)
           v == [k \in 0..n |-> Get(T(k).labels, l)]
           w == [k \in 1..n |-> {ov[k].labels[l]}]
           I == Labelling(ov, d, l)
<1>1. n \in Nat /\ DOMAIN ov = 1..n
  BY TemplateSteps
<1>2. I \in SUBSET (1..n)
  BY <1>1 DEF Labelling
<1>3. T(0) = Templates[d] /\ T(n) = WorkloadsOverride(ov, d)
  BY TemplateSteps
<1>4. ASSUME NEW k \in 1..n PROVE v[k] = IF k \in I THEN w[k] ELSE v[k - 1]
  <2>1. k - 1 \in 0..n /\ k \in 0..n
    BY <1>1
  <2>2. IF ov[k].name = d THEN Changes(ov[k], T(k - 1), T(k)) ELSE T(k) = T(k - 1)
    BY TemplateSteps
  <2>3. v[k] = Get(T(k).labels, l) /\ v[k - 1] = Get(T(k - 1).labels, l) /\ w[k] = {ov[k].labels[l]}
    BY <2>1
  <2> HIDE DEF T, v, w
  <2>4. CASE ov[k].name = d
    <3>1. T(k).labels = ov[k].labels ?? T(k - 1).labels
      BY <2>2, <2>4 DEF Changes
    <3>2. k \in I <=> l \in DOMAIN ov[k].labels
      BY <1>1, <2>4 DEF Labelling
    <3> HIDE DEF I
    <3> QED BY <2>3, <3>1, <3>2 DEF Get, ??
  <2>5. CASE ov[k].name # d
    <3>1. T(k) = T(k - 1) /\ k \notin I
      BY <2>2, <2>5 DEF Labelling
    <3> QED BY <2>3, <3>1
  <2> QED BY <2>4, <2>5
<1>5. v[n] = IF Latest(I) = 0 THEN v[0] ELSE w[Latest(I)]
  <2> HIDE DEF v, w, I, n
  <2> QED BY <1>1, <1>2, <1>4, LatestWins
<1>6. Latest(I) # 0 => w[Latest(I)] = {ov[Latest(I)].labels[l]}
  <2> HIDE DEF I, n
  <2>1. Latest(I) \in {0} \cup I
    BY <1>1, <1>2, LatestIs
  <2> QED BY <1>2, <2>1
<1>7. v[0] = Get(Templates[d].labels, l) /\ v[n] = Get(WorkloadsOverride(ov, d).labels, l)
  BY <1>1, <1>3
<1> HIDE DEF v, w, n
<1> QED BY <1>5, <1>6, <1>7

LEMMA NetworkOverridden ==
    ASSUME NEW ov, NEW d \in Deployments, IsOverrides(ov)
    PROVE  LET i == Latest(Networking(ov, d))
           IN  WorkloadsOverride(ov, d).hostNetwork =
                  IF i = 0 THEN Templates[d].hostNetwork ELSE ov[i].hostNetwork
<1> DEFINE n == Len(ov)
           T(k) == After("template", ov, d, k)
           v == [k \in 0..n |-> T(k).hostNetwork]
           w == [k \in 1..n |-> ov[k].hostNetwork]
           I == Networking(ov, d)
<1>1. n \in Nat /\ DOMAIN ov = 1..n
  BY TemplateSteps
<1>2. I \in SUBSET (1..n)
  BY <1>1 DEF Networking
<1>3. T(0) = Templates[d] /\ T(n) = WorkloadsOverride(ov, d)
  BY TemplateSteps
<1>4. ASSUME NEW k \in 1..n PROVE v[k] = IF k \in I THEN w[k] ELSE v[k - 1]
  <2>1. k - 1 \in 0..n /\ k \in 0..n
    BY <1>1
  <2>2. IF ov[k].name = d THEN Changes(ov[k], T(k - 1), T(k)) ELSE T(k) = T(k - 1)
    BY TemplateSteps
  <2>3. v[k] = T(k).hostNetwork /\ v[k - 1] = T(k - 1).hostNetwork /\ w[k] = ov[k].hostNetwork
    BY <2>1
  <2> HIDE DEF T, v, w
  <2>4. CASE ov[k].name = d
    <3>1. T(k).hostNetwork = IF ov[k].hostNetwork = {} THEN T(k - 1).hostNetwork ELSE ov[k].hostNetwork
      BY <2>2, <2>4 DEF Changes
    <3>2. k \in I <=> ov[k].hostNetwork # {}
      BY <1>1, <2>4 DEF Networking
    <3> HIDE DEF I
    <3> QED BY <2>3, <3>1, <3>2
  <2>5. CASE ov[k].name # d
    <3>1. T(k) = T(k - 1) /\ k \notin I
      BY <2>2, <2>5 DEF Networking
    <3> QED BY <2>3, <3>1
  <2> QED BY <2>4, <2>5
<1>5. v[n] = IF Latest(I) = 0 THEN v[0] ELSE w[Latest(I)]
  <2> HIDE DEF v, w, I, n
  <2> QED BY <1>1, <1>2, <1>4, LatestWins
<1>6. Latest(I) # 0 => w[Latest(I)] = ov[Latest(I)].hostNetwork
  <2> HIDE DEF I, n
  <2>1. Latest(I) \in {0} \cup I
    BY <1>1, <1>2, LatestIs
  <2> QED BY <1>2, <2>1
<1>7. v[0] = Templates[d].hostNetwork /\ v[n] = WorkloadsOverride(ov, d).hostNetwork
  BY <1>1, <1>3
<1> HIDE DEF v, w, n
<1> QED BY <1>5, <1>6, <1>7

LEMMA ProbesOverridden ==
    ASSUME NEW ov, NEW d \in Deployments, IsOverrides(ov),
           NEW c \in DOMAIN Templates[d].containers, NEW p \in Probes, NEW x
    PROVE  LET i == Latest(Setting(ov, d, c, p, x) \cup Disabling(ov, d, c, p))
           IN  Get(WorkloadsOverride(ov, d).containers[c][p], x) =
                  IF i = 0 THEN Get(Templates[d].containers[c][p], x) ELSE Get(Values(ov[i], p, c), x)
<1> DEFINE n == Len(ov)
           T(k) == After("template", ov, d, k)
           v == [k \in 0..n |-> Get(T(k).containers[c][p], x)]
           w == [k \in 1..n |-> Get(Values(ov[k], p, c), x)]
           I == Setting(ov, d, c, p, x) \cup Disabling(ov, d, c, p)
<1>1. n \in Nat /\ DOMAIN ov = 1..n
  BY TemplateSteps
<1>2. I \in SUBSET (1..n)
  BY <1>1 DEF Setting, Disabling
<1>3. T(0) = Templates[d] /\ T(n) = WorkloadsOverride(ov, d)
  BY TemplateSteps
<1>4. ASSUME NEW k \in 1..n PROVE v[k] = IF k \in I THEN w[k] ELSE v[k - 1]
  <2>1. k - 1 \in 0..n /\ k \in 0..n
    BY <1>1
  <2>2. IF ov[k].name = d THEN Changes(ov[k], T(k - 1), T(k)) ELSE T(k) = T(k - 1)
    BY TemplateSteps
  <2>3. v[k] = Get(T(k).containers[c][p], x) /\ v[k - 1] = Get(T(k - 1).containers[c][p], x) /\ w[k] = Get(Values(ov[k], p, c), x)
    BY <2>1
  <2> HIDE DEF T, v, w
  <2>4. CASE ov[k].name = d
    <3> DEFINE o == ov[k]
               before == T(k - 1).containers[c][p]
    <3>1. T(k).containers[c][p] = mergeProbe(o[p], c, before)
      <4>1. Changes(o, T(k - 1), T(k)) /\ c \in DOMAIN T(k - 1).containers
        BY <2>1, <2>2, <2>4, TemplateKept DEF T
      <4>2. CASE p = "readiness"
        BY <4>1, <4>2 DEF Changes
      <4>3. CASE p = "liveness"
        BY <4>1, <4>3 DEF Changes
      <4> QED BY <4>2, <4>3 DEF Probes
    <3>2. k \in I <=> Says(o, p, c) /\ (x \in DOMAIN Values(o, p, c) \/ Values(o, p, c) = Empty)
      BY <1>1, <2>4 DEF Setting, Disabling
    <3>3. mergeProbe(o[p], c, before) =
            IF ~Says(o, p, c) THEN before
            ELSE IF Values(o, p, c) = Empty THEN Empty ELSE Values(o, p, c) ?? before
      BY DEF mergeProbe, merge, Says, Values
    <3>4. DOMAIN Empty = {}
      BY DEF Empty
    <3> HIDE DEF I, o, before
    <3>5. CASE ~Says(o, p, c)
      BY <2>3, <3>1, <3>2, <3>3, <3>5 DEF before
    <3>6. CASE Says(o, p, c) /\ Values(o, p, c) = Empty
      BY <2>3, <3>1, <3>2, <3>3, <3>4, <3>6 DEF Get, o
    <3>7. CASE Says(o, p, c) /\ Values(o, p, c) # Empty
      BY <2>3, <3>1, <3>2, <3>3, <3>7 DEF Get, ??, o, before
    <3> QED BY <3>5, <3>6, <3>7
  <2>5. CASE ov[k].name # d
    <3>1. T(k) = T(k - 1) /\ k \notin I
      BY <2>2, <2>5 DEF Setting, Disabling
    <3> QED BY <2>3, <3>1
  <2> QED BY <2>4, <2>5
<1>5. v[n] = IF Latest(I) = 0 THEN v[0] ELSE w[Latest(I)]
  <2> HIDE DEF v, w, I, n
  <2> QED BY <1>1, <1>2, <1>4, LatestWins
<1>6. Latest(I) # 0 => w[Latest(I)] = Get(Values(ov[Latest(I)], p, c), x)
  <2> HIDE DEF I, n
  <2>1. Latest(I) \in {0} \cup I
    BY <1>1, <1>2, LatestIs
  <2> QED BY <1>2, <2>1
<1>7. v[0] = Get(Templates[d].containers[c][p], x) /\ v[n] = Get(WorkloadsOverride(ov, d).containers[c][p], x)
  BY <1>1, <1>3
<1> HIDE DEF v, w, n
<1> QED BY <1>5, <1>6, <1>7

\* What LastOverrideWins says, of every value of the overrides.
LEMMA TemplateOverridden ==
    ASSUME TypeOK
    PROVE  LastOverrideWins
<1> SUFFICES ASSUME NEW d \in Deployments
             PROVE  LET ov == Overrides[input.overrides]
                        t == WorkloadsOverride(ov, d)
                    IN  /\ \A l \in DOMAIN t.labels :
                            LET i == LastOf(ov, d, LAMBDA o : l \in DOMAIN o.labels)
                            IN  t.labels[l] = IF i = 0 THEN Templates[d].labels[l] ELSE ov[i].labels[l]
                        /\ \A c \in DOMAIN t.containers, p \in Probes : \A k \in DOMAIN t.containers[c][p] :
                            LET i == LastOf(ov, d, LAMBDA o : Says(o, p, c) /\ k \in DOMAIN Values(o, p, c))
                                disabled == LastOf(ov, d, LAMBDA o : Says(o, p, c) /\ Values(o, p, c) = Empty)
                            IN  /\ i >= disabled
                                /\ t.containers[c][p][k] =
                                     IF i = 0 THEN Templates[d].containers[c][p][k] ELSE Values(ov[i], p, c)[k]
                        /\ LET i == LastOf(ov, d, LAMBDA o : o.hostNetwork # {})
                           IN  t.hostNetwork = IF i = 0 THEN Templates[d].hostNetwork ELSE ov[i].hostNetwork
                        /\ DOMAIN Templates[d].labels \subseteq DOMAIN t.labels
                        /\ \A i \in DOMAIN ov : ov[i].name = d => DOMAIN ov[i].labels \subseteq DOMAIN t.labels
                        /\ DOMAIN t.containers = DOMAIN Templates[d].containers
                        /\ \A c \in DOMAIN t.containers, p \in Probes :
                            LET disabled == LastOf(ov, d, LAMBDA o : Says(o, p, c) /\ Values(o, p, c) = Empty)
                            IN  /\ disabled = 0 => DOMAIN Templates[d].containers[c][p] \subseteq DOMAIN t.containers[c][p]
                                /\ \A i \in DOMAIN ov :
                                    ov[i].name = d /\ i > disabled /\ Says(ov[i], p, c)
                                        => DOMAIN Values(ov[i], p, c) \subseteq DOMAIN t.containers[c][p]
  BY Zenon DEF LastOverrideWins
<1> DEFINE ov == Overrides[input.overrides]
           t == WorkloadsOverride(ov, d)
<1>1. IsOverrides(ov)
  BY OverridesGiven DEF TypeOK
<1>2. Len(ov) \in Nat /\ DOMAIN ov = 1..Len(ov) /\ t = After("template", ov, d, Len(ov))
  BY <1>1, TemplateSteps
<1>3. DOMAIN t.containers = DOMAIN Templates[d].containers
  BY <1>1, <1>2, TemplateKept
<1> HIDE DEF ov, t
<1>4. ASSUME NEW l \in DOMAIN t.labels
      PROVE  LET i == Latest(Labelling(ov, d, l))
             IN  t.labels[l] = IF i = 0 THEN Templates[d].labels[l] ELSE ov[i].labels[l]
  <2> DEFINE i == Latest(Labelling(ov, d, l))
  <2>1. {t.labels[l]} = IF i = 0 THEN Get(Templates[d].labels, l) ELSE {ov[i].labels[l]}
    BY <1>1, LabelsOverridden DEF Get, t
  <2> HIDE DEF i
  <2>2. t.labels[l] = IF i = 0 THEN Templates[d].labels[l] ELSE ov[i].labels[l]
    BY <2>1 DEF Get
  <2> QED BY <2>2 DEF i
<1>5. ASSUME NEW c \in DOMAIN t.containers, NEW p \in Probes, NEW k \in DOMAIN t.containers[c][p]
      PROVE  LET i == Latest(Setting(ov, d, c, p, k))
             IN  /\ i >= Latest(Disabling(ov, d, c, p))
                 /\ t.containers[c][p][k] =
                      IF i = 0 THEN Templates[d].containers[c][p][k] ELSE Values(ov[i], p, c)[k]
  <2> DEFINE s == Setting(ov, d, c, p, k)
             e == Disabling(ov, d, c, p)
             m == Latest(s \cup e)
             value == t.containers[c][p][k]
  <2>1. s \in SUBSET (1..Len(ov)) /\ e \in SUBSET (1..Len(ov)) /\ s \cup e \in SUBSET (1..Len(ov))
    BY <1>2 DEF Setting, Disabling
  <2>2. {value} = IF m = 0 THEN Get(Templates[d].containers[c][p], k) ELSE Get(Values(ov[m], p, c), k)
    BY <1>1, <1>3, ProbesOverridden DEF Get, t
  <2>3. \A j \in e : k \notin DOMAIN Values(ov[j], p, c)
    BY DEF Disabling, Empty
  <2> HIDE DEF s, e, m, value
  <2>4. /\ m \in {0} \cup (s \cup e) /\ (\A j \in s \cup e : j <= m)
        /\ Latest(e) \in {0} \cup e
        /\ \A x \in {0} \cup s : (\A j \in s : j <= x) => Latest(s) = x
    BY <1>2, <2>1, LatestIs, Zenon DEF m
  <2>5. m # 0 => k \in DOMAIN Values(ov[m], p, c) /\ value = Values(ov[m], p, c)[k]
    BY <2>2 DEF Get
  <2>6. m = 0 => value = Templates[d].containers[c][p][k]
    BY <2>2 DEF Get
  <2>7. m \in {0} \cup s
    BY <2>3, <2>4, <2>5
  <2>8. Latest(s) = m
    BY <2>4, <2>7
  <2>9. m >= Latest(e)
    <3>1. \A j \in {0} \cup (s \cup e) : j \in Nat
      BY <2>1
    <3>2. m \in Nat /\ Latest(e) \in Nat /\ (Latest(e) = 0 \/ Latest(e) <= m)
      BY <2>4, <3>1
    <3> QED BY <3>2
  <2> QED BY <2>5, <2>6, <2>8, <2>9 DEF s, e, value
<1>6. LET i == Latest(Networking(ov, d))
      IN  t.hostNetwork = IF i = 0 THEN Templates[d].hostNetwork ELSE ov[i].hostNetwork
  BY <1>1, NetworkOverridden DEF t
<1>7. ASSUME NEW l \in DOMAIN t.labels
      PROVE  LET i == LastOf(ov, d, LAMBDA o : l \in DOMAIN o.labels)
             IN  t.labels[l] = IF i = 0 THEN Templates[d].labels[l] ELSE ov[i].labels[l]
  <2>1. LastOf(ov, d, LAMBDA o : l \in DOMAIN o.labels) = Latest(Labelling(ov, d, l))
    <3>1. Labelling(ov, d, l)
            = {i \in DOMAIN ov : i < Len(ov) + 1 /\ ov[i].name = d /\ (l \in DOMAIN ov[i].labels)}
      BY <1>2 DEF Labelling
    <3> QED BY <3>1, Zenon DEF LastOf, LastBefore, Latest
  <2> QED BY <1>4, <2>1 DEF LastOf, LastBefore
<1>8. ASSUME NEW c \in DOMAIN t.containers, NEW p \in Probes, NEW k \in DOMAIN t.containers[c][p]
      PROVE  LET i == LastOf(ov, d, LAMBDA o : Says(o, p, c) /\ k \in DOMAIN Values(o, p, c))
                 disabled == LastOf(ov, d, LAMBDA o : Says(o, p, c) /\ Values(o, p, c) = Empty)
             IN  /\ i >= disabled
                 /\ t.containers[c][p][k] =
                      IF i = 0 THEN Templates[d].containers[c][p][k] ELSE Values(ov[i], p, c)[k]
  <2>1. LastOf(ov, d, LAMBDA o : Says(o, p, c) /\ k \in DOMAIN Values(o, p, c)) = Latest(Setting(ov, d, c, p, k))
    <3>1. Setting(ov, d, c, p, k)
            = {i \in DOMAIN ov : i < Len(ov) + 1 /\ ov[i].name = d /\ (Says(ov[i], p, c) /\ k \in DOMAIN Values(ov[i], p, c))}
      BY <1>2 DEF Setting
    <3> QED BY <3>1, Zenon DEF LastOf, LastBefore, Latest
  <2>2. LastOf(ov, d, LAMBDA o : Says(o, p, c) /\ Values(o, p, c) = Empty) = Latest(Disabling(ov, d, c, p))
    <3>1. Disabling(ov, d, c, p)
            = {i \in DOMAIN ov : i < Len(ov) + 1 /\ ov[i].name = d /\ (Says(ov[i], p, c) /\ Values(ov[i], p, c) = Empty)}
      BY <1>2 DEF Disabling
    <3> QED BY <3>1, Zenon DEF LastOf, LastBefore, Latest
  <2> QED BY <1>5, <2>1, <2>2 DEF LastOf, LastBefore
<1>9. LET i == LastOf(ov, d, LAMBDA o : o.hostNetwork # {})
      IN  t.hostNetwork = IF i = 0 THEN Templates[d].hostNetwork ELSE ov[i].hostNetwork
  <2>1. LastOf(ov, d, LAMBDA o : o.hostNetwork # {}) = Latest(Networking(ov, d))
    <3>1. Networking(ov, d)
            = {i \in DOMAIN ov : i < Len(ov) + 1 /\ ov[i].name = d /\ (ov[i].hostNetwork # {})}
      BY <1>2 DEF Networking
    <3> QED BY <3>1, Zenon DEF LastOf, LastBefore, Latest
  <2> QED BY <1>6, <2>1 DEF LastOf, LastBefore
<1>10. ASSUME NEW l, l \in DOMAIN Templates[d].labels \/ Latest(Labelling(ov, d, l)) # 0
       PROVE  l \in DOMAIN t.labels
  <2> DEFINE i == Latest(Labelling(ov, d, l))
  <2>1. Get(t.labels, l) = IF i = 0 THEN Get(Templates[d].labels, l) ELSE {ov[i].labels[l]}
    BY <1>1, LabelsOverridden DEF t
  <2> HIDE DEF i
  <2>2. Get(t.labels, l) # {}
    BY <1>10, <2>1 DEF Get, i
  <2> QED BY <2>2 DEF Get
<1>11. DOMAIN Templates[d].labels \subseteq DOMAIN t.labels
  BY <1>10
<1>12. ASSUME NEW i \in DOMAIN ov, ov[i].name = d, NEW l \in DOMAIN ov[i].labels
       PROVE  l \in DOMAIN t.labels
  <2>1. i \in Labelling(ov, d, l) /\ Labelling(ov, d, l) \in SUBSET (1..Len(ov))
    BY <1>2, <1>12 DEF Labelling
  <2>2. Latest(Labelling(ov, d, l)) # 0
    <3> DEFINE s == Labelling(ov, d, l)
    <3> HIDE DEF s
    <3>1. i <= Latest(s)
      BY <1>2, <2>1, LatestIs DEF s
    <3>2. i \in 1..Len(ov)
      BY <1>2
    <3>3. Latest(s) # 0
      BY <1>2, <3>1, <3>2
    <3> QED BY <3>3 DEF s
  <2> QED BY <1>10, <2>2
<1>13. ASSUME NEW c \in DOMAIN t.containers, NEW p \in Probes
       PROVE  LET disabled == Latest(Disabling(ov, d, c, p))
              IN  /\ disabled = 0 => DOMAIN Templates[d].containers[c][p] \subseteq DOMAIN t.containers[c][p]
                  /\ \A i \in DOMAIN ov :
                      ov[i].name = d /\ i > disabled /\ Says(ov[i], p, c)
                          => DOMAIN Values(ov[i], p, c) \subseteq DOMAIN t.containers[c][p]
  <2> DEFINE e == Disabling(ov, d, c, p)
  <2>1. ASSUME NEW k,
               \/ Latest(e) = 0 /\ k \in DOMAIN Templates[d].containers[c][p]
               \/ \E i \in Setting(ov, d, c, p, k) : i > Latest(e)
        PROVE  k \in DOMAIN t.containers[c][p]
    <3> DEFINE s == Setting(ov, d, c, p, k)
               m == Latest(s \cup e)
               T == Templates[d].containers[c][p]
    <3>1. s \in SUBSET (1..Len(ov)) /\ e \in SUBSET (1..Len(ov)) /\ s \cup e \in SUBSET (1..Len(ov))
      BY <1>2 DEF Setting, Disabling
    <3>2. Get(t.containers[c][p], k) = IF m = 0 THEN Get(T, k) ELSE Get(Values(ov[m], p, c), k)
      BY <1>1, <1>3, ProbesOverridden DEF t
    <3>3. \A j \in s : k \in DOMAIN Values(ov[j], p, c)
      BY DEF Setting
    <3>4. \/ Latest(e) = 0 /\ k \in DOMAIN T
          \/ \E i \in s : i > Latest(e)
      BY <2>1
    <3> HIDE DEF s, e, m, T
    <3>5. /\ m \in {0} \cup (s \cup e) /\ (\A j \in s \cup e : j <= m)
          /\ Latest(e) \in {0} \cup e /\ (\A j \in e : j <= Latest(e))
      BY <1>2, <3>1, LatestIs, Zenon DEF m
    <3>6. \A j \in {0} \cup (s \cup e) : j \in Nat
      BY <3>1
    <3>7. \A j \in s \cup e : j # 0
      BY <1>2, <3>1
    <3>8. m \in s \/ (m = 0 /\ k \in DOMAIN T)
      <4>1. m \in Nat /\ Latest(e) \in Nat
        BY <3>5, <3>6
      <4>2. CASE Latest(e) = 0 /\ k \in DOMAIN T
        <5>1. ASSUME NEW j \in e PROVE FALSE
          <6>1. j \in Nat /\ j # 0 /\ j <= Latest(e)
            BY <3>5, <3>6, <3>7
          <6> QED BY <4>2, <6>1
        <5> QED BY <3>5, <4>2, <5>1
      <4>3. ASSUME NEW i \in s, i > Latest(e) PROVE m \in s
        <5>1. i \in Nat /\ i <= m
          BY <3>5, <3>6
        <5>2. m > Latest(e) /\ m # 0
          BY <4>1, <4>3, <5>1
        <5>3. m \notin e
          BY <3>5, <4>1, <5>2
        <5> QED BY <3>5, <5>2, <5>3
      <4> QED BY <3>4, <4>2, <4>3
    <3>9. Get(t.containers[c][p], k) # {}
      <4>1. CASE m = 0
        BY <3>2, <3>7, <3>8, <4>1 DEF Get
      <4>2. CASE m # 0
        BY <3>2, <3>3, <3>8, <4>2 DEF Get
      <4> QED BY <4>1, <4>2
    <3> QED BY <3>9 DEF Get
  <2>2. ASSUME NEW i \in DOMAIN ov, ov[i].name = d, i > Latest(e), Says(ov[i], p, c), NEW k \in DOMAIN Values(ov[i], p, c)
        PROVE  k \in DOMAIN t.containers[c][p]
    <3>1. i \in Setting(ov, d, c, p, k)
      BY <2>2 DEF Setting
    <3> HIDE DEF e
    <3> QED BY <2>1, <2>2, <3>1
  <2> HIDE DEF e
  <2>3. Latest(e) = 0 => DOMAIN Templates[d].containers[c][p] \subseteq DOMAIN t.containers[c][p]
    BY <2>1
  <2>4. \A i \in DOMAIN ov :
          ov[i].name = d /\ i > Latest(e) /\ Says(ov[i], p, c)
              => DOMAIN Values(ov[i], p, c) \subseteq DOMAIN t.containers[c][p]
    BY <2>2
  <2> QED BY <2>3, <2>4 DEF e
<1>14. ASSUME NEW c \in DOMAIN t.containers, NEW p \in Probes
       PROVE  LET disabled == LastOf(ov, d, LAMBDA o : Says(o, p, c) /\ Values(o, p, c) = Empty)
              IN  /\ disabled = 0 => DOMAIN Templates[d].containers[c][p] \subseteq DOMAIN t.containers[c][p]
                  /\ \A i \in DOMAIN ov :
                      ov[i].name = d /\ i > disabled /\ Says(ov[i], p, c)
                          => DOMAIN Values(ov[i], p, c) \subseteq DOMAIN t.containers[c][p]
  <2>1. LastOf(ov, d, LAMBDA o : Says(o, p, c) /\ Values(o, p, c) = Empty) = Latest(Disabling(ov, d, c, p))
    <3>1. Disabling(ov, d, c, p)
            = {i \in DOMAIN ov : i < Len(ov) + 1 /\ ov[i].name = d /\ (Says(ov[i], p, c) /\ Values(ov[i], p, c) = Empty)}
      BY <1>2 DEF Disabling
    <3> QED BY <3>1, Zenon DEF LastOf, LastBefore, Latest
  <2> QED BY <1>13, <2>1 DEF LastOf, LastBefore
<1>15. \A i \in DOMAIN ov : ov[i].name = d => DOMAIN ov[i].labels \subseteq DOMAIN t.labels
  BY <1>12
<1> QED BY <1>3, <1>7, <1>8, <1>9, <1>11, <1>14, <1>15, Zenon DEF ov, t

-----------------------------------------------------------------------------
(* The inductive invariant.                                                *)

\* Replicas that were applied are there until others are; those of a deployment
\* with an HPA are applied only to scale it to 0, and once they are not applied
\* any more, it does not stay there.
Scaled ==
    \A d \in Deployments :
        /\ last[d] # None => live[d] = last[d]
        /\ last[d] = None => live[d] # 0
        /\ d \in Autoscaled => last[d] \in {None, 0}

\* The deployment d, or the HPA of d, is as the manifests have it for the
\* overrides Overrides[f] and the scale targets t.
Written(f, t, d) == last[d] = ManifestReplicas(Overrides[f], t, d) /\ live[d] # None
Declared(f, t, d) == hpa[d] = ManifestHPA(Overrides[f], t, d)

\* What the reconcile has done so far; its input is current if an earlier one
\* with the present spec completed.
Progress ==
    /\ pc # "idle" /\ settled => input = [overrides |-> overrides, target |-> target]
    /\ pc = "delete" =>
        todo = Deployments /\ todoHPA = {d \in Autoscaled : ~RemovedHPA(Overrides[input.overrides], input.target, d)}
    /\ pc = "apply" =>
        /\ \A d \in Deployments \ todo : Written(input.overrides, input.target, d)
        /\ \A d \in Autoscaled \ todoHPA : Declared(input.overrides, input.target, d)

Installed ==
    settled =>
        /\ \A d \in Deployments : Written(overrides, target, d)
        /\ \A d \in Autoscaled : Declared(overrides, target, d)

IInv == TypeOK /\ HPABounds /\ Scaled /\ Progress /\ Installed

\* What the manifests may say.
LEMMA Manifests ==
    ASSUME NEW f \in DOMAIN Overrides, NEW t \in Targets, NEW d \in Deployments
    PROVE  /\ ManifestReplicas(Overrides[f], t, d) \in Nat \cup {None}
           /\ d \in Autoscaled => ManifestReplicas(Overrides[f], t, d) \in {None, 0}
           /\ RemovedHPA(Overrides[f], t, d) => ManifestHPA(Overrides[f], t, d) = NoHPA
           /\ ManifestHPA(Overrides[f], t, d) \in [min : Int, max : Int]
           /\ ~RemovedHPA(Overrides[f], t, d) =>
                ManifestHPA(Overrides[f], t, d).min <= ManifestHPA(Overrides[f], t, d).max
<1> DEFINE ov == Overrides[f]
           i == Latest(Replacing(ov, d))
           h == OverriddenHPA(ov, d)
<1>1. IsOverrides(ov)
  BY OverridesGiven
<1>2. OverriddenReplicas(ov, d) \in Nat \cup {None} /\ (d \in Autoscaled => OverriddenReplicas(ov, d) = None)
  <2>1. i \in {0} \cup Replacing(ov, d)
    <3>1. Len(ov) \in Nat /\ Replacing(ov, d) \in SUBSET (1..Len(ov))
      BY <1>1 DEF Replacing, IsOverrides
    <3> HIDE DEF ov
    <3> QED BY <3>1, LatestIs
  <2>2. \A j \in Replacing(ov, d) : ov[j].replicas \in Nat \cup {None}
    BY <1>1 DEF Replacing, IsOverrides
  <2> HIDE DEF ov
  <2> QED BY <1>1, <2>1, <2>2, ReplicasOverridden DEF None
<1>3. h \in [min : Nat, max : Nat] /\ h.min <= h.max
  <2>1. h \in [min : Nat, max : Nat] /\ h.max - h.min = DefaultHPA.max - DefaultHPA.min
    BY <1>1, HPAOverridden
  <2> HIDE DEF h
  <2> QED BY <2>1, DefaultHPAAssumption
<1>4. \A name : ScaleTargetOf(name, t) \in {None, 0, 1}
  BY DEF ScaleTargetOf, Targets
<1> HIDE DEF ov, h
<1>5. ManifestReplicas(ov, t, d) \in Nat \cup {None} /\ (d \in Autoscaled => ManifestReplicas(ov, t, d) \in {None, 0})
  BY <1>2, <1>4 DEF ManifestReplicas
<1>6. /\ ManifestHPA(ov, t, d) \in [min : Int, max : Int]
      /\ ~RemovedHPA(ov, t, d) => ManifestHPA(ov, t, d).min <= ManifestHPA(ov, t, d).max
      /\ RemovedHPA(ov, t, d) => ManifestHPA(ov, t, d) = NoHPA
  <2>1. ManifestHPA(ov, t, d) \in {NoHPA, HPAReplicas(h, 1), h}
        /\ (RemovedHPA(ov, t, d) => ManifestHPA(ov, t, d) = NoHPA)
        /\ (~RemovedHPA(ov, t, d) => ManifestHPA(ov, t, d) \in {HPAReplicas(h, 1), h})
    BY DEF ManifestHPA, h
  <2>2. NoHPA \in [min : Int, max : Int]
    BY DEF NoHPA, None
  <2>3. \A g \in {HPAReplicas(h, 1), h} : g \in [min : Int, max : Int] /\ g.min <= g.max
    BY <1>3 DEF HPAReplicas
  <2> HIDE DEF h
  <2> QED BY <2>1, <2>2, <2>3
<1> QED BY <1>5, <1>6 DEF ov

LEMMA InitIInv == Init => IInv
<1> SUFFICES ASSUME Init PROVE IInv
  OBVIOUS
<1>1. TypeOK
  <2>1. edits \in 0..MaxEdits /\ failures \in 0..MaxFailures
    BY BoundsAssumption DEF Init
  <2>2. hpa \in [Autoscaled -> [min : Int, max : Int]]
    BY DEF Init, NoHPA, None
  <2>3. input \in [overrides : DOMAIN Overrides, target : Targets]
    BY DEF Init
  <2>4. live \in [Deployments -> Nat \cup {None}] /\ last \in [Deployments -> Nat \cup {None}]
    BY DEF Init
  <2> QED BY <2>1, <2>2, <2>3, <2>4 DEF Init, TypeOK
<1>2. HPABounds /\ Scaled /\ Progress /\ Installed
  BY DEF Init, HPABounds, Scaled, Progress, Installed, NoHPA, None
<1> QED BY <1>1, <1>2 DEF IInv

LEMMA TypeNext == ASSUME TypeOK, HPABounds, [Next]_vars PROVE TypeOK'
<1> USE DEF TypeOK
<1>1. CASE Edit
  <2>1. edits' \in 0..MaxEdits
    BY <1>1, BoundsAssumption DEF Edit
  <2> QED BY <1>1, <2>1 DEF Edit, work, cluster
<1>2. ASSUME NEW d \in Autoscaled, Autoscale(d) PROVE TypeOK'
  <2>1. d \in Deployments
    BY DEF Autoscaled
  <2>2. PICK r \in hpa[d].min..hpa[d].max : live' = [live EXCEPT ![d] = r]
    BY <1>2 DEF Autoscale
  <2>3. r \in Nat
    BY <1>2, <2>2 DEF Autoscale, HPABounds
  <2> QED BY <1>2, <2>1, <2>2, <2>3 DEF Autoscale, spec, work
<1>3. CASE Start
  BY <1>3 DEF Start, spec, cluster
<1>4. CASE DeleteHPA
  <2>1. hpa' \in [Autoscaled -> [min : Int, max : Int]]
    BY <1>4 DEF DeleteHPA, NoHPA, None
  <2> QED BY <1>4, <2>1 DEF DeleteHPA, spec
<1>5. CASE RequestFailed
  <2>1. failures' \in 0..MaxFailures
    BY <1>5, BoundsAssumption DEF RequestFailed
  <2> QED BY <1>5, <2>1 DEF RequestFailed, spec, cluster
<1>6. ASSUME NEW d \in Deployments, ApplyDeployment(d) PROVE TypeOK'
  <2> DEFINE r == ManifestReplicas(Overrides[input.overrides], input.target, d)
  <2>1. r \in Nat \cup {None}
    BY Manifests
  <2> HIDE DEF r
  <2>2. /\ live' = [live EXCEPT ![d] = IF r # None THEN r
                                       ELSE IF @ = None \/ last[d] # None THEN 1 ELSE @]
        /\ last' = [last EXCEPT ![d] = r]
    BY <1>6 DEF ApplyDeployment, r
  <2>3. live' \in [Deployments -> Nat \cup {None}] /\ last' \in [Deployments -> Nat \cup {None}]
    BY <2>1, <2>2
  <2> QED BY <1>6, <2>3 DEF ApplyDeployment, spec
<1>7. ASSUME NEW d \in Deployments, RejectDeployment(d) PROVE TypeOK'
  BY <1>7 DEF RejectDeployment, spec, cluster
<1>8. ASSUME NEW d \in Autoscaled, ApplyHPA(d) PROVE TypeOK'
  <2>1. ManifestHPA(Overrides[input.overrides], input.target, d) \in [min : Int, max : Int]
    BY Manifests DEF Autoscaled
  <2>2. hpa' \in [Autoscaled -> [min : Int, max : Int]]
    BY <1>8, <2>1 DEF ApplyHPA
  <2> QED BY <1>8, <2>2 DEF ApplyHPA, spec
<1>9. ASSUME NEW d \in Autoscaled, RejectHPA(d) PROVE TypeOK'
  BY <1>9 DEF RejectHPA, spec, cluster
<1>10. CASE UNCHANGED vars
  BY <1>10 DEF vars, spec, work, cluster
<1>11. CASE Finish
  <2>1. settled' \in BOOLEAN
    BY <1>11, Zenon DEF Finish
  <2> QED BY <1>11, <2>1 DEF Finish, spec, cluster
<1> QED BY <1>1, <1>2, <1>3, <1>4, <1>5, <1>6, <1>7, <1>8, <1>9, <1>10, <1>11 DEF Next, ReconcileStep


LEMMA BoundsNext == ASSUME TypeOK, HPABounds, [Next]_vars PROVE HPABounds'
<1>1. CASE DeleteHPA
  BY <1>1 DEF DeleteHPA, HPABounds
<1>2. ASSUME NEW d \in Autoscaled, ApplyHPA(d) PROVE HPABounds'
  <2> DEFINE h == ManifestHPA(Overrides[input.overrides], input.target, d)
  <2>1. h.min >= 1 /\ hpa' = [hpa EXCEPT ![d] = h]
    BY <1>2 DEF ApplyHPA
  <2>2. d \in Deployments /\ input.overrides \in DOMAIN Overrides /\ input.target \in Targets
    BY DEF TypeOK, Autoscaled
  <2>3. h # NoHPA
    BY <2>1 DEF NoHPA, None
  <2>4. h.min <= h.max
    BY <2>2, <2>3, Manifests
  <2> HIDE DEF h
  <2> QED BY <2>1, <2>4 DEF HPABounds, TypeOK
<1>3. CASE UNCHANGED hpa
  BY <1>3 DEF HPABounds
<1> QED BY <1>1, <1>2, <1>3 DEF Next, ReconcileStep, Edit, Autoscale, Start, RequestFailed, Finish,
            ApplyDeployment, RejectDeployment, RejectHPA, cluster, vars

LEMMA ScaledNext == ASSUME TypeOK, HPABounds, Scaled, [Next]_vars PROVE Scaled'
<1>1. ASSUME NEW d \in Autoscaled, Autoscale(d) PROVE Scaled'
  <2>1. d \in Deployments
    BY DEF Autoscaled
  <2>2. last[d] = None
    BY <1>1, <2>1 DEF Scaled, Autoscale, None
  <2>3. PICK r \in hpa[d].min..hpa[d].max : live' = [live EXCEPT ![d] = r]
    BY <1>1 DEF Autoscale
  <2>4. r # 0
    BY <1>1, <2>3 DEF Autoscale, HPABounds, TypeOK
  <2> QED BY <1>1, <2>1, <2>2, <2>3, <2>4 DEF Autoscale, Scaled, TypeOK
<1>2. ASSUME NEW d \in Deployments, ApplyDeployment(d) PROVE Scaled'
  <2> DEFINE r == ManifestReplicas(Overrides[input.overrides], input.target, d)
  <2>1. d \in Autoscaled => r \in {None, 0}
    BY Manifests DEF TypeOK
  <2>2. /\ live' = [live EXCEPT ![d] = IF r # None THEN r
                                       ELSE IF @ = None \/ last[d] # None THEN 1 ELSE @]
        /\ last' = [last EXCEPT ![d] = r]
    BY <1>2 DEF ApplyDeployment
  <2> HIDE DEF r
  <2>3. \A e \in Deployments \ {d} : live'[e] = live[e] /\ last'[e] = last[e]
    BY <2>2 DEF TypeOK
  <2>4. last'[d] = r /\ live'[d] = IF r # None THEN r
                                   ELSE IF live[d] = None \/ last[d] # None THEN 1 ELSE live[d]
    BY <2>2 DEF TypeOK
  <2>5. (r # None => live'[d] = r) /\ (r = None => live'[d] # 0)
    BY <2>4 DEF Scaled
  <2> QED BY <2>1, <2>3, <2>4, <2>5 DEF Scaled
<1>3. CASE UNCHANGED <<live, last>>
  BY <1>3 DEF Scaled
<1> QED BY <1>1, <1>2, <1>3 DEF Next, ReconcileStep, Edit, Start, DeleteHPA, RequestFailed, Finish,
            RejectDeployment, ApplyHPA, RejectHPA, cluster, vars


LEMMA ProgressNext ==
    ASSUME TypeOK, HPABounds, Scaled, Progress, [Next]_vars
    PROVE  Progress'
<1>1. CASE Edit
  BY <1>1 DEF Edit, Progress, Written, Declared, work, cluster
<1>2. ASSUME NEW d \in Autoscaled, Autoscale(d) PROVE Progress'
  <2>1. PICK r \in hpa[d].min..hpa[d].max : live' = [live EXCEPT ![d] = r]
    BY <1>2 DEF Autoscale
  <2>2. r # None
    BY <1>2, <2>1 DEF Autoscale, HPABounds, TypeOK, None
  <2>3. \A e \in Deployments : live[e] # None => live'[e] # None
    BY <2>1, <2>2 DEF TypeOK
  <2> QED BY <1>2, <2>3 DEF Autoscale, Progress, Written, Declared, spec, work
<1>3. CASE Start
  BY <1>3 DEF Start, Progress, spec, cluster
<1>4. CASE DeleteHPA
  <2>1. ASSUME NEW d \in Autoscaled \ todoHPA PROVE Declared(input.overrides, input.target, d)'
    <3>1. RemovedHPA(Overrides[input.overrides], input.target, d)
      BY <1>4 DEF DeleteHPA, Progress
    <3>2. ManifestHPA(Overrides[input.overrides], input.target, d) = NoHPA
      BY <3>1, Manifests DEF TypeOK, Autoscaled
    <3>3. hpa'[d] = NoHPA /\ input' = input
      BY <1>4, <3>1 DEF DeleteHPA
    <3> QED BY <3>2, <3>3 DEF Declared
  <2> QED BY <1>4, <2>1 DEF DeleteHPA, Progress, spec
<1>5. ASSUME NEW d \in Deployments, ApplyDeployment(d) PROVE Progress'
  <2> DEFINE r == ManifestReplicas(Overrides[input.overrides], input.target, d)
  <2>1. /\ live' = [live EXCEPT ![d] = IF r # None THEN r
                                       ELSE IF @ = None \/ last[d] # None THEN 1 ELSE @]
        /\ last' = [last EXCEPT ![d] = r]
        /\ pc = "apply" /\ todo' = todo \ {d}
    BY <1>5 DEF ApplyDeployment
  <2>2. UNCHANGED <<overrides, target, pc, input, todoHPA, hpa, settled>>
    BY <1>5 DEF ApplyDeployment, spec
  <2> HIDE DEF r
  <2>3. last'[d] = r /\ live'[d] # None
    BY <2>1 DEF TypeOK, None
  <2>4. \A e \in Deployments \ {d} : live'[e] = live[e] /\ last'[e] = last[e]
    BY <2>1 DEF TypeOK
  <2>5. \A e \in Deployments \ todo' : Written(input.overrides, input.target, e)'
    BY <2>1, <2>2, <2>3, <2>4 DEF Progress, Written, r
  <2> QED BY <2>1, <2>2, <2>5 DEF Progress, Declared
<1>6. ASSUME NEW d \in Autoscaled, ApplyHPA(d) PROVE Progress'
  <2> DEFINE h == ManifestHPA(Overrides[input.overrides], input.target, d)
  <2>1. pc = "apply" /\ hpa' = [hpa EXCEPT ![d] = h] /\ todoHPA' = todoHPA \ {d}
    BY <1>6 DEF ApplyHPA
  <2>2. UNCHANGED <<overrides, target, pc, input, todo, live, last, settled>>
    BY <1>6 DEF ApplyHPA, spec
  <2> HIDE DEF h
  <2>3. \A e \in Autoscaled \ todoHPA' : Declared(input.overrides, input.target, e)'
    BY <2>1, <2>2 DEF Progress, Declared, TypeOK, h
  <2> QED BY <2>1, <2>2, <2>3 DEF Progress, Written
<1>7. CASE pc' = "idle"
  BY <1>7 DEF Progress
<1>8. CASE UNCHANGED vars
  BY <1>8 DEF vars, spec, work, cluster, Progress, Written, Declared
<1> QED BY <1>1, <1>2, <1>3, <1>4, <1>5, <1>6, <1>7, <1>8
        DEF Next, ReconcileStep, RequestFailed, Finish, RejectDeployment, RejectHPA

LEMMA InstalledNext ==
    ASSUME TypeOK, HPABounds, Scaled, Progress, Installed, [Next]_vars
    PROVE  Installed'
<1>1. CASE Edit
  BY <1>1 DEF Edit, Installed
<1>2. ASSUME NEW d \in Autoscaled, Autoscale(d) PROVE Installed'
  <2>1. PICK r \in hpa[d].min..hpa[d].max : live' = [live EXCEPT ![d] = r]
    BY <1>2 DEF Autoscale
  <2>2. r # None
    BY <1>2, <2>1 DEF Autoscale, HPABounds, TypeOK, None
  <2>3. \A e \in Deployments : live[e] # None => live'[e] # None
    BY <2>1, <2>2 DEF TypeOK
  <2> QED BY <1>2, <2>3 DEF Autoscale, Installed, Written, Declared, spec
<1>3. CASE DeleteHPA
  <2> SUFFICES ASSUME settled PROVE Installed'
    BY <1>3 DEF DeleteHPA, Installed
  <2>1. input = [overrides |-> overrides, target |-> target]
    BY <1>3 DEF DeleteHPA, Progress
  <2>2. UNCHANGED <<overrides, target, live, last, settled>>
    BY <1>3 DEF DeleteHPA, spec
  <2>3. ASSUME NEW d \in Autoscaled PROVE hpa'[d] = hpa[d]
    <3>1. RemovedHPA(Overrides[overrides], target, d) => hpa[d] = NoHPA
      BY Manifests DEF Installed, Declared, TypeOK, Autoscaled
    <3> QED BY <1>3, <2>1, <3>1 DEF DeleteHPA
  <2> QED BY <2>2, <2>3 DEF Installed, Written, Declared
<1>4. ASSUME NEW d \in Deployments, ApplyDeployment(d) PROVE Installed'
  <2> SUFFICES ASSUME settled PROVE Installed'
    BY <1>4 DEF ApplyDeployment, Installed
  <2> DEFINE r == ManifestReplicas(Overrides[overrides], target, d)
  <2>1. input = [overrides |-> overrides, target |-> target]
    BY <1>4 DEF ApplyDeployment, Progress
  <2>2. /\ live' = [live EXCEPT ![d] = IF r # None THEN r
                                       ELSE IF @ = None \/ last[d] # None THEN 1 ELSE @]
        /\ last' = [last EXCEPT ![d] = r]
    BY <1>4, <2>1 DEF ApplyDeployment
  <2>3. UNCHANGED <<overrides, target, hpa, settled>>
    BY <1>4 DEF ApplyDeployment, spec
  <2> HIDE DEF r
  <2>4. last'[d] = r /\ live'[d] # None
    BY <2>2 DEF TypeOK, None
  <2>5. \A e \in Deployments \ {d} : live'[e] = live[e] /\ last'[e] = last[e]
    BY <2>2 DEF TypeOK
  <2>6. \A e \in Deployments : Written(overrides, target, e)'
    BY <2>3, <2>4, <2>5 DEF Installed, Written, r
  <2> QED BY <2>3, <2>6 DEF Installed, Declared
<1>5. ASSUME NEW d \in Autoscaled, ApplyHPA(d) PROVE Installed'
  <2> SUFFICES ASSUME settled PROVE Installed'
    BY <1>5 DEF ApplyHPA, Installed
  <2>1. input = [overrides |-> overrides, target |-> target]
    BY <1>5 DEF ApplyHPA, Progress
  <2>2. hpa' = [hpa EXCEPT ![d] = ManifestHPA(Overrides[overrides], target, d)]
    BY <1>5, <2>1 DEF ApplyHPA
  <2>3. UNCHANGED <<overrides, target, live, last, settled>>
    BY <1>5 DEF ApplyHPA, spec
  <2> QED BY <2>2, <2>3 DEF Installed, Written, Declared, TypeOK
<1>6. CASE Finish
  <2>1. todo = {} /\ todoHPA = {} /\ pc = "apply" /\ UNCHANGED <<overrides, target, live, last, hpa>>
    BY <1>6 DEF Finish, spec, cluster
  <2>2. CASE settled
    BY <2>1, <2>2 DEF Installed, Written, Declared
  <2>3. CASE input.overrides = overrides /\ input.target = target
    BY <2>1, <2>3 DEF Progress, Installed, Written, Declared
  <2> QED BY <1>6, <2>2, <2>3 DEF Finish, Installed
<1>7. CASE UNCHANGED <<overrides, target, live, last, hpa, settled>>
  BY <1>7 DEF Installed, Written, Declared
<1> QED BY <1>1, <1>2, <1>3, <1>4, <1>5, <1>6, <1>7
        DEF Next, ReconcileStep, Start, RequestFailed, RejectDeployment, RejectHPA, spec, cluster, vars


\* The invariant holds of every reachable state, whichever deployments,
\* overrides and manifests there are.
THEOREM Inductive == Spec => []IInv
<1>1. IInv /\ [Next]_vars => IInv'
  <2> SUFFICES ASSUME IInv, [Next]_vars PROVE IInv'
    OBVIOUS
  <2> QED BY TypeNext, BoundsNext, ScaledNext, ProgressNext, InstalledNext DEF IInv
<1> QED BY InitIInv, <1>1, PTL DEF Spec

-----------------------------------------------------------------------------
(* The properties.                                                         *)

\* The variables keep their types: in particular, no number of replicas that
\* the folds compute is negative.
THEOREM TypeCorrect == Spec => []TypeOK
<1>1. IInv => TypeOK
  BY DEF IInv
<1> QED BY Inductive, <1>1, PTL

\* Every HPA that is brought into the cluster has 1 <= min <= max, whatever
\* the overrides say and however often it is scaled (HPAReplicas).
THEOREM BoundsKept == Spec => []HPABounds
<1>1. IInv => HPABounds
  BY DEF IInv
<1> QED BY Inductive, <1>1, PTL

\* ScaleName is that of the scale target for every deployment which has one.
LEMMA Named ==
    ASSUME NEW d, d # "mt-broker-ingress"
    PROVE  ScaleName(d) = d
BY DEF ScaleName

LEMMA IngressUnknown == ASSUME NEW t PROVE ScaleTargetOf("mt-broker-ingress", t) = None
BY DEF ScaleTargetOf

\* Once a reconcile with the present spec went through, what has no objects to
\* serve and no override has neither replicas nor an HPA (applyScaling).
THEOREM ScalesToZero == Spec => []ScaledToZero
<1>1. ASSUME IInv, NEW d \in Deployments, Unscaled(d)
      PROVE  live[d] = 0 /\ (d \in Autoscaled => hpa[d] = NoHPA)
  <2> DEFINE ov == Overrides[overrides]
  <2>1. settled /\ ScaleTargetOf(d, target) = 0 /\ ~ReplicasSet(ov, d)
    BY <1>1 DEF Unscaled
  <2>2. ScaleName(d) = d
    BY <2>1, Named, IngressUnknown DEF None
  <2>3. ManifestReplicas(ov, target, d) = 0
    BY <2>1 DEF ManifestReplicas, None
  <2>4. live[d] = 0
    BY <1>1, <2>1, <2>3 DEF IInv, Installed, Written, Scaled, None
  <2>5. ManifestHPA(ov, target, d) = NoHPA
    BY <2>1, <2>2 DEF ManifestHPA, RemovedHPA
  <2> QED BY <1>1, <2>1, <2>4, <2>5 DEF IInv, Installed, Declared
<1>2. IInv => ScaledToZero
  BY <1>1 DEF ScaledToZero
<1> QED BY Inductive, <1>2, PTL

\* What has objects to serve and no override has at least one replica then, and
\* its HPA: the 0 of an earlier reconcile was taken back (applyScaling).
THEOREM ScalesFromZero == Spec => []ScaledFromZero
<1>1. ASSUME IInv, NEW d \in Deployments,
             settled, ScaleTargetOf(d, target) = 1, ~ReplicasSet(Overrides[overrides], d)
      PROVE  live[d] >= 1 /\ (d \in Autoscaled => hpa[d] # NoHPA)
  <2> DEFINE ov == Overrides[overrides]
             r == ManifestReplicas(ov, target, d)
  <2>1. ScaleName(d) = d
    BY <1>1, Named, IngressUnknown DEF None
  <2>2. r \in {None, 1}
    <3>1. d \notin Autoscaled => r = 1
      BY <1>1 DEF ManifestReplicas, None
    <3>2. d \in Autoscaled => r = None
      <4>1. IsOverrides(ov)
        BY <1>1, OverridesGiven DEF IInv, TypeOK
      <4> QED BY <1>1, <4>1, ReplicasOverridden DEF ManifestReplicas
    <3> QED BY <3>1, <3>2
  <2>3. last[d] = r /\ live[d] # None
    BY <1>1 DEF IInv, Installed, Written
  <2>4. live[d] >= 1
    <3>1. live[d] \in Nat /\ (last[d] # None => live[d] = last[d]) /\ (last[d] = None => live[d] # 0)
      BY <1>1, <2>3 DEF IInv, Scaled, TypeOK
    <3> HIDE DEF r
    <3> QED BY <2>2, <2>3, <3>1 DEF None
  <2>5. ManifestHPA(ov, target, d).min = 1
    BY <1>1, <2>1 DEF ManifestHPA, RemovedHPA, HPAReplicas
  <2>6. ManifestHPA(ov, target, d) # NoHPA
    BY <2>5 DEF NoHPA, None
  <2> QED BY <1>1, <2>4, <2>6 DEF IInv, Installed, Declared
<1>2. IInv => ScaledFromZero
  BY <1>1 DEF ScaledFromZero
<1> QED BY Inductive, <1>2, PTL

\* The last override of the replicas wins over the scale target, and over every
\* override before it (the folds of WorkloadsOverride).  As OverrideWins, it
\* leaves out mt-broker-ingress, which the code looks up under another name and
\* whose override it loses.
THEOREM OverridesOfReplicasWin == Spec => []OverrideWins
<1>1. ASSUME IInv, NEW d \in Deployments, NEW i \in DOMAIN Overrides[overrides],
             settled, Overrides[overrides][i].name = d, Overrides[overrides][i].replicas # None,
             d # "mt-broker-ingress",
             ~ReplicasSet(SubSeq(Overrides[overrides], i + 1, Len(Overrides[overrides])), d)
      PROVE  IF d \in Autoscaled
             THEN hpa[d].min = Overrides[overrides][i].replicas /\ live[d] > 0
             ELSE live[d] = Overrides[overrides][i].replicas
  <2> DEFINE ov == Overrides[overrides]
             n == Len(ov)
             I == Replacing(ov, d)
  <2>1. IsOverrides(ov)
    BY <1>1, OverridesGiven DEF IInv, TypeOK
  <2>2. n \in Nat /\ DOMAIN ov = 1..n /\ i \in 1..n /\ i \in I /\ I \in SUBSET (1..n)
    BY <1>1, <2>1 DEF IsOverrides, Replacing
  <2>3. ASSUME NEW j \in I PROVE j <= i
    <3> SUFFICES ASSUME j > i PROVE FALSE
      BY <2>2
    <3> DEFINE rest == SubSeq(ov, i + 1, n)
    <3>1. j - i \in 1..(n - i) /\ i + 1 \in Nat /\ (i + 1) + (j - i) - 1 = j
      BY <2>2
    <3>2. rest = [k \in 1..(n - i) |-> ov[i + k]]
      BY <2>2
    <3> HIDE DEF rest
    <3>3. j - i \in DOMAIN rest /\ rest[j - i] = ov[j]
      BY <2>2, <3>1, <3>2
    <3>4. ov[j].name = d /\ ov[j].replicas # None
      BY DEF Replacing
    <3> QED BY <1>1, <3>3, <3>4 DEF ReplicasSet, rest
  <2>4. Latest(I) = i
    <3> HIDE DEF I, n
    <3> QED BY <2>2, <2>3, LatestIs
  <2>5. ReplicasSet(ov, d) /\ ScaleName(d) = d
    BY <1>1, Named DEF ReplicasSet
  <2>6. i # 0
    BY <2>2
  <2>7. last[d] = OverriddenReplicas(ov, d) /\ live[d] # None
    BY <1>1, <2>5 DEF IInv, Installed, Written, ManifestReplicas
  <2>8. /\ last[d] # None => live[d] = last[d]
        /\ last[d] = None => live[d] # 0
        /\ live[d] \in Nat \cup {None}
    BY <1>1 DEF IInv, Scaled, TypeOK
  <2>9. CASE d \in Autoscaled
    <3>1. hpa[d] = OverriddenHPA(ov, d)
      BY <1>1, <2>5, <2>9 DEF IInv, Installed, Declared, ManifestHPA, RemovedHPA
    <3>2. OverriddenHPA(ov, d).min = ov[i].replicas
      BY <2>1, <2>4, <2>6, HPAOverridden
    <3>3. last[d] = None
      BY <2>1, <2>7, <2>9, ReplicasOverridden
    <3> QED BY <2>7, <2>8, <2>9, <3>1, <3>2, <3>3
  <2>10. CASE d \notin Autoscaled
    <3>1. last[d] = ov[i].replicas
      BY <2>1, <2>4, <2>6, <2>7, <2>10, ReplicasOverridden
    <3> QED BY <1>1, <2>8, <2>10, <3>1
  <2> QED BY <2>9, <2>10
<1>2. IInv => OverrideWins
  BY <1>1 DEF OverrideWins
<1> QED BY Inductive, <1>2, PTL

\* Whatever sequence of overrides there is, the last that says something of a
\* label, of a setting of a probe or of the host network has its way in the pod
\* template, and no label or setting is dropped unless its probe was disabled
\* later (WorkloadsOverride).
THEOREM OverridesOfTemplatesWin == Spec => []LastOverrideWins
<1>1. TypeOK => LastOverrideWins
  BY TemplateOverridden
<1> QED BY TypeCorrect, <1>1, PTL

\* A reconcile of a spec that is in the cluster already changes nothing there:
\* replicas that the manifests do not give are left to the HPA controller, and
\* those they give are there.
THEOREM ReconcilesAgain == Spec => Undisturbed
<1>1. IInv /\ [Next]_vars => [settled /\ work' # work => cluster' = cluster]_vars
  <2> SUFFICES ASSUME IInv, Next, settled, work' # work PROVE cluster' = cluster
    OBVIOUS
  <2>0. TypeOK /\ Scaled /\ Progress /\ Installed
    BY DEF IInv
  <2>1. CASE DeleteHPA
    <3>1. input = [overrides |-> overrides, target |-> target]
      BY <2>0, <2>1 DEF DeleteHPA, Progress
    <3>2. ASSUME NEW d \in Autoscaled PROVE hpa'[d] = hpa[d]
      <4>1. RemovedHPA(Overrides[overrides], target, d) => hpa[d] = NoHPA
        BY <2>0, Manifests DEF Installed, Declared, TypeOK, Autoscaled
      <4> QED BY <2>1, <3>1, <4>1 DEF DeleteHPA
    <3>3. hpa' = hpa
      <4>1. hpa = [d \in Autoscaled |-> hpa[d]] /\ hpa' = [d \in Autoscaled |-> hpa'[d]]
        BY <2>0, <2>1 DEF TypeOK, DeleteHPA
      <4> QED BY <3>2, <4>1
    <3> QED BY <2>1, <3>3 DEF DeleteHPA, cluster
  <2>2. ASSUME NEW d \in Deployments, ApplyDeployment(d) PROVE cluster' = cluster
    <3> DEFINE r == ManifestReplicas(Overrides[overrides], target, d)
    <3>1. input = [overrides |-> overrides, target |-> target]
      BY <2>0, <2>2 DEF ApplyDeployment, Progress
    <3>2. /\ live' = [live EXCEPT ![d] = IF r # None THEN r
                                         ELSE IF @ = None \/ last[d] # None THEN 1 ELSE @]
          /\ last' = [last EXCEPT ![d] = r]
          /\ UNCHANGED hpa
      BY <2>2, <3>1 DEF ApplyDeployment
    <3>3. last[d] = r /\ live[d] # None /\ (last[d] # None => live[d] = last[d])
      BY <2>0 DEF Installed, Written, Scaled
    <3> HIDE DEF r
    <3>4. live' = live /\ last' = last
      BY <2>0, <3>2, <3>3 DEF TypeOK
    <3> QED BY <3>2, <3>4 DEF cluster
  <2>3. ASSUME NEW d \in Autoscaled, ApplyHPA(d) PROVE cluster' = cluster
    <3>1. input = [overrides |-> overrides, target |-> target]
      BY <2>0, <2>3 DEF ApplyHPA, Progress
    <3>2. hpa' = [hpa EXCEPT ![d] = hpa[d]]
      BY <2>0, <2>3, <3>1 DEF ApplyHPA, Installed, Declared
    <3>3. hpa' = hpa
      BY <2>0, <3>2 DEF TypeOK
    <3> QED BY <2>3, <3>3 DEF ApplyHPA, cluster
  <2> QED
    BY <2>1, <2>2, <2>3
    DEF Next, ReconcileStep, Edit, Autoscale, Start, Finish, RequestFailed, RejectDeployment, RejectHPA
<1> QED BY <1>1, Inductive, PTL DEF Spec, Undisturbed

=============================================================================
