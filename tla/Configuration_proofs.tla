------------------------ MODULE Configuration_proofs ------------------------
(***************************************************************************)
(* Proofs about Configuration, for every manifest, set of submissions and  *)
(* order of the config maps.  Convergence does not depend on what the      *)
(* transformers compute, which stays opaque there; the second part, about  *)
(* values that are written in two places, is about just that.              *)
(***************************************************************************)
EXTENDS Configuration, TLAPS

\* A key of a config map that is not in its annotation was put there by hand.
Known == \A cm \in Maps : DOMAIN cfg[cm] \subseteq DOMAIN last[cm] \cup byHand[cm]

\* The config map holds the data but for changes by hand, and its annotation
\* no key besides.
Placing(current, applied, changed, data) ==
    /\ \A k \in DOMAIN data \ changed : k \in DOMAIN current /\ current[k] = data[k]
    /\ DOMAIN applied \subseteq DOMAIN data
Placed(cm, s) == Placing(cfg[cm], last[cm], dirty[cm], Transformed(cm, s))

\* While Install runs, the config maps to apply are those of its spec, and the
\* ones before the next are placed.
Prepared ==
    pc \in {"delete", "apply"} => \A cm \in Maps : loc.toApply[cm] = Transformed(cm, loc.spec)
Begun ==
    pc = "apply" => \A i \in 1..(next - 1) : Placed(Order[i], loc.spec)
Fresh == pc \in {"transform", "delete"} => next = 1

\* Once it is done all are placed, and stay so until the next reconcile starts.
Finished ==
    /\ pc # "idle" => done = Nil
    /\ done # Nil => \A cm \in Maps : Placed(cm, done)

IInv == TypeOK /\ Known /\ Prepared /\ Fresh /\ Begun /\ Finished

-----------------------------------------------------------------------------
\* A defaulted and validated spec is not the absence of one.
LEMMA AdmittedNotNil == Nil \notin Admitted
  BY SubmissionsAssumption DEF Admitted

\* Order has a length.
LEMMA OrderLength == Len(Order) \in Nat /\ 1 \in 1..(Len(Order) + 1)
  <1>1. Len(Order) \in Nat
    BY OrderAssumption
  <1>2. ASSUME NEW n \in Nat PROVE 1 \in 1..(n + 1)
    OBVIOUS
  <1> QED BY <1>1, <1>2

LEMMA OrderNext ==
    ASSUME NEW i \in 1..(Len(Order) + 1), i <= Len(Order)
    PROVE  /\ i \in 1..Len(Order) /\ i + 1 \in 1..(Len(Order) + 1)
           /\ \A j \in 1..((i + 1) - 1) : j = i \/ j \in 1..(i - 1)
           /\ Order[i] \in Maps
  <1>1. ASSUME NEW n \in Nat, NEW h \in 1..(n + 1), h <= n
        PROVE  /\ h \in 1..n /\ h + 1 \in 1..(n + 1)
               /\ \A j \in 1..((h + 1) - 1) : j = h \/ j \in 1..(h - 1)
    <2>1. h \in 1..n /\ h + 1 \in 1..(n + 1)
      BY <1>1
    <2>2. ASSUME NEW j \in 1..((h + 1) - 1) PROVE j = h \/ j \in 1..(h - 1)
      BY <1>1, <2>2
    <2> QED BY <2>1, <2>2
  <1>2. ASSUME NEW h \in 1..Len(Order) PROVE Order[h] \in Maps
    BY OrderAssumption
  <1> QED BY <1>1, <1>2, OrderLength

LEMMA OrderBelow ==
    ASSUME NEW i \in 1..(Len(Order) + 1), NEW j \in 1..(i - 1)
    PROVE  j \in 1..(Len(Order) + 1) /\ j <= Len(Order)
  <1>1. ASSUME NEW n \in Nat, NEW h \in 1..(n + 1), NEW g \in 1..(h - 1)
        PROVE  g \in 1..(n + 1) /\ g <= n
    OBVIOUS
  <1> QED BY <1>1, OrderLength

LEMMA OrderAbove ==
    ASSUME NEW i \in 1..(Len(Order) + 1), i > Len(Order), NEW j \in 1..Len(Order)
    PROVE  j \in 1..(i - 1)
  <1>1. ASSUME NEW n \in Nat, NEW h \in 1..(n + 1), h > n, NEW g \in 1..n
        PROVE  g \in 1..(h - 1)
    BY <1>1
  <1> QED BY <1>1, OrderLength

\* What is left of the bounds stays natural.
LEMMA SpendBudget ==
    ASSUME budget \in Budget, NEW what \in {"submits", "edits", "failures"}, Spend(what)
    PROVE  budget' \in Budget
  BY DEF Spend, Budget

\* Initially there is nothing in the cluster.
LEMMA InitIInv == Init => IInv
  <1>1. Init => TypeOK
    <2> SUFFICES ASSUME Init PROVE TypeOK
      OBVIOUS
    <2>1. budget \in Budget
      BY BoundsAssumption DEF Init, Budget
    <2>2. next \in 1..(Len(Order) + 1)
      BY OrderLength DEF Init
    <2>3. DOMAIN loc = {"spec", "toApply"}
      BY DEF Init
    <2> QED BY <2>1, <2>2, <2>3 DEF Init, TypeOK
  <1>2. Init => Known /\ Prepared /\ Fresh /\ Begun /\ Finished
    BY DEF Init, Known, Prepared, Fresh, Begun, Finished, Empty
  <1> QED BY <1>1, <1>2 DEF IInv

\* The types are preserved by every step.
LEMMA TypeNext == TypeOK /\ [Next]_vars => TypeOK'
  <1> SUFFICES ASSUME TypeOK, [Next]_vars PROVE TypeOK'
    OBVIOUS
  <1> USE AdmittedNotNil DEF TypeOK
  <1>1. ASSUME NEW s \in Submissions, Submit(s) PROVE TypeOK'
    <2>1. SetDefaults(s) \in Admitted
      BY <1>1 DEF Submit, Admitted
    <2>2. budget' \in Budget
      BY <1>1, SpendBudget DEF Submit
    <2> QED BY <1>1, <2>1, <2>2 DEF Submit, mapVars
  <1>2. ASSUME NEW e \in Edits, Edit(e[1], e[2], e[3]) PROVE TypeOK'
    <2>1. budget' \in Budget
      BY <1>2, SpendBudget DEF Edit
    <2> QED BY <1>2, <2>1 DEF Edit
  <1>3. ASSUME NEW e \in Edits, DeleteMap(e[1]) PROVE TypeOK'
    <2>1. budget' \in Budget
      BY <1>3, SpendBudget DEF DeleteMap
    <2> QED BY <1>3, <2>1 DEF DeleteMap
  <1>4. CASE Deliver
    BY <1>4 DEF Deliver, mapVars
  <1>5. CASE Resync
    BY <1>5 DEF Resync, mapVars
  <1>6. CASE Crash
    <2>1. budget' \in Budget
      BY <1>6, SpendBudget DEF Crash
    <2> QED BY <1>6, <2>1 DEF Crash, Restart, mapVars
  <1>7. CASE Start
    <2>1. DOMAIN loc' = {"spec", "toApply"} /\ loc'.spec = cached
      BY <1>7 DEF Start
    <2>2. next' \in 1..(Len(Order) + 1)
      BY <1>7, OrderLength DEF Start
    <2> QED BY <1>7, <2>1, <2>2 DEF Start, mapVars
  <1>8. CASE Refuse
    BY <1>8 DEF Refuse, mapVars
  <1>9. CASE Panic
    BY <1>9 DEF Panic, Restart, mapVars
  <1>10. CASE Transform
    BY <1>10 DEF Transform, mapVars
  <1>11. CASE TransformFails
    BY <1>11 DEF TransformFails, Requeue, TransformError, mapVars
  <1>12. CASE RequestFails
    <2>1. budget' \in Budget
      BY <1>12, SpendBudget DEF RequestFails
    <2> QED BY <1>12, <2>1 DEF RequestFails, Requeue, mapVars
  <1>13. CASE Delete
    BY <1>13 DEF Delete, mapVars
  <1>14. CASE ApplyMap
    <2>1. next' \in 1..(Len(Order) + 1)
      BY <1>14, OrderNext DEF ApplyMap
    <2>2. DOMAIN cfg' = Maps /\ DOMAIN last' = Maps /\ DOMAIN byHand' = Maps /\ DOMAIN dirty' = Maps
      BY <1>14 DEF ApplyMap
    <2> QED BY <1>14, <2>1, <2>2 DEF ApplyMap
  <1>15. CASE ApplyTLS
    BY <1>15 DEF ApplyTLS, mapVars
  <1>16. CASE UNCHANGED vars
    BY <1>16 DEF vars, mapVars
  <1> QED
    BY <1>1, <1>2, <1>3, <1>4, <1>5, <1>6, <1>7, <1>8, <1>9, <1>10, <1>11, <1>12, <1>13, <1>14,
       <1>15, <1>16 DEF Next, Users, ReconcileStep

\* Every state has the types that TypeOK gives.
THEOREM TypeCorrect == Spec => []TypeOK
  <1>1. Init => TypeOK
    BY InitIInv DEF IInv
  <1> QED BY <1>1, TypeNext, PTL DEF Spec

-----------------------------------------------------------------------------
(* Convergence.                                                            *)

\* After it was applied a config map holds the data, whether or not the patch
\* was empty, and its annotation no key besides.
Noted(current, applied, data) == IF NoDiff(current, applied, data) THEN applied ELSE data
Kept(current, applied, data, hand) ==
    IF NoDiff(current, applied, data) THEN hand ELSE hand \ (DOMAIN data \cup DOMAIN applied)

LEMMA MergePlaces ==
    ASSUME NEW current, NEW applied, NEW data
    PROVE  /\ \A k \in DOMAIN data : k \in DOMAIN Merge(current, applied, data)
                                     /\ Merge(current, applied, data)[k] = data[k]
           /\ DOMAIN Noted(current, applied, data) \subseteq DOMAIN data
  BY DEF Merge, NoDiff, Noted

LEMMA MergeKnown ==
    ASSUME NEW current, NEW applied, NEW data, NEW hand,
           DOMAIN current \subseteq DOMAIN applied \cup hand
    PROVE  DOMAIN Merge(current, applied, data) \subseteq
               DOMAIN Noted(current, applied, data) \cup Kept(current, applied, data, hand)
  BY DEF Merge, NoDiff, Noted, Kept

\* What ApplyMap does to the config map it applies.
LEMMA AppliedMap ==
    ASSUME TypeOK, ApplyMap
    PROVE  LET m == Order[next] IN
           /\ m \in Maps
           /\ cfg'[m] = Merge(cfg[m], last[m], loc.toApply[m])
           /\ last'[m] = Noted(cfg[m], last[m], loc.toApply[m])
           /\ byHand'[m] = Kept(cfg[m], last[m], loc.toApply[m], byHand[m])
           /\ \A cm \in Maps \ {m} : /\ cfg'[cm] = cfg[cm] /\ last'[cm] = last[cm]
                                     /\ byHand'[cm] = byHand[cm] /\ dirty'[cm] = dirty[cm]
  <1>1. Order[next] \in Maps
    BY OrderNext DEF ApplyMap, TypeOK
  <1> QED BY <1>1 DEF ApplyMap, TypeOK, Noted, Kept

\* Nothing but Edit, DeleteMap and ApplyMap touches the config maps.
LEMMA KnownNext == TypeOK /\ Known /\ [Next]_vars => Known'
  <1> SUFFICES ASSUME TypeOK, Known, [Next]_vars PROVE Known'
    OBVIOUS
  <1>1. ASSUME NEW e \in Edits, Edit(e[1], e[2], e[3]) PROVE Known'
    BY <1>1, EditsAssumption DEF Edit, Known, TypeOK
  <1>2. ASSUME NEW e \in Edits, DeleteMap(e[1]) PROVE Known'
    BY <1>2, EditsAssumption DEF DeleteMap, Known, TypeOK, Empty
  <1>3. CASE ApplyMap
    <2> DEFINE m == Order[next]
    <2>1. DOMAIN cfg[m] \subseteq DOMAIN last[m] \cup byHand[m]
      BY <1>3, AppliedMap DEF Known
    <2>2. DOMAIN cfg'[m] \subseteq DOMAIN last'[m] \cup byHand'[m]
      BY <1>3, <2>1, AppliedMap, MergeKnown
    <2>3. ASSUME NEW cm \in Maps PROVE DOMAIN cfg'[cm] \subseteq DOMAIN last'[cm] \cup byHand'[cm]
      BY <1>3, <2>2, AppliedMap DEF Known
    <2> QED BY <2>3 DEF Known
  <1>4. CASE UNCHANGED mapVars
    BY <1>4 DEF Known, mapVars
  <1> QED
    BY <1>1, <1>2, <1>3, <1>4 DEF Next, Users, ReconcileStep, Submit, Deliver, Resync, Crash, Restart,
       Start, Refuse, Panic, Transform, TransformFails, RequestFails, Requeue, Delete, ApplyTLS, vars

\* A config map that is placed stays so, unless ApplyMap applies it.
LEMMA PlacingNext ==
    ASSUME TypeOK, [Next]_vars, ~ApplyMap, NEW cm \in Maps, NEW data,
           Placing(cfg[cm], last[cm], dirty[cm], data)
    PROVE  Placing(cfg'[cm], last'[cm], dirty'[cm], data)
  <1>1. ASSUME NEW e \in Edits, Edit(e[1], e[2], e[3])
        PROVE  Placing(cfg'[cm], last'[cm], dirty'[cm], data)
    <2> DEFINE k == e[2]
    <2>1. last' = last /\ (e[1] # cm => cfg'[cm] = cfg[cm] /\ dirty'[cm] = dirty[cm])
      BY <1>1, EditsAssumption DEF Edit, TypeOK
    <2>2. ASSUME e[1] = cm
          PROVE  /\ dirty'[cm] = dirty[cm] \cup {k}
                 /\ \A j \in DOMAIN cfg[cm] \ {k} : j \in DOMAIN cfg'[cm] /\ cfg'[cm][j] = cfg[cm][j]
      BY <1>1, <2>2 DEF Edit, TypeOK
    <2> HIDE DEF k
    <2> QED BY <2>1, <2>2 DEF Placing
  <1>2. ASSUME NEW e \in Edits, DeleteMap(e[1])
        PROVE  Placing(cfg'[cm], last'[cm], dirty'[cm], data)
    <2>1. e[1] # cm => cfg'[cm] = cfg[cm] /\ last'[cm] = last[cm] /\ dirty'[cm] = dirty[cm]
      BY <1>2, EditsAssumption DEF DeleteMap, TypeOK
    <2>2. e[1] = cm => last'[cm] = Empty /\ dirty'[cm] = dirty[cm] \cup DOMAIN cfg[cm]
      BY <1>2 DEF DeleteMap, TypeOK
    <2>3. DOMAIN Empty = {}
      BY DEF Empty
    <2> QED BY <2>1, <2>2, <2>3 DEF Placing
  <1>3. CASE UNCHANGED mapVars
    BY <1>3 DEF mapVars
  <1> QED
    BY <1>1, <1>2, <1>3 DEF Next, Users, ReconcileStep, Submit, Deliver, Resync, Crash, Restart,
       Start, Refuse, Panic, Transform, TransformFails, RequestFails, Requeue, Delete, ApplyTLS, vars

\* ApplyMap places its config map, and leaves the others.
LEMMA PlacingApply ==
    ASSUME TypeOK, ApplyMap, NEW cm \in Maps, NEW data,
           cm = Order[next] => loc.toApply[cm] = data,
           cm # Order[next] => Placing(cfg[cm], last[cm], dirty[cm], data)
    PROVE  Placing(cfg'[cm], last'[cm], dirty'[cm], data)
  <1>1. CASE cm = Order[next]
    BY <1>1, AppliedMap, MergePlaces DEF Placing
  <1>2. CASE cm # Order[next]
    BY <1>2, AppliedMap
  <1> QED BY <1>1, <1>2

\* The reconcile prepares what it applies, and starts with the first map.
LEMMA PreparedNext == TypeOK /\ Prepared /\ Fresh /\ [Next]_vars => Prepared' /\ Fresh'
  <1> SUFFICES ASSUME TypeOK, Prepared, Fresh, [Next]_vars PROVE Prepared' /\ Fresh'
    OBVIOUS
  <1>1. CASE Transform
    <2>1. loc.spec \in {a \in Admitted : a.overrides # Nil /\ TransformError(a) = ""}
      BY <1>1 DEF Transform, TypeOK
    <2>2. \A cm \in Maps : ToApply[loc.spec][cm] = Transformed(cm, loc.spec)
      BY <2>1 DEF ToApply
    <2>3. loc' = [loc EXCEPT !.toApply = ToApply[loc.spec]] /\ UNCHANGED next /\ pc = "transform"
      BY <1>1 DEF Transform
    <2>4. loc'.spec = loc.spec /\ loc'.toApply = ToApply[loc.spec]
      BY <2>3 DEF TypeOK
    <2>5. Prepared'
      BY <2>2, <2>4 DEF Prepared
    <2>6. Fresh'
      BY <2>3 DEF Fresh
    <2> QED BY <2>5, <2>6
  <1>2. CASE Start
    BY <1>2 DEF Start, Prepared, Fresh
  <1>3. CASE pc' = "idle"
    BY <1>3 DEF Prepared, Fresh
  <1>4. CASE Delete
    BY <1>4 DEF Delete, Prepared, Fresh
  <1>5. CASE ApplyMap
    BY <1>5 DEF ApplyMap, Prepared, Fresh
  <1>6. CASE UNCHANGED <<pc, loc, next>>
    BY <1>6 DEF Prepared, Fresh
  <1> QED
    BY <1>1, <1>2, <1>3, <1>4, <1>5, <1>6 DEF Next, Users, ReconcileStep, Submit, Edit, DeleteMap, Deliver,
       Resync, Crash, Restart, Refuse, Panic, TransformFails, RequestFails, Requeue, ApplyTLS, vars

\* The config maps before the next are placed, and stay so while Install runs.
LEMMA BegunNext == IInv /\ [Next]_vars => Begun'
  <1> SUFFICES ASSUME IInv, [Next]_vars, pc' = "apply", NEW i \in 1..(next' - 1)
               PROVE  Placed(Order[i], loc.spec)' 
    BY DEF Begun
  <1> USE DEF IInv
  <1>1. CASE ApplyMap
    <2>1. next' = next + 1 /\ loc' = loc /\ pc = "apply" /\ next \in 1..(Len(Order) + 1) /\ next <= Len(Order)
      BY <1>1 DEF ApplyMap, TypeOK
    <2>2. i = next \/ i \in 1..(next - 1)
      BY <2>1, OrderNext
    <2>3. Order[i] \in Maps
      <3>1. i \in 1..(Len(Order) + 1) /\ i <= Len(Order)
        BY <2>1, <2>2, OrderBelow
      <3> QED BY <3>1, OrderNext
    <2>4. Order[i] = Order[next] => loc.toApply[Order[i]] = Transformed(Order[i], loc.spec)
      BY <2>1, <2>3 DEF Prepared
    <2>5. Order[i] # Order[next] => Placed(Order[i], loc.spec)
      BY <2>1, <2>2 DEF Begun
    <2> QED BY <1>1, <2>1, <2>3, <2>4, <2>5, PlacingApply DEF Placed
  <1>2. CASE pc = "apply" /\ loc' = loc /\ next' = next /\ ~ApplyMap
    <2>1. Order[i] \in Maps
      <3>1. i \in 1..(Len(Order) + 1) /\ i <= Len(Order)
        BY <1>2, OrderBelow DEF TypeOK
      <3> QED BY <3>1, OrderNext
    <2>2. Placed(Order[i], loc.spec)
      BY <1>2 DEF Begun
    <2> QED BY <1>2, <2>1, <2>2, PlacingNext DEF Placed
  <1>3. CASE Delete
    <2>1. next' = 1
      BY <1>3 DEF Delete, Fresh
    <2> QED BY <2>1
  <1> QED
    BY <1>1, <1>2, <1>3 DEF Next, Users, ReconcileStep, Submit, Edit, DeleteMap, Deliver,
       Resync, Crash, Restart, Start, Refuse, Panic, Transform, TransformFails, RequestFails, Requeue,
       ApplyTLS, vars

\* With the last config map every one is placed, and stays so until the next
\* reconcile forgets what was done.
LEMMA FinishedNext == IInv /\ [Next]_vars => Finished'
  <1> SUFFICES ASSUME IInv, [Next]_vars PROVE Finished'
    OBVIOUS
  <1> USE DEF IInv
  <1>1. CASE ApplyTLS
    <2>1. pc = "apply" /\ next > Len(Order) /\ done' = loc.spec /\ pc' = "idle" /\ ~ApplyMap
      BY <1>1 DEF ApplyTLS, ApplyMap
    <2>2. ASSUME NEW cm \in Maps PROVE Placed(cm, done)'
      <3>1. PICK i \in 1..Len(Order) : Order[i] = cm
        BY OrderAssumption
      <3>2. i \in 1..(next - 1)
        BY <2>1, OrderAbove DEF TypeOK
      <3>3. Placed(cm, loc.spec)
        BY <2>1, <3>1, <3>2 DEF Begun
      <3> QED BY <2>1, <3>3, PlacingNext DEF Placed
    <2> QED BY <2>1, <2>2 DEF Finished
  <1>2. CASE pc = "idle" /\ done' = done /\ pc' = "idle" /\ ~ApplyMap
    <2>1. ASSUME NEW cm \in Maps, done # Nil PROVE Placed(cm, done)'
      <3>1. Placed(cm, done)
        BY <2>1 DEF Finished
      <3> QED BY <1>2, <3>1, PlacingNext DEF Placed
    <2> QED BY <1>2, <2>1 DEF Finished
  <1>3. CASE done' = Nil
    BY <1>3 DEF Finished
  <1>4. CASE pc # "idle" /\ done' = done
    BY <1>4 DEF Finished
  <1>5. CASE pc = "idle"
    <2>1. ~ApplyMap
      BY <1>5 DEF ApplyMap
    <2> QED
      BY <1>2, <1>3, <1>5, <2>1 DEF Next, Users, ReconcileStep, Submit, Edit, DeleteMap, Deliver,
         Resync, Crash, Restart, Start, Refuse, Panic, Transform, TransformFails, RequestFails, Delete,
         ApplyTLS, ApplyMap, vars
  <1> QED
    BY <1>1, <1>3, <1>4, <1>5 DEF Next, Users, ReconcileStep, Submit, Edit, DeleteMap, Deliver,
       Resync, Crash, Restart, Start, Refuse, Panic, Transform, TransformFails, RequestFails, Requeue, Delete,
       ApplyMap, vars

\* The inductive invariant holds in every state.
THEOREM Inductive == Spec => []IInv
  <1>1. IInv /\ [Next]_vars => IInv'
    BY TypeNext, KnownNext, PreparedNext, BegunNext, FinishedNext DEF IInv
  <1> QED BY InitIInv, <1>1, PTL DEF Spec

\* At rest, every config map holds what the transformers make of the current
\* spec, and besides only what users put there, whatever the transformers do
\* and whatever happened before (Install over manifestival's three-way merge).
THEOREM Convergence == Spec => []Converged
  <1>1. IInv => Converged
    <2> SUFFICES ASSUME IInv, Settled, NEW cm \in Maps
                 PROVE  Holds(cm, Transformed(cm, spec))
      BY DEF Converged
    <2>1. Placed(cm, spec) /\ DOMAIN cfg[cm] \subseteq DOMAIN last[cm] \cup byHand[cm]
      BY DEF IInv, Finished, Settled, Known
    <2> QED BY <2>1 DEF Placed, Placing, Holds
  <1> QED BY Inductive, <1>1, PTL

\* The transformers never meet a log level they do not know: it was filled in
\* and lowered by the defaulting, then found in the list of the validation, of
\* which every level has its case in the switch.
THEOREM LevelsKnown == Spec => []AdmittedLevelsKnown
  <1>1. ASSUME NEW s \in Admitted PROVE TransformError(s) # UnknownLevel
    <2>1. PICK r \in Submissions : s = SetDefaults(r)
      BY DEF Admitted
    <2>2. s.log \in LogLevels \cup {""}
      BY DEF Admitted, Validate
    <2>3. s.log = IF r.log = "" THEN "info" ELSE ToLower[r.log]
      BY <2>1, SubmissionsAssumption DEF SetDefaults
    <2>4. s.log \in LogLevels
      BY <2>2, <2>3, SubmissionsAssumption, ToLowerAssumption
    <2>5. ToLower[s.log] \in LogLevels
      BY <2>4, ToLowerAssumption
    <2>6. convertToZapLogLevel(s.log) # InvalidLevel
      BY <2>5 DEF LogLevels, convertToZapLogLevel, InvalidLevel
    <2> QED BY <2>6 DEF TransformError, UnknownLevel, NoLevels
  <1>2. Init => AdmittedLevelsKnown
    BY DEF Init, AdmittedLevelsKnown, UnknownLevel
  <1>3. TypeOK /\ AdmittedLevelsKnown /\ [Next]_vars => AdmittedLevelsKnown'
    <2> SUFFICES ASSUME TypeOK, AdmittedLevelsKnown, [Next]_vars PROVE AdmittedLevelsKnown'
      OBVIOUS
    <2>1. CASE TransformFails
      <3>1. loc.spec \in Admitted
        BY <2>1 DEF TransformFails, TypeOK
      <3> QED BY <2>1, <3>1, <1>1 DEF TransformFails, AdmittedLevelsKnown
    <2>2. CASE Start
      BY <2>2 DEF Start, AdmittedLevelsKnown, UnknownLevel
    <2>3. CASE err' = err
      BY <2>3 DEF AdmittedLevelsKnown
    <2> QED
      BY <2>1, <2>2, <2>3 DEF Next, Users, ReconcileStep, Submit, Edit, DeleteMap, Deliver, Resync, Crash,
         Restart, Refuse, Panic, Transform, RequestFails, Delete, ApplyMap, ApplyTLS, vars
  <1> QED BY <1>2, <1>3, TypeCorrect, PTL DEF Spec


-----------------------------------------------------------------------------
(* The transformers.                                                       *)

\* d, if it has the key k, has it with the value v.
Has(d, k, v) == k \in DOMAIN d /\ d[k] = v

LEMMA Over ==
    ASSUME NEW f, NEW g, NEW k
    PROVE  /\ k \in DOMAIN f => Has(f ?? g, k, f[k])
           /\ k \notin DOMAIN f => \A v : Has(g, k, v) => Has(f ?? g, k, v)
           /\ k \notin DOMAIN f /\ k \notin DOMAIN g => k \notin DOMAIN (f ?? g)
BY DEF ??, Has

LEMMA OverSingle ==
    ASSUME NEW j, NEW x, NEW g
    PROVE  /\ Has(Single(j, x) ?? g, j, x)
           /\ \A k, v : k # j /\ Has(g, k, v) => Has(Single(j, x) ?? g, k, v)
BY DEF ??, Has, Single

\* ConfigMapOverride puts the override that is meant for the config map over it.
LEMMA OverrideIs ==
    ASSUME NEW cm, NEW d, NEW s, NEW k
    PROVE  /\ k \in DOMAIN Overridden(cm, s) => Has(ConfigMapOverride(cm, d, s), k, Overridden(cm, s)[k])
           /\ k \notin DOMAIN Overridden(cm, s) =>
                /\ \A v : Has(d, k, v) => Has(ConfigMapOverride(cm, d, s), k, v)
                /\ k \notin DOMAIN d => k \notin DOMAIN ConfigMapOverride(cm, d, s)
<1>1. CASE cm \in DOMAIN s.overrides
  <2>1. Overridden(cm, s) = s.overrides[cm] /\ ConfigMapOverride(cm, d, s) = s.overrides[cm] ?? d
    BY <1>1 DEF Overridden, ConfigMapOverride, ValueOf
  <2> QED BY <2>1, Over
<1>2. CASE cm \notin DOMAIN s.overrides /\ shortName(cm) \in DOMAIN s.overrides
  <2>1. Overridden(cm, s) = s.overrides[shortName(cm)]
        /\ ConfigMapOverride(cm, d, s) = s.overrides[shortName(cm)] ?? d
    BY <1>2 DEF Overridden, ConfigMapOverride, ValueOf
  <2> QED BY <2>1, Over
<1>3. CASE cm \notin DOMAIN s.overrides /\ shortName(cm) \notin DOMAIN s.overrides
  <2>1. Overridden(cm, s) = <<>> /\ ConfigMapOverride(cm, d, s) = d
    BY <1>3 DEF Overridden, ConfigMapOverride, ValueOf
  <2> QED BY <2>1
<1> QED BY <1>1, <1>2, <1>3

\* The keys that KafkaTopicOption sets.
OptionKeys(s) == {"default.topic.config." \o o : o \in DOMAIN s.options}

LEMMA OptionsKept ==
    ASSUME NEW cm, NEW d, NEW s, NEW k, NEW v, Has(d, k, v), cm = "kafka-broker-config" => k \notin OptionKeys(s)
    PROVE  Has(KafkaTopicOption(cm, d, s), k, v)
<1>1. KafkaTopicOption(cm, d, s) = IF cm # "kafka-broker-config" THEN d ELSE TopicOptions(s) ?? d
  BY DEF KafkaTopicOption, ConfigMapMultipleValues
<1>2. DOMAIN TopicOptions(s) = OptionKeys(s)
  <2> DEFINE prefixed == {<<"default.topic.config." \o j, s.options[j]>> : j \in DOMAIN s.options}
  <2>1. \A j \in DOMAIN s.options :
            <<"default.topic.config." \o j, s.options[j]>>[1] = "default.topic.config." \o j
    OBVIOUS
  <2>2. {o[1] : o \in prefixed} = OptionKeys(s)
    BY <2>1, Zenon DEF OptionKeys
  <2> QED BY <2>2, Zenon DEF TopicOptions
<1> QED BY <1>1, <1>2, Over

LEMMA ConfigMapKeeps ==
    ASSUME NEW name, NEW cm, NEW d, NEW j, NEW x, NEW k, NEW v, Has(d, k, v), cm = name => k # j
    PROVE  Has(ConfigMap(name, cm, d, j, x), k, v)
BY OverSingle DEF ConfigMap

\* One map over another over a third.
LEMMA OverAssociative == ASSUME NEW f, NEW g, NEW h PROVE (f ?? g) ?? h = f ?? (g ?? h)
BY DEF ??

\* What the Kafka fields ask for is put over what the other transformers made,
\* or replaces it.
LEMMA KafkaLast ==
    ASSUME NEW cm, NEW s
    PROVE  /\ cm = "config-kafka-features" /\ s.kafka # Nil => Transformed(cm, s) = KafkaFields(cm, s)
           /\ cm \in {"kafka-config-logging", "kafka-channel-config", "kafka-broker-config"}
                => Transformed(cm, s) = KafkaFields(cm, s) ?? Core(cm, s)
           /\ ~(cm = "config-kafka-features" /\ s.kafka # Nil)
                /\ cm \notin {"kafka-config-logging", "kafka-channel-config", "kafka-broker-config"}
                => Transformed(cm, s) = Core(cm, s) /\ KafkaFields(cm, s) = <<>>
<1> DEFINE core        == Core(cm, s)
           logging     == KafkaLogging(cm, core, s)
           flags       == EventingKafkaBrokerFeatureFlags(cm, logging, s)
           servers     == BootstrapServers(cm, flags, s)
           partitions  == NumberOfPartitions(cm, servers, s)
           replication == ReplicationFactor(cm, partitions, s)
           join        == Join(s.servers)
<1>1. Transformed(cm, s) = KafkaTopicOption(cm, replication, s)
  BY DEF Transformed
<1> HIDE DEF core, join
<1>2. logging = IF cm = "kafka-config-logging" THEN Single("config.xml/level", ToUpper[s.log]) ?? core ELSE core
  BY DEF KafkaLogging
<1> HIDE DEF logging
<1>3. flags = IF cm = "config-kafka-features" /\ s.kafka # Nil THEN s.kafka ELSE logging
  BY DEF EventingKafkaBrokerFeatureFlags, ConfigMapMultipleValues
<1> HIDE DEF flags
<1>4. servers = IF cm \in {"kafka-broker-config", "kafka-channel-config"}
                THEN Single("bootstrap.servers", join) ?? flags ELSE flags
  BY Zenon DEF BootstrapServers, join
<1> HIDE DEF servers
<1>5. CASE cm = "kafka-broker-config"
  <2> DEFINE B == Single("bootstrap.servers", Join(s.servers))
             P == Single("default.topic.partitions", ToString(s.partitions))
             R == Single("default.topic.replication.factor", ToString(s.replication))
             T == TopicOptions(s)
  <2>1. partitions = P ?? servers
    BY <1>5, Zenon DEF NumberOfPartitions, ConfigMap
  <2>2. replication = R ?? partitions
    BY <1>5, Zenon DEF ReplicationFactor, ConfigMap
  <2>3. servers = B ?? flags
    <3>1. cm \in {"kafka-broker-config", "kafka-channel-config"} BY <1>5
    <3> QED BY <1>4, <3>1, Zenon DEF join
  <2>4. BrokerFields(s) = ((T ?? R) ?? P) ?? B
    BY Zenon DEF BrokerFields
  <2> HIDE DEF partitions, replication, B, P, R, T
  <2>5. flags = core
    BY <1>2, <1>3, <1>5
  <2>6. KafkaFields(cm, s) = BrokerFields(s)
    BY <1>5 DEF KafkaFields
  <2>7. Transformed(cm, s) = T ?? replication
    BY <1>1, <1>5 DEF KafkaTopicOption, ConfigMapMultipleValues, T
  <2>8. Transformed(cm, s) = T ?? (R ?? (P ?? (B ?? core)))
    BY <2>1, <2>2, <2>3, <2>5, <2>7
  <2>9. (((T ?? R) ?? P) ?? B) ?? core = T ?? (R ?? (P ?? (B ?? core)))
    <3>1. (((T ?? R) ?? P) ?? B) ?? core = ((T ?? R) ?? P) ?? (B ?? core)
      BY OverAssociative
    <3>2. ((T ?? R) ?? P) ?? (B ?? core) = (T ?? R) ?? (P ?? (B ?? core))
      BY OverAssociative
    <3>3. (T ?? R) ?? (P ?? (B ?? core)) = T ?? (R ?? (P ?? (B ?? core)))
      BY OverAssociative
    <3> QED BY <3>1, <3>2, <3>3
  <2> QED BY <1>5, <2>4, <2>6, <2>8, <2>9 DEF core
<1>6. CASE cm # "kafka-broker-config"
  <2>1. partitions = servers
    BY <1>6, Zenon DEF NumberOfPartitions, ConfigMap
  <2>2. replication = partitions
    BY <1>6, Zenon DEF ReplicationFactor, ConfigMap
  <2> HIDE DEF partitions, replication
  <2>3. Transformed(cm, s) = servers
    BY <1>1, <1>6, <2>1, <2>2 DEF KafkaTopicOption, ConfigMapMultipleValues
  <2> QED BY <1>2, <1>3, <1>4, <1>6, <2>3 DEF KafkaFields, core, join
<1> QED BY <1>5, <1>6

\* The Kafka fields have the last word on a config map that is applied, and the
\* override meant for it the word before: whatever manifests, specs and
\* overrides there are.  That is why an override does not "override everything
\* else", as the comment of ConfigMapOverride says.
THEOREM KafkaFieldsPrevail == Spec => []Precedence
<1>1. ASSUME NEW cm, NEW s, NEW k \in DOMAIN KafkaFields(cm, s)
      PROVE  Has(Transformed(cm, s), k, KafkaFields(cm, s)[k])
  BY KafkaLast, Over DEF Has
<1>2. ASSUME NEW cm, NEW s, NEW k \in DOMAIN Overridden(cm, s) \ DOMAIN KafkaFields(cm, s),
             ~(cm = "config-kafka-features" /\ s.kafka # Nil)
      PROVE  Has(Transformed(cm, s), k, Overridden(cm, s)[k])
  <2>1. Has(Core(cm, s), k, Overridden(cm, s)[k])
    BY OverrideIs, Zenon DEF Core
  <2>2. CASE Transformed(cm, s) = KafkaFields(cm, s) ?? Core(cm, s)
    BY <2>1, <2>2, Over
  <2>3. CASE Transformed(cm, s) = Core(cm, s)
    BY <2>1, <2>3
  <2> QED BY <1>2, <2>2, <2>3, KafkaLast
<1>3. IInv => Precedence
  <2> SUFFICES ASSUME IInv, pc = "apply", NEW cm \in Maps
               PROVE  LET data == loc.toApply[cm]
                          fields == KafkaFields(cm, loc.spec)
                          override == Overridden(cm, loc.spec)
                          replaced == cm = "config-kafka-features" /\ loc.spec.kafka # Nil
                      IN  /\ \A k \in DOMAIN fields : k \in DOMAIN data /\ data[k] = fields[k]
                          /\ IF replaced THEN DOMAIN data = DOMAIN fields
                             ELSE \A k \in DOMAIN override \ DOMAIN fields :
                                    k \in DOMAIN data /\ data[k] = override[k]
    BY Zenon DEF Precedence
  <2>1. loc.toApply[cm] = Transformed(cm, loc.spec)
    BY DEF IInv, Prepared
  <2>2. \A k \in DOMAIN KafkaFields(cm, loc.spec) : Has(loc.toApply[cm], k, KafkaFields(cm, loc.spec)[k])
    BY <2>1, <1>1
  <2>3. CASE cm = "config-kafka-features" /\ loc.spec.kafka # Nil
    BY <2>1, <2>2, <2>3, KafkaLast DEF Has
  <2>4. CASE ~(cm = "config-kafka-features" /\ loc.spec.kafka # Nil)
    <3>1. \A k \in DOMAIN Overridden(cm, loc.spec) \ DOMAIN KafkaFields(cm, loc.spec) :
            Has(loc.toApply[cm], k, Overridden(cm, loc.spec)[k])
      BY <2>1, <2>4, <1>2
    <3> QED BY <2>2, <2>4, <3>1 DEF Has
  <2> QED BY <2>3, <2>4
<1> QED BY Inductive, <1>3, PTL


-----------------------------------------------------------------------------
(* Config maps that have to agree.                                         *)

\* At rest, what the transformers set is in the cluster, if no user changed it.
LEMMA AtRest ==
    ASSUME IInv, Settled, NEW cm \in Maps, NEW k, NEW v, Has(Transformed(cm, spec), k, v), k \notin dirty[cm]
    PROVE  Has(cfg[cm], k, v)
<1>1. Placed(cm, spec)
  BY DEF IInv, Finished, Settled
<1> QED BY <1>1 DEF Placed, Placing, Has

\* What eventingCoreManifests sets stays, unless it is overridden.
LEMMA CoreSets ==
    ASSUME NEW cm \in {"config-br-defaults", "default-ch-webhook", "kafka-channel", "config-features"},
           NEW s, NEW k, NEW v, k \notin DOMAIN Overridden(cm, s),
           LET logging == EventingCoreLogging(cm, Loaded(cm, s), s)
               channel == DefaultChannelImplementation(cm, logging, s)
               broker  == DefaultBrokerClass(cm, channel, s)
           IN  Has(EventingFeatureFlags(cm, broker, s), k, v)
    PROVE  Has(Transformed(cm, s), k, v)
<1>1. Has(Core(cm, s), k, v)
  BY OverrideIs, Zenon DEF Core
<1> QED BY <1>1, KafkaLast

LEMMA BrokerDefaults ==
    ASSUME NEW s, NEW d
    PROVE  LET class == IF s.broker = "" THEN "Kafka" ELSE s.broker
               alternative == IF class = "Kafka" THEN "MTChannelBasedBroker" ELSE "Kafka"
               u == DefaultBrokerClass("config-br-defaults", d, s)
           IN  /\ Has(u, "default-br-config/class", class)
               /\ Has(u, "default-br-config/config", configMapForBrokerClass(class, s.channel))
               /\ Has(u, "default-br-config/alternativeConfig", configMapForBrokerClass(alternative, s.channel))
BY DEF DefaultBrokerClass, Has, ??, Single

\* The default channel and the channel of MT channel based brokers agree, for
\* every admitted spec and whichever of the two it leaves open.
THEOREM SameChannels == Spec => []ChannelsAgree
<1>1. ASSUME NEW s, NEW k, NEW v, k \notin DOMAIN Overridden("config-br-defaults", s),
             \A d : Has(DefaultBrokerClass("config-br-defaults", d, s), k, v)
      PROVE  Has(Transformed("config-br-defaults", s), k, v)
  <2>1. \A d : EventingFeatureFlags("config-br-defaults", d, s) = d
    BY DEF EventingFeatureFlags, ConfigMapMultipleValues
  <2> QED BY <1>1, <2>1, CoreSets, Zenon
<1>2. ASSUME NEW s, "default-ch-config" \notin DOMAIN Overridden("default-ch-webhook", s)
      PROVE  Has(Transformed("default-ch-webhook", s), "default-ch-config",
                 IF s.channel = "" THEN "KafkaChannel" ELSE s.channel)
  <2> DEFINE kind == IF s.channel = "" THEN "KafkaChannel" ELSE s.channel
  <2>1. \A d : EventingFeatureFlags("default-ch-webhook", d, s) = d /\ DefaultBrokerClass("default-ch-webhook", d, s) = d
    BY DEF EventingFeatureFlags, ConfigMapMultipleValues, DefaultBrokerClass
  <2>2. \A d : Has(DefaultChannelImplementation("default-ch-webhook", d, s), "default-ch-config", kind)
    BY DEF DefaultChannelImplementation, Has, ??, Single
  <2> HIDE DEF kind
  <2>3. Has(Transformed("default-ch-webhook", s), "default-ch-config", kind)
    <3> DEFINE logging == EventingCoreLogging("default-ch-webhook", Loaded("default-ch-webhook", s), s)
               channel == DefaultChannelImplementation("default-ch-webhook", logging, s)
               broker  == DefaultBrokerClass("default-ch-webhook", channel, s)
    <3>1. Has(EventingFeatureFlags("default-ch-webhook", broker, s), "default-ch-config", kind)
      BY <2>1, <2>2
    <3> QED BY <1>2, <3>1, CoreSets
  <2> QED BY <2>3 DEF kind
<1>3. ASSUME IInv, Settled,
             \A k \in {"default-br-config/class", "default-br-config/config",
                       "default-br-config/alternative", "default-br-config/alternativeConfig"} :
                 Plain("config-br-defaults", k),
             Plain("default-ch-webhook", "default-ch-config")
      PROVE  LET d == cfg["config-br-defaults"]
                 mtConfig == IF d["default-br-config/class"] = "MTChannelBasedBroker"
                             THEN d["default-br-config/config"] ELSE d["default-br-config/alternativeConfig"]
             IN  cfg["default-ch-webhook"]["default-ch-config"] =
                     IF mtConfig = "kafka-channel" THEN "KafkaChannel" ELSE "InMemoryChannel"
  <2> DEFINE class == IF spec.broker = "" THEN "Kafka" ELSE spec.broker
             alternative == IF class = "Kafka" THEN "MTChannelBasedBroker" ELSE "Kafka"
             b == cfg["config-br-defaults"]
             c == cfg["default-ch-webhook"]
  <2>1. "config-br-defaults" \in Maps /\ "default-ch-webhook" \in Maps
    BY ManifestAssumption DEF Maps
  <2>2. spec \in Admitted
    BY <1>3 DEF IInv, TypeOK, Settled
  <2>3. spec.broker \in BrokerClasses \cup {""} /\ spec.channel \in ChannelImplementations \cup {""}
    BY <2>2 DEF Admitted, Validate
  <2>4. \A k \in {"default-br-config/class", "default-br-config/config", "default-br-config/alternativeConfig"} :
            k \notin dirty["config-br-defaults"] /\ k \notin DOMAIN Overridden("config-br-defaults", spec)
    BY <1>3 DEF Plain
  <2>5. Has(b, "default-br-config/class", class)
    BY <1>1, <1>3, <2>1, <2>4, AtRest, BrokerDefaults
  <2>6. Has(b, "default-br-config/config", configMapForBrokerClass(class, spec.channel))
    BY <1>1, <1>3, <2>1, <2>4, AtRest, BrokerDefaults
  <2>7. Has(b, "default-br-config/alternativeConfig", configMapForBrokerClass(alternative, spec.channel))
    BY <1>1, <1>3, <2>1, <2>4, AtRest, BrokerDefaults
  <2>8. Has(c, "default-ch-config", IF spec.channel = "" THEN "KafkaChannel" ELSE spec.channel)
    BY <1>2, <1>3, <2>1, AtRest DEF Plain
  <2> QED BY <2>3, <2>5, <2>6, <2>7, <2>8
          DEF Has, configMapForBrokerClass, BrokerClasses, ChannelImplementations
<1>4. IInv => ChannelsAgree
  BY <1>3 DEF ChannelsAgree
<1> QED BY Inductive, <1>4, PTL


\* Kafka brokers and Kafka channels are given the same servers and as many
\* partitions, for every admitted spec.
THEOREM SameKafka == Spec => []KafkaAgrees
<1>1. ASSUME NEW s, NEW cm \in {"kafka-broker-config", "kafka-channel-config"},
             cm = "kafka-broker-config" => "bootstrap.servers" \notin OptionKeys(s)
      PROVE  Has(Transformed(cm, s), "bootstrap.servers", Join(s.servers))
  <2> DEFINE key == "bootstrap.servers"
             value == Join(s.servers)
             logging     == KafkaLogging(cm, Core(cm, s), s)
             flags       == EventingKafkaBrokerFeatureFlags(cm, logging, s)
             servers     == BootstrapServers(cm, flags, s)
             partitions  == NumberOfPartitions(cm, servers, s)
             replication == ReplicationFactor(cm, partitions, s)
  <2>1. Has(servers, key, value)
    <3> HIDE DEF flags, value
    <3>1. servers = Single(key, value) ?? flags
      BY DEF BootstrapServers, value
    <3> QED BY <3>1, OverSingle
  <2>2. /\ key # "default.topic.partitions" /\ key # "default.topic.replication.factor"
        /\ cm = "kafka-broker-config" => key \notin OptionKeys(s)
    BY <1>1
  <2> HIDE DEF servers, key, value
  <2>3. Has(partitions, key, value)
    BY <2>1, <2>2, ConfigMapKeeps, Zenon DEF NumberOfPartitions
  <2> HIDE DEF partitions
  <2>4. Has(replication, key, value)
    BY <2>2, <2>3, ConfigMapKeeps, Zenon DEF ReplicationFactor
  <2>5. Transformed(cm, s) = KafkaTopicOption(cm, replication, s)
    BY DEF Transformed, replication, partitions, servers, flags, logging
  <2> HIDE DEF replication
  <2>6. Has(Transformed(cm, s), key, value)
    BY <2>2, <2>4, <2>5, OptionsKept
  <2> QED BY <2>6 DEF key, value
<1>2. ASSUME NEW s, "default.topic.partitions" \notin OptionKeys(s)
      PROVE  Has(Transformed("kafka-broker-config", s), "default.topic.partitions", ToString(s.partitions))
  <2> DEFINE cm == "kafka-broker-config"
             key == "default.topic.partitions"
             value == ToString(s.partitions)
             logging     == KafkaLogging(cm, Core(cm, s), s)
             flags       == EventingKafkaBrokerFeatureFlags(cm, logging, s)
             servers     == BootstrapServers(cm, flags, s)
             partitions  == NumberOfPartitions(cm, servers, s)
             replication == ReplicationFactor(cm, partitions, s)
  <2>1. Has(partitions, key, value)
    <3> HIDE DEF servers, value
    <3>1. partitions = Single(key, value) ?? servers
      BY Zenon DEF NumberOfPartitions, ConfigMap, value
    <3> HIDE DEF partitions
    <3> QED BY <3>1, OverSingle
  <2>2. key # "default.topic.replication.factor" /\ key \notin OptionKeys(s)
    BY <1>2
  <2>3. Transformed(cm, s) = KafkaTopicOption(cm, replication, s)
    BY Zenon DEF Transformed
  <2> HIDE DEF partitions, key, value, cm
  <2>4. Has(replication, key, value)
    BY <2>1, <2>2, ConfigMapKeeps, Zenon DEF ReplicationFactor
  <2> HIDE DEF replication
  <2>5. Has(Transformed(cm, s), key, value)
    BY <2>2, <2>3, <2>4, OptionsKept
  <2> QED BY <2>5, Zenon DEF key, value, cm
<1>3. ASSUME NEW s, "channel-template-spec/numPartitions" \notin DOMAIN Overridden("kafka-channel", s)
      PROVE  Has(Transformed("kafka-channel", s), "channel-template-spec/numPartitions", ToString(s.partitions))
  <2> DEFINE value == ToString(s.partitions)
  <2>1. \A d : /\ EventingFeatureFlags("kafka-channel", d, s) = d
               /\ DefaultBrokerClass("kafka-channel", d, s) = d
               /\ DefaultChannelImplementation("kafka-channel", d, s) = d
               /\ EventingCoreLogging("kafka-channel", d, s) = d
    BY DEF EventingFeatureFlags, ConfigMapMultipleValues, DefaultBrokerClass, DefaultChannelImplementation,
           EventingCoreLogging
  <2>2. Has(Loaded("kafka-channel", s), "channel-template-spec/numPartitions", value)
    BY Zenon DEF Loaded, eventingKafkaChannelTemplateConfigMap, Has
  <2> HIDE DEF value
  <2>3. Has(Transformed("kafka-channel", s), "channel-template-spec/numPartitions", value)
    <3> DEFINE logging == EventingCoreLogging("kafka-channel", Loaded("kafka-channel", s), s)
               channel == DefaultChannelImplementation("kafka-channel", logging, s)
               broker  == DefaultBrokerClass("kafka-channel", channel, s)
    <3>1. Has(EventingFeatureFlags("kafka-channel", broker, s), "channel-template-spec/numPartitions", value)
      BY <2>1, <2>2
    <3> QED BY <1>3, <3>1, CoreSets
  <2> QED BY <2>3, Zenon DEF value
<1>4. ASSUME NEW s \in Admitted
      PROVE  {"bootstrap.servers", "default.topic.partitions"} \cap OptionKeys(s) = {}
  <2>1. PICK r \in Submissions : s = SetDefaults(r)
    BY DEF Admitted
  <2>2. s.options = r.options
    BY <2>1, SubmissionsAssumption DEF SetDefaults
  <2> QED BY <2>2, PrefixAssumption DEF OptionKeys
<1>5. ASSUME IInv, Settled PROVE KafkaAgrees
  <2>1. {"kafka-broker-config", "kafka-channel-config", "kafka-channel"} \subseteq Maps
    BY ManifestAssumption DEF Maps
  <2>2. spec \in Admitted
    BY <1>5 DEF IInv, TypeOK, Settled
  <2>3. {"bootstrap.servers", "default.topic.partitions"} \cap OptionKeys(spec) = {}
    BY <1>4, <2>2
  <2>4. ASSUME NEW cm \in {"kafka-broker-config", "kafka-channel-config"}, "bootstrap.servers" \notin dirty[cm]
        PROVE  cfg[cm]["bootstrap.servers"] = Join(spec.servers)
    <3>1. Has(Transformed(cm, spec), "bootstrap.servers", Join(spec.servers))
      BY <1>1, <2>3
    <3> QED BY <1>5, <2>1, <2>4, <3>1, AtRest DEF Has
  <2> DEFINE value == ToString(spec.partitions)
  <2>5. Has(Transformed("kafka-broker-config", spec), "default.topic.partitions", value)
    BY <1>2, <2>3, Zenon
  <2>6. "channel-template-spec/numPartitions" \notin DOMAIN Overridden("kafka-channel", spec) =>
            Has(Transformed("kafka-channel", spec), "channel-template-spec/numPartitions", value)
    BY <1>3, Zenon
  <2> HIDE DEF value
  <2>7. "default.topic.partitions" \notin dirty["kafka-broker-config"] =>
            cfg["kafka-broker-config"]["default.topic.partitions"] = value
    BY <1>5, <2>1, <2>5, AtRest DEF Has
  <2>8. Plain("kafka-channel", "channel-template-spec/numPartitions") =>
            cfg["kafka-channel"]["channel-template-spec/numPartitions"] = value
    BY <1>5, <2>1, <2>6, AtRest DEF Has, Plain
  <2> QED BY <2>4, <2>7, <2>8 DEF KafkaAgrees
<1>6. IInv => KafkaAgrees
  BY <1>5 DEF KafkaAgrees
<1> QED BY Inductive, <1>6, PTL


-----------------------------------------------------------------------------
(* Transport encryption.                                                   *)

\* The TLS resources exist only with cert-manager.  What Install leaves of them
\* is wanted, and once it is done they are all there.
TLSInv ==
    /\ tls => cert
    /\ pc \in {"delete", "apply"} => (TLSEnabled(loc.spec) => cert)
    /\ pc = "apply" => (tls => TLSEnabled(loc.spec))
    /\ done # Nil => tls = TLSEnabled(done)

LEMMA TLSNext == IInv /\ TLSInv /\ [Next]_vars => TLSInv'
<1> SUFFICES ASSUME IInv, TLSInv, [Next]_vars PROVE TLSInv'
  OBVIOUS
<1>1. CASE Delete
  <2>1. pc = "delete" /\ tls' = (tls /\ (TLSEnabled(loc.spec) \/ ~cert)) /\ pc' = "apply"
    BY <1>1 DEF Delete
  <2>2. UNCHANGED <<loc, cert, done>> /\ done = Nil
    BY <1>1 DEF Delete, IInv, Finished
  <2> QED BY <2>1, <2>2 DEF TLSInv
<1>2. CASE ApplyTLS
  <2>1. pc = "apply" /\ tls' = (tls \/ TLSEnabled(loc.spec)) /\ done' = loc.spec /\ pc' = "idle" /\ cert' = cert
    BY <1>2 DEF ApplyTLS
  <2>2. (tls => cert) /\ (TLSEnabled(loc.spec) => cert) /\ (tls => TLSEnabled(loc.spec)) /\ tls \in BOOLEAN
    BY <2>1 DEF TLSInv, IInv, TypeOK
  <2>3. tls' = TLSEnabled(loc.spec)
    BY <2>1, <2>2, Zenon DEF TLSEnabled
  <2>4. tls' => cert'
    BY <2>1, <2>2
  <2>5. tls' = TLSEnabled(done')
    BY <2>1, <2>3, Zenon
  <2> QED BY <2>1, <2>4, <2>5 DEF TLSInv
<1>3. CASE Transform
  <2>1. loc'.spec = loc.spec
    BY <1>3 DEF Transform, IInv, TypeOK
  <2>2. PrecheckPasses /\ pc' = "delete" /\ UNCHANGED <<tls, cert, done>>
    BY <1>3 DEF Transform
  <2> QED BY <2>1, <2>2 DEF PrecheckPasses, TLSInv
<1>4. CASE Start
  BY <1>4 DEF Start, TLSInv
<1>5. CASE pc' = "idle" /\ UNCHANGED <<tls, cert, done>>
  BY <1>5 DEF TLSInv
<1>6. CASE UNCHANGED <<pc, loc, tls, cert, done>>
  BY <1>6 DEF TLSInv
<1> QED
  BY <1>1, <1>2, <1>3, <1>4, <1>5, <1>6 DEF Next, Users, ReconcileStep, Submit, Edit, DeleteMap, Deliver,
     Resync, Crash, Restart, Refuse, Panic, TransformFails, RequestFails, Requeue, ApplyMap, vars

\* At rest, the TLS resources are there if and only if the flag in the cluster
\* is on, unless users or overrides set it (eventingTLSManifests).
THEOREM SameEncryption == Spec => []TLSAgrees
<1>1. Init => TLSInv
  BY DEF Init, TLSInv
<1>2. ASSUME NEW s, NEW v, "transport-encryption" \notin DOMAIN Overridden("config-features", s)
      PROVE  LET flags == IF s.eventing # Nil THEN s.eventing ELSE Manifest["config-features"]
             IN  /\ Has(flags, "transport-encryption", v) =>
                        Has(Transformed("config-features", s), "transport-encryption", v)
                 /\ "transport-encryption" \notin DOMAIN flags =>
                        "transport-encryption" \notin DOMAIN Transformed("config-features", s)
  <2> DEFINE key == "transport-encryption"
             cm == "config-features"
             flags == IF s.eventing # Nil THEN s.eventing ELSE Manifest[cm]
  <2>1. \A d : DefaultBrokerClass(cm, d, s) = d /\ DefaultChannelImplementation(cm, d, s) = d
               /\ EventingCoreLogging(cm, d, s) = d
    BY DEF DefaultBrokerClass, DefaultChannelImplementation, EventingCoreLogging
  <2>2. Loaded(cm, s) = Manifest[cm]
    BY DEF Loaded
  <2>3. EventingFeatureFlags(cm, Manifest[cm], s) = flags
    BY DEF EventingFeatureFlags, ConfigMapMultipleValues
  <2>4. Core(cm, s) = ConfigMapOverride(cm, flags, s)
    BY <2>1, <2>2, <2>3 DEF Core
  <2>5. Transformed(cm, s) = Core(cm, s)
    <3>1. \A d : /\ KafkaLogging(cm, d, s) = d /\ EventingKafkaBrokerFeatureFlags(cm, d, s) = d
                 /\ BootstrapServers(cm, d, s) = d
      BY DEF KafkaLogging, EventingKafkaBrokerFeatureFlags, BootstrapServers, ConfigMapMultipleValues
    <3>2. \A d, j, x : ConfigMap("kafka-broker-config", cm, d, j, x) = d
      BY DEF ConfigMap
    <3>3. \A d : NumberOfPartitions(cm, d, s) = d /\ ReplicationFactor(cm, d, s) = d
      BY <3>2, Zenon DEF NumberOfPartitions, ReplicationFactor
    <3>4. \A d : KafkaTopicOption(cm, d, s) = d
      BY DEF KafkaTopicOption, ConfigMapMultipleValues
    <3> QED BY <3>1, <3>3, <3>4 DEF Transformed
  <2> HIDE DEF flags
  <2>6. /\ Has(flags, key, v) => Has(Transformed(cm, s), key, v)
        /\ key \notin DOMAIN flags => key \notin DOMAIN Transformed(cm, s)
    BY <1>2, <2>4, <2>5, OverrideIs
  <2> QED BY <2>6 DEF flags
<1>3. ASSUME IInv, TLSInv, Settled, Plain("config-features", "transport-encryption")
      PROVE  tls = EncryptionOn(cfg["config-features"])
  <2> DEFINE key == "transport-encryption"
             cm == "config-features"
             flags == IF spec.eventing # Nil THEN spec.eventing ELSE Manifest[cm]
  <2>1. cm \in Maps
    BY ManifestAssumption DEF Maps
  <2>2. tls = TLSEnabled(spec)
    BY <1>3 DEF TLSInv, Settled
  <2>3. key \notin dirty[cm] /\ key \notin byHand[cm] /\ key \notin DOMAIN Overridden(cm, spec)
    BY <1>3 DEF Plain
  <2>4. DOMAIN cfg[cm] \subseteq DOMAIN Transformed(cm, spec) \cup byHand[cm]
    BY <1>3, <2>1 DEF IInv, Finished, Settled, Known, Placed, Placing
  <2>5. \A v : Has(flags, key, v) => Has(Transformed(cm, spec), key, v)
    BY <1>2, <2>3
  <2>6. key \notin DOMAIN flags => key \notin DOMAIN Transformed(cm, spec)
    BY <1>2, <2>3
  <2>7. TLSEnabled(spec) = EncryptionOn(flags)
    <3>1. CASE spec.eventing # Nil
      <4>1. flags = spec.eventing
        BY <3>1
      <4> HIDE DEF flags
      <4>2. TLSEnabled(spec) <=> EncryptionOn(flags)
        BY <3>1, <4>1 DEF TLSEnabled
      <4> QED BY <4>2, Zenon DEF TLSEnabled, EncryptionOn
    <3>2. CASE spec.eventing = Nil
      <4>1. flags = Manifest[cm] /\ ~EncryptionOn(Manifest[cm])
        BY <3>2, ManifestAssumption
      <4>2. ~TLSEnabled(spec)
        BY <3>2, Zenon DEF TLSEnabled
      <4> HIDE DEF flags
      <4>3. ~EncryptionOn(flags)
        BY <4>1
      <4> QED BY <4>2, <4>3, Zenon DEF TLSEnabled, EncryptionOn
    <3> QED BY <3>1, <3>2
  <2> HIDE DEF flags
  <2>8. \A v : Has(flags, key, v) => Has(cfg[cm], key, v)
    BY <1>3, <2>1, <2>3, <2>5, AtRest
  <2>9. key \notin DOMAIN flags => key \notin DOMAIN cfg[cm]
    BY <2>3, <2>4, <2>6
  <2>10. ValueOf(flags, key, "disabled") = ValueOf(cfg[cm], key, "disabled")
    BY <2>8, <2>9 DEF ValueOf, Has
  <2> QED BY <2>2, <2>7, <2>10 DEF EncryptionOn
<1>4. IInv /\ TLSInv => TLSAgrees
  BY <1>3 DEF TLSAgrees
<1> QED BY <1>1, <1>4, TLSNext, Inductive, PTL DEF Spec

=============================================================================
