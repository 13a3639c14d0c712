-------------------------- MODULE InformerLifecycle --------------------------
(***************************************************************************)
(* What a DynamicInformer promises to those who call Lister(), whatever    *)
(* mutex, pointers and goroutines it is made of: per kind at most one      *)
(* informer lives at a time, the lister handed out is that of the newest   *)
(* informer and is filled, and it is taken back only after its informer    *)
(* was stopped, and before another one lives.                              *)
(***************************************************************************)
EXTENDS Integers

CONSTANT Kinds

None == 0

VARIABLES
    serial,     \* serial[k]: the number of the newest informer of k
    live,       \* the informers of k that live
    filled,     \* the informers of k whose store was filled
    handle      \* the informer whose lister callers of Lister() get, or None

vars == <<serial, live, filled, handle>>

Init ==
    /\ serial = [k \in Kinds |-> 0]
    /\ live = [k \in Kinds |-> {}]
    /\ filled = [k \in Kinds |-> {}]
    /\ handle = [k \in Kinds |-> None]

\* A new informer is prepared when no lister is handed out and none lives.
Prepare(k) ==
    /\ live[k] = {} /\ handle[k] = None
    /\ serial' = [serial EXCEPT ![k] = @ + 1]
    /\ UNCHANGED <<live, filled, handle>>

Start(k) ==
    /\ live[k] = {} /\ handle[k] = None /\ serial[k] # None
    /\ live' = [live EXCEPT ![k] = {serial[k]}]
    /\ UNCHANGED <<serial, filled, handle>>

Fill(k) ==
    /\ live[k] # {}
    /\ filled' = [filled EXCEPT ![k] = @ \cup {serial[k]}]
    /\ UNCHANGED <<serial, live, handle>>

HandOut(k) ==
    /\ handle[k] = None /\ serial[k] \in filled[k]
    /\ handle' = [handle EXCEPT ![k] = serial[k]]
    /\ UNCHANGED <<serial, live, filled>>

Stop(k) ==
    /\ live[k] # {}
    /\ live' = [live EXCEPT ![k] = {}]
    /\ UNCHANGED <<serial, filled, handle>>

TakeBack(k) ==
    /\ live[k] = {} /\ handle[k] # None
    /\ handle' = [handle EXCEPT ![k] = None]
    /\ UNCHANGED <<serial, live, filled>>

\* All informers end with the operator.
End ==
    /\ live' = [k \in Kinds |-> {}]
    /\ UNCHANGED <<serial, filled, handle>>

Next ==
    \/ \E k \in Kinds :
          Prepare(k) \/ Start(k) \/ Fill(k) \/ HandOut(k) \/ Stop(k) \/ TakeBack(k)
    \/ End

Spec == Init /\ [][Next]_vars

=============================================================================
