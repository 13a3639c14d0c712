------------------------------ MODULE Installer ------------------------------
(***************************************************************************)
(* What the operator promises to the users of an EventMesh, whatever       *)
(* caches, retries and restarts it works with: generations of the spec are *)
(* installed in their order, never again after a later one; a report never *)
(* goes back to an earlier generation than the last one; and a report that *)
(* the EventMesh is Ready is about what was installed last, and remains    *)
(* true of the TLS resources until the spec is edited.                     *)
(***************************************************************************)
EXTENDS Integers

VARIABLES
    gen,        \* the generation of the spec
    tls,        \* whether it asks for TLS
    rest,       \* there are TLS resources
    installed,  \* the generations that were completely installed
    observed,   \* the generation of the last report
    ready       \* whether it was Ready

vars == <<gen, tls, rest, installed, observed, ready>>

Init ==
    /\ gen = 1 /\ tls \in BOOLEAN /\ rest = FALSE
    /\ installed = {} /\ observed = 0 /\ ready = FALSE

\* A generation that may be installed, or reported of, now.
Latest(g) == \A h \in installed : h <= g

\* What a Ready report of the present spec without TLS promises.
Clean == ready /\ observed = gen /\ ~tls

Edit(t) ==
    /\ gen' = gen + 1 /\ tls' = t
    /\ UNCHANGED <<rest, installed, observed, ready>>

\* TLS resources come only while no report denies them; they may always go.
Bring ==
    /\ ~Clean
    /\ rest' = TRUE
    /\ UNCHANGED <<gen, tls, installed, observed, ready>>

Remove ==
    /\ rest' = FALSE
    /\ UNCHANGED <<gen, tls, installed, observed, ready>>

Install(g) ==
    /\ Latest(g)
    /\ installed' = installed \cup {g}
    /\ UNCHANGED <<gen, tls, rest, observed, ready>>

\* Nothing but an installed generation is reported Ready.
Report(g, ok) ==
    /\ Latest(g) /\ g >= observed
    /\ ok => g \in installed
    /\ observed' = g /\ ready' = ok
    /\ Clean' => ~rest
    /\ UNCHANGED <<gen, tls, rest, installed>>

Next ==
    \/ \E t \in BOOLEAN : Edit(t)
    \/ Bring \/ Remove
    \/ \E g \in 1..gen : Install(g) \/ \E ok \in BOOLEAN : Report(g, ok)

Spec == Init /\ [][Next]_vars

=============================================================================
