----------------------------- MODULE KeyValues -----------------------------
(***************************************************************************)
(* Maps from keys to values, such as labels or the data of a config map,   *)
(* are functions.  The operators are those that module TLC calls @@ and    *)
(* :>, which the proof system does not know.                               *)
(***************************************************************************)

\* The values of f, or else those of g.
f ?? g == [k \in DOMAIN f \cup DOMAIN g |-> IF k \in DOMAIN f THEN f[k] ELSE g[k]]

\* The map with one key.
Single(key, value) == [k \in {key} |-> value]

=============================================================================
