------------------------------ MODULE Mappings ------------------------------
(***************************************************************************)
(* What the map collection promises: each map is a function from keys to   *)
(* what was last put there.  A clone starts with what its origin holds and *)
(* has nothing to do with it from then on.                                 *)
(***************************************************************************)
CONSTANTS Map, Key, Datum, Missing

VARIABLE mapping

Init == mapping = [m \in Map |-> [k \in Key |-> Missing]]

Put(m, k, d) == mapping' = [mapping EXCEPT ![m][k] = d]

(* The program's variable copy gets the clone of m.                          *)
Clone(m, copy) == mapping' = [mapping EXCEPT ![copy] = mapping[m]]

Next ==
  \E m \in Map :
    \/ \E k \in Key, d \in Datum : Put(m, k, d)
    \/ \E copy \in Map : Clone(m, copy)

Spec == Init /\ [][Next]_mapping
=============================================================================
