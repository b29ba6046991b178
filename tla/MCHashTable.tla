----------------------------- MODULE MCHashTable -----------------------------
(***************************************************************************)
(* A hash table of four keys: two share a bucket, one follows them and one *)
(* falls at the end of the initial table, so that its neighbours wrap.     *)
(***************************************************************************)
EXTENDS HashTable, TLC

CONSTANTS k1, k2, k3, k4

MCKeys == {k1, k2, k3, k4}
MCHash == (k1 :> 3) @@ (k2 :> 11) @@ (k3 :> 0) @@ (k4 :> 1)
=============================================================================
