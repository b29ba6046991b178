----------------------------- MODULE MCSyncDict -----------------------------
(***************************************************************************)
(* A small string dictionary: the strings a and b have the same hash, so   *)
(* that a slice that remembers one of them meets the other, and all share  *)
(* a bucket.                                                         *)
(***************************************************************************)
EXTENDS SyncDict, TLC

CONSTANTS a, b, c

MCStrings == {a, b, c}
MCHash    == (a :> 2) @@ (b :> 2) @@ (c :> 3)
MCBucket  == (a :> 1) @@ (b :> 1) @@ (c :> 1)
=============================================================================
