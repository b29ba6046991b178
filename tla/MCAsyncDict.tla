----------------------------- MODULE MCAsyncDict -----------------------------
(***************************************************************************)
(* A parallel dictionary of two carriers: carrier 0 owns two strings and   *)
(* carrier 1 the third, so that batches go to one carrier or to both.      *)
(***************************************************************************)
EXTENDS AsyncDict

CONSTANTS s1, s2, s3

MCStrings   == {s1, s2, s3}
MCCarrierOf == (s1 :> 0) @@ (s2 :> 0) @@ (s3 :> 1)
=============================================================================
