------------------------------ MODULE MCMemPool ------------------------------
(* Small instances of the memory pool for TLC. *)
EXTENDS MemPool

(* Once pool_free_all or pool_drop began, the walk comes to its end and    *)
(* the clients hold no pointer any more.                                   *)
WalkEnds == walk # 0 ~> walk = 0 /\ held = {}
=============================================================================
