-------------------------------- MODULE Mutex --------------------------------
(***************************************************************************)
(* What the users of spin_acquire and spin_release expect of the lock: at  *)
(* most one thread has it, and only that thread gives it back.             *)
(***************************************************************************)
CONSTANTS Threads, NoThread

VARIABLE holder  \* the thread that has the lock, or NoThread

Init == holder = NoThread

Lock(t) == holder = NoThread /\ holder' = t

Unlock(t) == holder = t /\ holder' = NoThread

Next == \E t \in Threads : Lock(t) \/ Unlock(t)

Spec == Init /\ [][Next]_holder
=============================================================================
