------------------------------ MODULE MCMutex -------------------------------
(***************************************************************************)
(* The threads of the filter's queue: every radar and the filter lock its  *)
(* mutex.  (The client's queue has a mutex of its own with two threads.)   *)
(***************************************************************************)
EXTENDS Mutex

CONSTANTS r1, r2, r3, filter, occ

MCUses == [t \in {r1, r2, r3, filter} |-> {occ}]
=============================================================================
