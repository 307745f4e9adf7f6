-------------------------------- MODULE Lock --------------------------------
(***************************************************************************)
(* What the program expects of its mutexes: a lock is free or has one      *)
(* owner, a thread gets a lock only while it is free, and only its owner   *)
(* gives it back.                                                          *)
(***************************************************************************)
CONSTANTS
  Locks,
  Threads,
  NoOwner     \* the owner of a free lock: none of the threads

VARIABLE owner

Init == owner = [m \in Locks |-> NoOwner]

Acquire(t, m) ==
  /\ owner[m] = NoOwner
  /\ owner' = [owner EXCEPT ![m] = t]

Release(t, m) ==
  /\ owner[m] = t
  /\ owner' = [owner EXCEPT ![m] = NoOwner]

Next == \E t \in Threads, m \in Locks : Acquire(t, m) \/ Release(t, m)

Spec == Init /\ [][Next]_owner
=============================================================================
