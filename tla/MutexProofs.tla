---------------------------- MODULE MutexProofs -----------------------------
(***************************************************************************)
(* Proofs about Mutex, for every set of threads and of queue mutexes.      *)
(***************************************************************************)
EXTENDS Mutex, TLAPS

-----------------------------------------------------------------------------
(* The type invariant. *)

LEMMA TypeInit == Init => TypeOK
BY MutexAssumption
   DEF Init, TypeOK, MutexAssumption, States, Threads, Mutexes

\* What the shared operations of the users, the server and main preserve.
LEMMA TypeOperations ==
  ASSUME TypeOK, NEW t \in Threads,
         \/ TryAgain(t) \/ Wake(t) \/ Signal(t) \/ Unlock(t)
         \/ \E m \in Mutexes : FirstTry(t, m) /\ (t \notin Users => m = webgo)
  PROVE  TypeOK'
<1> USE MutexAssumption DEF MutexAssumption, TypeOK, States, Threads, Mutexes,
                            Go
<1>1. CASE TryAgain(t)
  BY <1>1 DEF TryAgain
<1>2. CASE Wake(t)
  BY <1>2 DEF Wake
<1>3. CASE Signal(t)
  BY <1>3 DEF Signal
<1>4. CASE Unlock(t)
  BY <1>4 DEF Unlock, Freed, WaitedFor
<1>5. ASSUME NEW m \in Mutexes, FirstTry(t, m), t \notin Users => m = webgo
      PROVE TypeOK'
  BY <1>5 DEF FirstTry
<1> QED
  BY <1>1, <1>2, <1>3, <1>4, <1>5

\* Every step is one of the shared operations or the server's return.
LEMMA StepIsOperation ==
  ASSUME TypeOK, Next
  PROVE  \/ /\ pc[Server] = "in"
            /\ Go(Server, "out") /\ UNCHANGED <<lock_idx, event, mutex>>
         \/ \E t \in Threads :
              \/ TryAgain(t) \/ Wake(t) \/ Signal(t)
              \/ /\ Unlock(t)
                 /\ pc[t] \in {"in", "out"}
                 /\ (t \in Users => pc[t] = "in")
                 /\ (t \notin Users => t = Main)
              \/ \E m \in Mutexes :
                   /\ FirstTry(t, m)
                   /\ (t \in Users => m \in Qlocks)
                   /\ (t \notin Users => m = webgo /\ t = Server)
<1> USE MutexAssumption DEF MutexAssumption, Threads, Mutexes
<1>1. CASE \E t \in Users : Enter(t) \/ UseQueue(t)
  <2> PICK t \in Users : Enter(t) \/ UseQueue(t)
    BY <1>1
  <2>1. t \in Threads /\ Uses[t] \subseteq Qlocks
    OBVIOUS
  <2>2. CASE Enter(t)
    BY <2>1, <2>2 DEF Enter
  <2>3. CASE UseQueue(t)
    BY <2>1, <2>3 DEF UseQueue, Leave
  <2> QED
    BY <2>2, <2>3
<1>2. CASE Serve
  BY <1>2 DEF Serve, Return
<1>3. CASE Cycle
  BY <1>3 DEF Cycle
<1> QED
  BY <1>1, <1>2, <1>3 DEF Next

LEMMA TypeStep == TypeOK /\ [Next]_vars => TypeOK'
<1> SUFFICES ASSUME TypeOK, [Next]_vars PROVE TypeOK'
  OBVIOUS
<1>1. CASE Next
  <2>1. CASE /\ pc[Server] = "in"
             /\ Go(Server, "out") /\ UNCHANGED <<lock_idx, event, mutex>>
    BY <2>1 DEF TypeOK, Go, States
  <2> QED
    BY <1>1, <2>1, StepIsOperation, TypeOperations
<1>2. CASE UNCHANGED vars
  BY <1>2 DEF vars, TypeOK
<1> QED
  BY <1>1, <1>2

\* The integers and events of the mutexes keep their values, whatever threads
\* lock, unlock and wake.
THEOREM TypeCorrect == Spec => []TypeOK
<1> QED
  BY TypeInit, TypeStep, PTL DEF Spec

-----------------------------------------------------------------------------
(* No lost wakeup: NoLostWakeup is inductive beside the types. *)

LEMMA WakeupInit == Init => NoLostWakeup
BY DEF Init, NoLostWakeup, At

LEMMA WakeupStep == TypeOK /\ NoLostWakeup /\ [Next]_vars => NoLostWakeup'
<1> SUFFICES ASSUME TypeOK, NoLostWakeup, [Next]_vars, NEW m \in Mutexes,
                    NEW w \in Threads, At(w, m, {"wait"})'
             PROVE  \/ lock_idx'[m] = -1
                    \/ event'[m]
                    \/ \E t \in Threads : At(t, m, {"again", "signal"})'
  BY DEF NoLostWakeup
<1> USE DEF TypeOK, At, Go
<1>1. CASE Next
  <2>1. CASE /\ pc[Server] = "in"
             /\ Go(Server, "out") /\ UNCHANGED <<lock_idx, event, mutex>>
    <3>1. At(w, m, {"wait"})
      BY <2>1 DEF States
    <3>2. \A t \in Threads : At(t, m, {"again", "signal"})
                               => At(t, m, {"again", "signal"})'
      BY <2>1
    <3> QED
      BY <2>1, <3>1, <3>2 DEF NoLostWakeup
  <2>2. ASSUME NEW t \in Threads, TryAgain(t) \/ Wake(t) \/ Signal(t)
        PROVE  lock_idx'[m] = -1 \/ event'[m]
               \/ \E u \in Threads : At(u, m, {"again", "signal"})'
    <3> USE DEF TryAgain, Wake, Signal
    <3>1. CASE mutex[t] = m
      BY <2>2, <3>1
    <3>2. CASE mutex[t] # m
      <4>1. At(w, m, {"wait"})
        BY <2>2, <3>2
      <4>2. \A u \in Threads : At(u, m, {"again", "signal"})
                                 => At(u, m, {"again", "signal"})'
        BY <2>2, <3>2
      <4>3. lock_idx'[m] = lock_idx[m] /\ event'[m] = event[m]
        BY <2>2, <3>2
      <4> QED
        BY <4>1, <4>2, <4>3 DEF NoLostWakeup
    <3> QED
      BY <3>1, <3>2
  <2>3. ASSUME NEW t \in Threads, Unlock(t), pc[t] \in {"in", "out"}
        PROVE  lock_idx'[m] = -1 \/ event'[m]
               \/ \E u \in Threads : At(u, m, {"again", "signal"})'
    <3>1. At(w, m, {"wait"})
      BY <2>3 DEF Unlock, WaitedFor
    <3>2. \A u \in Threads : At(u, m, {"again", "signal"})
                               => At(u, m, {"again", "signal"})'
      BY <2>3 DEF Unlock, WaitedFor
    <3>3. CASE mutex[t] = m /\ lock_idx[m] = -1
      <4>1. At(t, m, {"again", "signal"})'
        BY <2>3, <3>3 DEF Unlock, WaitedFor
      <4> QED
        BY <4>1
    <3>4. CASE ~(mutex[t] = m /\ lock_idx[m] = -1)
      <4>1. lock_idx[m] = -1 => lock_idx'[m] = -1
        BY <2>3, <3>4 DEF Unlock, Freed
      <4>2. event' = event
        BY <2>3 DEF Unlock
      <4> QED
        BY <3>1, <3>2, <4>1, <4>2 DEF NoLostWakeup
    <3> QED
      BY <3>3, <3>4
  <2>4. ASSUME NEW t \in Threads, NEW n \in Mutexes, FirstTry(t, n)
        PROVE  lock_idx'[m] = -1 \/ event'[m]
               \/ \E u \in Threads : At(u, m, {"again", "signal"})'
    <3>1. At(w, m, {"wait"})
      BY <2>4 DEF FirstTry
    <3>2. \A u \in Threads : At(u, m, {"again", "signal"})
                               => At(u, m, {"again", "signal"})'
      BY <2>4 DEF FirstTry
    <3>3. CASE n = m /\ lock_idx[m] = -1
      <4>1. At(t, m, {"again", "signal"})'
        BY <2>4, <3>3 DEF FirstTry
      <4> QED
        BY <4>1
    <3>4. CASE ~(n = m /\ lock_idx[m] = -1)
      <4>1. lock_idx[m] = -1 => lock_idx'[m] = -1
        BY <2>4, <3>4 DEF FirstTry
      <4>2. event' = event
        BY <2>4 DEF FirstTry
      <4> QED
        BY <3>1, <3>2, <4>1, <4>2 DEF NoLostWakeup
    <3> QED
      BY <3>3, <3>4
  <2> HIDE DEF TypeOK, At, Go
  <2> QED
    BY <1>1, <2>1, <2>2, <2>3, <2>4, StepIsOperation
<1>2. CASE UNCHANGED vars
  BY <1>2 DEF vars, NoLostWakeup
<1> QED
  BY <1>1, <1>2

\* No thread sleeps on a mutex that nobody will wake it for, however many
\* threads erase each other's marks and merge each other's events; on webgo
\* also, which is unlocked by a thread that does not own it.
THEOREM NoWakeupIsLost == Spec => []NoLostWakeup
<1>1. TypeOK /\ NoLostWakeup /\ [Next]_vars => TypeOK' /\ NoLostWakeup'
  BY TypeStep, WakeupStep
<1> QED
  BY <1>1, TypeInit, WakeupInit, PTL DEF Spec

-----------------------------------------------------------------------------
(* Mutual exclusion, and the abstract lock. *)

\* The mutex of a queue has at most one holder, and while it has one its
\* integer is not 0.
MutualExclusion ==
  \A m \in Qlocks : \A t \in Users :
    Holds(t, m) => /\ lock_idx[m] # 0
                   /\ \A u \in Users : Holds(u, m) => u = t

LEMMA ExclusionInit == Init => MutualExclusion
BY MutexAssumption DEF Init, MutualExclusion, Holds, At, MutexAssumption,
                       Threads

\* What a step may do to the holders of the queue mutexes: nothing, give a free
\* mutex to a thread, or take a mutex from its holder.
SameHolders ==
  /\ \A t \in Users, m \in Qlocks : Holds(t, m)' <=> Holds(t, m)
  /\ \A m \in Qlocks : lock_idx[m] # 0 => lock_idx'[m] # 0

Gets(u, n) ==
  /\ lock_idx[n] = 0 /\ lock_idx'[n] # 0
  /\ \A m \in Qlocks : m # n => lock_idx'[m] = lock_idx[m]
  /\ \A t \in Users, m \in Qlocks :
       Holds(t, m)' <=> Holds(t, m) \/ (t = u /\ m = n)

GivesBack(u, n) ==
  /\ Holds(u, n)
  /\ \A m \in Qlocks : m # n => lock_idx'[m] = lock_idx[m]
  /\ \A t \in Users, m \in Qlocks :
       Holds(t, m)' <=> Holds(t, m) /\ ~(t = u /\ m = n)

HolderStep == \/ SameHolders
              \/ \E u \in Users, n \in Qlocks : Gets(u, n) \/ GivesBack(u, n)

\* A try that finds the mutex locked changes no holder; one that finds it free
\* makes the thread the holder.
LEMMA TryStep ==
  ASSUME TypeOK, NEW t \in Threads, NEW m \in Mutexes,
         \/ TryAgain(t) /\ mutex[t] = m
         \/ /\ FirstTry(t, m)
            /\ (t \in Users => m \in Qlocks)
            /\ (t \notin Users => m = webgo /\ t = Server)
  PROVE  HolderStep
<1> USE MutexAssumption DEF MutexAssumption, TypeOK, Threads, Mutexes, States,
                            Holds, At, Go, TryAgain, FirstTry
<1>1. CASE lock_idx[m] # 0
  <2>1. SameHolders
    BY <1>1 DEF SameHolders
  <2> QED
    BY <2>1 DEF HolderStep
<1>2. CASE lock_idx[m] = 0 /\ t \in Users /\ m \in Qlocks
  <2>1. Gets(t, m)
    BY <1>2 DEF Gets
  <2> QED
    BY <1>2, <2>1 DEF HolderStep
<1>3. CASE lock_idx[m] = 0 /\ ~(t \in Users /\ m \in Qlocks)
  <2>1. SameHolders
    BY <1>3 DEF SameHolders
  <2> QED
    BY <2>1 DEF HolderStep
<1> QED
  BY <1>1, <1>2, <1>3

LEMMA HoldersChange == TypeOK /\ [Next]_vars => HolderStep
<1> SUFFICES ASSUME TypeOK, [Next]_vars PROVE HolderStep
  OBVIOUS
<1>1. CASE Next
  <2>1. CASE /\ pc[Server] = "in"
             /\ Go(Server, "out") /\ UNCHANGED <<lock_idx, event, mutex>>
    <3>1. SameHolders
      BY <2>1, MutexAssumption
         DEF SameHolders, MutexAssumption, TypeOK, Threads, Holds, At, Go
    <3> QED
      BY <3>1 DEF HolderStep
  <2>2. ASSUME NEW t \in Threads, TryAgain(t)
        PROVE  HolderStep
    BY <2>2, TryStep DEF TypeOK
  <2>3. ASSUME NEW t \in Threads, NEW m \in Mutexes, FirstTry(t, m),
               t \in Users => m \in Qlocks,
               t \notin Users => m = webgo /\ t = Server
        PROVE  HolderStep
    BY <2>3, TryStep
  <2>4. ASSUME NEW t \in Threads, Wake(t) \/ Signal(t)
        PROVE  HolderStep
    <3>1. SameHolders
      BY <2>4 DEF SameHolders, TypeOK, Threads, Holds, At, Go, Wake, Signal
    <3> QED
      BY <3>1 DEF HolderStep
  <2>5. ASSUME NEW t \in Threads, Unlock(t), t \in Users => pc[t] = "in",
               t \notin Users => t = Main
        PROVE  HolderStep
    <3> USE MutexAssumption
        DEF MutexAssumption, TypeOK, Threads, Mutexes, Holds, At, Go, Unlock,
            Freed, WaitedFor
    <3>1. CASE t \in Users /\ mutex[t] \in Qlocks
      <4> PICK n \in Qlocks : n = mutex[t]
        BY <3>1
      <4>1. GivesBack(t, n)
        BY <2>5, <3>1 DEF GivesBack
      <4> QED
        BY <3>1, <4>1 DEF HolderStep
    <3>2. CASE ~(t \in Users /\ mutex[t] \in Qlocks)
      <4>1. SameHolders
        BY <2>5, <3>2 DEF SameHolders
      <4> QED
        BY <4>1 DEF HolderStep
    <3> QED
      BY <3>1, <3>2
  <2> QED
    BY <1>1, <2>1, <2>2, <2>3, <2>4, <2>5, StepIsOperation
<1>2. CASE UNCHANGED vars
  <2>1. SameHolders
    BY <1>2 DEF vars, SameHolders, Holds, At
  <2> QED
    BY <2>1 DEF HolderStep
<1> QED
  BY <1>1, <1>2

LEMMA ExclusionStep == MutualExclusion /\ HolderStep => MutualExclusion'
<1> SUFFICES ASSUME MutualExclusion, HolderStep PROVE MutualExclusion'
  OBVIOUS
<1>1. CASE SameHolders
  BY <1>1 DEF MutualExclusion, SameHolders
<1>2. ASSUME NEW u \in Users, NEW n \in Qlocks, Gets(u, n)
      PROVE  MutualExclusion'
  BY <1>2 DEF MutualExclusion, Gets
<1>3. ASSUME NEW u \in Users, NEW n \in Qlocks, GivesBack(u, n)
      PROVE  MutualExclusion'
  BY <1>3 DEF MutualExclusion, GivesBack
<1> QED
  BY <1>1, <1>2, <1>3 DEF HolderStep

\* The exchanges let one thread at a time into the locked parts of addToQueue
\* and removeFromQueue.
THEOREM OneHolder == Spec => []MutualExclusion
<1>1. TypeOK /\ MutualExclusion /\ [Next]_vars => TypeOK' /\ MutualExclusion'
  BY TypeStep, HoldersChange, ExclusionStep
<1> QED
  BY <1>1, TypeInit, ExclusionInit, PTL DEF Spec

\* With one holder at most, the refinement mapping names it.
LEMMA OwnerIsHolder ==
  ASSUME MutualExclusion, NEW m \in Qlocks
  PROVE  /\ \A t \in Users : Holds(t, m) => owner[m] = t
         /\ (\A t \in Users : ~Holds(t, m)) => owner[m] = NoOwner
BY DEF MutualExclusion, owner

LEMMA OwnerInit == Init => Abstract!Init
BY MutexAssumption
   DEF Init, Abstract!Init, owner, Holds, At, MutexAssumption, Threads

LEMMA OwnerStep ==
  MutualExclusion /\ MutualExclusion' /\ HolderStep => [Abstract!Next]_owner
<1> SUFFICES ASSUME MutualExclusion, MutualExclusion', HolderStep
             PROVE  [Abstract!Next]_owner
  OBVIOUS
<1>1. CASE SameHolders
  <2>1. \A m \in Qlocks : owner'[m] = owner[m]
    BY <1>1 DEF SameHolders, owner
  <2>2. owner' = owner
    BY <2>1 DEF owner
  <2> QED
    BY <2>2
<1>2. ASSUME NEW u \in Users, NEW n \in Qlocks, Gets(u, n)
      PROVE  [Abstract!Next]_owner
  <2>1. owner[n] = NoOwner
    BY <1>2, OwnerIsHolder DEF MutualExclusion, Gets
  <2>2. owner'[n] = u
    BY <1>2 DEF MutualExclusion, Gets, owner
  <2>3. \A m \in Qlocks : m # n => owner'[m] = owner[m]
    BY <1>2 DEF Gets, owner
  <2>4. owner' = [owner EXCEPT ![n] = u]
    BY <2>2, <2>3 DEF owner
  <2> QED
    BY <2>1, <2>4 DEF Abstract!Next, Abstract!Acquire
<1>3. ASSUME NEW u \in Users, NEW n \in Qlocks, GivesBack(u, n)
      PROVE  [Abstract!Next]_owner
  <2>1. owner[n] = u
    BY <1>3, OwnerIsHolder DEF GivesBack
  <2>2. owner'[n] = NoOwner
    BY <1>3 DEF MutualExclusion, GivesBack, owner
  <2>3. \A m \in Qlocks : m # n => owner'[m] = owner[m]
    BY <1>3 DEF GivesBack, owner
  <2>4. owner' = [owner EXCEPT ![n] = NoOwner]
    BY <2>2, <2>3 DEF owner
  <2> QED
    BY <2>1, <2>4 DEF Abstract!Next, Abstract!Release
<1> QED
  BY <1>1, <1>2, <1>3 DEF HolderStep

\* The library's mutex implements the lock the queues rely on: every exchange
\* takes a free lock, gives back one's own, or is a stutter.
THEOREM Implements == Spec => ImplementsLock
<1>1. TypeOK /\ MutualExclusion /\ [Next]_vars
        => TypeOK' /\ MutualExclusion' /\ [Abstract!Next]_owner
  BY TypeStep, HoldersChange, ExclusionStep, OwnerStep
<1>2. Spec => Abstract!Init /\ [][Abstract!Next]_owner
  BY <1>1, TypeInit, ExclusionInit, OwnerInit, PTL DEF Spec
<1> QED
  BY <1>2 DEF ImplementsLock, Abstract!Spec
=============================================================================
