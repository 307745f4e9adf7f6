------------------------------- MODULE Mutex --------------------------------
(***************************************************************************)
(* The mutexes of the program, as the pthreads library it is built with    *)
(* implements them (a normal mutex: pthread_mutex_lock,                    *)
(* pthread_mutex_unlock): an integer that is exchanged atomically and an   *)
(* event that wakes one waiter.  The library records no owner.             *)
(*                                                                         *)
(* The queue mutexes (Occupancy::qlock, PUBClient::qlock) are locked and   *)
(* unlocked by the same thread, around a few instructions, and never       *)
(* nested.  Buf_t::webgo is different: the thread of the web server only   *)
(* locks it, once per round of its loop, and the main thread only unlocks  *)
(* it, once per round of its own.                                          *)
(***************************************************************************)
EXTENDS Integers

CONSTANTS
  Qlocks,     \* the mutexes of the queues
  Users,      \* the threads that use the queues
  Uses,       \* the queue mutexes a thread uses
  webgo,      \* the mutex between the main loop and the web server
  Server,     \* the thread that runs config_server
  Main,       \* the thread that runs main
  NoOwner     \* the owner of a free lock

Mutexes == Qlocks \cup {webgo}
Threads == Users \cup {Server, Main}

ASSUME MutexAssumption ==
  /\ Uses \in [Users -> SUBSET Qlocks]
  /\ webgo \notin Qlocks
  /\ Server \notin Users /\ Main \notin Users /\ Server # Main
  /\ NoOwner \notin Users

VARIABLES
  lock_idx,   \* per mutex: 0 free, 1 locked, -1 locked and perhaps waited for
  event,      \* per mutex: the auto-reset event is signalled
  pc,         \* per thread: where it is in lock or unlock
  mutex       \* per thread: the mutex it last called lock or unlock with

vars == <<lock_idx, event, pc, mutex>>

States == {"out", "again", "wait", "in", "signal"}

TypeOK ==
  /\ lock_idx \in [Mutexes -> {-1, 0, 1}]
  /\ event \in [Mutexes -> BOOLEAN]
  /\ pc \in [Threads -> States]
  /\ mutex \in [Threads -> Mutexes]
  /\ mutex[Server] = webgo /\ mutex[Main] = webgo

At(t, m, states) == mutex[t] = m /\ pc[t] \in states

\* A thread holds a queue mutex from the exchange that gets it until the one
\* that gives it back.
Holds(t, m) == At(t, m, {"in"})

\* pthread_mutex_init; no thread has locked anything yet.
Init ==
  /\ lock_idx = [m \in Mutexes |-> 0]
  /\ event = [m \in Mutexes |-> FALSE]
  /\ pc = [t \in Threads |-> "out"]
  /\ mutex \in [Threads -> Mutexes]
  /\ \A t \in Threads : mutex[t] \in IF t \in Users THEN Uses[t] ELSE {webgo}

Go(t, state) == pc' = [pc EXCEPT ![t] = state]

-----------------------------------------------------------------------------
(* pthread_mutex_lock. *)

FirstTry_Waits(t, m) ==
  /\ pc[t] = "out"
  /\ mutex' = [mutex EXCEPT ![t] = m]
  /\ lock_idx' = [lock_idx EXCEPT ![m] = 1]
  /\ Go(t, IF lock_idx[m] = 0 THEN "in" ELSE "wait")
  /\ UNCHANGED event

\* The first exchange gets a free mutex.  If it does not, it may have replaced
\* a -1 by 1.
FirstTry(t, m) ==
  /\ pc[t] = "out"
  /\ mutex' = [mutex EXCEPT ![t] = m]
  /\ lock_idx' = [lock_idx EXCEPT ![m] = 1]
  /\ Go(t, IF lock_idx[m] = 0 THEN "in" ELSE "again")
  /\ UNCHANGED event

TryAgain_KeepsOne(t) ==
  /\ pc[t] = "again"
  /\ lock_idx' = [lock_idx EXCEPT ![mutex[t]] = 1]
  /\ Go(t, IF lock_idx[mutex[t]] = 0 THEN "in" ELSE "wait")
  /\ UNCHANGED <<event, mutex>>

\* The exchange of the loop marks the mutex as waited for, also when it gets
\* it.
TryAgain(t) ==
  /\ pc[t] = "again"
  /\ lock_idx' = [lock_idx EXCEPT ![mutex[t]] = -1]
  /\ Go(t, IF lock_idx[mutex[t]] = 0 THEN "in" ELSE "wait")
  /\ UNCHANGED <<event, mutex>>

Wake_Enters(t) ==
  /\ pc[t] = "wait"
  /\ event[mutex[t]]
  /\ event' = [event EXCEPT ![mutex[t]] = FALSE]
  /\ Go(t, "in")
  /\ UNCHANGED <<lock_idx, mutex>>

\* WaitForSingleObject returns and resets the event; the mutex may have been
\* taken by another thread since.
Wake(t) ==
  /\ pc[t] = "wait"
  /\ event[mutex[t]]
  /\ event' = [event EXCEPT ![mutex[t]] = FALSE]
  /\ Go(t, "again")
  /\ UNCHANGED <<lock_idx, mutex>>

-----------------------------------------------------------------------------
(* pthread_mutex_unlock. *)

Freed_CountsDown(m) == [lock_idx EXCEPT ![m] = @ - 1]

Freed(m) == [lock_idx EXCEPT ![m] = 0]

WaitedFor_IfOne(m) == lock_idx[m] > 0

WaitedFor(m) == lock_idx[m] < 0

\* The exchange, whoever calls it.
Unlock(t) ==
  /\ lock_idx' = Freed(mutex[t])
  /\ Go(t, IF WaitedFor(mutex[t]) THEN "signal" ELSE "out")
  /\ UNCHANGED <<event, mutex>>

\* SetEvent, after the mutex was given back.  It does not count: an event that
\* is signalled stays signalled.
Signal(t) ==
  /\ pc[t] = "signal"
  /\ event' = [event EXCEPT ![mutex[t]] = TRUE]
  /\ Go(t, "out")
  /\ UNCHANGED <<lock_idx, mutex>>

-----------------------------------------------------------------------------
(* The threads. *)

\* addToQueue and removeFromQueue of both queues.
Enter(t) == \E m \in Uses[t] : FirstTry(t, m)

Leave(t) == pc[t] = "in" /\ Unlock(t)

UseQueue(t) == TryAgain(t) \/ Wake(t) \/ Leave(t) \/ Signal(t)

\* A round of config_server, which goes on with the mutex locked.
Return ==
  /\ pc[Server] = "in"
  /\ Go(Server, "out")
  /\ UNCHANGED <<lock_idx, event, mutex>>

Serve == FirstTry(Server, webgo) \/ TryAgain(Server) \/ Wake(Server) \/ Return

\* A round of the loop of main.
Cycle == \/ pc[Main] = "out" /\ Unlock(Main)
         \/ Signal(Main)

Next == \/ \E t \in Users : Enter(t) \/ UseQueue(t)
        \/ Serve
        \/ Cycle

Spec == Init /\ [][Next]_vars

(* Every thread runs.  Nothing makes a thread use a queue, and none is      *)
(* preferred: a thread that was woken may find the mutex taken each time.   *)
Fairness ==
  /\ \A t \in Users : WF_vars(UseQueue(t))
  /\ WF_vars(Serve)
  /\ WF_vars(Cycle)

FairSpec == Spec /\ Fairness

-----------------------------------------------------------------------------
(* Correctness. *)

\* The owner of each queue mutex, as a caller of lock and unlock sees it.
owner == [m \in Qlocks |-> IF \E t \in Users : Holds(t, m)
                           THEN CHOOSE t \in Users : Holds(t, m)
                           ELSE NoOwner]

Abstract == INSTANCE Lock WITH Locks <- Qlocks, Threads <- Users

\* The exchanges implement a lock with one owner, on which addToQueue and
\* removeFromQueue of both queues rely.
ImplementsLock == Abstract!Spec

\* No thread sleeps in WaitForSingleObject unless it will be woken: the mutex
\* is marked as waited for, or the event is signalled or about to be, or a
\* thread is about to mark the mutex again.  The first exchange of lock erases
\* the mark, and the events of two unlocks may become one.
NoLostWakeup ==
  \A m \in Mutexes :
    (\E t \in Threads : At(t, m, {"wait"})) =>
       \/ lock_idx[m] = -1
       \/ event[m]
       \/ \E t \in Threads : At(t, m, {"again", "signal"})

Trying(t, m) == At(t, m, {"again", "wait"})

Held(m) == \E t \in Users : Holds(t, m)

\* A thread that waits for the mutex of a queue for ever is overtaken for
\* ever: the mutex goes on being taken and given back.
NeverStuck ==
  \A m \in Qlocks : \A t \in Users :
    \/ []<>~Trying(t, m)
    \/ []<>Held(m) /\ []<>~Held(m)

\* The loop of config_server goes on, although the mutex it locks is unlocked
\* by the main thread, which does not own it, more often or less often than it
\* is locked.
ServerGoesOn == []<>(pc[Server] = "out") /\ []<>(pc[Server] = "in")
=============================================================================
