--------------------------- MODULE OccupancyQueue ---------------------------
(***************************************************************************)
(* The frame queue of the occupancy filter (Occupancy.cpp): every radar    *)
(* thread hands its target lists to Occupancy::publish, one thread         *)
(* (Occupancy::run) takes them out, filters them and passes them on.       *)
(*                                                                         *)
(* What makes it hard: addToQueue tests the size BEFORE it takes qlock, so *)
(* any number of radar threads may pass the test together; a radar that    *)
(* finds the queue full empties it item by item, the lock free between two *)
(* items, while the other radars go on pushing and the filter thread goes  *)
(* on taking; and nobody owns the heap blocks of what was drained.         *)
(*                                                                         *)
(* A step is what a thread does between two accesses to shared state.      *)
(* removeFromQueue holds qlock for one access, so it is one step that      *)
(* needs the lock free; the push of addToQueue is two (the queue, then the *)
(* high-water mark), because size() is read elsewhere without the lock.    *)
(***************************************************************************)
EXTENDS Naturals, Sequences, FiniteSets

CONSTANTS
  Radars,     \* the radar threads (ISysRadar::run), at most 4 in main.cpp
  MaxQSize,   \* max_q_size: 60 after init(), 5 before
  InitMax,    \* the initial high-water mark, "max = 5" in Occupancy.h
  MaxFrames,  \* bound: target lists one radar publishes in a behaviour
  Free,       \* qlock is not held
  Junk        \* an int member no constructor sets (PUBClient.h OccQSize)

ASSUME QueueAssumption ==
  /\ IsFiniteSet(Radars) /\ Radars # {}
  /\ MaxQSize \in Nat \ {0}
  /\ InitMax \in Nat
  /\ MaxFrames \in Nat
  /\ Free \notin Radars
  /\ Junk \notin Nat

VARIABLES
  sendq,      \* queue<occ_item_t *>: the frames queued, oldest first
  qlock,      \* the radar inside the locked part of addToQueue, or Free
  max,        \* the high-water mark
  occQSize,   \* PUBClient::OccQSize, what the heartbeat reports
  published,  \* per radar, how many frames it has published so far
  ppc,        \* per radar, where it is in publish / addToQueue
  items,      \* the occ_item_t blocks allocated and not deleted
  lists,      \* the iSYSTargetList copies allocated and not deleted
  cpc,        \* where the filter thread is in run()
  citem,      \* the frame the filter thread took last
  fate        \* history: what became of each frame

vars == <<sendq, qlock, max, occQSize, published, ppc, items, lists,
          cpc, citem, fate>>

\* A frame is the n-th list a radar published; its item and its copy of the
\* target list are the heap blocks of the same name.
Frames == Radars \X (1 .. MaxFrames)

Fates == {"none", "notified", "drained", "rejected"}

ProducerStates == {"idle", "check", "drain", "reject", "push", "raise"}

ConsumerStates == {"take", "sleep", "filter", "notify", "free"}

\* The frame radar r is publishing (or published last).
Held(r) == <<r, published[r]>>

Queued == {sendq[i] : i \in DOMAIN sendq}

InHand == {Held(r) : r \in {q \in Radars : ppc[q] \in
                                {"check", "drain", "reject", "push"}}}

AtFilter == IF cpc \in {"filter", "notify", "free"} THEN {citem} ELSE {}

\* The types, that a radar publishes a frame of its own and that the filter
\* thread works on a frame it took.
TypeOK ==
  /\ sendq \in Seq(Frames)
  /\ qlock \in Radars \cup {Free}
  /\ max \in Nat
  /\ occQSize \in Nat \cup {Junk}
  /\ published \in [Radars -> 0 .. MaxFrames]
  /\ ppc \in [Radars -> ProducerStates]
  /\ \A r \in Radars : ppc[r] # "idle" => published[r] >= 1
  /\ items \subseteq Frames
  /\ lists \subseteq Frames
  /\ cpc \in ConsumerStates
  /\ citem \in IF cpc \in {"take", "sleep"} THEN Frames \cup {Free} ELSE Frames
  /\ fate \in [Frames -> Fates]

Init ==
  /\ sendq = <<>>
  /\ qlock = Free
  /\ max = InitMax
  /\ occQSize = Junk
  /\ published = [r \in Radars |-> 0]
  /\ ppc = [r \in Radars |-> "idle"]
  /\ items = {}
  /\ lists = {}
  /\ cpc = "take"
  /\ citem = Free
  /\ fate = [f \in Frames |-> "none"]

-----------------------------------------------------------------------------
(* The radar threads: Occupancy::publish and addToQueue. *)

Goto(r, from, to) == ppc[r] = from /\ ppc' = [ppc EXCEPT ![r] = to]

\* publish allocates the item and copies the caller's target list.
Publish(r) ==
  /\ Goto(r, "idle", "check")
  /\ published[r] < MaxFrames
  /\ published' = [published EXCEPT ![r] = @ + 1]
  /\ items' = items \cup {<<r, published[r] + 1>>}
  /\ lists' = lists \cup {<<r, published[r] + 1>>}
  /\ UNCHANGED <<sendq, qlock, max, occQSize, cpc, citem, fate>>

\* The test of addToQueue, without the lock.
HasRoom_OffByOne == Len(sendq) <= MaxQSize

HasRoom == Len(sendq) < MaxQSize

\* What removeFromQueue returns, and what it leaves.
Removed_Newest == sendq[Len(sendq)]

Removed == Head(sendq)

Remaining == Tail(sendq)

SeeRoom(r) ==
  /\ Goto(r, "check", "push")
  /\ HasRoom
  /\ UNCHANGED <<sendq, qlock, max, occQSize, published, items, lists,
                 cpc, citem, fate>>

SeeFull(r) ==
  /\ Goto(r, "check", "drain")
  /\ ~HasRoom
  /\ UNCHANGED <<sendq, qlock, max, occQSize, published, items, lists,
                 cpc, citem, fate>>

\* One turn of the drain loop: removeFromQueue hands over an item that
\* nobody deletes, neither it nor its list.
Drain(r) ==
  /\ ppc[r] = "drain"
  /\ qlock = Free
  /\ sendq # <<>>
  /\ fate' = [fate EXCEPT ![Removed] = "drained"]
  /\ sendq' = Remaining
  /\ UNCHANGED <<qlock, max, occQSize, published, ppc, items, lists,
                 cpc, citem>>

DrainEnd_Early(r) ==
  /\ Goto(r, "drain", "reject")
  /\ qlock = Free
  /\ UNCHANGED <<sendq, qlock, max, occQSize, published, items, lists,
                 cpc, citem, fate>>

\* removeFromQueue finds the queue empty: addToQueue returns false.
DrainEnd(r) ==
  /\ Goto(r, "drain", "reject")
  /\ qlock = Free
  /\ sendq = <<>>
  /\ UNCHANGED <<sendq, qlock, max, occQSize, published, items, lists,
                 cpc, citem, fate>>

\* publish deletes the item it could not queue, and not the list.
Reject(r) ==
  /\ Goto(r, "reject", "idle")
  /\ items' = items \ {Held(r)}
  /\ fate' = [fate EXCEPT ![Held(r)] = "rejected"]
  /\ UNCHANGED <<sendq, qlock, max, occQSize, published, lists, cpc, citem>>

\* addToQueue locks, pushes and reports the mark to the heartbeat ...
Push(r) ==
  /\ Goto(r, "push", "raise")
  /\ qlock = Free
  /\ qlock' = r
  /\ sendq' = Append(sendq, Held(r))
  /\ occQSize' = max
  /\ UNCHANGED <<max, published, items, lists, cpc, citem, fate>>

\* ... and raises the mark if the queue has grown above it, then unlocks.
HighMark_BeforePush == IF Len(sendq) > max + 1 THEN Len(sendq) - 1 ELSE max

HighMark == IF Len(sendq) > max THEN Len(sendq) ELSE max

Raise_KeepsLock(r) ==
  /\ Goto(r, "raise", "idle")
  /\ max' = HighMark
  /\ occQSize' = HighMark
  /\ UNCHANGED <<sendq, qlock, published, items, lists, cpc, citem, fate>>

Raise(r) ==
  /\ Goto(r, "raise", "idle")
  /\ max' = HighMark
  /\ occQSize' = HighMark
  /\ qlock' = Free
  /\ UNCHANGED <<sendq, published, items, lists, cpc, citem, fate>>

-----------------------------------------------------------------------------
(* The filter thread: Occupancy::run. *)

Move(from, to) == cpc = from /\ cpc' = to

Take ==
  /\ Move("take", "filter")
  /\ qlock = Free
  /\ sendq # <<>>
  /\ citem' = Removed
  /\ sendq' = Remaining
  /\ UNCHANGED <<qlock, max, occQSize, published, ppc, items, lists, fate>>

TakeNothing_Unchecked ==
  /\ Move("take", "filter")
  /\ qlock = Free
  /\ sendq = <<>>
  /\ UNCHANGED <<sendq, qlock, max, occQSize, published, ppc, items, lists,
                 citem, fate>>

TakeNothing ==
  /\ Move("take", "sleep")
  /\ qlock = Free
  /\ sendq = <<>>
  /\ UNCHANGED <<sendq, qlock, max, occQSize, published, ppc, items, lists,
                 citem, fate>>

\* The idle branch: it sleeps and ages the grid, and never reads the queue
\* (the ageing itself is OccupancyGrid's).
IdlePoll ==
  /\ Move("sleep", "take")
  /\ UNCHANGED <<sendq, qlock, max, occQSize, published, ppc, items, lists,
                 citem, fate>>

\* updateGrid rewrites the targets of the list in place (OccupancyGrid).
Filter ==
  /\ Move("filter", "notify")
  /\ UNCHANGED <<sendq, qlock, max, occQSize, published, ppc, items, lists,
                 citem, fate>>

\* notify formats the list and publishes what is left of it, if anything.
Notify ==
  /\ Move("notify", "free")
  /\ fate' = [fate EXCEPT ![citem] = "notified"]
  /\ UNCHANGED <<sendq, qlock, max, occQSize, published, ppc, items, lists,
                 citem>>

FreeList_Never ==
  /\ Move("free", "take")
  /\ UNCHANGED <<sendq, qlock, max, occQSize, published, ppc, items, lists,
                 citem, fate>>

\* run deletes the list, and not the item.
FreeList ==
  /\ Move("free", "take")
  /\ lists' = lists \ {citem}
  /\ UNCHANGED <<sendq, qlock, max, occQSize, published, ppc, items, citem,
                 fate>>

-----------------------------------------------------------------------------
AddToQueue(r) == \/ SeeRoom(r) \/ SeeFull(r) \/ Drain(r) \/ DrainEnd(r)
                 \/ Reject(r) \/ Push(r) \/ Raise(r)

Producer(r) == Publish(r) \/ AddToQueue(r)

Consumer == \/ Take \/ TakeNothing \/ IdlePoll
            \/ Filter \/ Notify \/ FreeList

Next == Consumer \/ \E r \in Radars : Producer(r)

Spec == Init /\ [][Next]_vars

(* Every thread runs until the process ends, so an enabled step is taken;  *)
(* a thread that waits for qlock gets it although others take it in        *)
(* between (a radar holds it for a few instructions per frame and then     *)
(* waits for its device), which is strong fairness of the locking steps.   *)
(* Nothing makes a radar publish.                                          *)
Fairness ==
  /\ WF_vars(Consumer) /\ SF_vars(Take)
  /\ \A r \in Radars : /\ WF_vars(AddToQueue(r))
                       /\ SF_vars(Push(r))
                       /\ SF_vars(Drain(r))
                       /\ SF_vars(DrainEnd(r))

FairSpec == Spec /\ Fairness

-----------------------------------------------------------------------------
(* Correctness. *)

\* Between the size test and the push of addToQueue nothing is locked, yet the
\* queue never grows past its limit by more than the other radar threads.
QueueBound == Len(sendq) <= MaxQSize + Cardinality(Radars) - 1

InUse == Queued \cup InHand \cup AtFilter

\* The heap blocks.  A target list is allocated exactly while it waits, is being
\* published or is being filtered, or if an overflow lost it: run reclaims every
\* list it took, and the drain of addToQueue and the early return of publish
\* are the only leaks.  No thread holds a pointer to a deleted item, although
\* run, publish and the drain disagree on who deletes which block.
BlocksAccounted ==
  /\ lists = InUse \cup {f \in Frames : fate[f] \in {"drained", "rejected"}}
  /\ InUse \subseteq items

\* With qlock free, the high-water mark covers what waits, and the heartbeat
\* reports that mark (or, before the first push, an uninitialised int).
HighWater ==
  qlock = Free => /\ Len(sendq) <= max
                  /\ occQSize # Junk => occQSize = max
                  /\ sendq # <<>> => occQSize # Junk

\* A radar that found the queue full returns from addToQueue with none of its
\* own frames left in it: the overflow discards the backlog, not just a part.
OverflowForgets ==
  \A r \in Radars : ppc[r] = "reject" => \A f \in Queued : f[1] # r

\* Every frame a radar has published is notified or dropped in the end; no
\* thread is left waiting for qlock.
FramesSettle ==
  []<>(\A f \in Frames : f[2] <= published[f[1]] => fate[f] # "none")
=============================================================================
