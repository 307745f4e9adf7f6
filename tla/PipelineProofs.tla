--------------------------- MODULE PipelineProofs ---------------------------
(***************************************************************************)
(* Proofs about the path from the radar threads to the broker, for every   *)
(* number of radars, every limit of the queues and every number of frames: *)
(* the invariants of its first half, OccupancyQueue, whose definitions     *)
(* Pipeline extends, and then that the whole path implements LossyFifo.    *)
(***************************************************************************)
EXTENDS Pipeline, FiniteSetTheorems, TLAPS

-----------------------------------------------------------------------------
(* What removing the front of a queue of frames leaves. *)

\* removeFromQueue returns one of the frames that waited, and what it leaves is
\* a queue of frames, shorter by one, with nothing new in it.
LEMMA RemoveFront ==
  ASSUME sendq \in Seq(Frames), sendq # <<>>
  PROVE  /\ Removed \in Queued
         /\ Removed \in Frames
         /\ Remaining \in Seq(Frames)
         /\ Len(Remaining) = Len(sendq) - 1
         /\ \A i \in DOMAIN Remaining : Remaining[i] \in Queued
<1>1. Len(sendq) \in Nat /\ Len(sendq) >= 1
  OBVIOUS
<1>2. Removed = sendq[1] /\ 1 \in DOMAIN sendq
  BY <1>1 DEF Removed
<1>3. /\ Remaining \in Seq(Frames)
      /\ Len(Remaining) = Len(sendq) - 1
      /\ \A i \in 1 .. Len(Remaining) : Remaining[i] = sendq[i + 1]
  BY <1>1 DEF Remaining
<1>4. \A i \in DOMAIN Remaining : i + 1 \in DOMAIN sendq
  BY <1>1, <1>3
<1>5. \A i \in DOMAIN Remaining : Remaining[i] \in Queued
  BY <1>3, <1>4 DEF Queued
<1> QED
  BY <1>2, <1>3, <1>5 DEF Queued

-----------------------------------------------------------------------------
(* The type invariant. *)

\* The initial state has the declared types.
LEMMA TypeInit == Init => TypeOK
BY QueueAssumption
   DEF Init, TypeOK, QueueAssumption, ProducerStates, ConsumerStates, Fates

\* No step of a radar or of the filter thread leaves the types.
LEMMA TypeStep == TypeOK /\ [Next]_vars => TypeOK'
<1> SUFFICES ASSUME TypeOK, [Next]_vars PROVE TypeOK'
  OBVIOUS
<1> USE QueueAssumption DEF QueueAssumption, TypeOK, ProducerStates,
                            ConsumerStates, Fates
<1>1. CASE Take
  <2>1. Removed \in Frames /\ Remaining \in Seq(Frames)
    BY <1>1, RemoveFront DEF Take
  <2> QED
    BY <1>1, <2>1 DEF Take, Move
<1>2. CASE TakeNothing
  BY <1>2 DEF TakeNothing, Move
<1>3. CASE IdlePoll
  BY <1>3 DEF IdlePoll, Move
<1>4. CASE Filter
  BY <1>4 DEF Filter, Move
<1>5. CASE Notify
  BY <1>5 DEF Notify, Move
<1>6. CASE FreeList
  BY <1>6 DEF FreeList, Move
<1>7. ASSUME NEW r \in Radars, Producer(r) PROVE TypeOK'
  <2>1. CASE Publish(r)
    <3>1. published[r] + 1 \in 1 .. MaxFrames
      BY <2>1 DEF Publish
    <3>2. <<r, published[r] + 1>> \in Frames
      BY <3>1 DEF Frames
    <3>3. items' \subseteq Frames /\ lists' \subseteq Frames
      BY <2>1, <3>2 DEF Publish
    <3>4. published' \in [Radars -> 0 .. MaxFrames] /\ published'[r] >= 1
      BY <2>1, <3>1 DEF Publish
    <3>5. ppc' \in [Radars -> ProducerStates]
      BY <2>1 DEF Publish, Goto
    <3>6. \A q \in Radars : ppc'[q] # "idle" => published'[q] >= 1
      BY <2>1, <3>1, <3>4 DEF Publish, Goto
    <3> QED
      BY <2>1, <3>3, <3>4, <3>5, <3>6 DEF Publish
  <2>2. CASE SeeRoom(r)
    BY <2>2 DEF SeeRoom, Goto
  <2>3. CASE SeeFull(r)
    BY <2>3 DEF SeeFull, Goto
  <2>4. CASE Drain(r)
    <3>1. Removed \in Frames /\ Remaining \in Seq(Frames)
      BY <2>4, RemoveFront DEF Drain
    <3> QED
      BY <2>4, <3>1 DEF Drain
  <2>5. CASE DrainEnd(r)
    BY <2>5 DEF DrainEnd, Goto
  <2>6. CASE Reject(r)
    BY <2>6 DEF Reject, Goto
  <2>7. CASE Push(r)
    <3>1. Held(r) \in Frames
      BY <2>7 DEF Push, Goto, Held, Frames
    <3>2. sendq' \in Seq(Frames)
      BY <2>7, <3>1 DEF Push
    <3> QED
      BY <2>7, <3>2 DEF Push, Goto
  <2>8. CASE Raise(r)
    <3>1. HighMark \in Nat
      BY DEF HighMark
    <3> QED
      BY <2>8, <3>1 DEF Raise, Goto
  <2> QED
    BY <1>7, <2>1, <2>2, <2>3, <2>4, <2>5, <2>6, <2>7, <2>8
       DEF Producer, AddToQueue
<1>8. CASE UNCHANGED vars
  BY <1>8 DEF vars
<1> QED
  BY <1>1, <1>2, <1>3, <1>4, <1>5, <1>6, <1>7, <1>8 DEF Next, Consumer

\* Every behaviour is type correct.
THEOREM TypeCorrect == Spec => []TypeOK
BY TypeInit, TypeStep, PTL DEF Spec

-----------------------------------------------------------------------------
(* The bound of the queue.  QueueBound is not inductive: nothing in it     *)
(* stops a radar that passed the test from pushing.  Each such radar has a *)
(* place reserved: the frames that wait and the radars about to push one   *)
(* are together within the bound.                                          *)

Pushers == {r \in Radars : ppc[r] = "push"}

Room == Len(sendq) + Cardinality(Pushers)
          <= MaxQSize + Cardinality(Radars) - 1

\* The radars about to push are finitely many.
LEMMA PushersFinite ==
  /\ IsFiniteSet(Pushers)
  /\ Cardinality(Pushers) \in Nat
  /\ Cardinality(Radars) \in Nat \ {0}
<1>1. IsFiniteSet(Pushers)
  BY FS_Subset, QueueAssumption DEF QueueAssumption, Pushers
<1>2. Cardinality(Radars) \in Nat \ {0}
  BY FS_CardinalityType, FS_EmptySet, QueueAssumption DEF QueueAssumption
<1> QED
  BY <1>1, <1>2, FS_CardinalityType

\* A radar that passes the size test takes a place that was free.
LEMMA SeeRoomReserves ==
  ASSUME TypeOK, NEW r \in Radars, SeeRoom(r)
  PROVE  Room'
<1> DEFINE others == Radars \ {r}
<1>1. Pushers' = Pushers \cup {r} /\ r \notin Pushers
  BY DEF SeeRoom, Goto, Pushers, TypeOK
<1>2. Cardinality(Pushers') = Cardinality(Pushers) + 1
  BY <1>1, PushersFinite, FS_AddElement
<1>3. IsFiniteSet(others) /\ Cardinality(others) = Cardinality(Radars) - 1
  BY FS_RemoveElement, QueueAssumption DEF QueueAssumption
<1>4. Cardinality(Pushers) <= Cardinality(Radars) - 1
  BY <1>1, <1>3, FS_Subset DEF Pushers
<1>5. Len(sendq) \in Nat /\ Len(sendq) <= MaxQSize - 1 /\ sendq' = sendq
  BY QueueAssumption DEF QueueAssumption, SeeRoom, HasRoom, TypeOK
<1> QED
  BY <1>2, <1>4, <1>5, PushersFinite, QueueAssumption
     DEF Room, QueueAssumption

\* A push uses the place its radar reserved.
LEMMA PushUsesPlace ==
  ASSUME TypeOK, Room, NEW r \in Radars, Push(r)
  PROVE  Room'
<1>1. Pushers' = Pushers \ {r} /\ r \in Pushers
  BY DEF Push, Goto, Pushers, TypeOK
<1>2. Cardinality(Pushers') = Cardinality(Pushers) - 1
  BY <1>1, PushersFinite, FS_RemoveElement
<1>3. Len(sendq') = Len(sendq) + 1 /\ Len(sendq) \in Nat
  BY DEF Push, TypeOK
<1> QED
  BY <1>2, <1>3, PushersFinite, QueueAssumption DEF Room, QueueAssumption

\* No other step lengthens the queue or makes a radar ready to push.
LEMMA OthersKeepRoom ==
  ASSUME TypeOK, Room, Pushers' = Pushers, sendq' \in {sendq, Remaining},
         sendq = <<>> => sendq' = sendq
  PROVE  Room'
<1>1. Len(sendq) \in Nat /\ Len(sendq') \in Nat /\ Len(sendq') <= Len(sendq)
  BY RemoveFront DEF TypeOK
<1> QED
  BY <1>1, PushersFinite, QueueAssumption DEF Room, QueueAssumption

\* At the start nothing is queued and no radar is about to push.
LEMMA RoomInit == Init => Room
<1> SUFFICES ASSUME Init PROVE Room
  OBVIOUS
<1>1. Pushers = {}
  BY DEF Init, Pushers
<1>2. Len(sendq) = 0 /\ Cardinality(Pushers) = 0
  BY <1>1, FS_EmptySet DEF Init
<1> QED
  BY <1>2, PushersFinite, QueueAssumption DEF Room, QueueAssumption

\* No step takes more than the places left and one per other radar.
LEMMA RoomStep == TypeOK /\ Room /\ [Next]_vars => Room'
<1> SUFFICES ASSUME TypeOK, Room, [Next]_vars PROVE Room'
  OBVIOUS
<1>1. CASE Consumer
  <2>1. Pushers' = Pushers
    BY <1>1 DEF Consumer, Take, TakeNothing, IdlePoll, Filter, Notify,
                FreeList, Pushers
  <2>2. sendq' \in {sendq, Remaining} /\ (sendq = <<>> => sendq' = sendq)
    BY <1>1 DEF Consumer, Take, TakeNothing, IdlePoll, Filter, Notify, FreeList
  <2> QED
    BY <2>1, <2>2, OthersKeepRoom
<1>2. ASSUME NEW r \in Radars, Producer(r) PROVE Room'
  <2>1. CASE SeeRoom(r)
    BY <2>1, SeeRoomReserves
  <2>2. CASE Push(r)
    BY <2>2, PushUsesPlace
  <2>3. CASE Publish(r) \/ SeeFull(r) \/ DrainEnd(r) \/ Reject(r) \/ Raise(r)
    <3>1. Pushers' = Pushers
      BY <2>3 DEF Publish, SeeFull, DrainEnd, Reject, Raise, Goto, Pushers,
                  TypeOK
    <3>2. sendq' = sendq
      BY <2>3 DEF Publish, SeeFull, DrainEnd, Reject, Raise
    <3> QED
      BY <3>1, <3>2, OthersKeepRoom
  <2>4. CASE Drain(r)
    BY <2>4, OthersKeepRoom DEF Drain, Pushers
  <2> QED
    BY <1>2, <2>1, <2>2, <2>3, <2>4 DEF Producer, AddToQueue
<1>3. CASE UNCHANGED vars
  BY <1>3, OthersKeepRoom DEF vars, Pushers
<1> QED
  BY <1>1, <1>2, <1>3 DEF Next

\* However many radars pass the size test of addToQueue together, the queue is
\* never longer than its limit plus the number of the other radars.
THEOREM Bounded == Spec => []QueueBound
<1>1. TypeOK /\ Room => QueueBound
  BY PushersFinite, QueueAssumption
     DEF Room, QueueBound, TypeOK, QueueAssumption
<1> QED
  BY <1>1, TypeInit, TypeStep, RoomInit, RoomStep, PTL DEF Spec

-----------------------------------------------------------------------------
(* The high-water mark.  Its relation to the queue holds whenever qlock is *)
(* free; what the heartbeat reports equals it at all times.                *)

MarkInv ==
  /\ qlock = Free => Len(sendq) <= max
  /\ occQSize # Junk => occQSize = max
  /\ sendq # <<>> => occQSize # Junk

\* At the start the lock is free and the queue empty.
LEMMA MarkInit == Init => MarkInv
BY QueueAssumption DEF Init, MarkInv, QueueAssumption

\* Every step keeps a mark that covers the queue whenever the lock is free.
LEMMA MarkStep == TypeOK /\ MarkInv /\ [Next]_vars => MarkInv'
<1> SUFFICES ASSUME TypeOK, MarkInv, [Next]_vars PROVE MarkInv'
  OBVIOUS
<1>1. ASSUME qlock = Free, sendq # <<>>, sendq' = Remaining,
             UNCHANGED <<qlock, max, occQSize>>
      PROVE  MarkInv'
  <2>1. Len(sendq') = Len(sendq) - 1 /\ Len(sendq) \in Nat
    BY <1>1, RemoveFront DEF TypeOK
  <2> QED
    BY <1>1, <2>1 DEF MarkInv, TypeOK
<1>2. ASSUME UNCHANGED <<sendq, qlock, max, occQSize>> PROVE MarkInv'
  BY <1>2 DEF MarkInv
<1>3. CASE Consumer
  BY <1>1, <1>2, <1>3 DEF Consumer, Take, TakeNothing, IdlePoll, Filter,
                          Notify, FreeList
<1>4. ASSUME NEW r \in Radars, Producer(r) PROVE MarkInv'
  <2>1. CASE Push(r)
    BY <2>1, QueueAssumption DEF Push, MarkInv, TypeOK, QueueAssumption
  <2>2. CASE Raise(r)
    <3>1. Len(sendq) \in Nat /\ HighMark \in Nat /\ Len(sendq) <= HighMark
      BY DEF TypeOK, HighMark
    <3> QED
      BY <2>2, <3>1, QueueAssumption DEF Raise, MarkInv, QueueAssumption
  <2>3. CASE Drain(r)
    BY <1>1, <2>3 DEF Drain
  <2>4. CASE \/ Publish(r) \/ SeeRoom(r) \/ SeeFull(r) \/ DrainEnd(r)
             \/ Reject(r)
    BY <1>2, <2>4 DEF Publish, SeeRoom, SeeFull, DrainEnd, Reject
  <2> QED
    BY <1>4, <2>1, <2>2, <2>3, <2>4 DEF Producer, AddToQueue
<1>5. CASE UNCHANGED vars
  BY <1>2, <1>5 DEF vars
<1> QED
  BY <1>3, <1>4, <1>5 DEF Next

\* Outside addToQueue's locked part the reported mark covers the backlog, and
\* only before the first push is it an uninitialised value.
THEOREM MarkCovers == Spec => []HighWater
<1>1. MarkInv => HighWater
  BY DEF MarkInv, HighWater
<1> QED
  BY <1>1, TypeInit, TypeStep, MarkInit, MarkStep, PTL DEF Spec

-----------------------------------------------------------------------------
(* Overflow.  A radar's frames enter the queue only by its own push, so    *)
(* what its drain loop left empty of them stays so until it publishes.     *)

\* At the start no frame was rejected.
LEMMA ForgetInit == Init => OverflowForgets
BY DEF Init, OverflowForgets

\* No step leaves a frame of a rejected radar in the queue.
LEMMA ForgetStep ==
  TypeOK /\ OverflowForgets /\ [Next]_vars => OverflowForgets'
<1> SUFFICES ASSUME TypeOK, OverflowForgets, [Next]_vars,
                    NEW r \in Radars, ppc'[r] = "reject"
             PROVE  \A f \in Queued' : f[1] # r
  BY DEF OverflowForgets
<1>1. ASSUME ppc[r] = "reject", Queued' \subseteq Queued
      PROVE  \A f \in Queued' : f[1] # r
  BY <1>1 DEF OverflowForgets
<1>2. ASSUME sendq # <<>>, sendq' = Remaining PROVE Queued' \subseteq Queued
  BY <1>2, RemoveFront DEF TypeOK, Queued
<1>3. ASSUME sendq' = sendq PROVE Queued' \subseteq Queued
  BY <1>3 DEF Queued
<1>4. CASE Consumer
  <2>1. ppc' = ppc
    BY <1>4 DEF Consumer, Take, TakeNothing, IdlePoll, Filter, Notify, FreeList
  <2>2. Queued' \subseteq Queued
    BY <1>2, <1>3, <1>4 DEF Consumer, Take, TakeNothing, IdlePoll, Filter,
                            Notify, FreeList
  <2> QED
    BY <1>1, <2>1, <2>2
<1>5. ASSUME NEW q \in Radars, Producer(q)
      PROVE  \A f \in Queued' : f[1] # r
  <2>1. CASE DrainEnd(q)
    <3>1. Queued' = {}
      BY <2>1 DEF DrainEnd, Queued
    <3> QED
      BY <3>1
  <2>2. CASE Push(q)
    <3>1. q # r /\ ppc[r] = "reject"
      BY <2>2 DEF Push, Goto, TypeOK
    <3>2. \A i \in DOMAIN sendq' :
            sendq'[i] = Held(q) \/ (i \in DOMAIN sendq /\ sendq'[i] = sendq[i])
      <4>1. sendq \in Seq(Frames) /\ sendq' = Append(sendq, Held(q))
        BY <2>2 DEF Push, TypeOK
      <4>2. DOMAIN sendq' = 1 .. Len(sendq) + 1 /\ DOMAIN sendq = 1 .. Len(sendq)
        BY <4>1
      <4> QED
        BY <4>1, <4>2
    <3>3. Held(q)[1] = q
      BY DEF Held
    <3> QED
      BY <3>1, <3>2, <3>3 DEF OverflowForgets, Queued
  <2>3. CASE Drain(q)
    BY <1>1, <1>2, <2>3 DEF Drain
  <2>4. CASE \/ Publish(q) \/ SeeRoom(q) \/ SeeFull(q) \/ Reject(q)
             \/ Raise(q)
    <3>1. ppc[r] = "reject"
      BY <2>4 DEF Publish, SeeRoom, SeeFull, Reject, Raise, Goto, TypeOK
    <3>2. sendq' = sendq
      BY <2>4 DEF Publish, SeeRoom, SeeFull, Reject, Raise
    <3> QED
      BY <1>1, <1>3, <3>1, <3>2
  <2> QED
    BY <1>5, <2>1, <2>2, <2>3, <2>4 DEF Producer, AddToQueue
<1>6. CASE UNCHANGED vars
  BY <1>1, <1>3, <1>6 DEF vars
<1> QED
  BY <1>4, <1>5, <1>6 DEF Next

\* A radar whose frame was rejected has none of its earlier frames waiting.
THEOREM RejectedHasNoBacklog == Spec => []OverflowForgets
BY TypeInit, TypeStep, ForgetInit, ForgetStep, PTL DEF Spec

-----------------------------------------------------------------------------
(* The heap blocks.  BlocksAccounted is not inductive: publish deletes the *)
(* item it could not queue and run the list it took, and nothing in it     *)
(* says that these are not also in another thread's hands.  They are not,  *)
(* because a frame is in one place: once in the queue, or with the filter, *)
(* or with its radar, which gives it a number of its own.                  *)

InHandStates == {"check", "drain", "reject", "push"}

OnePlace ==
  /\ \A i, j \in DOMAIN sendq : sendq[i] = sendq[j] => i = j
  /\ \A f \in AtFilter : f \notin Queued
  /\ \A f \in Queued \cup AtFilter : f[2] <= published[f[1]]
  /\ \A r \in Radars :
       ppc[r] \in InHandStates => Held(r) \notin Queued \cup AtFilter
  /\ cpc = "free" => fate[citem] = "notified"

\* At the start there are no frames.
LEMMA PlaceInit == Init => OnePlace
BY DEF Init, OnePlace, Queued, AtFilter, InHandStates

\* What waits when the front was removed is what waited without it, and the
\* front was there once.
LEMMA RestApart ==
  ASSUME TypeOK, OnePlace, sendq # <<>>, sendq' = Remaining
  PROVE  /\ Queued' = Queued \ {Removed}
         /\ Removed \in Queued
         /\ \A i, j \in DOMAIN sendq' : sendq'[i] = sendq'[j] => i = j
<1>1. Len(sendq) \in Nat /\ Len(sendq) >= 1 /\ Removed = sendq[1]
  BY DEF TypeOK, Removed
<1>2. /\ Len(sendq') = Len(sendq) - 1
      /\ \A i \in 1 .. Len(sendq') : sendq'[i] = sendq[i + 1]
      /\ DOMAIN sendq' = 1 .. Len(sendq')
      /\ DOMAIN sendq = 1 .. Len(sendq)
  BY <1>1 DEF Remaining, TypeOK
<1>3. Queued' = {sendq[i] : i \in 2 .. Len(sendq)}
  <2>1. \A i \in 2 .. Len(sendq) : i - 1 \in DOMAIN sendq' /\ sendq'[i - 1] = sendq[i]
    BY <1>1, <1>2
  <2>2. \A i \in DOMAIN sendq' : i + 1 \in 2 .. Len(sendq) /\ sendq'[i] = sendq[i + 1]
    BY <1>1, <1>2
  <2> QED
    BY <2>1, <2>2 DEF Queued
<1>4. Queued = {sendq[1]} \cup {sendq[i] : i \in 2 .. Len(sendq)}
  BY <1>1, <1>2 DEF Queued
<1>5. \A i \in 2 .. Len(sendq) : sendq[i] # sendq[1]
  BY <1>1, <1>2 DEF OnePlace
<1>6. \A i, j \in DOMAIN sendq' : sendq'[i] = sendq'[j] => i = j
  BY <1>1, <1>2 DEF OnePlace
<1> QED
  BY <1>1, <1>3, <1>4, <1>5, <1>6

\* What waits after a push.
LEMMA PushAdds ==
  ASSUME TypeOK, NEW r \in Radars, Push(r)
  PROVE  Queued' = Queued \cup {Held(r)}
<1>1. /\ sendq' = Append(sendq, Held(r)) /\ Len(sendq) \in Nat
      /\ DOMAIN sendq = 1 .. Len(sendq)
      /\ DOMAIN sendq' = 1 .. Len(sendq) + 1
  BY DEF Push, TypeOK
<1>2. /\ \A i \in DOMAIN sendq : sendq'[i] = sendq[i]
      /\ sendq'[Len(sendq) + 1] = Held(r)
  BY <1>1
<1> QED
  BY <1>1, <1>2 DEF Queued

\* The queue is not touched, nor what the filter works on.
LEMMA PlaceKept ==
  ASSUME OnePlace, UNCHANGED <<sendq, citem, published, fate>>,
         AtFilter' = AtFilter, cpc' = "free" => cpc = "free",
         \A r \in Radars : ppc'[r] \in InHandStates => ppc[r] \in InHandStates
  PROVE  OnePlace'
BY DEF OnePlace, Queued, Held

\* A frame that is removed from the queue leaves the others where they are.
LEMMA PlaceRemoved ==
  ASSUME TypeOK, OnePlace, sendq # <<>>, sendq' = Remaining,
         UNCHANGED <<published, ppc>>,
         \/ UNCHANGED <<cpc, citem>> /\ fate' = [fate EXCEPT ![Removed] = "drained"]
         \/ cpc' = "filter" /\ citem' = Removed
  PROVE  OnePlace'
<1>1. /\ Queued' = Queued \ {Removed} /\ Removed \in Queued
      /\ \A i, j \in DOMAIN sendq' : sendq'[i] = sendq'[j] => i = j
  BY RestApart
<1>2. /\ AtFilter' \subseteq AtFilter \cup {Removed}
      /\ \A f \in AtFilter' : f \notin Queued'
  BY <1>1 DEF AtFilter, OnePlace
<1>3. cpc' = "free" => fate'[citem'] = "notified"
  BY <1>1 DEF OnePlace, AtFilter, TypeOK
<1> QED
  BY <1>1, <1>2, <1>3 DEF OnePlace, Held

\* Every step leaves each frame in one place.
LEMMA PlaceStep ==
  TypeOK /\ OverflowForgets /\ OnePlace /\ [Next]_vars => OnePlace'
<1> SUFFICES ASSUME TypeOK, OnePlace, [Next]_vars PROVE OnePlace'
  OBVIOUS
<1>1. CASE Take
  BY <1>1, PlaceRemoved DEF Take, Move
<1>2. CASE TakeNothing \/ IdlePoll \/ Filter
  BY <1>2, PlaceKept DEF TakeNothing, IdlePoll, Filter, Move, AtFilter
<1>3. CASE Notify
  <2>1. citem \in Frames /\ AtFilter' = AtFilter /\ fate'[citem] = "notified"
    BY <1>3 DEF Notify, Move, TypeOK, AtFilter
  <2> QED
    BY <1>3, <2>1 DEF Notify, OnePlace, Queued, Held
<1>4. CASE FreeList
  <2>1. AtFilter' = {} /\ cpc' = "take"
    BY <1>4 DEF FreeList, Move, AtFilter
  <2> QED
    BY <1>4, <2>1 DEF FreeList, OnePlace, Queued, Held
<1>5. ASSUME NEW r \in Radars, Producer(r) PROVE OnePlace'
  <2>1. CASE Publish(r)
    <3>1. /\ published' = [published EXCEPT ![r] = @ + 1]
          /\ ppc' = [ppc EXCEPT ![r] = "check"]
          /\ UNCHANGED <<sendq, cpc, citem, fate>>
      BY <2>1 DEF Publish, Goto
    <3>2. AtFilter' = AtFilter /\ Queued' = Queued
      BY <3>1 DEF AtFilter, Queued
    <3>3. /\ Queued \cup AtFilter \subseteq Frames
          /\ \A f \in Frames : f[1] \in Radars /\ f[2] \in Nat
      BY DEF TypeOK, Queued, AtFilter, Frames
    <3>4. \A q \in Radars : published[q] \in Nat
      BY DEF TypeOK
    <3>5. \A f \in Queued \cup AtFilter : f[2] <= published'[f[1]]
      BY <3>1, <3>3, <3>4 DEF OnePlace, TypeOK
    <3>6. Held(r)' \notin Queued \cup AtFilter
      BY <3>1, <3>4 DEF OnePlace, Held, TypeOK
    <3>7. \A q \in Radars \ {r} : Held(q)' = Held(q) /\ ppc'[q] = ppc[q]
      BY <3>1 DEF Held, TypeOK
    <3> QED
      BY <3>1, <3>2, <3>5, <3>6, <3>7 DEF OnePlace
  <2>2. CASE SeeRoom(r) \/ SeeFull(r) \/ DrainEnd(r) \/ Raise(r)
    BY <2>2, PlaceKept
       DEF SeeRoom, SeeFull, DrainEnd, Raise, Goto, InHandStates, AtFilter,
           TypeOK
  <2>3. CASE Drain(r)
    BY <2>3, PlaceRemoved DEF Drain
  <2>4. CASE Reject(r)
    <3>1. /\ ppc[r] \in InHandStates /\ ppc' = [ppc EXCEPT ![r] = "idle"]
          /\ fate' = [fate EXCEPT ![Held(r)] = "rejected"]
          /\ UNCHANGED <<sendq, published, cpc, citem>>
      BY <2>4 DEF Reject, Goto, InHandStates
    <3>2. cpc = "free" => fate'[citem] = "notified"
      BY <3>1 DEF OnePlace, AtFilter, TypeOK
    <3> QED
      BY <3>1, <3>2
         DEF OnePlace, InHandStates, Queued, AtFilter, Held, TypeOK
  <2>5. CASE Push(r)
    <3>1. /\ ppc[r] = "push" /\ ppc' = [ppc EXCEPT ![r] = "raise"]
          /\ sendq' = Append(sendq, Held(r))
          /\ UNCHANGED <<published, cpc, citem, fate>>
      BY <2>5 DEF Push, Goto
    <3>2. Queued' = Queued \cup {Held(r)} /\ AtFilter' = AtFilter
      BY <2>5, <3>1, PushAdds DEF AtFilter
    <3>3. Held(r) \notin Queued \cup AtFilter
      BY <3>1 DEF OnePlace, InHandStates
    <3>4. \A i, j \in DOMAIN sendq' : sendq'[i] = sendq'[j] => i = j
      <4>1. /\ Len(sendq) \in Nat /\ DOMAIN sendq = 1 .. Len(sendq)
            /\ DOMAIN sendq' = 1 .. Len(sendq) + 1
            /\ \A i \in DOMAIN sendq : sendq'[i] = sendq[i]
            /\ sendq'[Len(sendq) + 1] = Held(r)
        BY <3>1 DEF TypeOK
      <4>2. \A i \in DOMAIN sendq : sendq[i] # Held(r)
        BY <3>3 DEF Queued
      <4> QED
        BY <4>1, <4>2 DEF OnePlace
    <3>5. Held(r)[2] = published[r] /\ Held(r)[1] = r /\ published[r] \in Nat
      BY DEF Held, TypeOK
    <3>6. \A q \in Radars : /\ Held(q)' = Held(q)
                            /\ q # r => Held(q) # Held(r)
                            /\ ppc'[q] \in InHandStates => ppc[q] \in InHandStates /\ q # r
      BY <3>1 DEF Held, TypeOK, InHandStates
    <3> QED
      BY <3>1, <3>2, <3>3, <3>4, <3>5, <3>6 DEF OnePlace
  <2> QED
    BY <1>5, <2>1, <2>2, <2>3, <2>4, <2>5 DEF Producer, AddToQueue
<1>6. CASE UNCHANGED vars
  BY <1>6, PlaceKept DEF vars, AtFilter
<1> QED
  BY <1>1, <1>2, <1>3, <1>4, <1>5, <1>6 DEF Next, Consumer

Dropped == {f \in Frames : fate[f] \in {"drained", "rejected"}}

\* At the start nothing is allocated.
LEMMA BlocksInit == Init => BlocksAccounted
BY DEF Init, BlocksAccounted, InUse, Queued, InHand, AtFilter

\* Nobody allocates, deletes or loses a block.
LEMMA BlocksKept ==
  ASSUME BlocksAccounted, UNCHANGED <<items, lists>>, InUse' \subseteq InUse,
         InUse' \cup Dropped' = InUse \cup Dropped
  PROVE  BlocksAccounted'
BY DEF BlocksAccounted, Dropped

\* Every step allocates and deletes exactly what comes into and goes out of use.
LEMMA BlocksStep ==
  TypeOK /\ OverflowForgets /\ OnePlace /\ BlocksAccounted /\ [Next]_vars
    => BlocksAccounted'
<1> SUFFICES ASSUME TypeOK, OverflowForgets, OnePlace, BlocksAccounted,
                    [Next]_vars
             PROVE  BlocksAccounted'
  OBVIOUS
<1>1. CASE Take
  <2>1. Queued' = Queued \ {Removed} /\ Removed \in Queued
    BY <1>1, RestApart DEF Take
  <2>2. AtFilter = {} /\ AtFilter' = {Removed} /\ InHand' = InHand
    BY <1>1 DEF Take, Move, AtFilter, InHand, Held
  <2> QED
    BY <1>1, <2>1, <2>2, BlocksKept DEF Take, InUse, Dropped
<1>2. CASE TakeNothing \/ IdlePoll \/ Filter \/ UNCHANGED vars
  <2>1. /\ Queued' = Queued /\ InHand' = InHand /\ AtFilter' = AtFilter
        /\ UNCHANGED <<items, lists, fate>>
    BY <1>2 DEF TakeNothing, IdlePoll, Filter, Move, vars, Queued, InHand,
                AtFilter, Held
  <2> QED
    BY <2>1, BlocksKept DEF InUse, Dropped
<1>3. CASE Notify
  <2>1. citem \in Frames /\ AtFilter = {citem}
    BY <1>3 DEF Notify, Move, TypeOK, AtFilter
  <2>2. Queued' = Queued /\ InHand' = InHand /\ AtFilter' = AtFilter
    BY <1>3 DEF Notify, Move, Queued, InHand, AtFilter, Held
  <2>3. Dropped' \cup {citem} = Dropped \cup {citem}
    BY <1>3, <2>1 DEF Notify, Dropped, TypeOK
  <2> QED
    BY <1>3, <2>1, <2>2, <2>3, BlocksKept DEF Notify, InUse
<1>4. CASE FreeList
  <2>1. AtFilter = {citem} /\ AtFilter' = {} /\ citem \in Frames
    BY <1>4 DEF FreeList, Move, AtFilter, TypeOK
  <2>2. Queued' = Queued /\ InHand' = InHand /\ Dropped' = Dropped
    BY <1>4 DEF FreeList, Queued, InHand, Held, Dropped
  <2>3. citem \notin Queued \cup InHand
    BY <2>1 DEF OnePlace, InHand, InHandStates
  <2>4. citem \notin Dropped
    BY <1>4 DEF FreeList, Move, OnePlace, Dropped
  <2>5. lists' = lists \ {citem} /\ items' = items
    BY <1>4 DEF FreeList
  <2> QED
    BY <2>1, <2>2, <2>3, <2>4, <2>5 DEF BlocksAccounted, InUse, Dropped
<1>5. ASSUME NEW r \in Radars, Producer(r) PROVE BlocksAccounted'
  <2>1. CASE Publish(r)
    <3>1. /\ published' = [published EXCEPT ![r] = @ + 1]
          /\ ppc[r] = "idle" /\ ppc' = [ppc EXCEPT ![r] = "check"]
          /\ UNCHANGED <<sendq, cpc, citem, fate>>
          /\ items' = items \cup {<<r, published[r] + 1>>}
          /\ lists' = lists \cup {<<r, published[r] + 1>>}
      BY <2>1 DEF Publish, Goto
    <3>2. Queued' = Queued /\ AtFilter' = AtFilter /\ Dropped' = Dropped
      BY <3>1 DEF Queued, AtFilter, Dropped
    <3>3. InHand' = InHand \cup {<<r, published[r] + 1>>}
      <4>1. Held(r)' = <<r, published[r] + 1>>
        BY <3>1 DEF Held, TypeOK
      <4>2. \A q \in Radars \ {r} : Held(q)' = Held(q) /\ ppc'[q] = ppc[q]
        BY <3>1 DEF Held, TypeOK
      <4>3. ppc'[r] = "check"
        BY <3>1 DEF TypeOK
      <4> QED
        BY <3>1, <4>1, <4>2, <4>3 DEF InHand
    <3> QED
      BY <3>1, <3>2, <3>3 DEF BlocksAccounted, InUse, Dropped
  <2>2. CASE SeeRoom(r) \/ SeeFull(r) \/ DrainEnd(r) \/ Raise(r)
    <3>1. InHand' = InHand
      BY <2>2 DEF SeeRoom, SeeFull, DrainEnd, Raise, Goto, InHand, Held, TypeOK
    <3>2. Queued' = Queued /\ AtFilter' = AtFilter /\ Dropped' = Dropped
      BY <2>2 DEF SeeRoom, SeeFull, DrainEnd, Raise, Queued, AtFilter, Dropped
    <3> QED
      BY <2>2, <3>1, <3>2, BlocksKept
         DEF SeeRoom, SeeFull, DrainEnd, Raise, InUse
  <2>3. CASE Drain(r)
    <3>1. Queued' = Queued \ {Removed} /\ Removed \in Queued
      BY <2>3, RestApart DEF Drain
    <3>2. AtFilter' = AtFilter /\ InHand' = InHand
      BY <2>3 DEF Drain, AtFilter, InHand, Held
    <3>3. Dropped' = Dropped \cup {Removed}
      BY <2>3, RemoveFront DEF Drain, Dropped, TypeOK
    <3> QED
      BY <2>3, <3>1, <3>2, <3>3, BlocksKept DEF Drain, InUse
  <2>4. CASE Reject(r)
    <3>1. /\ ppc[r] = "reject" /\ ppc' = [ppc EXCEPT ![r] = "idle"]
          /\ fate' = [fate EXCEPT ![Held(r)] = "rejected"]
          /\ UNCHANGED <<sendq, published, cpc, citem, lists>>
          /\ items' = items \ {Held(r)}
      BY <2>4 DEF Reject, Goto
    <3>2. Held(r) \in Frames
      BY <3>1 DEF Held, Frames, TypeOK
    <3>3. Queued' = Queued /\ AtFilter' = AtFilter
      BY <3>1 DEF Queued, AtFilter
    <3>4. InHand' = InHand \ {Held(r)} /\ Held(r) \in InHand
      BY <3>1 DEF InHand, Held, TypeOK
    <3>5. Dropped' = Dropped \cup {Held(r)}
      BY <3>1, <3>2 DEF Dropped, TypeOK
    <3>6. Held(r) \notin Queued \cup AtFilter
      BY <3>1 DEF OnePlace, InHandStates
    <3> QED
      BY <3>1, <3>3, <3>4, <3>5, <3>6 DEF BlocksAccounted, InUse, Dropped
  <2>5. CASE Push(r)
    <3>1. Queued' = Queued \cup {Held(r)} /\ AtFilter' = AtFilter
      BY <2>5, PushAdds DEF Push, AtFilter
    <3>2. InHand' \cup {Held(r)} = InHand
      BY <2>5 DEF Push, Goto, InHand, Held, TypeOK
    <3> QED
      BY <2>5, <3>1, <3>2, BlocksKept DEF Push, InUse, Dropped
  <2> QED
    BY <1>5, <2>1, <2>2, <2>3, <2>4, <2>5 DEF Producer, AddToQueue
<1> QED
  BY <1>1, <1>2, <1>3, <1>4, <1>5 DEF Next, Consumer

\* For any number of radars that overrun and drain the queue, no list leaks but
\* those an overflow lost, and no thread holds a pointer to a deleted block.
THEOREM NothingLeaksOrDangles == Spec => []BlocksAccounted
BY TypeInit, TypeStep, ForgetInit, ForgetStep, PlaceInit, PlaceStep, BlocksInit,
   BlocksStep, PTL DEF Spec

-----------------------------------------------------------------------------
(* The path.  A frame is identified by its radar and its number, so the    *)
(* order of a radar's frames can be said of pairs of them, wherever they   *)
(* are: in the first queue, with the filter, or in a message.              *)

\* f comes before g if they are of one radar.
Before(f, g) == f[1] = g[1] => f[2] < g[2]

\* f was published, and was pushed if its radar is at a later frame.
Out(f) ==
  /\ f \in Frames
  /\ f[2] <= published[f[1]]
  /\ ppc[f[1]] \in InHandStates => f[2] < published[f[1]]

\* f was pushed and is before all that wait in the first queue.
Gone(f) == Out(f) /\ \A i \in DOMAIN sendq : Before(f, sendq[i])

QueueInv ==
  /\ \A i \in DOMAIN sendq : Out(sendq[i])
  /\ \A i, j \in DOMAIN sendq : i < j => Before(sendq[i], sendq[j])
  /\ \A f \in InFilter : Gone(f)

\* What a step may do to the first queue.
Kept ==
  /\ UNCHANGED <<sendq, published>>
  /\ \A r \in Radars : ppc'[r] \in InHandStates => ppc[r] \in InHandStates

Shortened == sendq # <<>> /\ sendq' = Remaining /\ UNCHANGED <<published, ppc>>

Numbered(r) ==
  /\ UNCHANGED sendq
  /\ published' = [published EXCEPT ![r] = @ + 1]
  /\ ppc' = [ppc EXCEPT ![r] = "check"]

Lengthened(r) ==
  /\ ppc[r] = "push"
  /\ sendq' = Append(sendq, Held(r))
  /\ ppc' = [ppc EXCEPT ![r] = "raise"]
  /\ UNCHANGED published

\* Every step is one of these, and says what the filter works on.
LEMMA QueueMoves ==
  ASSUME TypeOK, [Next]_vars
  PROVE  \/ Kept /\ (InFilter' = InFilter \/ InFilter' = {})
         \/ /\ Shortened
            /\ \/ InFilter' = InFilter
               \/ InFilter = {} /\ InFilter' = {Removed}
         \/ \E r \in Radars : Numbered(r) /\ InFilter' = InFilter
         \/ \E r \in Radars : Lengthened(r) /\ InFilter' = InFilter
<1>1. CASE Take
  BY <1>1 DEF Take, Move, Shortened, InFilter
<1>2. CASE TakeNothing \/ IdlePoll \/ Filter \/ Notify \/ FreeList
  BY <1>2 DEF TakeNothing, IdlePoll, Filter, Notify, FreeList, Move, Kept,
              InFilter
<1>3. ASSUME NEW r \in Radars, Producer(r)
      PROVE  \/ Kept /\ InFilter' = InFilter
             \/ Shortened /\ InFilter' = InFilter
             \/ Numbered(r) /\ InFilter' = InFilter
             \/ Lengthened(r) /\ InFilter' = InFilter
  <2>1. InFilter' = InFilter
    BY <1>3 DEF Producer, AddToQueue, Publish, SeeRoom, SeeFull, Drain,
                DrainEnd, Reject, Push, Raise, InFilter
  <2>2. CASE Publish(r)
    BY <2>1, <2>2 DEF Publish, Goto, Numbered
  <2>3. CASE Drain(r)
    BY <2>1, <2>3 DEF Drain, Shortened
  <2>4. CASE Push(r)
    BY <2>1, <2>4 DEF Push, Goto, Lengthened
  <2>5. CASE SeeRoom(r) \/ SeeFull(r) \/ DrainEnd(r) \/ Reject(r) \/ Raise(r)
    BY <2>1, <2>5 DEF SeeRoom, SeeFull, DrainEnd, Reject, Raise, Goto, Kept,
                      InHandStates, TypeOK
  <2> QED
    BY <1>3, <2>2, <2>3, <2>4, <2>5 DEF Producer, AddToQueue
<1>4. CASE UNCHANGED vars
  BY <1>4 DEF vars, Kept, InFilter
<1> QED
  BY <1>1, <1>2, <1>3, <1>4 DEF Next, Consumer

\* The places of the queue after these.
LEMMA ShortPlaces ==
  ASSUME TypeOK, Shortened
  PROVE  /\ \A i \in DOMAIN sendq' :
              /\ i \in Nat /\ i > 0
              /\ i + 1 \in DOMAIN sendq /\ sendq'[i] = sendq[i + 1]
         /\ 1 \in DOMAIN sendq /\ Removed = sendq[1]
<1>1. Len(sendq) \in Nat /\ Len(sendq) >= 1 /\ DOMAIN sendq = 1 .. Len(sendq)
  BY DEF TypeOK, Shortened
<1>2. /\ DOMAIN sendq' = 1 .. Len(sendq) - 1
      /\ \A i \in 1 .. Len(sendq) - 1 : sendq'[i] = sendq[i + 1]
  BY <1>1 DEF TypeOK, Shortened, Remaining
<1> QED
  BY <1>1, <1>2 DEF Removed

LEMMA LongPlaces ==
  ASSUME TypeOK, NEW r \in Radars, Lengthened(r)
  PROVE  /\ DOMAIN sendq = 1 .. Len(sendq) /\ Len(sendq) \in Nat
         /\ DOMAIN sendq' = 1 .. Len(sendq) + 1
         /\ \A i \in DOMAIN sendq : sendq'[i] = sendq[i]
         /\ sendq'[Len(sendq) + 1] = Held(r)
         /\ Held(r) \in Frames /\ Held(r)[1] = r /\ Held(r)[2] = published[r]
<1>1. sendq \in Seq(Frames) /\ sendq' = Append(sendq, Held(r))
  BY DEF TypeOK, Lengthened
<1>2. published[r] \in 1 .. MaxFrames
  BY DEF TypeOK, Lengthened
<1>3. Held(r) \in Frames /\ Held(r)[1] = r /\ Held(r)[2] = published[r]
  BY <1>2 DEF Held, Frames
<1> HIDE DEF Held
<1> QED
  BY <1>1, <1>3

\* A frame that is out stays so.
LEMMA OutStays ==
  ASSUME TypeOK, [Next]_vars, NEW f, Out(f)
  PROVE  Out(f)'
<1>1. /\ f \in Frames /\ f[1] \in Radars /\ f[2] \in Nat
      /\ \A r \in Radars : published[r] \in Nat
      /\ ppc \in [Radars -> ProducerStates] /\ DOMAIN published = Radars
  BY DEF Out, Frames, TypeOK
<1>2. CASE Kept \/ Shortened
  BY <1>1, <1>2 DEF Out, Kept, Shortened, Frames
<1>3. ASSUME NEW r \in Radars, Numbered(r)
      PROVE  Out(f)'
  <2>1. CASE f[1] = r
    <3>1. published'[r] = published[r] + 1
      BY <1>1, <1>3 DEF Numbered
    <3> QED
      BY <1>1, <2>1, <3>1 DEF Out, Frames
  <2>2. CASE f[1] # r
    BY <1>1, <1>3, <2>2 DEF Out, Numbered, Frames
  <2> QED
    BY <2>1, <2>2
<1>4. ASSUME NEW r \in Radars, Lengthened(r)
      PROVE  Out(f)'
  <2>1. ppc'[f[1]] \in InHandStates => ppc[f[1]] \in InHandStates
    BY <1>1, <1>4 DEF Lengthened, InHandStates
  <2> QED
    BY <1>4, <2>1 DEF Out, Lengthened, Frames
<1> QED
  BY <1>2, <1>3, <1>4, QueueMoves

\* A frame that is gone stays so.
LEMMA GoneStays ==
  ASSUME TypeOK, [Next]_vars, NEW f, Gone(f)
  PROVE  Gone(f)'
<1>1. Out(f)'
  BY OutStays DEF Gone
<1>2. CASE Kept
  BY <1>1, <1>2 DEF Gone, Kept, Before
<1>3. CASE Shortened
  BY <1>1, <1>3, ShortPlaces DEF Gone, Before
<1>4. ASSUME NEW r \in Radars, Numbered(r) PROVE Gone(f)'
  BY <1>1, <1>4 DEF Gone, Numbered, Before
<1>5. ASSUME NEW r \in Radars, Lengthened(r) PROVE Gone(f)'
  <2>1. Before(f, Held(r))
    <3>1. /\ ppc[r] \in InHandStates
          /\ Held(r)[1] = r /\ Held(r)[2] = published[r]
      BY <1>5, LongPlaces DEF Lengthened, InHandStates
    <3>2. f[1] = r => f[2] < published[r]
      BY <3>1 DEF Gone, Out
    <3> QED
      BY <3>1, <3>2 DEF Before
  <2>2. \A i \in DOMAIN sendq' : Before(f, sendq'[i])
    BY <1>5, <2>1, LongPlaces DEF Gone
  <2> QED
    BY <1>1, <2>2 DEF Gone, Before
<1> QED
  BY <1>2, <1>3, <1>4, <1>5, QueueMoves

LEMMA QueueInit == Init => QueueInv
BY DEF Init, QueueInv, InFilter

LEMMA QueueStep == TypeOK /\ QueueInv /\ [Next]_vars => QueueInv'
<1> SUFFICES ASSUME TypeOK, QueueInv, [Next]_vars PROVE QueueInv'
  OBVIOUS
<1>1. ASSUME NEW f, Out(f) PROVE Out(f)'
  BY <1>1, OutStays
<1>2. ASSUME NEW f, Gone(f) PROVE Gone(f)'
  BY <1>2, GoneStays
<1>3. CASE sendq' = sendq /\ (InFilter' = InFilter \/ InFilter' = {})
  <2>1. ASSUME NEW i \in DOMAIN sendq, NEW f, f = sendq[i] PROVE Out(f)'
    BY <1>1, <2>1 DEF QueueInv
  <2>2. \A i \in DOMAIN sendq' : Out(sendq[i])'
    BY <1>3, <2>1 DEF Out
  <2>3. ASSUME NEW f \in InFilter' PROVE Gone(f)'
    BY <1>2, <1>3 DEF QueueInv
  <2> QED
    BY <1>3, <2>2, <2>3 DEF QueueInv, Before
<1>4. CASE Shortened /\ (InFilter' = InFilter \/ InFilter' = {Removed})
  <2>1. ASSUME NEW i \in DOMAIN sendq', NEW f, f = sendq'[i] PROVE Out(f)'
    BY <1>1, <1>4, <2>1, ShortPlaces DEF QueueInv
  <2>2. \A i \in DOMAIN sendq' : Out(sendq[i])'
    BY <2>1 DEF Out
  <2>3. \A i, j \in DOMAIN sendq' : i < j => Before(sendq'[i], sendq'[j])
    BY <1>4, ShortPlaces DEF QueueInv
  <2>4. ASSUME NEW f, f = Removed PROVE Gone(f)'
    <3>1. Out(f)'
      BY <1>1, <1>4, <2>4, ShortPlaces DEF QueueInv
    <3>2. \A i \in DOMAIN sendq' : Before(f, sendq'[i])
      BY <1>4, <2>4, ShortPlaces DEF QueueInv
    <3> QED
      BY <3>1, <3>2 DEF Gone, Before
  <2>5. ASSUME NEW f \in InFilter' PROVE Gone(f)'
    BY <1>2, <1>4, <2>4 DEF QueueInv
  <2> QED
    BY <2>2, <2>3, <2>5 DEF QueueInv, Before
<1>5. ASSUME NEW r \in Radars, Lengthened(r), InFilter' = InFilter
      PROVE  QueueInv'
  <2> DEFINE n == Len(sendq) + 1
  <2>1. /\ n \in Nat /\ DOMAIN sendq' = 1 .. n
        /\ \A i \in 1 .. n : i = n \/ i \in DOMAIN sendq
        /\ \A i \in DOMAIN sendq : sendq'[i] = sendq[i] /\ i < n
        /\ sendq'[n] = Held(r)
        /\ Held(r) \in Frames /\ Held(r)[1] = r /\ Held(r)[2] = published[r]
    BY <1>5, LongPlaces
  <2> HIDE DEF n
  <2>2. ASSUME NEW f, f = Held(r) PROVE Out(f)'
    <3>1. published'[r] = published[r] /\ published[r] \in Nat
      BY <1>5 DEF Lengthened, TypeOK
    <3>2. ppc'[r] = "raise"
      BY <1>5 DEF Lengthened, TypeOK
    <3> QED
      BY <2>1, <2>2, <3>1, <3>2 DEF Out, InHandStates, Frames
  <2>3. ASSUME NEW i \in DOMAIN sendq', NEW f, f = sendq'[i] PROVE Out(f)'
    BY <1>1, <2>1, <2>2, <2>3 DEF QueueInv
  <2>4. \A i \in DOMAIN sendq' : Out(sendq[i])'
    BY <2>3 DEF Out
  <2>5. ASSUME NEW f, Out(f) PROVE Before(f, Held(r))
    <3>1. ppc[r] \in InHandStates
      BY <1>5 DEF Lengthened, InHandStates
    <3> QED
      BY <2>1, <2>5, <3>1 DEF Out, Before
  <2>6. \A i, j \in DOMAIN sendq' : i < j => Before(sendq'[i], sendq'[j])
    <3>1. \A i \in DOMAIN sendq : Before(sendq[i], Held(r))
      BY <2>5 DEF QueueInv
    <3> QED
      BY <2>1, <3>1 DEF QueueInv
  <2>7. ASSUME NEW f \in InFilter' PROVE Gone(f)'
    BY <1>2, <1>5 DEF QueueInv
  <2> QED
    BY <2>4, <2>6, <2>7 DEF QueueInv, Before
<1> QED
  BY <1>3, <1>4, <1>5, QueueMoves DEF Kept, Numbered

-----------------------------------------------------------------------------
(* The client's queue, as far as the path goes: its messages are numbers,  *)
(* and ascend from the one being sent to the one being added.              *)

LEMMA FramesCounted == Cardinality(Frames) \in Nat
<1>1. IsFiniteSet(Radars)
  BY QueueAssumption DEF QueueAssumption
<1>2. IsFiniteSet(1 .. MaxFrames)
  BY FS_Interval, QueueAssumption DEF QueueAssumption
<1>3. IsFiniteSet(Frames)
  BY <1>1, <1>2, FS_Product DEF Frames
<1> QED
  BY <1>3, FS_CardinalityType

Sending == prpc = "send"

\* The message m that waits is after the one sent and before the one added.
InLine(m) ==
  /\ m <= pmade
  /\ ~FilterReturned => m < pmade
  /\ Sending => pitem < m

ClientInv ==
  /\ psendq \in Seq(Nat) /\ pitem \in Nat
  /\ pmade \in Nat /\ pmade <= Cardinality(Frames)
  /\ ~FilterReturned => pmade > 0
  /\ pppc \in [Client!Producers -> Client!Places]
  /\ pfate \in [1 .. Cardinality(Frames) -> Client!Fates]
  /\ \A i \in DOMAIN psendq : psendq[i] # 0 => InLine(psendq[i])
  /\ \A i, j \in DOMAIN psendq :
       i < j /\ psendq[i] # 0 /\ psendq[j] # 0 => psendq[i] < psendq[j]
  /\ Sending => pitem <= pmade /\ (~FilterReturned => pitem < pmade)
  /\ \A m \in 1 .. Cardinality(Frames) :
       pfate[m] = "sent" => m <= pmade /\ m \notin Carried

\* What a step may do to the client's messages.
Idles ==
  /\ UNCHANGED <<psendq, pmade, pfate, pitem>>
  /\ FilterReturned' = FilterReturned /\ Sending' = Sending

Adds(m) ==
  /\ psendq' = Append(psendq, m)
  /\ \/ m = Client!Beat /\ FilterReturned' = FilterReturned
     \/ m = pmade /\ ~FilterReturned /\ FilterReturned'
  /\ Sending' = Sending
  /\ UNCHANGED <<pmade, pfate, pitem>>

Trims ==
  /\ psendq # <<>> /\ psendq' = Tail(psendq)
  /\ pfate' = IF Head(psendq) = Client!Beat THEN pfate
              ELSE [pfate EXCEPT ![Head(psendq)] = "trimmed"]
  /\ FilterReturned' = FilterReturned /\ Sending' = Sending
  /\ UNCHANGED <<pmade, pitem>>

Fetches ==
  /\ psendq # <<>> /\ psendq' = Tail(psendq)
  /\ ~Sending /\ Sending' /\ pitem' = Head(psendq)
  /\ FilterReturned' = FilterReturned
  /\ UNCHANGED <<pmade, pfate>>

Finishes(f) ==
  /\ Sending /\ ~Sending'
  /\ pfate' = IF pitem = Client!Beat THEN pfate ELSE [pfate EXCEPT ![pitem] = f]
  /\ FilterReturned' = FilterReturned
  /\ UNCHANGED <<psendq, pmade, pitem>>

ClientMove == \/ Idles \/ Adds(Client!Beat) \/ Adds(pmade) \/ Trims \/ Fetches
              \/ Finishes("sent") \/ Finishes("failed")

\* Between the size test and the push a producer only keeps the statistics.
LEMMA NoteMoves ==
  ASSUME NEW p \in Client!Producers, Client!Note(p)
  PROVE  /\ UNCHANGED <<psendq, pmade, pfate, pitem, prpc>>
         /\ pppc[p] \in Client!Noting
         /\ \E to \in Client!Places \ {"idle"} : pppc' = [pppc EXCEPT ![p] = to]
<1>1. pppc[p] \in Client!Noting
  BY DEF Client!Note, Client!SetLimit, Client!LoadMax, Client!SetSize,
    Client!NotAbove, Client!Above, Client!Raise, Client!ReloadMax,
    Client!ResetFigure, Client!Goto, Client!Noting
<1>2. /\ UNCHANGED <<psendq, pmade, pfate, pitem, prpc>>
      /\ \E to \in {"load", "note", "compare", "push", "raise", "reload",
                    "renote"} : pppc' = [pppc EXCEPT ![p] = to]
  BY DEF Client!Note, Client!SetLimit, Client!LoadMax, Client!SetSize,
    Client!NotAbove, Client!Above, Client!Raise, Client!ReloadMax,
    Client!ResetFigure, Client!Goto, Client!runVars
<1> QED
  BY <1>1, <1>2 DEF Client!Places, Client!Noting

\* Every step of the client's threads is one of these.
LEMMA ClientMoves ==
  ASSUME ClientInv, Client!Run \/ \E p \in Client!Producers : Client!AddToQueue(p)
  PROVE  ClientMove
<1>1. CASE Client!Spin \/ Client!SpinEnd \/ Client!Drained \/ Client!NotDue
           \/ Client!Compose \/ Client!ResetSize \/ Client!BeatQueued
  <2>1. Idles
    BY <1>1 DEF Client!Spin, Client!SpinEnd, Client!Drained, Client!NotDue,
                Client!Compose, Client!ResetSize, Client!BeatQueued, Client!Move,
                Client!queueVars, Idles, FilterReturned, Sending
  <2> QED
    BY <2>1 DEF ClientMove
<1>2. CASE Client!ResetMax
  <2>1. Idles
    BY <1>2 DEF Client!ResetMax, Client!Move, Idles, FilterReturned, Sending,
                ClientInv, Client!Producers
  <2> QED
    BY <2>1 DEF ClientMove
<1>3. CASE Client!TakeItem
  <2>1. Fetches
    BY <1>3 DEF Client!TakeItem, Client!Move, Client!Removed, Client!Remaining,
                Fetches, FilterReturned, Sending
  <2> QED
    BY <2>1 DEF ClientMove
<1>4. CASE Client!Send
  <2>1. Finishes("sent") \/ Finishes("failed")
    BY <1>4 DEF Client!Send, Client!Move, Client!Fate, Client!queueVars,
                Finishes, FilterReturned, Sending
  <2> QED
    BY <2>1 DEF ClientMove
<1>5. ASSUME NEW p \in Client!Producers, Client!AddToQueue(p)
      PROVE  ClientMove
  <2>1. /\ DOMAIN pppc = {"occ", "pub"} /\ p \in {"occ", "pub"}
        /\ pppc = [q \in {"occ", "pub"} |-> pppc[q]]
    BY DEF ClientInv, Client!Producers
  <2>2. CASE Client!Push(p)
    <3>1. CASE p = "occ"
      <4>1. Adds(pmade)
        BY <2>1, <2>2, <3>1
           DEF Client!Push, Client!Goto, Client!Pushed, Client!Adding,
               Client!runVars, Adds, FilterReturned, Sending
      <4> QED
        BY <4>1 DEF ClientMove
    <3>2. CASE p = "pub"
      <4>1. Adds(Client!Beat)
        BY <2>1, <2>2, <3>2
           DEF Client!Push, Client!Goto, Client!Pushed, Client!Adding,
               Client!runVars, Adds, FilterReturned, Sending
      <4> QED
        BY <4>1 DEF ClientMove
    <3> QED
      BY <2>1, <3>1, <3>2
  <2>3. CASE Client!Trim(p)
    <3>1. CASE psendq = <<>>
      <4>1. Idles
        BY <2>3, <3>1 DEF Client!Trim, Client!runVars, Idles, FilterReturned,
                          Sending
      <4> QED
        BY <4>1 DEF ClientMove
    <3>2. CASE psendq # <<>>
      <4>1. Trims
        BY <2>3, <3>2 DEF Client!Trim, Client!runVars, Client!Removed,
                          Client!Remaining, Client!Fate, Trims, FilterReturned,
                          Sending
      <4> QED
        BY <4>1 DEF ClientMove
    <3> QED
      BY <3>1, <3>2
  <2>4. CASE \/ Client!SeeRoom(p) \/ Client!SeeFull(p) \/ Client!TrimEnd(p)
             \/ Client!Note(p)
    <3>1. /\ UNCHANGED <<psendq, pmade, pfate, pitem, prpc>>
          /\ \E from, to \in Client!Places \ {"idle"} :
               pppc[p] = from /\ pppc' = [pppc EXCEPT ![p] = to]
      <4>1. CASE Client!Note(p)
        BY <4>1, NoteMoves DEF Client!Places, Client!Noting
      <4>2. CASE Client!SeeRoom(p) \/ Client!SeeFull(p) \/ Client!TrimEnd(p)
        BY <4>2 DEF Client!SeeRoom, Client!SeeFull, Client!TrimEnd, Client!Goto,
                    Client!runVars, Client!Places, Client!Noting
      <4> QED
        BY <2>4, <4>1, <4>2
    <3>2. (pppc'["occ"] = "idle") = (pppc["occ"] = "idle")
      BY <2>1, <3>1
    <3>3. Idles
      BY <3>1, <3>2 DEF Idles, FilterReturned, Sending
    <3> QED
      BY <3>3 DEF ClientMove
  <2> QED
    BY <1>5, <2>2, <2>3, <2>4 DEF Client!AddToQueue
<1> QED
  BY <1>1, <1>2, <1>3, <1>4, <1>5 DEF Client!Run

\* The messages that are on the way, one by one.
Waits(m) == \E i \in DOMAIN psendq : psendq[i] = m

LEMMA CarriedIs ==
  /\ \A m : m \in Carried <=> /\ m # 0
                              /\ \/ Waits(m)
                                 \/ ~FilterReturned /\ m = pmade
                                 \/ Sending /\ m = pitem
  /\ \A m : m \in Carried' <=> /\ m # 0
                                 /\ \/ Waits(m)'
                                    \/ ~FilterReturned' /\ m = pmade'
                                    \/ Sending' /\ m = pitem'
BY DEF Carried, Client!Queued, Client!Beat, Waits, Sending

\* The places of the client's queue after the first was removed, and after
\* one was added.
LEMMA TailPlaces ==
  ASSUME psendq \in Seq(Nat), psendq # <<>>, psendq' = Tail(psendq)
  PROVE  /\ psendq' \in Seq(Nat)
         /\ \A i \in DOMAIN psendq' :
              /\ i \in Nat /\ i > 0
              /\ i + 1 \in DOMAIN psendq /\ psendq'[i] = psendq[i + 1]
         /\ \A i \in DOMAIN psendq :
              i # 1 => /\ i \in Nat /\ i > 1 /\ i - 1 \in DOMAIN psendq'
                       /\ psendq'[i - 1] = psendq[i]
         /\ 1 \in DOMAIN psendq /\ Head(psendq) = psendq[1]
         /\ psendq[1] \in Nat
<1>1. Len(psendq) \in Nat /\ Len(psendq) >= 1
      /\ DOMAIN psendq = 1 .. Len(psendq)
  OBVIOUS
<1>2. /\ psendq' \in Seq(Nat) /\ DOMAIN psendq' = 1 .. Len(psendq) - 1
      /\ \A i \in 1 .. Len(psendq) - 1 : psendq'[i] = psendq[i + 1]
  BY <1>1
<1> QED
  BY <1>1, <1>2

LEMMA AppendPlaces ==
  ASSUME psendq \in Seq(Nat), NEW m \in Nat, psendq' = Append(psendq, m)
  PROVE  /\ psendq' \in Seq(Nat)
         /\ \E n \in Nat :
              /\ n > 0 /\ DOMAIN psendq' = 1 .. n /\ psendq'[n] = m
              /\ \A i \in DOMAIN psendq :
                   i \in 1 .. n /\ i < n /\ psendq'[i] = psendq[i]
              /\ \A i \in 1 .. n : i = n \/ i \in DOMAIN psendq
<1>1. /\ Len(psendq) \in Nat /\ DOMAIN psendq = 1 .. Len(psendq)
      /\ psendq' \in Seq(Nat) /\ DOMAIN psendq' = 1 .. Len(psendq) + 1
      /\ psendq'[Len(psendq) + 1] = m
      /\ \A i \in DOMAIN psendq : psendq'[i] = psendq[i]
  OBVIOUS
<1> QED
  BY <1>1

\* The message at the front is not behind it as well, nor in other hands.
LEMMA FrontOnce ==
  ASSUME ClientInv, psendq # <<>>, psendq' = Tail(psendq)
  PROVE  LET h == Head(psendq)
         IN  h # 0 => /\ \A m : Waits(m)' <=> Waits(m) /\ m # h
                      /\ InLine(h)
<1>1. psendq \in Seq(Nat)
  BY DEF ClientInv
<1>2. ASSUME psendq[1] # 0
      PROVE  /\ \A i \in DOMAIN psendq : i # 1 => psendq[i] # psendq[1]
             /\ InLine(psendq[1])
  <2>1. \A i \in DOMAIN psendq : i # 1 /\ psendq[i] # 0 => psendq[1] < psendq[i]
    BY <1>1, <1>2, TailPlaces DEF ClientInv
  <2>2. InLine(psendq[1])
    BY <1>1, <1>2, TailPlaces DEF ClientInv
  <2>3. \A i \in DOMAIN psendq : psendq[i] \in Nat
    BY <1>1
  <2> QED
    BY <1>2, <2>1, <2>2, <2>3, <1>1, TailPlaces
<1>3. ASSUME psendq[1] # 0, NEW m
      PROVE  Waits(m)' <=> Waits(m) /\ m # psendq[1]
  <2>1. ASSUME NEW i \in DOMAIN psendq', psendq'[i] = m
        PROVE  Waits(m) /\ m # psendq[1]
    BY <1>1, <1>2, <1>3, <2>1, TailPlaces DEF Waits
  <2>2. ASSUME NEW i \in DOMAIN psendq, psendq[i] = m, m # psendq[1]
        PROVE  \E j \in DOMAIN psendq' : psendq'[j] = m
    BY <1>1, <2>2, TailPlaces
  <2> QED
    BY <2>1, <2>2 DEF Waits
<1> QED
  BY <1>1, <1>2, <1>3, TailPlaces

\* A beat at the front is no message.
LEMMA FrontBeat ==
  ASSUME ClientInv, psendq # <<>>, psendq' = Tail(psendq), Head(psendq) = 0
  PROVE  \A m : m # 0 => (Waits(m)' <=> Waits(m))
<1>1. psendq \in Seq(Nat)
  BY DEF ClientInv
<1>2. ASSUME NEW m, m # 0
      PROVE  Waits(m)' <=> Waits(m)
  <2>1. ASSUME NEW i \in DOMAIN psendq', psendq'[i] = m
        PROVE  Waits(m)
    BY <1>1, <2>1, TailPlaces DEF Waits
  <2>2. ASSUME NEW i \in DOMAIN psendq, psendq[i] = m
        PROVE  \E j \in DOMAIN psendq' : psendq'[j] = m
    BY <1>1, <1>2, <2>2, TailPlaces
  <2> QED
    BY <2>1, <2>2 DEF Waits
<1> QED
  BY <1>2

\* What a step does to the messages on the way.
LEMMA CarriedMoves ==
  ASSUME ClientInv, ClientMove
  PROVE  /\ Idles \/ Adds(Client!Beat) \/ Adds(pmade) \/ Fetches =>
              Carried' = Carried
         /\ Trims => Carried' = Carried \ {Head(psendq)}
         /\ Finishes("sent") \/ Finishes("failed") =>
              Carried' = Carried \ {pitem}
<1>1. psendq \in Seq(Nat) /\ pmade \in Nat
  BY DEF ClientInv
<1>2. ASSUME Idles
      PROVE  Carried' = Carried
  <2>1. \A k : Waits(k)' <=> Waits(k)
    BY <1>2 DEF Waits, Idles
  <2>2. \A k : k \in Carried' <=> k \in Carried
    BY <1>2, <2>1, CarriedIs DEF Idles
  <2> QED
    BY <2>2
<1>3. ASSUME NEW m \in Nat, Adds(m)
      PROVE  Carried' = Carried
  <2>1. PICK n \in Nat :
          /\ n > 0 /\ DOMAIN psendq' = 1 .. n /\ psendq'[n] = m
          /\ \A i \in DOMAIN psendq :
               i \in 1 .. n /\ i < n /\ psendq'[i] = psendq[i]
          /\ \A i \in 1 .. n : i = n \/ i \in DOMAIN psendq
    BY <1>1, <1>3, AppendPlaces DEF Adds
  <2>2. \A k : Waits(k)' <=> Waits(k) \/ k = m
    BY <2>1 DEF Waits
  <2>3. /\ pmade' = pmade /\ pitem' = pitem /\ Sending' = Sending
        /\ \/ m = 0 /\ FilterReturned' = FilterReturned
           \/ m = pmade /\ ~FilterReturned /\ FilterReturned'
    BY <1>3 DEF Adds, Client!Beat
  <2>4. \A k : k \in Carried' <=> k \in Carried
    BY <2>2, <2>3, CarriedIs
  <2> QED
    BY <2>4
<1>4. ASSUME Fetches
      PROVE  Carried' = Carried
  <2>1. /\ psendq # <<>> /\ psendq' = Tail(psendq)
        /\ ~Sending /\ Sending' /\ pitem' = Head(psendq)
        /\ FilterReturned' = FilterReturned /\ pmade' = pmade
    BY <1>4 DEF Fetches
  <2>2. Waits(Head(psendq))
    BY <1>1, <2>1, TailPlaces DEF Waits
  <2>3. \A k : k # 0 => (Waits(k) <=> Waits(k)' \/ k = Head(psendq))
    BY <2>1, <2>2, FrontOnce, FrontBeat
  <2>4. \A k : k \in Carried' <=> k \in Carried
    BY <2>1, <2>3, CarriedIs
  <2> QED
    BY <2>4
<1>5. ASSUME Trims
      PROVE  Carried' = Carried \ {Head(psendq)}
  <2>1. /\ psendq # <<>> /\ psendq' = Tail(psendq)
        /\ Sending' = Sending /\ pitem' = pitem
        /\ FilterReturned' = FilterReturned /\ pmade' = pmade
    BY <1>5 DEF Trims
  <2>2. \A k : k # 0 => (Waits(k)' <=> Waits(k) /\ k # Head(psendq))
    BY <2>1, FrontOnce, FrontBeat
  <2>3. Head(psendq) # 0 => /\ ~FilterReturned => Head(psendq) # pmade
                            /\ Sending => Head(psendq) # pitem
    BY <1>1, <2>1, FrontOnce, TailPlaces DEF InLine, ClientInv
  <2>4. \A k : k \in Carried' <=> k \in Carried /\ k # Head(psendq)
    BY <2>1, <2>2, <2>3, CarriedIs
  <2> QED
    BY <2>4
<1>6. ASSUME NEW f, Finishes(f)
      PROVE  Carried' = Carried \ {pitem}
  <2>1. /\ Sending /\ ~Sending' /\ psendq' = psendq
        /\ FilterReturned' = FilterReturned /\ pmade' = pmade
    BY <1>6 DEF Finishes
  <2>2. \A k : Waits(k)' <=> Waits(k)
    BY <2>1 DEF Waits
  <2>3. pitem # 0 => /\ ~Waits(pitem)
                     /\ ~FilterReturned => pitem # pmade
    BY <1>1, <2>1 DEF ClientInv, InLine, Waits
  <2>4. \A k : k \in Carried' <=> k \in Carried /\ k # pitem
    BY <2>1, <2>2, <2>3, CarriedIs
  <2> QED
    BY <2>4
<1> QED
  BY <1>1, <1>2, <1>3, <1>4, <1>5, <1>6 DEF Client!Beat

LEMMA ClientInit == Client!Init => ClientInv
<1> SUFFICES ASSUME Client!Init PROVE ClientInv
  OBVIOUS
<1>1. /\ psendq = <<>> /\ pmade = 0 /\ prpc = "spin" /\ pitem = 0
      /\ pppc = [p \in Client!Producers |-> "idle"]
      /\ pfate = [m \in 1 .. Cardinality(Frames) |-> "none"]
  BY DEF Client!Init, Client!Beat
<1>2. FilterReturned /\ ~Sending
  BY <1>1 DEF FilterReturned, Sending, Client!Producers
<1> QED
  BY <1>1, <1>2, FramesCounted DEF ClientInv, Client!Fates, Client!Places

\* No move of the client disturbs the order of its messages.
LEMMA ClientMoveStep ==
  ASSUME ClientInv, ClientMove,
         pppc' \in [Client!Producers -> Client!Places]
  PROVE  ClientInv'
<1>1. /\ psendq \in Seq(Nat) /\ pmade \in Nat /\ pitem \in Nat
      /\ pmade <= Cardinality(Frames) /\ Cardinality(Frames) \in Nat
      /\ ~FilterReturned => pmade > 0
      /\ pfate \in [1 .. Cardinality(Frames) -> Client!Fates]
      /\ \A i \in DOMAIN psendq : psendq[i] \in Nat
  BY FramesCounted DEF ClientInv
<1>2. /\ \A i \in DOMAIN psendq : psendq[i] # 0 => InLine(psendq[i])
      /\ \A i, j \in DOMAIN psendq :
           i < j /\ psendq[i] # 0 /\ psendq[j] # 0 => psendq[i] < psendq[j]
      /\ Sending => pitem <= pmade /\ (~FilterReturned => pitem < pmade)
      /\ \A m \in 1 .. Cardinality(Frames) :
           pfate[m] = "sent" => m <= pmade /\ m \notin Carried
  BY DEF ClientInv
<1>3. /\ pmade' = pmade
      /\ ~FilterReturned' => ~FilterReturned
  BY DEF ClientMove, Idles, Adds, Trims, Fetches, Finishes
<1>4. pfate' \in [1 .. Cardinality(Frames) -> Client!Fates]
  BY <1>1 DEF ClientMove, Idles, Adds, Trims, Fetches, Finishes, Client!Fates
<1>5. \A m \in 1 .. Cardinality(Frames) :
        pfate'[m] = "sent" => m <= pmade /\ m \notin Carried'
  <2>1. \A m : m \in Carried' => m \in Carried
    BY CarriedMoves DEF ClientMove
  <2>2. ASSUME Finishes("sent"), NEW m \in 1 .. Cardinality(Frames),
               pfate'[m] = "sent"
        PROVE  m <= pmade /\ m \notin Carried'
    <3>1. CASE m = pitem
      BY <1>2, <2>2, <3>1, CarriedMoves DEF Finishes
    <3>2. CASE m # pitem
      <4>1. pfate[m] = "sent"
        BY <1>1, <2>2, <3>2 DEF Finishes
      <4> QED
        BY <1>2, <2>1, <4>1
    <3> QED
      BY <3>1, <3>2
  <2>3. ASSUME ~Finishes("sent"), NEW m \in 1 .. Cardinality(Frames),
               pfate'[m] = "sent"
        PROVE  m <= pmade /\ m \notin Carried'
    <3>1. pfate[m] = "sent"
      BY <1>1, <2>3 DEF ClientMove, Idles, Adds, Trims, Fetches, Finishes
    <3> QED
      BY <1>2, <2>1, <3>1
  <2> QED
    BY <2>2, <2>3
<1>6. CASE Idles \/ Finishes("sent") \/ Finishes("failed")
  <2>1. /\ psendq' = psendq /\ pitem' = pitem
        /\ Sending' => Sending
        /\ FilterReturned' = FilterReturned
    BY <1>6 DEF Idles, Finishes
  <2>2. \A i \in DOMAIN psendq : psendq[i] # 0 => InLine(psendq[i])'
    BY <1>2, <1>3, <2>1 DEF InLine
  <2> QED
    BY <1>1, <1>2, <1>3, <1>4, <1>5, <2>1, <2>2 DEF ClientInv, InLine
<1>7. ASSUME NEW m \in Nat, Adds(m), m = 0 \/ m = pmade
      PROVE  ClientInv'
  <2>1. PICK n \in Nat :
          /\ n > 0 /\ DOMAIN psendq' = 1 .. n /\ psendq'[n] = m
          /\ \A i \in DOMAIN psendq :
               i \in 1 .. n /\ i < n /\ psendq'[i] = psendq[i]
          /\ \A i \in 1 .. n : i = n \/ i \in DOMAIN psendq
    BY <1>1, <1>7, AppendPlaces DEF Adds
  <2>2. /\ pitem' = pitem /\ Sending' = Sending /\ psendq' \in Seq(Nat)
        /\ m # 0 => m = pmade /\ ~FilterReturned /\ FilterReturned'
    BY <1>1, <1>7 DEF Adds, Client!Beat
  <2>3. m # 0 => /\ \A i \in DOMAIN psendq : psendq[i] # 0 => psendq[i] < m
                 /\ Sending => pitem < m
    BY <1>2, <2>2 DEF InLine
  <2>4. \A i \in DOMAIN psendq' : psendq'[i] # 0 =>
             /\ psendq'[i] <= pmade
             /\ ~FilterReturned' => psendq'[i] < pmade
             /\ Sending' => pitem < psendq'[i]
    BY <1>1, <1>2, <1>3, <2>1, <2>2, <2>3 DEF InLine
  <2>5. \A i, j \in DOMAIN psendq' :
          i < j /\ psendq'[i] # 0 /\ psendq'[j] # 0 => psendq'[i] < psendq'[j]
    BY <1>2, <2>1, <2>3
  <2> QED
    BY <1>1, <1>2, <1>3, <1>4, <1>5, <2>2, <2>4, <2>5 DEF ClientInv, InLine
<1>8. CASE Trims \/ Fetches
  <2>1. /\ psendq # <<>> /\ psendq' = Tail(psendq)
        /\ FilterReturned' = FilterReturned
        /\ \/ Sending' = Sending /\ pitem' = pitem
           \/ ~Sending /\ Sending' /\ pitem' = Head(psendq)
    BY <1>8 DEF Trims, Fetches
  <2>2. /\ psendq' \in Seq(Nat)
        /\ \A i \in DOMAIN psendq' :
              /\ i \in Nat /\ i > 0
              /\ i + 1 \in DOMAIN psendq /\ psendq'[i] = psendq[i + 1]
        /\ 1 \in DOMAIN psendq /\ Head(psendq) = psendq[1]
        /\ Head(psendq) \in Nat
    BY <1>1, <2>1, TailPlaces
  <2>3. \A i, j \in DOMAIN psendq' :
          i < j /\ psendq'[i] # 0 /\ psendq'[j] # 0 => psendq'[i] < psendq'[j]
    BY <1>2, <2>2
  <2>4. \A i \in DOMAIN psendq' : psendq'[i] # 0 =>
             /\ psendq'[i] <= pmade
             /\ ~FilterReturned => psendq'[i] < pmade
             /\ Head(psendq) < psendq'[i]
             /\ Sending => pitem < psendq'[i]
    <3>1. ASSUME NEW i \in DOMAIN psendq', psendq'[i] # 0
          PROVE  InLine(psendq'[i])
      BY <1>2, <2>2, <3>1
    <3>2. ASSUME NEW i \in DOMAIN psendq', psendq'[i] # 0
          PROVE  Head(psendq) < psendq'[i]
      <4>1. psendq'[i] \in Nat
        BY <1>1, <2>2
      <4>2. psendq[1] # 0 => psendq[1] < psendq[i + 1]
        BY <1>2, <2>2, <3>2
      <4> QED
        BY <2>2, <3>2, <4>1, <4>2
    <3> QED
      BY <3>1, <3>2 DEF InLine
  <2>5. /\ Head(psendq) <= pmade
        /\ ~FilterReturned => Head(psendq) < pmade
    BY <1>1, <1>2, <2>2 DEF InLine
  <2> QED
    BY <1>1, <1>2, <1>3, <1>4, <1>5, <2>1, <2>2, <2>3, <2>4, <2>5
       DEF ClientInv, InLine
<1> QED
  BY <1>1, <1>6, <1>7, <1>8 DEF ClientMove, Client!Beat

\* A step of the client's threads keeps it.
LEMMA ClientSteps ==
  ASSUME ClientInv, Client!Run \/ \E p \in Client!Producers : Client!AddToQueue(p)
  PROVE  ClientInv'
<1>1. pppc' \in [Client!Producers -> Client!Places]
  <2>1. CASE Client!Run
    BY <2>1 DEF ClientInv, Client!Run, Client!Spin, Client!SpinEnd,
                Client!Drained, Client!NotDue, Client!Compose,
                Client!ResetSize, Client!ResetMax, Client!BeatQueued,
                Client!TakeItem, Client!Send, Client!queueVars, Client!Places
  <2>2. ASSUME NEW p \in Client!Producers, Client!AddToQueue(p)
        PROVE  \/ pppc' = pppc
               \/ \E to \in Client!Places : pppc' = [pppc EXCEPT ![p] = to]
    <3>1. CASE Client!Note(p)
      BY <2>2, <3>1, NoteMoves
    <3>2. CASE ~Client!Note(p)
      BY <2>2, <3>2 DEF Client!AddToQueue, Client!SeeRoom, Client!SeeFull,
        Client!Trim, Client!TrimEnd, Client!Push, Client!Goto, Client!Places,
        Client!Noting
    <3> QED
      BY <3>1, <3>2
  <2> QED
    BY <2>1, <2>2 DEF ClientInv
<1> QED
  BY <1>1, ClientMoves, ClientMoveStep

\* The filter thread begins to add the next message.
Begins ==
  /\ pmade < Cardinality(Frames) /\ pmade' = pmade + 1
  /\ FilterReturned /\ ~FilterReturned'
  /\ pppc' = [pppc EXCEPT !["occ"] = "check"]
  /\ Sending' = Sending
  /\ UNCHANGED <<psendq, pfate, pitem>>

LEMMA PublishBegins == ClientInv /\ Client!Publish => Begins
BY DEF ClientInv, Client!Producers, Client!Publish, Client!Goto,
       Client!runVars, Begins, FilterReturned, Sending

LEMMA BeginsCarries ==
  ASSUME ClientInv, Begins
  PROVE  Carried' = Carried \cup {pmade + 1}
<1>1. \A k : Waits(k)' <=> Waits(k)
  BY DEF Waits, Begins
<1>2. pmade + 1 # 0 /\ pitem' = pitem /\ pmade' = pmade + 1
  BY DEF ClientInv, Begins
<1>3. \A k : k \in Carried' <=> k \in Carried \/ k = pmade + 1
  BY <1>1, <1>2, CarriedIs DEF Begins
<1> QED
  BY <1>3

LEMMA BeginsStep ==
  ASSUME ClientInv, Begins
  PROVE  ClientInv'
<1>1. /\ pmade' = pmade + 1 /\ pmade \in Nat /\ pmade' <= Cardinality(Frames)
      /\ psendq' = psendq /\ pfate' = pfate /\ pitem' = pitem
      /\ pitem \in Nat /\ Cardinality(Frames) \in Nat
      /\ Sending' = Sending /\ FilterReturned
  BY FramesCounted DEF ClientInv, Begins
<1>2. \A i \in DOMAIN psendq : psendq[i] # 0 => InLine(psendq[i])'
  <2>1. \A i \in DOMAIN psendq : psendq[i] \in Nat
    BY DEF ClientInv
  <2> QED
    BY <1>1, <2>1 DEF ClientInv, InLine
<1>3. \A m \in 1 .. Cardinality(Frames) :
        pfate[m] = "sent" => m <= pmade + 1 /\ m \notin Carried'
  BY <1>1, BeginsCarries DEF ClientInv
<1>4. pppc' \in [Client!Producers -> Client!Places]
  BY DEF ClientInv, Begins, Client!Places
<1> QED
  BY <1>1, <1>2, <1>3, <1>4 DEF ClientInv, InLine

-----------------------------------------------------------------------------
(* The path.  What the messages carry was taken from the first queue in    *)
(* the order of the messages.                                              *)

ContentInv ==
  /\ DOMAIN content = 1 .. pmade /\ content \in Seq(Frames)
  /\ \A m \in 1 .. pmade : /\ Gone(content[m])
                           /\ \A f \in InFilter : Before(content[m], f)
  /\ \A m, n \in 1 .. pmade : m < n => Before(content[m], content[n])

PathInv == TypeOK /\ QueueInv /\ ClientInv /\ ContentInv

\* The kinds of step of the path, by what the first queue and its threads and
\* the second and its threads do in them.
QueueMoved == [Next]_vars /\ UNCHANGED <<pvars, content>>

ClientMoved ==
  /\ Client!Run \/ \E p \in Client!Producers : Client!AddToQueue(p)
  /\ UNCHANGED <<vars, content>>

LEMMA PathMoves ==
  [PipeNext]_PipeVars => QueueMoved \/ ClientMoved \/ NotifyTargets
BY DEF PipeNext, PipeVars, NotifyNothing, FilterStep, RadarStep, ClientStep,
       QueueMoved, ClientMoved, Next, Consumer

LEMMA PathQueue == [PipeNext]_PipeVars => [Next]_vars
BY PathMoves DEF QueueMoved, ClientMoved, NotifyTargets, Next, Consumer, vars

LEMMA ClientKeeps == ClientInv /\ UNCHANGED pvars => ClientInv'
BY DEF pvars, ClientInv, InLine, FilterReturned, Sending, Carried,
       Client!Queued

LEMMA ContentInit == PipeInit => ContentInv
<1> SUFFICES ASSUME PipeInit PROVE ContentInv
  OBVIOUS
<1>1. content = <<>> /\ pmade = 0
  BY DEF PipeInit, Client!Init
<1> QED
  BY <1>1 DEF ContentInv

\* Whatever the filter thread takes next is after all it published.
LEMMA ContentKeeps ==
  ASSUME TypeOK, ContentInv, [Next]_vars, UNCHANGED <<pmade, content>>
  PROVE  ContentInv'
<1>1. ASSUME NEW m \in 1 .. pmade, NEW f, f = content[m]
      PROVE  Gone(f)' /\ \A g \in InFilter' : Before(f, g)
  <2>1. Gone(f) /\ \A g \in InFilter : Before(f, g)
    BY <1>1 DEF ContentInv
  <2>2. Shortened => Before(f, Removed)
    BY <2>1, ShortPlaces DEF Gone
  <2>3. \/ InFilter' = InFilter \/ InFilter' = {}
        \/ Shortened /\ InFilter' = {Removed}
    BY QueueMoves
  <2> QED
    BY <2>1, <2>2, <2>3, GoneStays
<1>2. \A m \in 1 .. pmade : Gone(content[m])'
  BY <1>1 DEF Gone, Out
<1>3. \A m \in 1 .. pmade : \A g \in InFilter' : Before(content[m], g)
  BY <1>1
<1> QED
  BY <1>2, <1>3 DEF ContentInv, Before

\* What it publishes is after all it published before.
LEMMA ContentGrows ==
  ASSUME PathInv, NotifyTargets
  PROVE  ContentInv'
<1>1. /\ TypeOK /\ [Next]_vars /\ InFilter = {citem} /\ InFilter' = {}
      /\ content' = Append(content, citem) /\ pmade' = pmade + 1
      /\ pmade \in Nat
  BY PublishBegins DEF PathInv, ClientInv, NotifyTargets, Next, Consumer,
                       Notify, Move, InFilter, Begins
<1>2. Gone(citem)
  BY <1>1 DEF PathInv, QueueInv
<1>3. citem \in Frames
  BY <1>2 DEF Gone, Out
<1>4. /\ content \in Seq(Frames) /\ DOMAIN content = 1 .. pmade
      /\ Len(content) = pmade
  BY <1>1 DEF PathInv, ContentInv
<1>5. /\ content' \in Seq(Frames) /\ DOMAIN content' = 1 .. pmade + 1
      /\ content'[pmade + 1] = citem
      /\ \A m \in 1 .. pmade : content'[m] = content[m]
  BY <1>1, <1>3, <1>4
<1>6. \A m \in 1 .. pmade : Gone(content[m]) /\ Before(content[m], citem)
  BY <1>1 DEF PathInv, ContentInv
<1>7. ASSUME NEW m \in 1 .. pmade + 1, NEW f, f = content'[m]
      PROVE  Gone(f)'
  <2>1. Gone(f)
    BY <1>1, <1>2, <1>5, <1>6, <1>7
  <2> QED
    BY <1>1, <2>1, GoneStays
<1>8. \A m \in 1 .. pmade + 1 : Gone(content[m])'
  BY <1>7 DEF Gone, Out
<1>9. \A m, n \in 1 .. pmade + 1 : m < n => Before(content'[m], content'[n])
  <2>1. \A m, n \in 1 .. pmade : m < n => Before(content[m], content[n])
    BY DEF PathInv, ContentInv
  <2> QED
    BY <1>1, <1>5, <1>6, <2>1
<1> QED
  BY <1>1, <1>5, <1>8, <1>9 DEF ContentInv, Before

LEMMA PathInit == PipeInit => PathInv
BY TypeInit, QueueInit, ClientInit, ContentInit DEF PipeInit, PathInv

LEMMA PathStep == PathInv /\ [PipeNext]_PipeVars => PathInv'
<1> SUFFICES ASSUME PathInv, [PipeNext]_PipeVars PROVE PathInv'
  OBVIOUS
<1>1. TypeOK' /\ QueueInv'
  BY PathQueue, TypeStep, QueueStep DEF PathInv
<1>2. CASE QueueMoved
  <2>1. ClientInv'
    BY <1>2, ClientKeeps DEF QueueMoved, PathInv
  <2>2. ContentInv'
    BY <1>2, ContentKeeps DEF QueueMoved, PathInv, pvars
  <2> QED
    BY <1>1, <2>1, <2>2 DEF PathInv
<1>3. CASE ClientMoved
  <2>1. ClientInv' /\ ClientMove
    BY <1>3, ClientSteps, ClientMoves DEF ClientMoved, PathInv
  <2>2. UNCHANGED <<pmade, content>>
    BY <1>3, <2>1 DEF ClientMoved, ClientMove, Idles, Adds, Trims, Fetches,
                      Finishes
  <2>3. ContentInv'
    BY <2>2, PathQueue, ContentKeeps DEF PathInv
  <2> QED
    BY <1>1, <2>1, <2>3 DEF PathInv
<1>4. CASE NotifyTargets
  <2>1. ClientInv'
    BY <1>4, PublishBegins, BeginsStep DEF NotifyTargets, PathInv
  <2>2. ContentInv'
    BY <1>4, ContentGrows
  <2> QED
    BY <1>1, <2>1, <2>2 DEF PathInv
<1> QED
  BY <1>2, <1>3, <1>4, PathMoves

-----------------------------------------------------------------------------
(* The path implements LossyFifo.                                          *)

\* No frame is in two places.
LEMMA Apart ==
  ASSUME PathInv
  PROVE  /\ Queued \cap InFilter = {}
         /\ \A m \in Carried : m \in 1 .. pmade
         /\ \A m \in 1 .. pmade : content[m] \notin Queued \cup InFilter
         /\ \A m, n \in 1 .. pmade : content[m] = content[n] => m = n
         /\ OnTheWay \cup Arrived \subseteq Frames
         /\ \A f \in OnTheWay \cup Arrived : Out(f)
<1>1. \A f, g : Out(f) /\ Before(f, g) => f # g
  BY DEF Out, Before, Frames
<1>2. \A f : f \in Queued => Out(f)
  BY DEF PathInv, QueueInv, Queued
<1>3. \A f \in InFilter : Out(f) /\ f \notin Queued
  <2>1. \A f \in InFilter : Gone(f)
    BY DEF PathInv, QueueInv
  <2> QED
    BY <1>1, <2>1 DEF Gone, Queued
<1>4. \A m \in 1 .. pmade : Out(content[m]) /\ content[m] \notin Queued \cup InFilter
  <2>1. \A m \in 1 .. pmade : Gone(content[m])
    BY DEF PathInv, ContentInv
  <2>2. \A m \in 1 .. pmade : \A f \in InFilter : Before(content[m], f)
    BY DEF PathInv, ContentInv
  <2> QED
    BY <1>1, <2>1, <2>2 DEF Gone, Queued
<1>5. \A m, n \in 1 .. pmade : content[m] = content[n] => m = n
  <2>1. \A m, n \in 1 .. pmade : m < n => Before(content[m], content[n])
    BY DEF PathInv, ContentInv
  <2>2. pmade \in Nat
    BY DEF PathInv, ClientInv
  <2>3. \A m, n \in 1 .. pmade : m < n => content[m] # content[n]
    BY <1>1, <1>4, <2>1
  <2> QED
    BY <2>2, <2>3
<1>6. \A m \in Carried : m \in 1 .. pmade
  <2>1. /\ pmade \in Nat /\ pitem \in Nat
        /\ Sending => pitem <= pmade
        /\ \A i \in DOMAIN psendq :
             psendq[i] \in Nat /\ (psendq[i] # 0 => psendq[i] <= pmade)
    BY DEF PathInv, ClientInv, InLine
  <2> QED
    BY <2>1, CarriedIs DEF Waits
<1>7. DOMAIN content = 1 .. pmade
  BY DEF PathInv, ContentInv
<1>8. \A f \in OnTheWay \cup Arrived : Out(f)
  BY <1>2, <1>3, <1>4, <1>6, <1>7 DEF OnTheWay, Arrived
<1> QED
  BY <1>3, <1>4, <1>5, <1>6, <1>8 DEF Out

\* What the moves of the first queue do to its set of frames.
LEMMA QueuedMoves ==
  ASSUME TypeOK, QueueInv
  PROVE  /\ Kept => Queued' = Queued
         /\ Shortened => Removed \in Queued /\ Queued' = Queued \ {Removed}
         /\ \A r \in Radars : Numbered(r) => Queued' = Queued
         /\ \A r \in Radars : Lengthened(r) => Queued' = Queued \cup {Held(r)}
<1>1. ASSUME Shortened
      PROVE  Removed \in Queued /\ Queued' = Queued \ {Removed}
  <2>1. \A f, g : Out(f) /\ Before(f, g) => f # g
    BY DEF Out, Before, Frames
  <2>2. Len(sendq) \in Nat /\ DOMAIN sendq = 1 .. Len(sendq) /\ Len(sendq) >= 1
    BY <1>1 DEF TypeOK, Shortened
  <2>3. /\ DOMAIN sendq' = 1 .. Len(sendq) - 1
        /\ \A i \in 1 .. Len(sendq) - 1 : sendq'[i] = sendq[i + 1]
    BY <1>1, <2>2 DEF TypeOK, Shortened, Remaining
  <2>4. Removed = sendq[1]
    BY <1>1, ShortPlaces
  <2>5. \A i \in DOMAIN sendq : i # 1 => sendq[i] # sendq[1]
    BY <2>1, <2>2 DEF QueueInv
  <2>6. ASSUME NEW f
        PROVE  f \in Queued' <=> f \in Queued /\ f # Removed
    <3>1. ASSUME NEW i \in DOMAIN sendq', f = sendq'[i]
          PROVE  f \in Queued /\ f # Removed
      <4>1. i + 1 \in DOMAIN sendq /\ i + 1 # 1 /\ f = sendq[i + 1]
        BY <2>2, <2>3, <3>1
      <4> QED
        BY <2>4, <2>5, <4>1 DEF Queued
    <3>2. ASSUME NEW i \in DOMAIN sendq, f = sendq[i], f # Removed
          PROVE  \E j \in DOMAIN sendq' : f = sendq'[j]
      <4>1. i - 1 \in 1 .. Len(sendq) - 1 /\ (i - 1) + 1 = i
        BY <2>2, <2>4, <3>2
      <4> QED
        BY <2>3, <3>2, <4>1
    <3> QED
      BY <3>1, <3>2 DEF Queued
  <2>7. Removed \in Queued
    BY <2>2, <2>4 DEF Queued
  <2> QED
    BY <2>6, <2>7
<1>2. ASSUME NEW r \in Radars, Lengthened(r)
      PROVE  Queued' = Queued \cup {Held(r)}
  <2>1. /\ DOMAIN sendq = 1 .. Len(sendq) /\ Len(sendq) \in Nat
        /\ DOMAIN sendq' = 1 .. Len(sendq) + 1
        /\ \A i \in DOMAIN sendq : sendq'[i] = sendq[i]
        /\ sendq'[Len(sendq) + 1] = Held(r)
    BY <1>2, LongPlaces
  <2> HIDE DEF Held
  <2>2. \A f : (\E i \in DOMAIN sendq' : f = sendq'[i])
                 <=> (\E i \in DOMAIN sendq : f = sendq[i]) \/ f = Held(r)
    BY <2>1
  <2> QED
    BY <2>2 DEF Queued
<1> QED
  BY <1>1, <1>2 DEF Kept, Numbered, Queued

FifoStep == [Fifo!FifoNext]_(Fifo!fifoVars)

\* A frame that leaves the path and does not arrive is lost.
LEMMA Loses ==
  ASSUME PathInv, NEW f \in OnTheWay,
         OnTheWay' = OnTheWay \ {f}, Arrived' = Arrived
  PROVE  FifoStep
<1>1. f \in Radars \X (1 .. MaxFrames)
  BY Apart DEF Frames
<1>2. Fifo!Lose(f)
  BY DEF Fifo!Lose
<1> QED
  BY <1>1, <1>2 DEF FifoStep, Fifo!FifoNext

LEMMA Stutters ==
  ASSUME OnTheWay' = OnTheWay, Arrived' = Arrived
  PROVE  FifoStep
BY DEF FifoStep, Fifo!fifoVars

\* A frame that is pushed is newer than all of its radar on the path.
LEMMA Accepts ==
  ASSUME PathInv, NEW r \in Radars, Lengthened(r),
         OnTheWay' = OnTheWay \cup {Held(r)}, Arrived' = Arrived
  PROVE  FifoStep
<1>1. /\ Held(r) \in Frames /\ Held(r)[1] = r /\ Held(r)[2] = published[r]
      /\ ppc[r] \in InHandStates
  BY LongPlaces DEF PathInv, Lengthened, InHandStates
<1>2. ASSUME NEW k \in OnTheWay \cup Arrived, k[1] = Held(r)[1]
      PROVE  k[2] < Held(r)[2]
  <2>1. Out(k)
    BY Apart
  <2> QED
    BY <1>1, <1>2, <2>1 DEF Out
<1>3. Fifo!Accept(Held(r))
  BY <1>2 DEF Fifo!Accept, Fifo!Older
<1> QED
  BY <1>1, <1>3 DEF FifoStep, Fifo!FifoNext, Frames

\* A step of the radars and the filter thread that publishes no message.
LEMMA QueueRefines == PathInv /\ QueueMoved => FifoStep
<1> SUFFICES ASSUME PathInv, QueueMoved PROVE FifoStep
  OBVIOUS
<1>1. TypeOK /\ QueueInv /\ [Next]_vars
  BY DEF PathInv, QueueMoved
<1>2. /\ Arrived' = Arrived /\ Carried' = Carried /\ content' = content
  BY DEF QueueMoved, pvars, Arrived, Carried, Client!Queued, FilterReturned
<1>3. \A m \in Carried : content[m] \notin Queued \cup InFilter
  BY Apart
<1> DEFINE Sent == {content[m] : m \in Carried}
<1>4. /\ OnTheWay = Queued \cup InFilter \cup Sent
      /\ OnTheWay' = Queued' \cup InFilter' \cup Sent
      /\ Sent \cap (Queued \cup InFilter) = {}
      /\ Queued \cap InFilter = {}
  BY <1>2, <1>3, Apart DEF OnTheWay
<1> HIDE DEF Sent
<1>5. CASE Kept /\ (InFilter' = InFilter \/ InFilter' = {})
  <2>1. Queued' = Queued
    BY <1>1, <1>5, QueuedMoves
  <2>2. CASE InFilter' = InFilter \/ InFilter = {}
    BY <1>2, <1>4, <1>5, <2>1, <2>2, Stutters
  <2>3. CASE InFilter' = {} /\ InFilter # {}
    <3>1. InFilter = {citem}
      BY <2>3 DEF InFilter
    <3>2. citem \in OnTheWay /\ OnTheWay' = OnTheWay \ {citem}
      BY <1>4, <2>1, <2>3, <3>1
    <3> QED
      BY <1>2, <3>2, Loses
  <2> QED
    BY <1>5, <2>2, <2>3
<1>6. CASE /\ Shortened
           /\ \/ InFilter' = InFilter
              \/ InFilter = {} /\ InFilter' = {Removed}
  <2>1. Removed \in Queued /\ Queued' = Queued \ {Removed}
    BY <1>1, <1>6, QueuedMoves
  <2>2. CASE InFilter' = InFilter
    <3>1. Removed \in OnTheWay /\ OnTheWay' = OnTheWay \ {Removed}
      BY <1>4, <2>1, <2>2
    <3> QED
      BY <1>2, <3>1, Loses
  <2>3. CASE InFilter = {} /\ InFilter' = {Removed}
    <3>1. OnTheWay' = OnTheWay
      BY <1>4, <2>1, <2>3
    <3> QED
      BY <1>2, <3>1, Stutters
  <2> QED
    BY <1>6, <2>2, <2>3
<1>7. ASSUME NEW r \in Radars, Numbered(r), InFilter' = InFilter
      PROVE  FifoStep
  <2>1. OnTheWay' = OnTheWay
    BY <1>1, <1>4, <1>7, QueuedMoves
  <2> QED
    BY <1>2, <2>1, Stutters
<1>8. ASSUME NEW r \in Radars, Lengthened(r), InFilter' = InFilter
      PROVE  FifoStep
  <2>1. OnTheWay' = OnTheWay \cup {Held(r)}
    BY <1>1, <1>4, <1>8, QueuedMoves
  <2> QED
    BY <1>2, <1>8, <2>1, Accepts
<1> QED
  BY <1>1, <1>5, <1>6, <1>7, <1>8, QueueMoves

\* A message leaves the client's queue, or its send ends.
LEMMA Leaves ==
  ASSUME PathInv, UNCHANGED <<vars, content>>, NEW m \in Carried,
         Carried' = Carried \ {m}
  PROVE  /\ m \in DOMAIN content /\ content[m] \in OnTheWay
         /\ OnTheWay' = OnTheWay \ {content[m]}
<1>1. Queued' = Queued /\ InFilter' = InFilter
  BY DEF vars, Queued, InFilter
<1>2. /\ \A n \in Carried : n \in 1 .. pmade
      /\ content[m] \notin Queued \cup InFilter
      /\ \A n \in Carried : content[n] = content[m] => n = m
  BY Apart
<1>3. OnTheWay' = Queued \cup InFilter \cup {content[n] : n \in Carried \ {m}}
  BY <1>1 DEF OnTheWay
<1>4. DOMAIN content = 1 .. pmade
  BY DEF PathInv, ContentInv
<1> QED
  BY <1>2, <1>3, <1>4 DEF OnTheWay

\* A message that is sent is the oldest of its radar on the path.
LEMMA Delivers ==
  ASSUME PathInv, Sending, pitem \in Carried,
         OnTheWay' = OnTheWay \ {content[pitem]},
         Arrived' = Arrived \cup {content[pitem]}
  PROVE  FifoStep
<1> DEFINE f == content[pitem]
<1>1. pitem \in 1 .. pmade /\ f \in OnTheWay
  BY Apart DEF OnTheWay
<1>2. /\ \A k \in Queued \cup InFilter : Before(f, k)
      /\ \A n \in 1 .. pmade : pitem < n => Before(f, content[n])
      /\ Out(f)
  BY <1>1 DEF PathInv, ContentInv, Gone, Queued
<1>3. \A m \in Carried : m = pitem \/ pitem < m
  BY CarriedIs DEF Waits, PathInv, ClientInv, InLine
<1>4. \A m \in Carried : content[m] = f \/ Before(f, content[m])
  BY <1>2, <1>3, Apart
<1> HIDE DEF f
<1>5. \A k \in OnTheWay : k = f \/ Before(f, k)
  BY <1>2, <1>4 DEF OnTheWay
<1>6. \A k \in OnTheWay : ~Fifo!Older(k, f)
  <2>1. \A k \in OnTheWay : k[2] \in Nat /\ f[2] \in Nat
    BY <1>1, Apart DEF Frames
  <2> QED
    BY <1>5, <2>1 DEF Before, Fifo!Older
<1>7. Fifo!Deliver(f)
  BY <1>1, <1>6 DEF Fifo!Deliver, f
<1>8. f \in Radars \X (1 .. MaxFrames)
  BY <1>1, Apart DEF Frames
<1> QED
  BY <1>7, <1>8 DEF FifoStep, Fifo!FifoNext

\* A step of the client's threads.
LEMMA ClientRefines == PathInv /\ ClientMoved => FifoStep
<1> SUFFICES ASSUME PathInv, ClientMoved PROVE FifoStep
  OBVIOUS
<1>1. /\ ClientInv /\ ClientMove /\ UNCHANGED <<vars, content>>
      /\ psendq \in Seq(Nat) /\ pitem \in Nat
  BY ClientMoves DEF PathInv, ClientMoved, ClientInv
<1>2. /\ DOMAIN content = 1 .. pmade
      /\ pmade \in Nat /\ pmade <= Cardinality(Frames)
      /\ pfate \in [1 .. Cardinality(Frames) -> Client!Fates]
      /\ Cardinality(Frames) \in Nat
      /\ \A m \in 1 .. pmade : pfate[m] = "sent" => m \notin Carried
  BY FramesCounted DEF PathInv, ContentInv, ClientInv
<1>3. ASSUME Carried' = Carried, pfate' = pfate
      PROVE  FifoStep
  <2>1. OnTheWay' = OnTheWay
    BY <1>1, <1>3 DEF OnTheWay, Queued, InFilter, vars
  <2>2. Arrived' = Arrived
    BY <1>1, <1>3 DEF Arrived
  <2> QED
    BY <2>1, <2>2, Stutters
<1>4. ASSUME NEW m \in Carried, Carried' = Carried \ {m}, NEW f, f # "sent",
             pfate' = [pfate EXCEPT ![m] = f]
      PROVE  FifoStep
  <2>1. m \in 1 .. pmade /\ content[m] \in OnTheWay
        /\ OnTheWay' = OnTheWay \ {content[m]}
    BY <1>1, <1>2, <1>4, Leaves
  <2>2. pfate[m] # "sent" /\ pfate'[m] # "sent"
    BY <1>2, <1>4, <2>1
  <2>3. \A k \in DOMAIN content : pfate'[k] = "sent" <=> pfate[k] = "sent"
    BY <1>2, <1>4, <2>2
  <2>4. Arrived' = Arrived
    BY <1>1, <2>3 DEF Arrived
  <2> QED
    BY <2>1, <2>4, Loses
<1>5. CASE Idles \/ Adds(Client!Beat) \/ Adds(pmade) \/ Fetches
  BY <1>1, <1>3, <1>5, CarriedMoves DEF Idles, Adds, Fetches
<1>6. CASE Trims
  <2>1. Carried' = Carried \ {Head(psendq)}
    BY <1>1, <1>6, CarriedMoves
  <2>2. CASE Head(psendq) = 0
    <3>1. Carried' = Carried
      BY <2>1, <2>2, CarriedIs
    <3>2. pfate' = pfate
      BY <1>6, <2>2 DEF Trims, Client!Beat
    <3> QED
      BY <1>3, <3>1, <3>2
  <2>3. CASE Head(psendq) # 0
    <3>1. Head(psendq) \in Carried
      <4>1. Waits(Head(psendq))
        BY <1>1, <1>6, TailPlaces DEF Waits, Trims
      <4> QED
        BY <2>3, <4>1, CarriedIs
    <3>2. pfate' = [pfate EXCEPT ![Head(psendq)] = "trimmed"]
      BY <1>6, <2>3 DEF Trims, Client!Beat
    <3> QED
      BY <1>4, <2>1, <3>1, <3>2
  <2> QED
    BY <2>2, <2>3
<1>7. ASSUME NEW f, Finishes(f), f = "sent" \/ f = "failed"
      PROVE  FifoStep
  <2>1. Carried' = Carried \ {pitem}
    BY <1>1, <1>7, CarriedMoves
  <2>2. CASE pitem = 0
    <3>1. Carried' = Carried
      BY <2>1, <2>2, CarriedIs
    <3>2. pfate' = pfate
      BY <1>7, <2>2 DEF Finishes, Client!Beat
    <3> QED
      BY <1>3, <3>1, <3>2
  <2>3. CASE pitem # 0
    <3>1. Sending /\ pitem \in Carried
      BY <1>7, <2>3, CarriedIs DEF Finishes
    <3>2. pfate' = [pfate EXCEPT ![pitem] = f]
      BY <1>7, <2>3 DEF Finishes, Client!Beat
    <3>3. CASE f = "failed"
      BY <1>4, <2>1, <3>1, <3>2, <3>3
    <3>4. CASE f = "sent"
      <4>1. pitem \in 1 .. pmade /\ OnTheWay' = OnTheWay \ {content[pitem]}
        BY <1>1, <1>2, <2>1, <3>1, Leaves
      <4>2. \A k \in DOMAIN content :
              pfate'[k] = "sent" <=> pfate[k] = "sent" \/ k = pitem
        BY <1>2, <3>2, <3>4
      <4>3. Arrived' = Arrived \cup {content[pitem]}
        BY <1>1, <1>2, <4>1, <4>2 DEF Arrived
      <4> QED
        BY <3>1, <4>1, <4>3, Delivers
    <3> QED
      BY <1>7, <3>3, <3>4
  <2> QED
    BY <2>2, <2>3
<1> QED
  BY <1>1, <1>5, <1>6, <1>7 DEF ClientMove

\* The frame that is published moves from the filter into a message.
LEMMA PublishRefines == PathInv /\ NotifyTargets => FifoStep
<1> SUFFICES ASSUME PathInv, NotifyTargets PROVE FifoStep
  OBVIOUS
<1>1. Begins /\ ClientInv
  BY PublishBegins DEF PathInv, NotifyTargets
<1>2. /\ Queued' = Queued /\ InFilter = {citem} /\ InFilter' = {}
      /\ content' = Append(content, citem) /\ pfate' = pfate
      /\ Carried' = Carried \cup {pmade + 1} /\ pmade \in Nat
  BY <1>1, BeginsCarries DEF NotifyTargets, Notify, Move, InFilter, Queued,
                             Begins, ClientInv
<1>3. /\ content \in Seq(Frames) /\ DOMAIN content = 1 .. pmade
      /\ Len(content) = pmade
  BY <1>2 DEF PathInv, ContentInv
<1>4. /\ DOMAIN content' = 1 .. pmade + 1 /\ content'[pmade + 1] = citem
      /\ \A m \in 1 .. pmade : content'[m] = content[m]
  BY <1>2, <1>3
<1>5. \A m \in Carried : m \in 1 .. pmade
  BY Apart
<1>6. {content'[m] : m \in Carried'} = {content[m] : m \in Carried} \cup {citem}
  BY <1>2, <1>4, <1>5
<1>7. OnTheWay' = OnTheWay
  BY <1>2, <1>6 DEF OnTheWay
<1>8. Arrived' = Arrived
  <2>1. pmade + 1 \in 1 .. Cardinality(Frames)
    BY <1>1, <1>2, FramesCounted DEF Begins
  <2>2. pfate[pmade + 1] # "sent"
    BY <1>1, <1>2, <2>1 DEF ClientInv
  <2>3. \A m \in DOMAIN content' : pfate[m] = "sent" => m \in DOMAIN content
    BY <1>2, <1>3, <1>4, <2>2
  <2> QED
    BY <1>2, <1>3, <1>4, <2>3 DEF Arrived
<1> QED
  BY <1>7, <1>8, Stutters

LEMMA FifoStarts == PipeInit => Fifo!FifoInit
<1> SUFFICES ASSUME PipeInit PROVE Fifo!FifoInit
  OBVIOUS
<1>1. /\ sendq = <<>> /\ cpc = "take" /\ psendq = <<>> /\ content = <<>>
      /\ prpc = "spin" /\ pppc = [p \in {"occ", "pub"} |-> "idle"]
  BY DEF PipeInit, Init, Client!Init, Client!Producers
<1>2. Queued = {} /\ InFilter = {} /\ Carried = {} /\ Arrived = {}
  BY <1>1 DEF Queued, InFilter, Carried, Client!Queued, FilterReturned,
              Arrived
<1> QED
  BY <1>2 DEF Fifo!FifoInit, OnTheWay

\* The whole path, from Occupancy::publish in a radar thread to the broker,
\* with the drains, the filter, the trims and the failed sends on it, is a
\* channel that may lose lists but delivers each radar's in order, none twice.
THEOREM PathImplementsFifo == PipeSpec => ImplementsFifo
<1>1. PathInv /\ [PipeNext]_PipeVars => [Fifo!FifoNext]_(Fifo!fifoVars)
  BY PathMoves, QueueRefines, ClientRefines, PublishRefines DEF FifoStep
<1> QED
  BY <1>1, PathInit, PathStep, FifoStarts, PTL
     DEF PipeSpec, ImplementsFifo, Fifo!FifoSpec
=============================================================================
