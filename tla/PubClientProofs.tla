-------------------------- MODULE PubClientProofs --------------------------
(***************************************************************************)
(* Proofs about PubClient, for every limit of the queue of at least two,   *)
(* every number of messages and every notify cycle.                        *)
(***************************************************************************)
EXTENDS PubClient, TLAPS

\* Integer halves: trimming always drops something, and less than everything.
LEMMA HalfOfLimit ==
  /\ ToDrop \in Nat
  /\ 1 <= ToDrop
  /\ ToDrop <= MaxQSize
BY ClientAssumption DEF ClientAssumption, ToDrop

\* removeFromQueue returns an item and leaves a queue shorter by one.
LEMMA RemoveFront ==
  ASSUME sendq \in Seq(Items), sendq # <<>>
  PROVE  /\ Removed \in Items
         /\ Remaining \in Seq(Items)
         /\ Len(Remaining) = Len(sendq) - 1
         /\ Len(sendq) >= 1
BY DEF Removed, Remaining

-----------------------------------------------------------------------------
(* The part of TypeOK the proofs below rest on: the types, and that the    *)
(* client thread is inside addToQueue only while it queues a heartbeat.    *)

Types ==
  /\ sendq \in Seq(Items)
  /\ max \in Nat
  /\ stat \in Stats
  /\ made \in 0 .. MaxMsgs
  /\ ppc \in [Producers -> Places]
  /\ left \in [Producers -> 0 .. ToDrop]
  /\ size \in [Producers -> Nat]
  /\ mark \in [Producers -> Nat]
  /\ rpc \in {"spin", "drain", "send", "due", "resetSize", "resetMax", "queue"}
  /\ heartbeat \in 0 .. BeatAfter + 1
  /\ rpc # "queue" => ppc["pub"] = "idle"

\* The initial state has the declared types.
LEMMA TypesInit == Init => Types
BY ClientAssumption, HalfOfLimit
   DEF Init, Types, ClientAssumption, Stats, Items, Producers, Places, Noting

\* Between the size test and the push a producer only keeps the statistics.
LEMMA NoteMoves ==
  ASSUME NEW p \in Producers, Note(p)
  PROVE  /\ UNCHANGED <<sendq, left, made, live, runVars, fate>>
         /\ ppc[p] \in Noting
         /\ \E to \in Noting \cup {"push"} : ppc' = [ppc EXCEPT ![p] = to]
BY DEF Note, SetLimit, LoadMax, SetSize, NotAbove, Above, Raise, ReloadMax,
       ResetFigure, Goto, Noting

\* ... and what it loads and stores are sizes.
LEMMA NoteTyped ==
  ASSUME Types, NEW p \in Producers, Note(p)
  PROVE  /\ max' \in Nat /\ stat' \in Stats
         /\ size' \in [Producers -> Nat] /\ mark' \in [Producers -> Nat]
<1> USE DEF Types, Load, LoadMark
<1>1. /\ Reload(p) \subseteq Nat /\ Remark(p) \subseteq Nat
      /\ MaxQSize \in Nat /\ mark[p] \in Nat
  BY ClientAssumption DEF Reload, Remark, ClientAssumption
<1>2. CASE SetLimit(p) \/ SetSize(p) \/ ResetFigure(p)
  BY <1>1, <1>2 DEF SetLimit, SetSize, ResetFigure, Stats
<1>3. CASE LoadMax(p) \/ ReloadMax(p)
  BY <1>1, <1>3 DEF LoadMax, ReloadMax
<1>4. CASE NotAbove(p)
  BY <1>4 DEF NotAbove
<1>5. CASE Above(p)
  BY <1>1, <1>5 DEF Above
<1>6. CASE Raise(p)
  BY <1>1, <1>6 DEF Raise
<1> QED
  BY <1>2, <1>3, <1>4, <1>5, <1>6 DEF Note

\* No step of the producers or of the client thread leaves the types.
LEMMA TypesStep == Types /\ [Next]_vars => Types'
<1> SUFFICES ASSUME Types, [Next]_vars PROVE Types'
  OBVIOUS
<1> USE DEF Types, queueVars, runVars, Places
<1>1. CASE Publish
  BY <1>1, ClientAssumption DEF Publish, Goto, Producers, ClientAssumption
<1>2. ASSUME NEW p \in Producers, AddToQueue(p) PROVE Types'
  <2>1. Len(sendq) \in Nat /\ "limit" \in Noting
    BY DEF Noting
  <2>2. CASE SeeRoom(p)
    BY <2>1, <2>2 DEF SeeRoom, Goto, Load
  <2>3. CASE SeeFull(p)
    BY <2>3, HalfOfLimit DEF SeeFull, Goto
  <2>4. CASE Trim(p)
    <3>1. sendq' \in Seq(Items)
      BY <2>4, RemoveFront DEF Trim
    <3>2. left' \in [Producers -> 0 .. ToDrop]
      BY <2>4, HalfOfLimit DEF Trim
    <3> QED
      BY <2>4, <3>1, <3>2 DEF Trim
  <2>5. CASE TrimEnd(p)
    BY <2>1, <2>5 DEF TrimEnd, Goto, Load
  <2>6. CASE Note(p)
    <3>1. ppc' \in [Producers -> Places]
      BY <2>6, NoteMoves
    <3>2. rpc' # "queue" => ppc'["pub"] = "idle"
      <4>1. rpc' = rpc /\ ppc[p] # "idle"
        BY <2>6, NoteMoves DEF Noting
      <4>2. rpc # "queue" => p # "pub"
        BY <4>1
      <4> QED
        BY <2>6, <4>1, <4>2, NoteMoves DEF Producers
    <3> QED
      BY <2>6, <3>1, <3>2, NoteMoves, NoteTyped
  <2>7. CASE Push(p)
    <3>1. Adding(p) \in Items
      BY ClientAssumption DEF Adding, Items, Beat, ClientAssumption
    <3>2. ppc' = [ppc EXCEPT ![p] = "idle"] /\ rpc' = rpc
      BY <2>7 DEF Push, Goto
    <3>3. sendq' \in Seq(Items)
      BY <2>7, <3>1 DEF Push, Pushed
    <3> QED
      BY <2>7, <3>2, <3>3 DEF Push
  <2> QED
    BY <1>2, <2>2, <2>3, <2>4, <2>5, <2>6, <2>7 DEF AddToQueue
<1>3. CASE TakeItem
  BY <1>3, RemoveFront DEF TakeItem, Move
<1>4. CASE NotDue \/ BeatQueued
  BY <1>4, ClientAssumption DEF NotDue, BeatQueued, Move, ClientAssumption
<1>5. CASE ResetSize
  BY <1>5 DEF ResetSize, Move, Stats
<1>6. CASE ResetMax
  BY <1>6 DEF ResetMax, Move, Producers
<1>7. CASE Spin \/ SpinEnd \/ Send \/ Drained \/ Compose
  BY <1>7 DEF Spin, SpinEnd, Send, Drained, Compose, Move
<1>8. CASE UNCHANGED vars
  BY <1>8 DEF vars
<1> QED
  BY <1>1, <1>2, <1>3, <1>4, <1>5, <1>6, <1>7, <1>8 DEF Next, Run

-----------------------------------------------------------------------------
(* The bound of the queue.  A producer past the size test, or past its     *)
(* trimming, has a place reserved.  A producer that trims has made room    *)
(* once it dropped one item, and two producers that trim have each made    *)
(* room of their own: without this last part the first two are not         *)
(* inductive, for both may go on to push.                                  *)

Place(p) == IF p \in Pushing THEN 1 ELSE 0

Taken == Len(sendq) + Place("occ") + Place("pub")

\* Producer p has dropped an item, or found nothing to drop.
MadeRoom(p) == ppc[p] = "trim" /\ left[p] < ToDrop

Room ==
  /\ Taken <= MaxQSize + 1
  /\ \A p \in Producers : MadeRoom(p) => Taken <= MaxQSize
  /\ MadeRoom("occ") /\ MadeRoom("pub") => Taken <= MaxQSize - 1

\* At the start nothing is queued and neither producer is adding.
LEMMA RoomInit == Init => Room
BY ClientAssumption
   DEF Init, Room, Taken, Place, Pushing, MadeRoom, Producers, Noting,
       ClientAssumption

\* A step that keeps both producers where they are and adds nothing.
LEMMA RoomKept ==
  ASSUME Types, Room, sendq' \in Seq(Items), Len(sendq') <= Len(sendq),
         \A p \in Producers : /\ p \in Pushing' <=> p \in Pushing
                              /\ MadeRoom(p)' => MadeRoom(p)
  PROVE  Room'
<1>1. Len(sendq) \in Nat /\ Len(sendq') \in Nat
  BY DEF Types
<1>2. Place("occ")' = Place("occ") /\ Place("pub")' = Place("pub")
  BY DEF Place, Producers
<1>3. Place("occ") \in {0, 1} /\ Place("pub") \in {0, 1}
  BY DEF Place
<1>4. Taken \in Nat /\ Taken' \in Nat /\ Taken' <= Taken
  BY <1>1, <1>2, <1>3 DEF Taken
<1> QED
  BY <1>4, ClientAssumption DEF Room, Producers, ClientAssumption

\* The steps of addToQueue keep the reservations of both producers.
LEMMA RoomAdd ==
  ASSUME Types, Types', Room, NEW p \in Producers, AddToQueue(p)
  PROVE  Room'
<1> DEFINE q == IF p = "occ" THEN "pub" ELSE "occ"
<1>1. /\ q \in Producers /\ q # p /\ Producers = {p, q}
      /\ Taken = Len(sendq) + Place(p) + Place(q)
      /\ Taken' = Len(sendq') + Place(p)' + Place(q)'
  <2>1. Place("occ") \in {0, 1} /\ Place("pub") \in {0, 1}
    BY DEF Place
  <2>2. Place("occ")' \in {0, 1} /\ Place("pub")' \in {0, 1}
    BY DEF Place
  <2>3. Len(sendq) \in Nat /\ Len(sendq') \in Nat
    BY DEF Types
  <2> QED
    BY <2>1, <2>2, <2>3 DEF Producers, Taken
<1>2. /\ Len(sendq) \in Nat /\ Len(sendq') \in Nat
      /\ MaxQSize \in Nat /\ MaxQSize >= 2
  BY ClientAssumption DEF Types, ClientAssumption
<1>3. Place(p) \in {0, 1} /\ Place(q) \in {0, 1}
  BY DEF Place
<1>4. /\ Taken <= MaxQSize + 1
      /\ MadeRoom(p) => Taken <= MaxQSize
      /\ MadeRoom(q) => Taken <= MaxQSize
      /\ MadeRoom(p) /\ MadeRoom(q) => Taken <= MaxQSize - 1
  BY <1>1 DEF Room, Producers
<1>5. ppc'[q] = ppc[q] /\ left'[q] = left[q]
  <2>1. CASE Note(p)
    BY <1>1, <2>1, NoteMoves DEF Types
  <2>2. CASE ~Note(p)
    BY <1>1, <2>2 DEF AddToQueue, SeeRoom, SeeFull, Trim, TrimEnd, Push, Goto,
                      Types
  <2> QED
    BY <2>1, <2>2
<1>6. Place(q)' = Place(q) /\ (MadeRoom(q)' <=> MadeRoom(q))
  BY <1>1, <1>5 DEF Place, Pushing, MadeRoom
<1>7. SUFFICES /\ Taken' <= MaxQSize + 1
               /\ MadeRoom(p)' => Taken' <= MaxQSize
               /\ MadeRoom(q)' => Taken' <= MaxQSize
               /\ MadeRoom(p)' /\ MadeRoom(q)' => Taken' <= MaxQSize - 1
  BY <1>1 DEF Room, Producers
<1>8. MadeRoom(q) => Place(q) = 0
  BY DEF MadeRoom, Place, Pushing, Noting
<1>9. CASE SeeRoom(p)
  <2>1. /\ Place(p)' = 1 /\ ~MadeRoom(p)'
        /\ Len(sendq') = Len(sendq) /\ Len(sendq) <= MaxQSize - 1
    BY <1>2, <1>9 DEF SeeRoom, HasRoom, Goto, Place, Pushing, MadeRoom, Types, Noting
  <2> QED
    BY <1>1, <1>2, <1>3, <1>6, <1>8, <2>1
<1>10. CASE SeeFull(p)
  <2>1. /\ Place(p) = 0 /\ Place(p)' = 0 /\ ~MadeRoom(p)'
        /\ Len(sendq') = Len(sendq)
    BY <1>10, HalfOfLimit
       DEF SeeFull, Goto, Place, Pushing, MadeRoom, Types, Noting
  <2> QED
    BY <1>1, <1>2, <1>3, <1>4, <1>6, <2>1
<1>11. CASE Trim(p)
  <2>1. Place(p) = 0 /\ Place(p)' = 0
    BY <1>11 DEF Trim, Place, Pushing, Noting
  <2>2. \/ Len(sendq) = 0 /\ Len(sendq') = 0
        \/ Len(sendq') = Len(sendq) - 1
    BY <1>11, RemoveFront DEF Trim, Types
  <2> QED
    BY <1>1, <1>2, <1>3, <1>4, <1>6, <1>8, <2>1, <2>2
<1>12. CASE TrimEnd(p)
  <2>1. /\ MadeRoom(p) /\ ~MadeRoom(p)'
        /\ Place(p) = 0 /\ Place(p)' = 1 /\ Len(sendq') = Len(sendq)
    BY <1>12, HalfOfLimit DEF TrimEnd, Goto, Place, Pushing, MadeRoom, Types, Noting
  <2> QED
    BY <1>1, <1>2, <1>3, <1>4, <1>6, <2>1
<1>13. CASE Note(p)
  <2>1. /\ Place(p) = 1 /\ Place(p)' = 1 /\ ~MadeRoom(p)'
        /\ Len(sendq') = Len(sendq)
    BY <1>13, NoteMoves DEF Place, Pushing, MadeRoom, Types, Noting
  <2> QED
    BY <1>1, <1>2, <1>3, <1>4, <1>6, <2>1
<1>14. CASE Push(p)
  <2>1. /\ Place(p) = 1 /\ Place(p)' = 0 /\ ~MadeRoom(p)'
        /\ Len(sendq') = Len(sendq) + 1
    BY <1>14 DEF Push, Pushed, Goto, Place, Pushing, MadeRoom, Types, Noting
  <2> QED
    BY <1>1, <1>2, <1>3, <1>4, <1>6, <2>1
<1> QED
  BY <1>9, <1>10, <1>11, <1>12, <1>13, <1>14 DEF AddToQueue

\* Every step keeps the reservations of both producers.
LEMMA RoomStep == Types /\ Types' /\ Room /\ [Next]_vars => Room'
<1> SUFFICES ASSUME Types, Types', Room, [Next]_vars PROVE Room'
  OBVIOUS
<1>1. ASSUME NEW p \in Producers, AddToQueue(p) PROVE Room'
  BY <1>1, RoomAdd
<1>2. CASE Publish
  <2>1. \A p \in Producers : /\ p \in Pushing' <=> p \in Pushing
                             /\ MadeRoom(p)' => MadeRoom(p)
    BY <1>2 DEF Publish, Goto, Pushing, MadeRoom, Types, Noting
  <2> QED
    BY <1>2, <2>1, RoomKept DEF Publish, Types
<1>3. CASE Run
  <2>1. \A p \in Producers : /\ p \in Pushing' <=> p \in Pushing
                             /\ MadeRoom(p)' => MadeRoom(p)
    <3>1. CASE ResetMax
      <4>1. /\ ppc["pub"] = "idle" /\ left' = left
            /\ ppc' = [ppc EXCEPT !["pub"] = "check"]
        BY <3>1 DEF ResetMax, Move, Types
      <4> QED
        BY <4>1 DEF Pushing, MadeRoom, Types, Producers, Noting
    <3>2. CASE ~ResetMax
      <4>1. ppc' = ppc /\ left' = left
        BY <1>3, <3>2 DEF Run, Spin, SpinEnd, TakeItem, Send, Drained, NotDue,
           Compose, ResetSize, BeatQueued, queueVars
      <4> QED
        BY <4>1 DEF Pushing, MadeRoom
    <3> QED
      BY <3>1, <3>2
  <2>2. Len(sendq') <= Len(sendq)
    <3>1. CASE TakeItem
      BY <3>1, RemoveFront DEF TakeItem, Types
    <3>2. CASE ~TakeItem
      <4>1. sendq' = sendq
        BY <1>3, <3>2 DEF Run, Spin, SpinEnd, Send, Drained, NotDue, Compose,
           ResetSize, ResetMax, BeatQueued, queueVars
      <4> QED
        BY <4>1 DEF Types
    <3> QED
      BY <3>1, <3>2
  <2> QED
    BY <2>1, <2>2, RoomKept DEF Types
<1>4. CASE UNCHANGED vars
  BY <1>4, RoomKept DEF vars, queueVars, Pushing, MadeRoom, Types
<1> QED
  BY <1>1, <1>2, <1>3, <1>4 DEF Next

\* Two producers that test and trim without the lock overrun the limit by one
\* message at most.
THEOREM Bounded == Spec => []QueueBound
<1>1. Types /\ Room => QueueBound
  <2> SUFFICES ASSUME Types, Room PROVE QueueBound
    OBVIOUS
  <2>1. Place("occ") \in {0, 1} /\ Place("pub") \in {0, 1} /\ Len(sendq) \in Nat
    BY DEF Place, Types
  <2> QED
    BY <2>1, ClientAssumption DEF Room, Taken, QueueBound, ClientAssumption
<1> QED
  BY <1>1, TypesInit, TypesStep, RoomInit, RoomStep, PTL DEF Spec

-----------------------------------------------------------------------------
(* The statistics.  A size is loaded before the push of the producer that  *)
(* loads it, whose place the queue then still has free.                    *)

MarkInv ==
  /\ max <= MaxQSize
  /\ stat.size # Junk => stat.size <= MaxQSize
  /\ \A p \in Producers : mark[p] <= MaxQSize
  /\ \A p \in Pushing : size[p] <= MaxQSize

\* What a producer past the size test may load is within the limit.
LEMMA LoadsWithinLimit ==
  ASSUME Types, Room, MarkInv, NEW p \in Pushing
  PROVE  \A n \in Reload(p) \cup Remark(p) : n \in Nat /\ n <= MaxQSize
<1>1. Place("occ") \in {0, 1} /\ Place("pub") \in {0, 1} /\ Len(sendq) \in Nat
  BY DEF Place, Types
<1>2. Place("occ") = 1 \/ Place("pub") = 1
  BY DEF Place, Pushing, Producers
<1>3. Len(sendq) <= MaxQSize
  BY <1>1, <1>2, ClientAssumption DEF Room, Taken, ClientAssumption
<1> QED
  BY <1>1, <1>3 DEF Reload, Remark, MarkInv, Pushing, Types

\* At the start the mark is within the limit and nothing is being added.
LEMMA MarkInit == Init => MarkInv
BY ClientAssumption DEF Init, MarkInv, Pushing, Noting, ClientAssumption

\* The steps of addToQueue record no size above the limit.
LEMMA MarkAdd ==
  ASSUME Types, Room, MarkInv, Room', NEW p \in Producers, AddToQueue(p)
  PROVE  MarkInv'
<1> USE DEF Types
<1>1. Len(sendq) \in Nat /\ MaxQSize \in Nat
  BY ClientAssumption DEF ClientAssumption
<1>2. ASSUME NEW n \in Nat, n <= MaxQSize, Load(p, n),
             UNCHANGED <<max, stat, mark>>, Pushing' \subseteq Pushing \cup {p}
      PROVE  MarkInv'
  BY <1>1, <1>2 DEF MarkInv, Load, Pushing
<1>3. ASSUME UNCHANGED <<max, stat, size, mark>>, Pushing' \subseteq Pushing
      PROVE  MarkInv'
  BY <1>1, <1>3 DEF MarkInv
<1>4. CASE SeeRoom(p)
  <2>1. Len(sendq) <= MaxQSize /\ Load(p, Len(sendq)) /\ UNCHANGED <<max, stat, mark>>
    BY <1>1, <1>4 DEF SeeRoom, HasRoom
  <2>2. Pushing' \subseteq Pushing \cup {p}
    BY <1>4 DEF SeeRoom, Goto, Pushing, Noting
  <2> QED
    BY <1>1, <1>2, <2>1, <2>2
<1>5. CASE TrimEnd(p)
  <2>1. MadeRoom(p) /\ Len(sendq) <= MaxQSize
    <3>1. MadeRoom(p)
      BY <1>5, HalfOfLimit DEF TrimEnd, Goto, MadeRoom
    <3>2. Place("occ") \in {0, 1} /\ Place("pub") \in {0, 1}
      BY DEF Place
    <3> QED
      BY <1>1, <3>1, <3>2 DEF Room, Taken
  <2>2. Load(p, Len(sendq)) /\ UNCHANGED <<max, stat, mark>>
    BY <1>5 DEF TrimEnd
  <2>3. Pushing' \subseteq Pushing \cup {p}
    BY <1>5 DEF TrimEnd, Goto, Pushing, Noting
  <2> QED
    BY <1>1, <1>2, <2>1, <2>2, <2>3
<1>6. CASE Note(p)
  <2>1. p \in Pushing /\ Pushing' \subseteq Pushing
    BY <1>6, NoteMoves DEF Pushing
  <2>2. \A n \in Reload(p) \cup Remark(p) : n \in Nat /\ n <= MaxQSize
    BY <2>1, LoadsWithinLimit
  <2>3. /\ mark[p] <= MaxQSize /\ max <= MaxQSize
        /\ \A q \in Pushing' \ {p} : size[q] <= MaxQSize
    BY <2>1 DEF MarkInv
  <2>4. CASE SetLimit(p)
    BY <1>1, <2>1, <2>4 DEF SetLimit, MarkInv, Stats
  <2>5. CASE SetSize(p) \/ ResetFigure(p)
    <3>1. /\ stat'.size = mark[p] /\ UNCHANGED <<max, size>>
          /\ mark' = mark \/ mark' = [mark EXCEPT ![p] = 0]
      BY <2>5 DEF SetSize, ResetFigure, LoadMark, Stats
    <3>2. ASSUME NEW q \in Producers PROVE mark'[q] <= MaxQSize
      <4>1. mark[q] <= MaxQSize
        BY DEF MarkInv
      <4>2. mark'[q] = mark[q] \/ mark'[q] = 0
        BY <3>1
      <4> QED
        BY <1>1, <4>1, <4>2
    <3> QED
      BY <2>1, <2>3, <3>1, <3>2 DEF MarkInv
  <2>6. CASE LoadMax(p) \/ ReloadMax(p)
    BY <1>1, <2>1, <2>2, <2>6
       DEF LoadMax, ReloadMax, LoadMark, MarkInv, Remark
  <2>7. CASE NotAbove(p) \/ Above(p)
    <3>1. /\ \E n \in Reload(p) \cup {0} : size' = [size EXCEPT ![p] = n]
          /\ mark' = [mark EXCEPT ![p] = 0] /\ UNCHANGED <<max, stat>>
      BY <2>7 DEF NotAbove, Above, Load, LoadMark
    <3>2. PICK n \in Reload(p) \cup {0} : size' = [size EXCEPT ![p] = n]
      BY <3>1
    <3>3. \A q \in Pushing : size'[q] <= MaxQSize
      BY <1>1, <2>2, <3>2 DEF MarkInv, Pushing
    <3>4. \A q \in Producers : mark'[q] <= MaxQSize
      BY <1>1, <3>1 DEF MarkInv
    <3> QED
      BY <2>1, <3>1, <3>3, <3>4 DEF MarkInv
  <2>8. CASE Raise(p)
    BY <1>1, <2>1, <2>2, <2>8 DEF Raise, Load, LoadMark, MarkInv, Pushing
  <2> QED
    BY <1>6, <2>4, <2>5, <2>6, <2>7, <2>8 DEF Note
<1>7. CASE SeeFull(p) \/ Trim(p) \/ Push(p)
  BY <1>3, <1>7 DEF SeeFull, Trim, Push, Goto, Pushing, Noting
<1> QED
  BY <1>4, <1>5, <1>6, <1>7 DEF AddToQueue

\* No step records or loads a size above the limit.
LEMMA MarkStep ==
  Types /\ Room /\ Room' /\ MarkInv /\ [Next]_vars => MarkInv'
<1> SUFFICES ASSUME Types, Room, Room', MarkInv, [Next]_vars PROVE MarkInv'
  OBVIOUS
<1> USE ClientAssumption DEF ClientAssumption
<1>1. ASSUME NEW p \in Producers, AddToQueue(p) PROVE MarkInv'
  BY <1>1, MarkAdd
<1>2. ASSUME UNCHANGED <<size, mark>>, Pushing' \subseteq Pushing,
             max' \in {0, max}, stat'.size \in {0, stat.size}
      PROVE  MarkInv'
  BY <1>2 DEF MarkInv
<1>3. CASE Publish
  BY <1>2, <1>3 DEF Publish, Goto, Pushing, Noting, Types
<1>4. CASE ResetSize
  BY <1>2, <1>4 DEF ResetSize, Pushing, Types, Stats
<1>5. CASE ResetMax
  BY <1>2, <1>5 DEF ResetMax, Pushing, Noting, Types
<1>6. CASE Run /\ ~ResetSize /\ ~ResetMax
  <2>1. UNCHANGED <<max, stat, ppc, size, mark>>
    BY <1>6 DEF Run, Spin, SpinEnd, TakeItem, Send, Drained, NotDue, Compose,
       BeatQueued, queueVars
  <2> QED
    BY <1>2, <2>1 DEF Pushing
<1>7. CASE UNCHANGED vars
  BY <1>2, <1>7 DEF vars, queueVars, Pushing
<1> QED
  BY <1>1, <1>3, <1>4, <1>5, <1>6, <1>7 DEF Next, Run

\* The high-water mark and the figure made from it stay within the limit, with
\* both threads measuring and resetting them without the lock.
THEOREM MarkWithinLimit == Spec => []MarkBound
<1>1. MarkInv => MarkBound
  BY DEF MarkInv, MarkBound
<1> QED
  BY <1>1, TypesInit, TypesStep, RoomInit, RoomStep, MarkInit, MarkStep, PTL
     DEF Spec

-----------------------------------------------------------------------------
(* The figures are initialised before the first push, by the producer that *)
(* pushes, and a reset does not undo that.                                 *)

Set == stat.size # Junk /\ stat.max # Junk

\* The places at which a producer has set the one figure, and both.
LimitSet == (Noting \ {"limit"}) \cup {"push"}

BothSet == LimitSet \ {"load", "note"}

JunkInv ==
  /\ sendq # <<>> => Set
  /\ \A p \in Producers :
       /\ ppc[p] \in LimitSet => stat.max # Junk
       /\ ppc[p] \in BothSet => Set

\* At the start no message waits.
LEMMA JunkInit == Init => JunkInv
BY DEF Init, JunkInv, Producers, BothSet, LimitSet, Noting

\* No step lets a message wait while the figures are uninitialised.
LEMMA JunkStep == Types /\ JunkInv /\ [Next]_vars => JunkInv'
<1> SUFFICES ASSUME Types, JunkInv, [Next]_vars PROVE JunkInv'
  OBVIOUS
<1> USE ClientAssumption DEF ClientAssumption, Types
<1>1. ASSUME Set' PROVE JunkInv'
  BY <1>1 DEF JunkInv, Set
<1>2. ASSUME stat.max # Junk => stat'.max # Junk, Set => Set',
             sendq' # <<>> => sendq # <<>> \/ Set,
             \A p \in Producers :
               /\ ppc'[p] \in LimitSet => ppc[p] \in LimitSet
               /\ ppc'[p] \in BothSet => ppc[p] \in BothSet
      PROVE  JunkInv'
  BY <1>2 DEF JunkInv
<1>3. ASSUME NEW p \in Producers, AddToQueue(p) PROVE JunkInv'
  <2>0. mark[p] \in Nat /\ mark[p] # Junk /\ MaxQSize # Junk
    OBVIOUS
  <2>1. CASE SetLimit(p)
    <3>1. /\ stat'.max = MaxQSize /\ stat'.size = stat.size
          /\ ppc' = [ppc EXCEPT ![p] = "load"] /\ sendq' = sendq
      BY <2>1 DEF SetLimit, Goto, Stats
    <3>2. stat'.max # Junk /\ (Set => Set')
      BY <2>0, <3>1 DEF Set
    <3>3. \A q \in Producers : ppc'[q] \in BothSet => ppc[q] \in BothSet
      BY <3>1 DEF BothSet
    <3> QED
      BY <3>1, <3>2, <3>3 DEF JunkInv
  <2>2. CASE SetSize(p) \/ ResetFigure(p)
    <3>1. stat'.size = mark[p] /\ stat'.max = stat.max /\ ppc[p] \in LimitSet
      BY <2>2 DEF SetSize, ResetFigure, Goto, Stats, LimitSet, Noting
    <3>2. stat.max # Junk
      BY <3>1 DEF JunkInv
    <3> QED
      BY <1>1, <2>0, <3>1, <3>2 DEF Set
  <2>3. CASE \/ LoadMax(p) \/ NotAbove(p) \/ Above(p) \/ Raise(p)
             \/ ReloadMax(p)
    <3>1. /\ UNCHANGED <<sendq, stat>>
          /\ \/ ppc[p] = "load" /\ ppc' = [ppc EXCEPT ![p] = "note"]
             \/ /\ ppc[p] \in {"compare", "raise", "reload"}
                /\ \E to \in Noting \cup {"push"} : ppc' = [ppc EXCEPT ![p] = to]
      BY <2>3 DEF LoadMax, NotAbove, Above, Raise, ReloadMax, Goto, Noting
    <3>2. \A q \in Producers :
            /\ ppc'[q] \in LimitSet => ppc[q] \in LimitSet
            /\ ppc'[q] \in BothSet => ppc[q] \in BothSet
      BY <3>1 DEF LimitSet, BothSet, Noting
    <3> QED
      BY <1>2, <3>1, <3>2 DEF Set
  <2>4. CASE Push(p)
    BY <1>1, <2>4 DEF Push, Goto, JunkInv, Set, BothSet, LimitSet
  <2>5. CASE SeeRoom(p) \/ SeeFull(p) \/ Trim(p) \/ TrimEnd(p)
    <3>1. stat' = stat
      BY <2>5 DEF SeeRoom, SeeFull, Trim, TrimEnd
    <3>2. sendq' # <<>> => sendq # <<>>
      BY <2>5 DEF SeeRoom, SeeFull, Trim, TrimEnd
    <3>3. \A q \in Producers :
            /\ ppc'[q] \in LimitSet => ppc[q] \in LimitSet
            /\ ppc'[q] \in BothSet => ppc[q] \in BothSet
      BY <2>5 DEF SeeRoom, SeeFull, Trim, TrimEnd, Goto, LimitSet, BothSet,
                  Noting
    <3> QED
      BY <1>2, <3>1, <3>2, <3>3 DEF Set
  <2> QED
    BY <1>3, <2>1, <2>2, <2>3, <2>4, <2>5 DEF AddToQueue, Note
<1>4. CASE Publish
  BY <1>2, <1>4 DEF Publish, Goto, Set, LimitSet, BothSet, Noting
<1>5. CASE ResetSize
  <2>1. stat'.max = stat.max /\ (Set => Set')
    BY <1>5 DEF ResetSize, Stats, Set
  <2> QED
    BY <1>2, <1>5, <2>1 DEF ResetSize
<1>6. CASE ResetMax
  BY <1>2, <1>6 DEF ResetMax, Set, LimitSet, BothSet, Noting
<1>7. CASE TakeItem
  BY <1>2, <1>7 DEF TakeItem, Set
<1>8. CASE \/ Spin \/ SpinEnd \/ Send \/ Drained \/ NotDue \/ Compose
           \/ BeatQueued \/ UNCHANGED vars
  <2>1. UNCHANGED <<sendq, stat, ppc>>
    BY <1>8 DEF Spin, SpinEnd, Send, Drained, NotDue, Compose, BeatQueued,
                vars, queueVars
  <2> QED
    BY <1>2, <2>1 DEF Set
<1> QED
  BY <1>3, <1>4, <1>5, <1>6, <1>7, <1>8 DEF Next, Run

\* While a message waits, the heartbeat's own figures are initialised.
THEOREM FiguresInitialised == Spec => []JunkOnlyAtFirst
<1>1. JunkInv => JunkOnlyAtFirst
  BY DEF JunkInv, JunkOnlyAtFirst, Set
<1> QED
  BY <1>1, TypesInit, TypesStep, JunkInit, JunkStep, PTL DEF Spec

\* Both: the heartbeat never reports a figure the queue cannot have had.
THEOREM FiguresAreSound == Spec => []FiguresSound
BY MarkWithinLimit, FiguresInitialised, PTL DEF FiguresSound

-----------------------------------------------------------------------------
(* The rest of the types: the variables only the items' way through the    *)
(* program concerns.                                                       *)

ItemTypes ==
  /\ live \subseteq Items
  /\ notify \in 0 .. NotifyCycle
  /\ item \in Items
  /\ report \in Stats
  /\ fate \in [1 .. MaxMsgs -> Fates]

\* The initial state has these types too.
LEMMA ItemTypesInit == Init => ItemTypes
BY ClientAssumption
   DEF Init, ItemTypes, ClientAssumption, Stats, Items, Beat, Fates

\* A message gets a fate, a heartbeat none.
LEMMA FateTyped ==
  ASSUME ItemTypes, NEW m \in Items, NEW f \in Fates, Fate(m, f)
  PROVE  fate' \in [1 .. MaxMsgs -> Fates]
BY ClientAssumption DEF ItemTypes, Items, Fate, Beat, ClientAssumption

\* No step leaves them.
LEMMA ItemTypesStep == Types /\ ItemTypes /\ [Next]_vars => ItemTypes'
<1> SUFFICES ASSUME Types, ItemTypes, [Next]_vars PROVE ItemTypes'
  OBVIOUS
<1> USE DEF ItemTypes
<1>1. Beat \in Items /\ made \in Items /\ NotifyCycle \in Nat
  BY ClientAssumption DEF Types, Beat, Items, ClientAssumption
<1>2. ASSUME NEW p \in Producers, AddToQueue(p) PROVE ItemTypes'
  <2>1. CASE Trim(p)
    <3>1. UNCHANGED <<notify, item, report>>
      BY <2>1 DEF Trim, runVars
    <3>2. CASE sendq = <<>>
      BY <2>1, <3>1, <3>2 DEF Trim
    <3>3. CASE sendq # <<>>
      <4>1. fate' \in [1 .. MaxMsgs -> Fates] /\ live' \subseteq live
        BY <2>1, <3>3, RemoveFront, FateTyped DEF Trim, Types, Fates
      <4> QED
        BY <3>1, <4>1
    <3> QED
      BY <3>2, <3>3
  <2>2. CASE ~Trim(p)
    BY <1>2, <2>2, NoteMoves
       DEF AddToQueue, SeeRoom, SeeFull, TrimEnd, Push, runVars
  <2> QED
    BY <2>1, <2>2
<1>3. CASE Publish
  BY <1>3, ClientAssumption
     DEF Publish, runVars, Types, Items, ClientAssumption
<1>4. CASE Spin
  BY <1>1, <1>4 DEF Spin
<1>5. CASE TakeItem
  BY <1>5, RemoveFront DEF TakeItem, Types
<1>6. CASE Send
  <2>1. fate' \in [1 .. MaxMsgs -> Fates]
    BY <1>6, FateTyped DEF Send, Fates
  <2> QED
    BY <1>6, <2>1 DEF Send
<1>7. CASE Compose
  BY <1>1, <1>7 DEF Compose, Types
<1>8. CASE \/ SpinEnd \/ Drained \/ NotDue \/ ResetSize \/ ResetMax
           \/ BeatQueued \/ UNCHANGED vars
  BY <1>8 DEF SpinEnd, Drained, NotDue, ResetSize, ResetMax, BeatQueued, vars,
              runVars
<1> QED
  BY <1>2, <1>3, <1>4, <1>5, <1>6, <1>7, <1>8 DEF Next, Run

-----------------------------------------------------------------------------
(* Where the items are.  Each is in one place: once in the queue, with the  *)
(* producer that adds it or with the client thread that sends it.  A new    *)
(* heartbeat is composed only once the last one left the queue, which was   *)
(* found empty since.                                                       *)

Composing == rpc \in {"due", "resetSize", "resetMax"}

OnePlace ==
  /\ \A i, j \in DOMAIN sendq : sendq[i] = sendq[j] => i = j
  /\ \A m \in Queued : m <= made
  /\ ppc["occ"] # "idle" => made # Beat /\ made \notin Queued
  /\ Composing \/ ppc["pub"] # "idle" => Beat \notin Queued
  /\ rpc = "send" => /\ item \notin Queued
                     /\ item <= made
                     /\ ppc["occ"] # "idle" => item # made

\* At the start there is no item.
LEMMA PlaceInit == Init => OnePlace
<1> SUFFICES ASSUME Init PROVE OnePlace
  OBVIOUS
<1>1. Queued = {} /\ DOMAIN sendq = {} /\ rpc = "spin"
  BY DEF Init, Queued
<1>2. ppc["occ"] = "idle" /\ ppc["pub"] = "idle"
  BY DEF Init, Producers
<1> QED
  BY <1>1, <1>2 DEF OnePlace, Composing

\* In a queue without repetition the rest lacks the item removed.
LEMMA RestApart ==
  ASSUME Types, OnePlace, sendq # <<>>, sendq' = Remaining
  PROVE  /\ Removed \in Queued
         /\ Queued' = Queued \ {Removed}
         /\ \A i, j \in DOMAIN sendq' : sendq'[i] = sendq'[j] => i = j
<1>1. /\ Len(sendq) \in Nat /\ Len(sendq) >= 1
      /\ DOMAIN sendq = 1 .. Len(sendq)
      /\ Removed = sendq[1]
      /\ DOMAIN sendq' = 1 .. Len(sendq) - 1
      /\ \A i \in DOMAIN sendq' : sendq'[i] = sendq[i + 1]
  BY DEF Types, Removed, Remaining
<1>2. \A i \in DOMAIN sendq : sendq[i] = sendq[1] => i = 1
  BY <1>1 DEF OnePlace
<1>3. \A i, j \in DOMAIN sendq' : sendq'[i] = sendq'[j] => i = j
  <2> SUFFICES ASSUME NEW i \in DOMAIN sendq', NEW j \in DOMAIN sendq',
                      sendq'[i] = sendq'[j]
               PROVE  i = j
    OBVIOUS
  <2>1. i + 1 \in DOMAIN sendq /\ j + 1 \in DOMAIN sendq
    BY <1>1
  <2>2. i + 1 = j + 1
    BY <1>1, <2>1 DEF OnePlace
  <2> QED
    BY <1>1, <2>2
<1>4. Queued' \subseteq Queued \ {Removed}
  <2> SUFFICES ASSUME NEW i \in DOMAIN sendq'
               PROVE  sendq'[i] \in Queued \ {Removed}
    BY DEF Queued
  <2>1. i + 1 \in DOMAIN sendq /\ i + 1 # 1
    BY <1>1
  <2> QED
    BY <1>1, <1>2, <2>1 DEF Queued
<1>5. Queued \ {Removed} \subseteq Queued'
  <2> SUFFICES ASSUME NEW i \in DOMAIN sendq, i # 1
               PROVE  sendq[i] \in Queued'
    BY <1>1 DEF Queued
  <2>1. i - 1 \in DOMAIN sendq' /\ sendq'[i - 1] = sendq[i]
    BY <1>1
  <2> QED
    BY <2>1 DEF Queued
<1>6. Removed \in Queued
  BY <1>1 DEF Queued
<1> QED
  BY <1>3, <1>4, <1>5, <1>6

\* A push adds the item to those that wait.
LEMMA PushAdds ==
  ASSUME Types, NEW p \in Producers, sendq' = Pushed(p), Adding(p) \notin Queued
  PROVE  /\ Queued' = Queued \cup {Adding(p)}
         /\ OnePlace =>
              \A i, j \in DOMAIN sendq' : sendq'[i] = sendq'[j] => i = j
<1>1. /\ Len(sendq) \in Nat /\ DOMAIN sendq = 1 .. Len(sendq)
      /\ DOMAIN sendq' = 1 .. Len(sendq) + 1
      /\ \A i \in DOMAIN sendq : sendq'[i] = sendq[i]
      /\ sendq'[Len(sendq) + 1] = Adding(p)
  BY DEF Types, Pushed
<1>2. \A i \in DOMAIN sendq : sendq[i] # Adding(p)
  BY DEF Queued
<1>3. Queued' = Queued \cup {Adding(p)}
  <2>1. DOMAIN sendq' = DOMAIN sendq \cup {Len(sendq) + 1}
    BY <1>1
  <2> QED
    BY <1>1, <2>1 DEF Queued
<1> QED
  BY <1>1, <1>2, <1>3 DEF OnePlace

\* A step that moves no item: a producer goes on with the one it adds, or
\* the client thread stays outside send.
LEMMA PlaceKept ==
  ASSUME OnePlace, UNCHANGED <<sendq, made, item>>,
         ppc'["occ"] # "idle" => ppc["occ"] # "idle",
         Composing' \/ ppc'["pub"] # "idle" => Composing \/ ppc["pub"] # "idle",
         rpc' = "send" => rpc = "send"
  PROVE  OnePlace'
BY DEF OnePlace, Queued

\* A removal by a producer that makes room.
LEMMA PlaceTrimmed ==
  ASSUME Types, OnePlace, sendq # <<>>, sendq' = Remaining,
         UNCHANGED <<made, ppc, rpc, item>>
  PROVE  OnePlace'
BY RestApart DEF OnePlace, Composing

\* Every step leaves each item in one place.
LEMMA PlaceStep == Types /\ ItemTypes /\ OnePlace /\ [Next]_vars => OnePlace'
<1> SUFFICES ASSUME Types, ItemTypes, OnePlace, [Next]_vars PROVE OnePlace'
  OBVIOUS
<1>1. ASSUME NEW p \in Producers, AddToQueue(p) PROVE OnePlace'
  <2>1. CASE SeeRoom(p) \/ SeeFull(p) \/ TrimEnd(p) \/ Note(p)
    <3>1. /\ UNCHANGED <<sendq, made, item, rpc>>
          /\ \A q \in Producers : ppc'[q] # "idle" => ppc[q] # "idle"
      BY <2>1, NoteMoves
         DEF SeeRoom, SeeFull, TrimEnd, Goto, runVars, Types, Noting
    <3> QED
      BY <3>1, PlaceKept DEF Producers, Composing
  <2>2. CASE Trim(p)
    BY <2>2, PlaceTrimmed, PlaceKept DEF Trim, runVars, Composing
  <2>3. CASE Push(p)
    <3>1. /\ ppc[p] = "push" /\ ppc' = [ppc EXCEPT ![p] = "idle"]
          /\ sendq' = Pushed(p) /\ UNCHANGED <<made, rpc, item>>
      BY <2>3 DEF Push, Goto, runVars
    <3>2. Adding(p) \notin Queued /\ Adding(p) <= made
      BY <3>1 DEF OnePlace, Adding, Producers, Beat, Types
    <3>3. /\ Queued' = Queued \cup {Adding(p)}
          /\ \A i, j \in DOMAIN sendq' : sendq'[i] = sendq'[j] => i = j
      BY <3>1, <3>2, PushAdds
    <3>4. CASE p = "occ"
      <4>1. Adding(p) = made /\ made # Beat /\ ppc'["occ"] = "idle"
        BY <3>1, <3>4 DEF Adding, OnePlace, Types
      <4>2. ppc'["pub"] = ppc["pub"] /\ Composing' = Composing
        BY <3>1, <3>4 DEF Types, Composing
      <4>3. rpc = "send" => item # made
        BY <3>1, <3>4 DEF OnePlace
      <4> QED
        BY <3>1, <3>2, <3>3, <4>1, <4>2, <4>3 DEF OnePlace
    <3>5. CASE p = "pub"
      <4>1. Adding(p) = Beat /\ ppc'["pub"] = "idle"
        BY <3>1, <3>5 DEF Adding, Types
      <4>2. rpc = "queue" /\ ~Composing'
        BY <3>1, <3>5 DEF Types, Composing
      <4>3. ppc'["occ"] = ppc["occ"]
        BY <3>1, <3>5 DEF Types
      <4> QED
        BY <3>1, <3>2, <3>3, <4>1, <4>2, <4>3 DEF OnePlace
    <3> QED
      BY <3>4, <3>5 DEF Producers
  <2> QED
    BY <1>1, <2>1, <2>2, <2>3 DEF AddToQueue
<1>2. CASE Publish
  <2>1. /\ ppc["occ"] = "idle" /\ ppc' = [ppc EXCEPT !["occ"] = "check"]
        /\ made' = made + 1 /\ UNCHANGED <<sendq, rpc, item>>
    BY <1>2 DEF Publish, Goto, runVars
  <2>2. made \in Nat /\ Queued \subseteq Nat /\ item \in Nat
    BY ClientAssumption
       DEF Types, ItemTypes, Queued, Items, ClientAssumption
  <2>3. Queued' = Queued /\ Composing' = Composing /\ ppc'["pub"] = ppc["pub"]
    BY <2>1 DEF Queued, Composing, Types
  <2>4. made' # Beat /\ made' \notin Queued /\ \A m \in Queued : m <= made'
    BY <2>1, <2>2 DEF OnePlace, Beat
  <2>5. rpc = "send" => item <= made' /\ item # made'
    BY <2>1, <2>2 DEF OnePlace
  <2> QED
    BY <2>1, <2>3, <2>4, <2>5 DEF OnePlace
<1>3. CASE TakeItem
  <2>1. /\ rpc = "drain" /\ rpc' = "send" /\ item' = Removed
        /\ sendq # <<>> /\ sendq' = Remaining /\ UNCHANGED <<made, ppc>>
    BY <1>3 DEF TakeItem, Move
  <2>2. ppc["pub"] = "idle" /\ ~Composing'
    BY <2>1 DEF Types, Composing
  <2> QED
    BY <2>1, <2>2, RestApart DEF OnePlace
<1>4. CASE Drained
  <2>1. Queued = {} /\ Queued' = {} /\ UNCHANGED <<sendq, made, ppc, item>>
    BY <1>4 DEF Drained, Queued, queueVars
  <2>2. rpc' = "due"
    BY <1>4 DEF Drained, Move
  <2> QED
    BY <2>1, <2>2 DEF OnePlace
<1>5. CASE ResetMax
  <2>1. /\ Composing /\ ~Composing' /\ rpc' = "queue"
        /\ ppc'["occ"] = ppc["occ"] /\ UNCHANGED <<sendq, made, item>>
    BY <1>5 DEF ResetMax, Move, Composing, Types
  <2> QED
    BY <2>1, PlaceKept
<1>6. CASE \/ Spin \/ SpinEnd \/ Send \/ NotDue \/ Compose \/ ResetSize
           \/ BeatQueued \/ UNCHANGED vars
  <2>1. /\ UNCHANGED <<sendq, made, ppc, item>>
        /\ Composing' => Composing
        /\ rpc' = "send" => rpc = "send"
    BY <1>6 DEF Spin, SpinEnd, Send, NotDue, Compose, ResetSize, BeatQueued,
                Move, vars, queueVars, runVars, Composing
  <2> QED
    BY <2>1, PlaceKept
<1> QED
  BY <1>1, <1>2, <1>3, <1>4, <1>5, <1>6 DEF Next, Run

-----------------------------------------------------------------------------
(* What is in use, part by part.                                           *)

AddedBy(p) == IF ppc[p] # "idle" THEN {Adding(p)} ELSE {}

Sending == IF rpc = "send" THEN {item} ELSE {}

BeatHeld == IF rpc \in {"resetSize", "resetMax"} THEN {Beat} ELSE {}

Parts == Queued \cup AddedBy("occ") \cup AddedBy("pub") \cup Sending
           \cup BeatHeld

LeakInv == live = Parts

\* NoLeak speaks of these parts.
LEMMA LeakParts == NoLeak <=> LeakInv
BY DEF NoLeak, LeakInv, Parts, AddedBy, Sending, BeatHeld, Producers

\* At the start nothing is allocated.
LEMMA LeakInit == Init => LeakInv
<1> SUFFICES ASSUME Init PROVE live = Parts
  BY DEF LeakInv
<1>1. Queued = {} /\ rpc = "spin" /\ live = {}
  BY DEF Init, Queued
<1>2. ppc["occ"] = "idle" /\ ppc["pub"] = "idle"
  BY DEF Init, Producers
<1> QED
  BY <1>1, <1>2 DEF Parts, AddedBy, Sending, BeatHeld

\* Every step allocates and deletes exactly what comes into and goes out of use.
LEMMA LeakStep ==
  Types /\ ItemTypes /\ OnePlace /\ LeakInv /\ [Next]_vars => LeakInv'
<1> SUFFICES ASSUME Types, ItemTypes, OnePlace, live = Parts, [Next]_vars
             PROVE  live' = Parts'
  BY DEF LeakInv
<1>1. ASSUME NEW p \in Producers, AddToQueue(p) PROVE live' = Parts'
  <2>1. Sending' = Sending /\ BeatHeld' = BeatHeld
    BY <1>1, NoteMoves DEF AddToQueue, SeeRoom, SeeFull, Trim, TrimEnd, Push,
                           runVars, Sending, BeatHeld
  <2>2. ASSUME ~Push(p)
        PROVE  AddedBy("occ")' = AddedBy("occ") /\ AddedBy("pub")' = AddedBy("pub")
    <3>1. /\ made' = made
          /\ \A q \in Producers : ppc'[q] = "idle" <=> ppc[q] = "idle"
      BY <1>1, <2>2, NoteMoves
         DEF AddToQueue, SeeRoom, SeeFull, Trim, TrimEnd, Goto, Types, Noting
    <3> QED
      BY <3>1 DEF AddedBy, Adding, Producers
  <2>3. CASE Trim(p)
    <3>1. ppc[p] = "trim" /\ ~Push(p)
      BY <2>3 DEF Trim, Push, Goto
    <3>2. CASE sendq = <<>>
      <4>1. Queued' = Queued /\ live' = live
        BY <2>3, <3>2 DEF Trim, Queued
      <4> QED
        BY <2>1, <2>2, <3>1, <4>1 DEF Parts
    <3>3. CASE sendq # <<>>
      <4>1. /\ sendq' = Remaining /\ live' = live \ {Removed}
            /\ Queued' = Queued \ {Removed} /\ Removed \in Queued
        BY <2>3, <3>3, RestApart DEF Trim
      <4>2. Removed \notin AddedBy("occ") \cup AddedBy("pub")
        BY <4>1 DEF OnePlace, AddedBy, Adding
      <4>3. Removed \notin Sending \cup BeatHeld
        BY <4>1 DEF OnePlace, Sending, BeatHeld, Composing
      <4> QED
        BY <2>1, <2>2, <3>1, <4>1, <4>2, <4>3 DEF Parts
    <3> QED
      BY <3>2, <3>3
  <2>4. CASE Push(p)
    <3>1. /\ ppc[p] = "push" /\ ppc' = [ppc EXCEPT ![p] = "idle"]
          /\ sendq' = Pushed(p) /\ UNCHANGED <<made, live>>
      BY <2>4 DEF Push, Goto
    <3>2. Adding(p) \notin Queued
      BY <3>1 DEF OnePlace, Adding, Producers
    <3>3. Queued' = Queued \cup {Adding(p)}
      BY <3>1, <3>2, PushAdds
    <3>4. \A q \in Producers \ {p} : AddedBy(q)' = AddedBy(q)
      BY <3>1 DEF AddedBy, Adding, Types
    <3>5. AddedBy(p) = {Adding(p)} /\ AddedBy(p)' = {}
      BY <3>1 DEF AddedBy, Types
    <3>6. \/ p = "occ" /\ AddedBy("pub")' = AddedBy("pub")
          \/ p = "pub" /\ AddedBy("occ")' = AddedBy("occ")
      BY <3>4 DEF Producers
    <3> QED
      BY <2>1, <3>1, <3>3, <3>5, <3>6 DEF Parts
  <2>5. CASE SeeRoom(p) \/ SeeFull(p) \/ TrimEnd(p) \/ Note(p)
    <3>1. UNCHANGED <<live, sendq>> /\ ~Push(p)
      BY <2>5, NoteMoves DEF SeeRoom, SeeFull, TrimEnd, Push, Goto, Noting
    <3>2. Queued' = Queued
      BY <3>1 DEF Queued
    <3> QED
      BY <2>1, <2>2, <3>1, <3>2 DEF Parts
  <2> QED
    BY <1>1, <2>3, <2>4, <2>5 DEF AddToQueue
<1>2. CASE Publish
  <2>1. /\ ppc["occ"] = "idle" /\ ppc' = [ppc EXCEPT !["occ"] = "check"]
        /\ made' = made + 1 /\ live' = live \cup {made + 1}
        /\ UNCHANGED <<sendq, rpc, item>>
    BY <1>2 DEF Publish, Goto, runVars
  <2>2. /\ Queued' = Queued /\ Sending' = Sending /\ BeatHeld' = BeatHeld
        /\ AddedBy("pub")' = AddedBy("pub")
    BY <2>1 DEF Queued, Sending, BeatHeld, AddedBy, Adding, Types
  <2>3. AddedBy("occ") = {} /\ AddedBy("occ")' = {made + 1}
    BY <2>1 DEF AddedBy, Adding, Types, Producers
  <2> QED
    BY <2>1, <2>2, <2>3 DEF Parts
<1>3. CASE Run
  <2>1. ASSUME ppc' = ppc, made' = made
        PROVE  AddedBy("occ")' = AddedBy("occ") /\ AddedBy("pub")' = AddedBy("pub")
    BY <2>1 DEF AddedBy, Adding
  <2>2. CASE TakeItem
    <3>1. /\ rpc = "drain" /\ rpc' = "send" /\ item' = Removed
          /\ UNCHANGED <<live, made, ppc>>
      BY <2>2 DEF TakeItem, Move
    <3>2. Queued' = Queued \ {Removed} /\ Removed \in Queued
      BY <2>2, RestApart DEF TakeItem
    <3>3. Sending = {} /\ Sending' = {Removed} /\ BeatHeld = {} /\ BeatHeld' = {}
      BY <3>1 DEF Sending, BeatHeld
    <3> QED
      BY <2>1, <3>1, <3>2, <3>3 DEF Parts
  <2>3. CASE Send
    <3>1. /\ rpc = "send" /\ rpc' = "drain" /\ live' = live \ {item}
          /\ UNCHANGED <<sendq, made, ppc>>
      BY <2>3 DEF Send, Move, queueVars
    <3>2. Queued' = Queued
      BY <3>1 DEF Queued
    <3>3. /\ Sending = {item} /\ Sending' = {}
          /\ BeatHeld = {} /\ BeatHeld' = {}
      BY <3>1 DEF Sending, BeatHeld
    <3>4. item \notin Queued \cup AddedBy("occ") \cup AddedBy("pub")
      BY <3>1 DEF OnePlace, AddedBy, Adding, Types
    <3> QED
      BY <2>1, <3>1, <3>2, <3>3, <3>4 DEF Parts
  <2>4. CASE Compose
    <3>1. /\ rpc = "due" /\ rpc' = "resetSize" /\ live' = live \cup {Beat}
          /\ UNCHANGED <<sendq, made, ppc>>
      BY <2>4 DEF Compose, Move, queueVars
    <3>2. /\ Queued' = Queued /\ Sending = {} /\ Sending' = {}
          /\ BeatHeld = {} /\ BeatHeld' = {Beat}
      BY <3>1 DEF Queued, Sending, BeatHeld
    <3> QED
      BY <2>1, <3>1, <3>2 DEF Parts
  <2>5. CASE ResetMax
    <3>1. /\ rpc = "resetMax" /\ rpc' = "queue" /\ ppc["pub"] = "idle"
          /\ ppc' = [ppc EXCEPT !["pub"] = "check"]
          /\ UNCHANGED <<sendq, made, live>>
      BY <2>5 DEF ResetMax, Move, Types
    <3>2. /\ AddedBy("pub") = {} /\ AddedBy("pub")' = {Beat}
          /\ AddedBy("occ")' = AddedBy("occ")
      BY <3>1 DEF AddedBy, Adding, Types, Producers
    <3>3. /\ Queued' = Queued /\ Sending = {} /\ Sending' = {}
          /\ BeatHeld = {Beat} /\ BeatHeld' = {}
      BY <3>1 DEF Queued, Sending, BeatHeld
    <3> QED
      BY <3>1, <3>2, <3>3 DEF Parts
  <2>6. CASE \/ Spin \/ SpinEnd \/ Drained \/ NotDue \/ ResetSize \/ BeatQueued
    <3>1. UNCHANGED <<sendq, made, ppc, live>>
      BY <2>6 DEF Spin, SpinEnd, Drained, NotDue, ResetSize, BeatQueued,
                  queueVars
    <3>2. Queued' = Queued /\ Sending' = Sending /\ BeatHeld' = BeatHeld
      BY <2>6, <3>1 DEF Spin, SpinEnd, Drained, NotDue, ResetSize, BeatQueued,
                        Move, Queued, Sending, BeatHeld
    <3> QED
      BY <2>1, <3>1, <3>2 DEF Parts
  <2> QED
    BY <1>3, <2>2, <2>3, <2>4, <2>5, <2>6 DEF Run
<1>4. CASE UNCHANGED vars
  BY <1>4 DEF vars, queueVars, runVars, Parts, Queued, AddedBy, Adding, Sending,
              BeatHeld
<1> QED
  BY <1>1, <1>2, <1>3, <1>4 DEF Next

\* Two threads that make room in one queue, sends that fail and heartbeats
\* leak no item and delete none that is still referenced.
THEOREM NoItemLeaks == Spec => []NoLeak
BY TypesInit, TypesStep, ItemTypesInit, ItemTypesStep, PlaceInit, PlaceStep,
   LeakInit, LeakStep, LeakParts, PTL DEF Spec

\* Every variable keeps its type, and the item the client thread sends is
\* allocated, whatever the filter thread trims meanwhile.
THEOREM TypeCorrect == Spec => []TypeOK
<1>1. Types /\ ItemTypes /\ NoLeak => TypeOK
  BY DEF Types, ItemTypes, NoLeak, TypeOK, ToDrop
<1> QED
  BY <1>1, TypesInit, TypesStep, ItemTypesInit, ItemTypesStep, NoItemLeaks, PTL
     DEF Spec
=============================================================================
