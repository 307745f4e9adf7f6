----------------------------- MODULE PubClient -----------------------------
(***************************************************************************)
(* The outgoing message queue (PUBClient.cpp).  Two threads put messages   *)
(* into it: the filter thread through publish, and the client's own thread *)
(* through sendHeartBeat; that same thread takes them out and sends them.  *)
(*                                                                         *)
(* addToQueue tests the size without the lock, makes room by dropping the  *)
(* oldest half one by one, keeps its statistics without the lock as well,  *)
(* and locks only to push.  Each locked part is one access to the queue,   *)
(* so it is one step and the lock itself needs no variable; each unlocked  *)
(* load or store of a statistic is a step.                                 *)
(*                                                                         *)
(* size() and max are read several times without synchronisation and       *)
(* nothing in between forces a new load, so a later read returns what is   *)
(* there now or the value loaded before (Reload, Remark).                  *)
(***************************************************************************)
EXTENDS Naturals, Sequences, FiniteSets

CONSTANTS
  MaxQSize,     \* max_q_size: 60 in main.cpp, 5 by default
  NotifyCycle,  \* notifyCycle: passes run() spins before its first round
  BeatAfter,    \* the 20 of "heartbeat++ > 20"
  MaxMsgs,      \* bound: messages the filter thread publishes
  Junk          \* an int member no constructor sets

ASSUME ClientAssumption ==
  /\ MaxQSize \in Nat /\ MaxQSize >= 2  \* half of one is no room at all
  /\ NotifyCycle \in Nat
  /\ BeatAfter \in Nat
  /\ MaxMsgs \in Nat
  /\ Junk \notin Nat

VARIABLES
  sendq,      \* queue<q_item_t *>, oldest first
  max,        \* the high-water mark since the last heartbeat
  stat,       \* PUBSUBQSize and PUBSUBQMax as the heartbeat will report them
  made,       \* how many messages the filter thread has published
  ppc,        \* per producer, where it is in addToQueue
  left,       \* per producer, how many items it still drops
  size,       \* per producer, the size() it loaded last (0: of no more use)
  mark,       \* per producer, the max it loaded last (0: of no more use)
  live,       \* the q_item_t blocks allocated and not deleted
  rpc,        \* where the client thread is in run / sendHeartBeat
  notify,     \* run's counter of spins, up to NotifyCycle
  heartbeat,  \* run's counter of rounds since the last heartbeat
  item,       \* the item run took last
  report,     \* what the last heartbeat reported
  fate        \* history: what became of each message

queueVars == <<sendq, max, stat, ppc, left, size, mark>>
runVars == <<rpc, notify, heartbeat, item, report>>
vars == <<queueVars, made, live, runVars, fate>>

Producers == {"occ", "pub"}

\* The messages of the filter thread are numbered; a heartbeat is Beat.
Beat == 0
Items == 0 .. MaxMsgs

Fates == {"none", "sent", "failed", "trimmed"}

Stats == [size : Nat \cup {Junk}, max : Nat \cup {Junk}]

Queued == {sendq[i] : i \in DOMAIN sendq}

\* The item producer p is adding.
Adding(p) == IF p = "occ" THEN made ELSE Beat

\* The places of addToQueue after the test and the trim, the push last.
Noting == {"limit", "load", "note", "compare", "raise", "reload", "renote"}

Places == {"idle", "check", "trim", "push"} \cup Noting

Pushing == {p \in Producers : ppc[p] \in Noting \cup {"push"}}

\* The types, that the client thread sends an item it took, and that it is
\* inside addToQueue only while it queues a heartbeat.
TypeOK ==
  /\ sendq \in Seq(Items)
  /\ max \in Nat
  /\ stat \in Stats
  /\ made \in 0 .. MaxMsgs
  /\ ppc \in [Producers -> Places]
  /\ left \in [Producers -> 0 .. MaxQSize \div 2]
  /\ size \in [Producers -> Nat]
  /\ mark \in [Producers -> Nat]
  /\ live \subseteq Items
  /\ rpc \in {"spin", "drain", "send", "due", "resetSize", "resetMax", "queue"}
  /\ notify \in 0 .. NotifyCycle
  /\ heartbeat \in 0 .. BeatAfter + 1
  /\ item \in Items
  /\ rpc = "send" => item \in live
  /\ rpc # "queue" => ppc["pub"] = "idle"
  /\ report \in Stats
  /\ fate \in [1 .. MaxMsgs -> Fates]

Init ==
  /\ sendq = <<>>
  /\ max = 0
  /\ stat = [size |-> Junk, max |-> Junk]
  /\ made = 0
  /\ ppc = [p \in Producers |-> "idle"]
  /\ left = [p \in Producers |-> 0]
  /\ size = [p \in Producers |-> 0]
  /\ mark = [p \in Producers |-> 0]
  /\ live = {}
  /\ rpc = "spin"
  /\ notify = 0
  /\ heartbeat = 0
  /\ item = Beat
  /\ report = [size |-> 0, max |-> 0]
  /\ fate = [m \in 1 .. MaxMsgs |-> "none"]

-----------------------------------------------------------------------------
(* addToQueue, by either producer. *)

Goto(p, from, to) == ppc[p] = from /\ ppc' = [ppc EXCEPT ![p] = to]

Fate(m, f) == fate' = IF m = Beat THEN fate ELSE [fate EXCEPT ![m] = f]

\* What removeFromQueue returns, and what it leaves.
Removed_Newest == sendq[Len(sendq)]

Removed == Head(sendq)

Remaining == Tail(sendq)

\* The test of addToQueue, without the lock.
HasRoom_OffByOne == Len(sendq) <= MaxQSize

HasRoom == Len(sendq) < MaxQSize

Load(p, n) == size' = [size EXCEPT ![p] = n]

SeeRoom(p) ==
  /\ Goto(p, "check", "limit")
  /\ HasRoom
  /\ Load(p, Len(sendq))
  /\ UNCHANGED <<sendq, max, stat, left, mark, made, live, runVars, fate>>

ToDrop_None == 0

ToDrop == MaxQSize \div 2

SeeFull(p) ==
  /\ Goto(p, "check", "trim")
  /\ ~HasRoom
  /\ left' = [left EXCEPT ![p] = ToDrop]
  /\ UNCHANGED <<sendq, max, stat, size, mark, made, live, runVars, fate>>

Trim_UntilRemoved(p) ==
  /\ ppc[p] = "trim"
  /\ left[p] > 0
  /\ sendq # <<>>
  /\ left' = [left EXCEPT ![p] = @ - 1]
  /\ sendq' = Remaining
  /\ live' = live \ {Removed}
  /\ Fate(Removed, "trimmed")
  /\ UNCHANGED <<max, stat, ppc, size, mark, made, runVars>>

Trim_Leaks(p) ==
  /\ ppc[p] = "trim"
  /\ left[p] > 0
  /\ left' = [left EXCEPT ![p] = @ - 1]
  /\ IF sendq = <<>>
     THEN UNCHANGED <<sendq, fate>>
     ELSE sendq' = Remaining /\ Fate(Removed, "trimmed")
  /\ UNCHANGED <<max, stat, ppc, size, mark, made, live, runVars>>

\* One turn of the loop that makes room; the queue may have emptied since.
Trim(p) ==
  /\ ppc[p] = "trim"
  /\ left[p] > 0
  /\ left' = [left EXCEPT ![p] = @ - 1]
  /\ IF sendq = <<>>
     THEN UNCHANGED <<sendq, live, fate>>
     ELSE /\ sendq' = Remaining
          /\ live' = live \ {Removed}
          /\ Fate(Removed, "trimmed")
  /\ UNCHANGED <<max, stat, ppc, size, mark, made, runVars>>

\* The loop called functions that may have changed anything: load anew.
TrimEnd(p) ==
  /\ Goto(p, "trim", "limit")
  /\ left[p] = 0
  /\ Load(p, Len(sendq))
  /\ UNCHANGED <<sendq, max, stat, left, mark, made, live, runVars, fate>>

Reload(p) == {size[p], Len(sendq)}

Remark(p) == {mark[p], max}

LoadMark(p, n) == mark' = [mark EXCEPT ![p] = n]

\* setHeartPUBSUBQMax.
SetLimit(p) ==
  /\ Goto(p, "limit", "load")
  /\ stat' = [stat EXCEPT !.max = MaxQSize]
  /\ UNCHANGED <<sendq, max, left, size, mark, made, live, runVars, fate>>

\* setHeartPUBSUBQSize(max): max is loaded ...
LoadMax(p) ==
  /\ Goto(p, "load", "note")
  /\ LoadMark(p, max)
  /\ UNCHANGED <<sendq, max, stat, left, size, made, live, runVars, fate>>

\* ... and stored as the heartbeat's figure, before the size is compared.
SetSize(p) ==
  /\ Goto(p, "note", "compare")
  /\ stat' = [stat EXCEPT !.size = mark[p]]
  /\ UNCHANGED <<sendq, max, left, size, mark, made, live, runVars, fate>>

NotAbove(p) ==
  /\ Goto(p, "compare", "push")
  /\ \E n \in Reload(p), m \in Remark(p) : n <= m
  /\ Load(p, 0) /\ LoadMark(p, 0)
  /\ UNCHANGED <<sendq, max, stat, left, made, live, runVars, fate>>

Above(p) ==
  /\ Goto(p, "compare", "raise")
  /\ \E n \in Reload(p), m \in Remark(p) : n > m /\ Load(p, n)
  /\ LoadMark(p, 0)
  /\ UNCHANGED <<sendq, max, stat, left, made, live, runVars, fate>>

Raise(p) ==
  /\ Goto(p, "raise", "reload")
  /\ \E n \in Reload(p) : max' = n /\ LoadMark(p, n)
  /\ Load(p, 0)
  /\ UNCHANGED <<sendq, stat, left, made, live, runVars, fate>>

\* Both setters again; PUBSUBQMax has had its only value since SetLimit.
ReloadMax(p) ==
  /\ Goto(p, "reload", "renote")
  /\ \E m \in Remark(p) : LoadMark(p, m)
  /\ UNCHANGED <<sendq, max, stat, left, size, made, live, runVars, fate>>

ResetFigure(p) ==
  /\ Goto(p, "renote", "push")
  /\ stat' = [stat EXCEPT !.size = mark[p]]
  /\ LoadMark(p, 0)
  /\ UNCHANGED <<sendq, max, left, size, made, live, runVars, fate>>

Note(p) == \/ SetLimit(p) \/ LoadMax(p) \/ SetSize(p) \/ NotAbove(p)
           \/ Above(p) \/ Raise(p) \/ ReloadMax(p) \/ ResetFigure(p)

Pushed(p) == Append(sendq, Adding(p))

Push(p) ==
  /\ Goto(p, "push", "idle")
  /\ sendq' = Pushed(p)
  /\ UNCHANGED <<max, stat, left, size, mark, made, live, runVars, fate>>

AddToQueue(p) == \/ SeeRoom(p) \/ SeeFull(p) \/ Trim(p) \/ TrimEnd(p)
                 \/ Note(p) \/ Push(p)

-----------------------------------------------------------------------------
(* publish, called by the filter thread from Occupancy::notify. *)

Publish ==
  /\ Goto("occ", "idle", "check")
  /\ made < MaxMsgs
  /\ made' = made + 1
  /\ live' = live \cup {made + 1}
  /\ UNCHANGED <<sendq, max, stat, left, size, mark, runVars, fate>>

-----------------------------------------------------------------------------
(* The client thread: run, send and sendHeartBeat. *)

Move(from, to) == rpc = from /\ rpc' = to

\* "if (notify++ < notifyCycle) continue": only the first rounds.
Spin ==
  /\ rpc = "spin"
  /\ notify < NotifyCycle
  /\ notify' = notify + 1
  /\ UNCHANGED <<queueVars, made, live, rpc, heartbeat, item, report, fate>>

SpinEnd ==
  /\ Move("spin", "drain")
  /\ notify = NotifyCycle
  /\ UNCHANGED <<queueVars, made, live, notify, heartbeat, item, report, fate>>

TakeItem ==
  /\ Move("drain", "send")
  /\ sendq # <<>>
  /\ item' = Removed
  /\ sendq' = Remaining
  /\ UNCHANGED <<max, stat, ppc, left, size, mark, made, live, notify,
                 heartbeat, report, fate>>

\* async_publish may fail: send prints an error and run deletes the item as
\* if it had been sent.
Send ==
  /\ Move("send", "drain")
  /\ live' = live \ {item}
  /\ \E f \in {"sent", "failed"} : Fate(item, f)
  /\ UNCHANGED <<queueVars, made, notify, heartbeat, item, report>>

Drained_Unchecked ==
  /\ Move("drain", "send")
  /\ sendq = <<>>
  /\ UNCHANGED <<queueVars, made, live, notify, heartbeat, item, report, fate>>

Drained ==
  /\ Move("drain", "due")
  /\ sendq = <<>>
  /\ UNCHANGED <<queueVars, made, live, notify, heartbeat, item, report, fate>>

NotDue_Resets ==
  /\ Move("due", "spin")
  /\ heartbeat <= BeatAfter
  /\ heartbeat' = 0
  /\ UNCHANGED <<queueVars, made, live, notify, item, report, fate>>

NotDue ==
  /\ Move("due", "spin")
  /\ heartbeat <= BeatAfter
  /\ heartbeat' = heartbeat + 1
  /\ UNCHANGED <<queueVars, made, live, notify, item, report, fate>>

\* sendHeartBeat allocates the item and copies the figures into it ...
Compose ==
  /\ Move("due", "resetSize")
  /\ heartbeat > BeatAfter
  /\ live' = live \cup {Beat}
  /\ report' = stat
  /\ UNCHANGED <<queueVars, made, notify, heartbeat, item, fate>>

\* ... resets PUBSUBQSize, then max ...
ResetSize ==
  /\ Move("resetSize", "resetMax")
  /\ stat' = [stat EXCEPT !.size = 0]
  /\ UNCHANGED <<sendq, max, ppc, left, size, mark, made, live, notify,
                 heartbeat, item, report, fate>>

\* ... and calls addToQueue.
ResetMax ==
  /\ Move("resetMax", "queue")
  /\ max' = 0
  /\ ppc' = [ppc EXCEPT !["pub"] = "check"]
  /\ UNCHANGED <<sendq, stat, left, size, mark, made, live, notify, heartbeat,
                 item, report, fate>>

BeatQueued ==
  /\ Move("queue", "spin")
  /\ ppc["pub"] = "idle"
  /\ heartbeat' = 0
  /\ UNCHANGED <<queueVars, made, live, notify, item, report, fate>>

Run == \/ Spin \/ SpinEnd \/ TakeItem \/ Send \/ Drained \/ NotDue
       \/ Compose \/ ResetSize \/ ResetMax \/ BeatQueued

-----------------------------------------------------------------------------
Next == Publish \/ Run \/ \E p \in Producers : AddToQueue(p)

Spec == Init /\ [][Next]_vars

(* Both threads run until the process ends; nothing makes the filter       *)
(* thread publish, and no locked part is long enough to keep another out.  *)
Fairness == WF_vars(Run) /\ \A p \in Producers : WF_vars(AddToQueue(p))

FairSpec == Spec /\ Fairness

-----------------------------------------------------------------------------
(* Correctness. *)

\* With two producers and unlocked tests and trims the queue is never more
\* than one item over its limit.
QueueBound == Len(sendq) <= MaxQSize + 1

\* Exactly the items that wait, are being added or are being sent are
\* allocated: no trim, failed send or heartbeat leaks one or deletes one that
\* is still referenced.
NoLeak ==
  live = Queued
    \cup {Adding(p) : p \in {q \in Producers : ppc[q] # "idle"}}
    \cup (IF rpc = "send" THEN {item} ELSE {})
    \cup (IF rpc \in {"resetSize", "resetMax"} THEN {Beat} ELSE {})

\* The mark never exceeds the limit, although the queue may: the size is taken
\* before the push, and a reset between two racing threads cannot bring back
\* a larger one.
MarkBound == max <= MaxQSize /\ (stat.size # Junk => stat.size <= MaxQSize)

\* An uninitialised figure is never reported again once a message was queued.
JunkOnlyAtFirst == sendq # <<>> => stat.size # Junk /\ stat.max # Junk

\* What a heartbeat reports of the queue it passed through is a size the queue
\* may have, for every interleaving of the unlocked updates and resets.
FiguresSound == MarkBound /\ JunkOnlyAtFirst

\* Every message the filter thread publishes is sent, lost or trimmed.
MessagesSettle == \A m \in 1 .. MaxMsgs : made = m ~> fate[m] # "none"

\* The heartbeat keeps coming once the filter thread falls silent (while it
\* keeps up with the client thread, the inner loop of run has no end).
BeatsGoOn == (<>[](ppc["occ"] = "idle")) => []<>(rpc = "queue")
=============================================================================
