------------------------------ MODULE Pipeline ------------------------------
(***************************************************************************)
(* The whole path: radar threads -> OccupancyQueue -> filter thread ->     *)
(* PubClient -> broker.  The filter thread is the consumer of the first    *)
(* queue and a producer of the second: Occupancy::notify calls             *)
(* PUBClient::publish and returns only when its addToQueue has, so the     *)
(* filter thread takes no further step of run before that.                 *)
(*                                                                         *)
(* content is a history variable: which frame the m-th message carries.    *)
(***************************************************************************)
EXTENDS OccupancyQueue

CONSTANTS PubMaxQSize, NotifyCycle, BeatAfter

VARIABLES psendq, pmax, pstat, pmade, pppc, pleft, psize, pmark, plive, prpc,
          pnotify, pheartbeat, pitem, preport, pfate, content

pvars == <<psendq, pmax, pstat, pmade, pppc, pleft, psize, pmark, plive, prpc,
           pnotify, pheartbeat, pitem, preport, pfate>>

Client == INSTANCE PubClient WITH
  MaxQSize <- PubMaxQSize, MaxMsgs <- Cardinality(Frames),
  sendq <- psendq, max <- pmax, stat <- pstat, made <- pmade, ppc <- pppc,
  left <- pleft, size <- psize, mark <- pmark, live <- plive,
  rpc <- prpc, notify <- pnotify, heartbeat <- pheartbeat, item <- pitem,
  report <- preport, fate <- pfate

PipeVars == <<vars, pvars, content>>

PipeInit == Init /\ Client!Init /\ content = <<>>

\* The filter thread is not inside PUBClient::addToQueue.
FilterReturned == pppc["occ"] = "idle"

\* Some target of the list survives the filter: a message is published.
NotifyTargets ==
  /\ Notify
  /\ Client!Publish
  /\ content' = Append(content, citem)

\* formatMQTTMessage leaves nothing: no message.
NotifyNothing ==
  /\ Notify
  /\ UNCHANGED <<pvars, content>>

FilterStep ==
  /\ FilterReturned
  /\ Take \/ TakeNothing \/ IdlePoll \/ Filter \/ FreeList
  /\ UNCHANGED <<pvars, content>>

RadarStep ==
  /\ \E r \in Radars : Producer(r)
  /\ UNCHANGED <<pvars, content>>

ClientStep ==
  /\ Client!Run \/ \E p \in Client!Producers : Client!AddToQueue(p)
  /\ UNCHANGED <<vars, content>>

PipeNext == NotifyTargets \/ NotifyNothing \/ FilterStep \/ RadarStep \/ ClientStep

PipeSpec == PipeInit /\ [][PipeNext]_PipeVars

-----------------------------------------------------------------------------
(* The path implements LossyFifo: on the way are the frames of the first  *)
(* queue, the one the filter works on, and those of the messages that are  *)
(* being added to the client's queue, are in it or are being sent.         *)

InFilter == IF cpc \in {"filter", "notify"} THEN {citem} ELSE {}

Carried ==
  (Client!Queued \cup (IF FilterReturned THEN {} ELSE {pmade})
                 \cup (IF prpc = "send" THEN {pitem} ELSE {})) \ {Client!Beat}

OnTheWay == Queued \cup InFilter \cup {content[m] : m \in Carried}

Arrived == {content[m] : m \in {k \in DOMAIN content : pfate[k] = "sent"}}

Fifo == INSTANCE LossyFifo WITH
  Sources <- Radars, MaxNumber <- MaxFrames,
  chan <- OnTheWay, delivered <- Arrived

\* From publish to the broker, each radar's lists arrive in order and at most
\* once, whatever is drained, trimmed, filtered out or fails to be sent.
ImplementsFifo == Fifo!FifoSpec
=============================================================================
