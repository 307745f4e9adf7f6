----------------------------- MODULE LossyFifo -----------------------------
(***************************************************************************)
(* What the path of a target list from a radar thread to the broker        *)
(* promises, whatever the queues, trims, drains and failed sends on it:    *)
(* a message may be lost anywhere, but the messages of one source arrive   *)
(* in the order they were accepted, and none arrives twice.  A source      *)
(* numbers its messages, so sets say all about their order.                *)
(***************************************************************************)
EXTENDS Naturals

CONSTANTS
  Sources,    \* the radars
  MaxNumber   \* bound: a source numbers its messages 1 .. MaxNumber

VARIABLES
  chan,       \* the messages on the way, <<source, number>>
  delivered   \* the messages that arrived

fifoVars == <<chan, delivered>>

\* Of one source, and handed over before.
Older(k, m) == k[1] = m[1] /\ k[2] < m[2]

FifoInit == chan = {} /\ delivered = {}

\* A source hands over a message newer than all it handed over before, but
\* for those lost.
Accept(m) ==
  /\ \A k \in chan \cup delivered : k[1] = m[1] => Older(k, m)
  /\ chan' = chan \cup {m}
  /\ UNCHANGED delivered

Lose(m) ==
  /\ m \in chan
  /\ chan' = chan \ {m}
  /\ UNCHANGED delivered

\* The oldest of its source arrives.
Deliver(m) ==
  /\ m \in chan
  /\ \A k \in chan : ~Older(k, m)
  /\ chan' = chan \ {m}
  /\ delivered' = delivered \cup {m}

FifoNext == \E m \in Sources \X (1 .. MaxNumber) :
              Accept(m) \/ Lose(m) \/ Deliver(m)

FifoSpec == FifoInit /\ [][FifoNext]_fifoVars
=============================================================================
