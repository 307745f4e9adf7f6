----------------------------- MODULE RadarFrame -----------------------------
(***************************************************************************)
(* One radar thread (ISysRadar::run): it reads what the device has sent    *)
(* over SPI, decodes the target lists in it, collects their targets and    *)
(* publishes the collection once per notify cycle.                         *)
(*                                                                         *)
(* The device sends list after list: a head (8 bytes with the number of    *)
(* targets), a record of 24 bytes per target, a tail (8 bytes).  A read    *)
(* takes whatever has arrived, so it may begin and end anywhere, in the    *)
(* middle of a token too.  The decoder starts every read afresh and moves  *)
(* from token to token; it tests the first four bytes of a head or tail,   *)
(* also where the read ends before them, and then sees what an earlier     *)
(* read left in the buffer.                                                *)
(*                                                                         *)
(* The device finishes a list it has begun, also when it is stopped and    *)
(* started; this, and how it sends a clipped list (0xff and no records),   *)
(* is taken from how the decoder reads.                                    *)
(***************************************************************************)
EXTENDS Naturals, Sequences, SequencesExt

CONSTANTS
  MaxTargets,  \* MAX_TARGETS, 255; as the number in a head it means clipping
  MaxLists,    \* bound: lists the device sends
  Sizes,       \* the numbers of targets the device may send
  Cycles,      \* the notify cycles the web form may set
  MaxSets,     \* bound: times it sets one
  Zero         \* a target of a value-initialised iSYSTargetList

ASSUME FrameAssumption ==
  /\ MaxTargets \in Nat \ {0}
  /\ MaxLists \in Nat
  /\ Sizes \subseteq 0 .. MaxTargets /\ Sizes # {}
  /\ Cycles \subseteq Nat /\ Cycles # {}
  /\ \E top \in Cycles : \A c \in Cycles : c <= top
  /\ MaxSets \in Nat
  /\ Zero \notin (1 .. MaxLists) \X (1 .. MaxTargets)

VARIABLES
  sizes,     \* history: the lists the device sent, by their head's number
  wire,      \* the tokens sent and not read
  phase,     \* where the thread is in run / decodeMessage
  msg,       \* msgBuf: the tokens of the last read
  i,         \* decodeMessage's index
  entries,   \* listEntries, from the head
  start,     \* frames_start, as an index of msg
  decoded,   \* targetList: nrOfTargets and the array of targets
  result,    \* what decodeMessage returned
  build,     \* buildList: the targets collected
  interval,  \* notify_interval
  cycle,     \* notifyCycle as read at the top of the loop
  setting,   \* the notify cycle as the web form has set it
  sets,      \* how often it has
  out        \* history: the collections published

wireVars == <<sizes, wire>>
decodeVars == <<msg, i, entries, start, decoded, result>>
notifyVars == <<interval, cycle, setting, sets, out>>
vars == <<wireVars, phase, decodeVars, build, notifyVars>>

-----------------------------------------------------------------------------
(* What the device sends. *)

Kinds == {"head", "record", "tail"}

\* A token is read whole, or its front with the four bytes that tell a mark,
\* or "torn" before the fourth byte, or its rest.
Parts == {"whole", "front", "torn", "rest"}

Tokens == [list : 1 .. MaxLists, kind : Kinds, n : 0 .. MaxTargets,
           part : Parts]

Target(l, n) == <<l, n>>

Targets == (1 .. MaxLists) \X (1 .. MaxTargets)

Records(n) == IF n = MaxTargets THEN 0 ELSE n

Token(l, k, n) == [list |-> l, kind |-> k, n |-> n, part |-> "whole"]

ListTokens(l, n) ==
  <<Token(l, "head", n)>> \o [k \in 1 .. Records(n) |-> Token(l, "record", k)]
                          \o <<Token(l, "tail", n)>>

\* The two pieces of a token that a read cuts.
FrontPart(t, cut) == IF t.part = "rest" THEN t ELSE [t EXCEPT !.part = cut]

RestPart(t) == [t EXCEPT !.part = "rest"]

-----------------------------------------------------------------------------
Phases == {"start", "poll", "begin", "list", "copy", "notify", "ended"}

TopCycle == CHOOSE top \in Cycles : \A c \in Cycles : c <= top

NoTargets == [nr |-> 0, targets |-> [k \in 1 .. MaxTargets |-> Zero]]

\* The types, and that neither list of targets exceeds its array.
TypeOK ==
  /\ sizes \in Seq(Sizes)
  /\ wire \in Seq(Tokens)
  /\ phase \in Phases
  /\ msg \in Seq(Tokens)
  /\ i \in 1 .. Len(msg) + 1
  /\ entries \in 0 .. MaxTargets
  /\ start \in 0 .. Len(msg) + 1
  /\ decoded \in [nr : 0 .. MaxTargets,
                  targets : [1 .. MaxTargets -> Targets \cup {Zero}]]
  /\ result \in {"ok", "error"}
  /\ build \in Seq(Targets \cup {Zero}) /\ Len(build) <= MaxTargets
  /\ interval \in 0 .. TopCycle + 1
  /\ cycle \in Cycles
  /\ setting \in Cycles
  /\ sets \in 0 .. MaxSets
  /\ out \in Seq(Seq(Targets \cup {Zero}))

Init ==
  /\ sizes = <<>>
  /\ wire = <<>>
  /\ phase = "start"
  /\ msg = <<>>
  /\ i = 1
  /\ entries = 0
  /\ start = 0
  /\ decoded = NoTargets
  /\ result = "ok"
  /\ build = <<>>
  /\ interval = 0
  /\ setting \in Cycles
  /\ cycle = setting
  /\ sets = 0
  /\ out = <<>>

\* The device measures and sends its next list.
Send ==
  /\ Len(sizes) < MaxLists
  /\ \E n \in Sizes : /\ sizes' = Append(sizes, n)
                      /\ wire' = wire \o ListTokens(Len(sizes) + 1, n)
  /\ UNCHANGED <<phase, decodeVars, build, notifyVars>>

Move(from, to) == phase = from /\ phase' = to

-----------------------------------------------------------------------------
(* The start of run, and the read at the top of its loop. *)

\* The device answers the stop; whether it answers the start is ignored.
Start ==
  /\ Move("start", "poll")
  /\ UNCHANGED <<wireVars, decodeVars, build, notifyVars>>

\* It does not answer, or no SPI interface was found: the thread returns.
GiveUp ==
  /\ Move("start", "ended")
  /\ UNCHANGED <<wireVars, decodeVars, build, notifyVars>>

LoadCycle == cycle' = setting /\ UNCHANGED <<interval, setting, sets, out>>

\* The bytes up to token k, and part of the next if cut is one.
Taken(k, cut) ==
  SubSeq(wire, 1, k)
    \o (IF cut = "none" THEN <<>> ELSE <<FrontPart(wire[k + 1], cut)>>)

Left(k, cut) ==
  (IF cut = "none" THEN <<>> ELSE <<RestPart(wire[k + 1])>>)
    \o SubSeq(wire, k + (IF cut = "none" THEN 1 ELSE 2), Len(wire))

Cuts == {"none", "front", "torn"}

\* Some bytes at least; only a mark is told apart by its fourth.
CanRead(k, cut) ==
  /\ cut = "none" => k > 0
  /\ cut # "none" => k < Len(wire)
  /\ cut = "torn" => wire[k + 1].kind # "record"

\* spiCheck reads what has arrived, and decodeMessage begins.
Receive ==
  /\ Move("poll", "begin")
  /\ \E k \in 0 .. Len(wire), cut \in Cuts :
       CanRead(k, cut) /\ msg' = Taken(k, cut) /\ wire' = Left(k, cut)
  /\ LoadCycle
  /\ UNCHANGED <<sizes, i, entries, start, decoded, result, build>>

\* spiCheck finds nothing ...
NoData ==
  /\ Move("poll", "notify")
  /\ LoadCycle
  /\ UNCHANGED <<wireVars, decodeVars, build>>

\* ... or the transfer fails, and what it took is gone.
ReadFails ==
  /\ Move("poll", "notify")
  /\ \E k \in 0 .. Len(wire), cut \in Cuts :
       CanRead(k, cut) /\ wire' = Left(k, cut)
  /\ LoadCycle
  /\ UNCHANGED <<sizes, decodeVars, build>>

-----------------------------------------------------------------------------
(* decodeMessage. *)

\* list_start and list_end may be right or wrong about a torn mark: the bytes
\* they read are beyond the end of the message.
Seen(t, kind) ==
  IF t.kind # kind \/ t.part = "rest" THEN {FALSE}
  ELSE IF t.part = "torn" THEN BOOLEAN ELSE {TRUE}

\* msgSize > 3.
MoreThanTorn == Len(msg) > 1 \/ msg[1].part # "torn"

BeginList_KeepsStart ==
  /\ Move("begin", "list")
  /\ i <= Len(msg)
  /\ TRUE \in Seen(msg[i], "head")
  /\ MoreThanTorn
  /\ entries' = msg[i].n
  /\ start' = IF start = 0 THEN i + 1 ELSE start
  /\ i' = i + 1
  /\ UNCHANGED <<wireVars, msg, decoded, result, build, notifyVars>>

BeginList ==
  /\ Move("begin", "list")
  /\ i <= Len(msg)
  /\ TRUE \in Seen(msg[i], "head")
  /\ MoreThanTorn
  /\ entries' = msg[i].n
  /\ start' = i + 1
  /\ i' = i + 1
  /\ UNCHANGED <<wireVars, msg, decoded, result, build, notifyVars>>

\* No head: decodeMessage stops and starts the device and, at the next byte,
\* returns an error, upon which run stops and starts it once more.  Without a
\* next byte (a lone last one) it returns ERR_OK.
NotAHead ==
  /\ Move("begin", "copy")
  /\ i <= Len(msg)
  /\ FALSE \in Seen(msg[i], "head")
  /\ result' \in IF i = Len(msg) /\ msg[i].part # "whole"
                 THEN {"ok", "error"} ELSE {"error"}
  /\ UNCHANGED <<wireVars, msg, i, entries, start, decoded, build, notifyVars>>

\* No tail yet: on to the next record.
SkipRecord ==
  /\ phase = "list"
  /\ i <= Len(msg)
  /\ FALSE \in Seen(msg[i], "tail")
  /\ i' = i + 1
  /\ UNCHANGED <<wireVars, phase, msg, entries, start, decoded, result, build,
                 notifyVars>>

\* decodeTargetFrame: as many records as the head says, from frames_start on;
\* with the number for clipping no record is read, but the number is kept.
Unpacked ==
  [nr |-> entries,
   targets |-> [k \in 1 .. MaxTargets |->
                  IF k <= Records(entries)
                  THEN Target(msg[start + k - 1].list, msg[start + k - 1].n)
                  ELSE decoded.targets[k]]]

EndList ==
  /\ Move("list", "begin")
  /\ i <= Len(msg)
  /\ TRUE \in Seen(msg[i], "tail")
  /\ decoded' = Unpacked
  /\ i' = i + 1
  /\ UNCHANGED <<wireVars, msg, entries, start, result, build, notifyVars>>

\* The message ends, between two lists or within one.
Exhausted ==
  /\ phase \in {"begin", "list"}
  /\ phase' = "copy"
  /\ i > Len(msg)
  /\ UNCHANGED <<wireVars, decodeVars, build, notifyVars>>

-----------------------------------------------------------------------------
(* smartCopy and the notify cycle. *)

MinOf(a, b) == IF a < b THEN a ELSE b

Found == SubSeq(decoded.targets, 1, decoded.nr)

Copied_OffByOne ==
  build \o SubSeq(Found, 1, MinOf(decoded.nr, MaxTargets + 1 - Len(build)))

Copied_DropsOldest ==
  LET all == build \o Found
  IN  SubSeq(all, Len(all) - MinOf(Len(all), MaxTargets) + 1, Len(all))

\* smartCopy stops in the middle of the list when the array is full.
Copied ==
  build \o SubSeq(Found, 1, MinOf(decoded.nr, MaxTargets - Len(build)))

\* What a message leaves behind when run is done with it.
Fresh(t) == /\ msg' = <<>>
            /\ i' = 1
            /\ entries' = 0
            /\ start' = 0
            /\ result' = "ok"
            /\ decoded' = t

Copy_KeepsList ==
  /\ Move("copy", "notify")
  /\ build' = Copied
  /\ Fresh(decoded)
  /\ UNCHANGED <<wireVars, notifyVars>>

\* After an error as well.  The message is cleared and its list deleted (in
\* the code just before the next one is made).
Copy ==
  /\ Move("copy", "notify")
  /\ build' = Copied
  /\ Fresh(NoTargets)
  /\ UNCHANGED <<wireVars, notifyVars>>

Due == interval > cycle /\ build # <<>>

\* notify hands a copy of the list to Occupancy::publish.
Publish ==
  /\ Move("notify", "poll")
  /\ Due
  /\ out' = Append(out, build)
  /\ build' = <<>>
  /\ interval' = 0
  /\ UNCHANGED <<wireVars, decodeVars, cycle, setting, sets>>

NotDue_Resets ==
  /\ Move("notify", "poll")
  /\ ~Due
  /\ interval' = 0
  /\ UNCHANGED <<wireVars, decodeVars, build, cycle, setting, sets, out>>

\* The counter runs on; above every cycle its value makes no difference.
NotDue ==
  /\ Move("notify", "poll")
  /\ ~Due
  /\ interval' = MinOf(interval + 1, TopCycle + 1)
  /\ UNCHANGED <<wireVars, decodeVars, build, cycle, setting, sets, out>>

Run == \/ Start \/ GiveUp \/ Receive \/ NoData \/ ReadFails
       \/ BeginList \/ NotAHead \/ SkipRecord \/ EndList \/ Exhausted
       \/ Copy \/ Publish \/ NotDue

\* The web form (Config::setNotify).
SetNotify ==
  /\ sets < MaxSets
  /\ sets' = sets + 1
  /\ setting' \in Cycles
  /\ UNCHANGED <<wireVars, phase, decodeVars, build, interval, cycle, out>>

Next == Send \/ Run \/ SetNotify

Spec == Init /\ [][Next]_vars

(* The thread runs until it returns; nothing else is assumed. *)
FairSpec == Spec /\ WF_vars(Run)

-----------------------------------------------------------------------------
(* Correctness. *)

NoClipping == \A l \in DOMAIN sizes : sizes[l] < MaxTargets

\* The lists that are in the message from head to tail; a torn tail may count.
AtHead == msg # <<>> /\ TRUE \in Seen(msg[1], "head")

Closed(parts) == {t.list : t \in {u \in ToSet(msg) :
                                    u.kind = "tail" /\ u.part \in parts}}

Newest(ls) == {l \in ls : \A k \in ls : k <= l}

Expected ==
  IF ~AtHead THEN {<<>>}
  ELSE LET sure == Newest(Closed({"whole", "front"}))
           last == sure \cup Closed({"torn"})
       IN  {[k \in 1 .. sizes[l] |-> Target(l, k)] : l \in last}
             \cup (IF sure = {} THEN {<<>>} ELSE {})

\* However the reads cut the stream, decodeMessage delivers exactly the last
\* list that is in the message from head to tail, and no other targets.
DecodesLastWhole == phase = "copy" /\ NoClipping => Found \in Expected

Collections == Append(out, build)

\* A list is in a collection from its first target on, and as a whole unless
\* the collection is full.
WholeLists ==
  NoClipping =>
    \A c \in DOMAIN Collections : \A j \in DOMAIN Collections[c] :
      LET b == Collections[c]
          l == b[j][1]
          n == b[j][2]
      IN  /\ n > 1 => j > 1 /\ b[j - 1] = Target(l, n - 1)
          /\ n < sizes[l] => \/ j = MaxTargets
                             \/ j < Len(b) /\ b[j + 1] = Target(l, n + 1)

Before(s, t) == s[1] < t[1] \/ (s[1] = t[1] /\ s[2] < t[2])

\* Over all collections the targets come in the order the device sent them,
\* and none comes twice.
InOrderOnce ==
  NoClipping =>
    \A c, d \in DOMAIN Collections :
      \A j \in DOMAIN Collections[c], k \in DOMAIN Collections[d] :
        c < d \/ (c = d /\ j < k) => Before(Collections[c][j], Collections[d][k])

\* However the reads cut the stream and the notify cycle is set, smartCopy
\* collects whole lists, in order and each once.
CollectsFaithfully == WholeLists /\ InOrderOnce

\* What was collected is published in the end, whatever the notify cycle is
\* set to and whether or not more arrives.
BatchPublished == build # <<>> ~> build = <<>>

\* A decoded list holds targets of the device: "struct with decoded target
\* list", decodeTargetFrame.
NothingInvented == \A k \in DOMAIN Found : Found[k] # Zero
=============================================================================
