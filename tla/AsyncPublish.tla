---------------------------- MODULE AsyncPublish ----------------------------
(***************************************************************************)
(* What happens inside PUBClient::send: async_publish (async_publish.cpp)  *)
(* on the vendored MQTT libraries, the C++ client (async_client.cpp,       *)
(* token.cpp) and the C client under it (MQTTAsync.c) with its two         *)
(* threads.  The thread of PUBClient makes one call after the other.  A    *)
(* call connects if need be and waits for the token of the connect without *)
(* limit; it then queues its message and waits 20 ms for its token.  The   *)
(* send thread works off the command list and asks for a reconnect when    *)
(* one is due; the receive thread sees connections come and go.            *)
(*                                                                         *)
(* mqttasync_mutex is held over every step of the two threads, and by the  *)
(* send thread from taking a command to having dealt with it, but neither  *)
(* by MQTTAsync_connect and MQTTAsync_send nor while a partial write is    *)
(* continued.  What is in the list then changes under the library's hands, *)
(* and the context that MQTTAsync_connect leaves in m->connect may belong  *)
(* to another call than the CONNECT the send thread takes next.            *)
(*                                                                         *)
(* A token is named after the call that created it.  All is QoS 0.         *)
(***************************************************************************)
EXTENDS Naturals, Sequences, SequencesExt

CONSTANTS
  MaxCalls,  \* bound: messages handed to async_publish
  MaxBreaks  \* bound: connections that break

ASSUME PublishAssumption == MaxCalls \in Nat \ {0} /\ MaxBreaks \in Nat

VARIABLES
  made,      \* calls of async_publish so far
  at,        \* where the last of them is
  conntok,   \* the token of its connect ...
  pubtok,    \* ... and of its message
  connTok,   \* async_client::connTok_: the call that created the token, or 0
  result,    \* what each call returned
  commands,  \* the C client's command list
  inhand,    \* the command the send thread has taken, or Nothing
  noting,    \* it has still to note that the write of inhand is partial
  connect,   \* m->connect: context, protocol version, onSuccess # NULL
  should,    \* m->shouldBeConnected
  state,     \* m->c->connected and connect_state
  retrying,  \* m->retrying
  responses, \* m->responses: messages written in part
  pending,   \* m->pending_write, the message or 0
  partial,   \* the message the socket still has to finish, or 0
  link,      \* the connection underneath
  breaks,    \* connections broken so far
  session,   \* history: connections made so far
  queuedIn,  \* history: in which of them a message was queued, 0 if in none
  sent       \* history: the messages written and in which connection

callVars == <<made, at, conntok, pubtok, connTok, result, queuedIn>>
connVars == <<connect, should, state, retrying>>
writeVars == <<responses, pending, partial, sent>>
linkVars == <<link, breaks, session>>
vars == <<callVars, commands, inhand, noting, connVars, writeVars, linkVars>>

Calls == 1 .. MaxCalls

Nothing == [type |-> "none"]

\* version counts the protocol versions tried: 0 for MQTTVERSION_DEFAULT, 1 for
\* 3.1.1, 2 for 3.1.
Connect(t, v, s) == [type |-> "CONNECT", tok |-> t, version |-> v, onSuccess |-> s]

Connects == {Connect(t, v, s) : t \in 0 .. MaxCalls, v \in 0 .. 2, s \in BOOLEAN}

Publish(k) == [type |-> "PUBLISH", tok |-> k]

Disconnect == [type |-> "DISCONNECT"]

Commands == Connects \cup {Publish(k) : k \in Calls} \cup {Disconnect}

TokenStates == {"none", "pending", "ok", "failed"}

Places == {"idle", "callback", "check", "connect", "add", "waitconn",
           "publish", "append", "waitpub"}

\* The types; one message at most is written in part, on a live connection.
TypeOK ==
  /\ made \in 0 .. MaxCalls
  /\ at \in Places /\ (at # "idle" => made > 0)
  /\ conntok \in TokenStates /\ pubtok \in TokenStates
  /\ connTok \in 0 .. made
  /\ result \in [Calls -> {"none", "true", "false"}]
  /\ commands \in Seq(Commands)
  /\ inhand \in Commands \cup {Nothing}
  /\ noting \in BOOLEAN /\ (noting => inhand \in {Publish(k) : k \in Calls})
  /\ connect \in Connects
  /\ should \in BOOLEAN
  /\ state \in {"down", "connecting", "connected"}
  /\ retrying \in BOOLEAN
  /\ responses \in Seq(Calls)
  /\ pending \in 0 .. MaxCalls
  /\ partial \in 0 .. MaxCalls
  /\ partial # 0 => state = "connected"
  /\ link \in {"up", "broken"}
  /\ breaks \in 0 .. MaxBreaks
  /\ session \in 0 .. MaxBreaks + 1
  /\ queuedIn \in [Calls -> 0 .. MaxBreaks + 1]
  /\ sent \in Seq(Calls \X (1 .. MaxBreaks + 1))

Init ==
  /\ made = 0
  /\ at = "idle"
  /\ conntok = "none" /\ pubtok = "none"
  /\ connTok = 0
  /\ result = [k \in Calls |-> "none"]
  /\ commands = <<>>
  /\ inhand = Nothing
  /\ noting = FALSE
  /\ connect = Connect(0, 0, FALSE)
  /\ should = FALSE
  /\ state = "down"
  /\ retrying = FALSE
  /\ responses = <<>>
  /\ pending = 0
  /\ partial = 0
  /\ link = "up"
  /\ breaks = 0
  /\ session = 0
  /\ queuedIn = [k \in Calls |-> 0]
  /\ sent = <<>>

-----------------------------------------------------------------------------
(* Helpers. *)

\* Nobody holds mqttasync_mutex.
MutexFree == inhand = Nothing

\* MQTTAsync_addCommand: CONNECT and internal DISCONNECT go to the head, and
\* one that finds its like there is forgotten.
AddCommand_NewestFirst(cmds, c) ==
  IF c.type # "PUBLISH" /\ cmds # <<>> /\ Head(cmds).type = c.type THEN cmds
  ELSE <<c>> \o cmds

AddCommand(cmds, c) ==
  IF c.type = "PUBLISH" THEN Append(cmds, c)
  ELSE IF cmds # <<>> /\ Head(cmds).type = c.type THEN cmds
  ELSE <<c>> \o cmds

\* A callback completes a token; only that of the last call is waited for.
Completed(token, k, value) ==
  IF k = made /\ token # "none" THEN value ELSE token

\* The messages whose commands the library holds.
Unfinished == ToSet(responses)
                \cup {k \in Calls : Publish(k) \in ToSet(commands)}

\* The tokens of queued CONNECTs.
Connecting == {c.tok : c \in {d \in ToSet(commands) : d.type = "CONNECT"}}

Failed(token, held) ==
  IF made \in held THEN Completed(token, made, "failed") ELSE token

\* MQTTAsync_cleanSession: every response and every command of the client
\* fails; connects of other tokens may fail along with the queued ones.
FailConnects(also) == conntok' = Failed(conntok, Connecting \cup also)

CleanSession_KeepsCommands ==
  /\ pubtok' = Failed(pubtok, ToSet(responses))
  /\ responses' = <<>>
  /\ UNCHANGED commands

CleanSession ==
  /\ pubtok' = Failed(pubtok, Unfinished)
  /\ responses' = <<>>
  /\ commands' = <<>>

\* MQTTAsync_closeSession: the socket goes, and with it a partial write.
CloseSession_KeepsPartial ==
  /\ state' = "down"
  /\ link' = "up"
  /\ UNCHANGED partial
  /\ CleanSession

CloseSession ==
  /\ state' = "down"
  /\ link' = "up"
  /\ partial' = 0
  /\ CleanSession

\* MQTTAsync_startConnectRetry; async_publish asks for automatic reconnects.
StartConnectRetry_Not == UNCHANGED retrying

StartConnectRetry == retrying' = (retrying \/ should)

-----------------------------------------------------------------------------
(* The thread of PUBClient: async_publish. *)

Goto(from, to) == at = from /\ at' = to

Return(k, value) == result' = [result EXCEPT ![k] = value]

Call ==
  /\ Goto("idle", "callback")
  /\ made < MaxCalls
  /\ made' = made + 1
  /\ conntok' = "none" /\ pubtok' = "none"
  /\ UNCHANGED <<connTok, result, queuedIn, commands, inhand, noting, connVars,
                 writeVars, linkVars>>

\* set_callback throws while a connect is in progress.
SetCallback ==
  /\ MutexFree
  /\ \/ Goto("callback", "check") /\ state # "connecting" /\ UNCHANGED result
     \/ Goto("callback", "idle") /\ state = "connecting" /\ Return(made, "false")
  /\ UNCHANGED <<made, conntok, pubtok, connTok, queuedIn, commands, inhand,
                 noting, connVars, writeVars, linkVars>>

IsConnected ==
  /\ MutexFree
  /\ \/ Goto("check", "publish") /\ state = "connected"
     \/ Goto("check", "connect") /\ state # "connected"
  /\ UNCHANGED <<made, conntok, pubtok, connTok, result, queuedIn, commands,
                 inhand, noting, connVars, writeVars, linkVars>>

\* async_client::connect makes a token; MQTTAsync_connect writes it into
\* m->connect at once ...
SetConnect ==
  /\ Goto("connect", "add")
  /\ conntok' = "pending"
  /\ connTok' = made
  /\ connect' = [connect EXCEPT !.tok = made, !.onSuccess = TRUE]
  /\ should' = TRUE
  /\ UNCHANGED <<made, pubtok, result, queuedIn, commands, inhand, noting,
                 state, retrying, writeVars, linkVars>>

\* ... and queues a CONNECT, which may be forgotten.
AddConnect ==
  /\ Goto("add", "waitconn")
  /\ commands' = AddCommand(commands, Connect(made, 0, TRUE))
  /\ UNCHANGED <<made, conntok, pubtok, connTok, result, queuedIn, inhand,
                 noting, connVars, writeVars, linkVars>>

\* conntok->wait() has no limit.
WaitConnect ==
  /\ \/ Goto("waitconn", "publish") /\ conntok = "ok" /\ UNCHANGED result
     \/ Goto("waitconn", "idle") /\ conntok = "failed" /\ Return(made, "false")
  /\ UNCHANGED <<made, conntok, pubtok, connTok, queuedIn, commands, inhand,
                 noting, connVars, writeVars, linkVars>>

\* publish makes a token; MQTTAsync_send refuses without a connection ...
Send ==
  /\ \/ /\ Goto("publish", "append") /\ state = "connected"
        /\ pubtok' = "pending"
        /\ UNCHANGED result
     \/ /\ Goto("publish", "idle") /\ state # "connected"
        /\ Return(made, "false")
        /\ UNCHANGED pubtok
  /\ UNCHANGED <<made, conntok, connTok, queuedIn, commands, inhand, noting,
                 connVars, writeVars, linkVars>>

\* ... and queues the message, perhaps when the connection has gone.
AppendPublish ==
  /\ Goto("append", "waitpub")
  /\ commands' = AddCommand(commands, Publish(made))
  /\ queuedIn' = [queuedIn EXCEPT ![made] = IF state = "connected" THEN session
                                            ELSE 0]
  /\ UNCHANGED <<made, conntok, pubtok, connTok, result, inhand, noting,
                 connVars, writeVars, linkVars>>

\* pubtok->wait_for(20): the token's answer, or false after 20 ms.
WaitPublish_TimeoutIsTrue ==
  /\ Goto("waitpub", "idle")
  /\ Return(made, IF pubtok = "failed" THEN "false" ELSE "true")
  /\ UNCHANGED <<made, conntok, pubtok, connTok, queuedIn, commands, inhand,
                 noting, connVars, writeVars, linkVars>>

WaitPublish ==
  /\ Goto("waitpub", "idle")
  /\ Return(made, IF pubtok = "ok" THEN "true" ELSE "false")
  /\ UNCHANGED <<made, conntok, pubtok, connTok, queuedIn, commands, inhand,
                 noting, connVars, writeVars, linkVars>>

AsyncPublish == \/ SetCallback \/ IsConnected \/ SetConnect \/ AddConnect
                \/ WaitConnect \/ Send \/ AppendPublish \/ WaitPublish

-----------------------------------------------------------------------------
(* The send thread: MQTTAsync_processCommand and MQTTAsync_checkTimeouts.   *)

\* Messages wait for a connection and for the partial write before them.
Ready(c) == c.type = "PUBLISH" => state = "connected" /\ partial = 0

Take ==
  /\ inhand = Nothing
  /\ commands # <<>> /\ Ready(Head(commands))
  /\ inhand' = Head(commands)
  /\ commands' = Tail(commands)
  /\ UNCHANGED <<callVars, noting, connVars, writeVars, linkVars>>

Processes(type) == inhand.type = type /\ ~noting /\ inhand' = Nothing

\* A CONNECT that comes while there is a connection, or soon will be, only
\* takes over m->connect; nobody answers it.
ConnectIgnored ==
  /\ Processes("CONNECT") /\ state # "down"
  /\ connect' = inhand
  /\ UNCHANGED <<callVars, commands, noting, should, state, retrying,
                 writeVars, linkVars>>

\* The protocol version that is tried for a CONNECT.
NextVersion == [inhand EXCEPT !.version = @ + 1]

ConnectStarts ==
  /\ Processes("CONNECT") /\ state = "down"
  /\ connect' = NextVersion
  /\ state' = "connecting"
  /\ UNCHANGED <<callVars, commands, noting, should, retrying, writeVars,
                 linkVars>>

\* No TCP connection: the older version is tried, then the connect fails.
ConnectFails ==
  /\ Processes("CONNECT") /\ state = "down"
  /\ \/ /\ NextVersion.version = 1
        /\ commands' = AddCommand(commands, NextVersion)
        /\ UNCHANGED <<conntok, connect, retrying>>
     \/ /\ NextVersion.version = 2
        /\ conntok' = Completed(conntok, inhand.tok, "failed")
        /\ connect' = NextVersion
        /\ StartConnectRetry
        /\ UNCHANGED commands
  /\ UNCHANGED <<made, at, pubtok, connTok, result, queuedIn, noting, should,
                 state, writeVars, linkVars>>

\* MQTTAsync_checkDisconnect; nothing is in flight at QoS 0.
Disconnects ==
  /\ Processes("DISCONNECT")
  /\ \/ /\ state # "down"
        /\ CloseSession
        /\ FailConnects(IF state = "connecting" THEN {connect.tok} ELSE {})
        /\ StartConnectRetry
     \/ /\ state = "down"
        /\ UNCHANGED <<conntok, pubtok, commands, responses, partial, state,
                       link, retrying>>
  /\ UNCHANGED <<made, at, connTok, result, queuedIn, noting, connect, should,
                 pending, sent, breaks, session>>

Written(k) == sent' = Append(sent, <<k, session>>)

WriteWhole ==
  /\ Processes("PUBLISH") /\ link = "up"
  /\ Written(inhand.tok)
  /\ pubtok' = Completed(pubtok, inhand.tok, "ok")
  /\ UNCHANGED <<made, at, conntok, connTok, result, queuedIn, commands,
                 noting, connVars, responses, pending, partial, linkVars>>

\* The socket takes a part; a second step notes that, when the receive thread
\* may have written the rest.
WritePart ==
  /\ inhand.type = "PUBLISH" /\ ~noting /\ link = "up"
  /\ partial' = inhand.tok
  /\ noting' = TRUE
  /\ UNCHANGED <<callVars, commands, inhand, connVars, responses, pending,
                 sent, linkVars>>

NotePart ==
  /\ noting
  /\ pending' = inhand.tok
  /\ responses' = Append(responses, inhand.tok)
  /\ noting' = FALSE
  /\ inhand' = Nothing
  /\ UNCHANGED <<callVars, commands, connVars, partial, sent, linkVars>>

\* m->pending_write is set all the same.
WriteError ==
  /\ Processes("PUBLISH") /\ link = "broken"
  /\ pending' = inhand.tok
  /\ pubtok' = Completed(pubtok, inhand.tok, "failed")
  /\ commands' = AddCommand(commands, Disconnect)
  /\ UNCHANGED <<made, at, conntok, connTok, result, queuedIn, noting,
                 connVars, responses, partial, sent, linkVars>>

\* The interval has passed, whatever the connection is doing.
Reconnect ==
  /\ MutexFree /\ retrying
  /\ commands' = AddCommand(commands, [connect EXCEPT !.version = 0])
  /\ UNCHANGED <<callVars, inhand, noting, connVars, writeVars, linkVars>>

SendThread == \/ Take \/ ConnectIgnored \/ ConnectStarts \/ ConnectFails
              \/ Disconnects \/ WriteWhole \/ WritePart \/ NotePart
              \/ WriteError \/ Reconnect

-----------------------------------------------------------------------------
(* The receive thread: MQTTAsync_receiveThread, MQTTAsync_cycle and what    *)
(* they call.                                                               *)

\* MQTTAsync_writeComplete: the token of pending_write is answered, the first
\* response is removed; a write that is not noted yet finds neither.
WriteComplete(value) ==
  /\ pending' = 0
  /\ \/ /\ pending # 0 /\ responses # <<>>
        /\ pubtok' = Completed(pubtok, pending, value)
        /\ responses' = Tail(responses)
     \/ /\ pending = 0 \/ responses = <<>>
        /\ UNCHANGED <<pubtok, responses>>

\* Socket_continueWrites, without mqttasync_mutex.
ContinueWrite ==
  /\ partial # 0
  /\ \/ link = "up" /\ Written(partial) /\ WriteComplete("ok")
     \/ link = "broken" /\ UNCHANGED sent /\ WriteComplete("failed")
  /\ partial' = 0
  /\ UNCHANGED <<made, at, conntok, connTok, result, queuedIn, commands,
                 inhand, noting, connVars, linkVars>>

\* The tokens m->connect.onSuccess and the connected callback complete.
Answered ==
  {connTok} \cup (IF connect.onSuccess THEN {connect.tok} ELSE {})

\* completeConnection cleans the session, then the callbacks run: a token that
\* fails and is then completed may be read in between.
Connack ==
  /\ MutexFree
  /\ state = "connecting"
  /\ state' = "connected"
  /\ retrying' = FALSE
  /\ session' = session + 1
  /\ CleanSession
  /\ \/ /\ made \in Answered
        /\ conntok' = Completed(conntok, made, "ok")
     \/ /\ made \in Answered => made \in Connecting
        /\ FailConnects({})
  /\ connect' = [connect EXCEPT !.onSuccess = FALSE]
  /\ UNCHANGED <<made, at, connTok, result, queuedIn, inhand, noting, should,
                 pending, partial, sent, link, breaks>>

\* nextOrClose: refused, broken off or timed out.  The older version is tried,
\* then the connect fails.
ConnectEnds ==
  /\ MutexFree
  /\ state = "connecting"
  /\ \/ /\ connect.version = 1
        /\ state' = "down"
        /\ commands' = AddCommand(commands, connect)
        /\ UNCHANGED <<conntok, pubtok, responses, partial, link, retrying>>
     \/ /\ connect.version # 1
        /\ CloseSession
        /\ FailConnects({connect.tok})
        /\ StartConnectRetry
  /\ UNCHANGED <<made, at, connTok, result, queuedIn, inhand, noting, connect,
                 should, pending, sent, breaks, session>>

\* The read fails: a DISCONNECT is queued.
SocketError ==
  /\ MutexFree
  /\ state = "connected" /\ link = "broken"
  /\ commands' = AddCommand(commands, Disconnect)
  /\ UNCHANGED <<callVars, inhand, noting, connVars, writeVars, linkVars>>

ReceiveThread == ContinueWrite \/ Connack \/ ConnectEnds \/ SocketError

\* The connection breaks, with or without a reason on this side.
Break ==
  /\ state = "connected" /\ link = "up"
  /\ breaks < MaxBreaks
  /\ link' = "broken"
  /\ breaks' = breaks + 1
  /\ UNCHANGED <<callVars, commands, inhand, noting, connVars, writeVars,
                 session>>

-----------------------------------------------------------------------------
Next == Call \/ AsyncPublish \/ SendThread \/ ReceiveThread \/ Break

Spec == Init /\ [][Next]_vars

(* The three threads run, and mqttasync_mutex comes round to each of them. *)
(* The broker is there: of the attempts to connect that are made again and *)
(* again some succeed.  Nothing makes a connection break, and nothing      *)
(* makes PUBClient send.                                                   *)
Fairness ==
  /\ WF_vars(AsyncPublish)
  /\ WF_vars(SendThread) /\ SF_vars(Take) /\ SF_vars(Reconnect)
  /\ SF_vars(SocketError)
  /\ SF_vars(ConnectStarts) /\ SF_vars(Connack)

FairSpec == Spec /\ Fairness

-----------------------------------------------------------------------------
(* Correctness. *)

\* Messages are written in the order of the calls and none twice, whichever
\* timed out for their caller, through partial writes, breaks and reconnects.
SentInOrder == \A i, j \in DOMAIN sent : i < j => sent[i][1] < sent[j][1]

\* A call that returned true has had its message written to the socket; what
\* PUBClient counts as sent was not just queued, nor is it a later message
\* whose end of write was taken for this one's.
TrueMeansSent ==
  \A k \in Calls : result[k] = "true" => \E i \in DOMAIN sent : sent[i][1] = k

\* A message goes out on the connection it was queued on or not at all: one
\* that was queued as the connection went is never sent, stale, on the next.
OwnConnection ==
  \A i \in DOMAIN sent : sent[i][2] = queuedIn[sent[i][1]]

\* Once a call has asked for a connection, a broken one is made again without
\* a call, whatever command was forgotten or ignored in between.
Reconnects == should /\ state # "connected" ~> state = "connected"

\* A connect that was accepted is answered: MQTTAsync.h has it that a connect
\* that fails calls onFailure and one that succeeds onSuccess, and async_publish
\* waits for one of them without limit.
ConnectAnswered == at = "waitconn" ~> at # "waitconn"
=============================================================================
