------------------------- MODULE AsyncPublishProofs -------------------------
(***************************************************************************)
(* Proofs about AsyncPublish, for any number of messages and of            *)
(* connections that break.                                                 *)
(***************************************************************************)
EXTENDS AsyncPublish, TLAPS

-----------------------------------------------------------------------------
(* Commands and the list of them.                                          *)

\* The CONNECTs are records with these fields.
LEMMA ConnectRecords ==
  Connects = [type : {"CONNECT"}, tok : 0 .. MaxCalls, version : 0 .. 2,
              onSuccess : BOOLEAN]
<1> DEFINE Records == [type : {"CONNECT"}, tok : 0 .. MaxCalls,
                       version : 0 .. 2, onSuccess : BOOLEAN]
<1>1. \A c \in Connects : c \in Records
  BY DEF Connects, Connect
<1>2. ASSUME NEW c \in Records
      PROVE  c \in Connects
  <2>1. c = Connect(c.tok, c.version, c.onSuccess)
    BY DEF Connect
  <2> QED
    BY <2>1 DEF Connects
<1> QED
  BY <1>1, <1>2

\* The kinds of commands, each with its type.
LEMMA Kinds ==
  /\ \A c \in Connects : /\ c.type = "CONNECT" /\ c.tok \in 0 .. MaxCalls
                         /\ c.version \in 0 .. 2 /\ c.onSuccess \in BOOLEAN
                         /\ c \in Commands
  /\ \A k \in Calls : /\ Publish(k) \in Commands /\ Publish(k).tok = k
                      /\ Publish(k).type = "PUBLISH"
  /\ Disconnect \in Commands /\ Disconnect.type = "DISCONNECT"
  /\ Nothing.type = "none"
<1>1. ASSUME NEW c \in Connects
      PROVE  /\ c.type = "CONNECT" /\ c.tok \in 0 .. MaxCalls
             /\ c.version \in 0 .. 2 /\ c.onSuccess \in BOOLEAN
             /\ c \in Commands
  BY ConnectRecords DEF Commands
<1>2. ASSUME NEW k \in Calls
      PROVE  /\ Publish(k) \in Commands /\ Publish(k).tok = k
             /\ Publish(k).type = "PUBLISH"
  BY DEF Commands, Publish
<1>3. Disconnect \in Commands /\ Disconnect.type = "DISCONNECT"
  BY DEF Commands, Disconnect
<1>4. Nothing.type = "none"
  BY DEF Nothing
<1> QED
  BY <1>1, <1>2, <1>3, <1>4

\* A command is of one of them.
LEMMA KindOf ==
  ASSUME NEW c \in Commands
  PROVE  /\ \/ c.type = "CONNECT" /\ c \in Connects
            \/ c.type = "PUBLISH" /\ c.tok \in Calls /\ c = Publish(c.tok)
            \/ c.type = "DISCONNECT" /\ c = Disconnect
         /\ c # Nothing
<1>1. CASE c \in Connects
  BY <1>1, Kinds
<1>2. CASE \E k \in Calls : c = Publish(k)
  BY <1>2, Kinds
<1>3. CASE c = Disconnect
  BY <1>3, Kinds
<1> QED
  BY <1>1, <1>2, <1>3 DEF Commands

\* A CONNECT for another call, or with another version, is one.
LEMMA ConnectTyped ==
  ASSUME NEW c \in Connects
  PROVE  /\ \A k \in 0 .. MaxCalls :
              LET d == [c EXCEPT !.tok = k, !.onSuccess = TRUE]
              IN  d \in Connects
         /\ \A v \in 0 .. 2 :
              LET d == [c EXCEPT !.version = v]
              IN  d \in Connects /\ d.version = v /\ d.tok = c.tok
         /\ [c EXCEPT !.onSuccess = FALSE] \in Connects
BY ConnectRecords

\* A CONNECT that starts with the first version again.
LEMMA AgainTyped ==
  ASSUME NEW c \in Connects
  PROVE  /\ [c EXCEPT !.version = 0] \in Connects
         /\ [c EXCEPT !.version = 0].version = 0
BY ConnectRecords

\* A CONNECT with the next version to try.
LEMMA NextTyped ==
  ASSUME inhand \in Connects, inhand.version \in 0 .. 1
  PROVE  /\ NextVersion \in Connects
         /\ NextVersion.version = inhand.version + 1
BY ConnectRecords DEF NextVersion

\* The CONNECT of a call.
LEMMA NewConnect ==
  ASSUME NEW k \in 0 .. MaxCalls
  PROVE  /\ Connect(k, 0, TRUE) \in Connects
         /\ Connect(k, 0, TRUE).version = 0
<1>1. Connect(k, 0, TRUE) \in [type : {"CONNECT"}, tok : 0 .. MaxCalls,
                                version : 0 .. 2, onSuccess : BOOLEAN]
  BY DEF Connect
<1>2. Connect(k, 0, TRUE) \in Connects
  BY <1>1, ConnectRecords
<1>3. Connect(k, 0, TRUE).version = 0
  BY DEF Connect
<1> QED
  BY <1>2, <1>3

\* A CONNECT or DISCONNECT is forgotten or goes before the rest.
LEMMA AddedInFront ==
  ASSUME NEW cmds \in Seq(Commands), NEW c \in Commands, c.type # "PUBLISH"
  PROVE  LET new == AddCommand(cmds, c)
         IN  \/ new = cmds
             \/ /\ new \in Seq(Commands)
                /\ Len(new) = Len(cmds) + 1
                /\ new[1] = c
                /\ \A i \in 2 .. Len(new) : new[i] = cmds[i - 1]
BY DEF AddCommand

\* A PUBLISH goes behind the rest.
LEMMA AddedBehind ==
  ASSUME NEW cmds \in Seq(Commands), NEW k \in Calls
  PROVE  LET new == AddCommand(cmds, Publish(k))
         IN  /\ new \in Seq(Commands)
             /\ Len(new) = Len(cmds) + 1
             /\ new[Len(new)] = Publish(k)
             /\ \A i \in 1 .. Len(cmds) : new[i] = cmds[i]
BY Kinds DEF AddCommand

\* The rest of a list, once its first command is taken.
LEMMA Rest ==
  ASSUME NEW cmds \in Seq(Commands), cmds # <<>>
  PROVE  /\ Head(cmds) \in Commands /\ Head(cmds) = cmds[1]
         /\ Tail(cmds) \in Seq(Commands)
         /\ Len(Tail(cmds)) = Len(cmds) - 1 /\ Len(cmds) > 0
         /\ \A i \in 1 .. Len(Tail(cmds)) : Tail(cmds)[i] = cmds[i + 1]
OBVIOUS

\* What a callback makes of a token.
LEMMA TokensTyped ==
  ASSUME NEW token \in TokenStates
  PROVE  /\ \A k, v : v \in TokenStates => Completed(token, k, v) \in TokenStates
         /\ \A held : Failed(token, held) \in TokenStates
         /\ \A held : Failed(token, held) = "ok" => token = "ok"
BY DEF TokenStates, Completed, Failed

-----------------------------------------------------------------------------
(* Types.  That one message at most is written in part, on a live          *)
(* connection, and that the sessions are counted, needs to know what the   *)
(* commands presuppose.                                                    *)

\* A CONNECT has a version left to try; a DISCONNECT comes of a broken link.
Fit(c, l) == /\ c.type = "CONNECT" => c.version < 2
             /\ c.type = "DISCONNECT" => l = "broken"

Listed(cmds, l) == /\ cmds \in Seq(Commands)
                   /\ \A i \in 1 .. Len(cmds) : Fit(cmds[i], l)

\* A broken link is still taken for a connection.
Links ==
  /\ link = "broken" => state = "connected"
  /\ state = "connected" => session > 0
  /\ session <= breaks + (IF state = "connected" /\ link = "up" THEN 1 ELSE 0)

\* A message in hand has a connection and the socket to itself.
Writes ==
  /\ inhand.type = "PUBLISH" => state = "connected"
  /\ inhand.type = "PUBLISH" /\ ~noting => partial = 0
  /\ noting => partial \in {0, inhand.tok}

TypeInv == TypeOK /\ Listed(commands, link) /\ Fit(inhand, link) /\ Links /\ Writes

\* A CONNECT of an early version is fit, whatever the link.
LEMMA FitConnect ==
  ASSUME NEW c, NEW l, c.type = "CONNECT", c.version \in {0, 1}
  PROVE  Fit(c, l)
BY DEF Fit

\* A list without commands is fit for any link.
LEMMA ListedNone == \A l : Listed(<<>>, l)
BY DEF Listed

\* A list stays fit when a fit command is added ...
LEMMA ListedAdd ==
  ASSUME NEW cmds, NEW l, Listed(cmds, l), NEW c \in Commands, Fit(c, l)
  PROVE  Listed(AddCommand(cmds, c), l)
<1> DEFINE new == AddCommand(cmds, c)
<1> SUFFICES Listed(new, l)
  OBVIOUS
<1>1. cmds \in Seq(Commands) /\ \A i \in 1 .. Len(cmds) : Fit(cmds[i], l)
  BY DEF Listed
<1>2. CASE c.type = "PUBLISH"
  <2>1. c.tok \in Calls /\ c = Publish(c.tok)
    BY <1>2, KindOf
  <2>2. /\ new \in Seq(Commands) /\ Len(new) = Len(cmds) + 1
        /\ new[Len(new)] = c
        /\ \A i \in 1 .. Len(cmds) : new[i] = cmds[i]
    BY <1>1, <2>1, AddedBehind
  <2> HIDE DEF new
  <2>3. \A i \in 1 .. Len(new) : i = Len(new) \/ i \in 1 .. Len(cmds)
    BY <1>1, <2>2
  <2> QED
    BY <1>1, <2>2, <2>3 DEF Listed
<1>3. CASE c.type # "PUBLISH"
  <2>1. \/ new = cmds
        \/ /\ new \in Seq(Commands) /\ Len(new) = Len(cmds) + 1
           /\ new[1] = c
           /\ \A i \in 2 .. Len(new) : new[i] = cmds[i - 1]
    BY <1>1, <1>3, AddedInFront
  <2> HIDE DEF new
  <2>2. ASSUME new # cmds, NEW i \in 1 .. Len(new)
        PROVE  i = 1 \/ (i \in 2 .. Len(new) /\ i - 1 \in 1 .. Len(cmds))
    BY <1>1, <2>1, <2>2
  <2> QED
    BY <1>1, <2>1, <2>2 DEF Listed
<1> QED
  BY <1>2, <1>3

\* ... or its first one is taken.
LEMMA ListedRest ==
  ASSUME NEW cmds, NEW l, Listed(cmds, l), cmds # <<>>
  PROVE  Listed(Tail(cmds), l) /\ Fit(Head(cmds), l) /\ Head(cmds) \in Commands
<1>1. cmds \in Seq(Commands) /\ \A i \in 1 .. Len(cmds) : Fit(cmds[i], l)
  BY DEF Listed
<1>2. /\ Head(cmds) \in Commands /\ Head(cmds) = cmds[1]
      /\ Tail(cmds) \in Seq(Commands)
      /\ Len(Tail(cmds)) = Len(cmds) - 1 /\ Len(cmds) > 0
      /\ \A i \in 1 .. Len(Tail(cmds)) : Tail(cmds)[i] = cmds[i + 1]
  BY <1>1, Rest
<1>3. \A i \in 1 .. Len(Tail(cmds)) : i + 1 \in 1 .. Len(cmds)
  BY <1>1, <1>2
<1>4. 1 \in 1 .. Len(cmds)
  BY <1>1, <1>2
<1> QED
  BY <1>1, <1>2, <1>3, <1>4 DEF Listed

\* What the send thread can have in hand.
LEMMA InHand ==
  ASSUME TypeOK
  PROVE  /\ inhand.type = "CONNECT" => inhand \in Connects
         /\ inhand.type = "PUBLISH" => /\ inhand.tok \in Calls
                                       /\ inhand = Publish(inhand.tok)
         /\ inhand.type = "DISCONNECT" => inhand = Disconnect
         /\ noting => inhand.type = "PUBLISH"
         /\ MutexFree => inhand.type = "none" /\ ~noting
<1>1. inhand \in Commands \cup {Nothing}
  BY DEF TypeOK
<1>2. noting => inhand.type = "PUBLISH"
  BY Kinds DEF TypeOK
<1>3. MutexFree => inhand.type = "none"
  BY Kinds DEF MutexFree
<1> QED
  BY <1>1, <1>2, <1>3, Kinds, KindOf

\* Cleaning a session empties the list and the responses and at most fails
\* tokens; closing it drops the link and a partial write as well.
LEMMA Cleaned ==
  ASSUME TypeOK
  PROVE  /\ CleanSession => /\ commands' = <<>> /\ responses' = <<>>
                            /\ pubtok' \in TokenStates
                            /\ pubtok' = "ok" => pubtok = "ok"
         /\ CloseSession => /\ state' = "down" /\ link' = "up" /\ partial' = 0
                            /\ CleanSession
         /\ \A also : FailConnects(also) => conntok' \in TokenStates
         /\ StartConnectRetry => retrying' \in BOOLEAN
<1>1. /\ conntok \in TokenStates /\ pubtok \in TokenStates
      /\ retrying \in BOOLEAN /\ should \in BOOLEAN
  BY DEF TypeOK
<1> QED
  BY <1>1, TokensTyped
     DEF CleanSession, CloseSession, FailConnects, StartConnectRetry

\* The program starts well typed.
LEMMA TypeInit == Init => TypeInv
<1> SUFFICES ASSUME Init PROVE TypeInv
  OBVIOUS
<1>1. Connect(0, 0, FALSE) \in Connects
  BY PublishAssumption, ConnectRecords DEF Connect, PublishAssumption
<1>2. Nothing.type = "none"
  BY Kinds
<1>3. /\ result \in [Calls -> {"none", "true", "false"}]
      /\ queuedIn \in [Calls -> 0 .. MaxBreaks + 1]
      /\ session \in 0 .. MaxBreaks + 1 /\ breaks \in 0 .. MaxBreaks
  BY PublishAssumption DEF Init, PublishAssumption
<1>7. /\ commands \in Seq(Commands) /\ responses \in Seq(Calls)
      /\ sent \in Seq(Calls \X (1 .. MaxBreaks + 1))
  BY DEF Init
<1>8. /\ inhand \in Commands \cup {Nothing} /\ connect \in Connects
      /\ noting = FALSE
  BY <1>1 DEF Init
<1>6. TypeOK
  <2>1. /\ made \in 0 .. MaxCalls
        /\ at \in Places /\ (at # "idle" => made > 0)
        /\ conntok \in TokenStates /\ pubtok \in TokenStates
        /\ connTok \in 0 .. made
    BY PublishAssumption DEF Init, PublishAssumption, Places, TokenStates
  <2>2. /\ should \in BOOLEAN
        /\ state \in {"down", "connecting", "connected"}
        /\ retrying \in BOOLEAN
        /\ partial = 0
        /\ link \in {"up", "broken"}
    BY DEF Init
  <2>3. pending \in 0 .. MaxCalls /\ partial \in 0 .. MaxCalls
    BY PublishAssumption DEF Init, PublishAssumption
  <2> QED
    BY <1>3, <1>7, <1>8, <2>1, <2>2, <2>3 DEF TypeOK
<1>4. Listed(commands, link)
  BY ListedNone DEF Init
<1>5. Fit(inhand, link) /\ Links /\ Writes
  BY <1>2 DEF Init, Fit, Links, Writes
<1> QED
  BY <1>6, <1>4, <1>5 DEF TypeInv

\* Types and what they rest on are kept by every step.
LEMMA TypeStep == TypeInv /\ [Next]_vars => TypeInv'
<1> SUFFICES ASSUME TypeInv, [Next]_vars PROVE TypeInv'
  OBVIOUS
<1> USE DEF TypeInv, callVars, connVars, writeVars, linkVars
<1>0. /\ MaxCalls \in Nat \ {0} /\ MaxBreaks \in Nat /\ TypeOK
      /\ Listed(commands, link) /\ Fit(inhand, link) /\ Links /\ Writes
  BY PublishAssumption DEF PublishAssumption
<1>1. CASE Call
  BY <1>0, <1>1 DEF Call, Goto, TypeOK, Places, TokenStates, Links, Writes, Fit
<1>2. CASE SetCallback
  BY <1>0, <1>2 DEF SetCallback, Goto, Return, TypeOK, Places, Links, Writes, Fit
<1>3. CASE IsConnected
  BY <1>0, <1>3 DEF IsConnected, Goto, TypeOK, Places, Links, Writes, Fit
<1>4. CASE SetConnect
  <2>1. made \in 0 .. MaxCalls /\ connect \in Connects
    BY <1>0 DEF TypeOK
  <2>2. connect' \in Connects
    BY <1>4, <2>1, ConnectTyped DEF SetConnect
  <2> QED
    BY <1>0, <1>4, <2>2
       DEF SetConnect, Goto, TypeOK, Places, TokenStates, Links, Writes, Fit
<1>5. CASE AddConnect
  <2>0. made \in 0 .. MaxCalls
    BY <1>0 DEF TypeOK
  <2>1. PICK c \in Connects : c = Connect(made, 0, TRUE) /\ c.version = 0
    BY <2>0, NewConnect
  <2>5. c.type = "CONNECT" /\ c \in Commands
    BY Kinds
  <2>2. Fit(c, link) /\ c \in Commands
    BY <2>1, <2>5, FitConnect
  <2>3. Listed(AddCommand(commands, c), link)
    BY <1>0, <2>2, ListedAdd
  <2>4. Listed(commands', link)
    BY <1>5, <2>1, <2>3 DEF AddConnect
  <2> QED
    BY <1>0, <1>5, <2>4
       DEF AddConnect, Goto, TypeOK, Places, Links, Writes, Fit, Listed
<1>6. CASE WaitConnect
  BY <1>0, <1>6 DEF WaitConnect, Goto, Return, TypeOK, Places, Links, Writes, Fit
<1>7. CASE Send
  <2>1. /\ pubtok' \in TokenStates
        /\ result' \in [Calls -> {"none", "true", "false"}]
        /\ at \in Places /\ at' \in Places /\ at # "idle"
    BY <1>0, <1>7 DEF Send, Goto, Return, TypeOK, Places, TokenStates
  <2> QED
    BY <1>0, <1>7, <2>1 DEF Send, TypeOK, Links, Writes, Fit
<1>8. CASE AppendPublish
  <2>1. made \in Calls /\ session \in 0 .. MaxBreaks + 1
    BY <1>0, <1>8 DEF TypeOK, AppendPublish, Goto, Calls
  <2>2. Listed(commands', link)
    BY <1>0, <1>8, <2>1, Kinds, ListedAdd DEF AppendPublish, Fit
  <2>3. queuedIn' \in [Calls -> 0 .. MaxBreaks + 1]
    BY <1>0, <1>8, <2>1 DEF AppendPublish, TypeOK
  <2> QED
    BY <1>0, <1>8, <2>2, <2>3
       DEF AppendPublish, Goto, TypeOK, Places, Links, Writes, Fit, Listed
<1>9. CASE WaitPublish
  BY <1>0, <1>9 DEF WaitPublish, Goto, Return, TypeOK, Places, Links, Writes, Fit
<1>10. CASE Take
  <2>1. /\ Listed(commands', link) /\ Fit(inhand', link) /\ inhand' \in Commands
        /\ Ready(inhand')
    BY <1>0, <1>10, ListedRest DEF Take
  <2>2. noting = FALSE
    BY <1>0, <1>10, Kinds DEF Take, TypeOK
  <2>3. TypeOK'
    BY <1>0, <1>10, <2>1, <2>2 DEF Take, TypeOK, Listed
  <2>4. Links' /\ Writes'
    BY <1>0, <1>10, <2>1, <2>2 DEF Take, Links, Writes, Ready
  <2> QED
    BY <1>10, <2>1, <2>3, <2>4 DEF Take
<1>11. CASE ConnectIgnored
  <2>1. connect' \in Connects
    BY <1>0, <1>11, InHand DEF ConnectIgnored, Processes
  <2> QED
    BY <1>0, <1>11, <2>1, Kinds
       DEF ConnectIgnored, Processes, TypeOK, Links, Writes, Fit
<1>12. CASE ConnectStarts
  <2>1. inhand \in Connects /\ inhand.version \in 0 .. 1
    BY <1>0, <1>12, InHand, Kinds DEF ConnectStarts, Processes, Fit
  <2>2. connect' \in Connects
    BY <1>12, <2>1, NextTyped DEF ConnectStarts
  <2> QED
    BY <1>0, <1>12, <2>2, Kinds
       DEF ConnectStarts, Processes, TypeOK, Links, Writes, Fit
<1>13. CASE ConnectFails
  <2>1. inhand \in Connects /\ inhand.version \in 0 .. 1
    BY <1>0, <1>13, InHand, Kinds DEF ConnectFails, Processes, Fit
  <2>2. NextVersion \in Connects /\ NextVersion.version = inhand.version + 1
    BY <2>1, NextTyped
  <2>3. /\ connect' \in Connects /\ conntok' \in TokenStates
        /\ retrying' \in BOOLEAN
    BY <1>0, <1>13, <2>2, TokensTyped
       DEF ConnectFails, TypeOK, StartConnectRetry, TokenStates
  <2>4. Listed(commands', link)
    <3>1. CASE NextVersion.version = 1 /\ commands' = AddCommand(commands, NextVersion)
      BY <1>0, <2>2, <3>1, Kinds, FitConnect, ListedAdd
    <3>2. CASE commands' = commands
      BY <1>0, <3>2
    <3> QED
      BY <1>13, <3>1, <3>2 DEF ConnectFails
  <2> QED
    BY <1>0, <1>13, <2>3, <2>4, Kinds
       DEF ConnectFails, Processes, TypeOK, Links, Writes, Fit, Listed
<1>14. CASE Disconnects
  <2>1. /\ inhand.type = "DISCONNECT" /\ ~noting /\ inhand' = Nothing
        /\ link = "broken" /\ state = "connected"
    BY <1>0, <1>14 DEF Disconnects, Processes, Fit, Links
  <2>2. /\ state' = "down" /\ link' = "up" /\ partial' = 0
        /\ commands' = <<>> /\ responses' = <<>>
        /\ pubtok' \in TokenStates /\ conntok' \in TokenStates
        /\ retrying' \in BOOLEAN
    BY <1>0, <1>14, <2>1, Cleaned DEF Disconnects
  <2>3. Listed(commands', link')
    BY <2>2, ListedNone
  <2>4. TypeOK'
    BY <1>0, <1>14, <2>1, <2>2, <2>3 DEF Disconnects, TypeOK, Listed
  <2> QED
    BY <1>0, <1>14, <2>1, <2>2, <2>3, <2>4, Kinds
       DEF Disconnects, Links, Writes, Fit
<1>15. CASE WriteWhole
  <2>1. /\ inhand.tok \in Calls /\ state = "connected" /\ inhand' = Nothing
        /\ ~noting
    BY <1>0, <1>15, InHand DEF WriteWhole, Processes, Writes
  <2>2. session \in 1 .. MaxBreaks + 1
    BY <1>0, <2>1 DEF Links, TypeOK
  <2>3. sent' \in Seq(Calls \X (1 .. MaxBreaks + 1))
    BY <1>0, <1>15, <2>1, <2>2 DEF WriteWhole, Written, TypeOK
  <2>4. pubtok' \in TokenStates
    BY <1>0, <1>15, TokensTyped DEF WriteWhole, TypeOK, TokenStates
  <2> QED
    BY <1>0, <1>15, <2>1, <2>3, <2>4, Kinds
       DEF WriteWhole, TypeOK, Links, Writes, Fit
<1>16. CASE WritePart
  <2>1. /\ inhand.tok \in Calls /\ inhand = Publish(inhand.tok)
        /\ state = "connected" /\ ~noting
    BY <1>0, <1>16, InHand DEF WritePart, Writes
  <2>2. TypeOK'
    BY <1>0, <1>16, <2>1 DEF WritePart, TypeOK, Calls
  <2> QED
    BY <1>0, <1>16, <2>1, <2>2 DEF WritePart, Links, Writes, Fit
<1>17. CASE NotePart
  <2>1. inhand.type = "PUBLISH" /\ inhand.tok \in Calls
    BY <1>0, <1>17, InHand DEF NotePart
  <2>2. responses' \in Seq(Calls) /\ pending' \in 0 .. MaxCalls
    BY <1>0, <1>17, <2>1 DEF NotePart, TypeOK, Calls
  <2> QED
    BY <1>0, <1>17, <2>1, <2>2, Kinds DEF NotePart, TypeOK, Links, Writes, Fit
<1>18. CASE WriteError
  <2>1. /\ inhand.tok \in Calls /\ inhand' = Nothing /\ ~noting
        /\ link = "broken"
    BY <1>0, <1>18, InHand DEF WriteError, Processes
  <2>2. Fit(Disconnect, link)
    BY <2>1, Kinds DEF Fit
  <2>3. Listed(commands', link)
    BY <1>0, <1>18, <2>2, Kinds, ListedAdd DEF WriteError
  <2>4. pubtok' \in TokenStates /\ pending' \in 0 .. MaxCalls
    BY <1>0, <1>18, <2>1, TokensTyped DEF WriteError, TypeOK, TokenStates, Calls
  <2> QED
    BY <1>0, <1>18, <2>1, <2>3, <2>4, Kinds
       DEF WriteError, TypeOK, Links, Writes, Fit, Listed
<1>19. CASE Reconnect
  <2>1. PICK c \in Connects : c = [connect EXCEPT !.version = 0] /\ c.version = 0
    BY <1>0, AgainTyped DEF TypeOK
  <2>2. c.type = "CONNECT" /\ c \in Commands
    BY Kinds
  <2>3. Listed(AddCommand(commands, c), link)
    BY <1>0, <2>1, <2>2, FitConnect, ListedAdd
  <2>4. Listed(commands', link)
    BY <1>19, <2>1, <2>3 DEF Reconnect
  <2> QED
    BY <1>0, <1>19, <2>4 DEF Reconnect, TypeOK, Links, Writes, Fit, Listed
<1>20. CASE ContinueWrite
  <2>1. partial \in Calls /\ state = "connected"
    BY <1>0, <1>20 DEF ContinueWrite, TypeOK, Calls
  <2>2. session \in 1 .. MaxBreaks + 1
    BY <1>0, <2>1 DEF Links, TypeOK
  <2>3. sent' \in Seq(Calls \X (1 .. MaxBreaks + 1))
    <3>1. CASE Written(partial)
      BY <1>0, <2>1, <2>2, <3>1 DEF Written, TypeOK
    <3>2. CASE UNCHANGED sent
      BY <1>0, <3>2 DEF TypeOK
    <3> QED
      BY <1>20, <3>1, <3>2 DEF ContinueWrite
  <2>4. ASSUME NEW v \in {"ok", "failed"}, WriteComplete(v)
        PROVE  /\ pubtok' \in TokenStates /\ responses' \in Seq(Calls)
               /\ pending' = 0
    <3>1. CASE pubtok' = Completed(pubtok, pending, v) /\ responses # <<>>
               /\ responses' = Tail(responses)
      BY <1>0, <2>4, <3>1, TokensTyped DEF TypeOK, TokenStates, WriteComplete
    <3>2. CASE UNCHANGED <<pubtok, responses>>
      BY <1>0, <2>4, <3>2 DEF TypeOK, WriteComplete
    <3> QED
      BY <2>4, <3>1, <3>2 DEF WriteComplete
  <2>5. /\ pubtok' \in TokenStates /\ responses' \in Seq(Calls) /\ pending' = 0
    BY <1>20, <2>4 DEF ContinueWrite
  <2> QED
    BY <1>0, <1>20, <2>3, <2>5 DEF ContinueWrite, TypeOK, Links, Writes, Fit
<1>21. CASE Connack
  <2>1. /\ inhand.type = "none" /\ ~noting /\ partial = 0 /\ link = "up"
        /\ session < MaxBreaks + 1 /\ session <= breaks
    BY <1>0, <1>21, InHand DEF Connack, TypeOK, Links
  <2>2. /\ commands' = <<>> /\ responses' = <<>>
        /\ pubtok' \in TokenStates /\ conntok' \in TokenStates
        /\ connect' \in Connects
    BY <1>0, <1>21, Cleaned, TokensTyped, ConnectTyped
       DEF Connack, TypeOK, TokenStates
  <2>3. Listed(commands', link')
    BY <2>2, ListedNone
  <2>5. session' \in 0 .. MaxBreaks + 1
    BY <1>0, <1>21, <2>1 DEF Connack, TypeOK
  <2>6. commands' \in Seq(Commands) /\ responses' \in Seq(Calls)
    BY <2>2
  <2>4. TypeOK'
    BY <1>0, <1>21, <2>1, <2>2, <2>5, <2>6 DEF Connack, TypeOK
  <2> QED
    BY <1>0, <1>21, <2>1, <2>2, <2>3, <2>4 DEF Connack, Links, Writes, Fit, TypeOK
<1>22. CASE ConnectEnds
  <2>1. /\ inhand.type = "none" /\ ~noting /\ partial = 0 /\ link = "up"
        /\ connect \in Connects /\ session <= breaks
    BY <1>0, <1>22, InHand DEF ConnectEnds, TypeOK, Links
  <2>2. CASE connect.version = 1 /\ commands' = AddCommand(commands, connect)
             /\ state' = "down"
             /\ UNCHANGED <<conntok, pubtok, responses, partial, link, retrying>>
    <3>1. Listed(commands', link)
      BY <1>0, <2>1, <2>2, Kinds, FitConnect, ListedAdd
    <3> QED
      BY <1>0, <1>22, <2>1, <2>2, <3>1
         DEF ConnectEnds, TypeOK, Links, Writes, Fit, Listed
  <2>3. CASE CloseSession /\ FailConnects({connect.tok}) /\ StartConnectRetry
    <3>1. /\ state' = "down" /\ link' = "up" /\ partial' = 0
          /\ commands' = <<>> /\ responses' = <<>>
          /\ pubtok' \in TokenStates /\ conntok' \in TokenStates
          /\ retrying' \in BOOLEAN
      BY <1>0, <2>3, Cleaned
    <3>2. Listed(commands', link')
      BY <3>1, ListedNone
    <3>3. TypeOK'
      BY <1>0, <1>22, <2>1, <3>1, <3>2 DEF ConnectEnds, TypeOK, Listed
    <3> QED
      BY <1>0, <1>22, <2>1, <3>1, <3>2, <3>3 DEF ConnectEnds, Links, Writes, Fit
  <2> QED
    BY <1>22, <2>2, <2>3 DEF ConnectEnds
<1>23. CASE SocketError
  <2>1. Fit(Disconnect, link)
    BY <1>23, Kinds DEF Fit, SocketError
  <2>2. Listed(commands', link)
    BY <1>0, <1>23, <2>1, Kinds, ListedAdd DEF SocketError
  <2> QED
    BY <1>0, <1>23, <2>2 DEF SocketError, TypeOK, Links, Writes, Fit, Listed
<1>24. CASE Break
  <2>1. Listed(commands', link') /\ Fit(inhand', link')
    BY <1>0, <1>24 DEF Break, Listed, Fit
  <2> QED
    BY <1>0, <1>24, <2>1 DEF Break, TypeOK, Links, Writes
<1>25. CASE UNCHANGED vars
  BY <1>0, <1>25 DEF vars, TypeOK, Listed, Fit, Links, Writes
<1> QED
  BY <1>1, <1>2, <1>3, <1>4, <1>5, <1>6, <1>7, <1>8, <1>9, <1>10, <1>11, <1>12,
     <1>13, <1>14, <1>15, <1>16, <1>17, <1>18, <1>19, <1>20, <1>21, <1>22,
     <1>23, <1>24, <1>25
     DEF Next, AsyncPublish, SendThread, ReceiveThread

\* The invariant holds throughout.
LEMMA TypeHolds == Spec => []TypeInv
BY TypeInit, TypeStep, PTL DEF Spec

\* The types hold in every state that the program reaches: one message at most
\* is written in part, and only on a live connection; no list of commands, no
\* protocol version and no count of connections leaves its range.
THEOREM TypeCorrect == Spec => []TypeOK
<1>1. TypeInv => TypeOK
  BY DEF TypeInv
<1> QED
  BY <1>1, TypeHolds, PTL

-----------------------------------------------------------------------------
(* The order of the messages.  Those in the list wait behind the one that  *)
(* is foremost: in hand, or written in part.                               *)

\* The messages of a list of commands, and that they stand in it in order.
Tokens(cmds) == {k \in Calls : \E i \in 1 .. Len(cmds) : cmds[i] = Publish(k)}

Ordered(cmds) ==
  \A i, j \in 1 .. Len(cmds) :
    i < j /\ cmds[i].type = "PUBLISH" /\ cmds[j].type = "PUBLISH"
      => cmds[i].tok < cmds[j].tok

\* The message the send thread is about to write or the socket to finish.
Foremost == IF partial # 0 THEN partial
            ELSE IF inhand.type = "PUBLISH" /\ ~noting THEN inhand.tok
            ELSE 0

\* A call has queued its message, if that is ever to be.
Handed(k) == k < made \/ (k = made /\ at \in {"idle", "waitpub"})

OrderInv ==
  /\ Ordered(commands)
  /\ \A k \in Tokens(commands) : /\ Handed(k) /\ Foremost < k
                                 /\ \A n \in 1 .. Len(sent) : sent[n][1] < k
  /\ Foremost # 0 => /\ Handed(Foremost)
                     /\ \A n \in 1 .. Len(sent) : sent[n][1] < Foremost
  /\ \A n \in 1 .. Len(sent) : Handed(sent[n][1])
  /\ SentInOrder

\* An empty list.
LEMMA TokensNone == Tokens(<<>>) = {} /\ Ordered(<<>>)
BY DEF Tokens, Ordered

\* The commands of a list that are messages, and the messages of the list.
LEMMA TokensOf ==
  ASSUME NEW cmds \in Seq(Commands)
  PROVE  \A k : k \in Tokens(cmds) <=>
           \E i \in 1 .. Len(cmds) : cmds[i].type = "PUBLISH" /\ cmds[i].tok = k
<1>1. ASSUME NEW k \in Tokens(cmds)
      PROVE  \E i \in 1 .. Len(cmds) :
               cmds[i].type = "PUBLISH" /\ cmds[i].tok = k
  BY Kinds DEF Tokens
<1>2. ASSUME NEW i \in 1 .. Len(cmds), cmds[i].type = "PUBLISH"
      PROVE  cmds[i].tok \in Tokens(cmds)
  <2>1. cmds[i] \in Commands
    OBVIOUS
  <2>2. cmds[i].tok \in Calls /\ cmds[i] = Publish(cmds[i].tok)
    BY <1>2, <2>1, KindOf
  <2> QED
    BY <2>2 DEF Tokens
<1> QED
  BY <1>1, <1>2

\* A CONNECT or DISCONNECT that is added changes no message.
LEMMA TokensInFront ==
  ASSUME NEW cmds \in Seq(Commands), Ordered(cmds),
         NEW c \in Commands, c.type # "PUBLISH"
  PROVE  LET new == AddCommand(cmds, c)
         IN  Tokens(new) = Tokens(cmds) /\ Ordered(new)
<1> DEFINE new == AddCommand(cmds, c)
<1> SUFFICES Tokens(new) = Tokens(cmds) /\ Ordered(new)
  OBVIOUS
<1>1. \/ new = cmds
      \/ /\ new \in Seq(Commands) /\ Len(new) = Len(cmds) + 1
         /\ new[1] = c
         /\ \A i \in 2 .. Len(new) : new[i] = cmds[i - 1]
  BY AddedInFront
<1> HIDE DEF new
<1>2. CASE new = cmds
  BY <1>2
<1>3. CASE new # cmds
  <2>1. /\ new \in Seq(Commands) /\ Len(new) = Len(cmds) + 1
        /\ new[1] = c
        /\ \A i \in 2 .. Len(new) : new[i] = cmds[i - 1]
    BY <1>1, <1>3
  <2>2. \A i \in 1 .. Len(new) :
          i # 1 => /\ i - 1 \in 1 .. Len(cmds) /\ i \in 2 .. Len(new)
                   /\ new[i] = cmds[i - 1]
    BY <2>1
  <2>3. \A i \in 1 .. Len(cmds) : /\ i + 1 \in 1 .. Len(new)
                                  /\ new[i + 1] = cmds[i]
    BY <2>1
  <2>4. ASSUME NEW k \in Tokens(new)
        PROVE  k \in Tokens(cmds)
    <3>1. PICK i \in 1 .. Len(new) : new[i].type = "PUBLISH" /\ new[i].tok = k
      BY <2>1, TokensOf
    <3>2. i # 1
      BY <2>1, <3>1
    <3>3. PICK j \in 1 .. Len(cmds) : new[i] = cmds[j]
      BY <2>2, <3>2
    <3> QED
      BY <3>1, <3>3, TokensOf
  <2>7. ASSUME NEW k \in Tokens(cmds)
        PROVE  k \in Tokens(new)
    <3>1. PICK i \in 1 .. Len(cmds) : cmds[i].type = "PUBLISH" /\ cmds[i].tok = k
      BY TokensOf
    <3>2. PICK j \in 1 .. Len(new) : new[j] = cmds[i]
      BY <2>3
    <3>3. \A t : (\E n \in 1 .. Len(new) :
                    new[n].type = "PUBLISH" /\ new[n].tok = t)
                 => t \in Tokens(new)
      BY <2>1, TokensOf
    <3> QED
      BY <3>1, <3>2, <3>3
  <2>5. Tokens(new) = Tokens(cmds)
    BY <2>4, <2>7
  <2>6. ASSUME NEW i \in 1 .. Len(new), NEW j \in 1 .. Len(new), i < j,
               new[i].type = "PUBLISH", new[j].type = "PUBLISH"
        PROVE  new[i].tok < new[j].tok
    <3>1. i # 1 /\ j # 1
      BY <2>1, <2>6
    <3>2. /\ i - 1 \in 1 .. Len(cmds) /\ new[i] = cmds[i - 1]
          /\ j - 1 \in 1 .. Len(cmds) /\ new[j] = cmds[j - 1]
          /\ i - 1 < j - 1
      BY <2>2, <2>6, <3>1
    <3> QED
      BY <2>6, <3>2 DEF Ordered
  <2> QED
    BY <2>5, <2>6 DEF Ordered
<1> QED
  BY <1>2, <1>3

\* A message that is added goes behind the others.
LEMMA TokensBehind ==
  ASSUME NEW cmds \in Seq(Commands), Ordered(cmds),
         NEW k \in Calls, \A t \in Tokens(cmds) : t < k
  PROVE  LET new == AddCommand(cmds, Publish(k))
         IN  Tokens(new) = Tokens(cmds) \cup {k} /\ Ordered(new)
<1> DEFINE new == AddCommand(cmds, Publish(k))
<1> SUFFICES Tokens(new) = Tokens(cmds) \cup {k} /\ Ordered(new)
  OBVIOUS
<1>1. /\ new \in Seq(Commands) /\ Len(new) = Len(cmds) + 1
      /\ new[Len(new)] = Publish(k)
      /\ \A i \in 1 .. Len(cmds) : new[i] = cmds[i]
  BY AddedBehind
<1> HIDE DEF new
<1>2. /\ Len(cmds) \in Nat /\ Len(new) \in 1 .. Len(new)
      /\ \A i \in 1 .. Len(new) : i = Len(new) \/ i \in 1 .. Len(cmds)
      /\ \A i \in 1 .. Len(cmds) : i \in 1 .. Len(new)
  BY <1>1
<1>3. Publish(k).type = "PUBLISH" /\ Publish(k).tok = k
  BY Kinds
<1>4. ASSUME NEW t
      PROVE  t \in Tokens(new) <=> t \in Tokens(cmds) \/ t = k
  BY <1>1, <1>2, <1>3, TokensOf
<1>5. ASSUME NEW i \in 1 .. Len(new), NEW j \in 1 .. Len(new), i < j,
             new[i].type = "PUBLISH", new[j].type = "PUBLISH"
      PROVE  new[i].tok < new[j].tok
  <2>1. i \in 1 .. Len(cmds) /\ new[i] = cmds[i]
    BY <1>1, <1>2, <1>5
  <2>2. cmds[i].tok \in Tokens(cmds)
    BY <1>5, <2>1, TokensOf
  <2>3. CASE j = Len(new)
    BY <1>1, <1>3, <2>1, <2>2, <2>3
  <2>4. CASE j \in 1 .. Len(cmds)
    BY <1>1, <1>5, <2>1, <2>4 DEF Ordered
  <2> QED
    BY <1>2, <2>3, <2>4
<1>6. Tokens(new) = Tokens(cmds) \cup {k}
  BY <1>4
<1> QED
  BY <1>5, <1>6 DEF Ordered

\* The first command is taken: a message precedes all others.
LEMMA TokensRest ==
  ASSUME NEW cmds \in Seq(Commands), Ordered(cmds), cmds # <<>>
  PROVE  /\ Ordered(Tail(cmds))
         /\ Head(cmds).type # "PUBLISH" => Tokens(Tail(cmds)) = Tokens(cmds)
         /\ Head(cmds).type = "PUBLISH" =>
              /\ Tokens(cmds) = Tokens(Tail(cmds)) \cup {Head(cmds).tok}
              /\ \A t \in Tokens(Tail(cmds)) : Head(cmds).tok < t
<1> DEFINE new == Tail(cmds)
           c == Head(cmds)
<1>1. /\ c \in Commands /\ c = cmds[1]
      /\ new \in Seq(Commands) /\ Len(new) = Len(cmds) - 1 /\ Len(cmds) > 0
      /\ \A i \in 1 .. Len(new) : new[i] = cmds[i + 1]
  BY Rest
<1> SUFFICES /\ Ordered(new)
             /\ c.type # "PUBLISH" => Tokens(new) = Tokens(cmds)
             /\ c.type = "PUBLISH" => /\ Tokens(cmds) = Tokens(new) \cup {c.tok}
                                      /\ \A t \in Tokens(new) : c.tok < t
  OBVIOUS
<1> HIDE DEF new, c
<1>2. /\ 1 \in 1 .. Len(cmds) /\ Len(cmds) \in Nat
      /\ \A i \in 1 .. Len(new) : i + 1 \in 1 .. Len(cmds) /\ 1 < i + 1
      /\ \A i \in 1 .. Len(cmds) :
           i # 1 => i - 1 \in 1 .. Len(new) /\ cmds[i] = new[i - 1]
  BY <1>1
<1>3. ASSUME NEW t \in Tokens(new)
      PROVE  t \in Tokens(cmds)
  <2>1. PICK i \in 1 .. Len(new) : new[i].type = "PUBLISH" /\ new[i].tok = t
    BY <1>1, TokensOf
  <2>2. PICK j \in 1 .. Len(cmds) : new[i] = cmds[j]
    BY <1>1, <1>2
  <2> QED
    BY <2>1, <2>2, TokensOf
<1>4. ASSUME NEW t \in Tokens(cmds)
      PROVE  t \in Tokens(new) \/ (c.type = "PUBLISH" /\ t = c.tok)
  <2>1. PICK i \in 1 .. Len(cmds) : cmds[i].type = "PUBLISH" /\ cmds[i].tok = t
    BY TokensOf
  <2>2. CASE i = 1
    BY <1>1, <2>1, <2>2
  <2>3. CASE i # 1
    BY <1>1, <1>2, <2>1, <2>3, TokensOf
  <2> QED
    BY <2>2, <2>3
<1>5. c.type = "PUBLISH" => c.tok \in Tokens(cmds)
  BY <1>1, <1>2, TokensOf
<1>6. ASSUME c.type = "PUBLISH", NEW t \in Tokens(new)
      PROVE  c.tok < t
  <2>1. PICK i \in 1 .. Len(new) : new[i].type = "PUBLISH" /\ new[i].tok = t
    BY <1>1, TokensOf
  <2> QED
    BY <1>1, <1>2, <1>6, <2>1 DEF Ordered
<1>7. Ordered(new)
  BY <1>1, <1>2 DEF Ordered
<1>8. c.type # "PUBLISH" => Tokens(new) = Tokens(cmds)
  BY <1>3, <1>4
<1>9. c.type = "PUBLISH" => Tokens(cmds) = Tokens(new) \cup {c.tok}
  BY <1>3, <1>4, <1>5
<1> QED
  BY <1>6, <1>7, <1>8, <1>9

-----------------------------------------------------------------------------
(* What a step does to the line of messages: none moves forward, one joins *)
(* it, one comes to be foremost, or the foremost one is written.           *)

\* What the calls have handed over is only added to.
Later == \A k \in Nat : Handed(k) => Handed(k)'

\* The connection is still the same, if there is one with messages for it.
SameSession == session' = session /\ (state' = "connected" => state = "connected")

Quiet ==
  /\ Tokens(commands') \subseteq Tokens(commands)
  /\ Foremost' \in {0, Foremost}
  /\ UNCHANGED <<sent, queuedIn>>
  /\ Tokens(commands') # {} \/ Foremost' # 0 => SameSession

Queued ==
  /\ at = "append" /\ at' = "waitpub" /\ made' = made /\ made \in Calls
  /\ Tokens(commands') = Tokens(commands) \cup {made}
  /\ Foremost' = Foremost
  /\ UNCHANGED sent
  /\ queuedIn' = [queuedIn EXCEPT ![made] = IF state = "connected" THEN session
                                            ELSE 0]
  /\ UNCHANGED <<state, session>>

Fetched ==
  /\ Foremost = 0 /\ Foremost' \in Calls
  /\ Tokens(commands) = Tokens(commands') \cup {Foremost'}
  /\ \A k \in Tokens(commands') : Foremost' < k
  /\ state = "connected"
  /\ UNCHANGED <<sent, queuedIn, state, session>>

Sending ==
  /\ Foremost \in Calls /\ Foremost' = 0
  /\ UNCHANGED commands
  /\ sent' = Append(sent, <<Foremost, session>>)
  /\ UNCHANGED <<queuedIn, state, session>>

Moves == Ordered(commands') /\ Later /\ (Quiet \/ Queued \/ Fetched \/ Sending)

\* A message is foremost on a live connection only.
LEMMA ForemostTyped ==
  ASSUME TypeInv
  PROVE  /\ Foremost \in 0 .. MaxCalls
         /\ Foremost # 0 => state = "connected"
         /\ inhand.type # "PUBLISH" => Foremost = partial
         /\ inhand.type = "PUBLISH" /\ ~noting => Foremost = inhand.tok
         /\ partial # 0 => Foremost = partial
         /\ noting => Foremost = partial
         /\ MutexFree => Foremost = partial
<1>1. /\ TypeOK /\ Writes /\ MaxCalls \in Nat
      /\ partial \in 0 .. MaxCalls /\ (partial # 0 => state = "connected")
  BY PublishAssumption DEF TypeInv, TypeOK, PublishAssumption
<1>2. /\ inhand.type = "PUBLISH" => inhand.tok \in Calls /\ state = "connected"
      /\ MutexFree => inhand.type = "none"
  BY <1>1, InHand DEF Writes
<1> QED
  BY <1>1, <1>2 DEF Foremost, Writes, Calls

\* Every step is one of these moves.
LEMMA Moving ==
  ASSUME TypeInv, OrderInv, [Next]_vars
  PROVE  Moves
<1> DEFINE Still == UNCHANGED <<commands, sent, queuedIn>>
<1>0. /\ MaxCalls \in Nat \ {0} /\ TypeOK /\ Writes /\ Links
      /\ Listed(commands, link) /\ Fit(inhand, link)
      /\ commands \in Seq(Commands) /\ Ordered(commands)
      /\ made \in Nat /\ at \in Places
      /\ state \in {"down", "connecting", "connected"}
  BY PublishAssumption DEF TypeInv, TypeOK, OrderInv, PublishAssumption
<1>f. /\ Foremost \in 0 .. MaxCalls
      /\ Foremost # 0 => state = "connected"
      /\ inhand.type # "PUBLISH" => Foremost = partial
      /\ inhand.type = "PUBLISH" /\ ~noting => Foremost = inhand.tok
      /\ partial # 0 => Foremost = partial
      /\ noting => Foremost = partial
      /\ MutexFree => Foremost = partial
  BY ForemostTyped
<1>l. ASSUME made' = made,
             \/ at' = at
             \/ at \notin {"idle", "waitpub"}
             \/ at' \in {"idle", "waitpub"}
      PROVE  Later
  BY <1>0, <1>l DEF Later, Handed
\* Steps that leave the messages where they are.
<1>s. ASSUME Still, UNCHANGED <<inhand, noting, partial>>,
             UNCHANGED <<state, session>>, Later
      PROVE  Moves
  BY <1>0, <1>s DEF Moves, Quiet, Foremost, SameSession
<1>1. CASE Call
  <2>1. Later
    BY <1>0, <1>1 DEF Call, Goto, Later, Handed
  <2> QED
    BY <1>1, <1>s, <2>1 DEF Call, callVars, connVars, writeVars, linkVars
<1>2. CASE SetCallback
  BY <1>2, <1>s, <1>l DEF SetCallback, Goto, connVars, writeVars, linkVars
<1>3. CASE IsConnected
  BY <1>3, <1>s, <1>l DEF IsConnected, Goto, connVars, writeVars, linkVars
<1>4. CASE SetConnect
  BY <1>4, <1>s, <1>l DEF SetConnect, Goto, connVars, writeVars, linkVars
<1>6. CASE WaitConnect
  BY <1>6, <1>s, <1>l DEF WaitConnect, Goto, connVars, writeVars, linkVars
<1>7. CASE Send
  BY <1>7, <1>s, <1>l DEF Send, Goto, connVars, writeVars, linkVars
<1>9. CASE WaitPublish
  BY <1>9, <1>s, <1>l DEF WaitPublish, Goto, connVars, writeVars, linkVars
<1>24. CASE Break
  BY <1>24, <1>s, <1>l DEF Break, callVars, connVars, writeVars
<1>25. CASE UNCHANGED vars
  BY <1>25, <1>s, <1>l DEF vars, callVars, connVars, writeVars, linkVars
\* Steps that add a CONNECT or a DISCONNECT.
<1>a. ASSUME NEW c \in Commands, c.type # "PUBLISH",
             commands' = AddCommand(commands, c)
      PROVE  Tokens(commands') = Tokens(commands) /\ Ordered(commands')
  BY <1>0, <1>a, TokensInFront
<1>b. ASSUME Tokens(commands') = Tokens(commands), Ordered(commands'),
             Foremost' \in {0, Foremost}, UNCHANGED <<sent, queuedIn, made, at>>,
             SameSession
      PROVE  Moves
  BY <1>b, <1>l DEF Moves, Quiet
<1>5. CASE AddConnect
  <2>1. Connect(made, 0, TRUE) \in Connects
    BY <1>0, NewConnect DEF TypeOK
  <2>2. PICK c \in Connects : c = Connect(made, 0, TRUE)
    BY <2>1
  <2>3. c.type = "CONNECT" /\ c \in Commands
    BY Kinds
  <2>4. Tokens(commands') = Tokens(commands) /\ Ordered(commands')
    BY <1>5, <1>a, <2>2, <2>3 DEF AddConnect
  <2>5. Later
    BY <1>5, <1>l DEF AddConnect, Goto
  <2>6. /\ Foremost' = Foremost /\ SameSession
        /\ UNCHANGED <<sent, queuedIn>>
    BY <1>5 DEF AddConnect, Foremost, SameSession, connVars, writeVars, linkVars
  <2> QED
    BY <2>4, <2>5, <2>6 DEF Moves, Quiet
<1>13. CASE ConnectFails
  <2>1. inhand \in Connects /\ inhand.version \in 0 .. 1 /\ inhand.type = "CONNECT"
    BY <1>0, <1>13, InHand, Kinds DEF ConnectFails, Processes, Fit
  <2>2. NextVersion \in Commands /\ NextVersion.type = "CONNECT"
    BY <2>1, NextTyped, Kinds
  <2>3. Tokens(commands') = Tokens(commands) /\ Ordered(commands')
    BY <1>0, <1>13, <1>a, <2>2 DEF ConnectFails
  <2>4. Foremost' = Foremost
    BY <1>f, <1>13, <2>1, Kinds
       DEF ConnectFails, Processes, Foremost, writeVars
  <2> QED
    BY <1>13, <1>b, <2>3, <2>4
       DEF ConnectFails, SameSession, writeVars, linkVars
<1>18. CASE WriteError
  <2>1. Tokens(commands') = Tokens(commands) /\ Ordered(commands')
    BY <1>18, <1>a, Kinds DEF WriteError
  <2>2. Foremost' = 0
    BY <1>0, <1>18, Kinds DEF WriteError, Processes, Foremost, Writes
  <2> QED
    BY <1>18, <1>b, <2>1, <2>2 DEF WriteError, SameSession, connVars, linkVars
<1>19. CASE Reconnect
  <2>1. PICK c \in Connects : c = [connect EXCEPT !.version = 0]
    BY <1>0, AgainTyped DEF TypeOK
  <2>2. c.type = "CONNECT" /\ c \in Commands
    BY Kinds
  <2>3. Tokens(commands') = Tokens(commands) /\ Ordered(commands')
    BY <1>19, <1>a, <2>1, <2>2 DEF Reconnect
  <2>4. Foremost' = Foremost
    BY <1>19 DEF Reconnect, Foremost, writeVars
  <2> QED
    BY <1>19, <1>b, <2>3, <2>4
       DEF Reconnect, SameSession, callVars, connVars, writeVars, linkVars
<1>23. CASE SocketError
  <2>1. Tokens(commands') = Tokens(commands) /\ Ordered(commands')
    BY <1>23, <1>a, Kinds DEF SocketError
  <2>2. Foremost' = Foremost
    BY <1>23 DEF SocketError, Foremost, writeVars
  <2> QED
    BY <1>23, <1>b, <2>1, <2>2
       DEF SocketError, SameSession, callVars, connVars, writeVars, linkVars
\* Steps of the send thread that deal with a command.
<1>11. CASE ConnectIgnored
  <2>1. Foremost' = Foremost
    BY <1>f, <1>11, Kinds DEF ConnectIgnored, Processes, Foremost, writeVars
  <2> QED
    BY <1>0, <1>11, <1>b, <2>1
       DEF ConnectIgnored, SameSession, callVars, writeVars, linkVars
<1>12. CASE ConnectStarts
  <2>1. Foremost' = Foremost
    BY <1>f, <1>12, Kinds DEF ConnectStarts, Processes, Foremost, writeVars
  <2> QED
    BY <1>0, <1>12, <1>b, <2>1
       DEF ConnectStarts, SameSession, callVars, writeVars, linkVars
<1>10. CASE Take
  <2>1. /\ commands # <<>> /\ Ready(Head(commands)) /\ Head(commands) \in Commands
        /\ inhand' = Head(commands) /\ commands' = Tail(commands)
        /\ Foremost = partial
    BY <1>0, <1>f, <1>10, Rest DEF Take, MutexFree
  <2>2. noting = FALSE /\ noting' = FALSE /\ partial' = partial
    BY <1>0, <1>10, InHand DEF Take, MutexFree, writeVars, TypeOK
  <2>3. /\ Ordered(commands')
        /\ Head(commands).type # "PUBLISH" => Tokens(commands') = Tokens(commands)
        /\ Head(commands).type = "PUBLISH" =>
             /\ Tokens(commands) = Tokens(commands') \cup {Head(commands).tok}
             /\ \A t \in Tokens(commands') : Head(commands).tok < t
    BY <1>0, <2>1, TokensRest
  <2>4. UNCHANGED <<sent, queuedIn, made, at, state, session>>
    BY <1>10 DEF Take, callVars, connVars, writeVars, linkVars
  <2>5. CASE Head(commands).type = "PUBLISH"
    <3>1. /\ Head(commands).tok \in Calls
          /\ state = "connected" /\ partial = 0
      BY <2>1, <2>5, KindOf DEF Ready
    <3>2. Foremost' = Head(commands).tok
      BY <2>1, <2>2, <2>5, <3>1 DEF Foremost
    <3>3. Fetched
      BY <2>1, <2>3, <2>4, <2>5, <3>1, <3>2 DEF Fetched
    <3> QED
      BY <1>l, <2>3, <2>4, <3>3 DEF Moves
  <2>6. CASE Head(commands).type # "PUBLISH"
    <3>1. Foremost' = Foremost
      BY <2>1, <2>2, <2>6 DEF Foremost
    <3> QED
      BY <1>b, <2>3, <2>4, <2>6, <3>1 DEF SameSession
  <2> QED
    BY <2>5, <2>6
<1>15. CASE WriteWhole
  <2>1. /\ inhand.type = "PUBLISH" /\ ~noting /\ inhand.tok \in Calls
        /\ partial = 0 /\ Foremost = inhand.tok
    BY <1>0, <1>f, <1>15, InHand DEF WriteWhole, Processes, Writes
  <2>2. Foremost' = 0
    BY <1>15, <2>1, Kinds DEF WriteWhole, Processes, Foremost
  <2>3. Sending
    BY <1>15, <2>1, <2>2 DEF WriteWhole, Written, Sending, connVars, linkVars
  <2> QED
    BY <1>0, <1>15, <1>l, <2>3 DEF Moves, WriteWhole
<1>16. CASE WritePart
  <2>1. inhand.tok \in Calls /\ Foremost = inhand.tok
    BY <1>0, <1>f, <1>16, InHand DEF WritePart
  <2>2. Foremost' = Foremost
    BY <1>16, <2>1 DEF WritePart, Foremost, Calls
  <2> QED
    BY <1>0, <1>16, <1>b, <2>2
       DEF WritePart, SameSession, callVars, connVars, linkVars
<1>17. CASE NotePart
  <2>1. Foremost' = Foremost
    BY <1>0, <1>f, <1>17, Kinds DEF NotePart, Foremost
  <2> QED
    BY <1>0, <1>17, <1>b, <2>1
       DEF NotePart, SameSession, callVars, connVars, linkVars
<1>20. CASE ContinueWrite
  <2>1. partial \in Calls /\ Foremost = partial
    BY <1>0, <1>f, <1>20 DEF ContinueWrite, TypeOK, Calls
  <2>2. Foremost' = 0
    BY <1>0, <1>20 DEF ContinueWrite, Foremost, Writes
  <2>3. CASE Written(partial)
    <3>1. Sending
      BY <1>20, <2>1, <2>2, <2>3
         DEF ContinueWrite, Written, Sending, connVars, linkVars
    <3> QED
      BY <1>0, <1>20, <1>l, <3>1 DEF Moves, ContinueWrite
  <2>4. CASE UNCHANGED sent
    BY <1>0, <1>20, <1>b, <2>2, <2>4
       DEF ContinueWrite, SameSession, connVars, linkVars
  <2> QED
    BY <1>20, <2>3, <2>4 DEF ContinueWrite
\* Steps that drop all messages, and with them the connection or the wait for it.
<1>c. ASSUME commands' = <<>>, Foremost' = 0,
             UNCHANGED <<sent, queuedIn, made, at>>
      PROVE  Moves
  BY <1>c, <1>l, TokensNone DEF Moves, Quiet
<1>14. CASE Disconnects
  <2>1. CloseSession
    BY <1>0, <1>14 DEF Disconnects, Processes, Fit, Links
  <2>2. commands' = <<>> /\ partial' = 0
    BY <1>0, <2>1, Cleaned
  <2>3. Foremost' = 0
    BY <1>14, <2>2, Kinds DEF Disconnects, Processes, Foremost
  <2> QED
    BY <1>14, <1>c, <2>2, <2>3 DEF Disconnects
<1>21. CASE Connack
  <2>1. commands' = <<>> /\ partial' = 0
    BY <1>0, <1>21, Cleaned DEF Connack, TypeOK
  <2>2. Foremost' = 0
    BY <1>0, <1>21, <2>1, InHand DEF Connack, Foremost
  <2> QED
    BY <1>21, <1>c, <2>1, <2>2 DEF Connack
<1>22. CASE ConnectEnds
  <2>1. /\ inhand' = inhand /\ inhand.type = "none" /\ partial = 0
        /\ connect \in Connects
    BY <1>0, <1>22, InHand DEF ConnectEnds, TypeOK
  <2>2. CASE CloseSession
    <3>1. commands' = <<>> /\ partial' = 0
      BY <1>0, <2>2, Cleaned
    <3>2. Foremost' = 0
      BY <2>1, <3>1 DEF Foremost
    <3> QED
      BY <1>22, <1>c, <3>1, <3>2 DEF ConnectEnds
  <2>3. CASE commands' = AddCommand(commands, connect) /\ partial' = partial
             /\ state' = "down"
    <3>1. Tokens(commands') = Tokens(commands) /\ Ordered(commands')
      BY <1>a, <2>1, <2>3, Kinds
    <3>2. Foremost' = 0
      BY <2>1, <2>3 DEF Foremost
    <3> QED
      BY <1>22, <1>b, <2>3, <3>1, <3>2 DEF ConnectEnds, SameSession
  <2> QED
    BY <1>22, <2>2, <2>3 DEF ConnectEnds
\* A message is queued.
<1>8. CASE AppendPublish
  <2>1. made \in Calls /\ at = "append"
    BY <1>0, <1>8 DEF AppendPublish, Goto, TypeOK, Calls
  <2>2. \A k \in Tokens(commands) : k < made
    BY <2>1 DEF OrderInv, Handed
  <2>3. Tokens(commands') = Tokens(commands) \cup {made} /\ Ordered(commands')
    BY <1>0, <1>8, <2>1, <2>2, TokensBehind DEF AppendPublish
  <2>4. Queued
    BY <1>8, <2>1, <2>3
       DEF AppendPublish, Goto, Queued, Foremost, connVars, writeVars, linkVars
  <2> QED
    BY <1>8, <1>l, <2>1, <2>3, <2>4 DEF Moves, AppendPublish, Goto
<1> QED
  BY <1>1, <1>2, <1>3, <1>4, <1>5, <1>6, <1>7, <1>8, <1>9, <1>10, <1>11, <1>12,
     <1>13, <1>14, <1>15, <1>16, <1>17, <1>18, <1>19, <1>20, <1>21, <1>22,
     <1>23, <1>24, <1>25
     DEF Next, AsyncPublish, SendThread, ReceiveThread

\* Nothing is handed over or written at the start.
LEMMA OrderInit == Init => OrderInv
<1> SUFFICES ASSUME Init PROVE OrderInv
  OBVIOUS
<1>1. Tokens(commands) = {} /\ Ordered(commands)
  BY TokensNone DEF Init
<1>2. Foremost = 0 /\ sent = <<>>
  BY Kinds DEF Init, Foremost
<1> QED
  BY <1>1, <1>2 DEF OrderInv, SentInOrder

\* The order is kept by every step.
LEMMA OrderStep == TypeInv /\ OrderInv /\ [Next]_vars => OrderInv'
<1> SUFFICES ASSUME TypeInv, OrderInv, [Next]_vars PROVE OrderInv'
  OBVIOUS
<1> DEFINE NowHanded(k) == k < made \/ (k = made /\ at \in {"idle", "waitpub"})
           ThenHanded(k) == k < made' \/ (k = made' /\ at' \in {"idle", "waitpub"})
           SentBefore(k) == \A n \in 1 .. Len(sent) : sent[n][1] < k
           ThenSentBefore(k) == \A n \in 1 .. Len(sent') : sent'[n][1] < k
<1>1. Moves
  BY Moving
<1>2. /\ sent \in Seq(Calls \X (1 .. MaxBreaks + 1))
      /\ Foremost \in 0 .. MaxCalls
      /\ MaxCalls \in Nat /\ made \in Nat
      /\ Tokens(commands) \subseteq Calls /\ Tokens(commands') \subseteq Calls
  BY PublishAssumption, ForemostTyped
     DEF TypeInv, TypeOK, Tokens, PublishAssumption
<1>3. /\ \A n \in 1 .. Len(sent) : sent[n][1] \in Calls
      /\ \A k \in Calls : k \in Nat /\ k > 0
      /\ Len(sent) \in Nat
  BY <1>2 DEF Calls
<1>4. /\ \A k \in Tokens(commands) :
           NowHanded(k) /\ Foremost < k /\ SentBefore(k)
      /\ Foremost # 0 => NowHanded(Foremost) /\ SentBefore(Foremost)
      /\ \A n \in 1 .. Len(sent) : NowHanded(sent[n][1])
      /\ \A i, j \in 1 .. Len(sent) : i < j => sent[i][1] < sent[j][1]
  <2>1. \A k \in Tokens(commands) :
          NowHanded(k) /\ Foremost < k /\ SentBefore(k)
    BY DEF OrderInv, Handed
  <2>2. Foremost # 0 => NowHanded(Foremost) /\ SentBefore(Foremost)
    BY DEF OrderInv, Handed
  <2>3. \A n \in 1 .. Len(sent) : NowHanded(sent[n][1])
    BY DEF OrderInv, Handed
  <2>4. SentInOrder /\ DOMAIN sent = 1 .. Len(sent)
    BY <1>2 DEF OrderInv
  <2> QED
    BY <2>1, <2>2, <2>3, <2>4 DEF SentInOrder
<1>5. Ordered(commands') /\ \A k \in Nat : NowHanded(k) => ThenHanded(k)
  BY <1>1 DEF Moves, Later, Handed
\* What is to be shown.
<1>6. ASSUME /\ \A k \in Tokens(commands') :
                  ThenHanded(k) /\ Foremost' < k /\ ThenSentBefore(k)
             /\ Foremost' # 0 => ThenHanded(Foremost') /\ ThenSentBefore(Foremost')
             /\ \A n \in 1 .. Len(sent') : ThenHanded(sent'[n][1])
             /\ \A i, j \in 1 .. Len(sent') : i < j => sent'[i][1] < sent'[j][1],
             DOMAIN sent' = 1 .. Len(sent')
      PROVE  OrderInv'
  <2>1. \A k \in Tokens(commands') : /\ Handed(k)' /\ Foremost' < k
                                     /\ \A n \in 1 .. Len(sent') : sent'[n][1] < k
    BY <1>6 DEF Handed
  <2>2. Foremost' # 0 => /\ Handed(Foremost)'
                         /\ \A n \in 1 .. Len(sent') : sent'[n][1] < Foremost'
    BY <1>6 DEF Handed
  <2>3. \A n \in 1 .. Len(sent') : Handed(sent[n][1])'
    BY <1>6 DEF Handed
  <2>4. SentInOrder'
    BY <1>6 DEF SentInOrder
  <2> QED
    BY <1>5, <2>1, <2>2, <2>3, <2>4 DEF OrderInv
<1>7. CASE sent' = sent
  <2>6. \A n \in 1 .. Len(sent) : ThenHanded(sent[n][1])
    BY <1>3, <1>4, <1>5
  <2>7. DOMAIN sent = 1 .. Len(sent)
    BY <1>2
  <2>1. /\ DOMAIN sent' = 1 .. Len(sent')
        /\ \A n \in 1 .. Len(sent') : ThenHanded(sent'[n][1])
        /\ \A i, j \in 1 .. Len(sent') : i < j => sent'[i][1] < sent'[j][1]
        /\ \A k : SentBefore(k) => ThenSentBefore(k)
    BY <1>4, <1>7, <2>6, <2>7
  <2>2. CASE Quiet
    <3>1. /\ Tokens(commands') \subseteq Tokens(commands)
          /\ Foremost' \in {0, Foremost}
      BY <2>2 DEF Quiet
    <3>2. ASSUME NEW k \in Tokens(commands')
          PROVE  ThenHanded(k) /\ Foremost' < k /\ ThenSentBefore(k)
      <4>1. /\ k \in Nat /\ k > 0
            /\ NowHanded(k) /\ Foremost < k /\ SentBefore(k)
        BY <1>2, <1>3, <1>4, <3>1
      <4>2. Foremost' < k
        BY <1>2, <3>1, <4>1
      <4> QED
        BY <1>5, <2>1, <4>1, <4>2
    <3>3. ASSUME Foremost' # 0
          PROVE  ThenHanded(Foremost') /\ ThenSentBefore(Foremost')
      <4>1. Foremost' = Foremost /\ Foremost \in Nat /\ Foremost # 0
        BY <1>2, <3>1, <3>3
      <4>2. NowHanded(Foremost) /\ SentBefore(Foremost)
        BY <1>4, <4>1
      <4>3. ThenHanded(Foremost)
        BY <1>5, <4>1, <4>2
      <4>4. ThenSentBefore(Foremost)
        BY <2>1, <4>2
      <4> QED
        BY <4>1, <4>3, <4>4
    <3> QED
      BY <1>6, <2>1, <3>2, <3>3
  <2>3. CASE Queued
    <3>1. /\ at = "append" /\ at' = "waitpub" /\ made' = made /\ made \in Calls
          /\ Tokens(commands') = Tokens(commands) \cup {made}
          /\ Foremost' = Foremost
      BY <2>3 DEF Queued
    <3>2. ThenHanded(made) /\ \A k \in Nat : NowHanded(k) => k < made
      BY <3>1
    <3>3. Foremost < made /\ SentBefore(made)
      BY <1>2, <1>3, <1>4, <3>1, <3>2
    <3>4. \A k \in Tokens(commands') :
            ThenHanded(k) /\ Foremost' < k /\ ThenSentBefore(k)
      BY <1>2, <1>3, <1>4, <1>5, <2>1, <3>1, <3>2, <3>3
    <3>5. Foremost' # 0 => ThenHanded(Foremost') /\ ThenSentBefore(Foremost')
      BY <1>2, <1>4, <1>5, <2>1, <3>1
    <3> QED
      BY <1>6, <2>1, <3>4, <3>5
  <2>4. CASE Fetched
    <3>1. /\ Foremost' \in Calls
          /\ Tokens(commands) = Tokens(commands') \cup {Foremost'}
          /\ \A k \in Tokens(commands') : Foremost' < k
      BY <2>4 DEF Fetched
    <3>2. \A k \in Tokens(commands') :
            ThenHanded(k) /\ Foremost' < k /\ ThenSentBefore(k)
      BY <1>2, <1>3, <1>4, <1>5, <2>1, <3>1
    <3>3. Foremost' # 0 => ThenHanded(Foremost') /\ ThenSentBefore(Foremost')
      BY <1>3, <1>4, <1>5, <2>1, <3>1
    <3> QED
      BY <1>6, <2>1, <3>2, <3>3
  <2>5. CASE Sending
    <3>1. Len(sent') = Len(sent) + 1
      BY <1>2, <2>5 DEF Sending
    <3> QED
      BY <1>3, <1>7, <3>1
  <2> QED
    BY <1>1, <2>2, <2>3, <2>4, <2>5 DEF Moves
<1>8. CASE Sending
  <2>1. /\ Foremost \in Calls /\ Foremost' = 0
        /\ commands' = commands
        /\ sent' = Append(sent, <<Foremost, session>>)
    BY <1>8 DEF Sending
  <2>2. /\ Len(sent') = Len(sent) + 1
        /\ DOMAIN sent' = 1 .. Len(sent')
        /\ sent'[Len(sent')][1] = Foremost
        /\ \A n \in 1 .. Len(sent) : sent'[n] = sent[n]
        /\ \A n \in 1 .. Len(sent') : n = Len(sent') \/ n \in 1 .. Len(sent)
    BY <1>2, <1>3, <2>1
  <2>3. \A n \in 1 .. Len(sent') : ThenHanded(sent'[n][1])
    BY <1>3, <1>4, <1>5, <2>1, <2>2
  <2>4. ASSUME NEW i \in 1 .. Len(sent'), NEW j \in 1 .. Len(sent'), i < j
        PROVE  sent'[i][1] < sent'[j][1]
    <3>1. i \in 1 .. Len(sent) /\ sent'[i] = sent[i]
      BY <1>3, <2>2, <2>4
    <3> QED
      BY <1>3, <1>4, <2>1, <2>2, <2>4, <3>1
  <2>5. \A k \in Tokens(commands') :
          ThenHanded(k) /\ Foremost' < k /\ ThenSentBefore(k)
    <3> SUFFICES ASSUME NEW k \in Tokens(commands')
                 PROVE  ThenHanded(k) /\ 0 < k /\ ThenSentBefore(k)
      BY <2>1
    <3>1. k \in Calls /\ NowHanded(k) /\ Foremost < k /\ SentBefore(k)
      BY <1>2, <1>4, <2>1
    <3> QED
      BY <1>3, <1>5, <2>2, <3>1
  <2> QED
    BY <1>6, <2>1, <2>2, <2>3, <2>4, <2>5
<1> QED
  BY <1>1, <1>7, <1>8 DEF Moves, Quiet, Queued, Fetched

\* The invariants hold throughout.
LEMMA OrderHolds == Spec => [](TypeInv /\ OrderInv)
<1>1. TypeInv /\ OrderInv /\ [Next]_vars => (TypeInv /\ OrderInv)'
  BY TypeStep, OrderStep
<1> QED
  BY <1>1, TypeInit, OrderInit, PTL DEF Spec

\* Messages reach the socket in the order of the calls, and none twice, through
\* partial writes, errors, breaks and reconnects.
THEOREM SendsInOrder == Spec => []SentInOrder
<1>1. OrderInv => SentInOrder
  BY DEF OrderInv
<1> QED
  BY <1>1, OrderHolds, PTL

-----------------------------------------------------------------------------
(* The connection a message was queued on.                                 *)

\* While there is a connection, what waits was queued on it.
ConnInv ==
  /\ state = "connected" => \A k \in Tokens(commands) : queuedIn[k] = session
  /\ Foremost # 0 => queuedIn[Foremost] = session
  /\ OwnConnection

\* Nothing waits at the start.
LEMMA ConnInit == Init => ConnInv
<1> SUFFICES ASSUME Init PROVE ConnInv
  OBVIOUS
<1>1. Tokens(commands) = {}
  BY TokensNone DEF Init
<1>2. Foremost = 0 /\ sent = <<>>
  BY Kinds DEF Init, Foremost
<1> QED
  BY <1>1, <1>2 DEF ConnInv, OwnConnection

\* What waits keeps to its connection: a new one begins with nothing waiting,
\* and a message that was written stays as it was queued.
LEMMA ConnStep ==
  TypeInv /\ OrderInv /\ ConnInv /\ [Next]_vars => ConnInv'
<1> SUFFICES ASSUME TypeInv, OrderInv, ConnInv, [Next]_vars PROVE ConnInv'
  OBVIOUS
<1>1. Moves
  BY Moving
<1>2. /\ sent \in Seq(Calls \X (1 .. MaxBreaks + 1))
      /\ queuedIn \in [Calls -> 0 .. MaxBreaks + 1]
      /\ Foremost \in 0 .. MaxCalls /\ MaxCalls \in Nat /\ made \in Nat
      /\ DOMAIN sent = 1 .. Len(sent) /\ Len(sent) \in Nat
      /\ \A n \in 1 .. Len(sent) : sent[n][1] \in Calls
      /\ \A k \in Calls : k \in Nat /\ k > 0
  <2>1. /\ sent \in Seq(Calls \X (1 .. MaxBreaks + 1))
        /\ queuedIn \in [Calls -> 0 .. MaxBreaks + 1]
        /\ Foremost \in 0 .. MaxCalls /\ MaxCalls \in Nat /\ made \in Nat
    BY PublishAssumption, ForemostTyped DEF TypeInv, TypeOK, PublishAssumption
  <2>2. /\ DOMAIN sent = 1 .. Len(sent) /\ Len(sent) \in Nat
        /\ \A n \in 1 .. Len(sent) : sent[n][1] \in Calls
    BY <2>1
  <2> QED
    BY <2>1, <2>2 DEF Calls
<1>3. /\ state = "connected" => \A k \in Tokens(commands) : queuedIn[k] = session
      /\ Foremost # 0 => queuedIn[Foremost] = session
      /\ \A n \in 1 .. Len(sent) : sent[n][2] = queuedIn[sent[n][1]]
  BY <1>2 DEF ConnInv, OwnConnection
<1>4. CASE Quiet
  <2>1. OwnConnection'
    BY <1>4 DEF Quiet, ConnInv, OwnConnection
  <2>2. state' = "connected" => \A k \in Tokens(commands') : queuedIn'[k] = session'
    BY <1>3, <1>4 DEF Quiet, SameSession
  <2>3. Foremost' # 0 => queuedIn'[Foremost'] = session'
    BY <1>3, <1>4 DEF Quiet, SameSession
  <2> QED
    BY <2>1, <2>2, <2>3 DEF ConnInv
<1>5. CASE Queued
  <2>1. /\ at = "append" /\ made \in Calls /\ sent' = sent
        /\ Tokens(commands') = Tokens(commands) \cup {made}
        /\ Foremost' = Foremost /\ state' = state /\ session' = session
        /\ queuedIn' = [queuedIn EXCEPT ![made] = IF state = "connected"
                                                  THEN session ELSE 0]
    BY <1>5 DEF Queued
  <2>2. /\ \A k \in Tokens(commands) : k # made
        /\ Foremost # 0 => Foremost # made
        /\ \A n \in 1 .. Len(sent) : sent[n][1] # made
    BY <1>2, <2>1 DEF OrderInv, Handed
  <2>3. /\ \A k \in Calls : k # made => queuedIn'[k] = queuedIn[k]
        /\ state = "connected" => queuedIn'[made] = session
    BY <1>2, <2>1
  <2>4. \A k \in Tokens(commands) : k \in Calls
    BY DEF Tokens
  <2>5. Foremost # 0 => Foremost \in Calls
    BY <1>2 DEF Calls
  <2>6. OwnConnection'
    BY <1>2, <1>3, <2>1, <2>2, <2>3 DEF OwnConnection
  <2>7. state' = "connected" => \A k \in Tokens(commands') : queuedIn'[k] = session'
    BY <1>3, <2>1, <2>2, <2>3, <2>4
  <2>8. Foremost' # 0 => queuedIn'[Foremost'] = session'
    BY <1>3, <2>1, <2>2, <2>3, <2>5
  <2> QED
    BY <2>6, <2>7, <2>8 DEF ConnInv
<1>6. CASE Fetched
  <2>1. OwnConnection'
    BY <1>6 DEF Fetched, ConnInv, OwnConnection
  <2> QED
    BY <1>3, <1>6, <2>1 DEF Fetched, ConnInv
<1>7. CASE Sending
  <2>1. /\ Foremost \in Calls /\ Foremost' = 0
        /\ commands' = commands /\ state' = state /\ session' = session
        /\ queuedIn' = queuedIn
        /\ sent' = Append(sent, <<Foremost, session>>)
    BY <1>7 DEF Sending
  <2>2. /\ DOMAIN sent' = 1 .. Len(sent) + 1
        /\ sent'[Len(sent) + 1] = <<Foremost, session>>
        /\ \A n \in 1 .. Len(sent) : sent'[n] = sent[n]
        /\ \A n \in 1 .. Len(sent) + 1 :
             n = Len(sent) + 1 \/ n \in 1 .. Len(sent)
    BY <1>2, <2>1
  <2>3. Foremost # 0
    BY <1>2, <2>1
  <2>4. OwnConnection'
    BY <1>3, <2>1, <2>2, <2>3 DEF OwnConnection
  <2> QED
    BY <1>3, <2>1, <2>4 DEF ConnInv
<1> QED
  BY <1>1, <1>4, <1>5, <1>6, <1>7 DEF Moves

\* A message goes out on the connection it was queued on or not at all: none
\* that was queued as a connection went is sent, stale, on the next.
THEOREM SendsOnOwnConnection == Spec => []OwnConnection
<1>1. TypeInv /\ OrderInv /\ ConnInv /\ [Next]_vars
        => (TypeInv /\ OrderInv /\ ConnInv)'
  BY TypeStep, OrderStep, ConnStep
<1>2. ConnInv => OwnConnection
  BY DEF ConnInv
<1> QED
  BY <1>1, <1>2, TypeInit, OrderInit, ConnInit, PTL DEF Spec

-----------------------------------------------------------------------------
(* What a call returns.                                                    *)

\* The message has been written.
Gone(k) == \E n \in 1 .. Len(sent) : sent[n][1] = k

ThenGone(k) == \E n \in 1 .. Len(sent') : sent'[n][1] = k

\* On a link that is up, the answer to the end of a partial write goes to the
\* message that is being finished or has been, so a token that is answered with
\* success belongs to a message that was written.
AnswerInv ==
  /\ link = "up" /\ pending # 0 /\ responses # <<>> =>
       pending = partial \/ Gone(pending)
  /\ link = "up" /\ noting => partial = inhand.tok \/ Gone(inhand.tok)
  /\ pubtok = "ok" => Gone(made)
  /\ TrueMeansSent

\* No token is answered at the start.
LEMMA AnswerInit == Init => AnswerInv
BY DEF Init, AnswerInv, TrueMeansSent

\* What has been written stays written.
LEMMA GoneStays ==
  ASSUME TypeInv, OrderInv, [Next]_vars
  PROVE  /\ \A k : Gone(k) => ThenGone(k)
         /\ /\ TrueMeansSent
            /\ \A k \in Calls : result'[k] = "true" => result[k] = "true" \/ Gone(k)
            => TrueMeansSent'
<1>1. sent \in Seq(Calls \X (1 .. MaxBreaks + 1))
  BY DEF TypeInv, TypeOK
<1>2. sent' = sent \/ \E x : sent' = Append(sent, x)
  BY Moving DEF Moves, Quiet, Queued, Fetched, Sending
<1>7. /\ Len(sent') >= Len(sent) /\ Len(sent) \in Nat /\ Len(sent') \in Nat
      /\ \A n \in 1 .. Len(sent) : sent'[n] = sent[n]
  <2>1. CASE sent' = sent
    BY <1>1, <2>1
  <2>2. CASE sent' # sent
    <3>1. PICK x : sent' = Append(sent, x)
      BY <1>2, <2>2
    <3>2. Len(sent) \in Nat
      BY <1>1
    <3>3. /\ Len(sent') = Len(sent) + 1
          /\ \A n \in 1 .. Len(sent) : sent'[n] = sent[n]
      BY <1>1, <3>1, <3>2
    <3> QED
      BY <3>2, <3>3
  <2> QED
    BY <2>1, <2>2
<1>8. \A n \in 1 .. Len(sent) : n \in 1 .. Len(sent')
  BY <1>7
<1>3. \A k : Gone(k) => ThenGone(k)
  BY <1>7, <1>8 DEF Gone, ThenGone
<1>4. DOMAIN sent = 1 .. Len(sent) /\ DOMAIN sent' = 1 .. Len(sent')
  BY <1>1, <1>2
<1>5. TrueMeansSent <=> \A k \in Calls : result[k] = "true" => Gone(k)
  BY <1>4 DEF TrueMeansSent, Gone
<1>6. TrueMeansSent' <=> \A k \in Calls : result'[k] = "true" => ThenGone(k)
  BY <1>4 DEF TrueMeansSent, ThenGone
<1> QED
  BY <1>3, <1>5, <1>6

\* A completed token.
LEMMA CompletedIs ==
  ASSUME NEW token, NEW k, NEW v, token # "ok", Completed(token, k, v) = "ok"
  PROVE  k = made /\ v = "ok"
BY DEF Completed

\* What is to be shown of the next state.
LEMMA AnswerNext ==
  ASSUME TrueMeansSent',
         link' = "up" /\ pending' # 0 /\ responses' # <<>> =>
           pending' = partial' \/ ThenGone(pending'),
         link' = "up" /\ noting' =>
           partial' = inhand'.tok \/ ThenGone(inhand'.tok),
         pubtok' = "ok" => ThenGone(made')
  PROVE  AnswerInv'
BY DEF AnswerInv, Gone, ThenGone

\* A step that answers no token, and writes nothing in part.
LEMMA AnswerKept ==
  ASSUME TypeInv, OrderInv, AnswerInv, [Next]_vars,
         UNCHANGED <<made, result>>,
         pubtok' = "ok" => pubtok = "ok",
         \/ link' # "up"
         \/ responses' = <<>> /\ ~noting'
         \/ UNCHANGED <<pending, partial, responses, noting, inhand, link>>
         \/ UNCHANGED <<pending, partial, responses, link>> /\ ~noting'
  PROVE  AnswerInv'
<1>1. /\ \A k : Gone(k) => ThenGone(k)
      /\ TrueMeansSent'
  BY GoneStays DEF AnswerInv
<1>2. pubtok' = "ok" => ThenGone(made')
  BY <1>1 DEF AnswerInv
<1>3. /\ link' = "up" /\ pending' # 0 /\ responses' # <<>> =>
           pending' = partial' \/ ThenGone(pending')
      /\ link' = "up" /\ noting' =>
           partial' = inhand'.tok \/ ThenGone(inhand'.tok)
  BY <1>1 DEF AnswerInv
<1> QED
  BY <1>1, <1>2, <1>3, AnswerNext

\* A token is answered with success only when its message has been written.
LEMMA AnswerStep ==
  TypeInv /\ OrderInv /\ AnswerInv /\ [Next]_vars => AnswerInv'
<1> SUFFICES ASSUME TypeInv, OrderInv, AnswerInv, [Next]_vars
             PROVE  AnswerInv'
  OBVIOUS
<1>0. /\ TypeOK /\ Writes /\ Links /\ Fit(inhand, link)
      /\ made \in Nat /\ pubtok \in TokenStates
      /\ sent \in Seq(Calls \X (1 .. MaxBreaks + 1))
      /\ partial \in 0 .. MaxCalls /\ pending \in 0 .. MaxCalls
      /\ MaxCalls \in Nat
  BY PublishAssumption DEF TypeInv, TypeOK, PublishAssumption
<1>1. /\ \A k : Gone(k) => ThenGone(k)
      /\ (\A k \in Calls : result'[k] = "true" => result[k] = "true" \/ Gone(k))
           => TrueMeansSent'
  BY GoneStays DEF AnswerInv
<1>2. /\ link = "up" /\ pending # 0 /\ responses # <<>> =>
           pending = partial \/ Gone(pending)
      /\ link = "up" /\ noting => partial = inhand.tok \/ Gone(inhand.tok)
      /\ pubtok = "ok" => Gone(made)
      /\ TrueMeansSent
  BY DEF AnswerInv
\* A message that is written has gone.
<1>w. ASSUME NEW k \in Calls, Written(k), state = "connected"
      PROVE  ThenGone(k)
  <2>1. session \in 1 .. MaxBreaks + 1
    BY <1>0, <1>w DEF Links, TypeOK
  <2> QED
    BY <1>0, <1>w, <2>1 DEF Written, ThenGone
\* A call that comes to its end, or to its publish.
<1>r. ASSUME UNCHANGED <<made, pending, partial, responses, noting, inhand, link>>,
             pubtok' = "ok" => pubtok = "ok",
             \A k \in Calls : result'[k] = "true" => result[k] = "true" \/ Gone(k)
      PROVE  AnswerInv'
  <2>1. /\ link' = "up" /\ pending' # 0 /\ responses' # <<>> =>
             pending' = partial' \/ ThenGone(pending')
        /\ link' = "up" /\ noting' =>
             partial' = inhand'.tok \/ ThenGone(inhand'.tok)
        /\ pubtok' = "ok" => ThenGone(made')
    BY <1>1, <1>2, <1>r
  <2> QED
    BY <1>1, <1>r, <2>1, AnswerNext
<1>e. ASSUME \/ Return(made, "false")
             \/ UNCHANGED result
      PROVE  \A k \in Calls : result'[k] = "true" => result[k] = "true" \/ Gone(k)
  <2>1. result \in [Calls -> {"none", "true", "false"}]
    BY <1>0 DEF TypeOK
  <2> QED
    BY <1>e, <2>1 DEF Return
<1>3. CASE Call
  <2>1. /\ pubtok' = "none"
        /\ UNCHANGED <<result, pending, partial, responses, noting, inhand, link>>
    BY <1>3 DEF Call, writeVars, linkVars
  <2> QED
    BY <1>1, <1>2, <2>1, AnswerNext
<1>4. CASE SetCallback
  BY <1>4, <1>e, <1>r DEF SetCallback, writeVars, linkVars
<1>5. CASE IsConnected \/ SetConnect \/ AddConnect \/ AppendPublish
  BY <1>5, AnswerKept
     DEF IsConnected, SetConnect, AddConnect, AppendPublish, callVars,
         connVars, writeVars, linkVars
<1>6. CASE WaitConnect
  BY <1>6, <1>e, <1>r DEF WaitConnect, writeVars, linkVars
<1>7. CASE Send
  BY <1>7, <1>e, <1>r DEF Send, writeVars, linkVars
<1>8. CASE WaitPublish
  <2>1. \A k \in Calls : result'[k] = "true" => result[k] = "true" \/ Gone(k)
    <3>1. CASE pubtok = "ok"
      <4>1. Gone(made) /\ result \in [Calls -> {"none", "true", "false"}]
        BY <1>0, <1>2, <3>1 DEF TypeOK
      <4> QED
        BY <1>8, <4>1 DEF WaitPublish, Return
    <3>2. CASE pubtok # "ok"
      BY <1>8, <1>e, <3>2 DEF WaitPublish
    <3> QED
      BY <3>1, <3>2
  <2> QED
    BY <1>8, <1>r, <2>1 DEF WaitPublish, writeVars, linkVars
<1>9. CASE Take
  <2>1. ~noting
    BY <1>0, <1>9, InHand DEF Take, MutexFree
  <2> QED
    BY <1>9, <2>1, AnswerKept DEF Take, callVars, writeVars, linkVars
<1>10. CASE ConnectIgnored \/ ConnectStarts
  BY <1>10, AnswerKept
     DEF ConnectIgnored, ConnectStarts, Processes, callVars, writeVars, linkVars
<1>11. CASE ConnectFails
  BY <1>11, AnswerKept DEF ConnectFails, Processes, writeVars, linkVars
<1>12. CASE Disconnects
  <2>1. CloseSession
    BY <1>0, <1>12 DEF Disconnects, Processes, Fit, Links
  <2>2. responses' = <<>> /\ (pubtok' = "ok" => pubtok = "ok")
    BY <1>0, <2>1, Cleaned
  <2> QED
    BY <1>12, <2>2, AnswerKept DEF Disconnects, Processes
<1>13. CASE WriteWhole
  <2>1. /\ inhand.tok \in Calls /\ state = "connected" /\ partial = 0 /\ ~noting
    BY <1>0, <1>13, InHand DEF WriteWhole, Processes, Writes
  <2>2. ThenGone(inhand.tok)
    BY <1>13, <1>w, <2>1 DEF WriteWhole
  <2>3. pubtok' = "ok" => ThenGone(made)
    BY <1>1, <1>2, <1>13, <2>2 DEF WriteWhole, Completed
  <2>4. UNCHANGED <<made, result, responses, pending, partial, noting, link>>
    BY <1>13 DEF WriteWhole, linkVars
  <2> QED
    BY <1>1, <1>2, <2>1, <2>3, <2>4, AnswerNext
<1>14. CASE WritePart
  <2>1. partial = 0
    BY <1>0, <1>14 DEF WritePart, Writes
  <2>2. /\ partial' = inhand'.tok
        /\ UNCHANGED <<made, result, pubtok, responses, pending, link>>
    BY <1>14 DEF WritePart, callVars, linkVars
  <2> QED
    BY <1>1, <1>2, <2>1, <2>2, AnswerNext
<1>15. CASE NotePart
  <2>1. /\ noting /\ ~noting' /\ pending' = inhand.tok
        /\ UNCHANGED <<made, result, pubtok, partial, link>>
    BY <1>15 DEF NotePart, callVars, linkVars
  <2> QED
    BY <1>1, <1>2, <2>1, AnswerNext
<1>16. CASE WriteError
  <2>1. pubtok' = "ok" => pubtok = "ok"
    BY <1>16 DEF WriteError, Completed
  <2> QED
    BY <1>16, <2>1, AnswerKept DEF WriteError, linkVars
<1>17. CASE Reconnect \/ SocketError
  BY <1>17, AnswerKept
     DEF Reconnect, SocketError, callVars, writeVars, linkVars
<1>18. CASE ContinueWrite
  <2>1. /\ partial \in Calls /\ partial' = 0
        /\ UNCHANGED <<made, result, noting, inhand, link>>
    BY <1>0, <1>18 DEF ContinueWrite, linkVars, Calls
  <2>2. CASE link = "up"
    <3>1. Written(partial) /\ WriteComplete("ok")
      BY <1>18, <2>2 DEF ContinueWrite
    <3>2. ThenGone(partial)
      BY <1>0, <1>w, <2>1, <3>1 DEF TypeOK, Calls
    <3>3. pubtok' = "ok" => ThenGone(made)
      BY <1>1, <1>2, <2>2, <3>1, <3>2 DEF WriteComplete, Completed
    <3>4. noting => ThenGone(inhand.tok)
      BY <1>1, <1>2, <2>2, <3>2
    <3> QED
      BY <1>1, <1>2, <2>1, <3>1, <3>3, <3>4, AnswerNext DEF WriteComplete
  <2>3. CASE link # "up"
    <3>1. WriteComplete("failed")
      BY <1>18, <2>3 DEF ContinueWrite
    <3>2. pubtok' = "ok" => pubtok = "ok"
      BY <3>1 DEF WriteComplete, Completed
    <3> QED
      BY <2>1, <2>3, <3>2, AnswerKept
  <2> QED
    BY <2>2, <2>3
<1>19. CASE Connack
  <2>1. ~noting
    BY <1>0, <1>19, InHand DEF Connack
  <2>2. responses' = <<>> /\ (pubtok' = "ok" => pubtok = "ok")
    BY <1>0, <1>19, Cleaned DEF Connack
  <2> QED
    BY <1>19, <2>1, <2>2, AnswerKept DEF Connack
<1>20. CASE ConnectEnds
  <2>1. ~noting /\ UNCHANGED <<made, result, noting, pending>>
    BY <1>0, <1>20, InHand DEF ConnectEnds
  <2>2. CASE CloseSession
    <3>1. responses' = <<>> /\ (pubtok' = "ok" => pubtok = "ok")
      BY <1>0, <2>2, Cleaned
    <3> QED
      BY <2>1, <3>1, AnswerKept
  <2>3. CASE UNCHANGED <<pubtok, responses, partial, link>>
    BY <2>1, <2>3, AnswerKept
  <2> QED
    BY <1>20, <2>2, <2>3 DEF ConnectEnds
<1>21. CASE Break
  BY <1>21, AnswerKept DEF Break, callVars
<1>22. CASE UNCHANGED vars
  BY <1>22, AnswerKept DEF vars, callVars, writeVars, linkVars
<1> QED
  BY <1>3, <1>4, <1>5, <1>6, <1>7, <1>8, <1>9, <1>10, <1>11, <1>12, <1>13,
     <1>14, <1>15, <1>16, <1>17, <1>18, <1>19, <1>20, <1>21, <1>22
     DEF Next, AsyncPublish, SendThread, ReceiveThread

\* A call that returned true has had its message written to the socket: neither
\* a message that was only queued nor the end of another's write counts.
THEOREM TrueReturnsAreSent == Spec => []TrueMeansSent
<1>1. TypeInv /\ OrderInv /\ AnswerInv /\ [Next]_vars
        => (TypeInv /\ OrderInv /\ AnswerInv)'
  BY TypeStep, OrderStep, AnswerStep
<1>2. AnswerInv => TrueMeansSent
  BY DEF AnswerInv
<1> QED
  BY <1>1, <1>2, TypeInit, OrderInit, AnswerInit, PTL DEF Spec

=============================================================================
