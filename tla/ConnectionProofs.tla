---------------------------- MODULE ConnectionProofs ----------------------------
(***************************************************************************)
(* Theorems about the connection, for every number of sockets, attempts,   *)
(* commands and faults.                                                    *)
(***************************************************************************)
EXTENDS ConnectionInvariants, TLAPS

USE DEF NoSocket, NoSession

\* One step of the system, with the socket it is about.
LEMMA Steps ==
  ASSUME Next
  PROVE  \/ Connect \/ Reconnect \/ Join \/ RetryJoin \/ Leave
         \/ TimerFires \/ HeartbeatTerminates
         \/ \E s \in Sockets :
              \/ Open(s) \/ Refuse(s) \/ ConnectError(s) \/ CloseEvent(s) \/ Drop(s)
              \/ ClientReceives(s) \/ ServerReceives(s) \/ ServerNotices(s)
BY DEF Next, Command, Fault, Opens, Closes, Hears, Serves

-------------------------------------------------------------------------------
\* Types

LEMMA ConstantsTyped ==
  /\ MaxSockets \in Nat \ {0} /\ MaxAttempts \in Nat \ {0} /\ MaxSessions \in Nat \ {0}
  /\ MaxCommands \in Nat /\ MaxFailures \in Nat /\ MaxDrops \in Nat
BY ConnectionConstants

LEMMA InitTyped == Init => ConnectionTypeOK
<1> SUFFICES ASSUME Init PROVE ConnectionTypeOK
  OBVIOUS
<1>1. ws \in ClientStates
  BY ConstantsTyped DEF Init, ClientStates, Sockets
<1>2. app \in AppStates
  BY ConstantsTyped DEF Init, AppStates
<1>3. /\ toServer \in [Sockets -> Seq(Messages)]
      /\ toClient \in [Sockets -> Seq(Answers)]
  BY DEF Init
<1> QED BY <1>1, <1>2, <1>3, ConstantsTyped, ConnectionConstants DEF Init, ConnectionTypeOK, ClientEnds, ServerEnds

LEMMA ScheduledTyped ==
  ASSUME NEW w \in ClientStates
  PROVE  Scheduled(w) \in ClientStates
<1>1. w.attempt \in 0 .. MaxAttempts /\ w.strays \in Nat
  BY DEF ClientStates
<1>2. CASE GivesUp(w)
  BY <1>2 DEF Scheduled
<1>3. CASE ~GivesUp(w)
  <2>1. w.attempt + 1 \in 0 .. MaxAttempts
    BY <1>1, <1>3, ConstantsTyped DEF GivesUp
  <2>2. (IF w.timer THEN w.strays + 1 ELSE w.strays) \in Nat
    BY <1>1
  <2> QED BY <1>3, <2>1, <2>2 DEF Scheduled, ClientStates
<1> QED BY <1>2, <1>3

\* What send appends is a message, and only a queue takes it.
LEMMA SentTyped ==
  ASSUME ConnectionTypeOK, NEW m \in Messages
  PROVE  Sent(m) \in [Sockets -> Seq(Messages)]
<1>1. toServer \in [Sockets -> Seq(Messages)] /\ ws.socket \in Sockets \cup {NoSocket}
  BY DEF ConnectionTypeOK, ClientStates
<1>2. CASE Sent(m) = toServer
  BY <1>1, <1>2
<1>3. CASE ws.socket \in Sockets /\ Sent(m) = [toServer EXCEPT ![ws.socket] = Append(@, m)]
  <2>1. Append(toServer[ws.socket], m) \in Seq(Messages)
    BY <1>1, <1>3
  <2> QED BY <1>1, <1>3, <2>1
<1> QED BY <1>1, <1>2, <1>3 DEF Sent

LEMMA JoinTyped ==
  ASSUME NEW n \in 0 .. MaxSessions, NEW h \in BOOLEAN
  PROVE  JoinRoom(n, h) \in Messages
BY DEF JoinRoom, Messages

LEMMA AnsweredTyped ==
  ASSUME ConnectionTypeOK, NEW s \in Sockets, NEW m \in Answers, Answered(s, m)
  PROVE  toClient' \in [Sockets -> Seq(Answers)]
BY DEF Answered, ConnectionTypeOK

LEMMA HandleJoinTyped ==
  ASSUME ConnectionTypeOK, NEW s \in Sockets, NEW m \in Messages, m.type = "joinRoom",
         HandleJoin(s, m)
  PROVE  /\ serverEnd' \in [Sockets -> ServerEnds]
         /\ toClient' \in [Sockets -> Seq(Answers)]
         /\ seat' \in [Sockets -> 0 .. MaxSessions]
         /\ sessions' \in 1 .. MaxSessions
<1>1. CASE seat[s] # NoSession /\ UNCHANGED <<serverEnd, toClient, seat, sessions>>
  BY <1>1 DEF ConnectionTypeOK
<1>2. CASE /\ Answered(s, [type |-> "denied"])
           /\ UNCHANGED <<serverEnd, seat, sessions>>
  <2>1. [type |-> "denied"] \in Answers
    BY DEF Answers
  <2> QED BY <1>2, <2>1, AnsweredTyped DEF ConnectionTypeOK
<1>3. CASE /\ sessions' = IF m.session = NoSession THEN sessions + 1 ELSE sessions
           /\ sessions' =< MaxSessions
           /\ LET session == IF m.session = NoSession THEN sessions' ELSE m.session
              IN /\ seat' = Seated(s, session)
                 /\ serverEnd' = Displaced(s, session)
                 /\ Answered(s, [type |-> "joinedRoom", session |-> session])
  <2> DEFINE session == IF m.session = NoSession THEN sessions' ELSE m.session
  <2>1. m.session \in 0 .. MaxSessions
    BY DEF Messages
  <2>2. sessions' \in 1 .. MaxSessions /\ session \in 1 .. MaxSessions
    BY <1>3, <2>1, ConstantsTyped DEF ConnectionTypeOK
  <2>3. [type |-> "joinedRoom", session |-> session] \in Answers
    BY <2>2 DEF Answers
  <2>4. toClient' \in [Sockets -> Seq(Answers)]
    BY <1>3, <2>3, AnsweredTyped
  <2>5. seat' = Seated(s, session) /\ serverEnd' = Displaced(s, session)
    BY <1>3
  <2> HIDE DEF session
  <2>6. seat' \in [Sockets -> 0 .. MaxSessions]
    <3>1. seat \in [Sockets -> 0 .. MaxSessions] /\ NoSession \in 0 .. MaxSessions
      BY ConstantsTyped DEF ConnectionTypeOK
    <3>2. session \in 0 .. MaxSessions
      BY <2>2
    <3> QED BY <2>5, <3>1, <3>2 DEF Seated
  <2>7. serverEnd' \in [Sockets -> ServerEnds]
    BY <2>5 DEF Displaced, ConnectionTypeOK, ServerEnds
  <2> QED BY <2>2, <2>4, <2>6, <2>7
<1>4. \/ seat[s] # NoSession /\ UNCHANGED <<serverEnd, toClient, seat, sessions>>
      \/ /\ Answered(s, [type |-> "denied"])
         /\ UNCHANGED <<serverEnd, seat, sessions>>
      \/ /\ sessions' = IF m.session = NoSession THEN sessions + 1 ELSE sessions
         /\ sessions' =< MaxSessions
         /\ LET session == IF m.session = NoSession THEN sessions' ELSE m.session
            IN /\ seat' = Seated(s, session)
               /\ serverEnd' = Displaced(s, session)
               /\ Answered(s, [type |-> "joinedRoom", session |-> session])
  BY DEF HandleJoin
<1> QED BY <1>1, <1>2, <1>3, <1>4

LEMMA WsTyped ==
  ASSUME ConnectionTypeOK, Next
  PROVE  ws' \in ClientStates
<1>1. ws \in ClientStates
  BY DEF ConnectionTypeOK
<1>2. ASSUME NEW w \in ClientStates, NEW end, NEW s, Connected(w, end, s)
      PROVE  ws' \in ClientStates
  <2>1. 0 \in 0 .. MaxAttempts
    BY ConstantsTyped
  <2> QED BY <1>2, <2>1 DEF Connected, ClientStates
<1>3. DisconnectWs \in ClientStates
  BY <1>1 DEF DisconnectWs, ClientStates
<1>4. CASE Connect
  BY <1>1, <1>2, <1>4 DEF Connect
<1>5. CASE Reconnect
  BY <1>2, <1>3, <1>5 DEF Reconnect
<1>6. CASE TimerFires
  <2>1. CASE ws.timer /\ Fire([ws EXCEPT !.timer = FALSE])
    BY <1>1, <2>1 DEF Fire, ClientStates
  <2>2. CASE ws.strays > 0 /\ Fire([ws EXCEPT !.strays = @ - 1])
    <3>1. ws.strays - 1 \in Nat
      BY <1>1, <2>2 DEF ClientStates
    <3> QED BY <1>1, <2>2, <3>1 DEF Fire, ClientStates
  <2> QED BY <1>6, <2>1, <2>2 DEF TimerFires
<1>7. ASSUME NEW s \in Sockets, Opened(s)
      PROVE  ws' \in ClientStates
  <2>1. 0 \in 0 .. MaxAttempts
    BY ConstantsTyped
  <2> QED BY <1>1, <1>7, <2>1 DEF Opened, ClientStates
<1>8. ASSUME NEW s \in Sockets, ConnectError(s)
      PROVE  ws' \in ClientStates
  BY <1>1, <1>8, ScheduledTyped DEF ConnectError
<1>9. ASSUME NEW s \in Sockets, CloseEvent(s)
      PROVE  ws' \in ClientStates
  <2> DEFINE w == [ws EXCEPT !.heartbeat = FALSE,
                             !.socket = IF ws.socket = s THEN NoSocket ELSE @]
  <2>1. w \in ClientStates
    BY <1>1 DEF ClientStates
  <2>2. ws' = IF w.intentionalClose THEN w ELSE Scheduled(w)
    BY <1>9 DEF CloseEvent
  <2> HIDE DEF w
  <2> QED BY <2>1, <2>2, ScheduledTyped
<1> QED BY <1>1, <1>4, <1>5, <1>6, <1>7, <1>8, <1>9, Steps
        DEF Join, RetryJoin, Leave, HeartbeatTerminates, Open, Refuse, Drop,
            ClientReceives, ServerReceives, ServerNotices

LEMMA AppTyped ==
  ASSUME ConnectionTypeOK, Next
  PROVE  app' \in AppStates
<1>1. app \in AppStates
  BY DEF ConnectionTypeOK
<1>2. ASSUME NEW w, NEW end, NEW s \in Sockets, Connected(w, end, s)
      PROVE  app' \in AppStates
  BY <1>1, <1>2 DEF Connected, AppStates
<1>3. CASE Connect \/ Reconnect
  BY <1>1, <1>2, <1>3 DEF Connect, Reconnect, AppStates
<1>4. CASE Join \/ RetryJoin \/ Leave
  <2>1. NoSession \in 0 .. MaxSessions
    BY ConstantsTyped
  <2>2. CASE Join
    BY <1>1, <2>1, <2>2 DEF Join, AppStates
  <2>3. CASE RetryJoin
    BY <1>1, <2>3 DEF RetryJoin, AppStates
  <2>4. CASE Leave
    BY <1>1, <2>1, <2>4 DEF Leave, AppStates
  <2> QED BY <1>4, <2>2, <2>3, <2>4
<1>5. ASSUME NEW s \in Sockets, Opened(s)
      PROVE  app' \in AppStates
  BY <1>1, <1>5 DEF Opened, AppStates
<1>6. ASSUME NEW s \in Sockets, ConnectError(s)
      PROVE  app' \in AppStates
  BY <1>1, <1>6 DEF ConnectError, AppStates
<1>7. ASSUME NEW s \in Sockets, CloseEvent(s)
      PROVE  app' \in AppStates
  <2>1. PICK w : app' = Closed(app, w)
    BY <1>7 DEF CloseEvent
  <2>2. (app.room /\ IsAutoReconnecting(w)) \in BOOLEAN
    BY DEF IsAutoReconnecting
  <2>3. (app.notice \/ (~w.intentionalClose /\ GivesUp(w))) \in BOOLEAN
    OBVIOUS
  <2> QED BY <1>1, <2>1, <2>2, <2>3 DEF Closed, AppStates
<1>8. ASSUME NEW s \in Sockets, ClientReceives(s)
      PROVE  app' \in AppStates
  <2>1. Head(toClient[s]) \in Answers
    BY <1>8 DEF ClientReceives, ConnectionTypeOK
  <2> DEFINE m == Head(toClient[s])
  <2>2. CASE m.type = "joinedRoom" /\ app' = [app EXCEPT !.room = TRUE, !.intent = TRUE, !.session = m.session]
    <3>1. m.session \in 0 .. MaxSessions
      BY <2>1, <2>2, ConstantsTyped DEF Answers
    <3> QED BY <1>1, <2>2, <3>1 DEF AppStates
  <2>3. CASE app' = [app EXCEPT !.prompt = app.intent]
    BY <1>1, <2>3 DEF AppStates
  <2> QED BY <1>8, <2>2, <2>3 DEF ClientReceives
<1> QED BY <1>1, <1>3, <1>4, <1>5, <1>6, <1>7, <1>8, Steps
        DEF TimerFires, Fire, HeartbeatTerminates, Open, Refuse, Drop, ServerReceives, ServerNotices

LEMMA ClientEndTyped ==
  ASSUME ConnectionTypeOK, Next
  PROVE  clientEnd' \in [Sockets -> ClientEnds]
<1>1. clientEnd \in [Sockets -> ClientEnds]
  BY DEF ConnectionTypeOK
<1>2. ASSUME NEW w, NEW end \in [Sockets -> ClientEnds], NEW s, Connected(w, end, s)
      PROVE  clientEnd' \in [Sockets -> ClientEnds]
  BY <1>2 DEF Connected, ClientEnds
<1>3. DisconnectEnds \in [Sockets -> ClientEnds]
  BY <1>1 DEF DisconnectEnds, ClientEnds
<1>4. CASE Connect \/ Reconnect
  BY <1>1, <1>2, <1>3, <1>4 DEF Connect, Reconnect
<1>5. CASE TimerFires
  BY <1>1, <1>5 DEF TimerFires, Fire, ClientEnds
<1>6. CASE HeartbeatTerminates
  BY <1>1, <1>6 DEF HeartbeatTerminates, ClientEnds
<1>7. ASSUME NEW s \in Sockets,
             Open(s) \/ Refuse(s) \/ ConnectError(s) \/ CloseEvent(s) \/ Drop(s)
      PROVE  clientEnd' \in [Sockets -> ClientEnds]
  BY <1>1, <1>7 DEF Open, Refuse, ConnectError, CloseEvent, Drop, ClientEnds
<1> QED BY <1>1, <1>4, <1>5, <1>6, <1>7, Steps
        DEF Join, RetryJoin, Leave, ClientReceives, ServerReceives, ServerNotices, ends

LEMMA ToServerTyped ==
  ASSUME ConnectionTypeOK, Next
  PROVE  toServer' \in [Sockets -> Seq(Messages)]
<1>1. toServer \in [Sockets -> Seq(Messages)] /\ app.session \in 0 .. MaxSessions
  BY DEF ConnectionTypeOK, AppStates
<1>2. [type |-> "leaveRoom"] \in Messages
  BY DEF Messages
<1>7. CASE Join
  <2>1. NoSession \in 0 .. MaxSessions
    BY ConstantsTyped
  <2> QED BY <1>7, <2>1, JoinTyped, SentTyped DEF Join
<1>8. CASE RetryJoin
  BY <1>1, <1>8, JoinTyped, SentTyped DEF RetryJoin
<1>3. CASE Leave
  BY <1>2, <1>3, SentTyped DEF Leave
<1>4. ASSUME NEW s \in Sockets, Open(s)
      PROVE  toServer' \in [Sockets -> Seq(Messages)]
  <2>1. JoinRoom(app.session, FALSE) \in Messages
    BY <1>1, JoinTyped
  <2>3. ASSUME NEW m \in Messages PROVE <<m>> \in Seq(Messages)
    OBVIOUS
  <2>2. <<JoinRoom(app.session, FALSE)>> \in Seq(Messages)
    BY <2>1, <2>3
  <2> QED BY <1>1, <1>4, <2>2 DEF Open
<1>5. ASSUME NEW s \in Sockets, Drop(s)
      PROVE  toServer' \in [Sockets -> Seq(Messages)]
  BY <1>1, <1>5 DEF Drop
<1>6. ASSUME NEW s \in Sockets, ServerReceives(s)
      PROVE  toServer' \in [Sockets -> Seq(Messages)]
  <2>1. Tail(toServer[s]) \in Seq(Messages)
    BY <1>1, <1>6 DEF ServerReceives
  <2> QED BY <1>1, <1>6, <2>1 DEF ServerReceives
<1> QED BY <1>1, <1>3, <1>4, <1>5, <1>6, <1>7, <1>8, Steps
        DEF Connect, Reconnect, TimerFires, Fire, HeartbeatTerminates, Refuse, ConnectError,
            CloseEvent, ClientReceives, ServerNotices

LEMMA ServerTyped ==
  ASSUME ConnectionTypeOK, Next
  PROVE  /\ serverEnd' \in [Sockets -> ServerEnds]
         /\ toClient' \in [Sockets -> Seq(Answers)]
         /\ seat' \in [Sockets -> 0 .. MaxSessions]
         /\ sessions' \in 1 .. MaxSessions
<1>1. /\ serverEnd \in [Sockets -> ServerEnds]
      /\ toClient \in [Sockets -> Seq(Answers)]
      /\ seat \in [Sockets -> 0 .. MaxSessions]
      /\ sessions \in 1 .. MaxSessions
  BY DEF ConnectionTypeOK
<1>2. ASSUME NEW w, NEW end, NEW s, Connected(w, end, s)
      PROVE  toClient' \in [Sockets -> Seq(Answers)]
  BY <1>1, <1>2 DEF Connected
<1>9. CASE Connect
  BY <1>1, <1>2, <1>9 DEF Connect
<1>10. CASE Reconnect
  BY <1>1, <1>2, <1>10 DEF Reconnect
<1>11. CASE Join
  BY <1>1, <1>11 DEF Join, ends
<1>12. CASE RetryJoin
  BY <1>1, <1>12 DEF RetryJoin, ends
<1>3. CASE Leave
  BY <1>1, <1>3 DEF Leave, ends
<1>4. CASE TimerFires \/ HeartbeatTerminates
  BY <1>1, <1>4 DEF TimerFires, Fire, HeartbeatTerminates
<1>13. ASSUME NEW s \in Sockets, Drop(s)
      PROVE  toClient' \in [Sockets -> Seq(Answers)]
  BY <1>1, <1>13 DEF Drop
<1>5. ASSUME NEW s \in Sockets, Open(s) \/ Refuse(s) \/ ConnectError(s) \/ CloseEvent(s) \/ Drop(s)
      PROVE  /\ serverEnd' \in [Sockets -> ServerEnds]
             /\ toClient' \in [Sockets -> Seq(Answers)]
             /\ seat' \in [Sockets -> 0 .. MaxSessions]
             /\ sessions' \in 1 .. MaxSessions
  BY <1>1, <1>5, <1>13 DEF Open, Refuse, ConnectError, CloseEvent, Drop, ServerEnds
<1>6. ASSUME NEW s \in Sockets, ClientReceives(s)
      PROVE  /\ serverEnd' \in [Sockets -> ServerEnds]
             /\ toClient' \in [Sockets -> Seq(Answers)]
             /\ seat' \in [Sockets -> 0 .. MaxSessions]
             /\ sessions' \in 1 .. MaxSessions
  <2>1. Tail(toClient[s]) \in Seq(Answers)
    BY <1>1, <1>6 DEF ClientReceives
  <2> QED BY <1>1, <1>6, <2>1 DEF ClientReceives, ends
<1>7. ASSUME NEW s \in Sockets, ServerReceives(s)
      PROVE  /\ serverEnd' \in [Sockets -> ServerEnds]
             /\ toClient' \in [Sockets -> Seq(Answers)]
             /\ seat' \in [Sockets -> 0 .. MaxSessions]
             /\ sessions' \in 1 .. MaxSessions
  <2>1. Head(toServer[s]) \in Messages
    BY <1>7 DEF ServerReceives, ConnectionTypeOK
  <2>2. CASE Head(toServer[s]).type = "joinRoom" /\ HandleJoin(s, Head(toServer[s]))
    BY <2>1, <2>2, HandleJoinTyped
  <2>3. CASE HandleLeave(s)
    BY <1>1, <2>3, ConstantsTyped DEF HandleLeave
  <2> QED BY <1>7, <2>2, <2>3 DEF ServerReceives
<1>8. ASSUME NEW s \in Sockets, ServerNotices(s)
      PROVE  /\ serverEnd' \in [Sockets -> ServerEnds]
             /\ toClient' \in [Sockets -> Seq(Answers)]
             /\ seat' \in [Sockets -> 0 .. MaxSessions]
             /\ sessions' \in 1 .. MaxSessions
  BY <1>1, <1>8, ConstantsTyped DEF ServerNotices, ServerEnds
<1> QED BY <1>9, <1>10, <1>11, <1>12, <1>3, <1>4, <1>5, <1>6, <1>7, <1>8, Steps

LEMMA RestTyped ==
  ASSUME ConnectionTypeOK, Next
  PROVE  locked' \in BOOLEAN /\ commands' \in Nat /\ failures' \in Nat /\ drops' \in Nat
<1>1. locked \in BOOLEAN /\ commands \in Nat /\ failures \in Nat /\ drops \in Nat
  BY DEF ConnectionTypeOK
<1>2. ASSUME NEW command, Ordered(command)
      PROVE  locked' \in BOOLEAN /\ commands' \in Nat /\ failures' \in Nat /\ drops' \in Nat
  BY <1>1, <1>2 DEF Ordered
<1>3. ASSUME NEW s \in Sockets, Refuse(s) \/ ConnectError(s) \/ Drop(s)
      PROVE  locked' \in BOOLEAN /\ commands' \in Nat /\ failures' \in Nat /\ drops' \in Nat
  BY <1>1, <1>3 DEF Refuse, ConnectError, Drop
<1> QED BY <1>1, <1>2, <1>3, Steps
        DEF Connect, Reconnect, Join, Leave, rest, RetryJoin, TimerFires, Fire, HeartbeatTerminates, Open, CloseEvent,
            ClientReceives, ServerReceives, ServerNotices

LEMMA StepTyped == ConnectionTypeOK /\ [Next]_vars => ConnectionTypeOK'
<1>1. ASSUME ConnectionTypeOK, Next PROVE ConnectionTypeOK'
  BY <1>1, WsTyped, AppTyped, ClientEndTyped, ToServerTyped, ServerTyped, RestTyped
  DEF ConnectionTypeOK
<1> QED BY <1>1 DEF vars, ends, rest, ConnectionTypeOK

\* The client's and the server's ends, queues and sessions keep their types
\* (WebSocketClient.ts, the handlers of server.ts and extension.ts).
THEOREM ConnectionTyped == Spec => []ConnectionTypeOK
BY InitTyped, StepTyped, PTL DEF Spec

-------------------------------------------------------------------------------
\* A connected extension

LEMMA InitWatched == Init => ConnectedIsWatched
BY ConstantsTyped DEF Init, ConnectedIsWatched, Sockets

LEMMA StepWatched ==
  ASSUME ConnectionTypeOK, ConnectedIsWatched, [Next]_vars
  PROVE  ConnectedIsWatched'
<1> SUFFICES ASSUME Next PROVE ConnectedIsWatched'
  BY DEF vars, ends, ConnectedIsWatched
<1>0. /\ clientEnd \in [Sockets -> ClientEnds] /\ ws \in ClientStates /\ app \in AppStates
      /\ ws' \in ClientStates
  BY WsTyped DEF ConnectionTypeOK
<1> USE DEF ConnectedIsWatched
<1>1. ASSUME NEW w, NEW end, NEW s \in Sockets, Connected(w, end, s)
      PROVE  ~app'.isConnected
  BY <1>0, <1>1 DEF Connected, AppStates
<1>2. CASE Connect
  BY <1>1, <1>2 DEF Connect
<1>3. CASE Reconnect
  BY <1>0, <1>1, <1>3 DEF Reconnect, AppStates
<1>4. CASE Join \/ RetryJoin \/ Leave
  BY <1>0, <1>4 DEF Join, RetryJoin, Leave, ends, AppStates
<1>5. CASE TimerFires
  <2>1. ASSUME NEW w, Fire(w), w.heartbeat = ws.heartbeat, w.socket = ws.socket
        PROVE  ConnectedIsWatched'
    <3>1. ws.socket \in Sockets /\ clientEnd[ws.socket] # "none" => clientEnd'[ws.socket] = clientEnd[ws.socket]
      BY <1>0, <2>1 DEF Fire, Fresh, Free
    <3>2. ws'.heartbeat = ws.heartbeat /\ ws'.socket = ws.socket /\ app' = app
      BY <2>1 DEF Fire
    <3>3. ws.socket \in Sockets \cup {NoSocket}
      BY <1>0 DEF ClientStates
    <3> QED BY <3>1, <3>2, <3>3
  <2> QED BY <1>0, <1>5, <2>1 DEF TimerFires, ClientStates
<1>6. CASE HeartbeatTerminates
  BY <1>0, <1>6 DEF HeartbeatTerminates, ClientStates
<1>7. ASSUME NEW s \in Sockets, Open(s) \/ Refuse(s)
      PROVE  ConnectedIsWatched'
  <2>1. ws'.heartbeat /\ ws'.socket = s
    BY <1>0, <1>7 DEF Open, Refuse, Opened, ClientStates
  <2>3. clientEnd'[s] = "open"
    BY <1>0, <1>7 DEF Open, Refuse
  <2>2. clientEnd'[s] = "open" /\ s # NoSocket
    BY <2>3, ConstantsTyped DEF Sockets
  <2> QED BY <2>1, <2>2
<1>8. ASSUME NEW s \in Sockets, ConnectError(s)
      PROVE  ConnectedIsWatched'
  <2>1. app'.isConnected => app.isConnected
    BY <1>0, <1>8 DEF ConnectError, AppStates
  <2>2. ws'.heartbeat = ws.heartbeat /\ ws'.socket = ws.socket
    <3>1. ASSUME NEW w \in ClientStates
          PROVE  Scheduled(w).heartbeat = w.heartbeat /\ Scheduled(w).socket = w.socket
      BY <3>1 DEF Scheduled, ClientStates
    <3> QED BY <1>0, <1>8, <3>1 DEF ConnectError
  <2> QED BY <1>0, <1>8, <2>1, <2>2 DEF ConnectError
<1>9. ASSUME NEW s \in Sockets, CloseEvent(s)
      PROVE  ConnectedIsWatched'
  <2>1. PICK w : app' = Closed(app, w)
    BY <1>9 DEF CloseEvent
  <2>2. ~app'.isConnected
    BY <1>0, <2>1 DEF Closed, AppStates
  <2> QED BY <2>2
<1>10. ASSUME NEW s \in Sockets, Drop(s)
       PROVE  ConnectedIsWatched'
  BY <1>0, <1>10 DEF Drop, ClientStates
<1>11. ASSUME NEW s \in Sockets, ClientReceives(s) \/ ServerReceives(s) \/ ServerNotices(s)
       PROVE  ConnectedIsWatched'
  BY <1>0, <1>11 DEF ClientReceives, ServerReceives, ServerNotices, ends, AppStates
<1> QED BY <1>2, <1>3, <1>4, <1>5, <1>6, <1>7, <1>8, <1>9, <1>10, <1>11, Steps

\* While the extension takes itself for connected, send has a socket and the
\* heartbeat runs, whatever closes late (WebSocketClient.ts, extension.ts).
THEOREM ConnectionWatched == Spec => []ConnectedIsWatched
<1>1. ConnectionTypeOK /\ ConnectedIsWatched /\ [Next]_vars => ConnectedIsWatched'
  BY StepWatched
<1> QED BY <1>1, InitWatched, ConnectionTyped, PTL DEF Spec

-------------------------------------------------------------------------------
\* A client that goes on trying

LEMMA InitTrying == Init => KeepsTrying
BY DEF Init, KeepsTrying

\* A timer is armed, or what is left of the attempts is none.
LEMMA ScheduledArms ==
  ASSUME NEW w \in ClientStates, ~GivesUp(w)
  PROVE  Scheduled(w).timer
BY DEF Scheduled, ClientStates

LEMMA StepTrying ==
  ASSUME ConnectionTypeOK, KeepsTrying, [Next]_vars
  PROVE  KeepsTrying'
<1> SUFFICES ASSUME Next PROVE KeepsTrying'
  BY DEF vars, ends, KeepsTrying
<1>0. /\ clientEnd \in [Sockets -> ClientEnds] /\ ws \in ClientStates /\ app \in AppStates
      /\ ws' \in ClientStates /\ app' \in AppStates
  BY WsTyped, AppTyped DEF ConnectionTypeOK
<1> USE DEF KeepsTrying
<1>1. ASSUME NEW w, NEW end, NEW s \in Sockets, Connected(w, end, s)
      PROVE  KeepsTrying'
  BY <1>0, <1>1 DEF Connected
<1>2. CASE Connect
  BY <1>1, <1>2 DEF Connect
<1>3. CASE Reconnect
  <2>1. CASE ws' = DisconnectWs
    BY <1>0, <2>1 DEF DisconnectWs, ClientStates
  <2> QED BY <1>1, <1>3, <2>1 DEF Reconnect
<1>4. CASE Join \/ RetryJoin \/ Leave
  BY <1>0, <1>4 DEF Join, RetryJoin, Leave, ends, AppStates
<1>5. CASE TimerFires
  <2>1. ASSUME NEW w, Fire(w), w.intentionalClose = ws.intentionalClose
        PROVE  KeepsTrying'
    BY <1>0, <2>1 DEF Fire
  <2> QED BY <1>0, <1>5, <2>1 DEF TimerFires, ClientStates
<1>6. CASE HeartbeatTerminates
  BY <1>0, <1>6 DEF HeartbeatTerminates, ClientStates
<1>7. ASSUME NEW s \in Sockets, Open(s) \/ Refuse(s)
      PROVE  KeepsTrying'
  BY <1>0, <1>7 DEF Open, Refuse, Opened, AppStates
<1>8. ASSUME NEW s \in Sockets, ConnectError(s)
      PROVE  KeepsTrying'
  <2>1. CASE app.awaited = s
    BY <1>0, <1>8, <2>1 DEF ConnectError, AppStates
  <2>2. CASE app.awaited # s /\ ws.intentionalClose
    BY <1>0, <1>8, <2>2 DEF ConnectError
  <2>3. CASE app.awaited # s /\ ~ws.intentionalClose
    <3>1. ws' = Scheduled(ws) /\ (GivesUp(ws) => app'.notice)
      BY <1>0, <1>8, <2>3 DEF ConnectError, AppStates
    <3> QED BY <1>0, <3>1, ScheduledArms
  <2> QED BY <2>1, <2>2, <2>3
<1>9. ASSUME NEW s \in Sockets, CloseEvent(s)
      PROVE  KeepsTrying'
  <2> DEFINE w == [ws EXCEPT !.heartbeat = FALSE,
                             !.socket = IF ws.socket = s THEN NoSocket ELSE @]
  <2>1. w \in ClientStates
    BY <1>0 DEF ClientStates
  <2>2. ws' = IF w.intentionalClose THEN w ELSE Scheduled(w)
    BY <1>9 DEF CloseEvent
  <2>3. app' = Closed(app, w)
    BY <1>9 DEF CloseEvent
  <2> HIDE DEF w
  <2>4. ~w.intentionalClose /\ GivesUp(w) => app'.notice
    BY <1>0, <2>3 DEF Closed, AppStates
  <2> QED BY <2>1, <2>2, <2>4, ScheduledArms
<1>10. ASSUME NEW s \in Sockets, Drop(s)
       PROVE  KeepsTrying'
  BY <1>0, <1>10 DEF Drop
<1>11. ASSUME NEW s \in Sockets, ClientReceives(s) \/ ServerReceives(s) \/ ServerNotices(s)
       PROVE  KeepsTrying'
  BY <1>0, <1>11 DEF ClientReceives, ServerReceives, ServerNotices, ends, AppStates
<1> QED BY <1>2, <1>3, <1>4, <1>5, <1>6, <1>7, <1>8, <1>9, <1>10, <1>11, Steps

\* No failure, loss or late event leaves the client without a way back that the
\* user was not told of (scheduleReconnect, ensureConnection).
THEOREM ConnectionKeepsTrying == Spec => []KeepsTrying
<1>1. ConnectionTypeOK /\ KeepsTrying /\ [Next]_vars => KeepsTrying'
  BY StepTrying
<1> QED BY <1>1, InitTrying, ConnectionTyped, PTL DEF Spec

-------------------------------------------------------------------------------
\* One place per session

LEMMA InitSeated == Init => OneSeatPerSession
BY DEF Init, OneSeatPerSession, Sockets

LEMMA StepSeated ==
  ASSUME ConnectionTypeOK, OneSeatPerSession, [Next]_vars
  PROVE  OneSeatPerSession'
<1>0. /\ seat \in [Sockets -> 0 .. MaxSessions]
      /\ serverEnd \in [Sockets -> ServerEnds]
  BY DEF ConnectionTypeOK
<1> USE DEF OneSeatPerSession
<1>1. CASE UNCHANGED <<seat, serverEnd>>
  BY <1>1
<1>2. ASSUME NEW s \in Sockets, Open(s)
      PROVE  OneSeatPerSession'
  BY <1>0, <1>2 DEF Open
<1>3. ASSUME NEW s \in Sockets, ServerNotices(s)
      PROVE  OneSeatPerSession'
  BY <1>0, <1>3 DEF ServerNotices
<1>4. ASSUME NEW s \in Sockets, ServerReceives(s)
      PROVE  OneSeatPerSession'
  <2>1. CASE HandleLeave(s)
    BY <1>0, <1>1, <2>1 DEF HandleLeave
  <2>2. CASE HandleJoin(s, Head(toServer[s]))
    <3>1. CASE UNCHANGED <<seat, serverEnd>>
      BY <1>1, <3>1
    <3>2. ASSUME NEW session, seat' = Seated(s, session), serverEnd' = Displaced(s, session)
          PROVE  OneSeatPerSession'
      <4>1. serverEnd[s] # "none"
        BY <1>4 DEF ServerReceives
      <4>2. \A t \in Sockets :
              /\ seat'[t] = IF t = s THEN session ELSE IF seat[t] = session THEN NoSession ELSE seat[t]
              /\ serverEnd'[t] = IF t # s /\ seat[t] = session THEN "closing" ELSE serverEnd[t]
        BY <1>0, <3>2 DEF Seated, Displaced
      <4> QED BY <4>1, <4>2
    <3>3. \/ UNCHANGED <<seat, serverEnd>>
          \/ \E session : seat' = Seated(s, session) /\ serverEnd' = Displaced(s, session)
      BY <2>2 DEF HandleJoin
    <3> QED BY <3>1, <3>2, <3>3
  <2> QED BY <1>4, <2>1, <2>2 DEF ServerReceives
<1>5. ASSUME Next
      PROVE  OneSeatPerSession'
  BY <1>1, <1>2, <1>3, <1>4, <1>5, Steps
  DEF ends, Connect, Reconnect, Join, RetryJoin, Leave, TimerFires, Fire, HeartbeatTerminates,
      Refuse, ConnectError, CloseEvent, Drop, ClientReceives
<1> QED BY <1>1, <1>5 DEF vars, ends

\* A session that joins again takes its place from the connection that had it, and
\* a connection the server has lost keeps none (joinRoomInner, cleanupConnection).
THEOREM SessionsSeatedOnce == Spec => []OneSeatPerSession
<1>1. ConnectionTypeOK /\ OneSeatPerSession /\ [Next]_vars => OneSeatPerSession'
  BY StepSeated
<1> QED BY <1>1, InitSeated, ConnectionTyped, PTL DEF Spec
===============================================================================
