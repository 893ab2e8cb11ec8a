------------------------------- MODULE Connection -------------------------------
(***************************************************************************)
(* One client's connection to the server and its place in a room:          *)
(* WebSocketClient.ts, the connection handlers and commands of             *)
(* extension.ts, and what the server does with a connection (server.ts).   *)
(*                                                                         *)
(* Every WebSocket the client makes has two ends and two queues.  The      *)
(* client's end keeps its listeners until its close event or until connect *)
(* takes them away, so several sockets may call the same handlers; a       *)
(* socket's number is used again when both ends have forgotten it.  The    *)
(* room exists throughout; in an open room, and to refuse a join, the      *)
(* server needs no step of its own (RoomServer has the joins that await).  *)
(***************************************************************************)
EXTENDS Integers, Sequences

CONSTANTS
  MaxSockets,    \* bound: sockets that exist at a time
  MaxAttempts,   \* reconnectOptions.maxAttempts
  MaxSessions,   \* bound: session tokens the server draws
  Locking,       \* whether the room may have a secret: a subset of BOOLEAN
  Commands,      \* what the user may do: "connect", "reconnect", "join", "leave"
  MaxCommands,   \* bound: how often
  MaxFailures,   \* bound: connections the network or the server refuses
  MaxDrops       \* bound: connections lost

ASSUME ConnectionConstants ==
  /\ {MaxSockets, MaxAttempts, MaxSessions} \subseteq Nat \ {0}
  /\ {MaxCommands, MaxFailures, MaxDrops} \subseteq Nat
  /\ Locking \subseteq BOOLEAN
  /\ Commands \subseteq {"connect", "reconnect", "join", "leave"}

VARIABLES
  clientEnd,  \* per socket: the client's end; "none" when nothing listens to it
  serverEnd,  \* per socket: the server's end
  toServer, toClient,
  ws,         \* the WebSocketClient
  app,        \* the connection state of the extension
  seat,       \* per socket: the session of its participant in the room
  sessions,   \* sessions the room has issued
  locked,     \* whether the room has a secret
  commands, failures, drops

ends == <<clientEnd, serverEnd>>
rest == <<locked, commands, failures, drops>>
vars == <<ends, toServer, toClient, ws, app, seat, sessions, rest>>

Sockets == 1 .. MaxSockets
NoSocket == 0
NoSession == 0

\* A socket the client has lost without knowing is stale; a broken one has its
\* close event to come, and so has a closing one, once its messages are handled.
ClientEnds == {"none", "connecting", "open", "stale", "closing", "broken"}
ServerEnds == {"none", "open", "closing"}

Messages ==
  [type : {"joinRoom"}, session : 0 .. MaxSessions, hashed : BOOLEAN]
    \cup [type : {"leaveRoom"}]
Answers ==
  [type : {"joinedRoom"}, session : 1 .. MaxSessions] \cup [type : {"denied"}]

ClientStates ==
  [socket : Sockets \cup {NoSocket}, attempt : 0 .. MaxAttempts, timer : BOOLEAN, strays : Nat,
   intentionalClose : BOOLEAN, heartbeat : BOOLEAN]
AppStates ==
  [isConnected : BOOLEAN, awaited : Sockets \cup {NoSocket}, room : BOOLEAN, intent : BOOLEAN,
   session : 0 .. MaxSessions, prompt : BOOLEAN, notice : BOOLEAN]

ConnectionTypeOK ==
  /\ clientEnd \in [Sockets -> ClientEnds]
  /\ serverEnd \in [Sockets -> ServerEnds]
  /\ toServer \in [Sockets -> Seq(Messages)]
  /\ toClient \in [Sockets -> Seq(Answers)]
  /\ ws \in ClientStates
  /\ app \in AppStates
  /\ seat \in [Sockets -> 0 .. MaxSessions]
  /\ sessions \in 1 .. MaxSessions
  /\ locked \in BOOLEAN
  /\ commands \in Nat /\ failures \in Nat /\ drops \in Nat

\* The client has joined over its first socket, and its handler of joinedRoom is done: not
\* the program's initial state but the one a first join leads to, from which a loss starts.
Init ==
  /\ clientEnd = [s \in Sockets |-> IF s = 1 THEN "open" ELSE "none"]
  /\ serverEnd = [s \in Sockets |-> IF s = 1 THEN "open" ELSE "none"]
  /\ toServer = [s \in Sockets |-> <<>>]
  /\ toClient = [s \in Sockets |-> <<>>]
  /\ ws = [socket |-> 1, attempt |-> 0, timer |-> FALSE, strays |-> 0,
           intentionalClose |-> FALSE, heartbeat |-> TRUE]
  /\ app = [isConnected |-> TRUE, awaited |-> NoSocket, room |-> TRUE, intent |-> TRUE,
            session |-> 1, prompt |-> FALSE, notice |-> FALSE]
  /\ seat = [s \in Sockets |-> IF s = 1 THEN 1 ELSE NoSession]
  /\ sessions = 1
  /\ locked \in Locking
  /\ commands = 0 /\ failures = 0 /\ drops = 0

-------------------------------------------------------------------------------
\* The client's sockets

Free(s) ==
  /\ clientEnd[s] = "none" /\ serverEnd[s] = "none"
  /\ seat[s] = NoSession /\ toServer[s] = <<>>

\* establishConnection, with the next free number
Fresh(s) == Free(s) /\ \A t \in Sockets : t < s => ~Free(t)

\* send: what a stale or refused socket takes is lost
Sent(m) ==
  IF ws.socket # NoSocket /\ clientEnd[ws.socket] = "open" /\ serverEnd[ws.socket] # "none"
    THEN [toServer EXCEPT ![ws.socket] = Append(@, m)]
    ELSE toServer

JoinRoom(session, hashed) == [type |-> "joinRoom", session |-> session, hashed |-> hashed]

\* scheduleReconnect: the timer it overwrites is not cleared
GivesUpLate(w) == w.attempt > MaxAttempts
GivesUp(w) == w.attempt >= MaxAttempts
ScheduledIfAlone(w) ==
  IF GivesUp(w) \/ w.socket # NoSocket THEN w
  ELSE [w EXCEPT !.attempt = @ + 1, !.timer = TRUE, !.strays = IF w.timer THEN @ + 1 ELSE @]
Scheduled(w) ==
  IF GivesUp(w) THEN w
  ELSE [w EXCEPT !.attempt = @ + 1, !.timer = TRUE, !.strays = IF w.timer THEN @ + 1 ELSE @]

IsAutoReconnecting(w) == ~w.intentionalClose /\ w.attempt < MaxAttempts

\* the listeners of the events close and reconnectFailed, when a connection is over
Closed(a, w) ==
  [a EXCEPT !.isConnected = FALSE,
            !.room = @ /\ IsAutoReconnecting(w),
            !.notice = @ \/ (~w.intentionalClose /\ GivesUp(w))]

\* the open event: with the connected event, which rejoins the room
OpenedUnwatched(s) ==
  /\ ws' = [ws EXCEPT !.socket = s, !.attempt = 0]
  /\ app' = [app EXCEPT !.isConnected = TRUE, !.notice = FALSE,
                        !.awaited = IF app.awaited = s THEN NoSocket ELSE @]
Opened(s) ==
  /\ ws' = [ws EXCEPT !.socket = s, !.attempt = 0, !.heartbeat = TRUE]
  /\ app' = [app EXCEPT !.isConnected = TRUE, !.notice = FALSE,
                        !.awaited = IF app.awaited = s THEN NoSocket ELSE @]

Open(s) ==
  /\ clientEnd[s] = "connecting"
  /\ clientEnd' = [clientEnd EXCEPT ![s] = "open"]
  /\ serverEnd' = [serverEnd EXCEPT ![s] = "open"]
  /\ Opened(s)
  /\ toServer' = IF app.intent
                   THEN [toServer EXCEPT ![s] = <<JoinRoom(app.session, FALSE)>>]
                   ELSE toServer
  /\ UNCHANGED <<toClient, seat, sessions, rest>>

\* MAX_CONNECTIONS_PER_IP: the server closes what it has just accepted and hears
\* nothing on it.
Refuse(s) ==
  /\ clientEnd[s] = "connecting"
  /\ failures < MaxFailures
  /\ clientEnd' = [clientEnd EXCEPT ![s] = "open"]
  /\ Opened(s)
  /\ failures' = failures + 1
  /\ UNCHANGED <<serverEnd, toServer, toClient, seat, sessions, locked, commands, drops>>

\* the error event before open: a connection that ensureConnection awaits is
\* reported, one that a timer began is tried again
ConnectError(s) ==
  /\ clientEnd[s] = "connecting"
  /\ failures < MaxFailures
  /\ failures' = failures + 1
  /\ clientEnd' = [clientEnd EXCEPT ![s] = "none"]
  /\ \/ /\ app.awaited = s
        /\ app' = [app EXCEPT !.isConnected = FALSE, !.awaited = NoSocket, !.notice = TRUE]
        /\ UNCHANGED ws
     \/ /\ app.awaited # s
        /\ ~ws.intentionalClose
        /\ ws' = Scheduled(ws)
        /\ app' = IF GivesUp(ws) THEN [app EXCEPT !.room = FALSE, !.notice = TRUE] ELSE app
     \/ /\ app.awaited # s
        /\ ws.intentionalClose
        /\ UNCHANGED <<ws, app>>
  /\ UNCHANGED <<serverEnd, toServer, toClient, seat, sessions, locked, commands, drops>>

\* the close event
CloseEvent(s) ==
  /\ \/ clientEnd[s] \in {"closing", "broken"}
     \/ clientEnd[s] = "open" /\ serverEnd[s] # "open"
  /\ toClient[s] = <<>>
  /\ clientEnd' = [clientEnd EXCEPT ![s] = "none"]
  /\ LET w == [ws EXCEPT !.heartbeat = FALSE, !.socket = IF ws.socket = s THEN NoSocket ELSE @]
     IN /\ ws' = IF w.intentionalClose THEN w ELSE Scheduled(w)
        /\ app' = Closed(app, w)
  /\ UNCHANGED <<serverEnd, toServer, toClient, seat, sessions, rest>>

\* the callback of scheduleReconnect, of the last timer or of a stray one
Fire(w) ==
  /\ IF ws.intentionalClose
       THEN UNCHANGED clientEnd
       ELSE \E s \in Sockets : Fresh(s) /\ clientEnd' = [clientEnd EXCEPT ![s] = "connecting"]
  /\ ws' = w
  /\ UNCHANGED <<serverEnd, toServer, toClient, app, seat, sessions, rest>>

TimerFires ==
  \/ ws.timer /\ Fire([ws EXCEPT !.timer = FALSE])
  \/ ws.strays > 0 /\ Fire([ws EXCEPT !.strays = @ - 1])

\* startHeartbeat: no pong for 10 seconds
HeartbeatIdle == FALSE /\ UNCHANGED vars
HeartbeatTerminates ==
  /\ ws.heartbeat
  /\ ws.socket # NoSocket
  /\ clientEnd[ws.socket] = "stale"
  /\ clientEnd' = [clientEnd EXCEPT ![ws.socket] = "broken"]
  /\ UNCHANGED <<serverEnd, toServer, toClient, ws, app, seat, sessions, rest>>

\* The network: what was in transit is lost, and one end or none is told.
Drop(s) ==
  /\ drops < MaxDrops
  /\ clientEnd[s] = "open"
  /\ \E end \in {"stale", "broken"} : clientEnd' = [clientEnd EXCEPT ![s] = end]
  /\ toServer' = [toServer EXCEPT ![s] = <<>>]
  /\ toClient' = [toClient EXCEPT ![s] = <<>>]
  /\ drops' = drops + 1
  /\ UNCHANGED <<serverEnd, ws, app, seat, sessions, locked, commands, failures>>

-------------------------------------------------------------------------------
\* The user's commands

Ordered(command) ==
  /\ command \in Commands
  /\ commands < MaxCommands
  /\ commands' = commands + 1
  /\ UNCHANGED <<locked, failures, drops>>

\* connect: a terminated socket, which nothing can use again, stands for none
Connected(w, end, s) ==
  /\ ws' = [w EXCEPT !.intentionalClose = FALSE, !.attempt = 0, !.timer = FALSE, !.socket = NoSocket]
  /\ clientEnd' = [t \in Sockets |->
       IF t = s THEN "connecting" ELSE IF t = w.socket THEN "none" ELSE end[t]]
  /\ toClient' = [t \in Sockets |-> IF t = w.socket THEN <<>> ELSE toClient[t]]
  /\ app' = [app EXCEPT !.isConnected = FALSE, !.awaited = s, !.notice = FALSE]

\* ensureConnection, when it is not connected
Connect ==
  /\ Ordered("connect")
  /\ ~app.isConnected /\ app.awaited = NoSocket
  /\ \E s \in Sockets : Fresh(s) /\ Connected(ws, clientEnd, s)
  /\ UNCHANGED <<serverEnd, toServer, seat, sessions>>

\* disconnect: the socket keeps its listeners until its close event
DisconnectWs ==
  [ws EXCEPT !.intentionalClose = TRUE, !.timer = FALSE, !.heartbeat = FALSE, !.socket = NoSocket]
DisconnectEnds ==
  [s \in Sockets |->
    IF s # ws.socket THEN clientEnd[s]
    ELSE IF clientEnd[s] = "open" THEN "closing" ELSE "broken"]

\* reconnect: ensureConnection with ForceReconnect, when it is connected
Reconnect ==
  /\ Ordered("reconnect")
  /\ app.isConnected
  /\ IF app.awaited # NoSocket
       THEN /\ ws' = DisconnectWs
            /\ clientEnd' = DisconnectEnds
            /\ app' = [app EXCEPT !.isConnected = FALSE]
            /\ UNCHANGED toClient
       ELSE \E s \in Sockets : Fresh(s) /\ Connected(DisconnectWs, DisconnectEnds, s)
  /\ UNCHANGED <<serverEnd, toServer, seat, sessions>>

\* joinRoom, its connection and its prompts behind it
Join ==
  /\ Ordered("join")
  /\ toServer' = Sent(JoinRoom(NoSession, TRUE))
  /\ app' = [app EXCEPT !.intent = TRUE, !.session = NoSession]
  /\ UNCHANGED <<ends, toClient, ws, seat, sessions>>

\* retryJoinWithSecret: the user gives the secret or dismisses the prompt
RetryJoin ==
  /\ app.prompt
  /\ app' = [app EXCEPT !.prompt = FALSE]
  /\ \/ app.intent /\ toServer' = Sent(JoinRoom(app.session, TRUE))
     \/ UNCHANGED toServer
  /\ UNCHANGED <<ends, toClient, ws, seat, sessions, rest>>

\* leaveRoom
Leave ==
  /\ Ordered("leave")
  /\ app.room
  /\ toServer' = Sent([type |-> "leaveRoom"])
  /\ app' = [app EXCEPT !.room = FALSE, !.intent = FALSE, !.session = NoSession]
  /\ UNCHANGED <<ends, toClient, ws, seat, sessions>>

\* joinedRoom, or an error that asks for the secret
ClientReceives(s) ==
  /\ toClient[s] # <<>>
  /\ toClient' = [toClient EXCEPT ![s] = Tail(@)]
  /\ LET m == Head(toClient[s])
     IN \/ /\ m.type = "joinedRoom"
           /\ app' = [app EXCEPT !.room = TRUE, !.intent = TRUE, !.session = m.session]
        \/ /\ m.type = "denied"
           /\ app' = [app EXCEPT !.prompt = app.intent]
  /\ UNCHANGED <<ends, toServer, ws, seat, sessions, rest>>

-------------------------------------------------------------------------------
\* The server

\* send, to a socket that the client may still hear
Answered(s, m) ==
  toClient' = IF clientEnd[s] \in {"open", "closing"}
                THEN [toClient EXCEPT ![s] = Append(@, m)]
                ELSE toClient

\* joinRoomInner: the session's previous connection loses its place and is closed.
SeatedTwice(s, session) == [seat EXCEPT ![s] = session]
Seated(s, session) ==
  [t \in Sockets |-> IF t = s THEN session ELSE IF seat[t] = session THEN NoSession ELSE seat[t]]
Displaced(s, session) ==
  [t \in Sockets |-> IF t # s /\ seat[t] = session THEN "closing" ELSE serverEnd[t]]

HandleJoin(s, m) ==
  \/ /\ seat[s] # NoSession
     /\ UNCHANGED <<serverEnd, toClient, seat, sessions>>
  \/ /\ seat[s] = NoSession
     /\ locked /\ ~m.hashed
     /\ Answered(s, [type |-> "denied"])
     /\ UNCHANGED <<serverEnd, seat, sessions>>
  \/ /\ seat[s] = NoSession
     /\ locked => m.hashed
     /\ sessions' = IF m.session = NoSession THEN sessions + 1 ELSE sessions
     /\ sessions' =< MaxSessions
     /\ LET session == IF m.session = NoSession THEN sessions' ELSE m.session
        IN /\ seat' = Seated(s, session)
           /\ serverEnd' = Displaced(s, session)
           /\ Answered(s, [type |-> "joinedRoom", session |-> session])

HandleLeave(s) ==
  /\ seat' = [seat EXCEPT ![s] = NoSession]
  /\ UNCHANGED <<serverEnd, toClient, sessions>>

ServerReceives(s) ==
  /\ serverEnd[s] # "none"
  /\ toServer[s] # <<>>
  /\ toServer' = [toServer EXCEPT ![s] = Tail(@)]
  /\ LET m == Head(toServer[s])
     IN \/ m.type = "joinRoom" /\ HandleJoin(s, m)
        \/ m.type = "leaveRoom" /\ HandleLeave(s)
  /\ UNCHANGED <<clientEnd, ws, app, rest>>

\* the close event, when the client has closed its end or the link is dead
ServerNotices(s) ==
  /\ serverEnd[s] # "none"
  /\ clientEnd[s] \notin {"connecting", "open"}
  /\ toServer[s] = <<>>
  /\ serverEnd' = [serverEnd EXCEPT ![s] = "none"]
  /\ seat' = [seat EXCEPT ![s] = NoSession]
  /\ UNCHANGED <<clientEnd, toServer, toClient, ws, app, sessions, rest>>

-------------------------------------------------------------------------------
Command == Connect \/ Reconnect \/ Join \/ RetryJoin \/ Leave
Fault == \E s \in Sockets : Refuse(s) \/ ConnectError(s) \/ Drop(s)
Opens == \E s \in Sockets : Open(s)
Closes == \E s \in Sockets : CloseEvent(s)
Hears == \E s \in Sockets : ClientReceives(s)
Serves == \E s \in Sockets : ServerReceives(s) \/ ServerNotices(s)

Next == Command \/ Fault \/ Opens \/ Closes \/ Hears \/ Serves \/ TimerFires \/ HeartbeatTerminates
Spec == Init /\ [][Next]_vars

\* Timers fire, the network answers or refuses, and events are delivered.
FairSpec ==
  /\ Spec
  /\ \A s \in Sockets : WF_vars(Open(s)) /\ WF_vars(CloseEvent(s)) /\ WF_vars(ClientReceives(s))
                     /\ WF_vars(ServerReceives(s)) /\ WF_vars(ServerNotices(s))
  /\ WF_vars(TimerFires) /\ WF_vars(HeartbeatTerminates)
===============================================================================
