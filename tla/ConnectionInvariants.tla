-------------------------- MODULE ConnectionInvariants --------------------------
(***************************************************************************)
(* What makes the connection right, and what it is taken to promise.       *)
(***************************************************************************)
EXTENDS Connection

\* The client holds its place in the room over a socket that works.
InRoom == \E s \in Sockets : /\ app.session # NoSession
                             /\ seat[s] = app.session
                             /\ clientEnd[s] = "open" /\ serverEnd[s] = "open"

\* A client that is not connected, and was not told to be, has a timer, a
\* connection in progress or a close event to come, or has told the user.
KeepsTrying ==
  ~app.isConnected /\ ~ws.intentionalClose =>
    \/ ws.timer \/ ws.strays > 0
    \/ \E s \in Sockets : clientEnd[s] \in {"connecting", "closing", "broken"}
    \/ app.notice

\* While the extension takes itself for connected, send has a socket, and the
\* heartbeat watches it.
ConnectedIsWatched ==
  app.isConnected =>
    /\ ws.heartbeat
    /\ ws.socket # NoSocket
    /\ clientEnd[ws.socket] \in {"open", "stale", "broken"}

\* A session has its place on one connection, and no place is on a connection
\* the server has lost.
OneSeatPerSession ==
  \A s, t \in Sockets : seat[s] # NoSession =>
    /\ serverEnd[s] # "none"
    /\ seat[s] = seat[t] => s = t

\* A lost connection, known to the client or not, is repaired: a client that still
\* shows its room gets its place back, unless it leaves, gives up or needs the
\* secret, which it says.
Lost == ~app.isConnected \/ (ws.socket # NoSocket /\ clientEnd[ws.socket] = "stale")
LossIsRepaired ==
  app.room /\ Lost /\ ~ws.intentionalClose
    ~> InRoom \/ ~app.room \/ app.notice \/ app.prompt
===============================================================================
