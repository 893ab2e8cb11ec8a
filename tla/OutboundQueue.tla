----------------------------- MODULE OutboundQueue -----------------------------
(***************************************************************************)
(* The queue through which a client sends (OutboundMessageQueue.ts, with   *)
(* the keys of ackKeys.ts).  Messages wait in offline while there is no    *)
(* connection; those the server must acknowledge are also kept in          *)
(* pendingAck, a Map from their key, here the sequence of its values in    *)
(* the order of the Map, to be sent again after the next join.             *)
(***************************************************************************)
EXTENDS Naturals, Sequences, SequencesExt

CONSTANT MaxPendingAck  \* maxPendingAck: what pendingAck may hold

ASSUME PendingAckConstant == MaxPendingAck \in Nat \ {0}

Untracked == <<"none">>

\* getClientMessageAckKey.  A decision has the key of the suggestion it decides.
AckKey(m) ==
  CASE m.type \in {"suggestion", "acceptSuggestion", "rejectSuggestion"} -> <<"suggest", m.id>>
    [] m.type = "unshareDocument" -> <<"unshare">>
    [] m.type = "chatSend"        -> <<"chat", m.id>>
    [] OTHER                      -> Untracked

EmptyQueue == [offline |-> <<>>, pendingAck |-> <<>>]

Tracks(entries, key) == \E i \in DOMAIN entries : AckKey(entries[i]) = key

\* Map.set: a key that is present keeps its place.
Entered(entries, m) ==
  IF Tracks(entries, AckKey(m))
    THEN [i \in DOMAIN entries |-> IF AckKey(entries[i]) = AckKey(m) THEN m ELSE entries[i]]
    ELSE Append(entries, m)

\* trackForAck: a full Map forgets its oldest entry, whether or not it needs the room.
Tracked(entries, m) ==
  IF AckKey(m) = Untracked THEN entries
  ELSE Entered(IF Len(entries) >= MaxPendingAck THEN Tail(entries) ELSE entries, m)

\* send, which hands m to the connection if there is one
Enqueued(q, m, isConnected) ==
  [offline    |-> IF isConnected THEN q.offline ELSE Append(q.offline, m),
   pendingAck |-> Tracked(q.pendingAck, m)]

\* acknowledge
Acknowledged(q, key) == [q EXCEPT !.pendingAck = SelectSeq(@, LAMBDA m : AckKey(m) # key)]

\* flush, once connected: everything unacknowledged, then what waited, unless its
\* key was among the former.
Skipped(pending, m) == AckKey(m) # Untracked /\ Tracks(pending, AckKey(m))

FlushStep(f, m) ==
  IF Skipped(f.pendingAck, m) THEN f
  ELSE [sent       |-> Append(f.sent, m),
        pendingAck |-> IF AckKey(m) = Untracked THEN f.pendingAck ELSE Entered(f.pendingAck, m)]

FlushOfWaiting(q) == FoldLeft(FlushStep, [sent |-> <<>>, pendingAck |-> q.pendingAck], q.offline)
FlushOf(q) == FoldLeft(FlushStep, [sent |-> q.pendingAck, pendingAck |-> q.pendingAck], q.offline)
FlushSends(q) == FlushOf(q).sent
Flushed(q) == [offline |-> <<>>, pendingAck |-> FlushOf(q).pendingAck]
=============================================================================
