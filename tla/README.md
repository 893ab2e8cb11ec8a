# CodeRooms in TLA+

CodeRooms lets several editors work on the same files through a small relay
server.  This directory holds a TLA+ model of it: modules translated from the
source, TLC runs that check them on small instances, and proofs that TLAPS
checks for every value of the constants.

    tlc -workers 2 -config rooms_locked.cfg MCRooms.tla
    tlc -workers 2 -config suggest_review.cfg MCSuggestions.tla
    tlapm RoomServerProofs.tla

## The system

| Component | Source | State | Operations |
|---|---|---|---|
| Room server | `server/server.ts`, `roomSessions.ts`, `roomOperationGuards.ts`, `joinAccess.ts`, `roomClosure.ts` | rooms, participants, resumable sessions, connection contexts, room counts, invites, voice tabs | create, join, leave, disconnect, role, removal, edit mode, invite, voice, idle cleanup |
| Room audit | `server/roomInvariants.ts` | none | logs what is wrong with a room after each membership change |
| Document relay | `server/server.ts` (share, unshare, docChange, full sync) | per document a version, a text, a CRDT snapshot, a patch history | share, unshare, change, full sync, replay to a newcomer |
| Document client | `src/core/DocumentSync.ts` | per document a CRDT, an editor text, a tracked version, unsent edits, timers | local edit, flush, remote change, full sync, share |
| Suggestions | `server/suggestions.ts`, `src/core/SuggestionManager.ts` | suggestions by id and status | submit, extend, accept, reject, prune, replay |
| Outbound queue | `src/core/OutboundMessageQueue.ts`, `shared/ackKeys.ts`, `server/trackedResponses.ts` | unacknowledged messages by key | track, acknowledge, retry, flush |
| Connection client | `src/connection/WebSocketClient.ts`, `src/extension.ts` | socket, reconnect timer, back-off | connect, close, reconnect, automatic rejoin |
| Memory accounting | `server/accounting.ts` | total document bytes, rooms per address | charge, release, rebuild |
| Persistence | `server/server.ts`, `db.ts`, `serialTaskRunner.ts`, `recoveryState.ts`, `backupPersistence.ts` | rows of the database | autosave, save on shutdown, load on start |
| Client state | `src/core/RoomState.ts`, `CursorManager.ts`, `FollowController.ts` | what the views show | server messages |
| Chat | `server/server.ts`, `src/core/ChatManager.ts` | recent messages | send, show, keep, restore |
| Operational transformation | `server/ot.ts`, `server/patch.ts` | none | transform and apply text patches |
| Rate limits | `server/rateLimiter.ts`, `joinSecurity.ts` | attempts and blocks by key | record, block, reset, clean up |
| Client storage | `src/core/RoomStorage.ts`, `roomMetadata.ts`, `storage*.ts` | files and metadata per room | register, update version, sweep |
| Shared terminals and ports | `src/core/TerminalManager.ts`, `PortForwardManager.ts` | terminals, tunnels | open, data, close |
| Validation | `server/protocolValidation.ts`, `shared/protocol.ts` | none | accept or refuse a message |
| Pub/sub | `server/redis.ts` | subscriptions | broadcast across server processes |
| Views, encryption | `src/ui`, `src/util` | none of their own | rendering, key derivation |

Clients talk to the server over one WebSocket each; the server answers, and
broadcasts to the other members of the room.  Tracked messages carry an
acknowledgement key and stay in the client's outbound queue until the server
acknowledges or refuses them.  The voice bridge is a browser tab with a socket of
its own that takes over the user id of the editor it was opened from.

What is hard here:

* **Awaits inside handlers.**  `joinRoom` and `createRoom` read the server's
  state, await, and go on with what they read; so do the client's handlers of
  `joinedRoom` and `roomCreated`, while later messages are handled.
* **Identity changes hands.**  A user id belongs to a connection, a session to a
  person; a reconnect is a new connection that takes over the session, possibly
  while the old connection is still open.
* **Departures of several kinds.**  Leaving, switching rooms, losing the
  connection, being removed and the room being closed differ in what they forget.
* **Optimistic state.**  Document clients count their own changes before the
  server does; a mode or a chat message is shown before it is taken.
* **Retries.**  Unacknowledged messages are sent again after a reconnect; timers
  and commands of the user overlap in the reconnection itself.
* **Restarts.**  The server saves every 30 seconds, and rebuilds its counters.

## The modules

| Module | What it is |
|---|---|
| `RoomSessions` | one room as a value, and the functions of `roomSessions.ts` and `server.ts` that compute its next value |
| `RoomServer`, `RoomInvariants` | the server's rooms, contexts, pending requests, counts, invites and voice tabs, one action per handler or half of a handler; the properties and the inductive invariant |
| `DocumentSync`, `DocumentInvariants` | one shared document: the server's copy, the clients' copies and the messages between them |
| `OutboundQueue` | the operations of the client's outbound queue as functions |
| `Suggestions`, `SuggestionInvariants` | suggestions between author, server and owner over connections that break; uses `OutboundQueue` |
| `ReviewOnce` | the abstract specification that `Suggestions` implements |
| `Connection`, `ConnectionInvariants` | one client's sockets, its timers and its place in a room |
| `Recovery`, `RecoveryInvariants` | rooms, rows and counters over saves, crashes and restarts |
| `DurableRooms` | the abstract specification that `Recovery` implements |
| `Roster`, `RosterInvariants` | the members of a room as the server knows them and as each client shows them, and the chat |
| `RoomServerProofs`, `RoomScopeProofs`; `DocumentProofs`; `SuggestionProofs`, `ReviewQueueProofs`; `ConnectionProofs`; `RecoveryProofs`; `RosterProofs` | the proofs about each |
| `MC*` | the instances for TLC |

The components meet in the same events seen from different sides.  `RoomServer` has
every way in and out of a room and the awaits of the server, and no messages;
`Connection` has the sockets over which one client comes and goes, and a server
reduced to seats; `Roster` has what the server broadcasts and how the clients'
handlers interleave; `Suggestions` and `DocumentSync` fix the members and follow one
kind of content; `Recovery` has all rooms, and every handler as one step.

### Room server

A room is a record with the fields of `RoomState` that concern membership.
Absent map entries are a value with role `"none"`.  Sessions (uuids) are numbered
in the order they are generated; a connection is identified with the user id it
was given.  A reconnect is therefore another member of `Conns`.

| Code | Model |
|---|---|
| `rooms` | `rooms`, with a `status`; closed rooms are kept because a pending join still holds the object |
| `ConnectionContext` | `conn[c]`, `tab[t]` |
| `pendingConnectionOps`, `pendingJoinClaims` | derived from `pending` (`NotBusy`, `JoinClaimed`) |
| `roomCountByIp`, `inviteTokens`, `roomLastActivity` | `roomCountByIp`, `invites`, the field `activity` |
| `createRoom` | `CreateRoom`; with a secret `BeginProtectedCreate`, `CompleteProtectedCreate` |
| `joinRoom` | `JoinRoom`, `JoinRoomByInvite`; with a secret `BeginProtectedJoin`, `CompleteProtectedJoin`; refused `DenyJoin`, `AnswerDeniedJoin` |
| `cleanupRoomMembership` | `Cleaned`, `Evicted`, `Uncounted`, used by `LeaveRoom`, `Disconnect`, `VoiceClose` and by the joins and creations |
| `updateRole`, `removeParticipant`, `setEditMode`, `handleCreateToken` | `UpdateRole`, `RemoveParticipant`, `SetEditMode`, `CreateToken` |
| `handleVoiceJoin`, close of a tab | `VoiceJoin`, `VoiceClose` |
| cleanup timer | `CleanupTick`, `ExpireToken`; `IdleTimePasses` is the clock |

Atomicity.  A handler runs to its end or to an await of something that is not
settled yet.  A join without a secret, or with an invite, only awaits settled
promises, whose continuations run before the next socket event: one action.  A
secret is hashed or verified in a thread pool (pbkdf2) and a refusal is delayed by a
timer: two actions, between which anything may happen, including the end of the
connection.

Left out: error replies, rate limits on joins (they refuse more), the wording of
anything.  The server's own `ws.close()` changes no context by itself: the
model's connection stays live, and its messages are handled, until its
`Disconnect`.  A generated room code is fresh when the room is registered.  Invites
are ids used again after they expire or are consumed.  Voice tabs only do what the
voice page does: join, and close.

Bounds: `MaxSession` (tokens generated), `MaxRooms`, `MaxRoomsPerIp` (the code's
limits, made small) and `LargeRoom` (40 in the code, 2 here, so that a second
participant already meets the limit).

Fairness: only `rooms_voice` assumes any, `TimerFairness`: the cleanup timer is a
`setInterval` and the clock advances.  Users owe nothing.

### Shared documents

A Yjs document is a set of blocks, each inserted once by one client, and the set
of those that were deleted; merging is union, which is what makes it a CRDT.
Positions are left out: a text is the set of what was typed into it.  A keystroke
is a block of its own; "the whole text replaced" is a block with the text it puts
there, and deletes what the document holds.  `made` records, for each block, the
content its author had when writing it.

| Code | Model |
|---|---|
| `DocumentState` of the server | `doc`; its text, version and CRDT state differ in when they are updated, as in the code |
| `TrackedDocument`, `pending*` maps, `suppressChanges` | `client[c]` |
| `shareDocument`, `handleShareDocument` (server, client) | `Share`; `ShareDocument`; `ReceiveShare`, `OpenShared` |
| `unshareDocument`, `handleUnshareDocument`, `handleDocumentUnshared` | `Unshare`, `UnshareDocument`, `ReceiveUnshared` |
| `onDidChangeTextDocument`, `flushDocumentChanges`, `handleDocChange` | `Type`, `Flush`, `DocChange` |
| `applyRemoteChange` | `ReceiveChange`, `Applied` |
| `requestFullSyncForDoc`, its timer, `handleRequestFullSync` (server, client) | `RequestFullSyncForDoc`, `SnapshotTimeout`, `RequestFullSync`, `AnswerFullSync` |
| `handleFullDocumentSync`, `applyFullDocumentSync`, `applyPendingFullSync` | `FullDocumentSync`, `ReceiveFullSync` and `Applied`, `QueuedSync` |
| `replayDocumentsToConnection` | `Join` |

VS Code is external (`EditorReacts`): it applies the edits of a client in the order
they were sent, each as one change event, and refuses one that was computed for an
earlier version of the text.  Between sending an edit and its answer anything may
happen, and the client's `suppressChanges` is one flag for all of them.

The server applies the patch of a change to its own text.  On the text the patch
was made on it fits; on another its positions may exist or not, so both outcomes are
possible.

Left out: reconnects and retries, viewers and suggestion mode, closing a file,
storage that fails, size limits, encryption (which the server cannot tell).
Opening a file is one await, from which other messages may be overtaken: the
separate awaits inside it are not distinguished, and a full sync that arrives
meanwhile is queued.

Bounds: `MaxBlocks`, the blocks inserted anywhere.  With text, sharing takes one and
opening at each of two clients another: five leave two keystrokes.  `docs_typing`
shares an empty text, so that three blocks are three keystrokes and opening is never
held up by the bound.

Fairness (`docs_typing` only): the server and the clients handle what arrives, an
opening file opens, a timer fires.  Nobody has to type, and the editor owes
nothing.

### Suggestions and the outbound queue

The queue of a client is a value, `[offline, pendingAck]`; a JavaScript `Map` is
the sequence of its values in insertion order, which the limit depends on.

| Code | Model |
|---|---|
| `getClientMessageAckKey` | `AckKey`: a suggestion and a decision about it share a key, as in the code |
| `OutboundMessageQueue.send`, `trackForAck`, `acknowledge`, `flush` | `Enqueued`, `Tracked`, `Acknowledged`, `FlushSends` and `Flushed` |
| `handleSuggestionMode`, `sendPendingSuggestion` | `Edit`, `SendPending` |
| `handleSuggestion` (server), `createPendingSuggestion` | `HandleSuggestion`, `Extended`, `Capped` |
| `handleSuggestionDecision`, `handleReviewSuggestions`, `reviewSuggestion`, `pruneReviewedSuggestions` | `HandleDecision`, `HandleReview`, `Review`, `Remembered` |
| `rejectTrackedMessage` | `Refuse`: an error and, all the same, the acknowledgement |
| `SuggestionManager`, `replaySuggestionsToConnection` | `Shown`, `Replay` |
| the handlers of `connected`, `joinedRoom` and of the close of a socket | `Reconnect`, `ClientReceives` and `FlushPending`, `Drop` |

A connection that breaks loses what is in transit in both directions.  The
`joinedRoom` handler awaits before it flushes, so its flush is a step of its own,
which finds whatever the queue has become.  Patches are named by the edit they stem
from.  Who may submit depends on roles and modes this model does not have: any
suggestion may be refused.

Bounds: `MaxSuggestions`, `MaxReviewed`, `MaxPatches` and `MaxPendingAck` are the code's
limits, made small enough to be met (1 to 3 for the code's 100 and more); `MaxIds`,
`MaxEdits`, `MaxRequests` and `MaxDrops` bound what users and the network do.
`suggest_review` has room for two pending suggestions and chunks of both;
`suggest_retry` has room for one pending and one reviewed suggestion, so that refusals
at the limit, pruning and the loss of the queue's oldest entry all happen.

Fairness (`suggest_retry`): per client, messages are delivered, handlers run to
their end and the client reconnects.  Users owe nothing, and only `MaxDrops`
connections break: a connection that breaks for ever acknowledges nothing.

### Connection

Each WebSocket has a client end, a server end and two queues.  Several may exist at
once, which is where the difficulty lies: `WebSocketClient.connect` takes the
listeners off the old socket, `disconnect` does not, and a timer that is overwritten
is not cleared (`strays`).

| Code | Model |
|---|---|
| `WebSocketClient` (`socket`, `reconnectAttempt`, `reconnectTimer`, `intentionalClose`, heartbeat) | `ws` |
| `extension.ts` (`isConnected`, `connectionPromise`, room, join intent, session token) | `app` |
| `establishConnection`, its `open`, `error` and `close` events | `Fresh`, `Open`, `ConnectError`, `CloseEvent` |
| `scheduleReconnect` and its callback | `Scheduled`, `TimerFires` |
| `startHeartbeat` | `HeartbeatTerminates` |
| `connect`, `disconnect`, `ensureConnection` and the commands | `Connected`, `DisconnectWs`, `Connect`, `Reconnect`, `Join`, `Leave` |
| the retry with a secret | `ClientReceives`, `RetryJoin` |
| `MAX_CONNECTIONS_PER_IP` | `Refuse` |
| `joinRoomInner`, `leaveRoom`, close of a socket (server) | `HandleJoin`, `HandleLeave`, `ServerNotices` |

A drop tells the client (`broken`) or leaves it to the heartbeat (`stale`).
Bounds: four sockets, which is what one command, one drop and two failures can
produce with a number being used again once both ends forgot it; one attempt, so
that giving up is reached.

A behaviour starts where the handler of the first `joinedRoom` has ended: the client
is in its room, over a first socket.  How it gets there is the part of the code that
`Join` and `ClientReceives` model for a later join.

Fairness: the network answers or refuses, timers fire, events are delivered, the
server handles what it is sent.  The commands of the user and the answer to the
prompt for a secret are owed by nobody.

### Recovery

| Code | Model |
|---|---|
| `createRoomInner`, `joinRoomInner`, `cleanupRoomMembership`, `updateRole` | `CreateRoom`, `JoinRoom`, `Disconnect`, `LeaveOrRemove`, `UpdateRole` |
| `deleteRoom` with its callers | `DeleteRoom`; `OwnerLeaves`, `CollectIdle` |
| `handleShareDocument`, `handleUnshareDocument`, `handleDocChange`, `handleFullDocumentSync` as far as bytes and versions go | the actions of those names |
| `saveRooms` on the autosave timer, through `createSerialTaskRunner` | `AutoSave`: some of the rooms, since an error ends the loop |
| `SIGTERM`, `SIGINT`, `stopCodeRoomsServer` | `Shutdown`, which writes every room; `stopped` records it |
| end of the process | `Crash` |
| `loadRooms`, `rebuildAccountingFromRooms` | `Restart` |

A document is its version and two sizes.  better-sqlite3 is synchronous: nothing
comes between two rows of a save but its failure.  A save writes rooms and deletes
none: a room that is closed deletes its row itself.

`DurableRooms` says what that amounts to.  A stop that was asked for (`Stop`) loses
nothing.  A crash (`Revert`) loses what no save has written, up to 30 seconds of it
(`server.ts:411`), and brings back all that was saved, except rooms closed since.
`README.md:23` says more: "Room state is saved atomically to a robust database. 100%
crash-proof recovery."  The code does not do that: `Crash` leaves the rows as the last
save wrote them, and a room no save has seen is gone.  Nor is a save atomic over rooms:
`saveRooms` writes them one by one, and an error leaves the rest as they were.
`RoomsAreDurable` claims no more than the code keeps.

`CreateRoom` is one step, so `CountsMatchRooms` is about creations that do not overlap.
What overlapping ones do to the count is the subject of `RoomServer` and `limit_race`.

Bounds: two rooms of which one may have guests and documents (`Busy`), two users at
two addresses, sizes 1 and 2 against a total of 3, one save, one outage.

### Roster

The server handles what a client sends at once; what the server sends waits in the
connection's channel and is lost with it.  `joinedRoom` is handled in three parts, as
its two awaits divide it (`getStoredDisplayName`, `recordRoomInfo`), and so is
`roomCreated`.  The second await is of a file, and anything may be handled before it
ends.  The first is settled at once: only messages that came together with this one
are handled before the handler goes on (`Naming`).

The server answers a creation with `roomCreated` and, at once, `joinedRoom`.  A
behaviour starts when the first has been handled up to its first await and the second
is on its way, so the two handlers overlap in every order.  `overtaken` records a
message that a handler may yet undo: any, for a `joinedRoom` that awaits, as it
replaces the list; for `roomCreated`, which sets the owner's id and role only, a
message that says otherwise (`Denies`).

| Code | Model |
|---|---|
| `joinRoomInner`, `cleanupRoomMembership` | `JoinRoom`, `Unseat`, `Depart`, `ServerCloses` |
| `updateRole`, `removeParticipant`, `setEditMode`, `handleChatSend` with their commands | `UpdateRole`, `RemoveParticipant`, `ToggleMode` and `SetEditMode`, `SendChatMessage` and `HandleChatSend` |
| `joinedRoom`, `roomCreated` | `JoinedRoom`, `Named`, `Recorded`; `CreatedNamed`, `CreatedRecorded` |
| `RoomState` | `SetSelfInfo`, `SetParticipants`, `AddParticipant`, `RemovedParticipant`, `UpdateParticipantRole`, `UpdateParticipantMode`, `SyncCollaboratorMode` |
| `ChatManager` | `AddMessage`, `Clear`, `SetRoom`; `stored` is the workspace state it saves to |

Bounds: three connections for two clients, one of them lost, two changes or chat
messages in all.

## The runs

| Run | Instance | What it shows |
|---|---|---|
| `rooms_open` | two rooms without secrets, two connections on two addresses | switching between rooms and closing them keeps the counts exact, empties closed rooms, and leaves contexts and memberships in agreement |
| `rooms_locked` | one room with a secret and an invite, three connections | whatever happens while a secret is verified, sessions stay exclusive, current and revocable; `IndInv`, the invariant the proofs use, holds |
| `rooms_voice` | one room, three connections, a voice tab | a tab that takes over a user id leaves members and owner consistent, and abandoned rooms are collected |
| `limit_race` | two rooms with secrets from one address | violation: both creations read the count before either writes it |
| `docs_relay` | an owner and a peer type in a document that has text | whatever is ignored, refused or overtaken, no copy of the Yjs document has a change without those it was made on; announced versions increase |
| `docs_typing` | the same in a new document | what is typed is flushed, also before the share is answered, unless the document is unshared |
| `docs_converge` | the same, a late joiner | violation: two changes in one flush, of which the server keeps neither; a newcomer shows another text with nothing under way |
| `suggest_review` | two suggestions in chunks, a lost connection on either side | the room implements `ReviewOnce`, and the owner's queue shows what is pending once the owner has caught up |
| `suggest_retry` | a room at its limits, a lost connection | pruning names exactly the reviewed suggestions; every tracked message is answered in the end |
| `connection` | an open room and one with a secret, one loss, two failures, one command | the client always has a next step or has told the user; one seat per session; a loss is repaired |
| `recovery` | two rooms, two addresses, a document, a save and an outage | the server implements `DurableRooms`: a stop loses nothing, a crash nothing that was saved; rows and counts match the rooms after a restart, and the total of bytes never falls behind the documents |
| `roster` | an owner who has just created the room and a guest, over three connections | what a client shows agrees with the server once it has caught up; so do the edit mode and the chat |

Why the bounds are enough to meet the interesting cases: three connections are an
owner, a member and a replacement connection of either; three or four sessions let
a session be revoked and asked for again while a new one exists; two rooms let a
connection switch from one it owns.  `rooms_open` has no pending requests, so it
shows that the two properties which overlapping requests break (`ClosedRoomsAreEmpty`,
`NoGhostMembers`) hold without them.  Of documents, two clients and two keystrokes
suffice for a change that is stale, refused or overtaken; a third keystroke follows a
repair.  Suggestions need two of everything for one to be confused with the other;
the limits of one reach every branch that counts.  A connection needs one loss for the
rejoin and one more failure to lose the rejoin itself.  Recovery needs one save that
is older than the crash.

## Disagreements the models show beyond the runs

The two runs that expect a violation are findings against a sentence of the
repository (`limit_race`, `docs_converge`).  The models contain more behaviour that
a reader of the documents would not expect; the properties that hold are stated so
that they stay true of it, and it is listed here.

* A join that verifies its secret while the owner closes the room completes into the
  closed room (`server.ts:1153`): the room object is used after the await.
  `tests/roomClosure.test.ts:5` has all live connections cleared.
* A crash loses what happened since the last save (`server.ts:411`: every 30 seconds),
  whole rooms included, and a failing save keeps some rooms only, against `README.md:23`:
  "Room state is saved atomically to a robust database. 100% crash-proof recovery."
  With `row' = rooms` demanded of every step that takes the server down, TLC refutes the
  model in two steps: a creation and a crash.
* The owner's session asked for from another address displaces the owner first
  (`server.ts:1194`); it then gets a new session, and `ownerId` names nobody, which
  `roomInvariants.ts:51-52` would log.  With two addresses, TLC finds it violate
  `OwnerIsActiveOrAway`.
* A voice tab takes over the user id of its editor (`server.ts:1999`), and closing it
  takes the editor out of the room, though `extension.ts:1508` tells the user to
  close the tab in order to leave the voice chat only.
* The text of a share is inserted by every client into a CRDT of its own
  (`DocumentSync.ts:496`), as is the owner's: the first update that is merged repeats
  the text, against the "Mathematically guaranteed document consistency" of
  `README.md:21`.
* A suggestion that is sent again appends its patches again (`server.ts:1675-1677`);
  `docs/CHANGELOG.md:24` lists duplicate patches on reconnection as fixed.
  `isIdempotentSuggestionReplay` tells a replay, and is not called.
* The first join sends a derived secret (`extension.ts:912`), the automatic rejoin the
  plain one (`extension.ts:355`), which a room with a secret denies; the comment at 182
  says "preserved for auto-rejoin on reconnect".  `LossIsRepaired` allows for the prompt
  that follows; without that, TLC finds it after one loss.
* *Reconnect* while connected leaves the old socket's close event to arrive after the
  new one opened: it clears the heartbeat and schedules another connection
  (`WebSocketClient.ts:91-101`), and the two displace each other's session.
  `docs/TROUBLESHOOTING.md:60` recommends the command.
* A second *Reconnect* while one is under way joins its promise after having
  disconnected (`extension.ts:410-421`); `intentionalClose` stays set, and a later loss is
  not repaired.
* A connection the server refuses for its address (`server.ts:451`) has been opened for
  the client, which resets its attempts and so never gives up.
* The connection whose session is resumed elsewhere is removed without a
  `participantLeft` (`server.ts:1193-1204`): the others keep its old user id in their
  lists.  `ViewsCatchUp` leaves those ids out.
* Messages handled while `joinedRoom` awaits are overwritten when it goes on
  (`extension.ts:489`), and a change of the owner's id or role while `roomCreated` does
  (`extension.ts:460`): the properties of `RosterInvariants` exempt who was overtaken.
* A full sync that is asked for is answered with the version the client has, and ignored
  (`DocumentSync.ts:608`).
* At its limit the outbound queue forgets its oldest message (`OutboundMessageQueue.ts:68`),
  which for `TrackedAreAnswered` is the end of its tracking.
* What was reviewed while the owner was away stays in its queue when nothing is pending
  (`server.ts:2257`).
* A chat message written without a connection is shown and never sent.
* A removal notice that is lost with its connection lets the client rejoin by itself.
* `handleDocChange` charges the update it is sent, which the document does not keep
  (`server.ts:1590`), and `handleUnshareDocument` releases what the document holds: the
  total drifts upwards.  A restart counts only texts (`accounting.ts:18`), not CRDT
  states, and `handleUnshareDocument`, unlike `deleteRoom`, does not stop at 0
  (`server.ts:1537`).  `ChargesKeepUp` is therefore about steps of a running server.
* A crash brings back participants who were removed after the last save.

## What is proved

Eight modules prove, for any values of the constants, every invariant and every step
property that the passing runs check, and the two refinements:

| Module | Invariant | Theorems |
|---|---|---|
| `RoomServerProofs` | `IndInv` | `TypeCorrect`, `MembersStayConnected`, `OnlyTheOwnerIsRoot`, `SessionsStayExclusive`, `SessionsStayUpToDate`, `OwnerCanAlwaysReturn`; of steps, `RevokedSessionsStayRevoked`, `RolesStayFrozen` |
| `RoomScopeProofs` | `IndInv` with `OwnerAtHome`, `NoLocks` and `RoomsWereCreated` | under a condition each (below): `OwnerStaysKnown`, `OwnerKeepsItsSession`, `MembersAreNeverGhosts`, `ContextsStayMembers`, `NobodyStaysInAClosedRoom`, `CountsAreExact`, `LimitHoldsWithoutSecrets` |
| `DocumentProofs` | `DocsInv` | `DocumentsTyped`, `CopiesStayClosed`, `VersionsAlwaysIncrease` |
| `SuggestionProofs` | `SuggestionInv` | `SuggestionsImplementReviewOnce`, `ReviewedStayOrdered`, `PendingStayLimited` |
| `ReviewQueueProofs` | `QueueInv` | `QueueShowsWhatIsPending`, `SuggestionsTyped` |
| `ConnectionProofs` | `ConnectionTypeOK` with each of the others | `ConnectionTyped`, `ConnectionWatched`, `ConnectionKeepsTrying`, `SessionsSeatedOnce` |
| `RecoveryProofs` | `RoomsTyped`, `PresentInOpenRooms`, `OpenAreDrawn` with each of the others | `RecoveryTyped`, `ServerStaysTyped`, `RowsOfRooms`, `CountsOfRooms`, `RoomsDurable`; of steps, `ChargesAlwaysKeepUp` |
| `RosterProofs` | `RosterInv` | `RosterAlwaysFollows`, `RosterTyped`, `ViewsAlwaysCatchUp`, `EditModeStaysTrue`, `ChatAlwaysReachesMembers` |

Assumptions: the named `ASSUME` of each module, which say that the sets the code
keeps apart are apart and that limits are numbers; `Rooms` and `Docs` are finite in
`Recovery`, where rooms are counted and the sizes of documents summed, and a room
remembers at least as many reviewed suggestions as it takes pending ones
(`MaxSuggestions =< MaxReviewed`, as in the code).  `Conns` and `Clients` need not be
finite.  The theorems of `RoomScopeProofs` have a further hypothesis or two each.

**Rooms.**  None of the properties is inductive: a join under way still holds the
room it looked up, so what it does on completion depends on what it read.
`IndInv` adds `Consistent` (each active participant has a session of its own which
the room remembers as it is, only the owner's session is a root's, and sessions
not generated yet are not held) and `JoinsUnderWay`.  The latter is where the
session claim of `roomOperationGuards.ts` is needed: two joins for one session
that both complete into a room closed meanwhile would each find it unused and both
hold it.  The proofs go from functions to steps: what each function of
`RoomSessions` does to the fields of a room, that it preserves `Consistent`, that
every action preserves `IndInv`.  For the step properties `Evolves` says what one
step may do to the sessions of one room, and each action is shown to do only that.

**Rooms, under conditions.**  Seven statements about rooms are false of the code as it
is, and true of it wherever one of its features is not used.  Each theorem names the
feature, and the runs that check these properties are instances of its hypothesis. None
of the hypotheses can go: without it TLC finds a counterexample of a few steps on two or
three connections.

* One address (`\A c, d \in Conns : IpOf[c] = IpOf[d]`), for the two about the owner.
  With two, a join with the owner's session from the other address displaces the owner
  and is then refused the role, so `ownerId` names nobody.
* No secrets (`TRUE \notin Locking`), for counts, the limit per address, ghosts and
  closed rooms.  A handler that hashes or verifies goes on after the connection or the
  room is gone, with a count it read before; `limit_race` is such a run.
* No voice tabs (`Tabs = {}`), for contexts and closed rooms.  Closing a tab takes its
  user out of the room and leaves the context of the editor that has the same user id.

`ContextsStayMembers` needs no more than the last, so it covers joins that overlap with
the closing of rooms that have secrets.  The argument sorts all steps by what they do to
one room (`StepForms`: a connection creates, enters or leaves, the room itself changes,
the timer collects) and each theorem goes through these forms.  `RoomsWereCreated` is what
makes a creation harmless: no context and no join under way names a room that is yet to
be created.  `UncountedExact` relates the counter to the cardinality of the set it counts.

**Documents.**  `CausallyClosed` speaks of contents that exist; a flush makes a new one
of the Yjs document and the queue.  `DocsInv` therefore also says that queued blocks are
in no content yet and in one queue only (`QueuesApart`, and the last conjuncts of
`Good`), that a document is shared once and sent to each client once, before any change
of it (`SharesSent`, `SharesGot`), and that announced versions are bounded by the
server's (`AllNumbered`).  Most steps of a client are instances of a few lemmas: a step
that writes no block, one that writes one, one that takes a message.

**Suggestions.**  The refinement maps a suggestion to its status and its patches and
leaves out connections, queues and messages, whose steps stutter.  A forgotten
suggestion is `missing` again, so that a late chunk of it submits it anew, in the
abstract specification as in the code.  `SuggestionInv` says that the order of
the reviewed suggestions names exactly those, each once, so that pruning forgets no
pending one; and, for the order to stay within its limit when all that are pending are
reviewed at once, that no more are pending than a room takes.

**The review queue.**  What the owner's queue shows lags behind by the messages on their
way.  `QueueInv` says of every pending suggestion that the queue as it will be, after
the messages in the owner's channel are applied to it in order, has all its patches:
each chunk carries the patches as a whole, and the replay at a join carries all that is
pending, so the last message about a suggestion decides.

**Connection.**  Given the types, each of the three properties is inductive.  The work is
in the closing and opening of sockets, which every command and timer shares: what
`Scheduled`, `DisconnectWs` and `CloseEvent` leave of the timers and of the socket in use.

**Recovery.**  Rows are written by a save and deleted with the room, so they belong
to rooms the server has; a restart, which makes rooms of rows, rebuilds the counts
of exactly those; and an id that was drawn is not drawn again, without which a new room
would take the count of an old one.  The refinement reads the rooms of a stopped
server off its rows; a crash is then `Revert`, a failing autosave a `Keep` of some rooms,
and a shutdown, which must write every room, is `Stop`.

The total of bytes is compared with sums over rooms and documents, which `MapThenSumSet`
computes by recursion in an order nobody chose.  `LeastSet` stands for induction: of the
subsets of a finite set that refute a claim one has no refuting subset of its own.  From
it follow that the recursion defines something (`SumsExist`), that any element can be
added last (`SumWithout`), and so that a sum changes by what one of its values changes
(`SumChanged`).  Then every charge and release is compared with what its step does to
the documents; the delicate one is `handleDocChange`, whose patch makes the text longer
by no more than what was sent.

**Roster.**  A client shows the past: between what the server has and what the client
shows are the messages in its channel, and perhaps a `joinedRoom` whose handler awaits.
`RosterInv` says of each client (`Follows`) that its join is yet to be answered, or that
it was overtaken, or that a base and a path lead from it to the server.  The base is the
view, the `joinedRoom` in the channel or the one whose handler awaits; the path is the
list of messages after it; and `Leads` says that members, roles, mode and chat after the
path are the server's.  A server step that changes something puts the message that
`Carries` the change at the end of the path of everyone who is told; a client step takes
the first message off it and applies it to the base.  With the channel empty the base is
the view, which is `ViewsCatchUp`.  The toggle of the edit mode, which the client shows
before the server knows, is part of the path as well: the last answer decides.  While
`roomCreated` awaits, the invariant carries what its handler is going to set: the owner's
`joinedRoom` was sent to the first connection, with the role of a root, and nothing the
owner has handled since denies it.

Only model-checked: liveness (`IdleRoomsAreCollected`, `TypingIsFlushed`,
`TrackedAreAnswered`, `LossIsRepaired`), which the prover does not handle.

## What is not modelled yet, and the plan

1. `SessionRegistry`: the abstract specification of a room's sessions (unissued,
   attached, detached, revoked) that `RoomServer` implements.
2. What holds of the owner with several addresses, stated without a hypothesis.
3. Documents over connections that break: sharing again on a retry, replay of a
   difference, viewers' reverts, the separate awaits of opening a file.
4. `TextPatches`: `ot.ts` and `patch.ts` as functions, against a reference, over
   bounded texts.
5. `RateLimiter` and `joinSecurity.ts`: windows, blocks and their cleanup; that the
   limiter never admits more than its limit.
6. Client storage: metadata versions, the retention sweep.

Not planned: validation (stateless; what it refuses, the models do not send), terminals and
ports (the server refuses their messages), publication across servers (an
optional transport), views (rendering), encryption (bytes).
