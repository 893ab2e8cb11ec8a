--------------------------------- MODULE RosterProofs ---------------------------------
(***************************************************************************)
(* Proofs about what the clients show of their room (RoomState.ts,         *)
(* ChatManager.ts, the handlers of extension.ts): a client that has caught *)
(* up shows the members, its own mode and the chat as the server has them. *)
(*                                                                         *)
(* What a client has yet to take is part of what it will show.  From a     *)
(* base, which is a joinedRoom in its channel, one whose handler awaits,   *)
(* or the view itself, the messages that follow lead to the server's       *)
(* state: an invariant over the whole channel, of which catching up is the *)
(* end.                                                                    *)
(***************************************************************************)
EXTENDS RosterInvariants, TLAPS

-------------------------------------------------------------------------------
\* What messages make of a view

\* What the view of a client whose id is l lists, and its own role, after message m.
Marked(list, i, marks) == [list EXCEPT ![i] = marks]
ListAfter(list, m) ==
  IF m.type = "participantJoined" THEN Marked(list, m.id, m.marks)
  ELSE IF m.type = "participantLeft" THEN Marked(list, m.id, Absent)
  ELSE IF m.type = "roleUpdated" /\ Here(list, m.id)
    THEN Marked(list, m.id, [role |-> m.role, direct |-> list[m.id].direct])
  ELSE IF m.type = "editModeUpdated" /\ Here(list, m.id)
    THEN Marked(list, m.id, [role |-> list[m.id].role, direct |-> m.direct])
  ELSE list
Applied(h, m, l) ==
  [list |-> ListAfter(h.list, m),
   role |-> IF m.type = "roleUpdated" /\ m.id = l THEN m.role ELSE h.role]

\* The messages that set the mode of the client, and the mode they set.
TurnsMode(m, l) ==
  \/ m.type = "editModeUpdated" /\ m.id = l
  \/ m.type = "roleUpdated" /\ m.id = l /\ m.role # "collaborator"
ModeOf(m) == m.type = "editModeUpdated" /\ m.direct

\* What is sent to a member after its joinedRoom.
IsTame(m, l) ==
  /\ m \in Messages
  /\ m.type \notin {"joinedRoom", "removed"}
  /\ m.type \in {"participantJoined", "participantLeft"} => m.id # l

\* What a view of client l is to be: the members' roles, nobody else but the displaced.
Agrees(h, l, list, gone) ==
  /\ h.role = list[l].role
  /\ \A i \in Ids : Here(list, i) /\ i # l => h.list[i].role = list[i].role
  /\ \A i \in Ids : Here(h.list, i) => Here(list, i) \/ i \in gone
EditsDirectly(list, l) == list[l].role = "collaborator" /\ list[l].direct

Unturned(ms, l, k) == \A i \in DOMAIN ms : i > k => ~TurnsMode(ms[i], l)
ModeWillBe(ms, l, direct, final) ==
  \/ Unturned(ms, l, 0) /\ direct = final
  \/ \E k \in DOMAIN ms : TurnsMode(ms[k], l) /\ ModeOf(ms[k]) = final /\ Unturned(ms, l, k)

ChatIn(ms) == {n \in Chats : \E i \in DOMAIN ms : ms[i].type = "chatMessage" /\ ms[i].n = n}

\* The views from a base through the messages ms.
Listed == [list : Lists, role : Roles \cup {"none"}]
IsPath(H, base, ms, l) ==
  /\ H \in [0 .. Len(ms) -> Listed]
  /\ H[0] = [list |-> base.list, role |-> base.role]
  /\ \A i \in DOMAIN ms :
       /\ H[i] = Applied(H[i - 1], ms[i], l)
       /\ ms[i].type = "editModeUpdated" /\ ms[i].id = l => H[i - 1].role = "collaborator"
\* A member the client takes for a collaborator, and is about to be told nothing else
\* of its mode, is one.
KeepsRole(H, ms, l, list) ==
  \A j \in 0 .. Len(ms) :
    H[j].role = "collaborator" /\ Unturned(ms, l, j) => list[l].role = "collaborator"

\* A client whose id is l shows what the server has (the members list, the displaced
\* gone, and the chat heard since it joined) once it has taken ms from the base.
Leads(base, ms, l, list, gone, heard) ==
  /\ \A i \in DOMAIN ms : IsTame(ms[i], l)
  /\ \E H :
       /\ IsPath(H, base, ms, l) /\ KeepsRole(H, ms, l, list)
       /\ Agrees(H[Len(ms)], l, list, gone)
  /\ ModeWillBe(ms, l, base.direct, EditsDirectly(list, l))
  /\ heard \subseteq base.seen \cup ChatIn(ms)

-------------------------------------------------------------------------------
\* The invariant

JoinBase(m) ==
  [list |-> m.list, role |-> m.role, direct |-> EditsDirectly(m.list, m.id), seen |-> {}]
ViewBase(c) ==
  [list |-> views[c].list, role |-> views[c].role, direct |-> views[c].direct, seen |-> shown[c]]
After(q, k) == SubSeq(q, k + 1, Len(q))
SinceJoined(l) == chat \ before[l]

\* The base is a joinedRoom in the channel.
JoinIsSent(c) ==
  LET l == link[c] IN
  \E k \in DOMAIN channel[l] :
    LET m == channel[l][k] IN
    /\ m.type = "joinedRoom" /\ m.id = l /\ m.role = m.list[l].role
    /\ Leads(JoinBase(m), After(channel[l], k), l, members, displaced, SinceJoined(l))

\* A handler of joinedRoom awaits, and will undo what the client has taken since.
JoinIsOvertaken(c) ==
  overtaken[c] /\ \A k \in DOMAIN channel[link[c]] : channel[link[c]][k].type # "joinedRoom"

\* The base is the joinedRoom whose handler awaits.
JoinIsHandled(c) ==
  LET l == link[c] IN
  /\ ~overtaken[c] /\ Len(joins[c]) = 1
  /\ LET join == joins[c][1] IN
     /\ join.id = l /\ join.role = join.list[l].role
     /\ Leads(JoinBase(join), channel[l], l, members, displaced, SinceJoined(l))
     /\ join.stage = "recording" =>
          views[c].inRoom /\ views[c].self = l /\ views[c].role = join.role
     /\ Creating(c) => join.id = 1 /\ join.role = "root"

\* ChatManager has the room, and shows what it keeps of it.
InChat(c) == chatRoom[c] /\ shown[c] = stored[c]

\* The base is what the client shows; the handler of roomCreated, when it awaits still,
\* sets what is there already.
IsSettled(c) ==
  LET l == link[c] IN
  /\ ~overtaken[c] /\ joins[c] = << >>
  /\ views[c].inRoom /\ views[c].self = l
  /\ Leads(ViewBase(c), channel[l], l, members, displaced, SinceJoined(l))
  /\ Creating(c) => l = 1 /\ views[c].role = "root" /\ InChat(c)

Follows(c) ==
  link[c] # NoId /\ Here(members, link[c]) =>
    JoinIsSent(c) \/ JoinIsOvertaken(c) \/ JoinIsHandled(c) \/ IsSettled(c)

\* No two clients share a connection, and ids are drawn in order.
LinksApart ==
  /\ \A c \in Clients : link[c] =< ids
  /\ \A c, d \in Clients : link[c] = link[d] /\ link[c] # NoId => c = d

\* A viewer's marks, in the room or in a session, let it edit nothing.
FitList(list) == \A i \in Ids : list[i].role = "viewer" => ~list[i].direct

ServerOK ==
  /\ members \in Lists /\ sessions \in Lists /\ FitList(members) /\ FitList(sessions)
  /\ sessionOf \in [Ids -> Ids \cup {NoId}]
  /\ displaced \subseteq Ids /\ chat \subseteq Chats /\ before \in [Ids -> SUBSET Chats]
LinksOK ==
  /\ ids \in Ids /\ open \subseteq Ids /\ link \in [Clients -> Ids \cup {NoId}]
  /\ LinksApart
ChannelsOK == channel \in [Ids -> Seq(Messages)]
\* Only collaborators show that they edit directly.
ViewsOK ==
  /\ views \in [Clients -> Views]
  /\ \A c \in Clients : views[c].direct => views[c].role = "collaborator"
JoinsOK ==
  /\ creating \in Creations
  /\ joins \in [Clients -> Seq(Joins)] /\ overtaken \in [Clients -> BOOLEAN]
ChatsOK ==
  /\ shown \in [Clients -> SUBSET Chats] /\ stored \in [Clients -> SUBSET Chats]
  /\ chatRoom \in [Clients -> BOOLEAN]
CountsOK == drops \in Nat /\ changes \in Nat /\ said \in Nat

StateOK ==
  ServerOK /\ LinksOK /\ ChannelsOK /\ ViewsOK /\ JoinsOK /\ ChatsOK /\ CountsOK

RosterInv == StateOK /\ \A c \in Clients : Follows(c)

-------------------------------------------------------------------------------
\* The views

\* A view whose mode fits its role (RoomState.ts).
IsFit(v) == v \in Views /\ (v.direct => v.role = "collaborator")

LEMMA IdsFacts == NoId \notin Ids /\ Ids \subseteq Nat /\ MaxIds \in Nat /\ 1 \in Ids
BY RosterConstants DEF Ids, NoId

LEMMA RolesFacts ==
  /\ Roles = {"root", "collaborator", "viewer"}
  /\ \A i, list : list \in Lists => (Here(list, i) => i # NoId /\ list[i] # Absent)
BY DEF Roles, Here

LEMMA ListFacts ==
  ASSUME NEW list \in Lists, NEW i \in Ids
  PROVE  /\ Here(list, i) => list[i] \in Marks /\ list[i].role \in Roles /\ list[i].direct \in BOOLEAN
         /\ ~Here(list, i) => list[i] = Absent
         /\ Here(list, i) <=> list[i].role # "none"
         /\ list[i].role \in Roles \cup {"none"}
         /\ list[i].direct \in BOOLEAN
<1>1. i # NoId /\ list[i] \in Marks \cup {Absent}
  BY IdsFacts DEF Lists
<1>2. \A m \in Marks : m # Absent /\ m.role # "none" /\ m.role \in Roles /\ m.direct \in BOOLEAN
  BY DEF Marks, Absent, Roles
<1>3. Absent.role = "none" /\ Absent.direct = FALSE
  BY DEF Absent
<1> QED BY <1>1, <1>2, <1>3 DEF Here

LEMMA ListSet ==
  ASSUME NEW list \in Lists, NEW i \in Ids, NEW marks \in Marks \cup {Absent}
  PROVE  /\ Marked(list, i, marks) \in Lists
         /\ Marked(list, i, marks)[i] = marks
         /\ \A j \in Ids : j # i => Marked(list, i, marks)[j] = list[j]
         /\ [list EXCEPT ![i] = marks] = Marked(list, i, marks)
BY DEF Lists, Marked

LEMMA ListRole ==
  ASSUME NEW list \in Lists, NEW i \in Ids, Here(list, i), NEW role \in Roles
  PROVE  /\ [role |-> role, direct |-> list[i].direct] \in Marks
         /\ [list EXCEPT ![i].role = role] = Marked(list, i, [role |-> role, direct |-> list[i].direct])
<1>1. list[i] \in Marks
  BY ListFacts
<1>2. [list[i] EXCEPT !.role = role] = [role |-> role, direct |-> list[i].direct]
  BY <1>1 DEF Marks
<1>3. [role |-> role, direct |-> list[i].direct] \in Marks
  BY <1>1 DEF Marks
<1>4. [list EXCEPT ![i].role = role] = [list EXCEPT ![i] = [list[i] EXCEPT !.role = role]]
  BY DEF Lists
<1> QED BY <1>2, <1>3, <1>4 DEF Marked

LEMMA ListDirect ==
  ASSUME NEW list \in Lists, NEW i \in Ids, Here(list, i), NEW direct \in BOOLEAN
  PROVE  /\ [role |-> list[i].role, direct |-> direct] \in Marks
         /\ [list[i] EXCEPT !.direct = direct] = [role |-> list[i].role, direct |-> direct]
         /\ [list EXCEPT ![i].direct = direct] = Marked(list, i, [role |-> list[i].role, direct |-> direct])
<1>1. list[i] \in Marks
  BY ListFacts
<1>2. [list[i] EXCEPT !.direct = direct] = [role |-> list[i].role, direct |-> direct]
  BY <1>1 DEF Marks
<1>3. [role |-> list[i].role, direct |-> direct] \in Marks
  BY <1>1 DEF Marks
<1>4. [list EXCEPT ![i].direct = direct] = [list EXCEPT ![i] = [list[i] EXCEPT !.direct = direct]]
  BY DEF Lists
<1> QED BY <1>2, <1>3, <1>4 DEF Marked

LEMMA SyncFit ==
  ASSUME NEW v \in Views
  PROVE  LET w == SyncCollaboratorMode(v) IN
         /\ w \in Views /\ (IsFit(v) => IsFit(w))
         /\ w.list = v.list /\ w.role = v.role /\ w.self = v.self /\ w.inRoom = v.inRoom
         /\ v.role = "collaborator" /\ v.self # NoId /\ Here(v.list, v.self)
              => w.direct = v.list[v.self].direct
         /\ ~(v.role = "collaborator" /\ v.self # NoId /\ Here(v.list, v.self))
              => w.direct = v.direct
<1>1. CASE v.role = "collaborator" /\ v.self # NoId /\ Here(v.list, v.self)
  <2>1. SyncCollaboratorMode(v) = [v EXCEPT !.direct = v.list[v.self].direct]
    BY <1>1 DEF SyncCollaboratorMode
  <2>2. v.list \in Lists /\ v.self \in Ids
    BY <1>1 DEF Views
  <2>3. v.list[v.self].direct \in BOOLEAN
    BY <2>2, ListFacts
  <2> QED BY <1>1, <2>1, <2>3 DEF Views, IsFit
<1>2. CASE ~(v.role = "collaborator" /\ v.self # NoId /\ Here(v.list, v.self))
  BY <1>2 DEF SyncCollaboratorMode
<1> QED BY <1>1, <1>2

LEMMA SetSelfFit ==
  ASSUME NEW v \in Views, NEW id \in Ids, NEW role \in Roles
  PROVE  LET w == SetSelfInfo(v, id, role) IN
         IsFit(w) /\ w.inRoom /\ w.self = id /\ w.role = role /\ w.list = v.list
<1> DEFINE u == [v EXCEPT !.inRoom = TRUE, !.self = id, !.role = role,
                          !.direct = v.direct /\ role = "collaborator"]
<1>1. SetSelfInfo(v, id, role) = SyncCollaboratorMode(u)
  BY DEF SetSelfInfo
<1>2. IsFit(u) /\ u \in Views /\ u.inRoom /\ u.self = id /\ u.role = role /\ u.list = v.list
  BY DEF Views, IsFit
<1> HIDE DEF u
<1> QED BY <1>1, <1>2, SyncFit

LEMMA SetListFit ==
  ASSUME NEW v, IsFit(v), NEW list \in Lists
  PROVE  LET w == SetParticipants(v, list) IN
         /\ IsFit(w) /\ w.inRoom = v.inRoom /\ w.self = v.self /\ w.role = v.role /\ w.list = list
         /\ v.self \in Ids /\ v.role = list[v.self].role => w.direct = EditsDirectly(list, v.self)
<1> DEFINE u == [v EXCEPT !.list = list]
<1>1. SetParticipants(v, list) = SyncCollaboratorMode(u)
  BY DEF SetParticipants
<1>2. /\ IsFit(u) /\ u \in Views /\ u.inRoom = v.inRoom /\ u.self = v.self /\ u.role = v.role
      /\ u.direct = v.direct /\ u.list = list
  BY DEF Views, IsFit
<1> HIDE DEF u
<1>3. IsFit(SyncCollaboratorMode(u))
  BY <1>2, SyncFit
<1>4. ASSUME v.self \in Ids, v.role = list[v.self].role
      PROVE  SyncCollaboratorMode(u).direct = EditsDirectly(list, v.self)
  <2>1. list[v.self].direct \in BOOLEAN /\ (Here(list, v.self) <=> list[v.self].role # "none")
    BY <1>4, ListFacts
  <2>2. CASE v.role = "collaborator"
    <3>1. SyncCollaboratorMode(u).direct = list[v.self].direct
      <4>1. u.role = "collaborator" /\ u.self # NoId /\ Here(u.list, u.self)
        BY <1>2, <1>4, <2>1, <2>2, IdsFacts
      <4> QED BY <1>2, <4>1, SyncFit
    <3>2. EditsDirectly(list, v.self) <=> list[v.self].direct
      BY <1>4, <2>1, <2>2 DEF EditsDirectly
    <3>3. EditsDirectly(list, v.self) \in BOOLEAN
      BY DEF EditsDirectly
    <3> QED BY <2>1, <3>1, <3>2, <3>3
  <2>3. CASE v.role # "collaborator"
    <3>1. v.direct = FALSE
      BY <2>3 DEF IsFit, Views
    <3>2. SyncCollaboratorMode(u).direct = FALSE
      BY <1>2, <2>3, <3>1, SyncFit
    <3>3. EditsDirectly(list, v.self) = FALSE
      BY <1>4, <2>3 DEF EditsDirectly
    <3> QED BY <3>2, <3>3
  <2> QED BY <2>2, <2>3
<1> QED BY <1>1, <1>2, <1>3, <1>4, SyncFit

LEMMA MessageFacts ==
  ASSUME NEW m \in Messages
  PROVE  /\ m.type \in {"joinedRoom", "participantJoined", "participantLeft", "roleUpdated",
                        "editModeUpdated", "chatMessage", "removed"}
         /\ m.type = "joinedRoom" =>
              m.id \in Ids /\ m.role \in Roles /\ m.session \in Ids /\ m.list \in Lists
         /\ m.type = "participantJoined" => m.id \in Ids /\ m.marks \in Marks
         /\ m.type = "participantLeft" => m.id \in Ids
         /\ m.type = "roleUpdated" => m.id \in Ids /\ m.role \in Roles
         /\ m.type = "editModeUpdated" => m.id \in Ids /\ m.direct \in BOOLEAN
         /\ m.type = "chatMessage" => m.n \in Chats
BY DEF Messages

LEMMA ListAfterTyped ==
  ASSUME NEW list \in Lists, NEW m \in Messages
  PROVE  ListAfter(list, m) \in Lists
<1>1. CASE m.type = "participantJoined"
  BY <1>1, MessageFacts, ListSet DEF ListAfter
<1>2. CASE m.type = "participantLeft"
  BY <1>2, MessageFacts, ListSet DEF ListAfter
<1>3. CASE m.type = "roleUpdated" /\ Here(list, m.id)
  BY <1>3, MessageFacts, ListRole, ListSet DEF ListAfter
<1>4. CASE m.type = "editModeUpdated" /\ Here(list, m.id)
  BY <1>4, MessageFacts, ListDirect, ListSet DEF ListAfter
<1> QED BY <1>1, <1>2, <1>3, <1>4 DEF ListAfter

LEMMA AppliedTyped ==
  ASSUME NEW h \in Listed, NEW m \in Messages, NEW l
  PROVE  Applied(h, m, l) \in Listed
<1>1. h.list \in Lists /\ h.role \in Roles \cup {"none"}
  BY DEF Listed
<1>2. ListAfter(h.list, m) \in Lists
  BY <1>1, ListAfterTyped
<1>3. m.type = "roleUpdated" => m.role \in Roles
  BY MessageFacts
<1> QED BY <1>1, <1>2, <1>3 DEF Applied, Listed

\* The view with another list, role and mode.
With(v, list, role, direct) == [v EXCEPT !.list = list, !.role = role, !.direct = direct]

LEMMA WithFit ==
  ASSUME NEW v \in Views, NEW list \in Lists, NEW role \in Roles \cup {"none"}, NEW direct \in BOOLEAN,
         direct => role = "collaborator"
  PROVE  LET w == With(v, list, role, direct) IN
         /\ IsFit(w) /\ w.list = list /\ w.role = role /\ w.direct = direct
         /\ w.self = v.self /\ w.inRoom = v.inRoom
BY DEF With, Views, IsFit

\* What a handler of a list message makes of a view: the list and the role as Applied
\* says, and the mode as the message sets it.
Takes1(v, m, w) ==
  /\ IsFit(w) /\ w.self = v.self /\ w.inRoom = v.inRoom
  /\ v.self \in Ids /\ IsTame(m, v.self) =>
       /\ w.list = ListAfter(v.list, m)
       /\ w.role = IF m.type = "roleUpdated" /\ m.id = v.self THEN m.role ELSE v.role
       /\ ~TurnsMode(m, v.self) => w.direct = v.direct
       /\ TurnsMode(m, v.self) /\ (m.type = "editModeUpdated" => v.role = "collaborator")
            => w.direct = ModeOf(m)

LEMMA AddTakes ==
  ASSUME NEW v, IsFit(v), NEW m \in Messages, m.type = "participantJoined"
  PROVE  Takes1(v, m, AddParticipant(v, m.id, m.marks))
<1> DEFINE list == Marked(v.list, m.id, m.marks)
           u == With(v, list, v.role, v.direct)
<1>1. m.id \in Ids /\ m.marks \in Marks
  BY MessageFacts
<1>2. v \in Views /\ v.list \in Lists /\ v.role \in Roles \cup {"none"} /\ v.direct \in BOOLEAN
      /\ (v.direct => v.role = "collaborator")
  BY DEF Views, IsFit
<1>3. list \in Lists
  BY <1>1, <1>2, ListSet
<1>4. [v EXCEPT !.list[m.id] = m.marks] = u
  BY <1>2 DEF With, Views, Marked
<1>5. /\ IsFit(u) /\ u.list = list /\ u.role = v.role /\ u.direct = v.direct
      /\ u.self = v.self /\ u.inRoom = v.inRoom
  BY <1>2, <1>3, WithFit
<1>6. ListAfter(v.list, m) = list
  BY DEF ListAfter
<1>7. AddParticipant(v, m.id, m.marks) = IF m.id = v.self THEN SyncCollaboratorMode(u) ELSE u
  BY <1>4 DEF AddParticipant
<1>8. ~TurnsMode(m, v.self) /\ (IsTame(m, v.self) => m.id # v.self)
  BY DEF TurnsMode, IsTame
<1> HIDE DEF list, u
<1>9. IsFit(SyncCollaboratorMode(u)) /\ SyncCollaboratorMode(u).self = u.self
      /\ SyncCollaboratorMode(u).inRoom = u.inRoom
  BY <1>5, SyncFit DEF IsFit
<1> QED BY <1>5, <1>6, <1>7, <1>8, <1>9 DEF Takes1

LEMMA LeftTakes ==
  ASSUME NEW v, IsFit(v), NEW m \in Messages, m.type = "participantLeft"
  PROVE  Takes1(v, m, RemovedParticipant(v, m.id))
<1> DEFINE list == Marked(v.list, m.id, Absent)
           direct == v.direct /\ m.id # v.self
           u == With(v, list, v.role, direct)
<1>1. m.id \in Ids
  BY MessageFacts
<1>2. v \in Views /\ v.list \in Lists /\ v.role \in Roles \cup {"none"} /\ v.direct \in BOOLEAN
      /\ (v.direct => v.role = "collaborator")
  BY DEF Views, IsFit
<1>3. list \in Lists
  BY <1>1, <1>2, ListSet
<1>4. RemovedParticipant(v, m.id) = u
  BY <1>2 DEF With, Views, RemovedParticipant, Marked
<1>5. direct \in BOOLEAN /\ (direct => v.role = "collaborator") /\ (m.id # v.self => direct = v.direct)
  BY <1>2
<1> HIDE DEF direct
<1>6. /\ IsFit(u) /\ u.list = list /\ u.role = v.role /\ u.direct = direct
      /\ u.self = v.self /\ u.inRoom = v.inRoom
  BY <1>2, <1>3, <1>5, WithFit
<1>7. ListAfter(v.list, m) = list
  BY DEF ListAfter
<1>8. ~TurnsMode(m, v.self) /\ (IsTame(m, v.self) => m.id # v.self)
  BY DEF TurnsMode, IsTame
<1> HIDE DEF list, u
<1> QED BY <1>4, <1>5, <1>6, <1>7, <1>8 DEF Takes1

LEMMA RoleTakes ==
  ASSUME NEW v, IsFit(v), NEW m \in Messages, m.type = "roleUpdated"
  PROVE  Takes1(v, m, UpdateParticipantRole(v, m.id, m.role))
<1> DEFINE list == IF Here(v.list, m.id)
                     THEN Marked(v.list, m.id, [role |-> m.role, direct |-> v.list[m.id].direct])
                   ELSE v.list
           role == IF m.id = v.self THEN m.role ELSE v.role
           direct == v.direct /\ (m.id = v.self => m.role = "collaborator")
           u == With(v, list, role, direct)
<1>1. m.id \in Ids /\ m.role \in Roles
  BY MessageFacts
<1>2. v \in Views /\ v.list \in Lists /\ v.role \in Roles \cup {"none"} /\ v.direct \in BOOLEAN
      /\ (v.direct => v.role = "collaborator")
  BY DEF Views, IsFit
<1>3. /\ list \in Lists
      /\ Here(v.list, m.id) => [v.list EXCEPT ![m.id].role = m.role] = list
  BY <1>1, <1>2, ListRole, ListSet
<1>4. UpdateParticipantRole(v, m.id, m.role) = u
  <2>1. [v EXCEPT !.list[m.id].role = m.role] = [v EXCEPT !.list = [v.list EXCEPT ![m.id].role = m.role]]
    BY <1>2 DEF Views
  <2>2. CASE Here(v.list, m.id)
    <3> HIDE DEF list
    <3>1. [v EXCEPT !.list[m.id].role = m.role] = [v EXCEPT !.list = list]
      BY <1>3, <2>1, <2>2
    <3> QED BY <1>2, <2>2, <3>1 DEF With, Views, UpdateParticipantRole
  <2>3. CASE ~Here(v.list, m.id)
    BY <1>2, <2>3 DEF With, Views, UpdateParticipantRole
  <2> QED BY <2>2, <2>3
<1>5. /\ role \in Roles \cup {"none"} /\ direct \in BOOLEAN /\ (direct => role = "collaborator")
  BY <1>1, <1>2
<1>6. ~TurnsMode(m, v.self) => direct = v.direct
  BY <1>2 DEF TurnsMode
<1>7. TurnsMode(m, v.self) => direct = FALSE /\ ModeOf(m) = FALSE
  BY DEF TurnsMode, ModeOf
<1>8. ListAfter(v.list, m) = list
  BY DEF ListAfter
<1> HIDE DEF direct, list
<1>9. /\ IsFit(u) /\ u.list = list /\ u.role = role /\ u.direct = direct
      /\ u.self = v.self /\ u.inRoom = v.inRoom
  BY <1>2, <1>3, <1>5, WithFit
<1> HIDE DEF u
<1> QED BY <1>4, <1>6, <1>7, <1>8, <1>9 DEF Takes1

LEMMA ModeTakes ==
  ASSUME NEW v, IsFit(v), NEW m \in Messages, m.type = "editModeUpdated"
  PROVE  Takes1(v, m, UpdateParticipantMode(v, m.id, m.direct))
<1> DEFINE list == IF Here(v.list, m.id)
                     THEN Marked(v.list, m.id, [role |-> v.list[m.id].role, direct |-> m.direct])
                   ELSE v.list
           direct == IF m.id = v.self /\ v.role = "collaborator" THEN m.direct ELSE v.direct
           u == With(v, list, v.role, direct)
<1>1. m.id \in Ids /\ m.direct \in BOOLEAN
  BY MessageFacts
<1>2. v \in Views /\ v.list \in Lists /\ v.role \in Roles \cup {"none"} /\ v.direct \in BOOLEAN
      /\ (v.direct => v.role = "collaborator")
  BY DEF Views, IsFit
<1>3. /\ list \in Lists
      /\ Here(v.list, m.id) => [v.list EXCEPT ![m.id].direct = m.direct] = list
  BY <1>1, <1>2, ListDirect, ListSet
<1>4. UpdateParticipantMode(v, m.id, m.direct) = u
  <2>1. [v EXCEPT !.list[m.id].direct = m.direct]
          = [v EXCEPT !.list = [v.list EXCEPT ![m.id].direct = m.direct]]
    BY <1>2 DEF Views
  <2>2. CASE Here(v.list, m.id)
    <3> HIDE DEF list
    <3>1. [v EXCEPT !.list[m.id].direct = m.direct] = [v EXCEPT !.list = list]
      BY <1>3, <2>1, <2>2
    <3> QED BY <1>2, <2>2, <3>1 DEF With, Views, UpdateParticipantMode
  <2>3. CASE ~Here(v.list, m.id)
    BY <1>2, <2>3 DEF With, Views, UpdateParticipantMode
  <2> QED BY <2>2, <2>3
<1>5. /\ direct \in BOOLEAN /\ (direct => v.role = "collaborator")
  BY <1>1, <1>2
<1>6. ~TurnsMode(m, v.self) => direct = v.direct
  BY DEF TurnsMode
<1>7. m.id = v.self /\ v.role = "collaborator" => direct = m.direct /\ ModeOf(m) = m.direct
  BY <1>1 DEF ModeOf
<1>8. ListAfter(v.list, m) = list
  BY DEF ListAfter
<1>9. TurnsMode(m, v.self) => m.id = v.self
  BY DEF TurnsMode
<1> HIDE DEF direct, list
<1>10. /\ IsFit(u) /\ u.list = list /\ u.role = v.role /\ u.direct = direct
       /\ u.self = v.self /\ u.inRoom = v.inRoom
  BY <1>2, <1>3, <1>5, WithFit
<1> HIDE DEF u
<1> QED BY <1>4, <1>6, <1>7, <1>8, <1>9, <1>10 DEF Takes1

-------------------------------------------------------------------------------
\* Channels

LEMMA AppendFacts ==
  ASSUME NEW S, NEW q \in Seq(S), NEW m \in S
  PROVE  /\ Append(q, m) \in Seq(S) /\ Len(q) \in Nat
         /\ Len(Append(q, m)) = Len(q) + 1
         /\ DOMAIN q = 1 .. Len(q) /\ DOMAIN Append(q, m) = 1 .. Len(q) + 1
         /\ \A i \in 1 .. Len(q) : Append(q, m)[i] = q[i]
         /\ Append(q, m)[Len(q) + 1] = m
OBVIOUS

LEMMA TailFacts ==
  ASSUME NEW S, NEW q \in Seq(S), q # << >>
  PROVE  /\ Head(q) \in S /\ Head(q) = q[1] /\ Len(q) \in Nat /\ 1 =< Len(q)
         /\ DOMAIN q = 1 .. Len(q)
         /\ Tail(q) \in Seq(S) /\ Len(Tail(q)) = Len(q) - 1 /\ DOMAIN Tail(q) = 1 .. Len(q) - 1
         /\ \A i \in 1 .. Len(q) - 1 : Tail(q)[i] = q[i + 1]
OBVIOUS

LEMMA ModeAppends ==
  ASSUME NEW ms \in Seq(Messages), NEW m \in Messages, NEW l, NEW direct, NEW f, NEW g,
         ModeWillBe(ms, l, direct, f),
         TurnsMode(m, l) => ModeOf(m) = g,
         ~TurnsMode(m, l) => g = f
  PROVE  ModeWillBe(Append(ms, m), l, direct, g)
<1> DEFINE q == Append(ms, m)
           n == Len(ms)
<1>1. /\ n \in Nat /\ DOMAIN ms = 1 .. n /\ DOMAIN q = 1 .. n + 1 /\ q[n + 1] = m
      /\ \A i \in 1 .. n : q[i] = ms[i]
  BY AppendFacts
<1> HIDE DEF q, n
<1>2. CASE TurnsMode(m, l)
  <2>1. n + 1 \in DOMAIN q /\ Unturned(q, l, n + 1)
    BY <1>1 DEF Unturned
  <2> QED BY <1>1, <1>2, <2>1 DEF ModeWillBe, q
<1>3. CASE ~TurnsMode(m, l) /\ Unturned(ms, l, 0) /\ direct = f
  <2>1. \A i \in 1 .. n : ~TurnsMode(ms[i], l)
    <3>1. \A i \in 1 .. n : i > 0
      BY <1>1
    <3> QED BY <1>1, <1>3, <3>1 DEF Unturned
  <2>2. Unturned(q, l, 0)
    BY <1>1, <1>3, <2>1 DEF Unturned
  <2> QED BY <1>3, <2>2 DEF ModeWillBe, q
<1>4. ASSUME ~TurnsMode(m, l), NEW k \in DOMAIN ms, TurnsMode(ms[k], l), ModeOf(ms[k]) = f,
             Unturned(ms, l, k)
      PROVE  ModeWillBe(q, l, direct, g)
  <2>1. k \in DOMAIN q /\ q[k] = ms[k] /\ Unturned(q, l, k)
    BY <1>1, <1>4 DEF Unturned
  <2> QED BY <1>4, <2>1 DEF ModeWillBe
<1> QED BY <1>2, <1>3, <1>4 DEF ModeWillBe, q

LEMMA ModeShifts ==
  ASSUME NEW ms \in Seq(Messages), ms # << >>, NEW l, NEW direct, NEW next, NEW f,
         ModeWillBe(ms, l, direct, f),
         TurnsMode(Head(ms), l) => next = ModeOf(Head(ms)),
         ~TurnsMode(Head(ms), l) => next = direct
  PROVE  ModeWillBe(Tail(ms), l, next, f)
<1> DEFINE t == Tail(ms)
           n == Len(ms)
<1>1. /\ n \in Nat /\ DOMAIN ms = 1 .. n /\ Head(ms) = ms[1] /\ 1 \in 1 .. n
      /\ DOMAIN t = 1 .. n - 1 /\ \A i \in 1 .. n - 1 : t[i] = ms[i + 1]
  BY TailFacts
<1> HIDE DEF t, n
<1>2. CASE Unturned(ms, l, 0) /\ direct = f
  <2>1. ~TurnsMode(ms[1], l)
    BY <1>1, <1>2 DEF Unturned
  <2>2. ASSUME NEW i \in DOMAIN t, i > 0 PROVE ~TurnsMode(t[i], l)
    <3>1. i + 1 \in DOMAIN ms /\ i + 1 > 0 /\ t[i] = ms[i + 1]
      BY <1>1, <2>2
    <3> QED BY <1>2, <3>1 DEF Unturned
  <2> QED BY <1>1, <1>2, <2>1, <2>2 DEF ModeWillBe, Unturned, t
<1>3. ASSUME NEW k \in DOMAIN ms, TurnsMode(ms[k], l), ModeOf(ms[k]) = f, Unturned(ms, l, k)
      PROVE  ModeWillBe(t, l, next, f)
  <2>1. ASSUME NEW j \in Nat, k = j + 1 PROVE Unturned(t, l, j)
    <3> SUFFICES ASSUME NEW i \in DOMAIN t, i > j PROVE ~TurnsMode(t[i], l)
      BY DEF Unturned
    <3>1. i + 1 \in DOMAIN ms /\ i + 1 > k /\ t[i] = ms[i + 1]
      BY <1>1, <2>1
    <3> QED BY <1>3, <3>1 DEF Unturned
  <2>2. CASE k = 1
    <3>1. next = f
      BY <1>1, <1>3, <2>2
    <3>2. Unturned(t, l, 0)
      BY <2>1, <2>2
    <3> QED BY <3>1, <3>2 DEF ModeWillBe
  <2>3. CASE k # 1
    <3>1. k - 1 \in DOMAIN t /\ t[k - 1] = ms[k] /\ k - 1 \in Nat /\ k = (k - 1) + 1
      BY <1>1, <1>3, <2>3
    <3>2. Unturned(t, l, k - 1)
      BY <2>1, <3>1
    <3> QED BY <1>3, <3>1, <3>2 DEF ModeWillBe
  <2> QED BY <2>2, <2>3
<1> QED BY <1>2, <1>3 DEF ModeWillBe, t

-------------------------------------------------------------------------------
\* What leads to the server's state

IsBase(base) ==
  base.list \in Lists /\ base.role \in Roles \cup {"none"} /\ base.direct \in BOOLEAN

\* Message m carries over from what the server had to what it has now.
Carries(m, l, list, gone, heard, list2, gone2, heard2) ==
  /\ IsTame(m, l)
  /\ \A h \in Listed : Agrees(h, l, list, gone) => Agrees(Applied(h, m, l), l, list2, gone2)
  /\ m.type = "editModeUpdated" /\ m.id = l => list[l].role = "collaborator"
  /\ TurnsMode(m, l) => ModeOf(m) = EditsDirectly(list2, l)
  /\ ~TurnsMode(m, l) => EditsDirectly(list2, l) = EditsDirectly(list, l)
  /\ ~TurnsMode(m, l) /\ list[l].role = "collaborator" => list2[l].role = "collaborator"
  /\ heard2 \subseteq heard \cup {n \in Chats : m.type = "chatMessage" /\ m.n = n}

LEMMA LeadsNow ==
  ASSUME NEW base, IsBase(base), NEW l, NEW list, NEW gone, NEW heard,
         Agrees([list |-> base.list, role |-> base.role], l, list, gone),
         base.direct = EditsDirectly(list, l), heard \subseteq base.seen
  PROVE  Leads(base, << >>, l, list, gone, heard)
<1> DEFINE h == [list |-> base.list, role |-> base.role]
           H == [i \in 0 .. 0 |-> h]
<1>1. h \in Listed /\ h.role = base.role
  BY DEF IsBase, Listed
<1>2. h.role = list[l].role
  BY DEF Agrees
<1> HIDE DEF h
<1>3. Len(<< >>) = 0 /\ DOMAIN << >> = {} /\ H[0] = h /\ 0 .. 0 = {0}
  OBVIOUS
<1>4. IsPath(H, base, << >>, l)
  BY <1>1, <1>3 DEF IsPath, h
<1>5. KeepsRole(H, << >>, l, list)
  BY <1>2, <1>3 DEF KeepsRole
<1>6. ModeWillBe(<< >>, l, base.direct, EditsDirectly(list, l))
  BY <1>3 DEF ModeWillBe, Unturned
<1> QED BY <1>3, <1>4, <1>5, <1>6 DEF Leads, h

LEMMA LeadsEnds ==
  ASSUME NEW base, NEW l, NEW list, NEW gone, NEW heard, Leads(base, << >>, l, list, gone, heard)
  PROVE  /\ Agrees([list |-> base.list, role |-> base.role], l, list, gone)
         /\ base.direct = EditsDirectly(list, l) /\ heard \subseteq base.seen
<1>1. Len(<< >>) = 0 /\ DOMAIN << >> = {}
  OBVIOUS
<1>2. ChatIn(<< >>) = {}
  BY <1>1 DEF ChatIn
<1> QED BY <1>1, <1>2 DEF Leads, IsPath, ModeWillBe

LEMMA LeadsOn ==
  ASSUME NEW base, NEW ms \in Seq(Messages), NEW l, NEW list, NEW gone, NEW heard,
         NEW list2, NEW gone2, NEW heard2, NEW m,
         Leads(base, ms, l, list, gone, heard),
         Carries(m, l, list, gone, heard, list2, gone2, heard2)
  PROVE  Leads(base, Append(ms, m), l, list2, gone2, heard2)
<1> DEFINE q == Append(ms, m)
           n == Len(ms)
<1>0. m \in Messages /\ IsTame(m, l)
  BY DEF Carries, IsTame
<1>1. /\ n \in Nat /\ DOMAIN ms = 1 .. n /\ DOMAIN q = 1 .. n + 1 /\ q[n + 1] = m /\ Len(q) = n + 1
      /\ \A i \in 1 .. n : q[i] = ms[i]
  BY <1>0, AppendFacts
<1>2. PICK H : IsPath(H, base, ms, l) /\ KeepsRole(H, ms, l, list) /\ Agrees(H[n], l, list, gone)
  BY DEF Leads
<1> HIDE DEF q, n
<1>3. H \in [0 .. n -> Listed] /\ H[n] \in Listed
  BY <1>1, <1>2 DEF IsPath, n
<1> DEFINE last == Applied(H[n], m, l)
           G == [i \in 0 .. n + 1 |-> IF i = n + 1 THEN last ELSE H[i]]
<1>4. last \in Listed
  BY <1>0, <1>3, AppliedTyped
<1>5. /\ G[n + 1] = last /\ \A i \in 0 .. n : G[i] = H[i] /\ i \in 0 .. n + 1
      /\ G \in [0 .. n + 1 -> Listed]
  BY <1>1, <1>3, <1>4
<1>6. Agrees(H[n], l, list, gone) /\ Agrees(last, l, list2, gone2)
  BY <1>2, <1>3 DEF Carries
<1>7. H[n].role = list[l].role /\ last.role = list2[l].role
  BY <1>6 DEF Agrees
<1> HIDE DEF last, G
<1>8. IsPath(G, base, q, l)
  <2>1. G[0] = [list |-> base.list, role |-> base.role]
    BY <1>1, <1>2, <1>5 DEF IsPath
  <2>2. ASSUME NEW i \in 1 .. n
        PROVE  /\ G[i] = Applied(G[i - 1], q[i], l)
               /\ q[i].type = "editModeUpdated" /\ q[i].id = l => G[i - 1].role = "collaborator"
    <3>1. i \in 0 .. n /\ i - 1 \in 0 .. n
      BY <1>1
    <3> QED BY <1>1, <1>2, <1>5, <3>1 DEF IsPath
  <2>3. /\ G[n + 1] = Applied(G[n], q[n + 1], l)
        /\ q[n + 1].type = "editModeUpdated" /\ q[n + 1].id = l => G[n].role = "collaborator"
    <3>1. n \in 0 .. n
      BY <1>1
    <3> QED BY <1>1, <1>5, <1>7, <3>1 DEF Carries, last
  <2>4. ASSUME NEW i \in DOMAIN q
        PROVE  /\ G[i] = Applied(G[i - 1], q[i], l)
               /\ q[i].type = "editModeUpdated" /\ q[i].id = l => G[i - 1].role = "collaborator"
    <3>1. i \in 1 .. n \/ (i = n + 1 /\ i - 1 = n)
      BY <1>1
    <3> QED BY <2>2, <2>3, <3>1
  <2> QED BY <1>1, <1>5, <2>1, <2>4 DEF IsPath
<1>9. KeepsRole(G, q, l, list2)
  <2> SUFFICES ASSUME NEW j \in 0 .. n + 1, G[j].role = "collaborator", Unturned(q, l, j)
               PROVE  list2[l].role = "collaborator"
    BY <1>1 DEF KeepsRole
  <2>1. CASE j = n + 1
    BY <1>5, <1>7, <2>1
  <2>2. CASE j # n + 1
    <3>1. j \in 0 .. n /\ n + 1 > j /\ n + 1 \in DOMAIN q
      BY <1>1, <2>2
    <3>2. ~TurnsMode(m, l) /\ Unturned(ms, l, j)
      BY <1>1, <3>1 DEF Unturned
    <3>3. list[l].role = "collaborator"
      BY <1>2, <1>5, <3>1, <3>2 DEF KeepsRole, n
    <3> QED BY <3>2, <3>3 DEF Carries
  <2> QED BY <2>1, <2>2
<1>10. ModeWillBe(q, l, base.direct, EditsDirectly(list2, l))
  BY <1>0, ModeAppends DEF Leads, Carries, q
<1>11. \A i \in DOMAIN q : IsTame(q[i], l)
  BY <1>0, <1>1 DEF Leads
<1>12. heard2 \subseteq base.seen \cup ChatIn(q)
  <2>1. ChatIn(ms) \subseteq ChatIn(q)
    BY <1>1 DEF ChatIn
  <2>2. {x \in Chats : m.type = "chatMessage" /\ m.n = x} \subseteq ChatIn(q)
    <3>1. n + 1 \in DOMAIN q
      BY <1>1
    <3> QED BY <1>1, <3>1 DEF ChatIn
  <2> QED BY <2>1, <2>2 DEF Leads, Carries
<1> QED BY <1>1, <1>5, <1>6, <1>8, <1>9, <1>10, <1>11, <1>12 DEF Leads, q

LEMMA LeadsHead ==
  ASSUME NEW base, NEW ms \in Seq(Messages), ms # << >>, NEW l, NEW list, NEW gone, NEW heard,
         Leads(base, ms, l, list, gone, heard)
  PROVE  /\ IsTame(Head(ms), l)
         /\ Head(ms).type = "editModeUpdated" /\ Head(ms).id = l => base.role = "collaborator"
<1>1. Head(ms) = ms[1] /\ 1 \in DOMAIN ms /\ 1 - 1 = 0
  BY TailFacts
<1>2. IsTame(Head(ms), l)
  BY <1>1 DEF Leads
<1>3. PICK H : IsPath(H, base, ms, l)
  BY DEF Leads
<1>4. ms[1].type = "editModeUpdated" /\ ms[1].id = l => H[0].role = "collaborator"
  BY <1>1, <1>3 DEF IsPath
<1>5. H[0].role = base.role
  BY <1>3 DEF IsPath
<1> QED BY <1>1, <1>2, <1>4, <1>5

\* A message that the client takes moves the base.
LEMMA LeadsAfter ==
  ASSUME NEW base, NEW ms \in Seq(Messages), ms # << >>, NEW l, NEW list, NEW gone, NEW heard,
         Leads(base, ms, l, list, gone, heard),
         NEW next, next.list = ListAfter(base.list, Head(ms)),
         next.role = IF Head(ms).type = "roleUpdated" /\ Head(ms).id = l THEN Head(ms).role ELSE base.role,
         TurnsMode(Head(ms), l) => next.direct = ModeOf(Head(ms)),
         ~TurnsMode(Head(ms), l) => next.direct = base.direct,
         base.seen \cup {n \in Chats : Head(ms).type = "chatMessage" /\ Head(ms).n = n} \subseteq next.seen
  PROVE  Leads(next, Tail(ms), l, list, gone, heard)
<1> DEFINE t == Tail(ms)
           m == Head(ms)
           n == Len(ms)
<1>1. /\ n \in Nat /\ 1 =< n /\ DOMAIN ms = 1 .. n /\ m = ms[1] /\ 1 \in 1 .. n
      /\ DOMAIN t = 1 .. n - 1 /\ Len(t) = n - 1 /\ \A i \in 1 .. n - 1 : t[i] = ms[i + 1]
  BY TailFacts
<1>2. PICK H : IsPath(H, base, ms, l) /\ KeepsRole(H, ms, l, list) /\ Agrees(H[n], l, list, gone)
  BY DEF Leads
<1> HIDE DEF t, n
<1>3. /\ H \in [0 .. n -> Listed] /\ H[0] = [list |-> base.list, role |-> base.role]
      /\ H[1] = Applied(H[1 - 1], ms[1], l) /\ 1 - 1 = 0
  BY <1>1, <1>2 DEF IsPath, n
<1>4. H[1] = [list |-> next.list, role |-> next.role]
  BY <1>1, <1>3 DEF Applied
<1> DEFINE G == [i \in 0 .. n - 1 |-> H[i + 1]]
<1>5. /\ G \in [0 .. n - 1 -> Listed]
      /\ \A i \in 0 .. n - 1 : G[i] = H[i + 1]
      /\ G[0] = H[1] /\ G[n - 1] = H[n]
  BY <1>1, <1>3
<1> HIDE DEF G
<1>6. ASSUME NEW i \in 1 .. n - 1
      PROVE  /\ G[i] = Applied(G[i - 1], t[i], l)
             /\ t[i].type = "editModeUpdated" /\ t[i].id = l => G[i - 1].role = "collaborator"
  <2>1. /\ i + 1 \in DOMAIN ms /\ i \in 0 .. n - 1 /\ i - 1 \in 0 .. n - 1
        /\ (i + 1) - 1 = i /\ (i - 1) + 1 = i /\ t[i] = ms[i + 1]
    BY <1>1
  <2>2. /\ H[i + 1] = Applied(H[(i + 1) - 1], ms[i + 1], l)
        /\ ms[i + 1].type = "editModeUpdated" /\ ms[i + 1].id = l => H[(i + 1) - 1].role = "collaborator"
    BY <1>2, <2>1 DEF IsPath
  <2>3. G[i] = H[i + 1] /\ G[i - 1] = H[i]
    BY <1>5, <2>1
  <2> QED BY <2>1, <2>2, <2>3
<1>7. IsPath(G, next, t, l)
  BY <1>1, <1>4, <1>5, <1>6 DEF IsPath
<1>8. KeepsRole(G, t, l, list)
  <2> SUFFICES ASSUME NEW j \in 0 .. n - 1, G[j].role = "collaborator", Unturned(t, l, j)
               PROVE  list[l].role = "collaborator"
    BY <1>1 DEF KeepsRole
  <2>1. j + 1 \in 0 .. n /\ H[j + 1].role = "collaborator"
    BY <1>1, <1>5
  <2>2. Unturned(ms, l, j + 1)
    <3> SUFFICES ASSUME NEW i \in DOMAIN ms, i > j + 1 PROVE ~TurnsMode(ms[i], l)
      BY DEF Unturned
    <3>1. i - 1 \in DOMAIN t /\ i - 1 > j /\ t[i - 1] = ms[(i - 1) + 1] /\ (i - 1) + 1 = i
      BY <1>1
    <3> QED BY <3>1 DEF Unturned
  <2> QED BY <1>2, <2>1, <2>2 DEF KeepsRole, n
<1>9. ModeWillBe(t, l, next.direct, EditsDirectly(list, l))
  BY ModeShifts DEF Leads, t
<1>10. \A i \in DOMAIN t : IsTame(t[i], l)
  <2> SUFFICES ASSUME NEW i \in DOMAIN t PROVE IsTame(t[i], l)
    OBVIOUS
  <2>1. i + 1 \in DOMAIN ms /\ t[i] = ms[i + 1]
    BY <1>1
  <2> QED BY <2>1 DEF Leads
<1>11. heard \subseteq next.seen \cup ChatIn(t)
  <2>1. ASSUME NEW x \in ChatIn(ms)
        PROVE  x \in next.seen \cup ChatIn(t)
    <3>1. PICK i \in DOMAIN ms : x \in Chats /\ ms[i].type = "chatMessage" /\ ms[i].n = x
      BY <2>1 DEF ChatIn
    <3>2. CASE i = 1
      BY <1>1, <3>1, <3>2
    <3>3. CASE i # 1
      <4>1. i - 1 \in DOMAIN t /\ t[i - 1] = ms[(i - 1) + 1] /\ (i - 1) + 1 = i
        BY <1>1, <3>3
      <4> QED BY <3>1, <4>1 DEF ChatIn
    <3> QED BY <3>2, <3>3
  <2> QED BY <2>1 DEF Leads
<1> QED BY <1>1, <1>2, <1>5, <1>7, <1>8, <1>9, <1>10, <1>11 DEF Leads, t

\* The base may show more chat.
LEMMA LeadsSeen ==
  ASSUME NEW base, NEW ms, NEW l, NEW list, NEW gone, NEW heard,
         Leads(base, ms, l, list, gone, heard),
         NEW next, next.list = base.list, next.role = base.role, next.direct = base.direct,
         base.seen \subseteq next.seen
  PROVE  Leads(next, ms, l, list, gone, heard)
BY DEF Leads, IsPath

\* It may show any mode that a message is about to set.
LEMMA LeadsTurned ==
  ASSUME NEW base, NEW ms, NEW l, NEW list, NEW gone, NEW heard,
         Leads(base, ms, l, list, gone, heard), ~Unturned(ms, l, 0),
         NEW next, next.list = base.list, next.role = base.role, next.seen = base.seen
  PROVE  Leads(next, ms, l, list, gone, heard)
BY DEF Leads, IsPath, ModeWillBe

\* A client that takes itself for a collaborator, and is none, is about to be told.
LEMMA LeadsTells ==
  ASSUME NEW base, NEW ms \in Seq(Messages), NEW l, NEW list, NEW gone, NEW heard,
         Leads(base, ms, l, list, gone, heard),
         base.role = "collaborator", list[l].role # "collaborator"
  PROVE  ~Unturned(ms, l, 0)
<1>1. PICK H : IsPath(H, base, ms, l) /\ KeepsRole(H, ms, l, list)
  BY DEF Leads
<1>2. H[0].role = base.role /\ 0 \in 0 .. Len(ms)
  BY <1>1 DEF IsPath
<1> QED BY <1>1, <1>2 DEF KeepsRole

LEMMA AfterIs ==
  ASSUME NEW q \in Seq(Messages), NEW k \in Nat, k =< Len(q)
  PROVE  /\ After(q, k) \in Seq(Messages) /\ Len(After(q, k)) = Len(q) - k
         /\ Len(q) - k \in Nat
         /\ \A i \in 1 .. Len(q) - k : After(q, k)[i] = q[k + i]
         /\ After(q, k) = [i \in 1 .. Len(q) - k |-> q[k + i]]
<1>1. Len(q) \in Nat /\ Len(q) - k \in Nat
  OBVIOUS
<1>2. /\ After(q, k) \in Seq(Messages) /\ Len(After(q, k)) = Len(q) - k
      /\ \A i \in 1 .. Len(q) - k : After(q, k)[i] = q[k + i]
  BY <1>1 DEF After
<1>3. After(q, k) = [i \in 1 .. Len(After(q, k)) |-> After(q, k)[i]]
  BY <1>2
<1> QED BY <1>1, <1>2, <1>3

\* The segment of a channel after one of its messages.
LEMMA AfterFacts ==
  ASSUME NEW q \in Seq(Messages), NEW m \in Messages
  PROVE  /\ \A k \in DOMAIN q : /\ After(q, k) \in Seq(Messages)
                                /\ After(Append(q, m), k) = Append(After(q, k), m)
                                /\ k \in DOMAIN Append(q, m) /\ Append(q, m)[k] = q[k]
         /\ After(Append(q, m), Len(q) + 1) = << >>
         /\ Len(q) + 1 \in DOMAIN Append(q, m) /\ Append(q, m)[Len(q) + 1] = m
<1>1. /\ Append(q, m) \in Seq(Messages) /\ Len(q) \in Nat
      /\ Len(Append(q, m)) = Len(q) + 1
      /\ DOMAIN q = 1 .. Len(q) /\ DOMAIN Append(q, m) = 1 .. Len(q) + 1
      /\ \A i \in 1 .. Len(q) : Append(q, m)[i] = q[i]
      /\ Append(q, m)[Len(q) + 1] = m
  BY AppendFacts
<1> DEFINE r == Append(q, m)
           n == Len(q)
<1> HIDE DEF r, n
<1>2. ASSUME NEW k \in DOMAIN q
      PROVE  After(q, k) \in Seq(Messages) /\ After(r, k) = Append(After(q, k), m)
  <2>1. k \in Nat /\ k =< n /\ k =< n + 1 /\ n \in Nat /\ r \in Seq(Messages) /\ Len(r) = n + 1
    BY <1>1 DEF r, n
  <2>2. /\ After(q, k) \in Seq(Messages) /\ Len(After(q, k)) = n - k
        /\ \A i \in 1 .. n - k : After(q, k)[i] = q[k + i]
    BY <2>1, AfterIs DEF n
  <2>3. After(r, k) = [i \in 1 .. n + 1 - k |-> r[k + i]]
    <3>1. k =< Len(r) /\ Len(r) = n + 1
      BY <2>1
    <3>2. After(r, k) = [i \in 1 .. Len(r) - k |-> r[k + i]]
      BY <2>1, <3>1, AfterIs
    <3>3. Len(r) - k = n + 1 - k
      BY <2>1, <3>1
    <3> QED BY ONLY <3>2, <3>3, Zenon
  <2> DEFINE a == Append(After(q, k), m)
  <2>4. /\ a \in Seq(Messages) /\ Len(a) = n - k + 1
        /\ \A i \in 1 .. n - k : a[i] = q[k + i]
        /\ a[n - k + 1] = m
    <3> DEFINE b == After(q, k)
    <3>1. b \in Seq(Messages) /\ Len(b) = n - k /\ \A i \in 1 .. n - k : b[i] = q[k + i]
      BY <2>2
    <3> HIDE DEF b
    <3>2. /\ Append(b, m) \in Seq(Messages)
          /\ Len(Append(b, m)) = Len(b) + 1
          /\ \A i \in 1 .. Len(b) : Append(b, m)[i] = b[i]
          /\ Append(b, m)[Len(b) + 1] = m
      BY <3>1, AppendFacts
    <3>3. a = Append(b, m)
      BY DEF b
    <3> HIDE DEF a
    <3> QED
      BY <3>1, <3>2, <3>3
  <2> HIDE DEF a
  <2>5. n + 1 - k = n - k + 1 /\ a = [i \in 1 .. n + 1 - k |-> a[i]]
    <3>1. n + 1 - k = n - k + 1 /\ a = [i \in 1 .. Len(a) |-> a[i]]
      BY <2>1, <2>4
    <3> QED BY <2>4, <3>1
  <2>6. \A i \in 1 .. n + 1 - k : r[k + i] = a[i]
    <3> SUFFICES ASSUME NEW i \in 1 .. n + 1 - k PROVE r[k + i] = a[i]
      OBVIOUS
    <3>1. CASE i = n + 1 - k
      <4>1. k + i = n + 1 /\ n - k + 1 = i
        BY <2>1, <3>1
      <4> QED BY <1>1, <2>4, <4>1 DEF r, n
    <3>2. CASE i # n + 1 - k
      <4>1. i \in 1 .. n - k /\ k + i \in 1 .. n
        BY <2>1, <3>2
      <4> QED BY <1>1, <2>4, <4>1 DEF r, n
    <3> QED BY <3>1, <3>2
  <2>7. After(r, k) = a
    BY <2>3, <2>5, <2>6
  <2> QED BY <2>2, <2>7 DEF a
<1>3. After(r, n + 1) = << >>
  BY <1>1 DEF After, r, n
<1>4. n + 1 \in 1 .. n + 1 /\ \A k \in 1 .. n : k \in 1 .. n + 1
  BY <1>1 DEF n
<1> QED BY <1>1, <1>2, <1>3, <1>4 DEF r, n

LEMMA AfterTail ==
  ASSUME NEW q \in Seq(Messages), q # << >>, NEW k \in DOMAIN q
  PROVE  /\ k = 1 => After(q, k) = Tail(q)
         /\ k # 1 => k - 1 \in DOMAIN Tail(q) /\ Tail(q)[k - 1] = q[k] /\ After(Tail(q), k - 1) = After(q, k)
<1> DEFINE t == Tail(q)
           n == Len(q)
<1>1. /\ n \in Nat /\ 1 =< n /\ DOMAIN q = 1 .. n
      /\ t \in Seq(Messages) /\ Len(t) = n - 1 /\ DOMAIN t = 1 .. n - 1
      /\ \A i \in 1 .. n - 1 : t[i] = q[i + 1]
  BY TailFacts
<1> HIDE DEF t, n
<1>2. CASE k = 1
  <2>1. /\ After(q, 1) = [i \in 1 .. n - 1 |-> q[1 + i]]
        /\ t = [i \in 1 .. n - 1 |-> t[i]]
    <3>1. t = [i \in 1 .. Len(t) |-> t[i]]
      BY <1>1
    <3> QED BY <1>1, <3>1, AfterIs DEF n
  <2>2. \A i \in 1 .. n - 1 : q[1 + i] = t[i]
    BY <1>1
  <2> QED BY <1>2, <2>1, <2>2 DEF t
<1>3. CASE k # 1
  <2> DEFINE j == k - 1
  <2>1. j \in 1 .. n - 1 /\ j + 1 = k /\ k \in 1 .. n /\ j \in Nat /\ k \in Nat
        /\ j =< n - 1 /\ k =< n
    BY <1>1, <1>3
  <2> HIDE DEF j
  <2>2. After(q, k) = [i \in 1 .. n - k |-> q[k + i]]
    BY <2>1, AfterIs DEF n
  <2>3. After(t, j) = [i \in 1 .. (n - 1) - j |-> t[j + i]]
    <3>1. j =< Len(t) /\ Len(t) = n - 1 /\ t \in Seq(Messages) /\ j \in Nat
      BY <1>1, <2>1
    <3>2. After(t, j) = [i \in 1 .. Len(t) - j |-> t[j + i]]
      BY <3>1, AfterIs
    <3> QED BY ONLY <3>1, <3>2
  <2>4. (n - 1) - j = n - k /\ \A i \in 1 .. n - k : t[j + i] = q[k + i]
    <3>1. (n - 1) - j = n - k
      BY <1>1, <2>1
    <3>2. ASSUME NEW i \in 1 .. n - k PROVE t[j + i] = q[k + i]
      <4>1. n \in Nat /\ i \in Nat /\ 1 =< i /\ i =< n - k /\ j \in Nat /\ k = j + 1
        BY <1>1, <2>1, <3>2
      <4>2. j + i \in 1 .. n - 1 /\ (j + i) + 1 = k + i
        BY ONLY <4>1
      <4> QED BY <1>1, <4>2
    <3> QED BY <3>1, <3>2
  <2>5. After(t, j) = After(q, k)
    BY <2>2, <2>3, <2>4
  <2> QED BY <1>1, <1>3, <2>1, <2>5 DEF t, j
<1> QED BY <1>2, <1>3

-------------------------------------------------------------------------------
\* What the server tells carries over

LEMMA AppliedFacts ==
  ASSUME NEW h \in Listed, NEW m, NEW l
  PROVE  /\ h.list \in Lists
         /\ Applied(h, m, l).list = ListAfter(h.list, m)
         /\ Applied(h, m, l).role = IF m.type = "roleUpdated" /\ m.id = l THEN m.role ELSE h.role
BY DEF Applied, Listed

LEMMA CarriesLeft ==
  ASSUME NEW list \in Lists, NEW l \in Ids, NEW gone, NEW heard, NEW m \in Messages,
         m.type = "participantLeft", m.id # l
  PROVE  Carries(m, l, list, gone, heard, Without(list, m.id), gone, heard)
<1> DEFINE new == Without(list, m.id)
<1>0. m.id \in Ids
  BY MessageFacts
<1>1. /\ new \in Lists /\ new[m.id] = Absent /\ \A j \in Ids : j # m.id => new[j] = list[j]
  <2>1. new = Marked(list, m.id, Absent)
    BY DEF Without, Marked
  <2> HIDE DEF new
  <2> QED BY <1>0, <2>1, ListSet
<1> HIDE DEF new
<1>2. ~Here(new, m.id) /\ new[l] = list[l]
  BY <1>1 DEF Here
<1>3. ASSUME NEW h \in Listed, Agrees(h, l, list, gone)
      PROVE  Agrees(Applied(h, m, l), l, new, gone)
  <2> DEFINE g == Applied(h, m, l)
  <2>1. h.list \in Lists /\ g.list = Marked(h.list, m.id, Absent) /\ g.role = h.role
    <3>1. ListAfter(h.list, m) = Marked(h.list, m.id, Absent)
      BY DEF ListAfter
    <3> QED BY <1>3, <3>1, AppliedFacts
  <2>2. g.list[m.id] = Absent /\ \A j \in Ids : j # m.id => g.list[j] = h.list[j]
    BY <1>0, <2>1, ListSet
  <2> HIDE DEF g
  <2> QED BY <1>0, <1>1, <1>2, <1>3, <2>1, <2>2 DEF Agrees, Here, g
<1>4. ~TurnsMode(m, l) /\ IsTame(m, l)
  BY DEF TurnsMode, IsTame
<1> QED BY <1>2, <1>3, <1>4 DEF Carries, EditsDirectly, new

LEMMA CarriesJoined ==
  ASSUME NEW list \in Lists, NEW l \in Ids, NEW gone, NEW heard, NEW m \in Messages,
         m.type = "participantJoined", m.id # l,
         NEW new \in Lists, NEW gone2, gone \subseteq gone2 \cup {m.id},
         new[m.id] = m.marks, new[l] = list[l],
         \A j \in Ids : j # m.id => new[j] = list[j] \/ (new[j] = Absent /\ j \in gone2)
  PROVE  Carries(m, l, list, gone, heard, new, gone2, heard)
<1>0. m.id \in Ids /\ m.marks \in Marks
  BY MessageFacts
<1>1. Here(new, m.id)
  BY <1>0, IdsFacts DEF Here, Marks, Absent, Roles
<1>2. ASSUME NEW h \in Listed, Agrees(h, l, list, gone)
      PROVE  Agrees(Applied(h, m, l), l, new, gone2)
  <2> DEFINE g == Applied(h, m, l)
  <2>1. h.list \in Lists /\ g.list = Marked(h.list, m.id, m.marks) /\ g.role = h.role
    <3>1. ListAfter(h.list, m) = Marked(h.list, m.id, m.marks)
      BY DEF ListAfter
    <3> QED BY <1>2, <3>1, AppliedFacts
  <2>2. g.list[m.id] = m.marks /\ \A j \in Ids : j # m.id => g.list[j] = h.list[j]
    BY <1>0, <2>1, ListSet
  <2> HIDE DEF g
  <2>3. ASSUME NEW i \in Ids, Here(new, i), i # l PROVE g.list[i].role = new[i].role
    BY <1>0, <1>2, <2>2, <2>3 DEF Agrees, Here
  <2>4. ASSUME NEW i \in Ids, Here(g.list, i) PROVE Here(new, i) \/ i \in gone2
    BY <1>1, <1>2, <2>2, <2>4 DEF Agrees, Here
  <2> QED BY <1>2, <2>1, <2>3, <2>4 DEF Agrees, g
<1>3. ~TurnsMode(m, l) /\ IsTame(m, l)
  BY DEF TurnsMode, IsTame
<1> QED BY <1>2, <1>3 DEF Carries, EditsDirectly

LEMMA CarriesRole ==
  ASSUME NEW list \in Lists, NEW l \in Ids, NEW gone, NEW heard, NEW m \in Messages,
         m.type = "roleUpdated", Here(list, m.id), list[m.id].role # "root", m.role # "root",
         list[m.id].role = "viewer" => ~list[m.id].direct
  PROVE  Carries(m, l, list, gone, heard,
                 Marked(list, m.id, [role |-> m.role,
                                     direct |-> list[m.id].direct /\ m.role = "collaborator"]),
                 gone, heard)
<1> DEFINE marks == [role |-> m.role, direct |-> list[m.id].direct /\ m.role = "collaborator"]
           new == Marked(list, m.id, marks)
<1>0. m.id \in Ids /\ m.role \in Roles /\ list[m.id] \in Marks /\ list[m.id].direct \in BOOLEAN
      /\ list[m.id].role \in Roles
  BY MessageFacts, ListFacts
<1>1. marks \in Marks /\ marks.role = m.role
      /\ marks.direct = (list[m.id].direct /\ m.role = "collaborator")
  BY <1>0 DEF Marks
<1> HIDE DEF marks
<1>2. /\ new \in Lists /\ new[m.id] = marks /\ \A j \in Ids : j # m.id => new[j] = list[j]
  BY <1>0, <1>1, ListSet
<1> HIDE DEF new
<1>3. Here(new, m.id)
  BY <1>0, <1>1, <1>2, IdsFacts DEF Here, Marks, Absent, Roles
<1>4. ASSUME NEW h \in Listed, Agrees(h, l, list, gone)
      PROVE  Agrees(Applied(h, m, l), l, new, gone)
  <2> DEFINE g == Applied(h, m, l)
  <2>1. /\ h.list \in Lists
        /\ g.list = IF Here(h.list, m.id)
                      THEN Marked(h.list, m.id, [role |-> m.role, direct |-> h.list[m.id].direct])
                    ELSE h.list
        /\ g.role = IF m.id = l THEN m.role ELSE h.role
    <3>1. ListAfter(h.list, m)
            = IF Here(h.list, m.id)
                THEN Marked(h.list, m.id, [role |-> m.role, direct |-> h.list[m.id].direct])
              ELSE h.list
      BY DEF ListAfter
    <3> QED BY <1>4, <3>1, AppliedFacts
  <2>2. m.id # l => Here(h.list, m.id)
    <3>1. m.id # l => h.list[m.id].role = list[m.id].role
      BY <1>0, <1>4 DEF Agrees
    <3>2. list[m.id].role # "none"
      BY <1>0 DEF Roles
    <3> QED BY <1>0, <2>1, <3>1, <3>2, ListFacts
  <2>3. /\ \A j \in Ids : j # m.id => g.list[j] = h.list[j]
        /\ Here(h.list, m.id) => g.list[m.id].role = m.role
    <3> DEFINE i == m.id
               r == [role |-> m.role, direct |-> h.list[m.id].direct]
    <3>1. CASE Here(h.list, i)
      <4>1. r \in Marks /\ r.role = m.role
        BY <1>0, <2>1, <3>1, ListRole
      <4>0. g.list = Marked(h.list, i, r) /\ h.list \in Lists /\ i \in Ids
        BY <1>0, <2>1, <3>1
      <4> HIDE DEF r, g, i
      <4>2. g.list[i] = r /\ \A j \in Ids : j # i => g.list[j] = h.list[j]
        BY <4>0, <4>1, ListSet
      <4> QED BY <3>1, <4>1, <4>2 DEF i
    <3>2. CASE ~Here(h.list, i)
      BY <2>1, <3>2
    <3> QED BY <3>1, <3>2
  <2>4. \A j \in Ids : Here(g.list, j) /\ j # m.id => Here(h.list, j)
    BY <2>3 DEF Here
  <2> HIDE DEF g
  <2>5. g.role = new[l].role
    BY <1>1, <1>2, <1>4, <2>1 DEF Agrees
  <2>6. ASSUME NEW i \in Ids, Here(new, i), i # l PROVE g.list[i].role = new[i].role
    <3>1. CASE i = m.id
      BY <1>1, <1>2, <2>2, <2>3, <2>6, <3>1
    <3>2. CASE i # m.id
      <4>1. Here(list, i)
        BY <1>2, <2>6, <3>2 DEF Here
      <4> QED BY <1>2, <1>4, <2>3, <2>6, <3>2, <4>1 DEF Agrees
    <3> QED BY <3>1, <3>2
  <2>7. ASSUME NEW i \in Ids, Here(g.list, i) PROVE Here(new, i) \/ i \in gone
    <3>1. CASE i = m.id
      BY <1>3, <3>1
    <3>2. CASE i # m.id
      <4>1. Here(list, i) \/ i \in gone
        BY <1>4, <2>4, <2>7, <3>2 DEF Agrees
      <4> QED BY <1>2, <3>2, <4>1 DEF Here
    <3> QED BY <3>1, <3>2
  <2> QED BY <2>5, <2>6, <2>7 DEF Agrees, g
<1>5. IsTame(m, l)
  BY DEF IsTame
<1>6. TurnsMode(m, l) => ModeOf(m) = EditsDirectly(new, l)
  <2> SUFFICES ASSUME TurnsMode(m, l) PROVE ModeOf(m) = FALSE /\ EditsDirectly(new, l) = FALSE
    OBVIOUS
  <2>1. m.id = l /\ m.role # "collaborator"
    BY DEF TurnsMode
  <2> QED BY <1>1, <1>2, <2>1 DEF ModeOf, EditsDirectly
<1>7. ~TurnsMode(m, l) => EditsDirectly(new, l) = EditsDirectly(list, l)
  <2>1. CASE m.id # l
    BY <1>2, <2>1 DEF EditsDirectly
  <2>2. CASE m.id = l /\ m.role = "collaborator"
    <3>1. new[l].role = "collaborator" /\ new[l].direct = list[l].direct
      BY <1>0, <1>1, <1>2, <2>2
    <3>2. list[l].role \in {"collaborator", "viewer"}
      BY <1>0, <2>2 DEF Roles
    <3>3. CASE list[l].role = "collaborator"
      BY <3>1, <3>3 DEF EditsDirectly
    <3>4. CASE list[l].role = "viewer"
      <4>1. list[l].direct = FALSE
        BY <1>0, <2>2, <3>4
      <4> QED BY <3>1, <3>4, <4>1 DEF EditsDirectly
    <3> QED BY <3>2, <3>3, <3>4
  <2> QED BY <2>1, <2>2 DEF TurnsMode
<1>8. ~TurnsMode(m, l) /\ list[l].role = "collaborator" => new[l].role = "collaborator"
  BY <1>1, <1>2 DEF TurnsMode
<1> QED BY <1>4, <1>5, <1>6, <1>7, <1>8 DEF Carries, new, marks

LEMMA CarriesMode ==
  ASSUME NEW list \in Lists, NEW l \in Ids, NEW gone, NEW heard, NEW m \in Messages,
         m.type = "editModeUpdated", list[m.id].role = "collaborator"
  PROVE  Carries(m, l, list, gone, heard,
                 Marked(list, m.id, [role |-> list[m.id].role, direct |-> m.direct]), gone, heard)
<1> DEFINE new == Marked(list, m.id, [role |-> list[m.id].role, direct |-> m.direct])
<1>0. m.id \in Ids /\ m.direct \in BOOLEAN /\ Here(list, m.id)
  BY MessageFacts, ListFacts
<1>2. /\ new \in Lists /\ new[m.id] = [role |-> list[m.id].role, direct |-> m.direct]
      /\ \A j \in Ids : j # m.id => new[j] = list[j]
  <2> DEFINE r == [role |-> list[m.id].role, direct |-> m.direct]
  <2>1. r \in Marks
    BY <1>0, ListDirect
  <2> HIDE DEF r
  <2> QED BY <1>0, <2>1, ListSet DEF r
<1> HIDE DEF new
<1>3. \A j \in Ids : new[j].role = list[j].role
  BY <1>2
<1>4. \A j \in Ids : Here(new, j) <=> Here(list, j)
  BY <1>2, <1>3, ListFacts
<1>5. ASSUME NEW h \in Listed, Agrees(h, l, list, gone)
      PROVE  Agrees(Applied(h, m, l), l, new, gone)
  <2> DEFINE g == Applied(h, m, l)
  <2>1. /\ h.list \in Lists /\ g.role = h.role
        /\ g.list = IF Here(h.list, m.id)
                      THEN Marked(h.list, m.id, [role |-> h.list[m.id].role, direct |-> m.direct])
                    ELSE h.list
    <3>1. ListAfter(h.list, m)
            = IF Here(h.list, m.id)
                THEN Marked(h.list, m.id, [role |-> h.list[m.id].role, direct |-> m.direct])
              ELSE h.list
      BY DEF ListAfter
    <3> QED BY <1>5, <3>1, AppliedFacts
  <2>2. \A j \in Ids : g.list[j].role = h.list[j].role /\ g.list \in Lists
    <3> DEFINE i == m.id
               r == [role |-> h.list[m.id].role, direct |-> m.direct]
    <3>1. CASE Here(h.list, i)
      <4>1. r \in Marks /\ r.role = h.list[i].role
        BY <1>0, <2>1, <3>1, ListDirect
      <4> HIDE DEF r
      <4>2. g.list \in Lists /\ g.list[i] = r /\ \A j \in Ids : j # i => g.list[j] = h.list[j]
        BY <1>0, <2>1, <3>1, <4>1, ListSet DEF r
      <4> QED BY <4>1, <4>2
    <3>2. CASE ~Here(h.list, i)
      BY <2>1, <3>2
    <3> QED BY <3>1, <3>2
  <2>3. \A j \in Ids : Here(g.list, j) <=> Here(h.list, j)
    BY <2>1, <2>2, ListFacts
  <2> HIDE DEF g
  <2> QED BY <1>3, <1>4, <1>5, <2>1, <2>2, <2>3 DEF Agrees, g
<1>6. IsTame(m, l)
  BY DEF IsTame
<1>7. TurnsMode(m, l) => ModeOf(m) = EditsDirectly(new, l)
  BY <1>0, <1>2 DEF TurnsMode, ModeOf, EditsDirectly
<1>8. ~TurnsMode(m, l) => EditsDirectly(new, l) = EditsDirectly(list, l)
  BY <1>2 DEF TurnsMode, EditsDirectly
<1> QED BY <1>3, <1>5, <1>6, <1>7, <1>8 DEF Carries, new

LEMMA CarriesChat ==
  ASSUME NEW list, NEW l, NEW gone, NEW heard, NEW m \in Messages, m.type = "chatMessage",
         NEW heard2, heard2 \subseteq heard \cup {m.n}
  PROVE  Carries(m, l, list, gone, heard, list, gone, heard2)
<1>1. \A h \in Listed : Applied(h, m, l) = h
  BY DEF Applied, ListAfter, Listed
<1>2. ~TurnsMode(m, l) /\ IsTame(m, l)
  BY DEF TurnsMode, IsTame
<1>3. m.n \in Chats
  BY MessageFacts
<1> QED BY <1>1, <1>2, <1>3 DEF Carries

-------------------------------------------------------------------------------
\* The server's steps

LEMMA StateIsTyped == StateOK => RosterTypeOK
BY DEF StateOK, ServerOK, LinksOK, ChannelsOK, ViewsOK, JoinsOK, ChatsOK, CountsOK, RosterTypeOK

LEMMA FitSet ==
  ASSUME NEW list \in Lists, FitList(list), NEW i, NEW marks \in Marks \cup {Absent},
         marks.role = "viewer" => ~marks.direct
  PROVE  [list EXCEPT ![i] = marks] \in Lists /\ FitList([list EXCEPT ![i] = marks])
<1>1. CASE i \in Ids
  <2> DEFINE new == Marked(list, i, marks)
  <2>1. new \in Lists /\ new[i] = marks /\ (\A j \in Ids : j # i => new[j] = list[j])
        /\ [list EXCEPT ![i] = marks] = new
    BY <1>1, ListSet
  <2> HIDE DEF new
  <2> QED BY <2>1 DEF FitList
<1>2. CASE i \notin Ids
  <2>1. [list EXCEPT ![i] = marks] = list
    BY <1>2 DEF Lists
  <2> QED BY <2>1
<1> QED BY <1>1, <1>2

LEMMA AbsentFacts == Absent.role # "viewer" /\ Absent \in Marks \cup {Absent}
BY DEF Absent

LEMMA WithoutFacts ==
  ASSUME NEW list \in Lists, NEW i
  PROVE  /\ Without(list, i) \in Lists
         /\ FitList(list) => FitList(Without(list, i))
         /\ \A j \in Ids : j # i => Without(list, i)[j] = list[j]
         /\ i \in Ids => ~Here(Without(list, i), i)
<1>1. Without(list, i) \in Lists /\ (FitList(list) => FitList(Without(list, i)))
  <2>1. FitList(list) => FitList(Without(list, i))
    BY FitSet, AbsentFacts DEF Without
  <2>2. Without(list, i) \in Lists
    BY DEF Without, Lists
  <2> QED BY <2>1, <2>2
<1>2. /\ \A j \in Ids : j # i => Without(list, i)[j] = list[j]
      /\ i \in Ids => Without(list, i)[i] = Absent
  BY DEF Without, Lists
<1> QED BY <1>1, <1>2 DEF Here

LEMMA BroadcastFacts ==
  ASSUME ChannelsOK, NEW list, NEW m \in Messages
  PROVE  /\ Broadcast(list, m) \in [Ids -> Seq(Messages)]
         /\ \A i \in Ids : /\ Here(list, i) /\ Linked(i) => Broadcast(list, m)[i] = Append(channel[i], m)
                           /\ ~Here(list, i) => Broadcast(list, m)[i] = channel[i]
<1>1. \A i \in Ids : channel[i] \in Seq(Messages) /\ Append(channel[i], m) \in Seq(Messages)
  BY DEF ChannelsOK
<1> QED BY <1>1 DEF Broadcast

\* A member is gone.
LEMMA DepartFacts ==
  ASSUME ServerOK, ChannelsOK, NEW i \in Ids, Unseat(i), sessions' = sessions \/ sessions' = Without(sessions, sessionOf[i])
  PROVE  /\ ServerOK'
         /\ Depart(i) \in [Ids -> Seq(Messages)]
         /\ [type |-> "participantLeft", id |-> i] \in Messages
         /\ \A l \in Ids : Here(members', l) /\ Linked(l) =>
              Depart(i)[l] = Append(channel[l], [type |-> "participantLeft", id |-> i])
         /\ ~Here(members', i)
         /\ \A j \in Ids : j # i => members'[j] = members[j]
<1> DEFINE m == [type |-> "participantLeft", id |-> i]
<1>1. m \in Messages
  BY DEF Messages
<1>2. members' = Without(members, i) /\ sessionOf' = [sessionOf EXCEPT ![i] = NoId]
      /\ UNCHANGED <<displaced, chat, before>>
  BY DEF Unseat
<1> HIDE DEF m
<1>3. /\ Depart(i) \in [Ids -> Seq(Messages)]
      /\ \A l \in Ids : Here(members', l) /\ Linked(l) => Depart(i)[l] = Append(channel[l], m)
  BY <1>1, <1>2, BroadcastFacts DEF Depart, m
<1>4. /\ members' \in Lists /\ FitList(members') /\ ~Here(members', i)
      /\ \A j \in Ids : j # i => members'[j] = members[j]
  BY <1>2, WithoutFacts DEF ServerOK
<1>5. sessions' \in Lists /\ FitList(sessions')
  BY WithoutFacts DEF ServerOK
<1>6. sessionOf' \in [Ids -> Ids \cup {NoId}]
  BY <1>2 DEF ServerOK
<1>7. FitList(members)' /\ FitList(sessions)'
  BY <1>4, <1>5 DEF FitList
<1>8. ServerOK'
  BY <1>2, <1>4, <1>5, <1>6, <1>7 DEF ServerOK
<1> QED BY <1>1, <1>3, <1>4, <1>8 DEF m

\* A member has other marks.
LEMMA SetMarksFacts ==
  ASSUME ServerOK, NEW i \in Ids, NEW marks \in Marks, marks.role = "viewer" => ~marks.direct,
         SetMarks(i, marks)
  PROVE  ServerOK' /\ members' = Marked(members, i, marks)
<1>1. /\ members' = [members EXCEPT ![i] = marks]
      /\ sessions' = [sessions EXCEPT ![sessionOf[i]] = marks]
      /\ UNCHANGED <<sessionOf, displaced, chat, before>>
  BY DEF SetMarks
<1>2. members' \in Lists /\ FitList(members')
  BY <1>1, FitSet DEF ServerOK
<1>3. sessions' \in Lists /\ FitList(sessions')
  BY <1>1, FitSet DEF ServerOK
<1>4. FitList(members)' /\ FitList(sessions)'
  BY <1>2, <1>3 DEF FitList
<1> QED BY <1>1, <1>2, <1>3, <1>4 DEF ServerOK, Marked

\* A client joins, in the place of the previous connections of its session.
NewsOf(i, marks) == [type |-> "participantJoined", id |-> i, marks |-> marks]

LEMMA JoinRoomFacts ==
  ASSUME ServerOK, ChannelsOK, NEW c \in Clients, NEW i \in Ids, NEW token \in Ids \cup {NoId},
         JoinRoom(c, i, token)
  PROVE  LET marks == Resolved(token) IN
         /\ ServerOK' /\ ChannelsOK'
         /\ marks \in Marks /\ NewsOf(i, marks) \in Messages
         /\ JoinedMessage(i, SessionFor(i, token), members') \in Messages
         /\ members'[i] = marks
         /\ \A j \in Ids : j # i =>
              members'[j] = members[j] \/ (members'[j] = Absent /\ j \in displaced')
         /\ displaced \subseteq displaced' \cup {i}
         /\ \A l \in Ids : l # i /\ Here(members', l) /\ Linked(l) =>
              channel'[l] = Append(channel[l], NewsOf(i, marks))
         /\ channel'[i] = Append(channel[i], JoinedMessage(i, SessionFor(i, token), members'))
         /\ chat' = chat /\ before'[i] = chat
         /\ \A l \in Ids : l # i => before'[l] = before[l]
<1> DEFINE marks == Resolved(token)
           prior == Previous(i, token)
           rest == [j \in Ids |-> IF j \in prior THEN Absent ELSE members[j]]
           list == [rest EXCEPT ![i] = marks]
           told == [j \in Ids |->
                IF Here(rest, j) /\ j # i /\ Linked(j)
                  THEN Append(channel[j], [type |-> "participantJoined", id |-> i, marks |-> marks])
                  ELSE channel[j]]
           joined == JoinedMessage(i, SessionFor(i, token), list)
<1>1. /\ members' = list
      /\ sessions' = [sessions EXCEPT ![SessionFor(i, token)] = marks]
      /\ sessionOf' = [j \in Ids |-> IF j = i THEN SessionFor(i, token)
                                     ELSE IF j \in prior THEN NoId ELSE sessionOf[j]]
      /\ displaced' = (displaced \cup prior) \ {i}
      /\ before' = [before EXCEPT ![i] = chat]
      /\ channel' = [told EXCEPT ![i] = Append(@, joined)]
      /\ chat' = chat
  BY DEF JoinRoom
<1>2. SessionFor(i, token) \in Ids /\ prior \subseteq Ids
  BY DEF SessionFor, Previous
<1>3. marks \in Marks /\ (marks.role = "viewer" => ~marks.direct) /\ marks.role \in Roles
  <2>1. CASE token # NoId /\ Here(sessions, token)
    <3>1. marks = sessions[token] /\ token \in Ids
      BY <2>1 DEF Resolved
    <3>2. sessions[token] \in Marks /\ sessions[token].role \in Roles
      BY <2>1, <3>1, ListFacts DEF ServerOK
    <3> QED BY <3>1, <3>2 DEF ServerOK, FitList
  <2>2. CASE ~(token # NoId /\ Here(sessions, token))
    <3>1. marks = [role |-> "collaborator", direct |-> FALSE]
      BY <2>2 DEF Resolved
    <3> QED BY <3>1 DEF Marks, Roles
  <2> QED BY <2>1, <2>2
<1> HIDE DEF marks, prior
<1>4. /\ rest \in Lists /\ FitList(rest)
      /\ \A j \in Ids : rest[j] = IF j \in prior THEN Absent ELSE members[j]
  BY AbsentFacts DEF ServerOK, Lists, FitList
<1>5. /\ list \in Lists /\ FitList(list) /\ list[i] = marks
      /\ \A j \in Ids : j # i => list[j] = rest[j]
  <2> HIDE DEF rest
  <2>1. list = Marked(rest, i, marks)
    BY <1>3, <1>4, ListSet
  <2>2. list \in Lists /\ FitList(list)
    BY <1>3, <1>4, FitSet
  <2> HIDE DEF list
  <2> QED BY <1>3, <1>4, <2>1, <2>2, ListSet
<1>6. NewsOf(i, marks) \in Messages
  BY <1>3 DEF NewsOf, Messages
<1>7. joined \in Messages
  <2>1. list[i].role \in Roles
    BY <1>3, <1>5
  <2> HIDE DEF list
  <2> QED BY <1>2, <1>5, <2>1 DEF JoinedMessage, Messages
<1>8. joined = JoinedMessage(i, SessionFor(i, token), members')
  BY <1>1
<1>9. \A j \in Ids : told[j] = IF Here(rest, j) /\ j # i /\ Linked(j)
                                THEN Append(channel[j], NewsOf(i, marks)) ELSE channel[j]
  BY DEF NewsOf
<1> HIDE DEF rest, list, joined
<1>10. \A j \in Ids : channel[j] \in Seq(Messages)
  BY DEF ChannelsOK
<1>11. \A j \in Ids : told[j] \in Seq(Messages)
  <2> SUFFICES ASSUME NEW j \in Ids PROVE told[j] \in Seq(Messages)
    OBVIOUS
  <2>1. Append(channel[j], NewsOf(i, marks)) \in Seq(Messages)
    BY <1>6, <1>10, AppendFacts
  <2> HIDE DEF told
  <2> QED BY <1>9, <1>10, <2>1
<1>12. told \in [Ids -> Seq(Messages)] /\ told[i] = channel[i]
  BY <1>9, <1>11
<1> HIDE DEF told
<1>13. Append(told[i], joined) \in Seq(Messages)
  BY <1>7, <1>12
<1>14. /\ channel' \in [Ids -> Seq(Messages)] /\ channel'[i] = Append(channel[i], joined)
       /\ \A l \in Ids : l # i => channel'[l] = told[l]
  BY <1>1, <1>12, <1>13
<1>15. sessions' \in Lists /\ FitList(sessions')
  BY <1>1, <1>3, FitSet DEF ServerOK
<1>16. FitList(members)' /\ FitList(sessions)' /\ members' \in Lists
  BY <1>1, <1>5, <1>15 DEF FitList
<1>17. sessionOf' \in [Ids -> Ids \cup {NoId}] /\ displaced' \subseteq Ids
       /\ before' \in [Ids -> SUBSET Chats]
  BY <1>1, <1>2 DEF ServerOK
<1>18. ServerOK'
  BY <1>1, <1>15, <1>16, <1>17 DEF ServerOK
<1>19. ASSUME NEW l \in Ids, l # i, Here(members', l), Linked(l)
       PROVE  channel'[l] = Append(channel[l], NewsOf(i, marks))
  <2>1. Here(rest, l)
    BY <1>1, <1>5, <1>19 DEF Here
  <2> QED BY <1>9, <1>14, <1>19, <2>1
<1>20. \A j \in Ids : j # i => members'[j] = members[j] \/ (members'[j] = Absent /\ j \in displaced')
  BY <1>1, <1>4, <1>5
<1>21. displaced \subseteq displaced' \cup {i}
  BY <1>1
<1>22. before'[i] = chat /\ \A l \in Ids : l # i => before'[l] = before[l]
  BY <1>1 DEF ServerOK
<1> QED BY <1>1, <1>3, <1>5, <1>6, <1>7, <1>8, <1>14, <1>18, <1>19, <1>20, <1>21, <1>22
     DEF ChannelsOK, marks

-------------------------------------------------------------------------------
\* What a step leaves of a client's following

\* ChatManager shows what it showed, and more only if it keeps it.
ChatStays(c) == shown'[c] = shown[c] /\ (InChat(c) => InChat(c)')

\* What Follows says of a client's own is as it was, but for more chat; the mode it
\* shows may change until its joinedRoom has been handled, which sets it.
StaysPut(c) ==
  /\ link'[c] = link[c] /\ joins'[c] = joins[c] /\ overtaken'[c] = overtaken[c]
  /\ views'[c].inRoom = views[c].inRoom /\ views'[c].self = views[c].self
  /\ views'[c].role = views[c].role /\ views'[c].list = views[c].list
  /\ IsSettled(c) => views'[c].direct = views[c].direct
  /\ shown[c] \subseteq shown'[c] /\ (InChat(c) => InChat(c)')
  /\ Creating(c)' => Creating(c)

\* The server tells the client of what changes.
LEMMA ToldFollows ==
  ASSUME StateOK, NEW c \in Clients, NEW l \in Ids, l = link[c], NEW m,
         StaysPut(c), channel'[l] = Append(channel[l], m), Here(members, l), Follows(c),
         Carries(m, l, members, displaced, SinceJoined(l), members', displaced', chat' \ before'[l])
  PROVE  Follows(c)'
<1> DEFINE q == channel[l]
           new == Append(q, m)
           heard == chat' \ before'[l]
<1>1. m \in Messages /\ m.type # "joinedRoom" /\ q \in Seq(Messages)
  BY DEF Carries, IsTame, StateOK, ChannelsOK
<1>2. channel'[link'[c]] = new /\ link'[c] = l /\ SinceJoined(l)' = heard
  BY DEF StaysPut, SinceJoined
<1>3. ASSUME NEW base, NEW ms \in Seq(Messages),
             Leads(base, ms, l, members, displaced, SinceJoined(l))
      PROVE  Leads(base, Append(ms, m), l, members', displaced', heard)
  BY <1>3, LeadsOn
<1>4. CASE JoinIsSent(c)
  <2>1. PICK k \in DOMAIN q :
          /\ q[k].type = "joinedRoom" /\ q[k].id = l /\ q[k].role = q[k].list[l].role
          /\ Leads(JoinBase(q[k]), After(q, k), l, members, displaced, SinceJoined(l))
    BY <1>4 DEF JoinIsSent
  <2>2. /\ After(q, k) \in Seq(Messages) /\ After(new, k) = Append(After(q, k), m)
        /\ k \in DOMAIN new /\ new[k] = q[k]
    BY <1>1, AfterFacts
  <2>3. Leads(JoinBase(q[k]), After(new, k), l, members', displaced', heard)
    BY <1>3, <2>1, <2>2
  <2> HIDE DEF new, q, heard
  <2>4. JoinIsSent(c)'
    BY <1>2, <2>1, <2>2, <2>3 DEF JoinIsSent, SinceJoined, heard
  <2> QED BY <2>4 DEF Follows
<1>5. CASE JoinIsOvertaken(c)
  <2>1. \A k \in DOMAIN new : new[k].type # "joinedRoom"
    <3>1. \A k \in DOMAIN q : q[k].type # "joinedRoom"
      BY <1>5 DEF JoinIsOvertaken
    <3>2. /\ DOMAIN q = 1 .. Len(q) /\ DOMAIN new = 1 .. Len(q) + 1 /\ Len(q) \in Nat
          /\ \A k \in 1 .. Len(q) : new[k] = q[k]
          /\ new[Len(q) + 1] = m
      BY <1>1, AppendFacts
    <3> HIDE DEF new, q
    <3> QED BY <1>1, <3>1, <3>2
  <2>2. JoinIsOvertaken(c)'
    BY <1>2, <1>5, <2>1 DEF JoinIsOvertaken, StaysPut
  <2> QED BY <2>2 DEF Follows
<1>6. CASE JoinIsHandled(c)
  <2>1. Leads(JoinBase(joins[c][1]), new, l, members', displaced', heard)
    BY <1>1, <1>3, <1>6 DEF JoinIsHandled
  <2> HIDE DEF new, q, heard
  <2>2. JoinIsHandled(c)'
    BY <1>2, <1>6, <2>1 DEF JoinIsHandled, StaysPut, SinceJoined, heard
  <2> QED BY <2>2 DEF Follows
<1>7. CASE IsSettled(c)
  <2>1. Leads(ViewBase(c), new, l, members', displaced', heard)
    BY <1>1, <1>3, <1>7 DEF IsSettled
  <2> HIDE DEF new, q, heard
  <2>2. Leads(ViewBase(c)', new, l, members', displaced', heard)
    <3>1. /\ ViewBase(c)'.list = ViewBase(c).list /\ ViewBase(c)'.role = ViewBase(c).role
          /\ ViewBase(c)'.direct = ViewBase(c).direct /\ ViewBase(c).seen \subseteq ViewBase(c)'.seen
      BY <1>7 DEF ViewBase, StaysPut
    <3> QED BY <2>1, <3>1, LeadsSeen
  <2>3. IsSettled(c)'
    BY <1>2, <1>7, <2>2 DEF IsSettled, StaysPut, SinceJoined, heard
  <2> QED BY <2>3 DEF Follows
<1> QED BY <1>4, <1>5, <1>6, <1>7, IdsFacts DEF Follows

\* Nothing changes that concerns the client.
LEMMA QuietFollows ==
  ASSUME NEW c \in Clients, StaysPut(c), Follows(c),
         link[c] # NoId => channel'[link[c]] = channel[link[c]],
         UNCHANGED <<members, displaced, chat, before>>
  PROVE  Follows(c)'
<1> DEFINE l == link[c]
           heard == chat' \ before'[l]
<1>1. link'[c] = l /\ SinceJoined(l)' = heard /\ heard = SinceJoined(l)
  BY DEF StaysPut, SinceJoined
<1>2. ASSUME NEW base, NEW ms, Leads(base, ms, l, members, displaced, SinceJoined(l))
      PROVE  Leads(base, ms, l, members', displaced', heard)
  BY <1>1, <1>2
<1>3. CASE ~(link[c] # NoId /\ Here(members, link[c]))
  BY <1>1, <1>3 DEF Follows
<1> SUFFICES ASSUME link[c] # NoId PROVE Follows(c)'
  BY <1>3
<1>0. channel'[link'[c]] = channel[l]
  BY <1>1
<1>4. CASE JoinIsSent(c)
  <2>1. PICK k \in DOMAIN channel[l] :
          /\ channel[l][k].type = "joinedRoom" /\ channel[l][k].id = l
          /\ channel[l][k].role = channel[l][k].list[l].role
          /\ Leads(JoinBase(channel[l][k]), After(channel[l], k), l, members, displaced, SinceJoined(l))
    BY <1>4 DEF JoinIsSent
  <2>2. Leads(JoinBase(channel[l][k]), After(channel[l], k), l, members', displaced', heard)
    BY <1>2, <2>1
  <2>3. JoinIsSent(c)'
    BY <1>1, <2>1, <2>2 DEF JoinIsSent, SinceJoined
  <2> QED BY <2>3 DEF Follows
<1>5. CASE JoinIsOvertaken(c)
  BY <1>0, <1>1, <1>5 DEF Follows, JoinIsOvertaken, StaysPut
<1>6. CASE JoinIsHandled(c)
  <2>1. Leads(JoinBase(joins[c][1]), channel[l], l, members', displaced', heard)
    BY <1>2, <1>6 DEF JoinIsHandled
  <2>2. JoinIsHandled(c)'
    BY <1>0, <1>1, <1>6, <2>1 DEF JoinIsHandled, StaysPut, SinceJoined
  <2> QED BY <2>2 DEF Follows
<1>7. CASE IsSettled(c)
  <2>1. Leads(ViewBase(c), channel[l], l, members', displaced', heard)
    BY <1>2, <1>7 DEF IsSettled
  <2>2. Leads(ViewBase(c)', channel[l], l, members', displaced', heard)
    <3>1. /\ ViewBase(c)'.list = ViewBase(c).list /\ ViewBase(c)'.role = ViewBase(c).role
          /\ ViewBase(c)'.direct = ViewBase(c).direct /\ ViewBase(c).seen \subseteq ViewBase(c)'.seen
      BY <1>7 DEF ViewBase, StaysPut
    <3> QED BY <2>1, <3>1, LeadsSeen
  <2>3. IsSettled(c)'
    BY <1>0, <1>1, <1>7, <2>2 DEF IsSettled, StaysPut, SinceJoined
  <2> QED BY <2>3 DEF Follows
<1> QED BY <1>3, <1>4, <1>5, <1>6, <1>7 DEF Follows

-------------------------------------------------------------------------------
\* Members leave

LEMMA DepartFollows ==
  ASSUME RosterInv, NEW i \in Ids, Unseat(i), NEW c \in Clients, StaysPut(c), link[c] # i,
         link[c] # NoId => channel'[link[c]] = Depart(i)[link[c]],
         sessions' = sessions \/ sessions' = Without(sessions, sessionOf[i])
  PROVE  Follows(c)'
<1> DEFINE l == link[c]
           m == [type |-> "participantLeft", id |-> i]
<1>1. link'[c] = l /\ StateOK /\ Follows(c) /\ l \in Ids \cup {NoId}
  BY DEF RosterInv, StaysPut, StateOK, LinksOK
<1>2. CASE ~(l # NoId /\ Here(members', l))
  BY <1>1, <1>2 DEF Follows
<1>3. CASE l # NoId /\ Here(members', l)
  <2>1. l \in Ids /\ Linked(l)
    BY <1>1, <1>3 DEF Linked
  <2>2. m \in Messages /\ Depart(i)[l] = Append(channel[l], m) /\ members'[l] = members[l]
    BY <1>1, <1>3, <2>1, DepartFacts DEF StateOK
  <2>3. Here(members, l)
    BY <1>3, <2>2 DEF Here
  <2>4. members' = Without(members, i) /\ displaced' = displaced /\ chat' \ before'[l] = SinceJoined(l)
    BY DEF Unseat, SinceJoined
  <2>5. Carries(m, l, members, displaced, SinceJoined(l), Without(members, m.id), displaced, SinceJoined(l))
    <3>1. m.type = "participantLeft" /\ m.id = i /\ m.id # l /\ members \in Lists
      BY <1>1 DEF StateOK, ServerOK
    <3> HIDE DEF m, l
    <3> QED BY <2>1, <2>2, <3>1, CarriesLeft
  <2>6. channel'[l] = Append(channel[l], m)
    BY <1>3, <2>2
  <2>7. Carries(m, l, members, displaced, SinceJoined(l), members', displaced', chat' \ before'[l])
    BY <2>4, <2>5
  <2> HIDE DEF m
  <2> QED BY <1>1, <2>1, <2>3, <2>6, <2>7, ToldFollows
<1> QED BY <1>2, <1>3

LEMMA ServerClosesKeeps ==
  ASSUME RosterInv, NEW i \in Ids, ServerCloses(i)
  PROVE  RosterInv'
<1>1. /\ \A c \in Clients : link[c] # i /\ StaysPut(c) /\ Follows(c)
      /\ open' \subseteq open
      /\ UNCHANGED <<sessions, ids, link, views, creating, joins, overtaken, chats, counts>>
  BY DEF ServerCloses, RosterInv, Linked, StaysPut, InChat, Creating, chats
<1>2. LinksOK' /\ ViewsOK' /\ JoinsOK' /\ ChatsOK' /\ CountsOK'
  BY <1>1 DEF RosterInv, StateOK, LinksOK, LinksApart, ViewsOK, JoinsOK, ChatsOK, CountsOK,
              chats, counts
<1>3. CASE Here(members, i)
  <2>1. Unseat(i) /\ channel' = Depart(i)
    BY <1>3 DEF ServerCloses
  <2>2. ServerOK' /\ ChannelsOK'
    BY <1>1, <2>1, DepartFacts DEF RosterInv, StateOK, ChannelsOK
  <2>3. \A c \in Clients : Follows(c)'
    BY <1>1, <2>1, DepartFollows
  <2> QED BY <1>2, <2>2, <2>3 DEF RosterInv, StateOK
<1>4. CASE ~Here(members, i)
  <2>1. UNCHANGED <<members, sessionOf, displaced, chat, before, channel>>
    BY <1>4 DEF ServerCloses
  <2>2. ServerOK' /\ ChannelsOK'
    BY <1>1, <2>1 DEF RosterInv, StateOK, ServerOK, ChannelsOK, FitList
  <2>3. \A c \in Clients : Follows(c)'
    BY <1>1, <2>1, QuietFollows
  <2> QED BY <1>2, <2>2, <2>3 DEF RosterInv, StateOK
<1> QED BY <1>3, <1>4

LEMMA OutsideFits == IsFit(Outside)
<1>1. NoOne \in Lists
  BY DEF NoOne, Lists
<1> QED BY <1>1 DEF Outside, IsFit, Views

\* A client's view is replaced.
LEMMA ViewFits ==
  ASSUME ViewsOK, NEW c \in Clients, NEW v, IsFit(v), views' = [views EXCEPT ![c] = v]
  PROVE  ViewsOK' /\ views'[c] = v /\ \A d \in Clients : d # c => views'[d] = views[d]
<1>1. v \in Views /\ (v.direct => v.role = "collaborator")
  BY DEF IsFit
<1> QED BY <1>1 DEF ViewsOK

LEMMA ClearFits ==
  ASSUME ChatsOK, NEW c \in Clients, Clear(c)
  PROVE  ChatsOK' /\ \A d \in Clients : d # c => ChatStays(d)
BY DEF ChatsOK, Clear, ChatStays, InChat

LEMMA ChangeCounts ==
  ASSUME CountsOK, Change
  PROVE  CountsOK'
BY DEF CountsOK, Change

LEMMA LeaveRoomKeeps ==
  ASSUME RosterInv, NEW c \in Clients, LeaveRoom(c)
  PROVE  RosterInv'
<1> DEFINE i == link[c]
<1>1. /\ Change /\ i # NoId /\ Clear(c) /\ views' = [views EXCEPT ![c] = Outside]
      /\ UNCHANGED <<ids, open, link, creating, joins, overtaken>>
  BY DEF LeaveRoom, Reset
<1>2. i \in Ids /\ StateOK
  BY <1>1 DEF RosterInv, StateOK, LinksOK
<1>3. LinksOK' /\ ViewsOK' /\ JoinsOK' /\ ChatsOK' /\ CountsOK'
  <2>1. ViewsOK' /\ ChatsOK' /\ CountsOK'
    BY <1>1, <1>2, OutsideFits, ViewFits, ClearFits, ChangeCounts DEF StateOK
  <2> QED BY <1>1, <1>2, <2>1 DEF StateOK, LinksOK, LinksApart, JoinsOK
<1>4. \A d \in Clients : d # c => StaysPut(d) /\ Follows(d) /\ (link[d] # NoId => link[d] # i)
  <2>1. \A d \in Clients : d # c => views'[d] = views[d] /\ ChatStays(d)
    BY <1>1, <1>2, OutsideFits, ViewFits, ClearFits DEF StateOK
  <2> QED BY <1>1, <1>2, <2>1 DEF RosterInv, StaysPut, ChatStays, Creating, StateOK, LinksOK, LinksApart
<1>5. CASE Here(members, i)
  <2>1. Unseat(i) /\ sessions' = Without(sessions, sessionOf[i]) /\ channel' = Depart(i)
    BY <1>5 DEF LeaveRoom
  <2>2. ServerOK' /\ ChannelsOK' /\ ~Here(members', i)
    BY <1>2, <2>1, DepartFacts DEF StateOK, ChannelsOK
  <2>3. ASSUME NEW d \in Clients PROVE Follows(d)'
    <3>1. CASE d = c
      BY <1>1, <2>2, <3>1 DEF Follows
    <3>2. CASE d # c
      <4>1. StaysPut(d) /\ link[d] # i
        BY <1>1, <1>2, <1>4, <2>3, <3>2, IdsFacts
      <4> QED BY <1>2, <2>1, <2>3, <4>1, DepartFollows
    <3> QED BY <3>1, <3>2
  <2> QED BY <1>3, <2>2, <2>3 DEF RosterInv, StateOK
<1>6. CASE ~Here(members, i)
  <2>1. UNCHANGED <<server, channel>>
    BY <1>6 DEF LeaveRoom
  <2>2. ServerOK' /\ ChannelsOK'
    BY <1>2, <2>1 DEF StateOK, ServerOK, ChannelsOK, FitList, server
  <2>3. ASSUME NEW d \in Clients PROVE Follows(d)'
    <3>1. CASE d = c
      BY <1>1, <1>6, <2>1, <3>1 DEF Follows, server
    <3>2. CASE d # c
      BY <1>4, <2>1, <2>3, <3>2, QuietFollows DEF server
    <3> QED BY <3>1, <3>2
  <2> QED BY <1>3, <2>2, <2>3 DEF RosterInv, StateOK
<1> QED BY <1>5, <1>6

LEMMA RemoveParticipantKeeps ==
  ASSUME RosterInv, NEW i \in Ids, RemoveParticipant(i)
  PROVE  RosterInv'
<1>1. /\ Change /\ Unseat(i) /\ sessions' = Without(sessions, sessionOf[i])
      /\ channel' = [Depart(i) EXCEPT ![i] =
                       IF Linked(i) THEN Append(@, [type |-> "removed"]) ELSE @]
      /\ UNCHANGED <<ids, open, link, views, creating, joins, overtaken, chats>>
  BY DEF RemoveParticipant, Commands
<1>2. StateOK /\ \A c \in Clients : Follows(c) /\ StaysPut(c)
  BY <1>1 DEF RosterInv, StaysPut, InChat, Creating, chats
<1>3. LinksOK' /\ ViewsOK' /\ JoinsOK' /\ ChatsOK' /\ CountsOK'
  BY <1>1, <1>2, ChangeCounts DEF StateOK, LinksOK, LinksApart, ViewsOK, JoinsOK, ChatsOK, chats
<1>4. ServerOK' /\ Depart(i) \in [Ids -> Seq(Messages)] /\ ~Here(members', i)
  BY <1>1, <1>2, DepartFacts DEF StateOK
<1>5. ChannelsOK' /\ \A l \in Ids : l # i => channel'[l] = Depart(i)[l]
  <2>1. [type |-> "removed"] \in Messages
    BY DEF Messages
  <2>2. Append(Depart(i)[i], [type |-> "removed"]) \in Seq(Messages)
    BY <1>4, <2>1
  <2> QED BY <1>1, <1>4, <2>2 DEF ChannelsOK
<1>6. ASSUME NEW c \in Clients PROVE Follows(c)'
  <2>1. link'[c] = link[c] /\ link[c] \in Ids \cup {NoId}
    BY <1>1, <1>2 DEF StateOK, LinksOK
  <2>2. CASE link[c] = i
    BY <1>4, <2>1, <2>2 DEF Follows
  <2>3. CASE link[c] # i
    BY <1>1, <1>2, <1>5, <2>1, <2>3, DepartFollows
  <2> QED BY <2>2, <2>3
<1> QED BY <1>3, <1>4, <1>5, <1>6 DEF RosterInv, StateOK

-------------------------------------------------------------------------------
\* Roles and modes

\* A member gets other marks, and every member is told by m.
LEMMA MarkedFollows ==
  ASSUME StateOK, NEW i \in Ids, Here(members, i), NEW marks \in Marks, SetMarks(i, marks),
         NEW m \in Messages, m.id = i, members' = Marked(members, i, marks),
         channel' = Broadcast(members, m),
         \A l \in Ids : Carries(m, l, members, displaced, SinceJoined(l),
                                Marked(members, m.id, marks), displaced, SinceJoined(l)),
         NEW c \in Clients, StaysPut(c), Follows(c)
  PROVE  Follows(c)'
<1> DEFINE l == link[c]
<1>1. link'[c] = l /\ l \in Ids \cup {NoId}
  BY DEF StaysPut, StateOK, LinksOK
<1>2. CASE ~(l # NoId /\ Here(members', l))
  BY <1>1, <1>2 DEF Follows
<1>3. CASE l # NoId /\ Here(members', l)
  <2>1. l \in Ids /\ Linked(l)
    BY <1>1, <1>3 DEF Linked
  <2>2. Here(members, l)
    <3>1. l # i => members'[l] = members[l]
      BY <2>1, ListSet DEF StateOK, ServerOK
    <3> QED BY <1>3, <3>1 DEF Here
  <2>3. channel'[l] = Append(channel[l], m)
    BY <2>1, <2>2, BroadcastFacts DEF StateOK
  <2>4. displaced' = displaced /\ chat' \ before'[l] = SinceJoined(l)
    BY DEF SetMarks, SinceJoined
  <2>5. Carries(m, l, members, displaced, SinceJoined(l), members', displaced', chat' \ before'[l])
    BY <2>1, <2>4
  <2> QED BY <2>1, <2>2, <2>3, <2>5, ToldFollows
<1> QED BY <1>2, <1>3

LEMMA UpdateRoleKeeps ==
  ASSUME RosterInv, NEW i \in Ids, NEW role \in {"collaborator", "viewer"}, UpdateRole(i, role)
  PROVE  RosterInv'
<1> DEFINE marks == [role |-> role, direct |-> members[i].direct /\ role = "collaborator"]
           m == [type |-> "roleUpdated", id |-> i, role |-> role]
<1>1. /\ Change /\ Here(members, i) /\ members[i].role # "root"
      /\ SetMarks(i, marks) /\ channel' = Broadcast(members, m)
      /\ UNCHANGED <<ids, open, link, views, creating, joins, overtaken, chats>>
  BY DEF UpdateRole, Commands
<1>2. StateOK /\ members \in Lists /\ FitList(members)
      /\ \A c \in Clients : Follows(c) /\ StaysPut(c)
  BY <1>1 DEF RosterInv, StaysPut, InChat, Creating, chats, StateOK, ServerOK
<1>3. m \in Messages /\ m.type = "roleUpdated" /\ m.id = i /\ m.role = role /\ role \in Roles
  BY DEF Messages, Roles
<1>4. marks \in Marks /\ (marks.role = "viewer" => ~marks.direct)
  <2>1. members[i].direct \in BOOLEAN
    BY <1>2, ListFacts
  <2> QED BY <1>3, <2>1 DEF Marks
<1> HIDE DEF m
<1>5. ServerOK' /\ members' = Marked(members, i, marks)
  <2> HIDE DEF marks
  <2> QED BY <1>1, <1>2, <1>4, SetMarksFacts DEF StateOK
<1>6. ChannelsOK'
  BY <1>1, <1>2, <1>3, BroadcastFacts DEF StateOK, ChannelsOK
<1>7. ASSUME NEW l \in Ids
      PROVE  Carries(m, l, members, displaced, SinceJoined(l),
                     Marked(members, m.id, marks), displaced, SinceJoined(l))
  <2>1. members[m.id].role = "viewer" => ~members[m.id].direct
    BY <1>2, <1>3 DEF FitList
  <2>2. m.role # "root" /\ Here(members, m.id) /\ members[m.id].role # "root"
    BY <1>1, <1>3
  <2>3. marks = [role |-> m.role, direct |-> members[m.id].direct /\ m.role = "collaborator"]
    BY <1>3
  <2> HIDE DEF marks
  <2> QED BY <1>2, <1>3, <2>1, <2>2, <2>3, CarriesRole
<1> HIDE DEF marks
<1>8. \A c \in Clients : Follows(c)'
  BY <1>1, <1>2, <1>3, <1>4, <1>5, <1>7, MarkedFollows
<1>9. LinksOK' /\ ViewsOK' /\ JoinsOK' /\ ChatsOK' /\ CountsOK'
  BY <1>1, <1>2, ChangeCounts DEF StateOK, LinksOK, LinksApart, ViewsOK, JoinsOK, ChatsOK, chats
<1> QED BY <1>5, <1>6, <1>8, <1>9 DEF RosterInv, StateOK

\* The mode that a participant sets.
LEMMA SetEditModeFacts ==
  ASSUME StateOK, NEW i \in Ids, NEW direct \in BOOLEAN, SetEditMode(i, direct),
         members[i].role = "collaborator"
  PROVE  LET m == [type |-> "editModeUpdated", id |-> i, direct |-> direct]
             marks == [role |-> members[i].role, direct |-> direct]
         IN /\ ServerOK' /\ ChannelsOK' /\ m \in Messages /\ Here(members, i)
            /\ marks \in Marks /\ SetMarks(i, marks) /\ members' = Marked(members, i, marks)
            /\ channel' = Broadcast(members, m)
            /\ \A l \in Ids : Carries(m, l, members, displaced, SinceJoined(l),
                                      Marked(members, m.id, marks), displaced, SinceJoined(l))
<1> DEFINE m == [type |-> "editModeUpdated", id |-> i, direct |-> direct]
           marks == [role |-> members[i].role, direct |-> direct]
<1>1. members \in Lists /\ Here(members, i)
  BY ListFacts DEF StateOK, ServerOK
<1>2. marks \in Marks /\ marks.role = "collaborator" /\ [members[i] EXCEPT !.direct = direct] = marks
  BY <1>1, ListDirect
<1>3. m \in Messages /\ m.type = "editModeUpdated" /\ m.id = i /\ m.direct = direct
  BY DEF Messages
<1>4. SetMarks(i, [members[i] EXCEPT !.direct = direct]) /\ channel' = Broadcast(members, m)
  BY DEF SetEditMode
<1>5. SetMarks(i, marks)
  BY <1>2, <1>4
<1> HIDE DEF m
<1>6. ServerOK' /\ members' = Marked(members, i, marks)
  <2> HIDE DEF marks
  <2> QED BY <1>2, <1>5, SetMarksFacts DEF StateOK
<1>7. ChannelsOK'
  BY <1>3, <1>4, BroadcastFacts DEF StateOK, ChannelsOK
<1>8. ASSUME NEW l \in Ids
      PROVE  Carries(m, l, members, displaced, SinceJoined(l),
                     Marked(members, m.id, marks), displaced, SinceJoined(l))
  <2>1. marks = [role |-> members[m.id].role, direct |-> m.direct] /\ members[m.id].role = "collaborator"
    BY <1>3
  <2> HIDE DEF marks
  <2> QED BY <1>1, <1>3, <2>1, CarriesMode
<1> QED BY <1>1, <1>2, <1>3, <1>4, <1>5, <1>6, <1>7, <1>8 DEF m

\* The mode of the client that toggles it, once its view is what counts.
LEMMA ToggleSettles ==
  ASSUME StateOK, NEW c \in Clients, ToggleMode(c), IsSettled(c), Here(members, link[c])
  PROVE  IsSettled(c)'
<1> DEFINE l == link[c]
           direct == ~views[c].direct
           q == channel[l]
           heard == chat' \ before'[l]
           m == [type |-> "editModeUpdated", id |-> l, direct |-> direct]
           marks == [role |-> members[l].role, direct |-> direct]
<1>1. /\ views[c].role = "collaborator" /\ views[c].self = l /\ l \in Ids
      /\ views' = [views EXCEPT ![c].direct = ~@]
      /\ UNCHANGED <<link, creating, joins, overtaken, chats>>
  BY DEF ToggleMode, IsSettled, StateOK, LinksOK
<1>2. /\ views'[c].direct = direct /\ direct \in BOOLEAN /\ views[c] \in Views
      /\ views'[c].list = views[c].list /\ views'[c].role = views[c].role
      /\ views'[c].self = views[c].self /\ views'[c].inRoom = views[c].inRoom
  BY <1>1 DEF StateOK, ViewsOK, Views
<1>3. /\ ViewBase(c)'.list = ViewBase(c).list /\ ViewBase(c)'.role = ViewBase(c).role
      /\ ViewBase(c)'.seen = ViewBase(c).seen /\ ViewBase(c).role = "collaborator"
  BY <1>1, <1>2 DEF ViewBase, chats
<1>4. q \in Seq(Messages) /\ Leads(ViewBase(c), q, l, members, displaced, SinceJoined(l))
  BY <1>1 DEF StateOK, ChannelsOK, IsSettled
<1>5. SetEditMode(l, direct)
  BY <1>1, <1>2 DEF ToggleMode
<1>0. ~Creating(c)'
  <2>1. ~Creating(c)
    BY <1>1 DEF IsSettled
  <2> QED BY <1>1, <2>1 DEF Creating
<1> HIDE DEF direct
<1>6. CASE members[l].role = "collaborator"
  <2>1. /\ m \in Messages /\ Here(members, l) /\ members' = Marked(members, l, marks)
        /\ SetMarks(l, marks) /\ channel' = Broadcast(members, m)
        /\ Carries(m, l, members, displaced, SinceJoined(l),
                   Marked(members, m.id, marks), displaced, SinceJoined(l))
    BY <1>1, <1>2, <1>5, <1>6, SetEditModeFacts
  <2>2. m.id = l /\ TurnsMode(m, l)
    BY DEF TurnsMode
  <2>3. Linked(l)
    BY DEF Linked
  <2>4. channel'[l] = Append(q, m)
    BY <1>1, <2>1, <2>3, BroadcastFacts DEF StateOK
  <2>5. displaced' = displaced /\ heard = SinceJoined(l)
    BY <2>1 DEF SetMarks, SinceJoined
  <2> HIDE DEF m, q, marks, heard, l
  <2>6. Leads(ViewBase(c), Append(q, m), l, members', displaced', heard)
    <3>1. Carries(m, l, members, displaced, SinceJoined(l), members', displaced', heard)
      BY <2>1, <2>2, <2>5
    <3> QED BY <1>4, <3>1, LeadsOn
  <2>7. ~Unturned(Append(q, m), l, 0)
    <3>1. /\ DOMAIN Append(q, m) = 1 .. Len(q) + 1 /\ Append(q, m)[Len(q) + 1] = m /\ Len(q) \in Nat
      BY <1>4, <2>1, AppendFacts
    <3>2. Len(q) + 1 \in 1 .. Len(q) + 1 /\ Len(q) + 1 > 0
      BY <3>1
    <3> QED BY <2>2, <3>1, <3>2 DEF Unturned
  <2>8. Leads(ViewBase(c)', Append(q, m), l, members', displaced', heard)
    BY <1>3, <2>6, <2>7, LeadsTurned
  <2> QED BY <1>0, <1>1, <1>2, <2>4, <2>8 DEF IsSettled, SinceJoined, heard, l
<1>7. CASE members[l].role # "collaborator"
  <2>1. UNCHANGED <<server, channel>>
    BY <1>5, <1>7 DEF SetEditMode
  <2>2. ~Unturned(q, l, 0)
    BY <1>3, <1>4, <1>7, LeadsTells
  <2>3. Leads(ViewBase(c)', q, l, members, displaced, SinceJoined(l))
    BY <1>3, <1>4, <2>2, LeadsTurned
  <2> QED BY <1>0, <1>1, <1>2, <2>1, <2>3 DEF IsSettled, SinceJoined, server
<1> QED BY <1>6, <1>7

LEMMA ToggleModeKeeps ==
  ASSUME RosterInv, NEW c \in Clients, ToggleMode(c)
  PROVE  RosterInv'
<1> DEFINE i == link[c]
           v == [views[c] EXCEPT !.direct = ~@]
           direct == views'[c].direct
<1>1. /\ Change /\ views[c].role = "collaborator" /\ views[c].self # NoId
      /\ views' = [views EXCEPT ![c].direct = ~@]
      /\ \/ i = views[c].self /\ SetEditMode(i, direct)
         \/ i # views[c].self /\ UNCHANGED <<server, channel>>
      /\ UNCHANGED <<ids, open, link, creating, joins, overtaken, chats>>
  BY DEF ToggleMode
<1>2. StateOK /\ i \in Ids \cup {NoId}
  BY DEF RosterInv, StateOK, LinksOK
<1>3. views' = [views EXCEPT ![c] = v] /\ IsFit(v) /\ v.direct \in BOOLEAN
      /\ v.inRoom = views[c].inRoom /\ v.self = views[c].self
      /\ v.role = views[c].role /\ v.list = views[c].list
  <2>1. views[c] \in Views
    BY <1>2 DEF StateOK, ViewsOK
  <2>2. v \in Views /\ v.role = views[c].role
    BY <2>1 DEF Views
  <2> QED BY <1>1, <2>1, <2>2 DEF IsFit, Views
<1> HIDE DEF v
<1>4. ViewsOK' /\ views'[c] = v /\ \A d \in Clients : d # c => views'[d] = views[d]
  BY <1>2, <1>3, ViewFits DEF StateOK
<1>5. LinksOK' /\ JoinsOK' /\ ChatsOK' /\ CountsOK'
  BY <1>1, <1>2, ChangeCounts DEF StateOK, LinksOK, LinksApart, JoinsOK, ChatsOK, chats
<1>6. \A d \in Clients : d # c \/ ~IsSettled(d) => StaysPut(d)
  BY <1>1, <1>3, <1>4 DEF StaysPut, InChat, Creating, chats
<1>7. ASSUME NEW d \in Clients, d = c, IsSettled(d) PROVE Follows(d)'
  <2>1. CASE Here(members, i)
    BY <1>2, <1>7, <2>1, ToggleSettles DEF Follows
  <2>2. CASE ~Here(members, i)
    <3>1. i # NoId => members[i] = Absent
      BY <1>2, <2>2 DEF Here
    <3>2. i # NoId => ~Here(members', i)
      <4>1. CASE UNCHANGED <<server, channel>>
        BY <2>2, <4>1 DEF server
      <4>2. CASE SetEditMode(i, direct) /\ i # NoId
        <5>1. members[i].role # "collaborator"
          BY <3>1, <4>2 DEF Absent
        <5> QED BY <2>2, <4>2, <5>1 DEF SetEditMode, server
      <4> QED BY <1>1, <4>1, <4>2
    <3> QED BY <1>1, <1>7, <3>2 DEF Follows
  <2> QED BY <2>1, <2>2
<1>8. CASE i = views[c].self /\ SetEditMode(i, direct) /\ members[i].role = "collaborator"
  <2> DEFINE m == [type |-> "editModeUpdated", id |-> i, direct |-> direct]
             marks == [role |-> members[i].role, direct |-> direct]
  <2>1. i \in Ids /\ direct \in BOOLEAN
    BY <1>1, <1>2, <1>3, <1>4, <1>8
  <2>2. /\ ServerOK' /\ ChannelsOK' /\ m \in Messages /\ Here(members, i)
        /\ marks \in Marks /\ SetMarks(i, marks) /\ members' = Marked(members, i, marks)
        /\ channel' = Broadcast(members, m)
        /\ \A l \in Ids : Carries(m, l, members, displaced, SinceJoined(l),
                                  Marked(members, m.id, marks), displaced, SinceJoined(l))
    BY <1>2, <1>8, <2>1, SetEditModeFacts
  <2>3. m.id = i
    OBVIOUS
  <2> HIDE DEF m, marks
  <2>4. ASSUME NEW d \in Clients, StaysPut(d) PROVE Follows(d)'
    <3>1. Follows(d)
      BY <2>4 DEF RosterInv
    <3> QED BY <1>2, <2>1, <2>2, <2>3, <2>4, <3>1, MarkedFollows
  <2>5. \A d \in Clients : Follows(d)'
    BY <1>6, <1>7, <2>4
  <2> QED BY <1>4, <1>5, <2>2, <2>5 DEF RosterInv, StateOK
<1>9. CASE UNCHANGED <<server, channel>>
  <2>1. ServerOK' /\ ChannelsOK'
    BY <1>2, <1>9 DEF StateOK, ServerOK, ChannelsOK, FitList, server
  <2>2. ASSUME NEW d \in Clients, StaysPut(d) PROVE Follows(d)'
    BY <1>9, <2>2, QuietFollows DEF RosterInv, server
  <2>3. \A d \in Clients : Follows(d)'
    BY <1>6, <1>7, <2>2
  <2> QED BY <1>4, <1>5, <2>1, <2>3 DEF RosterInv, StateOK
<1>10. CASE SetEditMode(i, direct) /\ members[i].role # "collaborator"
  <2>1. UNCHANGED <<server, channel>>
    BY <1>10 DEF SetEditMode
  <2> QED BY <1>9, <2>1
<1> QED BY <1>1, <1>8, <1>9, <1>10

-------------------------------------------------------------------------------
\* Chat

LEMMA SendChatMessageKeeps ==
  ASSUME RosterInv, NEW c \in Clients, SendChatMessage(c)
  PROVE  RosterInv'
<1> DEFINE n == said + 1
           i == link[c]
           m == [type |-> "chatMessage", n |-> n]
<1>1. /\ said' = n /\ said < MaxChat /\ changes' = changes + 1
      /\ AddMessage(c, n) /\ HandleChatSend(i, n)
      /\ UNCHANGED <<members, sessions, sessionOf, displaced, before>>
      /\ UNCHANGED <<ids, open, link, views, creating, joins, overtaken, drops>>
  BY DEF SendChatMessage
<1>2. StateOK /\ \A d \in Clients : Follows(d)
  BY DEF RosterInv
<1>3. n \in Chats /\ CountsOK'
  BY <1>1, <1>2, RosterConstants DEF StateOK, CountsOK, Chats
<1> HIDE DEF n
<1>4. m \in Messages /\ m.type = "chatMessage" /\ m.n = n
  BY <1>3 DEF Messages
<1> HIDE DEF m
<1>5. ChatsOK' /\ \A d \in Clients : shown[d] \subseteq shown'[d] /\ (InChat(d) => InChat(d)')
  BY <1>1, <1>2, <1>3 DEF StateOK, ChatsOK, AddMessage, InChat
<1>6. \A d \in Clients : StaysPut(d)
  BY <1>1, <1>5 DEF StaysPut, Creating
<1>7. LinksOK' /\ ViewsOK' /\ JoinsOK'
  BY <1>1, <1>2 DEF StateOK, LinksOK, LinksApart, ViewsOK, JoinsOK
<1>8. CASE Here(members, i) /\ members[i].role # "viewer"
  <2>1. chat' = chat \cup {n} /\ channel' = Broadcast(members, m)
    BY <1>8, <1>1 DEF HandleChatSend, Heard, m
  <2>2. ServerOK' /\ ChannelsOK'
    <3>1. ServerOK'
      BY <1>1, <1>2, <1>3, <2>1 DEF StateOK, ServerOK, FitList
    <3>2. channel' \in [Ids -> Seq(Messages)]
      BY <1>2, <1>4, <2>1, BroadcastFacts DEF StateOK
    <3> QED BY <3>1, <3>2 DEF ChannelsOK
  <2>3. ASSUME NEW d \in Clients PROVE Follows(d)'
    <3> DEFINE l == link[d]
    <3>1. link'[d] = l /\ l \in Ids \cup {NoId} /\ members' = members
      BY <1>1, <1>2 DEF StateOK, LinksOK
    <3>2. CASE ~(l # NoId /\ Here(members, l))
      BY <3>1, <3>2 DEF Follows
    <3>3. CASE l # NoId /\ Here(members, l)
      <4>1. l \in Ids /\ Linked(l)
        BY <3>1, <3>3 DEF Linked
      <4>2. channel'[l] = Append(channel[l], m)
        BY <1>2, <1>4, <2>1, <3>3, <4>1, BroadcastFacts DEF StateOK
      <4>3. chat' \ before'[l] \subseteq SinceJoined(l) \cup {m.n}
        BY <1>1, <1>4, <2>1 DEF SinceJoined
      <4> HIDE DEF l
      <4>4. Carries(m, l, members, displaced, SinceJoined(l), members, displaced, chat' \ before'[l])
        BY <1>4, <4>3, CarriesChat
      <4>5. Carries(m, l, members, displaced, SinceJoined(l), members', displaced', chat' \ before'[l])
        BY <1>1, <4>4
      <4> QED BY <1>2, <1>6, <3>3, <4>1, <4>2, <4>5, ToldFollows DEF l
    <3> QED BY <3>2, <3>3
  <2> QED BY <1>3, <1>5, <1>7, <2>2, <2>3 DEF RosterInv, StateOK
<1>9. CASE ~(Here(members, i) /\ members[i].role # "viewer")
  <2>1. UNCHANGED <<chat, channel>>
    BY <1>1, <1>9 DEF HandleChatSend
  <2>2. ServerOK' /\ ChannelsOK'
    BY <1>1, <1>2, <2>1 DEF StateOK, ServerOK, ChannelsOK, FitList
  <2>3. \A d \in Clients : Follows(d)'
    BY <1>1, <1>2, <1>6, <2>1, QuietFollows
  <2> QED BY <1>3, <1>5, <1>7, <2>2, <2>3 DEF RosterInv, StateOK
<1> QED BY <1>8, <1>9

-------------------------------------------------------------------------------
\* Connections and joins

LEMMA DropKeeps ==
  ASSUME RosterInv, NEW c \in Clients, Drop(c)
  PROVE  RosterInv'
<1>1. /\ link[c] # NoId /\ drops' = drops + 1
      /\ channel' = [channel EXCEPT ![link[c]] = << >>] /\ link' = [link EXCEPT ![c] = NoId]
      /\ UNCHANGED <<server, ids, open, views, creating, joins, overtaken, chats, changes, said>>
  BY DEF Drop
<1>2. StateOK /\ \A d \in Clients : Follows(d)
  BY DEF RosterInv
<1>3. ServerOK' /\ ViewsOK' /\ JoinsOK' /\ ChatsOK' /\ CountsOK'
  BY <1>1, <1>2 DEF StateOK, ServerOK, FitList, ViewsOK, JoinsOK, ChatsOK, CountsOK, server, chats
<1>4. link'[c] = NoId /\ \A d \in Clients : d # c => link'[d] = link[d]
  BY <1>1, <1>2 DEF StateOK, LinksOK
<1>5. LinksOK'
  <2>1. link' \in [Clients -> Ids \cup {NoId}] /\ ids' = ids /\ open' = open /\ ids \in Nat /\ 0 =< ids
    BY <1>1, <1>2, IdsFacts DEF StateOK, LinksOK, Ids
  <2>2. LinksApart'
    BY <1>2, <1>4, <2>1 DEF StateOK, LinksOK, LinksApart, NoId
  <2> QED BY <1>2, <2>1, <2>2 DEF StateOK, LinksOK
<1>6. ChannelsOK' /\ \A l \in Ids : l # link[c] => channel'[l] = channel[l]
  <2>1. << >> \in Seq(Messages)
    OBVIOUS
  <2> QED BY <1>1, <1>2, <2>1 DEF StateOK, ChannelsOK
<1>7. ASSUME NEW d \in Clients PROVE Follows(d)'
  <2>1. CASE d = c
    BY <1>4, <2>1 DEF Follows
  <2>2. CASE d # c
    <3>1. StaysPut(d)
      BY <1>1, <1>4, <2>2 DEF StaysPut, InChat, Creating, chats
    <3>2. link[d] # NoId => channel'[link[d]] = channel[link[d]]
      BY <1>1, <1>2, <1>6, <2>2 DEF StateOK, LinksOK, LinksApart
    <3> QED BY <1>1, <1>2, <3>1, <3>2, QuietFollows DEF server
  <2> QED BY <2>1, <2>2
<1> QED BY <1>3, <1>5, <1>6, <1>7 DEF RosterInv, StateOK

\* Those who stay are told of one who joins.
LEMMA JoinRoomOthers ==
  ASSUME StateOK, NEW c \in Clients, NEW i \in Ids, NEW token \in Ids \cup {NoId},
         JoinRoom(c, i, token), NEW d \in Clients, link[d] # i, StaysPut(d), Follows(d)
  PROVE  Follows(d)'
<1> DEFINE l == link[d]
           marks == Resolved(token)
           m == NewsOf(i, marks)
<1>1. link'[d] = l /\ l \in Ids \cup {NoId}
  BY DEF StaysPut, StateOK, LinksOK
<1>2. /\ ServerOK' /\ marks \in Marks /\ m \in Messages /\ members'[i] = marks
      /\ \A j \in Ids : j # i =>
           members'[j] = members[j] \/ (members'[j] = Absent /\ j \in displaced')
      /\ displaced \subseteq displaced' \cup {i}
      /\ \A j \in Ids : j # i /\ Here(members', j) /\ Linked(j) =>
           channel'[j] = Append(channel[j], m)
      /\ chat' = chat
      /\ \A j \in Ids : j # i => before'[j] = before[j]
  BY JoinRoomFacts DEF StateOK
<1>3. CASE ~(l # NoId /\ Here(members', l))
  BY <1>1, <1>3 DEF Follows
<1>4. CASE l # NoId /\ Here(members', l)
  <2>1. l \in Ids /\ Linked(l) /\ l # i
    BY <1>1, <1>4 DEF Linked
  <2>2. members'[l] = members[l] /\ channel'[l] = Append(channel[l], m)
    BY <1>2, <1>4, <2>1 DEF Here
  <2>3. Here(members, l)
    BY <1>4, <2>2 DEF Here
  <2>4. m.type = "participantJoined" /\ m.id = i /\ m.marks = marks
    BY DEF NewsOf
  <2>5. chat' \ before'[l] = SinceJoined(l) /\ members \in Lists /\ members' \in Lists
    BY <1>2, <2>1 DEF SinceJoined, StateOK, ServerOK
  <2> HIDE DEF m, marks, l
  <2>6. Carries(m, l, members, displaced, SinceJoined(l), members', displaced', SinceJoined(l))
    BY <1>2, <2>1, <2>2, <2>4, <2>5, CarriesJoined
  <2>7. Carries(m, l, members, displaced, SinceJoined(l), members', displaced', chat' \ before'[l])
    BY <2>5, <2>6
  <2> QED BY <1>2, <2>1, <2>2, <2>3, <2>7, ToldFollows DEF l
<1> QED BY <1>3, <1>4

\* The one who joins is sent what it needs.
LEMMA JoinRoomOwn ==
  ASSUME StateOK, NEW c \in Clients, NEW i \in Ids, NEW token \in Ids \cup {NoId},
         JoinRoom(c, i, token), link'[c] = i
  PROVE  Follows(c)'
<1> DEFINE marks == Resolved(token)
           m == JoinedMessage(i, SessionFor(i, token), members')
           q == channel[i]
           heard == chat' \ before'[i]
<1>1. /\ ServerOK' /\ marks \in Marks /\ m \in Messages /\ members'[i] = marks
      /\ channel'[i] = Append(q, m) /\ chat' = chat /\ before'[i] = chat /\ q \in Seq(Messages)
  BY JoinRoomFacts DEF StateOK, ChannelsOK
<1>2. m.type = "joinedRoom" /\ m.id = i /\ m.role = marks.role /\ m.list = members'
  BY <1>1 DEF JoinedMessage
<1> HIDE DEF marks, m
<1>3. members' \in Lists /\ marks.role \in Roles /\ members'[i].direct \in BOOLEAN
  BY <1>1 DEF ServerOK, Marks
<1> DEFINE base == JoinBase(m)
           k == Len(q) + 1
<1>4. /\ base.list = members' /\ base.role = members'[i].role
      /\ base.direct = EditsDirectly(members', i) /\ base.seen = {}
  BY <1>1, <1>2 DEF JoinBase
<1>5. IsBase(base)
  BY <1>1, <1>3, <1>4 DEF IsBase, EditsDirectly
<1> HIDE DEF base
<1>6. Agrees([list |-> base.list, role |-> base.role], i, members', displaced')
  BY <1>4 DEF Agrees
<1>7. heard = {}
  BY <1>1
<1>8. Leads(base, << >>, i, members', displaced', heard)
  BY <1>4, <1>5, <1>6, <1>7, LeadsNow
<1>9. /\ After(Append(q, m), k) = << >> /\ k \in DOMAIN Append(q, m) /\ Append(q, m)[k] = m
  BY <1>1, AfterFacts
<1> HIDE DEF heard, k, q
<1>10. JoinIsSent(c)'
  BY <1>1, <1>2, <1>8, <1>9 DEF JoinIsSent, SinceJoined, heard, base
<1> QED BY <1>10 DEF Follows

LEMMA ConnectKeeps ==
  ASSUME RosterInv, NEW c \in Clients, Connect(c)
  PROVE  RosterInv'
<1> DEFINE i == ids + 1
           token == views[c].token
<1>1. /\ link[c] = NoId /\ ids < MaxIds /\ ids' = i /\ open' = open \cup {i}
      /\ link' = [link EXCEPT ![c] = i] /\ JoinRoom(c, i, token)
      /\ UNCHANGED <<views, creating, joins, overtaken, chats, counts>>
  BY DEF Connect
<1>2. StateOK /\ (\A d \in Clients : Follows(d)) /\ ids \in 1 .. MaxIds /\ token \in Ids \cup {NoId}
  BY DEF RosterInv, StateOK, LinksOK, ViewsOK, Views, Ids
<1>3. i \in Ids /\ \A d \in Clients : link[d] \in Nat /\ link[d] # i /\ link[d] =< ids
  BY <1>1, <1>2, IdsFacts DEF StateOK, LinksOK, LinksApart, Ids, NoId
<1>4. link'[c] = i /\ \A d \in Clients : d # c => link'[d] = link[d]
  BY <1>1, <1>2 DEF StateOK, LinksOK
<1>5. LinksOK'
  <2>1. \A d \in Clients : link'[d] =< i
    BY <1>2, <1>3, <1>4
  <2>2. LinksApart'
    <3>1. ASSUME NEW d \in Clients, NEW e \in Clients, link'[d] = link'[e], link'[d] # NoId
          PROVE  d = e
      BY <1>2, <1>3, <1>4, <3>1 DEF StateOK, LinksOK, LinksApart
    <3> QED BY <1>1, <2>1, <3>1 DEF LinksApart
  <2> QED BY <1>1, <1>2, <1>3, <2>2 DEF StateOK, LinksOK
<1> HIDE DEF i
<1>6. ServerOK' /\ ChannelsOK'
  BY <1>1, <1>2, <1>3, JoinRoomFacts DEF StateOK
<1>7. ViewsOK' /\ JoinsOK' /\ ChatsOK' /\ CountsOK'
  BY <1>1, <1>2 DEF StateOK, ViewsOK, JoinsOK, ChatsOK, CountsOK, chats, counts
<1>8. \A d \in Clients : d # c => StaysPut(d)
  BY <1>1, <1>4 DEF StaysPut, InChat, Creating, chats
<1>9. ASSUME NEW d \in Clients PROVE Follows(d)'
  <2>1. CASE d = c
    BY <1>1, <1>2, <1>3, <1>4, <2>1, JoinRoomOwn
  <2>2. CASE d # c
    BY <1>1, <1>2, <1>3, <1>8, <2>2, JoinRoomOthers
  <2> QED BY <2>1, <2>2
<1> QED BY <1>5, <1>6, <1>7, <1>9 DEF RosterInv, StateOK

LEMMA JoinAgainKeeps ==
  ASSUME RosterInv, NEW c \in Clients, JoinAgain(c)
  PROVE  RosterInv'
<1> DEFINE i == link[c]
           v == [views[c] EXCEPT !.intent = TRUE, !.token = NoId]
<1>1. /\ i # NoId /\ JoinRoom(c, i, NoId)
      /\ views' = [views EXCEPT ![c].intent = TRUE, ![c].token = NoId]
      /\ UNCHANGED <<ids, open, link, creating, joins, overtaken, chats, counts>>
  BY DEF JoinAgain
<1>2. StateOK /\ (\A d \in Clients : Follows(d)) /\ i \in Ids
  BY <1>1 DEF RosterInv, StateOK, LinksOK
<1>3. views' = [views EXCEPT ![c] = v] /\ IsFit(v)
  <2>1. views[c] \in Views
    BY <1>2 DEF StateOK, ViewsOK
  <2>2. v \in Views /\ v.direct = views[c].direct /\ v.role = views[c].role
    BY <2>1 DEF Views
  <2> QED BY <1>1, <1>2, <2>2 DEF IsFit, StateOK, ViewsOK
<1> HIDE DEF v
<1>4. ViewsOK' /\ \A d \in Clients : d # c => views'[d] = views[d]
  BY <1>2, <1>3, ViewFits DEF StateOK
<1>5. ServerOK' /\ ChannelsOK'
  BY <1>1, <1>2, JoinRoomFacts DEF StateOK
<1>6. LinksOK' /\ JoinsOK' /\ ChatsOK' /\ CountsOK'
  BY <1>1, <1>2 DEF StateOK, LinksOK, LinksApart, JoinsOK, ChatsOK, CountsOK, chats, counts
<1>7. \A d \in Clients : d # c => StaysPut(d) /\ link[d] # i
  BY <1>1, <1>2, <1>4 DEF StaysPut, InChat, Creating, chats, StateOK, LinksOK, LinksApart
<1>8. ASSUME NEW d \in Clients PROVE Follows(d)'
  <2>1. CASE d = c
    BY <1>1, <1>2, <2>1, JoinRoomOwn
  <2>2. CASE d # c
    BY <1>1, <1>2, <1>7, <2>2, JoinRoomOthers
  <2> QED BY <2>1, <2>2
<1> QED BY <1>4, <1>5, <1>6, <1>8 DEF RosterInv, StateOK

-------------------------------------------------------------------------------
\* The clients' handlers

\* joinedRoom, up to its first await.
LEMMA JoinedRoomFits ==
  ASSUME ViewsOK, JoinsOK, ChatsOK, NEW c \in Clients, NEW m \in Messages, JoinedRoom(c, m)
  PROVE  LET join == [stage |-> "naming", id |-> m.id, role |-> m.role, session |-> m.session,
                      list |-> m.list]
         IN /\ m.type = "joinedRoom"
            /\ ViewsOK' /\ ChatsOK' /\ joins' \in [Clients -> Seq(Joins)]
            /\ joins'[c] = Append(joins[c], join)
            /\ \A d \in Clients : d # c =>
                 views'[d] = views[d] /\ joins'[d] = joins[d] /\ ChatStays(d)
<1> DEFINE join == [stage |-> "naming", id |-> m.id, role |-> m.role, session |-> m.session,
                    list |-> m.list]
           v == [Outside EXCEPT !.intent = views[c].intent, !.token = views[c].token]
<1>1. m.type = "joinedRoom" /\ joins' = [joins EXCEPT ![c] = Append(@, join)]
  BY DEF JoinedRoom
<1>2. join \in Joins
  BY <1>1, MessageFacts DEF Joins
<1> HIDE DEF join
<1>3. /\ joins' \in [Clients -> Seq(Joins)] /\ joins'[c] = Append(joins[c], join)
      /\ \A d \in Clients : d # c => joins'[d] = joins[d]
  BY <1>1, <1>2 DEF JoinsOK
<1>4. /\ ViewsOK' /\ ChatsOK'
      /\ \A d \in Clients : d # c => views'[d] = views[d] /\ ChatStays(d)
  <2>1. CASE UNCHANGED <<views, chats>>
    BY <2>1 DEF ViewsOK, ChatsOK, ChatStays, InChat, chats
  <2>2. CASE views' = [views EXCEPT ![c] = v] /\ Clear(c)
    <3>1. IsFit(v)
      BY OutsideFits DEF IsFit, Views, Outside, ViewsOK
    <3> HIDE DEF v
    <3> QED BY <2>2, <3>1, ViewFits, ClearFits
  <2> QED BY <2>1, <2>2 DEF JoinedRoom
<1> QED BY <1>1, <1>3, <1>4 DEF join

\* The messages that change the list or the mode.
LEMMA ListChangedFits ==
  ASSUME ViewsOK, NEW c \in Clients, NEW m \in Messages, ListChanged(c, m)
  PROVE  /\ ViewsOK' /\ Takes1(views[c], m, views'[c])
         /\ \A d \in Clients : d # c => views'[d] = views[d]
         /\ m.type \in {"participantJoined", "participantLeft", "roleUpdated", "editModeUpdated"}
         /\ UNCHANGED <<joins, chats>>
<1>1. IsFit(views[c])
  BY DEF ViewsOK, IsFit
<1>2. ASSUME NEW w, Takes1(views[c], m, w), views' = [views EXCEPT ![c] = w]
      PROVE  /\ ViewsOK' /\ Takes1(views[c], m, views'[c])
             /\ \A d \in Clients : d # c => views'[d] = views[d]
  <2>1. IsFit(w)
    BY <1>2 DEF Takes1
  <2>2. ViewsOK' /\ views'[c] = w /\ \A d \in Clients : d # c => views'[d] = views[d]
    BY <1>2, <2>1, ViewFits
  <2> QED BY <1>2, <2>2
<1>3. CASE m.type = "participantJoined" /\ views' = [views EXCEPT ![c] = AddParticipant(@, m.id, m.marks)]
  BY <1>1, <1>2, <1>3, AddTakes DEF ListChanged
<1>4. CASE m.type = "participantLeft" /\ views' = [views EXCEPT ![c] = RemovedParticipant(@, m.id)]
  BY <1>1, <1>2, <1>4, LeftTakes DEF ListChanged
<1>5. CASE m.type = "roleUpdated" /\ views' = [views EXCEPT ![c] = UpdateParticipantRole(@, m.id, m.role)]
  BY <1>1, <1>2, <1>5, RoleTakes DEF ListChanged
<1>6. CASE m.type = "editModeUpdated"
             /\ views' = [views EXCEPT ![c] = UpdateParticipantMode(@, m.id, m.direct)]
  BY <1>1, <1>2, <1>6, ModeTakes DEF ListChanged
<1> QED BY <1>3, <1>4, <1>5, <1>6 DEF ListChanged

\* A chat message is shown.
LEMMA ChatMessageFits ==
  ASSUME ChatsOK, NEW c \in Clients, NEW m \in Messages, ChatMessage(c, m)
  PROVE  /\ m.type = "chatMessage" /\ UNCHANGED <<views, joins>>
         /\ ChatsOK' /\ shown'[c] = shown[c] \cup {m.n} /\ (InChat(c) => InChat(c)')
         /\ \A d \in Clients : d # c => ChatStays(d)
<1>1. m.type = "chatMessage" /\ m.n \in Chats
  BY MessageFacts DEF ChatMessage
<1> QED BY <1>1 DEF ChatMessage, ChatsOK, AddMessage, ChatStays, InChat

\* A joinedRoom that the client has yet to take is still there, or is being handled.
LEMMA SentIsTaken ==
  ASSUME NEW c \in Clients, NEW l \in Ids, l = link[c], link'[c] = l, channel[l] \in Seq(Messages),
         channel[l] # << >>, channel'[l] = Tail(channel[l]),
         UNCHANGED <<members, displaced, chat, before>>,
         JoinIsSent(c), joins[c] \in Seq(Joins),
         NEW m, m = Head(channel[l]),
         m.type = "joinedRoom" =>
           /\ joins'[c] = Append(joins[c], [stage |-> "naming", id |-> m.id, role |-> m.role,
                                            session |-> m.session, list |-> m.list])
           /\ overtaken'[c] = (joins[c] # << >> \/ (Creating(c) /\ Denies(m))),
         Creating(c)' => Creating(c)
  PROVE  JoinIsSent(c)' \/ JoinIsOvertaken(c)' \/ JoinIsHandled(c)'
<1> DEFINE q == channel[l]
           t == Tail(q)
<1>1. PICK k \in DOMAIN q :
        /\ q[k].type = "joinedRoom" /\ q[k].id = l /\ q[k].role = q[k].list[l].role
        /\ Leads(JoinBase(q[k]), After(q, k), l, members, displaced, SinceJoined(l))
  BY DEF JoinIsSent
<1>2. SinceJoined(l)' = SinceJoined(l)
  BY DEF SinceJoined
<1>3. CASE k # 1
  <2>1. k - 1 \in DOMAIN t /\ t[k - 1] = q[k] /\ After(t, k - 1) = After(q, k)
    BY <1>3, AfterTail
  <2>2. Leads(JoinBase(t[k - 1]), After(t, k - 1), l, members, displaced, SinceJoined(l))
    BY <1>1, <2>1
  <2> HIDE DEF t, q
  <2>3. channel'[link'[c]] = t /\ link'[c] = l
    BY DEF t, q
  <2> QED BY <1>1, <1>2, <2>1, <2>2, <2>3 DEF JoinIsSent
<1>4. CASE k = 1
  <2>1. After(q, k) = t /\ q[k] = m /\ t \in Seq(Messages)
    BY <1>4, AfterTail, TailFacts
  <2>2. /\ m.type = "joinedRoom" /\ m.id = l /\ m.role = m.list[l].role
        /\ Leads(JoinBase(m), t, l, members, displaced, SinceJoined(l))
    BY <1>1, <2>1
  <2> DEFINE join == [stage |-> "naming", id |-> m.id, role |-> m.role, session |-> m.session,
                      list |-> m.list]
  <2>3. /\ joins'[c] = Append(joins[c], join)
        /\ overtaken'[c] = (joins[c] # << >> \/ (Creating(c) /\ Denies(m)))
    BY <2>2
  <2>4. /\ join.id = l /\ join.role = join.list[l].role /\ join.stage = "naming"
        /\ JoinBase(join) = JoinBase(m)
        /\ ~Denies(m) => join.id = 1 /\ join.role = "root"
    BY <2>2 DEF JoinBase, Denies
  <2> HIDE DEF join, t
  <2>5. CASE joins[c] = << >> /\ ~(Creating(c) /\ Denies(m))
    <3>0. Append(<< >>, join) = <<join>> /\ Len(<<join>>) = 1 /\ <<join>>[1] = join
      OBVIOUS
    <3>1. Len(joins'[c]) = 1 /\ joins'[c][1] = join /\ ~overtaken'[c]
      BY <2>3, <2>5, <3>0
    <3>2. Creating(c)' => join.id = 1 /\ join.role = "root"
      BY <2>4, <2>5
    <3>3. JoinIsHandled(c)'
      BY <1>2, <2>2, <2>4, <3>1, <3>2 DEF JoinIsHandled, t
    <3> QED BY <3>3
  <2>6. CASE joins[c] # << >> \/ (Creating(c) /\ Denies(m))
    <3>1. \A j \in DOMAIN t : t[j].type # "joinedRoom"
      BY <2>2 DEF Leads, IsTame
    <3>2. JoinIsOvertaken(c)'
      BY <2>3, <2>6, <3>1 DEF JoinIsOvertaken, t
    <3> QED BY <3>2
  <2> QED BY <2>5, <2>6
<1> QED BY <1>3, <1>4

\* What is to be taken next moves the view on.
LEMMA SettledTakes ==
  ASSUME StateOK, NEW c \in Clients, NEW l \in Ids, l = link[c], link'[c] = l,
         channel[l] # << >>, channel'[l] = Tail(channel[l]),
         UNCHANGED <<members, displaced, chat, before>>,
         IsSettled(c), joins'[c] = << >>, ~overtaken'[c],
         NEW m, m = Head(channel[l]),
         Creating(c)' => Creating(c) /\ ~Denies(m), InChat(c) => InChat(c)',
         \/ Takes1(views[c], m, views'[c]) /\ shown'[c] = shown[c] /\ m.type # "chatMessage"
         \/ m.type = "chatMessage" /\ views'[c] = views[c] /\ shown'[c] = shown[c] \cup {m.n}
  PROVE  IsSettled(c)'
<1> DEFINE q == channel[l]
           base == ViewBase(c)
           next == ViewBase(c)'
<1>1. q \in Seq(Messages) /\ Leads(base, q, l, members, displaced, SinceJoined(l))
  BY DEF StateOK, ChannelsOK, IsSettled
<1>2. /\ base.list = views[c].list /\ base.role = views[c].role
      /\ base.direct = views[c].direct /\ base.seen = shown[c]
      /\ next.list = views'[c].list /\ next.role = views'[c].role
      /\ next.direct = views'[c].direct /\ next.seen = shown'[c]
  BY DEF ViewBase
<1> HIDE DEF base, next
<1>3. IsTame(m, l) /\ (m.type = "editModeUpdated" /\ m.id = l => base.role = "collaborator")
  BY <1>1, LeadsHead
<1>4. views[c].self = l /\ views[c].inRoom
  BY DEF IsSettled
<1>5. ASSUME /\ next.list = ListAfter(base.list, m)
             /\ next.role = IF m.type = "roleUpdated" /\ m.id = l THEN m.role ELSE base.role
             /\ TurnsMode(m, l) => next.direct = ModeOf(m)
             /\ ~TurnsMode(m, l) => next.direct = base.direct
             /\ base.seen \cup {n \in Chats : m.type = "chatMessage" /\ m.n = n} \subseteq next.seen
             /\ views'[c].self = l /\ views'[c].inRoom
      PROVE  IsSettled(c)'
  <2>1. Leads(next, Tail(q), l, members, displaced, SinceJoined(l))
    BY <1>1, <1>5, LeadsAfter
  <2>2. SinceJoined(l)' = SinceJoined(l)
    BY DEF SinceJoined
  <2>3. Creating(c)' => l = 1 /\ views'[c].role = "root" /\ InChat(c)'
    BY <1>2, <1>5 DEF IsSettled, Denies
  <2> QED BY <1>5, <2>1, <2>2, <2>3 DEF IsSettled, next
<1>6. CASE Takes1(views[c], m, views'[c]) /\ shown'[c] = shown[c] /\ m.type # "chatMessage"
  <2>1. /\ views'[c].self = l /\ views'[c].inRoom
        /\ next.list = ListAfter(base.list, m)
        /\ next.role = IF m.type = "roleUpdated" /\ m.id = l THEN m.role ELSE base.role
        /\ ~TurnsMode(m, l) => next.direct = base.direct
    BY <1>2, <1>3, <1>4, <1>6 DEF Takes1
  <2>2. TurnsMode(m, l) => next.direct = ModeOf(m)
    <3>1. TurnsMode(m, l) /\ m.type = "editModeUpdated" => views[c].role = "collaborator"
      BY <1>2, <1>3 DEF TurnsMode
    <3> QED BY <1>2, <1>3, <1>4, <1>6, <3>1 DEF Takes1
  <2>3. base.seen \cup {n \in Chats : m.type = "chatMessage" /\ m.n = n} \subseteq next.seen
    BY <1>2, <1>6
  <2> QED BY <1>5, <2>1, <2>2, <2>3
<1>7. CASE m.type = "chatMessage" /\ views'[c] = views[c] /\ shown'[c] = shown[c] \cup {m.n}
  <2>1. ListAfter(base.list, m) = base.list /\ ~TurnsMode(m, l)
    BY <1>7 DEF ListAfter, TurnsMode
  <2>2. base.seen \cup {n \in Chats : m.type = "chatMessage" /\ m.n = n} \subseteq next.seen
    BY <1>2, <1>7
  <2> QED BY <1>2, <1>4, <1>5, <1>7, <2>1, <2>2
<1> QED BY <1>6, <1>7

LEMMA RemovedFits ==
  ASSUME ViewsOK, ChatsOK, NEW c \in Clients, NEW m, Removed(c, m)
  PROVE  /\ m.type = "removed" /\ ViewsOK' /\ ChatsOK' /\ joins' = joins
         /\ \A d \in Clients : d # c => views'[d] = views[d] /\ ChatStays(d)
BY OutsideFits, ViewFits, ClearFits DEF Removed, Reset

LEMMA ReceiveKeeps ==
  ASSUME RosterInv, NEW c \in Clients, Receive(c)
  PROVE  RosterInv'
<1> DEFINE l == link[c]
           q == channel[l]
           m == Head(q)
           join == [stage |-> "naming", id |-> m.id, role |-> m.role, session |-> m.session,
                    list |-> m.list]
<1>1. /\ l # NoId /\ q # << >> /\ channel' = [channel EXCEPT ![l] = Tail(@)]
      /\ overtaken' = [overtaken EXCEPT ![c] =
           joins[c] # << >> \/ (Creating(c) /\ Denies(m)) \/ (@ /\ m.type # "joinedRoom")]
      /\ UNCHANGED <<server, ids, open, link, creating, counts>>
      /\ JoinedRoom(c, m) \/ ListChanged(c, m) \/ ChatMessage(c, m) \/ Removed(c, m)
  BY DEF Receive, Takes
<1>2. StateOK /\ (\A d \in Clients : Follows(d)) /\ l \in Ids
  BY <1>1 DEF RosterInv, StateOK, LinksOK
<1>3. q \in Seq(Messages) /\ m \in Messages /\ Tail(q) \in Seq(Messages)
  <2>1. q \in Seq(Messages)
    BY <1>2 DEF StateOK, ChannelsOK
  <2> QED BY <1>1, <2>1, TailFacts
<1>4. /\ ChannelsOK' /\ channel'[l] = Tail(q)
      /\ \A i \in Ids : i # l => channel'[i] = channel[i]
  BY <1>1, <1>2, <1>3 DEF StateOK, ChannelsOK
<1> HIDE DEF m
<1>5. /\ overtaken' \in [Clients -> BOOLEAN]
      /\ m.type = "joinedRoom" => overtaken'[c] = (joins[c] # << >> \/ (Creating(c) /\ Denies(m)))
      /\ m.type # "joinedRoom" =>
           overtaken'[c] = (overtaken[c] \/ joins[c] # << >> \/ (Creating(c) /\ Denies(m)))
      /\ \A d \in Clients : d # c => overtaken'[d] = overtaken[d]
      /\ \A d \in Clients : Creating(d)' = Creating(d)
  <2>1. (joins[c] # << >> \/ (Creating(c) /\ Denies(m))) \in BOOLEAN
        /\ overtaken \in [Clients -> BOOLEAN]
    BY <1>2 DEF StateOK, JoinsOK, Creating, Denies
  <2>2. \A d \in Clients : Creating(d)' = Creating(d)
    BY <1>1 DEF Creating
  <2> QED BY <1>1, <2>1, <2>2
<1>6. /\ ViewsOK' /\ ChatsOK' /\ joins' \in [Clients -> Seq(Joins)]
      /\ \A d \in Clients : d # c =>
           views'[d] = views[d] /\ joins'[d] = joins[d] /\ ChatStays(d)
      /\ m.type = "joinedRoom" => joins'[c] = Append(joins[c], join)
      /\ m.type # "joinedRoom" => joins'[c] = joins[c]
      /\ m.type \notin {"joinedRoom", "removed"} =>
           /\ \/ Takes1(views[c], m, views'[c]) /\ shown'[c] = shown[c] /\ m.type # "chatMessage"
              \/ m.type = "chatMessage" /\ views'[c] = views[c] /\ shown'[c] = shown[c] \cup {m.n}
           /\ InChat(c) => InChat(c)'
  <2>1. ViewsOK /\ JoinsOK /\ ChatsOK /\ joins \in [Clients -> Seq(Joins)]
    BY <1>2 DEF StateOK, JoinsOK
  <2>2. CASE JoinedRoom(c, m)
    BY <1>3, <2>1, <2>2, JoinedRoomFits
  <2>3. CASE ListChanged(c, m)
    <3>1. /\ ViewsOK' /\ Takes1(views[c], m, views'[c])
          /\ \A d \in Clients : d # c => views'[d] = views[d]
          /\ m.type \in {"participantJoined", "participantLeft", "roleUpdated", "editModeUpdated"}
          /\ UNCHANGED <<joins, chats>>
      BY <1>3, <2>1, <2>3, ListChangedFits
    <3>2. ChatsOK' /\ shown' = shown /\ joins' = joins
          /\ (InChat(c) => InChat(c)') /\ \A d \in Clients : ChatStays(d)
      BY <2>1, <3>1 DEF ChatsOK, ChatStays, InChat, chats
    <3> QED BY <2>1, <3>1, <3>2
  <2>4. CASE ChatMessage(c, m)
    <3>1. /\ m.type = "chatMessage" /\ UNCHANGED <<views, joins>>
          /\ ChatsOK' /\ shown'[c] = shown[c] \cup {m.n} /\ (InChat(c) => InChat(c)')
          /\ \A d \in Clients : d # c => ChatStays(d)
      BY <1>3, <2>1, <2>4, ChatMessageFits
    <3>2. ViewsOK'
      BY <2>1, <3>1 DEF ViewsOK
    <3> QED BY <2>1, <3>1, <3>2
  <2>5. CASE Removed(c, m)
    BY <2>1, <2>5, RemovedFits
  <2> QED BY <1>1, <2>2, <2>3, <2>4, <2>5 DEF m
<1> HIDE DEF q
<1>7. ServerOK' /\ LinksOK' /\ JoinsOK' /\ CountsOK'
  BY <1>1, <1>2, <1>5, <1>6
     DEF StateOK, ServerOK, FitList, LinksOK, LinksApart, JoinsOK, CountsOK, server, counts
<1>8. ASSUME NEW d \in Clients, d # c PROVE Follows(d)'
  <2>1. StaysPut(d)
    BY <1>1, <1>5, <1>6, <1>8 DEF StaysPut, ChatStays
  <2>2. link[d] # NoId => channel'[link[d]] = channel[link[d]]
    BY <1>2, <1>4, <1>8 DEF StateOK, LinksOK, LinksApart
  <2> QED BY <1>1, <1>2, <2>1, <2>2, QuietFollows DEF server
<1>9. Follows(c)'
  <2>1. UNCHANGED <<members, displaced, chat, before>> /\ link'[c] = l /\ joins[c] \in Seq(Joins)
    BY <1>1, <1>2 DEF server, StateOK, JoinsOK
  <2>2. q = channel[l] /\ m = Head(channel[l]) /\ channel[l] \in Seq(Messages) /\ channel[l] # << >>
        /\ channel'[l] = Tail(channel[l])
    BY <1>1, <1>3, <1>4 DEF q, m
  <2>3. CASE ~Here(members, l)
    BY <2>1, <2>3 DEF Follows
  <2>4. CASE JoinIsSent(c)
    <3> HIDE DEF l
    <3>1. JoinIsSent(c)' \/ JoinIsOvertaken(c)' \/ JoinIsHandled(c)'
      BY <1>2, <1>5, <1>6, <2>1, <2>2, <2>4, SentIsTaken DEF l
    <3> QED BY <3>1 DEF Follows
  <2>5. m = q[1] /\ 1 \in DOMAIN q /\ DOMAIN Tail(q) = 1 .. Len(q) - 1
        /\ \A i \in 1 .. Len(q) - 1 : Tail(q)[i] = q[i + 1] /\ i + 1 \in DOMAIN q
    BY <1>1, <1>3, <2>2, TailFacts
  <2>6. ASSUME \A k \in DOMAIN q : q[k].type # "joinedRoom", overtaken'[c] PROVE Follows(c)'
    <3>1. \A k \in DOMAIN Tail(q) : Tail(q)[k].type # "joinedRoom"
      BY <2>5, <2>6
    <3>2. JoinIsOvertaken(c)'
      BY <2>1, <2>2, <2>6, <3>1 DEF JoinIsOvertaken
    <3> QED BY <3>2 DEF Follows
  <2>7. CASE JoinIsOvertaken(c)
    <3>1. (\A k \in DOMAIN q : q[k].type # "joinedRoom") /\ overtaken[c]
      BY <2>2, <2>7 DEF JoinIsOvertaken
    <3>2. overtaken'[c]
      BY <1>5, <2>5, <3>1
    <3> QED BY <2>6, <3>1, <3>2
  <2>8. CASE JoinIsHandled(c)
    <3>1. (\A k \in DOMAIN q : q[k].type # "joinedRoom") /\ Len(joins[c]) = 1
      BY <2>2, <2>8 DEF JoinIsHandled, Leads, IsTame
    <3>2. joins[c] # << >>
      BY <3>1
    <3>3. overtaken'[c]
      BY <1>5, <2>5, <3>1, <3>2
    <3> QED BY <2>6, <3>1, <3>3
  <2>9. CASE IsSettled(c)
    <3>1. m.type \notin {"joinedRoom", "removed"}
      BY <2>2, <2>5, <2>9 DEF IsSettled, Leads, IsTame
    <3>2. CASE overtaken'[c]
      <4>1. \A k \in DOMAIN q : q[k].type # "joinedRoom"
        BY <2>2, <2>9 DEF IsSettled, Leads, IsTame
      <4> QED BY <2>6, <3>2, <4>1
    <3>3. CASE ~overtaken'[c]
      <4>1. joins'[c] = << >> /\ (Creating(c)' => Creating(c) /\ ~Denies(m))
        BY <1>5, <1>6, <2>9, <3>1, <3>3 DEF IsSettled
      <4> HIDE DEF l
      <4>2. IsSettled(c)'
        BY <1>2, <1>6, <2>1, <2>2, <2>9, <3>1, <3>3, <4>1, SettledTakes DEF l
      <4> QED BY <4>2 DEF Follows
    <3> QED BY <3>2, <3>3
  <2> QED BY <1>1, <1>2, <2>3, <2>4, <2>7, <2>8, <2>9 DEF Follows
<1>10. \A d \in Clients : Follows(d)'
  BY <1>8, <1>9
<1> QED BY <1>4, <1>6, <1>7, <1>10 DEF RosterInv, StateOK

\* What the handlers leave alone when they go on.
LEMMA HandlerFollows ==
  ASSUME NEW c \in Clients, UNCHANGED <<server, link, channel, overtaken>>,
         JoinIsSent(c) \/ JoinIsOvertaken(c)
  PROVE  Follows(c)'
<1>1. /\ JoinIsSent(c) => JoinIsSent(c)'
      /\ JoinIsOvertaken(c) => JoinIsOvertaken(c)'
  BY DEF JoinIsSent, JoinIsOvertaken, SinceJoined, server
<1> QED BY <1>1 DEF Follows

LEMMA HandlerOthers ==
  ASSUME StateOK, NEW d \in Clients, Follows(d), UNCHANGED <<server, link, channel, overtaken>>,
         views'[d] = views[d], joins'[d] = joins[d], ChatStays(d), Creating(d)' => Creating(d)
  PROVE  Follows(d)'
<1>1. StaysPut(d)
  BY DEF StaysPut, ChatStays
<1> QED BY <1>1, QuietFollows DEF server

LEMMA NamedKeeps ==
  ASSUME RosterInv, NEW c \in Clients, NEW k \in 1 .. Len(joins[c]), Named(c, k)
  PROVE  RosterInv'
<1> DEFINE join == joins[c][k]
           u == [views[c] EXCEPT !.intent = TRUE, !.token = join.session]
           v == SetSelfInfo(u, join.id, join.role)
           named == [join EXCEPT !.stage = "recording"]
           list == [joins[c] EXCEPT ![k] = named]
<1>1. /\ join.stage = "naming"
      /\ joins' = [joins EXCEPT ![c][k].stage = "recording"]
      /\ views' = [views EXCEPT ![c] = v]
      /\ UNCHANGED <<server, ids, open, link, channel, creating, overtaken, chats, counts>>
  BY DEF Named
<1>2. StateOK /\ \A d \in Clients : Follows(d)
  BY DEF RosterInv
<1>3. joins[c] \in Seq(Joins) /\ join \in Joins /\ views[c] \in Views
  BY <1>2 DEF StateOK, JoinsOK, ViewsOK
<1>4. join.id \in Ids /\ join.role \in Roles /\ join.session \in Ids
  BY <1>3 DEF Joins
<1>5. named \in Joins /\ named.id = join.id /\ named.role = join.role /\ named.list = join.list
      /\ JoinBase(named) = JoinBase(join)
  BY <1>3 DEF Joins, JoinBase
<1>6. u \in Views
  BY <1>3, <1>4 DEF Views
<1> HIDE DEF u
<1>7. IsFit(v) /\ v.inRoom /\ v.self = join.id /\ v.role = join.role
  BY <1>4, <1>6, SetSelfFit
<1>8. joins' = [joins EXCEPT ![c] = list]
  BY <1>1
<1> HIDE DEF v, named, join
<1>9. list \in Seq(Joins) /\ Len(list) = Len(joins[c]) /\ list[k] = named
  BY <1>3, <1>5
<1> HIDE DEF list
<1>10. /\ joins' \in [Clients -> Seq(Joins)] /\ joins'[c] = list
       /\ \A d \in Clients : d # c => joins'[d] = joins[d]
  BY <1>2, <1>8, <1>9 DEF StateOK, JoinsOK
<1>11. ViewsOK' /\ views'[c] = v /\ \A d \in Clients : d # c => views'[d] = views[d]
  BY <1>1, <1>2, <1>7, ViewFits DEF StateOK
<1>12. ServerOK' /\ LinksOK' /\ ChannelsOK' /\ JoinsOK' /\ ChatsOK' /\ CountsOK'
  BY <1>1, <1>2, <1>10 DEF StateOK, ServerOK, FitList, LinksOK, LinksApart, ChannelsOK, JoinsOK,
                           ChatsOK, CountsOK, server, chats, counts
<1>13. ASSUME NEW d \in Clients, d # c PROVE Follows(d)'
  BY <1>1, <1>2, <1>10, <1>11, <1>13, HandlerOthers DEF ChatStays, InChat, Creating, chats
<1>14. Follows(c)'
  <2>1. CASE ~(link[c] # NoId /\ Here(members, link[c]))
    BY <1>1, <2>1 DEF Follows, server
  <2>2. CASE JoinIsSent(c) \/ JoinIsOvertaken(c)
    BY <1>1, <2>2, HandlerFollows
  <2>3. CASE JoinIsHandled(c)
    <3> DEFINE l == link[c]
    <3>1. Len(joins[c]) = 1 /\ k = 1 /\ ~overtaken[c]
      BY <2>3 DEF JoinIsHandled
    <3>2. /\ join.id = l /\ join.role = join.list[l].role
          /\ Leads(JoinBase(join), channel[l], l, members, displaced, SinceJoined(l))
          /\ Creating(c) => join.id = 1 /\ join.role = "root"
      BY <2>3, <3>1 DEF JoinIsHandled, join
    <3>3. Len(joins'[c]) = 1 /\ joins'[c][1] = named
      BY <1>9, <1>10, <3>1
    <3>4. /\ named.id = l /\ named.role = named.list[l].role
          /\ Leads(JoinBase(named), channel[l], l, members, displaced, SinceJoined(l))
          /\ Creating(c)' => named.id = 1 /\ named.role = "root"
      BY <1>1, <1>5, <3>2 DEF Creating
    <3>5. views'[c].inRoom /\ views'[c].self = l /\ views'[c].role = named.role
      BY <1>5, <1>7, <1>11, <3>2
    <3>6. JoinIsHandled(c)'
      BY <1>1, <3>1, <3>3, <3>4, <3>5 DEF JoinIsHandled, SinceJoined, server
    <3> QED BY <3>6 DEF Follows
  <2>4. CASE IsSettled(c)
    <3>1. Len(joins[c]) = 0
      BY <2>4 DEF IsSettled
    <3> QED BY <3>1
  <2> QED BY <1>2, <2>1, <2>2, <2>3, <2>4 DEF Follows
<1>15. \A d \in Clients : Follows(d)'
  BY <1>13, <1>14
<1> QED BY <1>11, <1>12, <1>15 DEF RosterInv, StateOK

LEMMA RecordedKeeps ==
  ASSUME RosterInv, NEW c \in Clients, NEW k \in 1 .. Len(joins[c]), Recorded(c, k)
  PROVE  RosterInv'
<1> DEFINE q == joins[c]
           join == q[k]
           v == SetParticipants(views[c], join.list)
           rest == RemoveAt(q, k)
<1>1. /\ join.stage = "recording"
      /\ joins' = [joins EXCEPT ![c] = rest]
      /\ views' = [views EXCEPT ![c] = v]
      /\ SetRoom(c)
      /\ UNCHANGED <<server, ids, open, link, channel, creating, overtaken, counts>>
  BY DEF Recorded
<1>2. StateOK /\ \A d \in Clients : Follows(d)
  BY DEF RosterInv
<1>3. q \in Seq(Joins) /\ join \in Joins /\ IsFit(views[c])
  BY <1>2 DEF StateOK, JoinsOK, ViewsOK, IsFit
<1>4. join.list \in Lists
  BY <1>3 DEF Joins
<1>5. /\ IsFit(v) /\ v.inRoom = views[c].inRoom /\ v.self = views[c].self
      /\ v.role = views[c].role /\ v.list = join.list
      /\ views[c].self \in Ids /\ views[c].role = join.list[views[c].self].role =>
           v.direct = EditsDirectly(join.list, views[c].self)
  BY <1>3, <1>4, SetListFit
<1> HIDE DEF v, q, join
<1>6. rest \in Seq(Joins) /\ (Len(q) = 1 => rest = << >>)
  <2>1. k \in 1 .. Len(q) /\ Len(q) \in Nat
    BY <1>3 DEF q
  <2>2. SubSeq(q, 1, k - 1) \in Seq(Joins) /\ SubSeq(q, k + 1, Len(q)) \in Seq(Joins)
    BY <1>3, <2>1
  <2>3. rest = SubSeq(q, 1, k - 1) \o SubSeq(q, k + 1, Len(q))
    BY DEF RemoveAt
  <2>4. ASSUME Len(q) = 1 PROVE rest = << >>
    <3>1. SubSeq(q, 1, 0) = << >> /\ SubSeq(q, 2, 1) = << >>
      BY <1>3
    <3>2. k = 1 /\ k - 1 = 0 /\ k + 1 = 2
      BY <2>1, <2>4
    <3>3. << >> \o << >> = << >>
      OBVIOUS
    <3> QED BY <2>3, <2>4, <3>1, <3>2, <3>3
  <2> QED BY <2>2, <2>3, <2>4
<1> HIDE DEF rest
<1>7. /\ joins' \in [Clients -> Seq(Joins)] /\ joins'[c] = rest
      /\ \A d \in Clients : d # c => joins'[d] = joins[d]
  BY <1>1, <1>2, <1>6 DEF StateOK, JoinsOK
<1>8. ViewsOK' /\ views'[c] = v /\ \A d \in Clients : d # c => views'[d] = views[d]
  BY <1>1, <1>2, <1>5, ViewFits DEF StateOK
<1>9. ChatsOK' /\ InChat(c)' /\ \A d \in Clients : d # c => ChatStays(d)
  BY <1>1, <1>2 DEF StateOK, ChatsOK, SetRoom, ChatStays, InChat
<1>10. ServerOK' /\ LinksOK' /\ ChannelsOK' /\ JoinsOK' /\ CountsOK'
  BY <1>1, <1>2, <1>7 DEF StateOK, ServerOK, FitList, LinksOK, LinksApart, ChannelsOK, JoinsOK,
                          CountsOK, server, counts
<1>11. ASSUME NEW d \in Clients, d # c PROVE Follows(d)'
  BY <1>1, <1>2, <1>7, <1>8, <1>9, <1>11, HandlerOthers DEF Creating
<1>12. Follows(c)'
  <2>1. CASE ~(link[c] # NoId /\ Here(members, link[c]))
    BY <1>1, <2>1 DEF Follows, server
  <2>2. CASE JoinIsSent(c) \/ JoinIsOvertaken(c)
    BY <1>1, <2>2, HandlerFollows
  <2>3. CASE JoinIsHandled(c) /\ link[c] # NoId
    <3> DEFINE l == link[c]
    <3>1. Len(q) = 1 /\ k = 1 /\ ~overtaken[c]
      BY <2>3 DEF JoinIsHandled, q
    <3>2. /\ join.id = l /\ join.role = join.list[l].role
          /\ Leads(JoinBase(join), channel[l], l, members, displaced, SinceJoined(l))
          /\ views[c].inRoom /\ views[c].self = l /\ views[c].role = join.role
          /\ Creating(c) => join.id = 1 /\ join.role = "root"
      BY <1>1, <2>3, <3>1 DEF JoinIsHandled, join, q
    <3>3. l \in Ids
      BY <1>2, <2>3 DEF StateOK, LinksOK
    <3>4. v.direct = EditsDirectly(join.list, l) /\ v.list = join.list /\ v.role = join.role
          /\ v.inRoom /\ v.self = l
      BY <1>5, <3>2, <3>3
    <3>5. Leads(ViewBase(c)', channel[l], l, members, displaced, SinceJoined(l))
      <4> DEFINE base == JoinBase(join)
                 next == ViewBase(c)'
      <4>1. next.list = base.list /\ next.role = base.role /\ next.direct = base.direct
            /\ base.seen \subseteq next.seen
        BY <1>8, <3>2, <3>4 DEF ViewBase, JoinBase
      <4>2. Leads(base, channel[l], l, members, displaced, SinceJoined(l))
        BY <3>2
      <4> HIDE DEF base, next, l
      <4>3. Leads(next, channel[l], l, members, displaced, SinceJoined(l))
        BY <4>1, <4>2, LeadsSeen
      <4> QED BY <4>3 DEF next
    <3>6. joins'[c] = << >>
      BY <1>6, <1>7, <3>1
    <3>7. Creating(c)' => l = 1 /\ views'[c].role = "root" /\ InChat(c)'
      BY <1>1, <1>8, <1>9, <3>2, <3>4 DEF Creating
    <3>8. IsSettled(c)'
      BY <1>1, <1>8, <3>1, <3>4, <3>5, <3>6, <3>7 DEF IsSettled, SinceJoined, server
    <3> QED BY <3>8 DEF Follows
  <2>4. CASE IsSettled(c)
    <3>1. Len(joins[c]) = 0
      BY <2>4 DEF IsSettled
    <3> QED BY <3>1
  <2> QED BY <1>2, <2>1, <2>2, <2>3, <2>4 DEF Follows
<1>13. \A d \in Clients : Follows(d)'
  BY <1>11, <1>12
<1> QED BY <1>8, <1>9, <1>10, <1>13 DEF RosterInv, StateOK

\* The handler of roomCreated sets the id and the role that the owner has.
LEMMA CreatedNamedKeeps ==
  ASSUME RosterInv, CreatedNamed
  PROVE  RosterInv'
<1> DEFINE c == Owner
           u == [views[c] EXCEPT !.intent = TRUE, !.token = 1]
           v == SetSelfInfo(u, 1, "root")
<1>1. /\ creating = "naming" /\ creating' = "recording"
      /\ views' = [views EXCEPT ![c] = v]
      /\ UNCHANGED <<server, ids, open, link, channel, joins, overtaken, chats, counts>>
  BY DEF CreatedNamed
<1>2. StateOK /\ (\A d \in Clients : Follows(d)) /\ c \in Clients
  BY RosterConstants DEF RosterInv
<1>3. u \in Views /\ u.list = views[c].list
  <2>1. views[c] \in Views
    BY <1>2 DEF StateOK, ViewsOK
  <2> QED BY <2>1, IdsFacts DEF Views
<1> HIDE DEF u
<1>4. IsFit(v) /\ v.inRoom /\ v.self = 1 /\ v.role = "root" /\ v.list = views[c].list
  <2>1. "root" \in Roles
    BY DEF Roles
  <2> QED BY <1>3, <2>1, IdsFacts, SetSelfFit
<1> HIDE DEF v
<1>5. ViewsOK' /\ views'[c] = v /\ \A d \in Clients : d # c => views'[d] = views[d]
  BY <1>1, <1>2, <1>4, ViewFits DEF StateOK
<1>6. ServerOK' /\ LinksOK' /\ ChannelsOK' /\ JoinsOK' /\ ChatsOK' /\ CountsOK'
  BY <1>1, <1>2 DEF StateOK, ServerOK, FitList, LinksOK, LinksApart, ChannelsOK, JoinsOK, Creations,
                    ChatsOK, CountsOK, server, chats, counts
<1>7. Creating(c) /\ \A d \in Clients : Creating(d)' => Creating(d)
  BY <1>1 DEF Creating
<1>8. ASSUME NEW d \in Clients, d # c PROVE Follows(d)'
  BY <1>1, <1>2, <1>5, <1>7, <1>8, HandlerOthers DEF ChatStays, InChat, chats
<1>9. Follows(c)'
  <2>1. CASE ~(link[c] # NoId /\ Here(members, link[c]))
    BY <1>1, <2>1 DEF Follows, server
  <2>2. CASE JoinIsSent(c) \/ JoinIsOvertaken(c)
    BY <1>1, <1>2, <2>2, HandlerFollows
  <2>3. CASE JoinIsHandled(c)
    <3>1. joins[c][1].id = link[c] /\ joins[c][1].id = 1 /\ joins[c][1].role = "root"
      BY <1>7, <2>3 DEF JoinIsHandled
    <3>2. JoinIsHandled(c)'
      BY <1>1, <1>4, <1>5, <2>3, <3>1 DEF JoinIsHandled, SinceJoined, server
    <3> QED BY <3>2 DEF Follows
  <2>4. CASE IsSettled(c)
    <3> DEFINE l == link[c]
               base == ViewBase(c)
               next == ViewBase(c)'
    <3>1. l = 1 /\ views[c].role = "root" /\ InChat(c)
      BY <1>7, <2>4 DEF IsSettled
    <3>2. v.direct = views[c].direct
      <4>1. ~views[c].direct /\ views[c].direct \in BOOLEAN
        BY <1>2, <3>1 DEF StateOK, ViewsOK, Views
      <4>2. ~v.direct /\ v.direct \in BOOLEAN
        BY <1>4 DEF IsFit, Views
      <4> QED BY <4>1, <4>2
    <3>3. next.list = base.list /\ next.role = base.role /\ next.direct = base.direct
          /\ next.seen = base.seen
      BY <1>1, <1>4, <1>5, <3>1, <3>2 DEF ViewBase, chats
    <3>4. Leads(base, channel[l], l, members, displaced, SinceJoined(l))
      BY <2>4 DEF IsSettled
    <3> HIDE DEF base, next, l
    <3>5. Leads(next, channel[l], l, members, displaced, SinceJoined(l))
      BY <3>3, <3>4, LeadsSeen
    <3>6. InChat(c)'
      BY <1>1, <3>1 DEF InChat, chats
    <3>7. IsSettled(c)'
      BY <1>1, <1>4, <1>5, <2>4, <3>1, <3>5, <3>6 DEF IsSettled, SinceJoined, server, l, next
    <3> QED BY <3>7 DEF Follows
  <2> QED BY <1>2, <2>1, <2>2, <2>3, <2>4 DEF Follows
<1>10. \A d \in Clients : Follows(d)'
  BY <1>8, <1>9
<1> QED BY <1>5, <1>6, <1>10 DEF RosterInv, StateOK

\* It has ChatManager show what it keeps of the room, which is what it shows.
LEMMA CreatedRecordedKeeps ==
  ASSUME RosterInv, CreatedRecorded
  PROVE  RosterInv'
<1> DEFINE c == Owner
<1>1. /\ creating = "recording" /\ creating' = "done" /\ SetRoom(c)
      /\ UNCHANGED <<server, ids, open, link, channel, views, joins, overtaken, counts>>
  BY DEF CreatedRecorded
<1>2. StateOK /\ (\A d \in Clients : Follows(d)) /\ c \in Clients
  BY RosterConstants DEF RosterInv
<1>3. /\ ChatsOK' /\ (InChat(c) => shown'[c] = shown[c])
      /\ \A d \in Clients : d # c => ChatStays(d)
  BY <1>1, <1>2 DEF StateOK, ChatsOK, SetRoom, ChatStays, InChat
<1>4. ServerOK' /\ LinksOK' /\ ChannelsOK' /\ ViewsOK' /\ JoinsOK' /\ CountsOK'
  BY <1>1, <1>2 DEF StateOK, ServerOK, FitList, LinksOK, LinksApart, ChannelsOK, ViewsOK, JoinsOK,
                    Creations, CountsOK, server, counts
<1>5. Creating(c) /\ \A d \in Clients : ~Creating(d)'
  BY <1>1 DEF Creating
<1>6. ASSUME NEW d \in Clients, d # c PROVE Follows(d)'
  BY <1>1, <1>2, <1>3, <1>5, <1>6, HandlerOthers
<1>7. Follows(c)'
  <2>1. CASE ~(link[c] # NoId /\ Here(members, link[c]))
    BY <1>1, <2>1 DEF Follows, server
  <2>2. CASE JoinIsSent(c) \/ JoinIsOvertaken(c)
    BY <1>1, <1>2, <2>2, HandlerFollows
  <2>3. CASE JoinIsHandled(c)
    <3>1. JoinIsHandled(c)'
      BY <1>1, <1>2, <1>5, <2>3 DEF JoinIsHandled, SinceJoined, server
    <3> QED BY <3>1 DEF Follows
  <2>4. CASE IsSettled(c)
    <3>1. shown'[c] = shown[c]
      BY <1>3, <1>5, <2>4 DEF IsSettled
    <3>2. ViewBase(c)' = ViewBase(c)
      BY <1>1, <3>1 DEF ViewBase
    <3>3. IsSettled(c)'
      BY <1>1, <1>2, <1>5, <2>4, <3>2 DEF IsSettled, SinceJoined, server
    <3> QED BY <3>3 DEF Follows
  <2> QED BY <1>2, <2>1, <2>2, <2>3, <2>4 DEF Follows
<1>8. \A d \in Clients : Follows(d)'
  BY <1>6, <1>7
<1> QED BY <1>3, <1>4, <1>8 DEF RosterInv, StateOK

-------------------------------------------------------------------------------
\* The invariant

LEMMA RosterInit == Init => RosterInv
<1> SUFFICES ASSUME Init PROVE RosterInv
  OBVIOUS
<1>1. OwnerMarks \in Marks /\ NoOne \in Lists /\ 1 \in Ids /\ NoId = 0 /\ 0 \notin Ids
  BY IdsFacts DEF OwnerMarks, Marks, Roles, NoOne, Lists, NoId
<1>2. /\ members \in Lists /\ sessions = members /\ members[1] = OwnerMarks
      /\ \A i \in Ids : i # 1 => members[i] = Absent
  <2>1. members = Marked(NoOne, 1, OwnerMarks) /\ sessions = members
    BY DEF Init, Marked
  <2>2. \A i \in Ids : NoOne[i] = Absent
    BY DEF NoOne
  <2> QED BY <1>1, <2>1, <2>2, ListSet
<1>3. FitList(members)
  <2>1. OwnerMarks.role # "viewer" /\ Absent.role # "viewer"
    BY DEF OwnerMarks, Absent
  <2> QED BY <1>2, <2>1 DEF FitList
<1>4. ServerOK
  BY <1>1, <1>2, <1>3 DEF Init, ServerOK
<1>5. link = [c \in Clients |-> IF c = Owner THEN 1 ELSE NoId] /\ ids = 1 /\ open = {1}
  BY DEF Init
<1>6. LinksOK
  <2>1. link \in [Clients -> Ids \cup {NoId}]
    BY <1>1, <1>5
  <2>2. LinksApart
    BY <1>5, <1>1 DEF LinksApart
  <2> QED BY <1>1, <1>5, <2>1, <2>2 DEF LinksOK
<1> DEFINE m == JoinedMessage(1, 1, members)
<1>7. m \in Messages /\ m.type = "joinedRoom" /\ m.id = 1 /\ m.role = "root" /\ m.list = members
  <2>1. members[1].role = "root" /\ "root" \in Roles
    BY <1>2 DEF OwnerMarks, Roles
  <2> QED BY <1>1, <1>2, <2>1 DEF JoinedMessage, Messages
<1>8. channel[1] = Append(<< >>, m) /\ << >> \in Seq(Messages)
  <2>1. Append(<< >>, m) = <<m>> /\ << >> \in Seq(Messages)
    OBVIOUS
  <2>2. channel[1] = <<m>>
    BY <1>1 DEF Init
  <2> QED BY <2>1, <2>2
<1> HIDE DEF m
<1>9. ChannelsOK
  <2>1. <<m>> \in Seq(Messages) /\ << >> \in Seq(Messages)
    BY <1>7
  <2>2. channel = [i \in Ids |-> IF i = 1 THEN <<m>> ELSE << >>]
    BY DEF Init, m
  <2> QED BY <2>1, <2>2 DEF ChannelsOK
<1>10. ViewsOK
  <2> DEFINE guest == [Outside EXCEPT !.intent = TRUE]
             owner == [Outside EXCEPT !.intent = FALSE]
  <2>1. views = [c \in Clients |-> IF c # Owner THEN guest ELSE owner]
    BY DEF Init, Outside
  <2>2. guest \in Views /\ ~guest.direct /\ owner \in Views /\ ~owner.direct
    BY <1>1 DEF Views, Outside
  <2> HIDE DEF guest, owner
  <2> QED BY <2>1, <2>2 DEF ViewsOK
<1>11. JoinsOK
  <2>1. << >> \in Seq(Joins)
    OBVIOUS
  <2> QED BY <2>1 DEF Init, JoinsOK, Creations
<1>12. ChatsOK /\ CountsOK
  BY DEF Init, ChatsOK, CountsOK
<1>13. ASSUME NEW c \in Clients PROVE Follows(c)
  <2>1. CASE c # Owner
    BY <1>5, <2>1 DEF Follows
  <2>2. CASE c = Owner
    <3> DEFINE base == JoinBase(m)
    <3>1. link[c] = 1 /\ base.list = members /\ base.role = "root"
          /\ base.direct = EditsDirectly(members, 1) /\ base.seen = {}
      BY <1>1, <1>5, <1>7, <2>2 DEF JoinBase
    <3> HIDE DEF base
    <3>2. IsBase(base)
      BY <1>2, <3>1 DEF IsBase, Roles, EditsDirectly, OwnerMarks
    <3>3. members[1].role = "root"
      BY <1>2 DEF OwnerMarks
    <3>4. Agrees([list |-> base.list, role |-> base.role], 1, members, displaced)
      BY <3>1, <3>3 DEF Agrees
    <3>5. SinceJoined(1) \subseteq base.seen
      BY DEF SinceJoined, Init
    <3>6. Leads(base, << >>, 1, members, displaced, SinceJoined(1))
      BY <3>1, <3>2, <3>4, <3>5, LeadsNow
    <3> DEFINE k == Len(<< >>) + 1
    <3>7. /\ After(Append(<< >>, m), k) = << >> /\ k \in DOMAIN Append(<< >>, m)
          /\ Append(<< >>, m)[k] = m
      BY <1>7, <1>8, AfterFacts
    <3> HIDE DEF k
    <3>8. JoinIsSent(c)
      BY <1>7, <1>8, <3>1, <3>3, <3>6, <3>7 DEF JoinIsSent, base
    <3> QED BY <3>8 DEF Follows
  <2> QED BY <2>1, <2>2
<1> QED BY <1>4, <1>6, <1>9, <1>10, <1>11, <1>12, <1>13 DEF RosterInv, StateOK

LEMMA RosterNext == RosterInv /\ [Next]_vars => RosterInv'
<1> SUFFICES ASSUME RosterInv, [Next]_vars PROVE RosterInv'
  OBVIOUS
<1>1. ASSUME NEW c \in Clients, ClientStep(c) PROVE RosterInv'
  <2>1. CASE Connect(c)
    BY <2>1, ConnectKeeps
  <2>2. CASE JoinAgain(c)
    BY <2>2, JoinAgainKeeps
  <2>3. CASE Drop(c)
    BY <2>3, DropKeeps
  <2>4. CASE LeaveRoom(c)
    BY <2>4, LeaveRoomKeeps
  <2>5. CASE ToggleMode(c)
    BY <2>5, ToggleModeKeeps
  <2>6. CASE SendChatMessage(c)
    BY <2>6, SendChatMessageKeeps
  <2>7. CASE Receive(c)
    BY <2>7, ReceiveKeeps
  <2>8. ASSUME NEW k \in 1 .. Len(joins[c]), Named(c, k) PROVE RosterInv'
    BY <2>8, NamedKeeps
  <2>9. ASSUME NEW k \in 1 .. Len(joins[c]), Recorded(c, k) PROVE RosterInv'
    BY <2>9, RecordedKeeps
  <2> QED BY <1>1, <2>1, <2>2, <2>3, <2>4, <2>5, <2>6, <2>7, <2>8, <2>9 DEF ClientStep
<1>2. ASSUME NEW i \in Ids, ServerCloses(i) PROVE RosterInv'
  BY <1>2, ServerClosesKeeps
<1>3. ASSUME NEW i \in Ids, RemoveParticipant(i) PROVE RosterInv'
  BY <1>3, RemoveParticipantKeeps
<1>4. ASSUME NEW i \in Ids, NEW role \in {"collaborator", "viewer"}, UpdateRole(i, role)
      PROVE  RosterInv'
  BY <1>4, UpdateRoleKeeps
<1>5. CASE UNCHANGED vars
  <2>1. StateOK'
    BY <1>5 DEF RosterInv, StateOK, ServerOK, FitList, LinksOK, LinksApart, ChannelsOK, ViewsOK,
                JoinsOK, ChatsOK, CountsOK, vars, server, chats, counts
  <2>2. \A c \in Clients : Follows(c)'
    BY <1>5, QuietFollows DEF RosterInv, StaysPut, InChat, Creating, vars, server, chats
  <2> QED BY <2>1, <2>2 DEF RosterInv
<1>6. CASE CreatedNamed
  BY <1>6, CreatedNamedKeeps
<1>7. CASE CreatedRecorded
  BY <1>7, CreatedRecordedKeeps
<1> QED BY <1>1, <1>2, <1>3, <1>4, <1>5, <1>6, <1>7 DEF Next, OwnerStep

THEOREM RosterAlwaysFollows == Spec => []RosterInv
BY RosterInit, RosterNext, PTL DEF Spec

\* The server's lists, the channels and the clients' views are always of their types:
\* no message that the server sends and no handler builds a list, a role or a mode
\* that the others do not know.
THEOREM RosterTyped == Spec => []RosterTypeOK
<1>1. RosterInv => RosterTypeOK
  BY StateIsTyped DEF RosterInv
<1> QED BY <1>1, RosterAlwaysFollows, PTL

\* One who has caught up has taken all: its view is the base and nothing follows.
LEMMA CaughtUpIsSettled ==
  ASSUME RosterInv, NEW c \in Clients, CaughtUp(c)
  PROVE  LET l == link[c] IN
         /\ l \in Ids /\ views[c].inRoom /\ views[c].self = l
         /\ Agrees([list |-> views[c].list, role |-> views[c].role], l, members, displaced)
         /\ views[c].direct = EditsDirectly(members, l) /\ SinceJoined(l) \subseteq shown[c]
<1> DEFINE l == link[c]
           base == ViewBase(c)
<1>1. l \in Ids /\ channel[l] = << >> /\ joins[c] = << >> /\ ~overtaken[c] /\ Follows(c)
  BY DEF RosterInv, CaughtUp, StateOK, LinksOK
<1>2. IsSettled(c)
  <2>1. ~JoinIsSent(c)
    BY <1>1 DEF JoinIsSent
  <2>2. ~JoinIsOvertaken(c)
    BY <1>1 DEF JoinIsOvertaken
  <2>3. ~JoinIsHandled(c)
    <3>1. Len(joins[c]) = 0
      BY <1>1
    <3> QED BY <3>1 DEF JoinIsHandled
  <2> QED BY <1>1, <2>1, <2>2, <2>3 DEF CaughtUp, Follows
<1>3. Leads(base, << >>, l, members, displaced, SinceJoined(l)) /\ views[c].inRoom /\ views[c].self = l
  BY <1>1, <1>2 DEF IsSettled
<1>4. base.list = views[c].list /\ base.role = views[c].role /\ base.direct = views[c].direct
      /\ base.seen = shown[c]
  BY DEF ViewBase
<1> HIDE DEF base
<1>5. /\ Agrees([list |-> base.list, role |-> base.role], l, members, displaced)
      /\ base.direct = EditsDirectly(members, l) /\ SinceJoined(l) \subseteq base.seen
  BY <1>3, LeadsEnds
<1> QED BY <1>1, <1>3, <1>4, <1>5

\* Whatever is dropped, joined, renamed or overtaken in between, a client that has
\* handled all that was sent to it (extension.ts, RoomState.ts) shows the room that
\* the server has, but for the members whose place was taken unseen.
THEOREM ViewsAlwaysCatchUp == Spec => []ViewsCatchUp
<1>1. ASSUME RosterInv PROVE ViewsCatchUp
  <2> SUFFICES ASSUME NEW c \in Clients, CaughtUp(c)
               PROVE  LET v == views[c]
                      IN /\ v.inRoom /\ v.self = link[c] /\ v.role = members[v.self].role
                         /\ \A i \in Ids : Here(members, i) /\ i # v.self =>
                                             v.list[i].role = members[i].role
                         /\ \A i \in Ids : Here(v.list, i) => Here(members, i) \/ i \in displaced
    BY DEF ViewsCatchUp
  <2> QED BY <1>1, CaughtUpIsSettled DEF Agrees
<1> QED BY <1>1, RosterAlwaysFollows, PTL

\* Such a client edits directly if and only if the server would take its edits, although
\* toggleCollaboratorMode shows the mode before the server has heard of it.
THEOREM EditModeStaysTrue == Spec => []EditModeIsTrue
<1>1. RosterInv => EditModeIsTrue
  BY CaughtUpIsSettled DEF EditModeIsTrue, EditsDirectly
<1> QED BY <1>1, RosterAlwaysFollows, PTL

\* Such a client shows all the chat that handleChatSend took since it joined, although
\* joinedRoom empties and restores what ChatManager shows.
THEOREM ChatAlwaysReachesMembers == Spec => []ChatReachesMembers
<1>1. RosterInv => ChatReachesMembers
  BY CaughtUpIsSettled DEF ChatReachesMembers, SinceJoined
<1> QED BY <1>1, RosterAlwaysFollows, PTL
=====
