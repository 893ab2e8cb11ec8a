----------------------------- MODULE DocumentProofs -----------------------------
(***************************************************************************)
(* Theorems about the copies of a shared document, for every set of        *)
(* clients and every bound on what they type.                              *)
(***************************************************************************)
EXTENDS DocumentInvariants, TLAPS

-------------------------------------------------------------------------------
\* Sequences of messages

Shares(msgs) == {i \in DOMAIN msgs : msgs[i].type \in {"shareDocument", "shareState"}}
IsShare(m) == m.type \in {"shareDocument", "shareState"}
IsNumbered(m) == m.type \in {"docChange", "fullDocumentSync"}
OneShare(msgs) == \A i, j \in Shares(msgs) : i = j

\* The numbered messages of msgs have increasing versions up to v.
Numbered(msgs, v) ==
  /\ \A i \in DOMAIN msgs : IsNumbered(msgs[i]) => msgs[i].version <= v
  /\ \A i, j \in DOMAIN msgs :
       IsNumbered(msgs[i]) /\ IsNumbered(msgs[j]) /\ i < j => msgs[i].version < msgs[j].version

\* What the receiver leaves when it takes the first message.
LEMMA TailFacts ==
  ASSUME NEW q \in Seq(Message), q # << >>
  PROVE  /\ Head(q) \in Message /\ Head(q) = q[1] /\ 1 \in DOMAIN q
         /\ Tail(q) \in Seq(Message)
         /\ \A i \in DOMAIN Tail(q) : i + 1 \in DOMAIN q /\ Tail(q)[i] = q[i + 1]
OBVIOUS

LEMMA AppendFacts ==
  ASSUME NEW q \in Seq(Message), NEW m \in Message
  PROVE  /\ Append(q, m) \in Seq(Message)
         /\ DOMAIN Append(q, m) = DOMAIN q \cup {Len(q) + 1}
         /\ Len(q) \in Nat /\ DOMAIN q = 1 .. Len(q)
         /\ \A i \in DOMAIN q : Append(q, m)[i] = q[i]
         /\ Append(q, m)[Len(q) + 1] = m
OBVIOUS

LEMMA TailShares ==
  ASSUME NEW q \in Seq(Message), q # << >>, OneShare(q)
  PROVE  /\ OneShare(Tail(q))
         /\ Shares(Tail(q)) # {} => Shares(q) # {}
         /\ IsShare(Head(q)) => Shares(Tail(q)) = {} /\ Shares(q) # {}
<1>1. \A i \in Shares(Tail(q)) : i \in Nat /\ i >= 1 /\ i + 1 \in Shares(q)
  BY TailFacts DEF Shares
<1>2. OneShare(Tail(q))
  <2> SUFFICES ASSUME NEW i \in Shares(Tail(q)), NEW j \in Shares(Tail(q)) PROVE i = j
    BY DEF OneShare
  <2>1. i + 1 = j + 1
    BY <1>1 DEF OneShare
  <2> QED
    BY <2>1, <1>1
<1>3. IsShare(Head(q)) => 1 \in Shares(q)
  BY TailFacts DEF Shares, IsShare
<1>4. ASSUME IsShare(Head(q)), NEW i \in Shares(Tail(q)) PROVE FALSE
  <2>1. i + 1 = 1
    BY <1>1, <1>3, <1>4 DEF OneShare
  <2> QED
    BY <2>1, <1>1
<1> QED
  BY <1>1, <1>2, <1>3, <1>4

LEMMA AppendShares ==
  ASSUME NEW q \in Seq(Message), NEW m \in Message, OneShare(q)
  PROVE  /\ ~IsShare(m) => OneShare(Append(q, m)) /\ Shares(Append(q, m)) = Shares(q)
         /\ Shares(q) = {} => OneShare(Append(q, m))
BY AppendFacts DEF Shares, IsShare, OneShare

LEMMA TailNumbered ==
  ASSUME NEW q \in Seq(Message), q # << >>, NEW v \in Nat, Numbered(q, v)
  PROVE  Numbered(Tail(q), v)
<1>1. \A i \in DOMAIN Tail(q) : i \in Nat /\ i + 1 \in DOMAIN q /\ Tail(q)[i] = q[i + 1]
  BY TailFacts
<1>2. ASSUME NEW i \in DOMAIN Tail(q), NEW j \in DOMAIN Tail(q), i < j
      PROVE  i + 1 < j + 1
  BY <1>1, <1>2
<1> QED
  BY <1>1, <1>2 DEF Numbered

LEMMA AppendNumbered ==
  ASSUME NEW q \in Seq(Message), NEW m \in Message, NEW v \in Nat, NEW w \in Nat, v <= w,
         Numbered(q, v), IsNumbered(m) => m.version = w /\ v < w
  PROVE  Numbered(Append(q, m), w)
<1>0. \A i \in DOMAIN q : q[i] \in Message
  OBVIOUS
<1>1. \A i \in DOMAIN q : q[i].version \in Nat
  BY <1>0 DEF Message
<1>2. \A i \in DOMAIN q : i \in Nat /\ i < Len(q) + 1 /\ Len(q) \in Nat
  OBVIOUS
<1>3. ASSUME NEW i \in DOMAIN Append(q, m), IsNumbered(Append(q, m)[i])
      PROVE  Append(q, m)[i].version <= w
  BY <1>1, <1>3, AppendFacts DEF Numbered
<1>4. ASSUME NEW i \in DOMAIN Append(q, m), NEW j \in DOMAIN Append(q, m), i < j,
             IsNumbered(Append(q, m)[i]), IsNumbered(Append(q, m)[j])
      PROVE  Append(q, m)[i].version < Append(q, m)[j].version
  <2>1. i \in DOMAIN q
    BY <1>2, <1>4, AppendFacts
  <2>2. CASE j \in DOMAIN q
    BY <2>1, <2>2, <1>4, AppendFacts DEF Numbered
  <2>3. CASE j = Len(q) + 1
    <3>1. Append(q, m)[j] = m /\ m.version = w /\ v < w
      BY <2>3, <1>4, AppendFacts
    <3>2. q[i].version <= v
      BY <2>1, <1>4, AppendFacts DEF Numbered
    <3> QED
      BY <3>1, <3>2, <2>1, <1>1, AppendFacts
  <2> QED
    BY <2>2, <2>3, AppendFacts
<1> QED
  BY <1>3, <1>4 DEF Numbered

-------------------------------------------------------------------------------
\* Types

\* What DocsTypeOK says of the document s of client c.
ClientOK(c, s) ==
  /\ s \in Client
  /\ s.suppress => s.applying # << >>
  /\ s.applying # << >> => s.status = "open"
  /\ s.timer => s.queue # << >>
  /\ s.sharing \/ s.unsharing => c = Owner

Typed ==
  /\ doc \in Document
  /\ members \subseteq Clients
  /\ client \in [Clients -> Client]
  /\ up \in [Clients -> Seq(Message)]
  /\ down \in [Clients -> Seq(Message)]
  /\ holds \in [Blocks -> SUBSET Units]
  /\ made \in [Blocks -> Content]
  /\ nextBlock \in 1 .. MaxBlocks + 1

LEMMA TypesSplit == DocsTypeOK <=> Typed /\ \A c \in Clients : ClientOK(c, client[c])
BY DEF DocsTypeOK, Typed, ClientOK

LEMMA MsgTyped ==
  ASSUME NEW type \in {"shareDocument", "shareState", "docChange", "requestFullSync",
                       "fullDocumentSync", "unshareDocument"},
         NEW v \in Nat, NEW t \in SUBSET Units, NEW u \in Content
  PROVE  /\ Msg(type, v, t, u) \in Message
         /\ Msg(type, v, t, u).type = type
         /\ Msg(type, v, t, u).version = v
         /\ Msg(type, v, t, u).update = u
BY DEF Msg, Message

LEMMA EmptyTyped == EmptyContent \in Content /\ EmptyContent.ins = {} /\ EmptyContent.del = {}
BY DEF EmptyContent, Content

LEMMA NoMessageTyped == NoMessage \in Message /\ NoMessage.update = EmptyContent
BY MsgTyped, EmptyTyped DEF NoMessage

LEMMA ClientSet ==
  ASSUME client \in [Clients -> Client], \A d \in Clients : ClientOK(d, client[d]),
         NEW c \in Clients, NEW s, ClientOK(c, s), client' = [client EXCEPT ![c] = s]
  PROVE  /\ client' \in [Clients -> Client]
         /\ \A d \in Clients : ClientOK(d, client'[d])
         /\ client'[c] = s
         /\ \A d \in Clients : d # c => client'[d] = client[d]
<1>1. s \in Client
  BY DEF ClientOK
<1> QED
  BY <1>1

LEMMA Sends ==
  ASSUME up \in [Clients -> Seq(Message)], NEW c \in Clients, NEW m \in Message, Send(c, m)
  PROVE  /\ up' \in [Clients -> Seq(Message)]
         /\ up'[c] = Append(up[c], m)
         /\ \A d \in Clients : d # c => up'[d] = up[d]
BY AppendFacts DEF Send

LEMMA Broadcasts ==
  ASSUME down \in [Clients -> Seq(Message)], NEW m \in Message, NEW receivers, Broadcast(m, receivers)
  PROVE  /\ down' \in [Clients -> Seq(Message)]
         /\ \A d \in Clients : d \in receivers => down'[d] = Append(down[d], m)
         /\ \A d \in Clients : d \notin receivers => down'[d] = down[d]
BY AppendFacts DEF Broadcast

LEMMA ServerTakes ==
  ASSUME up \in [Clients -> Seq(Message)], NEW c \in Clients, NEW type, FromClient(c, type)
  PROVE  /\ up' \in [Clients -> Seq(Message)]
         /\ up[c] # << >> /\ Head(up[c]) \in Message /\ Head(up[c]).type = type
         /\ up'[c] = Tail(up[c])
         /\ \A d \in Clients : d # c => up'[d] = up[d]
<1>1. up[c] \in Seq(Message) /\ up[c] # << >>
  BY DEF FromClient
<1>2. Tail(up[c]) \in Seq(Message) /\ Head(up[c]) \in Message
  BY <1>1, TailFacts
<1> QED
  BY <1>1, <1>2 DEF FromClient

LEMMA ClientTakes ==
  ASSUME down \in [Clients -> Seq(Message)], NEW c \in Clients, NEW type, FromServer(c, type)
  PROVE  /\ down' \in [Clients -> Seq(Message)]
         /\ down[c] # << >> /\ Head(down[c]) \in Message /\ Head(down[c]).type = type
         /\ down'[c] = Tail(down[c])
         /\ \A d \in Clients : d # c => down'[d] = down[d]
<1>1. down[c] \in Seq(Message) /\ down[c] # << >>
  BY DEF FromServer
<1>2. Tail(down[c]) \in Seq(Message) /\ Head(down[c]) \in Message
  BY <1>1, TailFacts
<1> QED
  BY <1>1, <1>2 DEF FromServer

LEMMA NewBlockTyped ==
  ASSUME Typed, NEW text \in SUBSET Units, NEW y \in Content, NewBlock(text, y)
  PROVE  /\ holds' \in [Blocks -> SUBSET Units]
         /\ made' \in [Blocks -> Content]
         /\ nextBlock' \in 1 .. MaxBlocks + 1
         /\ nextBlock \in Blocks /\ nextBlock \in Units /\ nextBlock' = nextBlock + 1
         /\ nextBlock \in Nat
BY DocumentConstants DEF Typed, NewBlock, Blocks, Units

-------------------------------------------------------------------------------
\* Contents

\* Content y, in a state in which m, n and q are made, nextBlock and the blocks that
\* are queued, has what its blocks were made on, and none that is yet to be written.
Good(y, m, n, q) ==
  /\ y.del \subseteq y.ins
  /\ \A b \in y.ins : /\ b < n /\ b \notin q
                      /\ m[b].ins \subseteq y.ins
                      /\ m[b].del \subseteq y.del

GoodMessages(msgs, m, n, q) == \A i \in DOMAIN msgs : Good(msgs[i].update, m, n, q)

BlocksOf(queue) == {queue[i].block : i \in DOMAIN queue}

\* The blocks queued anywhere, which are in no content yet.
Waiting == UNION {BlocksOf(client[c].queue) : c \in Clients}

\* Every content there is, is good.
AllGood ==
  /\ Good(doc.yjsState, made, nextBlock, Waiting)
  /\ \A c \in Clients : /\ Good(client[c].yDoc, made, nextBlock, Waiting)
                        /\ Good(client[c].opening.update, made, nextBlock, Waiting)
                        /\ GoodMessages(up[c], made, nextBlock, Waiting)
                        /\ GoodMessages(down[c], made, nextBlock, Waiting)

\* A queued block has been written, by one client only.
QueuesApart ==
  \A c \in Clients : \A b \in BlocksOf(client[c].queue) :
    /\ b < nextBlock
    /\ \A d \in Clients : d # c => b \notin BlocksOf(client[d].queue)

\* A step writes no block but new and queued ones.
Ages ==
  /\ nextBlock <= nextBlock'
  /\ Waiting' \subseteq Waiting \cup {b \in Nat : nextBlock <= b /\ b < nextBlock'}
  /\ \A b \in Blocks : b < nextBlock /\ b \notin Waiting => made'[b] = made[b]

LEMMA StaysGood ==
  ASSUME Typed, nextBlock' \in Nat, Ages, NEW y \in Content, Good(y, made, nextBlock, Waiting)
  PROVE  Good(y, made', nextBlock', Waiting')
<1>1. \A b \in y.ins : b \in Blocks /\ b \in Nat
  BY DEF Content, Blocks
<1>2. nextBlock \in Nat
  BY DEF Typed
<1>3. ASSUME NEW b \in y.ins PROVE b < nextBlock' /\ b \notin Waiting'
  <2>1. b < nextBlock /\ b \notin Waiting
    BY DEF Good
  <2>2. ~(nextBlock <= b) /\ b < nextBlock'
    BY <2>1, <1>1, <1>2 DEF Ages
  <2> QED
    BY <2>1, <2>2 DEF Ages
<1>4. \A b \in y.ins : made'[b] = made[b]
  BY <1>1 DEF Ages, Good
<1> QED
  BY <1>3, <1>4 DEF Good

LEMMA EmptyGood == \A m, n, q : Good(EmptyContent, m, n, q)
BY DEF Good, EmptyContent

LEMMA MergeGood ==
  ASSUME NEW m, NEW n, NEW q, NEW y, NEW z, Good(y, m, n, q), Good(z, m, n, q)
  PROVE  Good(Merge(y, z), m, n, q)
<1>1. Merge(y, z).ins = y.ins \cup z.ins /\ Merge(y, z).del = y.del \cup z.del
  BY DEF Merge
<1> HIDE DEF Merge
<1> QED
  BY <1>1 DEF Good

LEMMA MergeTyped ==
  ASSUME NEW y \in Content, NEW z \in Content
  PROVE  Merge(y, z) \in Content
BY DEF Merge, Content

\* A client's queue loses blocks, or gets new ones.
LEMMA QueueStep ==
  ASSUME Typed, QueuesApart, nextBlock' \in Nat, nextBlock <= nextBlock',
         NEW c \in Clients, client' \in [Clients -> Client],
         \A d \in Clients : d # c => client'[d] = client[d],
         BlocksOf(client'[c].queue) \subseteq
           BlocksOf(client[c].queue) \cup {b \in Nat : nextBlock <= b /\ b < nextBlock'}
  PROVE  /\ QueuesApart'
         /\ Waiting' \subseteq Waiting \cup {b \in Nat : nextBlock <= b /\ b < nextBlock'}
<1> DEFINE Q(d) == BlocksOf(client[d].queue)
           R(d) == BlocksOf(client'[d].queue)
           New == {b \in Nat : nextBlock <= b /\ b < nextBlock'}
<1>1. nextBlock \in Nat
  BY DEF Typed
<1>2. \A d \in Clients : \A b \in Q(d) : b \in Nat /\ b < nextBlock
  <2>1. \A d \in Clients : client[d].queue \in Seq(Change)
    BY DEF Typed, Client
  <2>2. ASSUME NEW d \in Clients, NEW i \in DOMAIN client[d].queue
        PROVE  client[d].queue[i].block \in Nat
    <3>1. client[d].queue[i] \in Change
      BY <2>1
    <3> QED
      BY <3>1 DEF Change, Blocks
  <2> QED
    BY <2>2 DEF BlocksOf, QueuesApart
<1>3. \A d \in Clients : R(d) \subseteq Q(d) \cup New
  OBVIOUS
<1>4. \A d \in Clients : d # c => R(d) = Q(d)
  OBVIOUS
<1>5. \A d, e \in Clients : d # e => Q(d) \cap Q(e) = {}
  BY DEF QueuesApart
<1>6. Waiting = UNION {Q(d) : d \in Clients} /\ Waiting' = UNION {R(d) : d \in Clients}
  BY DEF Waiting
<1>7. QueuesApart' <=> \A d \in Clients : \A b \in R(d) :
                        b < nextBlock' /\ \A e \in Clients : e # d => b \notin R(e)
  BY DEF QueuesApart
<1> HIDE DEF Q, R
<1>8. \A d \in Clients : \A b \in R(d) : b < nextBlock'
  BY <1>1, <1>2, <1>3
<1>9. ASSUME NEW d \in Clients, NEW e \in Clients, e # d, NEW b \in R(d) PROVE b \notin R(e)
  BY <1>1, <1>2, <1>3, <1>4, <1>5, <1>9
<1> QED
  BY <1>3, <1>6, <1>7, <1>8, <1>9

LEMMA MessagesStayGood ==
  ASSUME Typed, nextBlock' \in Nat, Ages, NEW q \in Seq(Message),
         GoodMessages(q, made, nextBlock, Waiting)
  PROVE  GoodMessages(q, made', nextBlock', Waiting')
<1>1. \A i \in DOMAIN q : q[i] \in Message
  OBVIOUS
<1>2. \A i \in DOMAIN q : q[i].update \in Content
  BY <1>1 DEF Message
<1> QED
  BY <1>2, StaysGood DEF GoodMessages

LEMMA TailGood ==
  ASSUME NEW m, NEW n, NEW q, NEW msgs \in Seq(Message), msgs # << >>, GoodMessages(msgs, m, n, q)
  PROVE  GoodMessages(Tail(msgs), m, n, q) /\ Good(Head(msgs).update, m, n, q)
BY TailFacts DEF GoodMessages

LEMMA AppendGood ==
  ASSUME NEW m, NEW n, NEW q, NEW msgs \in Seq(Message), NEW msg \in Message,
         GoodMessages(msgs, m, n, q), Good(msg.update, m, n, q)
  PROVE  GoodMessages(Append(msgs, msg), m, n, q)
BY AppendFacts DEF GoodMessages

-------------------------------------------------------------------------------
\* The invariant

\* The document is shared once, by its owner.
SharesSent ==
  \A c \in Clients :
    /\ c # Owner => Shares(up[c]) = {}
    /\ OneShare(up[c])
    /\ Shares(up[c]) # {} => doc.status = "none" /\ client[c].sharing

\* Each client is sent it once, before it has it.
SharesGot ==
  /\ Owner \in members
  /\ \A c \in Clients :
       /\ OneShare(down[c])
       /\ Shares(down[c]) # {} => client[c].status = "absent"
       /\ c \notin members => client[c].status = "absent" /\ down[c] = << >>
       /\ doc.status = "none" => /\ client[c].status = "absent"
                                 /\ \A i \in DOMAIN down[c] : down[c][i].type = "requestFullSync"

\* The server has reached the versions it announced, and announced them in order.
AllNumbered == \A c \in Clients : Numbered(down[c], doc.version)

\* The inductive invariant.  CausallyClosed alone is not inductive: a flush turns
\* queued blocks into part of a content, and must find them in none.
DocsInv ==
  /\ Typed
  /\ \A c \in Clients : ClientOK(c, client[c])
  /\ SharesSent
  /\ SharesGot
  /\ AllNumbered
  /\ AllGood
  /\ QueuesApart

LEMMA DocOwner == Owner \in Clients
BY DocumentConstants

-------------------------------------------------------------------------------
\* What steps do to shares

\* The messages r that are left of q, with others added.
Calm(q, r) == OneShare(r) /\ (Shares(r) # {} => Shares(q) # {})

LEMMA SentKept ==
  ASSUME SharesSent, \A c \in Clients : Calm(up[c], up'[c]),
         \A c \in Clients : Shares(up[c]) # {} => client'[c].sharing = client[c].sharing,
         doc.status = "none" => doc'.status = "none"
  PROVE  SharesSent'
BY DEF SharesSent, Calm

LEMMA GotKept ==
  ASSUME SharesGot, \A c \in Clients : Calm(down[c], down'[c]),
         members' = members, doc'.status = "none" => doc.status = "none",
         \A c \in Clients : Shares(down'[c]) # {} => client'[c].status = client[c].status,
         \A c \in Clients : c \notin members \/ doc'.status = "none" => client'[c].status = client[c].status,
         \A c \in Clients : c \notin members => down'[c] = down[c],
         doc'.status = "none" => \A c \in Clients : \A i \in DOMAIN down'[c] :
                                   down'[c][i].type = "requestFullSync"
  PROVE  SharesGot'
BY DEF SharesGot, Calm

LEMMA TailCalm ==
  ASSUME NEW q \in Seq(Message), q # << >>, OneShare(q)
  PROVE  Calm(q, Tail(q))
BY TailShares DEF Calm

LEMMA AppendCalm ==
  ASSUME NEW q \in Seq(Message), NEW m \in Message, ~IsShare(m), OneShare(q)
  PROVE  Calm(q, Append(q, m))
BY AppendShares DEF Calm

\* A message that is not a share is sent to the server.
LEMMA SendCalm ==
  ASSUME up \in [Clients -> Seq(Message)], SharesSent, NEW c \in Clients, NEW m \in Message,
         ~IsShare(m), Send(c, m) \/ UNCHANGED up
  PROVE  \A d \in Clients : Calm(up[d], up'[d])
<1> SUFFICES ASSUME NEW d \in Clients PROVE Calm(up[d], up'[d])
  OBVIOUS
<1>1. OneShare(up[d]) /\ up[d] \in Seq(Message)
  BY DEF SharesSent
<1>2. CASE up'[d] = up[d]
  BY <1>1, <1>2 DEF Calm
<1>3. CASE up'[d] = Append(up[d], m)
  BY <1>1, <1>3, AppendCalm
<1> QED
  BY <1>2, <1>3, Sends

LEMMA FromClientCalm ==
  ASSUME up \in [Clients -> Seq(Message)], SharesSent, NEW c \in Clients, NEW type,
         FromClient(c, type)
  PROVE  \A d \in Clients : Calm(up[d], up'[d])
<1> SUFFICES ASSUME NEW d \in Clients PROVE Calm(up[d], up'[d])
  OBVIOUS
<1>1. OneShare(up[d]) /\ up[d] \in Seq(Message)
  BY DEF SharesSent
<1>2. CASE up'[d] = up[d]
  BY <1>1, <1>2 DEF Calm
<1>3. CASE d = c
  BY <1>1, <1>3, TailCalm, ServerTakes
<1> QED
  BY <1>2, <1>3, ServerTakes

LEMMA FromServerCalm ==
  ASSUME down \in [Clients -> Seq(Message)], SharesGot, NEW c \in Clients, NEW type,
         FromServer(c, type)
  PROVE  /\ \A d \in Clients : Calm(down[d], down'[d])
         /\ c \in members
         /\ \A d \in Clients : d \notin members => down'[d] = down[d]
         /\ (\A i \in DOMAIN down[c] : down[c][i].type = "requestFullSync") =>
              /\ type = "requestFullSync"
              /\ \A i \in DOMAIN down'[c] : down'[c][i].type = "requestFullSync"
<1>0. c \in members
  BY ClientTakes DEF SharesGot
<1>1. ASSUME NEW d \in Clients PROVE Calm(down[d], down'[d])
  <2>1. OneShare(down[d]) /\ down[d] \in Seq(Message)
    BY DEF SharesGot
  <2>2. CASE down'[d] = down[d]
    BY <2>1, <2>2 DEF Calm
  <2>3. CASE d = c
    BY <2>1, <2>3, TailCalm, ClientTakes
  <2> QED
    BY <2>2, <2>3, ClientTakes
<1>2. down[c] \in Seq(Message) /\ down[c] # << >> /\ Head(down[c]).type = type /\ down'[c] = Tail(down[c])
  BY ClientTakes
<1>3. ASSUME \A i \in DOMAIN down[c] : down[c][i].type = "requestFullSync"
      PROVE  /\ type = "requestFullSync"
             /\ \A i \in DOMAIN down'[c] : down'[c][i].type = "requestFullSync"
  BY <1>2, <1>3, TailFacts
<1> QED
  BY <1>0, <1>1, <1>3, ClientTakes

LEMMA BroadcastCalm ==
  ASSUME down \in [Clients -> Seq(Message)], SharesGot, NEW m \in Message, NEW receivers,
         ~IsShare(m), Broadcast(m, receivers) \/ UNCHANGED down
  PROVE  \A d \in Clients : Calm(down[d], down'[d])
<1> SUFFICES ASSUME NEW d \in Clients PROVE Calm(down[d], down'[d])
  OBVIOUS
<1>1. OneShare(down[d]) /\ down[d] \in Seq(Message)
  BY DEF SharesGot
<1>2. CASE down'[d] = down[d]
  BY <1>1, <1>2 DEF Calm
<1>3. CASE down'[d] = Append(down[d], m)
  BY <1>1, <1>3, AppendCalm
<1> QED
  BY <1>2, <1>3, Broadcasts

-------------------------------------------------------------------------------
\* What steps do to versions

LEMMA TakenNumbered ==
  ASSUME Typed, AllNumbered, NEW c \in Clients, NEW type, FromServer(c, type), doc' = doc
  PROVE  AllNumbered'
<1> SUFFICES ASSUME NEW d \in Clients PROVE Numbered(down'[d], doc.version)
  BY DEF AllNumbered
<1>1. down \in [Clients -> Seq(Message)] /\ doc.version \in Nat /\ Numbered(down[d], doc.version)
  BY DEF Typed, Document, AllNumbered
<1>2. CASE d = c
  <2>1. down[c] # << >> /\ down'[c] = Tail(down[c])
    BY <1>1, ClientTakes
  <2> QED
    BY <1>1, <1>2, <2>1, TailNumbered
<1>3. CASE d # c
  BY <1>1, <1>3, ClientTakes
<1> QED
  BY <1>2, <1>3

LEMMA BroadcastNumbered ==
  ASSUME Typed, AllNumbered, NEW m \in Message, NEW receivers,
         Broadcast(m, receivers), doc'.version \in Nat, doc.version <= doc'.version,
         IsNumbered(m) => m.version = doc'.version /\ doc.version < doc'.version
  PROVE  AllNumbered'
<1> SUFFICES ASSUME NEW d \in Clients PROVE Numbered(down'[d], doc'.version)
  BY DEF AllNumbered
<1>1. down \in [Clients -> Seq(Message)] /\ doc.version \in Nat /\ Numbered(down[d], doc.version)
      /\ down[d] \in Seq(Message)
  BY DEF Typed, Document, AllNumbered
<1>2. CASE down'[d] = Append(down[d], m)
  BY <1>1, <1>2, AppendNumbered
<1>3. CASE down'[d] = down[d]
  <2>1. \A i \in DOMAIN down[d] : down[d][i] \in Message
    BY <1>1
  <2>2. \A i \in DOMAIN down[d] : down[d][i].version \in Nat
    BY <2>1 DEF Message
  <2> QED
    BY <1>1, <1>3, <2>2 DEF Numbered
<1> QED
  BY <1>1, <1>2, <1>3, Broadcasts

-------------------------------------------------------------------------------
\* What steps do to contents

GoodThen(y) == Good(y, made', nextBlock', Waiting')
GoodThenAll(msgs) == GoodMessages(msgs, made', nextBlock', Waiting')

\* What was good before the step, which each step starts from.
AllGoodThen ==
  /\ GoodThen(doc.yjsState)
  /\ \A c \in Clients : /\ GoodThen(client[c].yDoc)
                        /\ GoodThen(client[c].opening.update)
                        /\ GoodThenAll(up[c])
                        /\ GoodThenAll(down[c])

LEMMA GoodAges ==
  ASSUME Typed, AllGood, nextBlock' \in Nat, Ages
  PROVE  AllGoodThen
<1>1. /\ doc.yjsState \in Content
      /\ \A c \in Clients : /\ client[c].yDoc \in Content /\ client[c].opening \in Message
                            /\ up[c] \in Seq(Message) /\ down[c] \in Seq(Message)
  BY DEF Typed, Document, Client
<1>2. \A c \in Clients : client[c].opening.update \in Content
  BY <1>1 DEF Message
<1>3. GoodThen(doc.yjsState)
  BY <1>1, StaysGood DEF AllGood, GoodThen
<1>4. ASSUME NEW c \in Clients
      PROVE  /\ GoodThen(client[c].yDoc) /\ GoodThen(client[c].opening.update)
             /\ GoodThenAll(up[c]) /\ GoodThenAll(down[c])
  BY <1>1, <1>2, StaysGood, MessagesStayGood DEF AllGood, GoodThen, GoodThenAll
<1> QED
  BY <1>3, <1>4 DEF AllGoodThen

\* A step that writes no block and queues none.
LEMMA NoneWritten ==
  ASSUME Typed, QueuesApart, AllGood, NoNewBlock, NEW c \in Clients, client' \in [Clients -> Client],
         \A d \in Clients : d # c => client'[d] = client[d],
         BlocksOf(client'[c].queue) \subseteq BlocksOf(client[c].queue)
  PROVE  QueuesApart' /\ AllGoodThen
<1>1. nextBlock \in Nat /\ nextBlock' = nextBlock /\ made' = made
  BY DEF Typed, NoNewBlock
<1>2. /\ QueuesApart'
      /\ Waiting' \subseteq Waiting \cup {b \in Nat : nextBlock <= b /\ b < nextBlock'}
  BY <1>1, QueueStep
<1>3. Ages
  BY <1>1, <1>2 DEF Ages
<1> QED
  BY <1>1, <1>2, <1>3, GoodAges

LEMMA ServerWritesNone ==
  ASSUME Typed, QueuesApart, AllGood, NoNewBlock, UNCHANGED client
  PROVE  QueuesApart' /\ AllGoodThen
BY DocOwner, NoneWritten DEF Typed

\* One that writes a new block, which may be queued.
LEMMA OneWritten ==
  ASSUME Typed, QueuesApart, AllGood, NEW text \in SUBSET Units, NEW y \in Content, NewBlock(text, y),
         NEW c \in Clients, client' \in [Clients -> Client],
         \A d \in Clients : d # c => client'[d] = client[d],
         BlocksOf(client'[c].queue) \subseteq BlocksOf(client[c].queue) \cup {nextBlock}
  PROVE  QueuesApart' /\ AllGoodThen
<1>1. nextBlock \in Nat /\ nextBlock' = nextBlock + 1
  BY NewBlockTyped
<1>2. nextBlock' \in Nat /\ nextBlock <= nextBlock'
      /\ {nextBlock} = {b \in Nat : nextBlock <= b /\ b < nextBlock'}
  BY <1>1
<1>3. /\ QueuesApart'
      /\ Waiting' \subseteq Waiting \cup {b \in Nat : nextBlock <= b /\ b < nextBlock'}
  BY <1>2, QueueStep
<1>4. \A b \in Blocks : b < nextBlock => made'[b] = made[b]
  BY <1>1 DEF NewBlock, Typed, Blocks
<1>5. Ages
  BY <1>2, <1>3, <1>4 DEF Ages
<1> QED
  BY <1>2, <1>3, <1>5, GoodAges

\* If it is not queued, the new block may be in a content that has what it was made on.
LEMMA WrittenGood ==
  ASSUME Typed, QueuesApart, NEW text \in SUBSET Units, NEW y \in Content, NewBlock(text, y),
         NEW c \in Clients, client' \in [Clients -> Client],
         \A d \in Clients : d # c => client'[d] = client[d],
         BlocksOf(client'[c].queue) \subseteq BlocksOf(client[c].queue),
         NEW z, z.del \subseteq z.ins, nextBlock \in z.ins,
         y.ins \subseteq z.ins, y.del \subseteq z.del,
         \A b \in z.ins : b # nextBlock => b \in y.ins,
         GoodThen(y)
  PROVE  GoodThen(z)
<1>1. nextBlock \in Nat /\ nextBlock' = nextBlock + 1 /\ nextBlock \in Blocks
  BY NewBlockTyped
<1>2. \A d \in Clients : \A b \in BlocksOf(client'[d].queue) : b \in BlocksOf(client[d].queue)
  OBVIOUS
<1>3. ~(nextBlock < nextBlock)
  BY <1>1
<1>4. nextBlock \notin Waiting'
  BY <1>2, <1>3 DEF Waiting, QueuesApart
<1>5. made'[nextBlock] = y
  BY <1>1 DEF NewBlock, Typed
<1>6. nextBlock < nextBlock'
  BY <1>1
<1>7. \A b \in z.ins : /\ b < nextBlock' /\ b \notin Waiting'
                       /\ made'[b].ins \subseteq z.ins /\ made'[b].del \subseteq z.del
  BY <1>4, <1>5, <1>6 DEF Good, GoodThen
<1> QED
  BY <1>7 DEF Good, GoodThen

LEMMA EmptyGoodThen == GoodThen(EmptyContent)
BY EmptyGood DEF GoodThen

LEMMA SendGood ==
  ASSUME AllGoodThen, up \in [Clients -> Seq(Message)], NEW c \in Clients, NEW m \in Message,
         GoodThen(m.update), Send(c, m) \/ UNCHANGED up
  PROVE  \A d \in Clients : GoodThenAll(up'[d])
<1> SUFFICES ASSUME NEW d \in Clients PROVE GoodThenAll(up'[d])
  OBVIOUS
<1>1. GoodThenAll(up[d]) /\ up[d] \in Seq(Message)
  BY DEF AllGoodThen
<1>2. GoodThenAll(Append(up[d], m))
  BY <1>1, AppendGood DEF GoodThen, GoodThenAll
<1>3. up'[d] = up[d] \/ up'[d] = Append(up[d], m)
  BY Sends
<1> QED
  BY <1>1, <1>2, <1>3

LEMMA BroadcastGood ==
  ASSUME AllGoodThen, down \in [Clients -> Seq(Message)], NEW m \in Message, NEW receivers,
         GoodThen(m.update), Broadcast(m, receivers) \/ UNCHANGED down
  PROVE  \A d \in Clients : GoodThenAll(down'[d])
<1> SUFFICES ASSUME NEW d \in Clients PROVE GoodThenAll(down'[d])
  OBVIOUS
<1>1. GoodThenAll(down[d]) /\ down[d] \in Seq(Message)
  BY DEF AllGoodThen
<1>2. GoodThenAll(Append(down[d], m))
  BY <1>1, AppendGood DEF GoodThen, GoodThenAll
<1>3. down'[d] = down[d] \/ down'[d] = Append(down[d], m)
  BY Broadcasts
<1> QED
  BY <1>1, <1>2, <1>3

LEMMA FromClientGood ==
  ASSUME AllGoodThen, up \in [Clients -> Seq(Message)], NEW c \in Clients, NEW type,
         FromClient(c, type)
  PROVE  (\A d \in Clients : GoodThenAll(up'[d])) /\ GoodThen(Head(up[c]).update)
<1>1. up[c] \in Seq(Message) /\ up[c] # << >> /\ GoodThenAll(up[c])
  BY ServerTakes DEF AllGoodThen
<1>2. GoodThenAll(Tail(up[c])) /\ GoodThen(Head(up[c]).update)
  BY <1>1, TailGood DEF GoodThen, GoodThenAll
<1>3. up'[c] = Tail(up[c]) /\ \A d \in Clients : d # c => up'[d] = up[d]
  BY ServerTakes
<1> QED
  BY <1>2, <1>3 DEF AllGoodThen

LEMMA FromServerGood ==
  ASSUME AllGoodThen, down \in [Clients -> Seq(Message)], NEW c \in Clients, NEW type,
         FromServer(c, type)
  PROVE  (\A d \in Clients : GoodThenAll(down'[d])) /\ GoodThen(Head(down[c]).update)
<1>1. down[c] \in Seq(Message) /\ down[c] # << >> /\ GoodThenAll(down[c])
  BY ClientTakes DEF AllGoodThen
<1>2. GoodThenAll(Tail(down[c])) /\ GoodThen(Head(down[c]).update)
  BY <1>1, TailGood DEF GoodThen, GoodThenAll
<1>3. down'[c] = Tail(down[c]) /\ \A d \in Clients : d # c => down'[d] = down[d]
  BY ClientTakes
<1> QED
  BY <1>2, <1>3 DEF AllGoodThen

LEMMA AllGoodNext ==
  ASSUME GoodThen(doc'.yjsState),
         \A c \in Clients : GoodThen(client'[c].yDoc) /\ GoodThen(client'[c].opening.update),
         \A c \in Clients : GoodThenAll(up'[c]),
         \A c \in Clients : GoodThenAll(down'[c])
  PROVE  AllGood'
BY DEF AllGood, GoodThen, GoodThenAll

-------------------------------------------------------------------------------
\* The server's steps

LEMMA ClientsSame ==
  ASSUME DocsInv, UNCHANGED client
  PROVE  client' \in [Clients -> Client] /\ \A d \in Clients : ClientOK(d, client'[d])
BY DEF DocsInv, Typed

LEMMA ShareDocumentKeeps ==
  ASSUME DocsInv, NEW c \in Clients, ShareDocument(c)
  PROVE  DocsInv'
<1> DEFINE m == Head(up[c])
           n == Msg("shareDocument", m.version, m.text, EmptyContent)
<1>1. /\ up \in [Clients -> Seq(Message)] /\ down \in [Clients -> Seq(Message)]
      /\ FromClient(c, "shareState") /\ Broadcast(n, members) /\ NoNewBlock
      /\ UNCHANGED <<members, client>>
  BY DEF DocsInv, Typed, ShareDocument
<1>2. /\ m \in Message /\ m.type = "shareState" /\ up[c] # << >> /\ up'[c] = Tail(up[c])
      /\ up' \in [Clients -> Seq(Message)]
      /\ \A d \in Clients : d # c => up'[d] = up[d]
  BY <1>1, ServerTakes
<1>3. m.version \in Nat /\ m.text \in SUBSET Units /\ m.update \in Content
  BY <1>2 DEF Message
<1>4. n \in Message /\ n.type = "shareDocument" /\ n.update = EmptyContent
  BY <1>3, MsgTyped, EmptyTyped
<1>5. doc' = [status |-> "shared", version |-> m.version, text |-> m.text, yjsState |-> m.update]
  BY DEF ShareDocument
<1>6. doc' \in Document /\ doc'.version \in Nat
  BY <1>3, <1>5 DEF Document
<1>7. up[c] \in Seq(Message) /\ OneShare(up[c]) /\ IsShare(m)
  BY <1>1, <1>2 DEF DocsInv, SharesSent, IsShare
<1>8. Shares(up'[c]) = {} /\ Shares(up[c]) # {}
  BY <1>2, <1>7, TailShares
<1>9. c = Owner /\ doc.status = "none"
  BY <1>8 DEF DocsInv, SharesSent
<1>10. QueuesApart' /\ AllGoodThen
  BY <1>1, ServerWritesNone DEF DocsInv
<1> HIDE DEF n
<1>11. \A d \in Clients :
         /\ down'[d] = down[d] \/ down'[d] = Append(down[d], n)
         /\ d \notin members => down'[d] = down[d]
         /\ down[d] \in Seq(Message) /\ Shares(down[d]) = {} /\ client'[d].status = "absent"
         /\ \A i \in DOMAIN down[d] : ~IsNumbered(down[d][i])
  BY <1>1, <1>4, <1>9, Broadcasts DEF DocsInv, SharesGot, Shares, IsNumbered
<1>12. down' \in [Clients -> Seq(Message)]
  BY <1>1, <1>4, Broadcasts
<1>13. SharesSent'
  <2> SUFFICES ASSUME NEW d \in Clients PROVE Shares(up'[d]) = {}
    BY DEF SharesSent, OneShare
  <2> QED
    BY <1>2, <1>8, <1>9 DEF DocsInv, SharesSent
<1>14. SharesGot'
  <2>1. ASSUME NEW d \in Clients PROVE OneShare(down'[d])
    <3>1. OneShare(down[d])
      BY DEF DocsInv, SharesGot
    <3>2. OneShare(Append(down[d], n))
      BY <3>1, <1>4, <1>11, AppendShares
    <3> QED
      BY <3>1, <3>2, <1>11
  <2> QED
    BY <1>1, <1>5, <1>11, <2>1 DEF DocsInv, SharesGot
<1>15. AllNumbered'
  <2> SUFFICES ASSUME NEW d \in Clients, NEW i \in DOMAIN down'[d] PROVE ~IsNumbered(down'[d][i])
    BY DEF AllNumbered, Numbered
  <2>1. CASE down'[d] = down[d]
    BY <2>1, <1>11
  <2>2. CASE down'[d] = Append(down[d], n)
    BY <2>2, <1>4, <1>11, AppendFacts DEF IsNumbered
  <2> QED
    BY <2>1, <2>2, <1>11
<1>16. AllGood'
  <2>1. /\ \A d \in Clients : GoodThenAll(up'[d])
        /\ GoodThen(m.update)
    BY <1>1, <1>10, FromClientGood
  <2>2. \A d \in Clients : GoodThenAll(down'[d])
    BY <1>1, <1>4, <1>10, BroadcastGood, EmptyGoodThen
  <2> QED
    BY <1>1, <1>5, <1>10, <2>1, <2>2, AllGoodNext DEF AllGoodThen
<1> QED
  BY <1>1, <1>2, <1>6, <1>10, <1>12, <1>13, <1>14, <1>15, <1>16, ClientsSame
     DEF DocsInv, Typed, NoNewBlock

LEMMA JoinKeeps ==
  ASSUME DocsInv, NEW c \in Clients, Join(c)
  PROVE  DocsInv'
<1> DEFINE n == Msg("shareState", doc.version, doc.text, doc.yjsState)
           receivers == IF doc.status = "shared" THEN {c} ELSE {}
<1>1. /\ down \in [Clients -> Seq(Message)]
      /\ Broadcast(n, receivers) /\ NoNewBlock
      /\ UNCHANGED <<doc, client, up>>
      /\ c \notin members /\ members' = members \cup {c}
  BY DEF DocsInv, Typed, Join
<1>2. n \in Message /\ n.type = "shareState" /\ n.update = doc.yjsState
  BY MsgTyped DEF DocsInv, Typed, Document
<1>3. QueuesApart' /\ AllGoodThen
  BY <1>1, ServerWritesNone DEF DocsInv
<1> HIDE DEF n
<1>4. \A d \in Clients :
         /\ down'[d] = down[d] \/ (d = c /\ doc.status = "shared" /\ down'[d] = Append(down[d], n))
         /\ down[d] \in Seq(Message)
  BY <1>1, <1>2, Broadcasts
<1>5. down' \in [Clients -> Seq(Message)]
  BY <1>1, <1>2, Broadcasts
<1>6. down[c] = << >> /\ client[c].status = "absent" /\ Shares(down[c]) = {}
  BY <1>1 DEF DocsInv, SharesGot, Shares
<1>7. SharesGot'
  <2>1. ASSUME NEW d \in Clients PROVE OneShare(down'[d])
    <3>1. OneShare(down[d])
      BY DEF DocsInv, SharesGot
    <3>2. d = c => OneShare(Append(down[d], n))
      BY <3>1, <1>2, <1>4, <1>6, AppendShares
    <3> QED
      BY <3>1, <3>2, <1>4
  <2>2. doc.status = "none" => \A d \in Clients : down'[d] = down[d]
    BY <1>4
  <2> QED
    BY <1>1, <1>4, <1>6, <2>1, <2>2 DEF DocsInv, SharesGot
<1>8. AllNumbered'
  <2>1. ~IsNumbered(n)
    BY <1>2 DEF IsNumbered
  <2> QED
    BY <1>1, <1>2, <2>1, BroadcastNumbered DEF DocsInv, Typed, Document
<1>9. AllGood'
  <2>1. \A d \in Clients : GoodThenAll(down'[d])
    BY <1>1, <1>2, <1>3, BroadcastGood DEF AllGoodThen
  <2> QED
    BY <1>1, <1>3, <2>1, AllGoodNext DEF AllGoodThen
<1>10. SharesSent'
  BY <1>1 DEF DocsInv, SharesSent
<1> QED
  BY <1>1, <1>3, <1>5, <1>7, <1>8, <1>9, <1>10, ClientsSame DEF DocsInv, Typed, NoNewBlock

\* The server takes a message of c that is no share, and may broadcast one while the
\* document is shared.
LEMMA ServerRelayKeeps ==
  ASSUME DocsInv, NEW c \in Clients, NEW type \in {"docChange", "requestFullSync", "fullDocumentSync",
                                                   "unshareDocument"},
         FromClient(c, type), NoNewBlock, UNCHANGED <<members, client>>,
         doc' \in Document, doc.version <= doc'.version, GoodThen(doc'.yjsState),
         (doc'.status = "none") <=> (doc.status = "none"),
         NEW n \in Message, GoodThen(n.update), ~IsShare(n), NEW receivers \in SUBSET members,
         doc.status = "none" => n.type = "requestFullSync",
         \/ /\ Broadcast(n, receivers)
            /\ IsNumbered(n) => n.version = doc'.version /\ doc.version < doc'.version
         \/ UNCHANGED <<doc, down>>
  PROVE  DocsInv'
<1>1. /\ up \in [Clients -> Seq(Message)] /\ down \in [Clients -> Seq(Message)]
      /\ members' = members /\ client' = client
  BY DEF DocsInv, Typed
<1>2. up' \in [Clients -> Seq(Message)]
  BY <1>1, ServerTakes
<1>3. QueuesApart' /\ AllGoodThen
  BY <1>1, ServerWritesNone DEF DocsInv
<1>4. down' \in [Clients -> Seq(Message)]
  BY <1>1, Broadcasts
<1>5. SharesSent'
  BY <1>1, FromClientCalm, SentKept DEF DocsInv
<1>6. \A d \in Clients : /\ down'[d] = down[d] \/ (d \in receivers /\ down'[d] = Append(down[d], n))
                         /\ down[d] \in Seq(Message)
  BY <1>1, Broadcasts
<1>7. SharesGot'
  <2>1. \A d \in Clients : Calm(down[d], down'[d])
    BY <1>1, BroadcastCalm DEF DocsInv
  <2>2. ASSUME doc.status = "none", NEW d \in Clients, NEW i \in DOMAIN down'[d]
        PROVE  down'[d][i].type = "requestFullSync"
    <3>1. \A j \in DOMAIN down[d] : down[d][j].type = "requestFullSync"
      BY <2>2 DEF DocsInv, SharesGot
    <3>2. CASE down'[d] = Append(down[d], n)
      BY <2>2, <3>1, <3>2, <1>6, AppendFacts
    <3> QED
      BY <2>2, <3>1, <3>2, <1>6
  <2>3. \A d \in Clients : d \notin members => down'[d] = down[d]
    BY <1>6
  <2> QED
    BY <1>1, <2>1, <2>2, <2>3, GotKept DEF DocsInv
<1>8. AllNumbered'
  <2>1. CASE UNCHANGED <<doc, down>>
    BY <2>1 DEF DocsInv, AllNumbered
  <2>2. CASE Broadcast(n, receivers) /\ (IsNumbered(n) => n.version = doc'.version /\ doc.version < doc'.version)
    BY <2>2, BroadcastNumbered DEF DocsInv, Document
  <2> QED
    BY <2>1, <2>2
<1>9. AllGood'
  <2>1. \A d \in Clients : GoodThenAll(up'[d])
    BY <1>1, <1>3, FromClientGood
  <2>2. \A d \in Clients : GoodThenAll(down'[d])
    BY <1>1, <1>3, BroadcastGood
  <2> QED
    BY <1>1, <1>3, <2>1, <2>2, AllGoodNext DEF AllGoodThen
<1> QED
  BY <1>1, <1>2, <1>3, <1>4, <1>5, <1>7, <1>8, <1>9, ClientsSame DEF DocsInv, Typed, NoNewBlock

\* Messages without a content.
LEMMA PlainMessage ==
  ASSUME NEW type \in {"requestFullSync", "unshareDocument"}
  PROVE  /\ Msg(type, 0, {}, EmptyContent) \in Message
         /\ Msg(type, 0, {}, EmptyContent).type = type
         /\ GoodThen(Msg(type, 0, {}, EmptyContent).update)
         /\ ~IsShare(Msg(type, 0, {}, EmptyContent))
         /\ ~IsNumbered(Msg(type, 0, {}, EmptyContent))
<1>1. /\ Msg(type, 0, {}, EmptyContent) \in Message
      /\ Msg(type, 0, {}, EmptyContent).type = type
      /\ Msg(type, 0, {}, EmptyContent).update = EmptyContent
  BY MsgTyped, EmptyTyped
<1> QED
  BY <1>1, EmptyGoodThen DEF IsShare, IsNumbered

\* What a server step that does not change the document finds.
LEMMA DocSame ==
  ASSUME DocsInv, NoNewBlock, UNCHANGED client
  PROVE  /\ doc \in Document /\ doc.version \in Nat /\ doc.version <= doc.version
         /\ GoodThen(doc.yjsState)
BY ServerWritesNone DEF DocsInv, Typed, Document, AllGoodThen

LEMMA UnshareDocumentKeeps ==
  ASSUME DocsInv, NEW c \in Clients, UnshareDocument(c)
  PROVE  DocsInv'
<1> DEFINE n == Msg("unshareDocument", 0, {}, EmptyContent)
           r == Msg("requestFullSync", 0, {}, EmptyContent)
<1>1. /\ FromClient(c, "unshareDocument") /\ NoNewBlock /\ UNCHANGED <<members, client>>
      /\ \/ /\ doc.status = "shared" /\ doc' = [doc EXCEPT !.status = "unshared"]
            /\ Broadcast(n, members)
         \/ UNCHANGED <<doc, down>>
  BY DEF UnshareDocument
<1>2. doc \in Document /\ doc.version \in Nat /\ GoodThen(doc.yjsState)
  BY <1>1, DocSame
<1>3. /\ n \in Message /\ GoodThen(n.update) /\ ~IsShare(n) /\ ~IsNumbered(n)
      /\ r \in Message /\ GoodThen(r.update) /\ ~IsShare(r) /\ r.type = "requestFullSync"
  BY PlainMessage
<1> HIDE DEF n, r
<1>4. CASE doc.status = "shared" /\ doc' = [doc EXCEPT !.status = "unshared"] /\ Broadcast(n, members)
  <2>1. /\ doc' \in Document /\ doc.version <= doc'.version /\ GoodThen(doc'.yjsState)
        /\ ((doc'.status = "none") <=> (doc.status = "none"))
    BY <1>2, <1>4 DEF Document
  <2> QED
    BY <1>1, <1>3, <1>4, <2>1, ServerRelayKeeps
<1>5. CASE UNCHANGED <<doc, down>>
  <2>1. /\ doc' \in Document /\ doc.version <= doc'.version /\ GoodThen(doc'.yjsState)
        /\ ((doc'.status = "none") <=> (doc.status = "none"))
    BY <1>2, <1>5
  <2> QED
    BY <1>1, <1>3, <1>5, <2>1, ServerRelayKeeps
<1> QED
  BY <1>1, <1>4, <1>5

LEMMA RequestFullSyncKeeps ==
  ASSUME DocsInv, NEW c \in Clients, RequestFullSync(c)
  PROVE  DocsInv'
<1> DEFINE r == Msg("requestFullSync", 0, {}, EmptyContent)
<1>1. /\ FromClient(c, "requestFullSync") /\ NoNewBlock /\ UNCHANGED <<members, client>>
      /\ Broadcast(r, {Owner}) /\ doc' = doc
  BY DEF RequestFullSync, ServerUnchanged
<1>2. doc \in Document /\ doc.version \in Nat /\ GoodThen(doc.yjsState)
  BY <1>1, DocSame
<1>3. r \in Message /\ GoodThen(r.update) /\ ~IsShare(r) /\ ~IsNumbered(r) /\ r.type = "requestFullSync"
  BY PlainMessage
<1> HIDE DEF r
<1>4. /\ doc' \in Document /\ doc.version <= doc'.version /\ GoodThen(doc'.yjsState)
      /\ ((doc'.status = "none") <=> (doc.status = "none"))
      /\ {Owner} \in SUBSET members
  BY <1>1, <1>2 DEF DocsInv, SharesGot
<1> QED
  BY <1>1, <1>3, <1>4, ServerRelayKeeps

LEMMA DocChangeKeeps ==
  ASSUME DocsInv, NEW c \in Clients, DocChange(c)
  PROVE  DocsInv'
<1> DEFINE m == Head(up[c])
           n == [m EXCEPT !.version = doc.version + 1]
           r == Msg("requestFullSync", 0, {}, EmptyContent)
<1>1. /\ FromClient(c, "docChange") /\ NoNewBlock /\ UNCHANGED <<members, client>>
      /\ \/ /\ doc.status = "shared"
            /\ doc' = [doc EXCEPT !.text = Patched(@, m), !.version = @ + 1]
            /\ Broadcast(n, members \ {c})
         \/ UNCHANGED <<doc, down>>
  BY DEF DocChange
<1>2. doc \in Document /\ doc.version \in Nat /\ GoodThen(doc.yjsState)
  BY <1>1, DocSame
<1>3. m \in Message /\ m.type = "docChange" /\ GoodThen(m.update)
  BY <1>1, ServerTakes, FromClientGood, ServerWritesNone DEF DocsInv, Typed
<1>4. n \in Message /\ n.type = "docChange" /\ n.update = m.update /\ n.version = doc.version + 1
  BY <1>2, <1>3 DEF Message
<1>5. /\ GoodThen(n.update) /\ ~IsShare(n) /\ n.version = doc.version + 1
      /\ r \in Message /\ GoodThen(r.update) /\ ~IsShare(r) /\ r.type = "requestFullSync"
  BY <1>3, <1>4, PlainMessage DEF IsShare
<1>6. Patched(doc.text, m) \in SUBSET Units
  BY <1>2, <1>3 DEF Patched, Message, Document
<1> HIDE DEF n, r
<1>7. CASE doc.status = "shared" /\ doc' = [doc EXCEPT !.text = Patched(@, m), !.version = @ + 1]
           /\ Broadcast(n, members \ {c})
  <2>1. doc'.version = doc.version + 1 /\ doc'.yjsState = doc.yjsState /\ doc'.status = doc.status
        /\ doc' \in Document
    <3>1. PICK t \in SUBSET Units : doc' = [doc EXCEPT !.text = t, !.version = @ + 1]
      BY <1>6, <1>7
    <3>2. doc.version + 1 \in Nat /\ doc.yjsState \in Content /\ doc.status \in {"none", "shared", "unshared"}
      BY <1>2 DEF Document
    <3>3. doc' = [status |-> doc.status, version |-> doc.version + 1, text |-> t, yjsState |-> doc.yjsState]
      BY <1>2, <3>1 DEF Document
    <3> QED
      BY <3>2, <3>3 DEF Document
  <2>2. doc.version <= doc'.version /\ doc.version < doc'.version
    BY <1>2, <2>1
  <2> QED
    BY <1>1, <1>2, <1>4, <1>5, <1>7, <2>1, <2>2, ServerRelayKeeps
<1>8. CASE UNCHANGED <<doc, down>>
  <2>1. /\ doc' \in Document /\ doc.version <= doc'.version /\ GoodThen(doc'.yjsState)
        /\ ((doc'.status = "none") <=> (doc.status = "none"))
    BY <1>2, <1>8
  <2> QED
    BY <1>1, <1>5, <1>8, <2>1, ServerRelayKeeps
<1> QED
  BY <1>1, <1>7, <1>8

LEMMA FullDocumentSyncKeeps ==
  ASSUME DocsInv, NEW c \in Clients, FullDocumentSync(c)
  PROVE  DocsInv'
<1> DEFINE m == Head(up[c])
           r == Msg("requestFullSync", 0, {}, EmptyContent)
<1>1. /\ FromClient(c, "fullDocumentSync") /\ NoNewBlock /\ UNCHANGED <<members, client>>
      /\ \/ /\ doc.status = "shared" /\ m.version > doc.version
            /\ doc' = [doc EXCEPT !.text = m.text, !.version = m.version, !.yjsState = m.update]
            /\ Broadcast(m, members \ {c})
         \/ UNCHANGED <<doc, down>>
  BY DEF FullDocumentSync, AcceptsSync
<1>2. doc \in Document /\ doc.version \in Nat /\ GoodThen(doc.yjsState)
  BY <1>1, DocSame
<1>3. m \in Message /\ m.type = "fullDocumentSync" /\ GoodThen(m.update)
  BY <1>1, ServerTakes, FromClientGood, ServerWritesNone DEF DocsInv, Typed
<1>4. m.version \in Nat /\ m.text \in SUBSET Units /\ m.update \in Content
  BY <1>3 DEF Message
<1>5. ~IsShare(m) /\ r \in Message /\ GoodThen(r.update) /\ ~IsShare(r) /\ r.type = "requestFullSync"
  BY <1>3, PlainMessage DEF IsShare
<1> HIDE DEF m, r
<1>7. CASE doc.status = "shared" /\ m.version > doc.version
           /\ doc' = [doc EXCEPT !.text = m.text, !.version = m.version, !.yjsState = m.update]
           /\ Broadcast(m, members \ {c})
  <2>1. doc'.version = m.version /\ doc'.yjsState = m.update /\ doc'.status = doc.status
        /\ doc' \in Document
    BY <1>2, <1>4, <1>7 DEF Document
  <2>2. doc.version <= doc'.version /\ doc.version < doc'.version
    BY <1>2, <1>4, <1>7, <2>1
  <2> QED
    BY <1>1, <1>2, <1>3, <1>5, <1>7, <2>1, <2>2, ServerRelayKeeps
<1>8. CASE UNCHANGED <<doc, down>>
  <2>1. /\ doc' \in Document /\ doc.version <= doc'.version /\ GoodThen(doc'.yjsState)
        /\ ((doc'.status = "none") <=> (doc.status = "none"))
    BY <1>2, <1>8
  <2> QED
    BY <1>1, <1>5, <1>8, <2>1, ServerRelayKeeps
<1> QED
  BY <1>1, <1>7, <1>8

-------------------------------------------------------------------------------
\* The clients' steps

BlocksTyped ==
  /\ holds \in [Blocks -> SUBSET Units]
  /\ made \in [Blocks -> Content]
  /\ nextBlock \in 1 .. MaxBlocks + 1

LEMMA SameBlocksTyped == ASSUME Typed, NoNewBlock PROVE BlocksTyped'
BY DEF Typed, NoNewBlock, BlocksTyped

LEMMA NewBlocksTyped ==
  ASSUME Typed, NEW text \in SUBSET Units, NEW y \in Content, NewBlock(text, y)
  PROVE  BlocksTyped'
BY NewBlockTyped DEF BlocksTyped

\* Client c takes at most one message, sends at most one that is no share, and becomes s.
LEMMA ClientStepKeeps ==
  ASSUME DocsInv, NEW c \in Clients, NEW s, client' = [client EXCEPT ![c] = s], ClientOK(c, s),
         UNCHANGED <<doc, members>>, BlocksTyped', QueuesApart', AllGoodThen,
         GoodThen(s.yDoc), GoodThen(s.opening.update),
         NEW n \in Message, GoodThen(n.update), ~IsShare(n), Send(c, n) \/ UNCHANGED up,
         NEW type, FromServer(c, type) \/ UNCHANGED down,
         s.sharing = client[c].sharing \/ doc.status # "none",
         \/ s.status = client[c].status
         \/ doc.status # "none" /\ c \in members /\ Shares(down'[c]) = {}
  PROVE  DocsInv'
<1>1. /\ up \in [Clients -> Seq(Message)] /\ down \in [Clients -> Seq(Message)]
      /\ members' = members /\ doc' = doc
  BY DEF DocsInv, Typed
<1>2. /\ client' \in [Clients -> Client] /\ client'[c] = s
      /\ \A d \in Clients : ClientOK(d, client'[d])
      /\ \A d \in Clients : d # c => client'[d] = client[d]
  BY ClientSet DEF DocsInv, Typed
<1>3. up' \in [Clients -> Seq(Message)] /\ \A d \in Clients : Calm(up[d], up'[d])
  BY <1>1, SendCalm, Sends DEF DocsInv
<1>4. /\ down' \in [Clients -> Seq(Message)]
      /\ \A d \in Clients : Calm(down[d], down'[d])
      /\ \A d \in Clients : d \notin members => down'[d] = down[d]
      /\ \A d \in Clients : d # c => down'[d] = down[d]
      /\ (\A i \in DOMAIN down[c] : down[c][i].type = "requestFullSync") =>
           \A i \in DOMAIN down'[c] : down'[c][i].type = "requestFullSync"
  <2>1. CASE FromServer(c, type)
    BY <2>1, <1>1, FromServerCalm, ClientTakes DEF DocsInv
  <2>2. CASE UNCHANGED down
    BY <2>2, <1>1 DEF DocsInv, SharesGot, Calm
  <2> QED
    BY <2>1, <2>2
<1>5. SharesSent'
  <2>1. \A d \in Clients : Shares(up[d]) # {} => client'[d].sharing = client[d].sharing
    BY <1>2 DEF DocsInv, SharesSent
  <2> QED
    BY <1>1, <1>3, <2>1, SentKept DEF DocsInv
<1>6. SharesGot'
  <2>1. doc'.status = "none" => \A d \in Clients : \A i \in DOMAIN down'[d] :
                                   down'[d][i].type = "requestFullSync"
    BY <1>1, <1>4 DEF DocsInv, SharesGot
  <2>2. \A d \in Clients : Shares(down'[d]) # {} => client'[d].status = client[d].status
    BY <1>2
  <2>3. \A d \in Clients : d \notin members \/ doc'.status = "none" => client'[d].status = client[d].status
    BY <1>1, <1>2
  <2> QED
    BY <1>1, <1>4, <2>1, <2>2, <2>3, GotKept DEF DocsInv
<1>7. AllNumbered'
  <2>1. CASE FromServer(c, type)
    BY <2>1, <1>1, TakenNumbered DEF DocsInv
  <2>2. CASE UNCHANGED down
    BY <2>2, <1>1 DEF DocsInv, AllNumbered
  <2> QED
    BY <2>1, <2>2
<1>8. AllGood'
  <2>1. \A d \in Clients : GoodThenAll(up'[d])
    BY <1>1, SendGood
  <2>2. \A d \in Clients : GoodThenAll(down'[d])
    <3>1. CASE FromServer(c, type)
      BY <3>1, <1>1, FromServerGood
    <3>2. CASE UNCHANGED down
      BY <3>2 DEF AllGoodThen
    <3> QED
      BY <3>1, <3>2
  <2>3. \A d \in Clients : GoodThen(client'[d].yDoc) /\ GoodThen(client'[d].opening.update)
    BY <1>2 DEF AllGoodThen
  <2> QED
    BY <1>1, <2>1, <2>2, <2>3, AllGoodNext DEF AllGoodThen
<1> QED
  BY <1>1, <1>2, <1>3, <1>4, <1>5, <1>6, <1>7, <1>8 DEF DocsInv, Typed, BlocksTyped

\* The document a client has, and what it keeps unless a step says otherwise.
LEMMA ClientNow ==
  ASSUME DocsInv, NEW c \in Clients
  PROVE  /\ client[c] \in Client /\ ClientOK(c, client[c])
         /\ client[c].opening \in Message /\ client[c].yDoc \in Content
         /\ client[c].queue \in Seq(Change) /\ client[c].applying \in Seq(Edit)
         /\ client[c].editor \in SUBSET Units /\ client[c].version \in Nat
         /\ client[c].fullSync \in SUBSET Message
BY DEF DocsInv, Typed, Client

\* A step that writes no block and leaves the queue of c as it is, or empties it.
LEMMA QuietStep ==
  ASSUME DocsInv, NEW c \in Clients, NEW s \in Client, client' = [client EXCEPT ![c] = s], NoNewBlock,
         s.queue = client[c].queue \/ s.queue = << >>
  PROVE  /\ BlocksTyped' /\ QueuesApart' /\ AllGoodThen
         /\ GoodThen(client[c].yDoc) /\ GoodThen(client[c].opening.update)
<1>1. client' \in [Clients -> Client] /\ client'[c] = s /\ \A d \in Clients : d # c => client'[d] = client[d]
  BY DEF DocsInv, Typed
<1>2. BlocksOf(s.queue) \subseteq BlocksOf(client[c].queue)
  BY DEF BlocksOf
<1>3. QueuesApart' /\ AllGoodThen
  BY <1>1, <1>2, NoneWritten DEF DocsInv
<1> QED
  BY <1>3, SameBlocksTyped DEF DocsInv, AllGoodThen

LEMMA ShareKeeps ==
  ASSUME DocsInv, Share
  PROVE  DocsInv'
<1> DEFINE s == [client[Owner] EXCEPT !.sharing = TRUE]
           one == [EmptyContent EXCEPT !.ins = {nextBlock}]
           n(y) == Msg("shareState", 1, client[Owner].editor, y)
<1>1. /\ Owner \in Clients /\ doc.status = "none" /\ ~client[Owner].sharing
      /\ client' = [client EXCEPT ![Owner] = s]
      /\ doc' = doc /\ members' = members /\ down' = down
      /\ up \in [Clients -> Seq(Message)]
  BY DocOwner DEF Share, SetClient, ServerUnchanged, DocsInv, Typed
<1>2. /\ s \in Client /\ s.queue = client[Owner].queue /\ s.yDoc = client[Owner].yDoc
      /\ s.opening = client[Owner].opening /\ s.status = client[Owner].status /\ s.sharing
      /\ ClientOK(Owner, s)
  BY <1>1, ClientNow DEF Client, ClientOK
<1>3. client' \in [Clients -> Client] /\ client'[Owner] = s /\ \A d \in Clients : d # Owner => client'[d] = client[d]
  BY <1>1, <1>2 DEF DocsInv, Typed
<1> HIDE DEF s
<1>4. ASSUME NEW y \in Content, Send(Owner, n(y)), GoodThen(y), BlocksTyped', QueuesApart', AllGoodThen
      PROVE  DocsInv'
  <2>1. n(y) \in Message /\ n(y).type = "shareState" /\ n(y).update = y
    BY <1>1, ClientNow, MsgTyped
  <2> HIDE DEF n
  <2>2. /\ up' \in [Clients -> Seq(Message)] /\ up'[Owner] = Append(up[Owner], n(y))
        /\ \A d \in Clients : d # Owner => up'[d] = up[d]
    BY <1>1, <1>4, <2>1, Sends
  <2>3. Shares(up[Owner]) = {} /\ OneShare(up[Owner])
    BY <1>1 DEF DocsInv, SharesSent
  <2>4. OneShare(up'[Owner])
    BY <1>1, <2>1, <2>2, <2>3, AppendShares
  <2>5. SharesSent'
    BY <1>1, <1>2, <1>3, <2>2, <2>4 DEF DocsInv, SharesSent
  <2>6. SharesGot'
    BY <1>1, <1>2, <1>3 DEF DocsInv, SharesGot
  <2>7. AllNumbered'
    BY <1>1 DEF DocsInv, AllNumbered
  <2>8. AllGood'
    <3>1. \A d \in Clients : GoodThenAll(up'[d])
      BY <1>1, <1>4, <2>1, SendGood
    <3>2. \A d \in Clients : GoodThen(client'[d].yDoc) /\ GoodThen(client'[d].opening.update)
      BY <1>2, <1>3, <1>4 DEF AllGoodThen
    <3> QED
      BY <1>1, <1>4, <3>1, <3>2, AllGoodNext DEF AllGoodThen
  <2> QED
    BY <1>1, <1>2, <1>3, <1>4, <2>2, <2>5, <2>6, <2>7, <2>8, ClientSet DEF DocsInv, Typed, BlocksTyped
<1>5. CASE NoNewBlock /\ Send(Owner, n(EmptyContent))
  BY <1>1, <1>2, <1>4, <1>5, QuietStep, EmptyTyped, EmptyGoodThen
<1>6. CASE NewBlock(client[Owner].editor, EmptyContent) /\ Send(Owner, n(one))
  <2>1. client[Owner].editor \in SUBSET Units /\ EmptyContent \in Content
    BY <1>1, ClientNow, EmptyTyped
  <2>2. nextBlock \in Blocks
    BY <1>6, <2>1, NewBlockTyped DEF DocsInv
  <2>3. one \in Content /\ one.ins = {nextBlock} /\ one.del = {}
    BY <2>2 DEF EmptyContent, Content
  <2>4. QueuesApart' /\ AllGoodThen
    BY <1>1, <1>2, <1>3, <1>6, <2>1, OneWritten DEF DocsInv
  <2>5. GoodThen(one)
    BY <1>1, <1>2, <1>3, <1>6, <2>1, <2>3, EmptyTyped, EmptyGoodThen, WrittenGood DEF DocsInv
  <2>6. BlocksTyped'
    BY <1>6, <2>1, NewBlocksTyped DEF DocsInv
  <2> QED
    BY <1>4, <1>6, <2>3, <2>4, <2>5, <2>6
<1> QED
  BY <1>5, <1>6 DEF Share

LEMMA ReceiveShareKeeps ==
  ASSUME DocsInv, NEW c \in Clients, ReceiveShare(c)
  PROVE  DocsInv'
<1> DEFINE m == Head(down[c])
           s == [client[c] EXCEPT !.status = "opening", !.opening = m]
<1>1. /\ client' = [client EXCEPT ![c] = s] /\ NoNewBlock
      /\ UNCHANGED <<doc, members>> /\ UNCHANGED up
      /\ down \in [Clients -> Seq(Message)]
  BY DEF ReceiveShare, SetClient, ServerUnchanged, DocsInv, Typed
<1>2. PICK type \in {"shareDocument", "shareState"} : FromServer(c, type)
  BY DEF ReceiveShare
<1>3. m \in Message /\ IsShare(m) /\ down[c] # << >> /\ down'[c] = Tail(down[c]) /\ m.type = type
  BY <1>1, <1>2, ClientTakes DEF IsShare
<1>4. c \in members /\ doc.status # "none"
  BY <1>1, <1>2, FromServerCalm DEF DocsInv, SharesGot
<1>5. down[c] \in Seq(Message) /\ OneShare(down[c])
  BY <1>1 DEF DocsInv, SharesGot
<1>6. Shares(down'[c]) = {} /\ Shares(down[c]) # {}
  BY <1>3, <1>5, TailShares
<1>7. client[c].status = "absent"
  BY <1>6 DEF DocsInv, SharesGot
<1> HIDE DEF m
<1>8. /\ s \in Client /\ s.queue = client[c].queue /\ s.yDoc = client[c].yDoc
      /\ s.opening = m /\ s.sharing = client[c].sharing /\ ClientOK(c, s)
  BY <1>3, <1>7, ClientNow DEF Client, ClientOK
<1> HIDE DEF s
<1>9. BlocksTyped' /\ QueuesApart' /\ AllGoodThen /\ GoodThen(client[c].yDoc)
  BY <1>1, <1>8, QuietStep
<1>10. GoodThen(m.update)
  BY <1>1, <1>2, <1>9, FromServerGood DEF m
<1> QED
  BY <1>1, <1>2, <1>4, <1>6, <1>8, <1>9, <1>10, PlainMessage, ClientStepKeeps

LEMMA QueuedSyncTyped ==
  ASSUME NEW s, s.fullSync \in SUBSET Message
  PROVE  QueuedSync(s) \in Seq(Edit) /\ (s.fullSync # {} => QueuedSync(s) # << >>)
<1>1. CASE s.fullSync = {}
  BY <1>1 DEF QueuedSync
<1>2. CASE s.fullSync # {}
  <2> DEFINE m == CHOOSE m \in s.fullSync : TRUE
  <2>1. m \in Message
    BY <1>2
  <2>2. QueuedSync(s) = <<SentEdit("sync", m, m.text)>>
    BY <1>2 DEF QueuedSync
  <2> HIDE DEF m
  <2>3. SentEdit("sync", m, m.text) \in Edit
    BY <2>1 DEF SentEdit, Edit, Message
  <2> QED
    BY <2>2, <2>3
<1> QED
  BY <1>1, <1>2

LEMMA OpenedTyped ==
  ASSUME DocsInv, NEW c \in Clients, NEW y \in Content, client[c].status = "opening"
  PROVE  LET s == OpenedDocument(c, client[c], y)
         IN s \in Client /\ ClientOK(c, s) /\ s.queue = client[c].queue /\ s.yDoc = y
            /\ s.opening = NoMessage /\ s.status = "open"
<1> DEFINE q == QueuedSync(client[c])
           s == OpenedDocument(c, client[c], y)
           editor == IF c = Owner THEN client[c].editor ELSE client[c].opening.text
<1>1. q \in Seq(Edit) /\ (client[c].fullSync # {} => q # << >>)
  BY ClientNow, QueuedSyncTyped
<1>2. editor \in SUBSET Units /\ client[c].opening.version \in Nat
  BY ClientNow DEF Message
<1>3. s = [status |-> "open", sharing |-> FALSE, unsharing |-> FALSE, opening |-> NoMessage,
           yDoc |-> y, editor |-> editor, version |-> client[c].opening.version,
           queue |-> client[c].queue, timer |-> client[c].queue # << >>, applying |-> q,
           suppress |-> client[c].fullSync # {}, requested |-> FALSE, fullSync |-> {}]
  BY DEF OpenedDocument, FlushAfterOpening
<1> HIDE DEF q, s, editor
<1>4. s \in Client
  BY <1>1, <1>2, <1>3, ClientNow, NoMessageTyped DEF Client
<1>5. /\ s.status = "open" /\ ~s.sharing /\ ~s.unsharing /\ s.opening = NoMessage /\ s.yDoc = y
      /\ s.queue = client[c].queue /\ s.timer = (client[c].queue # << >>)
      /\ s.applying = q /\ s.suppress = (client[c].fullSync # {})
  BY <1>3
<1>6. ClientOK(c, s)
  BY <1>1, <1>4, <1>5 DEF ClientOK
<1> QED
  BY <1>4, <1>5, <1>6 DEF s

LEMMA OpenSharedKeeps ==
  ASSUME DocsInv, NEW c \in Clients, OpenShared(c)
  PROVE  DocsInv'
<1> DEFINE m == client[c].opening
           one == [EmptyContent EXCEPT !.ins = {nextBlock}]
           s(y) == OpenedDocument(c, client[c], y)
<1>1. client[c].status = "opening" /\ doc' = doc /\ members' = members /\ up' = up /\ down' = down
  BY DEF OpenShared, ServerUnchanged
<1>2. doc.status # "none" /\ c \in members /\ Shares(down'[c]) = {}
  BY <1>1 DEF DocsInv, SharesGot
<1>3. m \in Message /\ m.update \in Content /\ m.text \in SUBSET Units
  BY ClientNow DEF Message
<1>4. /\ NoMessage \in Message /\ NoMessage.update = EmptyContent /\ GoodThen(NoMessage.update)
      /\ ~IsShare(NoMessage)
  BY NoMessageTyped, PlainMessage DEF NoMessage
<1>5. ASSUME NEW y \in Content, client' = [client EXCEPT ![c] = s(y)], GoodThen(y),
             BlocksTyped', QueuesApart', AllGoodThen
      PROVE  DocsInv'
  <2>1. /\ ClientOK(c, s(y)) /\ s(y).yDoc = y /\ s(y).opening = NoMessage
    BY <1>1, OpenedTyped
  <2> HIDE DEF s
  <2> QED
    BY <1>1, <1>2, <1>4, <1>5, <2>1, ClientStepKeeps
<1>6. CASE NoNewBlock /\ client' = [client EXCEPT ![c] = s(m.update)]
  <2>1. s(m.update) \in Client /\ s(m.update).queue = client[c].queue
    BY <1>1, <1>3, OpenedTyped
  <2> HIDE DEF s
  <2>2. BlocksTyped' /\ QueuesApart' /\ AllGoodThen /\ GoodThen(m.update)
    BY <1>6, <2>1, QuietStep
  <2> QED
    BY <1>3, <1>5, <1>6, <2>2
<1>7. CASE NewBlock(m.text, EmptyContent) /\ client' = [client EXCEPT ![c] = s(one)]
  <2>1. nextBlock \in Blocks
    BY <1>3, <1>7, EmptyTyped, NewBlockTyped DEF DocsInv
  <2>2. one \in Content /\ one.ins = {nextBlock} /\ one.del = {}
    BY <2>1 DEF EmptyContent, Content
  <2>3. s(one) \in Client /\ s(one).queue = client[c].queue
    BY <1>1, <2>2, OpenedTyped
  <2> HIDE DEF s
  <2>4. client' \in [Clients -> Client] /\ client'[c] = s(one) /\ \A d \in Clients : d # c => client'[d] = client[d]
    BY <1>7, <2>3 DEF DocsInv, Typed
  <2>5. QueuesApart' /\ AllGoodThen
    BY <1>3, <1>7, <2>3, <2>4, EmptyTyped, OneWritten DEF DocsInv
  <2>6. GoodThen(one)
    BY <1>3, <1>7, <2>2, <2>3, <2>4, EmptyTyped, EmptyGoodThen, WrittenGood DEF DocsInv
  <2>7. BlocksTyped'
    BY <1>3, <1>7, EmptyTyped, NewBlocksTyped DEF DocsInv
  <2> QED
    BY <1>5, <1>7, <2>2, <2>5, <2>6, <2>7
<1> QED
  BY <1>6, <1>7 DEF OpenShared, SetClient

LEMMA UnshareKeeps ==
  ASSUME DocsInv, Unshare
  PROVE  DocsInv'
<1> DEFINE s == [client[Owner] EXCEPT !.unsharing = TRUE]
           n == Msg("unshareDocument", 0, {}, EmptyContent)
<1>1. /\ Owner \in Clients /\ client' = [client EXCEPT ![Owner] = s] /\ NoNewBlock
      /\ UNCHANGED <<doc, members>> /\ UNCHANGED down /\ Send(Owner, n)
  BY DocOwner DEF Unshare, SetClient, ServerUnchanged
<1>2. /\ s \in Client /\ s.queue = client[Owner].queue /\ s.yDoc = client[Owner].yDoc
      /\ s.opening = client[Owner].opening /\ s.status = client[Owner].status
      /\ s.sharing = client[Owner].sharing /\ ClientOK(Owner, s)
  BY <1>1, ClientNow DEF Client, ClientOK
<1>3. n \in Message /\ GoodThen(n.update) /\ ~IsShare(n)
  BY PlainMessage
<1> HIDE DEF s, n
<1>4. /\ BlocksTyped' /\ QueuesApart' /\ AllGoodThen
      /\ GoodThen(client[Owner].yDoc) /\ GoodThen(client[Owner].opening.update)
  BY <1>1, <1>2, QuietStep
<1> QED
  BY <1>1, <1>2, <1>3, <1>4, ClientStepKeeps

LEMMA ReceiveUnsharedKeeps ==
  ASSUME DocsInv, NEW c \in Clients, ReceiveUnshared(c)
  PROVE  DocsInv'
<1> DEFINE s == IF client[c].status = "opening"
                THEN [AbsentDocument EXCEPT !.status = "opening",
                        !.opening = client[c].opening, !.editor = client[c].editor]
                ELSE [AbsentDocument EXCEPT !.editor = client[c].editor]
<1>1. /\ client' = [client EXCEPT ![c] = s] /\ NoNewBlock /\ FromServer(c, "unshareDocument")
      /\ UNCHANGED <<doc, members>> /\ UNCHANGED up
      /\ down \in [Clients -> Seq(Message)]
  BY DEF ReceiveUnshared, SetClient, ServerUnchanged, DocsInv, Typed
<1>2. c \in members /\ doc.status # "none" /\ Calm(down[c], down'[c])
  BY <1>1, FromServerCalm DEF DocsInv, SharesGot
<1>3. AbsentDocument \in Client
  BY NoMessageTyped, EmptyTyped DEF AbsentDocument, Client
<1>4. /\ s \in Client /\ ClientOK(c, s) /\ s.queue = << >> /\ s.yDoc = EmptyContent
      /\ s.opening \in {NoMessage, client[c].opening}
      /\ s.status = client[c].status \/ client[c].status = "open"
  BY <1>3, ClientNow DEF Client, ClientOK, AbsentDocument
<1>5. client[c].status = "open" => Shares(down'[c]) = {}
  BY <1>2 DEF Calm, DocsInv, SharesGot
<1> HIDE DEF s
<1>6. BlocksTyped' /\ QueuesApart' /\ AllGoodThen /\ GoodThen(client[c].opening.update)
  BY <1>1, <1>4, QuietStep
<1>7. GoodThen(s.opening.update) /\ GoodThen(s.yDoc)
  BY <1>4, <1>6, EmptyGoodThen, NoMessageTyped
<1> QED
  BY <1>1, <1>2, <1>4, <1>5, <1>6, <1>7, PlainMessage, ClientStepKeeps

LEMMA OutdatedTyped ==
  ASSUME NEW edits \in Seq(Edit)
  PROVE  Outdated(edits) \in Seq(Edit) /\ (edits # << >> => Outdated(edits) # << >>)
<1> DEFINE e(i) == IF edits[i].stage = "sent" THEN [edits[i] EXCEPT !.stage = "stale"] ELSE edits[i]
<1>1. \A i \in 1 .. Len(edits) : edits[i] \in Edit
  OBVIOUS
<1>2. ASSUME NEW i \in 1 .. Len(edits) PROVE e(i) \in Edit
  BY <1>1 DEF Edit
<1>3. Outdated(edits) = [i \in 1 .. Len(edits) |-> e(i)] /\ Len(edits) \in Nat
  BY DEF Outdated
<1> HIDE DEF e
<1> QED
  BY <1>2, <1>3

LEMMA AppendSeq ==
  ASSUME NEW S, NEW q \in Seq(S), NEW x \in S
  PROVE  /\ Append(q, x) \in Seq(S) /\ Append(q, x) # << >>
         /\ DOMAIN Append(q, x) = DOMAIN q \cup {Len(q) + 1}
         /\ \A i \in DOMAIN q : Append(q, x)[i] = q[i]
         /\ Append(q, x)[Len(q) + 1] = x
OBVIOUS

LEMMA ChangedTyped ==
  ASSUME NEW c \in Clients, NEW s \in Client, ClientOK(c, s), NEW change \in Change
  PROVE  LET r == Changed(s, change)
         IN /\ r \in Client /\ ClientOK(c, r) /\ r.status = s.status /\ r.sharing = s.sharing
            /\ r.yDoc = s.yDoc /\ r.opening = s.opening
            /\ BlocksOf(r.queue) \subseteq BlocksOf(s.queue) \cup {change.block}
<1> DEFINE r == Changed(s, change)
<1>1. CASE s.suppress
  <2>1. r = s
    BY <1>1 DEF Changed
  <2> HIDE DEF r
  <2>2. BlocksOf(r.queue) \subseteq BlocksOf(s.queue) \cup {change.block}
    BY <2>1
  <2>3. /\ r \in Client /\ ClientOK(c, r) /\ r.status = s.status /\ r.sharing = s.sharing
        /\ r.yDoc = s.yDoc /\ r.opening = s.opening
    BY <2>1
  <2> QED
    BY <2>2, <2>3 DEF r
<1>2. CASE ~s.suppress
  <2>1. r = [s EXCEPT !.queue = Append(@, change), !.timer = @ \/ ~s.sharing]
    BY <1>2 DEF Changed
  <2>2. s.queue \in Seq(Change)
    BY DEF Client
  <2>3. /\ Append(s.queue, change) \in Seq(Change) /\ Append(s.queue, change) # << >>
        /\ DOMAIN Append(s.queue, change) = DOMAIN s.queue \cup {Len(s.queue) + 1}
        /\ \A i \in DOMAIN s.queue : Append(s.queue, change)[i] = s.queue[i]
        /\ Append(s.queue, change)[Len(s.queue) + 1] = change
    BY <2>2, AppendSeq
  <2> HIDE DEF r
  <2>4. /\ r.queue = Append(s.queue, change) /\ r.status = s.status /\ r.sharing = s.sharing
        /\ r.unsharing = s.unsharing /\ r.yDoc = s.yDoc /\ r.opening = s.opening
        /\ r.suppress = s.suppress /\ r.applying = s.applying
    BY <2>1 DEF Client
  <2>5. r \in Client
    BY <2>1, <2>3 DEF Client
  <2>6. ClientOK(c, r)
    BY <2>3, <2>4, <2>5 DEF ClientOK
  <2>7. BlocksOf(r.queue) \subseteq BlocksOf(s.queue) \cup {change.block}
    BY <2>3, <2>4 DEF BlocksOf
  <2> QED
    BY <2>4, <2>5, <2>6, <2>7 DEF r
<1> QED
  BY <1>1, <1>2

\* A step in which the editor of c changes, and the new block is queued unless that is
\* suppressed.
LEMMA EditStep ==
  ASSUME DocsInv, NEW c \in Clients, NEW text \in SUBSET Units, NewBlock(text, EmptyContent),
         NEW s \in Client, ClientOK(c, s), s.queue = client[c].queue, s.yDoc = client[c].yDoc,
         s.opening = client[c].opening, s.status = client[c].status, s.sharing = client[c].sharing,
         NEW change \in Change, change.block = nextBlock,
         client' = [client EXCEPT ![c] = Changed(s, change)],
         UNCHANGED <<doc, members>>, UNCHANGED <<up, down>>
  PROVE  DocsInv'
<1> DEFINE r == Changed(s, change)
<1>1. /\ r \in Client /\ ClientOK(c, r) /\ r.status = client[c].status
      /\ r.sharing = client[c].sharing /\ r.yDoc = client[c].yDoc /\ r.opening = client[c].opening
      /\ BlocksOf(r.queue) \subseteq BlocksOf(client[c].queue) \cup {nextBlock}
  <2>1. /\ r \in Client /\ ClientOK(c, r) /\ r.status = s.status /\ r.sharing = s.sharing
        /\ r.yDoc = s.yDoc /\ r.opening = s.opening
        /\ BlocksOf(r.queue) \subseteq BlocksOf(s.queue) \cup {change.block}
    BY ChangedTyped
  <2> HIDE DEF r
  <2> QED
    BY <2>1
<1> HIDE DEF r
<1>2. /\ client' \in [Clients -> Client] /\ client'[c] = r
      /\ \A d \in Clients : d # c => client'[d] = client[d]
  BY <1>1 DEF DocsInv, Typed, r
<1>3. QueuesApart' /\ AllGoodThen
  BY <1>1, <1>2, EmptyTyped, OneWritten DEF DocsInv
<1>4. BlocksTyped'
  BY EmptyTyped, NewBlocksTyped DEF DocsInv
<1>5. GoodThen(r.yDoc) /\ GoodThen(r.opening.update)
  BY <1>1, <1>3 DEF AllGoodThen
<1>6. UNCHANGED up /\ UNCHANGED down /\ client' = [client EXCEPT ![c] = r]
  BY DEF r
<1> QED
  BY <1>1, <1>3, <1>4, <1>5, <1>6, PlainMessage, ClientStepKeeps

LEMMA TypeKeeps ==
  ASSUME DocsInv, NEW c \in Clients, Type(c)
  PROVE  DocsInv'
<1> DEFINE s == [client[c] EXCEPT !.editor = @ \cup {nextBlock}, !.applying = Outdated(@)]
           change == [block |-> nextBlock, whole |-> FALSE, base |-> client[c].editor]
<1>1. /\ NewBlock({nextBlock}, EmptyContent) /\ client' = [client EXCEPT ![c] = Changed(s, change)]
      /\ UNCHANGED <<doc, members>> /\ UNCHANGED <<up, down>>
  BY DEF Type, SetClient, ServerUnchanged
<1>2. nextBlock \in Blocks /\ nextBlock \in Units
  BY <1>1 DEF NewBlock, Blocks, Units
<1>3. /\ Outdated(client[c].applying) \in Seq(Edit)
      /\ client[c].applying # << >> => Outdated(client[c].applying) # << >>
  BY ClientNow, OutdatedTyped
<1>4. s = [client[c] EXCEPT !.editor = client[c].editor \cup {nextBlock},
                            !.applying = Outdated(client[c].applying)]
  BY ClientNow DEF Client
<1>5. client[c].editor \cup {nextBlock} \in SUBSET Units
  BY <1>2, ClientNow
<1> HIDE DEF s
<1>6. /\ s \in Client /\ s.queue = client[c].queue /\ s.yDoc = client[c].yDoc
      /\ s.opening = client[c].opening /\ s.status = client[c].status /\ s.sharing = client[c].sharing
      /\ s.applying = Outdated(client[c].applying) /\ s.suppress = client[c].suppress
      /\ s.timer = client[c].timer /\ s.unsharing = client[c].unsharing
  BY <1>3, <1>4, <1>5, ClientNow DEF Client
<1>7. ClientOK(c, s)
  <2>1. client[c].applying = << >> => Outdated(client[c].applying) = << >>
    BY ClientNow DEF Outdated
  <2> QED
    BY <1>3, <1>6, <2>1, ClientNow DEF ClientOK
<1>8. change \in Change /\ change.block = nextBlock
  BY <1>2, ClientNow DEF Change
<1> HIDE DEF change
<1> QED
  BY <1>1, <1>2, <1>6, <1>7, <1>8, EditStep

\* What a flush writes: the queued blocks, and deletions of what is there.
LEMMA EditedContent ==
  ASSUME NEW y \in Content, NEW queue \in Seq(Change)
  PROVE  LET z == Edited(y, queue)
         IN /\ z \in Content /\ z.ins = y.ins \cup BlocksOf(queue)
            /\ y.del \subseteq z.del /\ z.del \subseteq y.del \cup z.ins
<1> DEFINE D == UNION {y.ins \cup {queue[j].block : j \in 1 .. i - 1} :
                       i \in {k \in DOMAIN queue : queue[k].whole}}
           I == y.ins \cup {queue[i].block : i \in DOMAIN queue}
<1>1. Edited(y, queue) = [ins |-> I, del |-> y.del \cup D]
  BY DEF Edited
<1>2. \A i \in DOMAIN queue : queue[i] \in Change /\ i \in Nat
  OBVIOUS
<1>3. \A i \in DOMAIN queue : queue[i].block \in Blocks
  BY <1>2 DEF Change
<1>4. I \in SUBSET Blocks
  BY <1>3 DEF Content
<1>5. D \subseteq I
  <2>1. ASSUME NEW i \in DOMAIN queue, NEW j \in 1 .. i - 1 PROVE j \in DOMAIN queue
    BY <1>2
  <2> QED
    BY <2>1
<1>6. I = y.ins \cup BlocksOf(queue)
  BY DEF BlocksOf
<1> HIDE DEF D, I
<1>7. y.del \cup D \in SUBSET Blocks
  BY <1>4, <1>5 DEF Content
<1>8. Edited(y, queue) \in Content
  BY <1>1, <1>4, <1>7 DEF Content
<1> QED
  BY <1>1, <1>5, <1>6, <1>8

LEMMA FlushKeeps ==
  ASSUME DocsInv, NEW c \in Clients, Flush(c)
  PROVE  DocsInv'
<1> DEFINE q == client[c].queue
           x == client[c].yDoc
           last == q[Len(q)]
           y == Edited(x, q)
           s == [client[c] EXCEPT !.yDoc = y, !.version = @ + 1, !.queue = << >>, !.timer = FALSE]
           n == [ type |-> "docChange", version |-> client[c].version + 1,
                  text |-> holds[last.block], update |-> y,
                  base |-> last.base, whole |-> last.whole ]
<1>1. /\ client[c].timer /\ client' = [client EXCEPT ![c] = s] /\ Send(c, n)
      /\ UNCHANGED <<doc, members>> /\ UNCHANGED down
      /\ holds' = holds /\ nextBlock' = nextBlock
      /\ made' = [b \in Blocks |-> IF \E i \in 1 .. Len(q) : q[i].block = b THEN x ELSE made[b]]
  BY DEF Flush, SetClient, ServerUnchanged, EncodedState
<1>2. /\ client[c] \in Client /\ x \in Content /\ q \in Seq(Change) /\ q # << >>
      /\ client[c].version + 1 \in Nat
  BY <1>1, ClientNow DEF ClientOK
<1>3. y \in Content /\ y.ins = x.ins \cup BlocksOf(q) /\ x.del \subseteq y.del /\ y.del \subseteq x.del \cup y.ins
  BY <1>2, EditedContent
<1>4. made' = [b \in Blocks |-> IF b \in BlocksOf(q) THEN x ELSE made[b]]
  BY <1>1, <1>2 DEF BlocksOf
<1>5. last \in Change
  BY <1>2
<1>6. n \in Message /\ n.update = y /\ n.type = "docChange"
  BY <1>2, <1>3, <1>5 DEF Message, Change, DocsInv, Typed
<1> HIDE DEF y, n, last
<1>7. s \in Client /\ s.queue = << >> /\ s.yDoc = y /\ s.opening = client[c].opening
      /\ s.status = client[c].status /\ s.sharing = client[c].sharing /\ ~s.timer
      /\ s.unsharing = client[c].unsharing /\ s.suppress = client[c].suppress
      /\ s.applying = client[c].applying
  <2>1. PICK v \in Nat : v = client[c].version + 1
    BY <1>2
  <2>2. s = [client[c] EXCEPT !.yDoc = y, !.version = v, !.queue = << >>, !.timer = FALSE]
    BY <1>2, <2>1 DEF Client
  <2>3. << >> \in Seq(Change)
    OBVIOUS
  <2> HIDE DEF s
  <2> QED
    BY <1>2, <1>3, <2>2, <2>3 DEF Client
<1> HIDE DEF s
<1>8. ClientOK(c, s)
  BY <1>7, ClientNow DEF ClientOK
<1>9. /\ client' \in [Clients -> Client] /\ client'[c] = s
      /\ \A d \in Clients : d # c => client'[d] = client[d]
  BY <1>1, <1>7 DEF DocsInv, Typed
<1>10. BlocksOf(s.queue) = {}
  BY <1>7 DEF BlocksOf
<1>11. nextBlock \in Nat
  BY DEF DocsInv, Typed
<1>12. {b \in Nat : nextBlock <= b /\ b < nextBlock'} = {}
  BY <1>1, <1>11
<1>13. QueuesApart' /\ Waiting' \subseteq Waiting
  BY <1>1, <1>9, <1>10, <1>11, <1>12, QueueStep DEF DocsInv
<1>14. BlocksOf(q) \subseteq Waiting
  BY DEF Waiting
<1> HIDE DEF q, x
<1>15. BlocksTyped'
  BY <1>1, <1>2, <1>4 DEF DocsInv, Typed, BlocksTyped
<1>16. Ages
  BY <1>1, <1>4, <1>11, <1>13, <1>14 DEF Ages
<1>17. AllGoodThen
  BY <1>1, <1>11, <1>16, GoodAges DEF DocsInv
<1>18. GoodThen(x)
  BY <1>17 DEF AllGoodThen, x
<1>19. \A b \in BlocksOf(q) : b < nextBlock' /\ b \notin Waiting'
  <2> SUFFICES ASSUME NEW b \in BlocksOf(q) PROVE b < nextBlock' /\ b \notin Waiting'
    OBVIOUS
  <2>1. b < nextBlock /\ \A d \in Clients : d # c => b \notin BlocksOf(client[d].queue)
    BY DEF DocsInv, QueuesApart, q
  <2> QED
    BY <1>1, <1>9, <1>10, <2>1 DEF Waiting
<1>20. GoodThen(y)
  <2>1. \A b \in y.ins : b \in x.ins \/ b \in BlocksOf(q)
    BY <1>3
  <2>2. ASSUME NEW b \in BlocksOf(q)
        PROVE  made'[b] = x
    <3>1. b \in Blocks
      <4>1. b \in y.ins
        BY <1>3, <2>2
      <4> QED
        BY <1>3, <4>1 DEF Content
    <3> QED
      BY <1>4, <2>2, <3>1
  <2>3. x.del \subseteq x.ins /\ x.ins \subseteq y.ins /\ x.del \subseteq y.del
    BY <1>3, <1>18 DEF GoodThen, Good
  <2>4. y.del \subseteq y.ins
    BY <1>3, <2>3
  <2> QED
    BY <1>18, <1>19, <2>1, <2>2, <2>3, <2>4 DEF GoodThen, Good
<1>21. GoodThen(s.opening.update) /\ GoodThen(s.yDoc) /\ GoodThen(n.update) /\ ~IsShare(n)
  BY <1>6, <1>7, <1>17, <1>20 DEF AllGoodThen, IsShare
<1> QED
  BY <1>1, <1>6, <1>7, <1>8, <1>13, <1>15, <1>17, <1>21, ClientStepKeeps

\* A client that sends an edit to its editor.
LEMMA SentTyped ==
  ASSUME DocsInv, NEW c \in Clients, client[c].status = "open",
         NEW mode \in {"replace", "patch", "sync"}, NEW m \in Message, NEW y \in Content,
         NEW shows \in SUBSET Units
  PROVE  LET s == Sent(client[c], mode, m, y, shows)
         IN /\ s \in Client /\ ClientOK(c, s) /\ s.queue = client[c].queue /\ s.yDoc = y
            /\ s.opening = client[c].opening /\ s.status = "open"
            /\ s.sharing = client[c].sharing
<1> DEFINE e == SentEdit(mode, m, shows)
           q == Append(client[c].applying, e)
           s == Sent(client[c], mode, m, y, shows)
<1>1. e \in Edit
  BY DEF SentEdit, Edit
<1>2. q \in Seq(Edit) /\ q # << >>
  BY <1>1, ClientNow, AppendSeq
<1>3. s = [client[c] EXCEPT !.yDoc = y, !.suppress = TRUE, !.applying = q]
  BY DEF Sent
<1> HIDE DEF e, q, s
<1>4. /\ s \in Client /\ s.queue = client[c].queue /\ s.yDoc = y
      /\ s.opening = client[c].opening /\ s.status = "open"
      /\ s.sharing = client[c].sharing /\ s.unsharing = client[c].unsharing
      /\ s.timer = client[c].timer /\ s.applying = q
  BY <1>2, <1>3, ClientNow DEF Client
<1>5. ClientOK(c, s)
  BY <1>2, <1>4, ClientNow DEF ClientOK
<1> QED
  BY <1>4, <1>5 DEF s

\* A client step that writes no block and changes nothing but what the editor and the
\* requests are about, the content being merged with what it takes.
LEMMA PlainStep ==
  ASSUME DocsInv, NEW c \in Clients, NEW s \in Client, ClientOK(c, s),
         client' = [client EXCEPT ![c] = s], NoNewBlock, UNCHANGED <<doc, members>>,
         s.queue = client[c].queue, s.opening = client[c].opening,
         s.status = client[c].status, s.sharing = client[c].sharing,
         AllGoodThen => GoodThen(s.yDoc),
         NEW n \in Message, AllGoodThen => GoodThen(n.update), ~IsShare(n), Send(c, n) \/ UNCHANGED up,
         NEW type, FromServer(c, type) \/ UNCHANGED down
  PROVE  DocsInv'
<1>1. BlocksTyped' /\ QueuesApart' /\ AllGoodThen /\ GoodThen(client[c].opening.update)
  BY QuietStep
<1> QED
  BY <1>1, ClientStepKeeps

LEMMA SnapshotTimeoutKeeps ==
  ASSUME DocsInv, NEW c \in Clients, SnapshotTimeout(c)
  PROVE  DocsInv'
<1> DEFINE s == [client[c] EXCEPT !.requested = FALSE]
<1>1. /\ client' = [client EXCEPT ![c] = s] /\ NoNewBlock /\ UNCHANGED <<doc, members>>
      /\ UNCHANGED up /\ UNCHANGED down
  BY DEF SnapshotTimeout, SetClient, ServerUnchanged
<1>2. /\ s \in Client /\ ClientOK(c, s) /\ s.queue = client[c].queue /\ s.opening = client[c].opening
      /\ s.status = client[c].status /\ s.sharing = client[c].sharing /\ s.yDoc = client[c].yDoc
  BY ClientNow DEF Client, ClientOK
<1> HIDE DEF s
<1>3. AllGoodThen => GoodThen(s.yDoc)
  BY <1>2 DEF AllGoodThen
<1> QED
  BY <1>1, <1>2, <1>3, PlainMessage, PlainStep

LEMMA AnswerFullSyncKeeps ==
  ASSUME DocsInv, AnswerFullSync
  PROVE  DocsInv'
<1> DEFINE s == client[Owner]
           n == Msg("fullDocumentSync", s.version, s.editor, s.yDoc)
<1>1. /\ Owner \in Clients /\ client' = client /\ NoNewBlock /\ UNCHANGED <<doc, members>>
      /\ Send(Owner, n) \/ UNCHANGED up
      /\ FromServer(Owner, "requestFullSync")
  BY DocOwner DEF AnswerFullSync, ServerUnchanged
<1>2. s \in Client /\ ClientOK(Owner, s) /\ client' = [client EXCEPT ![Owner] = s]
  BY <1>1, ClientNow DEF DocsInv, Typed
<1>3. n \in Message /\ n.update = s.yDoc /\ n.type = "fullDocumentSync"
  BY <1>1, ClientNow, MsgTyped
<1>4. ~IsShare(n) /\ (AllGoodThen => GoodThen(n.update) /\ GoodThen(s.yDoc))
  BY <1>1, <1>3 DEF AllGoodThen, IsShare
<1> HIDE DEF n
<1> QED
  BY <1>1, <1>2, <1>3, <1>4, PlainStep

LEMMA ReceiveFullSyncKeeps ==
  ASSUME DocsInv, NEW c \in Clients, ReceiveFullSync(c)
  PROVE  DocsInv'
<1> DEFINE m == Head(down[c])
           y == Merge(client[c].yDoc, m.update)
           s == Sent(client[c], "sync", m, y, m.text)
           w == [client[c] EXCEPT !.fullSync = {m}]
<1>1. /\ client' = [client EXCEPT ![c] = IF client[c].status = "open" THEN s ELSE w]
      /\ NoNewBlock /\ UNCHANGED <<doc, members>> /\ UNCHANGED up
      /\ FromServer(c, "fullDocumentSync")
      /\ down \in [Clients -> Seq(Message)]
  BY DEF ReceiveFullSync, SetClient, ServerUnchanged, DocsInv, Typed
<1>2. m \in Message /\ m.update \in Content /\ m.text \in SUBSET Units
  <2>1. m \in Message
    BY <1>1, ClientTakes
  <2> QED
    BY <2>1 DEF Message
<1>3. y \in Content
  BY <1>2, ClientNow, MergeTyped
<1>4. AllGoodThen => GoodThen(y)
  BY <1>1, FromServerGood, MergeGood DEF AllGoodThen, GoodThen
<1> HIDE DEF m, y
<1>5. CASE client[c].status = "open"
  <2>1. /\ s \in Client /\ ClientOK(c, s) /\ s.queue = client[c].queue /\ s.opening = client[c].opening
        /\ s.status = client[c].status /\ s.sharing = client[c].sharing /\ s.yDoc = y
    BY <1>2, <1>3, <1>5, SentTyped
  <2> HIDE DEF s
  <2> QED
    BY <1>1, <1>4, <1>5, <2>1, PlainMessage, PlainStep
<1>6. CASE client[c].status # "open"
  <2>1. /\ w \in Client /\ ClientOK(c, w) /\ w.queue = client[c].queue /\ w.opening = client[c].opening
        /\ w.status = client[c].status /\ w.sharing = client[c].sharing /\ w.yDoc = client[c].yDoc
    BY <1>2, ClientNow DEF Client, ClientOK
  <2> HIDE DEF w
  <2>2. AllGoodThen => GoodThen(w.yDoc)
    BY <2>1 DEF AllGoodThen
  <2> QED
    BY <1>1, <1>6, <2>1, <2>2, PlainMessage, PlainStep
<1> QED
  BY <1>5, <1>6

LEMMA TextTyped == ASSUME Typed, NEW y \in Content PROVE Text(y) \in SUBSET Units
BY DEF Typed, Text, Content

LEMMA ReceiveChangeKeeps ==
  ASSUME DocsInv, NEW c \in Clients, ReceiveChange(c)
  PROVE  DocsInv'
<1> DEFINE m == Head(down[c])
           y == Merge(client[c].yDoc, m.update)
           t == Text(y)
           s == Sent(client[c], "replace", m, y, t)
           w == [client[c] EXCEPT !.requested = TRUE]
           n == Msg("requestFullSync", 0, {}, EmptyContent)
<1>1. /\ NoNewBlock /\ UNCHANGED <<doc, members>> /\ FromServer(c, "docChange")
      /\ down \in [Clients -> Seq(Message)]
      /\ \/ /\ client' = [client EXCEPT ![c] = w]
            /\ Send(c, n) \/ UNCHANGED up
         \/ UNCHANGED client /\ UNCHANGED up
         \/ /\ client[c].status = "open"
            /\ client' = [client EXCEPT ![c] = s]
            /\ UNCHANGED up
  BY DEF ReceiveChange, RequestFullSyncForDoc, SetClient, ServerUnchanged, DocsInv, Typed
<1>2. m \in Message /\ m.update \in Content /\ m.text \in SUBSET Units
  <2>1. m \in Message
    BY <1>1, ClientTakes
  <2> QED
    BY <2>1 DEF Message
<1>3. y \in Content
  BY <1>2, ClientNow, MergeTyped
<1>4. AllGoodThen => GoodThen(y)
  BY <1>1, FromServerGood, MergeGood DEF AllGoodThen, GoodThen
<1>5. t \in SUBSET Units
  BY <1>3, TextTyped DEF DocsInv
<1>6. AllGoodThen => GoodThen(client[c].yDoc)
  BY DEF AllGoodThen
<1>7. n \in Message /\ GoodThen(n.update) /\ ~IsShare(n)
  BY PlainMessage
<1> HIDE DEF m, y, n, t
<1>8. CASE client' = [client EXCEPT ![c] = w] /\ (Send(c, n) \/ UNCHANGED up)
  <2>1. /\ w \in Client /\ ClientOK(c, w) /\ w.queue = client[c].queue /\ w.opening = client[c].opening
        /\ w.status = client[c].status /\ w.sharing = client[c].sharing /\ w.yDoc = client[c].yDoc
    BY ClientNow DEF Client, ClientOK
  <2> HIDE DEF w
  <2> QED
    BY <1>1, <1>6, <1>7, <1>8, <2>1, PlainStep
<1>9. CASE UNCHANGED client /\ UNCHANGED up
  <2>1. client' = [client EXCEPT ![c] = client[c]] /\ client[c] \in Client /\ ClientOK(c, client[c])
    BY <1>9, ClientNow DEF DocsInv, Typed
  <2> QED
    BY <1>1, <1>6, <1>7, <1>9, <2>1, PlainStep
<1>10. CASE client[c].status = "open" /\ client' = [client EXCEPT ![c] = s] /\ UNCHANGED up
  <2>1. /\ s \in Client /\ ClientOK(c, s) /\ s.queue = client[c].queue /\ s.opening = client[c].opening
        /\ s.status = client[c].status /\ s.sharing = client[c].sharing /\ s.yDoc = y
    <3>1. client[c].status = "open"
      BY <1>10
    <3>2. "replace" \in {"replace", "patch", "sync"}
      OBVIOUS
    <3> QED
      BY ONLY DocsInv, c \in Clients, <1>2, <1>3, <1>5, <3>1, <3>2, SentTyped
  <2> HIDE DEF s
  <2> QED
    BY <1>1, <1>4, <1>7, <1>10, <2>1, PlainStep
<1> QED
  BY <1>1, <1>8, <1>9, <1>10

LEMMA HandledTyped ==
  ASSUME NEW edits \in Seq(Edit), NEW i \in DOMAIN edits,
         NEW stage \in {"sent", "stale", "shown", "refused"}
  PROVE  /\ [edits EXCEPT ![i].stage = stage] \in Seq(Edit)
         /\ [edits EXCEPT ![i].stage = stage] # << >>
<1>1. edits[i] \in Edit
  OBVIOUS
<1>2. [edits[i] EXCEPT !.stage = stage] \in Edit
  BY <1>1 DEF Edit
<1>3. PICK e \in Edit : e = [edits[i] EXCEPT !.stage = stage]
  BY <1>2
<1>4. [edits EXCEPT ![i].stage = stage] = [edits EXCEPT ![i] = e]
  BY <1>3
<1>5. [edits EXCEPT ![i] = e] \in Seq(Edit) /\ [edits EXCEPT ![i] = e] # << >>
  OBVIOUS
<1> QED
  BY <1>4, <1>5

\* A client whose awaited edits become q.
LEMMA EditorTyped ==
  ASSUME DocsInv, NEW c \in Clients, client[c].applying # << >>,
         NEW text \in SUBSET Units, NEW q \in Seq(Edit), q # << >>
  PROVE  LET s == [client[c] EXCEPT !.editor = text, !.applying = q]
         IN /\ s \in Client /\ ClientOK(c, s) /\ s.queue = client[c].queue
            /\ s.yDoc = client[c].yDoc /\ s.opening = client[c].opening
            /\ s.status = client[c].status /\ s.sharing = client[c].sharing
<1> DEFINE s == [client[c] EXCEPT !.editor = text, !.applying = q]
<1>1. client[c].status = "open"
  BY ClientNow DEF ClientOK
<1>2. /\ s \in Client /\ s.queue = client[c].queue
      /\ s.yDoc = client[c].yDoc /\ s.opening = client[c].opening
      /\ s.status = client[c].status /\ s.sharing = client[c].sharing
      /\ s.applying = q /\ s.timer = client[c].timer /\ s.unsharing = client[c].unsharing
  BY ClientNow DEF Client
<1> HIDE DEF s
<1>3. ClientOK(c, s)
  BY <1>1, <1>2, ClientNow DEF ClientOK
<1> QED
  BY <1>2, <1>3 DEF s

LEMMA EditorReactsKeeps ==
  ASSUME DocsInv, NEW c \in Clients, EditorReacts(c)
  PROVE  DocsInv'
<1> DEFINE a == client[c].applying
           e(i) == a[i]
           m(i) == e(i).message
           text(i) == IF e(i).mode = "patch" THEN Patched(client[c].editor, m(i)) ELSE e(i).shows
           handled(i, stage) == [a EXCEPT ![i].stage = stage]
           q(i) == IF text(i) = client[c].editor THEN handled(i, "shown") ELSE Outdated(handled(i, "shown"))
           shown(i) == [client[c] EXCEPT !.editor = text(i), !.applying = q(i)]
           new(i) == IF e(i).mode = "patch" THEN m(i).text ELSE text(i)
           change(i) == [block |-> nextBlock, base |-> client[c].editor,
                         whole |-> e(i).mode = "patch" => m(i).whole]
<1>1. /\ UNCHANGED <<doc, members>> /\ UNCHANGED <<up, down>>
      /\ \E i \in DOMAIN a :
           \/ NoNewBlock /\ client' = [client EXCEPT ![c] = [client[c] EXCEPT !.applying = handled(i, "refused")]]
           \/ NoNewBlock /\ client' = [client EXCEPT ![c] = shown(i)]
           \/ /\ NewBlock(new(i), EmptyContent)
              /\ client' = [client EXCEPT ![c] = Changed(shown(i), change(i))]
  BY DEF EditorReacts, SetClient, ServerUnchanged
<1>2. PICK i \in DOMAIN a :
           \/ NoNewBlock /\ client' = [client EXCEPT ![c] = [client[c] EXCEPT !.applying = handled(i, "refused")]]
           \/ NoNewBlock /\ client' = [client EXCEPT ![c] = shown(i)]
           \/ /\ NewBlock(new(i), EmptyContent)
              /\ client' = [client EXCEPT ![c] = Changed(shown(i), change(i))]
  BY <1>1
<1>3. a \in Seq(Edit) /\ a # << >> /\ e(i) \in Edit
  BY ClientNow
<1>4. m(i) \in Message /\ m(i).text \in SUBSET Units /\ m(i).whole \in BOOLEAN /\ e(i).shows \in SUBSET Units
  BY <1>3 DEF Edit, Message
<1>5. text(i) \in SUBSET Units /\ new(i) \in SUBSET Units
  BY <1>4, ClientNow DEF Patched
<1>6. handled(i, "refused") \in Seq(Edit) /\ handled(i, "refused") # << >>
  BY <1>3, HandledTyped
<1>7. q(i) \in Seq(Edit) /\ q(i) # << >>
  BY <1>3, HandledTyped, OutdatedTyped
<1> DEFINE r == handled(i, "refused")
           s == shown(i)
           w == [client[c] EXCEPT !.editor = client[c].editor, !.applying = r]
<1> HIDE DEF r
<1>8. /\ w \in Client /\ ClientOK(c, w) /\ w.queue = client[c].queue
      /\ w.yDoc = client[c].yDoc /\ w.opening = client[c].opening
      /\ w.status = client[c].status /\ w.sharing = client[c].sharing
  <2>1. r \in Seq(Edit) /\ r # << >>
    BY <1>6 DEF r
  <2>2. client[c].applying # << >> /\ client[c].editor \in SUBSET Units
    BY <1>3, ClientNow
  <2> QED
    BY ONLY DocsInv, c \in Clients, <2>1, <2>2, EditorTyped
<1>9. w = [client[c] EXCEPT !.applying = r]
  BY ClientNow DEF Client
<1> HIDE DEF text, q, w
<1>10. /\ s \in Client /\ ClientOK(c, s) /\ s.queue = client[c].queue
       /\ s.yDoc = client[c].yDoc /\ s.opening = client[c].opening
       /\ s.status = client[c].status /\ s.sharing = client[c].sharing
  BY <1>3, <1>5, <1>7, EditorTyped
<1> HIDE DEF s
<1>11. AllGoodThen => GoodThen(w.yDoc) /\ GoodThen(s.yDoc)
  BY <1>8, <1>10 DEF AllGoodThen
<1>12. CASE NoNewBlock /\ client' = [client EXCEPT ![c] = [client[c] EXCEPT !.applying = handled(i, "refused")]]
  <2>1. client' = [client EXCEPT ![c] = w]
    BY <1>9, <1>12 DEF r
  <2> QED
    BY <1>1, <1>8, <1>11, <1>12, <2>1, PlainMessage, PlainStep
<1>13. CASE NoNewBlock /\ client' = [client EXCEPT ![c] = shown(i)]
  <2>1. client' = [client EXCEPT ![c] = s]
    BY <1>13 DEF s
  <2> QED
    BY <1>1, <1>10, <1>11, <1>13, <2>1, PlainMessage, PlainStep
<1>14. CASE NewBlock(new(i), EmptyContent) /\ client' = [client EXCEPT ![c] = Changed(shown(i), change(i))]
  <2>1. client' = [client EXCEPT ![c] = Changed(s, change(i))]
    BY <1>14 DEF s
  <2>2. nextBlock \in Blocks
    BY <1>14 DEF NewBlock
  <2>3. change(i) \in Change /\ change(i).block = nextBlock
    BY <1>4, <2>2, ClientNow DEF Change
  <2> HIDE DEF change, new
  <2> QED
    BY <1>1, <1>5, <1>10, <1>14, <2>1, <2>3, EditStep
<1> QED
  BY <1>2, <1>12, <1>13, <1>14

\* What is left when the first awaited edit of c has been answered.
LEMMA RestTyped ==
  ASSUME DocsInv, NEW c \in Clients, client[c].applying # << >>
  PROVE  LET e == Head(client[c].applying)
             s == [client[c] EXCEPT !.applying = Tail(@), !.suppress = FALSE]
         IN /\ e \in Edit
            /\ s \in Client /\ ClientOK(c, s) /\ s.queue = client[c].queue
            /\ s.yDoc = client[c].yDoc /\ s.opening = client[c].opening
            /\ s.status = "open" /\ client[c].status = "open" /\ s.sharing = client[c].sharing
            /\ s.applying = Tail(client[c].applying) /\ ~s.suppress
<1> DEFINE q == Tail(client[c].applying)
           s == [client[c] EXCEPT !.applying = q, !.suppress = FALSE]
<1>1. client[c].applying \in Seq(Edit)
  BY ClientNow
<1>2. Head(client[c].applying) \in Edit /\ q \in Seq(Edit)
  BY <1>1
<1>3. client[c].status = "open"
  BY ClientNow DEF ClientOK
<1> HIDE DEF q
<1>4. /\ s \in Client /\ s.queue = client[c].queue
      /\ s.yDoc = client[c].yDoc /\ s.opening = client[c].opening
      /\ s.status = "open" /\ s.sharing = client[c].sharing
      /\ s.applying = q /\ ~s.suppress /\ s.timer = client[c].timer /\ s.unsharing = client[c].unsharing
  BY <1>2, <1>3, ClientNow DEF Client
<1>5. s = [client[c] EXCEPT !.applying = Tail(@), !.suppress = FALSE]
  BY DEF q
<1> HIDE DEF s
<1>6. ClientOK(c, s)
  BY <1>3, <1>4, ClientNow DEF ClientOK
<1> QED
  BY <1>2, <1>3, <1>4, <1>5, <1>6 DEF q

LEMMA RequestedTyped ==
  ASSUME NEW c \in Clients, NEW s \in Client, ClientOK(c, s)
  PROVE  LET w == [s EXCEPT !.requested = TRUE]
         IN /\ w \in Client /\ ClientOK(c, w) /\ w.queue = s.queue /\ w.yDoc = s.yDoc
            /\ w.opening = s.opening /\ w.status = s.status /\ w.sharing = s.sharing
BY DEF Client, ClientOK

LEMMA YDocTyped ==
  ASSUME NEW c \in Clients, NEW s \in Client, ClientOK(c, s), NEW y \in Content
  PROVE  LET w == [s EXCEPT !.yDoc = y]
         IN /\ w \in Client /\ ClientOK(c, w) /\ w.queue = s.queue /\ w.yDoc = y
            /\ w.opening = s.opening /\ w.status = s.status /\ w.sharing = s.sharing
BY DEF Client, ClientOK

LEMMA AppliedKeeps ==
  ASSUME DocsInv, NEW c \in Clients, Applied(c)
  PROVE  DocsInv'
<1> DEFINE e == Head(client[c].applying)
           s == [client[c] EXCEPT !.applying = Tail(@), !.suppress = FALSE]
           w == [s EXCEPT !.version = e.message.version, !.requested = FALSE]
           y == Rewritten(w.yDoc, nextBlock)
           v == [w EXCEPT !.yDoc = y]
           t == [e EXCEPT !.mode = "patch", !.stage = "sent"]
           q == Append(s.applying, t)
           p == [s EXCEPT !.suppress = TRUE, !.applying = q]
           r == [s EXCEPT !.requested = TRUE]
           n == Msg("requestFullSync", 0, {}, EmptyContent)
<1>1. /\ UNCHANGED <<doc, members>> /\ UNCHANGED down /\ client[c].applying # << >>
      /\ \/ NoNewBlock /\ client' = [client EXCEPT ![c] = w] /\ UNCHANGED up
         \/ /\ NewBlock(client[c].editor, client[c].yDoc)
            /\ client' = [client EXCEPT ![c] = [w EXCEPT !.yDoc = Rewritten(@, nextBlock)]] /\ UNCHANGED up
         \/ /\ NoNewBlock /\ UNCHANGED up
            /\ client' = [client EXCEPT ![c] = [s EXCEPT !.suppress = TRUE, !.applying = Append(@, t)]]
         \/ NoNewBlock /\ client' = [client EXCEPT ![c] = r] /\ (Send(c, n) \/ UNCHANGED up)
  BY DEF Applied, RequestFullSyncForDoc, SetClient, ServerUnchanged
<1>2. /\ e \in Edit
      /\ s \in Client /\ ClientOK(c, s) /\ s.queue = client[c].queue
      /\ s.yDoc = client[c].yDoc /\ s.opening = client[c].opening
      /\ s.status = "open" /\ client[c].status = "open" /\ s.sharing = client[c].sharing
      /\ s.applying \in Seq(Edit)
  <2>1. client[c].applying # << >>
    BY <1>1
  <2>2. s \in Client => s.applying \in Seq(Edit)
    BY DEF Client
  <2> QED
    BY <2>1, <2>2, RestTyped
<1>3. e.message.version \in Nat /\ t \in Edit
  BY <1>2 DEF Edit, Message
<1> HIDE DEF e, s, t
<1>4. q \in Seq(Edit) /\ q # << >>
  BY <1>2, <1>3, AppendSeq
<1>5. n \in Message /\ GoodThen(n.update) /\ ~IsShare(n)
  BY PlainMessage
<1> HIDE DEF q, n
<1>6. /\ w \in Client /\ ClientOK(c, w) /\ w.queue = client[c].queue /\ w.yDoc = client[c].yDoc
      /\ w.opening = client[c].opening /\ w.status = client[c].status /\ w.sharing = client[c].sharing
  <2>1. w = [s EXCEPT !.version = e.message.version, !.requested = FALSE]
    BY DEF w
  <2> HIDE DEF w
  <2>2. /\ w \in Client /\ ClientOK(c, w) /\ w.queue = s.queue /\ w.yDoc = s.yDoc
        /\ w.opening = s.opening /\ w.status = s.status /\ w.sharing = s.sharing
    BY ONLY c \in Clients, <1>2, <1>3, <2>1 DEF Client, ClientOK
  <2> QED
    BY <1>2, <2>2
<1>7. /\ p \in Client /\ ClientOK(c, p) /\ p.queue = client[c].queue /\ p.yDoc = client[c].yDoc
      /\ p.opening = client[c].opening /\ p.status = client[c].status /\ p.sharing = client[c].sharing
  <2>1. p = [s EXCEPT !.suppress = TRUE, !.applying = q]
    BY DEF p
  <2> HIDE DEF p
  <2>2. /\ p \in Client /\ ClientOK(c, p) /\ p.queue = s.queue /\ p.yDoc = s.yDoc
        /\ p.opening = s.opening /\ p.status = s.status /\ p.sharing = s.sharing
    BY ONLY c \in Clients, <1>2, <1>4, <2>1 DEF Client, ClientOK
  <2> QED
    BY <1>2, <2>2
<1>8. /\ r \in Client /\ ClientOK(c, r) /\ r.queue = client[c].queue /\ r.yDoc = client[c].yDoc
      /\ r.opening = client[c].opening /\ r.status = client[c].status /\ r.sharing = client[c].sharing
  BY <1>2, RequestedTyped
<1> HIDE DEF w, r
<1>9. AllGoodThen => GoodThen(client[c].yDoc)
  BY DEF AllGoodThen
<1>10. CASE NoNewBlock /\ client' = [client EXCEPT ![c] = w] /\ UNCHANGED up
  BY <1>1, <1>5, <1>6, <1>9, <1>10, PlainStep
<1>11. CASE NewBlock(client[c].editor, client[c].yDoc) /\ UNCHANGED up
            /\ client' = [client EXCEPT ![c] = [w EXCEPT !.yDoc = Rewritten(@, nextBlock)]]
  <2>1. client[c].editor \in SUBSET Units /\ client[c].yDoc \in Content
    BY ClientNow
  <2>2. nextBlock \in Blocks
    BY <1>11 DEF NewBlock
  <2>3. /\ y \in Content /\ y.ins = client[c].yDoc.ins \cup {nextBlock}
        /\ y.del = client[c].yDoc.del \cup client[c].yDoc.ins
    BY <1>6, <2>1, <2>2 DEF Rewritten, Content
  <2>4. client' = [client EXCEPT ![c] = v]
    BY <1>6, <1>11 DEF Client
  <2> HIDE DEF y
  <2>5. /\ v \in Client /\ ClientOK(c, v) /\ v.queue = client[c].queue /\ v.yDoc = y
        /\ v.opening = client[c].opening /\ v.status = client[c].status /\ v.sharing = client[c].sharing
    BY <1>6, <2>3, YDocTyped
  <2> HIDE DEF v
  <2>6. /\ client' \in [Clients -> Client] /\ client'[c] = v
        /\ \A d \in Clients : d # c => client'[d] = client[d]
    BY <2>4, <2>5 DEF DocsInv, Typed
  <2>7. QueuesApart' /\ AllGoodThen
    BY <1>11, <2>1, <2>5, <2>6, OneWritten DEF DocsInv
  <2>8. BlocksTyped'
    BY <1>11, <2>1, NewBlocksTyped DEF DocsInv
  <2>9. GoodThen(client[c].yDoc) /\ GoodThen(client[c].opening.update)
    BY <2>7 DEF AllGoodThen
  <2>10. client[c].yDoc.del \subseteq client[c].yDoc.ins
    BY <2>9 DEF GoodThen, Good
  <2>11. GoodThen(y)
    BY <1>11, <2>1, <2>3, <2>5, <2>6, <2>9, <2>10, WrittenGood DEF DocsInv
  <2> QED
    BY <1>1, <1>5, <1>11, <2>4, <2>5, <2>7, <2>8, <2>9, <2>11, ClientStepKeeps
<1>12. CASE NoNewBlock /\ UNCHANGED up
            /\ client' = [client EXCEPT ![c] = [s EXCEPT !.suppress = TRUE, !.applying = Append(@, t)]]
  <2>1. client' = [client EXCEPT ![c] = p]
    BY <1>2, <1>12 DEF q, Client
  <2> HIDE DEF p
  <2> QED
    BY <1>1, <1>5, <1>7, <1>9, <1>12, <2>1, PlainStep
<1>13. CASE NoNewBlock /\ client' = [client EXCEPT ![c] = r] /\ (Send(c, n) \/ UNCHANGED up)
  BY <1>1, <1>5, <1>8, <1>9, <1>13, PlainStep
<1> QED
  BY <1>1, <1>10, <1>11, <1>12, <1>13

-------------------------------------------------------------------------------

LEMMA InitDocsInv == Init => DocsInv
<1> SUFFICES ASSUME Init PROVE DocsInv
  OBVIOUS
<1>1. AbsentDocument \in Client
  BY NoMessageTyped, EmptyTyped DEF AbsentDocument, Client
<1>2. SharedText \in SUBSET Units /\ [AbsentDocument EXCEPT !.editor = SharedText] \in Client
  <2>1. 0 \in Units
    BY DocumentConstants DEF Units
  <2>2. SharedText \in SUBSET Units
    BY <2>1 DEF SharedText
  <2>3. ASSUME NEW a \in Client, NEW text \in SUBSET Units
        PROVE  [a EXCEPT !.editor = text] \in Client
    BY DEF Client
  <2> QED
    BY <1>1, <2>2, <2>3
<1>3. \A c \in Clients : /\ client[c] \in Client /\ ClientOK(c, client[c])
                         /\ client[c].status = "absent" /\ client[c].queue = << >>
                         /\ client[c].yDoc = EmptyContent /\ client[c].opening = NoMessage
  <2> SUFFICES ASSUME NEW c \in Clients
               PROVE  /\ client[c] \in Client /\ ClientOK(c, client[c])
                      /\ client[c].status = "absent" /\ client[c].queue = << >>
                      /\ client[c].yDoc = EmptyContent /\ client[c].opening = NoMessage
    OBVIOUS
  <2>1. client[c] = AbsentDocument \/ client[c] = [AbsentDocument EXCEPT !.editor = SharedText]
    BY DEF Init
  <2>2. /\ client[c].status = "absent" /\ client[c].queue = << >>
        /\ client[c].yDoc = EmptyContent /\ client[c].opening = NoMessage
        /\ ~client[c].suppress /\ client[c].applying = << >> /\ ~client[c].timer
        /\ ~client[c].sharing /\ ~client[c].unsharing
    BY <2>1 DEF AbsentDocument
  <2> QED
    BY <1>1, <1>2, <2>1, <2>2 DEF ClientOK
<1>4. Typed
  BY <1>3, DocumentConstants, EmptyTyped DEF Init, Typed, Document, Blocks, Units
<1>5. \A c \in Clients : up[c] = << >> /\ down[c] = << >>
  BY DEF Init
<1>6. SharesSent /\ SharesGot /\ AllNumbered
  BY <1>3, <1>5 DEF Init, SharesSent, SharesGot, AllNumbered, Shares, OneShare, Numbered
<1>7. AllGood
  BY <1>3, <1>5, EmptyGood, NoMessageTyped DEF Init, AllGood, GoodMessages
<1>8. QueuesApart
  BY <1>3 DEF QueuesApart, BlocksOf
<1> QED
  BY <1>3, <1>4, <1>6, <1>7, <1>8 DEF DocsInv

LEMMA NextDocsInv == DocsInv /\ [Next]_vars => DocsInv'
<1> SUFFICES ASSUME DocsInv, [Next]_vars PROVE DocsInv'
  OBVIOUS
<1>1. CASE UNCHANGED vars
  BY <1>1 DEF vars, DocsInv, Typed, SharesSent, SharesGot, AllNumbered, AllGood, QueuesApart, Waiting
<1>2. CASE Share
  BY <1>2, ShareKeeps
<1>3. CASE Unshare
  BY <1>3, UnshareKeeps
<1>4. ASSUME NEW c \in Clients, Join(c) PROVE DocsInv'
  BY <1>4, JoinKeeps
<1>5. ASSUME NEW c \in Clients, Type(c) PROVE DocsInv'
  BY <1>5, TypeKeeps
<1>6. ASSUME NEW c \in Clients, ServerStep(c) PROVE DocsInv'
  BY <1>6, ShareDocumentKeeps, UnshareDocumentKeeps, DocChangeKeeps, RequestFullSyncKeeps,
     FullDocumentSyncKeeps DEF ServerStep
<1>7. ASSUME NEW c \in Clients, Receive(c) PROVE DocsInv'
  BY <1>7, ReceiveShareKeeps, ReceiveUnsharedKeeps, ReceiveChangeKeeps, ReceiveFullSyncKeeps,
     AnswerFullSyncKeeps DEF Receive
<1>8. ASSUME NEW c \in Clients, Progress(c) PROVE DocsInv'
  BY <1>8, OpenSharedKeeps, FlushKeeps, EditorReactsKeeps, AppliedKeeps DEF Progress
<1>9. ASSUME NEW c \in Clients, SnapshotTimeout(c) PROVE DocsInv'
  BY <1>9, SnapshotTimeoutKeeps
<1> QED
  BY <1>1, <1>2, <1>3, <1>4, <1>5, <1>6, <1>7, <1>8, <1>9 DEF Next

-------------------------------------------------------------------------------
\* The theorems

\* The invariant holds in every reachable state: handlers of the server and of the
\* clients, awaited edits and timers in any order keep the copies good, the
\* versions numbered and the queues apart.
THEOREM DocumentsAreConsistent == Spec => []DocsInv
<1> QED
  BY InitDocsInv, NextDocsInv, PTL DEF Spec

\* Every variable keeps its type, and a client's editor is deaf only while an edit
\* of an open document is awaited (suppressChanges in DocumentSync.ts).
THEOREM DocumentsTyped == Spec => []DocsTypeOK
<1>1. DocsInv => DocsTypeOK
  BY TypesSplit DEF DocsInv
<1> QED
  BY <1>1, DocumentsAreConsistent, PTL

\* No copy, kept or under way, holds a change without what its author had seen,
\* although docChange messages are ignored as stale, refused by the server and
\* overtaken by full syncs: a flush sends the whole Yjs document.
THEOREM CopiesStayClosed == Spec => []CausallyClosed
<1>1. DocsInv => CausallyClosed
  <2> SUFFICES ASSUME DocsInv, NEW y \in Contents
               PROVE  Good(y, made, nextBlock, Waiting)
    BY DEF CausallyClosed, Good
  <2>0. \/ y = doc.yjsState
        \/ \E c \in Clients : y = client[c].yDoc \/ y = client[c].opening.update
        \/ \E c \in Clients : \E i \in DOMAIN up[c] : y = up[c][i].update
        \/ \E c \in Clients : \E i \in DOMAIN down[c] : y = down[c][i].update
    <3>1. \/ y \in {client[c].yDoc : c \in Clients}
          \/ y \in {client[c].opening.update : c \in Clients}
          \/ y = doc.yjsState
          \/ y \in UNION {{up[c][i].update : i \in DOMAIN up[c]} : c \in Clients}
          \/ y \in UNION {{down[c][i].update : i \in DOMAIN down[c]} : c \in Clients}
      BY Zenon DEF Contents
    <3>2. ASSUME y \in UNION {{up[c][i].update : i \in DOMAIN up[c]} : c \in Clients}
          PROVE  \E c \in Clients : \E i \in DOMAIN up[c] : y = up[c][i].update
      BY ONLY <3>2, Zenon
    <3>3. ASSUME y \in UNION {{down[c][i].update : i \in DOMAIN down[c]} : c \in Clients}
          PROVE  \E c \in Clients : \E i \in DOMAIN down[c] : y = down[c][i].update
      BY ONLY <3>3, Zenon
    <3> QED
      BY ONLY <3>1, <3>2, <3>3, Zenon
  <2>1. CASE y = doc.yjsState
    BY <2>1 DEF DocsInv, AllGood
  <2>2. CASE \E c \in Clients : y = client[c].yDoc \/ y = client[c].opening.update
    BY <2>2 DEF DocsInv, AllGood
  <2>3. CASE \E c \in Clients : \E i \in DOMAIN up[c] : y = up[c][i].update
    BY <2>3 DEF DocsInv, AllGood, GoodMessages
  <2>4. CASE \E c \in Clients : \E i \in DOMAIN down[c] : y = down[c][i].update
    BY <2>4 DEF DocsInv, AllGood, GoodMessages
  <2> QED
    BY <2>0, <2>1, <2>2, <2>3, <2>4
<1> QED
  BY <1>1, DocumentsAreConsistent, PTL

\* The versions the server announces to a client increase, those of full syncs
\* included: handleFullDocumentSync takes only a newer one.
THEOREM VersionsAlwaysIncrease == Spec => []VersionsIncrease
<1>1. DocsInv => VersionsIncrease
  BY DEF DocsInv, AllNumbered, Numbered, IsNumbered, VersionsIncrease
<1> QED
  BY <1>1, DocumentsAreConsistent, PTL
===============================================================================
