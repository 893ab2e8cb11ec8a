----------------------------- MODULE ReviewQueueProofs -----------------------------
(***************************************************************************)
(* Proofs about the owner's review queue: it shows every pending           *)
(* suggestion once the owner has taken all that the server sent, whatever  *)
(* a broken connection swallowed before (SuggestionManager.ts, server.ts). *)
(* The messages in transit say what it will show: for each suggestion, the *)
(* last of them that is about it counts, and before any the view itself.   *)
(***************************************************************************)
EXTENDS SuggestionProofs

\* The messages of the owner's channel that are about suggestion s, and what the
\* queue shows of s when it has taken one.
Affects(m, s) ==
  \/ m.type \in {"newSuggestion", "suggestionReviewed"} /\ m.id = s
  \/ m.type = "syncSuggestions"
Shows(m, s) ==
  IF m.type = "newSuggestion" THEN m.patches
  ELSE IF m.type = "syncSuggestions" THEN m.entries[s]
  ELSE NoEntry

Unaffecting(q, s, k) == \A i \in DOMAIN q : i > k => ~Affects(q[i], s)

\* A queue that shows e of s shows p of it once the messages q are taken.
WillShow(q, e, s, p) ==
  \/ Unaffecting(q, s, 0) /\ e = p
  \/ \E k \in DOMAIN q : Affects(q[k], s) /\ Shows(q[k], s) = p /\ Unaffecting(q, s, k)

\* The view has an entry for every id, as has what replaces it (replaceAll).
ChannelTypeOK ==
  /\ DOMAIN view = Ids
  /\ toClient[Owner] \in Seq(Range(toClient[Owner]))
  /\ DOMAIN toClient = Clients
  /\ \A m \in Range(toClient[Owner]) : m.type = "syncSuggestions" => DOMAIN m.entries = Ids

\* While the owner is in the room, what is in transit to it will show every pending
\* suggestion with the patches the server has.
QueueWillShow ==
  Owner \in members =>
    \A s \in Pending(suggestions) :
      WillShow(toClient[Owner], view[s], s, suggestions[s].patches)

QueueInv == SuggestionInv /\ ChannelTypeOK /\ QueueWillShow

-------------------------------------------------------------------------------
\* Lists of messages

LEMMA ListOfOwn ==
  ASSUME NEW S, NEW q \in Seq(S)
  PROVE  q \in Seq(Range(q)) /\ Range(q) \subseteq S
<1>1. q \in [1 .. Len(q) -> S] /\ Len(q) \in Nat /\ DOMAIN q = 1 .. Len(q)
  OBVIOUS
<1>2. \A i \in 1 .. Len(q) : q[i] \in Range(q)
  BY <1>1 DEF Range
<1>3. q \in [1 .. Len(q) -> Range(q)]
  BY <1>1, <1>2
<1> QED BY <1>1, <1>3 DEF Range

LEMMA ConcatFacts ==
  ASSUME NEW q, NEW r, q \in Seq(Range(q)), r \in Seq(Range(r))
  PROVE  /\ q \o r \in Seq(Range(q \o r))
         /\ Range(q \o r) \subseteq Range(q) \cup Range(r)
         /\ Len(q) \in Nat /\ DOMAIN q = 1 .. Len(q)
         /\ Len(r) \in Nat /\ DOMAIN r = 1 .. Len(r)
         /\ DOMAIN (q \o r) = 1 .. Len(q) + Len(r)
         /\ \A i \in 1 .. Len(q) : (q \o r)[i] = q[i]
         /\ \A i \in 1 .. Len(q) + Len(r) :
              i > Len(q) => i - Len(q) \in 1 .. Len(r) /\ (q \o r)[i] = r[i - Len(q)]
         /\ \A i \in 1 .. Len(r) : (q \o r)[Len(q) + i] = r[i]
<1> DEFINE S == Range(q) \cup Range(r)
<1>1. Range(q) \subseteq S /\ Range(r) \subseteq S
  OBVIOUS
<1> HIDE DEF S
<1>2. q \in Seq(S) /\ r \in Seq(S)
  BY <1>1
<1>3. q \o r \in Seq(S)
  BY <1>2
<1>4. q \o r \in Seq(Range(q \o r)) /\ Range(q \o r) \subseteq S
  BY <1>3, ListOfOwn
<1>5. /\ Len(q) \in Nat /\ DOMAIN q = 1 .. Len(q)
      /\ Len(r) \in Nat /\ DOMAIN r = 1 .. Len(r)
      /\ DOMAIN (q \o r) = 1 .. Len(q) + Len(r)
      /\ \A i \in 1 .. Len(q) : (q \o r)[i] = q[i]
      /\ \A i \in 1 .. Len(r) : (q \o r)[Len(q) + i] = r[i]
  BY <1>2
<1>6. ASSUME NEW i \in 1 .. Len(q) + Len(r), i > Len(q)
      PROVE  i - Len(q) \in 1 .. Len(r) /\ (q \o r)[i] = r[i - Len(q)]
  <2>1. i - Len(q) \in 1 .. Len(r) /\ Len(q) + (i - Len(q)) = i
    BY <1>5, <1>6
  <2> QED BY <2>1, <1>5
<1> QED BY <1>4, <1>5, <1>6 DEF S

\* More messages, none of which is about s, or one of which shows p of it last.
LEMMA MoreShow ==
  ASSUME NEW q, NEW r, q \in Seq(Range(q)), r \in Seq(Range(r)), NEW e, NEW s, NEW p,
         \/ WillShow(q, e, s, p) /\ Unaffecting(r, s, 0)
         \/ \E k \in DOMAIN r : Affects(r[k], s) /\ Shows(r[k], s) = p /\ Unaffecting(r, s, k)
  PROVE  WillShow(q \o r, e, s, p)
<1> DEFINE n == Len(q)
           l == Len(r)
<1>1. /\ n \in Nat /\ DOMAIN q = 1 .. n /\ l \in Nat /\ DOMAIN r = 1 .. l
      /\ DOMAIN (q \o r) = 1 .. n + l
      /\ \A i \in 1 .. n : (q \o r)[i] = q[i]
      /\ \A i \in 1 .. n + l : i > n => i - n \in 1 .. l /\ (q \o r)[i] = r[i - n]
      /\ \A i \in 1 .. l : (q \o r)[n + i] = r[i]
  BY ConcatFacts
<1> HIDE DEF n, l
<1>2. ASSUME Unaffecting(r, s, 0)
      PROVE  \A i \in DOMAIN (q \o r) : i > n => ~Affects((q \o r)[i], s)
  <2>1. \A i \in DOMAIN r : ~Affects(r[i], s)
    <3>1. \A i \in DOMAIN r : i > 0
      BY <1>1
    <3> QED BY <1>2, <3>1 DEF Unaffecting
  <2> QED BY <1>1, <2>1
<1>3. CASE Unaffecting(q, s, 0) /\ e = p /\ Unaffecting(r, s, 0)
  <2>1. \A i \in 1 .. n : ~Affects(q[i], s)
    BY <1>1, <1>3 DEF Unaffecting
  <2>2. Unaffecting(q \o r, s, 0)
    BY <1>1, <1>2, <1>3, <2>1 DEF Unaffecting
  <2> QED BY <1>3, <2>2 DEF WillShow
<1>4. ASSUME NEW k \in DOMAIN q, Affects(q[k], s), Shows(q[k], s) = p, Unaffecting(q, s, k),
             Unaffecting(r, s, 0)
      PROVE  WillShow(q \o r, e, s, p)
  <2>1. k \in DOMAIN (q \o r) /\ (q \o r)[k] = q[k]
    BY <1>1, <1>4
  <2>2. Unaffecting(q \o r, s, k)
    BY <1>1, <1>2, <1>4 DEF Unaffecting
  <2> QED BY <1>4, <2>1, <2>2 DEF WillShow
<1>5. ASSUME NEW k \in DOMAIN r, Affects(r[k], s), Shows(r[k], s) = p, Unaffecting(r, s, k)
      PROVE  WillShow(q \o r, e, s, p)
  <2>1. n + k \in DOMAIN (q \o r) /\ (q \o r)[n + k] = r[k]
    BY <1>1, <1>5
  <2>2. ASSUME NEW i \in DOMAIN (q \o r), i > n + k
        PROVE  ~Affects((q \o r)[i], s)
    <3>1. i > n /\ i - n > k
      BY <1>1, <1>5, <2>2
    <3> QED BY <1>1, <1>5, <2>2, <3>1 DEF Unaffecting
  <2> QED BY <1>5, <2>1, <2>2 DEF WillShow, Unaffecting
<1> QED BY <1>3, <1>4, <1>5 DEF WillShow

\* Taking a message changes the view as the message says.
LEMMA TakeShows ==
  ASSUME NEW q, q \in Seq(Range(q)), q # << >>, NEW e, NEW s, NEW p, WillShow(q, e, s, p)
  PROVE  WillShow(Tail(q), IF Affects(Head(q), s) THEN Shows(Head(q), s) ELSE e, s, p)
<1> DEFINE t == Tail(q)
           h == IF Affects(Head(q), s) THEN Shows(Head(q), s) ELSE e
<1>1. /\ Head(q) = q[1] /\ 1 \in DOMAIN q /\ DOMAIN q = 1 .. Len(q) /\ Len(q) \in Nat
      /\ DOMAIN t = 1 .. Len(q) - 1
      /\ \A i \in DOMAIN t : t[i] = q[i + 1]
  OBVIOUS
<1>2. \A i \in DOMAIN t : i \in Nat \ {0} /\ i + 1 \in DOMAIN q
  BY <1>1
<1>3. CASE Unaffecting(q, s, 0) /\ e = p
  <2>1. ~Affects(Head(q), s)
    BY <1>1, <1>3 DEF Unaffecting
  <2>2. Unaffecting(t, s, 0)
    BY <1>1, <1>2, <1>3 DEF Unaffecting
  <2> QED BY <1>3, <2>1, <2>2 DEF WillShow
<1>4. ASSUME NEW k \in DOMAIN q, Affects(q[k], s), Shows(q[k], s) = p, Unaffecting(q, s, k)
      PROVE  WillShow(t, h, s, p)
  <2>1. ASSUME NEW j, k = j + 1, j \in Nat
        PROVE  Unaffecting(t, s, j)
    <3> SUFFICES ASSUME NEW i \in DOMAIN t, i > j PROVE ~Affects(t[i], s)
      BY DEF Unaffecting
    <3>1. i + 1 \in DOMAIN q /\ i + 1 > k
      BY <1>1, <1>2, <2>1
    <3> QED BY <1>1, <1>4, <3>1 DEF Unaffecting
  <2>2. CASE k = 1
    <3>1. h = p
      BY <1>1, <1>4, <2>2
    <3>2. Unaffecting(t, s, 0)
      BY <2>1, <2>2
    <3> QED BY <3>1, <3>2 DEF WillShow
  <2>3. CASE k # 1
    <3>1. k - 1 \in DOMAIN t /\ t[k - 1] = q[k] /\ k = (k - 1) + 1 /\ k - 1 \in Nat
      BY <1>1, <1>4, <2>3
    <3>2. Unaffecting(t, s, k - 1)
      BY <2>1, <3>1
    <3> QED BY <1>4, <3>1, <3>2 DEF WillShow
  <2> QED BY <2>2, <2>3
<1> QED BY <1>3, <1>4 DEF WillShow

-------------------------------------------------------------------------------
\* What the server sends

\* The owner's part of what the server may tell: acknowledgements answer, and no
\* other news than a join's replaces the whole view.
IsAnswer(answers) ==
  answers \in Seq(Range(answers)) /\ \A m \in Range(answers) : m.type = "ack"
IsNews(news) ==
  news \in Seq(Range(news)) /\ \A m \in Range(news) : m.type # "syncSuggestions"

LEMMA EmptyList == << >> \in Seq(Range(<< >>)) /\ Range(<< >>) = {}
BY DEF Range

LEMMA AckIsAnswer ==
  ASSUME NEW m
  PROVE  IsAnswer(Ack(m)) /\ IsAnswer(<< >>) /\ IsNews(<< >>)
<1>1. CASE AckKey(m) = Untracked
  <2>1. Ack(m) = << >>
    BY <1>1 DEF Ack
  <2> QED BY <2>1, EmptyList DEF IsAnswer, IsNews
<1>2. CASE AckKey(m) # Untracked
  <2> DEFINE a == [type |-> "ack", key |-> AckKey(m)]
  <2>1. Ack(m) = <<a>> /\ a.type = "ack"
    BY <1>2 DEF Ack
  <2> HIDE DEF a
  <2>2. <<a>> \in Seq({a})
    OBVIOUS
  <2>3. Range(<<a>>) = {a}
    BY DEF Range
  <2> QED BY <2>1, <2>2, <2>3, EmptyList DEF IsAnswer, IsNews
<1> QED BY <1>1, <1>2

LEMMA AnswersAffectNone ==
  ASSUME NEW answers, IsAnswer(answers), NEW s
  PROVE  Unaffecting(answers, s, 0)
<1> SUFFICES ASSUME NEW i \in DOMAIN answers PROVE ~Affects(answers[i], s)
  BY DEF Unaffecting
<1>1. answers[i] \in Range(answers)
  BY DEF Range
<1> QED BY <1>1 DEF IsAnswer, Affects

\* What Tell adds to the owner's channel.
LEMMA TellOwner ==
  ASSUME ChannelTypeOK, NEW c \in Clients, NEW answers, NEW news, Tell(c, answers, news),
         IsAnswer(answers)
  PROVE  /\ DOMAIN toClient' = Clients
         /\ IsAnswer(IF Owner = c THEN answers ELSE << >>)
         /\ toClient'[Owner]
              = ((toClient[Owner] \o (IF Owner \in members THEN news.owner ELSE << >>)) \o << >>)
                  \o (IF Owner = c THEN answers ELSE << >>)
<1>1. Owner \in Clients /\ Owner # Author
  BY SuggestionConstants DEF Clients
<1>2. IsAnswer(IF Owner = c THEN answers ELSE << >>)
  BY AckIsAnswer
<1>3. toClient'[Owner]
        = toClient[Owner] \o (IF Owner = Owner /\ Owner \in members THEN news.owner ELSE << >>)
                          \o (IF Owner = Author /\ Owner \in members THEN news.author ELSE << >>)
                          \o (IF Owner = c THEN answers ELSE << >>)
  BY <1>1 DEF Tell
<1>4. DOMAIN toClient' = Clients
  BY DEF Tell
<1> QED BY <1>1, <1>2, <1>3, <1>4

LEMMA TellTyped ==
  ASSUME ChannelTypeOK, NEW c \in Clients, NEW answers, NEW news, Tell(c, answers, news),
         IsAnswer(answers), IsNews(news.owner), view' = view
  PROVE  ChannelTypeOK'
<1> DEFINE a == IF Owner \in members THEN news.owner ELSE << >>
           q == toClient[Owner]
           none == << >>
           acks == IF Owner = c THEN answers ELSE << >>
<1>1. /\ IsAnswer(none) /\ IsAnswer(acks)
      /\ toClient'[Owner] = ((q \o a) \o none) \o acks
  BY TellOwner, AckIsAnswer
<1> HIDE DEF none, acks
<1>2. DOMAIN toClient' = Clients
  BY TellOwner
<1>3. /\ q \in Seq(Range(q))
      /\ \A m \in Range(q) : m.type = "syncSuggestions" => DOMAIN m.entries = Ids
  BY DEF ChannelTypeOK
<1>4. IsNews(a)
  BY AckIsAnswer
<1> HIDE DEF a, q
<1>5. /\ a \in Seq(Range(a)) /\ \A m \in Range(a) : m.type # "syncSuggestions"
      /\ none \in Seq(Range(none)) /\ \A m \in Range(none) : m.type # "syncSuggestions"
      /\ acks \in Seq(Range(acks)) /\ \A m \in Range(acks) : m.type # "syncSuggestions"
  BY <1>1, <1>4 DEF IsAnswer, IsNews
<1>6. q \o a \in Seq(Range(q \o a)) /\ Range(q \o a) \subseteq Range(q) \cup Range(a)
  BY <1>3, <1>5, ConcatFacts
<1>7. /\ (q \o a) \o none \in Seq(Range((q \o a) \o none))
      /\ Range((q \o a) \o none) \subseteq Range(q \o a) \cup Range(none)
  BY <1>5, <1>6, ConcatFacts
<1>8. /\ toClient'[Owner] \in Seq(Range(toClient'[Owner]))
      /\ Range(toClient'[Owner]) \subseteq Range((q \o a) \o none) \cup Range(acks)
  <2> DEFINE r == (q \o a) \o none
  <2>1. r \in Seq(Range(r))
    BY <1>7
  <2> HIDE DEF r
  <2>2. r \o acks \in Seq(Range(r \o acks)) /\ Range(r \o acks) \subseteq Range(r) \cup Range(acks)
    BY <1>5, <2>1, ConcatFacts
  <2> QED BY <1>1, <2>2 DEF r
<1>9. \A m \in Range(toClient'[Owner]) : m.type = "syncSuggestions" => DOMAIN m.entries = Ids
  BY <1>3, <1>5, <1>6, <1>7, <1>8
<1> QED BY <1>2, <1>8, <1>9 DEF ChannelTypeOK

LEMMA TellShows ==
  ASSUME ChannelTypeOK, NEW c \in Clients, NEW answers, NEW news, Tell(c, answers, news),
         IsAnswer(answers), IsNews(news.owner), Owner \in members, NEW e, NEW s, NEW p,
         \/ WillShow(toClient[Owner], e, s, p) /\ Unaffecting(news.owner, s, 0)
         \/ \E k \in DOMAIN news.owner :
              /\ Affects(news.owner[k], s) /\ Shows(news.owner[k], s) = p
              /\ Unaffecting(news.owner, s, k)
  PROVE  WillShow(toClient'[Owner], e, s, p)
<1> DEFINE a == news.owner
           q == toClient[Owner]
           none == << >>
           acks == IF Owner = c THEN answers ELSE << >>
<1>1. /\ IsAnswer(none) /\ IsAnswer(acks)
      /\ toClient'[Owner] = ((q \o a) \o none) \o acks
  BY TellOwner, AckIsAnswer
<1> HIDE DEF none, acks
<1>2. q \in Seq(Range(q))
  BY DEF ChannelTypeOK
<1> HIDE DEF q
<1>3. /\ a \in Seq(Range(a)) /\ none \in Seq(Range(none)) /\ acks \in Seq(Range(acks))
      /\ Unaffecting(none, s, 0) /\ Unaffecting(acks, s, 0)
  BY <1>1, AnswersAffectNone DEF IsAnswer, IsNews
<1>4. q \o a \in Seq(Range(q \o a)) /\ WillShow(q \o a, e, s, p)
  <2>1. WillShow(q \o a, e, s, p)
    BY <1>2, <1>3, MoreShow DEF q
  <2> QED BY <1>2, <1>3, <2>1, ConcatFacts
<1> HIDE DEF a
<1>5. (q \o a) \o none \in Seq(Range((q \o a) \o none)) /\ WillShow((q \o a) \o none, e, s, p)
  BY <1>3, <1>4, MoreShow, ConcatFacts
<1> QED BY <1>1, <1>3, <1>5, MoreShow

-------------------------------------------------------------------------------
\* Steps

\* A handler that tells of no suggestion and changes none.
LEMMA QuietKeepsQueue ==
  ASSUME QueueInv, NEW c \in Clients, NEW answers, NEW news, Tell(c, answers, news),
         IsAnswer(answers), news.owner = << >>, UNCHANGED <<suggestions, view, members>>
  PROVE  ChannelTypeOK' /\ QueueWillShow'
<1>1. ChannelTypeOK /\ IsNews(news.owner)
  BY AckIsAnswer DEF QueueInv
<1>2. ChannelTypeOK'
  BY <1>1, TellTyped
<1>3. \A s : Unaffecting(news.owner, s, 0)
  BY DEF Unaffecting
<1>4. ASSUME Owner \in members, NEW s \in Pending(suggestions)
      PROVE  WillShow(toClient'[Owner], view[s], s, suggestions[s].patches)
  <2>1. WillShow(toClient[Owner], view[s], s, suggestions[s].patches)
    BY <1>4 DEF QueueInv, QueueWillShow
  <2> QED BY <1>1, <1>3, <1>4, <2>1, TellShows
<1> QED BY <1>2, <1>4 DEF QueueWillShow

LEMMA RefuseKeepsQueue ==
  ASSUME QueueInv, NEW c \in Clients, NEW m, Refuse(c, m), UNCHANGED <<view, members>>
  PROVE  ChannelTypeOK' /\ QueueWillShow'
<1>1. Nothing.owner = << >>
  BY DEF Nothing
<1> QED BY <1>1, AckIsAnswer, QuietKeepsQueue DEF Refuse

\* A chunk or a suggestion: the owner is told all of its patches.
LEMMA SubmitKeepsQueue ==
  ASSUME QueueInv, NEW m, m.id \in Ids, m.patches \in Seq(Edits), HandleSuggestion(m),
         UNCHANGED <<view, members>>
  PROVE  ChannelTypeOK' /\ QueueWillShow'
<1>0. Author \in Clients
  BY DEF Clients
<1>1. CASE ~CanSubmit
  BY <1>0, <1>1, RefuseKeepsQueue DEF HandleSuggestion
<1>2. CASE CanSubmit /\ suggestions[m.id].status \in {"accepted", "rejected"}
  <2>1. Nothing.owner = << >>
    BY DEF Nothing
  <2>2. Tell(Author, Ack(m), Nothing) /\ UNCHANGED suggestions
    BY <1>2 DEF HandleSuggestion
  <2> QED BY <1>0, <2>1, <2>2, AckIsAnswer, QuietKeepsQueue
<1>3. CASE CanSubmit /\ suggestions[m.id].status \notin {"accepted", "rejected"}
  <2> DEFINE after == Extended(suggestions[m.id], m.patches)
             new == [type |-> "newSuggestion", id |-> m.id, patches |-> after.patches]
             news == ToOwner(<<new>>)
  <2>1. Submits(m.id, m.patches) /\ Tell(Author, Ack(m), news)
        /\ suggestions' = [suggestions EXCEPT ![m.id] = after]
    BY <1>3 DEF HandleSuggestion, Submits, CanSubmit
  <2>2. /\ suggestions'[m.id].status = "pending"
        /\ \A t \in Ids \ {m.id} : suggestions'[t] = suggestions[t]
    BY <2>1, SubmitValues DEF QueueInv, SuggestionInv
  <2>3. suggestions'[m.id] = after
    BY <2>1 DEF QueueInv, SuggestionInv, MapTypeOK
  <2>4. news.owner = <<new>> /\ new.type = "newSuggestion" /\ new.id = m.id
        /\ new.patches = suggestions'[m.id].patches
    BY <2>3 DEF ToOwner, Nothing
  <2> HIDE DEF news, new, after
  <2>5. IsNews(news.owner)
    <3>1. <<new>> \in Seq({new}) /\ Range(<<new>>) = {new}
      BY DEF Range
    <3> QED BY <2>4, <3>1 DEF IsNews
  <2>6. ChannelTypeOK /\ ChannelTypeOK'
    BY <1>0, <2>1, <2>5, TellTyped, AckIsAnswer DEF QueueInv
  <2>7. ASSUME Owner \in members, NEW s \in Pending(suggestions')
        PROVE  WillShow(toClient'[Owner], view[s], s, suggestions'[s].patches)
    <3>1. CASE s = m.id
      <4>1. /\ 1 \in DOMAIN news.owner /\ Affects(news.owner[1], s)
            /\ Shows(news.owner[1], s) = suggestions'[s].patches
            /\ Unaffecting(news.owner, s, 1)
        BY <2>4, <3>1 DEF Affects, Shows, Unaffecting
      <4> QED BY <1>0, <2>1, <2>5, <2>6, <2>7, <4>1, TellShows, AckIsAnswer
    <3>2. CASE s # m.id
      <4>1. suggestions'[s] = suggestions[s] /\ s \in Pending(suggestions)
        BY <2>2, <2>7, <3>2 DEF Pending
      <4>2. Unaffecting(news.owner, s, 0)
        BY <2>4, <3>2 DEF Affects, Unaffecting
      <4>3. WillShow(toClient[Owner], view[s], s, suggestions[s].patches)
        BY <2>7, <4>1 DEF QueueInv, QueueWillShow
      <4> QED BY <1>0, <2>1, <2>5, <2>6, <2>7, <4>1, <4>2, <4>3, TellShows, AckIsAnswer
    <3> QED BY <3>1, <3>2
  <2> QED BY <2>6, <2>7 DEF QueueWillShow
<1> QED BY <1>1, <1>2, <1>3

\* Verdicts: the owner is told of those that were pending, and of no other.
LEMMA ReviewKeepsQueue ==
  ASSUME QueueInv, NEW ids, ids \subseteq Ids, NEW action \in {"accept", "reject"},
         NEW answers, IsAnswer(answers), Review(ids, action, answers), UNCHANGED <<view, members>>
  PROVE  ChannelTypeOK' /\ QueueWillShow'
<1> DEFINE done == {s \in ids : Reviewable(suggestions, s, action)}
           told(list) == [i \in DOMAIN list |-> [type |-> "suggestionReviewed", id |-> list[i]]]
<1>0. Owner \in Clients
  BY DEF Clients
<1>1. done \subseteq Pending(suggestions) /\ done \subseteq Ids
  BY DEF Reviewable, Pending
<1>2. PICK list \in SetToSeqs(done) : /\ Reviews(done, action, list)
                                       /\ Tell(Owner, answers, ToOwner(told(list)))
  BY DEF Review, Reviews
<1> DEFINE news == ToOwner(told(list))
<1>3. news.owner = told(list)
  BY DEF ToOwner, Nothing
<1> HIDE DEF done
<1>4. /\ list \in Seq(Ids) /\ Range(list) = done
  BY <1>1, ListOfSet
<1>5. /\ DOMAIN news.owner = DOMAIN list
      /\ \A i \in DOMAIN list : /\ news.owner[i].type = "suggestionReviewed"
                                /\ news.owner[i].id = list[i] /\ list[i] \in done
  BY <1>3, <1>4 DEF Range
<1>6. IsNews(news.owner)
  <2> DEFINE S == [type : {"suggestionReviewed"}, id : Ids]
  <2>1. told(list) \in Seq(S)
    <3>1. Len(list) \in Nat /\ DOMAIN list = 1 .. Len(list) /\ \A i \in 1 .. Len(list) : list[i] \in Ids
      BY <1>4
    <3>2. told(list) \in [1 .. Len(list) -> S]
      BY <3>1
    <3> HIDE DEF S, told
    <3> QED BY <3>1, <3>2
  <2>2. \A m \in S : m.type # "syncSuggestions"
    OBVIOUS
  <2> HIDE DEF S
  <2> QED BY <1>3, <2>1, <2>2, ListOfOwn DEF IsNews
<1> HIDE DEF news
<1>7. ChannelTypeOK /\ ChannelTypeOK'
  BY <1>0, <1>2, <1>6, TellTyped DEF QueueInv, news
<1>8. /\ \A s \in done : suggestions'[s].status \in {"accepted", "rejected"}
      /\ \A s \in Ids \ done : \/ suggestions'[s] = suggestions[s]
                               \/ suggestions'[s] = Missing
  BY <1>1, <1>2, AfterReviewValues DEF QueueInv
<1>9. ASSUME Owner \in members, NEW s \in Pending(suggestions')
      PROVE  WillShow(toClient'[Owner], view[s], s, suggestions'[s].patches)
  <2>1. s \notin done /\ suggestions'[s] = suggestions[s] /\ s \in Pending(suggestions)
    BY <1>8, <1>9 DEF Pending, Missing
  <2>2. Unaffecting(news.owner, s, 0)
    BY <1>5, <2>1 DEF Affects, Unaffecting
  <2>3. WillShow(toClient[Owner], view[s], s, suggestions[s].patches)
    BY <1>9, <2>1 DEF QueueInv, QueueWillShow
  <2> QED BY <1>0, <1>2, <1>6, <1>7, <1>9, <2>1, <2>2, <2>3, TellShows DEF news
<1> QED BY <1>7, <1>9 DEF QueueWillShow

LEMMA ReceiveKeepsQueue ==
  ASSUME QueueInv, NEW c \in Clients, ServerReceives(c)
  PROVE  ChannelTypeOK' /\ QueueWillShow'
<1> DEFINE m == Head(toServer[c])
<1>1. /\ IsValid(m) /\ UNCHANGED <<view, members>>
      /\ m.type = "joinRoom" => UNCHANGED <<suggestions, toClient>>
      /\ m.type # "joinRoom" => Handle(c, m)
  BY DEF ServerReceives
<1> HIDE DEF m
<1>2. CASE m.type = "joinRoom"
  BY <1>1, <1>2 DEF QueueInv, ChannelTypeOK, QueueWillShow
<1>3. CASE Refuse(c, m)
  BY <1>1, <1>3, RefuseKeepsQueue
<1>4. CASE m.type = "suggestion" /\ HandleSuggestion(m)
  <2>1. m.id \in Ids /\ m.patches \in Seq(Edits)
    BY <1>1, <1>4 DEF IsValid
  <2> QED BY <1>1, <1>4, <2>1, SubmitKeepsQueue
<1>5. CASE m.type = "reviewSuggestions" /\ HandleReview(m)
  BY <1>1, <1>5, ReviewKeepsQueue, AckIsAnswer DEF HandleReview, IsValid
<1>6. CASE m.type \in {"acceptSuggestion", "rejectSuggestion"} /\ HandleDecision(m)
  <2>1. {m.id} \subseteq Ids
    BY <1>1, <1>6 DEF IsValid
  <2>2. CASE m.type = "acceptSuggestion"
    BY <1>1, <1>6, <2>1, <2>2, ReviewKeepsQueue, AckIsAnswer DEF HandleDecision
  <2>3. CASE m.type = "rejectSuggestion"
    BY <1>1, <1>6, <2>1, <2>3, ReviewKeepsQueue, AckIsAnswer DEF HandleDecision
  <2> QED BY <1>6, <2>2, <2>3
<1>7. CASE HandleUnshare(m)
  <2> DEFINE news == IF shared THEN ToAuthor(<<[type |-> "documentUnshared"]>>) ELSE Nothing
  <2>1. news.owner = << >>
    BY DEF ToAuthor, Nothing
  <2>2. Tell(Owner, Ack(m), news) /\ UNCHANGED suggestions /\ Owner \in Clients
    BY <1>7 DEF HandleUnshare, Clients
  <2> HIDE DEF news
  <2> QED BY <1>1, <2>1, <2>2, AckIsAnswer, QuietKeepsQueue
<1>8. m.type # "joinRoom" =>
        \/ Refuse(c, m)
        \/ m.type = "suggestion" /\ HandleSuggestion(m)
        \/ m.type = "reviewSuggestions" /\ HandleReview(m)
        \/ m.type \in {"acceptSuggestion", "rejectSuggestion"} /\ HandleDecision(m)
        \/ HandleUnshare(m)
  BY <1>1 DEF Handle, HandleInRoom
<1> QED BY <1>2, <1>3, <1>4, <1>5, <1>6, <1>7, <1>8

\* The owner's join replays every pending suggestion.
LEMMA JoinKeepsQueue ==
  ASSUME QueueInv, NEW c \in Clients, JoinCompletes(c)
  PROVE  ChannelTypeOK' /\ QueueWillShow'
<1> DEFINE q == toClient[Owner]
           joined == [type |-> "joinedRoom"]
<1>1. /\ UNCHANGED <<suggestions, view>> /\ members' = members \cup {c}
      /\ toClient' = [toClient EXCEPT ![c] = @ \o <<joined>> \o Replay(c)]
  BY DEF JoinCompletes
<1>2. /\ ChannelTypeOK /\ Owner \in Clients
      /\ q \in Seq(Range(q)) /\ DOMAIN toClient = Clients /\ DOMAIN toClient' = Clients
      /\ \A m \in Range(q) : m.type = "syncSuggestions" => DOMAIN m.entries = Ids
  BY <1>1 DEF QueueInv, ChannelTypeOK, Clients
<1>3. CASE c # Owner
  <2>1. toClient'[Owner] = toClient[Owner] /\ (Owner \in members' <=> Owner \in members)
    BY <1>1, <1>2, <1>3
  <2> QED BY <1>1, <1>2, <2>1 DEF QueueInv, ChannelTypeOK, QueueWillShow
<1>4. CASE c = Owner
  <2> DEFINE r == Replay(Owner)
             a == q \o <<joined>>
  <2>1. toClient'[Owner] = a \o r
    BY <1>1, <1>2, <1>4
  <2>2. /\ <<joined>> \in Seq(Range(<<joined>>))
        /\ \A m \in Range(<<joined>>) : m.type = "joinedRoom"
    <3>1. <<joined>> \in Seq({joined}) /\ joined.type = "joinedRoom"
      OBVIOUS
    <3> HIDE DEF joined
    <3>2. Range(<<joined>>) = {joined}
      BY DEF Range
    <3> QED BY <3>1, <3>2
  <2> HIDE DEF q, joined
  <2>3. a \in Seq(Range(a)) /\ Range(a) \subseteq Range(q) \cup Range(<<joined>>)
    BY <1>2, <2>2, ConcatFacts
  <2>4. \A m \in Range(a) : m.type = "syncSuggestions" => DOMAIN m.entries = Ids
    BY <1>2, <2>2, <2>3
  <2> HIDE DEF a
  <2>5. CASE Pending(suggestions) = {}
    <3>1. r = << >>
      BY <2>5 DEF Replay
    <3>2. toClient'[Owner] \in Seq(Range(a)) /\ toClient'[Owner] = a
      BY <2>1, <2>3, <3>1
    <3> QED BY <1>1, <1>2, <2>3, <2>4, <2>5, <3>2 DEF ChannelTypeOK, QueueWillShow
  <2>6. CASE Pending(suggestions) # {}
    <3> DEFINE entries == [s \in Ids |-> IF s \in Pending(suggestions) THEN suggestions[s].patches
                                         ELSE NoEntry]
               sync == [type |-> "syncSuggestions", entries |-> entries]
    <3>1. r = <<sync>>
      BY <2>6 DEF Replay
    <3>2. sync.type = "syncSuggestions" /\ sync.entries = entries /\ DOMAIN entries = Ids
      OBVIOUS
    <3>3. \A s \in Pending(suggestions) : entries[s] = suggestions[s].patches
      BY DEF Pending
    <3> HIDE DEF sync, entries, r
    <3>4. r \in Seq({sync}) /\ Range(r) = {sync} /\ DOMAIN r = {1} /\ r[1] = sync
      BY <3>1 DEF Range
    <3>5. /\ a \o r \in Seq(Range(a \o r)) /\ Range(a \o r) \subseteq Range(a) \cup Range(r)
      BY <2>3, <3>4, ConcatFacts
    <3>6. ChannelTypeOK'
      BY <1>1, <1>2, <2>1, <2>4, <3>2, <3>4, <3>5 DEF ChannelTypeOK
    <3>7. ASSUME NEW s \in Pending(suggestions)
          PROVE  WillShow(a \o r, view[s], s, suggestions[s].patches)
      <4>1. Affects(r[1], s) /\ Shows(r[1], s) = suggestions[s].patches /\ Unaffecting(r, s, 1)
        BY <3>2, <3>3, <3>4 DEF Affects, Shows, Unaffecting
      <4> QED BY <2>3, <3>4, <4>1, MoreShow
    <3> QED BY <1>1, <2>1, <3>6, <3>7 DEF QueueWillShow
  <2> QED BY <2>5, <2>6
<1> QED BY <1>3, <1>4

LEMMA TakeKeepsQueue ==
  ASSUME QueueInv, NEW c \in Clients, ClientReceives(c)
  PROVE  ChannelTypeOK' /\ QueueWillShow'
<1> DEFINE q == toClient[Owner]
           m == Head(q)
<1>1. /\ UNCHANGED <<suggestions, members>> /\ toClient[c] # << >>
      /\ view' = IF c = Owner THEN Shown(Head(toClient[c])) ELSE view
      /\ toClient' = [toClient EXCEPT ![c] = Tail(@)]
  BY DEF ClientReceives, serverVars
<1>2. /\ DOMAIN view = Ids /\ Owner \in Clients
      /\ q \in Seq(Range(q)) /\ DOMAIN toClient = Clients /\ DOMAIN toClient' = Clients
      /\ \A n \in Range(q) : n.type = "syncSuggestions" => DOMAIN n.entries = Ids
  BY <1>1 DEF QueueInv, ChannelTypeOK, Clients
<1>3. CASE c # Owner
  <2>1. toClient'[Owner] = toClient[Owner] /\ view' = view
    BY <1>1, <1>2, <1>3
  <2> QED BY <1>1, <1>2, <2>1 DEF QueueInv, ChannelTypeOK, QueueWillShow
<1>4. CASE c = Owner
  <2>1. toClient'[Owner] = Tail(q) /\ q # << >> /\ view' = Shown(m)
    BY <1>1, <1>2, <1>4
  <2> HIDE DEF q
  <2>2. m \in Range(q) /\ Tail(q) \in Seq(Range(q))
    <3>1. m = q[1] /\ 1 \in DOMAIN q
      BY <1>2, <2>1
    <3> QED BY <1>2, <2>1, <3>1 DEF Range
  <2> HIDE DEF m
  <2>3. m.type = "syncSuggestions" => DOMAIN m.entries = Ids
    BY <1>2, <2>2
  <2>4. DOMAIN Shown(m) = Ids
    BY <1>2, <2>3 DEF Shown
  <2>5. Tail(q) \in Seq(Range(Tail(q))) /\ Range(Tail(q)) \subseteq Range(q)
    BY <2>2, ListOfOwn
  <2>6. ChannelTypeOK'
    BY <1>2, <2>1, <2>4, <2>5 DEF ChannelTypeOK
  <2>7. ASSUME NEW s \in Ids
        PROVE  Shown(m)[s] = IF Affects(m, s) THEN Shows(m, s) ELSE view[s]
    <3>1. CASE m.type = "newSuggestion"
      <4>1. Shown(m) = [view EXCEPT ![m.id] = m.patches]
        BY <3>1 DEF Shown
      <4> QED BY <1>2, <3>1, <4>1 DEF Affects, Shows
    <3>2. CASE m.type = "suggestionReviewed"
      <4>1. Shown(m) = [view EXCEPT ![m.id] = NoEntry]
        BY <3>2 DEF Shown
      <4> QED BY <1>2, <3>2, <4>1 DEF Affects, Shows
    <3>3. CASE m.type = "syncSuggestions"
      BY <3>3 DEF Affects, Shows, Shown
    <3>4. CASE m.type \notin {"newSuggestion", "suggestionReviewed", "syncSuggestions"}
      BY <3>4 DEF Affects, Shows, Shown
    <3> QED BY <3>1, <3>2, <3>3, <3>4
  <2>8. ASSUME Owner \in members, NEW s \in Pending(suggestions)
        PROVE  WillShow(Tail(q), Shown(m)[s], s, suggestions[s].patches)
    <3>1. WillShow(q, view[s], s, suggestions[s].patches) /\ s \in Ids
      BY <2>8 DEF QueueInv, QueueWillShow, Pending, q
    <3>2. WillShow(Tail(q), IF Affects(m, s) THEN Shows(m, s) ELSE view[s], s, suggestions[s].patches)
      BY <1>2, <2>1, <3>1, TakeShows DEF m
    <3> QED BY <2>7, <3>1, <3>2
  <2> QED BY <1>1, <2>1, <2>6, <2>8 DEF QueueWillShow
<1> QED BY <1>3, <1>4

LEMMA DropKeepsQueue ==
  ASSUME QueueInv, NEW c \in Clients, Drop(c)
  PROVE  ChannelTypeOK' /\ QueueWillShow'
<1>1. /\ UNCHANGED <<suggestions, view>> /\ members' = members \ {c}
      /\ toClient' = [toClient EXCEPT ![c] = << >>]
  BY DEF Drop
<1>2. DOMAIN toClient = Clients /\ Owner \in Clients
  BY DEF QueueInv, ChannelTypeOK, Clients
<1>3. CASE c = Owner
  <2>1. Owner \notin members' /\ toClient'[Owner] = << >>
    BY <1>1, <1>2, <1>3
  <2> QED BY <1>1, <1>2, <2>1, EmptyList DEF QueueInv, ChannelTypeOK, QueueWillShow
<1>4. CASE c # Owner
  <2>1. toClient'[Owner] = toClient[Owner] /\ (Owner \in members' => Owner \in members)
    BY <1>1, <1>2, <1>4
  <2> QED BY <1>1, <1>2, <2>1 DEF QueueInv, ChannelTypeOK, QueueWillShow
<1> QED BY <1>3, <1>4

LEMMA InitQueue == Init => QueueInv
<1> SUFFICES ASSUME Init PROVE ChannelTypeOK /\ QueueWillShow
  BY InitInv DEF QueueInv
<1>1. Owner \in Clients
  BY DEF Clients
<1>2. Pending(suggestions) = {}
  BY DEF Init, Missing, Pending
<1>3. ChannelTypeOK
  BY <1>1, EmptyList DEF Init, ChannelTypeOK
<1> QED BY <1>2, <1>3 DEF QueueWillShow

LEMMA StepKeepsQueue == QueueInv /\ [Next]_vars => QueueInv'
<1> SUFFICES ASSUME QueueInv, [Next]_vars PROVE ChannelTypeOK' /\ QueueWillShow'
  BY StepKeepsInv DEF QueueInv
<1>1. ASSUME UNCHANGED <<suggestions, members, view, toClient>>
      PROVE  ChannelTypeOK' /\ QueueWillShow'
  BY <1>1 DEF QueueInv, ChannelTypeOK, QueueWillShow
<1>2. CASE Edit \/ SendPending \/ Request \/ UNCHANGED vars
  BY <1>1, <1>2 DEF Edit, SendPending, Request, vars, serverVars
<1>3. ASSUME NEW c \in Clients, FlushPending(c) \/ Reconnect(c)
      PROVE  ChannelTypeOK' /\ QueueWillShow'
  BY <1>1, <1>3 DEF FlushPending, Reconnect, serverVars
<1>4. ASSUME NEW c \in Clients, LinkStep(c) \/ Drop(c)
      PROVE  ChannelTypeOK' /\ QueueWillShow'
  BY <1>3, <1>4, ReceiveKeepsQueue, JoinKeepsQueue, TakeKeepsQueue, DropKeepsQueue DEF LinkStep
<1> QED BY <1>2, <1>4 DEF Next

\* Once the owner has taken all that was sent to it, its review queue shows every
\* pending suggestion with the patches the server has, whatever connections broke
\* in between (handleSuggestion, replaySuggestionsToConnection, replaceAll).
THEOREM QueueShowsWhatIsPending == Spec => []QueueShowsPending
<1>1. Spec => []QueueInv
  BY InitQueue, StepKeepsQueue, PTL DEF Spec
<1>2. QueueInv => QueueShowsPending
  <2> SUFFICES ASSUME QueueInv, Owner \in members, toClient[Owner] = << >>,
                      NEW s \in Pending(suggestions)
               PROVE  view[s] = suggestions[s].patches
    BY DEF QueueShowsPending
  <2>1. WillShow(<< >>, view[s], s, suggestions[s].patches)
    BY DEF QueueInv, QueueWillShow
  <2> QED BY <2>1 DEF WillShow
<1> QED BY <1>1, <1>2, PTL

-------------------------------------------------------------------------------
\* Types

\* The author counts its edits and its ids, which its state needs to stay what it is.
AuthorState ==
  [active : Ids \cup {NoId}, patches : Seq(Edits), tracked : BOOLEAN, nextId : Nat, edits : Nat]
StateTypeOK == SuggestionsTypeOK /\ author \in AuthorState

LEMMA StepKeepsTypes == SuggestionInv /\ StateTypeOK /\ [Next]_vars => StateTypeOK'
<1> SUFFICES ASSUME SuggestionInv, StateTypeOK, [Next]_vars PROVE StateTypeOK'
  OBVIOUS
<1>1. MapTypeOK'
  BY StepKeepsInv DEF SuggestionInv
<1>2. /\ shared \in BOOLEAN /\ members \subseteq Clients /\ joining \subseteq Clients
      /\ link \in [Clients -> {"down", "connected", "joined"}] /\ flushDue \subseteq Clients
      /\ author \in AuthorState
  BY DEF StateTypeOK, SuggestionsTypeOK
<1> DEFINE Rest == /\ shared' \in BOOLEAN /\ members' \subseteq Clients /\ joining' \subseteq Clients
                   /\ link' \in [Clients -> {"down", "connected", "joined"}]
                   /\ flushDue' \subseteq Clients
                   /\ author' \in AuthorState
<1>3. ASSUME Edit PROVE Rest
  <2>1. UNCHANGED <<serverVars, linkVars>> /\ MaxEdits \in Nat
    BY <1>3, ConstantsTyped DEF Edit
  <2> DEFINE fresh == author.active = NoId
             s == IF fresh THEN author.nextId ELSE author.active
             next == IF fresh THEN author.nextId + 1 ELSE author.nextId
             edit == author.edits + 1
             patches == Append(author.patches, edit)
  <2>2. s \in Ids /\ author.edits < MaxEdits
        /\ author' = [author EXCEPT !.active = s, !.patches = patches, !.nextId = next, !.edits = edit]
    BY <1>3 DEF Edit
  <2>3. author.patches \in Seq(Edits) /\ author.nextId \in Nat /\ author.edits \in Nat
    BY <1>2 DEF AuthorState
  <2>4. next \in Nat /\ edit \in Edits /\ edit \in Nat
    BY <2>1, <2>2, <2>3 DEF Edits
  <2>5. patches \in Seq(Edits)
    BY <2>3, <2>4
  <2> HIDE DEF s, next, edit, patches, fresh
  <2>6. author' \in AuthorState
    BY <1>2, <2>2, <2>4, <2>5 DEF AuthorState
  <2> QED BY <1>2, <2>1, <2>6 DEF serverVars, linkVars
<1>4. ASSUME SendPending PROVE Rest
  <2>1. UNCHANGED <<serverVars, linkVars>> /\ author.nextId \in Nat
        /\ author' = [author EXCEPT !.active = NoId, !.patches = << >>, !.nextId = author.nextId + 1]
    BY <1>2, <1>4 DEF SendPending, AuthorState
  <2>2. author' \in AuthorState
    <3>1. << >> \in Seq(Edits) /\ NoId \in Ids \cup {NoId} /\ author.nextId + 1 \in Nat
      BY <2>1
    <3> QED BY <1>2, <2>1, <3>1 DEF AuthorState
  <2> QED BY <1>2, <2>1, <2>2 DEF serverVars, linkVars
<1>5. ASSUME Request \/ UNCHANGED vars PROVE Rest
  BY <1>2, <1>5 DEF Request, vars, serverVars, linkVars
<1>6. ASSUME NEW c \in Clients, ServerReceives(c)
      PROVE  Rest
  <2>1. UNCHANGED <<members, author, link, flushDue>>
    BY <1>6 DEF ServerReceives, linkVars
  <2> DEFINE m == Head(toServer[c])
  <2>2. \/ joining' = joining \cup {c} /\ shared' = shared
        \/ Handle(c, m) /\ joining' = joining
    BY <1>6 DEF ServerReceives
  <2> HIDE DEF m
  <2>3. Handle(c, m) => shared' \in BOOLEAN
    BY <1>2 DEF Handle, HandleInRoom, HandleSuggestion, HandleDecision, HandleReview, HandleUnshare,
                Review, Refuse
  <2> QED BY <1>2, <2>1, <2>2, <2>3
<1>7. ASSUME NEW c \in Clients, JoinCompletes(c)
      PROVE  Rest
  BY <1>2, <1>7 DEF JoinCompletes, linkVars
<1>8. ASSUME NEW c \in Clients, ClientReceives(c)
      PROVE  Rest
  <2>1. /\ UNCHANGED serverVars
        /\ link' = [link EXCEPT ![c] = "joined"] \/ link' = link
        /\ flushDue' = flushDue \cup {c} \/ flushDue' = flushDue
        /\ author' = AfterUnshared \/ author' = author
    BY <1>8 DEF ClientReceives
  <2>2. AfterUnshared \in AuthorState
    <3>1. << >> \in Seq(Edits)
      OBVIOUS
    <3> QED BY <1>2, <3>1 DEF AfterUnshared, AuthorState
  <2> QED BY <1>2, <2>1, <2>2 DEF serverVars
<1>9. ASSUME NEW c \in Clients, FlushPending(c) \/ Drop(c) \/ Reconnect(c)
      PROVE  Rest
  <2>1. CASE FlushPending(c)
    BY <1>2, <2>1 DEF FlushPending, serverVars
  <2>2. CASE Drop(c)
    BY <1>2, <2>2 DEF Drop
  <2>3. CASE Reconnect(c)
    BY <1>2, <2>3 DEF Reconnect, serverVars
  <2> QED BY <1>9, <2>1, <2>2, <2>3
<1>10. Rest
  BY <1>2, <1>3, <1>4, <1>5, <1>6, <1>7, <1>8, <1>9 DEF Next, LinkStep
<1>11. /\ author'.active \in Ids \cup {NoId} /\ author'.patches \in Seq(Edits)
  BY <1>10 DEF AuthorState
<1> QED BY <1>1, <1>10, <1>11 DEF StateTypeOK, SuggestionsTypeOK, MapTypeOK

\* The server's and the clients' state keep their shape (suggestions.ts,
\* DocumentSync.ts).
THEOREM SuggestionsTyped == Spec => []SuggestionsTypeOK
<1>1. Init => StateTypeOK
  <2> SUFFICES ASSUME Init PROVE StateTypeOK
    OBVIOUS
  <2>1. MapTypeOK
    BY InitInv DEF SuggestionInv
  <2>2. author \in AuthorState
    BY DEF Init, AuthorState
  <2> QED BY <2>1, <2>2 DEF Init, StateTypeOK, SuggestionsTypeOK, MapTypeOK, AuthorState
<1>2. SuggestionInv /\ StateTypeOK /\ [Next]_vars => (SuggestionInv /\ StateTypeOK)'
  BY StepKeepsInv, StepKeepsTypes
<1>3. StateTypeOK => SuggestionsTypeOK
  BY DEF StateTypeOK
<1> QED BY <1>1, <1>2, <1>3, InitInv, PTL DEF Spec
===============================================================================
