-------------------------- MODULE DocumentInvariants --------------------------
(***************************************************************************)
(* What must be true of the copies of a shared document.                   *)
(***************************************************************************)
EXTENDS DocumentSync

\* Every content that is kept or under way somewhere.
Contents ==
  {client[c].yDoc : c \in Clients}
  \cup {client[c].opening.update : c \in Clients}
  \cup {doc.yjsState}
  \cup (UNION {{up[c][i].update : i \in DOMAIN up[c]} : c \in Clients})
  \cup (UNION {{down[c][i].update : i \in DOMAIN down[c]} : c \in Clients})

\* A copy that has what somebody wrote also has everything its author had seen
\* when writing it, deletions included, whichever changes were dropped as stale
\* or refused on the way: a Yjs update is integrated on arrival or never, since
\* nobody asks for missing ones.
CausallyClosed ==
  \A y \in Contents : /\ y.del \subseteq y.ins
                      /\ \A b \in y.ins : /\ made[b].ins \subseteq y.ins
                                          /\ made[b].del \subseteq y.del

\* The versions the server announces to a client only increase, full syncs
\* included, and it never announces one it has not reached: a client that
\* compares them with its own can ignore the others.
VersionsIncrease ==
  \A c \in Clients :
    LET numbered == {i \in DOMAIN down[c] :
                       down[c][i].type \in {"docChange", "fullDocumentSync"}}
    IN \A i, j \in numbered : /\ down[c][i].version <= doc.version
                              /\ i < j => down[c][i].version < down[c][j].version

Queued(c, b) == \E i \in DOMAIN client[c].queue : client[c].queue[i].block = b

\* What a user types is not left waiting in the client: it is written and sent,
\* or the document is unshared.
TypingIsFlushed == \A c \in Clients, b \in Blocks : Queued(c, b) ~> ~Queued(c, b)

\* Nothing is under way and nobody waits for anything.
Quiet ==
  \A c \in Clients : /\ up[c] = << >> /\ down[c] = << >>
                     /\ client[c].status # "opening"
                     /\ client[c].queue = << >>
                     /\ client[c].applying = << >>

\* When nothing is under way all copies are the same ("Mathematically guaranteed
\* document consistency", README).
ConvergedWhenQuiet ==
  Quiet => \A c, d \in {x \in Clients : client[x].status = "open"} :
             client[c].editor = client[d].editor
===============================================================================
