-------------------------- MODULE SuggestionInvariants --------------------------
(***************************************************************************)
(* What is to be correct about the suggestions of a room.                  *)
(***************************************************************************)
EXTENDS Suggestions

Statuses == {"missing", "pending", "accepted", "rejected"}
Reviewed == {s \in Ids : suggestions[s].status \in {"accepted", "rejected"}}

\* The shape of the server's and the clients' state.
SuggestionsTypeOK ==
  /\ suggestions \in [Ids -> [status : Statuses, patches : Seq(Edits)]]
  /\ reviewed \in Seq(Ids)
  /\ shared \in BOOLEAN
  /\ members \subseteq Clients /\ joining \subseteq Clients
  /\ author.active \in Ids \cup {NoId} /\ author.patches \in Seq(Edits)
  /\ link \in [Clients -> {"down", "connected", "joined"}]
  /\ flushDue \subseteq Clients

\* The order by which reviewed suggestions are forgotten names each of them once,
\* and no more than the room remembers: the prune neither leaks nor forgets a
\* pending one (reviewSuggestion, pruneReviewedSuggestions).
ReviewedAreOrdered ==
  /\ Range(reviewed) = Reviewed
  /\ IsInjective(reviewed)
  /\ Len(reviewed) =< MaxReviewed

\* When nothing is in transit to the owner, its review queue shows every pending
\* suggestion with all the patches the server has, whatever it missed while its
\* connection was down (replaySuggestionsToConnection, handleSuggestion).
QueueShowsPending ==
  (Owner \in members /\ toClient[Owner] = <<>>) =>
    \A s \in Pending(suggestions) : view[s] = suggestions[s].patches

\* Each suggestion goes through ReviewOnce: chunks sent again, late ones, decisions
\* sent again and reviews of many at once never reopen, alter or decide again a
\* reviewed suggestion, and pruning forgets none but reviewed ones.
Lifecycle ==
  INSTANCE ReviewOnce WITH Cap     <- MaxPatches,
                           status  <- [s \in Ids |-> suggestions[s].status],
                           patches <- [s \in Ids |-> suggestions[s].patches]
SuggestionsAreReviewedOnce == Lifecycle!Spec

\* Every message that is to be acknowledged is acknowledged in the end: what a
\* broken connection swallowed is sent again after the next join
\* (OutboundMessageQueue, the joinedRoom handler).
Unanswered == {c \in Clients : queue[c].pendingAck # <<>>}
TrackedAreAnswered == Unanswered # {} ~> Unanswered = {}
=============================================================================
