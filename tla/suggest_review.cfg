\* Two suggestions at a time, chunks that are appended, reviews of several at once.
CONSTANTS
  Author = author
  Owner = owner
  MaxPendingAck = 3
  MaxSuggestions = 2
  MaxReviewed = 2
  MaxPatches = 2
  MaxIds = 2
  MaxEdits = 2
  MaxRequests = 2
  MaxDrops = 1
SPECIFICATION Spec
INVARIANTS SuggestionsTypeOK QueueShowsPending
PROPERTIES SuggestionsAreReviewedOnce
CHECK_DEADLOCK FALSE
