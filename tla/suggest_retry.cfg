\* One suggestion at a time and one reviewed suggestion remembered: refusals at the limit, pruning, retries.
CONSTANTS
  Author = author
  Owner = owner
  MaxPendingAck = 2
  MaxSuggestions = 1
  MaxReviewed = 1
  MaxPatches = 2
  MaxIds = 2
  MaxEdits = 1
  MaxRequests = 2
  MaxDrops = 1
SPECIFICATION FairSpec
INVARIANTS ReviewedAreOrdered
PROPERTIES TrackedAreAnswered
CHECK_DEADLOCK FALSE
