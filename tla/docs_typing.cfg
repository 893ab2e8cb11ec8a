\* An owner and a peer who both type in a new document, timers running.
CONSTANTS
  owner = owner
  peer = peer
  Owner = owner
  Clients = {owner, peer}
  Typists = {owner, peer}
  TextAtShare = FALSE
  MaxBlocks = 3
SPECIFICATION FairSpec
PROPERTIES TypingIsFlushed
CHECK_DEADLOCK FALSE
