\* An owner and a peer who both type in a document that has text.
CONSTANTS
  owner = owner
  peer = peer
  Owner = owner
  Clients = {owner, peer}
  Typists = {owner, peer}
  TextAtShare = TRUE
  MaxBlocks = 5
SPECIFICATION Spec
INVARIANTS DocsTypeOK CausallyClosed VersionsIncrease
CHECK_DEADLOCK FALSE
