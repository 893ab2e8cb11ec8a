\* Late joiners and coalesced edits: the copies differ though nothing is under way.
CONSTANTS
  owner = owner
  peer = peer
  Owner = owner
  Clients = {owner, peer}
  Typists = {owner, peer}
  TextAtShare = FALSE
  MaxBlocks = 3
SPECIFICATION Spec
INVARIANTS ConvergedWhenQuiet
CHECK_DEADLOCK FALSE
