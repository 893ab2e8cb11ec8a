\* An owner and a guest, three connections, of which one is lost, two changes or chat messages.
CONSTANTS
  host = host
  guest = guest
  Clients = {host, guest}
  Owner = host
  MaxIds = 3
  MaxDrops = 1
  MaxChanges = 2
  MaxChat = 2
SPECIFICATION Spec
INVARIANTS RosterTypeOK ViewsCatchUp EditModeIsTrue ChatReachesMembers
CHECK_DEADLOCK FALSE
