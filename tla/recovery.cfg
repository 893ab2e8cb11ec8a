\* Two rooms, two users at two addresses, a document, a save and an outage.
CONSTANTS
  home = home
  away = away
  r1 = r1
  r2 = r2
  alice = alice
  bob = bob
  d1 = d1
  NoRoom = NoRoom
  NoUser = NoUser
  NoDoc = NoDoc
  Rooms = {r1, r2}
  Users = {alice, bob}
  Ips = {home, away}
  Docs = {d1}
  IpOf <- Addresses
  MaxRoomsPerIp = 2
  MaxTotal = 3
  Sizes = {1, 2}
  Owners = {alice}
  Busy = {r1}
  MaxVersion = 2
  MaxSaves = 1
  MaxOutages = 1
SPECIFICATION Spec
INVARIANTS RecoveryTypeOK RowsHaveRooms CountsMatchRooms
PROPERTIES RoomsAreDurable ChargesKeepUp
CHECK_DEADLOCK FALSE
