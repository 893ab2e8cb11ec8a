\* One room with a secret and an invite, three connections on one address.
CONSTANTS
  c1 = c1
  c2 = c2
  c3 = c3
  r1 = r1
  r2 = r2
  t1 = t1
  i1 = i1
  home = home
  away = away
  Conns = {c1, c2, c3}
  Ips = {home, away}
  Tabs = {}
  Modes = {"team"}
  MaxSession = 4
  LargeRoom = 2
  RestoredOwner = RestoredOwner
  NoTab = NoTab
  RoomIds = {r1}
  Invites = {i1}
  IpOf <- OneAddress
  Locking = {TRUE}
  MaxRooms = 2
  MaxRoomsPerIp = 2
  NoRoom = NoRoom
  NoUser = NoUser
SPECIFICATION Spec
SYMMETRY ConnSymmetry
INVARIANTS IndInv RootHoldsOwnerSession SessionsAreExclusive SessionsRememberRoles
INVARIANTS OwnerCanReturn OwnerHoldsOwnerSession
PROPERTIES RevokedStaysRevoked RolesFrozenWithoutOwner
