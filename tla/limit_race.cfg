\* Two rooms with secrets created at the same time from one address.
CONSTANTS
  c1 = c1
  c2 = c2
  c3 = c3
  r1 = r1
  r2 = r2
  t1 = t1
  i1 = i1
  home = home
  away = away
  Conns = {c1, c2}
  Ips = {home, away}
  Tabs = {}
  Modes = {"team"}
  MaxSession = 3
  LargeRoom = 2
  RestoredOwner = RestoredOwner
  NoTab = NoTab
  RoomIds = {r1, r2}
  Invites = {}
  IpOf <- OneAddress
  Locking = {TRUE}
  MaxRooms = 2
  MaxRoomsPerIp = 1
  NoRoom = NoRoom
  NoUser = NoUser
SPECIFICATION Spec
INVARIANTS PerIpLimitEnforced
