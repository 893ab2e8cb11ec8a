\* One room without a secret, three connections, a voice tab, and fair timers.
CONSTANTS
  c1 = c1
  c2 = c2
  c3 = c3
  r1 = r1
  r2 = r2
  t1 = t1
  i1 = i1
  home = home
  away = away
  Conns = {c1, c2, c3}
  Ips = {home, away}
  Tabs = {t1}
  Modes = {"team"}
  MaxSession = 3
  LargeRoom = 2
  RestoredOwner = RestoredOwner
  NoTab = NoTab
  RoomIds = {r1}
  Invites = {}
  IpOf <- OneAddress
  Locking = {FALSE}
  MaxRooms = 2
  MaxRoomsPerIp = 2
  NoRoom = NoRoom
  NoUser = NoUser
SPECIFICATION FairSpec
INVARIANTS MembersAreConnected OwnerIsActiveOrAway
PROPERTIES IdleRoomsAreCollected
