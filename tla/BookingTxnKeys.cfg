\* Two requests that may share a key.
SPECIFICATION Spec
CONSTANTS
  v = v
  s = s
  ann = ann
  bob = bob
  k1 = k1
  h1 = h1
  Ids = {1, 2}
  RoomTypes = {v, s}
  Guests = {ann, bob}
  Rooms <- MCRooms
  LastDay = 2
  HoldTime = 1
  MaxClock = 2
  NoBooking = NoBooking
  Keys = {k1}
  NoKey = NoKey
  Loads <- MCPairs
  LockKeys = {h1}
  LockKey <- MCLockKey
  PoolSize = 3
  NoOne = NoOne
PROPERTIES
  SameKeySameReply
