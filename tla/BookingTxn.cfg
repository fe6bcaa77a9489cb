\* Three requests, two of them for one room and perhaps with one key, through a
\* pool of two connections.
SPECIFICATION FairSpec
CONSTANTS
  v = v
  s = s
  ann = ann
  bob = bob
  k1 = k1
  h1 = h1
  Ids = {1, 2, 3}
  RoomTypes = {v, s}
  Guests = {ann, bob}
  Rooms <- MCRooms
  LastDay = 2
  HoldTime = 1
  MaxClock = 2
  NoBooking = NoBooking
  Keys = {k1}
  NoKey = NoKey
  Loads <- MCLoads
  LockKeys = {h1}
  LockKey <- MCLockKey
  PoolSize = 2
  NoOne = NoOne
INVARIANTS
  TypeOK
  RoomLeftForInsert
  NoOnTimeOversell
  KeyNamesItsBooking
  ReplyTruthful
  NoDeadlock
PROPERTIES
  ImplementsInventory
  Answered
