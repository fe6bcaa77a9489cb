\* One booking paid through 2C2P, points redeemed in between.
SPECIFICATION Spec
CONSTANTS
  v = v
  ann = ann
  t1 = t1
  Ids = {b1}
  RoomTypes = {v}
  Guests = {ann}
  Rooms <- MCRooms
  LastDay = 1
  HoldTime = 1
  MaxClock = 2
  NoBooking = NoBooking
  PayIds = {p1, p2}
  Methods = {"redirect", "transfer"}
  EventKinds = {}
  Tids = {t1, NoTid}
  NoTid = NoTid
  NightPrice = 40000
  Bonus = 300
  PointsAsked = {100}
  Hours = {24, 0}
  MaxFetched = 0
  NoPayment = NoPayment
  Idle = Idle
CHECK_DEADLOCK FALSE
INVARIANTS
  ChargedIsPrice
