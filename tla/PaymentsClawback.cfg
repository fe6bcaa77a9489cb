\* One booking with two charges.
SPECIFICATION Spec
CONSTANTS
  v = v
  ann = ann
  Ids = {b1}
  RoomTypes = {v}
  Guests = {ann}
  Rooms <- MCRooms
  LastDay = 1
  HoldTime = 1
  MaxClock = 2
  NoBooking = NoBooking
  PayIds = {p1, p2}
  Methods = {"card"}
  EventKinds = {"create", "complete"}
  Tids = {}
  NoTid = NoTid
  NightPrice = 40000
  Bonus = 300
  PointsAsked = {}
  Hours = {72}
  MaxFetched = 1
  NoPayment = NoPayment
  Idle = Idle
CHECK_DEADLOCK FALSE
PROPERTIES
  ClawbackIsFull
