\* Two bookings for one room, paid by card.
SPECIFICATION Spec
CONSTANTS
  v = v
  ann = ann
  Ids = {b1, b2}
  RoomTypes = {v}
  Guests = {ann}
  Rooms <- MCRooms
  LastDay = 1
  HoldTime = 1
  MaxClock = 2
  NoBooking = NoBooking
  PayIds = {p1, p2}
  Methods = {"card"}
  EventKinds = {"complete"}
  Tids = {}
  NoTid = NoTid
  NightPrice = 40000
  Bonus = 300
  PointsAsked = {}
  Hours = {24, 0}
  MaxFetched = 1
  NoPayment = NoPayment
  Idle = Idle
CHECK_DEADLOCK FALSE
INVARIANTS
  NoOversell
