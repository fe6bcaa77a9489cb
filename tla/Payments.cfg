\* Omise and 2C2P: two bookings for one room, two payments, points redeemed at
\* any time.  The instance may run out of ids and of time, so it may stop.
SPECIFICATION Spec
CONSTANTS
  v = v
  ann = ann
  t1 = t1
  Ids = {b1, b2}
  RoomTypes = {v}
  Guests = {ann}
  Rooms <- MCRooms
  LastDay = 1
  HoldTime = 1
  MaxClock = 2
  NoBooking = NoBooking
  PayIds = {p1, p2}
  Methods = {"card", "redirect"}
  EventKinds = {"create"}
  Tids = {NoTid}
  NoTid = NoTid
  NightPrice = 40000
  Bonus = 300
  PointsAsked = {100}
  Hours = {24, 0}
  MaxFetched = 1
  NoPayment = NoPayment
  Idle = Idle
CHECK_DEADLOCK FALSE
SYMMETRY Symmetric
INVARIANTS
  PaidMeansCharged
  ChargedAPrice
  TypeOK
  PaidIsSettled
  RefundOnRecord
PROPERTIES
  ImplementsInventory
