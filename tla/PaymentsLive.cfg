\* One booking, two payments, two transaction ids of 2C2P: late failures, second
\* reports and refunds.  The instance runs out of ids, so it may stop.
SPECIFICATION FairSpec
CONSTANTS
  v = v
  ann = ann
  t1 = t1
  t2 = t2
  Ids = {b1}
  RoomTypes = {v}
  Guests = {ann}
  Rooms <- MCRooms
  LastDay = 1
  HoldTime = 1
  MaxClock = 2
  NoBooking = NoBooking
  PayIds = {p1, p2}
  Methods = {"card", "redirect"}
  EventKinds = {"complete"}
  Tids = {t1, t2}
  NoTid = NoTid
  NightPrice = 40000
  Bonus = 300
  PointsAsked = {}
  Hours = {72}
  MaxFetched = 1
  NoPayment = NoPayment
  Idle = Idle
CHECK_DEADLOCK FALSE
INVARIANTS
  ConfirmedIsPaid
  SettledOnce
  HandledMeansSettled
PROPERTIES
  PaidIsFinal
  ChargeSettles
  InvoiceSettles
