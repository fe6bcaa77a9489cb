\* Four transactions on two bookings of one guest, who has 230 points: earning,
\* redeeming, taking back, and the job.
SPECIFICATION FairSpec
CONSTANTS
  Txns = {1, 2, 3, 4}
  Loads <- MCLoads
  Bookings <- MCBookings
  Payments <- MCPayments
  Guests = {"ann"}
  GuestOf <- MCGuestOf
  BookingOf <- MCBookingOf
  Attempted = {"p1", "p2"}
  FullPrice = 471
  Bonus = 230
  NoBooking = NoBooking
  NoOne = NoOne
INVARIANTS
  TypeOK
  LedgerExplainsBalance
  PriceFollowsPoints
  TakenBackWasEarned
  OnlyTheJobDeadlocks
PROPERTIES
  ImplementsLedger
  Answered
