---------------------------- MODULE BookingTable ----------------------------
(***************************************************************************)
(* The `bookings` table, the wall clock its holds are measured against, and *)
(* the statements that every component issues against a booking row:       *)
(*                                                                         *)
(*   Confirm      UPDATE bookings SET status = 'confirmed' WHERE id = $1    *)
(*   Cancel       UPDATE bookings SET status = 'cancelled' WHERE id = $1    *)
(*   ExpireHolds  the sweep of the release-expired-holds job               *)
(*                                                                         *)
(* and the query both the availability page and createBooking count rooms  *)
(* with.  A day is an integer, a timestamp is a reading of `clock`.  The    *)
(* clock of the API process (Date.now()) and that of PostgreSQL (now()) are *)
(* one clock here.                                                         *)
(***************************************************************************)
EXTENDS Integers, FiniteSets

CONSTANTS
  Ids,        \* booking ids
  RoomTypes,  \* rows of room_types
  Guests,     \* rows of guests, one for each email address
  Rooms,      \* Rooms[rt]: how many rooms of type rt are 'available'
  LastDay,    \* the calendar: a stay lies within the days 0 .. LastDay
  HoldTime,   \* HOLD_MINUTES, in ticks of the clock
  MaxClock,   \* bound: the clock stops there
  NoBooking   \* a booking id without a row

VARIABLES
  clock,      \* the current time
  bookings,   \* the bookings table, by id
  late        \* history: ids that were confirmed while they held no room

tableVars == <<clock, bookings, late>>

Days == 0 .. LastDay

\* The code also names 'completed' and 'no_show' and never writes either.
Statuses == {"pending", "confirmed", "cancelled", "expired"}

Row == [roomType : RoomTypes, guest : Guests, checkin : Days,
        checkout : Days, status : Statuses, hold : Nat]

ASSUME BookingTableAssumption ==
  /\ IsFiniteSet(Ids)
  /\ Rooms \in [RoomTypes -> Nat]
  /\ LastDay \in Nat /\ HoldTime \in Nat /\ MaxClock \in Nat
  /\ NoBooking \notin Row

TableTypeOK ==
  /\ clock \in Nat
  /\ bookings \in [Ids -> Row \cup {NoBooking}]
  /\ late \in SUBSET Ids

TableInit ==
  /\ clock = 0
  /\ bookings = [id \in Ids |-> NoBooking]
  /\ late = {}

-----------------------------------------------------------------------------
(* Counting rooms (OVERLAP_COUNT_SQL).                                     *)

Exists(id) == bookings[id] # NoBooking

\* Two stays compete for the same rooms: existing.checkin < new.checkout and
\* existing.checkout > new.checkin.
Overlaps(b, in, out) == b.checkin < out /\ b.checkout > in

\* Mutant of Counts: live holds are not counted.
CountsConfirmedOnly(b, t) == b.status = "confirmed"

\* The rows that count against the inventory, for a transaction whose now() is t.
Counts(b, t) ==
  \/ b.status = "confirmed"
  \/ b.status = "pending" /\ b.hold > t

Occupying(rt, in, out, t) ==
  {id \in Ids : /\ Exists(id)
                /\ bookings[id].roomType = rt
                /\ Counts(bookings[id], t)
                /\ Overlaps(bookings[id], in, out)}

\* Mutant of Remaining: one room too many.
RemainingOffByOne(rt, in, out, t) ==
  Rooms[rt] - Cardinality(Occupying(rt, in, out, t)) + 1

Remaining(rt, in, out, t) == Rooms[rt] - Cardinality(Occupying(rt, in, out, t))

-----------------------------------------------------------------------------
(* Bookings that hold their room by right: a live hold, or a confirmation  *)
(* that came while the booking had its room.  A booking confirmed after    *)
(* its hold lapsed or after it was cancelled or expired is in `late`: its   *)
(* room may have been sold to somebody else in between.                    *)

OnTime(id) ==
  /\ Exists(id)
  /\ \/ bookings[id].status = "pending" /\ bookings[id].hold > clock
     \/ bookings[id].status = "confirmed" /\ id \notin late

OnTimeOccupying(rt, in, out) ==
  {id \in Ids : /\ OnTime(id)
                /\ bookings[id].roomType = rt
                /\ Overlaps(bookings[id], in, out)}

\* On no night are more on-time bookings than rooms of a type: what the
\* advisory lock and the count of createBooking are there for.  A booking
\* covers night n when its stay overlaps the days n .. n + 1.
NoOnTimeOversell ==
  \A rt \in RoomTypes : \A night \in Days :
     Cardinality(OnTimeOccupying(rt, night, night + 1)) <= Rooms[rt]

\* On no night are more bookings that count against the inventory than rooms
\* of a type, whenever and however they were confirmed: what
\* releaseExpiredHolds.js calls overbooking prevention.
NoOversell ==
  \A rt \in RoomTypes : \A night \in Days :
     Cardinality(Occupying(rt, night, night + 1, clock)) <= Rooms[rt]

-----------------------------------------------------------------------------
(* Steps on existing rows.                                                 *)

Tick ==
  /\ clock < MaxClock
  /\ clock' = clock + 1
  /\ UNCHANGED <<bookings, late>>

SetStatus(id, s) == bookings' = [bookings EXCEPT ![id].status = s]

\* A settled payment confirms its booking whatever the booking's status is.
Confirm(id) ==
  /\ Exists(id)
  /\ SetStatus(id, "confirmed")
  /\ late' = IF OnTime(id) THEN late ELSE late \cup {id}
  /\ UNCHANGED clock

Cancellable(id) == Exists(id) /\ bookings[id].status \in {"pending", "confirmed"}

Cancel(id) ==
  /\ Cancellable(id)
  /\ SetStatus(id, "cancelled")
  /\ UNCHANGED <<clock, late>>

\* Mutant of Lapsed: the sweep does not ask for the status.
LapsedInAnyStatus(id, t) == Exists(id) /\ bookings[id].hold < t

\* What a sweep whose transaction began at t matches.
Lapsed(id, t) ==
  /\ Exists(id)
  /\ bookings[id].status = "pending"
  /\ bookings[id].hold < t

\* One run of the job.  Its now() is the start t of its transaction, and a row
\* that another transaction changed first is matched against its new values.
ExpireHolds(t) ==
  /\ \E id \in Ids : Lapsed(id, t)
  /\ bookings' = [id \in Ids |-> IF Lapsed(id, t)
                                 THEN [bookings[id] EXCEPT !.status = "expired"]
                                 ELSE bookings[id]]
  /\ UNCHANGED <<clock, late>>

\* Steps of the components that do not create bookings.
TableNext ==
  \/ Tick
  \/ \E id \in Ids : Confirm(id) \/ Cancel(id)
  \/ \E t \in 0 .. clock : ExpireHolds(t)
=============================================================================
