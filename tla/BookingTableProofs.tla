------------------------- MODULE BookingTableProofs -------------------------
(***************************************************************************)
(* What the statements on existing rows, and the insertion of a row, do to  *)
(* the sets of on-time bookings.  Cited by the proofs about Inventory and   *)
(* BookingTxn.                                                             *)
(***************************************************************************)
EXTENDS BookingTable, FiniteSetTheorems, TLAPS

\* Counting on-time bookings is counting a finite set, before and after a step.
LEMMA OnTimeFinite ==
  ASSUME NEW rt, NEW in, NEW out
  PROVE  /\ IsFiniteSet(OnTimeOccupying(rt, in, out))
         /\ Cardinality(OnTimeOccupying(rt, in, out)) \in Nat
         /\ IsFiniteSet(OnTimeOccupying(rt, in, out)')
         /\ Cardinality(OnTimeOccupying(rt, in, out)') \in Nat
<1>1. /\ OnTimeOccupying(rt, in, out) \in SUBSET Ids
      /\ OnTimeOccupying(rt, in, out)' \in SUBSET Ids
  BY DEF OnTimeOccupying
<1>2. IsFiniteSet(Ids)
  BY BookingTableAssumption
<1>3. /\ IsFiniteSet(OnTimeOccupying(rt, in, out))
      /\ IsFiniteSet(OnTimeOccupying(rt, in, out)')
  BY <1>1, <1>2, FS_Subset
<1> QED
  BY <1>3, FS_CardinalityType

\* Time, payments, cancellations and sweeps never give a booking a room by right
\* that had none, and never move a booking.
LEMMA TableStepOnTime ==
  ASSUME TableTypeOK, TableNext, NEW id \in Ids, OnTime(id)'
  PROVE  /\ OnTime(id)
         /\ bookings'[id].roomType = bookings[id].roomType
         /\ bookings'[id].checkin = bookings[id].checkin
         /\ bookings'[id].checkout = bookings[id].checkout
<1> USE DEF TableTypeOK, Row, OnTime, Exists
<1>1. CASE Tick
  BY <1>1 DEF Tick
<1>2. CASE \E b \in Ids : Confirm(b)
  <2>1. PICK b \in Ids : Confirm(b)
    BY <1>2
  <2>2. CASE b = id
    BY <2>1, <2>2 DEF Confirm, SetStatus
  <2>3. CASE b # id
    BY <2>1, <2>3 DEF Confirm, SetStatus
  <2> QED
    BY <2>2, <2>3
<1>3. CASE \E b \in Ids : Cancel(b)
  BY <1>3 DEF Cancel, SetStatus, Cancellable
<1>4. CASE \E t \in 0 .. clock : ExpireHolds(t)
  BY <1>4 DEF ExpireHolds, Lapsed
<1> QED
  BY <1>1, <1>2, <1>3, <1>4 DEF TableNext

\* Such a step, or none, leaves no more on-time bookings on any stay.
LEMMA TableStepCount ==
  ASSUME TableTypeOK, TableNext \/ UNCHANGED tableVars, NEW rt, NEW in, NEW out
  PROVE  Cardinality(OnTimeOccupying(rt, in, out)')
           <= Cardinality(OnTimeOccupying(rt, in, out))
<1>1. OnTimeOccupying(rt, in, out)' \subseteq OnTimeOccupying(rt, in, out)
  <2>1. CASE TableNext
    BY <2>1, TableStepOnTime DEF OnTimeOccupying, Overlaps
  <2>2. CASE UNCHANGED tableVars
    BY <2>2 DEF tableVars, OnTimeOccupying, OnTime, Exists
  <2> QED
    BY <2>1, <2>2
<1> QED
  BY <1>1, OnTimeFinite, FS_Subset

\* The type of the table through those steps.
LEMMA TableStepType ==
  ASSUME TableTypeOK, TableNext \/ UNCHANGED tableVars
  PROVE  TableTypeOK'
<1> USE DEF TableTypeOK
<1>1. CASE Tick
  BY <1>1 DEF Tick
<1>2. CASE \E b \in Ids : Confirm(b)
  BY <1>2 DEF Confirm, SetStatus, Exists, Row, Statuses
<1>3. CASE \E b \in Ids : Cancel(b)
  BY <1>3 DEF Cancel, SetStatus, Cancellable, Exists, Row, Statuses
<1>4. CASE \E t \in 0 .. clock : ExpireHolds(t)
  BY <1>4 DEF ExpireHolds, Lapsed, Exists, Row, Statuses
<1>5. CASE UNCHANGED tableVars
  BY <1>5 DEF tableVars
<1> QED
  BY <1>1, <1>2, <1>3, <1>4, <1>5 DEF TableNext

\* They keep every night within its rooms.
LEMMA TableStepNights ==
  ASSUME TableTypeOK, NoOnTimeOversell, TableNext \/ UNCHANGED tableVars
  PROVE  NoOnTimeOversell'
<1> SUFFICES ASSUME NEW rt \in RoomTypes, NEW night \in Days
             PROVE  Cardinality(OnTimeOccupying(rt, night, night + 1)') <= Rooms[rt]
  BY DEF NoOnTimeOversell
<1>1. Cardinality(OnTimeOccupying(rt, night, night + 1)')
        <= Cardinality(OnTimeOccupying(rt, night, night + 1))
  BY TableStepCount
<1>2. Cardinality(OnTimeOccupying(rt, night, night + 1)) <= Rooms[rt]
  BY DEF NoOnTimeOversell
<1>3. /\ Cardinality(OnTimeOccupying(rt, night, night + 1)) \in Nat
      /\ Cardinality(OnTimeOccupying(rt, night, night + 1)') \in Nat
  BY OnTimeFinite
<1>4. Rooms[rt] \in Nat
  BY BookingTableAssumption
<1> QED
  BY <1>1, <1>2, <1>3, <1>4

\* The promise behind createBooking: a booking inserted while fewer on-time
\* bookings than rooms overlap its stay keeps every night within its rooms.
LEMMA InsertKeepsNights ==
  ASSUME TableTypeOK, NoOnTimeOversell,
         NEW id \in Ids, NEW row \in Row,
         bookings' = [bookings EXCEPT ![id] = row],
         UNCHANGED <<clock, late>>,
         Cardinality(OnTimeOccupying(row.roomType, row.checkin, row.checkout))
           < Rooms[row.roomType]
  PROVE  NoOnTimeOversell'
<1> SUFFICES ASSUME NEW rt \in RoomTypes, NEW night \in Days
             PROVE  Cardinality(OnTimeOccupying(rt, night, night + 1)') <= Rooms[rt]
  BY DEF NoOnTimeOversell
<1> DEFINE Before == OnTimeOccupying(rt, night, night + 1)
           After == OnTimeOccupying(rt, night, night + 1)'
           Stay == OnTimeOccupying(row.roomType, row.checkin, row.checkout)
<1> USE DEF TableTypeOK
<1>0. /\ IsFiniteSet(Before) /\ Cardinality(Before) \in Nat
      /\ IsFiniteSet(After) /\ Cardinality(After) \in Nat
      /\ IsFiniteSet(Stay) /\ Cardinality(Stay) \in Nat
      /\ Rooms[rt] \in Nat
  BY OnTimeFinite, BookingTableAssumption
<1>1. Cardinality(Before) <= Rooms[rt]
  BY DEF NoOnTimeOversell
<1>2. After \subseteq Before \cup {id}
  BY DEF OnTimeOccupying, OnTime, Exists, Overlaps
<1>3. CASE row.roomType = rt /\ Overlaps(row, night, night + 1)
  <2>1. Before \subseteq Stay
    <3>1. /\ row.checkin \in Int /\ row.checkout \in Int /\ night \in Int
          /\ row.checkin <= night /\ night < row.checkout
      BY <1>3 DEF Row, Days, Overlaps
    <3>2. ASSUME NEW b \in Before
          PROVE  b \in Stay
      <4>1. /\ b \in Ids /\ OnTime(b) /\ bookings[b].roomType = rt
            /\ bookings[b].checkin < night + 1 /\ bookings[b].checkout > night
        BY <3>2 DEF OnTimeOccupying, Overlaps
      <4>2. bookings[b].checkin \in Int /\ bookings[b].checkout \in Int
        BY <4>1 DEF OnTime, Exists, Row, Days
      <4>3. bookings[b].checkin < row.checkout /\ bookings[b].checkout > row.checkin
        BY <4>1, <4>2, <3>1
      <4> QED
        BY <4>1, <4>3, <1>3 DEF OnTimeOccupying, Overlaps
    <3> QED
      BY <3>2
  <2>2. Cardinality(Before) <= Cardinality(Stay)
    BY <2>1, <1>0, FS_Subset
  <2>3. /\ IsFiniteSet(Before \cup {id})
        /\ Cardinality(Before \cup {id}) \in {Cardinality(Before), Cardinality(Before) + 1}
    BY <1>0, FS_AddElement
  <2>4. Cardinality(After) <= Cardinality(Before \cup {id})
    BY <1>2, <2>3, FS_Subset
  <2> QED
    BY <2>2, <2>3, <2>4, <1>0, <1>1, <1>3
<1>4. CASE ~(row.roomType = rt /\ Overlaps(row, night, night + 1))
  <2>1. After \subseteq Before
    BY <1>4 DEF OnTimeOccupying, OnTime, Exists, Overlaps
  <2>2. Cardinality(After) <= Cardinality(Before)
    BY <2>1, <1>0, FS_Subset
  <2> QED
    BY <2>2, <1>0, <1>1
<1> QED
  BY <1>3, <1>4
=============================================================================
