------------------------------ MODULE Inventory -----------------------------
(***************************************************************************)
(* What booking promises, without locks, transactions or requests: a room   *)
(* is held for a stay in one step, and only when fewer on-time bookings     *)
(* than rooms overlap it.  BookingTxn and Payments implement this.          *)
(***************************************************************************)
EXTENDS BookingTable

\* A booking is created 'pending' with a hold of at most HoldTime from now.
Book(id, row) ==
  /\ ~Exists(id)
  /\ row \in Row
  /\ row.status = "pending"
  /\ row.checkin < row.checkout
  /\ row.hold <= clock + HoldTime
  /\ Cardinality(OnTimeOccupying(row.roomType, row.checkin, row.checkout))
       < Rooms[row.roomType]
  /\ bookings' = [bookings EXCEPT ![id] = row]
  /\ UNCHANGED <<clock, late>>

\* The row that is booked is the one the table has afterwards.
Next ==
  \/ \E id \in Ids : Book(id, bookings'[id])
  \/ TableNext

Init == TableInit

Spec == Init /\ [][Next]_tableVars
=============================================================================
