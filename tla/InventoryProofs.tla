--------------------------- MODULE InventoryProofs --------------------------
(***************************************************************************)
(* Inventory keeps its promise for any number of rooms, types and bookings. *)
(***************************************************************************)
EXTENDS Inventory, BookingTableProofs

IInv == TableTypeOK /\ NoOnTimeOversell

LEMMA InitEstablishesIInv == Init => IInv
<1> SUFFICES ASSUME Init
             PROVE  IInv
  OBVIOUS
<1>1. TableTypeOK
  BY DEF Init, TableInit, TableTypeOK
<1>2. \A rt, in, out : OnTimeOccupying(rt, in, out) = {}
  BY DEF Init, TableInit, OnTimeOccupying, OnTime, Exists
<1>3. NoOnTimeOversell
  BY <1>2, FS_EmptySet, BookingTableAssumption DEF NoOnTimeOversell
<1> QED
  BY <1>1, <1>3 DEF IInv

LEMMA NextKeepsIInv == IInv /\ [Next]_tableVars => IInv'
<1> SUFFICES ASSUME IInv, [Next]_tableVars
             PROVE  IInv'
  OBVIOUS
<1>1. ASSUME NEW id \in Ids, Book(id, bookings'[id])
      PROVE  IInv'
  <2> DEFINE row == bookings'[id]
  <2>1. /\ row \in Row
        /\ bookings' = [bookings EXCEPT ![id] = row]
        /\ UNCHANGED <<clock, late>>
        /\ Cardinality(OnTimeOccupying(row.roomType, row.checkin, row.checkout))
             < Rooms[row.roomType]
    BY <1>1 DEF Book
  <2> HIDE DEF row
  <2>2. TableTypeOK'
    BY <2>1 DEF IInv, TableTypeOK
  <2>3. NoOnTimeOversell'
    BY <2>1, InsertKeepsNights DEF IInv
  <2> QED
    BY <2>2, <2>3 DEF IInv
<1>2. CASE TableNext \/ UNCHANGED tableVars
  BY <1>2, TableStepType, TableStepNights DEF IInv
<1> QED
  BY <1>1, <1>2 DEF Next

\* On no night do on-time bookings exceed the rooms of their type, in Inventory.
THEOREM InventoryNeverOversells == Spec => [](TableTypeOK /\ NoOnTimeOversell)
<1>1. Init => IInv
  BY InitEstablishesIInv
<1>2. IInv /\ [Next]_tableVars => IInv'
  BY NextKeepsIInv
<1>3. IInv => TableTypeOK /\ NoOnTimeOversell
  BY DEF IInv
<1> QED
  BY <1>1, <1>2, <1>3, PTL DEF Spec
=============================================================================
