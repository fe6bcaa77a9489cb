-------------------------- MODULE BookingTxnProofs --------------------------
(***************************************************************************)
(* createBooking is correct for any number of concurrent requests, rooms,   *)
(* room types and keys, and with any sharing of advisory-lock keys.        *)
(*                                                                         *)
(* The argument: a request past its check holds the advisory lock of its    *)
(* room type (LockHeld), so nobody else inserts a row of that type; what    *)
(* payments, cancellations, sweeps and time do to existing rows gives no    *)
(* booking a room it did not have (BookingTableProofs); so the room that    *)
(* the check found is still there when the row commits.                    *)
(***************************************************************************)
EXTENDS BookingTxn, BookingTableProofs

\* A request past pg_advisory_xact_lock holds the lock of its room type.
LockHeld == \A r \in Ids : pc[r] \in HoldsLock => lock[Lk(r)] = r

\* A transaction's now() is in the past, and its hold ends within HoldTime.
TimesBounded ==
  \A r \in Ids :
     /\ pc[r] \in InTxn => start[r] <= clock
     /\ pc[r] \in {"inserted", "keyed"} => hold[r] <= clock + HoldTime

\* Only valid requests reach a transaction, and only an ended one has a row.
RowsAreCommitted ==
  \A r \in Ids : /\ pc[r] \in InTxn => Valid(r)
                 /\ Exists(r) => pc[r] = "done"

\* A key row in flight is the only one for its key.
KeyInv ==
  /\ KeyNamesItsBooking
  /\ \A r \in Ids : At(r, "keyed") => Key(r) # NoKey /\ idem[Key(r)] = NoOne
  /\ \A q, r \in Ids :
        At(q, "keyed") /\ At(r, "keyed") /\ Key(q) = Key(r) => q = r

IInv ==
  /\ TypeOK
  /\ LockHeld
  /\ TimesBounded
  /\ RowsAreCommitted
  /\ RoomLeftForInsert
  /\ NoOnTimeOversell

-----------------------------------------------------------------------------
(* Steps that leave the table alone, and what they may do to the request.   *)

\* The room count of a stay is a number the prover can compare.
LEMMA RoomsAreNumbers ==
  ASSUME NEW rt \in RoomTypes, NEW in, NEW out
  PROVE  /\ Rooms[rt] \in Nat
         /\ Cardinality(OnTimeOccupying(rt, in, out)) \in Nat
         /\ Cardinality(OnTimeOccupying(rt, in, out)') \in Nat
  BY OnTimeFinite, BookingTableAssumption

\* A request asks for a stay at a room type.
LEMMA RequestType ==
  ASSUME TypeOK, NEW r \in Ids
  PROVE  /\ req[r] \in Input
         /\ Type(r) \in RoomTypes
         /\ Lk(r) \in LockKeys
  BY BookingTxnAssumption DEF TypeOK, Input, Type, Lk

\* Every request-side step keeps the types.
LEMMA StepType ==
  ASSUME TypeOK, NEW r \in Ids, Step(r) \/ Crash(r)
  PROVE  TypeOK'
<1> USE DEF TypeOK, At, Goto, Rollback, End, Released, Stages, Replies, tableVars
<1>1. TableTypeOK /\ UNCHANGED tableVars => TableTypeOK'
  BY DEF TableTypeOK
<1>2. CASE Commit(r)
  <2>1. NewRow(r) \in Row
    BY RequestType DEF NewRow, Row, Statuses, Type, Input
  <2>2. TableTypeOK'
    BY <1>2, <2>1 DEF Commit, TableTypeOK
  <2>3. idem' \in [Keys -> Ids \cup {NoOne}]
    BY <1>2 DEF Commit
  <2>4. PICK answer \in {"created", "lost"} : End(r, answer)
    BY <1>2 DEF Commit
  <2> QED
    BY <2>2, <2>3, <2>4
<1>3. CASE Reject(r) \/ Replay(r) \/ RefuseUnlisted(r) \/ RefuseFull(r)
           \/ RetryInsert(r) \/ KeyTaken(r) \/ Crash(r)
  BY <1>1, <1>3 DEF Reject, Replay, RefuseUnlisted, RefuseFull, RetryInsert,
                    KeyTaken, Crash
<1>4. CASE Begin(r)
  BY <1>1, <1>4 DEF Begin, TableTypeOK
<1>5. CASE NoKeySeen(r) \/ CheckInventory(r) \/ UpsertGuest(r) \/ RecordKey(r)
  BY <1>1, <1>5 DEF NoKeySeen, CheckInventory, UpsertGuest, RecordKey
<1>6. CASE Lock(r)
  BY <1>1, <1>6, RequestType DEF Lock
<1>7. CASE InsertBooking(r)
  BY <1>1, <1>7, BookingTableAssumption DEF InsertBooking, TableTypeOK
<1>8. CASE CodeCollision(r)
  BY <1>1, <1>8 DEF CodeCollision
<1> QED
  BY <1>2, <1>3, <1>4, <1>5, <1>6, <1>7, <1>8 DEF Step

\* What a step of r may do to the locks: r takes its own, free lock, or gives up
\* what it holds, or leaves the table of locks alone.
LEMMA StepLock ==
  ASSUME TypeOK, LockHeld, NEW r \in Ids, Step(r) \/ Crash(r)
  PROVE  LockHeld'
<1> USE DEF TypeOK, LockHeld, HoldsLock, Lk, Type, At, Goto, Rollback, End, Released
<1>0. \A q \in Ids : Lk(q) \in LockKeys
  BY RequestType
<1>1. CASE Commit(r)
  BY <1>0, <1>1 DEF Commit
<1>2. CASE Reject(r) \/ Replay(r) \/ RefuseUnlisted(r) \/ RefuseFull(r)
           \/ RetryInsert(r) \/ KeyTaken(r) \/ Crash(r)
  BY <1>0, <1>2 DEF Reject, Replay, RefuseUnlisted, RefuseFull, RetryInsert,
                    KeyTaken, Crash
<1>3. CASE Begin(r) \/ NoKeySeen(r)
  BY <1>3 DEF Begin, NoKeySeen
<1>4. CASE Lock(r)
  <2>1. \A q \in Ids : pc[q] \in HoldsLock => Lk(q) # Lk(r)
    BY <1>4, BookingTxnAssumption DEF Lock
  <2> QED
    BY <1>0, <1>4, <2>1 DEF Lock
<1>5. CASE CheckInventory(r) \/ UpsertGuest(r) \/ InsertBooking(r) \/ RecordKey(r)
  BY <1>5 DEF CheckInventory, UpsertGuest, InsertBooking, RecordKey
<1>6. CASE CodeCollision(r)
  BY <1>0, <1>6 DEF CodeCollision
<1> QED
  BY <1>1, <1>2, <1>3, <1>4, <1>5, <1>6 DEF Step

\* The stored times stay within what the clock allows.
LEMMA StepTimes ==
  ASSUME TypeOK, TimesBounded, NEW r \in Ids, Step(r) \/ Crash(r)
  PROVE  TimesBounded'
<1> USE DEF TypeOK, TableTypeOK, TimesBounded, InTxn, Stages, At, Goto, Rollback,
            End, tableVars
<1>0. HoldTime \in Nat
  BY BookingTableAssumption
<1>1. CASE Commit(r)
  BY <1>0, <1>1 DEF Commit
<1>2. CASE Reject(r) \/ Replay(r) \/ RefuseUnlisted(r) \/ RefuseFull(r)
           \/ RetryInsert(r) \/ KeyTaken(r) \/ Crash(r)
  BY <1>0, <1>2 DEF Reject, Replay, RefuseUnlisted, RefuseFull, RetryInsert,
                    KeyTaken, Crash
<1>3. CASE Begin(r)
  BY <1>0, <1>3 DEF Begin
<1>4. CASE NoKeySeen(r) \/ Lock(r) \/ CheckInventory(r) \/ UpsertGuest(r)
           \/ CodeCollision(r)
  BY <1>0, <1>4 DEF NoKeySeen, Lock, CheckInventory, UpsertGuest, CodeCollision
<1>5. CASE InsertBooking(r)
  BY <1>0, <1>5 DEF InsertBooking
<1>6. CASE RecordKey(r)
  BY <1>0, <1>6 DEF RecordKey
<1> QED
  BY <1>1, <1>2, <1>3, <1>4, <1>5, <1>6 DEF Step

\* A request writes its row only as its transaction ends.
LEMMA StepRows ==
  ASSUME TypeOK, RowsAreCommitted, NEW r \in Ids, Step(r) \/ Crash(r)
  PROVE  RowsAreCommitted'
<1> USE DEF TypeOK, TableTypeOK, RowsAreCommitted, Valid, Exists, InTxn, Stages, At,
            Goto, Rollback, End, tableVars
<1>1. CASE Commit(r)
  BY <1>1 DEF Commit
<1>2. CASE Reject(r) \/ Replay(r) \/ RefuseUnlisted(r) \/ RefuseFull(r)
           \/ RetryInsert(r) \/ KeyTaken(r) \/ Crash(r)
  BY <1>2 DEF Reject, Replay, RefuseUnlisted, RefuseFull, RetryInsert,
              KeyTaken, Crash
<1>3. CASE Begin(r)
  BY <1>3 DEF Begin
<1>4. CASE NoKeySeen(r) \/ Lock(r) \/ CheckInventory(r) \/ UpsertGuest(r)
           \/ CodeCollision(r) \/ InsertBooking(r) \/ RecordKey(r)
  BY <1>4 DEF NoKeySeen, Lock, CheckInventory, UpsertGuest, CodeCollision,
              InsertBooking, RecordKey
<1> QED
  BY <1>1, <1>2, <1>3, <1>4 DEF Step

-----------------------------------------------------------------------------
(* The count.                                                              *)

\* A row that is on time now counted for every transaction that began earlier:
\* what the check sees is never too few.
LEMMA CountSeesOnTime ==
  ASSUME TypeOK, TimesBounded, NEW r \in Ids, pc[r] \in InTxn, RoomLeft(r)
  PROVE  Cardinality(OnTimeOccupying(Type(r), req[r].checkin, req[r].checkout))
           < Rooms[Type(r)]
<1> DEFINE Seen == Occupying(Type(r), req[r].checkin, req[r].checkout, start[r])
           Now == OnTimeOccupying(Type(r), req[r].checkin, req[r].checkout)
<1>1. start[r] \in Nat /\ clock \in Nat /\ start[r] <= clock
  BY DEF TypeOK, TableTypeOK, TimesBounded
<1>2. Now \subseteq Seen
  <2> SUFFICES ASSUME NEW id \in Now
               PROVE  id \in Seen
    OBVIOUS
  <2>1. id \in Ids /\ OnTime(id)
    BY DEF OnTimeOccupying
  <2>2. bookings[id].hold \in Nat
    BY <2>1 DEF OnTime, Exists, TypeOK, TableTypeOK, Row
  <2>3. Counts(bookings[id], start[r])
    BY <1>1, <2>1, <2>2 DEF OnTime, Counts
  <2> QED
    BY <2>1, <2>3 DEF OnTimeOccupying, Occupying, OnTime
<1>3. IsFiniteSet(Seen)
  <2>1. Seen \in SUBSET Ids
    BY DEF Occupying
  <2> QED
    BY <2>1, BookingTableAssumption, FS_Subset
<1>4. Cardinality(Now) <= Cardinality(Seen) /\ Cardinality(Seen) \in Nat
  BY <1>2, <1>3, FS_Subset, FS_CardinalityType
<1>5. Rooms[Type(r)] - Cardinality(Seen) > 0
  BY DEF RoomLeft, Remaining
<1>6. Rooms[Type(r)] \in Nat /\ Cardinality(Now) \in Nat
  BY RequestType, RoomsAreNumbers
<1> QED
  BY <1>4, <1>5, <1>6

\* A step other than a commit leaves the table as it is.
LEMMA StepTable ==
  ASSUME NEW r \in Ids, Step(r) \/ Crash(r), ~Commit(r)
  PROVE  UNCHANGED tableVars
  BY DEF Step, Reject, Begin, Replay, NoKeySeen, Lock, RefuseUnlisted, RefuseFull,
         CheckInventory, UpsertGuest, InsertBooking, CodeCollision, RetryInsert,
         RecordKey, KeyTaken, Crash, Rollback, tableVars

\* The requests past the check are those that were, and the one that passes it.
LEMMA StepChecked ==
  ASSUME TypeOK, NEW r \in Ids, Step(r) \/ Crash(r), NEW q \in Ids,
         pc'[q] \in PassedCheck, pc[q] \notin PassedCheck
  PROVE  q = r /\ CheckInventory(r)
<1> USE DEF TypeOK, PassedCheck, At, Goto, Rollback, End
<1>1. CASE Commit(r)
  BY <1>1 DEF Commit
<1>2. CASE Reject(r) \/ Replay(r) \/ RefuseUnlisted(r) \/ RefuseFull(r)
           \/ RetryInsert(r) \/ KeyTaken(r) \/ Crash(r)
  BY <1>2 DEF Reject, Replay, RefuseUnlisted, RefuseFull, RetryInsert,
              KeyTaken, Crash
<1>3. CASE Begin(r) \/ NoKeySeen(r) \/ Lock(r) \/ UpsertGuest(r)
           \/ CodeCollision(r) \/ InsertBooking(r) \/ RecordKey(r)
  BY <1>3 DEF Begin, NoKeySeen, Lock, UpsertGuest, CodeCollision, InsertBooking,
              RecordKey
<1>4. CASE CheckInventory(r)
  BY <1>4 DEF CheckInventory
<1> QED
  BY <1>1, <1>2, <1>3, <1>4 DEF Step

\* No step rewrites what a request asks for.
LEMMA StepRequest ==
  ASSUME NEW r \in Ids, Step(r) \/ Crash(r)
  PROVE  UNCHANGED req
  BY DEF Step, Reject, Begin, Replay, NoKeySeen, Lock, RefuseUnlisted, RefuseFull,
         CheckInventory, UpsertGuest, InsertBooking, CodeCollision, RetryInsert,
         RecordKey, KeyTaken, Commit, Crash, Rollback, End

\* The lock is what keeps a commit out of another request's count: the row it
\* inserts is of another room type, and no stay at that request's type loses a room.
LEMMA CommitElsewhere ==
  ASSUME TypeOK, LockHeld, NEW r \in Ids, Commit(r),
         NEW q \in Ids, pc[q] \in PassedCheck, q # r,
         NEW rt, rt = Type(q), NEW in, NEW out
  PROVE  Cardinality(OnTimeOccupying(rt, in, out)')
           <= Cardinality(OnTimeOccupying(rt, in, out))
<1>1. pc[r] \in HoldsLock /\ pc[q] \in HoldsLock
  BY DEF Commit, ReadyToCommit, At, HoldsLock, PassedCheck
<1>2. NewRow(r).roomType # rt
  BY <1>1 DEF LockHeld, Lk, NewRow
<1>3. /\ bookings' = [bookings EXCEPT ![r] = NewRow(r)]
      /\ UNCHANGED <<clock, late>>
  BY DEF Commit
<1>4. OnTimeOccupying(rt, in, out)' \subseteq OnTimeOccupying(rt, in, out)
  <2> SUFFICES ASSUME NEW id \in Ids, id \in OnTimeOccupying(rt, in, out)'
               PROVE  id \in OnTimeOccupying(rt, in, out)
    BY DEF OnTimeOccupying
  <2>1. bookings'[id].roomType = rt
    BY DEF OnTimeOccupying
  <2>2. bookings'[id] = bookings[id]
    BY <1>2, <1>3, <2>1 DEF TypeOK, TableTypeOK
  <2> QED
    BY <1>3, <2>2 DEF OnTimeOccupying, OnTime, Exists, Overlaps
<1> QED
  BY <1>4, OnTimeFinite, FS_Subset

\* The room found by a check is still there after any step of any request.
LEMMA StepRoomLeft ==
  ASSUME IInv, NEW r \in Ids, Step(r) \/ Crash(r)
  PROVE  RoomLeftForInsert'
<1>0. TypeOK /\ LockHeld /\ TimesBounded /\ RoomLeftForInsert /\ UNCHANGED req
  BY StepRequest DEF IInv
<1> SUFFICES ASSUME NEW q \in Ids, pc'[q] \in PassedCheck
             PROVE  Cardinality(OnTimeOccupying(Type(q), req[q].checkin,
                                                req[q].checkout)') < Rooms[Type(q)]
  BY <1>0 DEF RoomLeftForInsert, Type
<1>1. PICK rt, in, out :
        rt = Type(q) /\ in = req[q].checkin /\ out = req[q].checkout
  OBVIOUS
<1>2. Cardinality(OnTimeOccupying(rt, in, out)) < Rooms[rt]
  <2>1. CASE pc[q] \in PassedCheck
    BY <1>0, <1>1, <2>1 DEF RoomLeftForInsert
  <2>2. CASE pc[q] \notin PassedCheck
    <3>1. q = r /\ CheckInventory(r)
      BY <1>0, <2>2, StepChecked
    <3>2. pc[q] \in InTxn /\ RoomLeft(q)
      BY <3>1 DEF CheckInventory, At, InTxn, Stages
    <3> QED
      BY <1>0, <1>1, <3>2, CountSeesOnTime
  <2> QED
    BY <2>1, <2>2
<1>3. Cardinality(OnTimeOccupying(rt, in, out)')
        <= Cardinality(OnTimeOccupying(rt, in, out))
  <2>1. CASE Commit(r)
    <3>1. q # r /\ pc[q] \in PassedCheck
      BY <1>0, <2>1 DEF Commit, End, Goto, TypeOK, PassedCheck
    <3> QED
      BY <1>0, <1>1, <2>1, <3>1, CommitElsewhere
  <2>2. CASE ~Commit(r)
    BY <1>0, <2>2, StepTable, TableStepCount DEF TypeOK
  <2> QED
    BY <2>1, <2>2
<1>4. Cardinality(OnTimeOccupying(rt, in, out)') < Rooms[rt]
  BY <1>0, <1>1, <1>2, <1>3, RequestType, RoomsAreNumbers
<1> QED
  BY <1>0, <1>1, <1>4 DEF Type

\* So every commit keeps every night within its rooms.
LEMMA StepNights ==
  ASSUME IInv, NEW r \in Ids, Step(r) \/ Crash(r)
  PROVE  NoOnTimeOversell'
<1>0. TypeOK /\ TableTypeOK /\ RoomLeftForInsert /\ NoOnTimeOversell
  BY DEF IInv, TypeOK
<1>1. CASE Commit(r)
  <2>1. NewRow(r) \in Row
    BY <1>0, RequestType DEF NewRow, Row, Statuses, Type, Input, TypeOK
  <2>2. /\ bookings' = [bookings EXCEPT ![r] = NewRow(r)]
        /\ UNCHANGED <<clock, late>>
    BY <1>1 DEF Commit
  <2>3. Cardinality(OnTimeOccupying(NewRow(r).roomType, NewRow(r).checkin,
                                    NewRow(r).checkout)) < Rooms[NewRow(r).roomType]
    BY <1>0, <1>1 DEF Commit, ReadyToCommit, At, PassedCheck, RoomLeftForInsert, NewRow
  <2> QED
    BY <1>0, <2>1, <2>2, <2>3, InsertKeepsNights
<1>2. CASE ~Commit(r)
  BY <1>0, <1>2, StepTable, TableStepNights
<1> QED
  BY <1>1, <1>2

-----------------------------------------------------------------------------
(* The invariant.                                                          *)

LEMMA InitEstablishesIInv == Init => IInv
<1> SUFFICES ASSUME Init
             PROVE  IInv
  OBVIOUS
<1>1. TypeOK
  BY BookingTxnAssumption DEF Init, TableInit, TableTypeOK, TypeOK, Stages, Replies
<1>2. LockHeld /\ TimesBounded /\ RowsAreCommitted /\ RoomLeftForInsert
  BY DEF Init, TableInit, LockHeld, TimesBounded, RowsAreCommitted,
         RoomLeftForInsert, HoldsLock, InTxn, PassedCheck, Exists
<1>3. \A rt, in, out : OnTimeOccupying(rt, in, out) = {}
  BY DEF Init, TableInit, OnTimeOccupying, OnTime, Exists
<1>4. NoOnTimeOversell
  BY <1>3, FS_EmptySet, BookingTableAssumption DEF NoOnTimeOversell
<1> QED
  BY <1>1, <1>2, <1>4 DEF IInv

\* Other components may change rows, and the clock, but no request.
LEMMA EnvironmentKeepsIInv ==
  ASSUME IInv, TableNext \/ UNCHANGED tableVars, UNCHANGED requestVars
  PROVE  IInv'
<1>0. TypeOK /\ TableTypeOK /\ UNCHANGED <<req, pc, start, hold, reply, lock, idem>>
  BY DEF IInv, TypeOK, requestVars
<1>1. TypeOK'
  BY <1>0, TableStepType DEF TypeOK
<1>2. LockHeld'
  BY <1>0 DEF IInv, LockHeld, Lk, Type
<1>3. clock' \in Nat /\ clock <= clock'
  BY <1>0 DEF TableTypeOK, TableNext, Tick, Confirm, Cancel, ExpireHolds, tableVars
<1>4. TimesBounded'
  BY <1>0, <1>3, BookingTableAssumption DEF IInv, TimesBounded, TypeOK, TableTypeOK
<1>5. \A id \in Ids : Exists(id)' => Exists(id)
  BY <1>0, BookingTableAssumption
  DEF TableNext, Tick, Confirm, Cancel, Cancellable, ExpireHolds, Lapsed, SetStatus,
      Exists, TableTypeOK, tableVars
<1>6. RowsAreCommitted'
  BY <1>0, <1>5 DEF IInv, RowsAreCommitted, Valid
<1>7. RoomLeftForInsert'
  <2> SUFFICES ASSUME NEW q \in Ids, pc[q] \in PassedCheck
               PROVE  Cardinality(OnTimeOccupying(Type(q), req[q].checkin,
                                                  req[q].checkout)') < Rooms[Type(q)]
    BY <1>0 DEF RoomLeftForInsert, Type
  <2>1. PICK rt, in, out :
          rt = Type(q) /\ in = req[q].checkin /\ out = req[q].checkout
    OBVIOUS
  <2>2. Cardinality(OnTimeOccupying(rt, in, out)) < Rooms[rt]
    BY <2>1 DEF IInv, RoomLeftForInsert
  <2>3. Cardinality(OnTimeOccupying(rt, in, out)')
          <= Cardinality(OnTimeOccupying(rt, in, out))
    BY <1>0, TableStepCount
  <2>4. Cardinality(OnTimeOccupying(rt, in, out)') < Rooms[rt]
    BY <1>0, <2>1, <2>2, <2>3, RequestType, RoomsAreNumbers
  <2> QED
    BY <1>0, <2>1, <2>4 DEF Type
<1>8. NoOnTimeOversell'
  BY <1>0, TableStepNights DEF IInv
<1> QED
  BY <1>1, <1>2, <1>4, <1>6, <1>7, <1>8 DEF IInv

LEMMA NextKeepsIInv == IInv /\ [Next]_vars => IInv'
<1> SUFFICES ASSUME IInv, [Next]_vars
             PROVE  IInv'
  OBVIOUS
<1>1. ASSUME NEW r \in Ids, Step(r) \/ Crash(r)
      PROVE  IInv'
  <2>1. TypeOK' /\ LockHeld' /\ TimesBounded' /\ RowsAreCommitted'
    BY <1>1, StepType, StepLock, StepTimes, StepRows DEF IInv
  <2>2. RoomLeftForInsert' /\ NoOnTimeOversell'
    BY <1>1, StepRoomLeft, StepNights
  <2> QED
    BY <2>1, <2>2 DEF IInv
<1>2. CASE Environment
  BY <1>2, EnvironmentKeepsIInv DEF Environment
<1>3. CASE UNCHANGED vars
  BY <1>3, EnvironmentKeepsIInv DEF vars
<1> QED
  BY <1>1, <1>2, <1>3 DEF Next, Idle

-----------------------------------------------------------------------------

LEMMA Invariance == Spec => []IInv
  BY InitEstablishesIInv, NextKeepsIInv, PTL DEF Spec

\* Every variable of createBooking keeps its type.
THEOREM TypesAreKept == Spec => []TypeOK
<1>1. IInv => TypeOK
  BY DEF IInv
<1> QED
  BY <1>1, Invariance, PTL

\* The room a request was cleared for stays free until its INSERT commits, as the
\* comment above the count in createBooking claims.
THEOREM RoomStaysLeft == Spec => []RoomLeftForInsert
<1>1. IInv => RoomLeftForInsert
  BY DEF IInv
<1> QED
  BY <1>1, Invariance, PTL

\* Bookings that are on time never exceed the rooms of their type on any night.
THEOREM BookingNeverOversells == Spec => []NoOnTimeOversell
<1>1. IInv => NoOnTimeOversell
  BY DEF IInv
<1> QED
  BY <1>1, Invariance, PTL

-----------------------------------------------------------------------------
(* Idempotency keys.                                                       *)

\* A key and its booking appear together, whichever request takes a step.
LEMMA StepKeys ==
  ASSUME TypeOK, RowsAreCommitted, KeyInv, NEW r \in Ids, Step(r) \/ Crash(r)
  PROVE  KeyInv'
<1> USE DEF TypeOK, TableTypeOK, KeyInv, KeyNamesItsBooking, Exists, Key, At, Goto,
            Rollback, End, tableVars
<1>0. \A q \in Ids : Key(q) \in Keys \cup {NoKey}
  BY BookingTxnAssumption DEF Input
<1>1. CASE Commit(r)
  <2>1. bookings'[r] # NoBooking
    <3>1. NewRow(r) \in Row
      BY RequestType DEF NewRow, Row, Statuses, Type, Input
    <3> QED
      BY <1>1, <3>1, BookingTableAssumption DEF Commit
  <2>2. /\ pc' = [pc EXCEPT ![r] = "done"]
        /\ UNCHANGED req
        /\ \A q \in Ids \ {r} : bookings'[q] = bookings[q]
    BY <1>1 DEF Commit
  <2>3. CASE Key(r) = NoKey
    <3>1. idem' = idem
      BY <1>1, <2>3 DEF Commit
    <3> QED
      BY <2>1, <2>2, <2>3, <3>1
  <2>4. CASE Key(r) # NoKey
    <3>1. /\ At(r, "keyed") /\ idem[Key(r)] = NoOne
          /\ idem' = [idem EXCEPT ![Key(r)] = r]
      BY <1>1, <2>4 DEF Commit, ReadyToCommit
    <3>2. KeyNamesItsBooking'
      <4> SUFFICES ASSUME NEW q \in Ids, Key(q) # NoKey
                   PROVE  bookings'[q] # NoBooking <=> idem'[Key(q)] = q
        BY <2>2
      <4>1. CASE q = r
        BY <1>0, <2>1, <2>4, <3>1, <4>1
      <4>2. CASE q # r /\ Key(q) = Key(r)
        BY <1>0, <2>2, <2>4, <3>1, <4>2, BookingTxnAssumption
      <4>3. CASE q # r /\ Key(q) # Key(r)
        BY <1>0, <2>2, <2>4, <3>1, <4>3
      <4> QED
        BY <4>1, <4>2, <4>3
    <3> QED
      BY <1>0, <2>2, <3>1, <3>2
  <2> QED
    BY <2>3, <2>4
<1>2. CASE Reject(r) \/ Replay(r) \/ RefuseUnlisted(r) \/ RefuseFull(r)
           \/ RetryInsert(r) \/ KeyTaken(r) \/ Crash(r)
  BY <1>2 DEF Reject, Replay, RefuseUnlisted, RefuseFull, RetryInsert,
              KeyTaken, Crash
<1>3. CASE Begin(r) \/ NoKeySeen(r) \/ Lock(r) \/ CheckInventory(r) \/ UpsertGuest(r)
           \/ CodeCollision(r) \/ InsertBooking(r)
  BY <1>3 DEF Begin, NoKeySeen, Lock, CheckInventory, UpsertGuest, CodeCollision,
              InsertBooking
<1>4. CASE RecordKey(r)
  BY <1>4 DEF RecordKey, KeyHolders
<1> QED
  BY <1>1, <1>2, <1>3, <1>4 DEF Step

\* Other components neither add nor remove rows.
LEMMA EnvironmentKeepsRows ==
  ASSUME TypeOK, TableNext \/ UNCHANGED tableVars
  PROVE  \A id \in Ids : Exists(id)' <=> Exists(id)
<1> USE DEF TypeOK, TableTypeOK, Exists
<1>1. \A row \in Row, s \in Statuses : [row EXCEPT !.status = s] # NoBooking
  BY BookingTableAssumption DEF Row
<1>2. CASE Tick \/ UNCHANGED tableVars
  BY <1>2 DEF Tick, tableVars
<1>3. CASE \E id \in Ids : Confirm(id)
  BY <1>1, <1>3 DEF Confirm, SetStatus, Statuses
<1>4. CASE \E id \in Ids : Cancel(id)
  BY <1>1, <1>4 DEF Cancel, Cancellable, SetStatus, Statuses
<1>5. CASE \E t \in 0 .. clock : ExpireHolds(t)
  BY <1>1, <1>5 DEF ExpireHolds, Lapsed, Statuses
<1> QED
  BY <1>2, <1>3, <1>4, <1>5 DEF TableNext

LEMMA EnvironmentKeepsKeys ==
  ASSUME TypeOK, KeyInv, TableNext \/ UNCHANGED tableVars, UNCHANGED requestVars
  PROVE  KeyInv'
  BY EnvironmentKeepsRows DEF KeyInv, KeyNamesItsBooking, Key, At, requestVars

LEMMA KeyInvariance == Spec => []KeyInv
<1>1. Init => KeyInv
  BY BookingTxnAssumption
  DEF Init, TableInit, KeyInv, KeyNamesItsBooking, Exists, Key, At, Input
<1>2. IInv /\ KeyInv /\ [Next]_vars => KeyInv'
  <2> SUFFICES ASSUME IInv, KeyInv, [Next]_vars
               PROVE  KeyInv'
    OBVIOUS
  <2>1. ASSUME NEW r \in Ids, Step(r) \/ Crash(r)
        PROVE  KeyInv'
    BY <2>1, StepKeys DEF IInv
  <2>2. CASE Environment
    BY <2>2, EnvironmentKeepsKeys DEF IInv, Environment
  <2>3. CASE UNCHANGED vars
    BY <2>3, EnvironmentKeepsKeys DEF IInv, vars
  <2> QED
    BY <2>1, <2>2, <2>3 DEF Next, Idle
<1> QED
  BY <1>1, <1>2, Invariance, PTL DEF Spec

\* Through crashes, retries and duplicates, a key and its booking exist together or
\* not at all.
THEOREM KeysNameTheirBookings == Spec => []KeyNamesItsBooking
<1>1. KeyInv => KeyNamesItsBooking
  BY DEF KeyInv
<1> QED
  BY <1>1, KeyInvariance, PTL

-----------------------------------------------------------------------------
(* Answers.                                                                *)

\* A request that is not done has no answer, only one with a key is replayed, and a
\* recorded key is that of its booking.
ReplyInv ==
  /\ ReplyTruthful
  /\ \A r \in Ids : ~At(r, "done") => reply[r] = "none"
  /\ \A r \in Ids : reply[r] = "replayed" => Key(r) \in Keys
  /\ \A k \in Keys : idem[k] # NoOne => idem[k] \in Ids /\ Key(idem[k]) = k

\* A transaction that leaves nothing behind may say so, and may replay the response
\* that is recorded.
LEMMA RollbackReplies ==
  ASSUME TypeOK, RowsAreCommitted, KeyInv, ReplyInv, NEW r \in Ids, ~At(r, "done"),
         NEW answer, Rollback(r, answer), answer # "created",
         answer = "replayed" => Recorded(Key(r))
  PROVE  ReplyInv'
<1> USE DEF Rollback, End, Goto, tableVars
<1>1. /\ reply' = [reply EXCEPT ![r] = answer] /\ pc' = [pc EXCEPT ![r] = "done"]
      /\ UNCHANGED <<bookings, idem, req>>
  OBVIOUS
<1>2. ~Exists(r) /\ Key(r) \in Keys \cup {NoKey}
  BY BookingTxnAssumption DEF RowsAreCommitted, At, Key, Input, TypeOK
<1>3. answer = "replayed" => \E id \in Ids : idem[Key(r)] = id /\ Exists(id)
  <2> SUFFICES ASSUME answer = "replayed"
               PROVE  \E id \in Ids : idem[Key(r)] = id /\ Exists(id)
    OBVIOUS
  <2>1. /\ Key(r) \in Keys /\ idem[Key(r)] \in Ids /\ Key(r) # NoKey
        /\ Key(idem[Key(r)]) = Key(r)
    BY <1>2 DEF Recorded, ReplyInv
  <2> QED
    BY <2>1 DEF KeyInv, KeyNamesItsBooking
<1>4. ReplyTruthful'
  BY <1>1, <1>2, <1>3 DEF ReplyInv, ReplyTruthful, Key, Exists, TypeOK
<1>5. answer = "replayed" => Key(r) \in Keys
  BY <1>2 DEF Recorded
<1> QED
  BY <1>1, <1>4, <1>5 DEF ReplyInv, At, Key, TypeOK

\* A commit makes the booking it answers with.
LEMMA CommitReplies ==
  ASSUME TypeOK, RowsAreCommitted, KeyInv, ReplyInv, NEW r \in Ids, Commit(r)
  PROVE  ReplyInv'
<1>1. PICK answer \in {"created", "lost"} : reply' = [reply EXCEPT ![r] = answer]
  BY DEF Commit, End
<1>2. /\ pc' = [pc EXCEPT ![r] = "done"]
      /\ UNCHANGED req
      /\ bookings'[r] = NewRow(r)
      /\ \A q \in Ids : q # r => bookings'[q] = bookings[q]
      /\ idem' = IF Key(r) = NoKey THEN idem ELSE [idem EXCEPT ![Key(r)] = r]
  BY DEF Commit, End, Goto, TypeOK, TableTypeOK
<1>3. Exists(r)'
  <2>1. NewRow(r) \in Row
    BY RequestType DEF NewRow, Row, Statuses, Type, Input, TypeOK, TableTypeOK
  <2> QED
    BY <1>2, <2>1, BookingTableAssumption DEF Exists
<1>4. /\ \A q \in Ids : Key(q) \in Keys \cup {NoKey}
      /\ Key(r) # NoKey => idem[Key(r)] = NoOne
  BY BookingTxnAssumption DEF Input, Key, TypeOK, Commit, ReadyToCommit, KeyInv
<1>5. ReplyTruthful'
  <2> SUFFICES ASSUME NEW q \in Ids
               PROVE  /\ reply'[q] = "created" => Exists(q)'
                      /\ reply'[q] = "replayed" =>
                           \E id \in Ids : idem'[Key(q)'] = id /\ Exists(id)'
                      /\ reply'[q] \notin {"created", "lost"} => ~Exists(q)'
    BY DEF ReplyTruthful
  <2>1. CASE q = r
    BY <1>1, <1>3, <2>1 DEF TypeOK
  <2>2. CASE q # r
    <3>1. reply'[q] = reply[q] /\ (Exists(q)' <=> Exists(q)) /\ Key(q)' = Key(q)
      BY <1>1, <1>2, <2>2 DEF TypeOK, Exists, Key
    <3>2. ASSUME reply[q] = "replayed"
          PROVE  \E id \in Ids : idem'[Key(q)] = id /\ Exists(id)'
      <4>0. Key(q) \in Keys
        BY <3>2 DEF ReplyInv
      <4>1. PICK id \in Ids : idem[Key(q)] = id /\ Exists(id)
        BY <3>2 DEF ReplyInv, ReplyTruthful
      <4>2. idem'[Key(q)] = id
        BY <1>2, <1>4, <4>0, <4>1, BookingTxnAssumption DEF TypeOK
      <4>3. Exists(id)'
        BY <1>2, <1>3, <4>1 DEF Exists
      <4> QED
        BY <4>2, <4>3
    <3> QED
      BY <3>1, <3>2 DEF ReplyInv, ReplyTruthful
  <2> QED
    BY <2>1, <2>2
<1>6. \A q \in Ids : ~At(q, "done")' => reply'[q] = "none"
  BY <1>1, <1>2 DEF ReplyInv, At, TypeOK
<1>7. \A q \in Ids : reply'[q] = "replayed" => Key(q)' \in Keys
  BY <1>1, <1>2 DEF ReplyInv, Key, TypeOK
<1>8. \A k \in Keys : idem'[k] # NoOne => idem'[k] \in Ids /\ Key(idem'[k]) = k
  BY <1>2 DEF ReplyInv, TypeOK
<1>9. \A k \in Keys : idem'[k] # NoOne => idem'[k] \in Ids /\ req'[idem'[k]].key = k
  BY <1>2, <1>8 DEF Key
<1> QED
  BY <1>5, <1>6, <1>7, <1>9 DEF ReplyInv, Key

\* Whichever request takes a step, the answers stay true.
LEMMA StepReplies ==
  ASSUME TypeOK, RowsAreCommitted, KeyInv, ReplyInv, NEW r \in Ids, Step(r) \/ Crash(r)
  PROVE  ReplyInv'
<1>1. CASE Commit(r)
  BY <1>1, CommitReplies
<1>2. CASE Reject(r) \/ Replay(r) \/ RefuseUnlisted(r) \/ RefuseFull(r)
           \/ RetryInsert(r) \/ KeyTaken(r) \/ Crash(r)
  <2>1. ~At(r, "done")
    BY <1>2 DEF Reject, Replay, RefuseUnlisted, RefuseFull, RetryInsert, KeyTaken, Crash,
                At, InTxn
  <2>2. \E answer \in Replies \ {"created"} :
           Rollback(r, answer) /\ (answer = "replayed" => Recorded(Key(r)))
    BY <1>2 DEF Reject, Replay, RefuseUnlisted, RefuseFull, RetryInsert, KeyTaken, Crash,
                Replies
  <2> QED
    BY <2>1, <2>2, RollbackReplies
<1>3. CASE Begin(r) \/ NoKeySeen(r) \/ Lock(r) \/ CheckInventory(r) \/ UpsertGuest(r)
           \/ CodeCollision(r) \/ InsertBooking(r) \/ RecordKey(r)
  <2>1. /\ UNCHANGED <<bookings, req, reply, idem>>
        /\ ~At(r, "done")
        /\ \A q \in Ids : q # r => pc'[q] = pc[q]
    BY <1>3 DEF Begin, NoKeySeen, Lock, CheckInventory, UpsertGuest, CodeCollision,
                InsertBooking, RecordKey, At, Goto, tableVars, TypeOK
  <2>2. ReplyTruthful'
    BY <2>1 DEF ReplyInv, ReplyTruthful, Key, Exists
  <2>3. \A q \in Ids : ~At(q, "done")' => reply'[q] = "none"
    BY <2>1 DEF ReplyInv, At
  <2> QED
    BY <2>1, <2>2, <2>3 DEF ReplyInv, Key
<1> QED
  BY <1>1, <1>2, <1>3 DEF Step

LEMMA EnvironmentKeepsReplies ==
  ASSUME TypeOK, ReplyInv, TableNext \/ UNCHANGED tableVars, UNCHANGED requestVars
  PROVE  ReplyInv'
  BY EnvironmentKeepsRows DEF ReplyInv, ReplyTruthful, Key, At, requestVars

\* A 201 has its booking, a replay names one, and a refusal left none behind.
THEOREM RepliesAreTrue == Spec => []ReplyTruthful
<1>1. Init => ReplyInv
  BY DEF Init, TableInit, ReplyInv, ReplyTruthful, Exists
<1>2. IInv /\ KeyInv /\ ReplyInv /\ [Next]_vars => ReplyInv'
  <2> SUFFICES ASSUME IInv, KeyInv, ReplyInv, [Next]_vars
               PROVE  ReplyInv'
    OBVIOUS
  <2>1. ASSUME NEW r \in Ids, Step(r) \/ Crash(r)
        PROVE  ReplyInv'
    BY <2>1, StepReplies DEF IInv
  <2>2. CASE Environment
    BY <2>2, EnvironmentKeepsReplies DEF IInv, Environment
  <2>3. CASE UNCHANGED vars
    BY <2>3, EnvironmentKeepsReplies DEF IInv, vars
  <2> QED
    BY <2>1, <2>2, <2>3 DEF Next, Idle
<1>3. ReplyInv => ReplyTruthful
  BY DEF ReplyInv
<1> QED
  BY <1>1, <1>2, <1>3, Invariance, KeyInvariance, PTL DEF Spec

-----------------------------------------------------------------------------
(* Waiting.                                                                *)

\* Whoever has an advisory lock is in the part of the transaction that needs it.
LockLive == \A k \in LockKeys, q \in Ids : lock[k] = q => pc[q] \in HoldsLock

\* Every way out of that part gives the lock up.
LEMMA StepLockLive ==
  ASSUME TypeOK, LockLive, NEW r \in Ids, Step(r) \/ Crash(r)
  PROVE  LockLive'
<1> USE DEF TypeOK, LockLive, At, Goto, Rollback, End, Released
<1>0. NoOne \notin Ids
  BY BookingTxnAssumption
<1>1. CASE Commit(r)
  BY <1>0, <1>1 DEF Commit
<1>2. CASE Reject(r) \/ Replay(r) \/ RefuseUnlisted(r) \/ RefuseFull(r)
           \/ RetryInsert(r) \/ KeyTaken(r) \/ Crash(r)
  BY <1>0, <1>2 DEF Reject, Replay, RefuseUnlisted, RefuseFull, RetryInsert,
                    KeyTaken, Crash
<1>3. CASE Begin(r) \/ NoKeySeen(r)
  BY <1>3 DEF Begin, NoKeySeen, HoldsLock
<1>4. CASE Lock(r)
  BY <1>4 DEF Lock, HoldsLock
<1>5. CASE CheckInventory(r) \/ UpsertGuest(r) \/ InsertBooking(r) \/ RecordKey(r)
  BY <1>5 DEF CheckInventory, UpsertGuest, InsertBooking, RecordKey, HoldsLock
<1>6. CASE CodeCollision(r)
  BY <1>0, <1>6 DEF CodeCollision
<1> QED
  BY <1>1, <1>2, <1>3, <1>4, <1>5, <1>6 DEF Step

\* A request waits only for requests that have come further than itself, and none
\* of them has ended.
LEMMA AwaitedIsFurther ==
  ASSUME TypeOK, LockLive, NEW r \in Ids, NEW q \in Awaited(r)
  PROVE  /\ q \in Ids
         /\ \/ At(r, "received") /\ pc[q] \in InTxn
            \/ At(r, "unlocked") /\ pc[q] \in HoldsLock
            \/ At(r, "cleared") /\ pc[q] \in HoldsGuest
            \/ At(r, "inserted") /\ At(q, "keyed")
<1>1. CASE At(r, "received")
  BY <1>1 DEF Awaited, Connected, At
<1>2. CASE At(r, "unlocked")
  <2>1. q = lock[Lk(r)] /\ q # NoOne
    BY <1>2 DEF Awaited, At
  <2> QED
    BY <1>2, <2>1, RequestType DEF TypeOK, LockLive
<1>3. CASE At(r, "cleared")
  BY <1>3 DEF Awaited, GuestHolders, At
<1>4. CASE At(r, "inserted")
  BY <1>4 DEF Awaited, KeyHolders, At
<1>5. CASE pc[r] \notin {"received", "unlocked", "cleared", "inserted"}
  BY <1>5 DEF Awaited, At
<1> QED
  BY <1>1, <1>2, <1>3, <1>4, <1>5 DEF At

\* So of the unfinished requests of a set, one that has come furthest waits for
\* nobody in it.
LEMMA FurthestIsFree ==
  ASSUME TypeOK, LockLive, NEW S \in SUBSET Ids, NEW r0 \in S, ~At(r0, "done")
  PROVE  \E r \in S : ~At(r, "done") /\ Awaited(r) \cap S = {}
<1> USE AwaitedIsFurther DEF At
<1>1. CASE \E r \in S : pc[r] \in Stages \ {"received", "unlocked", "cleared", "inserted", "done"}
  BY <1>1
<1>2. CASE \E r \in S : pc[r] = "inserted"
  <2>1. CASE \E r \in S : pc[r] = "keyed"
    BY <1>1, <2>1 DEF Stages
  <2> QED
    BY <1>2, <2>1
<1>3. CASE /\ \A r \in S : pc[r] \in {"received", "unlocked", "cleared", "done"}
           /\ \E r \in S : pc[r] = "cleared"
  BY <1>3 DEF HoldsGuest
<1>4. CASE /\ \A r \in S : pc[r] \in {"received", "unlocked", "done"}
           /\ \E r \in S : pc[r] = "unlocked"
  BY <1>4 DEF HoldsLock
<1>5. CASE \A r \in S : pc[r] \in {"received", "done"}
  BY <1>5 DEF InTxn
<1>6. \A r \in S : pc[r] \in Stages
  BY DEF TypeOK
<1> QED
  BY <1>1, <1>2, <1>3, <1>4, <1>5, <1>6 DEF Stages

\* Requests never wait in a circle, nor for one that has ended, whatever the pool,
\* the locks two room types share, the guests and the keys.
THEOREM BookingNeverDeadlocks == Spec => []NoDeadlock
<1>1. Init => LockLive
  BY BookingTxnAssumption DEF Init, LockLive
<1>2. IInv /\ LockLive /\ [Next]_vars => LockLive'
  <2> SUFFICES ASSUME IInv, LockLive, [Next]_vars
               PROVE  LockLive'
    OBVIOUS
  <2>1. ASSUME NEW r \in Ids, Step(r) \/ Crash(r)
        PROVE  LockLive'
    BY <2>1, StepLockLive DEF IInv
  <2>2. CASE UNCHANGED requestVars
    BY <2>2 DEF LockLive, requestVars
  <2> QED
    BY <2>1, <2>2 DEF Next, Idle, Environment, vars
<1>3. IInv /\ LockLive => NoDeadlock
  BY FurthestIsFree DEF IInv, NoDeadlock
<1> QED
  BY <1>1, <1>2, <1>3, Invariance, PTL DEF Spec

-----------------------------------------------------------------------------
(* createBooking implements Inventory.                                      *)

\* A commit books one room in one step, on time.
LEMMA CommitBooks ==
  ASSUME IInv, NEW r \in Ids, Commit(r)
  PROVE  Abs!Book(r, bookings'[r])
<1>0. TypeOK /\ TableTypeOK
  BY DEF IInv, TypeOK
<1>1. NewRow(r) \in Row
  BY <1>0, RequestType DEF NewRow, Row, Statuses, Type, Input, TypeOK
<1>2. /\ bookings' = [bookings EXCEPT ![r] = NewRow(r)]
      /\ bookings'[r] = NewRow(r)
      /\ UNCHANGED <<clock, late>>
  BY <1>0 DEF Commit, TableTypeOK
<1>3. pc[r] \in {"inserted", "keyed"}
  BY DEF Commit, ReadyToCommit, At
<1>4. ~Exists(r) /\ Valid(r) /\ hold[r] <= clock + HoldTime
  BY <1>3 DEF IInv, RowsAreCommitted, TimesBounded, InTxn, Stages
<1>5. Cardinality(OnTimeOccupying(NewRow(r).roomType, NewRow(r).checkin,
                                  NewRow(r).checkout)) < Rooms[NewRow(r).roomType]
  BY <1>3 DEF IInv, RoomLeftForInsert, PassedCheck, NewRow
<1>6. OnTimeOccupying(NewRow(r).roomType, NewRow(r).checkin, NewRow(r).checkout)
        = Abs!OnTimeOccupying(NewRow(r).roomType, NewRow(r).checkin, NewRow(r).checkout)
  BY DEF OnTimeOccupying, OnTime, Exists, Overlaps,
         Abs!OnTimeOccupying, Abs!OnTime, Abs!Exists, Abs!Overlaps
<1>7. /\ NewRow(r).status = "pending"
      /\ NewRow(r).checkin < NewRow(r).checkout
      /\ NewRow(r).hold <= clock + HoldTime
  BY <1>4 DEF NewRow, Valid
<1>8. ~Abs!Exists(r) /\ NewRow(r) \in Abs!Row
  BY <1>1, <1>4 DEF Exists, Abs!Exists, Row, Abs!Row, Statuses, Abs!Statuses, Days,
                    Abs!Days
<1>9. \A S : Abs!Cardinality(S) = Cardinality(S)
  BY DEF Cardinality, Abs!Cardinality
<1> QED
  BY <1>2, <1>5, <1>6, <1>7, <1>8, <1>9 DEF Abs!Book

\* The steps on existing rows are those of Inventory.
LEMMA SameTableNext == TableNext => Abs!TableNext
  BY DEF TableNext, Tick, Confirm, Cancel, Cancellable, ExpireHolds, Lapsed, SetStatus,
         Exists, OnTime, Abs!TableNext, Abs!Tick, Abs!Confirm, Abs!Cancel,
         Abs!Cancellable, Abs!ExpireHolds, Abs!Lapsed, Abs!SetStatus, Abs!Exists,
         Abs!OnTime

\* With its locks, waits, crashes and retries, createBooking books rooms as Inventory
\* does: in one step, and only when an on-time booking fits.
THEOREM BookingImplementsInventory == Spec => ImplementsInventory
<1>1. Init => Abs!Init
  BY DEF Init, TableInit, Abs!Init, Abs!TableInit
<1>2. IInv /\ [Next]_vars => [Abs!Next]_Abs!tableVars
  <2> SUFFICES ASSUME IInv, [Next]_vars
               PROVE  [Abs!Next]_Abs!tableVars
    OBVIOUS
  <2>1. ASSUME NEW r \in Ids, Step(r) \/ Crash(r)
        PROVE  [Abs!Next]_Abs!tableVars
    <3>1. CASE Commit(r)
      BY <3>1, CommitBooks DEF Abs!Next
    <3>2. CASE ~Commit(r)
      BY <2>1, <3>2, StepTable DEF tableVars, Abs!tableVars
    <3> QED
      BY <3>1, <3>2
  <2>2. CASE Environment
    BY <2>2, SameTableNext DEF Environment, Abs!Next
  <2>3. CASE UNCHANGED vars
    BY <2>3 DEF vars, tableVars, Abs!tableVars
  <2> QED
    BY <2>1, <2>2, <2>3 DEF Next, Idle
<1> QED
  BY <1>1, <1>2, Invariance, PTL DEF Spec, ImplementsInventory, Abs!Spec
=============================================================================
