----------------------------- MODULE BookingTxn -----------------------------
(***************************************************************************)
(* createBooking of bookingService.js: one transaction per POST /bookings,  *)
(* interleaved with other requests at every await.  A request that gets as  *)
(* far as INSERT INTO bookings creates the row with the request's own id.   *)
(*                                                                         *)
(* A row, a key and a guest written by a transaction are seen by others     *)
(* only once it commits; what it has written so far is what `pc` says it    *)
(* has passed.  A statement that meets an uncommitted row with the same     *)
(* unique value waits for that transaction to end, and a statement that     *)
(* fails aborts its transaction, which gives up every lock at once.         *)
(***************************************************************************)
EXTENDS BookingTable

CONSTANTS
  Keys,      \* Idempotency-Key values
  NoKey,     \* a request without the header
  Loads,     \* what the requests of a behaviour ask for: [Ids -> Input]
  LockKeys,  \* values of hashtext(room_type_id)
  LockKey,   \* LockKey[rt]: that hash; two room types may share one
  PoolSize,  \* connections of the pg Pool
  NoOne      \* no booking, no lock holder

\* `complete`: no field is missing.  `listed`: the room type belongs to the
\* branch the request names.
Input == [roomType : RoomTypes, guest : Guests, checkin : Days, checkout : Days,
          key : Keys \cup {NoKey}, complete : BOOLEAN, listed : BOOLEAN]

ASSUME BookingTxnAssumption ==
  /\ Loads \subseteq [Ids -> Input]
  /\ LockKey \in [RoomTypes -> LockKeys]
  /\ PoolSize \in Nat \ {0}
  /\ NoKey \notin Keys
  /\ NoOne \notin Ids

VARIABLES
  req,    \* req[r]: what request r asks for
  pc,     \* pc[r]: how far request r has come
  start,  \* start[r]: now() in the transaction of r, the time of its BEGIN
  hold,   \* hold[r]: the hold_expires_at that r computed
  reply,  \* reply[r]: what the client of r got
  lock,   \* pg_advisory_xact_lock: the holder of each key
  idem    \* idempotency_keys: the booking whose response is recorded

requestVars == <<req, pc, start, hold, reply, lock, idem>>
vars == <<tableVars, requestVars>>

Replies == {"none",          \* not answered yet
            "rejected",      \* 400 or 422, before any transaction
            "replayed",      \* the recorded response of an earlier request
            "notFound",      \* 404 ROOM_TYPE_NOT_FOUND
            "unavailable",   \* 409 ROOM_NOT_AVAILABLE
            "created",       \* 201
            "codeError",     \* 500 after a booking_code collision
            "keyError",      \* 500 after a duplicate idempotency key
            "lost"}          \* the connection or the process died, or another 500

\* "received": waits for a connection.  "begun": inside BEGIN.  "unlocked":
\* the key was not recorded.  "locked": holds the advisory lock.  "cleared":
\* a room was left.  "upserted": has the guest row.  "aborted": a statement
\* failed.  "inserted": has the booking row.  "keyed": has the key row.
Stages == {"received", "begun", "unlocked", "locked", "cleared", "upserted",
           "aborted", "inserted", "keyed", "done"}

InTxn == Stages \ {"received", "done"}
HoldsLock == {"locked", "cleared", "upserted", "inserted", "keyed"}
HoldsGuest == {"upserted", "inserted", "keyed"}
PassedCheck == {"cleared", "upserted", "inserted", "keyed"}

Type(r) == req[r].roomType
Lk(r) == LockKey[Type(r)]
Key(r) == req[r].key

TypeOK ==
  /\ TableTypeOK
  /\ req \in [Ids -> Input]
  /\ pc \in [Ids -> Stages]
  /\ start \in [Ids -> Nat]
  /\ hold \in [Ids -> Nat]
  /\ reply \in [Ids -> Replies]
  /\ lock \in [LockKeys -> Ids \cup {NoOne}]
  /\ idem \in [Keys -> Ids \cup {NoOne}]

Init ==
  /\ TableInit
  /\ req \in Loads
  /\ pc = [r \in Ids |-> "received"]
  /\ start = [r \in Ids |-> 0]
  /\ hold = [r \in Ids |-> 0]
  /\ reply = [r \in Ids |-> "none"]
  /\ lock = [k \in LockKeys |-> NoOne]
  /\ idem = [k \in Keys |-> NoOne]

-----------------------------------------------------------------------------
(* The steps of one request.                                               *)

At(r, stage) == pc[r] = stage
Goto(r, stage) == pc' = [pc EXCEPT ![r] = stage]

\* Mutant of Released: a rolled-back or committed transaction keeps its lock.
StillHeld(r) == lock

\* The lock table once request r has given up what it holds.
Released(r) == [k \in LockKeys |-> IF lock[k] = r THEN NoOne ELSE lock[k]]

\* COMMIT or ROLLBACK, and the answer to the client.  The transaction's
\* memory is forgotten with it.
End(r, answer) ==
  /\ Goto(r, "done")
  /\ reply' = [reply EXCEPT ![r] = answer]
  /\ lock' = Released(r)
  /\ start' = [start EXCEPT ![r] = 0]
  /\ hold' = [hold EXCEPT ![r] = 0]
  /\ UNCHANGED req

\* End of a transaction that leaves nothing behind.
Rollback(r, answer) == End(r, answer) /\ UNCHANGED <<tableVars, idem>>

Valid(r) == req[r].complete /\ req[r].checkin < req[r].checkout

Reject(r) ==
  /\ At(r, "received")
  /\ ~Valid(r)
  /\ Rollback(r, "rejected")

\* The requests that have a connection.
Connected == {q \in Ids : pc[q] \in InTxn}

\* pool.connect() waits while all PoolSize connections are in use.
Begin(r) ==
  /\ At(r, "received")
  /\ Valid(r)
  /\ Cardinality(Connected) < PoolSize
  /\ Goto(r, "begun")
  /\ start' = [start EXCEPT ![r] = clock]
  /\ UNCHANGED <<tableVars, req, hold, reply, lock, idem>>

Recorded(k) == k # NoKey /\ idem[k] # NoOne

Replay(r) ==
  /\ At(r, "begun")
  /\ Recorded(Key(r))
  /\ Rollback(r, "replayed")

NoKeySeen(r) ==
  /\ At(r, "begun")
  /\ ~Recorded(Key(r))
  /\ Goto(r, "unlocked")
  /\ UNCHANGED <<tableVars, req, start, hold, reply, lock, idem>>

\* Mutant of Lock: the lock is taken whoever holds it.
LockWithoutWaiting(r) ==
  /\ At(r, "unlocked")
  /\ lock' = [lock EXCEPT ![Lk(r)] = r]
  /\ Goto(r, "locked")
  /\ UNCHANGED <<tableVars, req, start, hold, reply, idem>>

\* SELECT pg_advisory_xact_lock(hashtext(room_type_id)).
Lock(r) ==
  /\ At(r, "unlocked")
  /\ lock[Lk(r)] = NoOne
  /\ lock' = [lock EXCEPT ![Lk(r)] = r]
  /\ Goto(r, "locked")
  /\ UNCHANGED <<tableVars, req, start, hold, reply, idem>>

\* Mutant of RoomLeft: one room too many.
RoomLeftOffByOne(r) ==
  Remaining(Type(r), req[r].checkin, req[r].checkout, start[r]) >= 0

\* The count is taken with the now() of the BEGIN, however long the request
\* waited for the lock since.
RoomLeft(r) ==
  Remaining(Type(r), req[r].checkin, req[r].checkout, start[r]) > 0

RefuseUnlisted(r) ==
  /\ At(r, "locked")
  /\ ~req[r].listed
  /\ Rollback(r, "notFound")

RefuseFull(r) ==
  /\ At(r, "locked")
  /\ req[r].listed
  /\ ~RoomLeft(r)
  /\ Rollback(r, "unavailable")

CheckInventory(r) ==
  /\ At(r, "locked")
  /\ req[r].listed
  /\ RoomLeft(r)
  /\ Goto(r, "cleared")
  /\ UNCHANGED <<tableVars, req, start, hold, reply, lock, idem>>

\* The transactions that have written the guest of r.
GuestHolders(r) == {q \in Ids : pc[q] \in HoldsGuest /\ req[q].guest = req[r].guest}

\* INSERT INTO guests ... ON CONFLICT (email) DO UPDATE waits for a
\* transaction that holds the row.
UpsertGuest(r) ==
  /\ At(r, "cleared")
  /\ GuestHolders(r) = {}
  /\ Goto(r, "upserted")
  /\ UNCHANGED <<tableVars, req, start, hold, reply, lock, idem>>

\* The hold is computed just before the INSERT INTO bookings.
InsertBooking(r) ==
  /\ At(r, "upserted")
  /\ Goto(r, "inserted")
  /\ hold' = [hold EXCEPT ![r] = clock + HoldTime]
  /\ UNCHANGED <<tableVars, req, start, reply, lock, idem>>

\* The random booking_code is that of an existing booking: the INSERT fails
\* and the transaction is aborted.
CodeCollision(r) ==
  /\ At(r, "upserted")
  /\ \E id \in Ids : Exists(id)
  /\ Goto(r, "aborted")
  /\ lock' = Released(r)
  /\ UNCHANGED <<tableVars, req, start, hold, reply, idem>>

\* The loop's next INSERT finds the transaction aborted and is not retried.
RetryInsert(r) ==
  /\ At(r, "aborted")
  /\ Rollback(r, "codeError")

\* INSERT INTO idempotency_keys waits for a transaction that has inserted the
\* same key.
KeyHolders(r) == {q \in Ids : At(q, "keyed") /\ Key(q) = Key(r)}

\* Mutant of RecordKey: the key is written over an earlier one.
RecordKeyOverwriting(r) ==
  /\ At(r, "inserted")
  /\ Key(r) # NoKey
  /\ KeyHolders(r) = {}
  /\ Goto(r, "keyed")
  /\ UNCHANGED <<tableVars, req, start, hold, reply, lock, idem>>

RecordKey(r) ==
  /\ At(r, "inserted")
  /\ Key(r) # NoKey
  /\ KeyHolders(r) = {}
  /\ idem[Key(r)] = NoOne
  /\ Goto(r, "keyed")
  /\ UNCHANGED <<tableVars, req, start, hold, reply, lock, idem>>

\* Mutant of NewRow: the stay ends a day late.
NewRowDayLate(r) == [roomType |-> Type(r), guest |-> req[r].guest,
                     checkin |-> req[r].checkin, checkout |-> req[r].checkout + 1,
                     status |-> "pending", hold |-> hold[r]]

NewRow(r) == [roomType |-> Type(r), guest |-> req[r].guest,
              checkin |-> req[r].checkin, checkout |-> req[r].checkout,
              status |-> "pending", hold |-> hold[r]]

\* Mutant of KeyTaken: the duplicate key is reported and the booking committed.
KeyTakenAndCommitted(r) ==
  /\ At(r, "inserted")
  /\ Key(r) # NoKey
  /\ KeyHolders(r) = {}
  /\ idem[Key(r)] # NoOne
  /\ bookings' = [bookings EXCEPT ![r] = NewRow(r)]
  /\ End(r, "keyError")
  /\ UNCHANGED <<clock, late, idem>>

KeyTaken(r) ==
  /\ At(r, "inserted")
  /\ Key(r) # NoKey
  /\ KeyHolders(r) = {}
  /\ idem[Key(r)] # NoOne
  /\ Rollback(r, "keyError")

ReadyToCommit(r) == At(r, "keyed") \/ (At(r, "inserted") /\ Key(r) = NoKey)

\* The connection may die after the commit and before the answer.
Commit(r) ==
  /\ ReadyToCommit(r)
  /\ bookings' = [bookings EXCEPT ![r] = NewRow(r)]
  /\ idem' = IF Key(r) = NoKey THEN idem ELSE [idem EXCEPT ![Key(r)] = r]
  /\ \E answer \in {"created", "lost"} : End(r, answer)
  /\ UNCHANGED <<clock, late>>

\* The connection or the process dies, or a statement fails for a reason of its
\* own (a guest without a name): the transaction is rolled back.
Crash(r) ==
  /\ pc[r] \in InTxn
  /\ Rollback(r, "lost")

-----------------------------------------------------------------------------

Step(r) ==
  \/ Reject(r) \/ Begin(r) \/ Replay(r) \/ NoKeySeen(r) \/ Lock(r)
  \/ RefuseUnlisted(r) \/ RefuseFull(r) \/ CheckInventory(r)
  \/ UpsertGuest(r) \/ InsertBooking(r) \/ CodeCollision(r) \/ RetryInsert(r)
  \/ RecordKey(r) \/ KeyTaken(r) \/ Commit(r)

\* The payment, cancellation and job components at work on the same table.
Environment == TableNext /\ UNCHANGED requestVars

AllDone == \A r \in Ids : At(r, "done")

\* Every request has been answered: the system may idle.
Idle == AllDone /\ UNCHANGED vars

Next ==
  \/ \E r \in Ids : Step(r) \/ Crash(r)
  \/ Environment
  \/ Idle

Spec == Init /\ [][Next]_vars

\* The event loop and PostgreSQL serve every request that can go on.  Nothing
\* is assumed of crashes, of the clock or of the other components.
Fairness == \A r \in Ids : WF_vars(Step(r))

FairSpec == Spec /\ Fairness

-----------------------------------------------------------------------------
(* Safety.                                                                 *)

\* The count of createBooking stays true until its INSERT commits: while a
\* request is past the check, fewer on-time bookings than rooms overlap its
\* stay, whatever other requests, payments, cancellations and sweeps do in
\* between ("no other request for this room_type can insert a competing
\* booking between this check and our own INSERT below").
RoomLeftForInsert ==
  \A r \in Ids : pc[r] \in PassedCheck =>
     Cardinality(OnTimeOccupying(Type(r), req[r].checkin, req[r].checkout))
       < Rooms[Type(r)]

\* An idempotency key and the booking made under it appear together or not at
\* all, through crashes, duplicates and concurrent retries; so no two bookings
\* are made under one key ("a retry with the same key is guaranteed to see it
\* (or neither)").
KeyNamesItsBooking ==
  \A r \in Ids : Key(r) # NoKey => (Exists(r) <=> idem[Key(r)] = r)

\* What a client is told is what happened: a 201 has its booking, a replayed
\* response names a booking that exists, and a refusal or an error other than
\* a lost connection left no booking behind.
ReplyTruthful ==
  \A r \in Ids :
     /\ reply[r] = "created" => Exists(r)
     /\ reply[r] = "replayed" => \E id \in Ids : idem[Key(r)] = id /\ Exists(id)
     /\ reply[r] \notin {"created", "lost"} => ~Exists(r)

\* The requests of which one has to end before r's next statement returns.
Awaited(r) ==
  CASE At(r, "received") /\ Valid(r) ->
         IF Cardinality(Connected) < PoolSize THEN {} ELSE Connected
    [] At(r, "unlocked")                       -> {lock[Lk(r)]} \ {NoOne}
    [] At(r, "cleared")                        -> GuestHolders(r)
    [] At(r, "inserted") /\ Key(r) # NoKey     -> KeyHolders(r)
    [] OTHER                                   -> {}

\* Connections, advisory locks, guest rows and key rows are never waited for in a
\* circle, nor from a request that has ended: among the unfinished requests of
\* any set there is one that waits for nobody in it.
NoDeadlock ==
  \A S \in SUBSET Ids : (\E r \in S : ~At(r, "done")) =>
     \E r \in S : ~At(r, "done") /\ Awaited(r) \cap S = {}

Abs == INSTANCE Inventory WITH clock <- clock, bookings <- bookings, late <- late

\* createBooking, with its locks and its unguarded steps, books a room as
\* Inventory does: in one step, and only when an on-time booking fits.
ImplementsInventory == Abs!Spec

-----------------------------------------------------------------------------
(* Liveness.                                                               *)

\* Every request is answered: the advisory lock, the guest row, the key row
\* and the connection pool are waited for in an order that never closes a
\* circle, and every way out of the transaction gives them up.
Answered == \A r \in Ids : <>(At(r, "done"))

-----------------------------------------------------------------------------
(* What the comments of the code say and the code does not do.             *)

\* "Backs idempotent POST /bookings: same Idempotency-Key always returns the
\* same response" (001_init.sql): once the booking of a key was created,
\* every later answer to that key is the recorded one.
SameKeySameReply ==
  [][\A q, r \in Ids :
       /\ Key(r) = Key(q) /\ Key(q) # NoKey
       /\ reply[q] = "created" /\ reply[r] = "none"
       => reply'[r] \in {"none", "replayed", "lost"}]_vars

\* "collision on booking_code - regenerate and retry" (bookingService.js): one
\* collision does not fail a request.
CollisionIsRetried == \A r \in Ids : reply[r] # "codeError"
=============================================================================
