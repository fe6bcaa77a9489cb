------------------------------- MODULE PointsTxn -----------------------------
(***************************************************************************)
(* The transactions that touch loyalty points, statement by statement: the  *)
(* redemption (loyaltyService.js), the two ways a payment is settled and    *)
(* points are earned (paymentService.js), the cancellation that takes them  *)
(* back (cancellationService.js), and the job that sweeps lapsed holds, for *)
(* the row locks it takes.                                                  *)
(*                                                                         *)
(* A transaction takes row locks one statement at a time and keeps them to  *)
(* its end; what it writes shows when it commits.  Transactions that wait    *)
(* for each other are a deadlock, of which PostgreSQL aborts one.           *)
(***************************************************************************)
EXTENDS Pricing, Sequences, FiniteSets

CONSTANTS
  Txns,       \* transactions, one for each request, event or run of the job
  Loads,      \* what the transactions of a behaviour do: [Txns -> Input]
  Bookings,
  Payments,
  Guests,
  GuestOf,    \* GuestOf[b]: the guest of booking b
  BookingOf,  \* BookingOf[p]: the booking of payment p
  Attempted,  \* payments with a pending row at the start
  FullPrice,  \* total_price of a booking at the start
  Bonus,      \* points_balance of a guest at the start
  NoBooking,  \* no booking
  NoOne       \* nobody holds the lock

\* "charge": a card payment that settles at once.  "event": a gateway says that
\* a payment succeeded.  `points`: how many are redeemed.  `refund`: whether the
\* policy refunds anything.
Input == [op : {"charge", "event", "redeem", "cancel", "sweep"},
          payment : Payments, booking : Bookings, points : Nat, refund : BOOLEAN]

Lockable == Bookings \cup Payments \cup Guests

VARIABLES
  req,     \* req[t]: what transaction t does
  pc,      \* pc[t]: how far it has come
  read,    \* read[t]: the points_balance that t computes with
  lock,    \* lock[x]: the transaction that has locked row x
  status,  \* bookings.status
  lapsed,  \* the bookings whose hold is over, from the first step to the last
  paid,    \* payments.status, "none" before the row exists
  points,  \* guests.points_balance
  rows,    \* rows[g]: the loyalty_transactions of guest g, in order
  total    \* bookings.total_price

txnVars == <<req, pc, read, lock>>
stateVars == <<status, lapsed, paid>>
pointVars == <<points, rows, total>>
vars == <<txnVars, stateVars, pointVars>>

L == INSTANCE Ledger WITH balance <- points, ledger <- rows, price <- total

ASSUME PointsTxnAssumption ==
  /\ Loads \subseteq [Txns -> Input]
  /\ \A load \in Loads : \A t \in Txns : load[t].op = "charge" =>
       load[t].payment \notin Attempted /\ BookingOf[load[t].payment] = load[t].booking
  /\ GuestOf \in [Bookings -> Guests]
  /\ BookingOf \in [Payments -> Bookings]
  /\ Attempted \subseteq Payments /\ IsFiniteSet(Payments)
  /\ FullPrice \in Nat /\ FullPrice >= 100  \* enough to earn a point
  /\ Bonus \in Nat
  /\ NoBooking \notin Bookings /\ NoOne \notin Txns
  /\ Bookings \cap Payments = {} /\ Bookings \cap Guests = {} /\ Payments \cap Guests = {}

\* "begun": inside BEGIN.  "payment", "booking": has that row.  "refunded": the
\* gateway was asked.  "guest": has the guest's row.  "swept": has the bookings.
Stages == {"begun", "payment", "booking", "refunded", "guest", "swept", "done"}

TypeOK ==
  /\ req \in [Txns -> Input]
  /\ pc \in [Txns -> Stages]
  /\ read \in [Txns -> Nat]
  /\ lock \in [Lockable -> Txns \cup {NoOne}]
  /\ status \in [Bookings -> {"pending", "confirmed", "cancelled", "expired"}]
  /\ lapsed \in SUBSET Bookings
  /\ paid \in [Payments -> {"none", "pending", "paid", "failed", "refunded"}]
  /\ points \in [Guests -> Nat]
  /\ rows \in [Guests -> Seq(L!Entry)]
  /\ total \in [Bookings -> Nat]

Init ==
  /\ req \in Loads
  /\ pc = [t \in Txns |-> "begun"]
  /\ read = [t \in Txns |-> 0]
  /\ lock = [x \in Lockable |-> NoOne]
  /\ status = [b \in Bookings |-> "pending"]
  /\ lapsed \in SUBSET Bookings
  /\ paid = [p \in Payments |-> IF p \in Attempted THEN "pending" ELSE "none"]
  /\ L!Init

-----------------------------------------------------------------------------
(* Locks, and the end of a transaction.                                    *)

Op(t) == req[t].op
Payment(t) == req[t].payment
Booking(t) == IF Op(t) = "event" THEN BookingOf[Payment(t)] ELSE req[t].booking
Guest(t) == GuestOf[Booking(t)]

At(t, op, stage) == Op(t) = op /\ pc[t] = stage
Goto(t, stage) == pc' = [pc EXCEPT ![t] = stage]
Free(x) == lock[x] = NoOne

Take(x, t) ==
  /\ Free(x)
  /\ lock' = [lock EXCEPT ![x] = t]

Moved(t, stage) == Goto(t, stage) /\ UNCHANGED <<req, read, stateVars, pointVars>>

End(t) ==
  /\ Goto(t, "done")
  /\ lock' = [x \in Lockable |-> IF lock[x] = t THEN NoOne ELSE lock[x]]
  /\ UNCHANGED <<req, read, lapsed>>

Rollback(t) == End(t) /\ UNCHANGED <<status, paid, pointVars>>

\* Mutant of LockGuest: the balance is read without FOR UPDATE.
ReadGuest(t) ==
  /\ read' = [read EXCEPT ![t] = points[Guest(t)]]
  /\ Goto(t, "guest")
  /\ UNCHANGED <<req, lock, stateVars, pointVars>>

\* SELECT points_balance ... FOR UPDATE, or the UPDATE of earnPointsForBooking.
LockGuest(t) ==
  /\ Take(Guest(t), t)
  /\ read' = [read EXCEPT ![t] = points[Guest(t)]]
  /\ Goto(t, "guest")
  /\ UNCHANGED <<req, stateVars, pointVars>>

\* UPDATE guests SET points_balance = `after`, and the ledger row.
Write(t, type, after) ==
  /\ points' = [points EXCEPT ![Guest(t)] = after]
  /\ rows' = [rows EXCEPT ![Guest(t)] =
       Append(@, [booking |-> Booking(t), type |-> type,
                  change |-> after - read[t], after |-> after])]

-----------------------------------------------------------------------------
(* redeemPoints.                                                           *)

\* Mutant of LockForRedeem: the booking is read without FOR UPDATE.
ReadForRedeem(t) ==
  /\ At(t, "redeem", "begun")
  /\ req[t].points >= MinRedeemPoints
  /\ status[Booking(t)] = "pending"
  /\ L!Rows(Booking(t), "redeem") = {}
  /\ Moved(t, "booking")
  /\ UNCHANGED lock

Redeemable(t) ==
  /\ req[t].points >= MinRedeemPoints
  /\ status[Booking(t)] = "pending"
  /\ L!Rows(Booking(t), "redeem") = {}

LockForRedeem(t) ==
  /\ At(t, "redeem", "begun")
  /\ Redeemable(t)
  /\ Take(Booking(t), t)
  /\ Moved(t, "booking")

\* Too few points are refused before the transaction begins.
RefuseRedeem(t) ==
  /\ At(t, "redeem", "begun")
  /\ ~Redeemable(t)
  /\ req[t].points >= MinRedeemPoints => Free(Booking(t))
  /\ Rollback(t)

ReadBalance(t) == At(t, "redeem", "booking") /\ LockGuest(t)

Affordable(t) ==
  /\ req[t].points <= read[t]
  /\ req[t].points <= MaxDiscount(total[Booking(t)])

\* Mutant of RefuseAmount: the error is returned without a ROLLBACK.
RefuseAmountOpen(t) ==
  /\ At(t, "redeem", "guest")
  /\ ~Affordable(t)
  /\ Goto(t, "done")
  /\ UNCHANGED <<req, read, lock, stateVars, pointVars>>

RefuseAmount(t) ==
  /\ At(t, "redeem", "guest")
  /\ ~Affordable(t)
  /\ Rollback(t)

\* The unique index on redemptions is left out: the locks do without it.
CommitRedeem(t) ==
  /\ At(t, "redeem", "guest")
  /\ Affordable(t)
  /\ Write(t, "redeem", read[t] - req[t].points)
  /\ total' = [total EXCEPT ![Booking(t)] = @ - req[t].points]
  /\ End(t)
  /\ UNCHANGED <<status, paid>>

-----------------------------------------------------------------------------
(* Settling a payment: the webhooks lock the payment and then the booking,  *)
(* a card charge locks the booking and inserts its payment.                *)

\* Mutant of LockPayment: a payment that is paid already is settled again.
LockPaidToo(t) ==
  /\ At(t, "event", "begun")
  /\ paid[Payment(t)] # "none"
  /\ Take(Payment(t), t)
  /\ Moved(t, "payment")

LockPayment(t) ==
  /\ At(t, "event", "begun")
  /\ paid[Payment(t)] \notin {"none", "paid"}
  /\ Take(Payment(t), t)
  /\ Moved(t, "payment")

\* The event is ignored: no payment has it, or it is paid.
IgnoreEvent(t) ==
  /\ At(t, "event", "begun")
  /\ paid[Payment(t)] \in {"none", "paid"}
  /\ Free(Payment(t))
  /\ Rollback(t)

\* UPDATE bookings SET status = 'confirmed', whatever it was.
ConfirmBooking(t) ==
  /\ At(t, "event", "payment")
  /\ Take(Booking(t), t)
  /\ Moved(t, "booking")

LockForCharge(t) ==
  /\ At(t, "charge", "begun")
  /\ status[Booking(t)] = "pending" /\ Booking(t) \notin lapsed
  /\ Take(Booking(t), t)
  /\ Moved(t, "booking")

RefuseCharge(t) ==
  /\ At(t, "charge", "begun")
  /\ status[Booking(t)] # "pending" \/ Booking(t) \in lapsed
  /\ Free(Booking(t))
  /\ Rollback(t)

CreditGuest(t) ==
  /\ At(t, "event", "booking") \/ At(t, "charge", "booking")
  /\ LockGuest(t)

\* Mutant of CommitSettled: the points are computed from the undiscounted price.
CommitSettledFull(t) ==
  /\ At(t, "event", "guest") \/ At(t, "charge", "guest")
  /\ paid' = [paid EXCEPT ![Payment(t)] = "paid"]
  /\ status' = [status EXCEPT ![Booking(t)] = "confirmed"]
  /\ Write(t, "earn", read[t] + EarnPoints(FullPrice))
  /\ UNCHANGED total
  /\ End(t)

\* Payment, confirmation and points commit together.
CommitSettled(t) ==
  /\ At(t, "event", "guest") \/ At(t, "charge", "guest")
  /\ paid' = [paid EXCEPT ![Payment(t)] = "paid"]
  /\ status' = [status EXCEPT ![Booking(t)] = "confirmed"]
  /\ Write(t, "earn", read[t] + EarnPoints(total[Booking(t)]))
  /\ UNCHANGED total
  /\ End(t)

-----------------------------------------------------------------------------
(* cancelBooking.                                                          *)

Cancellable(t) == status[Booking(t)] \in {"pending", "confirmed"}

LockForCancel(t) ==
  /\ At(t, "cancel", "begun")
  /\ Cancellable(t)
  /\ Take(Booking(t), t)
  /\ Moved(t, "booking")

RefuseCancel(t) ==
  /\ At(t, "cancel", "begun")
  /\ ~Cancellable(t)
  /\ Free(Booking(t))
  /\ Rollback(t)

PaidOf(b) == {p \in Payments : BookingOf[p] = b /\ paid[p] = "paid"}

\* A paid payment is locked and its refund asked for.  (It is the latest paid;
\* Payments tells which.)
AskRefund(t) ==
  /\ At(t, "cancel", "booking")
  /\ req[t].refund
  /\ \E p \in PaidOf(Booking(t)) : Take(p, t)
  /\ Moved(t, "refunded")

Cancelled(t) == status' = [status EXCEPT ![Booking(t)] = "cancelled"]

\* Nothing is paid, or the policy refunds nothing of what is.
CommitUnrefunded(t) ==
  /\ At(t, "cancel", "booking")
  /\ \/ PaidOf(Booking(t)) = {}
     \/ ~req[t].refund /\ \E p \in PaidOf(Booking(t)) : Free(p)
  /\ Cancelled(t)
  /\ End(t)
  /\ UNCHANGED <<paid, pointVars>>

ReadForClawBack(t) ==
  /\ At(t, "cancel", "refunded")
  /\ L!Rows(Booking(t), "earn") # {}
  /\ LockGuest(t)

Refunded(t) ==
  paid' = [p \in Payments |-> IF lock[p] = t THEN "refunded" ELSE paid[p]]

\* Mutant of ClawBack: the points may go below zero.
ClawBackOverdrawn(t) ==
  \E i \in L!Rows(Booking(t), "earn") :
     Write(t, "adjustment", read[t] - rows[Guest(t)][i].change)

\* One 'earn' row is taken back, as far as the balance goes.
ClawBack(t) ==
  \E i \in L!Rows(Booking(t), "earn") :
     LET earned == rows[Guest(t)][i].change
         clawed == IF earned < read[t] THEN earned ELSE read[t]
     IN  IF clawed > 0 THEN Write(t, "adjustment", read[t] - clawed)
                       ELSE UNCHANGED <<points, rows>>

\* Mutant of CommitRefund: the points are taken back in a transaction of their
\* own, and the cancellation is lost.
CommitClawBackOnly(t) ==
  /\ At(t, "cancel", "guest")
  /\ ClawBack(t)
  /\ End(t)
  /\ UNCHANGED <<status, paid, total>>

CommitRefund(t) ==
  /\ At(t, "cancel", "guest")
  /\ ClawBack(t)
  /\ Refunded(t)
  /\ Cancelled(t)
  /\ End(t)
  /\ UNCHANGED total

-----------------------------------------------------------------------------
(* releaseExpiredHolds: the rows of a statement are locked one by one.      *)

SweptBookings == {b \in lapsed : status[b] = "pending"}

HoldAll(t, S) == \A x \in S : lock[x] = t

SweepBooking(t) ==
  /\ At(t, "sweep", "begun")
  /\ \E b \in SweptBookings : Take(b, t)
  /\ Moved(t, "begun")

BookingsSwept(t) ==
  /\ At(t, "sweep", "begun")
  /\ HoldAll(t, SweptBookings)
  /\ Moved(t, "swept")
  /\ UNCHANGED lock

PendingOf(t) == {p \in Payments : lock[BookingOf[p]] = t /\ paid[p] = "pending"}

SweepPayment(t) ==
  /\ At(t, "sweep", "swept")
  /\ \E p \in PendingOf(t) : Take(p, t)
  /\ Moved(t, "swept")

CommitSweep(t) ==
  /\ At(t, "sweep", "swept")
  /\ HoldAll(t, PendingOf(t))
  /\ status' = [b \in Bookings |-> IF lock[b] = t /\ status[b] = "pending"
                                   THEN "expired" ELSE status[b]]
  /\ paid' = [p \in Payments |-> IF p \in PendingOf(t) THEN "failed" ELSE paid[p]]
  /\ End(t)
  /\ UNCHANGED pointVars

-----------------------------------------------------------------------------
(* Deadlocks and failures.                                                 *)

\* The rows that t's next statement waits for when others have them.
Wants(t) ==
  CASE At(t, "event", "begun")     -> {Payment(t)}
    [] At(t, "event", "payment")   -> {Booking(t)}
    [] At(t, "sweep", "begun")     -> SweptBookings
    [] At(t, "sweep", "swept")     -> PendingOf(t)
    [] At(t, "cancel", "booking")  -> PaidOf(Booking(t))
    [] At(t, "cancel", "refunded") -> {Guest(t)}
    [] pc[t] = "begun" /\ Op(t) \notin {"event", "sweep"}  -> {Booking(t)}
    [] pc[t] = "booking" /\ Op(t) # "cancel"              -> {Guest(t)}
    [] OTHER -> {}

WaitsFor(t, u) == t # u /\ \E x \in Wants(t) : lock[x] = u

\* One of two transactions that wait for each other is rolled back.
Victim(t) ==
  /\ \E u \in Txns : WaitsFor(t, u) /\ WaitsFor(u, t)
  /\ Rollback(t)

\* The connection or the process dies.
Crash(t) ==
  /\ pc[t] # "done"
  /\ Rollback(t)

-----------------------------------------------------------------------------

Step(t) ==
  \/ LockForRedeem(t) \/ RefuseRedeem(t) \/ ReadBalance(t) \/ RefuseAmount(t)
  \/ CommitRedeem(t)
  \/ LockPayment(t) \/ IgnoreEvent(t) \/ ConfirmBooking(t) \/ LockForCharge(t)
  \/ RefuseCharge(t) \/ CreditGuest(t) \/ CommitSettled(t)
  \/ LockForCancel(t) \/ RefuseCancel(t) \/ AskRefund(t) \/ CommitUnrefunded(t)
  \/ ReadForClawBack(t) \/ CommitRefund(t)
  \/ SweepBooking(t) \/ BookingsSwept(t) \/ SweepPayment(t) \/ CommitSweep(t)
  \/ Victim(t)

AllDone == \A t \in Txns : pc[t] = "done"

Idle == AllDone /\ UNCHANGED vars

Next ==
  \/ \E t \in Txns : Step(t) \/ Crash(t)
  \/ Idle

Spec == Init /\ [][Next]_vars

\* Statements that can go on are executed, and the deadlock detector runs.
FairSpec == Spec /\ \A t \in Txns : WF_vars(Step(t))

-----------------------------------------------------------------------------
(* Safety.                                                                 *)

\* The ledger explains the balance: every row's balance_after is that of the
\* row before it plus its points_change, and the last one is the balance, so
\* no update of points_balance is lost between a read and a write.
LedgerExplainsBalance ==
  \A g \in Guests :
     /\ rows[g] # <<>>
     /\ rows[g][Len(rows[g])].after = points[g]
     /\ \A i \in 2 .. Len(rows[g]) :
          rows[g][i].after = rows[g][i - 1].after + rows[g][i].change

\* "one redemption per booking, ever" (loyaltyService.js), and the price is
\* what it was less the points redeemed.
PriceFollowsPoints ==
  \A b \in Bookings :
     \/ L!Rows(b, "redeem") = {} /\ total[b] = FullPrice
     \/ \E i \in DOMAIN rows[GuestOf[b]] :
          /\ L!Rows(b, "redeem") = {i}
          /\ total[b] = FullPrice + rows[GuestOf[b]][i].change

\* Points are taken back at most as often as they were earned, whatever order
\* cancellations and late payments come in.
TakenBackWasEarned ==
  \A b \in Bookings :
     Cardinality(L!Rows(b, "adjustment")) <= Cardinality(L!Rows(b, "earn"))

\* Payments are locked before bookings by some and after them by others, and yet
\* requests and webhooks never wait in a circle, nor for a transaction that has
\* ended: a deadlock has a run of the job in it.
OnlyTheJobDeadlocks ==
  \A S \in SUBSET {t \in Txns : Op(t) # "sweep"} :
     (\E t \in S : pc[t] # "done") =>
        \E t \in S : pc[t] # "done" /\ ~\E u \in S : WaitsFor(t, u)

\* Of those that wait in a circle, two wait for each other: no longer circle
\* escapes the detector of this module.
CirclesArePairs ==
  \A S \in SUBSET Txns :
     S # {} /\ (\A t \in S : \E u \in S : WaitsFor(t, u)) =>
        \E t, u \in S : WaitsFor(t, u) /\ WaitsFor(u, t)

\* A guest's points and a booking's price change only as the ledger allows, in
\* one step each.
ImplementsLedger == L!Spec

-----------------------------------------------------------------------------
(* Liveness.                                                               *)

\* Every transaction ends: it gets its locks, or the deadlock detector rolls it
\* back.
Answered == \A t \in Txns : <>(pc[t] = "done")
=============================================================================
