------------------------------ MODULE Payments ------------------------------
(***************************************************************************)
(* Payments of a booking and everything that races with them: the charge    *)
(* made while the booking's row is locked, the webhooks of both gateways,    *)
(* the redemption of points, the cancellation with its refund call, and the *)
(* job that expires lapsed holds.  Each transaction is one step, except     *)
(* those that call a gateway between BEGIN and COMMIT, and the Omise         *)
(* webhook, which asks the gateway for the charge before its transaction.   *)
(*                                                                         *)
(* `busy` is the row lock (FOR UPDATE) that a transaction keeps on a booking *)
(* during its gateway call; every other statement on that row waits for it. *)
(***************************************************************************)
EXTENDS BookingTable, Pricing, SequencesExt

CONSTANTS
  PayIds,      \* payment ids; the charge of a payment has the payment's id
  Methods,     \* methods in use, a subset of AllMethods
  EventKinds,  \* Omise event keys in use, a subset of {"create", "complete"}
  Tids,        \* transaction ids of 2C2P; NoTid may be one of them
  NoTid,       \* a notification without a transactionId
  NightPrice,  \* base_price of a night, in satang
  Bonus,       \* points_balance of a guest before the first booking
  PointsAsked, \* numbers of points that guests try to redeem
  Hours,       \* hours left to check-in when a booking is cancelled
  MaxFetched,  \* bound: Omise deliveries in progress at once
  NoPayment,   \* a payment id without a row
  Idle         \* no gateway call

AllMethods == {"card", "qr", "transfer", "redirect"}

Gateway(m) == CASE m \in {"card", "qr"} -> "omise"
                [] m = "transfer"       -> "manual"
                [] m = "redirect"       -> "2c2p"

PaymentStatuses == {"pending", "paid", "failed", "refunded"}
ChargeStatuses == {"none", "pending", "successful", "failed"}

PaymentRow == [booking : Ids, amount : Nat, method : AllMethods,
               status : PaymentStatuses, paidAt : Nat]

\* The gateway calls made under a row lock.
PayCall == [op : {"pay"}, payment : PayIds, method : AllMethods]
RefundCall == [op : {"refund"}, payment : PayIds]

OmiseEvents == PayIds \X EventKinds
Notes == [invoice : Ids, success : BOOLEAN, tid : Tids]

\* refund_status of a row of booking_cancellations.
RefundStatuses == {"not_applicable", "none", "processing", "manual_required",
                   "failed_needs_manual_review"}
CancellationRow == [booking : Ids, refund : RefundStatuses]

\* What may settle a payment: the answer to its charge, or an event.
Reports == (PayIds \X {"charge"}) \cup OmiseEvents \cup Tids \cup Ids

ASSUME PaymentsAssumption ==
  /\ Methods \subseteq AllMethods
  /\ EventKinds \subseteq {"create", "complete"}
  /\ NightPrice \in Nat /\ Bonus \in Nat /\ MaxFetched \in Nat
  /\ PointsAsked \subseteq Nat
  /\ Hours \subseteq Int
  /\ NoPayment \notin PaymentRow
  /\ Idle \notin PayCall \cup RefundCall
  /\ (Tids \cup Ids) \cap OmiseEvents = {} /\ Tids \cap Ids = {}

VARIABLES
  price,      \* price[b]: total_price of booking b
  payments,   \* the payments table, by id
  busy,       \* busy[b]: the gateway call that holds the row lock of b
  charge,     \* charge[p]: the charge of payment p at Omise (external)
  notes,      \* backend notifications that 2C2P keeps sending (external)
  fetched,    \* Omise deliveries between the fetch and the transaction
  seen,       \* webhook_events: event ids on record
  balance,    \* balance[g]: points_balance of guest g
  earned,     \* earned[b]: the 'earn' rows of booking b, in order
  redeemed,   \* redeemed[b]: points of the 'redeem' row of b, 0 if none
  clawed,     \* clawed[b]: points taken back by the 'adjustment' rows of b
  cancels,    \* booking_cancellations
  settledBy,  \* history: what made payment p paid, each time, in order
  refunds     \* history: how often payment p was refunded

webhookVars == <<notes, fetched, seen>>
pointVars == <<balance, earned, redeemed, clawed>>
moneyVars == <<settledBy, refunds>>
vars == <<tableVars, price, payments, busy, charge, webhookVars, pointVars,
          cancels, moneyVars>>

TypeOK ==
  /\ TableTypeOK
  /\ price \in [Ids -> Nat]
  /\ payments \in [PayIds -> PaymentRow \cup {NoPayment}]
  /\ busy \in [Ids -> PayCall \cup RefundCall \cup {Idle}]
  /\ charge \in [PayIds -> ChargeStatuses]
  /\ notes \subseteq Notes
  /\ fetched \subseteq [event : OmiseEvents, status : ChargeStatuses]
  /\ seen \subseteq OmiseEvents \cup Tids \cup Ids
  /\ balance \in [Guests -> Nat]
  /\ earned \in [Ids -> Seq(Nat)]
  /\ redeemed \in [Ids -> Nat]
  /\ clawed \in [Ids -> Nat]
  /\ cancels \subseteq CancellationRow
  /\ settledBy \in [PayIds -> Seq(Reports)]
  /\ refunds \in [PayIds -> Nat]

Init ==
  /\ TableInit
  /\ price = [b \in Ids |-> 0]
  /\ payments = [p \in PayIds |-> NoPayment]
  /\ busy = [b \in Ids |-> Idle]
  /\ charge = [p \in PayIds |-> "none"]
  /\ notes = {} /\ fetched = {} /\ seen = {}
  /\ balance = [g \in Guests |-> Bonus]
  /\ earned = [b \in Ids |-> <<>>]
  /\ redeemed = [b \in Ids |-> 0]
  /\ clawed = [b \in Ids |-> 0]
  /\ cancels = {}
  /\ settledBy = [p \in PayIds |-> <<>>]
  /\ refunds = [p \in PayIds |-> 0]

-----------------------------------------------------------------------------
(* Bookings.                                                               *)

\* createBooking in one step; BookingTxn has its locks and its steps.
CreateBooking(b, rt, g, in, out) ==
  /\ ~Exists(b)
  /\ in < out
  /\ Remaining(rt, in, out, clock) > 0
  /\ bookings' = [bookings EXCEPT ![b] =
                    [roomType |-> rt, guest |-> g, checkin |-> in, checkout |-> out,
                     status |-> "pending", hold |-> clock + HoldTime]]
  /\ price' = [price EXCEPT ![b] = TotalPrice(NightPrice, out - in)]
  /\ UNCHANGED <<clock, late, payments, busy, charge, webhookVars, pointVars,
                 cancels, moneyVars>>

Guest(b) == bookings[b].guest

\* UPDATE payments SET status = st WHERE id = p.
SetPayment(p, st) == payments' = [payments EXCEPT ![p].status = st]

\* earnPointsForBooking, in the transaction that confirms booking b.
Earn(b) ==
  LET points == EarnPoints(price[b])
  IN  IF points <= 0 THEN UNCHANGED pointVars
      ELSE /\ balance' = [balance EXCEPT ![Guest(b)] = @ + points]
           /\ earned' = [earned EXCEPT ![b] = Append(@, points)]
           /\ UNCHANGED <<redeemed, clawed>>

\* Mutant of Redeem: a second redemption is not refused.
RedeemAgain(b, points) ==
  /\ Exists(b) /\ busy[b] = Idle
  /\ points >= MinRedeemPoints
  /\ bookings[b].status = "pending"
  /\ points <= balance[Guest(b)]
  /\ points <= MaxDiscount(price[b])
  /\ balance' = [balance EXCEPT ![Guest(b)] = @ - points]
  /\ redeemed' = [redeemed EXCEPT ![b] = points]
  /\ price' = [price EXCEPT ![b] = @ - points]
  /\ UNCHANGED <<tableVars, payments, busy, charge, webhookVars, earned, clawed,
                 cancels, moneyVars>>

\* redeemPoints in one step; PointsTxn has its steps.
Redeem(b, points) ==
  /\ Exists(b) /\ busy[b] = Idle
  /\ points >= MinRedeemPoints
  /\ bookings[b].status = "pending"
  /\ redeemed[b] = 0
  /\ points <= balance[Guest(b)]
  /\ points <= MaxDiscount(price[b])
  /\ balance' = [balance EXCEPT ![Guest(b)] = @ - points]
  /\ redeemed' = [redeemed EXCEPT ![b] = points]
  /\ price' = [price EXCEPT ![b] = @ - points]
  /\ UNCHANGED <<tableVars, payments, busy, charge, webhookVars, earned, clawed,
                 cancels, moneyVars>>

-----------------------------------------------------------------------------
(* Initiating a payment.                                                   *)

\* No gateway call is under way for payment p.
PaymentFree(p) == ~\E b \in Ids : busy[b] # Idle /\ busy[b].payment = p

\* The booking is checked, its row stays locked and the gateway is called.  A
\* card charge may be settled at once; every other one is left pending, a bank
\* transfer has none, and 2C2P only hands out the address of its page.  A call
\* the gateway refuses rolls back and changes nothing.
StartPayment(p, b, m) ==
  /\ payments[p] = NoPayment /\ charge[p] = "none"
  /\ PaymentFree(p)
  /\ Exists(b) /\ busy[b] = Idle
  /\ bookings[b].status = "pending"
  /\ ~(bookings[b].hold < clock)
  /\ busy' = [busy EXCEPT ![b] = [op |-> "pay", payment |-> p, method |-> m]]
  /\ \E result \in CASE m = "card" -> {"pending", "successful", "failed"}
                     [] m = "qr"   -> {"pending"}
                     [] OTHER      -> {"none"} :
        charge' = [charge EXCEPT ![p] = result]
  /\ UNCHANGED <<tableVars, price, payments, webhookVars, pointVars, cancels,
                 moneyVars>>

Paying(b) == busy[b] # Idle /\ busy[b].op = "pay"

Unlock(b) == busy' = [busy EXCEPT ![b] = Idle]

\* For the record: payment p becomes paid by this report.
SettledBy(p, report) ==
  /\ settledBy' = [settledBy EXCEPT ![p] = Append(@, report)]
  /\ UNCHANGED refunds

\* The payment row; a card charge that is settled already confirms the booking.
\* The booking is not checked again.
FinishPayment(b) ==
  /\ Paying(b)
  /\ LET p == busy[b].payment
         paid == busy[b].method = "card" /\ charge[p] = "successful"
     IN  /\ payments' = [payments EXCEPT ![p] =
              [booking |-> b, amount |-> price[b], method |-> busy[b].method,
               status |-> IF paid THEN "paid" ELSE "pending",
               paidAt |-> IF paid THEN clock ELSE 0]]
         /\ IF paid THEN Confirm(b) /\ Earn(b) /\ SettledBy(p, <<p, "charge">>)
                    ELSE UNCHANGED <<tableVars, pointVars, moneyVars>>
  /\ Unlock(b)
  /\ UNCHANGED <<price, charge, webhookVars, cancels>>

\* The call times out or the process dies: the payment row is never written,
\* the charge may exist at the gateway all the same.
AbortPayment(b) ==
  /\ Paying(b)
  /\ Unlock(b)
  /\ UNCHANGED <<tableVars, price, payments, charge, webhookVars, pointVars,
                 cancels, moneyVars>>

-----------------------------------------------------------------------------
(* The customer and the gateways (external).                               *)

HasRow(p) == payments[p] # NoPayment

\* The customer settles a QR code or a 3-D Secure card at Omise, once the
\* response of initiatePayment brought it.
CustomerPays(p) ==
  /\ HasRow(p)
  /\ charge[p] = "pending"
  /\ \E result \in {"successful", "failed"} :
        charge' = [charge EXCEPT ![p] = result]
  /\ UNCHANGED <<tableVars, price, payments, busy, webhookVars, pointVars,
                 cancels, moneyVars>>

InvoiceRows(b) ==
  {p \in PayIds : HasRow(p) /\ payments[p].booking = b
                            /\ payments[p].method = "redirect"}

\* An attempt on 2C2P's page, with an invoice number made from the booking id.
\* 2C2P takes the money of an invoice once.
CustomerPaysInvoice(b, tid) ==
  /\ InvoiceRows(b) # {}
  /\ ~\E n \in notes : n.invoice = b /\ n.success
  /\ tid = NoTid \/ ~\E n \in notes : n.tid = tid
  /\ \E success \in BOOLEAN :
        notes' = notes \cup {[invoice |-> b, success |-> success, tid |-> tid]}
  /\ UNCHANGED <<tableVars, price, payments, busy, charge, fetched, seen,
                 pointVars, cancels, moneyVars>>

-----------------------------------------------------------------------------
(* The Omise webhook.                                                      *)

\* fetchChargeStatus, before the transaction.  Omise delivers an event until it
\* is answered 200 and may deliver it again; "charge.complete" comes when the
\* charge is settled.
Fetch(e) ==
  LET p == e[1]
  IN  /\ charge[p] # "none"
      /\ e[2] = "complete" => charge[p] \in {"successful", "failed"}
      /\ Cardinality(fetched) < MaxFetched
      /\ fetched' = fetched \cup {[event |-> e, status |-> charge[p]]}
      /\ UNCHANGED <<tableVars, price, payments, busy, charge, notes, seen,
                     pointVars, cancels, moneyVars>>

\* COMMIT: the event is on record and its delivery answered.
Answer(d) == fetched' = fetched \ {d}

\* No other transaction holds the booking row that a confirmation writes.
BookingFree(p) == busy[payments[p].booking] = Idle

\* Mutant of Nothing: a payment that the job gave up is closed for good.
NothingUnlessPending(d) ==
  LET p == d.event[1]
  IN  \/ d.event \in seen \/ ~HasRow(p)
      \/ PaymentFree(p) /\ payments[p].status # "pending"

\* A delivery that has nothing to do: its event is known, or no payment has
\* this charge, or the payment is paid already.
Nothing(d) ==
  LET p == d.event[1]
  IN  d.event \in seen \/ ~HasRow(p) \/ (PaymentFree(p) /\ payments[p].status = "paid")

IgnoreDelivery(d) ==
  /\ d \in fetched
  /\ Nothing(d) = TRUE
  /\ seen' = seen \cup {d.event}
  /\ Answer(d)
  /\ UNCHANGED <<tableVars, price, payments, busy, charge, notes, pointVars,
                 cancels, moneyVars>>

\* Mutants of NewForPayment: a delivery is not compared with the payment's status,
\* or not with the events on record.
NewWhateverPaid(d) ==
  /\ d \in fetched
  /\ d.event \notin seen
  /\ HasRow(d.event[1])
  /\ PaymentFree(d.event[1])

NewThoughSeen(d) ==
  /\ d \in fetched
  /\ HasRow(d.event[1])
  /\ PaymentFree(d.event[1])
  /\ payments[d.event[1]].status # "paid"

NewForPayment(d) ==
  /\ d \in fetched
  /\ d.event \notin seen
  /\ HasRow(d.event[1])
  /\ PaymentFree(d.event[1])
  /\ payments[d.event[1]].status # "paid"

\* The payment is paid and its booking confirmed, whatever its status is now.
Settle(p) ==
  /\ payments' = [payments EXCEPT ![p].status = "paid", ![p].paidAt = clock]
  /\ Confirm(payments[p].booking)
  /\ Earn(payments[p].booking)

\* Mutant of ConfirmFromOmise: the event is believed, not the fetched charge.
ConfirmFromEvent(d) ==
  /\ NewForPayment(d)
  /\ BookingFree(d.event[1])
  /\ Settle(d.event[1])
  /\ SettledBy(d.event[1], d.event)
  /\ seen' = seen \cup {d.event}
  /\ Answer(d)
  /\ UNCHANGED <<price, busy, charge, notes, cancels>>

ConfirmFromOmise(d) ==
  /\ NewForPayment(d)
  /\ d.status = "successful"
  /\ BookingFree(d.event[1])
  /\ Settle(d.event[1])
  /\ SettledBy(d.event[1], d.event)
  /\ seen' = seen \cup {d.event}
  /\ Answer(d)
  /\ UNCHANGED <<price, busy, charge, notes, cancels>>

FailFromOmise(d) ==
  /\ NewForPayment(d)
  /\ d.status = "failed"
  /\ SetPayment(d.event[1], "failed")
  /\ seen' = seen \cup {d.event}
  /\ Answer(d)
  /\ UNCHANGED <<tableVars, price, busy, charge, notes, pointVars, cancels,
                 moneyVars>>

\* The charge was still pending when it was fetched: a later event settles it.
NotSettledYet(d) ==
  /\ NewForPayment(d)
  /\ d.status = "pending"
  /\ seen' = seen \cup {d.event}
  /\ Answer(d)
  /\ UNCHANGED <<tableVars, price, payments, busy, charge, notes, pointVars,
                 cancels, moneyVars>>

\* The handler fails or dies before COMMIT; Omise will deliver again.  (For an
\* event on record that is the same as ignoring it.)
DropDelivery(d) ==
  /\ d \in fetched
  /\ d.event \notin seen
  /\ Answer(d)
  /\ UNCHANGED <<tableVars, price, payments, busy, charge, notes, seen, pointVars,
                 cancels, moneyVars>>

-----------------------------------------------------------------------------
(* The 2C2P webhook.  All rows of the invoice are locked, one of them is    *)
(* taken.                                                                  *)

\* Mutant of EventId: the attempts on an invoice share one event.
EventIdIsInvoice(n) == n.invoice

EventId(n) == IF n.tid = NoTid THEN n.invoice ELSE n.tid

InvoiceFree(n) == \A p \in InvoiceRows(n.invoice) : PaymentFree(p)

IgnoreNote(n) ==
  /\ n \in notes
  /\ EventId(n) \notin seen
  /\ InvoiceFree(n)
  /\ \E p \in InvoiceRows(n.invoice) : payments[p].status = "paid"
  /\ seen' = seen \cup {EventId(n)}
  /\ UNCHANGED <<tableVars, price, payments, busy, charge, notes, fetched,
                 pointVars, cancels, moneyVars>>

\* Mutant of ConfirmFrom2c2p: every notification is a success.
ConfirmFromAnyNote(n) ==
  /\ n \in notes
  /\ EventId(n) \notin seen
  /\ InvoiceFree(n)
  /\ busy[n.invoice] = Idle
  /\ \E p \in InvoiceRows(n.invoice) :
        payments[p].status # "paid" /\ Settle(p) /\ SettledBy(p, EventId(n))
  /\ seen' = seen \cup {EventId(n)}
  /\ UNCHANGED <<price, busy, charge, notes, fetched, cancels>>

\* Mutant of ConfirmFrom2c2p: a success that is repeated is taken for a new one.
ConfirmFromRepeated(n) ==
  /\ n \in notes
  /\ n.success
  /\ InvoiceFree(n)
  /\ busy[n.invoice] = Idle
  /\ \E p \in InvoiceRows(n.invoice) :
        payments[p].status # "paid" /\ Settle(p) /\ SettledBy(p, EventId(n))
  /\ seen' = seen \cup {EventId(n)}
  /\ UNCHANGED <<price, busy, charge, notes, fetched, cancels>>

ConfirmFrom2c2p(n) ==
  /\ n \in notes
  /\ EventId(n) \notin seen
  /\ n.success
  /\ InvoiceFree(n)
  /\ busy[n.invoice] = Idle
  /\ \E p \in InvoiceRows(n.invoice) :
        payments[p].status # "paid" /\ Settle(p) /\ SettledBy(p, EventId(n))
  /\ seen' = seen \cup {EventId(n)}
  /\ UNCHANGED <<price, busy, charge, notes, fetched, cancels>>

\* Mutant of FailFrom2c2p: a late failure overwrites a paid payment.
FailPaidFrom2c2p(n) ==
  /\ n \in notes
  /\ EventId(n) \notin seen
  /\ ~n.success
  /\ InvoiceFree(n)
  /\ \E p \in InvoiceRows(n.invoice) : SetPayment(p, "failed")
  /\ seen' = seen \cup {EventId(n)}
  /\ UNCHANGED <<tableVars, price, busy, charge, notes, fetched, pointVars,
                 cancels, moneyVars>>

FailFrom2c2p(n) ==
  /\ n \in notes
  /\ EventId(n) \notin seen
  /\ ~n.success
  /\ InvoiceFree(n)
  /\ \E p \in InvoiceRows(n.invoice) :
        payments[p].status # "paid" /\ SetPayment(p, "failed")
  /\ seen' = seen \cup {EventId(n)}
  /\ UNCHANGED <<tableVars, price, busy, charge, notes, fetched, pointVars,
                 cancels, moneyVars>>

-----------------------------------------------------------------------------
(* Cancellation.                                                           *)

PaidRows(b) ==
  {p \in PayIds : HasRow(p) /\ payments[p].booking = b /\ payments[p].status = "paid"}

\* ORDER BY paid_at DESC LIMIT 1.
LatestPaid(b) ==
  {p \in PaidRows(b) : \A q \in PaidRows(b) : payments[q].paidAt <= payments[p].paidAt}

RecordCancellation(b, refund) ==
  cancels' = cancels \cup {[booking |-> b, refund |-> refund]}

\* Nothing was paid, or nothing of it is refunded.
CancelWithoutRefund(b, hours) ==
  /\ busy[b] = Idle
  /\ Cancel(b)
  /\ \/ PaidRows(b) = {} /\ RecordCancellation(b, "not_applicable")
     \/ \E p \in LatestPaid(b) : /\ Refund(hours, payments[p].amount) = 0
                                 /\ RecordCancellation(b, "none")
  /\ UNCHANGED <<price, payments, busy, charge, webhookVars, pointVars,
                 moneyVars>>

\* The gateway is asked for the refund while the booking and the payment are
\* locked.
StartRefund(b, hours) ==
  /\ Cancellable(b)
  /\ busy[b] = Idle
  /\ \E p \in LatestPaid(b) :
        /\ Refund(hours, payments[p].amount) > 0
        /\ busy' = [busy EXCEPT ![b] = [op |-> "refund", payment |-> p]]
  /\ UNCHANGED <<tableVars, price, payments, charge, webhookVars, pointVars,
                 cancels, moneyVars>>

Refunding(b) == busy[b] # Idle /\ busy[b].op = "refund"

\* The points of the first 'earn' row are taken back, as far as the balance goes.
ClawBack(b) ==
  LET lost == IF earned[b] = <<>> THEN 0
              ELSE IF Head(earned[b]) < balance[Guest(b)]
              THEN Head(earned[b]) ELSE balance[Guest(b)]
  IN  /\ balance' = [balance EXCEPT ![Guest(b)] = @ - lost]
      /\ clawed' = [clawed EXCEPT ![b] = @ + lost]
      /\ UNCHANGED <<earned, redeemed>>

\* Mutant of RefundStatus: the answer of the gateway is copied.
RefundStatusRaw(p, accepted) == IF accepted THEN "successful" ELSE "failed"

\* Mutant of RefundStatus: a refused refund is forgotten.
RefundStatusForgotten(p, accepted) == IF accepted THEN "processing" ELSE "none"

RefundStatus(p, accepted) ==
  CASE Gateway(payments[p].method) = "manual" -> "manual_required"
    [] accepted                               -> "processing"
    [] OTHER                                  -> "failed_needs_manual_review"

\* For the record: payment p is refunded.
Refunded(p) ==
  /\ refunds' = [refunds EXCEPT ![p] = @ + 1]
  /\ UNCHANGED settledBy

\* Mutant of FinishRefund: the money goes back and the booking stays.
RefundWithoutCancel(b) ==
  /\ Refunding(b)
  /\ SetPayment(busy[b].payment, "refunded")
  /\ Refunded(busy[b].payment)
  /\ ClawBack(b)
  /\ \E accepted \in BOOLEAN :
        RecordCancellation(b, RefundStatus(busy[b].payment, accepted))
  /\ Unlock(b)
  /\ UNCHANGED <<tableVars, price, charge, webhookVars>>

\* A refund the gateway refuses does not stop the cancellation.
FinishRefund(b) ==
  /\ Refunding(b)
  /\ SetPayment(busy[b].payment, "refunded")
  /\ Refunded(busy[b].payment)
  /\ ClawBack(b)
  /\ Cancel(b)
  /\ \E accepted \in BOOLEAN :
        RecordCancellation(b, RefundStatus(busy[b].payment, accepted))
  /\ Unlock(b)
  /\ UNCHANGED <<price, charge, webhookVars>>

\* The process dies during the refund call.
AbortRefund(b) ==
  /\ Refunding(b)
  /\ Unlock(b)
  /\ UNCHANGED <<tableVars, price, payments, charge, webhookVars, pointVars,
                 cancels, moneyVars>>

-----------------------------------------------------------------------------
(* The job that releases expired holds.                                    *)

\* The pending payments of the bookings that are swept are given up.  The job
\* waits for the row locks of what it matches.
ReleaseExpiredHolds(t) ==
  /\ \A b \in Ids : Lapsed(b, t) => busy[b] = Idle
  /\ ExpireHolds(t)
  /\ payments' = [p \in PayIds |->
       IF HasRow(p) /\ Lapsed(payments[p].booking, t) /\ payments[p].status = "pending"
       THEN [payments[p] EXCEPT !.status = "failed"] ELSE payments[p]]
  /\ UNCHANGED <<price, busy, charge, webhookVars, pointVars, cancels,
                 moneyVars>>

TimePasses ==
  /\ Tick
  /\ UNCHANGED <<price, payments, busy, charge, webhookVars, pointVars, cancels,
                 moneyVars>>

-----------------------------------------------------------------------------

Omise ==
  \/ \E e \in OmiseEvents : Fetch(e)
  \/ \E d \in fetched : \/ IgnoreDelivery(d) \/ ConfirmFromOmise(d)
                        \/ FailFromOmise(d) \/ NotSettledYet(d) \/ DropDelivery(d)

TwoCTwoP ==
  \E n \in notes : IgnoreNote(n) \/ ConfirmFrom2c2p(n) \/ FailFrom2c2p(n)

Customer ==
  \/ \E b \in Ids, rt \in RoomTypes, g \in Guests, in, out \in Days :
        CreateBooking(b, rt, g, in, out)
  \/ \E b \in Ids, points \in PointsAsked : Redeem(b, points)
  \/ \E p \in PayIds, b \in Ids, m \in Methods : StartPayment(p, b, m)
  \/ \E p \in PayIds : CustomerPays(p)
  \/ \E b \in Ids, tid \in Tids : CustomerPaysInvoice(b, tid)
  \/ \E b \in Ids, hours \in Hours : CancelWithoutRefund(b, hours)
                                        \/ StartRefund(b, hours)

GatewayAnswers ==
  \E b \in Ids : FinishPayment(b) \/ AbortPayment(b) \/ FinishRefund(b) \/ AbortRefund(b)

Next ==
  \/ Customer
  \/ GatewayAnswers
  \/ Omise
  \/ TwoCTwoP
  \/ \E t \in 0 .. clock : ReleaseExpiredHolds(t)
  \/ TimePasses

Spec == Init /\ [][Next]_vars

\* Gateway calls return or time out.  Omise delivers "charge.complete" until it is
\* answered, 2C2P repeats a notification, and PostgreSQL queues row locks in
\* order: a delivery that can be handled again and again is handled, even if the
\* booking is locked by others in between.  Handlers do not crash for ever.
\* Nothing is assumed of customers, of the job or of the clock.
Handled(e) ==
  \E d \in fetched : /\ d.event = e
                     /\ \/ IgnoreDelivery(d) \/ ConfirmFromOmise(d)
                        \/ FailFromOmise(d) \/ NotSettledYet(d)

SuccessNote(b) ==
  \E n \in notes : /\ n.invoice = b /\ n.success
                   /\ IgnoreNote(n) \/ ConfirmFrom2c2p(n)

Fairness ==
  /\ \A b \in Ids : /\ WF_vars(FinishPayment(b) \/ AbortPayment(b))
                    /\ WF_vars(FinishRefund(b) \/ AbortRefund(b))
                    /\ SF_vars(SuccessNote(b))
  /\ \A p \in PayIds :
       SF_vars(<<p, "complete">> \in OmiseEvents /\ Fetch(<<p, "complete">>))
  /\ \A e \in OmiseEvents : SF_vars(Handled(e))
  /\ <>[][\A d \in fetched : ~DropDelivery(d)]_vars

FairSpec == Spec /\ Fairness

-----------------------------------------------------------------------------
(* Safety.                                                                 *)

\* The gateway took the money of payment p.
Charged(p) ==
  CASE Gateway(payments[p].method) = "omise" -> charge[p] = "successful"
    [] Gateway(payments[p].method) = "2c2p"  ->
         \E n \in notes : n.invoice = payments[p].booking /\ n.success
    [] OTHER -> FALSE

\* A payment is marked paid, or paid and refunded, only when its gateway took the
\* money, however webhooks are duplicated, reordered or overtaken.
PaidMeansCharged ==
  \A p \in PayIds : HasRow(p) /\ payments[p].status \in {"paid", "refunded"} => Charged(p)

\* A charge at Omise is reported in more than one way: by the answer to the charge
\* and by events of several kinds.  Once one has settled the payment and it was
\* refunded, the next one finds it not 'paid' and settles it again.
Resettled(p) == Gateway(payments[p].method) = "omise" /\ Len(settledBy[p]) > 1

\* A confirmed booking has a paid payment whose money is still there: no refund,
\* sweep, late failure or crash leaves a room given away for nothing.  There is one
\* exception, and only at Omise: a second report of a charge that was refunded.
ConfirmedIsPaid ==
  \A b \in Ids : Exists(b) /\ bookings[b].status = "confirmed" =>
     \E p \in PaidRows(b) : refunds[p] = 0 \/ Resettled(p)

\* However often and in whatever order a success is reported, it counts once: a
\* payment is not settled again before it was refunded, nor refunded twice for one
\* settlement; no report settles it twice; and of the payments that share an
\* invoice one is settled, once.
SettledOnce ==
  /\ \A p \in PayIds :
       /\ Len(settledBy[p]) \in {refunds[p], refunds[p] + 1}
       /\ IsInjective(settledBy[p])
  /\ \A b \in Ids : \A p, q \in InvoiceRows(b) :
       /\ settledBy[p] # <<>> /\ settledBy[q] # <<>> => p = q
       /\ Len(settledBy[p]) <= 1

\* Money that is kept has its room or a cancellation: the booking of a paid
\* payment is confirmed or was cancelled, never left pending or expired.
PaidIsSettled ==
  \A p \in PayIds : HasRow(p) /\ payments[p].status = "paid" =>
     bookings[payments[p].booking].status \in {"confirmed", "cancelled"}

\* No refund vanishes silently: a refunded payment has a cancellation on record
\* that says what became of the refund.
RefundOnRecord ==
  \A p \in PayIds : HasRow(p) /\ payments[p].status = "refunded" =>
     \E c \in cancels : /\ c.booking = payments[p].booking
                        /\ c.refund \notin {"not_applicable", "none"}

\* What a webhook was answered for is not lost, for it will not be delivered again:
\* when the event of a successful charge or invoice is on record, its payment has
\* been paid, its booking confirmed, whatever a sweep, an early delivery, an event
\* of a failed attempt or a second event did before and after.
HandledMeansSettled ==
  /\ \A e \in seen \cap OmiseEvents :
       e[2] = "complete" /\ HasRow(e[1]) /\ charge[e[1]] = "successful" =>
         payments[e[1]].status \in {"paid", "refunded"}
  /\ \A n \in notes :
       n.success /\ n.tid # NoTid /\ n.tid \in seen =>
         bookings[n.invoice].status \in {"confirmed", "cancelled"}

\* Money is never given back behind the guest's back: a paid payment changes in one
\* way only, to a refund, in the transaction that cancels its booking.
PaidIsFinal ==
  [][\A p \in PayIds : HasRow(p) /\ payments[p].status = "paid" =>
       \/ payments'[p] = payments[p]
       \/ /\ payments'[p] = [payments[p] EXCEPT !.status = "refunded"]
          /\ bookings'[payments[p].booking].status = "cancelled"]_vars

\* However often a redemption is repeated or races with a charge, a booking has
\* one discount of at most half its price, and the points spent are the discount.
OneDiscountPerBooking ==
  \A b \in Ids : Exists(b) =>
     LET full == TotalPrice(NightPrice, bookings[b].checkout - bookings[b].checkin)
     IN  price[b] = full - redeemed[b] /\ redeemed[b] <= MaxDiscount(full)

\* A guest who redeems while a payment is under way may be charged the old price,
\* but never anything else: whatever the order of redemption, gateway calls and
\* settlement, a payment asks for the price of its booking with the discount or
\* without it.
ChargedAPrice ==
  \A p \in PayIds : HasRow(p) =>
     LET b == payments[p].booking
     IN  payments[p].amount \in {price[b], price[b] + redeemed[b]}

Abs == INSTANCE Inventory WITH clock <- clock, bookings <- bookings, late <- late

\* Payments, cancellations and sweeps keep the promise of Inventory.
ImplementsInventory == Abs!Spec

-----------------------------------------------------------------------------
(* Liveness.                                                               *)

\* Money that Omise took for a payment on file ends in a payment that is paid,
\* or refunded since: the synchronous path, early deliveries, duplicates and
\* crashes of the handler never lose the success.
ChargeSettles ==
  \A p \in PayIds : (HasRow(p) /\ charge[p] = "successful")
                      ~> (HasRow(p) /\ payments[p].status \in {"paid", "refunded"})

\* Money that 2C2P took for an invoice, when its notification has a
\* transactionId, ends in a settled booking with its points credited.  (Its
\* payment may be marked failed later: a failure of an earlier attempt on the
\* same invoice that arrives after the refund overwrites 'refunded'.)
InvoiceSettles ==
  \A b \in Ids :
     (\E n \in notes : n.invoice = b /\ n.success /\ n.tid # NoTid)
       ~> (earned[b] # <<>>)

-----------------------------------------------------------------------------
(* What the comments of the code say and the code does not do.             *)

\* "a discount applied here is simply what gets charged" (loyaltyService.js):
\* the amount of a paid payment is the price of its booking.
ChargedIsPrice ==
  \A p \in PayIds : HasRow(p) /\ payments[p].status = "paid" =>
     payments[p].amount = price[payments[p].booking]

\* "any refund (full or partial) reverses the FULL amount earned"
\* (cancellationService.js): when a payment is refunded, all points earned from
\* its booking are taken back, unless the balance is used up.
ClawbackIsFull ==
  [][\A b \in Ids : Refunding(b) /\ bookings'[b].status = "cancelled" =>
       \/ clawed'[b] = FoldSeq(LAMBDA x, y : x + y, 0, earned[b])
       \/ balance'[Guest(b)] = 0]_vars
=============================================================================
