--------------------------- MODULE PaymentsProofs ---------------------------
(***************************************************************************)
(* Payments are right for any number of bookings, payments, deliveries and  *)
(* notifications.                                                          *)
(*                                                                         *)
(* The argument: while a gateway is called under the booking's row lock, no  *)
(* other statement touches that booking or its paid payments (Calls), a     *)
(* payment is charged in one call only (Alone), and what a webhook fetched  *)
(* before its transaction stays true of the charge (FetchedTrue), for       *)
(* charges only ever settle.  So each step that writes a payment or a       *)
(* booking finds the other row as it must be (Money).                       *)
(*                                                                         *)
(* That a success counts once rests on the record of events: what settled a *)
(* payment is on it, and a webhook settles only with what is not            *)
(* (SettledInv).                                                            *)
(***************************************************************************)
EXTENDS Payments, BookingTableProofs

\* A payment row has its booking, and a charge at Omise only with a method of Omise.
RowsKnown ==
  \A p \in PayIds : HasRow(p) =>
     /\ Exists(payments[p].booking)
     /\ charge[p] # "none" => payments[p].method \in {"card", "qr"}

\* A gateway call is made for a booking: a charge for a payment without a row, a
\* refund for a paid payment of the booking.
Calls ==
  \A b \in Ids :
     /\ busy[b] # Idle => Exists(b)
     /\ Paying(b) => /\ ~HasRow(busy[b].payment)
                     /\ charge[busy[b].payment] # "none" => busy[b].method \in {"card", "qr"}
     /\ Refunding(b) => busy[b].payment \in PaidRows(b)

\* No two bookings are charged for one payment.
Alone ==
  \A a, b \in Ids :
     Paying(a) /\ Paying(b) /\ busy[a].payment = busy[b].payment => a = b

\* A success that was fetched stays true.
FetchedTrue ==
  \A d \in fetched : d.status = "successful" => charge[d.event[1]] = "successful"

\* Points are redeemed for bookings that exist.
RedeemedExist == \A b \in Ids : ~Exists(b) => redeemed[b] = 0

\* A confirmed booking has a payment that is paid, perhaps after a refund.
ConfirmedWithPaid ==
  \A b \in Ids : Exists(b) /\ bookings[b].status = "confirmed" => PaidRows(b) # {}

Money == PaidMeansCharged /\ ConfirmedWithPaid /\ PaidIsSettled /\ RefundOnRecord

IInv ==
  /\ TypeOK
  /\ RowsKnown
  /\ Calls
  /\ Alone
  /\ FetchedTrue
  /\ RedeemedExist
  /\ Money
  /\ OneDiscountPerBooking

-----------------------------------------------------------------------------
(* What the statements on a booking row do to the table.                    *)

\* A change of status leaves a row a row.
LEMMA StatusKeepsRow ==
  ASSUME NEW row \in Row, NEW s \in Statuses
  PROVE  /\ [row EXCEPT !.status = s] \in Row
         /\ [row EXCEPT !.status = s] # NoBooking
  BY BookingTableAssumption DEF Row

\* Everything of the bookings but the status.
SameStays ==
  \A i \in Ids : /\ Exists(i)' <=> Exists(i)
                 /\ Exists(i) => /\ bookings'[i].guest = bookings[i].guest
                                 /\ bookings'[i].checkin = bookings[i].checkin
                                 /\ bookings'[i].checkout = bookings[i].checkout

SameRows(except) == \A i \in Ids \ except : bookings'[i] = bookings[i]

\* Confirm touches the status of one row.
LEMMA ConfirmRow ==
  ASSUME TableTypeOK, NEW b \in Ids, Confirm(b)
  PROVE  /\ TableTypeOK'
         /\ SameStays
         /\ SameRows({b})
         /\ bookings'[b].status = "confirmed"
<1>1. bookings[b] \in Row
  BY DEF TableTypeOK, Confirm, Exists
<1>2. "confirmed" \in Statuses
  BY DEF Statuses
<1>3. bookings'[b] = [bookings[b] EXCEPT !.status = "confirmed"]
  BY DEF TableTypeOK, Confirm, SetStatus
<1>4. bookings'[b] \in Row /\ bookings'[b] # NoBooking
  BY <1>1, <1>2, <1>3, StatusKeepsRow
<1>5. SameRows({b}) /\ late' \in SUBSET Ids /\ clock' = clock
  BY DEF TableTypeOK, Confirm, SetStatus, SameRows
<1>6. bookings' \in [Ids -> Row \cup {NoBooking}]
  BY <1>4 DEF TableTypeOK, Confirm, SetStatus
<1>7. SameStays
  BY <1>1, <1>3, <1>4, <1>5 DEF SameStays, SameRows, Exists, Row, Confirm
<1> QED
  BY <1>1, <1>3, <1>5, <1>6, <1>7 DEF TableTypeOK, Row

\* So does Cancel.
LEMMA CancelRow ==
  ASSUME TableTypeOK, NEW b \in Ids, Cancel(b)
  PROVE  /\ TableTypeOK'
         /\ SameStays
         /\ SameRows({b})
         /\ bookings'[b].status = "cancelled"
<1>1. bookings[b] \in Row /\ Exists(b)
  BY DEF TableTypeOK, Cancel, Cancellable, Exists
<1>2. "cancelled" \in Statuses
  BY DEF Statuses
<1>3. bookings'[b] = [bookings[b] EXCEPT !.status = "cancelled"]
  BY DEF TableTypeOK, Cancel, SetStatus
<1>4. bookings'[b] \in Row /\ bookings'[b] # NoBooking
  BY <1>1, <1>2, <1>3, StatusKeepsRow
<1>5. SameRows({b}) /\ late' = late /\ clock' = clock
  BY DEF TableTypeOK, Cancel, SetStatus, SameRows
<1>6. bookings' \in [Ids -> Row \cup {NoBooking}]
  BY <1>4 DEF TableTypeOK, Cancel, SetStatus
<1>7. SameStays
  BY <1>1, <1>3, <1>4, <1>5 DEF SameStays, SameRows, Exists, Row
<1> QED
  BY <1>1, <1>3, <1>5, <1>6, <1>7 DEF TableTypeOK, Row

\* A sweep expires what it matches and leaves the rest alone.
LEMMA ExpireRows ==
  ASSUME TableTypeOK, NEW t, ExpireHolds(t)
  PROVE  /\ TableTypeOK'
         /\ SameStays
         /\ \A i \in Ids : IF Lapsed(i, t) THEN bookings'[i].status = "expired"
                                           ELSE bookings'[i] = bookings[i]
<1>1. "expired" \in Statuses
  BY DEF Statuses
<1>2. ASSUME NEW i \in Ids, Lapsed(i, t)
      PROVE  /\ bookings[i] \in Row
             /\ bookings'[i] = [bookings[i] EXCEPT !.status = "expired"]
             /\ bookings'[i] \in Row
             /\ bookings'[i] # NoBooking
  <2>1. bookings[i] \in Row
    BY <1>2 DEF TableTypeOK, Lapsed, Exists
  <2>2. bookings'[i] = [bookings[i] EXCEPT !.status = "expired"]
    BY <1>2 DEF ExpireHolds
  <2> QED
    BY <1>1, <2>1, <2>2, StatusKeepsRow
<1>3. \A i \in Ids : ~Lapsed(i, t) => bookings'[i] = bookings[i]
  BY DEF ExpireHolds
<1>4. bookings' \in [Ids -> Row \cup {NoBooking}]
  BY <1>2, <1>3 DEF ExpireHolds, TableTypeOK
<1>5. SameStays
  BY <1>2, <1>3 DEF SameStays, Exists, Row, Lapsed
<1>6. \A i \in Ids : Lapsed(i, t) => bookings'[i].status = "expired"
  BY <1>2 DEF Row
<1> QED
  BY <1>3, <1>4, <1>5, <1>6 DEF TableTypeOK, ExpireHolds

-----------------------------------------------------------------------------
(* Amounts.                                                                *)

\* A quotient of naturals rounds to a natural, for the divisors in use.
LEMMA Rounds ==
  ASSUME NEW n \in Nat
  PROVE  RoundDiv(n, 2) \in Nat /\ RoundDiv(n, 10) \in Nat /\ RoundDiv(n, 100) \in Nat
  BY DEF RoundDiv

LEMMA Product ==
  ASSUME NEW m \in Nat, NEW n \in Nat
  PROVE  m * n \in Nat
  OBVIOUS

LEMMA PriceType ==
  ASSUME NEW n \in Nat
  PROVE  TotalPrice(NightPrice, n) \in Nat
<1>1. NightPrice * n \in Nat
  BY Product, PaymentsAssumption
<1>2. RoomTotal(NightPrice, n) \in Nat
  BY <1>1, Rounds DEF RoomTotal
<1>3. RoundDiv(RoomTotal(NightPrice, n), 10) \in Nat
  BY <1>2, Rounds
<1>4. (RoomTotal(NightPrice, n) + RoundDiv(RoomTotal(NightPrice, n), 10)) * 7 \in Nat
  BY <1>2, <1>3
<1>5. RoundDiv((RoomTotal(NightPrice, n) + RoundDiv(RoomTotal(NightPrice, n), 10)) * 7, 100)
        \in Nat
  BY <1>4, Rounds
<1> QED
  BY <1>2, <1>3, <1>5 DEF TotalPrice

\* A discount is at most half of a total.
LEMMA DiscountType ==
  ASSUME NEW total \in Nat
  PROVE  MaxDiscount(total) \in Nat /\ MaxDiscount(total) <= total
  BY DEF MaxDiscount

\* Points earned are credited as a natural number.
LEMMA EarnType ==
  ASSUME NEW total \in Nat
  PROVE  EarnPoints(total) \in Nat
<1>1. total * 2 \in Nat
  OBVIOUS
<1> QED
  BY <1>1, Rounds DEF EarnPoints

\* Rounding misses a quotient by half a unit at most, and half up.
LEMMA RoundsNear ==
  ASSUME NEW n \in Nat
  PROVE  /\ 2 * n - 2 < 4 * RoundDiv(n, 2) /\ 4 * RoundDiv(n, 2) <= 2 * n + 2
         /\ 2 * n - 10 < 20 * RoundDiv(n, 10) /\ 20 * RoundDiv(n, 10) <= 2 * n + 10
         /\ 2 * n - 100 < 200 * RoundDiv(n, 100) /\ 200 * RoundDiv(n, 100) <= 2 * n + 100
  BY DEF RoundDiv

\* createBooking rounds three times and computes VAT on rounded amounts; the total is
\* still within 1.63 baht of the room price with 10% service charge and 7% VAT on both,
\* for any price and any number of nights.
THEOREM PriceIsNear ==
  ASSUME NEW satang \in Nat, NEW nights \in Nat
  PROVE  /\ 100000 * TotalPrice(satang, nights) <= 1177 * (satang * nights) + 162350
         /\ 1177 * (satang * nights) - 162350 <= 100000 * TotalPrice(satang, nights)
<1> DEFINE room == RoomTotal(satang, nights)
           service == RoundDiv(room, 10)
           vat == RoundDiv((room + service) * 7, 100)
<1>1. satang * nights \in Nat
  BY Product
<1>2. /\ room \in Nat
      /\ 2 * (satang * nights) - 100 < 200 * room
      /\ 200 * room <= 2 * (satang * nights) + 100
  BY <1>1, Rounds, RoundsNear DEF RoomTotal
<1>3. service \in Nat /\ 2 * room - 10 < 20 * service /\ 20 * service <= 2 * room + 10
  BY <1>2, Rounds, RoundsNear
<1>4. (room + service) * 7 \in Nat
  BY <1>2, <1>3
<1>5. /\ vat \in Nat
      /\ 2 * ((room + service) * 7) - 100 < 200 * vat
      /\ 200 * vat <= 2 * ((room + service) * 7) + 100
  BY <1>4, Rounds, RoundsNear
<1>6. TotalPrice(satang, nights) = room + service + vat
  BY DEF TotalPrice
<1> HIDE DEF room, service, vat
<1> QED
  BY <1>1, <1>2, <1>3, <1>5, <1>6

\* calculateCancellationFee: a refund is never negative nor more than was paid, and who
\* cancels earlier never gets back less; in the middle tier the odd baht goes to the hotel.
THEOREM CancellingEarlierPays ==
  ASSUME NEW paid \in Nat, NEW early \in Int, NEW soon \in Int, soon <= early
  PROVE  /\ Refund(soon, paid) \in 0 .. paid
         /\ Refund(soon, paid) <= Refund(early, paid)
         /\ 24 <= early /\ early < 72 => Refund(early, paid) = paid \div 2
<1>1. RoundDiv(paid, 2) \in Nat /\ RoundDiv(paid, 2) <= paid /\ paid - RoundDiv(paid, 2) = paid \div 2
  BY DEF RoundDiv
<1> QED
  BY <1>1 DEF Refund, CancellationFee

-----------------------------------------------------------------------------
(* Types.                                                                  *)

\* A call in progress names its payment and its method.
LEMMA CallType ==
  ASSUME TypeOK, NEW b \in Ids
  PROVE  /\ Paying(b) => busy[b].payment \in PayIds /\ busy[b].method \in AllMethods
         /\ Refunding(b) => busy[b].payment \in PayIds
         /\ busy[b] # Idle => Paying(b) \/ Refunding(b)
         /\ ~(Paying(b) /\ Refunding(b))
<1>1. busy[b] \in PayCall \cup RefundCall \cup {Idle}
  BY DEF TypeOK
<1> QED
  BY <1>1 DEF Paying, Refunding, PayCall, RefundCall

\* A row on file is one of payments, and it says so.
LEMMA RowType ==
  ASSUME TypeOK, NEW p \in PayIds, HasRow(p)
  PROVE  /\ payments[p] \in PaymentRow
         /\ payments[p].booking \in Ids
         /\ payments[p].amount \in Nat
         /\ payments[p].method \in AllMethods
<1>1. payments[p] \in PaymentRow
  BY DEF TypeOK, HasRow
<1> QED
  BY <1>1 DEF PaymentRow

\* A row of payments is a row.
LEMMA RowIsRow ==
  ASSUME NEW row \in PaymentRow
  PROVE  row # NoPayment
  BY PaymentsAssumption

\* A new status of a row on file.
LEMMA SetPaymentType ==
  ASSUME TypeOK, NEW p \in PayIds, HasRow(p), NEW st \in PaymentStatuses, SetPayment(p, st)
  PROVE  /\ payments' \in [PayIds -> PaymentRow \cup {NoPayment}]
         /\ payments'[p].status = st
         /\ \A q \in PayIds : q # p => payments'[q] = payments[q]
         /\ \A q \in PayIds : HasRow(q)' <=> HasRow(q)
         /\ payments'[p].booking = payments[p].booking
         /\ payments'[p].method = payments[p].method
<1>1. payments[p] \in PaymentRow
  BY RowType
<1>2. [payments[p] EXCEPT !.status = st] \in PaymentRow
  BY <1>1 DEF PaymentRow
<1>3. payments' = [payments EXCEPT ![p] = [payments[p] EXCEPT !.status = st]]
  BY DEF SetPayment
<1>4. payments' \in [PayIds -> PaymentRow \cup {NoPayment}]
  BY <1>2, <1>3 DEF TypeOK
<1>5. payments'[p] = [payments[p] EXCEPT !.status = st]
  BY <1>3 DEF TypeOK
<1>6. \A q \in PayIds : q # p => payments'[q] = payments[q]
  BY <1>3 DEF TypeOK
<1>7. payments'[p] # NoPayment
  BY <1>2, <1>5, RowIsRow
<1>8. /\ payments'[p].status = st
      /\ payments'[p].booking = payments[p].booking
      /\ payments'[p].method = payments[p].method
  BY <1>1, <1>5 DEF PaymentRow
<1> QED
  BY <1>4, <1>6, <1>7, <1>8 DEF HasRow

\* A payment on file is paid.
LEMMA SettleType ==
  ASSUME TypeOK, NEW p \in PayIds, HasRow(p),
         payments' = [payments EXCEPT ![p].status = "paid", ![p].paidAt = clock]
  PROVE  /\ payments' \in [PayIds -> PaymentRow \cup {NoPayment}]
         /\ payments'[p].status = "paid"
         /\ \A q \in PayIds : q # p => payments'[q] = payments[q]
         /\ \A q \in PayIds : HasRow(q)' <=> HasRow(q)
         /\ payments'[p].booking = payments[p].booking
         /\ payments'[p].method = payments[p].method
<1> DEFINE row == [payments[p] EXCEPT !.status = "paid", !.paidAt = clock]
<1>1. payments[p] \in PaymentRow
  BY RowType
<1>2. row \in PaymentRow /\ row.status = "paid" /\ row.booking = payments[p].booking
      /\ row.method = payments[p].method
  BY <1>1 DEF PaymentRow, PaymentStatuses, TypeOK, TableTypeOK
<1>3. payments'[p] = row /\ \A q \in PayIds : q # p => payments'[q] = payments[q]
  BY DEF TypeOK
<1>4. payments' = [payments EXCEPT ![p] = row]
  BY <1>3 DEF TypeOK
<1>5. payments' \in [PayIds -> PaymentRow \cup {NoPayment}]
  BY <1>2, <1>4 DEF TypeOK
<1>6. payments'[p] # NoPayment
  BY <1>2, <1>3, RowIsRow
<1> QED
  BY <1>2, <1>3, <1>5, <1>6 DEF HasRow

\* Points are credited to the guest of the booking.
LEMMA EarnKeepsType ==
  ASSUME TypeOK, NEW b \in Ids, Exists(b), Earn(b)
  PROVE  /\ balance' \in [Guests -> Nat]
         /\ earned' \in [Ids -> Seq(Nat)]
         /\ redeemed' \in [Ids -> Nat]
         /\ clawed' \in [Ids -> Nat]
         /\ redeemed' = redeemed
<1> DEFINE points == EarnPoints(price[b])
<1>1. points \in Nat
  BY EarnType DEF TypeOK
<1>2. Guest(b) \in Guests
  BY DEF TypeOK, TableTypeOK, Exists, Row, Guest
<1>3. earned[b] \in Seq(Nat) /\ Append(earned[b], points) \in Seq(Nat)
  BY <1>1 DEF TypeOK
<1> HIDE DEF points
<1>4. CASE UNCHANGED pointVars
  BY <1>4 DEF pointVars, TypeOK
<1>5. CASE /\ balance' = [balance EXCEPT ![Guest(b)] = @ + points]
           /\ earned' = [earned EXCEPT ![b] = Append(@, points)]
           /\ UNCHANGED <<redeemed, clawed>>
  <2>1. balance[Guest(b)] + points \in Nat
    BY <1>1, <1>2 DEF TypeOK
  <2> QED
    BY <1>2, <1>3, <1>5, <2>1 DEF TypeOK
<1> QED
  BY <1>4, <1>5 DEF Earn, points

\* Points are taken back, at most those there are.
LEMMA ClawBackKeepsType ==
  ASSUME TypeOK, NEW b \in Ids, Exists(b), ClawBack(b)
  PROVE  /\ balance' \in [Guests -> Nat]
         /\ clawed' \in [Ids -> Nat]
         /\ UNCHANGED <<earned, redeemed>>
<1> DEFINE lost == IF earned[b] = <<>> THEN 0
                   ELSE IF Head(earned[b]) < balance[Guest(b)]
                   THEN Head(earned[b]) ELSE balance[Guest(b)]
<1>1. Guest(b) \in Guests
  BY DEF TypeOK, TableTypeOK, Exists, Row, Guest
<1>2. balance[Guest(b)] \in Nat /\ clawed[b] \in Nat
  BY <1>1 DEF TypeOK
<1>3. earned[b] # <<>> => Head(earned[b]) \in Nat
  BY DEF TypeOK
<1>4. lost \in Nat /\ lost <= balance[Guest(b)]
  BY <1>2, <1>3
<1>5. /\ balance' = [balance EXCEPT ![Guest(b)] = @ - lost]
      /\ clawed' = [clawed EXCEPT ![b] = @ + lost]
      /\ UNCHANGED <<earned, redeemed>>
  BY DEF ClawBack
<1> HIDE DEF lost
<1>6. balance[Guest(b)] - lost \in Nat /\ clawed[b] + lost \in Nat
  BY <1>2, <1>4
<1> QED
  BY <1>1, <1>5, <1>6 DEF TypeOK

\* The record of what settled a payment grows by a report.
LEMMA SettledByType ==
  ASSUME TypeOK, NEW p \in PayIds, NEW report \in Reports, SettledBy(p, report)
  PROVE  /\ settledBy' \in [PayIds -> Seq(Reports)]
         /\ refunds' \in [PayIds -> Nat]
<1>1. settledBy[p] \in Seq(Reports) /\ Append(settledBy[p], report) \in Seq(Reports)
  BY DEF TypeOK
<1> QED
  BY <1>1 DEF SettledBy, TypeOK

\* Every step keeps the types.
LEMMA NextType ==
  ASSUME TypeOK, RowsKnown, Calls, Next
  PROVE  TypeOK'
<1> USE DEF webhookVars, pointVars, tableVars, moneyVars
<1>1. ASSUME NEW b \in Ids, NEW rt \in RoomTypes, NEW g \in Guests, NEW in \in Days,
             NEW out \in Days, CreateBooking(b, rt, g, in, out)
      PROVE  TypeOK'
  <2> DEFINE row == [roomType |-> rt, guest |-> g, checkin |-> in, checkout |-> out,
                     status |-> "pending", hold |-> clock + HoldTime]
  <2>1. row \in Row
    BY BookingTableAssumption DEF Row, Statuses, TypeOK, TableTypeOK
  <2>2. TableTypeOK'
    BY <1>1, <2>1 DEF CreateBooking, TypeOK, TableTypeOK
  <2>3. out - in \in Nat
    BY <1>1, BookingTableAssumption DEF CreateBooking, Days
  <2>4. price' \in [Ids -> Nat]
    BY <1>1, <2>3, PriceType DEF CreateBooking, TypeOK
  <2> QED
    BY <1>1, <2>2, <2>4 DEF CreateBooking, TypeOK
<1>2. ASSUME NEW b \in Ids, NEW points \in PointsAsked, Redeem(b, points)
      PROVE  TypeOK'
  <2>1. Guest(b) \in Guests
    BY <1>2 DEF Redeem, Guest, Exists, TypeOK, TableTypeOK, Row
  <2>2. points \in Nat /\ price[b] \in Nat /\ balance[Guest(b)] \in Nat
    BY <2>1, PaymentsAssumption DEF TypeOK
  <2>3. points <= price[b] /\ points <= balance[Guest(b)]
    BY <1>2, <2>2, DiscountType DEF Redeem
  <2>4. price[b] - points \in Nat /\ balance[Guest(b)] - points \in Nat
    BY <2>2, <2>3
  <2> QED
    BY <1>2, <2>1, <2>2, <2>4 DEF Redeem, TypeOK, TableTypeOK
<1>3. ASSUME NEW p \in PayIds, NEW b \in Ids, NEW m \in Methods, StartPayment(p, b, m)
      PROVE  TypeOK'
  <2>1. m \in AllMethods
    BY PaymentsAssumption
  <2>2. [op |-> "pay", payment |-> p, method |-> m] \in PayCall
    BY <2>1 DEF PayCall
  <2>3. PICK result \in ChargeStatuses : charge' = [charge EXCEPT ![p] = result]
    BY <1>3, <2>1 DEF StartPayment, ChargeStatuses, AllMethods
  <2>4. charge' \in [PayIds -> ChargeStatuses]
    BY <2>3 DEF TypeOK
  <2>5. busy' \in [Ids -> PayCall \cup RefundCall \cup {Idle}]
    BY <1>3, <2>2 DEF StartPayment, TypeOK
  <2> QED
    BY <1>3, <2>4, <2>5 DEF StartPayment, TypeOK, TableTypeOK
<1>4. ASSUME NEW p \in PayIds, CustomerPays(p)
      PROVE  TypeOK'
  <2>1. PICK result \in ChargeStatuses : charge' = [charge EXCEPT ![p] = result]
    BY <1>4 DEF CustomerPays, ChargeStatuses
  <2> QED
    BY <1>4, <2>1 DEF CustomerPays, TypeOK, TableTypeOK
<1>5. ASSUME NEW b \in Ids, NEW tid \in Tids, CustomerPaysInvoice(b, tid)
      PROVE  TypeOK'
  <2>1. notes' \subseteq Notes
    BY <1>5 DEF CustomerPaysInvoice, TypeOK, Notes
  <2> QED
    BY <1>5, <2>1 DEF CustomerPaysInvoice, TypeOK, TableTypeOK
<1>6. ASSUME NEW b \in Ids, NEW hours \in Hours, CancelWithoutRefund(b, hours)
      PROVE  TypeOK'
  <2>1. TableTypeOK'
    BY <1>6, CancelRow DEF CancelWithoutRefund, TypeOK
  <2>2. PICK refund \in RefundStatuses : RecordCancellation(b, refund)
    BY <1>6 DEF CancelWithoutRefund, RefundStatuses
  <2>3. cancels' \subseteq CancellationRow
    BY <2>2 DEF RecordCancellation, CancellationRow, TypeOK
  <2> QED
    BY <1>6, <2>1, <2>3 DEF CancelWithoutRefund, TypeOK
<1>7. ASSUME NEW b \in Ids, NEW hours \in Hours, StartRefund(b, hours)
      PROVE  TypeOK'
  <2>1. PICK p \in PayIds : busy' = [busy EXCEPT ![b] = [op |-> "refund", payment |-> p]]
    BY <1>7 DEF StartRefund, LatestPaid, PaidRows
  <2>2. busy' \in [Ids -> PayCall \cup RefundCall \cup {Idle}]
    BY <2>1 DEF RefundCall, TypeOK
  <2> QED
    BY <1>7, <2>2 DEF StartRefund, TypeOK, TableTypeOK
<1>8. ASSUME NEW b \in Ids, FinishPayment(b)
      PROVE  TypeOK'
  <2> DEFINE p == busy[b].payment
             paid == busy[b].method = "card" /\ charge[p] = "successful"
             row == [booking |-> b, amount |-> price[b], method |-> busy[b].method,
                     status |-> IF paid THEN "paid" ELSE "pending",
                     paidAt |-> IF paid THEN clock ELSE 0]
  <2>1. /\ payments' = [payments EXCEPT ![p] = row]
        /\ IF paid THEN Confirm(b) /\ Earn(b) /\ SettledBy(p, <<p, "charge">>)
                   ELSE UNCHANGED <<tableVars, pointVars, moneyVars>>
        /\ busy' = [busy EXCEPT ![b] = Idle]
        /\ UNCHANGED <<price, charge, webhookVars, cancels>>
    BY <1>8 DEF FinishPayment, Unlock
  <2>2. row \in PaymentRow /\ p \in PayIds
    BY <1>8, CallType DEF FinishPayment, PaymentRow, PaymentStatuses, TypeOK, TableTypeOK
  <2>3. payments' \in [PayIds -> PaymentRow \cup {NoPayment}]
    BY <2>1, <2>2 DEF TypeOK
  <2>4. Exists(b)
    BY <1>8 DEF FinishPayment, Paying, Calls
  <2>5. busy' \in [Ids -> PayCall \cup RefundCall \cup {Idle}]
    BY <2>1 DEF TypeOK
  <2> HIDE DEF row
  <2>6. CASE paid
    <3>1. <<p, "charge">> \in Reports
      BY <2>2 DEF Reports
    <3> HIDE DEF p
    <3>2. settledBy' \in [PayIds -> Seq(Reports)] /\ refunds' \in [PayIds -> Nat]
      BY <2>1, <2>2, <2>6, <3>1, SettledByType
    <3> QED
      BY <2>1, <2>3, <2>4, <2>5, <2>6, <3>2, ConfirmRow, EarnKeepsType DEF TypeOK
  <2>7. CASE ~paid
    BY <2>1, <2>3, <2>5, <2>7 DEF TypeOK, TableTypeOK
  <2> QED
    BY <2>6, <2>7
<1>9. ASSUME NEW b \in Ids, AbortPayment(b) \/ AbortRefund(b)
      PROVE  TypeOK'
  BY <1>9 DEF AbortPayment, AbortRefund, Unlock, TypeOK, TableTypeOK
<1>10. ASSUME NEW b \in Ids, FinishRefund(b)
       PROVE  TypeOK'
  <2>1. busy[b].payment \in PayIds /\ HasRow(busy[b].payment) /\ Exists(b)
    BY <1>10 DEF FinishRefund, Calls, Refunding, PaidRows
  <2>2. payments' \in [PayIds -> PaymentRow \cup {NoPayment}]
    BY <1>10, <2>1, SetPaymentType DEF FinishRefund, PaymentStatuses
  <2>3. TableTypeOK'
    BY <1>10, CancelRow DEF FinishRefund, TypeOK
  <2>4. PICK refund \in RefundStatuses : RecordCancellation(b, refund)
    BY <1>10 DEF FinishRefund, RefundStatus, RefundStatuses
  <2>5. cancels' \subseteq CancellationRow
    BY <2>4 DEF RecordCancellation, CancellationRow, TypeOK
  <2>6. busy' \in [Ids -> PayCall \cup RefundCall \cup {Idle}]
    BY <1>10 DEF FinishRefund, Unlock, TypeOK
  <2>7. refunds' \in [PayIds -> Nat] /\ settledBy' = settledBy
    BY <1>10, <2>1 DEF FinishRefund, Refunded, TypeOK
  <2> QED
    BY <1>10, <2>1, <2>2, <2>3, <2>5, <2>6, <2>7, ClawBackKeepsType DEF FinishRefund, TypeOK
<1>11. ASSUME NEW e \in OmiseEvents, Fetch(e)
       PROVE  TypeOK'
  <2>1. [event |-> e, status |-> charge[e[1]]]
          \in [event : OmiseEvents, status : ChargeStatuses]
    BY DEF TypeOK, OmiseEvents
  <2> QED
    BY <1>11, <2>1 DEF Fetch, TypeOK, TableTypeOK
<1>12. ASSUME NEW d \in fetched, IgnoreDelivery(d) \/ NotSettledYet(d) \/ DropDelivery(d)
       PROVE  TypeOK'
  <2>1. d.event \in OmiseEvents
    BY DEF TypeOK
  <2> QED
    BY <1>12, <2>1 DEF IgnoreDelivery, NotSettledYet, DropDelivery, Answer, TypeOK, TableTypeOK
<1>13. ASSUME NEW d \in fetched, ConfirmFromOmise(d)
       PROVE  TypeOK'
  <2>1. d.event \in OmiseEvents /\ d.event[1] \in PayIds /\ HasRow(d.event[1])
    BY <1>13 DEF TypeOK, OmiseEvents, ConfirmFromOmise, NewForPayment
  <2>2. payments[d.event[1]].booking \in Ids /\ Exists(payments[d.event[1]].booking)
    BY <2>1, RowType DEF RowsKnown
  <2>3. Settle(d.event[1])
    BY <1>13 DEF ConfirmFromOmise
  <2>4. payments' \in [PayIds -> PaymentRow \cup {NoPayment}]
    BY <2>1, <2>3, SettleType DEF Settle
  <2>5. TableTypeOK'
    BY <2>2, <2>3, ConfirmRow DEF Settle, TypeOK
  <2>6. /\ balance' \in [Guests -> Nat] /\ earned' \in [Ids -> Seq(Nat)]
        /\ redeemed' \in [Ids -> Nat] /\ clawed' \in [Ids -> Nat]
    BY <2>2, <2>3, EarnKeepsType DEF Settle
  <2>7. settledBy' \in [PayIds -> Seq(Reports)] /\ refunds' \in [PayIds -> Nat]
    BY <1>13, <2>1, SettledByType DEF ConfirmFromOmise, Reports
  <2> QED
    BY <1>13, <2>1, <2>4, <2>5, <2>6, <2>7 DEF ConfirmFromOmise, Answer, TypeOK
<1>14. ASSUME NEW d \in fetched, FailFromOmise(d)
       PROVE  TypeOK'
  <2>1. d.event \in OmiseEvents /\ d.event[1] \in PayIds /\ HasRow(d.event[1])
    BY <1>14 DEF TypeOK, OmiseEvents, FailFromOmise, NewForPayment
  <2>2. payments' \in [PayIds -> PaymentRow \cup {NoPayment}]
    BY <1>14, <2>1, SetPaymentType DEF FailFromOmise, PaymentStatuses
  <2> QED
    BY <1>14, <2>1, <2>2 DEF FailFromOmise, Answer, TypeOK, TableTypeOK
<1>15. ASSUME NEW n \in notes
       PROVE  n.invoice \in Ids /\ EventId(n) \in Tids \cup Ids
  BY DEF TypeOK, Notes, EventId
<1>16. ASSUME NEW n \in notes, IgnoreNote(n)
       PROVE  TypeOK'
  BY <1>15, <1>16 DEF IgnoreNote, TypeOK, TableTypeOK
<1>17. ASSUME NEW n \in notes, ConfirmFrom2c2p(n)
       PROVE  TypeOK'
  <2>1. PICK p \in InvoiceRows(n.invoice) : Settle(p) /\ SettledBy(p, EventId(n))
    BY <1>17 DEF ConfirmFrom2c2p
  <2>2. p \in PayIds /\ HasRow(p)
    BY DEF InvoiceRows
  <2>3. payments[p].booking \in Ids /\ Exists(payments[p].booking)
    BY <2>2, RowType DEF RowsKnown
  <2>4. payments' \in [PayIds -> PaymentRow \cup {NoPayment}]
    BY <2>1, <2>2, SettleType DEF Settle
  <2>5. TableTypeOK'
    BY <2>1, <2>3, ConfirmRow DEF Settle, TypeOK
  <2>6. /\ balance' \in [Guests -> Nat] /\ earned' \in [Ids -> Seq(Nat)]
        /\ redeemed' \in [Ids -> Nat] /\ clawed' \in [Ids -> Nat]
    BY <2>1, <2>3, EarnKeepsType DEF Settle
  <2>7. settledBy' \in [PayIds -> Seq(Reports)] /\ refunds' \in [PayIds -> Nat]
    BY <1>15, <2>1, <2>2, SettledByType DEF Reports
  <2> QED
    BY <1>15, <1>17, <2>4, <2>5, <2>6, <2>7 DEF ConfirmFrom2c2p, TypeOK
<1>18. ASSUME NEW n \in notes, FailFrom2c2p(n)
       PROVE  TypeOK'
  <2>1. PICK p \in InvoiceRows(n.invoice) : SetPayment(p, "failed")
    BY <1>18 DEF FailFrom2c2p
  <2>2. payments' \in [PayIds -> PaymentRow \cup {NoPayment}]
    BY <2>1, SetPaymentType DEF InvoiceRows, PaymentStatuses
  <2> QED
    BY <1>15, <1>18, <2>2 DEF FailFrom2c2p, TypeOK, TableTypeOK
<1>19. ASSUME NEW t \in 0 .. clock, ReleaseExpiredHolds(t)
       PROVE  TypeOK'
  <2>1. TableTypeOK'
    BY <1>19, ExpireRows DEF ReleaseExpiredHolds, TypeOK
  <2>2. ASSUME NEW p \in PayIds, HasRow(p)
        PROVE  [payments[p] EXCEPT !.status = "failed"] \in PaymentRow
    BY <2>2, RowType DEF PaymentRow, PaymentStatuses
  <2>3. payments' \in [PayIds -> PaymentRow \cup {NoPayment}]
    BY <1>19, <2>2 DEF ReleaseExpiredHolds, TypeOK
  <2> QED
    BY <1>19, <2>1, <2>3 DEF ReleaseExpiredHolds, TypeOK
<1>20. CASE TimePasses
  BY <1>20 DEF TimePasses, Tick, TypeOK, TableTypeOK
<1>21. CASE Customer
  BY <1>1, <1>2, <1>3, <1>4, <1>5, <1>6, <1>7, <1>21 DEF Customer
<1>22. CASE GatewayAnswers
  BY <1>8, <1>9, <1>10, <1>22 DEF GatewayAnswers
<1>23. CASE Omise
  BY <1>11, <1>12, <1>13, <1>14, <1>23 DEF Omise
<1>24. CASE TwoCTwoP
  BY <1>16, <1>17, <1>18, <1>24 DEF TwoCTwoP
<1> QED
  BY <1>19, <1>20, <1>21, <1>22, <1>23, <1>24 DEF Next

-----------------------------------------------------------------------------
(* Discounts.                                                              *)

\* Steps that leave prices and redemptions alone keep them in line.
LEMMA DiscountFrame ==
  ASSUME OneDiscountPerBooking, RedeemedExist, SameStays, UNCHANGED <<price, redeemed>>
  PROVE  OneDiscountPerBooking' /\ RedeemedExist'
  BY DEF OneDiscountPerBooking, RedeemedExist, SameStays, Exists

\* A new booking has no discount yet.
LEMMA CreateDiscount ==
  ASSUME TypeOK, OneDiscountPerBooking, RedeemedExist,
         NEW b \in Ids, NEW rt \in RoomTypes, NEW g \in Guests, NEW in \in Days,
         NEW out \in Days, CreateBooking(b, rt, g, in, out)
  PROVE  OneDiscountPerBooking' /\ RedeemedExist'
<1> DEFINE full == TotalPrice(NightPrice, out - in)
<1>1. redeemed' = redeemed /\ redeemed[b] = 0 /\ ~Exists(b)
  BY DEF CreateBooking, RedeemedExist, pointVars
<1>2. full \in Nat
  BY PriceType, BookingTableAssumption DEF CreateBooking, Days
<1>3. /\ price'[b] = full
      /\ bookings'[b].checkin = in /\ bookings'[b].checkout = out
      /\ \A i \in Ids : i # b => price'[i] = price[i] /\ bookings'[i] = bookings[i]
  BY DEF CreateBooking, TypeOK, TableTypeOK
<1> HIDE DEF full
<1>4. price'[b] = full - redeemed'[b] /\ redeemed'[b] <= MaxDiscount(full)
  BY <1>1, <1>2, <1>3, DiscountType
<1>5. ASSUME NEW i \in Ids, i # b
      PROVE  Exists(i)' <=> Exists(i)
  BY <1>3, <1>5 DEF Exists
<1>6. OneDiscountPerBooking'
  <2> SUFFICES ASSUME NEW i \in Ids, Exists(i)'
               PROVE  LET f == TotalPrice(NightPrice, bookings'[i].checkout - bookings'[i].checkin)
                      IN  price'[i] = f - redeemed'[i] /\ redeemed'[i] <= MaxDiscount(f)
    BY DEF OneDiscountPerBooking
  <2>1. CASE i = b
    BY <2>1, <1>3, <1>4 DEF full
  <2>2. CASE i # b
    BY <2>2, <1>1, <1>3, <1>5 DEF OneDiscountPerBooking
  <2> QED
    BY <2>1, <2>2
<1>7. RedeemedExist'
  BY <1>1, <1>5 DEF RedeemedExist
<1> QED
  BY <1>6, <1>7

\* The one redemption of a booking is its discount.
LEMMA RedeemDiscount ==
  ASSUME TypeOK, OneDiscountPerBooking, RedeemedExist,
         NEW b \in Ids, NEW points \in PointsAsked, Redeem(b, points)
  PROVE  OneDiscountPerBooking' /\ RedeemedExist'
<1>1. points \in Nat /\ redeemed[b] = 0 /\ Exists(b) /\ points <= MaxDiscount(price[b])
  BY PaymentsAssumption DEF Redeem
<1>2. /\ price'[b] = price[b] - points /\ redeemed'[b] = points
      /\ \A i \in Ids : i # b => price'[i] = price[i] /\ redeemed'[i] = redeemed[i]
      /\ bookings' = bookings
  BY DEF Redeem, tableVars, TypeOK
<1>3. price[b] \in Nat
  BY DEF TypeOK
<1> DEFINE full(i) == TotalPrice(NightPrice, bookings[i].checkout - bookings[i].checkin)
<1>4. \A i \in Ids : Exists(i) => price[i] = full(i) - redeemed[i]
                                 /\ redeemed[i] <= MaxDiscount(full(i))
  BY DEF OneDiscountPerBooking
<1>5. full(b) \in Int
  <2>1. bookings[b].checkout - bookings[b].checkin \in Int
    BY <1>1 DEF TypeOK, TableTypeOK, Exists, Row, Days
  <2>2. NightPrice * (bookings[b].checkout - bookings[b].checkin) \in Int
    BY <2>1, PaymentsAssumption
  <2> QED
    BY <2>2 DEF TotalPrice, RoomTotal, RoundDiv
<1> HIDE DEF full
<1>6. price[b] = full(b)
  BY <1>1, <1>3, <1>4, <1>5
<1>7. \A i \in Ids : Exists(i) => price'[i] = full(i) - redeemed'[i]
                                 /\ redeemed'[i] <= MaxDiscount(full(i))
  BY <1>1, <1>2, <1>4, <1>6
<1>8. OneDiscountPerBooking'
  BY <1>2, <1>7 DEF OneDiscountPerBooking, full, Exists
<1>9. RedeemedExist'
  BY <1>1, <1>2 DEF RedeemedExist, Exists
<1> QED
  BY <1>8, <1>9

-----------------------------------------------------------------------------
(* Money.                                                                  *)

\* What gateways have taken stays taken.
TakenStays ==
  /\ \A p \in PayIds : charge[p] = "successful" => charge'[p] = "successful"
  /\ notes \subseteq notes'

\* Steps that touch neither bookings nor payments.
LEMMA QuietMoney ==
  ASSUME Money, UNCHANGED <<bookings, payments, cancels>>, TakenStays
  PROVE  Money'
<1>1. PaidMeansCharged'
  BY DEF Money, PaidMeansCharged, Charged, HasRow, TakenStays
<1>2. ConfirmedWithPaid' /\ PaidIsSettled' /\ RefundOnRecord'
  BY DEF Money, ConfirmedWithPaid, PaidIsSettled, RefundOnRecord, PaidRows, HasRow, Exists
<1> QED
  BY <1>1, <1>2 DEF Money

\* Payment p becomes paid and its booking b confirmed.
LEMMA PaidMoney ==
  ASSUME TypeOK, Money, NEW p \in PayIds, NEW b \in Ids,
         HasRow(p) => payments[p].booking = b,
         HasRow(p)', payments'[p].booking = b, payments'[p].status = "paid", Charged(p)',
         \A q \in PayIds : q # p => payments'[q] = payments[q],
         SameRows({b}), bookings'[b].status = "confirmed",
         UNCHANGED <<charge, notes, cancels>>
  PROVE  Money'
<1>1. PaidMeansCharged'
  BY DEF Money, PaidMeansCharged, Charged, HasRow
<1>2. ConfirmedWithPaid'
  <2> SUFFICES ASSUME NEW i \in Ids, Exists(i)', bookings'[i].status = "confirmed"
               PROVE  PaidRows(i)' # {}
    BY DEF ConfirmedWithPaid
  <2>1. CASE i = b
    BY <2>1 DEF PaidRows
  <2>2. CASE i # b
    <3>1. Exists(i) /\ bookings[i].status = "confirmed"
      BY <2>2 DEF SameRows, Exists
    <3>2. PICK q \in PayIds : /\ HasRow(q) /\ payments[q].booking = i
                              /\ payments[q].status = "paid"
      BY <3>1 DEF Money, ConfirmedWithPaid, PaidRows
    <3>3. q # p
      BY <3>2, <2>2
    <3> QED
      BY <3>2, <3>3 DEF PaidRows, HasRow
  <2> QED
    BY <2>1, <2>2
<1>3. PaidIsSettled'
  <2> SUFFICES ASSUME NEW q \in PayIds, HasRow(q)', payments'[q].status = "paid"
               PROVE  bookings'[payments'[q].booking].status \in {"confirmed", "cancelled"}
    BY DEF PaidIsSettled
  <2>1. CASE payments'[q].booking = b
    BY <2>1
  <2>2. CASE payments'[q].booking # b
    <3>1. payments'[q] = payments[q] /\ HasRow(q)
      BY <2>2 DEF HasRow
    <3>2. payments[q].booking \in Ids
      BY <3>1, RowType
    <3> QED
      BY <2>2, <3>1, <3>2 DEF SameRows, Money, PaidIsSettled
  <2> QED
    BY <2>1, <2>2
<1>4. RefundOnRecord'
  BY DEF Money, RefundOnRecord, HasRow
<1> QED
  BY <1>1, <1>2, <1>3, <1>4 DEF Money

\* Payment p, not paid before, is written as one that is not paid.
LEMMA UnpaidMoney ==
  ASSUME Money, NEW p \in PayIds,
         ~(HasRow(p) /\ payments[p].status = "paid"),
         payments'[p].status \in {"pending", "failed"},
         \A q \in PayIds : q # p => payments'[q] = payments[q],
         UNCHANGED <<bookings, charge, notes, cancels>>
  PROVE  Money'
<1>1. PaidMeansCharged'
  BY DEF Money, PaidMeansCharged, Charged, HasRow
<1>2. ConfirmedWithPaid'
  <2> SUFFICES ASSUME NEW i \in Ids, Exists(i), bookings[i].status = "confirmed"
               PROVE  PaidRows(i)' # {}
    BY DEF ConfirmedWithPaid, Exists
  <2>1. PICK q \in PaidRows(i) : TRUE
    BY DEF Money, ConfirmedWithPaid
  <2>2. q # p
    BY DEF PaidRows
  <2> QED
    BY <2>1, <2>2 DEF PaidRows, HasRow
<1>3. PaidIsSettled'
  BY DEF Money, PaidIsSettled, HasRow
<1>4. RefundOnRecord'
  BY DEF Money, RefundOnRecord, HasRow
<1> QED
  BY <1>1, <1>2, <1>3, <1>4 DEF Money

\* Booking b is cancelled; a payment of it may be refunded, and this is recorded.
LEMMA CancelMoney ==
  ASSUME TypeOK, Money, NEW b \in Ids,
         SameRows({b}), bookings'[b].status = "cancelled",
         UNCHANGED <<charge, notes>>, cancels \subseteq cancels',
         \/ UNCHANGED payments
         \/ \E p \in PaidRows(b) :
               /\ \A q \in PayIds : q # p => payments'[q] = payments[q]
               /\ payments'[p].status = "refunded"
               /\ payments'[p].booking = b
               /\ payments'[p].method = payments[p].method
               /\ \E refund : /\ refund \notin {"not_applicable", "none"}
                              /\ [booking |-> b, refund |-> refund] \in cancels'
  PROVE  Money'
<1>1. CASE UNCHANGED payments
  <2>1. PaidMeansCharged'
    BY <1>1 DEF Money, PaidMeansCharged, Charged, HasRow
  <2>2. ConfirmedWithPaid'
    BY <1>1 DEF Money, ConfirmedWithPaid, SameRows, PaidRows, HasRow, Exists
  <2>3. PaidIsSettled'
    <3> SUFFICES ASSUME NEW q \in PayIds, HasRow(q), payments[q].status = "paid"
                 PROVE  bookings'[payments[q].booking].status \in {"confirmed", "cancelled"}
      BY <1>1 DEF PaidIsSettled, HasRow
    <3>1. payments[q].booking \in Ids
      BY RowType
    <3> QED
      BY <3>1 DEF SameRows, Money, PaidIsSettled
  <2>4. RefundOnRecord'
    BY <1>1 DEF Money, RefundOnRecord, HasRow
  <2> QED
    BY <2>1, <2>2, <2>3, <2>4 DEF Money
<1>2. ASSUME NEW p \in PaidRows(b),
             \A q \in PayIds : q # p => payments'[q] = payments[q],
             payments'[p].status = "refunded", payments'[p].booking = b,
             payments'[p].method = payments[p].method,
             NEW refund, refund \notin {"not_applicable", "none"},
             [booking |-> b, refund |-> refund] \in cancels'
      PROVE  Money'
  <2>0. /\ p \in PayIds /\ HasRow(p) /\ payments[p].booking = b
        /\ payments[p].status = "paid"
    BY DEF PaidRows
  <2>1. PaidMeansCharged'
    <3> SUFFICES ASSUME NEW q \in PayIds, HasRow(q)', payments'[q].status \in {"paid", "refunded"}
                 PROVE  Charged(q)'
      BY DEF PaidMeansCharged
    <3>1. HasRow(q) /\ payments[q].status \in {"paid", "refunded"}
      BY <1>2, <2>0 DEF HasRow
    <3>2. Charged(q)
      BY <3>1 DEF Money, PaidMeansCharged
    <3>3. /\ payments'[q].method = payments[q].method
          /\ payments'[q].booking = payments[q].booking
      BY <1>2, <2>0
    <3> QED
      BY <3>2, <3>3 DEF Charged
  <2>2. ConfirmedWithPaid'
    <3> SUFFICES ASSUME NEW i \in Ids, Exists(i)', bookings'[i].status = "confirmed"
                 PROVE  PaidRows(i)' # {}
      BY DEF ConfirmedWithPaid
    <3>1. i # b /\ Exists(i) /\ bookings[i].status = "confirmed"
      BY DEF SameRows, Exists
    <3>2. PICK q \in PaidRows(i) : TRUE
      BY <3>1 DEF Money, ConfirmedWithPaid
    <3>3. q \in PayIds /\ q # p
      BY <2>0, <3>1 DEF PaidRows
    <3> QED
      BY <1>2, <3>2, <3>3 DEF PaidRows, HasRow
  <2>3. PaidIsSettled'
    <3> SUFFICES ASSUME NEW q \in PayIds, HasRow(q)', payments'[q].status = "paid"
                 PROVE  bookings'[payments'[q].booking].status \in {"confirmed", "cancelled"}
      BY DEF PaidIsSettled
    <3>1. payments'[q] = payments[q] /\ HasRow(q)
      BY <1>2 DEF HasRow
    <3>2. payments[q].booking \in Ids
      BY <3>1, RowType
    <3> QED
      BY <3>1, <3>2 DEF SameRows, Money, PaidIsSettled
  <2>4. RefundOnRecord'
    <3> SUFFICES ASSUME NEW q \in PayIds, HasRow(q)', payments'[q].status = "refunded"
                 PROVE  \E c \in cancels' : /\ c.booking = payments'[q].booking
                                            /\ c.refund \notin {"not_applicable", "none"}
      BY DEF RefundOnRecord
    <3>1. CASE q = p
      BY <1>2, <3>1
    <3>2. CASE q # p
      BY <1>2, <3>2 DEF HasRow, Money, RefundOnRecord
    <3> QED
      BY <3>1, <3>2
  <2> QED
    BY <2>1, <2>2, <2>3, <2>4 DEF Money
<1> QED
  BY <1>1, <1>2

\* A sweep expires bookings whose payments are not paid.
LEMMA ReleaseMoney ==
  ASSUME TypeOK, Money, NEW t, ReleaseExpiredHolds(t)
  PROVE  /\ Money'
         /\ \A p \in PayIds : HasRow(p)' <=> HasRow(p)
         /\ \A p \in PayIds : HasRow(p) => payments'[p].booking = payments[p].booking
                                         /\ payments'[p].method = payments[p].method
         /\ \A p \in PayIds : HasRow(p) /\ payments[p].status = "paid"
                                => payments'[p] = payments[p]
<1>1. /\ \A i \in Ids : IF Lapsed(i, t) THEN bookings'[i].status = "expired"
                                          ELSE bookings'[i] = bookings[i]
      /\ SameStays
  BY ExpireRows DEF ReleaseExpiredHolds, TypeOK
<1>2. UNCHANGED <<charge, notes, cancels>>
  BY DEF ReleaseExpiredHolds, webhookVars
<1>3. ASSUME NEW p \in PayIds
      PROVE  /\ HasRow(p)' <=> HasRow(p)
             /\ HasRow(p) => /\ payments'[p].booking = payments[p].booking
                             /\ payments'[p].method = payments[p].method
                             /\ \/ payments'[p] = payments[p]
                                \/ payments[p].status = "pending" /\ payments'[p].status = "failed"
  <2>1. CASE HasRow(p) /\ Lapsed(payments[p].booking, t) /\ payments[p].status = "pending"
    <3>1. payments[p] \in PaymentRow
      BY <2>1, RowType
    <3>2. payments'[p] = [payments[p] EXCEPT !.status = "failed"]
      BY <2>1 DEF ReleaseExpiredHolds
    <3>3. payments'[p] \in PaymentRow
      BY <3>1, <3>2 DEF PaymentRow, PaymentStatuses
    <3> QED
      BY <2>1, <3>1, <3>2, <3>3, RowIsRow DEF PaymentRow, HasRow
  <2>2. CASE ~(HasRow(p) /\ Lapsed(payments[p].booking, t) /\ payments[p].status = "pending")
    BY <2>2 DEF ReleaseExpiredHolds, HasRow
  <2> QED
    BY <2>1, <2>2
<1>4. PaidMeansCharged'
  BY <1>2, <1>3 DEF Money, PaidMeansCharged, Charged
<1>5. ConfirmedWithPaid'
  <2> SUFFICES ASSUME NEW i \in Ids, Exists(i)', bookings'[i].status = "confirmed"
               PROVE  PaidRows(i)' # {}
    BY DEF ConfirmedWithPaid
  <2>1. Exists(i) /\ bookings[i].status = "confirmed"
    BY <1>1 DEF SameStays
  <2>2. PICK q \in PaidRows(i) : TRUE
    BY <2>1 DEF Money, ConfirmedWithPaid
  <2> QED
    BY <1>3, <2>2 DEF PaidRows
<1>6. PaidIsSettled'
  <2> SUFFICES ASSUME NEW q \in PayIds, HasRow(q)', payments'[q].status = "paid"
               PROVE  bookings'[payments'[q].booking].status \in {"confirmed", "cancelled"}
    BY DEF PaidIsSettled
  <2>1. HasRow(q) /\ payments'[q] = payments[q]
    BY <1>3
  <2>2. bookings[payments[q].booking].status \in {"confirmed", "cancelled"}
    BY <2>1 DEF Money, PaidIsSettled
  <2>3. payments[q].booking \in Ids /\ ~Lapsed(payments[q].booking, t)
    BY <2>1, <2>2, RowType DEF Lapsed
  <2> QED
    BY <1>1, <2>1, <2>2, <2>3
<1>7. RefundOnRecord'
  BY <1>2, <1>3 DEF Money, RefundOnRecord
<1> QED
  BY <1>3, <1>4, <1>5, <1>6, <1>7 DEF Money

\* A new booking is nobody's payment yet.
LEMMA CreateMoney ==
  ASSUME TypeOK, RowsKnown, Money, NEW b \in Ids, ~Exists(b), SameRows({b}),
         bookings'[b].status = "pending", UNCHANGED <<payments, charge, notes, cancels>>
  PROVE  Money'
<1>1. PaidMeansCharged' /\ RefundOnRecord'
  BY DEF Money, PaidMeansCharged, Charged, RefundOnRecord, HasRow
<1>2. ConfirmedWithPaid'
  BY DEF Money, ConfirmedWithPaid, SameRows, PaidRows, HasRow, Exists
<1>3. PaidIsSettled'
  <2> SUFFICES ASSUME NEW q \in PayIds, HasRow(q), payments[q].status = "paid"
               PROVE  bookings'[payments[q].booking].status \in {"confirmed", "cancelled"}
    BY DEF PaidIsSettled, HasRow
  <2>1. payments[q].booking \in Ids /\ payments[q].booking # b
    BY RowType DEF RowsKnown
  <2> QED
    BY <2>1 DEF SameRows, Money, PaidIsSettled
<1> QED
  BY <1>1, <1>2, <1>3 DEF Money

-----------------------------------------------------------------------------
(* Gateway calls.                                                          *)

\* Bookings are never deleted.
KeepsBookings == \A i \in Ids : Exists(i) => Exists(i)'

Mechanics == RowsKnown /\ Calls /\ Alone /\ FetchedTrue

\* Steps that begin and end no call, settle no charge and add no payment.
LEMMA FrameMechanics ==
  ASSUME TypeOK, Mechanics, KeepsBookings, UNCHANGED <<busy, charge>>,
         \A p \in PayIds : HasRow(p)' <=> HasRow(p),
         \A p \in PayIds : HasRow(p) => payments'[p].booking = payments[p].booking
                                    /\ payments'[p].method = payments[p].method,
         \A b \in Ids : Refunding(b) => payments'[busy[b].payment] = payments[busy[b].payment],
         \A d \in fetched' : d.status = "successful" => charge[d.event[1]] = "successful"
  PROVE  Mechanics'
<1>1. RowsKnown'
  <2> SUFFICES ASSUME NEW p \in PayIds, HasRow(p)'
               PROVE  /\ Exists(payments[p].booking)'
                      /\ charge'[p] # "none" => payments'[p].method \in {"card", "qr"}
    BY DEF RowsKnown, Exists
  <2>1. HasRow(p) /\ payments[p].booking \in Ids /\ Exists(payments[p].booking)
    BY RowType DEF Mechanics, RowsKnown
  <2>2. bookings'[payments'[p].booking] # NoBooking
    BY <2>1 DEF KeepsBookings, Exists
  <2> QED
    BY <2>1, <2>2 DEF Mechanics, RowsKnown, Exists
<1>2. Calls'
  <2> SUFFICES ASSUME NEW b \in Ids
               PROVE  /\ busy'[b] # Idle => Exists(b)'
                      /\ Paying(b)' => /\ ~HasRow(busy[b].payment)'
                                       /\ charge'[busy'[b].payment] # "none"
                                            => busy'[b].method \in {"card", "qr"}
                      /\ Refunding(b)' => busy'[b].payment \in PaidRows(b)'
    BY DEF Calls, Exists, HasRow
  <2>1. busy'[b] # Idle => Exists(b)'
    BY DEF Mechanics, Calls, KeepsBookings
  <2>2. ASSUME Paying(b)'
        PROVE  /\ ~HasRow(busy[b].payment)'
               /\ charge'[busy'[b].payment] # "none" => busy'[b].method \in {"card", "qr"}
    <3>1. Paying(b) /\ busy[b].payment \in PayIds
      BY <2>2, CallType DEF Paying
    <3> QED
      BY <3>1 DEF Mechanics, Calls, HasRow
  <2>3. ASSUME Refunding(b)'
        PROVE  busy'[b].payment \in PaidRows(b)'
    <3>1. Refunding(b) /\ busy[b].payment \in PaidRows(b)
      BY <2>3 DEF Refunding, Mechanics, Calls
    <3> QED
      BY <3>1 DEF PaidRows, HasRow
  <2> QED
    BY <2>1, <2>2, <2>3
<1>3. Alone'
  BY DEF Mechanics, Alone, Paying
<1>4. FetchedTrue'
  BY DEF FetchedTrue
<1> QED
  BY <1>1, <1>2, <1>3, <1>4 DEF Mechanics

\* A charge begins for a payment that nobody uses.
LEMMA StartPaymentMechanics ==
  ASSUME TypeOK, Mechanics, NEW p \in PayIds, NEW b \in Ids, NEW m \in Methods,
         StartPayment(p, b, m)
  PROVE  Mechanics' /\ TakenStays
<1>1. /\ ~HasRow(p) /\ charge[p] = "none" /\ PaymentFree(p) /\ Exists(b) /\ busy[b] = Idle
      /\ busy' = [busy EXCEPT ![b] = [op |-> "pay", payment |-> p, method |-> m]]
      /\ UNCHANGED <<bookings, payments, notes, fetched>>
  BY DEF StartPayment, HasRow, tableVars, webhookVars
<1>2. /\ charge'[p] # "none" => m \in {"card", "qr"}
      /\ \A q \in PayIds : q # p => charge'[q] = charge[q]
  BY DEF StartPayment, TypeOK
<1>3. \A i \in Ids : i # b => busy'[i] = busy[i]
  BY <1>1 DEF TypeOK
<1>4. Paying(b)' /\ ~Refunding(b)' /\ busy'[b].payment = p /\ busy'[b].method = m
  <2>1. busy'[b] = [op |-> "pay", payment |-> p, method |-> m]
    BY <1>1 DEF TypeOK
  <2>2. busy'[b] \in PayCall
    BY <2>1, PaymentsAssumption DEF PayCall
  <2>3. busy'[b] # Idle
    BY <2>2, PaymentsAssumption
  <2> QED
    BY <2>1, <2>3 DEF Paying, Refunding
<1>5. ASSUME NEW i \in Ids, i # b
      PROVE  /\ Paying(i)' <=> Paying(i)
             /\ Refunding(i)' <=> Refunding(i)
             /\ Paying(i) => busy[i].payment # p
  BY <1>1, <1>3, <1>5 DEF Paying, Refunding, PaymentFree
<1>6. RowsKnown'
  BY <1>1, <1>2 DEF Mechanics, RowsKnown, HasRow, Exists
<1>7. Calls'
  <2> SUFFICES ASSUME NEW i \in Ids
               PROVE  /\ busy'[i] # Idle => Exists(i)
                      /\ Paying(i)' => /\ ~HasRow(busy'[i].payment)
                                       /\ charge'[busy'[i].payment] # "none"
                                            => busy'[i].method \in {"card", "qr"}
                      /\ Refunding(i)' => busy'[i].payment \in PaidRows(i)
    BY <1>1 DEF Calls, Exists, HasRow, PaidRows
  <2>1. CASE i = b
    BY <1>1, <1>2, <1>4, <2>1
  <2>2. CASE i # b
    <3>1. Paying(i) => busy[i].payment \in PayIds
      BY CallType
    <3> QED
      BY <1>2, <1>3, <1>5, <2>2, <3>1 DEF Mechanics, Calls
  <2> QED
    BY <2>1, <2>2
<1>8. Alone'
  <2> SUFFICES ASSUME NEW i \in Ids, NEW j \in Ids, Paying(i)', Paying(j)',
                      busy'[i].payment = busy'[j].payment
               PROVE  i = j
    BY DEF Alone
  <2> QED
    BY <1>3, <1>4, <1>5 DEF Mechanics, Alone
<1>9. FetchedTrue'
  <2>1. \A d \in fetched : d.event[1] \in PayIds
    BY DEF TypeOK, OmiseEvents
  <2> QED
    BY <1>1, <1>2, <2>1 DEF Mechanics, FetchedTrue
<1>10. TakenStays
  BY <1>1, <1>2 DEF TakenStays
<1> QED
  BY <1>6, <1>7, <1>8, <1>9, <1>10 DEF Mechanics

\* The call of booking b ends without a payment row.
LEMMA UnlockMechanics ==
  ASSUME TypeOK, Mechanics, NEW b \in Ids, Unlock(b), KeepsBookings,
         UNCHANGED <<payments, charge, fetched>>
  PROVE  Mechanics'
<1>1. /\ busy'[b] = Idle
      /\ \A i \in Ids : i # b => busy'[i] = busy[i]
  BY DEF Unlock, TypeOK
<1>2. RowsKnown'
  <2>1. \A p \in PayIds : HasRow(p) => payments[p].booking \in Ids
    BY RowType
  <2> QED
    BY <2>1 DEF Mechanics, RowsKnown, HasRow, KeepsBookings, Exists
<1>3. Calls'
  BY <1>1 DEF Mechanics, Calls, Paying, Refunding, KeepsBookings, PaidRows, HasRow
<1>4. Alone'
  BY <1>1 DEF Mechanics, Alone, Paying
<1>5. FetchedTrue'
  BY DEF Mechanics, FetchedTrue
<1> QED
  BY <1>2, <1>3, <1>4, <1>5 DEF Mechanics

\* The call of booking b ends with the row of payment p.
LEMMA FinishMechanics ==
  ASSUME TypeOK, Mechanics, NEW b \in Ids, Unlock(b), KeepsBookings,
         UNCHANGED <<charge, fetched>>,
         NEW p \in PayIds, busy[b].payment = p, Paying(b) \/ Refunding(b),
         HasRow(p)', payments'[p].booking = b,
         charge[p] # "none" => payments'[p].method \in {"card", "qr"},
         \A q \in PayIds : q # p => payments'[q] = payments[q],
         \A a \in Ids : Refunding(a) /\ a # b => busy[a].payment # p
  PROVE  Mechanics'
<1>1. /\ busy'[b] = Idle
      /\ \A i \in Ids : i # b => busy'[i] = busy[i]
  BY DEF Unlock, TypeOK
<1>2. ASSUME NEW a \in Ids, a # b, Paying(a)
      PROVE  busy[a].payment # p /\ busy[a].payment \in PayIds
  <2>1. CASE Paying(b)
    BY <1>2, <2>1, CallType DEF Mechanics, Alone
  <2>2. CASE Refunding(b)
    BY <1>2, <2>2, CallType DEF Mechanics, Calls, PaidRows
  <2> QED
    BY <2>1, <2>2
<1>3. Exists(b)'
  BY DEF Mechanics, Calls, Paying, Refunding, KeepsBookings
<1>4. RowsKnown'
  <2> SUFFICES ASSUME NEW q \in PayIds, HasRow(q)'
               PROVE  /\ Exists(payments[q].booking)'
                      /\ charge[q] # "none" => payments'[q].method \in {"card", "qr"}
    BY DEF RowsKnown, Exists
  <2>1. CASE q = p
    BY <1>3, <2>1 DEF Exists
  <2>2. CASE q # p
    <3>1. HasRow(q) /\ payments'[q] = payments[q]
      BY <2>2 DEF HasRow
    <3>2. payments[q].booking \in Ids
      BY <3>1, RowType
    <3> QED
      BY <3>1, <3>2 DEF Mechanics, RowsKnown, KeepsBookings, Exists
  <2> QED
    BY <2>1, <2>2
<1>5. Calls'
  <2> SUFFICES ASSUME NEW i \in Ids, busy'[i] # Idle
               PROVE  /\ Exists(i)'
                      /\ Paying(i)' => /\ ~HasRow(busy[i].payment)'
                                       /\ charge[busy[i].payment] # "none"
                                            => busy[i].method \in {"card", "qr"}
                      /\ Refunding(i)' => busy[i].payment \in PaidRows(i)'
    BY <1>1 DEF Calls, Exists, HasRow, Paying, Refunding, PaidRows
  <2>0. i # b /\ busy'[i] = busy[i]
    BY <1>1
  <2>1. Exists(i)'
    BY <2>0 DEF Mechanics, Calls, KeepsBookings
  <2>2. ASSUME Paying(i)'
        PROVE  /\ ~HasRow(busy[i].payment)'
               /\ charge[busy[i].payment] # "none" => busy[i].method \in {"card", "qr"}
    <3>1. Paying(i)
      BY <2>0, <2>2 DEF Paying
    <3> QED
      BY <1>2, <2>0, <3>1 DEF Mechanics, Calls, HasRow
  <2>3. ASSUME Refunding(i)'
        PROVE  busy[i].payment \in PaidRows(i)'
    <3>1. Refunding(i)
      BY <2>0, <2>3 DEF Refunding
    <3>2. busy[i].payment \in PaidRows(i) /\ busy[i].payment # p
      BY <2>0, <3>1 DEF Mechanics, Calls
    <3> QED
      BY <2>0, <3>2 DEF PaidRows, HasRow
  <2> QED
    BY <2>1, <2>2, <2>3
<1>6. Alone'
  BY <1>1 DEF Mechanics, Alone, Paying
<1>7. FetchedTrue'
  BY DEF Mechanics, FetchedTrue
<1> QED
  BY <1>4, <1>5, <1>6, <1>7 DEF Mechanics

-----------------------------------------------------------------------------
(* Steps.                                                                  *)

\* What a step owes besides the types.
Sound == Mechanics /\ Money /\ OneDiscountPerBooking /\ RedeemedExist

LEMMA SoundIsIInv == IInv <=> TypeOK /\ Sound
  BY DEF IInv, Sound, Mechanics

\* Steps that touch neither the bookings nor the payments, nor begin a call.
LEMMA QuietStep ==
  ASSUME TypeOK, Sound, UNCHANGED <<bookings, payments, cancels, busy, charge, price, redeemed>>,
         notes \subseteq notes',
         \A d \in fetched' : d.status = "successful" => charge[d.event[1]] = "successful"
  PROVE  Sound'
<1>1. SameStays /\ KeepsBookings /\ TakenStays
  BY DEF SameStays, KeepsBookings, TakenStays, Exists
<1>2. Mechanics'
  BY <1>1, FrameMechanics DEF Sound, HasRow
<1>3. Money'
  BY <1>1, QuietMoney DEF Sound
<1> QED
  BY <1>1, <1>2, <1>3, DiscountFrame DEF Sound

LEMMA CreateStep ==
  ASSUME IInv, NEW b \in Ids, NEW rt \in RoomTypes, NEW g \in Guests, NEW in \in Days,
         NEW out \in Days, CreateBooking(b, rt, g, in, out)
  PROVE  Sound'
<1>0. TypeOK /\ Sound /\ Mechanics
  BY SoundIsIInv DEF Sound
<1>1. /\ ~Exists(b) /\ SameRows({b}) /\ bookings'[b].status = "pending"
      /\ UNCHANGED <<payments, charge, notes, cancels, busy, fetched>>
  BY <1>0 DEF CreateBooking, SameRows, TypeOK, TableTypeOK, webhookVars
<1>2. KeepsBookings
  BY <1>1 DEF KeepsBookings, SameRows, Exists
<1>3. Money'
  BY <1>0, <1>1, CreateMoney DEF Sound, Mechanics
<1>4. \A d \in fetched' : d.status = "successful" => charge[d.event[1]] = "successful"
  BY <1>0, <1>1 DEF Mechanics, FetchedTrue
<1>5. Mechanics'
  BY <1>0, <1>1, <1>2, <1>4, FrameMechanics DEF HasRow
<1>6. OneDiscountPerBooking' /\ RedeemedExist'
  BY <1>0, CreateDiscount DEF Sound
<1> QED
  BY <1>3, <1>5, <1>6 DEF Sound

LEMMA RedeemStep ==
  ASSUME IInv, NEW b \in Ids, NEW points \in PointsAsked, Redeem(b, points)
  PROVE  Sound'
<1>0. TypeOK /\ Sound /\ Mechanics
  BY SoundIsIInv DEF Sound
<1>1. UNCHANGED <<bookings, payments, charge, notes, cancels, busy, fetched>>
  BY DEF Redeem, tableVars, webhookVars
<1>2. KeepsBookings /\ TakenStays
  BY <1>1 DEF KeepsBookings, TakenStays, Exists
<1>3. Money'
  BY <1>0, <1>1, <1>2, QuietMoney DEF Sound
<1>4. \A d \in fetched' : d.status = "successful" => charge[d.event[1]] = "successful"
  BY <1>0, <1>1 DEF Mechanics, FetchedTrue
<1>5. Mechanics'
  BY <1>0, <1>1, <1>2, <1>4, FrameMechanics DEF HasRow
<1>6. OneDiscountPerBooking' /\ RedeemedExist'
  BY <1>0, RedeemDiscount DEF Sound
<1> QED
  BY <1>3, <1>5, <1>6 DEF Sound

LEMMA StartPaymentStep ==
  ASSUME IInv, NEW p \in PayIds, NEW b \in Ids, NEW m \in Methods, StartPayment(p, b, m)
  PROVE  Sound'
<1>0. TypeOK /\ Sound /\ Mechanics
  BY SoundIsIInv DEF Sound
<1>1. UNCHANGED <<bookings, payments, cancels, price, redeemed>>
  BY DEF StartPayment, tableVars, pointVars
<1>2. Mechanics' /\ TakenStays
  BY <1>0, StartPaymentMechanics
<1>3. SameStays
  BY <1>1 DEF SameStays, Exists
<1> QED
  BY <1>0, <1>1, <1>2, <1>3, QuietMoney, DiscountFrame DEF Sound

\* A customer settles a charge, and a success that was fetched stays one.
LEMMA CustomerPaysStep ==
  ASSUME IInv, NEW p \in PayIds, CustomerPays(p)
  PROVE  Sound'
<1>0. TypeOK /\ Sound /\ Mechanics
  BY SoundIsIInv DEF Sound
<1>1. /\ UNCHANGED <<bookings, payments, busy, notes, fetched, cancels, price, redeemed>>
      /\ HasRow(p) /\ charge[p] = "pending"
      /\ \A q \in PayIds : q # p => charge'[q] = charge[q]
  BY <1>0 DEF CustomerPays, tableVars, webhookVars, pointVars, TypeOK
<1>2. SameStays /\ TakenStays
  BY <1>1 DEF SameStays, TakenStays, Exists
<1>3. RowsKnown'
  BY <1>0, <1>1 DEF Mechanics, RowsKnown, HasRow, Exists
<1>4. Calls'
  <2> SUFFICES ASSUME NEW b \in Ids
               PROVE  /\ busy[b] # Idle => Exists(b)
                      /\ Paying(b) => /\ ~HasRow(busy[b].payment)
                                      /\ charge'[busy[b].payment] # "none"
                                           => busy[b].method \in {"card", "qr"}
                      /\ Refunding(b) => busy[b].payment \in PaidRows(b)
    BY <1>1 DEF Calls, Paying, Refunding, PaidRows, HasRow, Exists
  <2>1. Paying(b) => busy[b].payment \in PayIds
    BY <1>0, CallType
  <2> QED
    BY <1>0, <1>1, <2>1 DEF Mechanics, Calls
<1>5. Alone'
  BY <1>0, <1>1 DEF Mechanics, Alone, Paying
<1>6. FetchedTrue'
  <2>1. \A d \in fetched : d.event[1] \in PayIds
    BY <1>0 DEF TypeOK, OmiseEvents
  <2> QED
    BY <1>0, <1>1, <2>1 DEF Mechanics, FetchedTrue
<1>7. Money' /\ OneDiscountPerBooking' /\ RedeemedExist'
  BY <1>0, <1>1, <1>2, QuietMoney, DiscountFrame DEF Sound
<1> QED
  BY <1>3, <1>4, <1>5, <1>6, <1>7 DEF Sound, Mechanics

LEMMA CancelStep ==
  ASSUME IInv, NEW b \in Ids, NEW hours \in Hours, CancelWithoutRefund(b, hours)
  PROVE  Sound'
<1>0. TypeOK /\ Sound /\ Mechanics /\ TableTypeOK
  BY SoundIsIInv DEF Sound, TypeOK
<1>1. /\ UNCHANGED <<price, payments, busy, charge, notes, fetched, redeemed>>
      /\ cancels \subseteq cancels'
  BY DEF CancelWithoutRefund, webhookVars, pointVars, RecordCancellation
<1>2. /\ SameStays /\ SameRows({b}) /\ bookings'[b].status = "cancelled"
  BY <1>0, CancelRow DEF CancelWithoutRefund
<1>3. KeepsBookings
  BY <1>2 DEF KeepsBookings, SameStays
<1>4. Money'
  BY <1>0, <1>1, <1>2, CancelMoney DEF Sound
<1>5. \A d \in fetched' : d.status = "successful" => charge[d.event[1]] = "successful"
  BY <1>0, <1>1 DEF Mechanics, FetchedTrue
<1>6. Mechanics'
  BY <1>0, <1>1, <1>3, <1>5, FrameMechanics DEF HasRow
<1> QED
  BY <1>0, <1>1, <1>2, <1>4, <1>6, DiscountFrame DEF Sound

LEMMA StartRefundStep ==
  ASSUME IInv, NEW b \in Ids, NEW hours \in Hours, StartRefund(b, hours)
  PROVE  Sound'
<1>0. TypeOK /\ Sound /\ Mechanics
  BY SoundIsIInv DEF Sound
<1>1. PICK p \in LatestPaid(b) : busy' = [busy EXCEPT ![b] = [op |-> "refund", payment |-> p]]
  BY DEF StartRefund
<1>2. /\ UNCHANGED <<bookings, price, payments, charge, notes, fetched, cancels, redeemed>>
      /\ Exists(b)
  BY DEF StartRefund, tableVars, webhookVars, pointVars, Cancellable
<1>3. p \in PayIds /\ p \in PaidRows(b)
  BY DEF LatestPaid, PaidRows
<1>4. /\ busy'[b] = [op |-> "refund", payment |-> p]
      /\ \A i \in Ids : i # b => busy'[i] = busy[i]
  BY <1>0, <1>1 DEF TypeOK
<1>5. ~Paying(b)'
  BY <1>4 DEF Paying
<1>6. RowsKnown'
  BY <1>0, <1>2 DEF Mechanics, RowsKnown, HasRow, Exists
<1>7. Calls'
  BY <1>0, <1>2, <1>3, <1>4, <1>5
  DEF Mechanics, Calls, Paying, Refunding, PaidRows, HasRow, Exists
<1>8. Alone'
  BY <1>0, <1>4, <1>5 DEF Mechanics, Alone, Paying
<1>9. FetchedTrue'
  BY <1>0, <1>2 DEF Mechanics, FetchedTrue
<1>10. SameStays /\ TakenStays
  BY <1>2 DEF SameStays, TakenStays, Exists
<1>11. Money' /\ OneDiscountPerBooking' /\ RedeemedExist'
  BY <1>0, <1>2, <1>10, QuietMoney, DiscountFrame DEF Sound
<1> QED
  BY <1>6, <1>7, <1>8, <1>9, <1>11 DEF Sound, Mechanics

LEMMA FinishPaymentStep ==
  ASSUME IInv, NEW b \in Ids, FinishPayment(b)
  PROVE  Sound'
<1>0. TypeOK /\ Sound /\ Mechanics /\ TableTypeOK
  BY SoundIsIInv DEF Sound, TypeOK
<1>p. PICK p \in PayIds : p = busy[b].payment
  BY <1>0, CallType DEF FinishPayment
<1> DEFINE paid == busy[b].method = "card" /\ charge[p] = "successful"
           row == [booking |-> b, amount |-> price[b], method |-> busy[b].method,
                   status |-> IF paid THEN "paid" ELSE "pending",
                   paidAt |-> IF paid THEN clock ELSE 0]
<1>1. /\ Paying(b) /\ Unlock(b)
      /\ payments' = [payments EXCEPT ![p] = row]
      /\ IF paid THEN Confirm(b) /\ Earn(b) ELSE UNCHANGED <<tableVars, pointVars>>
      /\ UNCHANGED <<price, charge, notes, fetched, cancels>>
  BY <1>p DEF FinishPayment, webhookVars
<1>2. /\ row \in PaymentRow /\ ~HasRow(p) /\ Exists(b)
      /\ charge[p] # "none" => row.method \in {"card", "qr"}
  BY <1>0, <1>1, <1>p, CallType
  DEF Mechanics, Calls, Paying, PaymentRow, PaymentStatuses, TypeOK, TableTypeOK
<1>3. /\ payments'[p] = row
      /\ \A q \in PayIds : q # p => payments'[q] = payments[q]
  BY <1>0, <1>1, <1>2 DEF TypeOK
<1>4. HasRow(p)'
  BY <1>2, <1>3, RowIsRow DEF HasRow
<1>5. \A a \in Ids : Refunding(a) /\ a # b => busy[a].payment # p
  BY <1>0, <1>2 DEF Mechanics, Calls, PaidRows
<1>6. CASE paid
  <2>1. Confirm(b) /\ Earn(b)
    BY <1>1, <1>6
  <2>2. SameStays /\ SameRows({b}) /\ bookings'[b].status = "confirmed"
    BY <1>0, <2>1, ConfirmRow
  <2>3. redeemed' = redeemed
    BY <1>0, <1>2, <2>1, EarnKeepsType
  <2>4. Charged(p)'
    BY <1>1, <1>3, <1>6 DEF Charged, Gateway
  <2>5. Money'
    BY <1>0, <1>1, <1>2, <1>3, <1>4, <1>6, <2>2, <2>4, PaidMoney DEF Sound
  <2>6. KeepsBookings
    BY <2>2 DEF KeepsBookings, SameStays
  <2>7. Mechanics'
    BY <1>0, <1>1, <1>2, <1>3, <1>4, <1>5, <1>p, <2>6, FinishMechanics
  <2> QED
    BY <1>0, <1>1, <2>2, <2>3, <2>5, <2>7, DiscountFrame DEF Sound
<1>7. CASE ~paid
  <2>1. UNCHANGED <<bookings, redeemed>>
    BY <1>1, <1>7 DEF tableVars, pointVars
  <2>2. SameStays /\ KeepsBookings
    BY <2>1 DEF SameStays, KeepsBookings, Exists
  <2>3. Money'
    BY <1>0, <1>1, <1>2, <1>3, <1>7, <2>1, UnpaidMoney DEF Sound
  <2>4. Mechanics'
    BY <1>0, <1>1, <1>2, <1>3, <1>4, <1>5, <1>p, <2>2, FinishMechanics
  <2> QED
    BY <1>0, <1>1, <2>1, <2>2, <2>3, <2>4, DiscountFrame DEF Sound
<1> QED
  BY <1>6, <1>7

LEMMA AbortStep ==
  ASSUME IInv, NEW b \in Ids, AbortPayment(b) \/ AbortRefund(b)
  PROVE  Sound'
<1>0. TypeOK /\ Sound /\ Mechanics
  BY SoundIsIInv DEF Sound
<1>1. /\ Unlock(b)
      /\ UNCHANGED <<bookings, price, payments, charge, notes, fetched, cancels, redeemed>>
  BY DEF AbortPayment, AbortRefund, tableVars, webhookVars, pointVars
<1>2. SameStays /\ KeepsBookings /\ TakenStays
  BY <1>1 DEF SameStays, KeepsBookings, TakenStays, Exists
<1>3. Mechanics'
  BY <1>0, <1>1, <1>2, UnlockMechanics
<1> QED
  BY <1>0, <1>1, <1>2, <1>3, QuietMoney, DiscountFrame DEF Sound

LEMMA FinishRefundStep ==
  ASSUME IInv, NEW b \in Ids, FinishRefund(b)
  PROVE  Sound'
<1>0. TypeOK /\ Sound /\ Mechanics /\ TableTypeOK
  BY SoundIsIInv DEF Sound, TypeOK
<1>p. PICK p \in PayIds : p = busy[b].payment
  BY <1>0, CallType DEF FinishRefund
<1>1. /\ Refunding(b) /\ Unlock(b) /\ Cancel(b) /\ ClawBack(b)
      /\ SetPayment(p, "refunded")
      /\ UNCHANGED <<price, charge, notes, fetched>>
  BY <1>p DEF FinishRefund, webhookVars
<1>2. PICK accepted \in BOOLEAN : RecordCancellation(b, RefundStatus(p, accepted))
  BY <1>p DEF FinishRefund
<1>3. /\ p \in PaidRows(b) /\ HasRow(p) /\ Exists(b)
      /\ payments[p].booking = b
  BY <1>0, <1>1, <1>p DEF Mechanics, Calls, PaidRows, Refunding
<1>4. /\ payments'[p].status = "refunded"
      /\ \A q \in PayIds : q # p => payments'[q] = payments[q]
      /\ \A q \in PayIds : HasRow(q)' <=> HasRow(q)
      /\ payments'[p].booking = b
      /\ payments'[p].method = payments[p].method
  BY <1>0, <1>1, <1>3, SetPaymentType DEF PaymentStatuses
<1>5. /\ RefundStatus(p, accepted) \notin {"not_applicable", "none"}
      /\ [booking |-> b, refund |-> RefundStatus(p, accepted)] \in cancels'
      /\ cancels \subseteq cancels'
  BY <1>2 DEF RefundStatus, RecordCancellation
<1>6. SameStays /\ SameRows({b}) /\ bookings'[b].status = "cancelled"
  BY <1>0, <1>1, CancelRow
<1>7. \A a \in Ids : Refunding(a) /\ a # b => busy[a].payment # p
  BY <1>0, <1>3 DEF Mechanics, Calls, PaidRows
<1>8. charge[p] # "none" => payments'[p].method \in {"card", "qr"}
  BY <1>0, <1>3, <1>4 DEF Mechanics, RowsKnown
<1>9. redeemed' = redeemed
  BY <1>0, <1>1, <1>3, ClawBackKeepsType
<1>10. KeepsBookings
  BY <1>6 DEF KeepsBookings, SameStays
<1>11. HasRow(p)'
  BY <1>3, <1>4
<1>12. Money'
  BY <1>0, <1>1, <1>3, <1>4, <1>5, <1>6, CancelMoney DEF Sound
<1>13. Mechanics'
  BY <1>0, <1>1, <1>3, <1>4, <1>7, <1>8, <1>10, <1>11, <1>p, FinishMechanics
<1> QED
  BY <1>0, <1>1, <1>6, <1>9, <1>12, <1>13, DiscountFrame DEF Sound

\* A delivery is fetched, or answered without effect.
LEMMA DeliveryStep ==
  ASSUME IInv,
         \/ \E e \in OmiseEvents : Fetch(e)
         \/ \E d \in fetched : IgnoreDelivery(d) \/ NotSettledYet(d) \/ DropDelivery(d)
  PROVE  Sound'
<1>0. TypeOK /\ Sound /\ FetchedTrue
  BY SoundIsIInv DEF Sound, Mechanics
<1>1. CASE \E e \in OmiseEvents : Fetch(e)
  <2>1. PICK e \in OmiseEvents : Fetch(e)
    BY <1>1
  <2>2. \A d \in fetched' : d.status = "successful" => charge[d.event[1]] = "successful"
    BY <1>0, <2>1 DEF Fetch, FetchedTrue
  <2> QED
    BY <1>0, <2>1, <2>2, QuietStep DEF Fetch, tableVars, pointVars
<1>2. CASE \E d \in fetched : IgnoreDelivery(d) \/ NotSettledYet(d) \/ DropDelivery(d)
  <2>1. fetched' \subseteq fetched
    BY <1>2 DEF IgnoreDelivery, NotSettledYet, DropDelivery, Answer
  <2>2. \A d \in fetched' : d.status = "successful" => charge[d.event[1]] = "successful"
    BY <1>0, <2>1 DEF FetchedTrue
  <2> QED
    BY <1>0, <1>2, <2>2, QuietStep
    DEF IgnoreDelivery, NotSettledYet, DropDelivery, tableVars, pointVars
<1> QED
  BY <1>1, <1>2

\* A webhook settles payment p, which its gateway has charged.
LEMMA SettleStep ==
  ASSUME IInv, NEW p \in PayIds, HasRow(p), PaymentFree(p), Settle(p), Charged(p),
         UNCHANGED <<price, busy, charge, notes, cancels>>, fetched' \subseteq fetched
  PROVE  Sound'
<1>0. TypeOK /\ Sound /\ Mechanics /\ TableTypeOK
  BY SoundIsIInv DEF Sound, TypeOK
<1>p. PICK b \in Ids : b = payments[p].booking
  BY <1>0, RowType
<1>1. /\ Exists(b)
      /\ payments' = [payments EXCEPT ![p].status = "paid", ![p].paidAt = clock]
      /\ Confirm(b) /\ Earn(b)
  BY <1>0, <1>p DEF Mechanics, RowsKnown, Settle
<1>2. /\ payments'[p].status = "paid"
      /\ \A q \in PayIds : q # p => payments'[q] = payments[q]
      /\ \A q \in PayIds : HasRow(q)' <=> HasRow(q)
      /\ payments'[p].booking = b
      /\ payments'[p].method = payments[p].method
  BY <1>0, <1>1, <1>p, SettleType
<1>3. SameStays /\ SameRows({b}) /\ bookings'[b].status = "confirmed"
  BY <1>0, <1>1, ConfirmRow
<1>4. redeemed' = redeemed
  BY <1>0, <1>1, EarnKeepsType
<1>5. HasRow(p)' /\ Charged(p)'
  BY <1>2, <1>p DEF Charged, HasRow
<1>6. Money'
  BY <1>0, <1>2, <1>3, <1>5, <1>p, PaidMoney DEF Sound
<1>7. KeepsBookings
  BY <1>3 DEF KeepsBookings, SameStays
<1>8. \A a \in Ids : Refunding(a) => payments'[busy[a].payment] = payments[busy[a].payment]
  <2> SUFFICES ASSUME NEW a \in Ids, Refunding(a)
               PROVE  payments'[busy[a].payment] = payments[busy[a].payment]
    OBVIOUS
  <2>1. busy[a].payment \in PayIds
    BY <1>0, CallType
  <2>2. busy[a].payment # p
    BY DEF PaymentFree, Refunding
  <2> QED
    BY <1>2, <2>1, <2>2
<1>9. \A d \in fetched' : d.status = "successful" => charge[d.event[1]] = "successful"
  BY <1>0 DEF Mechanics, FetchedTrue
<1>10. \A q \in PayIds : HasRow(q) => payments'[q].booking = payments[q].booking
                                   /\ payments'[q].method = payments[q].method
  BY <1>2, <1>p
<1>11. Mechanics'
  BY <1>0, <1>2, <1>7, <1>8, <1>9, <1>10, FrameMechanics
<1> QED
  BY <1>0, <1>3, <1>4, <1>6, <1>11, DiscountFrame DEF Sound

\* A webhook fails payment p, which is not paid.
LEMMA FailStep ==
  ASSUME IInv, NEW p \in PayIds, HasRow(p), PaymentFree(p), payments[p].status # "paid",
         SetPayment(p, "failed"),
         UNCHANGED <<bookings, price, busy, charge, notes, cancels, redeemed>>,
         fetched' \subseteq fetched
  PROVE  Sound'
<1>0. TypeOK /\ Sound /\ Mechanics
  BY SoundIsIInv DEF Sound
<1>1. /\ payments'[p].status = "failed"
      /\ \A q \in PayIds : q # p => payments'[q] = payments[q]
      /\ \A q \in PayIds : HasRow(q)' <=> HasRow(q)
      /\ payments'[p].booking = payments[p].booking
      /\ payments'[p].method = payments[p].method
  BY <1>0, SetPaymentType DEF PaymentStatuses
<1>2. Money'
  BY <1>0, <1>1, UnpaidMoney DEF Sound
<1>3. SameStays /\ KeepsBookings
  BY DEF SameStays, KeepsBookings, Exists
<1>4. \A a \in Ids : Refunding(a) => payments'[busy[a].payment] = payments[busy[a].payment]
  <2> SUFFICES ASSUME NEW a \in Ids, Refunding(a)
               PROVE  payments'[busy[a].payment] = payments[busy[a].payment]
    OBVIOUS
  <2>1. busy[a].payment \in PayIds
    BY <1>0, CallType
  <2>2. busy[a].payment # p
    BY DEF PaymentFree, Refunding
  <2> QED
    BY <1>1, <2>1, <2>2
<1>5. \A d \in fetched' : d.status = "successful" => charge[d.event[1]] = "successful"
  BY <1>0 DEF Mechanics, FetchedTrue
<1>6. \A q \in PayIds : HasRow(q) => payments'[q].booking = payments[q].booking
                                  /\ payments'[q].method = payments[q].method
  BY <1>1
<1>7. Mechanics'
  BY <1>0, <1>1, <1>3, <1>4, <1>5, <1>6, FrameMechanics
<1> QED
  BY <1>0, <1>2, <1>3, <1>7, DiscountFrame DEF Sound

LEMMA ConfirmFromOmiseStep ==
  ASSUME IInv, NEW d \in fetched, ConfirmFromOmise(d)
  PROVE  Sound'
<1>0. TypeOK /\ Mechanics
  BY SoundIsIInv DEF Sound
<1>p. PICK p \in PayIds : p = d.event[1]
  BY <1>0 DEF TypeOK, OmiseEvents
<1>1. /\ HasRow(p) /\ PaymentFree(p) /\ Settle(p) /\ d.status = "successful"
      /\ UNCHANGED <<price, busy, charge, notes, cancels>> /\ fetched' \subseteq fetched
  BY <1>p DEF ConfirmFromOmise, NewForPayment, Answer
<1>2. charge[p] = "successful"
  BY <1>0, <1>1, <1>p DEF Mechanics, FetchedTrue
<1>3. Charged(p)
  BY <1>0, <1>1, <1>2 DEF Mechanics, RowsKnown, Charged, Gateway
<1> QED
  BY <1>1, <1>3, SettleStep

LEMMA FailFromOmiseStep ==
  ASSUME IInv, NEW d \in fetched, FailFromOmise(d)
  PROVE  Sound'
<1>0. TypeOK
  BY DEF IInv
<1>p. PICK p \in PayIds : p = d.event[1]
  BY <1>0 DEF TypeOK, OmiseEvents
<1>1. /\ HasRow(p) /\ PaymentFree(p) /\ payments[p].status # "paid" /\ SetPayment(p, "failed")
      /\ UNCHANGED <<bookings, price, busy, charge, notes, cancels, redeemed>>
      /\ fetched' \subseteq fetched
  BY <1>p DEF FailFromOmise, NewForPayment, Answer, tableVars, pointVars
<1> QED
  BY <1>1, FailStep

LEMMA NoteStep ==
  ASSUME IInv, NEW n \in notes, IgnoreNote(n) \/ ConfirmFrom2c2p(n) \/ FailFrom2c2p(n)
  PROVE  Sound'
<1>0. TypeOK /\ Sound /\ FetchedTrue
  BY SoundIsIInv DEF Sound, Mechanics
<1>1. CASE IgnoreNote(n)
  <2>1. \A d \in fetched' : d.status = "successful" => charge[d.event[1]] = "successful"
    BY <1>0, <1>1 DEF IgnoreNote, FetchedTrue
  <2> QED
    BY <1>0, <1>1, <2>1, QuietStep DEF IgnoreNote, tableVars, pointVars
<1>2. CASE ConfirmFrom2c2p(n)
  <2>1. PICK p \in InvoiceRows(n.invoice) : Settle(p)
    BY <1>2 DEF ConfirmFrom2c2p
  <2>2. /\ p \in PayIds /\ HasRow(p) /\ PaymentFree(p)
        /\ payments[p].booking = n.invoice /\ payments[p].method = "redirect"
    BY <1>2 DEF ConfirmFrom2c2p, InvoiceFree, InvoiceRows
  <2>3. Charged(p)
    BY <1>2, <2>2 DEF ConfirmFrom2c2p, Charged, Gateway
  <2> QED
    BY <1>2, <2>1, <2>2, <2>3, SettleStep DEF ConfirmFrom2c2p
<1>3. CASE FailFrom2c2p(n)
  <2>1. PICK p \in InvoiceRows(n.invoice) : payments[p].status # "paid" /\ SetPayment(p, "failed")
    BY <1>3 DEF FailFrom2c2p
  <2>2. p \in PayIds /\ HasRow(p) /\ PaymentFree(p)
    BY <1>3 DEF FailFrom2c2p, InvoiceFree, InvoiceRows
  <2> QED
    BY <1>3, <2>1, <2>2, FailStep DEF FailFrom2c2p, tableVars, pointVars
<1> QED
  BY <1>1, <1>2, <1>3

LEMMA ReleaseStep ==
  ASSUME IInv, NEW t, ReleaseExpiredHolds(t)
  PROVE  Sound'
<1>0. TypeOK /\ Sound /\ Mechanics
  BY SoundIsIInv DEF Sound
<1>1. /\ Money'
      /\ \A p \in PayIds : HasRow(p)' <=> HasRow(p)
      /\ \A p \in PayIds : HasRow(p) => payments'[p].booking = payments[p].booking
                                      /\ payments'[p].method = payments[p].method
      /\ \A p \in PayIds : HasRow(p) /\ payments[p].status = "paid"
                             => payments'[p] = payments[p]
  BY <1>0, ReleaseMoney DEF Sound
<1>2. SameStays /\ UNCHANGED <<price, busy, charge, fetched, redeemed>>
  BY <1>0, ExpireRows DEF ReleaseExpiredHolds, TypeOK, webhookVars, pointVars
<1>3. KeepsBookings
  BY <1>2 DEF KeepsBookings, SameStays
<1>4. \A a \in Ids : Refunding(a) => payments'[busy[a].payment] = payments[busy[a].payment]
  BY <1>0, <1>1 DEF Mechanics, Calls, PaidRows
<1>5. \A d \in fetched' : d.status = "successful" => charge[d.event[1]] = "successful"
  BY <1>0, <1>2 DEF Mechanics, FetchedTrue
<1>6. Mechanics'
  BY <1>0, <1>1, <1>2, <1>3, <1>4, <1>5, FrameMechanics
<1> QED
  BY <1>0, <1>1, <1>2, <1>6, DiscountFrame DEF Sound

\* Time, or a step of somebody else.
LEMMA IdleStep ==
  ASSUME IInv, TimePasses \/ UNCHANGED vars
  PROVE  Sound'
<1>0. TypeOK /\ Sound /\ FetchedTrue
  BY SoundIsIInv DEF Sound, Mechanics
<1>1. UNCHANGED <<bookings, payments, cancels, busy, charge, price, redeemed, notes, fetched>>
  BY DEF TimePasses, Tick, vars, tableVars, webhookVars, pointVars
<1>2. \A d \in fetched' : d.status = "successful" => charge[d.event[1]] = "successful"
  BY <1>0, <1>1 DEF FetchedTrue
<1> QED
  BY <1>0, <1>1, <1>2, QuietStep

LEMMA NextKeepsIInv == IInv /\ [Next]_vars => IInv'
<1> SUFFICES ASSUME IInv, [Next]_vars
             PROVE  IInv'
  OBVIOUS
<1>1. TypeOK'
  <2>1. CASE Next
    BY <2>1, NextType DEF IInv
  <2>2. CASE UNCHANGED vars
    BY <2>2 DEF IInv, TypeOK, TableTypeOK, vars, tableVars, webhookVars, pointVars, moneyVars
  <2> QED
    BY <2>1, <2>2
<1>2. Sound'
  <2>1. CASE Customer
    <3>1. ASSUME NEW b \in Ids, NEW tid \in Tids, CustomerPaysInvoice(b, tid)
          PROVE  Sound'
      <4>1. /\ UNCHANGED <<bookings, payments, cancels, busy, charge, price, redeemed, fetched>>
            /\ notes \subseteq notes'
        BY <3>1 DEF CustomerPaysInvoice, tableVars, pointVars
      <4>2. \A d \in fetched' : d.status = "successful" => charge[d.event[1]] = "successful"
        BY <4>1 DEF IInv, FetchedTrue
      <4> QED
        BY <4>1, <4>2, QuietStep, SoundIsIInv
    <3> QED
      BY <2>1, <3>1, CreateStep, RedeemStep, StartPaymentStep, CustomerPaysStep, CancelStep,
         StartRefundStep DEF Customer
  <2>2. CASE GatewayAnswers
    BY <2>2, FinishPaymentStep, AbortStep, FinishRefundStep DEF GatewayAnswers
  <2>3. CASE Omise
    BY <2>3, DeliveryStep, ConfirmFromOmiseStep, FailFromOmiseStep DEF Omise
  <2>4. CASE TwoCTwoP
    BY <2>4, NoteStep DEF TwoCTwoP
  <2>5. CASE \E t \in 0 .. clock : ReleaseExpiredHolds(t)
    BY <2>5, ReleaseStep
  <2>6. CASE TimePasses \/ UNCHANGED vars
    BY <2>6, IdleStep
  <2> QED
    BY <2>1, <2>2, <2>3, <2>4, <2>5, <2>6 DEF Next
<1> QED
  BY <1>1, <1>2 DEF IInv, Sound, Mechanics

LEMMA InitEstablishesIInv == Init => IInv
<1> SUFFICES ASSUME Init
             PROVE  IInv
  OBVIOUS
<1> USE DEF Init, TableInit
<1>1. TypeOK
  BY PaymentsAssumption, BookingTableAssumption DEF TypeOK, TableTypeOK, ChargeStatuses
<1>2. /\ \A b \in Ids : ~Exists(b) /\ ~Paying(b) /\ ~Refunding(b)
      /\ \A p \in PayIds : ~HasRow(p)
  BY DEF Exists, HasRow, Paying, Refunding
<1>3. RowsKnown /\ Calls /\ Alone /\ FetchedTrue /\ RedeemedExist /\ OneDiscountPerBooking
  BY <1>2 DEF RowsKnown, Calls, Alone, FetchedTrue, RedeemedExist, OneDiscountPerBooking
<1>4. Money
  BY <1>2 DEF Money, PaidMeansCharged, ConfirmedWithPaid, PaidIsSettled, RefundOnRecord
<1> QED
  BY <1>1, <1>3, <1>4 DEF IInv

LEMMA Invariance == Spec => []IInv
<1>1. Init => IInv
  BY InitEstablishesIInv
<1>2. IInv /\ [Next]_vars => IInv'
  BY NextKeepsIInv
<1> QED
  BY <1>1, <1>2, PTL DEF Spec

-----------------------------------------------------------------------------
(* What payments promise.                                                  *)

\* Every value of every table stays within its type: no total, balance or discount
\* becomes negative.
THEOREM TypeCorrect == Spec => []TypeOK
<1>1. IInv => TypeOK
  BY DEF IInv
<1> QED
  BY <1>1, Invariance, PTL

\* A payment is marked paid or refunded only when its gateway took the money.
THEOREM PaidIsCharged == Spec => []PaidMeansCharged
<1>1. IInv => PaidMeansCharged
  BY DEF IInv, Money
<1> QED
  BY <1>1, Invariance, PTL

\* The booking of a paid payment is confirmed or was cancelled.
THEOREM PaidHasBooking == Spec => []PaidIsSettled
<1>1. IInv => PaidIsSettled
  BY DEF IInv, Money
<1> QED
  BY <1>1, Invariance, PTL

\* A refunded payment has a cancellation that says what became of the refund.
THEOREM RefundsRecorded == Spec => []RefundOnRecord
<1>1. IInv => RefundOnRecord
  BY DEF IInv, Money
<1> QED
  BY <1>1, Invariance, PTL

\* A booking has one discount, of at most half its price.
THEOREM OneDiscount == Spec => []OneDiscountPerBooking
<1>1. IInv => OneDiscountPerBooking
  BY DEF IInv
<1> QED
  BY <1>1, Invariance, PTL

-----------------------------------------------------------------------------
(* What was answered is not lost.                                          *)

\* Events are recorded for what they say: a complete charge is settled, and a
\* transactionId is that of one notification.
Recorded ==
  /\ \A d \in fetched :
       /\ d.status = "failed" => charge[d.event[1]] = "failed"
       /\ d.event[2] = "complete" => d.status \in {"successful", "failed"}
  /\ \A e \in seen \cap OmiseEvents :
       e[2] = "complete" => charge[e[1]] \in {"successful", "failed"}
  /\ \A t \in (seen \cap Tids) \ {NoTid} : \E n \in notes : n.tid = t
  /\ \A n, m \in notes : n.tid = m.tid /\ n.tid # NoTid => n = m

\* A charge that is successful before its payment has a row is that of a card, and
\* will confirm the booking with the row.  A notified invoice has its booking.
Expected ==
  /\ \A b \in Ids :
       Paying(b) /\ charge[busy[b].payment] = "successful" => busy[b].method = "card"
  /\ \A n \in notes : Exists(n.invoice)

HandledInv == Recorded /\ Expected /\ HandledMeansSettled

Taken(i) == Exists(i) /\ bookings[i].status \in {"confirmed", "cancelled"}

\* Payments of successful charges and taken bookings stay as they are, but for one
\* refunded and one cancelled.
KeepsSettled ==
  /\ \A p \in PayIds : charge[p] = "successful" /\ HasRow(p)' =>
       \/ HasRow(p) /\ payments[p].status \notin {"paid", "refunded"}
       \/ payments'[p].status \in {"paid", "refunded"}
  /\ \A i \in Ids : Taken(i) => Taken(i)'

\* Steps that charge nothing and notify nobody: what they put on record is settled.
LEMMA HandledFrame ==
  ASSUME TypeOK, HandledInv, KeepsSettled, KeepsBookings, FetchedTrue,
         UNCHANGED <<charge, notes>>, fetched' \subseteq fetched, seen \subseteq seen',
         \A b \in Ids : Paying(b)' => Paying(b) /\ busy'[b] = busy[b],
         \A e \in (seen' \ seen) \cap OmiseEvents : e[2] = "complete" =>
            /\ charge[e[1]] \in {"successful", "failed"}
            /\ charge[e[1]] = "successful" /\ HasRow(e[1])'
                 => payments'[e[1]].status \in {"paid", "refunded"},
         \A t \in ((seen' \ seen) \cap Tids) \ {NoTid} :
            \E n \in notes : n.tid = t /\ (n.success => Taken(n.invoice)')
  PROVE  HandledInv'
<1>1. Recorded'
  BY DEF HandledInv, Recorded
<1>2. Expected'
  <2>1. \A n \in notes : n.invoice \in Ids
    BY DEF TypeOK, Notes
  <2> QED
    BY <2>1 DEF HandledInv, Expected, KeepsBookings
<1>3. \A e \in seen' \cap OmiseEvents :
        e[2] = "complete" /\ HasRow(e[1])' /\ charge[e[1]] = "successful" =>
          payments'[e[1]].status \in {"paid", "refunded"}
  <2> SUFFICES ASSUME NEW e \in seen \cap OmiseEvents, e[2] = "complete", HasRow(e[1])',
                      charge[e[1]] = "successful"
               PROVE  payments'[e[1]].status \in {"paid", "refunded"}
    OBVIOUS
  <2>1. e[1] \in PayIds
    BY DEF OmiseEvents
  <2>2. HasRow(e[1]) => payments[e[1]].status \in {"paid", "refunded"}
    BY DEF HandledInv, HandledMeansSettled
  <2> QED
    BY <2>1, <2>2 DEF KeepsSettled
<1>4. \A n \in notes : n.success /\ n.tid # NoTid /\ n.tid \in seen' =>
        bookings'[n.invoice].status \in {"confirmed", "cancelled"}
  <2> SUFFICES ASSUME NEW n \in notes, n.success, n.tid # NoTid, n.tid \in seen'
               PROVE  Taken(n.invoice)'
    BY DEF Taken
  <2>1. n.tid \in Tids /\ n.invoice \in Ids
    BY DEF TypeOK, Notes
  <2>2. CASE n.tid \in seen
    <3>1. Taken(n.invoice)
      BY <2>2 DEF HandledInv, Expected, HandledMeansSettled, Taken
    <3> QED
      BY <2>1, <3>1 DEF KeepsSettled
  <2>3. CASE n.tid \notin seen
    <3>1. PICK m \in notes : m.tid = n.tid /\ (m.success => Taken(m.invoice)')
      BY <2>1, <2>3
    <3>2. m = n
      BY <3>1 DEF HandledInv, Recorded
    <3> QED
      BY <3>1, <3>2
  <2> QED
    BY <2>2, <2>3
<1> QED
  BY <1>1, <1>2, <1>3, <1>4 DEF HandledInv, HandledMeansSettled

\* Confirming and cancelling leave what is taken taken.
LEMMA TakenRow ==
  ASSUME SameStays, NEW b \in Ids, SameRows({b}),
         bookings'[b].status \in {"confirmed", "cancelled"}
  PROVE  \A i \in Ids : Taken(i) => Taken(i)'
  BY DEF SameStays, SameRows, Taken, Exists

\* Steps that leave webhooks, charges and payments alone, or forget a call.
LEMMA QuietHandled ==
  ASSUME IInv, HandledInv, UNCHANGED <<payments, charge, notes, fetched, seen>>,
         \A b \in Ids : Paying(b)' => Paying(b) /\ busy'[b] = busy[b],
         KeepsBookings, \A i \in Ids : Taken(i) => Taken(i)'
  PROVE  HandledInv'
<1>1. KeepsSettled
  BY DEF KeepsSettled, HasRow
<1> QED
  BY <1>1, HandledFrame DEF IInv

LEMMA StartPaymentHandled ==
  ASSUME IInv, HandledInv, NEW p \in PayIds, NEW b \in Ids, NEW m \in Methods,
         StartPayment(p, b, m)
  PROVE  HandledInv'
<1>0. TypeOK /\ m \in AllMethods
  BY PaymentsAssumption DEF IInv
<1>1. /\ ~HasRow(p) /\ charge[p] = "none" /\ PaymentFree(p)
      /\ busy' = [busy EXCEPT ![b] = [op |-> "pay", payment |-> p, method |-> m]]
      /\ UNCHANGED <<bookings, payments, notes, fetched, seen>>
  BY DEF StartPayment, HasRow, tableVars, webhookVars
<1>2. /\ charge'[p] = "successful" => m = "card"
      /\ \A q \in PayIds : q # p => charge'[q] = charge[q]
  BY <1>0 DEF StartPayment, TypeOK, AllMethods
<1>3. /\ busy'[b] = [op |-> "pay", payment |-> p, method |-> m]
      /\ \A i \in Ids : i # b => busy'[i] = busy[i]
  BY <1>0, <1>1 DEF TypeOK
<1>4. /\ \A d \in fetched : d.event[1] \in PayIds
      /\ \A e \in OmiseEvents : e[1] \in PayIds
      /\ \A i \in Ids : Paying(i) => busy[i].payment \in PayIds /\ busy[i].payment # p
  BY <1>0, <1>1, CallType DEF TypeOK, OmiseEvents, PaymentFree, Paying
<1>5. Recorded'
  <2>1. \A q \in PayIds : charge[q] # "none" => charge'[q] = charge[q]
    BY <1>1, <1>2
  <2> QED
    BY <1>1, <1>4, <2>1 DEF HandledInv, Recorded
<1>6. Expected'
  <2> SUFFICES ASSUME NEW i \in Ids, Paying(i)', charge'[busy'[i].payment] = "successful"
               PROVE  busy'[i].method = "card"
    BY <1>1 DEF HandledInv, Expected, Exists
  <2>1. CASE i = b
    BY <1>2, <1>3, <2>1
  <2>2. CASE i # b
    BY <1>2, <1>3, <1>4, <2>2 DEF HandledInv, Expected, Paying
  <2> QED
    BY <2>1, <2>2
<1>7. HandledMeansSettled'
  <2>1. \A e \in seen \cap OmiseEvents : HasRow(e[1]) => charge'[e[1]] = charge[e[1]]
    BY <1>1, <1>2, <1>4
  <2> QED
    BY <1>1, <2>1 DEF HandledInv, HandledMeansSettled, HasRow
<1> QED
  BY <1>5, <1>6, <1>7 DEF HandledInv

\* A pending charge that the customer settles has no event on record that says so.
LEMMA CustomerPaysHandled ==
  ASSUME IInv, HandledInv, NEW p \in PayIds, CustomerPays(p)
  PROVE  HandledInv'
<1>0. TypeOK /\ Calls
  BY DEF IInv
<1>1. /\ UNCHANGED <<bookings, payments, busy, notes, fetched, seen>>
      /\ HasRow(p) /\ charge[p] = "pending" /\ charge'[p] \in {"successful", "failed"}
      /\ \A q \in PayIds : q # p => charge'[q] = charge[q]
  BY <1>0 DEF CustomerPays, tableVars, webhookVars, TypeOK
<1>2. /\ \A d \in fetched : d.event[1] \in PayIds
      /\ \A e \in OmiseEvents : e[1] \in PayIds
      /\ \A i \in Ids : Paying(i) => busy[i].payment \in PayIds /\ busy[i].payment # p
  BY <1>0, <1>1, CallType DEF TypeOK, OmiseEvents, Calls
<1>3. \A q \in PayIds : charge[q] # "pending" => charge'[q] = charge[q]
  BY <1>1
<1>4. Recorded'
  BY <1>1, <1>2, <1>3 DEF HandledInv, Recorded
<1>5. Expected'
  BY <1>1, <1>2 DEF HandledInv, Expected, Paying, Exists
<1>6. HandledMeansSettled'
  <2>1. \A e \in seen \cap OmiseEvents : e[2] = "complete" => charge'[e[1]] = charge[e[1]]
    BY <1>2, <1>3 DEF HandledInv, Recorded
  <2> QED
    BY <1>1, <2>1 DEF HandledInv, HandledMeansSettled, HasRow
<1> QED
  BY <1>4, <1>5, <1>6 DEF HandledInv

\* A new transactionId is on no record.
LEMMA InvoicePaidHandled ==
  ASSUME IInv, HandledInv, NEW b \in Ids, NEW tid \in Tids, CustomerPaysInvoice(b, tid)
  PROVE  HandledInv'
<1>0. PICK success \in BOOLEAN :
         notes' = notes \cup {[invoice |-> b, success |-> success, tid |-> tid]}
  BY DEF CustomerPaysInvoice
<1>1. PICK n \in Notes : notes' = notes \cup {n} /\ n.tid = tid /\ n.invoice = b
  <2>1. [invoice |-> b, success |-> success, tid |-> tid] \in Notes
    BY <1>0, Zenon DEF Notes
  <2> WITNESS [invoice |-> b, success |-> success, tid |-> tid] \in Notes
  <2> QED
    BY <1>0
<1>2. /\ UNCHANGED <<bookings, payments, busy, charge, fetched, seen>>
      /\ tid = NoTid \/ ~\E m \in notes : m.tid = tid
  BY DEF CustomerPaysInvoice, tableVars
<1>3. Exists(b)
  BY DEF CustomerPaysInvoice, InvoiceRows, IInv, RowsKnown
<1>4. Recorded'
  BY <1>1, <1>2 DEF HandledInv, Recorded
<1>5. Expected'
  BY <1>1, <1>2, <1>3 DEF HandledInv, Expected, Paying, Exists
<1>6. tid # NoTid => tid \notin seen
  BY <1>2 DEF HandledInv, Recorded
<1>7. HandledMeansSettled'
  BY <1>1, <1>2, <1>6 DEF HandledInv, HandledMeansSettled, HasRow
<1> QED
  BY <1>4, <1>5, <1>7 DEF HandledInv

\* A card that was charged at once is paid with its row.
LEMMA FinishPaymentHandled ==
  ASSUME IInv, HandledInv, NEW b \in Ids, FinishPayment(b)
  PROVE  HandledInv'
<1>0. TypeOK /\ TableTypeOK /\ Calls
  BY DEF IInv, TypeOK
<1>p. PICK p \in PayIds : p = busy[b].payment
  BY <1>0, CallType DEF FinishPayment
<1>1. /\ Paying(b) /\ Unlock(b) /\ ~HasRow(p)
      /\ UNCHANGED <<charge, notes, fetched, seen>>
      /\ \A q \in PayIds : q # p => payments'[q] = payments[q]
  BY <1>0, <1>p DEF FinishPayment, webhookVars, Calls, TypeOK
<1>2. charge[p] = "successful" => payments'[p].status = "paid"
  BY <1>0, <1>1, <1>p DEF FinishPayment, HandledInv, Expected, TypeOK
<1>3. /\ \A i \in Ids : Taken(i) => Taken(i)'
      /\ KeepsBookings
  <2>1. CASE Confirm(b)
    <3>1. SameStays /\ SameRows({b}) /\ bookings'[b].status = "confirmed"
      BY <1>0, <2>1, ConfirmRow
    <3> QED
      BY <3>1, TakenRow DEF KeepsBookings, SameStays
  <2>2. CASE UNCHANGED tableVars
    BY <2>2 DEF tableVars, Taken, KeepsBookings, Exists
  <2> QED
    BY <2>1, <2>2 DEF FinishPayment
<1>4. KeepsSettled
  BY <1>1, <1>2, <1>3 DEF KeepsSettled, HasRow
<1>5. \A i \in Ids : Paying(i)' => Paying(i) /\ busy'[i] = busy[i]
  BY <1>0, <1>1 DEF Unlock, Paying, TypeOK
<1> QED
  BY <1>0, <1>1, <1>3, <1>4, <1>5, HandledFrame DEF IInv

LEMMA FinishRefundHandled ==
  ASSUME IInv, HandledInv, NEW b \in Ids, FinishRefund(b)
  PROVE  HandledInv'
<1>0. TypeOK /\ TableTypeOK /\ Calls
  BY DEF IInv, TypeOK
<1>p. PICK p \in PayIds : p = busy[b].payment
  BY <1>0, CallType DEF FinishRefund
<1>1. /\ Refunding(b) /\ Unlock(b) /\ HasRow(p) /\ SetPayment(p, "refunded") /\ Cancel(b)
      /\ UNCHANGED <<charge, notes, fetched, seen>>
  BY <1>0, <1>p DEF FinishRefund, webhookVars, Calls, PaidRows
<1>2. /\ payments'[p].status = "refunded"
      /\ \A q \in PayIds : q # p => payments'[q] = payments[q]
  BY <1>0, <1>1, SetPaymentType DEF PaymentStatuses
<1>3. SameStays /\ SameRows({b}) /\ bookings'[b].status = "cancelled"
  BY <1>0, <1>1, CancelRow
<1>4. KeepsSettled
  BY <1>2, <1>3, TakenRow DEF KeepsSettled, HasRow
<1>5. KeepsBookings
  BY <1>3 DEF KeepsBookings, SameStays
<1>6. \A i \in Ids : Paying(i)' => Paying(i) /\ busy'[i] = busy[i]
  BY <1>0, <1>1 DEF Unlock, Paying, TypeOK
<1> QED
  BY <1>0, <1>1, <1>4, <1>5, <1>6, HandledFrame DEF IInv

\* What a fetch brings is the charge as it is.
LEMMA FetchHandled ==
  ASSUME IInv, HandledInv, NEW e \in OmiseEvents, Fetch(e)
  PROVE  HandledInv'
<1>1. /\ fetched' = fetched \cup {[event |-> e, status |-> charge[e[1]]]}
      /\ e[2] = "complete" => charge[e[1]] \in {"successful", "failed"}
      /\ UNCHANGED <<bookings, payments, busy, charge, notes, seen>>
  BY DEF Fetch, tableVars
<1>2. Recorded'
  BY <1>1 DEF HandledInv, Recorded
<1>3. Expected' /\ HandledMeansSettled'
  BY <1>1 DEF HandledInv, Expected, HandledMeansSettled, Paying, Exists, HasRow
<1> QED
  BY <1>2, <1>3 DEF HandledInv

\* A delivery is recorded: its payment is settled with it, or it was, or it will be
\* with its row, or there is nothing to settle.
LEMMA DeliveryHandled ==
  ASSUME IInv, HandledInv, NEW d \in fetched,
         \/ IgnoreDelivery(d) \/ ConfirmFromOmise(d) \/ FailFromOmise(d)
         \/ NotSettledYet(d) \/ DropDelivery(d)
  PROVE  HandledInv'
<1>0. TypeOK /\ TableTypeOK /\ FetchedTrue /\ RowsKnown
  BY DEF IInv, TypeOK
<1>p. PICK p \in PayIds : p = d.event[1]
  BY <1>0 DEF TypeOK, OmiseEvents
<1>1. /\ d.event \in OmiseEvents
      /\ d.status = "successful" => charge[p] = "successful"
      /\ d.status = "failed" => charge[p] = "failed"
      /\ d.event[2] = "complete" => d.status \in {"successful", "failed"}
  BY <1>0, <1>p DEF TypeOK, FetchedTrue, HandledInv, Recorded
<1>2. /\ UNCHANGED <<charge, notes, busy>> /\ fetched' \subseteq fetched
      /\ seen \subseteq seen' /\ seen' \subseteq seen \cup {d.event}
  BY DEF IgnoreDelivery, ConfirmFromOmise, FailFromOmise, NotSettledYet, DropDelivery, Answer
<1>3. /\ d.event[2] = "complete" /\ d.event \in seen' \ seen => charge[p] \in {"successful", "failed"}
      /\ \A t \in ((seen' \ seen) \cap Tids) \ {NoTid} : FALSE
      /\ \A b \in Ids : Paying(b)' => Paying(b) /\ busy'[b] = busy[b]
  BY <1>1, <1>2, PaymentsAssumption DEF Paying
<1>4. CASE IgnoreDelivery(d) \/ NotSettledYet(d) \/ DropDelivery(d)
  <2>1. /\ UNCHANGED <<bookings, payments>>
        /\ d.event[2] = "complete" /\ d.event \notin seen /\ d.event \in seen' /\ HasRow(p)
             => payments[p].status = "paid"
    BY <1>1, <1>4, <1>p
    DEF IgnoreDelivery, NotSettledYet, DropDelivery, Nothing, tableVars
  <2>2. KeepsSettled /\ KeepsBookings
    BY <2>1 DEF KeepsSettled, KeepsBookings, Taken, HasRow, Exists
  <2>3. \A e \in (seen' \ seen) \cap OmiseEvents : e[2] = "complete" =>
           /\ charge[e[1]] \in {"successful", "failed"}
           /\ charge[e[1]] = "successful" /\ HasRow(e[1])'
                => payments'[e[1]].status \in {"paid", "refunded"}
    BY <1>2, <1>3, <1>p, <2>1 DEF HasRow
  <2> QED
    BY <1>0, <1>2, <1>3, <2>2, <2>3, HandledFrame
<1>5. CASE ConfirmFromOmise(d)
  <2>1. HasRow(p) /\ Settle(p)
    BY <1>5, <1>p DEF ConfirmFromOmise, NewForPayment
  <2>2. payments[p].booking \in Ids
    BY <1>0, <2>1, RowType
  <2>3. /\ payments'[p].status = "paid"
        /\ \A q \in PayIds : q # p => payments'[q] = payments[q]
        /\ \A q \in PayIds : HasRow(q)' <=> HasRow(q)
    BY <1>0, <2>1, SettleType DEF Settle
  <2>4. SameStays /\ SameRows({payments[p].booking})
        /\ bookings'[payments[p].booking].status = "confirmed"
    BY <1>0, <2>1, <2>2, ConfirmRow DEF Settle
  <2>5. KeepsSettled /\ KeepsBookings
    BY <2>2, <2>3, <2>4, TakenRow DEF KeepsSettled, KeepsBookings, SameStays
  <2>6. \A e \in (seen' \ seen) \cap OmiseEvents : e[2] = "complete" =>
           /\ charge[e[1]] \in {"successful", "failed"}
           /\ charge[e[1]] = "successful" /\ HasRow(e[1])'
                => payments'[e[1]].status \in {"paid", "refunded"}
    BY <1>2, <1>3, <1>p, <2>3
  <2> QED
    BY <1>0, <1>2, <1>3, <2>5, <2>6, HandledFrame
<1>6. CASE FailFromOmise(d)
  <2>1. /\ HasRow(p) /\ SetPayment(p, "failed") /\ charge[p] = "failed"
        /\ UNCHANGED bookings
    BY <1>1, <1>6, <1>p DEF FailFromOmise, NewForPayment, tableVars
  <2>2. /\ \A q \in PayIds : q # p => payments'[q] = payments[q]
        /\ \A q \in PayIds : HasRow(q)' <=> HasRow(q)
    BY <1>0, <2>1, SetPaymentType DEF PaymentStatuses
  <2>3. KeepsSettled /\ KeepsBookings
    BY <2>1, <2>2 DEF KeepsSettled, KeepsBookings, Taken, Exists
  <2>4. \A e \in (seen' \ seen) \cap OmiseEvents : e[2] = "complete" =>
           /\ charge[e[1]] \in {"successful", "failed"}
           /\ charge[e[1]] = "successful" /\ HasRow(e[1])'
                => payments'[e[1]].status \in {"paid", "refunded"}
    BY <1>2, <1>3, <1>p, <2>1
  <2> QED
    BY <1>0, <1>2, <1>3, <2>3, <2>4, HandledFrame
<1> QED
  BY <1>4, <1>5, <1>6

\* A success that is recorded confirms its booking, or finds a payment of it paid.
LEMMA NoteHandled ==
  ASSUME IInv, HandledInv, NEW n \in notes,
         IgnoreNote(n) \/ ConfirmFrom2c2p(n) \/ FailFrom2c2p(n)
  PROVE  HandledInv'
<1>0. TypeOK /\ TableTypeOK /\ FetchedTrue /\ RowsKnown /\ PaidIsSettled
  BY DEF IInv, TypeOK, Money
<1>1. n.tid \in Tids /\ n.invoice \in Ids /\ Exists(n.invoice)
  BY <1>0 DEF TypeOK, Notes, HandledInv, Expected
<1>2. /\ UNCHANGED <<charge, notes, busy, fetched>> /\ seen' = seen \cup {EventId(n)}
  BY DEF IgnoreNote, ConfirmFrom2c2p, FailFrom2c2p
<1>3. /\ (seen' \ seen) \cap OmiseEvents = {}
      /\ \A t \in ((seen' \ seen) \cap Tids) \ {NoTid} : t = n.tid
      /\ \A b \in Ids : Paying(b)' => Paying(b) /\ busy'[b] = busy[b]
  BY <1>1, <1>2, PaymentsAssumption DEF EventId, Paying
<1>4. PICK p \in InvoiceRows(n.invoice) :
         \/ IgnoreNote(n) /\ payments[p].status = "paid"
         \/ ConfirmFrom2c2p(n) /\ Settle(p)
         \/ FailFrom2c2p(n) /\ SetPayment(p, "failed")
  BY DEF IgnoreNote, ConfirmFrom2c2p, FailFrom2c2p
<1>5. /\ p \in PayIds /\ HasRow(p) /\ payments[p].booking = n.invoice
      /\ charge[p] = "none"
  BY <1>0 DEF InvoiceRows, RowsKnown
<1>6. CASE IgnoreNote(n) /\ payments[p].status = "paid"
  <2>1. UNCHANGED <<bookings, payments>>
    BY <1>6 DEF IgnoreNote, tableVars
  <2>2. Taken(n.invoice)'
    BY <1>0, <1>1, <1>5, <1>6, <2>1 DEF PaidIsSettled, Taken, Exists
  <2>3. KeepsSettled /\ KeepsBookings
    BY <2>1 DEF KeepsSettled, KeepsBookings, Taken, HasRow, Exists
  <2> QED
    BY <1>0, <1>2, <1>3, <2>2, <2>3, HandledFrame
<1>7. CASE ConfirmFrom2c2p(n) /\ Settle(p)
  <2>1. /\ \A q \in PayIds : q # p => payments'[q] = payments[q]
        /\ \A q \in PayIds : HasRow(q)' <=> HasRow(q)
    BY <1>0, <1>5, <1>7, SettleType DEF Settle
  <2>2. SameStays /\ SameRows({n.invoice}) /\ bookings'[n.invoice].status = "confirmed"
    BY <1>0, <1>1, <1>5, <1>7, ConfirmRow DEF Settle
  <2>3. KeepsSettled /\ KeepsBookings /\ Taken(n.invoice)'
    BY <1>1, <1>5, <2>1, <2>2, TakenRow
    DEF KeepsSettled, KeepsBookings, SameStays, Taken
  <2> QED
    BY <1>0, <1>2, <1>3, <2>3, HandledFrame
<1>8. CASE FailFrom2c2p(n) /\ SetPayment(p, "failed")
  <2>1. ~n.success /\ UNCHANGED bookings
    BY <1>8 DEF FailFrom2c2p, tableVars
  <2>2. /\ \A q \in PayIds : q # p => payments'[q] = payments[q]
        /\ \A q \in PayIds : HasRow(q)' <=> HasRow(q)
    BY <1>0, <1>5, <1>8, SetPaymentType DEF PaymentStatuses
  <2>3. KeepsSettled /\ KeepsBookings
    BY <1>5, <2>1, <2>2 DEF KeepsSettled, KeepsBookings, Taken, Exists
  <2> QED
    BY <1>0, <1>2, <1>3, <2>1, <2>3, HandledFrame
<1> QED
  BY <1>4, <1>6, <1>7, <1>8

LEMMA ReleaseHandled ==
  ASSUME IInv, HandledInv, NEW t, ReleaseExpiredHolds(t)
  PROVE  HandledInv'
<1>0. TypeOK /\ TableTypeOK /\ FetchedTrue
  BY DEF IInv, TypeOK
<1>1. UNCHANGED <<charge, notes, fetched, seen, busy>>
  BY DEF ReleaseExpiredHolds, webhookVars
<1>2. \A p \in PayIds : HasRow(p)' =>
        HasRow(p) /\ (payments[p].status \in {"paid", "refunded"} => payments'[p] = payments[p])
  BY <1>0, ReleaseMoney DEF ReleaseExpiredHolds, IInv
<1>3. SameStays /\ \A i \in Ids : Taken(i) => Taken(i)'
  BY <1>0, ExpireRows DEF ReleaseExpiredHolds, ExpireHolds, Lapsed, Taken, SameStays
<1>4. KeepsSettled /\ KeepsBookings
  BY <1>2, <1>3 DEF KeepsSettled, KeepsBookings, SameStays
<1> QED
  BY <1>0, <1>1, <1>4, HandledFrame DEF Paying

LEMMA OtherHandled ==
  ASSUME IInv, HandledInv,
         \/ \E b \in Ids, rt \in RoomTypes, g \in Guests, in, out \in Days :
              CreateBooking(b, rt, g, in, out)
         \/ \E b \in Ids, points \in PointsAsked : Redeem(b, points)
         \/ \E b \in Ids, hours \in Hours : CancelWithoutRefund(b, hours) \/ StartRefund(b, hours)
         \/ \E b \in Ids : AbortPayment(b) \/ AbortRefund(b)
         \/ TimePasses
         \/ UNCHANGED vars
  PROVE  HandledInv'
<1>0. TypeOK /\ TableTypeOK
  BY DEF IInv, TypeOK
<1>1. UNCHANGED <<payments, charge, notes, fetched, seen>>
  BY DEF CreateBooking, Redeem, CancelWithoutRefund, StartRefund, AbortPayment, AbortRefund,
         TimePasses, vars, webhookVars
<1>2. \A b \in Ids : Paying(b)' => Paying(b) /\ busy'[b] = busy[b]
  BY <1>0 DEF CreateBooking, Redeem, CancelWithoutRefund, StartRefund, AbortPayment, AbortRefund,
         TimePasses, vars, Unlock, Paying, TypeOK
<1>3. KeepsBookings /\ \A i \in Ids : Taken(i) => Taken(i)'
  <2>1. CASE \E b \in Ids, hours \in Hours : CancelWithoutRefund(b, hours)
    <3>1. PICK b \in Ids : Cancel(b)
      BY <2>1 DEF CancelWithoutRefund
    <3>2. SameStays /\ SameRows({b}) /\ bookings'[b].status = "cancelled"
      BY <1>0, <3>1, CancelRow
    <3> QED
      BY <3>2, TakenRow DEF KeepsBookings, SameStays
  <2>2. CASE \E b \in Ids, rt \in RoomTypes, g \in Guests, in, out \in Days :
               CreateBooking(b, rt, g, in, out)
    <3>1. PICK b \in Ids : ~Exists(b) /\ SameRows({b})
      BY <1>0, <2>2 DEF CreateBooking, SameRows, TableTypeOK
    <3> QED
      BY <3>1 DEF SameRows, KeepsBookings, Taken, Exists
  <2>3. CASE UNCHANGED bookings
    BY <2>3 DEF KeepsBookings, Taken, Exists
  <2> QED
    BY <2>1, <2>2, <2>3
    DEF Redeem, StartRefund, AbortPayment, AbortRefund, TimePasses, Tick, vars, tableVars
<1> QED
  BY <1>1, <1>2, <1>3, QuietHandled

LEMMA NextHandled == IInv /\ HandledInv /\ [Next]_vars => HandledInv'
<1> SUFFICES ASSUME IInv, HandledInv, [Next]_vars
             PROVE  HandledInv'
  OBVIOUS
<1>1. CASE Customer
  BY <1>1, OtherHandled, StartPaymentHandled, CustomerPaysHandled, InvoicePaidHandled DEF Customer
<1>2. CASE GatewayAnswers
  BY <1>2, OtherHandled, FinishPaymentHandled, FinishRefundHandled DEF GatewayAnswers
<1>3. CASE Omise
  BY <1>3, FetchHandled, DeliveryHandled DEF Omise
<1>4. CASE TwoCTwoP
  BY <1>4, NoteHandled DEF TwoCTwoP
<1>5. CASE \E t \in 0 .. clock : ReleaseExpiredHolds(t)
  BY <1>5, ReleaseHandled
<1>6. CASE TimePasses \/ UNCHANGED vars
  BY <1>6, OtherHandled
<1> QED
  BY <1>1, <1>2, <1>3, <1>4, <1>5, <1>6 DEF Next

\* No success whose event is on record, and so is not delivered again, is lost.
THEOREM HandledIsSettled == Spec => []HandledMeansSettled
<1>1. Init => HandledInv
  BY DEF Init, HandledInv, Recorded, Expected, HandledMeansSettled, Paying
<1>2. HandledInv => HandledMeansSettled
  BY DEF HandledInv
<1> QED
  BY <1>1, <1>2, NextHandled, InitEstablishesIInv, NextKeepsIInv, PTL DEF Spec

-----------------------------------------------------------------------------
(* A paid payment is final.                                                *)

Final(p) ==
  HasRow(p) /\ payments[p].status = "paid" =>
    \/ payments'[p] = payments[p]
    \/ /\ payments'[p] = [payments[p] EXCEPT !.status = "refunded"]
       /\ bookings'[payments[p].booking].status = "cancelled"

\* Webhooks write payments that are not paid, a charge writes a new one.
LEMMA WritesOneUnpaid ==
  ASSUME IInv, NEW q \in PayIds,
         ~(HasRow(q) /\ payments[q].status = "paid"),
         \A p \in PayIds : p # q => payments'[p] = payments[p],
         NEW p \in PayIds
  PROVE  Final(p)
  BY DEF Final

LEMMA StepIsFinal ==
  ASSUME IInv, Next, NEW p \in PayIds
  PROVE  Final(p)
<1>0. TypeOK /\ TableTypeOK /\ Calls
  BY DEF IInv, TypeOK
<1>1. CASE UNCHANGED payments
  BY <1>1 DEF Final
<1>2. ASSUME NEW b \in Ids, FinishPayment(b)
      PROVE  Final(p)
  <2>1. PICK q \in PayIds : q = busy[b].payment
    BY <1>0, <1>2, CallType DEF FinishPayment
  <2>2. ~HasRow(q) /\ \A r \in PayIds : r # q => payments'[r] = payments[r]
    BY <1>0, <1>2, <2>1 DEF FinishPayment, Calls, TypeOK
  <2> QED
    BY <2>2, WritesOneUnpaid
<1>3. ASSUME NEW b \in Ids, FinishRefund(b)
      PROVE  Final(p)
  <2>1. PICK q \in PayIds : q = busy[b].payment
    BY <1>0, <1>3, CallType DEF FinishRefund
  <2>2. payments' = [payments EXCEPT ![q].status = "refunded"] /\ payments[q].booking = b
    BY <1>0, <1>3, <2>1 DEF FinishRefund, SetPayment, Calls, PaidRows
  <2>3. bookings'[b].status = "cancelled"
    BY <1>0, <1>3, CancelRow DEF FinishRefund
  <2> QED
    BY <1>0, <2>2, <2>3 DEF Final, TypeOK
<1>4. ASSUME NEW d \in fetched, ConfirmFromOmise(d) \/ FailFromOmise(d)
      PROVE  Final(p)
  <2>1. PICK q \in PayIds : q = d.event[1]
    BY <1>0 DEF TypeOK, OmiseEvents
  <2>2. HasRow(q) /\ payments[q].status # "paid"
    BY <1>4, <2>1 DEF ConfirmFromOmise, FailFromOmise, NewForPayment
  <2>3. \A r \in PayIds : r # q => payments'[r] = payments[r]
    BY <1>0, <1>4, <2>1 DEF ConfirmFromOmise, FailFromOmise, Settle, SetPayment, TypeOK
  <2> QED
    BY <2>2, <2>3, WritesOneUnpaid
<1>5. ASSUME NEW n \in notes, ConfirmFrom2c2p(n) \/ FailFrom2c2p(n)
      PROVE  Final(p)
  <2>1. PICK q \in InvoiceRows(n.invoice) :
           payments[q].status # "paid" /\ (Settle(q) \/ SetPayment(q, "failed"))
    BY <1>5 DEF ConfirmFrom2c2p, FailFrom2c2p
  <2>2. q \in PayIds /\ \A r \in PayIds : r # q => payments'[r] = payments[r]
    BY <1>0, <2>1 DEF InvoiceRows, Settle, SetPayment, TypeOK
  <2> QED
    BY <2>1, <2>2, WritesOneUnpaid
<1>6. ASSUME NEW t, ReleaseExpiredHolds(t)
      PROVE  Final(p)
  BY <1>0, <1>6 DEF ReleaseExpiredHolds, Final
<1>7. CASE Customer
  BY <1>1, <1>7 DEF Customer, CreateBooking, Redeem, StartPayment, CustomerPays,
                    CustomerPaysInvoice, CancelWithoutRefund, StartRefund
<1>8. CASE GatewayAnswers
  BY <1>1, <1>2, <1>3, <1>8 DEF GatewayAnswers, AbortPayment, AbortRefund
<1>9. CASE Omise
  BY <1>1, <1>4, <1>9 DEF Omise, Fetch, IgnoreDelivery, NotSettledYet, DropDelivery
<1>10. CASE TwoCTwoP
  BY <1>1, <1>5, <1>10 DEF TwoCTwoP, IgnoreNote
<1>11. CASE TimePasses
  BY <1>1, <1>11 DEF TimePasses
<1> QED
  BY <1>6, <1>7, <1>8, <1>9, <1>10, <1>11 DEF Next

\* A paid payment changes only in the cancellation that refunds it.
THEOREM PaidStaysPaid == Spec => PaidIsFinal
<1>1. IInv /\ [Next]_vars =>
        [\A p \in PayIds : HasRow(p) /\ payments[p].status = "paid" =>
           \/ payments'[p] = payments[p]
           \/ /\ payments'[p] = [payments[p] EXCEPT !.status = "refunded"]
              /\ bookings'[payments[p].booking].status = "cancelled"]_vars
  BY StepIsFinal DEF Final
<1> QED
  BY <1>1, Invariance, PTL DEF Spec, PaidIsFinal

-----------------------------------------------------------------------------
(* A success counts once.                                                  *)

Paid(p) == HasRow(p) /\ payments[p].status = "paid"

\* A payment was settled as often as it was refunded, and once more when it is paid
\* now, each time by another report, which cannot come again.
Accounted(p) ==
  /\ Len(settledBy[p]) = refunds[p] + (IF Paid(p) THEN 1 ELSE 0)
  /\ \A i, j \in 1 .. Len(settledBy[p]) : settledBy[p][i] = settledBy[p][j] => i = j
  /\ \A i \in 1 .. Len(settledBy[p]) : settledBy[p][i] \in seen \cup {<<p, "charge">>}
  /\ ~HasRow(p) => settledBy[p] = <<>>

SuccessOnRecord(b) ==
  \E n \in notes : n.invoice = b /\ n.success /\ EventId(n) \in seen

\* A payment through 2C2P was settled by the success of its invoice, of which there
\* is one, and once.
Notified(p) ==
  HasRow(p) /\ payments[p].method = "redirect" /\ settledBy[p] # <<>> =>
    Len(settledBy[p]) = 1 /\ SuccessOnRecord(payments[p].booking)

OneSuccess ==
  \A n, m \in notes : n.success /\ m.success /\ n.invoice = m.invoice => n = m

OneRow ==
  \A b \in Ids : \A p, q \in InvoiceRows(b) :
     settledBy[p] # <<>> /\ settledBy[q] # <<>> => p = q

SettledInv ==
  /\ \A p \in PayIds : Accounted(p) /\ Notified(p)
  /\ OneSuccess
  /\ OneRow

LEMMA SettledInvSuffices == TypeOK /\ SettledInv => SettledOnce
<1> SUFFICES ASSUME TypeOK, SettledInv
             PROVE  SettledOnce
  OBVIOUS
<1>1. ASSUME NEW p \in PayIds
      PROVE  /\ Len(settledBy[p]) \in {refunds[p], refunds[p] + 1}
             /\ IsInjective(settledBy[p])
  <2>1. settledBy[p] \in Seq(Reports) /\ refunds[p] \in Nat
    BY DEF TypeOK
  <2> QED
    BY <2>1 DEF SettledInv, Accounted, IsInjective
<1>2. ASSUME NEW b \in Ids, NEW p \in InvoiceRows(b)
      PROVE  Len(settledBy[p]) <= 1
  <2>1. p \in PayIds /\ HasRow(p) /\ payments[p].method = "redirect"
    BY DEF InvoiceRows
  <2>2. settledBy[p] = <<>> \/ Len(settledBy[p]) = 1
    BY <2>1 DEF SettledInv, Notified
  <2>3. settledBy[p] = <<>> => Len(settledBy[p]) = 0
    OBVIOUS
  <2>4. Len(settledBy[p]) \in {0, 1}
    BY <2>2, <2>3
  <2>5. \A n \in {0, 1} : n <= 1
    OBVIOUS
  <2> QED
    BY <2>4, <2>5
<1>3. \A b \in Ids : \A p, q \in InvoiceRows(b) :
         /\ settledBy[p] # <<>> /\ settledBy[q] # <<>> => p = q
         /\ Len(settledBy[p]) <= 1
  BY <1>2 DEF SettledInv, OneRow
<1> QED
  BY <1>1, <1>3 DEF SettledOnce

\* Rows stay, with their bookings and their methods, and so do events on record.
RowsStay ==
  /\ \A q \in PayIds : HasRow(q) =>
       /\ HasRow(q)'
       /\ payments'[q].booking = payments[q].booking
       /\ payments'[q].method = payments[q].method
  /\ seen \subseteq seen' /\ notes \subseteq notes'

\* Steps that settle and refund nothing.
LEMMA QuietSettled ==
  ASSUME TypeOK, SettledInv, UNCHANGED moneyVars, RowsStay, OneSuccess',
         \A q \in PayIds : Paid(q)' <=> Paid(q)
  PROVE  SettledInv'
<1>1. UNCHANGED <<settledBy, refunds>>
  BY DEF moneyVars
<1>2. ASSUME NEW p \in PayIds
      PROVE  Accounted(p)' /\ Notified(p)'
  <2>1. Accounted(p) /\ Notified(p)
    BY DEF SettledInv
  <2>2. Accounted(p)'
    BY <1>1, <2>1 DEF Accounted, RowsStay
  <2>3. Notified(p)'
    <3> SUFFICES ASSUME settledBy[p] # <<>>, HasRow(p)', payments'[p].method = "redirect"
                 PROVE  Len(settledBy[p]) = 1 /\ SuccessOnRecord(payments[p].booking)'
      BY <1>1 DEF Notified, SuccessOnRecord, EventId
    <3>1. HasRow(p)
      BY <2>1 DEF Accounted
    <3>2. Len(settledBy[p]) = 1 /\ SuccessOnRecord(payments[p].booking)
      BY <2>1, <3>1 DEF Notified, RowsStay
    <3> QED
      BY <3>1, <3>2 DEF SuccessOnRecord, EventId, RowsStay
  <2> QED
    BY <2>2, <2>3
<1>3. OneRow'
  <2> SUFFICES ASSUME NEW b \in Ids, NEW p \in InvoiceRows(b)', NEW q \in InvoiceRows(b)',
                      settledBy[p] # <<>>, settledBy[q] # <<>>
               PROVE  p = q
    BY <1>1 DEF OneRow
  <2>1. p \in PayIds /\ q \in PayIds /\ HasRow(p) /\ HasRow(q)
    BY DEF InvoiceRows, SettledInv, Accounted
  <2>2. p \in InvoiceRows(b) /\ q \in InvoiceRows(b)
    BY <2>1 DEF InvoiceRows, RowsStay
  <2> QED
    BY <2>2 DEF SettledInv, OneRow
<1> QED
  BY <1>2, <1>3 DEF SettledInv

\* A payment that is not paid is settled by a report that did not settle it before; if
\* it is one of an invoice, none of the invoice was settled.
LEMMA ReportSettled ==
  ASSUME TypeOK, SettledInv, NEW p \in PayIds, NEW report \in Reports, SettledBy(p, report),
         RowsStay, notes' = notes, ~Paid(p), Paid(p)',
         \A q \in PayIds : q # p => (Paid(q)' <=> Paid(q)),
         report \in seen' \cup {<<p, "charge">>},
         \A i \in 1 .. Len(settledBy[p]) : settledBy[p][i] # report,
         payments'[p].method = "redirect" =>
            /\ SuccessOnRecord(payments[p].booking)'
            /\ settledBy[p] = <<>>
            /\ \A q \in InvoiceRows(payments'[p].booking) : settledBy[q] = <<>>
  PROVE  SettledInv'
<1>0. settledBy[p] \in Seq(Reports) /\ refunds[p] \in Nat /\ refunds' = refunds
  BY DEF TypeOK, SettledBy
<1>1. /\ settledBy'[p] = Append(settledBy[p], report)
      /\ \A q \in PayIds : q # p => settledBy'[q] = settledBy[q]
  BY DEF SettledBy, TypeOK
<1>2. /\ Len(settledBy'[p]) = Len(settledBy[p]) + 1
      /\ \A i \in 1 .. Len(settledBy[p]) : settledBy'[p][i] = settledBy[p][i]
      /\ settledBy'[p][Len(settledBy[p]) + 1] = report
      /\ Len(settledBy[p]) \in Nat
  BY <1>0, <1>1
<1>3. Accounted(p)'
  <2>1. Accounted(p)
    BY DEF SettledInv
  <2>2. Len(settledBy'[p]) = refunds'[p] + (IF Paid(p)' THEN 1 ELSE 0)
    BY <1>0, <1>2, <2>1 DEF Accounted
  <2>3. \A i \in 1 .. Len(settledBy'[p]) :
           \/ i \in 1 .. Len(settledBy[p]) /\ settledBy'[p][i] = settledBy[p][i]
           \/ i = Len(settledBy[p]) + 1 /\ settledBy'[p][i] = report
    BY <1>2
  <2>4. \A i, j \in 1 .. Len(settledBy'[p]) : settledBy'[p][i] = settledBy'[p][j] => i = j
    BY <2>1, <2>3 DEF Accounted
  <2>5. \A i \in 1 .. Len(settledBy'[p]) : settledBy'[p][i] \in seen' \cup {<<p, "charge">>}
    BY <2>1, <2>3 DEF Accounted, RowsStay
  <2>6. HasRow(p)'
    BY DEF Paid
  <2> QED
    BY <2>2, <2>4, <2>5, <2>6 DEF Accounted
<1>4. Notified(p)'
  <2>1. payments'[p].method = "redirect" => Len(settledBy'[p]) = 1
    BY <1>2
  <2> QED
    BY <2>1 DEF Notified, SuccessOnRecord, EventId
<1>5. ASSUME NEW q \in PayIds, q # p
      PROVE  Accounted(q)' /\ Notified(q)'
  <2>1. Accounted(q) /\ Notified(q) /\ settledBy'[q] = settledBy[q]
    BY <1>1, <1>5 DEF SettledInv
  <2>2. Accounted(q)'
    BY <1>0, <1>5, <2>1 DEF Accounted, RowsStay
  <2>3. Notified(q)'
    <3> SUFFICES ASSUME settledBy[q] # <<>>, HasRow(q)', payments'[q].method = "redirect"
                 PROVE  Len(settledBy[q]) = 1 /\ SuccessOnRecord(payments[q].booking)'
      BY <2>1 DEF Notified, SuccessOnRecord, EventId
    <3>1. HasRow(q)
      BY <2>1 DEF Accounted
    <3>2. Len(settledBy[q]) = 1 /\ SuccessOnRecord(payments[q].booking)
      BY <2>1, <3>1 DEF Notified, RowsStay
    <3> QED
      BY <3>1, <3>2 DEF SuccessOnRecord, EventId, RowsStay
  <2> QED
    BY <2>2, <2>3
<1>6. OneRow'
  <2> SUFFICES ASSUME NEW b \in Ids, NEW q \in InvoiceRows(b)', NEW r \in InvoiceRows(b)',
                      settledBy'[q] # <<>>, settledBy'[r] # <<>>
               PROVE  q = r
    BY DEF OneRow
  <2>1. /\ q \in PayIds /\ HasRow(q)' /\ payments'[q].method = "redirect"
        /\ r \in PayIds /\ HasRow(r)' /\ payments'[r].method = "redirect"
        /\ payments'[q].booking = b /\ payments'[r].booking = b
    BY DEF InvoiceRows
  <2>2. \A s \in {q, r} : s # p => s \in InvoiceRows(b) /\ settledBy[s] # <<>>
    <3> SUFFICES ASSUME NEW s \in {q, r}, s # p
                 PROVE  s \in InvoiceRows(b) /\ settledBy[s] # <<>>
      OBVIOUS
    <3>1. s \in PayIds /\ settledBy[s] # <<>> /\ settledBy[s] = settledBy'[s]
      BY <1>1, <2>1
    <3>2. HasRow(s)
      BY <3>1 DEF SettledInv, Accounted
    <3> QED
      BY <2>1, <3>1, <3>2 DEF InvoiceRows, RowsStay
  <2>3. CASE q # p /\ r # p
    BY <2>2, <2>3 DEF SettledInv, OneRow
  <2>4. CASE q = p \/ r = p
    <3>1. \A s \in InvoiceRows(b) : settledBy[s] = <<>>
      BY <2>1, <2>4
    <3> QED
      BY <2>2, <2>4, <3>1
  <2> QED
    BY <2>3, <2>4
<1>7. OneSuccess'
  BY DEF SettledInv, OneSuccess
<1> QED
  BY <1>3, <1>4, <1>5, <1>6, <1>7 DEF SettledInv

\* A refund of a paid payment.
LEMMA RefundSettled ==
  ASSUME TypeOK, SettledInv, NEW p \in PayIds, Refunded(p), RowsStay, notes' = notes,
         Paid(p), ~Paid(p)', \A q \in PayIds : q # p => (Paid(q)' <=> Paid(q))
  PROVE  SettledInv'
<1>0. refunds[p] \in Nat /\ settledBy' = settledBy
  BY DEF TypeOK, Refunded
<1>1. /\ refunds'[p] = refunds[p] + 1
      /\ \A q \in PayIds : q # p => refunds'[q] = refunds[q]
  BY DEF Refunded, TypeOK
<1>2. ASSUME NEW q \in PayIds
      PROVE  Accounted(q)' /\ Notified(q)'
  <2>1. Accounted(q) /\ Notified(q)
    BY DEF SettledInv
  <2>2. Len(settledBy[q]) = refunds'[q] + (IF Paid(q)' THEN 1 ELSE 0)
    <3>1. CASE q = p
      BY <1>0, <1>1, <2>1, <3>1 DEF Accounted
    <3>2. CASE q # p
      BY <1>1, <2>1, <3>2 DEF Accounted
    <3> QED
      BY <3>1, <3>2
  <2>3. Accounted(q)'
    BY <1>0, <2>1, <2>2 DEF Accounted, RowsStay
  <2>4. Notified(q)'
    <3> SUFFICES ASSUME settledBy[q] # <<>>, HasRow(q)', payments'[q].method = "redirect"
                 PROVE  Len(settledBy[q]) = 1 /\ SuccessOnRecord(payments[q].booking)'
      BY <1>0 DEF Notified, SuccessOnRecord, EventId
    <3>1. HasRow(q)
      BY <2>1 DEF Accounted
    <3>2. Len(settledBy[q]) = 1 /\ SuccessOnRecord(payments[q].booking)
      BY <2>1, <3>1 DEF Notified, RowsStay
    <3> QED
      BY <3>1, <3>2 DEF SuccessOnRecord, EventId, RowsStay
  <2> QED
    BY <2>3, <2>4
<1>3. OneRow'
  <2> SUFFICES ASSUME NEW b \in Ids, NEW q \in InvoiceRows(b)', NEW r \in InvoiceRows(b)',
                      settledBy[q] # <<>>, settledBy[r] # <<>>
               PROVE  q = r
    BY <1>0 DEF OneRow
  <2>1. q \in PayIds /\ r \in PayIds /\ HasRow(q) /\ HasRow(r)
    BY DEF InvoiceRows, SettledInv, Accounted
  <2>2. q \in InvoiceRows(b) /\ r \in InvoiceRows(b)
    BY <2>1 DEF InvoiceRows, RowsStay
  <2> QED
    BY <2>2 DEF SettledInv, OneRow
<1>4. OneSuccess'
  BY DEF SettledInv, OneSuccess
<1> QED
  BY <1>2, <1>3, <1>4 DEF SettledInv

\* The answer to a charge is the first report of its payment.
LEMMA FinishPaymentSettled ==
  ASSUME IInv, SettledInv, NEW b \in Ids, FinishPayment(b)
  PROVE  SettledInv'
<1>0. TypeOK /\ Calls
  BY DEF IInv
<1>p. PICK p \in PayIds : p = busy[b].payment
  BY <1>0, CallType DEF FinishPayment
<1> DEFINE paid == busy[b].method = "card" /\ charge[p] = "successful"
           row == [booking |-> b, amount |-> price[b], method |-> busy[b].method,
                   status |-> IF paid THEN "paid" ELSE "pending",
                   paidAt |-> IF paid THEN clock ELSE 0]
<1>1. /\ payments' = [payments EXCEPT ![p] = row]
      /\ IF paid THEN SettledBy(p, <<p, "charge">>) ELSE UNCHANGED moneyVars
      /\ UNCHANGED <<notes, seen>>
  BY <1>p DEF FinishPayment, webhookVars
<1>2. /\ ~HasRow(p)
      /\ row \in PaymentRow
  BY <1>0, <1>p, CallType
  DEF FinishPayment, Calls, PaymentRow, PaymentStatuses, TypeOK, TableTypeOK
<1>3. /\ payments'[p] = row /\ HasRow(p)'
      /\ \A q \in PayIds : q # p => payments'[q] = payments[q]
  BY <1>0, <1>1, <1>2, RowIsRow DEF TypeOK, HasRow
<1>4. RowsStay
  BY <1>1, <1>2, <1>3 DEF RowsStay, HasRow
<1>5. \A q \in PayIds : q # p => (Paid(q)' <=> Paid(q))
  BY <1>3 DEF Paid, HasRow
<1>6. settledBy[p] = <<>> /\ ~Paid(p)
  BY <1>2 DEF SettledInv, Accounted, Paid
<1>7. CASE paid
  <2>1. Paid(p)' /\ payments'[p].method # "redirect"
    BY <1>3, <1>7 DEF Paid
  <2>2. <<p, "charge">> \in Reports
    BY DEF Reports
  <2>3. \A i \in 1 .. Len(settledBy[p]) : settledBy[p][i] # <<p, "charge">>
    BY <1>6
  <2> HIDE DEF paid, row
  <2> QED
    BY <1>0, <1>1, <1>4, <1>5, <1>6, <1>7, <2>1, <2>2, <2>3, ReportSettled
<1>8. CASE ~paid
  <2>1. ~Paid(p)'
    BY <1>3, <1>8 DEF Paid
  <2>2. \A q \in PayIds : Paid(q)' <=> Paid(q)
    BY <1>5, <1>6, <2>1
  <2>3. OneSuccess'
    BY <1>1 DEF SettledInv, OneSuccess
  <2> HIDE DEF row
  <2> QED
    BY <1>0, <1>1, <1>4, <1>8, <2>2, <2>3, QuietSettled
<1> QED
  BY <1>7, <1>8

LEMMA FinishRefundSettled ==
  ASSUME IInv, SettledInv, NEW b \in Ids, FinishRefund(b)
  PROVE  SettledInv'
<1>0. TypeOK /\ Calls
  BY DEF IInv
<1>p. PICK p \in PayIds : p = busy[b].payment
  BY <1>0, CallType DEF FinishRefund
<1>1. /\ Paid(p) /\ SetPayment(p, "refunded") /\ Refunded(p)
      /\ UNCHANGED <<notes, seen>>
  BY <1>0, <1>p DEF FinishRefund, webhookVars, Calls, PaidRows, Paid
<1>2. /\ payments'[p].status = "refunded"
      /\ \A q \in PayIds : q # p => payments'[q] = payments[q]
      /\ \A q \in PayIds : HasRow(q)' <=> HasRow(q)
      /\ payments'[p].booking = payments[p].booking
      /\ payments'[p].method = payments[p].method
  BY <1>0, <1>1, SetPaymentType DEF PaymentStatuses, Paid
<1>3. RowsStay
  BY <1>1, <1>2 DEF RowsStay
<1>4. ~Paid(p)' /\ \A q \in PayIds : q # p => (Paid(q)' <=> Paid(q))
  BY <1>2 DEF Paid
<1> QED
  BY <1>0, <1>1, <1>3, <1>4, RefundSettled

\* What a gateway reports settles a payment once: the event was on no record.
LEMMA ConfirmSettled ==
  ASSUME IInv, SettledInv, NEW p \in PayIds, HasRow(p), payments[p].status # "paid",
         NEW report \in Reports, Settle(p), SettledBy(p, report), notes' = notes,
         report \notin seen, seen' = seen \cup {report},
         report # <<p, "charge">> \/ payments[p].method = "redirect",
         payments[p].method = "redirect" =>
           \E n \in notes : n.invoice = payments[p].booking /\ n.success /\ EventId(n) = report
  PROVE  SettledInv'
<1>0. TypeOK
  BY DEF IInv
<1>1. /\ payments'[p].status = "paid"
      /\ \A q \in PayIds : q # p => payments'[q] = payments[q]
      /\ \A q \in PayIds : HasRow(q)' <=> HasRow(q)
      /\ payments'[p].booking = payments[p].booking
      /\ payments'[p].method = payments[p].method
  BY <1>0, SettleType DEF Settle
<1>2. RowsStay
  BY <1>1 DEF RowsStay
<1>3. /\ Paid(p)' /\ ~Paid(p)
      /\ \A q \in PayIds : q # p => (Paid(q)' <=> Paid(q))
  BY <1>1 DEF Paid
<1>4. ASSUME payments[p].method = "redirect"
      PROVE  /\ SuccessOnRecord(payments[p].booking)'
             /\ settledBy[p] = <<>>
             /\ \A q \in InvoiceRows(payments[p].booking) : settledBy[q] = <<>>
  <2>1. PICK n \in notes : /\ n.invoice = payments[p].booking /\ n.success
                           /\ EventId(n) = report
    BY <1>4
  <2>2. SuccessOnRecord(payments[p].booking)'
    BY <1>1, <2>1 DEF SuccessOnRecord, EventId
  <2>3. ~SuccessOnRecord(payments[p].booking)
    BY <2>1 DEF SuccessOnRecord, SettledInv, OneSuccess
  <2>4. \A q \in InvoiceRows(payments[p].booking) : settledBy[q] = <<>>
    BY <2>3 DEF InvoiceRows, SettledInv, Notified
  <2>5. settledBy[p] = <<>>
    BY <1>4, <2>3 DEF SettledInv, Notified
  <2> QED
    BY <2>2, <2>4, <2>5
<1>5. \A i \in 1 .. Len(settledBy[p]) : settledBy[p][i] # report
  <2>1. CASE report # <<p, "charge">>
    BY <2>1 DEF SettledInv, Accounted
  <2>2. CASE payments[p].method = "redirect"
    BY <1>4, <2>2
  <2> QED
    BY <2>1, <2>2
<1> QED
  BY <1>0, <1>1, <1>2, <1>3, <1>4, <1>5, ReportSettled

\* 2C2P takes the money of an invoice once.
LEMMA InvoiceSettled ==
  ASSUME IInv, SettledInv, NEW b \in Ids, NEW tid \in Tids, CustomerPaysInvoice(b, tid)
  PROVE  SettledInv'
<1>0. TypeOK
  BY DEF IInv
<1>p. PICK success \in BOOLEAN :
         notes' = notes \cup {[invoice |-> b, success |-> success, tid |-> tid]}
  BY DEF CustomerPaysInvoice
<1>1. /\ UNCHANGED <<payments, seen, moneyVars>> /\ notes \subseteq notes'
      /\ \A n \in notes : n.success => n.invoice # b
      /\ \A n \in notes' : n \in notes \/ n.invoice = b
      /\ \A n, m \in notes' : n \notin notes /\ m \notin notes => n = m
  BY <1>p DEF CustomerPaysInvoice
<1>2. RowsStay /\ \A q \in PayIds : Paid(q)' <=> Paid(q)
  BY <1>1 DEF RowsStay, HasRow, Paid
<1>3. OneSuccess'
  BY <1>1 DEF SettledInv, OneSuccess
<1> QED
  BY <1>0, <1>1, <1>2, <1>3, QuietSettled

\* Omise's reports are events of its own, not answers; and not of an invoice.
LEMMA ConfirmFromOmiseSettled ==
  ASSUME IInv, SettledInv, NEW d \in fetched, ConfirmFromOmise(d)
  PROVE  SettledInv'
<1>0. TypeOK /\ FetchedTrue /\ RowsKnown
  BY DEF IInv
<1>p. PICK p \in PayIds : p = d.event[1]
  BY <1>0 DEF TypeOK, OmiseEvents
<1>1. d.event \in OmiseEvents /\ d.event \in Reports
  BY <1>0 DEF TypeOK, Reports
<1>2. d.event # <<p, "charge">>
  <2>1. d.event[2] \in EventKinds
    BY <1>1 DEF OmiseEvents
  <2>2. "charge" \notin EventKinds
    BY PaymentsAssumption
  <2> QED
    BY <2>1, <2>2
<1>3. /\ HasRow(p) /\ payments[p].status # "paid" /\ Settle(p) /\ SettledBy(p, d.event)
      /\ notes' = notes /\ d.event \notin seen /\ seen' = seen \cup {d.event}
      /\ d.status = "successful"
  BY <1>p DEF ConfirmFromOmise, NewForPayment
<1>4. payments[p].method # "redirect"
  BY <1>0, <1>3, <1>p DEF FetchedTrue, RowsKnown
<1> QED
  BY <1>1, <1>2, <1>3, <1>4, ConfirmSettled

LEMMA ConfirmFrom2c2pSettled ==
  ASSUME IInv, SettledInv, NEW n \in notes, ConfirmFrom2c2p(n)
  PROVE  SettledInv'
<1>0. TypeOK
  BY DEF IInv
<1>1. EventId(n) \in Tids \cup Ids
  BY <1>0 DEF TypeOK, Notes, EventId
<1>2. PICK p \in InvoiceRows(n.invoice) :
         payments[p].status # "paid" /\ Settle(p) /\ SettledBy(p, EventId(n))
  BY DEF ConfirmFrom2c2p
<1>3. /\ p \in PayIds /\ HasRow(p) /\ payments[p].booking = n.invoice
      /\ n.success /\ notes' = notes
      /\ EventId(n) \notin seen /\ seen' = seen \cup {EventId(n)}
  BY <1>2 DEF ConfirmFrom2c2p, InvoiceRows
<1>4. EventId(n) \in Reports
  BY <1>1 DEF Reports
<1>5. payments[p].method = "redirect"
  BY <1>2 DEF InvoiceRows
<1> QED
  BY <1>2, <1>3, <1>4, <1>5, ConfirmSettled

\* Failures, sweeps and everything else leave what is paid paid.
LEMMA OtherSettled ==
  ASSUME IInv, SettledInv, UNCHANGED <<notes, moneyVars>>, seen \subseteq seen',
         \/ UNCHANGED payments
         \/ \E p \in PayIds : /\ HasRow(p) /\ payments[p].status # "paid"
                               /\ SetPayment(p, "failed")
         \/ \E t : ReleaseExpiredHolds(t)
  PROVE  SettledInv'
<1>0. TypeOK
  BY DEF IInv
<1>1. OneSuccess'
  BY DEF SettledInv, OneSuccess
<1>2. CASE UNCHANGED payments
  BY <1>0, <1>1, <1>2, QuietSettled DEF RowsStay, HasRow, Paid
<1>3. ASSUME NEW p \in PayIds, HasRow(p), payments[p].status # "paid", SetPayment(p, "failed")
      PROVE  SettledInv'
  <2>1. /\ payments'[p].status = "failed"
        /\ \A q \in PayIds : q # p => payments'[q] = payments[q]
        /\ \A q \in PayIds : HasRow(q)' <=> HasRow(q)
        /\ payments'[p].booking = payments[p].booking
        /\ payments'[p].method = payments[p].method
    BY <1>0, <1>3, SetPaymentType DEF PaymentStatuses
  <2>2. RowsStay /\ \A q \in PayIds : Paid(q)' <=> Paid(q)
    BY <1>3, <2>1 DEF RowsStay, Paid
  <2> QED
    BY <1>0, <1>1, <2>2, QuietSettled
<1>4. ASSUME NEW t, ReleaseExpiredHolds(t)
      PROVE  SettledInv'
  <2>1. \A p \in PayIds :
           /\ HasRow(p)' <=> HasRow(p)
           /\ HasRow(p) => /\ payments'[p].booking = payments[p].booking
                           /\ payments'[p].method = payments[p].method
           /\ Paid(p) => payments'[p] = payments[p]
           /\ payments'[p] = payments[p] \/ payments'[p].status = "failed"
    <3> SUFFICES ASSUME NEW p \in PayIds
                 PROVE  /\ HasRow(p)' <=> HasRow(p)
                        /\ HasRow(p) => /\ payments'[p].booking = payments[p].booking
                                        /\ payments'[p].method = payments[p].method
                        /\ Paid(p) => payments'[p] = payments[p]
                        /\ payments'[p] = payments[p] \/ payments'[p].status = "failed"
      OBVIOUS
    <3>1. \/ payments'[p] = payments[p]
          \/ /\ HasRow(p) /\ payments[p].status = "pending"
             /\ payments'[p] = [payments[p] EXCEPT !.status = "failed"]
      BY <1>4 DEF ReleaseExpiredHolds
    <3>2. CASE payments'[p] = payments[p]
      BY <3>2 DEF HasRow
    <3>3. CASE /\ HasRow(p) /\ payments[p].status = "pending"
               /\ payments'[p] = [payments[p] EXCEPT !.status = "failed"]
      <4>1. payments[p] \in PaymentRow
        BY <1>0, <3>3, RowType
      <4>2. payments'[p] \in PaymentRow /\ payments'[p].status = "failed"
            /\ payments'[p].booking = payments[p].booking
            /\ payments'[p].method = payments[p].method
        BY <3>3, <4>1 DEF PaymentRow, PaymentStatuses
      <4> QED
        BY <3>3, <4>2, RowIsRow DEF HasRow, Paid
    <3> QED
      BY <3>1, <3>2, <3>3
  <2>2. RowsStay /\ \A q \in PayIds : Paid(q)' <=> Paid(q)
    BY <2>1 DEF RowsStay, Paid
  <2> QED
    BY <1>0, <1>1, <2>2, QuietSettled
<1> QED
  BY <1>2, <1>3, <1>4

LEMMA NextSettled == IInv /\ SettledInv /\ [Next]_vars => SettledInv'
<1> SUFFICES ASSUME IInv, SettledInv, [Next]_vars
             PROVE  SettledInv'
  OBVIOUS
<1>0. TypeOK
  BY DEF IInv
<1>1. ASSUME NEW d \in fetched, FailFromOmise(d)
      PROVE  SettledInv'
  <2>1. PICK p \in PayIds : p = d.event[1]
    BY <1>0 DEF TypeOK, OmiseEvents
  <2>2. HasRow(p) /\ payments[p].status # "paid" /\ SetPayment(p, "failed")
    BY <1>1, <2>1 DEF FailFromOmise, NewForPayment
  <2> QED
    BY <1>1, <2>2, OtherSettled DEF FailFromOmise
<1>2. ASSUME NEW n \in notes, FailFrom2c2p(n)
      PROVE  SettledInv'
  <2>1. \E p \in PayIds : HasRow(p) /\ payments[p].status # "paid" /\ SetPayment(p, "failed")
    BY <1>2 DEF FailFrom2c2p, InvoiceRows
  <2> QED
    BY <1>2, <2>1, OtherSettled DEF FailFrom2c2p
<1>3. CASE Customer
  BY <1>3, InvoiceSettled, OtherSettled
  DEF Customer, CreateBooking, Redeem, StartPayment, CustomerPays, CancelWithoutRefund,
      StartRefund, webhookVars
<1>4. CASE GatewayAnswers
  BY <1>4, FinishPaymentSettled, FinishRefundSettled, OtherSettled
  DEF GatewayAnswers, AbortPayment, AbortRefund, webhookVars
<1>5. CASE Omise
  BY <1>1, <1>5, ConfirmFromOmiseSettled, OtherSettled
  DEF Omise, Fetch, IgnoreDelivery, NotSettledYet, DropDelivery
<1>6. CASE TwoCTwoP
  BY <1>2, <1>6, ConfirmFrom2c2pSettled, OtherSettled DEF TwoCTwoP, IgnoreNote
<1>7. CASE \E t \in 0 .. clock : ReleaseExpiredHolds(t)
  BY <1>7, OtherSettled DEF ReleaseExpiredHolds, webhookVars
<1>8. CASE TimePasses \/ UNCHANGED vars
  BY <1>8, OtherSettled DEF TimePasses, vars, webhookVars
<1> QED
  BY <1>3, <1>4, <1>5, <1>6, <1>7, <1>8 DEF Next

LEMMA InitSettled == Init => SettledInv
<1> SUFFICES ASSUME Init
             PROVE  SettledInv
  OBVIOUS
<1>1. ASSUME NEW p \in PayIds
      PROVE  ~HasRow(p) /\ settledBy[p] = <<>> /\ refunds[p] = 0
  BY DEF Init, HasRow
<1>2. OneSuccess /\ OneRow
  BY <1>1 DEF Init, OneSuccess, OneRow, InvoiceRows
<1>3. \A p \in PayIds : Accounted(p) /\ Notified(p)
  BY <1>1 DEF Accounted, Notified, Paid
<1> QED
  BY <1>2, <1>3 DEF SettledInv

\* A success is counted once, however often and in whatever order it is reported.
THEOREM SettlesOnce == Spec => []SettledOnce
<1>1. IInv /\ SettledInv => SettledOnce
  BY SettledInvSuffices DEF IInv
<1> QED
  BY <1>1, NextSettled, InitSettled, InitEstablishesIInv, NextKeepsIInv, PTL DEF Spec

\* A confirmed booking has a paid payment that was not refunded, or one of Omise that a
\* second report settled again.
THEOREM ConfirmedHasPayment == Spec => []ConfirmedIsPaid
<1>1. IInv /\ SettledInv => ConfirmedIsPaid
  <2> SUFFICES ASSUME IInv, SettledInv,
                      NEW b \in Ids, Exists(b), bookings[b].status = "confirmed"
               PROVE  \E p \in PaidRows(b) : refunds[p] = 0 \/ Resettled(p)
    BY DEF ConfirmedIsPaid
  <2>0. TypeOK
    BY DEF IInv
  <2>1. PICK p \in PaidRows(b) : TRUE
    BY DEF IInv, Money, ConfirmedWithPaid
  <2>2. p \in PayIds /\ HasRow(p) /\ Paid(p) /\ payments[p].booking = b /\ Charged(p)
    BY <2>1 DEF PaidRows, Paid, IInv, Money, PaidMeansCharged
  <2>3. CASE refunds[p] = 0
    BY <2>3
  <2>4. CASE refunds[p] # 0
    <3>1. refunds[p] \in Nat /\ settledBy[p] \in Seq(Reports)
      BY <2>0, <2>2 DEF TypeOK
    <3>2. Len(settledBy[p]) = refunds[p] + 1
      BY <2>2 DEF SettledInv, Accounted
    <3>3. Len(settledBy[p]) > 1
      BY <2>4, <3>1, <3>2
    <3>4. payments[p].method # "redirect"
      <4>1. SUFFICES ASSUME payments[p].method = "redirect"
                     PROVE  FALSE
        OBVIOUS
      <4>2. settledBy[p] # <<>>
        BY <2>4, <3>1, <3>2
      <4>3. Len(settledBy[p]) = 1
        BY <2>2, <4>1, <4>2 DEF SettledInv, Notified
      <4>4. refunds[p] + 1 = 1
        BY <3>2, <4>3
      <4> QED
        BY <2>4, <3>1, <4>4
    <3>5. payments[p].method # "transfer"
      BY <2>2 DEF Charged, Gateway
    <3>6. payments[p].method \in {"card", "qr"}
      BY <2>0, <2>2, <3>4, <3>5, RowType DEF AllMethods
    <3> QED
      BY <3>3, <3>6 DEF Resettled, Gateway
  <2> QED
    BY <2>3, <2>4
<1> QED
  BY <1>1, NextSettled, InitSettled, InitEstablishesIInv, NextKeepsIInv, PTL DEF Spec

-----------------------------------------------------------------------------
(* What a payment asks for.                                                *)

APrice(p) ==
  HasRow(p) => payments[p].amount \in {price[payments[p].booking],
                                       price[payments[p].booking] + redeemed[payments[p].booking]}

SameAmount(p) ==
  /\ HasRow(p)
  /\ payments'[p].booking = payments[p].booking
  /\ payments'[p].amount = payments[p].amount

\* A change of status, or of status and time, leaves a row's amount.
LEMMA AmountKept ==
  ASSUME TypeOK, NEW q \in PayIds, HasRow(q), NEW st \in PaymentStatuses,
         Settle(q) \/ SetPayment(q, st),
         NEW p \in PayIds, HasRow(p)'
  PROVE  SameAmount(p)
<1>1. PICK at \in Nat :
        payments' = [payments EXCEPT ![q] = [payments[q] EXCEPT !.status = payments'[q].status,
                                                               !.paidAt = at]]
  <2>1. payments[q] \in PaymentRow
    BY RowType
  <2>2. CASE Settle(q)
    <3>1. payments' = [payments EXCEPT ![q] = [payments[q] EXCEPT !.status = "paid",
                                                                 !.paidAt = clock]]
      BY <2>2 DEF Settle
    <3> QED
      BY <2>1, <3>1 DEF TypeOK, TableTypeOK, PaymentRow
  <2>3. CASE SetPayment(q, st)
    <3>1. payments' = [payments EXCEPT ![q] = [payments[q] EXCEPT !.status = st]]
      BY <2>3 DEF SetPayment
    <3>2. [payments[q] EXCEPT !.status = st]
             = [payments[q] EXCEPT !.status = st, !.paidAt = payments[q].paidAt]
      BY <2>1 DEF PaymentRow
    <3> QED
      BY <2>1, <3>1, <3>2 DEF TypeOK, PaymentRow
  <2> QED
    BY <2>2, <2>3
<1>2. payments[q] \in PaymentRow
  BY RowType
<1> QED
  BY <1>1, <1>2 DEF SameAmount, HasRow, TypeOK, PaymentRow

\* Only the charge that makes a payment sets its amount: to the price of that moment.
LEMMA AmountIsSetOnce ==
  ASSUME IInv, Next, NEW p \in PayIds, HasRow(p)'
  PROVE  \/ SameAmount(p)
         \/ /\ payments'[p].amount = price[payments'[p].booking]
            /\ UNCHANGED <<price, redeemed>>
<1>0. TypeOK /\ TableTypeOK /\ Calls
  BY DEF IInv, TypeOK
<1>1. CASE UNCHANGED payments
  BY <1>1 DEF SameAmount, HasRow
<1>2. ASSUME NEW b \in Ids, FinishPayment(b)
      PROVE  \/ SameAmount(p)
             \/ /\ payments'[p].amount = price[payments'[p].booking]
                /\ UNCHANGED <<price, redeemed>>
  <2>1. PICK q \in PayIds : q = busy[b].payment
    BY <1>0, <1>2, CallType DEF FinishPayment
  <2>2. UNCHANGED <<price, redeemed>>
    BY <1>2 DEF FinishPayment, Earn, pointVars
  <2>3. payments'[q].booking = b /\ payments'[q].amount = price[b]
    BY <1>0, <1>2, <2>1 DEF FinishPayment, TypeOK
  <2>4. \A r \in PayIds : r # q => payments'[r] = payments[r]
    BY <1>0, <1>2, <2>1 DEF FinishPayment, TypeOK
  <2> QED
    BY <2>2, <2>3, <2>4 DEF SameAmount, HasRow
<1>3. ASSUME NEW b \in Ids, FinishRefund(b)
      PROVE  SameAmount(p)
  <2>1. PICK q \in PayIds : q = busy[b].payment
    BY <1>0, <1>3, CallType DEF FinishRefund
  <2>2. HasRow(q) /\ SetPayment(q, "refunded")
    BY <1>0, <1>3, <2>1 DEF FinishRefund, Calls, PaidRows
  <2> QED
    BY <1>0, <2>2, AmountKept DEF PaymentStatuses
<1>4. ASSUME NEW d \in fetched, ConfirmFromOmise(d) \/ FailFromOmise(d)
      PROVE  SameAmount(p)
  <2>1. PICK q \in PayIds : q = d.event[1]
    BY <1>0 DEF TypeOK, OmiseEvents
  <2>2. HasRow(q) /\ (Settle(q) \/ SetPayment(q, "failed"))
    BY <1>4, <2>1 DEF ConfirmFromOmise, FailFromOmise, NewForPayment
  <2> QED
    BY <1>0, <2>2, AmountKept DEF PaymentStatuses
<1>5. ASSUME NEW n \in notes, ConfirmFrom2c2p(n) \/ FailFrom2c2p(n)
      PROVE  SameAmount(p)
  <2>1. PICK q \in InvoiceRows(n.invoice) : Settle(q) \/ SetPayment(q, "failed")
    BY <1>5 DEF ConfirmFrom2c2p, FailFrom2c2p
  <2>2. q \in PayIds /\ HasRow(q)
    BY <2>1 DEF InvoiceRows
  <2> QED
    BY <1>0, <2>1, <2>2, AmountKept DEF PaymentStatuses
<1>6. ASSUME NEW t, ReleaseExpiredHolds(t)
      PROVE  SameAmount(p)
  <2>1. payments'[p] \in {payments[p], [payments[p] EXCEPT !.status = "failed"]}
        /\ (HasRow(p) \/ payments'[p] = payments[p])
    BY <1>6 DEF ReleaseExpiredHolds
  <2>2. HasRow(p)
    BY <2>1 DEF HasRow
  <2> QED
    BY <1>0, <2>1, <2>2, RowType DEF SameAmount, PaymentRow
<1>7. CASE Customer
  BY <1>1, <1>7 DEF Customer, CreateBooking, Redeem, StartPayment, CustomerPays,
                    CustomerPaysInvoice, CancelWithoutRefund, StartRefund
<1>8. CASE GatewayAnswers
  BY <1>1, <1>2, <1>3, <1>8 DEF GatewayAnswers, AbortPayment, AbortRefund
<1>9. CASE Omise
  BY <1>1, <1>4, <1>9 DEF Omise, Fetch, IgnoreDelivery, NotSettledYet, DropDelivery
<1>10. CASE TwoCTwoP
  BY <1>1, <1>5, <1>10 DEF TwoCTwoP, IgnoreNote
<1>11. CASE TimePasses
  BY <1>1, <1>11 DEF TimePasses
<1> QED
  BY <1>6, <1>7, <1>8, <1>9, <1>10, <1>11 DEF Next

\* The price of a booking changes once: it is lowered by the points redeemed.
LEMMA PriceChangesOnce ==
  ASSUME IInv, Next, NEW b \in Ids, Exists(b)
  PROVE  \/ price'[b] = price[b] /\ redeemed'[b] = redeemed[b]
         \/ redeemed[b] = 0 /\ price'[b] + redeemed'[b] = price[b]
<1>0. TypeOK
  BY DEF IInv
<1>1. CASE UNCHANGED <<price, redeemed>>
  BY <1>1
<1>2. ASSUME NEW a \in Ids, NEW rt \in RoomTypes, NEW g \in Guests, NEW in \in Days,
             NEW out \in Days, CreateBooking(a, rt, g, in, out)
      PROVE  price'[b] = price[b] /\ redeemed'[b] = redeemed[b]
  BY <1>0, <1>2 DEF CreateBooking, TypeOK, pointVars
<1>3. ASSUME NEW a \in Ids, NEW points \in PointsAsked, Redeem(a, points)
      PROVE  \/ price'[b] = price[b] /\ redeemed'[b] = redeemed[b]
             \/ redeemed[b] = 0 /\ price'[b] + redeemed'[b] = price[b]
  <2>1. points \in Nat /\ price[a] \in Nat /\ redeemed[a] = 0
    BY <1>0, <1>3, PaymentsAssumption DEF Redeem, TypeOK
  <2>2. /\ price'[a] = price[a] - points /\ redeemed'[a] = points
        /\ \A i \in Ids : i # a => price'[i] = price[i] /\ redeemed'[i] = redeemed[i]
    BY <1>0, <1>3 DEF Redeem, TypeOK
  <2> QED
    BY <2>1, <2>2
<1>4. CASE Customer
  BY <1>1, <1>2, <1>3, <1>4 DEF Customer, StartPayment, CustomerPays,
         CustomerPaysInvoice, CancelWithoutRefund, StartRefund, pointVars
<1>5. CASE GatewayAnswers
  BY <1>1, <1>5 DEF GatewayAnswers, FinishPayment, AbortPayment, FinishRefund, AbortRefund,
                    Earn, ClawBack, pointVars
<1>6. CASE Omise
  BY <1>1, <1>6 DEF Omise, Fetch, IgnoreDelivery, ConfirmFromOmise, FailFromOmise,
                    NotSettledYet, DropDelivery, Settle, Earn, pointVars
<1>7. CASE TwoCTwoP
  BY <1>1, <1>7 DEF TwoCTwoP, IgnoreNote, ConfirmFrom2c2p, FailFrom2c2p, Settle, Earn,
                    pointVars
<1>8. CASE \E t \in 0 .. clock : ReleaseExpiredHolds(t)
  BY <1>1, <1>8 DEF ReleaseExpiredHolds, pointVars
<1>9. CASE TimePasses
  BY <1>1, <1>9 DEF TimePasses, pointVars
<1> QED
  BY <1>4, <1>5, <1>6, <1>7, <1>8, <1>9 DEF Next

\* A payment asks for the price of its booking before or after the one redemption,
\* whatever happens between the gateway call and its settlement.
THEOREM ChargeIsAPrice == Spec => []ChargedAPrice
<1>1. Init => ChargedAPrice
  BY DEF Init, ChargedAPrice, HasRow
<1>2. IInv /\ ChargedAPrice /\ [Next]_vars => ChargedAPrice'
  <2> SUFFICES ASSUME IInv, ChargedAPrice, [Next]_vars, NEW p \in PayIds, HasRow(p)'
               PROVE  APrice(p)'
    BY DEF ChargedAPrice, APrice
  <2>0. TypeOK /\ RowsKnown /\ \A q \in PayIds : APrice(q)
    BY DEF IInv, ChargedAPrice, APrice
  <2>1. CASE UNCHANGED vars
    BY <2>0, <2>1 DEF vars, pointVars, APrice, HasRow
  <2>2. CASE Next /\ SameAmount(p)
    <3>1. PICK b \in Ids : b = payments[p].booking
      BY <2>0, <2>2, RowType DEF SameAmount
    <3>2. /\ payments'[p].booking = b /\ payments'[p].amount = payments[p].amount
          /\ payments[p].amount \in {price[b], price[b] + redeemed[b]}
          /\ Exists(b)
      BY <2>0, <2>2, <3>1 DEF SameAmount, APrice, RowsKnown
    <3>3. price[b] \in Nat
      BY <2>0 DEF TypeOK
    <3>4. payments[p].amount \in {price'[b], price'[b] + redeemed'[b]}
      BY <2>2, <3>2, <3>3, PriceChangesOnce
    <3> QED
      BY <3>2, <3>4 DEF APrice
  <2>3. CASE /\ payments'[p].amount = price[payments'[p].booking]
             /\ UNCHANGED <<price, redeemed>>
    BY <2>3 DEF APrice
  <2> QED
    BY <2>1, <2>2, <2>3, AmountIsSetOnce
<1> QED
  BY <1>1, <1>2, InitEstablishesIInv, NextKeepsIInv, PTL DEF Spec

-----------------------------------------------------------------------------
(* Payments implements Inventory.                                          *)

\* The steps on existing rows are those of Inventory.
LEMMA SameTableNext == TableNext => Abs!TableNext
  BY DEF TableNext, Tick, Confirm, Cancel, Cancellable, ExpireHolds, Lapsed, SetStatus,
         Exists, OnTime, Abs!TableNext, Abs!Tick, Abs!Confirm, Abs!Cancel,
         Abs!Cancellable, Abs!ExpireHolds, Abs!Lapsed, Abs!SetStatus, Abs!Exists,
         Abs!OnTime

\* The room that createBooking counts is a room by right.
LEMMA CreateTakesARoom ==
  ASSUME IInv, NEW b \in Ids, NEW rt \in RoomTypes, NEW g \in Guests, NEW in \in Days,
         NEW out \in Days, CreateBooking(b, rt, g, in, out)
  PROVE  \E row \in Row :
           /\ row.roomType = rt /\ row.checkin = in /\ row.checkout = out
           /\ row.status = "pending" /\ row.hold <= clock + HoldTime
           /\ ~Exists(b) /\ in < out
           /\ Cardinality(OnTimeOccupying(row.roomType, row.checkin, row.checkout))
                < Rooms[row.roomType]
           /\ bookings' = [bookings EXCEPT ![b] = row] /\ bookings'[b] = row
           /\ UNCHANGED <<clock, late>>
<1> DEFINE row == [roomType |-> rt, guest |-> g, checkin |-> in, checkout |-> out,
                   status |-> "pending", hold |-> clock + HoldTime]
<1>0. TableTypeOK
  BY DEF IInv, TypeOK
<1>1. row \in Row
  BY <1>0, BookingTableAssumption DEF Row, Statuses, TableTypeOK
<1>2. /\ bookings' = [bookings EXCEPT ![b] = row]
      /\ bookings'[b] = row
      /\ UNCHANGED <<clock, late>>
      /\ ~Exists(b) /\ in < out
      /\ Remaining(rt, in, out, clock) > 0
  BY <1>0 DEF CreateBooking, TableTypeOK
<1>3. OnTimeOccupying(rt, in, out) \subseteq Occupying(rt, in, out, clock)
  BY DEF OnTimeOccupying, Occupying, OnTime, Counts
<1>4. IsFiniteSet(Occupying(rt, in, out, clock))
  <2>1. Occupying(rt, in, out, clock) \subseteq Ids
    BY DEF Occupying
  <2> QED
    BY <2>1, FS_Subset, BookingTableAssumption
<1>5. Cardinality(OnTimeOccupying(rt, in, out)) < Rooms[rt]
  <2>1. Cardinality(OnTimeOccupying(rt, in, out)) <= Cardinality(Occupying(rt, in, out, clock))
    BY <1>3, <1>4, FS_Subset
  <2>2. /\ Cardinality(Occupying(rt, in, out, clock)) \in Nat
        /\ Cardinality(OnTimeOccupying(rt, in, out)) \in Nat
        /\ Rooms[rt] \in Nat
    BY <1>4, OnTimeFinite, FS_CardinalityType, BookingTableAssumption
  <2> QED
    BY <1>2, <2>1, <2>2 DEF Remaining
<1>6. /\ row.roomType = rt /\ row.checkin = in /\ row.checkout = out
      /\ row.status = "pending" /\ row.hold <= clock + HoldTime
  BY <1>0, BookingTableAssumption DEF TableTypeOK
<1> HIDE DEF row
<1> WITNESS row \in Row
<1> QED
  BY <1>2, <1>5, <1>6

LEMMA CreateBooks ==
  ASSUME IInv, NEW b \in Ids, NEW rt \in RoomTypes, NEW g \in Guests, NEW in \in Days,
         NEW out \in Days, CreateBooking(b, rt, g, in, out)
  PROVE  Abs!Book(b, bookings'[b])
<1>1. PICK row \in Row :
        /\ row.roomType = rt /\ row.checkin = in /\ row.checkout = out
        /\ row.status = "pending" /\ row.hold <= clock + HoldTime
        /\ ~Exists(b) /\ in < out
        /\ Cardinality(OnTimeOccupying(row.roomType, row.checkin, row.checkout))
             < Rooms[row.roomType]
        /\ bookings' = [bookings EXCEPT ![b] = row] /\ bookings'[b] = row
        /\ UNCHANGED <<clock, late>>
  BY CreateTakesARoom
<1>2. OnTimeOccupying(rt, in, out) = Abs!OnTimeOccupying(rt, in, out)
  BY DEF OnTimeOccupying, OnTime, Exists, Overlaps,
         Abs!OnTimeOccupying, Abs!OnTime, Abs!Exists, Abs!Overlaps
<1>3. \A S : Abs!Cardinality(S) = Cardinality(S)
  BY DEF Cardinality, Abs!Cardinality
<1>4. ~Abs!Exists(b) /\ row \in Abs!Row
  BY <1>1 DEF Exists, Abs!Exists, Row, Abs!Row, Statuses, Abs!Statuses, Days, Abs!Days
<1> QED
  BY <1>1, <1>2, <1>3, <1>4 DEF Abs!Book

\* A settled payment confirms a booking, as Inventory may.
LEMMA SettleIsTableStep ==
  ASSUME IInv, NEW p \in PayIds, HasRow(p), Settle(p)
  PROVE  TableNext
<1>1. payments[p].booking \in Ids
  BY RowType DEF IInv
<1> QED
  BY <1>1 DEF Settle, TableNext

\* Everything but a new booking is a step on existing rows, or none.
LEMMA OtherStepsOnTable ==
  ASSUME IInv, Next,
         ~\E b \in Ids, rt \in RoomTypes, g \in Guests, in, out \in Days :
            CreateBooking(b, rt, g, in, out)
  PROVE  TableNext \/ UNCHANGED tableVars
<1>1. CASE Customer
  BY <1>1 DEF Customer, Redeem, StartPayment, CustomerPays, CustomerPaysInvoice,
              CancelWithoutRefund, StartRefund, TableNext, tableVars
<1>2. CASE GatewayAnswers
  <2>1. PICK b \in Ids : FinishPayment(b) \/ AbortPayment(b) \/ FinishRefund(b) \/ AbortRefund(b)
    BY <1>2 DEF GatewayAnswers
  <2>2. Confirm(b) \/ Cancel(b) \/ UNCHANGED tableVars
    BY <2>1 DEF FinishPayment, AbortPayment, FinishRefund, AbortRefund
  <2> QED
    BY <2>2 DEF TableNext
<1>3. CASE Omise
  <2>1. CASE \E d \in fetched : ConfirmFromOmise(d)
    <3>1. PICK d \in fetched : ConfirmFromOmise(d)
      BY <2>1
    <3>2. PICK p \in PayIds : p = d.event[1]
      BY DEF IInv, TypeOK, OmiseEvents
    <3> QED
      BY <3>1, <3>2, SettleIsTableStep DEF ConfirmFromOmise, NewForPayment
  <2>2. CASE ~\E d \in fetched : ConfirmFromOmise(d)
    BY <1>3, <2>2 DEF Omise, Fetch, IgnoreDelivery, FailFromOmise, NotSettledYet, DropDelivery
  <2> QED
    BY <2>1, <2>2
<1>4. CASE TwoCTwoP
  <2>1. PICK n \in notes : IgnoreNote(n) \/ ConfirmFrom2c2p(n) \/ FailFrom2c2p(n)
    BY <1>4 DEF TwoCTwoP
  <2>2. CASE ConfirmFrom2c2p(n)
    BY <2>2, SettleIsTableStep DEF ConfirmFrom2c2p, InvoiceRows
  <2>3. CASE IgnoreNote(n) \/ FailFrom2c2p(n)
    BY <2>3 DEF IgnoreNote, FailFrom2c2p
  <2> QED
    BY <2>1, <2>2, <2>3
<1>5. CASE \E t \in 0 .. clock : ReleaseExpiredHolds(t)
  BY <1>5 DEF ReleaseExpiredHolds, TableNext
<1>6. CASE TimePasses
  BY <1>6 DEF TimePasses, TableNext
<1> QED
  BY <1>1, <1>2, <1>3, <1>4, <1>5, <1>6 DEF Next

\* With gateways, webhooks, refunds and sweeps around it, a booking is made as in
\* Inventory, and none of them moves one or gives it a room by right.
THEOREM PaymentsImplementInventory == Spec => ImplementsInventory
<1>1. Init => Abs!Init
  BY DEF Init, TableInit, Abs!Init, Abs!TableInit
<1>2. IInv /\ [Next]_vars => [Abs!Next]_Abs!tableVars
  <2> SUFFICES ASSUME IInv, [Next]_vars
               PROVE  [Abs!Next]_Abs!tableVars
    OBVIOUS
  <2>1. CASE \E b \in Ids, rt \in RoomTypes, g \in Guests, in, out \in Days :
               CreateBooking(b, rt, g, in, out)
    BY <2>1, CreateBooks DEF Abs!Next
  <2>2. CASE Next /\ ~\E b \in Ids, rt \in RoomTypes, g \in Guests, in, out \in Days :
                       CreateBooking(b, rt, g, in, out)
    BY <2>2, OtherStepsOnTable, SameTableNext DEF Abs!Next, tableVars, Abs!tableVars
  <2>3. CASE UNCHANGED vars
    BY <2>3 DEF vars, tableVars, Abs!tableVars
  <2> QED
    BY <2>1, <2>2, <2>3
<1> QED
  BY <1>1, <1>2, Invariance, PTL DEF Spec, ImplementsInventory, Abs!Spec
-----------------------------------------------------------------------------
\* Neither do gateways, webhooks, refunds and sweeps let more bookings than rooms hold
\* a room by right.
THEOREM PaymentsNeverOversell == Spec => []NoOnTimeOversell
<1>1. Init => NoOnTimeOversell
  <2> SUFFICES ASSUME Init, NEW rt \in RoomTypes, NEW night \in Days
               PROVE  Cardinality(OnTimeOccupying(rt, night, night + 1)) <= Rooms[rt]
    BY DEF NoOnTimeOversell
  <2>1. OnTimeOccupying(rt, night, night + 1) = {}
    BY DEF Init, TableInit, OnTimeOccupying, OnTime, Exists
  <2> QED
    BY <2>1, FS_EmptySet, BookingTableAssumption
<1>2. IInv /\ NoOnTimeOversell /\ [Next]_vars => NoOnTimeOversell'
  <2> SUFFICES ASSUME IInv, NoOnTimeOversell, [Next]_vars
               PROVE  NoOnTimeOversell'
    OBVIOUS
  <2>0. TableTypeOK
    BY DEF IInv, TypeOK
  <2>1. ASSUME NEW b \in Ids, NEW rt \in RoomTypes, NEW g \in Guests, NEW in \in Days,
               NEW out \in Days, CreateBooking(b, rt, g, in, out)
        PROVE  NoOnTimeOversell'
    BY <2>0, <2>1, CreateTakesARoom, InsertKeepsNights
  <2>2. CASE Next /\ ~\E b \in Ids, rt \in RoomTypes, g \in Guests, in, out \in Days :
                       CreateBooking(b, rt, g, in, out)
    BY <2>0, <2>2, OtherStepsOnTable, TableStepNights
  <2>3. CASE UNCHANGED vars
    BY <2>0, <2>3, TableStepNights DEF vars
  <2> QED
    BY <2>1, <2>2, <2>3
<1> QED
  BY <1>1, <1>2, Invariance, PTL DEF Spec
====
