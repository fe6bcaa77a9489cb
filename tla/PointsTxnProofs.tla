--------------------------- MODULE PointsTxnProofs ---------------------------
(***************************************************************************)
(* No update of points is lost and the ledger is true, for any number of    *)
(* transactions, guests, bookings and payments.                             *)
(*                                                                         *)
(* The argument: locks are taken only when they are free, so the balance     *)
(* that a transaction read with the guest's row locked is the balance when   *)
(* it writes, and what it checked with the booking locked still holds        *)
(* (Held).  A cancellation that takes points back has the row of a paid      *)
(* payment, whose points were earned (EveryPaidEarned).                     *)
(***************************************************************************)
EXTENDS PointsTxn, SequenceTheorems, FiniteSetTheorems, TLAPS

USE DEF At, Op, Payment

\* What a transaction found under its locks is still so.
Held ==
  \A t \in Txns :
     /\ pc[t] = "guest" =>
          /\ lock[Guest(t)] = t /\ read[t] = points[Guest(t)]
          /\ Op(t) \in {"redeem", "event", "charge", "cancel"}
     /\ Op(t) = "redeem" /\ pc[t] \in {"booking", "guest"} =>
          /\ lock[Booking(t)] = t
          /\ req[t].points >= MinRedeemPoints
          /\ L!Rows(Booking(t), "redeem") = {}
     /\ Op(t) = "cancel" /\ pc[t] \in {"refunded", "guest"} =>
          \E p \in PaidOf(Booking(t)) : lock[p] = t

\* Each payment that is paid, and each that was and is refunded, earned points.
EveryPaidEarned ==
  \A b \in Bookings :
     Cardinality(L!Rows(b, "adjustment")) + Cardinality(PaidOf(b))
       <= Cardinality(L!Rows(b, "earn"))

\* A card charge pays for its own booking.
ChargesOwn == \A t \in Txns : Op(t) = "charge" => BookingOf[Payment(t)] = Booking(t)

IInv ==
  /\ TypeOK
  /\ ChargesOwn
  /\ Held
  /\ EveryPaidEarned
  /\ LedgerExplainsBalance
  /\ PriceFollowsPoints

-----------------------------------------------------------------------------
(* The data.                                                               *)

LEMMA PricingTypes ==
  ASSUME NEW n \in Nat
  PROVE  EarnPoints(n) \in Nat /\ MaxDiscount(n) \in Nat /\ MaxDiscount(n) <= n
  BY DEF EarnPoints, RoundDiv, MaxDiscount

LEMMA InputTypes ==
  ASSUME TypeOK, NEW t \in Txns
  PROVE  /\ Booking(t) \in Bookings /\ Guest(t) \in Guests
         /\ Payment(t) \in Payments /\ req[t].points \in Nat
         /\ Booking(t) \in Lockable /\ Guest(t) \in Lockable
  BY PointsTxnAssumption DEF TypeOK, Input, Booking, Guest, Lockable

\* The rows of a type are finitely many.
LEMMA RowsFinite ==
  ASSUME TypeOK, NEW b \in Bookings, NEW type
  PROVE  /\ rows[GuestOf[b]] \in Seq(L!Entry)
         /\ L!Rows(b, type) \subseteq 1 .. Len(rows[GuestOf[b]])
         /\ IsFiniteSet(L!Rows(b, type))
         /\ Cardinality(L!Rows(b, type)) \in Nat
<1>1. rows[GuestOf[b]] \in Seq(L!Entry)
  BY PointsTxnAssumption DEF TypeOK
<1>2. DOMAIN rows[GuestOf[b]] = 1 .. Len(rows[GuestOf[b]]) /\ Len(rows[GuestOf[b]]) \in Nat
  BY <1>1, LenProperties
<1>3. L!Rows(b, type) \subseteq 1 .. Len(rows[GuestOf[b]])
  BY <1>2 DEF L!Rows
<1>4. IsFiniteSet(1 .. Len(rows[GuestOf[b]]))
  BY <1>2, FS_Interval
<1> QED
  BY <1>1, <1>3, <1>4, FS_Subset, FS_CardinalityType

LEMMA PaidFinite ==
  ASSUME NEW b
  PROVE  IsFiniteSet(PaidOf(b)) /\ Cardinality(PaidOf(b)) \in Nat
<1>1. PaidOf(b) \subseteq Payments /\ IsFiniteSet(Payments)
  BY PointsTxnAssumption DEF PaidOf
<1> QED
  BY <1>1, FS_Subset, FS_CardinalityType

\* A write appends one row to the ledger of one guest, and the last row of that
\* ledger holds the balance.
LEMMA WriteEffect ==
  ASSUME TypeOK, LedgerExplainsBalance, NEW t \in Txns,
         NEW type \in {"earn", "redeem", "adjustment"}, NEW after \in Nat,
         read[t] = points[Guest(t)], Write(t, type, after)
  PROVE  /\ points' \in [Guests -> Nat]
         /\ rows' \in [Guests -> Seq(L!Entry)]
         /\ \A g \in Guests \ {Guest(t)} : points'[g] = points[g] /\ rows'[g] = rows[g]
         /\ Len(rows[Guest(t)]) \in Nat
         /\ \A i \in DOMAIN rows[Guest(t)] : rows'[Guest(t)][i] = rows[Guest(t)][i]
         /\ rows'[Guest(t)][Len(rows[Guest(t)]) + 1].change = after - read[t]
         /\ \A b \in Bookings : \A kind :
              L!Rows(b, kind)' = IF b = Booking(t) /\ kind = type
                                 THEN L!Rows(b, kind) \cup {Len(rows[Guest(t)]) + 1}
                                 ELSE L!Rows(b, kind)
         /\ LedgerExplainsBalance'
<1> DEFINE g == Guest(t)
           row == [booking |-> Booking(t), type |-> type,
                   change |-> after - read[t], after |-> after]
           old == rows[g]
<1>1. /\ g \in Guests /\ Booking(t) \in Bookings /\ old \in Seq(L!Entry)
      /\ points \in [Guests -> Nat] /\ rows \in [Guests -> Seq(L!Entry)]
      /\ read[t] \in Nat
  BY InputTypes DEF TypeOK
<1>2. row \in L!Entry
  BY <1>1 DEF L!Entry
<1>3. /\ points' = [points EXCEPT ![g] = after]
      /\ rows' = [rows EXCEPT ![g] = Append(old, row)]
  BY DEF Write
<1>4. /\ Append(old, row) \in Seq(L!Entry)
      /\ Len(old) \in Nat /\ DOMAIN old = 1 .. Len(old)
      /\ Len(Append(old, row)) = Len(old) + 1
      /\ DOMAIN Append(old, row) = 1 .. Len(old) + 1
      /\ \A i \in 1 .. Len(old) : Append(old, row)[i] = old[i]
      /\ Append(old, row)[Len(old) + 1] = row
  <2>1. /\ Append(old, row) \in Seq(L!Entry)
        /\ Len(Append(old, row)) = Len(old) + 1
        /\ \A i \in 1 .. Len(old) : Append(old, row)[i] = old[i]
        /\ Append(old, row)[Len(old) + 1] = row
    BY <1>1, <1>2, AppendProperties
  <2> HIDE DEF row, old
  <2>2. /\ Len(old) \in Nat /\ DOMAIN old = 1 .. Len(old)
        /\ DOMAIN Append(old, row) = 1 .. Len(Append(old, row))
    BY <1>1, <2>1, LenProperties
  <2> QED
    BY <2>1, <2>2
<1>5. /\ row.change = after - read[t] /\ row.after = after
      /\ row.booking = Booking(t) /\ row.type = type
  OBVIOUS
<1> HIDE DEF row
<1>6. rows'[g] = Append(old, row) /\ points'[g] = after
  BY <1>1, <1>3
<1>7. \A h \in Guests \ {g} : points'[h] = points[h] /\ rows'[h] = rows[h]
  BY <1>1, <1>3
<1>8. ASSUME NEW b \in Bookings, NEW kind
      PROVE  L!Rows(b, kind)' = IF b = Booking(t) /\ kind = type
                                THEN L!Rows(b, kind) \cup {Len(old) + 1}
                                ELSE L!Rows(b, kind)
  <2>1. GuestOf[b] \in Guests
    BY PointsTxnAssumption
  <2>2. CASE GuestOf[b] # g
    <3>1. b # Booking(t) /\ rows'[GuestOf[b]] = rows[GuestOf[b]]
      BY <1>7, <2>1, <2>2 DEF Guest
    <3> QED
      BY <3>1 DEF L!Rows
  <2>3. CASE GuestOf[b] = g
    <3> HIDE DEF g
    <3>1. L!Rows(b, kind)' = {i \in 1 .. Len(old) + 1 :
                                /\ Append(old, row)[i].booking = b
                                /\ Append(old, row)[i].type = kind}
      BY <1>4, <1>6, <2>3 DEF L!Rows
    <3>2. L!Rows(b, kind) = {i \in 1 .. Len(old) : old[i].booking = b /\ old[i].type = kind}
      BY <1>4, <2>3 DEF L!Rows
    <3> HIDE DEF old
    <3>3. \A i \in 1 .. Len(old) + 1 : i \in 1 .. Len(old) \/ i = Len(old) + 1
      BY <1>4
    <3> QED
      BY <1>4, <1>5, <3>1, <3>2, <3>3
  <2> QED
    BY <2>2, <2>3
<1>9. LedgerExplainsBalance'
  <2> SUFFICES ASSUME NEW h \in Guests
               PROVE  /\ rows'[h] # <<>>
                      /\ rows'[h][Len(rows'[h])].after = points'[h]
                      /\ \A i \in 2 .. Len(rows'[h]) :
                           rows'[h][i].after = rows'[h][i - 1].after + rows'[h][i].change
    BY DEF LedgerExplainsBalance
  <2>1. CASE h # g
    BY <1>7, <2>1 DEF LedgerExplainsBalance
  <2>2. CASE h = g
    <3>1. old # <<>> /\ Len(old) \in Nat \ {0} /\ old[Len(old)].after = points[g]
      BY <1>1, EmptySeq DEF LedgerExplainsBalance
    <3>2. \A i \in 2 .. Len(old) : old[i].after = old[i - 1].after + old[i].change
      BY <1>1 DEF LedgerExplainsBalance
    <3>3. Append(old, row) # <<>>
      BY <1>4, EmptySeq
    <3>4. points[g] \in Nat
      BY <1>1
    <3> HIDE DEF old
    <3>5. ASSUME NEW i \in 2 .. Len(old) + 1
          PROVE  Append(old, row)[i].after
                   = Append(old, row)[i - 1].after + Append(old, row)[i].change
      <4>1. CASE i = Len(old) + 1
        <5>1. i - 1 = Len(old) /\ Len(old) \in 1 .. Len(old)
          BY <3>1, <4>1
        <5>2. Append(old, row)[i - 1].after = points[g]
          BY <1>4, <3>1, <5>1
        <5>3. points[g] + (after - points[g]) = after
          BY <3>4
        <5> QED
          BY <1>1, <1>4, <1>5, <4>1, <5>2, <5>3
      <4>2. CASE i # Len(old) + 1
        <5>1. i \in 2 .. Len(old) /\ i \in 1 .. Len(old) /\ i - 1 \in 1 .. Len(old)
          BY <3>1, <4>2
        <5> QED
          BY <1>4, <3>2, <5>1
      <4> QED
        BY <4>1, <4>2
    <3> QED
      BY <1>4, <1>5, <1>6, <2>2, <3>3, <3>5
  <2> QED
    BY <2>1, <2>2
<1>10. points' \in [Guests -> Nat] /\ rows' \in [Guests -> Seq(L!Entry)]
  BY <1>1, <1>3, <1>4
<1> QED
  BY <1>4, <1>5, <1>6, <1>7, <1>8, <1>9, <1>10

-----------------------------------------------------------------------------
(* Steps that write no points.                                             *)

LEMMA Initially == Init => IInv
<1> SUFFICES ASSUME Init
             PROVE  IInv
  OBVIOUS
<1> USE DEF Init, L!Init
<1> DEFINE w == L!Welcome
<1>1. w \in L!Entry /\ w.type = "bonus" /\ w.after = Bonus
  BY PointsTxnAssumption DEF L!Welcome, L!Entry
<1> HIDE DEF w
<1>2. /\ <<w>> \in Seq(L!Entry) /\ Len(<<w>>) = 1 /\ <<w>>[1] = w /\ <<w>> # <<>>
      /\ DOMAIN <<w>> = {1}
  BY <1>1
<1>3. \A g \in Guests : rows[g] = <<w>> /\ points[g] = Bonus
  BY DEF w
<1>4. TypeOK
  BY <1>2, PointsTxnAssumption DEF TypeOK, Stages, w
<1>5. Held /\ ChargesOwn
  BY PointsTxnAssumption DEF Held, ChargesOwn, Booking
<1>6. \A b \in Bookings, type \in {"earn", "redeem", "adjustment"} :
        L!Rows(b, type) = {} /\ PaidOf(b) = {}
  <2> SUFFICES ASSUME NEW b \in Bookings, NEW type \in {"earn", "redeem", "adjustment"}
               PROVE  L!Rows(b, type) = {} /\ PaidOf(b) = {}
    OBVIOUS
  <2>1. rows[GuestOf[b]] = <<w>>
    BY <1>3, PointsTxnAssumption
  <2>2. L!Rows(b, type) = {}
    BY <1>1, <1>2, <2>1 DEF L!Rows
  <2>3. PaidOf(b) = {}
    BY DEF PaidOf
  <2> QED
    BY <2>2, <2>3
<1>7. EveryPaidEarned
  <2>1. Cardinality({}) = 0
    BY FS_EmptySet
  <2> SUFFICES ASSUME NEW b \in Bookings
               PROVE  Cardinality(L!Rows(b, "adjustment")) + Cardinality(PaidOf(b))
                        <= Cardinality(L!Rows(b, "earn"))
    BY DEF EveryPaidEarned
  <2>2. L!Rows(b, "adjustment") = {} /\ PaidOf(b) = {} /\ L!Rows(b, "earn") = {}
    BY <1>6
  <2>3. /\ Cardinality(L!Rows(b, "adjustment")) = 0 /\ Cardinality(PaidOf(b)) = 0
        /\ Cardinality(L!Rows(b, "earn")) = 0
    BY <2>1, <2>2
  <2> QED
    BY <2>3
<1>8. LedgerExplainsBalance
  BY <1>1, <1>2, <1>3 DEF LedgerExplainsBalance
<1>9. PriceFollowsPoints
  BY <1>6 DEF PriceFollowsPoints
<1> QED
  BY <1>4, <1>5, <1>7, <1>8, <1>9 DEF IInv

LEMMA RequestKept ==
  ASSUME req' = req, NEW t
  PROVE  Booking(t)' = Booking(t) /\ Guest(t)' = Guest(t)
  BY DEF Booking, Guest

\* A statement that takes a free lock at most, and finds what its stage says.
LEMMA StatementKeeps ==
  ASSUME IInv, NEW t \in Txns, NEW stage \in Stages, Goto(t, stage),
         UNCHANGED <<req, stateVars, pointVars>>,
         lock' = lock \/ \E x \in Lockable : Take(x, t),
         read' \in [Txns -> Nat],
         \A u \in Txns \ {t} : read'[u] = read[u],
         stage = "guest" =>
           /\ lock'[Guest(t)] = t /\ read'[t] = points[Guest(t)]
           /\ Op(t) \in {"redeem", "event", "charge", "cancel"},
         Op(t) = "redeem" /\ stage \in {"booking", "guest"} =>
           /\ lock'[Booking(t)] = t /\ req[t].points >= MinRedeemPoints
           /\ L!Rows(Booking(t), "redeem") = {},
         Op(t) = "cancel" /\ stage \in {"refunded", "guest"} =>
           \E p \in PaidOf(Booking(t)) : lock'[p] = t
  PROVE  IInv'
<1> USE DEF IInv, stateVars, pointVars
<1>1. pc' = [pc EXCEPT ![t] = stage] /\ pc \in [Txns -> Stages]
      /\ lock \in [Lockable -> Txns \cup {NoOne}]
  BY DEF Goto, TypeOK
<1>2. /\ lock' \in [Lockable -> Txns \cup {NoOne}]
      /\ \A x \in Lockable : lock[x] # NoOne => lock'[x] = lock[x]
  BY <1>1 DEF Take, Free
<1>3. TypeOK' /\ ChargesOwn'
  BY <1>1, <1>2, RequestKept DEF TypeOK, ChargesOwn
<1>4. /\ \A b : PaidOf(b)' = PaidOf(b)
      /\ \A b, type : L!Rows(b, type)' = L!Rows(b, type)
  BY DEF PaidOf, L!Rows
<1>5. Held'
  <2> SUFFICES ASSUME NEW u \in Txns
               PROVE  /\ pc'[u] = "guest" =>
                           /\ lock'[Guest(u)] = u /\ read'[u] = points[Guest(u)]
                           /\ Op(u) \in {"redeem", "event", "charge", "cancel"}
                      /\ Op(u) = "redeem" /\ pc'[u] \in {"booking", "guest"} =>
                           /\ lock'[Booking(u)] = u
                           /\ req[u].points >= MinRedeemPoints
                           /\ L!Rows(Booking(u), "redeem") = {}
                      /\ Op(u) = "cancel" /\ pc'[u] \in {"refunded", "guest"} =>
                           \E p \in PaidOf(Booking(u)) : lock'[p] = u
    BY <1>4, RequestKept DEF Held
  <2>1. CASE u = t
    BY <1>1, <2>1
  <2>2. CASE u # t
    <3>1. pc'[u] = pc[u] /\ read'[u] = read[u]
      BY <1>1, <2>2
    <3>2. Booking(u) \in Lockable /\ Guest(u) \in Lockable /\ u # NoOne
      BY InputTypes, PointsTxnAssumption
    <3>3. \A p \in PaidOf(Booking(u)) : p \in Lockable
      BY DEF PaidOf, Lockable
    <3> QED
      BY <1>2, <3>1, <3>2, <3>3 DEF Held
  <2> QED
    BY <2>1, <2>2
<1>6. EveryPaidEarned'
  BY <1>4 DEF EveryPaidEarned
<1>7. LedgerExplainsBalance'
  BY DEF LedgerExplainsBalance
<1>8. PriceFollowsPoints'
  BY <1>4 DEF PriceFollowsPoints
<1> QED
  BY <1>3, <1>5, <1>6, <1>7, <1>8

\* The end of a transaction keeps what others found, if it changes the rows
\* only that it has locked, and pays or refunds no payment that others locked.
LEMMA EndKeepsHeld ==
  ASSUME TypeOK, Held, NEW t \in Txns, End(t),
         \A g \in Guests : points'[g] # points[g] => lock[g] = t,
         \A b \in Bookings :
            L!Rows(b, "redeem")' # L!Rows(b, "redeem") => lock[b] = t,
         \A p \in Payments : paid[p] = "paid" => paid'[p] = "paid" \/ lock[p] = t
  PROVE  Held'
<1>1. /\ pc' = [pc EXCEPT ![t] = "done"] /\ pc \in [Txns -> Stages]
      /\ req' = req /\ read' = read
      /\ lock' = [x \in Lockable |-> IF lock[x] = t THEN NoOne ELSE lock[x]]
  BY DEF TypeOK, End, Goto
<1>2. SUFFICES ASSUME NEW u \in Txns, NEW b \in Bookings, NEW g \in Guests,
                      b = Booking(u), g = Guest(u)
               PROVE  /\ pc'[u] = "guest" =>
                           /\ lock'[g] = u /\ read'[u] = points'[g]
                           /\ Op(u) \in {"redeem", "event", "charge", "cancel"}
                      /\ Op(u) = "redeem" /\ pc'[u] \in {"booking", "guest"} =>
                           /\ lock'[b] = u
                           /\ req[u].points >= MinRedeemPoints
                           /\ L!Rows(b, "redeem")' = {}
                      /\ Op(u) = "cancel" /\ pc'[u] \in {"refunded", "guest"} =>
                           \E p \in PaidOf(b)' : lock'[p] = u
  <2> SUFFICES ASSUME NEW u \in Txns
               PROVE  (/\ pc[u] = "guest" =>
                            /\ lock[Guest(u)] = u /\ read[u] = points[Guest(u)]
                            /\ Op(u) \in {"redeem", "event", "charge", "cancel"}
                       /\ Op(u) = "redeem" /\ pc[u] \in {"booking", "guest"} =>
                            /\ lock[Booking(u)] = u
                            /\ req[u].points >= MinRedeemPoints
                            /\ L!Rows(Booking(u), "redeem") = {}
                       /\ Op(u) = "cancel" /\ pc[u] \in {"refunded", "guest"} =>
                            \E p \in PaidOf(Booking(u)) : lock[p] = u)'
    BY DEF Held
  <2>1. Booking(u)' = Booking(u) /\ Guest(u)' = Guest(u)
    BY <1>1, RequestKept
  <2>2. Booking(u) \in Bookings /\ Guest(u) \in Guests
    BY InputTypes
  <2> QED
    BY <1>1, <1>2, <2>1, <2>2 DEF L!Rows, PaidOf
<1>3. CASE u = t
  BY <1>1, <1>3
<1>4. CASE u # t
  <2>1. pc'[u] = pc[u]
    BY <1>1, <1>4
  <2>2. b \in Lockable /\ g \in Lockable
    BY DEF Lockable
  <2>3. \A x \in Lockable : lock[x] = u => lock'[x] = u
    BY <1>1, <1>4
  <2>4. ASSUME NEW p \in PaidOf(b), lock[p] = u
        PROVE  p \in PaidOf(b)' /\ lock'[p] = u
    BY <1>4, <2>3, <2>4 DEF PaidOf, Lockable
  <2>5. pc[u] = "guest" => points'[g] = points[g]
    BY <1>2, <1>4, <2>2 DEF Held
  <2>6. Op(u) = "redeem" /\ pc[u] \in {"booking", "guest"} => L!Rows(b, "redeem")' = {}
    BY <1>2, <1>4 DEF Held
  <2> QED
    BY <1>1, <1>2, <2>1, <2>2, <2>3, <2>4, <2>5, <2>6 DEF Held
<1> QED
  BY <1>3, <1>4

\* A transaction that ends without touching points: rolled back, or a
\* cancellation without a refund, or the job.
LEMMA EndKeeps ==
  ASSUME IInv, NEW t \in Txns, End(t), UNCHANGED pointVars,
         status' \in [Bookings -> {"pending", "confirmed", "cancelled", "expired"}],
         paid' \in [Payments -> {"none", "pending", "paid", "failed", "refunded"}],
         \A p \in Payments : paid[p] = "paid" <=> paid'[p] = "paid"
  PROVE  IInv'
<1> USE DEF IInv, pointVars
<1>1. \A b, type : L!Rows(b, type)' = L!Rows(b, type) /\ PaidOf(b)' = PaidOf(b)
  BY DEF L!Rows, PaidOf
<1>2. TypeOK' /\ ChargesOwn'
  BY RequestKept DEF TypeOK, ChargesOwn, End, Goto, Stages
<1>3. Held'
  BY <1>1, EndKeepsHeld
<1>4. EveryPaidEarned' /\ LedgerExplainsBalance' /\ PriceFollowsPoints'
  BY <1>1 DEF EveryPaidEarned, LedgerExplainsBalance, PriceFollowsPoints
<1> QED
  BY <1>2, <1>3, <1>4

-----------------------------------------------------------------------------
(* Steps that write points.                                                *)

\* A price that is not touched, of a booking whose redemption is not touched.
LEMMA PriceKept ==
  ASSUME NEW b \in Bookings, total'[b] = total[b],
         L!Rows(b, "redeem")' = L!Rows(b, "redeem"),
         \A i \in DOMAIN rows[GuestOf[b]] : rows'[GuestOf[b]][i] = rows[GuestOf[b]][i],
         PriceFollowsPoints
  PROVE  \/ L!Rows(b, "redeem")' = {} /\ total'[b] = FullPrice
         \/ \E i \in DOMAIN rows'[GuestOf[b]] :
              /\ L!Rows(b, "redeem")' = {i}
              /\ total'[b] = FullPrice + rows'[GuestOf[b]][i].change
<1>1. CASE L!Rows(b, "redeem") = {} /\ total[b] = FullPrice
  BY <1>1
<1>2. ASSUME NEW i \in DOMAIN rows[GuestOf[b]], L!Rows(b, "redeem") = {i},
             total[b] = FullPrice + rows[GuestOf[b]][i].change
      PROVE  \E j \in DOMAIN rows'[GuestOf[b]] :
                /\ L!Rows(b, "redeem")' = {j}
                /\ total'[b] = FullPrice + rows'[GuestOf[b]][j].change
  <2>1. i \in DOMAIN rows'[GuestOf[b]]
    BY <1>2 DEF L!Rows
  <2> QED
    BY <1>2, <2>1
<1> QED
  BY <1>1, <1>2 DEF PriceFollowsPoints

\* What holds of rows of all guests after a write to those of one.
LEMMA OldRowsKept ==
  ASSUME TypeOK, LedgerExplainsBalance, NEW t \in Txns,
         NEW type \in {"earn", "redeem", "adjustment"}, NEW after \in Nat,
         read[t] = points[Guest(t)], Write(t, type, after), NEW b \in Bookings
  PROVE  \A i \in DOMAIN rows[GuestOf[b]] : rows'[GuestOf[b]][i] = rows[GuestOf[b]][i]
<1>1. GuestOf[b] \in Guests
  BY PointsTxnAssumption
<1> QED
  BY <1>1, WriteEffect

LEMMA RedeemKeeps ==
  ASSUME IInv, NEW t \in Txns, CommitRedeem(t)
  PROVE  IInv'
<1> USE DEF IInv
<1> DEFINE after == read[t] - req[t].points
           n == Len(rows[Guest(t)]) + 1
<1>1. /\ Booking(t) \in Bookings /\ Guest(t) \in Guests /\ req[t].points \in Nat
      /\ total \in [Bookings -> Nat] /\ read[t] \in Nat
  BY InputTypes DEF TypeOK
<1>2. /\ read[t] = points[Guest(t)] /\ lock[Guest(t)] = t /\ lock[Booking(t)] = t
      /\ L!Rows(Booking(t), "redeem") = {}
      /\ Write(t, "redeem", after) /\ End(t)
      /\ total' = [total EXCEPT ![Booking(t)] = @ - req[t].points]
      /\ UNCHANGED <<status, paid>>
  BY DEF CommitRedeem, Held
<1>3. after \in Nat /\ total[Booking(t)] - req[t].points \in Nat
  BY <1>1, PricingTypes DEF CommitRedeem, Affordable
<1> HIDE DEF after
<1>4. /\ points' \in [Guests -> Nat]
      /\ rows' \in [Guests -> Seq(L!Entry)]
      /\ \A g \in Guests \ {Guest(t)} : points'[g] = points[g] /\ rows'[g] = rows[g]
      /\ rows'[Guest(t)][n].change = after - read[t]
      /\ \A b \in Bookings : \A kind :
           L!Rows(b, kind)' = IF b = Booking(t) /\ kind = "redeem"
                              THEN L!Rows(b, kind) \cup {n} ELSE L!Rows(b, kind)
      /\ LedgerExplainsBalance'
  BY <1>2, <1>3, WriteEffect
<1>5. TypeOK' /\ ChargesOwn'
  BY <1>1, <1>2, <1>3, <1>4, RequestKept DEF TypeOK, ChargesOwn, End, Goto, Stages
<1>6. Held'
  BY <1>2, <1>4, EndKeepsHeld
<1>7. EveryPaidEarned'
  <2>1. \A b \in Bookings : PaidOf(b)' = PaidOf(b)
    BY <1>2 DEF PaidOf
  <2> QED
    BY <1>4, <2>1 DEF EveryPaidEarned
<1>8. PriceFollowsPoints'
  <2> SUFFICES ASSUME NEW b \in Bookings
               PROVE  \/ L!Rows(b, "redeem")' = {} /\ total'[b] = FullPrice
                      \/ \E i \in DOMAIN rows'[GuestOf[b]] :
                           /\ L!Rows(b, "redeem")' = {i}
                           /\ total'[b] = FullPrice + rows'[GuestOf[b]][i].change
    BY DEF PriceFollowsPoints
  <2>1. CASE b # Booking(t)
    <3>1. total'[b] = total[b] /\ L!Rows(b, "redeem")' = L!Rows(b, "redeem")
      BY <1>1, <1>2, <1>4, <2>1
    <3> QED
      BY <1>2, <1>3, <3>1, OldRowsKept, PriceKept
  <2>2. CASE b = Booking(t)
    <3>1. L!Rows(b, "redeem")' = {n}
      BY <1>2, <1>4, <2>2
    <3>2. n \in DOMAIN rows'[GuestOf[b]]
      BY <3>1 DEF L!Rows
    <3>3. GuestOf[b] = Guest(t)
      BY <2>2 DEF Guest
    <3>4. total[b] = FullPrice
      BY <1>2, <2>2 DEF PriceFollowsPoints
    <3>5. total'[b] = FullPrice - req[t].points
      BY <1>1, <1>2, <2>2, <3>4
    <3>6. FullPrice - req[t].points = FullPrice + (after - read[t])
      BY <1>1, PointsTxnAssumption DEF after
    <3> QED
      BY <1>4, <3>1, <3>2, <3>3, <3>5, <3>6
  <2> QED
    BY <2>1, <2>2
<1> QED
  BY <1>4, <1>5, <1>6, <1>7, <1>8

LEMMA SettleKeeps ==
  ASSUME IInv, NEW t \in Txns, CommitSettled(t)
  PROVE  IInv'
<1> USE DEF IInv
<1> DEFINE after == read[t] + EarnPoints(total[Booking(t)])
           n == Len(rows[Guest(t)]) + 1
<1>1. /\ Booking(t) \in Bookings /\ Guest(t) \in Guests /\ Payment(t) \in Payments
      /\ total[Booking(t)] \in Nat /\ read[t] \in Nat
  BY InputTypes DEF TypeOK
<1>2. /\ read[t] = points[Guest(t)] /\ lock[Guest(t)] = t
      /\ Write(t, "earn", after) /\ End(t)
      /\ paid' = [paid EXCEPT ![Payment(t)] = "paid"]
      /\ status' = [status EXCEPT ![Booking(t)] = "confirmed"]
      /\ total' = total
  BY DEF CommitSettled, Held
<1>3. after \in Nat
  BY <1>1, PricingTypes
<1> HIDE DEF after
<1>4. /\ points' \in [Guests -> Nat]
      /\ rows' \in [Guests -> Seq(L!Entry)]
      /\ \A g \in Guests \ {Guest(t)} : points'[g] = points[g] /\ rows'[g] = rows[g]
      /\ \A b \in Bookings : \A kind :
           L!Rows(b, kind)' = IF b = Booking(t) /\ kind = "earn"
                              THEN L!Rows(b, kind) \cup {n} ELSE L!Rows(b, kind)
      /\ LedgerExplainsBalance' /\ Len(rows[Guest(t)]) \in Nat
  BY <1>2, <1>3, WriteEffect
<1>5. TypeOK' /\ ChargesOwn'
  BY <1>1, <1>2, <1>4, RequestKept DEF TypeOK, ChargesOwn, End, Goto, Stages
<1>6. Held'
  <2>1. \A p \in Payments : paid[p] = "paid" => paid'[p] = "paid"
    BY <1>1, <1>2 DEF TypeOK
  <2> QED
    BY <1>2, <1>4, <2>1, EndKeepsHeld
<1>7. EveryPaidEarned'
  <2> SUFFICES ASSUME NEW b \in Bookings
               PROVE  Cardinality(L!Rows(b, "adjustment")') + Cardinality(PaidOf(b)')
                        <= Cardinality(L!Rows(b, "earn")')
    BY DEF EveryPaidEarned
  <2>1. Cardinality(L!Rows(b, "adjustment")) + Cardinality(PaidOf(b))
          <= Cardinality(L!Rows(b, "earn"))
    BY DEF EveryPaidEarned
  <2>2. L!Rows(b, "adjustment")' = L!Rows(b, "adjustment")
    BY <1>4
  <2>3. BookingOf[Payment(t)] = Booking(t)
    BY DEF ChargesOwn, CommitSettled, Booking
  <2>4. CASE b # Booking(t)
    <3>1. PaidOf(b)' = PaidOf(b) /\ L!Rows(b, "earn")' = L!Rows(b, "earn")
      BY <1>2, <1>4, <2>3, <2>4 DEF PaidOf
    <3> QED
      BY <2>1, <2>2, <3>1
  <2>5. CASE b = Booking(t)
    <3> DEFINE earned == L!Rows(b, "earn")
               paidNow == PaidOf(b)
    <3>1. L!Rows(b, "earn")' = earned \cup {n}
      BY <1>4, <2>5
    <3>2. n \notin earned
      <4>1. earned \subseteq 1 .. Len(rows[Guest(t)])
        BY <2>5, RowsFinite DEF Guest
      <4> QED
        BY <1>4, <4>1
    <3>3. PaidOf(b)' \subseteq paidNow \cup {Payment(t)}
      BY <1>1, <1>2 DEF PaidOf
    <3>4. /\ IsFiniteSet(earned) /\ Cardinality(earned) \in Nat
          /\ Cardinality(L!Rows(b, "adjustment")) \in Nat
          /\ IsFiniteSet(paidNow) /\ Cardinality(paidNow) \in Nat
          /\ Cardinality(PaidOf(b)') \in Nat
      <4>1. PaidOf(b)' \subseteq Payments
        BY DEF PaidOf
      <4>2. Cardinality(PaidOf(b)') \in Nat
        BY <4>1, PointsTxnAssumption, FS_Subset, FS_CardinalityType
      <4> QED
        BY <4>2, RowsFinite, PaidFinite
    <3> HIDE DEF earned, paidNow, n
    <3>5. Cardinality(earned \cup {n}) = Cardinality(earned) + 1
      BY <3>2, <3>4, FS_AddElement
    <3>6. /\ IsFiniteSet(paidNow \cup {Payment(t)})
          /\ Cardinality(paidNow \cup {Payment(t)}) <= Cardinality(paidNow) + 1
          /\ Cardinality(paidNow \cup {Payment(t)}) \in Nat
      <4>1. IsFiniteSet(paidNow \cup {Payment(t)})
        BY <3>4, FS_AddElement
      <4>2. Cardinality(paidNow \cup {Payment(t)}) =
              IF Payment(t) \in paidNow THEN Cardinality(paidNow)
                                        ELSE Cardinality(paidNow) + 1
        BY <3>4, FS_AddElement
      <4> QED
        BY <3>4, <4>1, <4>2
    <3>7. Cardinality(PaidOf(b)') <= Cardinality(paidNow \cup {Payment(t)})
      BY <3>3, <3>6, FS_Subset
    <3>8. Cardinality(L!Rows(b, "adjustment")) + Cardinality(paidNow)
            <= Cardinality(earned)
      BY <2>1 DEF earned, paidNow
    <3>9. Cardinality(L!Rows(b, "earn")') = Cardinality(earned) + 1
      BY <3>1, <3>5
    <3>10. Cardinality(L!Rows(b, "adjustment")') = Cardinality(L!Rows(b, "adjustment"))
      BY <2>2
    <3> QED
      BY <3>4, <3>6, <3>7, <3>8, <3>9, <3>10
  <2> QED
    BY <2>4, <2>5
<1>8. PriceFollowsPoints'
  <2> SUFFICES ASSUME NEW b \in Bookings
               PROVE  \/ L!Rows(b, "redeem")' = {} /\ total'[b] = FullPrice
                      \/ \E i \in DOMAIN rows'[GuestOf[b]] :
                           /\ L!Rows(b, "redeem")' = {i}
                           /\ total'[b] = FullPrice + rows'[GuestOf[b]][i].change
    BY DEF PriceFollowsPoints
  <2>1. total'[b] = total[b] /\ L!Rows(b, "redeem")' = L!Rows(b, "redeem")
    BY <1>2, <1>4
  <2> QED
    BY <1>2, <1>3, <2>1, OldRowsKept, PriceKept
<1> QED
  BY <1>4, <1>5, <1>6, <1>7, <1>8

\* The claw-back writes at most one row, of at most what was earned.
LEMMA ClawBackCases ==
  ASSUME IInv, NEW t \in Txns, CommitRefund(t)
  PROVE  \/ UNCHANGED <<points, rows>>
         \/ \E i \in L!Rows(Booking(t), "earn"), clawed \in Nat :
              /\ clawed <= read[t] /\ clawed <= rows[Guest(t)][i].change
              /\ Write(t, "adjustment", read[t] - clawed)
<1> USE DEF IInv
<1>1. PICK i \in L!Rows(Booking(t), "earn") :
        LET earned == rows[Guest(t)][i].change
            clawed == IF earned < read[t] THEN earned ELSE read[t]
        IN  IF clawed > 0 THEN Write(t, "adjustment", read[t] - clawed)
                          ELSE UNCHANGED <<points, rows>>
  BY DEF CommitRefund, ClawBack
<1>2. read[t] \in Nat
  BY DEF TypeOK
<1>3. rows[Guest(t)][i].change \in Int
  <2>1. /\ Booking(t) \in Bookings /\ GuestOf[Booking(t)] = Guest(t)
    BY InputTypes DEF Guest
  <2>2. /\ rows[Guest(t)] \in Seq(L!Entry)
        /\ i \in 1 .. Len(rows[Guest(t)])
    BY <2>1, RowsFinite
  <2>3. rows[Guest(t)][i] \in L!Entry
    BY <2>2, ElementOfSeq
  <2> QED
    BY <2>3 DEF L!Entry
<1> DEFINE earned == rows[Guest(t)][i].change
           clawed == IF earned < read[t] THEN earned ELSE read[t]
<1>4. CASE clawed > 0
  <2>1. clawed \in Nat /\ clawed <= read[t] /\ clawed <= earned
    BY <1>2, <1>3, <1>4
  <2>2. Write(t, "adjustment", read[t] - clawed)
    BY <1>1, <1>4
  <2> QED
    BY <2>1, <2>2
<1>5. CASE ~(clawed > 0)
  BY <1>1, <1>5
<1> QED
  BY <1>4, <1>5

LEMMA RefundKeeps ==
  ASSUME IInv, NEW t \in Txns, CommitRefund(t)
  PROVE  IInv'
<1> USE DEF IInv
<1> DEFINE n == Len(rows[Guest(t)]) + 1
<1>1. /\ Booking(t) \in Bookings /\ Guest(t) \in Guests
      /\ read[t] \in Nat
  BY InputTypes DEF TypeOK
<1>2. /\ read[t] = points[Guest(t)] /\ lock[Guest(t)] = t /\ End(t)
      /\ paid' = [p \in Payments |-> IF lock[p] = t THEN "refunded" ELSE paid[p]]
      /\ status' = [status EXCEPT ![Booking(t)] = "cancelled"]
      /\ total' = total
  BY DEF CommitRefund, Held, Refunded, Cancelled
<1>3. PICK p \in PaidOf(Booking(t)) : lock[p] = t
  BY DEF CommitRefund, Held
\* The rows of a redemption and of an earning stay; one adjustment at most.
<1>4. /\ points' \in [Guests -> Nat]
      /\ rows' \in [Guests -> Seq(L!Entry)]
      /\ \A g \in Guests \ {Guest(t)} : points'[g] = points[g]
      /\ \A b \in Bookings : \A kind :
           \/ L!Rows(b, kind)' = L!Rows(b, kind)
           \/ /\ b = Booking(t) /\ kind = "adjustment"
              /\ L!Rows(b, kind)' = L!Rows(b, kind) \cup {n}
      /\ LedgerExplainsBalance'
      /\ \A b \in Bookings : \A i \in DOMAIN rows[GuestOf[b]] :
           rows'[GuestOf[b]][i] = rows[GuestOf[b]][i]
  <2>1. CASE UNCHANGED <<points, rows>>
    BY <2>1 DEF TypeOK, L!Rows, LedgerExplainsBalance
  <2>2. ASSUME NEW clawed \in Nat, clawed <= read[t],
               Write(t, "adjustment", read[t] - clawed)
        PROVE  <1>4!1 /\ <1>4!2 /\ <1>4!3 /\ <1>4!4 /\ <1>4!5 /\ <1>4!6
    <3>1. read[t] - clawed \in Nat
      BY <1>1, <2>2
    <3> QED
      BY <1>2, <2>2, <3>1, WriteEffect, OldRowsKept
  <2> QED
    BY <2>1, <2>2, ClawBackCases
<1>5. TypeOK' /\ ChargesOwn'
  BY <1>1, <1>2, <1>4, RequestKept DEF TypeOK, ChargesOwn, End, Goto, Stages
<1>6. Held'
  <2>1. \A q \in Payments : paid[q] = "paid" => paid'[q] = "paid" \/ lock[q] = t
    BY <1>2
  <2>2. \A b \in Bookings : L!Rows(b, "redeem")' = L!Rows(b, "redeem")
    BY <1>4
  <2> QED
    BY <1>2, <1>4, <2>1, <2>2, EndKeepsHeld
<1>7. EveryPaidEarned'
  <2> SUFFICES ASSUME NEW b \in Bookings
               PROVE  Cardinality(L!Rows(b, "adjustment")') + Cardinality(PaidOf(b)')
                        <= Cardinality(L!Rows(b, "earn")')
    BY DEF EveryPaidEarned
  <2> DEFINE taken == L!Rows(b, "adjustment")
             paidNow == PaidOf(b)
  <2>1. Cardinality(taken) + Cardinality(paidNow) <= Cardinality(L!Rows(b, "earn"))
    BY DEF EveryPaidEarned
  <2>2. L!Rows(b, "earn")' = L!Rows(b, "earn")
    BY <1>4
  <2>3. PaidOf(b)' \subseteq paidNow \ {p}
    BY <1>2, <1>3 DEF PaidOf
  <2>4. /\ IsFiniteSet(taken) /\ Cardinality(taken) \in Nat
        /\ Cardinality(L!Rows(b, "earn")) \in Nat
        /\ IsFiniteSet(paidNow) /\ Cardinality(paidNow) \in Nat
    BY RowsFinite, PaidFinite
  <2>5. b = Booking(t) => p \in paidNow
    BY <1>3
  <2>6. \/ L!Rows(b, "adjustment")' = taken
        \/ b = Booking(t) /\ L!Rows(b, "adjustment")' = taken \cup {n}
    BY <1>4
  <2> HIDE DEF taken, paidNow, n
  <2>7. /\ IsFiniteSet(paidNow \ {p})
        /\ Cardinality(paidNow \ {p}) =
             IF p \in paidNow THEN Cardinality(paidNow) - 1 ELSE Cardinality(paidNow)
    BY <2>4, FS_RemoveElement
  <2>8. /\ Cardinality(PaidOf(b)') <= Cardinality(paidNow \ {p})
        /\ Cardinality(PaidOf(b)') \in Nat
    BY <2>3, <2>7, FS_Subset, FS_CardinalityType
  <2>9. Cardinality(taken \cup {n}) =
          IF n \in taken THEN Cardinality(taken) ELSE Cardinality(taken) + 1
    BY <2>4, FS_AddElement
  <2>10. Cardinality(L!Rows(b, "earn")') = Cardinality(L!Rows(b, "earn"))
    BY <2>2
  <2>11. CASE L!Rows(b, "adjustment")' = taken
    <3>1. Cardinality(L!Rows(b, "adjustment")') = Cardinality(taken)
      BY <2>11
    <3> QED
      BY <2>1, <2>4, <2>7, <2>8, <2>10, <3>1
  <2>12. CASE b = Booking(t) /\ L!Rows(b, "adjustment")' = taken \cup {n}
    <3>1. Cardinality(L!Rows(b, "adjustment")') = Cardinality(taken \cup {n})
      BY <2>12
    <3>2. Cardinality(paidNow \ {p}) = Cardinality(paidNow) - 1
      BY <2>5, <2>7, <2>12
    <3> QED
      BY <2>1, <2>4, <2>8, <2>9, <2>10, <3>1, <3>2
  <2> QED
    BY <2>6, <2>11, <2>12
<1>8. PriceFollowsPoints'
  <2> SUFFICES ASSUME NEW b \in Bookings
               PROVE  \/ L!Rows(b, "redeem")' = {} /\ total'[b] = FullPrice
                      \/ \E i \in DOMAIN rows'[GuestOf[b]] :
                           /\ L!Rows(b, "redeem")' = {i}
                           /\ total'[b] = FullPrice + rows'[GuestOf[b]][i].change
    BY DEF PriceFollowsPoints
  <2>1. total'[b] = total[b] /\ L!Rows(b, "redeem")' = L!Rows(b, "redeem")
    BY <1>2, <1>4
  <2> QED
    BY <1>4, <2>1, PriceKept
<1> QED
  BY <1>4, <1>5, <1>6, <1>7, <1>8

-----------------------------------------------------------------------------
(* Theorems.                                                               *)

LEMMA StatementsKeepIInv ==
  ASSUME IInv, NEW t \in Txns,
         \/ LockForRedeem(t) \/ ReadBalance(t) \/ LockPayment(t) \/ ConfirmBooking(t)
         \/ LockForCharge(t) \/ CreditGuest(t) \/ LockForCancel(t) \/ AskRefund(t)
         \/ ReadForClawBack(t) \/ SweepBooking(t) \/ BookingsSwept(t) \/ SweepPayment(t)
  PROVE  IInv'
<1> USE DEF IInv, Stages
<1>1. /\ Booking(t) \in Lockable /\ Guest(t) \in Lockable /\ Guest(t) \in Guests
      /\ Payment(t) \in Lockable
      /\ lock \in [Lockable -> Txns \cup {NoOne}] /\ read \in [Txns -> Nat]
      /\ points \in [Guests -> Nat]
      /\ \A b : b \in Bookings => b \in Lockable
      /\ \A p : p \in Payments => p \in Lockable
  BY InputTypes DEF TypeOK, Lockable
<1>2. CASE LockForRedeem(t)
  BY <1>1, <1>2, StatementKeeps DEF LockForRedeem, Redeemable, Moved, Take, TypeOK
<1>3. CASE \/ LockPayment(t) \/ ConfirmBooking(t) \/ LockForCharge(t) \/ LockForCancel(t)
           \/ SweepBooking(t) \/ BookingsSwept(t) \/ SweepPayment(t)
  BY <1>1, <1>3, StatementKeeps
  DEF LockPayment, ConfirmBooking, LockForCharge, LockForCancel, SweepBooking,
      BookingsSwept, SweepPayment, Moved, SweptBookings, PendingOf, TypeOK
<1>4. CASE AskRefund(t)
  <2>1. PICK p \in PaidOf(Booking(t)) : Take(p, t)
    BY <1>4 DEF AskRefund
  <2>2. p \in Lockable /\ lock'[p] = t
    BY <1>1, <2>1 DEF Take, PaidOf
  <2> QED
    BY <1>1, <1>4, <2>1, <2>2, StatementKeeps DEF AskRefund, Moved
<1>5. CASE ReadBalance(t) \/ CreditGuest(t) \/ ReadForClawBack(t)
  <2>1. /\ Take(Guest(t), t) /\ Goto(t, "guest")
        /\ read' = [read EXCEPT ![t] = points[Guest(t)]]
        /\ UNCHANGED <<req, stateVars, pointVars>>
        /\ Op(t) \in {"redeem", "event", "charge", "cancel"}
        /\ Op(t) = "redeem" => pc[t] = "booking"
        /\ Op(t) = "cancel" => pc[t] = "refunded"
    BY <1>5 DEF ReadBalance, CreditGuest, ReadForClawBack, LockGuest
  <2>2. /\ lock' \in [Lockable -> Txns \cup {NoOne}] /\ lock'[Guest(t)] = t
        /\ \A x \in Lockable : lock[x] # NoOne => lock'[x] = lock[x]
    BY <1>1, <2>1 DEF Take, Free
  <2>3. t # NoOne
    BY PointsTxnAssumption
  <2>4. Op(t) = "redeem" =>
           /\ lock'[Booking(t)] = t /\ req[t].points >= MinRedeemPoints
           /\ L!Rows(Booking(t), "redeem") = {}
    BY <1>1, <2>1, <2>2, <2>3 DEF Held
  <2>5. Op(t) = "cancel" => \E p \in PaidOf(Booking(t)) : lock'[p] = t
    BY <1>1, <2>1, <2>2, <2>3 DEF Held, PaidOf
  <2> QED
    BY <1>1, <2>1, <2>2, <2>4, <2>5, StatementKeeps
<1> QED
  BY <1>2, <1>3, <1>4, <1>5

LEMMA EndsKeepIInv ==
  ASSUME IInv, NEW t \in Txns,
         \/ Rollback(t) \/ CommitUnrefunded(t) \/ CommitSweep(t)
  PROVE  IInv'
<1> USE DEF IInv
<1>1. CASE Rollback(t)
  BY <1>1, EndKeeps DEF Rollback, TypeOK
<1>2. CASE CommitUnrefunded(t)
  BY <1>2, EndKeeps DEF CommitUnrefunded, Cancelled, TypeOK
<1>3. CASE CommitSweep(t)
  BY <1>3, EndKeeps DEF CommitSweep, PendingOf, TypeOK
<1> QED
  BY <1>1, <1>2, <1>3

LEMMA NextKeepsIInv == IInv /\ [Next]_vars => IInv'
<1> SUFFICES ASSUME IInv, [Next]_vars
             PROVE  IInv'
  OBVIOUS
<1>1. ASSUME NEW t \in Txns, Step(t) \/ Crash(t)
      PROVE  IInv'
  <2>1. CASE \/ LockForRedeem(t) \/ ReadBalance(t) \/ LockPayment(t) \/ ConfirmBooking(t)
             \/ LockForCharge(t) \/ CreditGuest(t) \/ LockForCancel(t) \/ AskRefund(t)
             \/ ReadForClawBack(t) \/ SweepBooking(t) \/ BookingsSwept(t)
             \/ SweepPayment(t)
    BY <2>1, StatementsKeepIInv
  <2>2. CASE \/ RefuseRedeem(t) \/ RefuseAmount(t) \/ IgnoreEvent(t) \/ RefuseCharge(t)
             \/ RefuseCancel(t) \/ Victim(t) \/ Crash(t)
    BY <2>2, EndsKeepIInv
    DEF RefuseRedeem, RefuseAmount, IgnoreEvent, RefuseCharge, RefuseCancel, Victim, Crash
  <2>3. CASE CommitUnrefunded(t) \/ CommitSweep(t)
    BY <2>3, EndsKeepIInv
  <2>4. CASE CommitRedeem(t) \/ CommitSettled(t) \/ CommitRefund(t)
    BY <2>4, RedeemKeeps, SettleKeeps, RefundKeeps
  <2> QED
    BY <1>1, <2>1, <2>2, <2>3, <2>4 DEF Step
<1>2. CASE UNCHANGED vars
  <2>1. UNCHANGED <<req, pc, read, lock, status, lapsed, paid, points, rows, total>>
    BY <1>2 DEF vars, txnVars, stateVars, pointVars
  <2>2. TypeOK' /\ LedgerExplainsBalance'
    BY <2>1 DEF IInv, TypeOK, LedgerExplainsBalance
  <2>3. EveryPaidEarned' /\ PriceFollowsPoints'
    BY <2>1 DEF IInv, EveryPaidEarned, PriceFollowsPoints, PaidOf, L!Rows
  <2>4. ChargesOwn' /\ Held'
    <3>1. \A t : Booking(t)' = Booking(t) /\ Guest(t)' = Guest(t)
      BY <2>1, RequestKept
    <3>2. ChargesOwn'
      BY <2>1, <3>1 DEF IInv, ChargesOwn
    <3>3. Held'
      BY <2>1, <3>1 DEF IInv, Held, PaidOf, L!Rows
    <3> QED
      BY <3>2, <3>3
  <2> QED
    BY <2>2, <2>3, <2>4 DEF IInv
<1> QED
  BY <1>1, <1>2 DEF Next, Idle

\* The tables, the locks and the ledger keep their types: no balance and no
\* price goes below zero.
THEOREM TypeCorrect == Spec => []TypeOK
<1>1. IInv => TypeOK
  BY DEF IInv
<1> QED
  BY <1>1, Initially, NextKeepsIInv, PTL DEF Spec

\* No update of points_balance is lost between a read and a write.
THEOREM LedgerTrue == Spec => []LedgerExplainsBalance
<1>1. IInv => LedgerExplainsBalance
  BY DEF IInv
<1> QED
  BY <1>1, Initially, NextKeepsIInv, PTL DEF Spec

\* A booking is redeemed once at most, and its price says so.
THEOREM PriceTrue == Spec => []PriceFollowsPoints
<1>1. IInv => PriceFollowsPoints
  BY DEF IInv
<1> QED
  BY <1>1, Initially, NextKeepsIInv, PTL DEF Spec

\* In whatever order payments and cancellations come, points are taken back at
\* most as often as they were earned.
THEOREM TakenBackOnce == Spec => []TakenBackWasEarned
<1>1. IInv => TakenBackWasEarned
  <2> SUFFICES ASSUME IInv, NEW b \in Bookings
               PROVE  Cardinality(L!Rows(b, "adjustment"))
                        <= Cardinality(L!Rows(b, "earn"))
    BY DEF TakenBackWasEarned
  <2>1. TypeOK
    BY DEF IInv
  <2>2. /\ Cardinality(L!Rows(b, "adjustment")) \in Nat
        /\ Cardinality(L!Rows(b, "earn")) \in Nat /\ Cardinality(PaidOf(b)) \in Nat
    BY <2>1, RowsFinite, PaidFinite
  <2>3. Cardinality(L!Rows(b, "adjustment")) + Cardinality(PaidOf(b))
          <= Cardinality(L!Rows(b, "earn"))
    BY DEF IInv, EveryPaidEarned
  <2> QED
    BY <2>2, <2>3
<1> QED
  BY <1>1, Initially, NextKeepsIInv, PTL DEF Spec

-----------------------------------------------------------------------------
(* The refinement.                                                         *)

LEMMA RedeemRefines ==
  ASSUME IInv, NEW t \in Txns, CommitRedeem(t)
  PROVE  L!Next
<1> USE DEF IInv
<1> DEFINE b == Booking(t)
           n == req[t].points
<1>1. /\ b \in Bookings /\ n \in Nat /\ total[b] \in Nat /\ points[Guest(t)] \in Nat
      /\ GuestOf[b] = Guest(t)
  BY InputTypes DEF TypeOK, Guest
<1>2. /\ read[t] = points[Guest(t)] /\ n >= MinRedeemPoints
      /\ L!Rows(b, "redeem") = {}
      /\ n <= read[t] /\ n <= MaxDiscount(total[b]) /\ MaxDiscount(total[b]) \in Nat
      /\ Write(t, "redeem", read[t] - n)
      /\ total' = [total EXCEPT ![b] = @ - n]
  BY <1>1, PricingTypes DEF CommitRedeem, Affordable, Held
<1>3. L!Post(b, "redeem", points[GuestOf[b]] - n)
  BY <1>1, <1>2 DEF L!Post, Write
<1>4. n \in MinRedeemPoints .. MaxDiscount(total[b])
  BY <1>1, <1>2 DEF MinRedeemPoints
<1>5. L!Redeem(b, n)
  BY <1>1, <1>2, <1>3, <1>4 DEF L!Redeem, L!MaxDiscount, L!MinRedeemPoints, MaxDiscount, MinRedeemPoints
<1>6. n \in 0 .. points[GuestOf[b]]
  BY <1>1, <1>2
<1> QED
  BY <1>1, <1>5, <1>6 DEF L!Next

LEMMA SettleRefines ==
  ASSUME IInv, NEW t \in Txns, CommitSettled(t)
  PROVE  L!Next
<1> USE DEF IInv
<1> DEFINE b == Booking(t)
<1>1. b \in Bookings /\ GuestOf[b] = Guest(t)
  BY InputTypes DEF Guest
<1>2. /\ read[t] = points[Guest(t)]
      /\ Write(t, "earn", read[t] + EarnPoints(total[b]))
      /\ total' = total
  BY DEF CommitSettled, Held
<1>3. L!EarnPoints(total[b]) = EarnPoints(total[b])
  BY DEF L!EarnPoints, EarnPoints, L!RoundDiv, RoundDiv
<1>4. L!Earn(b)
  BY <1>1, <1>2, <1>3 DEF L!Earn, L!Post, Write
<1> QED
  BY <1>1, <1>4 DEF L!Next

LEMMA RefundRefines ==
  ASSUME IInv, NEW t \in Txns, CommitRefund(t)
  PROVE  L!Next \/ UNCHANGED L!vars
<1> USE DEF IInv
<1> DEFINE b == Booking(t)
<1>1. /\ b \in Bookings /\ GuestOf[b] = Guest(t) /\ points[Guest(t)] \in Nat
      /\ read[t] = points[Guest(t)] /\ total' = total
  BY InputTypes DEF Guest, CommitRefund, Held, TypeOK
<1>2. ASSUME NEW i \in L!Rows(b, "earn"), NEW clawed \in Nat,
             clawed <= read[t], clawed <= rows[Guest(t)][i].change,
             Write(t, "adjustment", read[t] - clawed)
      PROVE  L!Next
  <2>1. L!TakeBack(b, clawed)
    BY <1>1, <1>2 DEF L!TakeBack, L!Post, Write
  <2>2. clawed \in 0 .. points[GuestOf[b]]
    BY <1>1, <1>2
  <2> QED
    BY <1>1, <2>1, <2>2 DEF L!Next
<1>3. CASE UNCHANGED <<points, rows>>
  BY <1>1, <1>3 DEF L!vars
<1> QED
  BY <1>2, <1>3, ClawBackCases

LEMMA StepRefines == IInv /\ [Next]_vars => [L!Next]_(L!vars)
<1> SUFFICES ASSUME IInv, [Next]_vars
             PROVE  L!Next \/ UNCHANGED L!vars
  OBVIOUS
<1>1. ASSUME NEW t \in Txns, CommitRedeem(t) \/ CommitSettled(t) \/ CommitRefund(t)
      PROVE  L!Next \/ UNCHANGED L!vars
  BY <1>1, RedeemRefines, SettleRefines, RefundRefines
<1>2. ASSUME NEW t \in Txns, Step(t) \/ Crash(t),
             ~(CommitRedeem(t) \/ CommitSettled(t) \/ CommitRefund(t))
      PROVE  UNCHANGED L!vars
  <2>1. UNCHANGED pointVars
    BY <1>2
    DEF Step, LockForRedeem, ReadBalance, LockPayment, ConfirmBooking, LockForCharge,
        CreditGuest, LockForCancel, AskRefund, ReadForClawBack, SweepBooking,
        BookingsSwept, SweepPayment, RefuseRedeem, RefuseAmount, IgnoreEvent,
        RefuseCharge, RefuseCancel, Victim, Crash, CommitUnrefunded, CommitSweep,
        LockGuest, Moved, Rollback
  <2> QED
    BY <2>1 DEF pointVars, L!vars
<1>3. CASE UNCHANGED vars
  BY <1>3 DEF vars, pointVars, L!vars
<1> QED
  BY <1>1, <1>2, <1>3 DEF Next, Idle

\* The transactions with their locks, deadlocks and crashes do to points, the
\* ledger and prices what Ledger allows in single steps.
THEOREM PointsTxnRefines == Spec => ImplementsLedger
<1>1. Init => L!Init
  BY DEF Init
<1> QED
  BY <1>1, Initially, NextKeepsIInv, StepRefines, PTL
  DEF Spec, ImplementsLedger, L!Spec

-----------------------------------------------------------------------------
(* Deadlocks.                                                              *)

\* Which stages there are in which transaction, and what has been locked by then.
Places ==
  \A t \in Txns :
     /\ pc[t] = "payment" => Op(t) = "event"
     /\ pc[t] = "swept" => Op(t) = "sweep"
     /\ pc[t] = "refunded" => Op(t) = "cancel"
     /\ Op(t) = "sweep" => pc[t] \in {"begun", "swept", "done"}
     /\ pc[t] \in {"booking", "refunded", "guest"} => lock[Booking(t)] = t
     /\ Op(t) = "event" /\ pc[t] \in {"payment", "booking", "guest"} => lock[Payment(t)] = t

\* Whose lock a row can be, and that what was seen of the row is still so: a webhook
\* has one payment, which is not paid; the job has bookings that it will expire and
\* pending payments of them.
Locking ==
  \A t \in Txns, x \in Lockable : lock[x] = t =>
     /\ pc[t] # "done"
     /\ pc[t] = "begun" => Op(t) = "sweep" /\ x \in SweptBookings
     /\ pc[t] = "payment" => x = Payment(t)
     /\ x \in Guests => pc[t] = "guest"
     /\ x \in Payments =>
          /\ Op(t) \in {"event", "cancel", "sweep"} /\ paid[x] # "none"
          /\ Op(t) = "event" => x = Payment(t) /\ paid[x] # "paid"
          /\ Op(t) = "sweep" => paid[x] = "pending" /\ lock[BookingOf[x]] = t
          /\ Op(t) = "cancel" => BookingOf[x] = Booking(t)

\* The payment of a card charge has no row before the charge commits, for it is made
\* while its booking is pending.
ChargesAreNew ==
  /\ \A t \in Txns : Op(t) = "charge" =>
        /\ Payment(t) \notin Attempted
        /\ pc[t] \in {"booking", "guest"} => status[Booking(t)] = "pending"
  /\ \A p \in Payments \ Attempted : paid[p] # "none" => status[BookingOf[p]] # "pending"

WaitInv == Places /\ Locking /\ ChargesAreNew

\* Rows of different tables are different rows.
LEMMA TablesApart ==
  /\ Lockable = Bookings \cup Payments \cup Guests
  /\ Bookings \cap Payments = {} /\ Bookings \cap Guests = {} /\ Payments \cap Guests = {}
  /\ \A p \in Payments : BookingOf[p] \in Bookings
  /\ NoOne \notin Txns
  BY PointsTxnAssumption DEF Lockable

\* A statement that locks a row, or none, and goes on.
LEMMA StatementKeepsWaits ==
  ASSUME IInv, WaitInv, NEW t \in Txns,
         \/ LockForRedeem(t) \/ ReadBalance(t) \/ LockPayment(t) \/ ConfirmBooking(t)
         \/ LockForCharge(t) \/ CreditGuest(t) \/ LockForCancel(t) \/ AskRefund(t)
         \/ ReadForClawBack(t) \/ SweepBooking(t) \/ BookingsSwept(t) \/ SweepPayment(t)
  PROVE  WaitInv'
<1> USE TablesApart
<1>0. /\ lock \in [Lockable -> Txns \cup {NoOne}] /\ pc \in [Txns -> Stages]
      /\ Booking(t) \in Bookings /\ Guest(t) \in Guests /\ Payment(t) \in Payments
      /\ ChargesOwn /\ lapsed \subseteq Bookings
  BY InputTypes DEF IInv, TypeOK
<1>1. /\ UNCHANGED <<req, status, lapsed, paid>>
      /\ \A u : Booking(u)' = Booking(u)
      /\ \A u \in Txns \ {t} : pc'[u] = pc[u]
      /\ \A x \in Lockable : lock[x] # NoOne => lock'[x] = lock[x]
      /\ \A x \in Lockable, u \in Txns \ {t} : lock'[x] = u => lock[x] = u
  BY <1>0, RequestKept
  DEF LockForRedeem, ReadBalance, LockPayment, ConfirmBooking, LockForCharge, CreditGuest,
      LockForCancel, AskRefund, ReadForClawBack, SweepBooking, BookingsSwept, SweepPayment,
      Moved, Goto, LockGuest, Take, Free, stateVars, SweptBookings, PaidOf, PendingOf
<1>2. SweptBookings' = SweptBookings
  BY <1>1 DEF SweptBookings
<1>3. Places'
  <2> SUFFICES ASSUME NEW u \in Txns
               PROVE  (/\ pc[u] = "payment" => Op(u) = "event"
                       /\ pc[u] = "swept" => Op(u) = "sweep"
                       /\ pc[u] = "refunded" => Op(u) = "cancel"
                       /\ Op(u) = "sweep" => pc[u] \in {"begun", "swept", "done"}
                       /\ pc[u] \in {"booking", "refunded", "guest"} => lock[Booking(u)] = u
                       /\ Op(u) = "event" /\ pc[u] \in {"payment", "booking", "guest"}
                            => lock[Payment(u)] = u)'
    BY DEF Places
  <2>1. CASE u # t
    BY <1>0, <1>1, <2>1, InputTypes DEF WaitInv, Places, IInv
  <2>2. CASE u = t
    BY <1>0, <1>1, <2>2
    DEF LockForRedeem, ReadBalance, LockPayment, ConfirmBooking, LockForCharge, CreditGuest,
        LockForCancel, AskRefund, ReadForClawBack, SweepBooking, BookingsSwept, SweepPayment,
        Moved, Goto, LockGuest, Take, Free, WaitInv, Places
  <2> QED
    BY <2>1, <2>2
<1>4. Locking'
  <2> SUFFICES ASSUME NEW u \in Txns, NEW x \in Lockable, lock'[x] = u
               PROVE  (/\ pc[u] # "done"
                       /\ pc[u] = "begun" => Op(u) = "sweep" /\ x \in SweptBookings
                       /\ pc[u] = "payment" => x = Payment(u)
                       /\ x \in Guests => pc[u] = "guest"
                       /\ x \in Payments =>
                            /\ Op(u) \in {"event", "cancel", "sweep"} /\ paid[x] # "none"
                            /\ Op(u) = "event" => x = Payment(u) /\ paid[x] # "paid"
                            /\ Op(u) = "sweep" => paid[x] = "pending" /\ lock[BookingOf[x]] = u
                            /\ Op(u) = "cancel" => BookingOf[x] = Booking(u))'
    BY DEF Locking
  <2>1. CASE u # t
    BY <1>0, <1>1, <1>2, <2>1 DEF WaitInv, Locking
  <2>2. CASE u = t /\ lock[x] = t
    BY <1>0, <1>1, <1>2, <2>2
    DEF LockForRedeem, ReadBalance, LockPayment, ConfirmBooking, LockForCharge, CreditGuest,
        LockForCancel, AskRefund, ReadForClawBack, SweepBooking, BookingsSwept, SweepPayment,
        Moved, Goto, LockGuest, Take, Free, WaitInv, Locking, Places
  <2>3. CASE u = t /\ lock[x] # t
    <3>0. /\ lock[x] = NoOne
          /\ \A y \in Lockable : lock[y] = t => y # x /\ lock'[y] = t
      BY <1>0, <1>1, <2>3
    <3>1. CASE SweepBooking(t)
      <4>1. x \in SweptBookings /\ pc'[t] = "begun" /\ req[t].op = "sweep"
        BY <1>0, <2>3, <3>1 DEF SweepBooking, Moved, Goto, Take, SweptBookings
      <4> QED
        BY <1>0, <1>1, <1>2, <2>3, <4>1 DEF SweptBookings
    <3>2. CASE SweepPayment(t)
      <4>1. /\ x \in Payments /\ lock[BookingOf[x]] = t /\ paid[x] = "pending"
            /\ pc'[t] = "swept" /\ req[t].op = "sweep"
        BY <1>0, <2>3, <3>2 DEF SweepPayment, Moved, Goto, Take, PendingOf
      <4>2. BookingOf[x] \in Lockable
        BY <4>1
      <4> QED
        BY <1>1, <2>3, <3>0, <4>1, <4>2
    <3>3. CASE AskRefund(t)
      <4>1. /\ x \in Payments /\ BookingOf[x] = Booking(t) /\ paid[x] = "paid"
            /\ pc'[t] = "refunded" /\ req[t].op = "cancel"
        BY <1>0, <2>3, <3>3 DEF AskRefund, Moved, Goto, Take, PaidOf
      <4> QED
        BY <1>1, <2>3, <4>1
    <3>4. CASE LockPayment(t)
      <4>1. /\ x = req[t].payment /\ paid[x] \notin {"none", "paid"}
            /\ pc'[t] = "payment" /\ req[t].op = "event"
        BY <1>0, <2>3, <3>4 DEF LockPayment, Moved, Goto, Take
      <4> QED
        BY <1>0, <1>1, <2>3, <4>1
    <3>5. CASE ReadBalance(t) \/ CreditGuest(t) \/ ReadForClawBack(t)
      <4>1. x \in Guests /\ pc'[t] = "guest"
        BY <1>0, <2>3, <3>5 DEF ReadBalance, CreditGuest, ReadForClawBack, LockGuest, Take, Goto
      <4> QED
        BY <1>1, <2>3, <4>1
    <3>6. CASE LockForRedeem(t) \/ ConfirmBooking(t) \/ LockForCharge(t) \/ LockForCancel(t)
      <4>1. x \in Bookings /\ pc'[t] = "booking"
        BY <1>0, <2>3, <3>6
        DEF LockForRedeem, ConfirmBooking, LockForCharge, LockForCancel, Moved, Take, Goto
      <4> QED
        BY <1>1, <2>3, <4>1
    <3>7. CASE BookingsSwept(t)
      BY <2>3, <3>7 DEF BookingsSwept
    <3> QED
      BY <3>1, <3>2, <3>3, <3>4, <3>5, <3>6, <3>7
  <2> QED
    BY <2>1, <2>2, <2>3
<1>5. ChargesAreNew'
  BY <1>0, <1>1
  DEF LockForRedeem, ReadBalance, LockPayment, ConfirmBooking, LockForCharge, CreditGuest,
      LockForCancel, AskRefund, ReadForClawBack, SweepBooking, BookingsSwept, SweepPayment,
      Moved, Goto, LockGuest, WaitInv, ChargesAreNew
<1> QED
  BY <1>3, <1>4, <1>5 DEF WaitInv

\* The end of a transaction that has written only rows it had, or a new payment of a
\* booking that is pending no more.
LEMMA EndKeepsWaits ==
  ASSUME IInv, WaitInv, NEW t \in Txns, End(t),
         \A b \in Bookings : status'[b] # status[b] => lock[b] = t /\ status'[b] # "pending",
         \A p \in Payments : paid'[p] # paid[p] =>
            lock[p] = t \/ (paid[p] = "none" /\ status'[BookingOf[p]] # "pending")
  PROVE  WaitInv'
<1> USE TablesApart
<1>0. /\ pc' = [pc EXCEPT ![t] = "done"] /\ pc \in [Txns -> Stages]
      /\ req' = req /\ lapsed' = lapsed
      /\ lock' = [x \in Lockable |-> IF lock[x] = t THEN NoOne ELSE lock[x]]
      /\ \A u : Booking(u)' = Booking(u)
      /\ \A u \in Txns : Booking(u) \in Bookings /\ Payment(u) \in Payments
      /\ lapsed \subseteq Bookings
  BY RequestKept, InputTypes DEF IInv, TypeOK, End, Goto
<1>1. Places'
  BY <1>0 DEF WaitInv, Places
<1>2. Locking'
  <2> SUFFICES ASSUME NEW u \in Txns, NEW x \in Lockable, lock'[x] = u
               PROVE  (/\ pc[u] # "done"
                       /\ pc[u] = "begun" => Op(u) = "sweep" /\ x \in SweptBookings
                       /\ pc[u] = "payment" => x = Payment(u)
                       /\ x \in Guests => pc[u] = "guest"
                       /\ x \in Payments =>
                            /\ Op(u) \in {"event", "cancel", "sweep"} /\ paid[x] # "none"
                            /\ Op(u) = "event" => x = Payment(u) /\ paid[x] # "paid"
                            /\ Op(u) = "sweep" => paid[x] = "pending" /\ lock[BookingOf[x]] = u
                            /\ Op(u) = "cancel" => BookingOf[x] = Booking(u))'
    BY DEF Locking
  <2>1. u # t /\ lock[x] = u /\ pc'[u] = pc[u]
    BY <1>0
  <2>2. x \in Bookings => status'[x] = status[x]
    BY <2>1
  <2>3. x \in Payments => paid'[x] = paid[x]
    BY <2>1 DEF WaitInv, Locking
  <2>4. \A y \in Lockable : lock[y] = u => lock'[y] = u
    BY <1>0, <2>1
  <2>5. x \in SweptBookings => x \in SweptBookings'
    BY <1>0, <2>2 DEF SweptBookings
  <2> QED
    BY <1>0, <2>1, <2>3, <2>4, <2>5 DEF WaitInv, Locking
<1>3. ChargesAreNew'
  <2>1. \A u \in Txns : Op(u)' = "charge" =>
           /\ Payment(u)' \notin Attempted
           /\ pc'[u] \in {"booking", "guest"} => status'[Booking(u)'] = "pending"
    BY <1>0 DEF WaitInv, ChargesAreNew, Places
  <2>2. ASSUME NEW p \in Payments \ Attempted, paid'[p] # "none"
        PROVE  status'[BookingOf[p]] # "pending"
    <3>1. CASE paid[p] = "none"
      BY <2>2, <3>1 DEF WaitInv, Locking
    <3>2. CASE paid[p] # "none"
      BY <3>2 DEF WaitInv, ChargesAreNew
    <3> QED
      BY <3>1, <3>2
  <2> QED
    BY <2>1, <2>2 DEF ChargesAreNew
<1> QED
  BY <1>1, <1>2, <1>3 DEF WaitInv

LEMMA CommitKeepsWaits ==
  ASSUME IInv, WaitInv, NEW t \in Txns,
         \/ Rollback(t) \/ CommitRedeem(t) \/ CommitSettled(t) \/ CommitUnrefunded(t)
         \/ CommitRefund(t) \/ CommitSweep(t)
  PROVE  WaitInv'
<1> USE TablesApart
<1>0. /\ status \in [Bookings -> {"pending", "confirmed", "cancelled", "expired"}]
      /\ paid \in [Payments -> {"none", "pending", "paid", "failed", "refunded"}]
      /\ pc \in [Txns -> Stages]
      /\ Booking(t) \in Bookings /\ Payment(t) \in Payments
      /\ Booking(t) = IF Op(t) = "event" THEN BookingOf[Payment(t)] ELSE req[t].booking
  BY InputTypes DEF IInv, TypeOK, Booking
<1>1. CASE Rollback(t) \/ CommitRedeem(t)
  BY <1>1, EndKeepsWaits DEF Rollback, CommitRedeem, pointVars
<1>2. CASE CommitUnrefunded(t) \/ CommitRefund(t)
  <2>0. status' = [status EXCEPT ![Booking(t)] = "cancelled"] /\ lock[Booking(t)] = t
    BY <1>2 DEF CommitUnrefunded, CommitRefund, Cancelled, WaitInv, Places
  <2>1. End(t)
    BY <1>2 DEF CommitUnrefunded, CommitRefund
  <2>2. \A p \in Payments : paid'[p] # paid[p] =>
           lock[p] = t \/ (paid[p] = "none" /\ status'[BookingOf[p]] # "pending")
    BY <1>0, <1>2 DEF CommitUnrefunded, CommitRefund, Refunded
  <2>3. \A b \in Bookings : status'[b] # status[b] => lock[b] = t /\ status'[b] # "pending"
    BY <1>0, <2>0
  <2> QED
    BY <2>1, <2>2, <2>3, EndKeepsWaits
<1>3. CASE CommitSweep(t)
  <2>1. End(t)
    BY <1>3 DEF CommitSweep
  <2>3. \A b \in Bookings : status'[b] # status[b] => lock[b] = t /\ status'[b] # "pending"
    BY <1>0, <1>3 DEF CommitSweep
  <2>2. \A p \in Payments : paid'[p] # paid[p] =>
           lock[p] = t \/ (paid[p] = "none" /\ status'[BookingOf[p]] # "pending")
    BY <1>0, <1>3 DEF CommitSweep, HoldAll
  <2> QED
    BY <2>1, <2>2, <2>3, EndKeepsWaits
<1>4. CASE CommitSettled(t)
  <2>1. /\ End(t) /\ status' = [status EXCEPT ![Booking(t)] = "confirmed"]
        /\ paid' = [paid EXCEPT ![Payment(t)] = "paid"]
        /\ pc[t] = "guest" /\ lock[Booking(t)] = t
        /\ Op(t) \in {"event", "charge"}
    BY <1>4 DEF CommitSettled, WaitInv, Places
  <2>2. Op(t) = "event" => lock[Payment(t)] = t
    BY <2>1 DEF WaitInv, Places
  <2>3. Op(t) = "charge" => paid[Payment(t)] = "none" /\ status'[BookingOf[Payment(t)]] # "pending"
    BY <1>0, <2>1 DEF WaitInv, ChargesAreNew, IInv, ChargesOwn
  <2>4. \A b \in Bookings : status'[b] # status[b] => lock[b] = t /\ status'[b] # "pending"
    BY <1>0, <2>1
  <2>5. \A p \in Payments : paid'[p] # paid[p] =>
           lock[p] = t \/ (paid[p] = "none" /\ status'[BookingOf[p]] # "pending")
    BY <1>0, <2>1, <2>2, <2>3
  <2> QED
    BY <2>1, <2>4, <2>5, EndKeepsWaits
<1> QED
  BY <1>1, <1>2, <1>3, <1>4

LEMMA NextKeepsWaits ==
  ASSUME IInv, WaitInv, [Next]_vars
  PROVE  WaitInv'
<1>1. CASE UNCHANGED vars
  BY <1>1 DEF vars, txnVars, stateVars, pointVars, WaitInv, Places, Locking, ChargesAreNew,
              Booking, SweptBookings
<1>2. ASSUME NEW t \in Txns, Step(t) \/ Crash(t)
      PROVE  WaitInv'
  BY <1>2, StatementKeepsWaits, CommitKeepsWaits
  DEF Step, Crash, RefuseRedeem, RefuseAmount, IgnoreEvent, RefuseCharge, RefuseCancel, Victim
<1> QED
  BY <1>1, <1>2 DEF Next, Idle

LEMMA InitWaits ==
  ASSUME Init
  PROVE  WaitInv
<1>1. \A t \in Txns : Op(t) = "charge" => Payment(t) \notin Attempted
  BY PointsTxnAssumption DEF Init
<1>2. ChargesAreNew
  BY <1>1, PointsTxnAssumption DEF Init, ChargesAreNew
<1> QED
  BY <1>2, TablesApart DEF Init, WaitInv, Places, Locking

LEMMA WaitsFollow == Spec => [](IInv /\ WaitInv)
  BY Initially, InitWaits, NextKeepsIInv, NextKeepsWaits, PTL DEF Spec

\* What is waited for, stage by stage.
LEMMA WantsAt ==
  ASSUME TypeOK, NEW t \in Txns
  PROVE  /\ pc[t] \in {"guest", "done"} => Wants(t) = {}
         /\ pc[t] = "refunded" /\ Op(t) = "cancel" => Wants(t) = {Guest(t)}
         /\ pc[t] = "booking" /\ Op(t) # "cancel" => Wants(t) = {Guest(t)}
         /\ pc[t] = "booking" /\ Op(t) = "cancel" => Wants(t) = PaidOf(Booking(t))
         /\ pc[t] = "payment" /\ Op(t) = "event" => Wants(t) = {Booking(t)}
         /\ pc[t] = "swept" /\ Op(t) = "sweep" => Wants(t) = PendingOf(t)
         /\ pc[t] = "begun" /\ Op(t) = "sweep" => Wants(t) = SweptBookings
<1>1. pc[t] \in {"guest", "done"} => Wants(t) = {}
  BY DEF Wants
<1>2. /\ pc[t] = "refunded" /\ Op(t) = "cancel" => Wants(t) = {Guest(t)}
      /\ pc[t] = "booking" /\ Op(t) # "cancel" => Wants(t) = {Guest(t)}
  BY DEF Wants
<1>3. pc[t] = "booking" /\ Op(t) = "cancel" => Wants(t) = PaidOf(Booking(t))
  BY DEF Wants
<1>4. pc[t] = "payment" /\ Op(t) = "event" => Wants(t) = {Booking(t)}
  BY DEF Wants
<1>5. pc[t] = "swept" /\ Op(t) = "sweep" => Wants(t) = PendingOf(t)
  BY DEF Wants
<1>6. pc[t] = "begun" /\ Op(t) = "sweep" => Wants(t) = SweptBookings
  BY DEF Wants
<1> QED
  BY <1>1, <1>2, <1>3, <1>4, <1>5, <1>6

\* Only rows are waited for.
LEMMA WantsLockable ==
  ASSUME TypeOK, NEW t \in Txns
  PROVE  Wants(t) \subseteq Lockable
<1>1. /\ SweptBookings \subseteq Bookings /\ PendingOf(t) \subseteq Payments
      /\ PaidOf(Booking(t)) \subseteq Payments
  BY DEF SweptBookings, PendingOf, PaidOf, TypeOK
<1> QED
  BY <1>1, InputTypes, TablesApart DEF Wants

\* Who has the guest's row is about to commit, and waits for nothing.
LEMMA GuestComesLast ==
  ASSUME IInv, WaitInv, NEW t \in Txns, NEW u \in Txns, WaitsFor(t, u),
         \/ pc[t] = "refunded"
         \/ pc[t] = "booking" /\ Op(t) # "cancel"
  PROVE  Wants(u) = {}
<1>1. TypeOK
  BY DEF IInv
<1>2. lock[Guest(t)] = u /\ Guest(t) \in Guests /\ Guest(t) \in Lockable
  BY <1>1, WantsAt, InputTypes DEF WaitsFor, WaitInv, Places
<1>3. pc[u] = "guest"
  BY <1>2 DEF WaitInv, Locking
<1> QED
  BY <1>1, <1>3, WantsAt

\* A cancellation waits for no paid payment that a webhook or a run of the job has,
\* for they have none, nor one that another cancellation of the booking has, for
\* there is no other.
LEMMA CancellationsWaitLittle ==
  ASSUME IInv, WaitInv, NEW t \in Txns, NEW u \in Txns,
         pc[t] = "booking", Op(t) = "cancel"
  PROVE  ~WaitsFor(t, u)
<1> SUFFICES ASSUME WaitsFor(t, u)
             PROVE  FALSE
  OBVIOUS
<1>1. TypeOK /\ pc[u] \in Stages
  BY DEF IInv, TypeOK
<1>2. PICK x \in PaidOf(Booking(t)) : lock[x] = u
  BY <1>1, WantsAt DEF WaitsFor
<1>3. x \in Payments /\ x \in Lockable /\ paid[x] = "paid" /\ BookingOf[x] = Booking(t) /\ t # u
  BY <1>2, TablesApart DEF PaidOf, WaitsFor
<1>4. Op(u) = "cancel" /\ BookingOf[x] = Booking(u) /\ pc[u] \notin {"begun", "done"}
  BY <1>2, <1>3 DEF WaitInv, Locking
<1>5. pc[u] \in {"booking", "refunded", "guest"}
  BY <1>1, <1>4 DEF Stages, WaitInv, Places
<1>6. lock[Booking(u)] = u /\ lock[Booking(t)] = t
  BY <1>5 DEF WaitInv, Places
<1> QED
  BY <1>3, <1>4, <1>6

LEMMA RequestsGoOn ==
  ASSUME IInv, WaitInv, NEW S \in SUBSET {t \in Txns : Op(t) # "sweep"},
         NEW t0 \in S, pc[t0] # "done",
         \A t \in S : pc[t] # "done" => \E u \in S : WaitsFor(t, u)
  PROVE  FALSE
<1> USE TablesApart
<1>0. /\ TypeOK /\ S \subseteq Txns /\ pc \in [Txns -> Stages]
      /\ \A t \in S : Booking(t) \in Bookings /\ Booking(t) \in Lockable /\ Payment(t) \in Payments
                      /\ Op(t) # "sweep"
  BY InputTypes DEF IInv, TypeOK
<1>1. \A t \in S : pc[t] # "guest"
  BY <1>0, WantsAt DEF WaitsFor
<1>2. ASSUME NEW t \in S, NEW u \in S, WaitsFor(t, u)
      PROVE  pc[u] # "done"
  BY <1>0, <1>2, WantsLockable DEF WaitInv, Locking, WaitsFor
<1>3. \A t \in S : pc[t] \notin {"booking", "refunded"}
  <2> SUFFICES ASSUME NEW t \in S, pc[t] \in {"booking", "refunded"}
               PROVE  FALSE
    OBVIOUS
  <2>1. PICK u \in S : WaitsFor(t, u)
    OBVIOUS
  <2>2. \E v \in S : WaitsFor(u, v)
    BY <1>2, <2>1
  <2>3. Wants(u) # {}
    BY <2>2 DEF WaitsFor
  <2> QED
    BY <1>0, <2>1, <2>3, GuestComesLast, CancellationsWaitLittle
<1>4. \A t \in S : pc[t] # "swept" /\ (pc[t] = "payment" => Op(t) = "event")
  BY <1>0 DEF WaitInv, Places
<1>5. \A t \in S : pc[t] # "payment"
  <2> SUFFICES ASSUME NEW t \in S, pc[t] = "payment"
               PROVE  FALSE
    OBVIOUS
  <2>1. PICK u \in S : WaitsFor(t, u)
    OBVIOUS
  <2>2. lock[Booking(t)] = u
    BY <1>0, <1>4, <2>1, WantsAt DEF WaitsFor
  <2>3. pc[u] \notin {"done", "begun", "payment"}
    BY <1>0, <2>2 DEF WaitInv, Locking
  <2> QED
    BY <1>0, <1>1, <1>3, <1>4, <2>3 DEF Stages
<1>6. \A t \in S : pc[t] \in {"begun", "done"}
  BY <1>0, <1>1, <1>3, <1>4, <1>5 DEF Stages
<1>7. PICK u \in S : WaitsFor(t0, u)
  OBVIOUS
<1>8. PICK x \in Lockable : lock[x] = u
  BY <1>0, <1>7, WantsLockable DEF WaitsFor
<1> QED
  BY <1>0, <1>6, <1>8 DEF WaitInv, Locking

\* Requests, card charges and webhooks always go on among themselves: only with a run
\* of the job in it can a circle of waiting transactions close.
THEOREM OnlyJobDeadlocks == Spec => []OnlyTheJobDeadlocks
<1>1. IInv /\ WaitInv => OnlyTheJobDeadlocks
  BY RequestsGoOn DEF OnlyTheJobDeadlocks
<1> QED
  BY <1>1, WaitsFollow, PTL

LEMMA ACircleHasAPair ==
  ASSUME IInv, WaitInv, NEW S \in SUBSET Txns, S # {},
         \A t \in S : \E u \in S : WaitsFor(t, u)
  PROVE  \E t, u \in S : WaitsFor(t, u) /\ WaitsFor(u, t)
<1> USE TablesApart
<1> SUFFICES ASSUME \A t, u \in S : ~(WaitsFor(t, u) /\ WaitsFor(u, t))
             PROVE  FALSE
  OBVIOUS
<1>0. /\ TypeOK /\ pc \in [Txns -> Stages]
      /\ \A t \in S : /\ Booking(t) \in Bookings /\ Booking(t) \in Lockable
                      /\ Op(t) = "event" => Booking(t) = BookingOf[Payment(t)]
                      /\ Payment(t) \in Payments
  BY InputTypes DEF IInv, TypeOK, Booking
<1>1. \A t \in S : Wants(t) # {}
  BY DEF WaitsFor
<1>2. \A t \in S : pc[t] \notin {"guest", "done", "booking", "refunded"}
  <2>1. \A t \in S : pc[t] \notin {"guest", "done"}
    BY <1>0, <1>1, WantsAt
  <2>2. \A t \in S : pc[t] \notin {"booking", "refunded"}
    BY <1>1, GuestComesLast, CancellationsWaitLittle
  <2> QED
    BY <2>1, <2>2
<1>3. \A t \in S : \/ pc[t] = "begun"
                   \/ pc[t] = "payment" /\ Op(t) = "event"
                   \/ pc[t] = "swept" /\ Op(t) = "sweep"
  BY <1>0, <1>2 DEF Stages, WaitInv, Places
<1>4. ASSUME NEW u \in S, NEW x \in Lockable, lock[x] = u
      PROVE  /\ pc[u] = "begun" => Op(u) = "sweep" /\ x \in SweptBookings
             /\ pc[u] = "payment" => x = Payment(u)
             /\ x \in Payments => Op(u) \in {"event", "sweep"}
             /\ x \in Payments /\ Op(u) = "sweep" => lock[BookingOf[x]] = u
             /\ x \in Payments /\ Op(u) = "event" => x = Payment(u)
  BY <1>0, <1>3, <1>4 DEF WaitInv, Locking
<1>5. \A t \in S : pc[t] # "swept"
  <2> SUFFICES ASSUME NEW t \in S, pc[t] = "swept"
               PROVE  FALSE
    OBVIOUS
  <2>1. PICK u \in S : WaitsFor(t, u)
    OBVIOUS
  <2>2. PICK x \in Payments : lock[x] = u /\ lock[BookingOf[x]] = t /\ t # u
    BY <1>0, <1>3, <2>1, WantsAt DEF WaitsFor, PendingOf
  <2>3. Op(u) = "event" /\ x = Payment(u)
    BY <1>4, <2>2
  <2>4. pc[u] = "payment"
    BY <1>3, <1>4, <2>2, <2>3
  <2>5. Wants(u) = {Booking(u)} /\ Booking(u) = BookingOf[x]
    BY <1>0, <2>3, <2>4, WantsAt
  <2>6. WaitsFor(u, t)
    BY <2>2, <2>5 DEF WaitsFor
  <2> QED
    BY <2>1, <2>6
\* A lock on a booking is one that a run of the job took which still locks bookings.
<1>6. ASSUME NEW u \in S, NEW x \in Bookings, lock[x] = u
      PROVE  pc[u] = "begun" /\ Op(u) = "sweep" /\ x \in SweptBookings /\ Wants(u) = SweptBookings
  BY <1>0, <1>3, <1>4, <1>5, <1>6, WantsAt
<1>7. PICK u \in S, y \in Bookings : lock[y] = u
  <2>1. PICK t \in S, v \in S : WaitsFor(t, v)
    OBVIOUS
  <2>2. PICK x \in Lockable : lock[x] = v
    BY <1>0, <2>1, WantsLockable DEF WaitsFor
  <2>3. CASE pc[v] = "begun"
    BY <1>4, <2>2, <2>3 DEF SweptBookings, IInv, TypeOK
  <2>4. CASE pc[v] = "payment"
    <3>1. Wants(v) = {Booking(v)}
      BY <1>0, <1>3, <2>4, WantsAt
    <3> QED
      BY <1>0, <3>1 DEF WaitsFor
  <2> QED
    BY <1>3, <1>5, <2>3, <2>4
<1>8. PICK v \in S : WaitsFor(u, v)
  OBVIOUS
<1>9. PICK x \in SweptBookings : lock[x] = v /\ u # v
  BY <1>6, <1>7, <1>8 DEF WaitsFor
<1>10. x \in Bookings
  BY <1>9 DEF SweptBookings, IInv, TypeOK
<1>11. WaitsFor(v, u)
  BY <1>6, <1>7, <1>9, <1>10 DEF WaitsFor
<1> QED
  BY <1>8, <1>11

\* A circle of any number of transactions holds two that wait for each other.
THEOREM CirclesHavePairs == Spec => []CirclesArePairs
<1>1. IInv /\ WaitInv => CirclesArePairs
  BY ACircleHasAPair DEF CirclesArePairs
<1> QED
  BY <1>1, WaitsFollow, PTL
=============================================================================
