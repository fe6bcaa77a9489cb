-------------------------------- MODULE Ledger -------------------------------
(***************************************************************************)
(* What the loyalty programme promises, without locks, reads and            *)
(* transactions: each change of a guest's points is one step that moves the *)
(* balance and writes the ledger, and a discount comes off the price in the *)
(* same step.                                                              *)
(***************************************************************************)
EXTENDS Pricing, Sequences

CONSTANTS
  Bookings,
  Guests,
  GuestOf,    \* GuestOf[b]: the guest of booking b
  FullPrice,  \* total_price of a booking before any discount
  Bonus,      \* WELCOME_BONUS_POINTS
  NoBooking   \* the booking of a ledger row that has none

VARIABLES
  balance,  \* balance[g]: the points of guest g
  ledger,   \* ledger[g]: the changes of them, in order
  price     \* price[b]: what booking b costs

vars == <<balance, ledger, price>>

Entry == [booking : Bookings \cup {NoBooking},
          type : {"bonus", "earn", "redeem", "adjustment"},
          change : Int, after : Nat]

Welcome == [booking |-> NoBooking, type |-> "bonus", change |-> Bonus, after |-> Bonus]

Init ==
  /\ balance = [g \in Guests |-> Bonus]
  /\ ledger = [g \in Guests |-> <<Welcome>>]
  /\ price = [b \in Bookings |-> FullPrice]

\* The ledger rows of booking b that have a type.
Rows(b, type) == {i \in DOMAIN ledger[GuestOf[b]] :
                    /\ ledger[GuestOf[b]][i].booking = b
                    /\ ledger[GuestOf[b]][i].type = type}

\* The balance of b's guest becomes `after`.
Post(b, type, after) ==
  LET g == GuestOf[b]
  IN  /\ balance' = [balance EXCEPT ![g] = after]
      /\ ledger' = [ledger EXCEPT ![g] =
           Append(@, [booking |-> b, type |-> type,
                      change |-> after - balance[g], after |-> after])]

Earn(b) ==
  /\ Post(b, "earn", balance[GuestOf[b]] + EarnPoints(price[b]))
  /\ UNCHANGED price

Redeem(b, n) ==
  /\ Rows(b, "redeem") = {}
  /\ n \in MinRedeemPoints .. MaxDiscount(price[b])
  /\ n <= balance[GuestOf[b]]
  /\ Post(b, "redeem", balance[GuestOf[b]] - n)
  /\ price' = [price EXCEPT ![b] = @ - n]

TakeBack(b, n) ==
  /\ n <= balance[GuestOf[b]]
  /\ \E i \in Rows(b, "earn") : n <= ledger[GuestOf[b]][i].change
  /\ Post(b, "adjustment", balance[GuestOf[b]] - n)
  /\ UNCHANGED price

Next ==
  \E b \in Bookings :
     \/ Earn(b)
     \/ \E n \in 0 .. balance[GuestOf[b]] : Redeem(b, n) \/ TakeBack(b, n)

Spec == Init /\ [][Next]_vars
=============================================================================
