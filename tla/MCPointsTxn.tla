----------------------------- MODULE MCPointsTxn -----------------------------
(* Values of PointsTxn's constants for TLC: two bookings of one guest. *)
EXTENDS PointsTxn

Do(op, p, b, n, refund) ==
  [op |-> op, payment |-> p, booking |-> b, points |-> n, refund |-> refund]

Event(p) == Do("event", p, "b1", 0, FALSE)
Charge(p, b) == Do("charge", p, b, 0, FALSE)
Redeem(b, n) == Do("redeem", "p1", b, n, FALSE)
Cancel(b, refund) == Do("cancel", "p1", b, 0, refund)
Sweep == Do("sweep", "p1", "b1", 0, FALSE)

MCBookings == {"b1", "b2"}
MCPayments == {"p1", "p2", "q"}
MCGuestOf == [b \in MCBookings |-> "ann"]
MCBookingOf == [p \in MCPayments |-> IF p = "p2" THEN "b2" ELSE "b1"]

\* Redemptions of one booking and of two, that one balance cannot pay both.
RedeemLoads == {<<Redeem("b1", 100), Redeem(b, 100), t, u>> :
                  b \in {"b1", "b2"}, t \in {Event("p1"), Charge("q", "b1")},
                  u \in {Sweep, Cancel("b1", TRUE), Redeem("b2", 60)}}

\* A booking that is paid, cancelled, paid late and cancelled again.
CancelLoads == {<<Event("p1"), Cancel("b1", TRUE), t, u>> :
                  t \in {Event("p1"), Charge("q", "b1"), Event("p2")},
                  u \in {Cancel("b1", TRUE), Cancel("b1", FALSE), Redeem("b2", 235), Sweep}}

\* Two runs of the job among the events of both bookings.
SweepLoads == {<<Sweep, Sweep, Event("p1"), t>> : t \in {Event("p2"), Cancel("b1", TRUE)}}

MCLoads == RedeemLoads \cup CancelLoads \cup SweepLoads
=============================================================================
