------------------------------- MODULE Pricing ------------------------------
(***************************************************************************)
(* The arithmetic of the booking price, the loyalty points and the          *)
(* cancellation fee.  Amounts are whole baht, except the price of a night,  *)
(* which NUMERIC(10,2) keeps in satang.  Math.round(n / d) of a quotient of  *)
(* naturals rounds halves up.                                              *)
(***************************************************************************)
EXTENDS Integers

RoundDiv(n, d) == (2 * n + d) \div (2 * d)

\* createBooking: room charge, 10% service charge, 7% VAT on both.
RoomTotal(satangPerNight, nights) == RoundDiv(satangPerNight * nights, 100)

TotalPrice(satangPerNight, nights) ==
  LET roomTotal == RoomTotal(satangPerNight, nights)
      serviceCharge == RoundDiv(roomTotal, 10)
      vat == RoundDiv((roomTotal + serviceCharge) * 7, 100)
  IN  roomTotal + serviceCharge + vat

\* earnPointsForBooking: 2% of the total.
EarnPoints(total) == RoundDiv(total * 2, 100)

\* redeemPoints: at least 100 points, a point is one baht, at most half of the
\* total.
MinRedeemPoints == 100
MaxDiscount(total) == total \div 2

\* calculateCancellationFee: full refund 72 hours before check-in, half of it 24
\* hours before, nothing later.
CancellationFee(hours, paid) ==
  IF hours >= 72 THEN 0 ELSE IF hours >= 24 THEN RoundDiv(paid, 2) ELSE paid

Refund(hours, paid) == paid - CancellationFee(hours, paid)
=============================================================================
