----------------------------- MODULE MCPayments -----------------------------
(***************************************************************************)
(* Instances of Payments for TLC: one room, one guest, one night at 400      *)
(* baht, so a total of 471 baht, 9 points earned and 235 at most redeemed.  *)
(***************************************************************************)
EXTENDS Payments, TLC

CONSTANTS v, ann

MCRooms == v :> 1

Symmetric == Permutations(Ids) \cup Permutations(PayIds)
=============================================================================
