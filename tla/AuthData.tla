------------------------------ MODULE AuthData -------------------------------
(***************************************************************************)
(* What RateLimit and Sessions have in common: who asks, and for whom.      *)
(***************************************************************************)
EXTENDS Integers, FiniteSets

CONSTANTS
  Requests,  \* requests to the auth and staff routes, by id
  Accounts   \* rows of guests and staff, one for each (login type, email)

ASSUME AuthDataAssumption == IsFiniteSet(Requests)
=============================================================================
