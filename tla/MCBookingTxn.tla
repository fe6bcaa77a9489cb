---------------------------- MODULE MCBookingTxn ----------------------------
(***************************************************************************)
(* Instances of BookingTxn for TLC.  One room of each of the types v and s,  *)
(* whose hashes collide.  A retry is a second request with the same input;   *)
(* requests that change places behave alike, so each load is listed once.    *)
(***************************************************************************)
EXTENDS BookingTxn, TLC

CONSTANTS v, s, ann, bob, k1, h1

Ask(rt, g, in, out, k) ==
  [roomType |-> rt, guest |-> g, checkin |-> in, checkout |-> out, key |-> k,
   complete |-> TRUE, listed |-> TRUE]

MCRooms == (v :> 1) @@ (s :> 1)
MCLockKey == (v :> h1) @@ (s :> h1)

\* The last room of v: two stays that share a night and one that does not, with
\* and without a key; a wrong branch and a stay of no nights.
Keyed == Ask(v, ann, 0, 2, k1)
KeyedByBob == Ask(v, bob, 0, 1, k1)
Unkeyed == Ask(v, bob, 1, 2, NoKey)
Unlisted == [Ask(v, bob, 0, 1, NoKey) EXCEPT !.listed = FALSE]
NoNights == Ask(v, bob, 1, 1, NoKey)
\* A room of the other type, behind the same hash.
OtherType == Ask(s, ann, 0, 1, NoKey)

MCLoads ==
  {<<Keyed, Keyed, Unkeyed>>, <<Keyed, KeyedByBob, Unkeyed>>, <<Unkeyed, Unkeyed, Unlisted>>,
   <<Keyed, Keyed, OtherType>>, <<Keyed, Unkeyed, OtherType>>, <<Keyed, Unkeyed, NoNights>>}

MCPairs == {<<Keyed, Keyed>>, <<Keyed, KeyedByBob>>, <<Unkeyed, Unkeyed>>}
=============================================================================
