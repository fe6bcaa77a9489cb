------------------------------ MODULE SingleUse ------------------------------
(***************************************************************************)
(* What the sessions promise: a login starts a family of refresh tokens, a  *)
(* token is exchanged for the next of its family in one step and dies of    *)
(* it, and a dead token stays dead.                                         *)
(***************************************************************************)
CONSTANTS
  Tokens,
  Unissued  \* the family of a token that was never issued

VARIABLES
  live,   \* the tokens not revoked
  family  \* family[t]: the first token of the login t descends from

vars == <<live, family>>

\* The tokens issued before the behaviour starts are of a family each.
Init ==
  /\ live \in SUBSET Tokens
  /\ family = [t \in Tokens |-> IF t \in live THEN t ELSE Unissued]

Issue(t) ==
  /\ family[t] = Unissued
  /\ live' = live \cup {t}
  /\ family' = [family EXCEPT ![t] = t]

Exchange(t, new) ==
  /\ t \in live
  /\ family[new] = Unissued
  /\ live' = (live \ {t}) \cup {new}
  /\ family' = [family EXCEPT ![new] = family[t]]

Revoke(dying) ==
  /\ live' = live \ dying
  /\ UNCHANGED family

Next ==
  \/ \E t \in Tokens : Issue(t)
  \/ \E t, new \in Tokens : Exchange(t, new)
  \/ \E dying \in SUBSET live : Revoke(dying)

Spec == Init /\ [][Next]_vars

\* No login has two tokens that can be exchanged.
OneLivePerLogin == \A t, u \in live : family[t] = family[u] => t = u
=============================================================================
