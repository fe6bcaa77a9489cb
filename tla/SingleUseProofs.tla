--------------------------- MODULE SingleUseProofs ---------------------------
(***************************************************************************)
(* That a token which is exchanged for one other leaves each login with at  *)
(* most one: the argument behind the rotation of refresh tokens.            *)
(***************************************************************************)
EXTENDS SingleUse, TLAPS

\* A live token was issued, and so was the token that its login began with.
IInv ==
  /\ live \subseteq Tokens
  /\ family \in [Tokens -> Tokens \cup {Unissued}]
  /\ \A t \in live : family[t] # Unissued
  /\ \A t \in Tokens : family[t] # Unissued => family[family[t]] # Unissued
  /\ OneLivePerLogin

\* However often tokens are issued, exchanged and revoked, no login has two
\* tokens that can be exchanged.
THEOREM OneTokenPerLogin ==
  ASSUME Unissued \notin Tokens
  PROVE  Spec => []OneLivePerLogin
<1>1. Init => IInv
  BY DEF Init, IInv, OneLivePerLogin
<1>2. IInv /\ [Next]_vars => IInv'
  <2> SUFFICES ASSUME IInv, [Next]_vars
               PROVE  IInv'
    OBVIOUS
  <2> USE DEF IInv, OneLivePerLogin
  <2>1. ASSUME NEW t \in Tokens, Issue(t)
        PROVE  IInv'
    BY <2>1 DEF Issue
  <2>2. ASSUME NEW t \in Tokens, NEW new \in Tokens, Exchange(t, new)
        PROVE  IInv'
    BY <2>2 DEF Exchange
  <2>3. ASSUME NEW dying \in SUBSET live, Revoke(dying)
        PROVE  IInv'
    BY <2>3 DEF Revoke
  <2>4. CASE UNCHANGED vars
    BY <2>4 DEF vars
  <2> QED
    BY <2>1, <2>2, <2>3, <2>4 DEF Next
<1>3. IInv => OneLivePerLogin
  BY DEF IInv
<1> QED
  BY <1>1, <1>2, <1>3, PTL DEF Spec
=============================================================================
