------------------------------- MODULE Sessions ------------------------------
(***************************************************************************)
(* The tables of 003_auth.sql and 004_staff_status.sql that authService.js  *)
(* and staffService.js share: the accounts (guests and staff) and the       *)
(* refresh tokens.  A token has the id of the request that issues it.       *)
(***************************************************************************)
EXTENDS AuthData

CONSTANTS
  Old,        \* Old[t]: the owner of token t, issued before the first request
  Members,    \* those that exist at the start
  NoAccount,  \* no account
  NoToken     \* no token

VARIABLES
  account,  \* account[a]: "absent", "active", or "disabled" (is_active = false)
  token,    \* refresh_tokens, by id
  family    \* history: the token that the login of t began with

sessionVars == <<account, token, family>>

Tokens == Requests \cup DOMAIN Old

Token == [owner : Accounts, revoked : BOOLEAN, expired : BOOLEAN]

ASSUME SessionsAssumption ==
  /\ Old \in [DOMAIN Old -> Members]
  /\ DOMAIN Old \cap Requests = {}
  /\ Members \subseteq Accounts
  /\ NoAccount \notin Accounts
  /\ NoToken \notin Token /\ NoToken \notin Tokens

SessionTypeOK ==
  /\ account \in [Accounts -> {"absent", "active", "disabled"}]
  /\ token \in [Tokens -> Token \cup {NoToken}]
  /\ family \in [Tokens -> Tokens \cup {NoToken}]

New(a) == [owner |-> a, revoked |-> FALSE, expired |-> FALSE]

SessionInit ==
  /\ account = [a \in Accounts |-> IF a \in Members THEN "active" ELSE "absent"]
  /\ token = [t \in Tokens |-> IF t \in DOMAIN Old THEN New(Old[t]) ELSE NoToken]
  /\ family = [t \in Tokens |-> IF t \in DOMAIN Old THEN t ELSE NoToken]

Active(a) == account[a] = "active"
Issued(t) == t \in Tokens /\ token[t] # NoToken
Unrevoked(t) == Issued(t) /\ ~token[t].revoked
LiveOf(a) == {t \in Tokens : Unrevoked(t) /\ token[t].owner = a}

-----------------------------------------------------------------------------
(* Statements, each as it becomes visible when its transaction commits.     *)

\* issueTokenPair, in a transaction of its own.
IssueToken(t, a) ==
  /\ token' = [token EXCEPT ![t] = New(a)]
  /\ family' = [family EXCEPT ![t] = t]

\* Mutant of Rotate: the token presented stays valid.
RotateWithoutRevoking(t, new) ==
  /\ token' = [token EXCEPT ![new] = New(token[t].owner)]
  /\ family' = [family EXCEPT ![new] = family[t]]

\* The revocation and the new token of refreshTokens commit together.
Rotate(t, new) ==
  /\ token' = [token EXCEPT ![t].revoked = TRUE, ![new] = New(token[t].owner)]
  /\ family' = [family EXCEPT ![new] = family[t]]

\* UPDATE refresh_tokens SET revoked_at = now() WHERE ... revoked_at IS NULL.
RevokeTokens(S) ==
  /\ token' = [t \in Tokens |-> IF t \in S /\ Unrevoked(t)
                                THEN [token[t] EXCEPT !.revoked = TRUE]
                                ELSE token[t]]
  /\ UNCHANGED family

\* Time passes expires_at, whatever transactions are open.
Expire(t) ==
  /\ Issued(t)
  /\ ~token[t].expired
  /\ token' = [token EXCEPT ![t].expired = TRUE]
  /\ UNCHANGED <<account, family>>

SetAccount(a, status) == account' = [account EXCEPT ![a] = status]
=============================================================================
