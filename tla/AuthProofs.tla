----------------------------- MODULE AuthProofs ------------------------------
(***************************************************************************)
(* Theorems about AuthRoutes: its types, the bound on failed logins, the    *)
(* single use of refresh tokens, that only time undoes a limit, and that a   *)
(* disabled account gets no token, for any number of requests, accounts,    *)
(* addresses and tokens.                                                   *)
(***************************************************************************)
EXTENDS AuthRoutes, FiniteSetTheorems, TLAPS

USE DEF At, Op, Account, Ip, Presented

-----------------------------------------------------------------------------
(* Types.                                                                  *)

\* The next stage is one, and `vouched` keeps its type, however a request moves.
LEMMA GotoTypes ==
  ASSUME TypeOK, NEW r \in Requests, NEW stage \in Stages, Goto(r, stage)
  PROVE  pc' \in [Requests -> Stages] /\ vouched' \in SUBSET Requests
  BY DEF Goto, TypeOK, InFlight

LEMMA MoveTypes ==
  ASSUME TypeOK, NEW r \in Requests, NEW stage \in Stages, Move(r, stage)
  PROVE  TypeOK'
<1>1. pc' \in [Requests -> Stages] /\ vouched' \in SUBSET Requests
  BY GotoTypes DEF Move
<1> QED
  BY <1>1 DEF Move, TypeOK, LimitTypeOK, SessionTypeOK, limitVars, sessionVars

\* What the statements on the token table write are tokens.
TokensTyped ==
  /\ token \in [Tokens -> Token \cup {NoToken}]
  /\ family \in [Tokens -> Tokens \cup {NoToken}]

LEMMA IssueTypes ==
  ASSUME TokensTyped, NEW t \in Tokens, NEW a \in Accounts, IssueToken(t, a)
  PROVE  TokensTyped'
  BY DEF TokensTyped, IssueToken, New, Token

LEMMA RotateTypes ==
  ASSUME TokensTyped, NEW t \in Tokens, NEW new \in Tokens, Issued(t), Rotate(t, new)
  PROVE  TokensTyped'
  BY DEF TokensTyped, Rotate, New, Token, Issued

LEMMA RevokeTypes ==
  ASSUME TokensTyped, NEW S, RevokeTokens(S)
  PROVE  TokensTyped'
  BY DEF TokensTyped, RevokeTokens, Token, Issued, Unrevoked

LEMMA InputTypes ==
  ASSUME TypeOK, NEW r \in Requests
  PROVE  /\ Account(r) \in Accounts
         /\ Presented(r) \in Tokens \cup {NoToken}
         /\ r \in Tokens
  BY DEF TypeOK, Input, Tokens

-----------------------------------------------------------------------------
(* The inductive invariant.                                                *)

Refreshing(r) == Op(r) = "refresh" /\ pc[r] \in {"locked", "checked"}

\* The row of a token that a refresh works on is locked by it alone.
LocksExclude ==
  /\ \A r \in Requests : Refreshing(r) => Unrevoked(Presented(r))
  /\ \A q, r \in Requests :
        Refreshing(q) /\ Refreshing(r) /\ Presented(q) = Presented(r) => q = r

\* A token is issued once, at the end of its request, and has a family that
\* begins with an issued token.
Lineage ==
  /\ \A r \in Requests : Issued(r) => pc[r] \in {"issued", "failed", "done"}
  /\ \A t \in Tokens : token[t] # NoToken <=> family[t] # NoToken
  /\ \A t \in Tokens : family[t] # NoToken => family[family[t]] # NoToken

Crowd == Cardinality(InFlight) <= MaxInFlight

IInv ==
  /\ TypeOK
  /\ LocksExclude
  /\ Lineage
  /\ OneLivePerLogin
  /\ Crowd
  /\ AttemptsBounded

SessionInv == LocksExclude /\ Lineage /\ OneLivePerLogin

-----------------------------------------------------------------------------
(* Types.                                                                  *)

LEMMA StepTypes ==
  ASSUME TypeOK, SessionInv, NEW r \in Requests, Step(r)
  PROVE  TypeOK'
<1> USE DEF Stages
<1>0. /\ Account(r) \in Accounts /\ Ip(r) \in Ips /\ r \in Tokens
      /\ Presented(r) \in Tokens \cup {NoToken}
  BY InputTypes DEF TypeOK, Input
<1>1. ASSUME NEW stage \in Stages, Move(r, stage)
      PROVE  TypeOK'
  BY <1>1, MoveTypes
<1>2. ASSUME NEW stage \in Stages, Goto(r, stage),
             TokensTyped',
             account' \in [Accounts -> {"absent", "active", "disabled"}],
             marked' \in [Requests -> SUBSET Tokens],
             fresh' \in [Requests -> BOOLEAN],
             attempts' \in [Requests -> Attempt \cup {NoRow}],
             registrations' \in [Requests -> Registration \cup {NoRow}],
             UNCHANGED <<req, skipped>>
      PROVE  TypeOK'
  BY <1>2, GotoTypes DEF TypeOK, LimitTypeOK, SessionTypeOK, TokensTyped
<1>3. CASE \/ CheckEmail(r) \/ CheckIp(r) \/ Verify(r) \/ CheckRegistrations(r)
           \/ LookUpEmail(r) \/ InsertGuest(r) \/ RecordSuccess(r) \/ LockToken(r)
           \/ CheckSubject(r) \/ LookUpNewStaff(r) \/ LookUpStaff(r)
  BY <1>1, <1>3 DEF CheckEmail, CheckIp, Verify, CheckRegistrations, LookUpEmail,
                    InsertGuest, RecordSuccess, LockToken, CheckSubject,
                    LookUpNewStaff, LookUpStaff
<1>4. CASE IssuePair(r) \/ CommitGuest(r)
  <2>1. TokensTyped'
    BY <1>0, <1>4, IssueTypes DEF IssuePair, CommitGuest, TypeOK, SessionTypeOK, TokensTyped
  <2>2. account' \in [Accounts -> {"absent", "active", "disabled"}]
    BY <1>0, <1>4 DEF IssuePair, CommitGuest, SetAccount, TypeOK, SessionTypeOK
  <2> QED
    BY <1>2, <1>4, <2>1, <2>2
    DEF IssuePair, CommitGuest, TypeOK, LimitTypeOK, limitVars
<1>5. CASE RecordFailure(r) \/ RecordRegistrationAttempt(r)
  <2>1. /\ attempts' \in [Requests -> Attempt \cup {NoRow}]
        /\ registrations' \in [Requests -> Registration \cup {NoRow}]
    BY <1>0, <1>5, RateLimitAssumption
    DEF RecordFailure, RecordRegistrationAttempt, RecordAttempt, RecordRegistration,
        Attempt, Registration, Ages, TypeOK, LimitTypeOK
  <2> QED
    BY <1>2, <1>5, <2>1
    DEF RecordFailure, RecordRegistrationAttempt, TypeOK, SessionTypeOK,
        TokensTyped, sessionVars
<1>6. CASE BeginRefresh(r)
  <2>1. fresh' \in [Requests -> BOOLEAN]
    BY <1>6 DEF BeginRefresh, TypeOK, SessionTypeOK
  <2> QED
    BY <1>2, <1>6, <2>1
    DEF BeginRefresh, TypeOK, SessionTypeOK, LimitTypeOK, TokensTyped,
        limitVars, sessionVars
<1>7. CASE CommitRefresh(r) \/ Logout(r) \/ RevokeMarked(r)
  <2>1. TokensTyped'
    <3>1. CASE CommitRefresh(r)
      <4>1. Presented(r) \in Tokens /\ Issued(Presented(r))
        BY <3>1 DEF CommitRefresh, SessionInv, LocksExclude, Refreshing, Unrevoked, Issued
      <4> QED
        BY <1>0, <3>1, <4>1, RotateTypes
        DEF CommitRefresh, TypeOK, SessionTypeOK, TokensTyped
    <3> QED
      BY <1>7, <3>1, RevokeTypes
      DEF Logout, RevokeMarked, TypeOK, SessionTypeOK, TokensTyped
  <2>2. marked' \in [Requests -> SUBSET Tokens]
    BY <1>7 DEF CommitRefresh, Logout, RevokeMarked, TypeOK
  <2> QED
    BY <1>2, <1>7, <2>1, <2>2
    DEF CommitRefresh, Logout, RevokeMarked, TypeOK, SessionTypeOK, LimitTypeOK, limitVars
<1>8. CASE InsertStaff(r) \/ Disable(r) \/ Enable(r)
  <2>1. account' \in [Accounts -> {"absent", "active", "disabled"}]
    BY <1>0, <1>8 DEF InsertStaff, Disable, Enable, SetAccount, TypeOK, SessionTypeOK
  <2> QED
    BY <1>2, <1>8, <2>1
    DEF InsertStaff, Disable, Enable, TypeOK, SessionTypeOK, LimitTypeOK, TokensTyped,
        limitVars
<1>9. CASE MarkTokens(r)
  <2>1. marked' \in [Requests -> SUBSET Tokens]
    BY <1>9 DEF MarkTokens, LiveOf, TypeOK
  <2> QED
    BY <1>2, <1>9, <2>1
    DEF MarkTokens, TypeOK, SessionTypeOK, LimitTypeOK, TokensTyped,
        limitVars, sessionVars
<1> QED
  BY <1>3, <1>4, <1>5, <1>6, <1>7, <1>8, <1>9 DEF Step

-----------------------------------------------------------------------------
(* Sessions.                                                               *)

\* A request that writes no token breaks nothing if it enters the section that
\* a lock guards with an unrevoked token that no other works on.
LEMMA MovesKeepSessions ==
  ASSUME TypeOK, SessionInv, NEW r \in Requests, NEW stage \in Stages,
         Goto(r, stage), UNCHANGED <<token, family, req>>,
         Issued(r) => stage \in {"issued", "failed", "done"},
         Op(r) = "refresh" /\ stage \in {"locked", "checked"}
           => /\ Unrevoked(Presented(r))
              /\ \A q \in Requests :
                   Refreshing(q) /\ Presented(q) = Presented(r) => q = r
  PROVE  SessionInv'
<1> USE DEF SessionInv
<1>1. pc' = [pc EXCEPT ![r] = stage] /\ pc \in [Requests -> Stages]
  BY DEF Goto, TypeOK
<1>2. \A t : (Unrevoked(t)' <=> Unrevoked(t)) /\ (Issued(t)' <=> Issued(t))
  BY DEF Unrevoked, Issued
<1>3. \A q \in Requests : q # r => (Refreshing(q)' <=> Refreshing(q))
  BY <1>1 DEF Refreshing
<1>4. Refreshing(r)' => Op(r) = "refresh" /\ stage \in {"locked", "checked"}
  BY <1>1 DEF Refreshing
<1>5. LocksExclude'
  BY <1>2, <1>3, <1>4 DEF LocksExclude
<1>6. Lineage'
  BY <1>1, <1>2 DEF Lineage
<1>7. OneLivePerLogin'
  BY <1>2 DEF OneLivePerLogin
<1> QED
  BY <1>5, <1>6, <1>7

\* A request issues the token of its own id, which did not exist.
LEMMA IssueKeepsSessions ==
  ASSUME TypeOK, SessionInv, NEW r \in Requests, IssuePair(r) \/ CommitGuest(r)
  PROVE  SessionInv'
<1> USE DEF SessionInv
<1>1. /\ r \in Tokens /\ Account(r) \in Accounts /\ NoToken \notin Tokens
      /\ New(Account(r)) # NoToken /\ ~New(Account(r)).revoked
  <2>1. r \in Tokens /\ Account(r) \in Accounts
    BY InputTypes
  <2>2. New(Account(r)) \in Token /\ ~New(Account(r)).revoked
    BY <2>1 DEF New, Token
  <2> QED
    BY <2>1, <2>2, SessionsAssumption
<1>2. PICK stage \in {"issued", "failed"} : pc' = [pc EXCEPT ![r] = stage]
  BY DEF IssuePair, CommitGuest, Goto
<1>3. /\ token' = [token EXCEPT ![r] = New(Account(r))]
      /\ family' = [family EXCEPT ![r] = r]
      /\ req' = req /\ Op(r) # "refresh"
  BY DEF IssuePair, CommitGuest, IssueToken
<1>4. ~Issued(r) /\ token[r] = NoToken /\ family[r] = NoToken
  BY <1>1 DEF IssuePair, CommitGuest, Lineage, Issued
<1>5. /\ pc \in [Requests -> Stages]
      /\ token \in [Tokens -> Token \cup {NoToken}]
      /\ family \in [Tokens -> Tokens \cup {NoToken}]
  BY DEF TypeOK, SessionTypeOK
<1>6. \A t : t # r => (Unrevoked(t)' <=> Unrevoked(t)) /\ (Issued(t)' <=> Issued(t))
  BY <1>3, <1>5 DEF Unrevoked, Issued
<1>7. \A q \in Requests : Refreshing(q)' => Refreshing(q)
  BY <1>2, <1>3, <1>5 DEF Refreshing
<1>8. ~Unrevoked(r)
  BY <1>4 DEF Unrevoked
<1>9. LocksExclude'
  BY <1>3, <1>6, <1>7, <1>8 DEF LocksExclude
<1>10. Lineage'
  <2>1. \A q \in Requests : Issued(q)' => pc'[q] \in {"issued", "failed", "done"}
    BY <1>2, <1>5, <1>6 DEF Lineage
  <2>2. \A t \in Tokens : token'[t] # NoToken <=> family'[t] # NoToken
    BY <1>1, <1>3, <1>5 DEF Lineage
  <2>3. \A t \in Tokens : family'[t] # NoToken => family'[family'[t]] # NoToken
    BY <1>1, <1>3, <1>5 DEF Lineage
  <2> QED
    BY <2>1, <2>2, <2>3 DEF Lineage
<1>11. OneLivePerLogin'
  <2> SUFFICES ASSUME NEW t \in Tokens, NEW u \in Tokens,
                      Unrevoked(t)', Unrevoked(u)', family'[t] = family'[u]
               PROVE  t = u
    BY DEF OneLivePerLogin
  <2>1. \A v \in Tokens : v # r => family[v] # r
    BY <1>1, <1>4 DEF Lineage
  <2>2. CASE t # r /\ u # r
    BY <1>3, <1>5, <1>6, <2>2 DEF OneLivePerLogin
  <2> QED
    BY <1>1, <1>3, <1>5, <2>1, <2>2
<1> QED
  BY <1>9, <1>10, <1>11

\* The lock makes the presented token the live one of its login until the new
\* one takes its place.
LEMMA RotateKeepsSessions ==
  ASSUME TypeOK, SessionInv, NEW r \in Requests, CommitRefresh(r)
  PROVE  SessionInv'
<1> USE DEF SessionInv
<1> DEFINE old == Presented(r)
<1>1. r \in Tokens /\ NoToken \notin Tokens
  BY InputTypes, SessionsAssumption
<1>2. /\ pc \in [Requests -> Stages] /\ pc' = [pc EXCEPT ![r] = "done"]
      /\ token \in [Tokens -> Token \cup {NoToken}]
      /\ family \in [Tokens -> Tokens \cup {NoToken}]
      /\ req' = req
  BY DEF TypeOK, SessionTypeOK, CommitRefresh, Goto
<1>3. Refreshing(r)
  BY DEF CommitRefresh, Refreshing
<1>4. old \in Tokens /\ token[old] \in Token /\ Unrevoked(old)
  BY <1>2, <1>3 DEF LocksExclude, Unrevoked, Issued
<1>5. ~Issued(r) /\ token[r] = NoToken /\ family[r] = NoToken /\ old # r
  BY <1>1, <1>4 DEF CommitRefresh, Lineage, Issued, Unrevoked
<1>6. /\ token' = [token EXCEPT ![old].revoked = TRUE, ![r] = New(token[old].owner)]
      /\ family' = [family EXCEPT ![r] = family[old]]
  BY DEF CommitRefresh, Rotate
<1>7. /\ token'[r] = New(token[old].owner) /\ token'[r] # NoToken
      /\ token'[old] # NoToken /\ token'[old].revoked
  <2>1. token'[r] = New(token[old].owner)
    BY <1>1, <1>2, <1>6
  <2>2. New(token[old].owner) \in Token
    BY <1>4 DEF New, Token
  <2>3. token'[old] \in Token /\ token'[old].revoked
    BY <1>2, <1>4, <1>5, <1>6 DEF Token
  <2> QED
    BY <2>1, <2>2, <2>3, SessionsAssumption
<1>8. \A t : t # r /\ t # old
             => (Unrevoked(t)' <=> Unrevoked(t)) /\ (Issued(t)' <=> Issued(t))
  BY <1>2, <1>6 DEF Unrevoked, Issued
<1>9. \A q \in Requests : Refreshing(q)' => Refreshing(q) /\ q # r
  BY <1>2 DEF Refreshing
<1>10. \A q \in Requests : Refreshing(q)' => Presented(q) # r /\ Presented(q) # old
  BY <1>3, <1>5, <1>9 DEF LocksExclude, Unrevoked
<1>11. LocksExclude'
  BY <1>2, <1>8, <1>9, <1>10 DEF LocksExclude
<1>12. Lineage'
  <2>1. \A q \in Requests : Issued(q)' => pc'[q] \in {"issued", "failed", "done"}
    BY <1>2, <1>4, <1>8 DEF Lineage, Unrevoked
  <2>2. family[old] # NoToken /\ family[old] \in Tokens /\ family[family[old]] # NoToken
    BY <1>2, <1>4 DEF Lineage, Unrevoked, Issued
  <2>3. \A t \in Tokens : t # r /\ t # old => token'[t] = token[t]
    BY <1>2, <1>6
  <2>4. \A t \in Tokens : t # r => family'[t] = family[t]
    BY <1>2, <1>6
  <2>5. family'[r] = family[old]
    BY <1>1, <1>2, <1>6
  <2>6. \A t \in Tokens : token'[t] # NoToken <=> family'[t] # NoToken
    BY <1>7, <2>2, <2>3, <2>4, <2>5 DEF Lineage
  <2>7. \A t \in Tokens : family'[t] # NoToken => family'[family'[t]] # NoToken
    BY <1>2, <1>5, <2>2, <2>4, <2>5 DEF Lineage
  <2> QED
    BY <2>1, <2>6, <2>7 DEF Lineage
<1>13. OneLivePerLogin'
  <2> SUFFICES ASSUME NEW t \in Tokens, NEW u \in Tokens,
                      Unrevoked(t)', Unrevoked(u)', family'[t] = family'[u]
               PROVE  t = u
    BY DEF OneLivePerLogin
  <2>1. \A v \in Tokens : v # r => family'[v] = family[v]
    BY <1>2, <1>6
  <2>2. family'[r] = family[old]
    BY <1>1, <1>2, <1>6
  <2>3. \A v \in Tokens : Unrevoked(v)' /\ v # r => Unrevoked(v) /\ v # old
    BY <1>7, <1>8 DEF Unrevoked
  <2>4. \A v \in Tokens : Unrevoked(v) /\ family[v] = family[old] => v = old
    BY <1>4 DEF OneLivePerLogin
  <2>5. CASE t = r \/ u = r
    BY <2>1, <2>2, <2>3, <2>4, <2>5
  <2>6. CASE t # r /\ u # r
    BY <2>1, <2>3, <2>6 DEF OneLivePerLogin
  <2> QED
    BY <2>5, <2>6
<1> QED
  BY <1>11, <1>12, <1>13

\* A revocation touches no token that a refresh works on: it waits for the locks.
LEMMA RevokeKeepsSessions ==
  ASSUME TypeOK, SessionInv, NEW r \in Requests, NEW S,
         RevokeTokens(S), \A t \in S : ~Locked(t),
         Goto(r, "done"), req' = req
  PROVE  SessionInv'
<1> USE DEF SessionInv
<1>1. /\ pc \in [Requests -> Stages] /\ pc' = [pc EXCEPT ![r] = "done"]
      /\ token \in [Tokens -> Token \cup {NoToken}]
      /\ family' = family
  BY DEF TypeOK, SessionTypeOK, Goto, RevokeTokens
<1>2. \A t \in Tokens : /\ Issued(t)' <=> Issued(t)
                        /\ Unrevoked(t)' <=> Unrevoked(t) /\ t \notin S
  <2> SUFFICES ASSUME NEW t \in Tokens
               PROVE  /\ Issued(t)' <=> Issued(t)
                      /\ Unrevoked(t)' <=> Unrevoked(t) /\ t \notin S
    OBVIOUS
  <2>1. token'[t] = IF t \in S /\ Unrevoked(t) THEN [token[t] EXCEPT !.revoked = TRUE]
                                               ELSE token[t]
    BY DEF RevokeTokens
  <2>2. CASE t \in S /\ Unrevoked(t)
    <3>1. token[t] \in Token
      BY <1>1, <2>2 DEF Unrevoked, Issued
    <3>2. token'[t] \in Token /\ token'[t].revoked
      BY <2>1, <2>2, <3>1 DEF Token
    <3> QED
      BY <2>2, <3>1, <3>2, SessionsAssumption DEF Unrevoked, Issued
  <2>3. CASE ~(t \in S /\ Unrevoked(t))
    BY <2>1, <2>3 DEF Unrevoked, Issued
  <2> QED
    BY <2>2, <2>3
<1>3. \A q \in Requests : Refreshing(q)' => Refreshing(q) /\ Presented(q) \notin S
  BY <1>1 DEF Refreshing, Locked
<1>4. \A q \in Requests : Refreshing(q) => Presented(q) \in Tokens
  BY DEF LocksExclude, Unrevoked, Issued
<1>5. LocksExclude'
  BY <1>2, <1>3, <1>4 DEF LocksExclude
<1>6. Lineage'
  <2>1. \A q \in Requests : Issued(q)' => pc'[q] \in {"issued", "failed", "done"}
    BY <1>1, <1>2, InputTypes DEF Lineage
  <2>2. \A t \in Tokens : token'[t] # NoToken <=> token[t] # NoToken
    BY <1>2 DEF Issued
  <2> QED
    BY <1>1, <2>1, <2>2 DEF Lineage
<1>7. OneLivePerLogin'
  BY <1>1, <1>2 DEF OneLivePerLogin
<1> QED
  BY <1>5, <1>6, <1>7

\* Every step of a request keeps the locks, the lineage and the single use.
LEMMA StepSessions ==
  ASSUME TypeOK, SessionInv, NEW r \in Requests, Step(r)
  PROVE  SessionInv'
<1> USE DEF Stages
<1>1. ASSUME NEW stage \in Stages, Goto(r, stage),
             UNCHANGED <<token, family, req>>,
             pc[r] \in {"issued", "failed"} => stage \in {"failed", "done"},
             pc[r] # "done",
             stage \notin {"locked", "checked"}
      PROVE  SessionInv'
  BY <1>1, MovesKeepSessions DEF SessionInv, Lineage
<1>2. CASE \/ CheckEmail(r) \/ CheckIp(r) \/ Verify(r) \/ CheckRegistrations(r)
           \/ LookUpEmail(r) \/ InsertGuest(r) \/ RecordSuccess(r)
           \/ LookUpNewStaff(r) \/ LookUpStaff(r)
  BY <1>1, <1>2 DEF CheckEmail, CheckIp, Verify, CheckRegistrations, LookUpEmail,
                    InsertGuest, RecordSuccess, LookUpNewStaff, LookUpStaff,
                    Arrives, Move, sessionVars
<1>3. CASE \/ RecordFailure(r) \/ RecordRegistrationAttempt(r) \/ BeginRefresh(r)
           \/ InsertStaff(r) \/ Disable(r) \/ Enable(r) \/ MarkTokens(r)
  BY <1>1, <1>3 DEF RecordFailure, RecordRegistrationAttempt, BeginRefresh, Arrives,
                    InsertStaff, Disable, Enable, MarkTokens, sessionVars
<1>4. CASE LockToken(r)
  <2>1. PICK stage \in {"locked", "done"} :
          Move(r, stage) /\ (stage = "locked" => Unrevoked(Presented(r)))
    BY <1>4 DEF LockToken
  <2>2. ~Issued(r)
    BY <1>4 DEF LockToken, SessionInv, Lineage
  <2>3. \A q \in Requests : ~(Refreshing(q) /\ Presented(q) = Presented(r))
    BY <1>4 DEF LockToken, Locked, Refreshing
  <2> QED
    BY <2>1, <2>2, <2>3, MovesKeepSessions DEF Move, sessionVars
<1>5. CASE CheckSubject(r)
  <2>1. PICK stage \in {"checked", "done"} : Move(r, stage)
    BY <1>5 DEF CheckSubject
  <2>2. Refreshing(r) /\ ~Issued(r)
    BY <1>5 DEF CheckSubject, Refreshing, SessionInv, Lineage
  <2> QED
    BY <2>1, <2>2, MovesKeepSessions DEF Move, sessionVars, SessionInv, LocksExclude
<1>6. CASE IssuePair(r) \/ CommitGuest(r)
  BY <1>6, IssueKeepsSessions
<1>7. CASE CommitRefresh(r)
  BY <1>7, RotateKeepsSessions
<1>8. CASE Logout(r)
  BY <1>8, RevokeKeepsSessions DEF Logout
<1>9. CASE RevokeMarked(r)
  BY <1>9, RevokeKeepsSessions DEF RevokeMarked
<1> QED
  BY <1>2, <1>3, <1>4, <1>5, <1>6, <1>7, <1>8, <1>9 DEF Step

-----------------------------------------------------------------------------
(* The limits.                                                             *)

\* AttemptsBounded has three parts, one for each query of the limiter.
FailuresBounded ==
  \A a \in Accounts : Within(MaxPerEmail, Failures(a) \ skipped, Guessing(a))

AddressBounded ==
  \A ip \in Ips : Within(MaxPerIp, FailuresFrom(ip) \ skipped, GuessingFrom(ip))

RegistrationsBounded ==
  \A ip \in Ips :
     Within(MaxRegistrations, RegistrationsFrom(ip) \ skipped, Registering(ip))

\* What is counted are finite sets of requests.
LEMMA CountedSets ==
  /\ \A S \in SUBSET Requests : IsFiniteSet(S) /\ Cardinality(S) \in Nat
  /\ InFlight \in SUBSET Requests
  /\ \A a : /\ Failures(a) \in SUBSET Requests
            /\ Guessing(a) \in SUBSET InFlight
  /\ \A ip : /\ FailuresFrom(ip) \in SUBSET Requests
             /\ RegistrationsFrom(ip) \in SUBSET Requests
             /\ GuessingFrom(ip) \in SUBSET InFlight
             /\ Registering(ip) \in SUBSET InFlight
<1>1. \A S \in SUBSET Requests : IsFiniteSet(S) /\ Cardinality(S) \in Nat
  BY FS_Subset, FS_CardinalityType, AuthDataAssumption
<1>2. InFlight \in SUBSET Requests
  BY DEF InFlight
<1> QED
  BY <1>1, <1>2
  DEF Failures, Guessing, FailuresFrom, GuessingFrom, RegistrationsFrom, Registering

\* A bound holds for fewer.
LEMMA FewerStayWithin ==
  ASSUME NEW limit \in Nat, NEW F \in SUBSET Requests, NEW G \in SUBSET Requests,
         NEW f \in SUBSET F, NEW g \in SUBSET G, Within(limit, F, G)
  PROVE  Within(limit, f, g)
<1>1. /\ Cardinality(F) \in Nat /\ Cardinality(f) \in Nat
      /\ Cardinality(f) <= Cardinality(F)
  BY CountedSets, FS_Subset
<1>2. /\ Cardinality(G) \in Nat /\ Cardinality(g) \in Nat
      /\ Cardinality(g) <= Cardinality(G)
  BY CountedSets, FS_Subset
<1> QED
  BY <1>1, <1>2, AuthRoutesAssumption DEF Within

\* Below the limit, all that are served may be let in.
LEMMA LetInWithin ==
  ASSUME NEW limit \in Nat, NEW F \in SUBSET Requests, ~(Cardinality(F) >= limit),
         NEW served \in SUBSET Requests, Cardinality(served) <= MaxInFlight,
         NEW f \in SUBSET F, NEW g \in SUBSET served
  PROVE  Within(limit, f, g)
<1>1. /\ Cardinality(F) \in Nat /\ Cardinality(f) \in Nat
      /\ Cardinality(f) <= Cardinality(F)
  BY CountedSets, FS_Subset
<1>2. /\ Cardinality(served) \in Nat /\ Cardinality(g) \in Nat
      /\ Cardinality(g) <= Cardinality(served)
  BY CountedSets, FS_Subset
<1> QED
  BY <1>1, <1>2, AuthRoutesAssumption DEF Within

\* A request that is recorded is no longer under way.
LEMMA RecordedStaysWithin ==
  ASSUME NEW limit \in Nat, NEW F \in SUBSET Requests, NEW G \in SUBSET Requests,
         NEW r \in G, NEW f \in SUBSET (F \cup {r}), NEW g \in SUBSET (G \ {r}),
         Within(limit, F, G)
  PROVE  Within(limit, f, g)
<1>1. /\ IsFiniteSet(F) /\ Cardinality(F) \in Nat
      /\ IsFiniteSet(G) /\ Cardinality(G) \in Nat
  BY CountedSets
<1>2. /\ IsFiniteSet(F \cup {r})
      /\ Cardinality(F \cup {r}) =
           IF r \in F THEN Cardinality(F) ELSE Cardinality(F) + 1
  BY <1>1, FS_AddElement
<1>3. IsFiniteSet(G \ {r}) /\ Cardinality(G \ {r}) = Cardinality(G) - 1
  BY <1>1, FS_RemoveElement
<1>4. /\ Cardinality(f) \in Nat /\ Cardinality(f) <= Cardinality(F \cup {r})
      /\ Cardinality(g) \in Nat /\ Cardinality(g) <= Cardinality(G \ {r})
  BY <1>2, <1>3, FS_Subset, FS_CardinalityType
<1> QED
  BY <1>1, <1>2, <1>3, <1>4, AuthRoutesAssumption DEF Within

\* No more requests are served at once than there were, unless one arrives
\* while there is room.
LEMMA CrowdKept ==
  ASSUME TypeOK, Crowd, NEW r \in Requests, NEW stage, Goto(r, stage), TypeOK',
         pc[r] # "done",
         pc[r] = "received" => Cardinality(InFlight) < MaxInFlight
  PROVE  Crowd'
<1>1. IsFiniteSet(InFlight) /\ Cardinality(InFlight) \in Nat
  BY CountedSets
<1>2. InFlight' \subseteq InFlight \cup {r}
  BY DEF Goto, InFlight, TypeOK
<1>3. CASE r \in InFlight
  <2>1. InFlight' \subseteq InFlight
    BY <1>2, <1>3
  <2> QED
    BY <1>1, <2>1, FS_Subset, FS_CardinalityType, AuthRoutesAssumption DEF Crowd
<1>4. CASE r \notin InFlight
  <2>1. /\ IsFiniteSet(InFlight \cup {r})
        /\ Cardinality(InFlight \cup {r}) = Cardinality(InFlight) + 1
    BY <1>1, <1>4, FS_AddElement
  <2>2. Cardinality(InFlight) < MaxInFlight
    BY <1>4 DEF InFlight
  <2>3. Cardinality(InFlight') <= Cardinality(InFlight \cup {r})
    BY <1>2, <2>1, FS_Subset
  <2>4. Cardinality(InFlight') \in Nat
    BY <1>2, <2>1, FS_Subset, FS_CardinalityType
  <2> QED
    BY <1>1, <2>1, <2>2, <2>3, <2>4, AuthRoutesAssumption DEF Crowd
<1> QED
  BY <1>3, <1>4

\* A step that records no failure and lets no login in keeps the bound of the
\* emails; of the addresses likewise, and of their registrations.
LEMMA QuietEmail ==
  ASSUME TypeOK, FailuresBounded, NEW r \in Requests, NEW stage, Goto(r, stage),
         UNCHANGED <<attempts, req>>, skipped \subseteq skipped',
         Op(r) = "login" /\ stage # "done" => r \in skipped' \/ r \in InFlight
  PROVE  FailuresBounded'
<1>1. \A a : /\ (Failures(a) \ skipped)' \subseteq Failures(a) \ skipped
             /\ Guessing(a)' \subseteq Guessing(a)
  BY DEF Failures, Guessing, InFlight, Goto, TypeOK
<1> QED
  BY <1>1, CountedSets, FewerStayWithin, RateLimitAssumption
  DEF FailuresBounded

LEMMA QuietAddress ==
  ASSUME TypeOK, AddressBounded, NEW r \in Requests, NEW stage, Goto(r, stage),
         UNCHANGED <<attempts, req>>, skipped \subseteq skipped',
         Op(r) = "login" /\ stage \notin {"emailOk", "done"} =>
            r \in skipped' \/ (r \in InFlight /\ pc[r] # "emailOk")
  PROVE  AddressBounded'
<1>1. \A ip : /\ (FailuresFrom(ip) \ skipped)' \subseteq FailuresFrom(ip) \ skipped
              /\ GuessingFrom(ip)' \subseteq GuessingFrom(ip)
  BY DEF FailuresFrom, GuessingFrom, InFlight, Goto, TypeOK
<1> QED
  BY <1>1, CountedSets, FewerStayWithin, RateLimitAssumption DEF AddressBounded

LEMMA QuietRegistrations ==
  ASSUME TypeOK, RegistrationsBounded, NEW r \in Requests, NEW stage, Goto(r, stage),
         UNCHANGED <<registrations, req>>, skipped \subseteq skipped',
         Op(r) = "register" /\ stage # "done" => r \in skipped' \/ r \in InFlight
  PROVE  RegistrationsBounded'
<1>1. \A ip : /\ (RegistrationsFrom(ip) \ skipped)' \subseteq RegistrationsFrom(ip) \ skipped
              /\ Registering(ip)' \subseteq Registering(ip)
  BY DEF RegistrationsFrom, Registering, InFlight, Goto, TypeOK
<1> QED
  BY <1>1, CountedSets, FewerStayWithin, RateLimitAssumption DEF RegistrationsBounded

\* A check lets a request in only below its limit.
LEMMA CheckEmailBounded ==
  ASSUME TypeOK, FailuresBounded, NEW r \in Requests, CheckEmail(r), Crowd'
  PROVE  FailuresBounded'
<1>1. PICK stage \in {"done", "emailOk"} :
        /\ Goto(r, stage)
        /\ stage = "emailOk" => ~EmailLimited(Account(r))
        /\ UNCHANGED <<attempts, req, skipped>>
  BY DEF CheckEmail, Move, limitVars
<1> SUFFICES ASSUME NEW a \in Accounts
             PROVE  Within(MaxPerEmail, Failures(a) \ skipped, Guessing(a))'
  BY DEF FailuresBounded
<1>2. (Failures(a) \ skipped)' \subseteq Failures(a) \ skipped
  BY <1>1 DEF Failures
<1>3. CASE stage = "done" \/ a # Account(r)
  <2>1. Guessing(a)' \subseteq Guessing(a)
    BY <1>1, <1>3 DEF Guessing, InFlight, Goto, TypeOK
  <2>2. Within(MaxPerEmail, Failures(a) \ skipped, Guessing(a))
    BY DEF FailuresBounded
  <2> QED
    BY <1>2, <2>1, <2>2, CountedSets, FewerStayWithin, RateLimitAssumption
<1>4. CASE stage = "emailOk" /\ a = Account(r)
  <2>1. ~(Cardinality(Failures(a)) >= MaxPerEmail)
    BY <1>1, <1>4 DEF EmailLimited
  <2>2. Guessing(a)' \in SUBSET InFlight' /\ InFlight' \in SUBSET Requests
    BY DEF Guessing, InFlight
  <2> QED
    BY <1>2, <2>1, <2>2, CountedSets, LetInWithin, RateLimitAssumption DEF Crowd
<1> QED
  BY <1>1, <1>3, <1>4

LEMMA CheckIpBounded ==
  ASSUME TypeOK, AddressBounded, NEW r \in Requests, CheckIp(r), Crowd'
  PROVE  AddressBounded'
<1>1. PICK stage \in {"done", "admitted"} :
        /\ Goto(r, stage)
        /\ stage = "admitted" => ~IpLimited(Ip(r))
        /\ UNCHANGED <<attempts, req, skipped>>
  BY DEF CheckIp, Move, limitVars
<1> SUFFICES ASSUME NEW ip \in Ips
             PROVE  Within(MaxPerIp, FailuresFrom(ip) \ skipped, GuessingFrom(ip))'
  BY DEF AddressBounded
<1>2. (FailuresFrom(ip) \ skipped)' \subseteq FailuresFrom(ip) \ skipped
  BY <1>1 DEF FailuresFrom
<1>3. CASE stage = "done" \/ ip # Ip(r)
  <2>1. GuessingFrom(ip)' \subseteq GuessingFrom(ip)
    BY <1>1, <1>3 DEF GuessingFrom, InFlight, Goto, TypeOK
  <2>2. Within(MaxPerIp, FailuresFrom(ip) \ skipped, GuessingFrom(ip))
    BY DEF AddressBounded
  <2> QED
    BY <1>2, <2>1, <2>2, CountedSets, FewerStayWithin, RateLimitAssumption
<1>4. CASE stage = "admitted" /\ ip = Ip(r)
  <2>1. ~(Cardinality(FailuresFrom(ip)) >= MaxPerIp)
    BY <1>1, <1>4 DEF IpLimited
  <2>2. GuessingFrom(ip)' \in SUBSET InFlight' /\ InFlight' \in SUBSET Requests
    BY DEF GuessingFrom, InFlight
  <2> QED
    BY <1>2, <2>1, <2>2, CountedSets, LetInWithin, RateLimitAssumption DEF Crowd
<1> QED
  BY <1>1, <1>3, <1>4

LEMMA CheckRegistrationsBounded ==
  ASSUME TypeOK, RegistrationsBounded, NEW r \in Requests, CheckRegistrations(r), Crowd'
  PROVE  RegistrationsBounded'
<1>1. PICK stage \in {"done", "admitted"} :
        /\ Goto(r, stage)
        /\ stage = "admitted" => ~RegistrationLimited(Ip(r))
        /\ UNCHANGED <<registrations, req, skipped>>
  BY DEF CheckRegistrations, Move, limitVars
<1> SUFFICES ASSUME NEW ip \in Ips
             PROVE  Within(MaxRegistrations, RegistrationsFrom(ip) \ skipped,
                           Registering(ip))'
  BY DEF RegistrationsBounded
<1>2. (RegistrationsFrom(ip) \ skipped)' \subseteq RegistrationsFrom(ip) \ skipped
  BY <1>1 DEF RegistrationsFrom
<1>3. CASE stage = "done" \/ ip # Ip(r)
  <2>1. Registering(ip)' \subseteq Registering(ip)
    BY <1>1, <1>3 DEF Registering, InFlight, Goto, TypeOK
  <2>2. Within(MaxRegistrations, RegistrationsFrom(ip) \ skipped, Registering(ip))
    BY DEF RegistrationsBounded
  <2> QED
    BY <1>2, <2>1, <2>2, CountedSets, FewerStayWithin, RateLimitAssumption
<1>4. CASE stage = "admitted" /\ ip = Ip(r)
  <2>1. ~(Cardinality(RegistrationsFrom(ip)) >= MaxRegistrations)
    BY <1>1, <1>4 DEF RegistrationLimited
  <2>2. Registering(ip)' \in SUBSET InFlight' /\ InFlight' \in SUBSET Requests
    BY DEF Registering, InFlight
  <2> QED
    BY <1>2, <2>1, <2>2, CountedSets, LetInWithin, RateLimitAssumption DEF Crowd
<1> QED
  BY <1>1, <1>3, <1>4

\* A login that is recorded as failed counts for its email and for its address.
LEMMA RecordFailureBounded ==
  ASSUME TypeOK, FailuresBounded, AddressBounded, NEW r \in Requests, RecordFailure(r)
  PROVE  FailuresBounded' /\ AddressBounded'
<1>1. /\ attempts \in [Requests -> Attempt \cup {NoRow}]
      /\ attempts' = [attempts EXCEPT ![r] =
                        [account |-> Account(r), ip |-> Ip(r), age |-> 0]]
      /\ pc \in [Requests -> Stages] /\ pc' = [pc EXCEPT ![r] = "done"]
      /\ pc[r] = "failed" /\ Op(r) = "login" /\ UNCHANGED <<req, skipped>>
  BY DEF RecordFailure, RecordAttempt, Goto, TypeOK, LimitTypeOK
<1>2. ASSUME NEW a \in Accounts
      PROVE  Within(MaxPerEmail, Failures(a) \ skipped, Guessing(a))'
  <2>1. Within(MaxPerEmail, Failures(a) \ skipped, Guessing(a))
    BY DEF FailuresBounded
  <2>2. Guessing(a)' \subseteq Guessing(a) \ {r}
    BY <1>1 DEF Guessing, InFlight
  <2>3. Failures(a)' \subseteq Failures(a) \cup {r}
    BY <1>1 DEF Failures
  <2>4. CASE r \in skipped \/ a # Account(r)
    <3>1. (Failures(a) \ skipped)' \subseteq Failures(a) \ skipped
      BY <1>1, <2>4 DEF Failures
    <3> QED
      BY <2>1, <2>2, <3>1, CountedSets, FewerStayWithin, RateLimitAssumption
  <2>5. CASE r \notin skipped /\ a = Account(r)
    <3>1. r \in Guessing(a)
      BY <1>1, <2>5 DEF Guessing, InFlight
    <3>2. (Failures(a) \ skipped)' \subseteq (Failures(a) \ skipped) \cup {r}
      BY <1>1, <2>3
    <3>3. Failures(a) \ skipped \in SUBSET Requests /\ Guessing(a) \in SUBSET Requests
      BY CountedSets
    <3> QED
      BY <2>1, <2>2, <3>1, <3>2, <3>3, RecordedStaysWithin, RateLimitAssumption
  <2> QED
    BY <2>4, <2>5
<1>3. ASSUME NEW ip \in Ips
      PROVE  Within(MaxPerIp, FailuresFrom(ip) \ skipped, GuessingFrom(ip))'
  <2>1. Within(MaxPerIp, FailuresFrom(ip) \ skipped, GuessingFrom(ip))
    BY DEF AddressBounded
  <2>2. GuessingFrom(ip)' \subseteq GuessingFrom(ip) \ {r}
    BY <1>1 DEF GuessingFrom, InFlight
  <2>3. FailuresFrom(ip)' \subseteq FailuresFrom(ip) \cup {r}
    BY <1>1 DEF FailuresFrom
  <2>4. CASE r \in skipped \/ ip # Ip(r)
    <3>1. (FailuresFrom(ip) \ skipped)' \subseteq FailuresFrom(ip) \ skipped
      BY <1>1, <2>4 DEF FailuresFrom
    <3> QED
      BY <2>1, <2>2, <3>1, CountedSets, FewerStayWithin, RateLimitAssumption
  <2>5. CASE r \notin skipped /\ ip = Ip(r)
    <3>1. r \in GuessingFrom(ip)
      BY <1>1, <2>5 DEF GuessingFrom, InFlight
    <3>2. (FailuresFrom(ip) \ skipped)' \subseteq (FailuresFrom(ip) \ skipped) \cup {r}
      BY <1>1, <2>3
    <3>3. /\ FailuresFrom(ip) \ skipped \in SUBSET Requests
          /\ GuessingFrom(ip) \in SUBSET Requests
      BY CountedSets
    <3> QED
      BY <2>1, <2>2, <3>1, <3>2, <3>3, RecordedStaysWithin, RateLimitAssumption
  <2> QED
    BY <2>4, <2>5
<1> QED
  BY <1>2, <1>3 DEF FailuresBounded, AddressBounded

\* A registration is recorded whether it succeeded or failed.
LEMMA RecordRegistrationBounded ==
  ASSUME TypeOK, RegistrationsBounded, NEW r \in Requests, RecordRegistrationAttempt(r)
  PROVE  RegistrationsBounded'
<1>1. /\ registrations \in [Requests -> Registration \cup {NoRow}]
      /\ registrations' = [registrations EXCEPT ![r] = [ip |-> Ip(r), age |-> 0]]
      /\ pc \in [Requests -> Stages] /\ pc' = [pc EXCEPT ![r] = "done"]
      /\ pc[r] \in {"issued", "failed"} /\ Op(r) = "register"
      /\ UNCHANGED <<req, skipped>>
  BY DEF RecordRegistrationAttempt, RecordRegistration, Goto, TypeOK, LimitTypeOK
<1> SUFFICES ASSUME NEW ip \in Ips
             PROVE  Within(MaxRegistrations, RegistrationsFrom(ip) \ skipped,
                           Registering(ip))'
  BY DEF RegistrationsBounded
<1>2. Within(MaxRegistrations, RegistrationsFrom(ip) \ skipped, Registering(ip))
  BY DEF RegistrationsBounded
<1>3. Registering(ip)' \subseteq Registering(ip) \ {r}
  BY <1>1 DEF Registering, InFlight
<1>4. RegistrationsFrom(ip)' \subseteq RegistrationsFrom(ip) \cup {r}
  BY <1>1 DEF RegistrationsFrom
<1>5. CASE r \in skipped \/ ip # Ip(r)
  <2>1. (RegistrationsFrom(ip) \ skipped)' \subseteq RegistrationsFrom(ip) \ skipped
    BY <1>1, <1>5 DEF RegistrationsFrom
  <2> QED
    BY <1>2, <1>3, <2>1, CountedSets, FewerStayWithin, RateLimitAssumption
<1>6. CASE r \notin skipped /\ ip = Ip(r)
  <2>1. r \in Registering(ip)
    BY <1>1, <1>6 DEF Registering, InFlight
  <2>2. (RegistrationsFrom(ip) \ skipped)' \subseteq (RegistrationsFrom(ip) \ skipped) \cup {r}
    BY <1>1, <1>4
  <2>3. /\ RegistrationsFrom(ip) \ skipped \in SUBSET Requests
        /\ Registering(ip) \in SUBSET Requests
    BY CountedSets
  <2> QED
    BY <1>2, <1>3, <2>1, <2>2, <2>3, RecordedStaysWithin, RateLimitAssumption
<1> QED
  BY <1>5, <1>6

LimitInv == Crowd /\ FailuresBounded /\ AddressBounded /\ RegistrationsBounded

LEMMA StepLimits ==
  ASSUME TypeOK, LimitInv, NEW r \in Requests, Step(r), TypeOK'
  PROVE  LimitInv'
<1> USE DEF LimitInv
<1>1. PICK stage : /\ Goto(r, stage)
                   /\ pc[r] # "done"
                   /\ pc[r] = "received" => Cardinality(InFlight) < MaxInFlight
  BY DEF Step, CheckEmail, CheckIp, Verify, IssuePair, CheckRegistrations, LookUpEmail,
         InsertGuest, CommitGuest, RecordSuccess, RecordFailure,
         RecordRegistrationAttempt, BeginRefresh, LockToken, CheckSubject,
         CommitRefresh, Logout, LookUpNewStaff, InsertStaff, LookUpStaff, Disable,
         Enable, MarkTokens, RevokeMarked, Arrives, Move
<1>2. Crowd'
  BY <1>1, CrowdKept
<1>3. CASE CheckEmail(r)
  <2>1. PICK next \in {"done", "emailOk"} : Goto(r, next)
    BY <1>3 DEF CheckEmail, Move
  <2>2. Op(r) = "login" /\ UNCHANGED <<attempts, registrations, req, skipped>>
    BY <1>3 DEF CheckEmail, Arrives, Move, limitVars
  <2> QED
    BY <1>2, <1>3, <2>1, <2>2, CheckEmailBounded, QuietAddress, QuietRegistrations
<1>4. CASE CheckIp(r)
  <2>1. /\ Op(r) = "login" /\ r \in InFlight
        /\ UNCHANGED <<attempts, registrations, req, skipped>>
    BY <1>4 DEF CheckIp, Move, InFlight, limitVars
  <2> QED
    BY <1>1, <1>2, <1>4, <2>1, CheckIpBounded, QuietEmail, QuietRegistrations
<1>5. CASE RecordFailure(r)
  <2>1. Op(r) = "login" /\ UNCHANGED <<registrations, req, skipped>>
    BY <1>5 DEF RecordFailure, RecordAttempt
  <2> QED
    BY <1>1, <1>2, <1>5, <2>1, RecordFailureBounded, QuietRegistrations
<1>6. CASE CheckRegistrations(r)
  <2>1. Op(r) = "register" /\ UNCHANGED <<attempts, req, skipped>>
    BY <1>6 DEF CheckRegistrations, Arrives, Move, limitVars
  <2> QED
    BY <1>1, <1>2, <1>6, <2>1, CheckRegistrationsBounded, QuietEmail, QuietAddress
<1>7. CASE RecordRegistrationAttempt(r)
  <2>1. Op(r) = "register" /\ UNCHANGED <<attempts, req, skipped>>
    BY <1>7 DEF RecordRegistrationAttempt, RecordRegistration
  <2> QED
    BY <1>1, <1>2, <1>7, <2>1, RecordRegistrationBounded, QuietEmail, QuietAddress
<1>8. CASE \/ Verify(r) \/ IssuePair(r) \/ RecordSuccess(r)
           \/ LookUpEmail(r) \/ InsertGuest(r) \/ CommitGuest(r)
  <2>1. /\ r \in InFlight /\ pc[r] # "emailOk"
        /\ UNCHANGED <<attempts, registrations, req, skipped>>
    BY <1>8 DEF Verify, IssuePair, RecordSuccess, LookUpEmail, InsertGuest, CommitGuest,
                InFlight, Move, limitVars
  <2> QED
    BY <1>1, <1>2, <2>1, QuietEmail, QuietAddress, QuietRegistrations
<1>9. CASE \/ BeginRefresh(r) \/ LockToken(r) \/ CheckSubject(r) \/ CommitRefresh(r)
           \/ Logout(r) \/ LookUpNewStaff(r) \/ InsertStaff(r) \/ LookUpStaff(r)
           \/ Disable(r) \/ Enable(r) \/ MarkTokens(r) \/ RevokeMarked(r)
  <2>1. /\ Op(r) # "login" /\ Op(r) # "register"
        /\ UNCHANGED <<attempts, registrations, req, skipped>>
    BY <1>9 DEF BeginRefresh, LockToken, CheckSubject, CommitRefresh, Logout,
         LookUpNewStaff, InsertStaff, LookUpStaff, Disable, Enable, MarkTokens,
         RevokeMarked, Arrives, Move, limitVars
  <2> QED
    BY <1>1, <1>2, <2>1, QuietEmail, QuietAddress, QuietRegistrations
<1> QED
  BY <1>3, <1>4, <1>5, <1>6, <1>7, <1>8, <1>9 DEF Step

-----------------------------------------------------------------------------
(* Errors, crashes, time and the clean-up job.                             *)

LEMMA Initially == Init => IInv
<1> SUFFICES ASSUME Init
             PROVE  IInv
  OBVIOUS
<1> USE DEF Init, LimitInit, SessionInit
<1>1. \A t \in DOMAIN Old : New(Old[t]) \in Token /\ New(Old[t]) # NoToken
  <2> SUFFICES ASSUME NEW t \in DOMAIN Old
               PROVE  New(Old[t]) \in Token
    BY SessionsAssumption
  <2>1. Old[t] \in Accounts
    BY SessionsAssumption
  <2> QED
    BY <2>1 DEF New, Token
<1>2. TypeOK
  <2>1. LimitTypeOK
    BY DEF LimitTypeOK
  <2>2. SessionTypeOK
    BY <1>1 DEF SessionTypeOK, Tokens
  <2> QED
    BY <2>1, <2>2, AuthRoutesAssumption DEF TypeOK, Stages
<1>3. LocksExclude
  BY DEF LocksExclude, Refreshing
<1>4. Lineage
  <2>1. NoToken \notin Tokens
    BY SessionsAssumption
  <2>2. \A r \in Requests : ~Issued(r)
    BY SessionsAssumption DEF Issued, Tokens
  <2> QED
    BY <1>1, <2>1, <2>2 DEF Lineage, Tokens
<1>5. OneLivePerLogin
  <2>1. \A t \in Tokens : Unrevoked(t) => t \in DOMAIN Old
    BY DEF Unrevoked, Issued
  <2> QED
    BY <2>1 DEF OneLivePerLogin
<1>6. InFlight = {}
  BY DEF InFlight
<1>7. Crowd
  BY <1>6, FS_EmptySet, AuthRoutesAssumption DEF Crowd
<1>8. AttemptsBounded
  <2>1. \A r \in Requests : attempts[r] = NoRow /\ registrations[r] = NoRow
    OBVIOUS
  <2>2. \A a : Failures(a) \ skipped = {} /\ Guessing(a) = {}
    BY <1>6, <2>1 DEF Failures, Guessing
  <2>3. \A ip : FailuresFrom(ip) \ skipped = {} /\ GuessingFrom(ip) = {}
    BY <1>6, <2>1 DEF FailuresFrom, GuessingFrom
  <2>4. \A ip : RegistrationsFrom(ip) \ skipped = {} /\ Registering(ip) = {}
    BY <1>6, <2>1 DEF RegistrationsFrom, Registering
  <2>5. \A limit \in Nat : Within(limit, {}, {})
    BY FS_EmptySet, AuthRoutesAssumption DEF Within
  <2> QED
    BY <2>2, <2>3, <2>4, <2>5, RateLimitAssumption DEF AttemptsBounded
<1> QED
  BY <1>2, <1>3, <1>4, <1>5, <1>7, <1>8 DEF IInv

\* A request that fails somewhere, or dies, moves to a stage that holds nothing.
LEMMA FaultKeepsIInv ==
  ASSUME IInv, NEW r \in Requests,
         Crash(r) \/ LimiterThrows(r) \/ ServiceThrows(r) \/ RecordingFails(r)
  PROVE  IInv'
<1> USE DEF IInv
<1>1. PICK stage \in {"failed", "done"} :
        /\ Goto(r, stage)
        /\ pc[r] # "done"
        /\ pc[r] = "received" => Cardinality(InFlight) < MaxInFlight
        /\ stage = "failed" => Op(r) \in {"login", "register"}
        /\ stage = "failed" =>
             r \in skipped' \/ (r \in InFlight /\ pc[r] # "emailOk")
        /\ skipped' \in {skipped, skipped \cup {r}}
        /\ marked' \in [Requests -> SUBSET Tokens]
        /\ UNCHANGED <<limitVars, sessionVars, req, fresh>>
  <2>1. CASE Crash(r)
    BY <2>1 DEF Crash, InFlight, TypeOK
  <2>2. CASE LimiterThrows(r)
    BY <2>2 DEF LimiterThrows, Arrives, TypeOK
  <2>3. CASE ServiceThrows(r)
    BY <2>3 DEF ServiceThrows, Move, InFlight, TypeOK
  <2>4. CASE RecordingFails(r)
    BY <2>4 DEF RecordingFails, Move, TypeOK
  <2> QED
    BY <2>1, <2>2, <2>3, <2>4
<1>2. TypeOK'
  BY <1>1, GotoTypes DEF TypeOK, Stages, LimitTypeOK, SessionTypeOK, limitVars, sessionVars
<1>3. SessionInv'
  BY <1>1, MovesKeepSessions DEF SessionInv, Stages, sessionVars
<1>4. Crowd'
  BY <1>1, <1>2, CrowdKept
<1>5. AttemptsBounded'
  <2>1. UNCHANGED <<attempts, registrations, req>> /\ skipped \subseteq skipped'
    BY <1>1 DEF limitVars
  <2>2. FailuresBounded' /\ AddressBounded' /\ RegistrationsBounded'
    BY <1>1, <2>1, QuietEmail, QuietAddress, QuietRegistrations
    DEF AttemptsBounded, FailuresBounded, AddressBounded, RegistrationsBounded
  <2> QED
    BY <2>2 DEF AttemptsBounded, FailuresBounded, AddressBounded, RegistrationsBounded
<1> QED
  BY <1>2, <1>3, <1>4, <1>5 DEF SessionInv

\* Time and the job make failures older or fewer.
LEMMA TimeKeepsIInv ==
  ASSUME IInv, Tick \/ Cleanup
  PROVE  IInv'
<1> USE DEF IInv, sessionVars, requestVars
<1>1. UNCHANGED <<token, family, account, req, pc, skipped, fresh, marked, vouched>>
  BY DEF Tick, Cleanup
<1>2. /\ attempts \in [Requests -> Attempt \cup {NoRow}]
      /\ registrations \in [Requests -> Registration \cup {NoRow}]
      /\ Retention \in Nat
      /\ NoRow \notin Attempt /\ NoRow \notin Registration
  BY RateLimitAssumption DEF TypeOK, LimitTypeOK
<1>3. \A row \in Attempt : /\ Aged(row) \in Attempt
                           /\ Aged(row).account = row.account /\ Aged(row).ip = row.ip
                           /\ Aged(row).age >= row.age
  BY <1>2 DEF Aged, Attempt, Ages
<1>4. \A row \in Registration : /\ Aged(row) \in Registration
                                /\ Aged(row).ip = row.ip
                                /\ Aged(row).age >= row.age
  BY <1>2 DEF Aged, Registration, Ages
<1>5. Aged(NoRow) = NoRow
  BY DEF Aged
<1>6. /\ attempts' \in [Requests -> Attempt \cup {NoRow}]
      /\ registrations' \in [Requests -> Registration \cup {NoRow}]
      /\ \A r \in Requests : attempts'[r] # NoRow
            => /\ attempts[r] # NoRow
               /\ attempts'[r].account = attempts[r].account
               /\ attempts'[r].ip = attempts[r].ip
               /\ attempts'[r].age >= attempts[r].age
      /\ \A r \in Requests : registrations'[r] # NoRow
            => /\ registrations[r] # NoRow
               /\ registrations'[r].ip = registrations[r].ip
               /\ registrations'[r].age >= registrations[r].age
  <2>1. CASE Tick
    BY <1>2, <1>3, <1>4, <1>5, <2>1 DEF Tick, TickTime
  <2>2. CASE Cleanup
    BY <1>2, <2>2 DEF Cleanup, CleanupLogs, Attempt, Registration, Ages
  <2> QED
    BY <2>1, <2>2
<1>7. TypeOK'
  BY <1>1, <1>6 DEF TypeOK, LimitTypeOK, SessionTypeOK
<1>8. LocksExclude' /\ Lineage' /\ OneLivePerLogin' /\ Crowd'
  BY <1>1 DEF LocksExclude, Refreshing, Lineage, OneLivePerLogin, Crowd, InFlight,
              Issued, Unrevoked
<1>9. AttemptsBounded'
  <2>1. \A r \in Requests :
           /\ attempts'[r] # NoRow =>
                attempts'[r].age \in Int /\ attempts[r].age \in Int
           /\ registrations'[r] # NoRow =>
                registrations'[r].age \in Int /\ registrations[r].age \in Int
    BY <1>2, <1>6 DEF Attempt, Registration, Ages
  <2>2. \A a : /\ (Failures(a) \ skipped)' \subseteq Failures(a) \ skipped
               /\ Guessing(a)' \subseteq Guessing(a)
    BY <1>1, <1>6, <2>1, RateLimitAssumption DEF Failures, Guessing, InFlight
  <2>3. \A ip : /\ (FailuresFrom(ip) \ skipped)' \subseteq FailuresFrom(ip) \ skipped
                /\ GuessingFrom(ip)' \subseteq GuessingFrom(ip)
    BY <1>1, <1>6, <2>1, RateLimitAssumption DEF FailuresFrom, GuessingFrom, InFlight
  <2>4. \A ip : /\ (RegistrationsFrom(ip) \ skipped)' \subseteq RegistrationsFrom(ip) \ skipped
                /\ Registering(ip)' \subseteq Registering(ip)
    BY <1>1, <1>6, <2>1, RateLimitAssumption DEF RegistrationsFrom, Registering, InFlight
  <2>5. FailuresBounded'
    <3>1. FailuresBounded
      BY DEF AttemptsBounded, FailuresBounded
    <3> QED
      BY <2>2, <3>1, CountedSets, FewerStayWithin, RateLimitAssumption DEF FailuresBounded
  <2>6. AddressBounded'
    <3>1. AddressBounded
      BY DEF AttemptsBounded, AddressBounded
    <3> QED
      BY <2>3, <3>1, CountedSets, FewerStayWithin, RateLimitAssumption DEF AddressBounded
  <2>7. RegistrationsBounded'
    <3>1. RegistrationsBounded
      BY DEF AttemptsBounded, RegistrationsBounded
    <3> QED
      BY <2>4, <3>1, CountedSets, FewerStayWithin, RateLimitAssumption
      DEF RegistrationsBounded
  <2> QED
    BY <2>5, <2>6, <2>7 DEF AttemptsBounded, FailuresBounded, AddressBounded, RegistrationsBounded
<1> QED
  BY <1>7, <1>8, <1>9

\* An expired token is still issued, and revoked or not as it was.
LEMMA LapseKeeps ==
  ASSUME IInv, NEW t \in Tokens, Lapse(t)
  PROVE  /\ IInv'
         /\ \A u \in Tokens : (Unrevoked(u)' <=> Unrevoked(u)) /\ (Issued(u)' <=> Issued(u))
<1> USE DEF IInv, requestVars, limitVars
<1>1. /\ token' = [token EXCEPT ![t].expired = TRUE]
      /\ UNCHANGED <<family, account, attempts, registrations,
                     req, pc, skipped, fresh, marked, vouched>>
      /\ token \in [Tokens -> Token \cup {NoToken}]
      /\ token[t] \in Token
  BY DEF Lapse, Expire, TypeOK, SessionTypeOK, Issued
<1>2. /\ token' \in [Tokens -> Token \cup {NoToken}]
      /\ token'[t] \in Token /\ token'[t].revoked = token[t].revoked
      /\ \A u \in Tokens : u # t => token'[u] = token[u]
  BY <1>1 DEF Token
<1>3. \A u \in Tokens : (Unrevoked(u)' <=> Unrevoked(u)) /\ (Issued(u)' <=> Issued(u))
  BY <1>1, <1>2, SessionsAssumption DEF Unrevoked, Issued
<1>4. TypeOK'
  BY <1>1, <1>2 DEF TypeOK, LimitTypeOK, SessionTypeOK
<1>5. LocksExclude' /\ OneLivePerLogin'
  <2>1. \A r \in Requests : Refreshing(r) => Presented(r) \in Tokens
    BY DEF LocksExclude, Unrevoked, Issued
  <2>2. \A r \in Requests : Refreshing(r)' <=> Refreshing(r)
    BY <1>1 DEF Refreshing
  <2> QED
    BY <1>1, <1>3, <2>1, <2>2 DEF LocksExclude, OneLivePerLogin
<1>6. Lineage'
  <2>1. \A u \in Tokens : token'[u] # NoToken <=> token[u] # NoToken
    BY <1>3 DEF Issued
  <2>2. \A r \in Requests : r \in Tokens
    BY DEF Tokens
  <2> QED
    BY <1>1, <1>3, <2>1, <2>2 DEF Lineage
<1>7. Crowd' /\ AttemptsBounded'
  BY <1>1
  DEF Crowd, InFlight, AttemptsBounded, Failures, Guessing,
      FailuresFrom, GuessingFrom, RegistrationsFrom, Registering, Within
<1> QED
  BY <1>3, <1>4, <1>5, <1>6, <1>7

-----------------------------------------------------------------------------
(* Theorems.                                                               *)

LEMMA NextKeepsIInv == IInv /\ [Next]_vars => IInv'
<1> SUFFICES ASSUME IInv, [Next]_vars
             PROVE  IInv'
  OBVIOUS
<1>1. ASSUME NEW r \in Requests, Step(r)
      PROVE  IInv'
  <2>1. TypeOK' /\ SessionInv'
    BY <1>1, StepTypes, StepSessions DEF IInv, SessionInv
  <2>2. LimitInv'
    BY <1>1, <2>1, StepLimits
    DEF IInv, LimitInv, AttemptsBounded, FailuresBounded, AddressBounded, RegistrationsBounded
  <2> QED
    BY <2>1, <2>2
    DEF IInv, SessionInv, LimitInv, AttemptsBounded, FailuresBounded, AddressBounded, RegistrationsBounded
<1>2. ASSUME NEW r \in Requests,
             Crash(r) \/ LimiterThrows(r) \/ ServiceThrows(r) \/ RecordingFails(r)
      PROVE  IInv'
  BY <1>2, FaultKeepsIInv
<1>3. CASE Tick \/ Cleanup
  BY <1>3, TimeKeepsIInv
<1>4. ASSUME NEW t \in Tokens, Lapse(t)
      PROVE  IInv'
  BY <1>4, LapseKeeps
<1>5. CASE UNCHANGED vars
  <2>1. UNCHANGED <<attempts, registrations, account, token, family,
                    req, pc, fresh, marked, skipped, vouched>>
    BY <1>5 DEF vars, limitVars, sessionVars, requestVars
  <2>2. TypeOK' /\ SessionInv' /\ Crowd'
    BY <2>1
    DEF IInv, TypeOK, LimitTypeOK, SessionTypeOK, SessionInv, LocksExclude, Refreshing,
        Lineage, OneLivePerLogin, Crowd, InFlight, Unrevoked, Issued
  <2>3. AttemptsBounded'
    BY <2>1
    DEF IInv, InFlight, AttemptsBounded, Failures, Guessing,
        FailuresFrom, GuessingFrom, RegistrationsFrom, Registering, Within
  <2> QED
    BY <2>2, <2>3 DEF IInv, SessionInv
<1> QED
  BY <1>1, <1>2, <1>3, <1>4, <1>5 DEF Next

\* The types of the tables and of the requests, and the id space of the tokens,
\* are kept by every route.
THEOREM TypeCorrect == Spec => []TypeOK
<1>1. IInv => TypeOK
  BY DEF IInv
<1> QED
  BY <1>1, Initially, NextKeepsIInv, PTL DEF Spec

\* However requests interleave with each other, with errors of the limiter and with
\* the clean-up job, a window counts at most one failure or registration fewer than
\* the limit and one for every request served at once: no spreading of guesses over
\* emails, and no sending of all at once, gets an account or an address further.
THEOREM LimitsHold == Spec => []AttemptsBounded
<1>1. IInv => AttemptsBounded
  BY DEF IInv
<1> QED
  BY <1>1, Initially, NextKeepsIInv, PTL DEF Spec

\* However requests present the tokens of one login, at most one of the tokens
\* can be exchanged.
THEOREM SingleUseHolds == Spec => []OneLivePerLogin
<1>1. IInv => OneLivePerLogin
  BY DEF IInv
<1> QED
  BY <1>1, Initially, NextKeepsIInv, PTL DEF Spec

-----------------------------------------------------------------------------
(* What steps may never do.                                                *)

\* A request has its row of the limiter when it ends, and a request past the check
\* of its account was served while the account was active.
HistoryInv ==
  /\ \A r \in Requests : attempts[r] # NoRow \/ registrations[r] # NoRow => pc[r] = "done"
  /\ \A r \in Requests : pc[r] \in {"verified", "checked"} => r \in vouched

\* Rows that a window counts stay as they are.
CountedStay ==
  \A q \in Requests :
     /\ attempts[q] # NoRow /\ attempts[q].age < Window => attempts'[q] = attempts[q]
     /\ registrations[q] # NoRow /\ registrations[q].age < RegWindow
          => registrations'[q] = registrations[q]

\* How a request moves, and what it writes for the limiter.
LEMMA MoveHistory ==
  ASSUME TypeOK, HistoryInv, NEW r \in Requests, NEW stage, Goto(r, stage), pc[r] # "done",
         stage \in {"verified", "checked"} => r \in vouched',
         attempts' = attempts \/ (stage = "done" /\ \E row : attempts' = [attempts EXCEPT ![r] = row]),
         registrations' = registrations
           \/ (stage = "done" /\ \E row : registrations' = [registrations EXCEPT ![r] = row])
  PROVE  HistoryInv' /\ CountedStay
<1>1. /\ pc'[r] = stage
      /\ \A q \in Requests : q # r => pc'[q] = pc[q]
  BY DEF Goto, TypeOK
<1>2. \A q \in Requests : q # r /\ pc[q] \in {"verified", "checked"} => q \in vouched'
  BY DEF HistoryInv, Goto, InFlight
<1>3. \A q \in Requests : q # r => attempts'[q] = attempts[q] /\ registrations'[q] = registrations[q]
  BY DEF TypeOK, LimitTypeOK
<1>4. attempts[r] = NoRow /\ registrations[r] = NoRow
  BY DEF HistoryInv
<1>5. \A q \in Requests : attempts'[q] # NoRow \/ registrations'[q] # NoRow => pc'[q] = "done"
  <2> SUFFICES ASSUME NEW q \in Requests, attempts'[q] # NoRow \/ registrations'[q] # NoRow
               PROVE  pc'[q] = "done"
    OBVIOUS
  <2>1. CASE q = r
    BY <1>1, <1>4, <2>1
  <2>2. CASE q # r
    BY <1>1, <1>3, <2>2 DEF HistoryInv
  <2> QED
    BY <2>1, <2>2
<1>6. \A q \in Requests : pc'[q] \in {"verified", "checked"} => q \in vouched'
  BY <1>1, <1>2
<1>7. CountedStay
  BY <1>3, <1>4 DEF CountedStay
<1> QED
  BY <1>5, <1>6, <1>7 DEF HistoryInv

LEMMA StepHistory ==
  ASSUME IInv, HistoryInv, NEW r \in Requests, Step(r)
  PROVE  HistoryInv' /\ CountedStay
<1> USE DEF IInv
<1>1. ASSUME NEW stage, Goto(r, stage), pc[r] # "done", UNCHANGED limitVars,
             stage \notin {"verified", "checked"}
      PROVE  HistoryInv' /\ CountedStay
  BY <1>1, MoveHistory DEF limitVars
<1>2. CASE Verify(r)
  <2>1. PICK stage \in {"verified", "failed"} :
          Move(r, stage) /\ (stage = "verified" => Active(Account(r)))
    BY <1>2 DEF Verify
  <2>2. stage = "verified" => r \in vouched'
    BY <1>2, <2>1 DEF Move, Goto, Verify, Subject
  <2> QED
    BY <1>2, <2>1, <2>2, MoveHistory DEF Verify, Move, limitVars
<1>3. CASE CheckSubject(r)
  <2>1. PICK stage \in {"checked", "done"} :
          Move(r, stage) /\ (stage = "checked" => Active(token[Presented(r)].owner))
    BY <1>3 DEF CheckSubject
  <2>2. Issued(Presented(r))
    BY <1>3 DEF CheckSubject, LocksExclude, Refreshing, Unrevoked
  <2>3. stage = "checked" => r \in vouched'
    BY <1>3, <2>1, <2>2 DEF Move, Goto, CheckSubject, Subject
  <2> QED
    BY <1>3, <2>1, <2>3, MoveHistory DEF CheckSubject, Move, limitVars
<1>4. CASE RecordFailure(r)
  BY <1>4, MoveHistory DEF RecordFailure, RecordAttempt
<1>5. CASE RecordRegistrationAttempt(r)
  BY <1>5, MoveHistory DEF RecordRegistrationAttempt, RecordRegistration
<1>6. CASE \/ CheckEmail(r) \/ CheckIp(r) \/ IssuePair(r) \/ CheckRegistrations(r)
           \/ LookUpEmail(r) \/ InsertGuest(r) \/ CommitGuest(r) \/ RecordSuccess(r)
  BY <1>1, <1>6 DEF CheckEmail, CheckIp, IssuePair, CheckRegistrations, LookUpEmail,
                    InsertGuest, CommitGuest, RecordSuccess, Arrives, Move
<1>7. CASE \/ BeginRefresh(r) \/ LockToken(r) \/ CommitRefresh(r) \/ Logout(r)
           \/ LookUpNewStaff(r) \/ InsertStaff(r) \/ LookUpStaff(r) \/ Disable(r)
           \/ Enable(r) \/ MarkTokens(r) \/ RevokeMarked(r)
  BY <1>1, <1>7 DEF BeginRefresh, LockToken, CommitRefresh, Logout, LookUpNewStaff,
                    InsertStaff, LookUpStaff, Disable, Enable, MarkTokens, RevokeMarked,
                    Arrives, Move
<1> QED
  BY <1>2, <1>3, <1>4, <1>5, <1>6, <1>7 DEF Step

LEMMA FaultHistory ==
  ASSUME IInv, HistoryInv, NEW r \in Requests,
         Crash(r) \/ LimiterThrows(r) \/ ServiceThrows(r) \/ RecordingFails(r)
  PROVE  HistoryInv' /\ CountedStay
<1>1. PICK stage \in {"failed", "done"} : Goto(r, stage) /\ pc[r] # "done" /\ UNCHANGED limitVars
  BY DEF Crash, LimiterThrows, ServiceThrows, RecordingFails, Arrives, Move, InFlight
<1> QED
  BY <1>1, MoveHistory DEF IInv, limitVars

\* The job deletes no row that a window counts.
LEMMA CleanupHistory ==
  ASSUME IInv, HistoryInv, Cleanup
  PROVE  HistoryInv' /\ CountedStay
<1>1. /\ attempts \in [Requests -> Attempt \cup {NoRow}]
      /\ registrations \in [Requests -> Registration \cup {NoRow}]
      /\ Window \in Nat /\ RegWindow \in Nat /\ Retention \in Nat
      /\ Window <= Retention /\ RegWindow <= Retention
  BY RateLimitAssumption DEF IInv, TypeOK, LimitTypeOK
<1>2. UNCHANGED <<pc, vouched>>
  BY DEF Cleanup, requestVars
<1>3. HistoryInv'
  BY <1>1, <1>2 DEF HistoryInv, Cleanup, CleanupLogs
<1>4. CountedStay
  BY <1>1 DEF CountedStay, Cleanup, CleanupLogs, Outdated, Attempt, Registration, Ages
<1> QED
  BY <1>3, <1>4

LEMMA TickHistory ==
  ASSUME IInv, HistoryInv, Tick
  PROVE  HistoryInv'
<1>1. /\ attempts' = [r \in Requests |-> Aged(attempts[r])]
      /\ registrations' = [r \in Requests |-> Aged(registrations[r])]
      /\ UNCHANGED <<pc, vouched>>
  BY DEF Tick, TickTime, requestVars
<1>2. Aged(NoRow) = NoRow
  BY DEF Aged
<1> QED
  BY <1>1, <1>2 DEF HistoryInv

LEMMA NextHistory ==
  ASSUME IInv, HistoryInv, [Next]_vars
  PROVE  HistoryInv' /\ (Tick \/ CountedStay)
<1>1. ASSUME UNCHANGED <<attempts, registrations, pc, vouched>>
      PROVE  HistoryInv' /\ CountedStay
  BY <1>1 DEF HistoryInv, CountedStay
<1>2. CASE UNCHANGED vars
  BY <1>1, <1>2 DEF vars, limitVars, requestVars
<1>3. ASSUME NEW t \in Tokens, Lapse(t)
      PROVE  HistoryInv' /\ CountedStay
  BY <1>1, <1>3 DEF Lapse, limitVars, requestVars
<1> QED
  BY <1>2, <1>3, StepHistory, FaultHistory, CleanupHistory, TickHistory DEF Next

\* With the rows that it counts, a limit stays reached.
LEMMA LimitsStay ==
  ASSUME CountedStay
  PROVE  /\ \A a \in Accounts : EmailLimited(a) => EmailLimited(a)'
         /\ \A ip \in Ips : /\ IpLimited(ip) => IpLimited(ip)'
                            /\ RegistrationLimited(ip) => RegistrationLimited(ip)'
<1>1. IsFiniteSet(Requests)
  BY AuthDataAssumption
<1>2. ASSUME NEW S \in SUBSET Requests, NEW T \in SUBSET Requests, S \subseteq T, NEW n \in Nat,
             Cardinality(S) >= n
      PROVE  Cardinality(T) >= n
  <2>1. IsFiniteSet(S) /\ IsFiniteSet(T) /\ Cardinality(S) <= Cardinality(T)
    BY <1>1, <1>2, FS_Subset
  <2>2. Cardinality(S) \in Nat /\ Cardinality(T) \in Nat
    BY <2>1, FS_CardinalityType
  <2> QED
    BY <1>2, <2>1, <2>2
<1>3. \A a : /\ Failures(a) \in SUBSET Requests /\ Failures(a)' \in SUBSET Requests
             /\ Failures(a) \subseteq Failures(a)'
  BY DEF Failures, CountedStay
<1>4. \A ip : /\ FailuresFrom(ip) \in SUBSET Requests /\ FailuresFrom(ip)' \in SUBSET Requests
              /\ FailuresFrom(ip) \subseteq FailuresFrom(ip)'
  BY DEF FailuresFrom, CountedStay
<1>5. \A ip : /\ RegistrationsFrom(ip) \in SUBSET Requests
              /\ RegistrationsFrom(ip)' \in SUBSET Requests
              /\ RegistrationsFrom(ip) \subseteq RegistrationsFrom(ip)'
  BY DEF RegistrationsFrom, CountedStay
<1> QED
  BY <1>2, <1>3, <1>4, <1>5, RateLimitAssumption DEF EmailLimited, IpLimited, RegistrationLimited

LEMMA InitHistory == Init => HistoryInv
  BY DEF Init, LimitInit, HistoryInv

\* Nothing but time lets an account or an address out of the limiter.
THEOREM OnlyTime == Spec => OnlyTimeFrees
<1>1. IInv /\ HistoryInv /\ [Next]_vars => HistoryInv'
  BY NextHistory
<1>2. IInv /\ HistoryInv /\ [Next]_vars =>
        [Tick \/ /\ \A a \in Accounts : EmailLimited(a) => EmailLimited(a)'
                 /\ \A ip \in Ips : /\ IpLimited(ip) => IpLimited(ip)'
                                    /\ RegistrationLimited(ip) => RegistrationLimited(ip)']_vars
  BY NextHistory, LimitsStay
<1> QED
  BY <1>1, <1>2, InitHistory, Initially, NextKeepsIInv, PTL DEF Spec, OnlyTimeFrees

\* A token that appears is the one of the request that commits it.
LEMMA IssuedBy ==
  ASSUME IInv, [Next]_vars, NEW r \in Requests, ~Issued(r), Issued(r)'
  PROVE  \/ IssuePair(r) \/ CommitGuest(r) \/ CommitRefresh(r)
<1> USE DEF IInv
<1>1. UNCHANGED token => FALSE
  BY DEF Issued
<1>2. ASSUME NEW S, RevokeTokens(S)
      PROVE  FALSE
  BY <1>2 DEF RevokeTokens, Issued, Unrevoked
<1>3. r \in Tokens
  BY DEF Tokens
<1>4. ASSUME NEW t \in Tokens, Lapse(t)
      PROVE  FALSE
  BY <1>3, <1>4, LapseKeeps
<1>5. ASSUME NEW q \in Requests, Step(q)
      PROVE  \/ IssuePair(r) \/ CommitGuest(r) \/ CommitRefresh(r)
  <2>1. CASE IssuePair(q) \/ CommitGuest(q)
    <3>1. q = r
      BY <1>3, <2>1 DEF IssuePair, CommitGuest, IssueToken, Issued, TypeOK, SessionTypeOK
    <3> QED
      BY <2>1, <3>1
  <2>2. CASE CommitRefresh(q)
    <3>1. Presented(q) # r
      BY <2>2 DEF CommitRefresh, LocksExclude, Refreshing, Unrevoked
    <3>2. q = r
      BY <1>3, <2>2, <3>1 DEF CommitRefresh, Rotate, Issued, TypeOK, SessionTypeOK
    <3> QED
      BY <2>2, <3>2
  <2>3. CASE Logout(q) \/ RevokeMarked(q)
    BY <1>2, <2>3 DEF Logout, RevokeMarked
  <2>4. CASE ~(\/ IssuePair(q) \/ CommitGuest(q) \/ CommitRefresh(q)
               \/ Logout(q) \/ RevokeMarked(q))
    BY <1>1, <1>5, <2>4
    DEF Step, CheckEmail, CheckIp, Verify, CheckRegistrations, LookUpEmail,
        InsertGuest, RecordSuccess, RecordFailure,
        RecordRegistrationAttempt, BeginRefresh, LockToken, CheckSubject,
        LookUpNewStaff, InsertStaff, LookUpStaff, Disable,
        Enable, MarkTokens, Move, sessionVars
  <2> QED
    BY <2>1, <2>2, <2>3, <2>4
<1>6. CASE \/ UNCHANGED vars \/ Tick \/ Cleanup
           \/ \E q \in Requests : \/ Crash(q) \/ LimiterThrows(q) \/ ServiceThrows(q)
                                  \/ RecordingFails(q)
  BY <1>1, <1>6
  DEF vars, sessionVars, Tick, Cleanup, Crash, LimiterThrows, ServiceThrows,
      RecordingFails, Move
<1> QED
  BY <1>4, <1>5, <1>6 DEF Next

\* No request that never saw its account active issues a token for one that is
\* disabled.
LEMMA IssuedToActive ==
  ASSUME IInv, HistoryInv, [Next]_vars, NEW r \in Requests, ~Issued(r), Issued(r)', r \notin vouched
  PROVE  account'[token'[r].owner] # "disabled"
<1> USE DEF IInv
<1>1. CommitGuest(r)
  BY IssuedBy DEF IssuePair, CommitRefresh, HistoryInv
<1>2. Account(r) \in Accounts /\ r \in Tokens
  BY InputTypes
<1>3. token'[r].owner = Account(r)
  BY <1>1, <1>2 DEF CommitGuest, IssueToken, New, TypeOK, SessionTypeOK
<1>4. account'[Account(r)] = "active"
  BY <1>1, <1>2 DEF CommitGuest, SetAccount, TypeOK, SessionTypeOK
<1> QED
  BY <1>3, <1>4

\* A disabled account gets no token, unless by a request that was being served when
\* it was active.
THEOREM DisabledGetNothing == Spec => DisabledMintsNothing
<1>1. IInv /\ HistoryInv /\ [Next]_vars => HistoryInv'
  BY NextHistory
<1>2. IInv /\ HistoryInv /\ [Next]_vars =>
        [\A r \in Requests : ~Issued(r) /\ Issued(r)' /\ r \notin vouched
                             => account'[token'[r].owner] # "disabled"]_vars
  BY IssuedToActive
<1> QED
  BY <1>1, <1>2, InitHistory, Initially, NextKeepsIInv, PTL DEF Spec, DisabledMintsNothing

-----------------------------------------------------------------------------
(* The refinement.                                                         *)

Live == {t \in Tokens : Unrevoked(t)}

LEMMA InitRefines == Init => Abs!Init
<1> SUFFICES ASSUME Init
             PROVE  Abs!Init
  OBVIOUS
<1> USE DEF Init, SessionInit
<1>1. \A t \in DOMAIN Old : New(Old[t]) # NoToken /\ ~New(Old[t]).revoked
  <2> SUFFICES ASSUME NEW t \in DOMAIN Old
               PROVE  New(Old[t]) # NoToken /\ ~New(Old[t]).revoked
    OBVIOUS
  <2>1. Old[t] \in Accounts
    BY SessionsAssumption
  <2>2. New(Old[t]) \in Token /\ ~New(Old[t]).revoked
    BY <2>1 DEF New, Token
  <2> QED
    BY <2>2, SessionsAssumption
<1>2. \A t \in Tokens : Unrevoked(t) <=> t \in DOMAIN Old
  BY <1>1 DEF Unrevoked, Issued, Tokens
<1> QED
  BY <1>2 DEF Abs!Init

\* Steps that leave the tokens alone are no steps of the promise.
LEMMA StutterRefines ==
  ASSUME UNCHANGED family,
         \A t \in Tokens : Unrevoked(t)' <=> Unrevoked(t)
  PROVE  UNCHANGED Abs!vars
<1>1. Live' = Live
  BY DEF Live, Tokens
<1> QED
  BY <1>1 DEF Abs!vars, Live

LEMMA IssueRefines ==
  ASSUME IInv, NEW r \in Requests, IssuePair(r) \/ CommitGuest(r)
  PROVE  Abs!Issue(r)
<1> USE DEF IInv
<1>1. r \in Tokens /\ Account(r) \in Accounts
  BY InputTypes
<1>2. New(Account(r)) \in Token /\ ~New(Account(r)).revoked
  BY <1>1 DEF New, Token
<1>3. New(Account(r)) # NoToken
  BY <1>2, SessionsAssumption
<1>4. /\ token \in [Tokens -> Token \cup {NoToken}]
      /\ token' = [token EXCEPT ![r] = New(Account(r))]
      /\ family' = [family EXCEPT ![r] = r]
  BY DEF TypeOK, SessionTypeOK, IssuePair, CommitGuest, IssueToken
<1>5. family[r] = NoToken
  BY <1>1 DEF IssuePair, CommitGuest, Lineage, Issued
<1>6. \A t \in Tokens : Unrevoked(t)' <=> Unrevoked(t) \/ t = r
  BY <1>1, <1>2, <1>3, <1>4 DEF Unrevoked, Issued
<1>7. Live' = Live \cup {r}
  BY <1>1, <1>6 DEF Live, Tokens
<1> QED
  BY <1>4, <1>5, <1>7 DEF Abs!Issue, Live

LEMMA RotateRefines ==
  ASSUME IInv, NEW r \in Requests, CommitRefresh(r)
  PROVE  Abs!Exchange(Presented(r), r)
<1> USE DEF IInv
<1> DEFINE old == Presented(r)
<1>1. Unrevoked(old) /\ old \in Tokens /\ r \in Tokens
  BY InputTypes DEF CommitRefresh, LocksExclude, Refreshing, Unrevoked, Issued
<1>2. ~Issued(r) /\ family[r] = NoToken /\ old # r
  BY <1>1 DEF CommitRefresh, Lineage, Issued, Unrevoked
<1>3. /\ token \in [Tokens -> Token \cup {NoToken}] /\ token[old] \in Token
      /\ token' = [token EXCEPT ![old].revoked = TRUE, ![r] = New(token[old].owner)]
      /\ family' = [family EXCEPT ![r] = family[old]]
  BY <1>1 DEF TypeOK, SessionTypeOK, CommitRefresh, Rotate, Unrevoked, Issued
<1>4. /\ token'[r] \in Token /\ ~token'[r].revoked
      /\ token'[old] \in Token /\ token'[old].revoked
  <2>1. token'[r] = New(token[old].owner)
    BY <1>1, <1>3
  <2>2. New(token[old].owner) \in Token /\ ~New(token[old].owner).revoked
    BY <1>3 DEF New, Token
  <2> QED
    BY <1>1, <1>2, <1>3, <2>1, <2>2 DEF Token
<1>5. \A t \in Tokens : Unrevoked(t)' <=> (Unrevoked(t) /\ t # old) \/ t = r
  BY <1>1, <1>2, <1>3, <1>4, SessionsAssumption DEF Unrevoked, Issued
<1>6. Live' = (Live \ {old}) \cup {r}
  BY <1>1, <1>2, <1>5 DEF Live, Tokens
<1> QED
  BY <1>1, <1>2, <1>3, <1>6 DEF Abs!Exchange, Live

LEMMA RevokeRefines ==
  ASSUME IInv, NEW S, RevokeTokens(S)
  PROVE  Abs!Revoke(Live \cap S)
<1>1. /\ token \in [Tokens -> Token \cup {NoToken}]
      /\ family' = family
      /\ token' = [t \in Tokens |-> IF t \in S /\ Unrevoked(t)
                                    THEN [token[t] EXCEPT !.revoked = TRUE]
                                    ELSE token[t]]
  BY DEF IInv, TypeOK, SessionTypeOK, RevokeTokens
<1>2. ASSUME NEW t \in Tokens
      PROVE  Unrevoked(t)' <=> Unrevoked(t) /\ t \notin S
  <2>1. CASE t \in S /\ Unrevoked(t)
    <3>1. token[t] \in Token
      BY <1>1, <2>1 DEF Unrevoked, Issued
    <3>2. token'[t] \in Token /\ token'[t].revoked
      BY <1>1, <2>1, <3>1 DEF Token
    <3> QED
      BY <2>1, <3>2 DEF Unrevoked
  <2>2. CASE ~(t \in S /\ Unrevoked(t))
    BY <1>1, <2>2 DEF Unrevoked, Issued
  <2> QED
    BY <2>1, <2>2
<1>3. Live' = Live \ (Live \cap S)
  BY <1>2 DEF Live, Tokens
<1> QED
  BY <1>1, <1>3 DEF Abs!Revoke, Live

LEMMA StepRefines == IInv /\ [Next]_vars => [Abs!Next]_(Abs!vars)
<1> SUFFICES ASSUME IInv, [Next]_vars
             PROVE  Abs!Next \/ UNCHANGED Abs!vars
  OBVIOUS
<1>1. ASSUME UNCHANGED <<token, family>>
      PROVE  UNCHANGED Abs!vars
  BY <1>1, StutterRefines DEF Unrevoked, Issued
<1>2. ASSUME NEW r \in Requests, Step(r)
      PROVE  Abs!Next \/ UNCHANGED Abs!vars
  <2>1. r \in Tokens
    BY DEF Tokens
  <2>2. CASE IssuePair(r) \/ CommitGuest(r)
    BY <2>1, <2>2, IssueRefines DEF Abs!Next
  <2>3. CASE CommitRefresh(r)
    <3>1. Presented(r) \in Tokens
      BY <2>3 DEF CommitRefresh, IInv, LocksExclude, Refreshing, Unrevoked, Issued
    <3> QED
      BY <2>1, <2>3, <3>1, RotateRefines DEF Abs!Next
  <2>4. CASE Logout(r) \/ RevokeMarked(r)
    <3>1. PICK S : RevokeTokens(S)
      BY <2>4 DEF Logout, RevokeMarked
    <3>2. Abs!Revoke(Live \cap S)
      BY <3>1, RevokeRefines
    <3> QED
      BY <3>2 DEF Abs!Next, Live
  <2>5. CASE ~(\/ IssuePair(r) \/ CommitGuest(r) \/ CommitRefresh(r)
               \/ Logout(r) \/ RevokeMarked(r))
    <3>1. UNCHANGED <<token, family>>
      BY <1>2, <2>5
      DEF Step, CheckEmail, CheckIp, Verify, CheckRegistrations, LookUpEmail,
         InsertGuest, RecordSuccess, RecordFailure,
         RecordRegistrationAttempt, BeginRefresh, LockToken, CheckSubject,
         LookUpNewStaff, InsertStaff, LookUpStaff, Disable,
         Enable, MarkTokens, Move, sessionVars
    <3> QED
      BY <1>1, <3>1
  <2> QED
    BY <2>2, <2>3, <2>4, <2>5
<1>3. ASSUME NEW t \in Tokens, Lapse(t)
      PROVE  UNCHANGED Abs!vars
  <2>1. UNCHANGED family
    BY <1>3 DEF Lapse, Expire
  <2> QED
    BY <1>3, <2>1, LapseKeeps, StutterRefines
<1>4. CASE \/ UNCHANGED vars \/ Tick \/ Cleanup
           \/ \E r \in Requests : \/ Crash(r) \/ LimiterThrows(r) \/ ServiceThrows(r)
                                  \/ RecordingFails(r)
  BY <1>1, <1>4
  DEF vars, sessionVars, Tick, Cleanup, Crash, LimiterThrows, ServiceThrows,
      RecordingFails, Move
<1> QED
  BY <1>2, <1>3, <1>4 DEF Next

\* Rotation, logout, login and revocation, with their locks, snapshots and
\* crashes, do what SingleUse promises.
THEOREM AuthRefines == Spec => ImplementsSingleUse
  BY Initially, NextKeepsIInv, InitRefines, StepRefines, PTL
  DEF Spec, ImplementsSingleUse, Abs!Spec
=============================================================================
