------------------------------ MODULE AuthRoutes -----------------------------
(***************************************************************************)
(* routes/auth.js, adminAuth.js and adminStaff.js with the services they    *)
(* call, interleaved at every await: guests and staff log in, guests        *)
(* register, refresh tokens are exchanged and given up, hq_admins create,   *)
(* disable and enable staff accounts, and the clean-up job runs.            *)
(*                                                                         *)
(* What an open transaction has written is what `pc` says, and shows in     *)
(* the tables when it commits.  A row that a refresh has locked is waited   *)
(* for by every other statement that would change it.                       *)
(***************************************************************************)
EXTENDS RateLimit, Sessions

CONSTANTS
  Loads,       \* what the requests of a behaviour ask for: [Requests -> Input]
  MaxInFlight  \* bound: requests served at once

\* `valid`: no field is missing, and for a login the password is right.  `by`:
\* the staff member who asks, as the access token says, which nobody looks up.
Input == [op : {"login", "register", "refresh", "logout",
                "create", "disable", "enable"},
          account : Accounts, ip : Ips, valid : BOOLEAN,
          token : Tokens \cup {NoToken}, by : Accounts \cup {NoAccount}]

ASSUME AuthRoutesAssumption ==
  /\ Loads \subseteq [Requests -> Input]
  /\ MaxInFlight \in Nat \ {0}

VARIABLES
  req,     \* req[r]: what request r asks for
  pc,      \* pc[r]: how far request r has come
  fresh,   \* fresh[r]: whether r's token had not expired at the BEGIN of r
  marked,  \* marked[r]: the rows that the revoking statement of r matched
  skipped, \* history: requests that failed before the limiter let them pass
  vouched  \* history: requests whose account was active while they were served

requestVars == <<req, pc, fresh, marked, skipped, vouched>>
vars == <<limitVars, sessionVars, requestVars>>

\* "emailOk": below the limit of the email.  "admitted": past the limiter.
\* "verified": the password is right and the account active.  "unused": the
\* email had no account.  "inserted": has the uncommitted row of the guest.
\* "issued": the service returned.  "failed": the service threw.  "begun":
\* inside BEGIN.  "locked": has the token's row.  "checked": the account is
\* active.  "found": the staff row exists.  "disabled": it was updated.
\* "revoking": the statement on its tokens has begun.
Stages == {"received", "emailOk", "admitted", "verified", "unused", "inserted",
           "issued", "failed", "begun", "locked", "checked", "found",
           "disabled", "revoking", "done"}

InFlight == {r \in Requests : pc[r] \notin {"received", "done"}}

Op(r) == req[r].op
Account(r) == req[r].account
Ip(r) == req[r].ip
Presented(r) == req[r].token

TypeOK ==
  /\ LimitTypeOK
  /\ SessionTypeOK
  /\ req \in [Requests -> Input]
  /\ pc \in [Requests -> Stages]
  /\ fresh \in [Requests -> BOOLEAN]
  /\ marked \in [Requests -> SUBSET Tokens]
  /\ skipped \in SUBSET Requests
  /\ vouched \in SUBSET Requests

Init ==
  /\ LimitInit
  /\ SessionInit
  /\ req \in Loads
  /\ pc = [r \in Requests |-> "received"]
  /\ fresh = [r \in Requests |-> FALSE]
  /\ marked = [r \in Requests |-> {}]
  /\ skipped = {}
  /\ vouched = {}

At(r, op, stage) == Op(r) = op /\ pc[r] = stage

\* Whose token or account request r is about.
Subject(r) == IF Op(r) = "refresh" /\ Issued(Presented(r))
              THEN token[Presented(r)].owner ELSE Account(r)

Goto(r, stage) ==
  /\ pc' = [pc EXCEPT ![r] = stage]
  /\ vouched' = {q \in InFlight \cup {r} : q \in vouched \/ Active(Subject(q))}
                  \ (IF stage = "done" THEN {r} ELSE {})

\* A step that changes no table and only moves on.
Move(r, stage) ==
  /\ Goto(r, stage)
  /\ UNCHANGED <<limitVars, sessionVars, req, fresh, marked, skipped>>

Arrives(r, op) == At(r, op, "received") /\ Cardinality(InFlight) < MaxInFlight

-----------------------------------------------------------------------------
(* POST /auth/login and /admin/auth/login.                                 *)

\* Mutant of CheckEmail: the 429 itself is recorded as a failed attempt.
CheckEmailRecording(r) ==
  /\ Arrives(r, "login")
  /\ Move(r, IF EmailLimited(Account(r)) THEN "failed" ELSE "emailOk")

CheckEmail(r) ==
  /\ Arrives(r, "login")
  /\ Move(r, IF EmailLimited(Account(r)) THEN "done" ELSE "emailOk")

CheckIp(r) ==
  /\ At(r, "login", "emailOk")
  /\ Move(r, IF IpLimited(Ip(r)) THEN "done" ELSE "admitted")

\* Mutant of Verify: the account's is_active is not looked at.
VerifyPasswordOnly(r) ==
  /\ At(r, "login", "admitted")
  /\ Move(r, IF req[r].valid /\ account[Account(r)] # "absent"
             THEN "verified" ELSE "failed")

\* Only staff accounts are ever disabled; loginGuest has nothing to check.
Verify(r) ==
  /\ At(r, "login", "admitted")
  /\ Move(r, IF req[r].valid /\ Active(Account(r)) THEN "verified" ELSE "failed")

\* The COMMIT may be acknowledged or not.
IssuePair(r) ==
  /\ At(r, "login", "verified")
  /\ IssueToken(r, Account(r))
  /\ \E stage \in {"issued", "failed"} : Goto(r, stage)
  /\ UNCHANGED <<limitVars, account, req, fresh, marked, skipped>>

-----------------------------------------------------------------------------
(* POST /auth/register.                                                    *)

CheckRegistrations(r) ==
  /\ Arrives(r, "register")
  /\ Move(r, IF RegistrationLimited(Ip(r)) THEN "done" ELSE "admitted")

LookUpEmail(r) ==
  /\ At(r, "register", "admitted")
  /\ Move(r, IF req[r].valid /\ account[Account(r)] = "absent"
             THEN "unused" ELSE "failed")

\* INSERT INTO guests waits for a transaction that has inserted the same email.
EmailInFlight(a) ==
  \E q \in Requests : At(q, "register", "inserted") /\ Account(q) = a

InsertGuest(r) ==
  /\ At(r, "register", "unused")
  /\ ~EmailInFlight(Account(r))
  /\ Move(r, IF account[Account(r)] = "absent" THEN "inserted" ELSE "failed")

\* The guest, the bonus and the refresh token commit together.
CommitGuest(r) ==
  /\ At(r, "register", "inserted")
  /\ SetAccount(Account(r), "active")
  /\ IssueToken(r, Account(r))
  /\ \E stage \in {"issued", "failed"} : Goto(r, stage)
  /\ UNCHANGED <<limitVars, req, fresh, marked, skipped>>

-----------------------------------------------------------------------------
(* What the two routes record.                                             *)

\* A query of the limiter throws: the route takes it for a failed attempt.
LimiterThrows(r) ==
  /\ Arrives(r, "login") \/ Arrives(r, "register") \/ At(r, "login", "emailOk")
  /\ skipped' = skipped \cup {r}
  /\ Goto(r, "failed")
  /\ UNCHANGED <<limitVars, sessionVars, req, fresh, marked>>

\* A query of the service throws, or the recording of a success does.
ServiceThrows(r) ==
  /\ Op(r) \in {"login", "register"}
  /\ pc[r] \in {"admitted", "verified", "unused", "inserted", "issued"}
  /\ Move(r, "failed")

\* A success row counts for nobody.
RecordSuccess(r) ==
  /\ At(r, "login", "issued")
  /\ Move(r, "done")

RecordFailure(r) ==
  /\ At(r, "login", "failed")
  /\ RecordAttempt(r, Account(r), Ip(r))
  /\ Goto(r, "done")
  /\ UNCHANGED <<sessionVars, req, fresh, marked, skipped>>

RecordRegistrationAttempt(r) ==
  /\ Op(r) = "register"
  /\ pc[r] \in {"issued", "failed"}
  /\ RecordRegistration(r, Ip(r))
  /\ Goto(r, "done")
  /\ UNCHANGED <<sessionVars, req, fresh, marked, skipped>>

\* An error of the recording itself is swallowed, and a login without an email
\* is not recorded.
RecordingFails(r) ==
  /\ pc[r] = "failed"
  /\ Move(r, "done")

-----------------------------------------------------------------------------
(* POST /auth/refresh and /auth/logout.                                    *)

BeginRefresh(r) ==
  /\ Arrives(r, "refresh")
  /\ fresh' = [fresh EXCEPT ![r] = /\ Issued(Presented(r))
                                   /\ ~token[Presented(r)].expired]
  /\ Goto(r, "begun")
  /\ UNCHANGED <<limitVars, sessionVars, req, marked, skipped>>

Locked(t) == \E r \in Requests : /\ Op(r) = "refresh"
                                 /\ pc[r] \in {"locked", "checked"}
                                 /\ Presented(r) = t

\* Mutant of LockToken: the row is read without FOR UPDATE.
ReadToken(r) ==
  /\ At(r, "refresh", "begun")
  /\ Move(r, IF Unrevoked(Presented(r)) /\ fresh[r] THEN "locked" ELSE "done")

\* SELECT ... FOR UPDATE: a row that was waited for is matched again.
LockToken(r) ==
  /\ At(r, "refresh", "begun")
  /\ ~Locked(Presented(r))
  /\ Move(r, IF Unrevoked(Presented(r)) /\ fresh[r] THEN "locked" ELSE "done")

\* Mutant of CheckSubject: is_active is not looked at.
CheckSubjectExists(r) ==
  /\ At(r, "refresh", "locked")
  /\ Move(r, "checked")

\* Mutant of CheckSubject: an inactive account leaves the transaction open.
CheckSubjectLeavingOpen(r) ==
  /\ At(r, "refresh", "locked")
  /\ Active(token[Presented(r)].owner)
  /\ Move(r, "checked")

\* An inactive account rolls the transaction back: the token stays as it was.
CheckSubject(r) ==
  /\ At(r, "refresh", "locked")
  /\ Move(r, IF Active(token[Presented(r)].owner) THEN "checked" ELSE "done")

CommitRefresh(r) ==
  /\ At(r, "refresh", "checked")
  /\ Rotate(Presented(r), r)
  /\ Goto(r, "done")
  /\ UNCHANGED <<limitVars, account, req, fresh, marked, skipped>>

Logout(r) ==
  /\ Arrives(r, "logout")
  /\ ~Locked(Presented(r))
  /\ RevokeTokens({Presented(r)})
  /\ Goto(r, "done")
  /\ UNCHANGED <<limitVars, account, req, fresh, marked, skipped>>

-----------------------------------------------------------------------------
(* POST /admin/staff and PATCH /admin/staff/:id { is_active }.             *)

LookUpNewStaff(r) ==
  /\ Arrives(r, "create")
  /\ Move(r, IF req[r].valid /\ account[Account(r)] = "absent"
             THEN "unused" ELSE "done")

\* The unique email makes the INSERT fail when it was taken since.
InsertStaff(r) ==
  /\ At(r, "create", "unused")
  /\ IF account[Account(r)] = "absent" THEN SetAccount(Account(r), "active")
                                       ELSE UNCHANGED account
  /\ Goto(r, "done")
  /\ UNCHANGED <<limitVars, token, family, req, fresh, marked, skipped>>

LookUpStaff(r) ==
  /\ Arrives(r, "disable") \/ Arrives(r, "enable")
  /\ Move(r, IF \/ account[Account(r)] = "absent"
                \/ Op(r) = "disable" /\ req[r].by = Account(r)
             THEN "done" ELSE "found")

Disable(r) ==
  /\ At(r, "disable", "found")
  /\ SetAccount(Account(r), "disabled")
  /\ Goto(r, "disabled")
  /\ UNCHANGED <<limitVars, token, family, req, fresh, marked, skipped>>

Enable(r) ==
  /\ At(r, "enable", "found")
  /\ SetAccount(Account(r), "active")
  /\ Goto(r, "done")
  /\ UNCHANGED <<limitVars, token, family, req, fresh, marked, skipped>>

\* The revoking UPDATE matches the rows committed when it begins; rows that
\* others insert later are not revoked.
MarkTokens(r) ==
  /\ At(r, "disable", "disabled")
  /\ marked' = [marked EXCEPT ![r] = LiveOf(Account(r))]
  /\ Goto(r, "revoking")
  /\ UNCHANGED <<limitVars, sessionVars, req, fresh, skipped>>

\* It waits for those a refresh has locked.  (It takes them one by one and keeps
\* them while it waits; here all at once, so two revocations of one account never
\* wait for each other.)
RevokeMarked(r) ==
  /\ At(r, "disable", "revoking")
  /\ \A t \in marked[r] : ~Locked(t)
  /\ RevokeTokens(marked[r])
  /\ marked' = [marked EXCEPT ![r] = {}]
  /\ Goto(r, "done")
  /\ UNCHANGED <<limitVars, account, req, fresh, skipped>>

-----------------------------------------------------------------------------

Step(r) ==
  \/ CheckEmail(r) \/ CheckIp(r) \/ Verify(r) \/ IssuePair(r)
  \/ CheckRegistrations(r) \/ LookUpEmail(r) \/ InsertGuest(r) \/ CommitGuest(r)
  \/ RecordSuccess(r) \/ RecordFailure(r) \/ RecordRegistrationAttempt(r)
  \/ BeginRefresh(r) \/ LockToken(r) \/ CheckSubject(r) \/ CommitRefresh(r)
  \/ Logout(r)
  \/ LookUpNewStaff(r) \/ InsertStaff(r) \/ LookUpStaff(r)
  \/ Disable(r) \/ Enable(r) \/ MarkTokens(r) \/ RevokeMarked(r)

\* The connection or the process dies: what is not committed is rolled back,
\* and what a handler would have done next is not done.
Crash(r) ==
  /\ r \in InFlight
  /\ marked' = [marked EXCEPT ![r] = {}]
  /\ Goto(r, "done")
  /\ UNCHANGED <<limitVars, sessionVars, req, fresh, skipped>>

Tick == TickTime /\ UNCHANGED <<sessionVars, requestVars>>

Cleanup == CleanupLogs /\ UNCHANGED <<sessionVars, requestVars>>

Lapse(t) == Expire(t) /\ UNCHANGED <<limitVars, requestVars>>

Next ==
  \/ \E r \in Requests : Step(r) \/ Crash(r)
  \/ \E r \in Requests : LimiterThrows(r) \/ ServiceThrows(r) \/ RecordingFails(r)
  \/ Tick
  \/ Cleanup
  \/ \E t \in Tokens : Lapse(t)

Spec == Init /\ [][Next]_vars

\* Requests that can go on are served.  Nothing is assumed of errors, crashes, the
\* job, the clock, or the expiry of tokens.
Fairness == \A r \in Requests : WF_vars(Step(r))

FairSpec == Spec /\ Fairness

-----------------------------------------------------------------------------
(* Safety.                                                                 *)

\* Requests that the limiter has let pass and that are not recorded: logins of
\* account a, logins and registrations from an address.
Guessing(a) == {r \in InFlight \ skipped : Op(r) = "login" /\ Account(r) = a}

GuessingFrom(ip) == {r \in InFlight \ skipped :
                        Op(r) = "login" /\ pc[r] # "emailOk" /\ Ip(r) = ip}

Registering(ip) == {r \in InFlight \ skipped : Op(r) = "register" /\ Ip(r) = ip}

\* What is recorded and what is under way exceed the limit by those served at
\* once, less one.
Within(limit, recorded, underWay) ==
  Cardinality(recorded) + Cardinality(underWay) <= limit - 1 + MaxInFlight

\* A limit is checked by one statement and what counts towards it is recorded by a
\* later one, so the limits are not exact.  But however requests interleave, crash
\* and fail, those that the limiter has let pass are, in any window, at most one
\* less than the limit, and one more for every request served at once, those still
\* under way counted: the failed logins of an account, those from an address, over
\* whatever emails it spreads them, and the registrations from an address, those
\* that succeed included.  A request that gets a 429 adds nothing.  Left out are
\* the rows of `skipped` requests: when a query of the limiter itself throws, the
\* route records a failure all the same and the window counts it; the limit does
\* not bound how often that happens.
AttemptsBounded ==
  /\ \A a \in Accounts : Within(MaxPerEmail, Failures(a) \ skipped, Guessing(a))
  /\ \A ip \in Ips :
       /\ Within(MaxPerIp, FailuresFrom(ip) \ skipped, GuessingFrom(ip))
       /\ Within(MaxRegistrations, RegistrationsFrom(ip) \ skipped, Registering(ip))

\* Nothing but time lets an account or an address out of the limiter: no
\* login that succeeds, no restart and no run of the clean-up job ("not
\* something that affects rate-limiting correctness if it runs late").
OnlyTimeFrees ==
  [][Tick \/ /\ \A a \in Accounts : EmailLimited(a) => EmailLimited(a)'
             /\ \A ip \in Ips : /\ IpLimited(ip) => IpLimited(ip)'
                                /\ RegistrationLimited(ip) => RegistrationLimited(ip)']_vars

\* "A refresh token is single-use" (authService.js): of the tokens that
\* descend from one login, however often and by however many requests each is
\* presented, at most one can be exchanged.
OneLivePerLogin ==
  \A t, u \in Tokens :
     Unrevoked(t) /\ Unrevoked(u) /\ family[t] = family[u] => t = u

Abs == INSTANCE SingleUse
         WITH live <- {t \in Tokens : Unrevoked(t)}, Unissued <- NoToken

\* Rotation, logout, login and revocation, with the locks and the snapshots
\* of their statements, exchange and revoke tokens in one step each, and
\* none of them revives a token.
ImplementsSingleUse == Abs!Spec

\* A disabled account gets no refresh token, not even for one that it still
\* holds, unless by a request that was being served when it was active.
DisabledMintsNothing ==
  [][\A r \in Requests :
       ~Issued(r) /\ Issued(r)' /\ r \notin vouched
       => account'[token'[r].owner] # "disabled"]_vars

-----------------------------------------------------------------------------
(* Liveness.                                                               *)

\* Every request is answered: a refresh, a logout and a revocation that wait
\* for the same rows never wait for each other.
Answered == \A r \in Requests : <>(pc[r] = "done")

-----------------------------------------------------------------------------
(* What the comments of the code say and the code does not do.             *)

\* "Disabling an account immediately revokes every refresh token it holds"
\* (staffService.js): when updateStaff has revoked the tokens of an account,
\* the account holds none.
DisableRevokesAll ==
  [][\A r \in Requests : RevokeMarked(r) => LiveOf(Account(r))' = {}]_vars
=============================================================================
