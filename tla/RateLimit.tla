------------------------------ MODULE RateLimit ------------------------------
(***************************************************************************)
(* rateLimitService.js and the job cleanupRateLimitLogs.js: the two tables  *)
(* that count what clients did lately, and the statements on them.          *)
(*                                                                         *)
(* A row has the id of the request that writes it and carries its age       *)
(* instead of its created_at.  Rows of login_attempts with success = true   *)
(* are read by nobody and are left out.                                     *)
(***************************************************************************)
EXTENDS AuthData

CONSTANTS
  Ips,               \* client addresses
  Window,            \* WINDOW_MINUTES, in ticks
  MaxPerEmail,       \* MAX_FAILED_ATTEMPTS_PER_EMAIL
  MaxPerIp,          \* MAX_FAILED_ATTEMPTS_PER_IP
  RegWindow,         \* REGISTRATION_WINDOW_MINUTES, in ticks
  MaxRegistrations,  \* MAX_REGISTRATIONS_PER_IP
  Retention,         \* RETENTION_DAYS, in ticks; bound: ages stop one later
  NoRow              \* no row

VARIABLES
  attempts,      \* login_attempts: the failed ones
  registrations  \* registration_attempts

limitVars == <<attempts, registrations>>

Ages == 0 .. Retention + 1
Attempt == [account : Accounts, ip : Ips, age : Ages]
Registration == [ip : Ips, age : Ages]

ASSUME RateLimitAssumption ==
  /\ Window \in Nat /\ RegWindow \in Nat /\ Retention \in Nat
  /\ MaxPerEmail \in Nat /\ MaxPerIp \in Nat /\ MaxRegistrations \in Nat
  /\ Window <= Retention /\ RegWindow <= Retention
  /\ NoRow \notin Attempt \cup Registration

LimitTypeOK ==
  /\ attempts \in [Requests -> Attempt \cup {NoRow}]
  /\ registrations \in [Requests -> Registration \cup {NoRow}]

LimitInit ==
  /\ attempts = [r \in Requests |-> NoRow]
  /\ registrations = [r \in Requests |-> NoRow]

-----------------------------------------------------------------------------
(* The counts, over a rolling window.                                      *)

Failures(a) == {r \in Requests : /\ attempts[r] # NoRow
                                 /\ attempts[r].account = a
                                 /\ attempts[r].age < Window}

FailuresFrom(ip) == {r \in Requests : /\ attempts[r] # NoRow
                                      /\ attempts[r].ip = ip
                                      /\ attempts[r].age < Window}

RegistrationsFrom(ip) == {r \in Requests : /\ registrations[r] # NoRow
                                           /\ registrations[r].ip = ip
                                           /\ registrations[r].age < RegWindow}

\* Mutant of EmailLimited: > for >=.
EmailLimitedOffByOne(a) == Cardinality(Failures(a)) > MaxPerEmail

\* Mutants of IpLimited and RegistrationLimited: one too late, and a count of the
\* wrong table.
IpLimitedOffByOne(ip) == Cardinality(FailuresFrom(ip)) > MaxPerIp
RegistrationLimitedByFailures(ip) ==
  Cardinality(FailuresFrom(ip)) >= MaxRegistrations

\* The queries of assertNotRateLimited, one after the other.
EmailLimited(a) == Cardinality(Failures(a)) >= MaxPerEmail
IpLimited(ip) == Cardinality(FailuresFrom(ip)) >= MaxPerIp

\* The query of assertRegistrationNotRateLimited.
RegistrationLimited(ip) ==
  Cardinality(RegistrationsFrom(ip)) >= MaxRegistrations

-----------------------------------------------------------------------------
(* Statements.                                                             *)

\* Mutant of RecordAttempt: the email and the address change places.
RecordAttemptSwapped(r, a, ip) ==
  /\ attempts' = [attempts EXCEPT ![r] = [account |-> ip, ip |-> a, age |-> 0]]
  /\ UNCHANGED registrations

RecordAttempt(r, a, ip) ==
  /\ attempts' = [attempts EXCEPT ![r] = [account |-> a, ip |-> ip, age |-> 0]]
  /\ UNCHANGED registrations

RecordRegistration(r, ip) ==
  /\ registrations' = [registrations EXCEPT ![r] = [ip |-> ip, age |-> 0]]
  /\ UNCHANGED attempts

Aged(row) == IF row = NoRow \/ row.age > Retention THEN row
             ELSE [row EXCEPT !.age = @ + 1]

TickTime ==
  /\ attempts' = [r \in Requests |-> Aged(attempts[r])]
  /\ registrations' = [r \in Requests |-> Aged(registrations[r])]

\* Mutant of Outdated: the job deletes what a window still counts.
OutdatedInWindow(row) == row # NoRow

Outdated(row) == row # NoRow /\ row.age > Retention

\* The two DELETEs of the job commit together.
CleanupLogs ==
  /\ attempts' = [r \in Requests |-> IF Outdated(attempts[r]) THEN NoRow
                                     ELSE attempts[r]]
  /\ registrations' = [r \in Requests |-> IF Outdated(registrations[r]) THEN NoRow
                                          ELSE registrations[r]]
=============================================================================
