\* Three requests, two of them served at once: guesses, registrations, rotation
\* and the disabling of staff accounts.
SPECIFICATION FairSpec
CONSTANTS
  Requests = {1, 2, 3}
  Accounts <- MCAccounts
  Members <- MCMembers
  Ips = {"home", "cafe"}
  Window = 1
  RegWindow = 1
  Retention = 1
  MaxPerEmail = 1
  MaxPerIp = 1
  MaxRegistrations = 1
  Old <- MCOld
  Loads <- MCLoads
  MaxInFlight = 2
  NoRow = NoRow
  NoAccount = NoAccount
  NoToken = NoToken
INVARIANTS
  TypeOK
  AttemptsBounded
  OneLivePerLogin
PROPERTIES
  OnlyTimeFrees
  ImplementsSingleUse
  DisabledMintsNothing
  Answered
