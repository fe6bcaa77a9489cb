\* A refresh in flight while its staff account is disabled.
SPECIFICATION Spec
CONSTANTS
  Requests = {1, 2, 3}
  Accounts <- MCAccounts
  Members <- MCMembers
  Ips = {"home", "cafe"}
  Window = 1
  RegWindow = 1
  Retention = 1
  MaxPerEmail = 1
  MaxPerIp = 2
  MaxRegistrations = 2
  Old <- MCOld
  Loads <- MCLoads
  MaxInFlight = 2
  NoRow = NoRow
  NoAccount = NoAccount
  NoToken = NoToken
PROPERTY
  DisableRevokesAll
