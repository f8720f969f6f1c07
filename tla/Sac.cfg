SPECIFICATION Spec
CONSTANTS
  issuer = issuer
  alice = alice
  pool = pool
  NoEntry = NoEntry
  Account = {issuer, alice}
  Contract = {pool}
  Issuer = issuer
  I64Max = 2
  I128Max = 3
  Reserve = 1
  MinTempTtl = 1
  MaxEntryTtl = 3
  MaxSeq = 3
  Pair <- MCPair
  AdminArg = {pool}
  Amount <- MCAmount
  LiveUntilArg <- MCLiveUntil
  IssuerState <- MCIssuerState
  Start <- MCStart
VIEW LedgerView
INVARIANTS
  TypeOK
  BalancesMatchEvents
  AllowanceIsConsented
PROPERTIES
  LiabilitiesAreHonoured
  DeauthorizedIsFrozen
  MovesAreConsented
