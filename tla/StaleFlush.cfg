SPECIFICATION Spec
CONSTANTS
  a = a
  c = c
  Contract = {a, c}
  Val = {0, 1}
  InitVal = 0
  Wasm = {w1}
  StellarAsset = StellarAsset
  NoInstance = NoInstance
  NoContract = NoContract
  NoCache = NoCache
  Ledger0 <- MCLedger0
  SelfAuth = TRUE
  MaxDepth = 4
  MaxEvents = 1
INVARIANTS
  FlushReplacesWhatWasRead
CHECK_DEADLOCK FALSE
