SPECIFICATION Spec
CONSTANTS
  t1 = t1
  p1 = p1
  a1 = a1
  c1 = c1
  n1 = n1
  Key <- MCKey
  Val <- MCVal
  KeyType <- MCKeyType
  Source <- MCSource
  SeqNum = 1
  MinTempTtl = 1
  MinPersTtl = 2
  MaxEntryTtl = 3
  U32Max = 4
  NotLoaded = NotLoaded
  NoEntry = NoEntry
  NoTtl = NoTtl
  MaxDepth = 2
  MaxKeys = 2
CONSTRAINT FewKeys
INVARIANTS
  RecordedFootprintIsExact
  ExecutionSeesPreflightState
CHECK_DEADLOCK FALSE
