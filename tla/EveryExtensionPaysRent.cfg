SPECIFICATION Spec
CONSTANTS
  t1 = t1
  p1 = p1
  a1 = a1
  c1 = c1
  n1 = n1
  Key <- MCKey
  Val <- MCVal
  KeyType <- MCKeyType
  Source <- MCSource
  Size <- MCSize
  SeqNum = 1
  MinTempTtl = 2
  MinPersTtl = 1
  MaxEntryTtl = 3
  U32Max = 5
  NotLoaded = NotLoaded
  NoEntry = NoEntry
  NoTtl = NoTtl
  MaxDepth = 2
  MaxKeys = 2
CONSTRAINT FewKeys
INVARIANT
  EveryExtensionPaysRent
CHECK_DEADLOCK FALSE
