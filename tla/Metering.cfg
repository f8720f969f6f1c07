SPECIFICATION Spec
CONSTANTS
  U64Max = 2147483647
  DefaultLimits = {458000, 459500}
  FlatLimits = {401, 620}
  Params <- MCParams
  Config <- MCConfig
  Code <- MCCode
  LedgerProto = 20
  HostProto = 20
  HostPre = 0
  Burst = {100}
  Growth = {4096}
  MaxMemory = 8192
  MaxDepth = 4
  MaxEffects = 2
INVARIANTS
  TypeOK
  WorkIsPaidFor
  OnlyTheRunningVmHoldsFuel
  AuthStackMatchesFrames
  ExhaustionIsFatal
PROPERTIES
  EveryInvocationEnds
