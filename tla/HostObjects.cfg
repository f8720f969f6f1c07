SPECIFICATION Spec
CONSTANTS
  MajorBits = 5
  MinorBits = 1
  WordBits = 7
  CodeBits = 2
  MaxSmallChars = 2
  ByteBits = 4
  ErrorTypes = {0, 1}
  ErrorCodes = {0, 1, 2, 3, 4, 5, 6, 7, 8, 9}
  DepthLimit = 4
  ValSize = 3
  U32Size = 2
  SymbolLimit = 4
  U32s = {0, 2, 11}
  Words = {1, 64}
  MaxCalls = 2
  MaxFrames = 2
  CharCode <- MCCharCode
  Invocations <- MCInvocations
  Wire <- MCWire
  Atoms <- MCAtoms
INVARIANTS
  TypeOK
  FramesSeeOnlyWhatTheyWereGiven
  NoInternalErrors
  MapsAreOrderedFunctions
  ValsStandForScVals
CHECK_DEADLOCK FALSE
