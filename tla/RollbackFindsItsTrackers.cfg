SPECIFICATION Spec
CONSTANTS
  A = A
  B = B
  K = K
  x = x
  fA = fA
  fB = fB
  fK = fK
  new = new
  Contract = {A, B, K}
  Account = {x}
  Function = {fA, fB, fK}
  FnContract <- MCFnContract
  CreateFn = {new}
  Transaction <- MCInvokers
  UsedNonces <- MCUsedNonces
  MaxDepth = 4
  MaxInvokers = 2
INVARIANTS
  RollbackFindsItsTrackers
CHECK_DEADLOCK FALSE
