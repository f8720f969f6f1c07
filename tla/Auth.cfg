SPECIFICATION Spec
CONSTANTS
  A = A
  B = B
  K = K
  x = x
  fA = fA
  fB = fB
  fK = fK
  new = new
  Contract = {A, B, K}
  Account = {x}
  Function = {fA, fB, fK}
  FnContract <- MCFnContract
  CreateFn = {new}
  Transaction <- MCTransactions
  UsedNonces <- MCUsedNonces
  MaxDepth = 5
  MaxInvokers = 2
INVARIANTS
  TypeOK
  NodesAreSpentOnce
  NoReplay
  MatchesFollowCallStack
  TreesAreNotMixed
  InvokersSpeakForTheirFrame
CHECK_DEADLOCK FALSE
