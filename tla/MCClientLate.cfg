CONSTANTS
  MaxCell = 8
  Capacity = 5
  NoSeal = NoSeal
  N = 8
  Props <- MCProps
  NaN = 9
  KeyId = 2
  NonceId = 1
  InitValues <- MCInitValues
  Requests <- MCRequests
  Nonces = {0, 1}
  LogFrame <- MCLogFrame
  MaxCalls = 3
  CProps <- MCCProps
  IdOf <- MCIdOf
  InitSecret <- MCSecret
  Ciphertext = Ciphertext
  Other = Other
  MaxLosses = 1
  MaxEarly = 1
  MaxLogs = 1
  Users = {"property"}
  Operations <- Sets
  MemOperations <- FewTransfers
  BlockMax = 2
  MemEarly = 1
  MemLosses = 1
  MemLogs = 0
  MemCalls = 5
  Names <- Unknown
  HolderCalls = 17
  HolderEarly = 0
  HolderLosses = 1
  HolderLogs = 0
  Station = {"s1", "s2"}
  Address = {1, 2, 3}
  Start <- StartAddress
  MaxSets = 3
SPECIFICATION ClientSpec
INVARIANT SuccessMeansDone
CHECK_DEADLOCK FALSE
