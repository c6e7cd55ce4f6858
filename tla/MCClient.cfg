CONSTANTS
  MaxCell = 8
  Capacity = 5
  NoSeal = NoSeal
  N = 8
  Props <- MCProps
  NaN = 9
  KeyId = 2
  NonceId = 1
  InitValues <- MCInitValues
  Requests <- MCRequests
  Nonces = {0, 1}
  LogFrame <- MCLogFrame
  MaxCalls = 3
  CProps <- MCCProps
  IdOf <- MCIdOf
  InitSecret <- MCSecret
  Ciphertext = Ciphertext
  Other = Other
  MaxLosses = 1
  MaxEarly = 2
  MaxLogs = 1
  Users = {"property", "memory", "holder", "address"}
  Operations <- PlainGets
  MemOperations <- AllTransfers
  BlockMax = 2
  MemEarly = 1
  MemLosses = 1
  MemLogs = 0
  MemCalls = 6
  Names <- TwoProtected
  HolderCalls = 34
  HolderEarly = 1
  HolderLosses = 1
  HolderLogs = 1
  Station = {"s1", "s2"}
  Address = {1, 2, 3}
  Start <- StartAddress
  MaxSets = 3
SPECIFICATION ClientSpec
INVARIANTS
  TypesOK
  SkewBounded
  SuccessTruthful
  KeysAgree
  PrefixWritten
  PrefixRead
  BindsRight
  FindsPlainNames
  OwnAnswerUnseen
  ConfirmedStays
PROPERTY AnswersOnce
CHECK_DEADLOCK FALSE
