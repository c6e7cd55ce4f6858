CONSTANTS
  MaxCell = 6
  Capacity = 5
  NoSeal = NoSeal
  N = 6
  Props <- MCProps
  NaN = 7
  KeyId = 2
  NonceId = 1
  InitValues <- MCInitValues
  Requests <- MCRequests
  Nonces = {0, 1}
  RangeCells = {0, 1, 2, 3}
SPECIFICATION Spec
INVARIANTS
  TypeOK
  ReplyOpens
  RangesWithinAbsolute
PROPERTIES
  PlainAnswersIndependent
  AccessRespected
  WriteReadsBack
