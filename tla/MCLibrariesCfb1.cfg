CONSTANTS
  Libraries = {"cfb1"}
  BitLengths = {4, 5}
  Nk = 4
  Last = 4
  Word <- MCWord
  X <- MCX
  T <- MCT
  schedule <- MCSchedule
  Thread = {"t1", "t2", "t3"}
  LastEntry = 3
  Name <- MCName
  MaxN = 4
  B = 6
  R = 256
  AadLens = {0, 4, 5}
  DataLens = {0, 6, 7}
  TagLens = {4, 6}
  NonceLens = {1, 4}
  Changes = {"none", "aad", "data", "tag"}
SPECIFICATION LibrariesSpec
INVARIANT Cfb1Right
CHECK_DEADLOCK FALSE
