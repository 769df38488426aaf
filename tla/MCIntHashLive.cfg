CONSTANTS
  k1 = k1
  k2 = k2
  k3 = k3
  k4 = k4
  k5 = k5
  NoKey = NoKey
  Keys <- MCKeys
  Values <- MCOneValue
  NotFound <- MCNotFound
  HashFuncs <- MCTwoHashFuncs
  InitialSize = 2
  MinSize = 2
  MaxSize = 8
  CallocMayFail = FALSE
SPECIFICATION FairSpec
PROPERTIES
  CallsReturn
