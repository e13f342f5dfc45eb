CONSTANTS
  NENV = 5
  NCPU = 2
  ncpu = 2
  NUSER = 1
  GenLimit = 524287
  MaxGen = 2
SPECIFICATION LibSpec
INVARIANT SleeperCanBeSentTo
