CONSTANTS
  NENV = 7
  NCPU = 2
  ncpu = 2
  NUSER = 4
  GenLimit = 524287
  MaxGen = 1
SPECIFICATION FairSchedSpec
PROPERTY YieldTakesNext RunnableRuns
