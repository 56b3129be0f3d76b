SPECIFICATION Spec
CONSTANTS
  Attempts = {1, 2}
  RetryTimes = 2
  Others = {}
  MaxBlockLen = 1
  MaxReorgs = 0
  MaxReorgDepth = 1
  PoolLife = 20
  WaitBlocks = 1
  SearchDepth = 2
  BacktraceDepth = 4
  BacktraceRounds = 1
  UnderPytest = TRUE
  MaxLag = 1
  MaxOthers = 0
INVARIANTS ExecutedOnce
