SPECIFICATION FairSpec
CONSTANTS
  o = o
  Attempts = {1, 2}
  RetryTimes = 2
  Others = {o}
  MaxBlockLen = 1
  MaxReorgs = 1
  MaxReorgDepth = 2
  PoolLife = 20
  WaitBlocks = 1
  SearchDepth = 2
  BacktraceDepth = 4
  BacktraceRounds = 1
  UnderPytest = TRUE
  MaxLag = 1
  MaxOthers = 1
INVARIANTS TypeOK ReceiptFinal ReceiptOwnWithoutReorg FeeCheckedBlock OnePending
PROPERTIES AbandonedUnseen CallEnds
