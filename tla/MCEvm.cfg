SPECIFICATION EvmSpec
CONSTANTS
  Attempts = {1, 2, 3}
  Sends = 3
  Lookups = 3
  Others = {}
  MaxBlockLen = 1
  MaxReorgs = 2
  MaxReorgDepth = 2
  PoolLife = 20
  MaxAhead = 4
  Arguments = {0, 1, 3}
  MaxCalls = 3
  Half = 256
  Runs = 5
  WordLen = 3
  Bytes = {0, 1}
  MaxLen = 7
  Users = {513}
  Target = 7
  Caller = 8
  Values = {7, 8, 9, 2055}
  Addresses = 1024
  Payments = {0, 1, 2, 64, 65}
INVARIANTS TypeOK ReceiptTrue TypesOK AnswersAsAlone  ManualAsMcopy PanicNeedsPayment
PROPERTIES OneShotCall SubmissionEnds
