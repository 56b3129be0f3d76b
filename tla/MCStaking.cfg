SPECIFICATION MCSpec
CONSTANTS
  Validators = 3
  Number = 3
  MaxRound = 7
  MaxIter = 2
  Authors = {c1, c2}
  Backers = {d1}
  AtStake <- Unequal
  Unit = 2
  MinRound = 3
  HonestDeposits = {1, 2}
  HonestRound = 4
  HonestHeight = 7
  FaultyDeposits = {1}
  FaultyHeight = 10
  Old = {1, 2}
  New = {3}
  Kept = 1
  Stake <- Growing
  Each = 2
  FundBatch = 4
  Few = 3
  MaxSelected = 3
  Stakes = {1, 2}
  Amounts = {3}
  Coefficient = 2
  RewardHeight = 3
INVARIANTS TypesOK FreshRound HonestChainPasses FaultsAreSeen CollatorsServe EvenlySpread VerdictTrue
