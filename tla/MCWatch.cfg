SPECIFICATION MCSpec
CONSTANTS
  wanted = wanted
  odd = odd
  other = other
  Attempts = {}
  Others = {wanted, odd, other}
  Wanted = {wanted}
  Odd = {odd}
  MaxBlockLen = 2
  MaxReorgs = 1
  MaxReorgDepth = 1
  PoolLife = 0
  MaxAhead = 3
  HeadPace = 1
  Polls = 2
  MaxCredits = 2
  MaxBlocks = 4
  Average = 1
  Offsets = {0, 1, 3}
  Gaps = {1, 2}
  Length = 2
  MaxHeight = 5
  Keys = {1, 2, 3, 4}
  PageSize = 2
  MaxMoves = 3
  MaxVersion = 3
  LastBlock = 9
INVARIANTS TypesOK FoundIsReal PredictionHolds EstimateNotEarly SnapshotCovers NearFirst
PROPERTIES NoneMissed ArrivalNoticed
