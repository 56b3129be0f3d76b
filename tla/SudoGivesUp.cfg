SPECIFICATION MCSpec
CONSTANTS
  Settle = 7
  UpgradeDelay = 3
  AnnounceLag = 1
  FinalityLag = 2
  Pace = 3
  ParentLag = 2
  OtherUpgrades = {}
  MaxRelay = 10
  Candidates = 2
  MaxBalance = 8
  CoreMap <- TwoAndOne
  ToolCores = 2
  NumCores = 4
  MaxTries = 3
  MaxLaunches = 3
  Services = 3
  Amounts = {1, 2, 3}
  Deposit = 4
  Callers = {t1, t2}
  Fixed = {1}
  FirstId = 2
  LastId = 5
  NoId = NoId
  Tokens = 3
INVARIANTS GivesUpOnlyWithoutHelp
