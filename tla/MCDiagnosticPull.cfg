CONSTANTS
  d1 = d1
  d2 = d2
  None = None
  Docs = {d1, d2}
  LastText = 1
  MaxEvents = 3
  Configs <- PullConfigs
SPECIFICATION FairSpec
CHECK_DEADLOCK FALSE
INVARIANTS RestingIsCurrent IdDenotesShown OnlyVisibleShown
PROPERTIES CurrentInTheEnd
