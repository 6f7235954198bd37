SPECIFICATION FairSpec
CONSTANTS
  Item = {i1, i2, i3}
  WorkerCounts = {1, 2}
  Score = {2}
  Unscored = Unscored
  None = None
  Torn = Torn
  Garbled = Garbled
INVARIANTS AveragesMatchDisk AbortIsClean
PROPERTIES MissingReported ImplementsStore RunEnds RerunsFill
