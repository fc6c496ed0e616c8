SPECIFICATION FairSpec
CONSTANTS
  c1 = c1
  c2 = c2
  Client = {c1, c2}
  Slow = {}
  Leaver = {}
  MaxVersion = 2
  Entry = {"a", "b", "c"}
  Limit <- MCSameLimit
  Ranking <- MCRanking2
  Faults = {}
PROPERTIES EveryStreamConverges
CHECK_DEADLOCK FALSE
