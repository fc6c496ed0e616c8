SPECIFICATION FairSpec
CONSTANTS
  c1 = c1
  c2 = c2
  Client = {c1, c2}
  Slow = {}
  Leaver = {c2}
  MaxVersion = 2
  Entry = {"a", "b", "c"}
  Limit <- MCLimit
  Ranking <- MCRanking2
  Faults = {"panic"}
INVARIANTS PushedSeesLast
PROPERTIES ChannelDiscipline PushedConverges EndsWithReason
CHECK_DEADLOCK FALSE
