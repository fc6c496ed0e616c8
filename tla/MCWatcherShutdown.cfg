SPECIFICATION FairSpec
CONSTANTS
  c1 = c1
  c2 = c2
  Client = {c1, c2}
  Slow = {c2}
  Leaver = {c1}
  MaxVersion = 1
  Entry = {"a", "b", "c"}
  Limit <- MCLimit
  Ranking <- MCRanking1
  Faults = {"subscribe", "pubsub", "publish", "fetch", "signal"}
INVARIANTS TypeOK
PROPERTIES ShutdownCompletes NoLeakedSubscriber EndsWithReason
