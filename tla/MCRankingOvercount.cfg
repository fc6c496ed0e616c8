SPECIFICATION Spec
CONSTANTS
  u1 = u1 u2 = u2 g1 = g1
  Event = {1, 2}
  User = {u1, u2}
  Guild = {g1}
  UserOf <- Users2
  GuildOf <- Guild1
  Points <- FewPoints
  Reader = {r1}
  Page <- Pages
  MaxFlush = 0
  MaxSync = 1
  Query <- Queries
INVARIANTS NeverOverCounts
