SPECIFICATION Spec
CONSTANTS
  w1 = w1 w2 = w2 s1 = s1 s2 = s2 u1 = u1 u2 = u2 g1 = g1
  Event = {1, 2}
  Worker = {w1}
  Slot = {s1, s2}
  SlotOwner <- TwoSlots
  UserOf <- Users2
  GuildOf <- Guild1
  Undecodable = {1}
  Rejected = {}
  BatchSize = 1
  MaxRetry = 1
  FaultKinds = {}
  MaxFaults = 0
PROPERTIES StalledMeansStuck
