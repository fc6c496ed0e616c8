SPECIFICATION GcSpec
CONSTANTS
  w1 = w1 w2 = w2 s1 = s1 s2 = s2 u1 = u1 u2 = u2 g1 = g1
  Event = {1, 2}
  Worker = {w1, w2}
  Slot = {s1, s2}
  SlotOwner <- OneSlotEach
  UserOf <- Users2
  GuildOf <- Guild1
  Undecodable = {}
  Rejected = {}
  BatchSize = 1
  MaxRetry = 1
  FaultKinds = {"tx", "ambiguous", "crash"}
  MaxFaults = 2
  ChunkSize = 1
  Env <- Environments
SYMMETRY Symmetry
INVARIANTS IndInv ExactlyOnce CacheExactWithoutFault GcSweeps
PROPERTIES DeadLetterIsFinal ImplementsLedger RetentionKept
