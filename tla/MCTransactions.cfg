SPECIFICATION ApiSpec
CONSTANTS
  m1 = m1
  m2 = m2
  a1 = a1
  a2 = a2
  b1 = b1
  b2 = b2
  User <- MCUser
  Guild <- MCGuild
  GuildOf <- MCGuildOf
  Multi <- MCMulti
  Add <- MCAdd
  Batch <- MCBatch
  MultiInput <- MCMultiInput
  AddInput <- MCAddInput
  BatchInput <- MCBatchInput
  MaxScore = 9
  Starts <- MCStarts
  Item = {1, 2, 3, 4}
  Masters <- MCMasters
  ServerOf <- MCServerOf
  MultiWire <- MCMultiWire
  AddWire <- MCAddWire
  GivenIdOf <- MCGivenIdOf
  MayStop = {"http"}
CONSTRAINT FewOpen
VIEW Lasting
INVARIANTS IndInv GemsConserved ItemsMatchHistory DrawIsWeighted NoDeadlock
PROPERTIES ImplementsAccounts AnswersAreTrue RefusalHasNoEffect AnswersAreObservable
