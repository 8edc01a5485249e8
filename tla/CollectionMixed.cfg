CONSTANTS
  SourceCount = 2
  Honest <- AllHonest
  MaxHeight = 3
  MaxTime = 3
  ValidBefore = 2
  Abandoned = Abandoned
  OtherHash <- Others
  NoReceipt = NoReceipt
  CollectedAt = 3
  MinimumConfirmations = 1
  NoHash = NoHash
  NoAnswer = NoAnswer
SPECIFICATION Spec
INVARIANTS
  ConfirmedShowsUse
CHECK_DEADLOCK FALSE
