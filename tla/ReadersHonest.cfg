CONSTANTS
  SourceCount = 2
  Honest <- AllHonest
  MaxHeight = 3
  MaxTime = 2
  ValidBefore = 3
  Abandoned = Abandoned
  OtherHash <- Others
  NoReceipt = NoReceipt
  CollectedAt = 2
  CheckedAt = 2
  MinimumConfirmations = 2
  NoHash = NoHash
  NoAnswer = NoAnswer
SPECIFICATION ReadersSpec
INVARIANTS
  FinalIsReported
  FinalWhenAsked
  ReadersAgree
PROPERTY
  ImplementsTransactionReport
CHECK_DEADLOCK FALSE
