CONSTANTS
  SourceCount = 2
  Honest <- OneHonest
  MaxHeight = 3
  MaxTime = 3
  ValidBefore = 2
  Abandoned = Abandoned
  OtherHash <- Others
  NoReceipt = NoReceipt
  CollectedAt = 3
  MinimumConfirmations = 1
  NoHash = NoHash
  NoAnswer = NoAnswer
SPECIFICATION Spec
INVARIANTS
  ConfirmedIsSettled
  AbsentForEver
PROPERTY
  ImplementsReport
CHECK_DEADLOCK FALSE
