SPECIFICATION Spec
CONSTANTS
  n1 = n1
  n2 = n2
  n3 = n3
  shop = shop
  thief = thief
  None = None
  Fail = Fail
  Payment <- MCPayment
  Url = "url"
  PollUrl = "pollUrl"
  CorsOrigin = TRUE
  Polls = TRUE
  Interval = 2
  PollTimeout = 5
  Responses <- MCResponses
  Nonces = {n1, n2, n3}
  MaxRuns = 4
INVARIANTS
  PaysOnce
  TermsContracted
PROPERTY
  RunsEnd
CHECK_DEADLOCK FALSE
