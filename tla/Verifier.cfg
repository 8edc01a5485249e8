CONSTANTS
  c1 = c1
  c2 = c2
  paying = paying
  missing = missing
  asked = asked
  other = other
  base = base
  intent = intent
  Client <- Clients
  Tx <- Transactions
  Terms <- AllTerms
  BaseServer <- BaseServers
  IntentServer <- IntentServers
  Fate <- Fates
  Pays <- Payments
  MaxInFlight = 1
  Deadline = 2
  Ttl = 2
  TransientTtl = 1
  None = None
SPECIFICATION Spec
INVARIANTS
  UnobservedIsRecent
  VerdictsDoNotGoBack
  MatchedOwnTerms
  ChecksAccounted
PROPERTY
  EveryRequestAnswered
