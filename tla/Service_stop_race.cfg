SPECIFICATION FairPeersSpec
CHECK_DEADLOCK FALSE
CONSTANTS
  MaxAttempts = 2
  RetryAfter <- SomeRetryAfter
  Jitter <- SomeJitter
  CallBudget = 2
  MaxConns = 1
  MaxSignals = 2
PROPERTY
  StopLands
