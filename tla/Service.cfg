SPECIFICATION FairSpec
CHECK_DEADLOCK FALSE
CONSTANTS
  MaxAttempts = 8
  RetryAfter <- SomeRetryAfter
  Jitter <- SomeJitter
  CallBudget = 1
  MaxConns = 3
  MaxSignals = 2
INVARIANTS
  OneMoreAfterStop
  
  SpendBounded
  ReadyIsListening
PROPERTIES
  BackoffGrowsToCap
  CallsEnd
  BacklogServed
