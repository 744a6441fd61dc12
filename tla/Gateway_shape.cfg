SPECIFICATION Spec
CONSTANTS
  None = None
  Unparsable = Unparsable
  Prompt = {p1}
  Model = {m1}
  Outcome <- FewOutcomes
  CallBudget = 2
  ExportPath = FALSE
  ReadErrors = TRUE
  CrashMode = {"kill", "power"}
  MaxFaults = 2
  MaxIntents = 2
  MaxDeaths = 3
INVARIANTS
  TypeOK
  LedgerWellFormed
  SeqIsPosition
  ChainPosition
  AtMostOneServedRecord
  CallsUnderOwnIntent
  
