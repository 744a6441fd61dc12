SPECIFICATION Spec
CONSTANTS
  None = None
  Unparsable = Unparsable
  Prompt = {p1}
  Model = {m1, m2}
  Outcome <- OneOutcome
  CallBudget = 2
  ExportPath = FALSE
  ReadErrors = FALSE
  CrashMode = {"kill"}
  MaxFaults = 0
  MaxIntents = 1
  MaxDeaths = 2
INVARIANTS
  RecordsTheModelCalled
