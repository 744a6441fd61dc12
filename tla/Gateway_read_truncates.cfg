SPECIFICATION Spec
CONSTANTS
  None = None
  Unparsable = Unparsable
  Prompt = {p1}
  Model = {m1}
  Outcome <- OneOutcome
  CallBudget = 2
  ExportPath = FALSE
  ReadErrors = TRUE
  CrashMode = {"kill"}
  MaxFaults = 1
  MaxIntents = 2
  MaxDeaths = 1
PROPERTIES
  AppendOnly
