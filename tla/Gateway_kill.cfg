SPECIFICATION Spec
CONSTANTS
  None = None
  Unparsable = Unparsable
  Prompt = {p1, p2}
  Model = {m1}
  Outcome <- FewOutcomes
  CallBudget = 2
  ExportPath = TRUE
  ReadErrors = FALSE
  CrashMode = {"kill"}
  MaxFaults = 2
  MaxIntents = 2
  MaxDeaths = 2
INVARIANTS
  ExportIsPrefix
  ActiveExportIsCurrent
  LostOnlyIfRepeated
  ServedNotRecoveredToo
PROPERTIES
  AppendOnly
