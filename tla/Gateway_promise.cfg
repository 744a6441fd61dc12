SPECIFICATION FairSpec
CONSTANTS
  None = None
  Unparsable = Unparsable
  Prompt = {p1}
  Model = {m1}
  Outcome <- FewOutcomes
  CallBudget = 2
  ExportPath = FALSE
  ReadErrors = FALSE
  CrashMode = {"kill", "power"}
  MaxFaults = 2
  MaxIntents = 2
  MaxDeaths = 2
INVARIANTS
  AnswersOnDisk
  ServesWithIntentClosed
PROPERTIES
  ImplementsEvidenceChain
  IntentsGetClosed
  RequestsGetAnswered
