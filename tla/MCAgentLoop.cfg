SPECIFICATION Spec
CONSTANTS
  RecentToKeep = 2
  MaxSnapshots = 1
  SystemPrompt <- MCSystemPrompt
  Summary <- MCSummary
  Turns = {t1}
  Loops = {l1}
  MaxIterations <- MCMaxIterations
  Calls = 2
  LLMRetries = 1
  LLMTimeout = TRUE
  LLMOnError = "skip"
  MaxFaults = 2
  MaxOps = 2
  NoResponse = NoResponse
INVARIANTS TypeOK ResultsAnswerCalls OnlyTheHeadIsCut UndisturbedSeesResults
CHECK_DEADLOCK FALSE
CONSTRAINT Bounded
