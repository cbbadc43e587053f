SPECIFICATION Spec
CONSTANTS
  t1 = t1
  t2 = t2
  t3 = t3
  Tasks = {t1, t2, t3}
  Priority <- MCPriority
  RetryAttempts = 2
  MaxConcurrent = 2
  Loads <- MCLoads
  Callers = {c1, c2}
  MaxCalls = 1
  MaxLoads = 2
  SameTasks = FALSE
  ResumeInCallback = FALSE
  StopDuringStart = FALSE
  NoTask = NoTask
  NoWorker = NoWorker

PROPERTY ConfigChangesAtRest
CHECK_DEADLOCK FALSE
