\* Timers: foreground callers, a queue and deletes, a configured limit of zero; runs may never end.
SPECIFICATION TimerSpec
CONSTANTS
  Ids = {a1, a2}
  Roots = {s1}
  Prompts = {p1}
  Runs = {}
  Requests <- BudgetRequests
  MaxConcurrent = 0
  FailAtLimit = FALSE
  SupportsWake = FALSE
  BufferCompletions = FALSE
  Spawner = a1
  MaxWaiters = 0
PROPERTIES
  CancelledQueuedResolved
  TeardownAnswered
  BudgetHonoured
  QueueDrains
