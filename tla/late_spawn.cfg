\* A late nested spawn after its spawner finished and Stop closed the root.
SPECIFICATION Spec
CONSTANTS
  Ids = {a1, a2}
  Roots = {s1}
  Prompts = {p1}
  Runs = {}
  Requests <- StopRequests
  MaxConcurrent = 1
  FailAtLimit = FALSE
  SupportsWake = FALSE
  BufferCompletions = FALSE
  Spawner = a1
  MaxWaiters = 0
PROPERTIES
  LateSpawnCannotOutrunStop
