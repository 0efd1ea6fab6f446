\* Stop, delete and workflow cancels over a root session and its children.
SPECIFICATION Spec
CONSTANTS
  Ids = {a1, a2, a3}
  Roots = {s1}
  Prompts = {p1}
  Runs = {w1}
  Requests <- StopRequests
  MaxConcurrent = 1
  FailAtLimit = FALSE
  SupportsWake = FALSE
  BufferCompletions = FALSE
  Spawner = a1
  MaxWaiters = 0
SYMMETRY NestedSymmetry
INVARIANTS
  StopIsComplete
  DrainHasChildren
  WorkflowCancelJustified
