\* Admission that fails at the limit instead of queueing; two slots, wakes.
SPECIFICATION Spec
CONSTANTS
  Ids = {a1, a2, a3}
  Roots = {s1}
  Prompts = {p1}
  Runs = {w1}
  Requests <- RejectRequests
  MaxConcurrent = 2
  FailAtLimit = TRUE
  SupportsWake = TRUE
  BufferCompletions = FALSE
  Spawner = a1
  MaxWaiters = 0
SYMMETRY IdSymmetry
INVARIANTS
  Safety
