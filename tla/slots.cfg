\* Slots and the queue: two sessions of two spawns each, a configured limit of zero.
SPECIFICATION Spec
CONSTANTS
  Ids = {a1, a2, a3, a4}
  Roots = {s1, s2}
  Prompts = {p1}
  Runs = {}
  Requests <- SlotRequests
  MaxConcurrent = 0
  FailAtLimit = FALSE
  SupportsWake = FALSE
  BufferCompletions = FALSE
  Spawner = a1
  MaxWaiters = 0
SYMMETRY IdSymmetry
INVARIANTS
  CapacityBound
  QueuedAtCapacity
PROPERTIES
  NoOvertaking
  CancelledNeverStarts
  ImplementsPool
