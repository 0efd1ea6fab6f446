\* Delivery of results to callers, queries and the parent.
SPECIFICATION Spec
CONSTANTS
  Ids = {a1, a2}
  Roots = {s1}
  Prompts = {p1}
  Runs = {}
  Requests <- DeliveryRequests
  MaxConcurrent = 1
  FailAtLimit = FALSE
  SupportsWake = TRUE
  BufferCompletions = TRUE
  Spawner = a1
  MaxWaiters = 1
SYMMETRY IdSymmetry
INVARIANTS
  WaitersOnLive
PROPERTIES
  AnnouncedIfUnheard
  TeardownSilences
