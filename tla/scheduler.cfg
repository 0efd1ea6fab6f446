\* A loop that may be durable, and a one-shot.
SPECIFICATION FireSpec
CHECK_DEADLOCK FALSE
CONSTANTS
  None = none
  Tasks = {t1, t2}
  Loops = {t1}
  OneShots = {t2}
  MaxTasks = 2
  MaxRuns = 2
  Mixed = FALSE
  MaxPatches = 1
  MaxQueue = 1
  MaxCrashes = 1
INVARIANTS
  SchedulerSafety
  FreshAfterPatch
PROPERTIES
  StartsAlone
  DueHandled
