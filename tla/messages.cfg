\* One child that may be woken, three messages of its parent and one of another session.
SPECIFICATION Spec
CONSTANTS
  Children = {c1}
  Messages = {m1, m2, m3, m4}
  Strangers = {m4}
  WorkflowChildren = {}
  MaxPerChild = 2
  Capacity = 3
  SupportsWake = TRUE
SYMMETRY MessageSymmetry
INVARIANTS
  MessageSafety
  DefiniteAnswer
  UncertaintyJustified
  CleanIsSettled
  UncleanJustified
PROPERTIES
  FinalIsFinal
CHECK_DEADLOCK FALSE
