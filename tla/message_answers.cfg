\* A child of the sender and one of a workflow; the host and the runner may stop at
\* any point.
SPECIFICATION LiveSpec
CONSTANTS
  Children = {c1, c2}
  Messages = {m1, m2}
  Strangers = {}
  WorkflowChildren = {c2}
  MaxPerChild = 2
  Capacity = 2
  SupportsWake = TRUE
PROPERTIES
  AnswerComes
  DrainEnds
CHECK_DEADLOCK FALSE
