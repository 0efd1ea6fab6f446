\* Answers: one emission of the script, two observers and a terminator.
SPECIFICATION CellSpec
CONSTANTS
  Calls = {c1, c2}
  Initial = c1
  Killers = {k1}
  MaxEmits = 1
PROPERTIES
  TerminationAnswered
  CellCloses
  ObserverAnswered
CHECK_DEADLOCK FALSE
