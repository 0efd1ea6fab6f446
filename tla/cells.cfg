\* A cell with its first observer, another one and two terminators.
SPECIFICATION Spec
CONSTANTS
  Calls = {c1, c2}
  Initial = c1
  Killers = {k1, k2}
  MaxEmits = 2
SYMMETRY CallSymmetry
INVARIANTS
  CellSafety
  OutputConserved
  PauseAgreement
  OverMeansQuiet
  ShutdownIsFinal
PROPERTIES
  TerminatorHears
CHECK_DEADLOCK FALSE
