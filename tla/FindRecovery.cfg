CONSTANTS
  c1 = c1
  c2 = c2
  a1 = a1
  a2 = a2
  a3 = a3
  b1 = b1
  b2 = b2
  NoAttempt = NoAttempt
  Cases <- TwoCases
  Attempts <- Pool2
  CaseOf <- Owner2
SPECIFICATION LiveSpec
CHECK_DEADLOCK FALSE
SYMMETRY Symmetry2
PROPERTIES
 RecoveryTakesOnlyDeadRuns
