CONSTANTS
  c1 = c1
  c2 = c2
  p1 = p1
  p2 = p2
  k1 = k1
  None = None
  Callers <- TwoCallers
  Processes <- TwoProcesses
  ProcessOf <- Apart
  Home = p1
  Keys <- OneKey
SPECIFICATION FairSpec
INVARIANTS
  ResetTypeOK
  CancelledAtMostOnce
  QuietResetMeansStopped
  ReplacementStartsOnce
PROPERTIES
  ResetCallsReturn
