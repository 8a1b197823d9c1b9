CONSTANTS
  Pass = Pass
  None = None
  Repos = {1}
  Dual = {1}
  Commands = {c1}
  MaxHead = 1
  MaxVersion = 3
  a1 = a1
  a2 = a2
SPECIFICATION PartSpec
INVARIANTS
  MergeTypeOK
PROPERTIES
  PushIsApproved
  PushedMergeIsSubmitted
  RunningAttemptsSettle
