CONSTANTS
  Pass = Pass
  None = None
  Repos = {1}
  Dual = {1}
  Commands = {c1}
  MaxHead = 1
  MaxVersion = 2
SPECIFICATION FairSpec
PROPERTIES
  MergeIsRecoverable
