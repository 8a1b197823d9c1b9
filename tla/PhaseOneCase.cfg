CONSTANTS
  c1 = c1
  c2 = c2
  a1 = a1
  a2 = a2
  a3 = a3
  b1 = b1
  b2 = b2
  NoAttempt = NoAttempt
  Cases <- TwoCases
  Attempts <- Pool1
  CaseOf <- Owner1
SPECIFICATION Spec
SYMMETRY Symmetry1
INVARIANTS
  TypeOK
  StatusBackedByAttempt
  OnlyCurrentAttemptRuns
  FixIsApproved
  MergeApprovalMeansPushed
  PushedFixIsRecoverable
  CheckpointOfRunningFix
  ListedAttemptStaysCurrent
PROPERTIES
  IntentIsNeverLost
  PushedFixIsNotFailed
  RefinesLifecycle
