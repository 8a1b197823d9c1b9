CONSTANTS
  u1 = u1
  u2 = u2
  u3 = u3
  x1 = x1
  x2 = x2
  r1 = r1
  a1 = a1
  Pass = Pass
  None = None
  Unset = Unset
  Causes = {x1, x2}
  Plans = {u1, u2}
  Stems = {x1, x2}
  MaxAttempts = 5
  Repos = {x1, x2}
  FixRequests <- Asked
  Verdicts <- Judged
  Dirs <- Directories
  Attempts = {a1}
  MaxTip = 2
  MaxChanges = 1
  MaxCrashes = 1
  Openers = {u1, u2}
  Runs = {1, 2}
  Bugs = {1}
  BugOf <- ThisTicket
  Resets = {r1}
  MaxWrites = 1
  MaxDeaths = 1
  MaxInspections = 3
SPECIFICATION Spec
SYMMETRY Symmetry
INVARIANTS
  ReworkKeepsCause
  FixStartsWhereApproved
PROPERTIES
  MergeIsKept
  AttemptIsEarned
  ReportIsProven
  OpenedStoreIsWhole
CHECK_DEADLOCK FALSE
