CONSTANTS
  Tickets = {t1, t2}
  Hooked = {t1}
  Poller = poller
  Bindings = {c1}
  NoBug = NoBug
  Garbled = Garbled
  MaxCalls = 1
  MaxSourceChanges = 1
  None = None
  Deploys = {deploy}
  Refreshes = {user}
  Heads = {t1, t2}
  MaxChanges = 1
  MaxScans = 2
  Absent = Absent
SPECIFICATION Spec
INVARIANT
  InboxIsKept
PROPERTIES
  PlatformRecovers
  ScanIsShared
CHECK_DEADLOCK FALSE
