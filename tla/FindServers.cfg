CONSTANTS
  c1 = c1
  c2 = c2
  a1 = a1
  a2 = a2
  b1 = b1
  b2 = b2
  Broken = Broken
  None = None
  Versions = {1, 2}
  Servers <- ServersOf
  CodeGraph = "graph"
  Aliases = {"alias"}
  MaxRetries = 1
  MaxOps = 2
  MaxIde = 1
  MaxCrashes = 1
  Services = {c1}
  Centers = {a1, a2}
  Values = {b1, b2}
  Targets = {c2}
  MaxEdits = 3
  MaxRuns = 2
  MaxAborts = 1
  Nil = Nil
  Cases = {c1, c2}
  Clients = {a1, a2}
  Keys = {1, 2, 3}
  RecordKeys = {4}
  Contents = {c1}
  AskedStatuses = {"investigating", "reset_archived"}
  Requests <- Sent
  Nothing = Nothing
  MaxVersion = 3
  MaxSends = 4
  Tickets = {1}
  Legacy = {1, 2}
  Phases = {11}
  TicketOf <- ThisAttempt
  Bindings = {c1}
  Void = Void
  MaxLines = 2
  MaxKills = 1
  Repos = {c1, c2}
  Calls = {a1, a2}
  Checkouts = {1, 2}
  MaxMoves = 1
  MaxFaults = 1
  NoIndex = NoIndex
SPECIFICATION ServersSpec
CHECK_DEADLOCK FALSE
PROPERTIES
  OthersAreKept
