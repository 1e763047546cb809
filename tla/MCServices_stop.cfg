SPECIFICATION ServicesSpec
CONSTANTS
  p = p
  q = q
  Threads = {p, q}
  Subs = {1, 2}
  Nothing = Nothing
  MaxRequests = 2
  MaxPending = 1
  MaxCommands = 2
  MaxCalls = 3
  Processes = {p, q}
  Urls = {1, 2}
  Models = {1}
  Keys = {1, 2}
  MaxNames = 3
  MaxUses = 2
  MaxCrashes = 1
  Tasks = {1, 2, 3}
  MaxJobs = 3
  MaxRevisions = 2
  MaxStops = 1
SYMMETRY Symmetry
INVARIANT StopCancelsAgents
CHECK_DEADLOCK FALSE
