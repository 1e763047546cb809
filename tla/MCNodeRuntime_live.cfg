SPECIFICATION FairSpec
CONSTANTS
  a = a
  b = b
  d = d
  e = e
  Names = {a, b}
  Devices = {d, e}
  Graceful = {e}
  Starts <- OneEach
  Instances = {i, j}
  Commands = {}
  MaxNodes = 2
  StoreFaults = FALSE
  None = None
PROPERTY CloseReaps
PROPERTY DeathIsNoticed
PROPERTY AdmittedOrphansEnd
CHECK_DEADLOCK FALSE
