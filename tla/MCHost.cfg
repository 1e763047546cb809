SPECIFICATION HostSpec
CONSTANTS
  Tools = {0, 1}
  Configs <- SmallConfigs
  Calls = {0, 1, 2}
  Failures = {"Adapter"}
  MaxClock = 2
  MaxRuns = 2
  Conversation = Conversation
  Absent = Absent
  PortUsers = {"bus", "port"}
  BusUsers = {"bus"}
  Moves = {"r", "q"}
  MaxLag = 2
  MaxExchanges = 4
  MaxPorts = 3
  MaxAttempts = 2
  Runtimes = {"python", "rust"}
  Pids = {1, 2, 3}
  Protected = {3}
  StopCalls = {call1}
  MaxLives = 2
  MaxVersions = 2
  Envs = {1, 2, 3}
  Versions = {1, 2}
  Names = {"loop", "switch"}
  Foreign = {"loop"}
  Sessions = {p, q}
  Managed = {p}
  Interrupts = FALSE
  p = p
  q = q
INVARIANTS VerifiedByReceipt CompleteIsVerified BusIsSound LoopIsSound ProcessesAreSound
 
CHECK_DEADLOCK FALSE
