SPECIFICATION GoalsSpec
CONSTANTS
  Tools = {0, 1}
  MaxClock = 4
  Conversation = Conversation
  MAX_CALLS = 2
  MAX_MODELS = 3
  Timeout = 2
  TaskIds = 3
  RemoteIds = {i1, i2, i3}
  Uptime = 2
  MaxBatch = 2
  act = act
  read = read
  fetch = fetch
  update = update
  Acts = {act}
  Reads = {read}
  References = {fetch}
  Update = update
  Plans <- SomePlans
  RoundBudget = 1
  Continuations = 1
  StallLimit = 2
  RetryLimit = 2
  MaxMessages = 5
  MaxInputs = 1
  MaxTurns = 1
  Versions = {v1, v2}
INVARIANTS KernelReleased VerdictIsEarned CtrlCIsHeard TurnsAreSound
PROPERTIES GoalEnds BoundedTurnsEnd
CHECK_DEADLOCK FALSE
