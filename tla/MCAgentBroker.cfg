SPECIFICATION FairSpec
CONSTANTS
  MaxRecords = 2
  MaxRunning = 1
  Ceiling = 1
  Batch = 1
  Msgs = {m}
  Pressure = FALSE
INVARIANT BrokerIsSound
PROPERTY RunsEnd

CHECK_DEADLOCK FALSE
PROPERTY QueueMoves
