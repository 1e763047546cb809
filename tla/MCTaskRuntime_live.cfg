SPECIFICATION FairSpec
CONSTANTS
  t1 = t1
  t2 = t2
  t3 = t3
  Tasks = {t1}
  Origin <- Rules
  Agents = {a1}
  Clients = {c1}
  CheckSets = {k1}
  Prints = {p1}
  Unseen = p1
  NoChecks = NoChecks
  None = None
  ScheduleEnabled = TRUE
  ResumeFrom <- WaitingStates
  MaxAttempts = 2
  MaxReplans = 1
  StalledAttempts = 1
  MaxCalls = 1
  MaxResumes = 0
  MaxFaults = 2
PROPERTIES AttemptsEnd ImplementsLifecycle
