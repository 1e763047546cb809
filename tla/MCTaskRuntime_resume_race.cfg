SPECIFICATION Spec
CONSTANTS
  t1 = t1
  t2 = t2
  t3 = t3
  Tasks = {t1}
  Origin <- Manual
  Agents = {a1, a2}
  Clients = {c1, c2}
  CheckSets = {k1}
  Prints = {p1, p2}
  Unseen = p1
  NoChecks = NoChecks
  None = None
  ScheduleEnabled = FALSE
  ResumeFrom <- WaitingStates
  MaxAttempts = 2
  MaxReplans = 1
  StalledAttempts = 1
  MaxCalls = 1
  MaxResumes = 2
  MaxFaults = 1
SYMMETRY Slots
INVARIANTS OneAttemptPerTask
