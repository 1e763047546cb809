SPECIFICATION SimulationSpec
CONSTANTS
  s = s
  t = t
  u = u
  a = a
  b = b
  Absent = Absent
  Callers = {s, t}
  Kinds = {"move", "step"}
  MaxSent = 2
  MaxOpens = 2
  MaxKeys = 1
  MaxEdits = 2
  MaxKills = 1
  Workers = {s, t, u}
  Benches = {1, 2}
  BenchOf <- TwoBenches
  Tools = {"step", "task", "close"}
  Backends = {"isaac", "mujoco"}
  Instances = {1, 2}
  MaxLives = 2
  MaxTime = 3
  MaxToolCalls = 4
  Horizon = 2
  MaxRows = 2
  MaxInstances = 2
  Editors = {s, t}
  Objects = {a, b}
  Compositions <- TowerEdits
  Floor = Floor
  Candidates = 2
  MaxBundles = 3
  MaxSceneCalls = 3
  MaxRestarts = 1
SYMMETRY Symmetry
  
PROPERTY ViewerIsTrue
CHECK_DEADLOCK FALSE
