SPECIFICATION Spec
CONSTANTS
  a = a
  b = b
  d = d
  e = e
  Names = {a, b}
  Devices = {d, e}
  Graceful = {e}
  Starts <- AnyStart
  Instances = {i, j}
  Commands = {c, m}
  MaxNodes = 2
  StoreFaults = TRUE
  None = None
SYMMETRY Symmetry
INVARIANT NodesAreSound
INVARIANT DeviceIsExclusive
CHECK_DEADLOCK FALSE
