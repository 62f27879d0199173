SPECIFICATION Spec
CONSTANTS
  Procs = {p}
  Addrs = {a}
  Ids = {i}
  NoFile = NoFile
  Empty = Empty
  Garbage = Garbage
  None = None
  Plain = Plain
  MaxRuns = 1
  MaxOps = 2
CHECK_DEADLOCK FALSE
INVARIANT RefreshTakesEffect
