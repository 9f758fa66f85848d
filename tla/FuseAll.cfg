CONSTANTS
  t1 = t1
  t2 = t2
  p1 = p1
  p2 = p2
  h1 = h1
  h2 = h2
  i2 = i2
  Tasks <- TwoTasks
  Processes <- TwoProcesses
  ProcessOf <- TwoProcessOf
  Pids = {h1, h2, i2}
  HeaderPid <- OwnHeaderPid
  HostPid <- OwnHostPid
  Nodes = {n1}
  Background = {}
  Workers = {w1, w2}
  MaxAge = 1
  ActiveRoom = 1
  LruFloor = 1
  MaxTime = 1
  Daemon = Daemon
  None = None

SPECIFICATION FuseSpec
CONSTRAINT OriginsWithoutWriters
SYMMETRY Symmetry
INVARIANTS RequesterCharged OwnWork
PROPERTY WritebackNeverGuessed
