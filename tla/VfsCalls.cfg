CONSTANTS
  app = app
  daemon = daemon
  p = p
  d = d
  upper = upper
  lower = lower
  a = a
  b = b
  Tasks <- TwoTasks
  Processes <- TwoProcesses
  ProcessOf <- TaskProcess
  ChargedTo <- ForRequester
  Self = Self
  Files <- TwoFiles
  Opens <- OpenedBy
  Storage <- TwoFiles
  Below <- Nested
  Names <- TwoNames
  PathsOf <- NamedByProcess
  PendingSize = 1
  PathsSize = 1
  Unresolved = Unresolved
  None = None

SPECIFICATION Spec
CHECK_DEADLOCK FALSE
INVARIANTS CountsOwnCall NamedWhenCounted PathIsOwn
