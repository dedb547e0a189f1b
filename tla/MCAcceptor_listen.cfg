SPECIFICATION Spec
CONSTANTS
  Callers = {c1, c2}
  Clients = {s1}
  Signal = Signal
  Server = Server
  Extra = {l2}
  None = None
  BackQueue = 1
  CloseLength = 9
  Batch = 1
  Patient = FALSE
SYMMETRY ClientSymmetry
CHECK_DEADLOCK FALSE
INVARIANTS
  OpenIsReachable
  ShutdownClears
