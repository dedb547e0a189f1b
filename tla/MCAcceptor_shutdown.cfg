SPECIFICATION LiveSpec
CONSTANTS
  Callers = {c1, c2}
  Clients = {s1}
  Signal = Signal
  Server = Server
  Extra = {}
  None = None
  BackQueue = 1
  CloseLength = 2
  Batch = 1
  Patient = TRUE
CHECK_DEADLOCK FALSE
PROPERTY ShutdownCompletes
