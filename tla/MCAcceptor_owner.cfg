SPECIFICATION Spec
CONSTANTS
  Callers = {c1, c2}
  Clients = {s1, s2}
  Signal = Signal
  Server = Server
  Extra = {}
  None = None
  BackQueue = 2
  CloseLength = 3
  Batch = 2
  Patient = FALSE
SYMMETRY ClientSymmetry
CHECK_DEADLOCK FALSE
INVARIANTS
  TypeOK
  OneOwner
  ScanInRange
  SignalMatchesBox
PROPERTY Implements
