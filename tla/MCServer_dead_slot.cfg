SPECIFICATION Spec
CONSTANTS
  N = 2
  KeepAliveLimit = 1
  Sockets = {s1, s2}
  NoSock = NoSock
  MaxAborts = 3
  Patient = TRUE
SYMMETRY SocketSymmetry
INVARIANT SlotNotLost
