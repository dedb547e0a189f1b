SPECIFICATION FairSpec
CONSTANTS
  N = 2
  KeepAliveLimit = 1
  Sockets = {s1}
  NoSock = NoSock
  MaxAborts = 3
  Patient = TRUE
CHECK_DEADLOCK FALSE
PROPERTIES
  ShutdownWaits
