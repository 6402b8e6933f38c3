SPECIFICATION Spec
CONSTANTS
  Sockets = {s1, s2, s3}
  NoSocket = NoSocket
  Timeouts = {1, 2}
  MaxTime = 4
  MaxSkew = 1
  MayThrow = TRUE
SYMMETRY Interchangeable
PROPERTY TimeoutsKept
CHECK_DEADLOCK FALSE
