SPECIFICATION Spec
CONSTANTS
  Workers = {w1, w2, w3}
  Keys = {k1, k2}
  MayFail = TRUE
  Relisten = TRUE
SYMMETRY Interchangeable
INVARIANT SocketPerUser
CHECK_DEADLOCK FALSE
