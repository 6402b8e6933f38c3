SPECIFICATION Spec
CONSTANTS
  Workers = {w1, w2}
  Conns = {c1, c2}
  Objects = {1, 2}
  MayClose = {w1, w2}
  MayLeave = {w1, w2}
  Relisten = FALSE
  MayFail = TRUE
INVARIANT ConnectionsKept
CHECK_DEADLOCK FALSE
