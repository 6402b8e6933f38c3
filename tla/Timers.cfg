SPECIFICATION Spec
CONSTANTS
  Objects = {1, 2, 3}
  ListIds = {1, 2, 3, 4, 5}
  Delays = {1, 2}
  MaxTime = 3
  Kinds = {"timeout", "interval"}
  MayUnref = {1}
  MayThrow = {1}
PROPERTY TimersKept
CHECK_DEADLOCK FALSE
