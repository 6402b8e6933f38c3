SPECIFICATION FairSpec
CONSTANTS
  Ids = {i1, i2, i3, i4, i5}
  Queue = Queue
  Null = Null
PROPERTY ImmediatesKept
CHECK_DEADLOCK FALSE
