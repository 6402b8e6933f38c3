SPECIFICATION Spec
CONSTANTS
  MaxWrites = 3
  MaxRejects = 1
  MaxCork = 1
  Sizes = {1}
  HighWaterMark = 2
  HasWritev = FALSE
  Outcomes = {TRUE, FALSE}
  ApiFrames = {"event", "cb", "drain", "error"}
  Polite = FALSE
PROPERTY WritesHandled
