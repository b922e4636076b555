SPECIFICATION MCSpec
CONSTANTS
  MaxStarts = 2
  None = None
  Empty = Empty
  MaxInputs = 3
  Link <- MCLink
  ViewColor = {"ok", "error"}
  MaxLinks = 2
  MaxItems = 1
PROPERTY
  DoneIsDone
CHECK_DEADLOCK FALSE
