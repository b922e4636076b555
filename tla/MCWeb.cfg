SPECIFICATION MCSpec
CONSTANTS
  MaxStarts = 2
  None = None
  Empty = Empty
  MaxInputs = 3
  Link <- MCLink
  ViewColor = {"ok", "error"}
  MaxLinks = 2
  MaxItems = 1
INVARIANTS
  TypesOK
  OneThread
  ChecksHold
  ReadyWhenEnabled
  FetchedWhereDone
  SendsLastEntry
  ShownAsGiven
PROPERTIES
  InOrder
  EveryChainEnds
CHECK_DEADLOCK FALSE
