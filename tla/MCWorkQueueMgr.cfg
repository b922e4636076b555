SPECIFICATION Spec
CONSTANTS
  Work = {w1, w2, w3}
  Worker = {x1, x2}
  NoWork = NoWork
  NoWorker = NoWorker
  NoStatus = NoStatus
SYMMETRY Symmetry
INVARIANTS
  TypeOK
  OnePlacePerWork
  StatusMatchesQueue
  CheckedWorkIsHeld
  FreshStrikes
PROPERTIES
  KeepsTurn
  ImplementsLifecycle
