SPECIFICATION Spec
CONSTANTS
  Work = {w1}
  Worker = {x1}
  NoWork = NoWork
  NoWorker = NoWorker
  NoStatus = NoStatus
INVARIANTS
  NoTornAssignment
