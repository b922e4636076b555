SPECIFICATION Spec
CONSTANTS
  Work = {w1}
  NoWork = NoWork
  NoStatus = NoStatus
  Handler = {h1}
  MaxErrors = 1
  MaxRestarts = 0
  Self = self
INVARIANTS
  NonIdleIsOwned
