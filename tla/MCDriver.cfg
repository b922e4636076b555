SPECIFICATION FairSpec
CONSTANTS
  Work = {w1, w2}
  NoWork = NoWork
  NoStatus = NoStatus
  Handler = {h1, h2}
  MaxErrors = 1
  MaxRestarts = 1
  Self = self
INVARIANTS
  TypeOK
  OneOwner
  OneBatfish
  NormalMeansReturned
PROPERTIES
  ImplementsService
  BecomesIdleAgain
