SPECIFICATION FairSpec
CONSTANTS
  Worker = {x1, x2}
  NoWorker = NoWorker
  Assigner = {a1, a2}
  Poller = poller
  Spawned = {s1}
INVARIANTS
  TypeOK
  OfferedIsHeld
PROPERTIES
  NoComeback
  KeepsBeingPolled
