SPECIFICATION Spec
CONSTANTS
  Worker = {x1}
  NoWorker = NoWorker
  Assigner = {a1}
  Poller = poller
  Spawned = {s1}
PROPERTIES
  RefreshLeavesOffered
