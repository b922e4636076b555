SPECIFICATION MCFairSpec
CONSTANTS
  Work = {w1}
  Worker = {x1}
  NoWork = NoWork
  NoWorker = NoWorker
  NoStatus = NoStatus
  Scheduler = scheduler
  Trigger = {t1}
  Poller = poller
  Registrar = registrar
  MaxRefreshing = 1
  FaultKinds = {"request", "query", "restart", "pool", "refresh"}
  MaxFaults = 1
PROPERTIES
  EveryWorkEnds
