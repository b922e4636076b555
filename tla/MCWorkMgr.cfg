SPECIFICATION MCSpec
CONSTANTS
  Work = {w1}
  Worker = {x1, x2}
  NoWork = NoWork
  NoWorker = NoWorker
  NoStatus = NoStatus
  Scheduler = scheduler
  Trigger = {t1}
  Poller = poller
  Registrar = registrar
  MaxRefreshing = 1
  FaultKinds = {"request", "query", "error", "restart", "pool", "refresh"}
  MaxFaults = 2
SYMMETRY Symmetry
INVARIANTS
  TypeOK
  OneHolder
  OutcomeHappened
  AsksAnAcceptor
