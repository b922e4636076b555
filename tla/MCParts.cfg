SPECIFICATION MCSpec
CONSTANTS
  Thread = {t1, t2, t3, t4}
  Request = {r1, r2}
  Pair = {p1}
  Expiry = 2
  MaxLag = 1
  MaxTime = 5
  None = None
  Worker = {x1, x2}
  Job = {j1, j2, j3, j4}
  Threads = 2
  Name = {n1, n2}
  Env = {e1}
  MaxContainers = 2
  MaxCommands = 4
INVARIANTS
  TypesOK
  OneUploader
  UploadedIsThere
  NoneRefused
  NamesAreGood
  AllOrException
PROPERTIES
  ImplementsLife
  LetInSoonAfter
  Progress
CHECK_DEADLOCK FALSE
