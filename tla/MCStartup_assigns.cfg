SPECIFICATION FairSpec
CONSTANT
  Worker = {x1}
PROPERTIES
  AssignsPeriodically
CHECK_DEADLOCK FALSE
