SPECIFICATION FairSpec
CONSTANTS
  MAX_PROCESSES = 3
  s1 = s1
  s2 = s2
  s3 = s3
  s4 = s4
  Stacks <- FourStacks
  NoStack = NoStack
  StackWords = 2
  MaxPid = 5
INVARIANTS
  SchedTypeOK
  OneRunning
  StacksOwned
  PidsDistinct
  IdleAlone
PROPERTIES
  NearerTurn
  ReadyRuns
  ImplementsAbstract
CHECK_DEADLOCK FALSE
