SPECIFICATION Spec
CONSTANTS
  MAX_PROCESSES = 3
  s1 = s1
  s2 = s2
  s3 = s3
  s4 = s4
  Stacks <- FourStacks
  NoStack = NoStack
  StackWords = 2
  MaxPid = 5
INVARIANT
  EntryReturnsToWrapper
CHECK_DEADLOCK FALSE
