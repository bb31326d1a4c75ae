SPECIFICATION FairSpec
CONSTANTS
  MAX_CMD_LEN = 5
  Letters = {"a", "b"}
  QueueSize = 2
  MaxKeys = 3
INVARIANTS
  StartupTypeOK
  InterruptsServed
  LineIsTyped
PROPERTY
  KeysTaken
CHECK_DEADLOCK FALSE
