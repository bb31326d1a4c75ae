SPECIFICATION Spec
CONSTANTS
  MAX_CMD_LEN = 5
  Letters = {"a", "b"}
  QueueSize = 2
  MaxKeys = 3
INVARIANT
  ExceptionsShown
CHECK_DEADLOCK FALSE
