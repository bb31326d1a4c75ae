SPECIFICATION Spec
CONSTANTS
  PageSize = 256
  Pool <- PoolWithHole
  RefModulus = 4
  Requests <- MCRequests
INVARIANT
  LiveInRam
