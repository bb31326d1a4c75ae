SPECIFICATION FairSpec
CONSTANTS
  PageSize = 256
  Pool <- PoolInARow
  RefModulus = 4
  Requests <- MCRequests
INVARIANTS
  TypeOK
  NoOverlap
  OwnersKeepBlocks
  LiveInRam
  Coalesced
  SearchComplete
  AllFreedIsOneBlock
PROPERTIES
  CallsReturn
  ImplementsAbstract
CHECK_DEADLOCK TRUE
