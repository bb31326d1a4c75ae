SPECIFICATION Spec
CONSTANTS
  PageSize = 4
  DescSize = 1
  E820_MAX_ENTRIES = 3
  MappedEnd = 16
  BiosMaps <- MCBiosMaps
INVARIANTS
  InitTypeOK
  PagesAreRam
  PoolAscending
  HeapCoversPages
  ArrayApart
CHECK_DEADLOCK FALSE
