SPECIFICATION Spec
CONSTANTS
  PageSize = 64
  DescSize = 1
  E820_MAX_ENTRIES = 3
  MappedEnd = 512
  BiosMaps <- TwoGigs
INVARIANT
  PagesMapped
CHECK_DEADLOCK FALSE
