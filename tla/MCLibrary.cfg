SPECIFICATION LibrarySpec
CONSTANTS
  PageSize = 256
  Pool <- FivePages
  RefModulus = 4
  FS_MAX_INODES = 3
  FS_MAX_OPEN_FILES = 2
  FdRefs = 3
  Data = {"p", "q"}
  MaxSize = 2
  MaxFd = 3
  FS_MAX_BLOCKS = 3
  BLOCK_CACHE_SIZE = 2
  StorageBlocks = 2
  BlockRefs = 3
  Contents = {"v", "w"}
  InodeIds = {0, 1, 2}
  INODE_CACHE_SIZE = 2
  InodeRefs = 3
  DirectBlocks = 2
  BlockNums <- TwoBlocksAndNone
INVARIANTS
  LibraryTypeOK
  ListedOnce
  DescriptorsOwned
  ReadsBack
PROPERTIES
  BlocksKept
  InodesKept
