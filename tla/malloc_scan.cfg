SPECIFICATION ScanSpec
CONSTANTS
  memtblsize = 4
  memblksize = 2
  Sizes = {0, 1, 3}
  Byte = {x, y}
  Junk = {7}
  NULL = NULL
SYMMETRY ByteSymmetry
INVARIANTS TypeOK MapMatches ContentsKept UsageRight SearchInv
PROPERTIES ImplementsHeap ImplementsMalloc
