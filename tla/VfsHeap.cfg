SPECIFICATION Spec
CONSTANTS
  ADDRESSES = 40
  KernelEnd = 3
  mod_start = 11
  BLOCK = 2
  OctDigits = 2
  MAX_FILES = 3
  Archives <- MCArchives
  Wanted <- MCWanted
  Allocs = {1}
  Sizes <- MCSizes
  TestSize1 = 1
  TestSize2 = 2
  HeapLimit = 14
INVARIANTS
  FilesIntact
