SPECIFICATION LibrarySpec
CONSTANTS
  Keys <- SmallKeys
  Values = {1, 2}
  NULLPTR = NULLPTR
  hfunc <- Hashes
  cmp <- SameString
  HASH_MINSIZE = 4
  Powers2 = {1, 2, 4, 8, 16}
  MaxRefusals = 2
  MODULUS = 1024
  HEAP_START = 3
  HEAP_END = 40
  PAGE = 8
  MAX_FAST = 4
  MIN_LARGE_SIZE = 8
  LARGE_DOUBLINGS = 1
  CONSOLIDATION_THRESHOLD = 12
  TRIM_THRESHOLD = 20
  Lengths = {0, 4, 1021}
  Requests = {4, 24, 60, 1000}
  Alignments = {8}
  MaxAsked = 4
  PROCESS_TABLE_SIZE = 4
  MAX_PRIO = 3
  MAPPED_PAGE = 4
  START = 8
  MEM_END = 96
  ENTRIES = 8
  TABLES = 3
  SectionSizes = {0, 4, 5}
  WORD = 8
  Powers = {2, 4, 8}
INVARIANTS CountedAndEnding HeapIsSound KernelIsProtected DivisionIsExact
PROPERTIES IsADictionary IsAnAllocator GrowsOnlyWhenNothingFits ImplementsTheSequence
CHECK_DEADLOCK FALSE
