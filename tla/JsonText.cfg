SPECIFICATION Spec
CONSTANTS
  NestingLimit = 2
  NumberBuffer = 8
  AllocFails = TRUE
  DefaultBufferSize = 4
  IntMax = 60
  Hooks = {TRUE, FALSE}
  MemoryFails = TRUE
  Documents <- MCDocuments
  Values <- MCValues
  Texts <- MCTexts
  Sizes = {0, 1, 3, 8, 9, 10, 17, 40}
INVARIANTS ReadsInside StringFits StaysInside NothingLeaked RoundTrip PreallocatedRoom FirstDocument
CHECK_DEADLOCK FALSE
