SPECIFICATION FairSpec
CONSTANTS
  junk = junk
  Junk <- junk
  WordSize = 2
  Page = 4
  Addrs = {0, 1, 2, 3, 4, 5, 6, 7}
  Byte = {0, 1, 2}
  FirstMem <- MCFirstMem
  Calls <- MCCalls
  MaxRetry = 2
  MaxPolls = 2
INVARIANTS
  ReadsRight
  MemoryInv
PROPERTIES
  WritesInRange
  CallReturns
