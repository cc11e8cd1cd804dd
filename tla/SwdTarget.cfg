SPECIFICATION FairSpec
CONSTANTS
  Functions = {"f", "g"}
  RegOrder <- MCRegOrder
  RegPolls = 2
  HaltPolls = 2
  Ranges <- MCRanges
  Space = 8
  Chunk = 2
INVARIANTS
  TargetInv
  SyscallAnswers
PROPERTIES
  StartsWhole
  FirmwareKept
  CallReturns
