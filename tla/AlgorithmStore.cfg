SPECIFICATION FairStoreSpec
CONSTANTS
  Elfs <- MCElfs
  MaxFiles = 3
  OnDisk <- MCOnDisk
  Names <- MCNames
  RamStart = 64
  HeaderSize = 2
  StackSize = 8
  Align = 4
  SectorNum = 2
  TotalLimit = 32
INVARIANTS
  StoreInv
  WalksAnswer
PROPERTY
  WalkEnds
CHECK_DEADLOCK FALSE
