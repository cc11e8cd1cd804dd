SPECIFICATION Spec
CONSTANTS
  DataBits = 8
  ResetSeen = 26
  ResetSent = 27
  Words <- MCWords
  MaxFlips = 1
INVARIANTS
  LineInv
  TransferIsTrue
  Connects
PROPERTIES
  NoFalseReset
