CONSTANTS
  W = 2
  MaxString = 4
  Mapped = 7
  Byte <- MCByte
  Garbage = 3
  Unset <- MCUnset
  Memories <- MCMemories
  NewStrings <- MCNewStrings
  Sizes <- MCSizes
  MaxAssigned = 2
  MaxStored = 1
SPECIFICATION Spec
INVARIANTS
  TypeOK
  ArgumentCopied
  StringArrives
  NeighboursKept
  FaultsExplained
CHECK_DEADLOCK FALSE
