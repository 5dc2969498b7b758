CONSTANTS
  NBlocks = 3
  MaxPos = 2
SPECIFICATION FairSpec
INVARIANTS
  TypeOK
  TracerClosed
  NoDanglingJump
  HandoversResolved
  SingleEntryEffectsTraced
  OrderIndependent
PROPERTY Terminates
CHECK_DEADLOCK FALSE
