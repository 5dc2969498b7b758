CONSTANTS
  Atoms <- MCAtoms
  Helpers <- MCHelpers
  Checks <- MCChecks
  IRGen <- CodeOf
  Scalars <- MCScalars
SPECIFICATION GenSpec
INVARIANT LiftedKeepsWhatFollows
CHECK_DEADLOCK FALSE
