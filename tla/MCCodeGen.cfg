CONSTANTS
  Atoms <- MCAtoms
  Helpers <- MCHelpers
  Checks <- MCChecks
  IRGen <- CodeOf
  Scalars <- MCScalars
SPECIFICATION GenSpec
INVARIANTS
  CodeMeansCheck
  DecidedCheckKeepsMeaning
  GraphIsSound
  LiftedOnce
  SplitMeansCode
PROPERTY OnlyUnreachablePurged
CHECK_DEADLOCK FALSE
