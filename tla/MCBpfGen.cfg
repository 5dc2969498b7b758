CONSTANTS
  Width = 6
  NumArgs = 2
  Inputs <- MCInputs
  Conditions <- MCConditions
SPECIFICATION Spec
INVARIANTS
  FilterDecidesIfFitting
  AbortsIffTwoSpills
CHECK_DEADLOCK FALSE
