CONSTANTS
  Policies <- MCPolicies
  Args = {0, 1, 2}
  Numbers = {0, 1, 2}
  X32Bit = 8
  OffsetLimit = 32
SPECIFICATION Spec
INVARIANTS
  CallsDecidedByTheirCheck
  HandoversFindTheirSection
CHECK_DEADLOCK FALSE
