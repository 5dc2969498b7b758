CONSTANTS
  Policies <- MCRepeated
  Args = {0, 1, 2}
  Numbers = {0, 1, 2}
  X32Bit = 8
  OffsetLimit = 32
SPECIFICATION Spec
INVARIANT CheckedCallsAreChecked
CHECK_DEADLOCK FALSE
