CONSTANTS
  Width <- MCWidth
  Registers <- MCRegisters
  Inputs <- MCInputs
  syscall_infos <- Entries
  Grammar <- ReadPolicy
  Variables <- Mentions
  ExprText <- LiftExpr
  ConditionText <- LiftCondition
SPECIFICATION Spec
INVARIANTS
  NamesResolve
  TransfersMatch
  ReadsBack
  FilterAndTracerAgree
  RegisterGetsWhatIsAssigned
CHECK_DEADLOCK FALSE
