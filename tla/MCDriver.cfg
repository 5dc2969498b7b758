CONSTANTS
  Policies = {"traced", "changed", "filtered", "default", "misspelt", "hopeless", "argless", "undeclared", "unknown", "overlong"}
  MaxErrors = 2
  Errors <- MCErrors
  ArgsLost = {"argless"}
  Undeclared = {"undeclared"}
  Unknown = {"unknown"}
  Overlong = {"overlong"}
  Checking = {"traced", "changed", "filtered", "misspelt", "hopeless", "argless", "undeclared", "unknown", "overlong"}
  Tracing = {"traced", "changed", "undeclared"}
SPECIFICATION Spec
INVARIANTS
  TypeOK
  OnlyAcceptedWritten
  StatusMeansFiles
  SandboxOfOnePolicy
CHECK_DEADLOCK FALSE
