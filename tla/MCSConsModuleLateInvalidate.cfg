CONSTANTS
  Cpp = TRUE
  PythonOn = TRUE
  Contract = FALSE
  MaxCalls = 3
SPECIFICATION Spec
INVARIANT InvalidModuleBuildsNothing
CHECK_DEADLOCK FALSE
