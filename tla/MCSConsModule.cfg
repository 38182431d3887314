CONSTANTS
  Cpp = TRUE
  PythonOn = TRUE
  Contract = TRUE
  MaxCalls = 5
SPECIFICATION Spec
INVARIANT InvalidModuleBuildsNothing ValidModuleBuildsEverything
CHECK_DEADLOCK FALSE
