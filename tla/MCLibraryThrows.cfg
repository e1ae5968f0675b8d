CONSTANTS
  Enforcement = "CompileTime"
  Libraries <- MCThrowingLibraries
  Clients <- MCCallingClients
SPECIFICATION Spec
INVARIANT CallsHandled
CHECK_DEADLOCK FALSE
