CONSTANTS
  Enforcement = "CompileTime"
  Libraries <- MCLibraries
  Clients <- MCClients
SPECIFICATION Spec
INVARIANTS RoundTrip AliasesExact ErrorTagsExact 
PROPERTY TornRejected
CHECK_DEADLOCK FALSE
