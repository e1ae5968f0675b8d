SPECIFICATION Spec
CONSTANTS
  Idents <- MCIdents
  Primitives <- MCPrimitives
  BadFloats <- MCBadFloats
  Ints <- MCInts
  Interpolated <- MCInterpolated
  LocalNames <- MCLocalNames
  Inputs <- MCInputs
INVARIANTS
  TreeExact
  
PROPERTY
  Terminates
