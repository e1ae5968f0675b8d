\* Programs with operators that throw in operands, without the other hazards.
SPECIFICATION Spec
CONSTANTS
    UserError = {e1}
    BuiltinError = {b1}
    None = None
    MaxDepth = 3
    MaxNest = 2
    MaxCalls = 3
    Hazards = {"operator"}
INVARIANTS
    OperandExact
    PropagationExact
    ReportsTruly
