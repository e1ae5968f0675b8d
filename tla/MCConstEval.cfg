SPECIFICATION EvalSpec
CONSTANTS
    Narrow = 3
    Word = 5
    MaxStack = 5
    MaxLocals = 12
    InitialLocals = 2
    Slack = 2
    MaxCallDepth = 3
    MaxIterations = 60
    Depth = 12
    Sources <- MCSources
    Program <- MCProgram
INVARIANTS
    FramesNested
    
    StackBalanced
PROPERTY
    Terminates
