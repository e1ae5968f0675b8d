\* The largest kinds of program each property is about.
SPECIFICATION Spec
CONSTANTS
    Name = {x, y, z}
    MaxVars = 3
    MaxScopes = 3
    FeatureSets = {{"branch", "leave", "assign"},
                   {"branch", "reinit", "loop", "leave"},
                   {"loop", "untold"},
                   {"branch", "else", "leave", "assign", "untold"}}
SYMMETRY Symmetry
INVARIANTS
    NoFalseAlarm
    NoMissedMove
    TrackerExact
