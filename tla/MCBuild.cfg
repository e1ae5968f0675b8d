\* The largest kinds of execution each property is about.
SPECIFICATION Spec
CONSTANTS
    NPaths = 2
    Added = {2}
    Output = {1, 2}
    Level = {0, 3}
    Flag = {0, 1}
    MaxEdits = 3
    MaxBuilds = 3
    FeatureSets = {{"race", "crash"}, {"race", "levels"},
                   {"revert", "levels"},
                   {"samename", "outputs", "frontflags"},
                   {"linkflags", "compileonly", "clangfails"}}
INVARIANTS
    ExeFresh
    SecondBuildSkips
