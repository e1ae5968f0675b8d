\* Four keys, two of which collide at every size, and one that wraps.
SPECIFICATION Spec
CONSTANTS
    Key <- MCKey
    Value = {v, w}
    None = None
    Capacity = 2
    WordMod = 16
INVARIANTS
    LookupExact
    LoadBounded
PROPERTIES
    ImplementsMap
