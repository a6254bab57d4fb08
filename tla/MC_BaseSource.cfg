SPECIFICATION Spec
CONSTANTS
    Keys = {k1}
    Values = {v1, v2}
    Absent = Absent
    a = a
    b = b
    c = c
    p = p
    q = q
    Calls = {a, b, c}
    Watchers = {w}
    PathOf <- MC_PathOf
    PriOf <- MC_PriOf
    Required = {b}
    WatchOff = {}
    EmptyKey = emptyKey
    NoCell = NoCell
    MaxChanges = 1
SYMMETRY Interchangeable
INVARIANTS TypeOK Aggregated
PROPERTIES Implements KeysAreKept
CHECK_DEADLOCK FALSE
