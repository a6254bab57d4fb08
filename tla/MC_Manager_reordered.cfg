SPECIFICATION WindowlessSpec
CONSTANTS
    Keys = {k1}
    Values = {v1, v2}
    Absent = Absent
    hi = hi
    mid = mid
    lo = lo
    Sources = {hi, lo}
    NoSource = NoSource
    NameOf <- MC_NameOf
    PriorityOf <- MC_PriorityOf
    Threads = {t}
    Workers = {w1, w2}
    Idle = Idle
    NoScan = NoScan
    MaxChanges = 3
    MaxWrites = 0
INVARIANTS RoutedWhenQuiet
CHECK_DEADLOCK FALSE
