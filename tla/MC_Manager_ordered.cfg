SPECIFICATION FairOrderedSpec
CONSTANTS
    Keys = {k1}
    Values = {v1, v2}
    Absent = Absent
    hi = hi
    mid = mid
    lo = lo
    Sources = {hi, mid, lo}
    NoSource = NoSource
    NameOf <- MC_Names3
    PriorityOf <- MC_Priority3
    Threads = {t}
    Workers = {w1, w2}
    Idle = Idle
    NoScan = NoScan
    MaxChanges = 3
    MaxWrites = 1
INVARIANTS TypeOK RoutedWhenQuiet GetAgreesWithAll
PROPERTIES Converges ToldIsAnswered
CHECK_DEADLOCK FALSE
