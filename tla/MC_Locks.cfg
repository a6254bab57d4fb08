SPECIFICATION FairSpec
CONSTANTS
    Callers = {p}
    Goroutines = {g}
    Sources = {s}
    Kinds = {"file", "etcd", "consul", "nacos", "apollo"}
    ReadsAgain = FALSE
    Nobody = Nobody
INVARIANTS TypeOK NoCircularWait HandlersAreFree
 
CHECK_DEADLOCK FALSE
