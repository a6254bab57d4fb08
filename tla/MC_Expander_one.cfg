SPECIFICATION FairSpec
CONSTANTS
    k1 = k1
    k2 = k2
    k3 = k3
    x = x
    num = num
    blob = blob
    Keys = {k1, k2, k3}
    Literals = {x}
    Objects = {num, blob}
    Castable = {num}
    Raws <- Spread
    Readers = {r1}
    NoKey = NoKey
    MaxReads = 2
INVARIANTS TypeOK AnswersMeaning CacheIsMeaning PendingIsStack
PROPERTIES EveryGetAnswers
CHECK_DEADLOCK FALSE
