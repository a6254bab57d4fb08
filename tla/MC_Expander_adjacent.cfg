SPECIFICATION Spec
CONSTANTS
    k1 = k1
    k2 = k2
    k3 = k3
    x = x
    num = num
    blob = blob
    Keys = {k1, k2, k3}
    Literals = {x}
    Objects = {num, blob}
    Castable = {num}
    Raws <- Adjacent
    Readers = {r1}
    NoKey = NoKey
    MaxReads = 2
INVARIANTS AnswersMeaning
CHECK_DEADLOCK FALSE
