SPECIFICATION Spec
CONSTANTS
    k1 = k1
    k2 = k2
    k3 = k3
    x = x
    num = num
    blob = blob
    Keys = {k1, k2}
    Literals = {x}
    Objects = {num, blob}
    Castable = {num}
    Raws <- Plain
    Readers = {r1, r2}
    NoKey = NoKey
    MaxReads = 2
INVARIANTS ErrorsAreReal
CHECK_DEADLOCK FALSE
