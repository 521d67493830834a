SPECIFICATION Spec
CONSTANTS
    Workers = {w1}
    SlotOf <- Apart
    NumTries = 2
    MaxSeq = 3
    MaxRows = 4
    MaxForced = 1
    MaxErrors = 1
    Window = 4
    Mishaps = {}
INVARIANT NoDuplicatesRemain
