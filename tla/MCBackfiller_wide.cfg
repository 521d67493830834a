SPECIFICATION Spec
CONSTANTS
    Workers = {w1}
    SlotOf <- Wide
    NumTries = 2
    MaxSeq = 3
    MaxRows = 4
    MaxForced = 1
    MaxErrors = 0
    Window = 4
    Mishaps = {}
INVARIANT NothingForgotten
