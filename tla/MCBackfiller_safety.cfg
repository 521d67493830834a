SPECIFICATION Spec
CONSTANTS
    Workers = {w1}
    SlotOf <- Shared
    NumTries = 1
    MaxSeq = 3
    MaxRows = 4
    MaxForced = 1
    MaxErrors = 1
    Window = 4
    Mishaps = {"crash", "blocks", "find", "cleanup", "failed"}
INVARIANTS TypeOK NewestRowRemains NothingForgotten
