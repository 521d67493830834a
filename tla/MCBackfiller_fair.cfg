SPECIFICATION FairSpec
CONSTANTS
    Workers = {w1}
    SlotOf <- Shared
    NumTries = 2
    MaxSeq = 3
    MaxRows = 6
    MaxForced = 0
    MaxErrors = 1
    Window = 4
    Mishaps = {}
PROPERTY GapsAreFilled
