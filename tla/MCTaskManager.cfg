SPECIFICATION MCSpec
CONSTANTS
    NULL = NULL
    u1 = u1  u2 = u2  p1 = p1
    Uris = {u1, u2, p1}
    InvalidUris = {u2}
    Padded = {p1}
    Bare = u1
    Executors = {e1, e2}
    MaxAttempts = 1
    ProcessNow = TRUE
    MaxChanges = 2
    MaxErrors = 1
    Losses = TRUE
INVARIANTS TypeOK  SucceededMeansStored 
 
CHECK_DEADLOCK FALSE
