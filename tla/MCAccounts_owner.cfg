SPECIFICATION MCSpec
CONSTANTS
  NULL = NULL
  Null = Null
  t1 = t1
  t2 = t2
  TokenAccounts = {t1, t2}
  Kinds <- MintKinds
  Orders <- RowOrders
  Scenes = {"tokens"}
  MaxWrites = 6
  MaxBusy = 2
  MaxErrors = 0
  BatchSize = 1
  Assets = {1, 2}
  Authorities = {x, y}
  MaxCoreWrites = 4
  MaxCoreBusy = 2
  MaxCoreErrors = 1
  PageSize = 1
INVARIANTS OwnerIsHolder
CHECK_DEADLOCK FALSE
