CONSTANTS
    NULL = NULL
    ZeroLeaf = ZeroLeaf
    DefaultKey = DefaultKey
    ProgramId = ProgramId
    TreeAuthority = TreeAuthority
    Assets = {a1}
    Owners = {o1}
    DataSet = {d1}
    Collections = {k1}
    CreatorLists <- CreatorArrays
    MaxCreators = 2
    EmptyCreator = EmptyCreator
    Addresses = {c1, c2}
    c1 = c1
    c2 = c2
    Workers = {w1}
    MaxSeq = 3
    MaxSlot = 2
SPECIFICATION Spec
INVARIANTS LatestWins ServedCreatorsAreLatest CaughtUpMatchesChain
