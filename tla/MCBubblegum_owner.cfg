CONSTANTS
    NULL = NULL
    ZeroLeaf = ZeroLeaf
    DefaultKey = DefaultKey
    ProgramId = ProgramId
    TreeAuthority = TreeAuthority
    Assets = {a1}
    Owners = {o1, o2}
    DataSet = {d1, d2}
    Collections = {}
    CreatorLists <- NoCreatorLists
    MaxCreators = 1
    EmptyCreator = EmptyCreator
    Addresses = {c1, c2}
    c1 = c1
    c2 = c2
    Workers = {w1}
    MaxSeq = 4
    MaxSlot = 1
SYMMETRY OwnerSymmetry
SPECIFICATION Spec
INVARIANTS TypeOK LatestWins ChangelogFirst TablesMatchChain
 
