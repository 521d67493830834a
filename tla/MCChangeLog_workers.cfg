CONSTANTS
    NULL = NULL
    TreeDepth = 1
    Tree = Tree
    Nodes <- TreeNodes
    Leaves <- TreeLeaves
    Path <- TreePath
    FirstLeaf <- TreeFirstLeaf
    Hash <- MerkleHash
    Workers = {w1, w2}
    MaxSeq = 3
    MaxFailures = 1
SYMMETRY WorkerSymmetry
SPECIFICATION Spec
INVARIANTS TypeOK RowsAreHistoric RecordedMeansStored GapFreeIsCurrent
    MissingStartIsFlagged
 
