CONSTANTS
    NULL = NULL
    TreeDepth = 2
    Tree = Tree
    Nodes <- TreeNodes
    Leaves <- WrittenLeaves
    Path <- TreePath
    FirstLeaf <- TreeFirstLeaf
    Hash <- MerkleHash
    Workers = {w1}
    MaxSeq = 3
    MaxFailures = 1
SPECIFICATION FairSpec
 
PROPERTY EveryChangeRecorded
