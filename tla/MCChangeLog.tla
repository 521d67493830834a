----------------------------- MODULE MCChangeLog -----------------------------
(* ChangeLog for a complete tree of depth TreeDepth, and the proofs the API *)
(* serves from its rows.                                                    *)
EXTENDS ChangeLog, TLC

CONSTANTS TreeDepth, Tree

TreeNodes == 1 .. 2 ^ (TreeDepth + 1) - 1
TreeLeaves == 2 ^ TreeDepth .. 2 ^ (TreeDepth + 1) - 1
TreePath == [l \in TreeLeaves |-> [k \in 1 .. TreeDepth + 1 |-> l \div 2 ^ (k - 1)]]
TreeFirstLeaf == 2 ^ TreeDepth

\* All leaves but the last are ever written.
WrittenLeaves == TreeLeaves \ {2 ^ (TreeDepth + 1) - 1}

\* The Merkle hash: a leaf is hashed with the change that wrote it.
MerkleHash(node, contents) ==
    LET hash[n \in TreeNodes] ==
            IF n \notin TreeLeaves THEN <<hash[2 * n], hash[2 * n + 1]>>
            ELSE <<IF n \in DOMAIN contents THEN contents[n] ELSE 0>>
    IN  hash[node]

WorkerSymmetry == Permutations(Workers)

Api == INSTANCE AssetProof WITH Depth <- TreeDepth

Rows == {[tree |-> Tree, node_idx |-> n, level |-> cl_items[n].level,
          seq |-> cl_items[n].seq, hash |-> cl_items[n].hash,
          leaf_idx |-> cl_items[n].leaf_idx] : n \in {m \in Nodes : cl_items[m] # NoItem}}

\* The asset in a leaf.
AssetAt(leaf) == [tree_id |-> Tree, nonce |-> leaf - FirstLeaf]

\* getAssetProofs for all assets written so far has the proofs getAssetProof
\* has for each, also while rows are missing or out of date.  Once every
\* change of the tree is recorded there is a proof for every leaf that was
\* ever written, it verifies, and its root is the root on chain.
GapFreeProofsVerify ==
    LET assets == {AssetAt(history[i]) : i \in DOMAIN history}
        proofs == Api!get_asset_proofs(Rows, assets)
    IN  /\ DOMAIN proofs = {asset \in assets : Api!HasProof(Rows, asset)}
        /\ \A asset \in DOMAIN proofs : proofs[asset] = Api!get_proof_for_asset(Rows, asset)
        /\ Recorded = 1 .. Len(history) =>
             \A i \in DOMAIN history :
                /\ AssetAt(history[i]) \in DOMAIN proofs
                /\ LET proof == proofs[AssetAt(history[i])]
                   IN  /\ Api!Verifies(proof)
                       /\ proof.root = HashAt(1, Len(history))
                       /\ proof.leaf = HashAt(history[i], Len(history))
=============================================================================
