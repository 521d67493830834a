----------------------------- MODULE AssetProof -----------------------------
(***************************************************************************)
(* digital_asset_types/src/dapi/change_logs.rs: the Merkle proof of an     *)
(* asset built from the rows of cl_items.  `items` is a set of rows        *)
(* [tree, node_idx, level, seq, hash, leaf_idx]; a hash is                 *)
(* << contents >> at a leaf and << left, right >> above.                   *)
(***************************************************************************)
EXTENDS Naturals, Sequences, SequencesExt

CONSTANT Depth    \* bound on the depth of trees

AllNodes == 1 .. 2 ^ (Depth + 1) - 1

\* The siblings of the nodes from a node up to the root, and the root.
required[index \in AllNodes] ==
    IF index = 1 THEN <<1>>
    ELSE <<IF index % 2 = 0 THEN index + 1 ELSE index - 1>> \o required[index \div 2]

\* Mutant: the root is left out.
get_required_nodes_but_root(index) == Front(required[index])

get_required_nodes_for_proof(index) == required[index]

empty_node[lvl \in 0 .. Depth] ==
    IF lvl = 0 THEN <<0>> ELSE <<empty_node[lvl - 1], empty_node[lvl - 1]>>

\* Rows are placed by their level, the last one winning; the root is last.
build_asset_proof(leaf, req_indexes, required_nodes) ==
    LET final(i) ==
            IF \E n \in required_nodes : n.level = i - 1
            THEN (CHOOSE n \in required_nodes : n.level = i - 1).hash
            ELSE empty_node[i - 1]
        list == [i \in DOMAIN req_indexes |-> final(i)]
    IN  [root |-> Last(list), proof |-> Front(list),
         leaf |-> leaf.hash, node_index |-> leaf.node_idx, tree_id |-> leaf.tree]

\* The two queries: the leaf's row, and the rows of the required nodes.
LeafRow(items, asset) ==
    CHOOSE row \in items :
        row.level = 0 /\ row.tree = asset.tree_id /\ row.leaf_idx = asset.nonce

RequiredRows(items, leaf) ==
    {row \in items : /\ row.tree = leaf.tree
                     /\ row.node_idx \in ToSet(get_required_nodes_for_proof(leaf.node_idx))}

HasProof(items, asset) ==
    \E row \in items :
        row.level = 0 /\ row.tree = asset.tree_id /\ row.leaf_idx = asset.nonce

get_proof_for_asset(items, asset) ==
    LET leaf == LeafRow(items, asset)
    IN  build_asset_proof(leaf, get_required_nodes_for_proof(leaf.node_idx),
                          RequiredRows(items, leaf))

\* The leaves of all assets are read at once (a leaf is told by leaf_idx,
\* which the rows above do not have), then the nodes of all their proofs.
get_asset_proofs(items, assets) ==
    LET matches(row, asset) == row.tree = asset.tree_id /\ row.leaf_idx = asset.nonce
        found == {asset \in assets : \E row \in items : matches(row, asset)}
        asset_map == [asset \in found |-> CHOOSE row \in items : matches(row, asset)]
        tree_indexes == [asset \in found |-> get_required_nodes_for_proof(asset_map[asset].node_idx)]
        needs(asset, row) == /\ row.tree = asset.tree_id
                             /\ row.node_idx \in ToSet(tree_indexes[asset])
        node_map == {row \in items : \E asset \in found : needs(asset, row)}
    IN  [asset \in found |->
            build_asset_proof(asset_map[asset], tree_indexes[asset],
                              {row \in node_map : needs(asset, row)})]

-----------------------------------------------------------------------------
(* What a client does with a proof.                                        *)

\* The root computed from a node's hash and the remaining siblings.
RECURSIVE Recompute(_, _, _)
Recompute(index, hash, siblings) ==
    IF siblings = << >> THEN hash
    ELSE Recompute(index \div 2,
                   IF index % 2 = 0 THEN <<hash, Head(siblings)>> ELSE <<Head(siblings), hash>>,
                   Tail(siblings))

Verifies(proof) == Recompute(proof.node_index, proof.leaf, proof.proof) = proof.root
=============================================================================
