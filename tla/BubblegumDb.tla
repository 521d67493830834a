----------------------------- MODULE BubblegumDb -----------------------------
(***************************************************************************)
(* The upserts of program_transformers/src/bubblegum/db.rs, each as a      *)
(* function from the stored row to the row after the statement.  Every     *)
(* statement is INSERT ... ON CONFLICT DO UPDATE SET columns WHERE guard:  *)
(* a row that does not exist yet is the row of column defaults, for which  *)
(* every guard holds, so insert and update are the same function.          *)
(*                                                                         *)
(* A row of `asset` carries one sequence number per group of columns; the  *)
(* sequence number is the position of the instruction in the tree's        *)
(* on-chain history.  asset.seq = 0 marks an asset that was decompressed.  *)
(***************************************************************************)
EXTENDS Naturals, Sequences

CONSTANTS
    NULL,           \* SQL NULL
    EmptyCreator,   \* the empty address of the placeholder for no creators
    MaxCreators     \* bound on the length of a creators array

Positions == 0 .. MaxCreators - 1

\* The row an INSERT of some columns leaves in all the others.
NoAsset == [seq |-> NULL,
            leaf |-> NULL, frozen |-> FALSE, leaf_seq |-> NULL,
            owner |-> NULL, delegate |-> NULL, owner_delegate_seq |-> NULL,
            royalty |-> NULL, base_info_seq |-> NULL,
            compressed |-> FALSE, burnt |-> FALSE]

NoData == [chain_data |-> NULL, base_info_seq |-> NULL]

NoGroup == [group_value |-> NULL, verified |-> FALSE, group_info_seq |-> NULL]

NoCreator == [creator |-> NULL, verified |-> FALSE,
              slot_updated |-> NULL, seq |-> NULL]

\* excluded.seq >= column OR column IS NULL
NotOlder(seq, column) == column = NULL \/ seq >= column

\* asset.seq != 0 OR asset.seq IS NULL
NotDecompressed(row) == row.seq # 0

\* (column != 0 AND excluded.seq >= column) OR column IS NULL
NotZeroAndNotOlder(seq, column) ==
    column = NULL \/ (column # 0 /\ seq >= column)

-----------------------------------------------------------------------------
(* Table asset.                                                            *)

\* Mutant: the flags are stored without the conversion of a missing one.
upsert_asset_with_leaf_info_raw(row, leaf, flags, seq) ==
    IF NotDecompressed(row) /\ NotOlder(seq, row.leaf_seq)
    THEN [row EXCEPT !.leaf = leaf, !.frozen = flags, !.leaf_seq = seq]
    ELSE row

\* flags is NULL for a V1 leaf, otherwise whether a frozen bit is set.
upsert_asset_with_leaf_info(row, leaf, flags, seq) ==
    IF NotDecompressed(row) /\ NotOlder(seq, row.leaf_seq)
    THEN [row EXCEPT !.leaf = leaf,
                     !.frozen = flags = TRUE,
                     !.leaf_seq = seq]
    ELSE row

\* Mutant: the statement without its sequence guard.
upsert_asset_with_owner_unguarded(row, owner, delegate, seq) ==
    IF NotDecompressed(row)
    THEN [row EXCEPT !.owner = owner,
                     !.delegate = delegate,
                     !.owner_delegate_seq = seq]
    ELSE row

upsert_asset_with_owner_and_delegate_info(row, owner, delegate, seq) ==
    IF NotDecompressed(row) /\ NotOlder(seq, row.owner_delegate_seq)
    THEN [row EXCEPT !.owner = owner,
                     !.delegate = delegate,
                     !.owner_delegate_seq = seq]
    ELSE row

upsert_asset_with_compression_info(row, compressed) ==
    IF NotDecompressed(row) THEN [row EXCEPT !.compressed = compressed] ELSE row

upsert_asset_with_seq(row, seq) ==
    IF NotZeroAndNotOlder(seq, row.seq) THEN [row EXCEPT !.seq = seq] ELSE row

\* Mutant: the sequence column moves only forward, the value always.
upsert_asset_base_info_blind(row, royalty, seq) ==
    IF NotDecompressed(row)
    THEN [row EXCEPT !.royalty = royalty,
                     !.base_info_seq = IF NotOlder(seq, @) THEN seq ELSE @]
    ELSE row

upsert_asset_base_info(row, royalty, seq) ==
    IF NotDecompressed(row) /\ NotOlder(seq, row.base_info_seq)
    THEN [row EXCEPT !.royalty = royalty, !.base_info_seq = seq]
    ELSE row

\* The unguarded statement of burn.rs.
upsert_burnt(row) == [row EXCEPT !.burnt = TRUE]

-----------------------------------------------------------------------------
(* Tables asset_data, asset_grouping, asset_creators and asset_authority.  *)

upsert_asset_data(row, chain_data, seq) ==
    IF NotZeroAndNotOlder(seq, row.base_info_seq)
    THEN [row EXCEPT !.chain_data = chain_data, !.base_info_seq = seq]
    ELSE row

\* Mutant: the guard compares the wrong way round.
upsert_collection_info_reversed(row, collection, seq) ==
    IF row.group_info_seq = NULL \/ seq <= row.group_info_seq
    THEN [group_value    |-> IF collection = NULL THEN NULL ELSE collection.key,
          verified       |-> IF collection = NULL THEN FALSE ELSE collection.verified,
          group_info_seq |-> seq]
    ELSE row

\* A collection is NULL or a record [key, verified].
upsert_collection_info(row, collection, seq) ==
    IF NotZeroAndNotOlder(seq, row.group_info_seq)
    THEN [group_value    |-> IF collection = NULL THEN NULL ELSE collection.key,
          verified       |-> IF collection = NULL THEN FALSE ELSE collection.verified,
          group_info_seq |-> seq]
    ELSE row

\* The rows written for a creators array: an empty array is written as one
\* placeholder row at position 0.
CreatorRows(creators) ==
    IF creators = << >>
    THEN << [address |-> EmptyCreator, verified |-> FALSE] >>
    ELSE creators

\* One multi-row upsert, the guard evaluated per row; rows at positions past
\* the end of the new array are left alone.
upsert_asset_creators(rows, creators, slot, seq) ==
    LET new == CreatorRows(creators)
    IN  [p \in Positions |->
            IF p < Len(new) /\ NotZeroAndNotOlder(seq, rows[p].seq)
            THEN [creator |-> new[p + 1].address,
                  verified |-> new[p + 1].verified,
                  slot_updated |-> slot,
                  seq |-> seq]
            ELSE rows[p]]

\* ON CONFLICT (asset_id) DO NOTHING
upsert_asset_authority(row, authority) == IF row = NULL THEN authority ELSE row
=============================================================================
