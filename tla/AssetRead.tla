------------------------------ MODULE AssetRead ------------------------------
(***************************************************************************)
(* What the API's reads (digital_asset_types/src/dao/scopes/asset.rs) make *)
(* of the stored rows of an asset.                                         *)
(***************************************************************************)
EXTENDS Naturals, Sequences, SequencesExt, FiniteSetsExt

CONSTANTS
    NoValue,     \* SQL NULL
    NoAddress    \* the empty address of the placeholder for no creators

\* Mutant: rows are told apart by slot only.
filter_by_slot_only(creators) ==
    LET maxSlot == Max({c.slot_updated : c \in ToSet(creators)})
    IN  IF creators = << >> \/ creators[1].creator = NoAddress
        THEN << >>
        ELSE SelectSeq(creators, LAMBDA c : c.slot_updated = maxSlot)

\* filter_out_stale_creators on the rows of one asset, in order of position.
filter_out_stale_creators(creators) ==
    LET maxSlot == Max({c.slot_updated : c \in ToSet(creators)})
        fresh == SelectSeq(creators, LAMBDA c : c.slot_updated = maxSlot)
        seqs == {c.seq : c \in ToSet(fresh)}
        seq == IF 0 \in seqs THEN 0 ELSE Max(seqs)
    IN  IF creators = << >> \/ creators[1].creator = NoAddress
        THEN << >>
        ELSE SelectSeq(fresh, LAMBDA c : c.seq = seq)

\* The stored rows, read ORDER BY position; a row with no seq does not exist.
StoredCreators(rows) ==
    LET present == SetToSortSeq({p \in DOMAIN rows : rows[p].seq # NoValue}, <)
    IN  [n \in DOMAIN present |-> rows[present[n]]]

ServedCreators(rows) ==
    LET kept == filter_out_stale_creators(StoredCreators(rows))
    IN  [n \in DOMAIN kept |-> [address |-> kept[n].creator, verified |-> kept[n].verified]]

\* Mutant: unverified collections are served.
ServedGroupUnverified(row) == row.group_value

\* get_by_id serves a group only if it has a value and is verified.
ServedGroup(row) ==
    IF row.group_value # NoValue /\ row.verified THEN row.group_value ELSE NoValue
=============================================================================
