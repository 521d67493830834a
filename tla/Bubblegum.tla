------------------------------ MODULE Bubblegum ------------------------------
(***************************************************************************)
(* Indexing of the Bubblegum instructions of one tree.                     *)
(*                                                                         *)
(* The chain appends instructions; the instruction at position i of the    *)
(* tree's history carries sequence number i.  Ingester workers receive     *)
(* them from the transaction stream in any order and any number of times   *)
(* (redelivery after a crash, a failed statement or a lost acknowledgement,*)
(* and the backfiller replaying a slot).  A worker first saves the change  *)
(* log of the instruction and then applies the instruction's handler, one  *)
(* database transaction over the asset tables.                             *)
(*                                                                         *)
(* The transaction is one step: its statements lock the rows they touch    *)
(* until the commit, so two handlers of one asset serialise in the order   *)
(* of their commits.                                                       *)
(***************************************************************************)
EXTENDS BubblegumDb

CONSTANTS
    Assets, Owners,   \* leaves of the tree; wallets
    DataSet,          \* what upsert_asset_data and the base info carry
    Addresses,        \* creator addresses
    CreatorLists,     \* creators arrays
    Collections,      \* collection keys
    Workers,          \* ingester workers
    MaxSeq,           \* bound on the length of the tree's history
    MaxSlot,          \* bound on slots
    TreeAuthority,    \* the authority account of the tree's mints
    ZeroLeaf,         \* the 32 zero bytes redeem writes as leaf
    DefaultKey,       \* the key of 32 zero bytes, a delegate that is no one
    ProgramId         \* the key SetCollectionV2 carries for "no collection"

ASSUME BoundsAssumption ==
    MaxSeq \in Nat /\ MaxSlot \in Nat /\ MaxCreators \in Nat \ {0}

ASSUME NullAssumption ==
    /\ NULL \notin Nat \cup BOOLEAN \cup Owners \cup DataSet \cup Collections
    /\ NULL \notin [key : Collections \cup {ProgramId}, verified : BOOLEAN]

ASSUME CreatorsAssumption ==
    /\ EmptyCreator \notin Addresses
    /\ \A l \in CreatorLists :
          /\ l \in Seq([address : Addresses, verified : BOOLEAN])
          /\ Len(l) <= MaxCreators

\* What the program rules out on chain: a leaf hash of zero bytes, a collection
\* with the program's own key, an address twice in a creators array.
ASSUME ChainAssumption ==
    /\ ZeroLeaf \notin Nat
    /\ ProgramId \notin Collections
    /\ \A l \in CreatorLists : \A p, q \in DOMAIN l :
          l[p].address = l[q].address => p = q

VARIABLES
    chain,     \* the tree's on-chain history, a sequence of instructions
    onchain,   \* the on-chain state of each asset
    logged,    \* sequence numbers whose change log has been saved
    applied,   \* sequence numbers whose transaction has committed
    work,      \* per worker, the sequence number it is between the two with
    asset, asset_data, asset_creators, asset_authority, asset_grouping

chainVars == <<chain, onchain>>
tables == <<asset, asset_data, asset_creators, asset_authority, asset_grouping>>
vars == <<chainVars, logged, applied, work, tables>>

Idle == 0

Kinds == {"mint", "transfer", "delegate", "burn", "redeem", "cancel_redeem",
          "creator_verification", "collection_verification", "update_metadata"}

-----------------------------------------------------------------------------
(* The on-chain program, as the events it emits show it.                   *)

Unminted == [status |-> "none", owner |-> NULL, delegate |-> NULL, flags |-> NULL,
             data |-> NULL, creators |-> << >>, collection |-> NULL]

\* The arguments of an instruction a handler may look at.
NoArgs == [data |-> NULL, creators |-> << >>, collection |-> NULL,
           creator |-> NULL, verify |-> FALSE,
           new_data |-> NULL, new_creators |-> NULL]

LastSlot == IF chain = << >> THEN 1 ELSE chain[Len(chain)].slot

\* An instruction of asset a leaves it in state post.  Instructions of one
\* transaction, or of one block, share a slot.
Emit(a, kind, post, args) ==
    /\ Len(chain) < MaxSeq
    /\ \E s \in LastSlot .. MaxSlot :
          chain' = Append(chain, [kind |-> kind, asset |-> a, slot |-> s,
                                  owner |-> post.owner, delegate |-> post.delegate,
                                  flags |-> post.flags, args |-> args])
    /\ onchain' = [onchain EXCEPT ![a] = post]
    /\ UNCHANGED <<logged, applied, work, tables>>

\* flags is NULL in a V1 leaf and the frozen bit in a V2 leaf.
ChainMint(a) ==
    /\ onchain[a].status = "none"
    /\ \E o \in Owners, f \in {NULL, FALSE}, d \in DataSet, l \in CreatorLists,
          c \in {NULL} \cup [key : Collections, verified : BOOLEAN] :
          Emit(a, "mint",
               [status |-> "live", owner |-> o, delegate |-> o, flags |-> f,
                data |-> d, creators |-> l, collection |-> c],
               [NoArgs EXCEPT !.data = d, !.creators = l, !.collection = c])

Live(a) == onchain[a].status = "live"

ChainTransfer(a) ==
    /\ Live(a) /\ onchain[a].flags # TRUE
    /\ \E o \in Owners :
          Emit(a, "transfer", [onchain[a] EXCEPT !.owner = o, !.delegate = o], NoArgs)

\* Delegate and the V2 freeze and thaw instructions, which share a handler.
ChainDelegate(a) ==
    /\ Live(a)
    /\ \E d \in Owners \cup {DefaultKey},
          f \in (IF onchain[a].flags = NULL THEN {NULL} ELSE BOOLEAN) :
          Emit(a, "delegate", [onchain[a] EXCEPT !.delegate = d, !.flags = f], NoArgs)

ChainBurn(a) ==
    /\ Live(a)
    /\ Emit(a, "burn", [onchain[a] EXCEPT !.status = "burnt"], NoArgs)

\* Only a V1 leaf can be redeemed.
ChainRedeem(a) ==
    /\ Live(a) /\ onchain[a].flags = NULL
    /\ Emit(a, "redeem", [onchain[a] EXCEPT !.status = "redeemed"], NoArgs)

ChainCancelRedeem(a) ==
    /\ onchain[a].status = "redeemed"
    /\ Emit(a, "cancel_redeem", [onchain[a] EXCEPT !.status = "live"], NoArgs)

\* The instruction's arguments carry the metadata from before it, the creator
\* whose flag changes and the new flag.
ChainCreatorVerification(a) ==
    /\ Live(a)
    /\ \E p \in DOMAIN onchain[a].creators, v \in BOOLEAN :
          Emit(a, "creator_verification", [onchain[a] EXCEPT !.creators[p].verified = v],
               [NoArgs EXCEPT !.creators = onchain[a].creators,
                              !.creator = onchain[a].creators[p].address,
                              !.verify = v])

\* VerifyCollection, UnverifyCollection, SetAndVerifyCollection; ProgramId is
\* how SetCollectionV2 says that the asset leaves its collection.
ChainCollectionVerification(a) ==
    /\ Live(a)
    /\ \E k \in Collections \cup {ProgramId}, v \in BOOLEAN :
          Emit(a, "collection_verification",
               [onchain[a] EXCEPT !.collection =
                   IF k = ProgramId THEN NULL ELSE [key |-> k, verified |-> v]],
               [NoArgs EXCEPT !.collection = [key |-> k, verified |-> v]])

\* The update carries the current metadata and only the fields that change; a
\* field given its current value is as good as one left out.
ChainUpdateMetadata(a) ==
    /\ Live(a)
    /\ \E d \in (DataSet \ {onchain[a].data}) \cup {NULL},
          l \in (CreatorLists \ {onchain[a].creators}) \cup {NULL} :
          Emit(a, "update_metadata",
               [onchain[a] EXCEPT !.data = IF d = NULL THEN @ ELSE d,
                                  !.creators = IF l = NULL THEN @ ELSE l],
               [NoArgs EXCEPT !.data = onchain[a].data, !.creators = onchain[a].creators,
                              !.new_data = d, !.new_creators = l])

Chain(a) ==
    \/ ChainMint(a) \/ ChainTransfer(a) \/ ChainDelegate(a) \/ ChainBurn(a)
    \/ ChainRedeem(a) \/ ChainCancelRedeem(a) \/ ChainCreatorVerification(a)
    \/ ChainCollectionVerification(a) \/ ChainUpdateMetadata(a)
-----------------------------------------------------------------------------
(* The handlers.                                                           *)

\* Mutant: the error of a failed change log is dropped.
SaveChangelogEventIgnored(w) ==
    /\ work[w] = Idle
    /\ \E i \in 1 .. Len(chain) : work' = [work EXCEPT ![w] = i]
    /\ UNCHANGED <<chainVars, logged, applied, tables>>

\* save_changelog_event: the first thing every handler does with a message.
SaveChangelogEvent(w) ==
    /\ work[w] = Idle
    /\ \E i \in 1 .. Len(chain) :
          /\ work' = [work EXCEPT ![w] = i]
          /\ logged' = logged \cup {i}
    /\ UNCHANGED <<chainVars, applied, tables>>

\* A statement of the transaction fails, or the worker dies before the commit:
\* the transaction is rolled back and the message will be delivered again.
Abort(w) ==
    /\ work[w] # Idle
    /\ work' = [work EXCEPT ![w] = Idle]
    /\ UNCHANGED <<chainVars, logged, applied, tables>>

Handling(w, kind) == work[w] # Idle /\ chain[work[w]].kind = kind

Commit(w) ==
    /\ applied' = applied \cup {work[w]}
    /\ work' = [work EXCEPT ![w] = Idle]
    /\ UNCHANGED <<chainVars, logged>>

\* Mutant: the leaf's delegate is stored as it is.
DelegateAsIs(ix) == ix.delegate

\* A delegate equal to the owner, or no one, is stored as NULL.
DelegateOf(ix) ==
    IF ix.delegate = ix.owner \/ ix.delegate = DefaultKey THEN NULL ELSE ix.delegate

\* The leaf hash is injective in the leaf's history, so the sequence number of
\* the instruction that produced a leaf stands for its hash.
WithLeaf(row, ix, seq) == upsert_asset_with_leaf_info(row, seq, ix.flags, seq)

WithOwner(row, ix, seq) ==
    upsert_asset_with_owner_and_delegate_info(row, ix.owner, DelegateOf(ix), seq)

mint(w) ==
    LET seq == work[w]
        ix == chain[seq]
        a == ix.asset
        based == upsert_asset_base_info(asset[a], ix.args.data, seq)
        leafed == WithLeaf(upsert_asset_with_compression_info(based, TRUE), ix, seq)
    IN  /\ Handling(w, "mint")
        /\ asset_data' = [asset_data EXCEPT ![a] = upsert_asset_data(@, ix.args.data, seq)]
        /\ asset' = [asset EXCEPT ![a] =
                         upsert_asset_with_seq(WithOwner(leafed, ix, seq), seq)]
        /\ asset_creators' = [asset_creators EXCEPT ![a] =
                                 upsert_asset_creators(@, ix.args.creators, ix.slot, seq)]
        /\ asset_authority' = [asset_authority EXCEPT ![a] =
                                  upsert_asset_authority(@, TreeAuthority)]
        /\ asset_grouping' = [asset_grouping EXCEPT ![a] =
                                 upsert_collection_info(@, ix.args.collection, seq)]
        /\ Commit(w)

\* transfer.rs, delegate.rs and cancel_redeem.rs write the same columns.
LeafOwnerAndSeq(w, kind) ==
    LET seq == work[w]
        ix == chain[seq]
    IN  /\ Handling(w, kind)
        /\ asset' = [asset EXCEPT ![ix.asset] =
                upsert_asset_with_seq(WithOwner(WithLeaf(@, ix, seq), ix, seq), seq)]
        /\ UNCHANGED <<asset_data, asset_creators, asset_authority, asset_grouping>>
        /\ Commit(w)

transfer(w) == LeafOwnerAndSeq(w, "transfer")

delegation_freezing_nontransferability(w) == LeafOwnerAndSeq(w, "delegate")

cancel_redeem(w) == LeafOwnerAndSeq(w, "cancel_redeem")

burn(w) ==
    LET seq == work[w]
    IN  /\ Handling(w, "burn")
        /\ asset' = [asset EXCEPT ![chain[seq].asset] =
                         upsert_asset_with_seq(upsert_burnt(@), seq)]
        /\ UNCHANGED <<asset_data, asset_creators, asset_authority, asset_grouping>>
        /\ Commit(w)

redeem(w) ==
    LET seq == work[w]
    IN  /\ Handling(w, "redeem")
        /\ asset' = [asset EXCEPT ![chain[seq].asset] =
                upsert_asset_with_seq(
                    upsert_asset_with_leaf_info(@, ZeroLeaf, NULL, seq), seq)]
        /\ UNCHANGED <<asset_data, asset_creators, asset_authority, asset_grouping>>
        /\ Commit(w)

\* The creators array of the arguments with the one flag changed.
UpdatedCreators(args) ==
    [p \in DOMAIN args.creators |->
        [args.creators[p] EXCEPT !.verified =
            IF args.creators[p].address = args.creator THEN args.verify ELSE @]]

creator_verification(w) ==
    LET seq == work[w]
        ix == chain[seq]
    IN  /\ Handling(w, "creator_verification")
        /\ asset' = [asset EXCEPT ![ix.asset] =
                upsert_asset_with_seq(WithOwner(WithLeaf(@, ix, seq), ix, seq), seq)]
        /\ asset_creators' = [asset_creators EXCEPT ![ix.asset] =
                upsert_asset_creators(@, UpdatedCreators(ix.args), ix.slot, seq)]
        /\ UNCHANGED <<asset_data, asset_authority, asset_grouping>>
        /\ Commit(w)

\* The program's own key stands for "no collection".
CollectionOf(args) == IF args.collection.key = ProgramId THEN NULL ELSE args.collection

collection_verification(w) ==
    LET seq == work[w]
        ix == chain[seq]
    IN  /\ Handling(w, "collection_verification")
        /\ asset' = [asset EXCEPT ![ix.asset] =
                         upsert_asset_with_seq(WithLeaf(@, ix, seq), seq)]
        /\ asset_grouping' = [asset_grouping EXCEPT ![ix.asset] =
                                 upsert_collection_info(@, CollectionOf(ix.args), seq)]
        /\ UNCHANGED <<asset_data, asset_creators, asset_authority>>
        /\ Commit(w)

\* A field absent from update_args keeps its current value.
UpdatedData(args) == IF args.new_data = NULL THEN args.data ELSE args.new_data

CreatorsAfterUpdate(args) ==
    IF args.new_creators = NULL THEN args.creators ELSE args.new_creators

update_metadata(w) ==
    LET seq == work[w]
        ix == chain[seq]
        a == ix.asset
        based == upsert_asset_base_info(asset[a], UpdatedData(ix.args), seq)
    IN  /\ Handling(w, "update_metadata")
        /\ asset_data' = [asset_data EXCEPT ![a] =
                             upsert_asset_data(@, UpdatedData(ix.args), seq)]
        /\ asset' = [asset EXCEPT ![a] =
                         upsert_asset_with_seq(WithLeaf(based, ix, seq), seq)]
        /\ asset_creators' = [asset_creators EXCEPT ![a] =
                upsert_asset_creators(@, CreatorsAfterUpdate(ix.args), ix.slot, seq)]
        /\ UNCHANGED <<asset_authority, asset_grouping>>
        /\ Commit(w)

handle_bubblegum_instruction(w) ==
    \/ mint(w) \/ transfer(w) \/ burn(w) \/ delegation_freezing_nontransferability(w)
    \/ redeem(w) \/ cancel_redeem(w) \/ creator_verification(w)
    \/ collection_verification(w) \/ update_metadata(w)

-----------------------------------------------------------------------------
Init ==
    /\ chain = << >>
    /\ onchain = [a \in Assets |-> Unminted]
    /\ logged = {} /\ applied = {}
    /\ work = [w \in Workers |-> Idle]
    /\ asset = [a \in Assets |-> NoAsset]
    /\ asset_data = [a \in Assets |-> NoData]
    /\ asset_creators = [a \in Assets |-> [p \in Positions |-> NoCreator]]
    /\ asset_authority = [a \in Assets |-> NULL]
    /\ asset_grouping = [a \in Assets |-> NoGroup]

Next ==
    \/ \E a \in Assets : Chain(a)
    \/ \E w \in Workers :
          SaveChangelogEvent(w) \/ handle_bubblegum_instruction(w) \/ Abort(w)

Spec == Init /\ [][Next]_vars

-----------------------------------------------------------------------------
(* Properties.                                                             *)

Optional(S) == S \cup {NULL}
Seqs == Optional(1 .. MaxSeq)

Creator == [address : Addresses, verified : BOOLEAN]
Collection == [key : Collections \cup {ProgramId}, verified : BOOLEAN]

Args == [data : Optional(DataSet), creators : Seq(Creator),
         collection : Optional(Collection),
         creator : Optional(Addresses), verify : BOOLEAN,
         new_data : Optional(DataSet), new_creators : Optional(Seq(Creator))]

Delegates == Optional(Owners \cup {DefaultKey})

Instruction == [kind : Kinds, asset : Assets, slot : 1 .. MaxSlot,
                owner : Optional(Owners), delegate : Delegates,
                flags : Optional(BOOLEAN), args : Args]

OnChain == [status : {"none", "live", "redeemed", "burnt"},
            owner : Optional(Owners), delegate : Delegates,
            flags : Optional(BOOLEAN), data : Optional(DataSet),
            creators : Seq(Creator), collection : Optional(Collection)]

AssetRow == [seq : Seqs,
             leaf : Seqs \cup {ZeroLeaf}, frozen : BOOLEAN, leaf_seq : Seqs,
             owner : Optional(Owners), delegate : Optional(Owners),
             owner_delegate_seq : Seqs,
             royalty : Optional(DataSet), base_info_seq : Seqs,
             compressed : BOOLEAN, burnt : BOOLEAN]

DataRow == [chain_data : Optional(DataSet), base_info_seq : Seqs]

CreatorRow == [creator : Addresses \cup {EmptyCreator, NULL}, verified : BOOLEAN,
               slot_updated : Optional(1 .. MaxSlot), seq : Seqs]

GroupRow == [group_value : Optional(Collections \cup {ProgramId}), verified : BOOLEAN,
             group_info_seq : Seqs]

\* Type invariant: the history, the on-chain state and every table are well typed.
TypeOK ==
    /\ chain \in Seq(Instruction) /\ Len(chain) <= MaxSeq
    /\ onchain \in [Assets -> OnChain]
    /\ logged \subseteq 1 .. Len(chain) /\ applied \subseteq 1 .. Len(chain)
    /\ work \in [Workers -> 0 .. Len(chain)]
    /\ asset \in [Assets -> AssetRow]
    /\ asset_data \in [Assets -> DataRow]
    /\ asset_creators \in [Assets -> [Positions -> CreatorRow]]
    /\ asset_authority \in [Assets -> {NULL, TreeAuthority}]
    /\ asset_grouping \in [Assets -> GroupRow]

\* The kinds of instructions whose handler writes a group of columns.
LeafKinds == Kinds \ {"burn"}
OwnerKinds == {"mint", "transfer", "delegate", "cancel_redeem", "creator_verification"}
DataKinds == {"mint", "update_metadata"}
CreatorKinds == {"mint", "creator_verification", "update_metadata"}
CollectionKinds == {"mint", "collection_verification"}

\* The applied instructions of asset a of some kinds.
Applied(a, kinds) == {i \in applied : chain[i].asset = a /\ chain[i].kind \in kinds}

\* seq is the highest of S, NULL if there is none.
Latest(seq, S) ==
    IF S = {} THEN seq = NULL ELSE seq \in S /\ \A i \in S : i <= seq

LatestSeq(a) == Latest(asset[a].seq, Applied(a, Kinds))

LatestLeaf(a) ==
    LET seq == asset[a].leaf_seq
    IN  /\ Latest(seq, Applied(a, LeafKinds))
        /\ seq # NULL =>
              IF chain[seq].kind = "redeem"
              THEN asset[a].leaf = ZeroLeaf /\ ~asset[a].frozen
              ELSE asset[a].leaf = seq /\ asset[a].frozen = (chain[seq].flags = TRUE)

LatestOwner(a) ==
    LET seq == asset[a].owner_delegate_seq
    IN  /\ Latest(seq, Applied(a, OwnerKinds))
        /\ seq # NULL => /\ asset[a].owner = chain[seq].owner
                         /\ asset[a].delegate = DelegateOf(chain[seq])

DataOf(ix) == IF ix.kind = "mint" THEN ix.args.data ELSE UpdatedData(ix.args)

LatestData(a) ==
    LET seq == asset[a].base_info_seq
    IN  /\ Latest(seq, Applied(a, DataKinds))
        /\ asset_data[a].base_info_seq = seq
        /\ seq # NULL => /\ asset[a].royalty = DataOf(chain[seq])
                         /\ asset_data[a].chain_data = DataOf(chain[seq])

CollectionWritten(ix) ==
    IF ix.kind = "mint" THEN ix.args.collection ELSE CollectionOf(ix.args)

LatestCollection(a) ==
    LET seq == asset_grouping[a].group_info_seq
    IN  /\ Latest(seq, Applied(a, CollectionKinds))
        /\ seq # NULL =>
              LET c == CollectionWritten(chain[seq])
              IN  IF c = NULL
                  THEN asset_grouping[a].group_value = NULL /\ ~asset_grouping[a].verified
                  ELSE /\ asset_grouping[a].group_value = c.key
                       /\ asset_grouping[a].verified = c.verified

CreatorsWritten(ix) ==
    CASE ix.kind = "mint" -> ix.args.creators
      [] ix.kind = "creator_verification" -> UpdatedCreators(ix.args)
      [] OTHER -> CreatorsAfterUpdate(ix.args)

\* A creators row at position p comes from the latest applied instruction
\* whose array reaches p.
LatestCreator(a, p) ==
    LET row == asset_creators[a][p]
        S == {i \in Applied(a, CreatorKinds) :
                 p < Len(CreatorRows(CreatorsWritten(chain[i])))}
    IN  /\ Latest(row.seq, S)
        /\ row.seq # NULL =>
              LET c == CreatorRows(CreatorsWritten(chain[row.seq]))[p + 1]
              IN  /\ row.creator = c.address /\ row.verified = c.verified
                  /\ row.slot_updated = chain[row.seq].slot

\* What is set once and for all.
Marked(a) ==
    /\ asset[a].burnt <=> (Applied(a, {"burn"}) # {})
    /\ asset[a].compressed <=> (Applied(a, {"mint"}) # {})
    /\ asset_authority[a] = IF Applied(a, {"mint"}) = {} THEN NULL ELSE TreeAuthority

\* Whatever the order and the number of deliveries, every group of columns of
\* every asset holds exactly what the highest-numbered instruction applied so
\* far, among those whose handler writes the group, wrote to it: the upserts of
\* db.rs with their per-group sequence guards are last-writer-wins registers.
LatestWins ==
    \A a \in Assets :
        /\ LatestSeq(a) /\ LatestLeaf(a) /\ LatestOwner(a)
        /\ LatestData(a) /\ LatestCollection(a)
        /\ \A p \in Positions : LatestCreator(a, p)
        /\ Marked(a)

\* An asset row never shows an instruction whose change log was not saved: the
\* handlers save the change log before they open their transaction, so a crash
\* between the two can only leave the asset behind the tree, where the
\* redelivered message repairs it.
ChangelogFirst ==
    /\ applied \subseteq logged
    /\ \A a \in Assets : asset[a].seq # NULL => asset[a].seq \in logged

\* The rows of asset a hold its state on chain.  Rows of asset_creators past the
\* end of the array on chain are told from the others by their sequence number.
MatchesChain(a) ==
    LET now == onchain[a]
        rows == asset_creators[a]
        creators == CreatorRows(now.creators)
        group == asset_grouping[a]
    IN  /\ asset[a].owner = now.owner
        /\ asset[a].delegate =
              (IF now.delegate \in {now.owner, DefaultKey} THEN NULL ELSE now.delegate)
        /\ asset[a].burnt = (now.status = "burnt")
        /\ asset[a].compressed
        /\ asset[a].frozen = (now.flags = TRUE)
        /\ (asset[a].leaf = ZeroLeaf) = (now.status = "redeemed")
        /\ asset_data[a].chain_data = now.data
        /\ \A p \in Positions :
              IF p < Len(creators)
              THEN /\ rows[p].creator = creators[p + 1].address
                   /\ rows[p].verified = creators[p + 1].verified
                   /\ rows[p].seq = rows[0].seq
              ELSE rows[p].seq = NULL \/ rows[p].seq < rows[0].seq
        /\ IF now.collection = NULL
           THEN group.group_value = NULL /\ ~group.verified
           ELSE /\ group.group_value = now.collection.key
                /\ group.verified = now.collection.verified

\* Once every instruction of the tree has been handled at least once, in
\* whatever order and however often, the tables hold the state on chain of
\* every minted asset: nothing the handlers write is lost for good.
TablesMatchChain ==
    applied = 1 .. Len(chain) =>
        \A a \in Assets : onchain[a].status # "none" => MatchesChain(a)

\* Handling an instruction a second time changes nothing, whatever was applied
\* in between: redelivery after a lost acknowledgement is harmless.
RedeliveryIsNoOp ==
    [][applied' = applied => UNCHANGED tables]_vars
=============================================================================
