-------------------------- MODULE BubblegumProofs ---------------------------
(***************************************************************************)
(* Type correctness of Bubblegum, last writer wins, and what any order and *)
(* repetition of the messages come to, for any tree length, any sets of    *)
(* assets, wallets, creators and workers.                                  *)
(***************************************************************************)
EXTENDS Bubblegum, TLAPS

-----------------------------------------------------------------------------
(* Types.                                                                  *)

\* What a handler's transaction may rely on: the instruction it handles is one
\* of the history, with its fields in their types.
LEMMA HandledInstruction ==
    ASSUME TypeOK, NEW w \in Workers, work[w] # Idle
    PROVE  /\ work[w] \in 1 .. Len(chain) /\ work[w] \in 1 .. MaxSeq
           /\ work[w] \in Nat \ {0}
           /\ chain[work[w]] \in Instruction
  BY BoundsAssumption DEF TypeOK, Idle

\* The upserts of the asset table keep a row in the type of its columns.
LEMMA AssetUpsertsTyped ==
    ASSUME NEW row \in AssetRow, NEW i \in 1 .. MaxSeq
    PROVE  /\ \A l \in Seqs \cup {ZeroLeaf}, f \in Optional(BOOLEAN) :
                 upsert_asset_with_leaf_info(row, l, f, i) \in AssetRow
           /\ \A o, d \in Optional(Owners) :
                 upsert_asset_with_owner_and_delegate_info(row, o, d, i) \in AssetRow
           /\ \A d \in Optional(DataSet) : upsert_asset_base_info(row, d, i) \in AssetRow
           /\ \A c \in BOOLEAN : upsert_asset_with_compression_info(row, c) \in AssetRow
           /\ upsert_asset_with_seq(row, i) \in AssetRow
           /\ upsert_burnt(row) \in AssetRow
<1> i \in Seqs
  BY DEF Seqs, Optional
<1>1. ASSUME NEW l \in Seqs \cup {ZeroLeaf}, NEW f \in Optional(BOOLEAN)
      PROVE  upsert_asset_with_leaf_info(row, l, f, i) \in AssetRow
  BY Zenon DEF upsert_asset_with_leaf_info, AssetRow
<1>2. ASSUME NEW o \in Optional(Owners), NEW d \in Optional(Owners)
      PROVE  upsert_asset_with_owner_and_delegate_info(row, o, d, i) \in AssetRow
  BY Zenon DEF upsert_asset_with_owner_and_delegate_info, AssetRow
<1>3. ASSUME NEW d \in Optional(DataSet)
      PROVE  upsert_asset_base_info(row, d, i) \in AssetRow
  BY Zenon DEF upsert_asset_base_info, AssetRow
<1>4. ASSUME NEW c \in BOOLEAN
      PROVE  upsert_asset_with_compression_info(row, c) \in AssetRow
  BY DEF upsert_asset_with_compression_info, AssetRow
<1>5. upsert_asset_with_seq(row, i) \in AssetRow
  BY DEF upsert_asset_with_seq, AssetRow
<1>6. upsert_burnt(row) \in AssetRow
  BY Zenon DEF upsert_burnt, AssetRow
<1> QED
  BY <1>1, <1>2, <1>3, <1>4, <1>5, <1>6

\* The rows of the other tables stay typed.
LEMMA DataUpsertTyped ==
    ASSUME NEW row \in DataRow, NEW i \in 1 .. MaxSeq, NEW d \in Optional(DataSet)
    PROVE  upsert_asset_data(row, d, i) \in DataRow
  BY Zenon DEF upsert_asset_data, DataRow, Seqs, Optional

\* The upsert of asset_grouping makes a row of the table.
LEMMA GroupUpsertTyped ==
    ASSUME NEW row \in GroupRow, NEW i \in 1 .. MaxSeq, NEW c \in Optional(Collection)
    PROVE  upsert_collection_info(row, c, i) \in GroupRow
<1>1. c # NULL => c.key \in Collections \cup {ProgramId} /\ c.verified \in BOOLEAN
  BY DEF Optional, Collection
<1> QED
  BY <1>1, Zenon DEF upsert_collection_info, GroupRow, Seqs, Optional

\* The upsert of asset_creators makes rows of the table.
LEMMA CreatorsUpsertTyped ==
    ASSUME NEW rows \in [Positions -> CreatorRow], NEW i \in 1 .. MaxSeq,
           NEW l \in Seq(Creator), NEW s \in 1 .. MaxSlot
    PROVE  upsert_asset_creators(rows, l, s, i) \in [Positions -> CreatorRow]
<1> DEFINE new == CreatorRows(l)
           Placed == [address : Addresses \cup {EmptyCreator}, verified : BOOLEAN]
<1>1. Len(new) \in Nat /\ \A k \in 1 .. Len(new) : new[k] \in Placed
  <2>1. CASE l = << >>
    <3>1. new = << [address |-> EmptyCreator, verified |-> FALSE] >>
      BY <2>1 DEF CreatorRows
    <3>2. Len(new) = 1 /\ new[1] = [address |-> EmptyCreator, verified |-> FALSE]
      BY <3>1
    <3> HIDE DEF new
    <3>3. Len(new) \in Nat /\ new[1] \in Placed
      BY <3>2
    <3>4. \A k \in 1 .. Len(new) : k = 1
      BY <3>2
    <3> HIDE DEF Placed
    <3> QED
      BY <3>3, <3>4
  <2>2. CASE l # << >>
    <3>1. new = l
      BY <2>2 DEF CreatorRows
    <3>2. Len(l) \in Nat /\ \A k \in 1 .. Len(l) : l[k] \in Creator
      OBVIOUS
    <3> QED
      BY <3>1, <3>2 DEF Creator
  <2> QED
    BY <2>1, <2>2
<1>2. ASSUME NEW p \in Positions, p < Len(new)
      PROVE  p + 1 \in 1 .. Len(new) /\ new[p + 1] \in Placed
  <2> HIDE DEF new
  <2>1. p \in Nat
    BY BoundsAssumption DEF Positions
  <2>2. p + 1 \in 1 .. Len(new)
    BY <1>1, <1>2, <2>1
  <2> QED
    BY <2>2, <1>1
<1> HIDE DEF new
<1>3. ASSUME NEW p \in Positions, p < Len(new)
      PROVE  [creator |-> new[p + 1].address, verified |-> new[p + 1].verified,
              slot_updated |-> s, seq |-> i] \in CreatorRow
  BY <1>2, <1>3 DEF CreatorRow, Seqs, Optional
<1> QED
  BY <1>3 DEF upsert_asset_creators, new

\* The arguments the handlers derive from an instruction are typed.
LEMMA DerivedTyped ==
    ASSUME NEW ix \in Instruction
    PROVE  /\ ix.args \in Args
           /\ DelegateOf(ix) \in Optional(Owners)
           /\ UpdatedData(ix.args) \in Optional(DataSet)
           /\ UpdatedCreators(ix.args) \in Seq(Creator)
           /\ CreatorsAfterUpdate(ix.args) \in Seq(Creator)
           /\ ix.kind = "collection_verification" /\ ix.args.collection # NULL
                 => CollectionOf(ix.args) \in Optional(Collection)
<1>1. ix.args \in Args /\ ix.owner \in Optional(Owners) /\ ix.delegate \in Delegates
  BY DEF Instruction
<1>2. DelegateOf(ix) \in Optional(Owners)
  BY <1>1 DEF DelegateOf, Delegates, Optional
<1>3. UpdatedData(ix.args) \in Optional(DataSet)
  BY <1>1 DEF UpdatedData, Args
<1>4. UpdatedCreators(ix.args) \in Seq(Creator)
  <2> DEFINE l == ix.args.creators
  <2>1. l \in Seq(Creator) /\ ix.args.verify \in BOOLEAN
    BY <1>1 DEF Args
  <2>2. ASSUME NEW p \in DOMAIN l
        PROVE  [l[p] EXCEPT !.verified =
                   IF l[p].address = ix.args.creator THEN ix.args.verify ELSE @] \in Creator
    <3>1. l[p] \in Creator
      BY <2>1
    <3> QED
      BY <3>1, <2>1 DEF Creator
  <2>3. DOMAIN l = 1 .. Len(l) /\ Len(l) \in Nat
    BY <2>1
  <2> QED
    BY <2>2, <2>3 DEF UpdatedCreators
<1>5. CreatorsAfterUpdate(ix.args) \in Seq(Creator)
  BY <1>1 DEF CreatorsAfterUpdate, Args, Optional
<1>6. ix.args.collection # NULL => CollectionOf(ix.args) \in Optional(Collection)
  BY <1>1 DEF CollectionOf, Args, Optional
<1> QED
  BY <1>1, <1>2, <1>3, <1>4, <1>5, <1>6

\* A chain step appends a typed instruction and leaves a typed asset.
LEMMA EmitTyped ==
    ASSUME TypeOK, NEW a \in Assets, NEW kind \in Kinds, NEW post \in OnChain,
           NEW args \in Args, Emit(a, kind, post, args)
    PROVE  TypeOK'
<1>1. LastSlot \in Nat /\ LastSlot >= 1
  <2>1. CASE chain = << >>
    BY <2>1 DEF LastSlot
  <2>2. CASE chain # << >>
    <3>1. chain[Len(chain)] \in Instruction
      BY <2>2 DEF TypeOK
    <3> QED
      BY <3>1, <2>2, BoundsAssumption DEF LastSlot, Instruction
  <2> QED
    BY <2>1, <2>2
<1>2. PICK s \in LastSlot .. MaxSlot :
          chain' = Append(chain, [kind |-> kind, asset |-> a, slot |-> s,
                                  owner |-> post.owner, delegate |-> post.delegate,
                                  flags |-> post.flags, args |-> args])
  BY DEF Emit
<1>3. s \in 1 .. MaxSlot
  BY <1>1, BoundsAssumption
<1>4. [kind |-> kind, asset |-> a, slot |-> s, owner |-> post.owner,
       delegate |-> post.delegate, flags |-> post.flags, args |-> args] \in Instruction
  BY <1>3 DEF Instruction, OnChain
<1>5. chain' \in Seq(Instruction) /\ Len(chain') = Len(chain) + 1
  BY <1>2, <1>4 DEF TypeOK
<1>6. Len(chain) \in Nat /\ Len(chain) < MaxSeq
  BY DEF Emit, TypeOK
<1>7. Len(chain') <= MaxSeq /\ 1 .. Len(chain) \subseteq 1 .. Len(chain')
          /\ 0 .. Len(chain) \subseteq 0 .. Len(chain')
  BY <1>5, <1>6, BoundsAssumption
<1>8. onchain' \in [Assets -> OnChain]
  BY DEF Emit, TypeOK
<1>9. work' \in [Workers -> 0 .. Len(chain')]
  BY <1>7 DEF Emit, TypeOK
<1> QED
  BY <1>5, <1>7, <1>8, <1>9 DEF Emit, TypeOK, tables

\* What the chain does keeps the types.
LEMMA ChainTyped ==
    ASSUME TypeOK, NEW a \in Assets, Chain(a)
    PROVE  TypeOK'
<1> USE EmitTyped DEF Kinds
<1> DEFINE now == onchain[a]
<1>1. now \in OnChain
  BY DEF TypeOK
<1>2. NoArgs \in Args
  BY DEF NoArgs, Args, Optional
<1>3. CASE ChainMint(a)
  <2>1. PICK o \in Owners, f \in {NULL, FALSE}, d \in DataSet, l \in CreatorLists,
             c \in {NULL} \cup [key : Collections, verified : BOOLEAN] :
          Emit(a, "mint",
               [status |-> "live", owner |-> o, delegate |-> o, flags |-> f,
                data |-> d, creators |-> l, collection |-> c],
               [NoArgs EXCEPT !.data = d, !.creators = l, !.collection = c])
    BY <1>3, Zenon DEF ChainMint
  <2>2. l \in Seq(Creator)
    BY CreatorsAssumption, Zenon DEF Creator
  <2>3. c \in Optional(Collection)
    BY DEF Optional, Collection
  <2>4. [status |-> "live", owner |-> o, delegate |-> o, flags |-> f,
         data |-> d, creators |-> l, collection |-> c] \in OnChain
    BY <2>2, <2>3, Zenon DEF OnChain, Delegates, Optional
  <2>5. [NoArgs EXCEPT !.data = d, !.creators = l, !.collection = c] \in Args
    BY <1>2, <2>2, <2>3, Zenon DEF Args, Optional
  <2> QED
    BY <2>1, <2>4, <2>5
<1>4. CASE ChainTransfer(a)
  <2>1. PICK o \in Owners :
          Emit(a, "transfer", [now EXCEPT !.owner = o, !.delegate = o], NoArgs)
    BY <1>4, Zenon DEF ChainTransfer
  <2>2. [now EXCEPT !.owner = o, !.delegate = o] \in OnChain
    BY <1>1, Zenon DEF OnChain, Delegates, Optional
  <2> QED
    BY <1>2, <2>1, <2>2
<1>5. CASE ChainDelegate(a)
  <2>1. PICK d \in Owners \cup {DefaultKey},
             f \in (IF now.flags = NULL THEN {NULL} ELSE BOOLEAN) :
          Emit(a, "delegate", [now EXCEPT !.delegate = d, !.flags = f], NoArgs)
    BY <1>5, Zenon DEF ChainDelegate
  <2>2. f \in Optional(BOOLEAN)
    BY DEF Optional
  <2>3. [now EXCEPT !.delegate = d, !.flags = f] \in OnChain
    BY <1>1, <2>2, Zenon DEF OnChain, Delegates, Optional
  <2> QED
    BY <1>2, <2>1, <2>3
<1>6. CASE ChainBurn(a) \/ ChainRedeem(a) \/ ChainCancelRedeem(a)
  <2>1. \A s \in {"burnt", "redeemed", "live"} : [now EXCEPT !.status = s] \in OnChain
    BY <1>1 DEF OnChain
  <2> QED
    BY <1>2, <1>6, <2>1 DEF ChainBurn, ChainRedeem, ChainCancelRedeem
<1>7. CASE ChainCreatorVerification(a)
  <2>1. PICK p \in DOMAIN now.creators, v \in BOOLEAN :
          Emit(a, "creator_verification", [now EXCEPT !.creators[p].verified = v],
               [NoArgs EXCEPT !.creators = now.creators,
                              !.creator = now.creators[p].address, !.verify = v])
    BY <1>7, Zenon DEF ChainCreatorVerification
  <2>2. now.creators \in Seq(Creator) /\ now.creators[p] \in Creator
    BY <1>1 DEF OnChain
  <2>3. [now.creators EXCEPT ![p].verified = v] \in Seq(Creator)
    <3>1. [now.creators[p] EXCEPT !.verified = v] \in Creator
      BY <2>2 DEF Creator
    <3> QED
      BY <2>2, <3>1
  <2>4. [now EXCEPT !.creators[p].verified = v] \in OnChain
    BY <1>1, <2>3, ZenonT(30) DEF OnChain
  <2>5. [NoArgs EXCEPT !.creators = now.creators,
                       !.creator = now.creators[p].address, !.verify = v] \in Args
    BY <1>2, <2>2, Zenon DEF Args, Optional, Creator
  <2> QED
    BY <2>1, <2>4, <2>5
<1>8. CASE ChainCollectionVerification(a)
  <2>1. PICK k \in Collections \cup {ProgramId}, v \in BOOLEAN :
          Emit(a, "collection_verification",
               [now EXCEPT !.collection =
                   IF k = ProgramId THEN NULL ELSE [key |-> k, verified |-> v]],
               [NoArgs EXCEPT !.collection = [key |-> k, verified |-> v]])
    BY <1>8 DEF ChainCollectionVerification
  <2>2. [key |-> k, verified |-> v] \in Collection
    BY DEF Collection
  <2>3. [now EXCEPT !.collection =
            IF k = ProgramId THEN NULL ELSE [key |-> k, verified |-> v]] \in OnChain
    BY <1>1, <2>2 DEF OnChain, Optional
  <2>4. [NoArgs EXCEPT !.collection = [key |-> k, verified |-> v]] \in Args
    BY <1>2, <2>2 DEF Args, Optional
  <2> QED
    BY <2>1, <2>3, <2>4
<1>9. CASE ChainUpdateMetadata(a)
  <2>1. PICK d \in DataSet \cup {NULL}, l \in CreatorLists \cup {NULL} :
          Emit(a, "update_metadata",
               [now EXCEPT !.data = IF d = NULL THEN @ ELSE d,
                           !.creators = IF l = NULL THEN @ ELSE l],
               [NoArgs EXCEPT !.data = now.data, !.creators = now.creators,
                              !.new_data = d, !.new_creators = l])
    BY <1>9, Zenon DEF ChainUpdateMetadata
  <2>2. l \in Optional(Seq(Creator))
    BY CreatorsAssumption, Zenon DEF Creator, Optional
  <2>3. [now EXCEPT !.data = IF d = NULL THEN @ ELSE d,
                    !.creators = IF l = NULL THEN @ ELSE l] \in OnChain
    <3>1. (IF d = NULL THEN now.data ELSE d) \in Optional(DataSet)
      BY <1>1 DEF OnChain, Optional
    <3>2. (IF l = NULL THEN now.creators ELSE l) \in Seq(Creator)
      BY <1>1, <2>2 DEF OnChain, Optional
    <3>3. \A x \in Optional(DataSet), y \in Seq(Creator) :
             [now EXCEPT !.data = x, !.creators = y] \in OnChain
      BY <1>1, Zenon DEF OnChain
    <3> QED
      BY <3>1, <3>2, <3>3, Zenon
  <2>4. [NoArgs EXCEPT !.data = now.data, !.creators = now.creators,
                       !.new_data = d, !.new_creators = l] \in Args
    BY <1>1, <1>2, <2>2, Zenon DEF Args, OnChain, Optional
  <2> QED
    BY <2>1, <2>3, <2>4
<1> QED
  BY <1>3, <1>4, <1>5, <1>6, <1>7, <1>8, <1>9 DEF Chain

\* A collection verification always carries a collection.
CarriesCollection ==
    \A i \in DOMAIN chain :
        chain[i].kind = "collection_verification" => chain[i].args.collection # NULL

\* The four kinds of writes to the asset row that the handlers combine.
LEMMA HandlerRowsTyped ==
    ASSUME TypeOK, NEW w \in Workers, work[w] # Idle
    PROVE  LET ix == chain[work[w]]
               seq == work[w]
           IN  \A row \in AssetRow :
                  /\ WithLeaf(row, ix, seq) \in AssetRow
                  /\ WithOwner(row, ix, seq) \in AssetRow
                  /\ upsert_asset_with_seq(row, seq) \in AssetRow
                  /\ upsert_asset_with_leaf_info(row, ZeroLeaf, NULL, seq) \in AssetRow
<1> DEFINE ix == chain[work[w]]
           seq == work[w]
<1>1. seq \in 1 .. MaxSeq /\ ix \in Instruction
  BY HandledInstruction
<1>2. ix.flags \in Optional(BOOLEAN) /\ ix.owner \in Optional(Owners)
          /\ DelegateOf(ix) \in Optional(Owners)
  BY <1>1, DerivedTyped DEF Instruction
<1>3. seq \in Seqs \cup {ZeroLeaf} /\ NULL \in Optional(BOOLEAN)
  BY <1>1 DEF Seqs, Optional
<1> HIDE DEF ix, seq
<1>4. SUFFICES ASSUME NEW row \in AssetRow
               PROVE  /\ WithLeaf(row, ix, seq) \in AssetRow
                      /\ WithOwner(row, ix, seq) \in AssetRow
                      /\ upsert_asset_with_seq(row, seq) \in AssetRow
                      /\ upsert_asset_with_leaf_info(row, ZeroLeaf, NULL, seq) \in AssetRow
  BY DEF ix, seq
<1> QED
  BY <1>1, <1>2, <1>3, AssetUpsertsTyped, Zenon DEF WithLeaf, WithOwner

\* Every handler keeps the types of the tables.
LEMMA HandlersTyped ==
    ASSUME TypeOK, CarriesCollection, NEW w \in Workers, handle_bubblegum_instruction(w)
    PROVE  TypeOK'
<1> DEFINE seq == work[w]
           ix == chain[seq]
           a == ix.asset
<1>1. work[w] # Idle
  BY Zenon DEF handle_bubblegum_instruction, Handling, mint, LeafOwnerAndSeq, transfer,
         delegation_freezing_nontransferability, cancel_redeem, burn, redeem,
         creator_verification, collection_verification, update_metadata
<1>2. seq \in 1 .. Len(chain) /\ seq \in 1 .. MaxSeq /\ ix \in Instruction
  BY <1>1, HandledInstruction
<1>3. /\ a \in Assets /\ ix.slot \in 1 .. MaxSlot
      /\ ix.args \in Args /\ ix.args.data \in Optional(DataSet)
      /\ ix.args.creators \in Seq(Creator) /\ ix.args.collection \in Optional(Collection)
  BY <1>2 DEF Instruction, Args
<1>4. Commit(w) /\ asset' \in [Assets -> AssetRow] /\ asset_data' \in [Assets -> DataRow]
          /\ asset_creators' \in [Assets -> [Positions -> CreatorRow]]
          /\ asset_authority' \in [Assets -> {NULL, TreeAuthority}]
          /\ asset_grouping' \in [Assets -> GroupRow]
      => TypeOK'
  <2>1. 0 \in 0 .. Len(chain)
    BY DEF TypeOK
  <2> QED
    BY <1>2, <2>1, Zenon DEF Commit, TypeOK, chainVars, Idle
<1>5. asset[a] \in AssetRow /\ asset_data[a] \in DataRow
          /\ asset_creators[a] \in [Positions -> CreatorRow]
          /\ asset_grouping[a] \in GroupRow
  BY <1>3 DEF TypeOK
<1>6. \A row \in AssetRow :
          /\ WithLeaf(row, ix, seq) \in AssetRow
          /\ WithOwner(row, ix, seq) \in AssetRow
          /\ upsert_asset_with_seq(row, seq) \in AssetRow
          /\ upsert_asset_with_leaf_info(row, ZeroLeaf, NULL, seq) \in AssetRow
  BY <1>1, HandlerRowsTyped
<1>7. \A d \in Optional(DataSet) :
          /\ upsert_asset_data(asset_data[a], d, seq) \in DataRow
          /\ upsert_asset_base_info(asset[a], d, seq) \in AssetRow
  BY <1>2, <1>5, DataUpsertTyped, AssetUpsertsTyped, Zenon
<1>8. \A l \in Seq(Creator) :
          upsert_asset_creators(asset_creators[a], l, ix.slot, seq) \in [Positions -> CreatorRow]
  BY <1>2, <1>3, <1>5, CreatorsUpsertTyped, Zenon
<1>9. \A c \in Optional(Collection) :
          upsert_collection_info(asset_grouping[a], c, seq) \in GroupRow
  BY <1>2, <1>5, GroupUpsertTyped
<1>10. /\ UpdatedData(ix.args) \in Optional(DataSet)
       /\ UpdatedCreators(ix.args) \in Seq(Creator)
       /\ CreatorsAfterUpdate(ix.args) \in Seq(Creator)
       /\ ix.kind = "collection_verification" =>
             CollectionOf(ix.args) \in Optional(Collection)
  BY <1>2, DerivedTyped, SMTT(30) DEF CarriesCollection
<1> HIDE DEF seq, ix, a
<1>11. CASE mint(w)
  <2>1. \A row \in AssetRow : upsert_asset_with_compression_info(row, TRUE) \in AssetRow
    BY <1>2, AssetUpsertsTyped, Zenon
  <2>2. asset' \in [Assets -> AssetRow]
    BY <1>11, <1>3, <1>6, <1>7, <2>1, Zenon DEF mint, TypeOK, seq, ix, a
  <2>3. asset_authority' \in [Assets -> {NULL, TreeAuthority}]
    BY <1>11, Zenon DEF mint, TypeOK, upsert_asset_authority
  <2> QED
    BY <1>11, <1>3, <1>4, <1>7, <1>8, <1>9, <2>2, <2>3, Zenon DEF mint, TypeOK, seq, ix, a
<1>12. CASE transfer(w) \/ delegation_freezing_nontransferability(w) \/ cancel_redeem(w)
  <2>1. \E kind \in Kinds : LeafOwnerAndSeq(w, kind)
    BY <1>12 DEF transfer, delegation_freezing_nontransferability, cancel_redeem, Kinds
  <2>2. asset' = [asset EXCEPT ![a] =
            upsert_asset_with_seq(WithOwner(WithLeaf(asset[a], ix, seq), ix, seq), seq)]
    BY <2>1, Zenon DEF LeafOwnerAndSeq, seq, ix, a
  <2>3. upsert_asset_with_seq(WithOwner(WithLeaf(asset[a], ix, seq), ix, seq), seq)
            \in AssetRow
    BY <1>5, <1>6
  <2>4. asset' \in [Assets -> AssetRow]
    BY <2>2, <2>3, Zenon DEF TypeOK
  <2> QED
    BY <1>4, <2>1, <2>4 DEF LeafOwnerAndSeq, TypeOK
<1>13. CASE burn(w)
  <2>1. upsert_burnt(asset[a]) \in AssetRow
    BY <1>2, <1>5, AssetUpsertsTyped
  <2>2. asset' \in [Assets -> AssetRow]
    BY <1>13, <1>6, <2>1, Zenon DEF burn, TypeOK, seq, ix, a
  <2> QED
    BY <1>13, <1>4, <2>2, ZenonT(30) DEF burn, TypeOK
<1>14. CASE redeem(w)
  <2>1. asset' \in [Assets -> AssetRow]
    BY <1>14, <1>5, <1>6, Zenon DEF redeem, TypeOK, seq, ix, a
  <2> QED
    BY <1>14, <1>4, <2>1 DEF redeem, TypeOK
<1>15. CASE creator_verification(w)
  <2>1. asset' \in [Assets -> AssetRow]
    BY <1>15, <1>5, <1>6, ZenonT(30) DEF creator_verification, TypeOK, seq, ix, a
  <2> QED
    BY <1>15, <1>4, <1>8, <1>10, <2>1, Zenon DEF creator_verification, TypeOK, seq, ix, a
<1>16. CASE collection_verification(w)
  <2>1. asset' \in [Assets -> AssetRow]
    BY <1>16, <1>5, <1>6, ZenonT(30) DEF collection_verification, TypeOK, seq, ix, a
  <2> QED
    BY <1>16, <1>4, <1>9, <1>10, <2>1, Zenon
       DEF collection_verification, Handling, TypeOK, seq, ix, a
<1>17. CASE update_metadata(w)
  <2>1. asset' \in [Assets -> AssetRow]
    BY <1>17, <1>6, <1>7, <1>10, Zenon DEF update_metadata, TypeOK, seq, ix, a
  <2> QED
    BY <1>17, <1>4, <1>7, <1>8, <1>10, <2>1, Zenon DEF update_metadata, TypeOK, seq, ix, a
<1> QED
  BY <1>11, <1>12, <1>13, <1>14, <1>15, <1>16, <1>17 DEF handle_bubblegum_instruction

\* An instruction that verifies a collection is emitted with one.
LEMMA CarriesCollectionStep ==
    ASSUME TypeOK, CarriesCollection, [Next]_vars
    PROVE  CarriesCollection'
<1>1. CASE UNCHANGED chain
  BY <1>1 DEF CarriesCollection
<1>2. ASSUME NEW a \in Assets, NEW kind, NEW post, NEW args, Emit(a, kind, post, args),
             kind = "collection_verification" => args.collection # NULL
      PROVE  CarriesCollection'
  <2>1. PICK s :
          chain' = Append(chain, [kind |-> kind, asset |-> a, slot |-> s,
                                  owner |-> post.owner, delegate |-> post.delegate,
                                  flags |-> post.flags, args |-> args])
    BY <1>2, Zenon DEF Emit
  <2>2. DOMAIN chain = 1 .. Len(chain) /\ Len(chain) \in Nat
    <3>1. chain \in Seq(Instruction)
      BY Zenon DEF TypeOK
    <3> QED
      BY <3>1
  <2>3. /\ DOMAIN chain' = 1 .. Len(chain) + 1
        /\ \A i \in 1 .. Len(chain) : chain'[i] = chain[i]
        /\ chain'[Len(chain) + 1].kind = kind
        /\ chain'[Len(chain) + 1].args = args
    BY <2>1, <2>2 DEF TypeOK
  <2>4. ASSUME NEW i \in DOMAIN chain', chain'[i].kind = "collection_verification"
        PROVE  chain'[i].args.collection # NULL
    <3>1. i \in 1 .. Len(chain) \/ i = Len(chain) + 1
      BY <2>2, <2>3
    <3>2. CASE i \in 1 .. Len(chain)
      <4>1. chain'[i] = chain[i] /\ i \in DOMAIN chain
        BY <2>2, <2>3, <3>2
      <4> QED
        BY <2>4, <4>1 DEF CarriesCollection
    <3>3. CASE i = Len(chain) + 1
      <4>1. chain'[i].kind = kind /\ chain'[i].args = args
        BY <2>3, <3>3
      <4>2. args.collection # NULL
        BY <1>2, <2>4, <4>1
      <4> QED
        BY <4>1, <4>2
    <3> QED
      BY <3>1, <3>2, <3>3
  <2> QED
    BY <2>4 DEF CarriesCollection
<1>3. ASSUME NEW a \in Assets, ChainCollectionVerification(a)
      PROVE  CarriesCollection'
  <2>1. PICK k \in Collections \cup {ProgramId}, v \in BOOLEAN :
          \E post : Emit(a, "collection_verification", post,
                         [NoArgs EXCEPT !.collection = [key |-> k, verified |-> v]])
    BY <1>3, Zenon DEF ChainCollectionVerification
  <2>2. [NoArgs EXCEPT !.collection = [key |-> k, verified |-> v]].collection # NULL
    BY NullAssumption DEF NoArgs
  <2> QED
    BY <1>2, <2>1, <2>2, Zenon
<1>4. ASSUME NEW a \in Assets, Chain(a), ~ChainCollectionVerification(a)
      PROVE  CarriesCollection'
  <2>1. \E kind \in Kinds \ {"collection_verification"} :
            \E post, args : Emit(a, kind, post, args)
    BY <1>4, ZenonT(30) DEF Chain, Kinds, ChainMint, ChainTransfer, ChainDelegate, ChainBurn,
       ChainRedeem, ChainCancelRedeem, ChainCreatorVerification, ChainUpdateMetadata
  <2> QED
    BY <1>2, <2>1, ZenonT(30)
<1>5. ASSUME NEW w \in Workers,
             SaveChangelogEvent(w) \/ handle_bubblegum_instruction(w) \/ Abort(w)
      PROVE  UNCHANGED chain
  BY <1>5, Zenon DEF SaveChangelogEvent, Abort, handle_bubblegum_instruction, mint, transfer,
     delegation_freezing_nontransferability, cancel_redeem, LeafOwnerAndSeq, burn, redeem,
     creator_verification, collection_verification, update_metadata, Commit, chainVars
<1> QED
  BY <1>1, <1>3, <1>4, <1>5 DEF Next, vars, chainVars

\* Types hold initially and every step keeps them.
LEMMA TypeInit ==
    ASSUME Init PROVE TypeOK /\ CarriesCollection
<1>1. chain = << >> /\ Len(chain) = 0 /\ chain \in Seq(Instruction)
  BY DEF Init
<1>2. Unminted \in OnChain /\ NoAsset \in AssetRow
  <2>1. /\ NULL \in Optional(Owners) /\ NULL \in Optional(BOOLEAN)
        /\ NULL \in Optional(DataSet) /\ NULL \in Optional(Collection)
        /\ NULL \in Delegates /\ NULL \in Seqs
    BY Zenon DEF Optional, Delegates, Seqs
  <2>2. << >> \in Seq(Creator)
    OBVIOUS
  <2>3. Unminted \in OnChain
    BY <2>1, <2>2 DEF Unminted, OnChain
  <2>4. NoAsset \in AssetRow
    BY <2>1 DEF NoAsset, AssetRow
  <2> QED
    BY <2>3, <2>4, Zenon
<1>3. NoData \in DataRow /\ NoCreator \in CreatorRow /\ NoGroup \in GroupRow
  BY DEF NoData, DataRow, NoCreator, CreatorRow, NoGroup, GroupRow, Optional, Seqs
<1>4. TypeOK
  BY <1>1, <1>2, <1>3, BoundsAssumption DEF Init, TypeOK, Idle
<1> QED
  BY <1>1, <1>4 DEF CarriesCollection

\* Every step keeps the types.
LEMMA TypeStep ==
    ASSUME TypeOK, CarriesCollection, [Next]_vars
    PROVE  TypeOK' /\ CarriesCollection'
<1>1. ASSUME UNCHANGED vars PROVE TypeOK'
  BY <1>1 DEF TypeOK, vars, chainVars, tables
<1>2. ASSUME NEW w \in Workers, SaveChangelogEvent(w) PROVE TypeOK'
  BY <1>2 DEF SaveChangelogEvent, TypeOK, chainVars, tables
<1>3. ASSUME NEW w \in Workers, Abort(w) PROVE TypeOK'
  BY <1>3 DEF Abort, TypeOK, chainVars, tables, Idle
<1>4. TypeOK'
  BY <1>1, <1>2, <1>3, ChainTyped, HandlersTyped DEF Next
<1>5. CarriesCollection'
  BY CarriesCollectionStep
<1> QED
  BY <1>4, <1>5

\* Type correctness of every reachable state.
THEOREM TypeCorrect == Spec => [](TypeOK /\ CarriesCollection)
<1>1. Init => TypeOK /\ CarriesCollection
  BY TypeInit
<1>2. TypeOK /\ CarriesCollection /\ [Next]_vars => TypeOK' /\ CarriesCollection'
  BY TypeStep
<1> QED
  BY <1>1, <1>2, PTL DEF Spec

-----------------------------------------------------------------------------
(* What the handlers do to the tables, group of columns by group of        *)
(* columns: a group that is written moves to the instruction's sequence    *)
(* number unless it is already past it.                                    *)

\* The guarded move of a sequence column tracks the maximum of the applied set.
LEMMA LatestMoves ==
    ASSUME NEW S \in SUBSET Nat, NEW col, Latest(col, S), NEW i \in Nat
    PROVE  Latest(IF NotOlder(i, col) THEN i ELSE col, S \cup {i})
<1>1. CASE S = {}
  BY <1>1 DEF Latest, NotOlder
<1>2. CASE S # {}
  <2>1. col \in S /\ col \in Nat /\ \A j \in S : j <= col
    BY <1>2, Zenon DEF Latest
  <2>2. CASE i >= col
    <3>1. NotOlder(i, col)
      BY <2>2 DEF NotOlder
    <3>2. \A j \in S \cup {i} : j <= i
      BY <2>1, <2>2
    <3> QED
      BY <3>1, <3>2 DEF Latest
  <2>3. CASE ~(i >= col)
    <3>1. ~NotOlder(i, col)
      BY <2>1, <2>3, NullAssumption DEF NotOlder
    <3>2. \A j \in S \cup {i} : j <= col
      BY <2>1, <2>3
    <3> QED
      BY <2>1, <3>1, <3>2 DEF Latest
  <2> QED
    BY <2>2, <2>3
<1> QED
  BY <1>1, <1>2

\* A commit of instruction i.
Commits(i) ==
    /\ i \in 1 .. Len(chain)
    /\ chain' = chain
    /\ applied' = applied \cup {i}

\* What committing an instruction adds to the applied ones of each group.
LEMMA AppliedMoves ==
    ASSUME TypeOK, NEW i, Commits(i), NEW a, NEW kinds
    PROVE  /\ Applied(a, kinds) \in SUBSET Nat
           /\ chain[i].asset = a /\ chain[i].kind \in kinds =>
                 Applied(a, kinds)' = Applied(a, kinds) \cup {i}
           /\ ~(chain[i].asset = a /\ chain[i].kind \in kinds) =>
                 Applied(a, kinds)' = Applied(a, kinds)
<1>1. applied \subseteq Nat
  <2>1. applied \subseteq 1 .. Len(chain)
    BY Zenon DEF TypeOK
  <2> QED
    BY <2>1
<1> QED
  BY <1>1, Zenon DEF Commits, Applied

SameSeq(old, new) == new.seq = old.seq
SameLeaf(old, new) ==
    new.leaf = old.leaf /\ new.frozen = old.frozen /\ new.leaf_seq = old.leaf_seq
SameOwner(old, new) ==
    /\ new.owner = old.owner /\ new.delegate = old.delegate
    /\ new.owner_delegate_seq = old.owner_delegate_seq
SameBase(old, new) == new.royalty = old.royalty /\ new.base_info_seq = old.base_info_seq
SameMarks(old, new) == new.burnt = old.burnt /\ new.compressed = old.compressed

SeqMoves(old, new, i) ==
    IF NotOlder(i, old.seq) THEN new.seq = i ELSE SameSeq(old, new)
LeafMoves(old, new, leaf, flags, i) ==
    IF NotOlder(i, old.leaf_seq)
    THEN new.leaf = leaf /\ new.frozen = (flags = TRUE) /\ new.leaf_seq = i
    ELSE SameLeaf(old, new)
OwnerMoves(old, new, owner, delegate, i) ==
    IF NotOlder(i, old.owner_delegate_seq)
    THEN new.owner = owner /\ new.delegate = delegate /\ new.owner_delegate_seq = i
    ELSE SameOwner(old, new)
BaseMoves(old, new, d, i) ==
    IF NotOlder(i, old.base_info_seq)
    THEN new.royalty = d /\ new.base_info_seq = i
    ELSE SameBase(old, new)

\* What each upsert of the asset table does to each group of columns, for an
\* asset that is not decompressed.
LEMMA AssetUpsertEffects ==
    ASSUME NEW row \in AssetRow, NEW i
    PROVE  /\ row.seq # 0
           /\ \A l, f : LET new == upsert_asset_with_leaf_info(row, l, f, i)
                        IN  /\ LeafMoves(row, new, l, f, i) /\ SameSeq(row, new)
                            /\ SameOwner(row, new) /\ SameBase(row, new)
                            /\ SameMarks(row, new)
           /\ \A o, d :
                 LET new == upsert_asset_with_owner_and_delegate_info(row, o, d, i)
                 IN  /\ OwnerMoves(row, new, o, d, i) /\ SameSeq(row, new)
                     /\ SameLeaf(row, new) /\ SameBase(row, new) /\ SameMarks(row, new)
           /\ \A d : LET new == upsert_asset_base_info(row, d, i)
                     IN  /\ BaseMoves(row, new, d, i) /\ SameSeq(row, new)
                         /\ SameLeaf(row, new) /\ SameOwner(row, new)
                         /\ SameMarks(row, new)
           /\ LET new == upsert_asset_with_seq(row, i)
              IN  /\ SeqMoves(row, new, i) /\ SameLeaf(row, new)
                  /\ SameOwner(row, new) /\ SameBase(row, new) /\ SameMarks(row, new)
<1>1. row.seq # 0
  BY NullAssumption, BoundsAssumption DEF AssetRow, Seqs, Optional
<1> USE <1>1 DEF NotDecompressed, NotZeroAndNotOlder, NotOlder,
                 SameSeq, SameLeaf, SameOwner, SameBase, SameMarks
<1>2. ASSUME NEW l, NEW f
      PROVE  LET new == upsert_asset_with_leaf_info(row, l, f, i)
             IN  /\ LeafMoves(row, new, l, f, i) /\ SameSeq(row, new)
                 /\ SameOwner(row, new) /\ SameBase(row, new) /\ SameMarks(row, new)
  BY DEF upsert_asset_with_leaf_info, LeafMoves, AssetRow
<1>3. ASSUME NEW o, NEW d
      PROVE  LET new == upsert_asset_with_owner_and_delegate_info(row, o, d, i)
             IN  /\ OwnerMoves(row, new, o, d, i) /\ SameSeq(row, new)
                 /\ SameLeaf(row, new) /\ SameBase(row, new) /\ SameMarks(row, new)
  BY DEF upsert_asset_with_owner_and_delegate_info, OwnerMoves, AssetRow
<1>4. ASSUME NEW d
      PROVE  LET new == upsert_asset_base_info(row, d, i)
             IN  /\ BaseMoves(row, new, d, i) /\ SameSeq(row, new)
                 /\ SameLeaf(row, new) /\ SameOwner(row, new) /\ SameMarks(row, new)
  BY DEF upsert_asset_base_info, BaseMoves, AssetRow
<1>5. LET new == upsert_asset_with_seq(row, i)
      IN  /\ SeqMoves(row, new, i) /\ SameLeaf(row, new)
          /\ SameOwner(row, new) /\ SameBase(row, new) /\ SameMarks(row, new)
  BY ZenonT(30) DEF upsert_asset_with_seq, SeqMoves, AssetRow
<1> QED
  BY <1>1, <1>2, <1>3, <1>4, <1>5, Zenon

LeafWritten(ix, i) == IF ix.kind = "redeem" THEN ZeroLeaf ELSE i
FlagsWritten(ix) == IF ix.kind = "redeem" THEN NULL ELSE ix.flags

\* What the transaction of instruction i does to the row of its asset.
AssetEffect(old, new, ix, i) ==
    /\ SeqMoves(old, new, i)
    /\ IF ix.kind \in LeafKinds
       THEN LeafMoves(old, new, LeafWritten(ix, i), FlagsWritten(ix), i)
       ELSE SameLeaf(old, new)
    /\ IF ix.kind \in OwnerKinds
       THEN OwnerMoves(old, new, ix.owner, DelegateOf(ix), i)
       ELSE SameOwner(old, new)
    /\ IF ix.kind \in DataKinds
       THEN BaseMoves(old, new, DataOf(ix), i)
       ELSE SameBase(old, new)
    /\ new.burnt <=> ix.kind = "burn" \/ old.burnt
    /\ new.compressed <=> ix.kind = "mint" \/ old.compressed

\* What it does to the rows of the other tables.
OtherEffect(a, ix, i) ==
    /\ asset_data'[a] = IF ix.kind \in DataKinds
                        THEN upsert_asset_data(asset_data[a], DataOf(ix), i)
                        ELSE asset_data[a]
    /\ asset_grouping'[a] = IF ix.kind \in CollectionKinds
                        THEN upsert_collection_info(asset_grouping[a], CollectionWritten(ix), i)
                        ELSE asset_grouping[a]
    /\ asset_creators'[a] = IF ix.kind \in CreatorKinds
                        THEN upsert_asset_creators(asset_creators[a], CreatorsWritten(ix),
                                                   ix.slot, i)
                        ELSE asset_creators[a]
    /\ asset_authority'[a] = IF ix.kind = "mint"
                        THEN upsert_asset_authority(asset_authority[a], TreeAuthority)
                        ELSE asset_authority[a]

SameRows(b) ==
    /\ asset'[b] = asset[b] /\ asset_data'[b] = asset_data[b]
    /\ asset_grouping'[b] = asset_grouping[b] /\ asset_creators'[b] = asset_creators[b]
    /\ asset_authority'[b] = asset_authority[b]

HandlerEffect(i) ==
    /\ Commits(i)
    /\ AssetEffect(asset[chain[i].asset], asset'[chain[i].asset], chain[i], i)
    /\ OtherEffect(chain[i].asset, chain[i], i)
    /\ \A b \in Assets : b # chain[i].asset => SameRows(b)

\* The rows the handlers build from upserts that follow each other.
LEMMA ComposedUpserts ==
    ASSUME TypeOK, NEW w \in Workers, work[w] # Idle, NEW row \in AssetRow
    PROVE  LET i == work[w]
               ix == chain[i]
               leafed == WithLeaf(row, ix, i)
               owned == upsert_asset_with_seq(WithOwner(leafed, ix, i), i)
               sequenced == upsert_asset_with_seq(leafed, i)
           IN  /\ LeafMoves(row, leafed, i, ix.flags, i) /\ SameSeq(row, leafed)
               /\ SameOwner(row, leafed) /\ SameBase(row, leafed) /\ SameMarks(row, leafed)
               /\ SeqMoves(row, owned, i) /\ LeafMoves(row, owned, i, ix.flags, i)
               /\ OwnerMoves(row, owned, ix.owner, DelegateOf(ix), i)
               /\ SameBase(row, owned) /\ SameMarks(row, owned)
               /\ SeqMoves(row, sequenced, i) /\ LeafMoves(row, sequenced, i, ix.flags, i)
               /\ SameOwner(row, sequenced)
               /\ SameBase(row, sequenced) /\ SameMarks(row, sequenced)
<1> DEFINE i == work[w]
           ix == chain[i]
           leafed == WithLeaf(row, ix, i)
           with == WithOwner(leafed, ix, i)
           owned == upsert_asset_with_seq(with, i)
           sequenced == upsert_asset_with_seq(leafed, i)
<1>1. leafed \in AssetRow /\ with \in AssetRow
  BY HandlerRowsTyped
<1>2. /\ LeafMoves(row, leafed, i, ix.flags, i) /\ SameSeq(row, leafed)
      /\ SameOwner(row, leafed) /\ SameBase(row, leafed) /\ SameMarks(row, leafed)
  BY AssetUpsertEffects, ZenonT(30) DEF WithLeaf
<1>3. /\ OwnerMoves(leafed, with, ix.owner, DelegateOf(ix), i) /\ SameSeq(leafed, with)
      /\ SameLeaf(leafed, with) /\ SameBase(leafed, with) /\ SameMarks(leafed, with)
  BY <1>1, AssetUpsertEffects, Zenon DEF WithOwner
<1>4. /\ SeqMoves(with, owned, i) /\ SameLeaf(with, owned)
      /\ SameOwner(with, owned) /\ SameBase(with, owned) /\ SameMarks(with, owned)
  BY <1>1, AssetUpsertEffects, ZenonT(30)
<1>5. /\ SeqMoves(leafed, sequenced, i) /\ SameLeaf(leafed, sequenced)
      /\ SameOwner(leafed, sequenced) /\ SameBase(leafed, sequenced)
      /\ SameMarks(leafed, sequenced)
  BY <1>1, AssetUpsertEffects, Zenon
<1> HIDE DEF i, ix, leafed, with, owned, sequenced
<1> USE DEF SameSeq, SameLeaf, SameOwner, SameBase, SameMarks
<1>6. SeqMoves(row, owned, i) /\ SeqMoves(row, sequenced, i)
  BY <1>2, <1>3, <1>4, <1>5, Zenon DEF SeqMoves
<1>7. LeafMoves(row, owned, i, ix.flags, i) /\ LeafMoves(row, sequenced, i, ix.flags, i)
  BY <1>2, <1>3, <1>4, <1>5, Zenon DEF LeafMoves
<1>8. OwnerMoves(row, owned, ix.owner, DelegateOf(ix), i) /\ SameOwner(row, sequenced)
  BY <1>2, <1>3, <1>4, <1>5 DEF OwnerMoves
<1>9. /\ SameBase(row, owned) /\ SameMarks(row, owned)
      /\ SameBase(row, sequenced) /\ SameMarks(row, sequenced)
  BY <1>2, <1>3, <1>4, <1>5, ZenonT(30)
<1> HIDE DEF SameSeq, SameLeaf, SameOwner, SameBase, SameMarks
<1> QED
  BY <1>2, <1>6, <1>7, <1>8, <1>9, Zenon DEF i, ix, leafed, with, owned, sequenced

\* Every handler has the effect its instruction's kind says.
LEMMA HandlerEffects ==
    ASSUME TypeOK, NEW w \in Workers, handle_bubblegum_instruction(w)
    PROVE  HandlerEffect(work[w])
<1> DEFINE i == work[w]
           ix == chain[i]
           a == ix.asset
           old == asset[a]
<1>1. work[w] # Idle /\ Commit(w)
  BY ZenonT(30) DEF handle_bubblegum_instruction, mint, transfer, burn, redeem, cancel_redeem,
         delegation_freezing_nontransferability, LeafOwnerAndSeq, Handling,
         creator_verification, collection_verification, update_metadata
<1>2. i \in 1 .. Len(chain) /\ a \in Assets /\ old \in AssetRow
  BY <1>1, HandledInstruction, ZenonT(30) DEF Instruction, TypeOK
<1>3. Commits(i)
  BY <1>1, <1>2 DEF Commit, Commits, chainVars
<1> DEFINE owned == upsert_asset_with_seq(WithOwner(WithLeaf(old, ix, i), ix, i), i)
           sequenced == upsert_asset_with_seq(WithLeaf(old, ix, i), i)
<1>4. /\ SeqMoves(old, owned, i) /\ LeafMoves(old, owned, i, ix.flags, i)
      /\ OwnerMoves(old, owned, ix.owner, DelegateOf(ix), i)
      /\ SameBase(old, owned) /\ SameMarks(old, owned)
      /\ SeqMoves(old, sequenced, i) /\ LeafMoves(old, sequenced, i, ix.flags, i)
      /\ SameOwner(old, sequenced)
      /\ SameBase(old, sequenced) /\ SameMarks(old, sequenced)
  BY <1>1, <1>2, ComposedUpserts, ZenonT(30)
<1> SUFFICES AssetEffect(old, asset'[a], ix, i) /\ OtherEffect(a, ix, i)
                /\ \A b \in Assets : b # a => SameRows(b)
  BY <1>3, ZenonT(30) DEF HandlerEffect
<1> USE DEF AssetEffect, OtherEffect, SameRows, Handling, LeafKinds, OwnerKinds, DataKinds,
            CreatorKinds, CollectionKinds, Kinds, LeafWritten, FlagsWritten
<1>5. CASE \E kind \in {"transfer", "delegate", "cancel_redeem"} : LeafOwnerAndSeq(w, kind)
  <2>1. /\ ix.kind \in {"transfer", "delegate", "cancel_redeem"}
        /\ asset' = [asset EXCEPT ![a] = owned]
        /\ UNCHANGED <<asset_data, asset_creators, asset_authority, asset_grouping>>
    BY <1>5, ZenonT(30) DEF LeafOwnerAndSeq
  <2>2. asset'[a] = owned /\ \A b \in Assets : b # a => asset'[b] = asset[b]
    BY <2>1, <1>2, ZenonT(30) DEF TypeOK
  <2> HIDE DEF owned, sequenced, old, ix, i
  <2> QED
    BY <1>4, <2>1, <2>2, ZenonT(30) DEF SameMarks
<1>6. CASE burn(w)
  <2> DEFINE marked == upsert_burnt(old)
             new == upsert_asset_with_seq(marked, i)
  <2>1. /\ ix.kind = "burn"
        /\ asset' = [asset EXCEPT ![a] = new]
        /\ UNCHANGED <<asset_data, asset_creators, asset_authority, asset_grouping>>
    BY <1>6, ZenonT(30) DEF burn
  <2>2. asset'[a] = new /\ \A b \in Assets : b # a => asset'[b] = asset[b]
    BY <2>1, <1>2, Zenon DEF TypeOK
  <2>3. marked \in AssetRow
    BY <1>2, ZenonT(30) DEF upsert_burnt, AssetRow
  <2>4. /\ SameSeq(old, marked) /\ SameLeaf(old, marked) /\ SameOwner(old, marked)
        /\ SameBase(old, marked) /\ marked.burnt = TRUE
        /\ marked.compressed = old.compressed
    BY <1>2, ZenonT(30) DEF upsert_burnt, AssetRow, SameSeq, SameLeaf, SameOwner, SameBase
  <2>5. /\ SeqMoves(marked, new, i) /\ SameLeaf(marked, new)
        /\ SameOwner(marked, new) /\ SameBase(marked, new) /\ SameMarks(marked, new)
    BY <2>3, AssetUpsertEffects, ZenonT(30)
  <2> HIDE DEF marked, new, old, ix, i
  <2> QED
    BY <2>1, <2>2, <2>4, <2>5, Zenon
    DEF SeqMoves, SameSeq, SameLeaf, SameOwner, SameBase, SameMarks
<1>7. CASE redeem(w)
  <2> DEFINE zeroed == upsert_asset_with_leaf_info(old, ZeroLeaf, NULL, i)
             new == upsert_asset_with_seq(zeroed, i)
  <2>1. /\ ix.kind = "redeem"
        /\ asset' = [asset EXCEPT ![a] = new]
        /\ UNCHANGED <<asset_data, asset_creators, asset_authority, asset_grouping>>
    BY <1>7, ZenonT(30) DEF redeem
  <2>2. asset'[a] = new /\ \A b \in Assets : b # a => asset'[b] = asset[b]
    BY <2>1, <1>2, Zenon DEF TypeOK
  <2>3. zeroed \in AssetRow
    BY <1>1, <1>2, HandlerRowsTyped, ZenonT(30)
  <2>4. /\ LeafMoves(old, zeroed, ZeroLeaf, NULL, i) /\ SameSeq(old, zeroed)
        /\ SameOwner(old, zeroed) /\ SameBase(old, zeroed) /\ SameMarks(old, zeroed)
    BY <1>2, AssetUpsertEffects, ZenonT(30)
  <2>5. /\ SeqMoves(zeroed, new, i) /\ SameLeaf(zeroed, new)
        /\ SameOwner(zeroed, new) /\ SameBase(zeroed, new) /\ SameMarks(zeroed, new)
    BY <2>3, AssetUpsertEffects, Zenon
  <2> HIDE DEF zeroed, new, old, ix, i
  <2> QED
    BY <2>1, <2>2, <2>4, <2>5, ZenonT(30)
    DEF SeqMoves, LeafMoves, SameSeq, SameLeaf, SameOwner, SameBase, SameMarks
<1>8. CASE creator_verification(w)
  <2>1. /\ ix.kind = "creator_verification"
        /\ asset' = [asset EXCEPT ![a] = owned]
        /\ asset_creators' = [asset_creators EXCEPT ![a] =
               upsert_asset_creators(@, UpdatedCreators(ix.args), ix.slot, i)]
        /\ UNCHANGED <<asset_data, asset_authority, asset_grouping>>
    BY <1>8, ZenonT(30) DEF creator_verification
  <2>2. asset'[a] = owned /\ \A b \in Assets : b # a => asset'[b] = asset[b]
    BY <2>1, <1>2, Zenon DEF TypeOK
  <2>3. /\ asset_creators'[a] =
               upsert_asset_creators(asset_creators[a], CreatorsWritten(ix), ix.slot, i)
        /\ \A b \in Assets : b # a => asset_creators'[b] = asset_creators[b]
    BY <2>1, <1>2, ZenonT(30) DEF TypeOK, CreatorsWritten
  <2> HIDE DEF owned, sequenced, old, ix, i
  <2> QED
    BY <1>4, <2>1, <2>2, <2>3, ZenonT(30) DEF SameMarks
<1>9. CASE collection_verification(w)
  <2>1. /\ ix.kind = "collection_verification"
        /\ asset' = [asset EXCEPT ![a] = sequenced]
        /\ asset_grouping' = [asset_grouping EXCEPT ![a] =
               upsert_collection_info(@, CollectionOf(ix.args), i)]
        /\ UNCHANGED <<asset_data, asset_authority, asset_creators>>
    BY <1>9, ZenonT(30) DEF collection_verification
  <2>2. asset'[a] = sequenced /\ \A b \in Assets : b # a => asset'[b] = asset[b]
    BY <2>1, <1>2, ZenonT(30) DEF TypeOK
  <2>3. /\ asset_grouping'[a] =
               upsert_collection_info(asset_grouping[a], CollectionWritten(ix), i)
        /\ \A b \in Assets : b # a => asset_grouping'[b] = asset_grouping[b]
    BY <2>1, <1>2, ZenonT(30) DEF TypeOK, CollectionWritten
  <2> HIDE DEF owned, sequenced, old, ix, i
  <2> QED
    BY <1>4, <2>1, <2>2, <2>3, ZenonT(30) DEF SameMarks
<1>10. CASE mint(w)
  <2> DEFINE based == upsert_asset_base_info(old, ix.args.data, i)
             marked == upsert_asset_with_compression_info(based, TRUE)
             new == upsert_asset_with_seq(WithOwner(WithLeaf(marked, ix, i), ix, i), i)
  <2>1. /\ ix.kind = "mint"
        /\ asset' = [asset EXCEPT ![a] = new]
        /\ asset_data' = [asset_data EXCEPT ![a] = upsert_asset_data(@, ix.args.data, i)]
        /\ asset_creators' = [asset_creators EXCEPT ![a] =
               upsert_asset_creators(@, ix.args.creators, ix.slot, i)]
        /\ asset_grouping' = [asset_grouping EXCEPT ![a] =
               upsert_collection_info(@, ix.args.collection, i)]
        /\ asset_authority' = [asset_authority EXCEPT ![a] =
               upsert_asset_authority(@, TreeAuthority)]
    BY <1>10, ZenonT(30) DEF mint
  <2>2. asset'[a] = new /\ \A b \in Assets : b # a => asset'[b] = asset[b]
    BY <2>1, <1>2, ZenonT(30) DEF TypeOK
  <2>3. /\ asset_creators'[a] =
               upsert_asset_creators(asset_creators[a], CreatorsWritten(ix), ix.slot, i)
        /\ \A b \in Assets : b # a => asset_creators'[b] = asset_creators[b]
    BY <2>1, <1>2, ZenonT(30) DEF TypeOK, CreatorsWritten
  <2>4. /\ asset_grouping'[a] =
               upsert_collection_info(asset_grouping[a], CollectionWritten(ix), i)
        /\ \A b \in Assets : b # a => asset_grouping'[b] = asset_grouping[b]
    BY <2>1, <1>2, ZenonT(30) DEF TypeOK, CollectionWritten
  <2>5. /\ DataOf(ix) = ix.args.data
        /\ asset_data'[a] = upsert_asset_data(asset_data[a], DataOf(ix), i)
        /\ \A b \in Assets : b # a => asset_data'[b] = asset_data[b]
    BY <2>1, <1>2, ZenonT(30) DEF TypeOK, DataOf
  <2>12. /\ asset_authority'[a] = upsert_asset_authority(asset_authority[a], TreeAuthority)
         /\ \A b \in Assets : b # a => asset_authority'[b] = asset_authority[b]
    BY <2>1, <1>2, ZenonT(30) DEF TypeOK
  <2>6. /\ BaseMoves(old, based, ix.args.data, i) /\ SameSeq(old, based)
        /\ SameLeaf(old, based) /\ SameOwner(old, based) /\ SameMarks(old, based)
    BY <1>2, AssetUpsertEffects, ZenonT(30)
  <2>7. based \in AssetRow /\ marked \in AssetRow
    <3>1. ix.args.data \in Optional(DataSet) /\ i \in 1 .. MaxSeq
      BY <1>1, HandledInstruction DEF Instruction, Args
    <3> QED
      BY <1>2, <3>1, AssetUpsertsTyped, ZenonT(30)
  <2>8. /\ SameSeq(based, marked) /\ SameLeaf(based, marked) /\ SameOwner(based, marked)
        /\ SameBase(based, marked)
        /\ marked.compressed = TRUE /\ marked.burnt = based.burnt
    <3>1. based.seq # 0
      BY <2>7, AssetUpsertEffects, Zenon
    <3> HIDE DEF based
    <3> QED
      BY <2>7, <3>1 DEF upsert_asset_with_compression_info, NotDecompressed, AssetRow,
                        SameSeq, SameLeaf, SameOwner, SameBase
  <2>9. /\ SeqMoves(marked, new, i) /\ LeafMoves(marked, new, i, ix.flags, i)
        /\ OwnerMoves(marked, new, ix.owner, DelegateOf(ix), i)
        /\ SameBase(marked, new) /\ SameMarks(marked, new)
    BY <1>1, <2>7, ComposedUpserts, ZenonT(30)
  <2> HIDE DEF based, marked, new, old, ix, i
  <2>10. /\ SeqMoves(old, new, i) /\ LeafMoves(old, new, i, ix.flags, i)
         /\ OwnerMoves(old, new, ix.owner, DelegateOf(ix), i)
    BY <2>6, <2>8, <2>9, ZenonT(30)
    DEF SeqMoves, LeafMoves, OwnerMoves, SameSeq, SameLeaf, SameOwner
  <2>11. /\ BaseMoves(old, new, DataOf(ix), i)
         /\ new.compressed = TRUE /\ new.burnt = old.burnt
    BY <2>5, <2>6, <2>8, <2>9, ZenonT(30) DEF BaseMoves, SameBase, SameMarks
  <2> QED
    BY <2>1, <2>2, <2>3, <2>4, <2>5, <2>10, <2>11, <2>12, ZenonT(30)
<1>11. CASE update_metadata(w)
  <2> DEFINE based == upsert_asset_base_info(old, UpdatedData(ix.args), i)
             new == upsert_asset_with_seq(WithLeaf(based, ix, i), i)
  <2>1. /\ ix.kind = "update_metadata"
        /\ asset' = [asset EXCEPT ![a] = new]
        /\ asset_data' = [asset_data EXCEPT ![a] =
               upsert_asset_data(@, UpdatedData(ix.args), i)]
        /\ asset_creators' = [asset_creators EXCEPT ![a] =
               upsert_asset_creators(@, CreatorsAfterUpdate(ix.args), ix.slot, i)]
        /\ UNCHANGED <<asset_grouping, asset_authority>>
    BY <1>11, ZenonT(30) DEF update_metadata
  <2>2. asset'[a] = new /\ \A b \in Assets : b # a => asset'[b] = asset[b]
    BY <2>1, <1>2, Zenon DEF TypeOK
  <2>3. /\ asset_creators'[a] =
               upsert_asset_creators(asset_creators[a], CreatorsWritten(ix), ix.slot, i)
        /\ \A b \in Assets : b # a => asset_creators'[b] = asset_creators[b]
    BY <2>1, <1>2, ZenonT(30) DEF TypeOK, CreatorsWritten
  <2>4. /\ DataOf(ix) = UpdatedData(ix.args)
        /\ asset_data'[a] = upsert_asset_data(asset_data[a], DataOf(ix), i)
        /\ \A b \in Assets : b # a => asset_data'[b] = asset_data[b]
    BY <2>1, <1>2, ZenonT(30) DEF TypeOK, DataOf
  <2>5. /\ BaseMoves(old, based, UpdatedData(ix.args), i) /\ SameSeq(old, based)
        /\ SameLeaf(old, based) /\ SameOwner(old, based) /\ SameMarks(old, based)
    BY <1>2, AssetUpsertEffects, ZenonT(30)
  <2>6. based \in AssetRow
    <3>1. UpdatedData(ix.args) \in Optional(DataSet) /\ i \in 1 .. MaxSeq
      BY <1>1, HandledInstruction, DerivedTyped
    <3> QED
      BY <1>2, <3>1, AssetUpsertsTyped, Zenon
  <2>7. /\ SeqMoves(based, new, i) /\ LeafMoves(based, new, i, ix.flags, i)
        /\ SameOwner(based, new) /\ SameBase(based, new) /\ SameMarks(based, new)
    BY <1>1, <2>6, ComposedUpserts, Zenon
  <2> HIDE DEF based, new, old, ix, i
  <2>8. /\ SeqMoves(old, new, i) /\ LeafMoves(old, new, i, ix.flags, i)
        /\ SameOwner(old, new)
    BY <2>5, <2>7, ZenonT(30) DEF SeqMoves, LeafMoves, SameSeq, SameLeaf, SameOwner
  <2>9. BaseMoves(old, new, DataOf(ix), i) /\ SameMarks(old, new)
    BY <2>4, <2>5, <2>7 DEF BaseMoves, SameBase, SameMarks
  <2> QED
    BY <2>1, <2>2, <2>3, <2>4, <2>8, <2>9, ZenonT(30) DEF SameMarks
<1>12. \/ \E kind \in {"transfer", "delegate", "cancel_redeem"} : LeafOwnerAndSeq(w, kind)
       \/ mint(w) \/ burn(w) \/ redeem(w) \/ creator_verification(w)
       \/ collection_verification(w) \/ update_metadata(w)
  BY DEF handle_bubblegum_instruction, transfer, cancel_redeem,
         delegation_freezing_nontransferability
<1> QED
  BY <1>5, <1>6, <1>7, <1>8, <1>9, <1>10, <1>11, <1>12, ZenonT(30)

-----------------------------------------------------------------------------
(* Last writer wins.  LatestWins is inductive together with type           *)
(* correctness: a guarded sequence column moves exactly as the highest     *)
(* element of the applied set does.                                        *)

\* A sequence column that moves when its group is written, and stays otherwise,
\* stays the highest applied sequence number of the group.
LEMMA LatestColumn ==
    ASSUME TypeOK, NEW i, Commits(i), NEW a, NEW kinds, NEW col, NEW new,
           Latest(col, Applied(a, kinds)),
           IF chain[i].asset = a /\ chain[i].kind \in kinds
           THEN new = IF NotOlder(i, col) THEN i ELSE col
           ELSE new = col
    PROVE  Latest(new, Applied(a, kinds)')
<1>1. i \in Nat
  BY DEF Commits
<1>2. CASE chain[i].asset = a /\ chain[i].kind \in kinds
  <2>1. Applied(a, kinds)' = Applied(a, kinds) \cup {i} /\ Applied(a, kinds) \in SUBSET Nat
    BY <1>2, AppliedMoves
  <2> QED
    BY <1>1, <1>2, <2>1, LatestMoves
<1>3. CASE ~(chain[i].asset = a /\ chain[i].kind \in kinds)
  BY <1>3, AppliedMoves
<1> QED
  BY <1>2, <1>3

\* The invariant the proof carries, and what a commit does to each of its groups.
Inv == TypeOK /\ CarriesCollection /\ LatestWins

\* After a commit each group of the asset row holds its latest writer.
LEMMA CommitKeepsAssetGroups ==
    ASSUME Inv, NEW i, HandlerEffect(i), NEW a \in Assets
    PROVE  LatestSeq(a)' /\ LatestLeaf(a)' /\ LatestOwner(a)' /\ Marked(a)'
<1> DEFINE ix == chain[i]
           old == asset[a]
           new == asset'[a]
           mine == ix.asset = a
<1>1. TypeOK /\ Commits(i) /\ i \in 1 .. Len(chain) /\ i # NULL
          /\ chain' = chain
  BY NullAssumption DEF Inv, HandlerEffect, Commits
<1>2. /\ mine => AssetEffect(old, new, ix, i)
      /\ ~mine => new = old
  BY DEF HandlerEffect, SameRows
<1>3. ix.kind \in Kinds
  <2>1. chain \in Seq(Instruction)
    BY <1>1 DEF TypeOK
  <2>2. ix \in Instruction
    BY <1>1, <2>1
  <2> QED
    BY <2>2 DEF Instruction
<1>4. LatestSeq(a)'
  <2>1. IF mine /\ ix.kind \in Kinds
        THEN new.seq = IF NotOlder(i, old.seq) THEN i ELSE old.seq
        ELSE new.seq = old.seq
    BY <1>2, <1>3, Zenon DEF AssetEffect, SeqMoves, SameSeq
  <2>2. Latest(old.seq, Applied(a, Kinds))
    BY Zenon DEF Inv, LatestWins, LatestSeq
  <2>3. Latest(new.seq, Applied(a, Kinds)')
    BY <1>1, <2>1, <2>2, LatestColumn
  <2> QED
    BY <2>3 DEF LatestSeq, Latest
<1>5. LatestLeaf(a)'
  <2>1. IF mine /\ ix.kind \in LeafKinds
        THEN LeafMoves(old, new, LeafWritten(ix, i), FlagsWritten(ix), i)
        ELSE SameLeaf(old, new)
    BY <1>2, Zenon DEF AssetEffect, SameLeaf
  <2>2. Latest(old.leaf_seq, Applied(a, LeafKinds))
    BY Zenon DEF Inv, LatestWins, LatestLeaf
  <2>3. Latest(new.leaf_seq, Applied(a, LeafKinds)')
    <3>1. IF mine /\ ix.kind \in LeafKinds
          THEN new.leaf_seq = IF NotOlder(i, old.leaf_seq) THEN i ELSE old.leaf_seq
          ELSE new.leaf_seq = old.leaf_seq
      BY <2>1, Zenon DEF LeafMoves, SameLeaf
    <3> QED
      BY <1>1, <2>2, <3>1, LatestColumn, Zenon
  <2>4. old.leaf_seq # NULL =>
           IF chain[old.leaf_seq].kind = "redeem"
           THEN old.leaf = ZeroLeaf /\ ~old.frozen
           ELSE old.leaf = old.leaf_seq /\ old.frozen = (chain[old.leaf_seq].flags = TRUE)
    BY Zenon DEF Inv, LatestWins, LatestLeaf
  <2>5. CASE SameLeaf(old, new)
    BY <1>1, <2>3, <2>4, <2>5, Zenon DEF SameLeaf, LatestLeaf, Latest
  <2>6. CASE new.leaf = LeafWritten(ix, i) /\ new.frozen = (FlagsWritten(ix) = TRUE)
                /\ new.leaf_seq = i
    <3>1. IF ix.kind = "redeem"
          THEN new.leaf = ZeroLeaf /\ ~new.frozen
          ELSE new.leaf = i /\ new.frozen = (ix.flags = TRUE)
      BY <2>6, NullAssumption, Zenon DEF LeafWritten, FlagsWritten
    <3> QED
      BY <1>1, <2>3, <2>6, <3>1 DEF LatestLeaf, Latest
  <2> QED
    BY <2>1, <2>5, <2>6, Zenon DEF LeafMoves
<1>6. LatestOwner(a)'
  <2>1. IF mine /\ ix.kind \in OwnerKinds
        THEN OwnerMoves(old, new, ix.owner, DelegateOf(ix), i)
        ELSE SameOwner(old, new)
    BY <1>2, Zenon DEF AssetEffect, SameOwner
  <2>2. Latest(old.owner_delegate_seq, Applied(a, OwnerKinds))
    BY Zenon DEF Inv, LatestWins, LatestOwner
  <2>3. Latest(new.owner_delegate_seq, Applied(a, OwnerKinds)')
    <3>1. IF mine /\ ix.kind \in OwnerKinds
          THEN new.owner_delegate_seq =
                   IF NotOlder(i, old.owner_delegate_seq) THEN i ELSE old.owner_delegate_seq
          ELSE new.owner_delegate_seq = old.owner_delegate_seq
      BY <2>1, Zenon DEF OwnerMoves, SameOwner
    <3> QED
      BY <1>1, <2>2, <3>1, LatestColumn, Zenon
  <2>4. old.owner_delegate_seq # NULL =>
           /\ old.owner = chain[old.owner_delegate_seq].owner
           /\ old.delegate = DelegateOf(chain[old.owner_delegate_seq])
    BY Zenon DEF Inv, LatestWins, LatestOwner
  <2> QED
    BY <1>1, <2>1, <2>3, <2>4
    DEF OwnerMoves, SameOwner, LatestOwner, Latest, DelegateOf
<1>7. /\ Applied(a, {"burn"})' # {} <=> (mine /\ ix.kind = "burn") \/ Applied(a, {"burn"}) # {}
      /\ Applied(a, {"mint"})' # {} <=> (mine /\ ix.kind = "mint") \/ Applied(a, {"mint"}) # {}
  <2>1. ASSUME NEW k \in {"burn", "mint"}
        PROVE  Applied(a, {k})' # {} <=> (mine /\ ix.kind = k) \/ Applied(a, {k}) # {}
    <3>1. /\ mine /\ ix.kind \in {k} => Applied(a, {k})' = Applied(a, {k}) \cup {i}
          /\ ~(mine /\ ix.kind \in {k}) => Applied(a, {k})' = Applied(a, {k})
      BY <1>1, AppliedMoves
    <3> QED
      BY <3>1, Zenon
  <2> QED
    BY <2>1, Zenon
<1>8. (asset[a].burnt <=> (Applied(a, {"burn"}) # {}))'
  <2>1. old.burnt <=> Applied(a, {"burn"}) # {}
    BY DEF Inv, LatestWins, Marked
  <2>2. new.burnt <=> (mine /\ ix.kind = "burn") \/ old.burnt
    BY <1>2, Zenon DEF AssetEffect
  <2> QED
    BY <1>7, <2>1, <2>2, Zenon
<1>9. (asset[a].compressed <=> (Applied(a, {"mint"}) # {}))'
  <2>1. old.compressed <=> Applied(a, {"mint"}) # {}
    BY DEF Inv, LatestWins, Marked
  <2>2. new.compressed <=> (mine /\ ix.kind = "mint") \/ old.compressed
    BY <1>2, Zenon DEF AssetEffect
  <2> QED
    BY <1>7, <2>1, <2>2, Zenon
<1>10. (asset_authority[a] = IF Applied(a, {"mint"}) = {} THEN NULL ELSE TreeAuthority)'
  <2>1. asset_authority[a] = IF Applied(a, {"mint"}) = {} THEN NULL ELSE TreeAuthority
    BY Zenon DEF Inv, LatestWins, Marked
  <2>2. asset_authority'[a] = IF mine /\ ix.kind = "mint"
                              THEN upsert_asset_authority(asset_authority[a], TreeAuthority)
                              ELSE asset_authority[a]
    BY Zenon DEF HandlerEffect, OtherEffect, SameRows
  <2> QED
    BY <1>7, <2>1, <2>2, Zenon DEF upsert_asset_authority
<1> QED
  BY <1>4, <1>5, <1>6, <1>8, <1>9, <1>10, Zenon DEF Marked

\* After a commit asset_data holds its latest writer.
LEMMA CommitKeepsData ==
    ASSUME Inv, NEW i, HandlerEffect(i), NEW a \in Assets
    PROVE  LatestData(a)'
<1> DEFINE ix == chain[i]
           old == asset[a]
           new == asset'[a]
           data == asset_data[a]
           newData == asset_data'[a]
           written == ix.asset = a /\ ix.kind \in DataKinds
<1>1. TypeOK /\ Commits(i) /\ i \in 1 .. Len(chain) /\ i # NULL /\ chain' = chain
  BY NullAssumption DEF Inv, HandlerEffect, Commits
<1>2. /\ Latest(old.base_info_seq, Applied(a, DataKinds))
      /\ data.base_info_seq = old.base_info_seq
      /\ old.base_info_seq # NULL =>
            /\ old.royalty = DataOf(chain[old.base_info_seq])
            /\ data.chain_data = DataOf(chain[old.base_info_seq])
  BY ZenonT(30) DEF Inv, LatestWins, LatestData
<1>3. /\ written => BaseMoves(old, new, DataOf(ix), i)
                       /\ newData = upsert_asset_data(data, DataOf(ix), i)
      /\ ~written => SameBase(old, new) /\ newData = data
  BY Zenon DEF HandlerEffect, SameRows, AssetEffect, OtherEffect, SameBase
<1>4. old.base_info_seq # 0 /\ data \in DataRow
  <2>1. old \in AssetRow /\ data \in DataRow
    BY <1>1, Zenon DEF TypeOK
  <2> QED
    BY <2>1, NullAssumption, BoundsAssumption DEF AssetRow, Seqs, Optional
<1>5. Latest(new.base_info_seq, Applied(a, DataKinds)')
  <2>1. IF written
        THEN new.base_info_seq = IF NotOlder(i, old.base_info_seq) THEN i ELSE old.base_info_seq
        ELSE new.base_info_seq = old.base_info_seq
    BY <1>3, Zenon DEF BaseMoves, SameBase
  <2> QED
    BY <1>1, <1>2, <2>1, LatestColumn, Zenon
<1>6. CASE written /\ NotOlder(i, old.base_info_seq)
  <2>1. new.royalty = DataOf(ix) /\ new.base_info_seq = i
    BY <1>3, <1>6 DEF BaseMoves
  <2>2. newData.chain_data = DataOf(ix) /\ newData.base_info_seq = i
    BY <1>2, <1>3, <1>4, <1>6, Zenon
    DEF upsert_asset_data, NotZeroAndNotOlder, NotOlder, DataRow
  <2> QED
    BY <1>1, <1>5, <2>1, <2>2, Zenon DEF LatestData, Latest, DataOf
<1>7. CASE ~(written /\ NotOlder(i, old.base_info_seq))
  <2>1. SameBase(old, new)
    BY <1>3, <1>7 DEF BaseMoves
  <2>2. newData = data
    BY <1>2, <1>3, <1>4, <1>7 DEF upsert_asset_data, NotZeroAndNotOlder, NotOlder
  <2> QED
    BY <1>1, <1>2, <1>5, <2>1, <2>2, Zenon DEF LatestData, Latest, DataOf, SameBase
<1> QED
  BY <1>6, <1>7, Zenon

\* After a commit asset_grouping holds its latest writer.
LEMMA CommitKeepsCollection ==
    ASSUME Inv, NEW i, HandlerEffect(i), NEW a \in Assets
    PROVE  LatestCollection(a)'
<1> DEFINE ix == chain[i]
           old == asset_grouping[a]
           new == asset_grouping'[a]
           c == CollectionWritten(ix)
           written == ix.asset = a /\ ix.kind \in CollectionKinds
<1>1. TypeOK /\ Commits(i) /\ i \in 1 .. Len(chain) /\ i # NULL /\ chain' = chain
  BY NullAssumption DEF Inv, HandlerEffect, Commits
<1>2. /\ Latest(old.group_info_seq, Applied(a, CollectionKinds))
      /\ old.group_info_seq # NULL =>
            LET d == CollectionWritten(chain[old.group_info_seq])
            IN  IF d = NULL THEN old.group_value = NULL /\ ~old.verified
                ELSE old.group_value = d.key /\ old.verified = d.verified
  BY ZenonT(30) DEF Inv, LatestWins, LatestCollection
<1>3. new = IF written THEN upsert_collection_info(old, c, i) ELSE old
  BY Zenon DEF HandlerEffect, SameRows, OtherEffect
<1>4. old.group_info_seq # 0
  <2>1. old \in GroupRow
    BY <1>1 DEF TypeOK
  <2> QED
    BY <2>1, NullAssumption, BoundsAssumption DEF GroupRow, Seqs, Optional
<1>5. CASE written /\ NotOlder(i, old.group_info_seq)
  <2>1. new = [group_value    |-> IF c = NULL THEN NULL ELSE c.key,
               verified       |-> IF c = NULL THEN FALSE ELSE c.verified,
               group_info_seq |-> i]
    BY <1>3, <1>4, <1>5, Zenon DEF upsert_collection_info, NotZeroAndNotOlder, NotOlder
  <2>2. Latest(i, Applied(a, CollectionKinds)')
    BY <1>1, <1>2, <1>5, LatestColumn, Zenon
  <2>3. new.group_info_seq = i
          /\ IF c = NULL THEN new.group_value = NULL /\ ~new.verified
             ELSE new.group_value = c.key /\ new.verified = c.verified
    BY <2>1
  <2>4. CollectionWritten(ix)' = c
    BY <1>1, ZenonT(30) DEF CollectionWritten, CollectionOf
  <2> HIDE DEF new, c
  <2> QED
    BY <1>1, <2>2, <2>3, <2>4, Zenon DEF LatestCollection, Latest, new, c, CollectionWritten
<1>6. CASE ~(written /\ NotOlder(i, old.group_info_seq))
  <2>1. new = old
    BY <1>3, <1>4, <1>6, Zenon DEF upsert_collection_info, NotZeroAndNotOlder, NotOlder
  <2>2. Latest(old.group_info_seq, Applied(a, CollectionKinds)')
    BY <1>1, <1>2, <1>6, LatestColumn, Zenon
  <2> QED
    BY <1>1, <1>2, <2>1, <2>2, Zenon
    DEF LatestCollection, Latest, CollectionWritten, CollectionOf
<1> QED
  BY <1>5, <1>6, Zenon

\* After a commit each row of asset_creators holds the latest writer of its position.
LEMMA CommitKeepsCreator ==
    ASSUME Inv, NEW i, HandlerEffect(i), NEW a \in Assets, NEW p \in Positions
    PROVE  LatestCreator(a, p)'
<1> DEFINE ix == chain[i]
           old == asset_creators[a][p]
           new == asset_creators'[a][p]
           Reaches(j) == p < Len(CreatorRows(CreatorsWritten(chain[j])))
           S == {j \in Applied(a, CreatorKinds) : Reaches(j)}
           T == {j \in Applied(a, CreatorKinds)' : Reaches(j)}
           c == CreatorRows(CreatorsWritten(ix))[p + 1]
           row == [creator |-> c.address, verified |-> c.verified,
                   slot_updated |-> ix.slot, seq |-> i]
           written == ix.asset = a /\ ix.kind \in CreatorKinds /\ Reaches(i)
<1>1. TypeOK /\ Commits(i) /\ i \in Nat /\ i # NULL /\ chain' = chain
  BY NullAssumption, SMTT(30) DEF Inv, HandlerEffect, Commits
<1>2. /\ Latest(old.seq, S)
      /\ old.seq # NULL =>
            LET d == CreatorRows(CreatorsWritten(chain[old.seq]))[p + 1]
            IN  /\ old.creator = d.address /\ old.verified = d.verified
                /\ old.slot_updated = chain[old.seq].slot
  BY ZenonT(30) DEF Inv, LatestWins, LatestCreator
<1>3. old.seq # 0
  <2>1. old \in CreatorRow
    BY <1>1, Zenon DEF TypeOK
  <2> QED
    BY <2>1, NullAssumption, BoundsAssumption DEF CreatorRow, Seqs, Optional
<1>4. new = IF written /\ NotOlder(i, old.seq) THEN row ELSE old
  <2>1. CASE ix.asset = a /\ ix.kind \in CreatorKinds
    <3>1. asset_creators'[a] = upsert_asset_creators(asset_creators[a], CreatorsWritten(ix),
                                                     ix.slot, i)
      BY <2>1, ZenonT(30) DEF HandlerEffect, OtherEffect
    <3> QED
      BY <1>3, <2>1, <3>1, ZenonT(30) DEF upsert_asset_creators, NotZeroAndNotOlder, NotOlder
  <2>2. CASE ~(ix.asset = a /\ ix.kind \in CreatorKinds)
    BY <2>2, Zenon DEF HandlerEffect, OtherEffect, SameRows
  <2> QED
    BY <2>1, <2>2
<1>5. S \in SUBSET Nat /\ T = IF written THEN S \cup {i} ELSE S
  <2> HIDE DEF Reaches
  <2>1. Applied(a, CreatorKinds) \in SUBSET Nat
    BY <1>1, AppliedMoves
  <2>2. CASE ix.asset = a /\ ix.kind \in CreatorKinds
    <3>1. Applied(a, CreatorKinds)' = Applied(a, CreatorKinds) \cup {i}
      BY <1>1, <2>2, AppliedMoves
    <3> HIDE DEF Applied
    <3> QED
      BY <2>1, <2>2, <3>1
  <2>3. CASE ~(ix.asset = a /\ ix.kind \in CreatorKinds)
    <3>1. Applied(a, CreatorKinds)' = Applied(a, CreatorKinds)
      BY <1>1, <2>3, AppliedMoves
    <3> QED
      BY <2>1, <2>3, <3>1
  <2> QED
    BY <2>2, <2>3
<1>6. LatestCreator(a, p)' <=>
          /\ Latest(new.seq, T)
          /\ new.seq # NULL =>
                LET d == CreatorRows(CreatorsWritten(chain[new.seq]))[p + 1]
                IN  /\ new.creator = d.address /\ new.verified = d.verified
                    /\ new.slot_updated = chain[new.seq].slot
  BY <1>1 DEF LatestCreator, Latest, CreatorsWritten, CreatorRows, UpdatedCreators,
              CreatorsAfterUpdate
<1>7. CASE written /\ NotOlder(i, old.seq)
  <2>1. new = row
    BY <1>4, <1>7, Zenon
  <2>2. /\ new.seq = i /\ new.creator = c.address /\ new.verified = c.verified
        /\ new.slot_updated = ix.slot
    <3> HIDE DEF Reaches, S, T, c, written
    <3> QED
      BY <2>1
  <2>3. Latest(i, T)
    <3> HIDE DEF S, T, written
    <3> QED
      BY <1>1, <1>2, <1>5, <1>7, LatestMoves, Zenon
  <2> HIDE DEF new, S, T
  <2> QED
    BY <1>6, <2>2, <2>3, Zenon
<1>8. CASE ~(written /\ NotOlder(i, old.seq))
  <2>1. new = old
    BY <1>4, <1>8, ZenonT(30)
  <2>2. Latest(old.seq, T)
    <3> HIDE DEF S, T, written
    <3> QED
      BY <1>1, <1>2, <1>5, <1>8, LatestMoves, Zenon
  <2> HIDE DEF new, old, S, T
  <2> QED
    BY <1>2, <1>6, <2>1, <2>2
<1> QED
  BY <1>7, <1>8, Zenon

\* A chain step only adds an instruction that nobody has applied yet.
LEMMA ChainExtends ==
    ASSUME Inv, NEW a \in Assets, Chain(a)
    PROVE  /\ UNCHANGED <<logged, applied, work, tables>>
           /\ \A i \in applied : chain'[i] = chain[i]
<1>1. \E kind, post, args : Emit(a, kind, post, args)
  BY Zenon DEF Chain, ChainMint, ChainTransfer, ChainDelegate, ChainBurn, ChainRedeem,
     ChainCancelRedeem, ChainCreatorVerification, ChainCollectionVerification,
     ChainUpdateMetadata
<1>2. UNCHANGED <<logged, applied, work, tables>> /\ \E ix : chain' = Append(chain, ix)
  BY <1>1 DEF Emit
<1>3. applied \subseteq 1 .. Len(chain) /\ chain \in Seq(Instruction)
  BY Zenon DEF Inv, TypeOK
<1> QED
  BY <1>2, <1>3

\* The invariant only looks at the tables and at the applied part of the history.
LEMMA HistoryKeepsLatest ==
    ASSUME Inv, UNCHANGED <<applied, tables>>, \A i \in applied : chain'[i] = chain[i]
    PROVE  LatestWins'
<1>1. UNCHANGED <<applied, tables>>
  OBVIOUS
<1>2. \A i \in applied : chain'[i] = chain[i]
  OBVIOUS
<1>3. \A b, kinds : Applied(b, kinds)' = Applied(b, kinds)
  BY <1>1, <1>2 DEF Applied
<1>4. \A b, kinds, col : Latest(col, Applied(b, kinds)) /\ col # NULL => chain'[col] = chain[col]
  BY <1>2, Zenon DEF Latest, Applied
<1> SUFFICES ASSUME NEW b \in Assets
             PROVE  /\ LatestSeq(b)' /\ LatestLeaf(b)' /\ LatestOwner(b)'
                    /\ LatestData(b)' /\ LatestCollection(b)'
                    /\ \A p \in Positions : LatestCreator(b, p)'
                    /\ Marked(b)'
  BY Zenon DEF LatestWins
<1>5. /\ LatestSeq(b) /\ LatestLeaf(b) /\ LatestOwner(b)
      /\ LatestData(b) /\ LatestCollection(b)
      /\ \A p \in Positions : LatestCreator(b, p)
      /\ Marked(b)
  BY DEF Inv, LatestWins
<1>6. /\ asset' = asset /\ asset_data' = asset_data /\ asset_grouping' = asset_grouping
      /\ asset_creators' = asset_creators /\ asset_authority' = asset_authority
  BY <1>1, ZenonT(30) DEF tables
<1>7. LatestSeq(b)' /\ LatestLeaf(b)' /\ LatestOwner(b)'
  <2>1. LatestSeq(b)'
    BY <1>3, <1>5, <1>6, ZenonT(30) DEF LatestSeq, Latest
  <2>2. LatestLeaf(b)'
    <3> DEFINE seq == asset[b].leaf_seq
    <3>1. seq # NULL => chain'[seq] = chain[seq]
      BY <1>4, <1>5, ZenonT(30) DEF LatestLeaf
    <3> QED
      BY <1>3, <1>5, <1>6, <3>1, ZenonT(30) DEF LatestLeaf, Latest
  <2>3. LatestOwner(b)'
    <3> DEFINE seq == asset[b].owner_delegate_seq
    <3>1. seq # NULL => chain'[seq] = chain[seq]
      BY <1>4, <1>5, ZenonT(30) DEF LatestOwner
    <3> QED
      BY <1>3, <1>5, <1>6, <3>1, ZenonT(30) DEF LatestOwner, Latest, DelegateOf
  <2> QED
    BY <2>1, <2>2, <2>3
<1>8. LatestData(b)'
  BY <1>3, <1>4, <1>5, <1>6, ZenonT(30) DEF LatestData, Latest, DataOf, UpdatedData
<1>9. LatestCollection(b)'
  <2> DEFINE row == asset_grouping[b]
             seq == row.group_info_seq
  <2>1. /\ Latest(seq, Applied(b, CollectionKinds))
        /\ seq # NULL =>
              LET d == CollectionWritten(chain[seq])
              IN  IF d = NULL THEN row.group_value = NULL /\ ~row.verified
                  ELSE row.group_value = d.key /\ row.verified = d.verified
    BY <1>5, Zenon DEF LatestCollection
  <2>2. seq # NULL => chain'[seq] = chain[seq]
    BY <1>4, <2>1, ZenonT(30)
  <2>3. LatestCollection(b)' <=>
           /\ Latest(seq, Applied(b, CollectionKinds)')
           /\ seq # NULL =>
                 LET d == CollectionWritten(chain'[seq])
                 IN  IF d = NULL THEN row.group_value = NULL /\ ~row.verified
                     ELSE row.group_value = d.key /\ row.verified = d.verified
    BY <1>6, ZenonT(30) DEF LatestCollection, Latest, CollectionWritten, CollectionOf
  <2> QED
    BY <1>3, <2>1, <2>2, <2>3, ZenonT(30)
<1>10. ASSUME NEW p \in Positions
       PROVE  LatestCreator(b, p)'
  <2> DEFINE row == asset_creators[b][p]
             Reaches(j) == p < Len(CreatorRows(CreatorsWritten(chain[j])))
             S == {j \in Applied(b, CreatorKinds) : Reaches(j)}
             ReachesNow(j) == p < Len(CreatorRows(CreatorsWritten(chain'[j])))
             T == {j \in Applied(b, CreatorKinds)' : ReachesNow(j)}
  <2>1. T = S
    <3>1. \A j \in Applied(b, CreatorKinds) : chain'[j] = chain[j]
      BY <1>2 DEF Applied
    <3>2. \A j \in Applied(b, CreatorKinds) : ReachesNow(j) <=> Reaches(j)
      BY <3>1
    <3>3. T = {j \in Applied(b, CreatorKinds) : ReachesNow(j)}
      BY <1>3, ZenonT(30)
    <3> HIDE DEF Reaches, ReachesNow
    <3> QED
      BY <3>2, <3>3
  <2>2. /\ Latest(row.seq, S)
        /\ row.seq # NULL =>
              LET d == CreatorRows(CreatorsWritten(chain[row.seq]))[p + 1]
              IN  /\ row.creator = d.address /\ row.verified = d.verified
                  /\ row.slot_updated = chain[row.seq].slot
    BY <1>5, Zenon DEF LatestCreator
  <2>3. LatestCreator(b, p)' <=>
          /\ Latest(row.seq, T)
          /\ row.seq # NULL =>
                LET d == CreatorRows(CreatorsWritten(chain'[row.seq]))[p + 1]
                IN  /\ row.creator = d.address /\ row.verified = d.verified
                    /\ row.slot_updated = chain'[row.seq].slot
    BY <1>6, ZenonT(30) DEF LatestCreator, Latest, CreatorsWritten, CreatorRows, UpdatedCreators,
                CreatorsAfterUpdate
  <2>4. row.seq # NULL => chain'[row.seq] = chain[row.seq]
    BY <1>2, <2>2, ZenonT(30) DEF Latest, Applied
  <2> HIDE DEF S, T
  <2> QED
    BY <2>1, <2>2, <2>3, <2>4, Zenon
<1>11. Marked(b)'
  BY <1>3, <1>5, <1>6 DEF Marked
<1> QED
  BY <1>7, <1>8, <1>9, <1>10, <1>11

\* Every step keeps the invariant.
LEMMA InvStep ==
    ASSUME Inv, [Next]_vars
    PROVE  Inv'
<1>1. TypeOK' /\ CarriesCollection'
  BY TypeStep DEF Inv
<1>2. CASE UNCHANGED <<chain, applied, tables>>
  BY <1>1, <1>2, HistoryKeepsLatest DEF Inv
<1>3. ASSUME NEW a \in Assets, Chain(a)
      PROVE  Inv'
  BY <1>1, <1>3, ChainExtends, HistoryKeepsLatest DEF Inv
<1>4. ASSUME NEW w \in Workers, handle_bubblegum_instruction(w)
      PROVE  Inv'
  <2>1. HandlerEffect(work[w])
    BY <1>4, HandlerEffects DEF Inv
  <2>2. \A a \in Assets : LatestSeq(a)' /\ LatestLeaf(a)' /\ LatestOwner(a)' /\ Marked(a)'
    BY <2>1, CommitKeepsAssetGroups
  <2>3. \A a \in Assets : LatestData(a)' /\ LatestCollection(a)'
    BY <2>1, CommitKeepsData, CommitKeepsCollection
  <2>4. \A a \in Assets, p \in Positions : LatestCreator(a, p)'
    BY <2>1, CommitKeepsCreator
  <2> QED
    BY <1>1, <2>2, <2>3, <2>4 DEF Inv, LatestWins
<1>5. ASSUME NEW w \in Workers, SaveChangelogEvent(w) \/ Abort(w)
      PROVE  UNCHANGED <<chain, applied, tables>>
  BY <1>5 DEF SaveChangelogEvent, Abort, chainVars
<1>6. UNCHANGED vars => UNCHANGED <<chain, applied, tables>>
  BY DEF vars, chainVars
<1> QED
  BY <1>2, <1>3, <1>4, <1>5, <1>6 DEF Next

\* The invariant holds of empty tables.
LEMMA InvInit ==
    ASSUME Init PROVE Inv
<1>1. TypeOK /\ CarriesCollection
  BY TypeInit
<1>2. \A a, kinds : Applied(a, kinds) = {}
  BY DEF Init, Applied
<1> SUFFICES ASSUME NEW a \in Assets
             PROVE  /\ LatestSeq(a) /\ LatestLeaf(a) /\ LatestOwner(a) /\ LatestData(a)
                    /\ LatestCollection(a) /\ Marked(a)
                    /\ \A p \in Positions : LatestCreator(a, p)
  BY <1>1 DEF Inv, LatestWins
<1>3. /\ asset[a] = NoAsset /\ asset_data[a] = NoData /\ asset_grouping[a] = NoGroup
      /\ asset_authority[a] = NULL
      /\ \A p \in Positions : asset_creators[a][p] = NoCreator
  BY ZenonT(30) DEF Init
<1>4. LatestSeq(a) /\ LatestLeaf(a) /\ LatestOwner(a) /\ Marked(a)
  <2>1. /\ asset[a].seq = NULL /\ asset[a].leaf_seq = NULL
        /\ asset[a].owner_delegate_seq = NULL
        /\ asset[a].burnt = FALSE /\ asset[a].compressed = FALSE
    BY <1>3 DEF NoAsset
  <2> QED
    BY <1>2, <1>3, <2>1, ZenonT(30) DEF LatestSeq, LatestLeaf, LatestOwner, Marked, Latest
<1>5. LatestData(a) /\ LatestCollection(a)
  <2>1. /\ asset[a].base_info_seq = NULL /\ asset_data[a].base_info_seq = NULL
        /\ asset_grouping[a].group_info_seq = NULL
    BY <1>3 DEF NoAsset, NoData, NoGroup
  <2> QED
    BY <1>2, <2>1, ZenonT(30) DEF LatestData, LatestCollection, Latest
<1>6. ASSUME NEW p \in Positions PROVE LatestCreator(a, p)
  <2>1. asset_creators[a][p].seq = NULL
    BY <1>3 DEF NoCreator
  <2>2. Applied(a, CreatorKinds) = {}
    BY <1>2, Zenon
  <2>3. {i \in Applied(a, CreatorKinds) :
            p < Len(CreatorRows(CreatorsWritten(chain[i])))} = {}
    BY <2>2, Zenon
  <2> QED
    BY <2>1, <2>3, Zenon DEF LatestCreator, Latest
<1> QED
  BY <1>4, <1>5, <1>6

\* However instructions are reordered, repeated and interleaved, every group of
\* columns holds what the highest-numbered applied instruction wrote to it.
THEOREM LatestWinsHolds == Spec => []LatestWins
<1>1. Init => Inv
  BY InvInit
<1>2. Inv /\ [Next]_vars => Inv'
  BY InvStep
<1>3. Inv => LatestWins
  BY ZenonT(30) DEF Inv
<1> QED
  BY <1>1, <1>2, <1>3, PTL DEF Spec

(***************************************************************************)
(* The change log of an instruction is saved before its transaction.       *)
(***************************************************************************)

LoggedFirst ==
    /\ applied \subseteq logged
    /\ \A w \in Workers : work[w] # Idle => work[w] \in logged

\* Every step keeps the change logs ahead of the handlers.
LEMMA LoggedStep ==
    ASSUME Inv, LoggedFirst, [Next]_vars
    PROVE  LoggedFirst'
<1> USE DEF LoggedFirst
<1>1. CASE UNCHANGED vars
  BY <1>1 DEF vars
<1>2. ASSUME NEW a \in Assets, Chain(a)
      PROVE  UNCHANGED <<logged, applied, work>>
  BY <1>2, ChainExtends
<1>3. ASSUME NEW w \in Workers, SaveChangelogEvent(w)
      PROVE  LoggedFirst'
  BY <1>3 DEF SaveChangelogEvent, Inv, TypeOK
<1>4. ASSUME NEW w \in Workers, Abort(w)
      PROVE  LoggedFirst'
  BY <1>4 DEF Abort, Inv, TypeOK
<1>5. ASSUME NEW w \in Workers, handle_bubblegum_instruction(w)
      PROVE  LoggedFirst'
  <2>1. work[w] # Idle /\ Commit(w)
    BY <1>5, Zenon
    DEF handle_bubblegum_instruction, mint, transfer, burn, redeem, cancel_redeem,
        delegation_freezing_nontransferability, LeafOwnerAndSeq, Handling,
        creator_verification, collection_verification, update_metadata
  <2> QED
    BY <2>1, Zenon DEF Commit, Inv, TypeOK
<1> QED
  BY <1>1, <1>2, <1>3, <1>4, <1>5, Zenon DEF Next

\* No asset row is ever ahead of the saved change logs.
THEOREM ChangelogFirstHolds == Spec => []ChangelogFirst
<1>1. Init => Inv /\ LoggedFirst
  BY InvInit DEF Init, LoggedFirst, Idle
<1>2. Inv /\ [Next]_vars => Inv'
  BY InvStep
<1>3. Inv /\ LoggedFirst /\ [Next]_vars
        => LoggedFirst'
  BY LoggedStep, Zenon
<1>4. Inv /\ LoggedFirst => ChangelogFirst
  BY DEF Inv, LatestWins, LatestSeq, Latest, Applied, ChangelogFirst, LoggedFirst
<1> QED
  BY <1>1, <1>2, <1>3, <1>4, PTL DEF Spec

-----------------------------------------------------------------------------
(* Redelivery.  A group whose latest writer is past instruction i refuses  *)
(* i; a group whose latest writer is i already holds what i writes.        *)

\* An applied instruction that passes the guard of a group is its latest writer.
LEMMA ReappliedColumn ==
    ASSUME TypeOK, NEW i \in applied, NEW kinds, NEW col, chain[i].kind \in kinds,
           Latest(col, Applied(chain[i].asset, kinds)), NotOlder(i, col)
    PROVE  col = i
<1>0. applied \subseteq Nat
  BY DEF TypeOK
<1>1. /\ i \in Applied(chain[i].asset, kinds)
      /\ Applied(chain[i].asset, kinds) \subseteq Nat
  BY <1>0, Zenon DEF Applied
<1>2. col \in Nat /\ i <= col /\ i \in Nat
  BY <1>1, Zenon DEF Latest
<1> QED
  BY <1>2, NullAssumption DEF NotOlder

\* If every group that would take instruction i already holds what i writes, the row stays.
LEMMA SameAsset ==
    ASSUME NEW i, NEW ix, NEW old \in AssetRow, NEW new \in AssetRow,
           AssetEffect(old, new, ix, i),
           NotOlder(i, old.seq) => old.seq = i,
           ix.kind \in LeafKinds /\ NotOlder(i, old.leaf_seq) =>
               /\ old.leaf_seq = i
               /\ IF ix.kind = "redeem" THEN old.leaf = ZeroLeaf /\ ~old.frozen
                  ELSE old.leaf = i /\ old.frozen = (ix.flags = TRUE),
           ix.kind \in OwnerKinds /\ NotOlder(i, old.owner_delegate_seq) =>
               old.owner_delegate_seq = i /\ old.owner = ix.owner /\ old.delegate = DelegateOf(ix),
           ix.kind \in DataKinds /\ NotOlder(i, old.base_info_seq) =>
               old.base_info_seq = i /\ old.royalty = DataOf(ix),
           ix.kind = "burn" => old.burnt,
           ix.kind = "mint" => old.compressed
    PROVE  new = old
<1>1. new.seq = old.seq
  BY Zenon DEF AssetEffect, SeqMoves, SameSeq
<1>2. SameLeaf(old, new)
  <2>1. CASE ix.kind \notin LeafKinds
    BY <2>1, Zenon DEF AssetEffect
  <2>2. CASE ix.kind \in LeafKinds
    <3>1. LeafMoves(old, new, LeafWritten(ix, i), FlagsWritten(ix), i)
      BY <2>2, Zenon DEF AssetEffect
    <3>2. old.frozen \in BOOLEAN /\ new.frozen \in BOOLEAN
      BY DEF AssetRow
    <3> QED
      BY <2>2, <3>1, <3>2, NullAssumption, Zenon
      DEF LeafMoves, LeafWritten, FlagsWritten, SameLeaf
  <2> QED
    BY <2>1, <2>2, Zenon
<1>3. SameOwner(old, new)
  BY Zenon DEF AssetEffect, OwnerMoves, SameOwner
<1>4. SameBase(old, new)
  BY Zenon DEF AssetEffect, BaseMoves, SameBase
<1>5. new.burnt = old.burnt /\ new.compressed = old.compressed
  <2>1. /\ new.burnt <=> old.burnt
        /\ new.compressed <=> old.compressed
    BY Zenon DEF AssetEffect
  <2>2. old.burnt \in BOOLEAN /\ new.burnt \in BOOLEAN
          /\ old.compressed \in BOOLEAN /\ new.compressed \in BOOLEAN
    BY Zenon DEF AssetRow
  <2> QED
    BY <2>1, <2>2
<1> QED
  BY <1>1, <1>2, <1>3, <1>4, <1>5 DEF SameLeaf, SameOwner, SameBase, AssetRow

\* Applied again, an instruction leaves the asset row as it is.
LEMMA ReappliedAsset ==
    ASSUME Inv, TypeOK', NEW i \in applied, HandlerEffect(i)
    PROVE  asset' = asset
<1> DEFINE ix == chain[i]
           a == ix.asset
           old == asset[a]
           new == asset'[a]
<1>1. TypeOK /\ ix \in Instruction /\ i # NULL
  <2>1. applied \subseteq 1 .. Len(chain) /\ chain \in Seq(Instruction)
    BY Zenon DEF Inv, TypeOK
  <2> QED
    BY <2>1, NullAssumption DEF Inv
<1>2. a \in Assets /\ ix.kind \in Kinds
  BY <1>1, Zenon DEF Instruction
<1>3. old \in AssetRow /\ new \in AssetRow
  BY <1>1, <1>2, Zenon DEF TypeOK
<1>4. AssetEffect(old, new, ix, i)
  BY DEF HandlerEffect
<1>5. LatestSeq(a) /\ LatestLeaf(a) /\ LatestOwner(a) /\ LatestData(a) /\ Marked(a)
  BY <1>2, Zenon DEF Inv, LatestWins
<1>6. NotOlder(i, old.seq) => old.seq = i
  <2>1. Latest(old.seq, Applied(a, Kinds))
    BY <1>5, Zenon DEF LatestSeq
  <2> QED
    BY <1>1, <1>2, <2>1, ReappliedColumn
<1>7. ix.kind \in LeafKinds /\ NotOlder(i, old.leaf_seq) =>
        /\ old.leaf_seq = i
        /\ IF ix.kind = "redeem" THEN old.leaf = ZeroLeaf /\ ~old.frozen
           ELSE old.leaf = i /\ old.frozen = (ix.flags = TRUE)
  <2>1. Latest(old.leaf_seq, Applied(a, LeafKinds))
    BY <1>5, Zenon DEF LatestLeaf
  <2>2. ix.kind \in LeafKinds /\ NotOlder(i, old.leaf_seq) => old.leaf_seq = i
    BY <1>1, <2>1, ReappliedColumn
  <2> QED
    BY <1>1, <1>5, <2>2, Zenon DEF LatestLeaf
<1>8. ix.kind \in OwnerKinds /\ NotOlder(i, old.owner_delegate_seq) =>
        old.owner_delegate_seq = i /\ old.owner = ix.owner /\ old.delegate = DelegateOf(ix)
  <2>1. Latest(old.owner_delegate_seq, Applied(a, OwnerKinds))
    BY <1>5, Zenon DEF LatestOwner
  <2>2. ix.kind \in OwnerKinds /\ NotOlder(i, old.owner_delegate_seq)
          => old.owner_delegate_seq = i
    BY <1>1, <2>1, ReappliedColumn
  <2> QED
    BY <1>1, <1>5, <2>2, Zenon DEF LatestOwner
<1>9. ix.kind \in DataKinds /\ NotOlder(i, old.base_info_seq) =>
        old.base_info_seq = i /\ old.royalty = DataOf(ix)
  <2>1. Latest(old.base_info_seq, Applied(a, DataKinds))
    BY <1>5, Zenon DEF LatestData
  <2>2. ix.kind \in DataKinds /\ NotOlder(i, old.base_info_seq) => old.base_info_seq = i
    BY <1>1, <2>1, ReappliedColumn
  <2> QED
    BY <1>1, <1>5, <2>2, Zenon DEF LatestData
<1>10. /\ ix.kind = "burn" => old.burnt
       /\ ix.kind = "mint" => old.compressed
  BY <1>5, ZenonT(30) DEF Marked, Applied
<1>11. new = old
  BY <1>3, <1>4, <1>6, <1>7, <1>8, <1>9, <1>10, SameAsset, Zenon
<1>12. \A b \in Assets : asset'[b] = asset[b]
  BY <1>11, Zenon DEF HandlerEffect, SameRows
<1> QED
  BY <1>1, <1>12 DEF TypeOK

\* Applied again, an instruction leaves the rows of the other tables as they are.
LEMMA ReappliedOthers ==
    ASSUME Inv, TypeOK', NEW i \in applied, HandlerEffect(i)
    PROVE  /\ asset_data' = asset_data /\ asset_grouping' = asset_grouping
           /\ asset_creators' = asset_creators /\ asset_authority' = asset_authority
<1> DEFINE ix == chain[i]
           a == ix.asset
<1>1. TypeOK /\ ix \in Instruction /\ i # NULL /\ i \in Nat
  <2>1. applied \subseteq 1 .. Len(chain) /\ chain \in Seq(Instruction)
    BY DEF Inv, TypeOK
  <2>2. i \in 1 .. Len(chain)
    BY <2>1, Zenon
  <2>3. i \in Nat /\ chain[i] \in Instruction
    BY <2>1, <2>2
  <2>4. i # NULL
    BY <2>3, NullAssumption, Zenon
  <2> QED
    BY <2>3, <2>4, Zenon DEF Inv
<1>2. a \in Assets
  BY <1>1, Zenon DEF Instruction
<1>3. OtherEffect(a, ix, i)
  BY DEF HandlerEffect
<1>4. /\ LatestData(a) /\ LatestCollection(a) /\ Marked(a)
      /\ \A p \in Positions : LatestCreator(a, p)
  BY <1>2 DEF Inv, LatestWins
<1>5. \A b \in Assets : asset_data'[b] = asset_data[b]
  <2> DEFINE row == asset_data[a]
  <2>1. row \in DataRow
    BY <1>1, <1>2, ZenonT(30) DEF TypeOK
  <2>2. CASE ix.kind \in DataKinds
    <3>1. Latest(row.base_info_seq, Applied(a, DataKinds))
      BY <1>4, Zenon DEF LatestData
    <3>2. NotOlder(i, row.base_info_seq) => row.base_info_seq = i
      BY <1>1, <2>2, <3>1, ReappliedColumn, Zenon
    <3>3. row.base_info_seq = i => row.chain_data = DataOf(ix)
      BY <1>1, <1>4 DEF LatestData
    <3>4. upsert_asset_data(row, DataOf(ix), i) = row
      BY <2>1, <3>2, <3>3, ZenonT(30) DEF upsert_asset_data, NotZeroAndNotOlder, NotOlder, DataRow
    <3> QED
      BY <1>3, <3>4, ZenonT(30) DEF OtherEffect, HandlerEffect, SameRows
  <2>3. CASE ix.kind \notin DataKinds
    BY <1>3, <2>3, Zenon DEF OtherEffect, HandlerEffect, SameRows
  <2> QED
    BY <2>2, <2>3
<1>6. \A b \in Assets : asset_grouping'[b] = asset_grouping[b]
  <2> DEFINE row == asset_grouping[a]
             c == CollectionWritten(ix)
  <2>1. row \in GroupRow
    BY <1>1, <1>2, ZenonT(30) DEF TypeOK
  <2>2. CASE ix.kind \in CollectionKinds
    <3>1. Latest(row.group_info_seq, Applied(a, CollectionKinds))
      BY <1>4, Zenon DEF LatestCollection
    <3>2. NotOlder(i, row.group_info_seq) => row.group_info_seq = i
      BY <1>1, <2>2, <3>1, ReappliedColumn, Zenon
    <3>3. row.group_info_seq = i =>
             IF c = NULL THEN row.group_value = NULL /\ ~row.verified
             ELSE row.group_value = c.key /\ row.verified = c.verified
      BY <1>1, <1>4, Zenon DEF LatestCollection
    <3>4. row.verified \in BOOLEAN
            /\ row = [group_value |-> row.group_value, verified |-> row.verified,
                      group_info_seq |-> row.group_info_seq]
      BY <2>1, Zenon DEF GroupRow
    <3> HIDE DEF row, c, ix
    <3>5. row.group_info_seq = i =>
             row = [group_value    |-> IF c = NULL THEN NULL ELSE c.key,
                    verified       |-> IF c = NULL THEN FALSE ELSE c.verified,
                    group_info_seq |-> i]
      <4>1. CASE c = NULL
        BY <3>3, <3>4, <4>1
      <4>2. CASE c # NULL
        BY <3>3, <3>4, <4>2
      <4> QED
        BY <4>1, <4>2, Zenon
    <3>6. upsert_collection_info(row, c, i) = row
      BY <3>2, <3>5, Zenon DEF upsert_collection_info, NotZeroAndNotOlder, NotOlder
    <3> QED
      BY <1>3, <3>6, ZenonT(30) DEF OtherEffect, HandlerEffect, SameRows, row, c, ix
  <2>3. CASE ix.kind \notin CollectionKinds
    BY <1>3, <2>3, Zenon DEF OtherEffect, HandlerEffect, SameRows
  <2> QED
    BY <2>2, <2>3
<1>7. \A b \in Assets : asset_authority'[b] = asset_authority[b]
  <2>1. ix.kind = "mint" => asset_authority[a] = TreeAuthority
    BY <1>4 DEF Marked, Applied
  <2>2. asset_authority'[a] = asset_authority[a]
    BY <1>3, <2>1, Zenon DEF OtherEffect, upsert_asset_authority
  <2> QED
    BY <2>2, Zenon DEF HandlerEffect, SameRows
<1>8. ASSUME NEW p \in Positions
      PROVE  asset_creators'[a][p] = asset_creators[a][p]
  <2> DEFINE row == asset_creators[a][p]
             list == CreatorRows(CreatorsWritten(ix))
             S == {j \in Applied(a, CreatorKinds) :
                      p < Len(CreatorRows(CreatorsWritten(chain[j])))}
  <2>1. row \in CreatorRow
    BY <1>1, <1>2 DEF TypeOK
  <2>2. CASE ix.kind \in CreatorKinds /\ p < Len(list)
    <3>1. Latest(row.seq, S)
      BY <1>4, Zenon DEF LatestCreator
    <3>2. i \in S /\ S \subseteq Nat
      <4>1. applied \subseteq Nat
        BY <1>1 DEF TypeOK
      <4> QED
        BY <2>2, <4>1, Zenon DEF Applied
    <3>3. NotOlder(i, row.seq) => row.seq = i
      <4> HIDE DEF S, row
      <4>1. row.seq \in Nat /\ i <= row.seq
        BY <3>1, <3>2, Zenon DEF Latest
      <4> QED
        BY <1>1, <4>1, NullAssumption DEF NotOlder
    <3>4. row.seq = i => /\ row.creator = list[p + 1].address
                         /\ row.verified = list[p + 1].verified
                         /\ row.slot_updated = ix.slot
      BY <1>1, <1>4, Zenon DEF LatestCreator
    <3>5. row = [creator |-> row.creator, verified |-> row.verified,
                 slot_updated |-> row.slot_updated, seq |-> row.seq]
      BY <2>1, ZenonT(30) DEF CreatorRow
    <3>6. asset_creators'[a][p] =
             IF NotZeroAndNotOlder(i, row.seq)
             THEN [creator |-> list[p + 1].address, verified |-> list[p + 1].verified,
                   slot_updated |-> ix.slot, seq |-> i]
             ELSE row
      BY <1>3, <2>2, Zenon DEF OtherEffect, upsert_asset_creators
    <3> HIDE DEF row, list
    <3>7. asset_creators'[a][p] = row
      BY <3>3, <3>4, <3>5, <3>6, ZenonT(30) DEF NotZeroAndNotOlder, NotOlder
    <3> QED
      BY <3>7, ZenonT(30) DEF row
  <2>3. CASE ~(ix.kind \in CreatorKinds /\ p < Len(list))
    BY <1>3, <2>3, ZenonT(30) DEF OtherEffect, upsert_asset_creators
  <2> QED
    BY <2>2, <2>3, Zenon
<1>9. \A b \in Assets : asset_creators'[b] = asset_creators[b]
  <2>1. asset_creators'[a] = asset_creators[a]
    BY <1>1, <1>2, <1>8 DEF TypeOK
  <2> QED
    BY <2>1, Zenon DEF HandlerEffect, SameRows
<1> QED
  BY <1>1, <1>5, <1>6, <1>7, <1>9 DEF TypeOK

\* A message that is delivered again after it was applied changes no table.
THEOREM RedeliveryHolds == Spec => RedeliveryIsNoOp
<1>1. Init => Inv
  BY InvInit
<1>2. Inv /\ [Next]_vars => Inv'
  BY InvStep, Zenon
<1>3. Inv /\ Inv' /\ [Next]_vars => [applied' = applied => UNCHANGED tables]_vars
  <2> SUFFICES ASSUME Inv, Inv', Next, applied' = applied
               PROVE  UNCHANGED tables
    OBVIOUS
  <2>1. ASSUME NEW w \in Workers, handle_bubblegum_instruction(w)
        PROVE  UNCHANGED tables
    <3>1. HandlerEffect(work[w])
      BY <2>1, HandlerEffects, Zenon DEF Inv
    <3>2. work[w] \in applied
      BY <3>1 DEF HandlerEffect, Commits
    <3> QED
      BY <3>1, <3>2, ReappliedAsset, ReappliedOthers DEF Inv, tables
  <2>2. ASSUME NEW w \in Workers, SaveChangelogEvent(w) \/ Abort(w)
        PROVE  UNCHANGED tables
    BY <2>2 DEF SaveChangelogEvent, Abort
  <2> QED
    BY <2>1, <2>2, ChainExtends DEF Next
<1> QED
  BY <1>1, <1>2, <1>3, PTL DEF Spec, RedeliveryIsNoOp

(***************************************************************************)
(* Catching up.  The state of an asset on chain is what the latest         *)
(* instruction of each group says of it; when every instruction has been   *)
(* applied, the latest of the history is the latest applied.               *)
(***************************************************************************)

\* The instructions of asset a of some kinds in history h, and the last of them.
Concerns(ix, a, kinds) == ix.asset = a /\ ix.kind \in kinds

Of(h, a, kinds) == {i \in DOMAIN h : Concerns(h[i], a, kinds)}

IsLast(i, h, a, kinds) == i \in Of(h, a, kinds) /\ \A j \in Of(h, a, kinds) : j <= i

Unique(creators) ==
    \A p, q \in DOMAIN creators : creators[p].address = creators[q].address => p = q

\* What history h tells of the state now of asset a on chain.
Recorded(h, a, now) ==
    /\ now.status = "none" <=> Of(h, a, {"mint"}) = {}
    /\ now.status = "burnt" <=> Of(h, a, {"burn"}) # {}
    /\ now.status = "redeemed" => now.flags = NULL
    /\ Unique(now.creators)
    /\ \A i : IsLast(i, h, a, OwnerKinds) => h[i].owner = now.owner /\ h[i].delegate = now.delegate
    /\ \A i : IsLast(i, h, a, LeafKinds) =>
          /\ h[i].flags = now.flags
          /\ h[i].kind = "redeem" <=> now.status = "redeemed"
    /\ \A i : IsLast(i, h, a, DataKinds) => DataOf(h[i]) = now.data
    /\ \A i : IsLast(i, h, a, CollectionKinds) => CollectionWritten(h[i]) = now.collection
    /\ \A i : IsLast(i, h, a, CreatorKinds) => CreatorsWritten(h[i]) = now.creators

History == \A a \in Assets : Recorded(chain, a, onchain[a])

\* What an instruction appended to a history adds.
LEMMA Appended ==
    ASSUME NEW h \in Seq(Instruction), NEW ix
    PROVE  /\ Len(h) \in Nat /\ DOMAIN h = 1 .. Len(h)
           /\ DOMAIN Append(h, ix) = 1 .. Len(h) + 1
           /\ Append(h, ix)[Len(h) + 1] = ix
           /\ \A i \in 1 .. Len(h) : Append(h, ix)[i] = h[i]
  OBVIOUS

\* An instruction of a group becomes the last of the group.
LEMMA BecomesLast ==
    ASSUME NEW h \in Seq(Instruction), NEW ix, NEW kinds, ix.kind \in kinds
    PROVE  /\ Of(Append(h, ix), ix.asset, kinds) # {}
           /\ \A i : IsLast(i, Append(h, ix), ix.asset, kinds) => Append(h, ix)[i] = ix
<1> DEFINE n == Len(h) + 1
           new == Append(h, ix)
<1>1. Len(h) \in Nat /\ DOMAIN new = 1 .. n /\ new[n] = ix
  BY Appended
<1> HIDE DEF new
<1>2. /\ n \in Of(new, ix.asset, kinds)
      /\ \A j \in Of(new, ix.asset, kinds) : j <= n /\ j \in Nat
  BY <1>1 DEF Of, Concerns
<1>3. \A i : IsLast(i, new, ix.asset, kinds) => i = n
  BY <1>1, <1>2 DEF IsLast
<1> QED
  BY <1>1, <1>2, <1>3, Zenon DEF new

\* An instruction of another asset or group leaves the last as it was.
LEMMA StaysLast ==
    ASSUME NEW h \in Seq(Instruction), NEW ix, NEW a, NEW kinds,
           ~Concerns(ix, a, kinds)
    PROVE  /\ Of(Append(h, ix), a, kinds) = Of(h, a, kinds)
           /\ \A i : IsLast(i, Append(h, ix), a, kinds) => IsLast(i, h, a, kinds)
<1> DEFINE new == Append(h, ix)
<1>1. /\ Len(h) \in Nat /\ DOMAIN h = 1 .. Len(h) /\ DOMAIN new = 1 .. Len(h) + 1
      /\ new[Len(h) + 1] = ix
      /\ \A i \in 1 .. Len(h) : new[i] = h[i]
  BY Appended
<1> HIDE DEF new
<1>2. Of(new, a, kinds) = Of(h, a, kinds)
  BY <1>1 DEF Of
<1> QED
  BY <1>2 DEF IsLast, new

\* Instruction ix takes an asset from state now to state post, and says so.
Tells(ix, now, post) ==
    /\ post.status # "none"
    /\ now.status = "none" <=> ix.kind = "mint"
    /\ post.status = "burnt" <=> ix.kind = "burn" \/ now.status = "burnt"
    /\ post.status = "redeemed" => post.flags = NULL
    /\ Unique(post.creators)
    /\ ix.owner = post.owner /\ ix.delegate = post.delegate /\ ix.flags = post.flags
    /\ ix.kind \notin OwnerKinds => post.owner = now.owner /\ post.delegate = now.delegate
    /\ ix.kind \in LeafKinds => (ix.kind = "redeem" <=> post.status = "redeemed")
    /\ ix.kind \notin LeafKinds => /\ post.flags = now.flags
                                   /\ post.status = "redeemed" <=> now.status = "redeemed"
    /\ post.data = IF ix.kind \in DataKinds THEN DataOf(ix) ELSE now.data
    /\ post.collection =
          IF ix.kind \in CollectionKinds THEN CollectionWritten(ix) ELSE now.collection
    /\ post.creators = IF ix.kind \in CreatorKinds THEN CreatorsWritten(ix) ELSE now.creators

\* A history extended by an instruction of another asset tells the same of an asset.
LEMMA OthersRecorded ==
    ASSUME NEW h \in Seq(Instruction), NEW ix, NEW a, NEW now, Recorded(h, a, now),
           ix.asset # a
    PROVE  Recorded(Append(h, ix), a, now)
<1> DEFINE new == Append(h, ix)
<1>1. ASSUME NEW kinds
      PROVE  /\ Of(new, a, kinds) = Of(h, a, kinds)
             /\ \A i : IsLast(i, new, a, kinds) => IsLast(i, h, a, kinds)
             /\ \A i : IsLast(i, new, a, kinds) => new[i] = h[i]
  <2>1. ~Concerns(ix, a, kinds)
    BY DEF Concerns
  <2>2. Of(new, a, kinds) = Of(h, a, kinds)
    BY <2>1, StaysLast
  <2>3. \A i : IsLast(i, new, a, kinds) => IsLast(i, h, a, kinds)
    BY <2>1, StaysLast
  <2>4. \A i : IsLast(i, new, a, kinds) => new[i] = h[i]
    <3>1. \A i \in 1 .. Len(h) : new[i] = h[i]
      BY Appended
    <3>2. \A i : IsLast(i, h, a, kinds) => i \in 1 .. Len(h)
      BY DEF IsLast, Of
    <3> HIDE DEF new
    <3> QED
      BY <2>3, <3>1, <3>2, Zenon
  <2> QED
    BY <2>2, <2>3, <2>4, Zenon
<1> HIDE DEF new
<1>2. \A i : IsLast(i, new, a, OwnerKinds) =>
          new[i].owner = now.owner /\ new[i].delegate = now.delegate
  BY <1>1, Zenon DEF Recorded
<1>3. \A i : IsLast(i, new, a, LeafKinds) =>
          new[i].flags = now.flags /\ (new[i].kind = "redeem" <=> now.status = "redeemed")
  BY <1>1, ZenonT(30) DEF Recorded
<1>4. \A i : IsLast(i, new, a, DataKinds) => DataOf(new[i]) = now.data
  BY <1>1, Zenon DEF Recorded
<1>5. \A i : IsLast(i, new, a, CollectionKinds) =>
          CollectionWritten(new[i]) = now.collection
  BY <1>1, Zenon DEF Recorded
<1>6. \A i : IsLast(i, new, a, CreatorKinds) => CreatorsWritten(new[i]) = now.creators
  BY <1>1, Zenon DEF Recorded
<1>7. Of(new, a, {"mint"}) = Of(h, a, {"mint"}) /\ Of(new, a, {"burn"}) = Of(h, a, {"burn"})
  BY <1>1
<1> QED
  BY <1>2, <1>3, <1>4, <1>5, <1>6, <1>7, Zenon DEF Recorded, new

\* An instruction that tells what it does keeps the history true of the chain.
LEMMA TellingIsRecorded ==
    ASSUME NEW h \in Seq(Instruction), NEW ix, NEW now, NEW post,
           Recorded(h, ix.asset, now), Tells(ix, now, post)
    PROVE  Recorded(Append(h, ix), ix.asset, post)
<1> DEFINE a == ix.asset
           new == Append(h, ix)
<1>1. ASSUME NEW kinds, ix.kind \in kinds
      PROVE  Of(new, a, kinds) # {} /\ \A i : IsLast(i, new, a, kinds) => new[i] = ix
  BY <1>1, BecomesLast, Zenon
<1>2. ASSUME NEW kinds, ix.kind \notin kinds
      PROVE  /\ Of(new, a, kinds) = Of(h, a, kinds)
             /\ \A i : IsLast(i, new, a, kinds) => IsLast(i, h, a, kinds)
             /\ \A i : IsLast(i, new, a, kinds) => new[i] = h[i]
  <2>1. ~Concerns(ix, a, kinds)
    BY <1>2 DEF Concerns
  <2>2. Of(new, a, kinds) = Of(h, a, kinds)
    BY <2>1, StaysLast
  <2>3. \A i : IsLast(i, new, a, kinds) => IsLast(i, h, a, kinds)
    BY <2>1, StaysLast
  <2>4. \A i : IsLast(i, new, a, kinds) => new[i] = h[i]
    <3>1. \A i \in 1 .. Len(h) : new[i] = h[i]
      BY Appended
    <3>2. \A i : IsLast(i, h, a, kinds) => i \in 1 .. Len(h)
      BY DEF IsLast, Of
    <3> HIDE DEF new
    <3> QED
      BY <2>3, <3>1, <3>2, Zenon
  <2> QED
    BY <2>2, <2>3, <2>4, Zenon
<1> HIDE DEF new
<1>3. post.status # "none" /\ Of(new, a, {"mint"}) # {}
  BY <1>1, <1>2, Zenon DEF Tells, Recorded
<1>4. post.status = "burnt" <=> Of(new, a, {"burn"}) # {}
  BY <1>1, <1>2, Zenon DEF Tells, Recorded
<1>5. \A i : IsLast(i, new, a, OwnerKinds) =>
          new[i].owner = post.owner /\ new[i].delegate = post.delegate
  <2>1. CASE ix.kind \in OwnerKinds
    BY <1>1, <2>1, Zenon DEF Tells
  <2>2. CASE ix.kind \notin OwnerKinds
    <3>1. \A i : IsLast(i, new, a, OwnerKinds) => IsLast(i, h, a, OwnerKinds) /\ new[i] = h[i]
      BY <1>2, <2>2, Zenon
    <3> QED
      BY <2>2, <3>1, Zenon DEF Tells, Recorded
  <2> QED
    BY <2>1, <2>2
<1>6. \A i : IsLast(i, new, a, LeafKinds) =>
          new[i].flags = post.flags /\ (new[i].kind = "redeem" <=> post.status = "redeemed")
  <2>1. CASE ix.kind \in LeafKinds
    BY <1>1, <2>1, Zenon DEF Tells
  <2>2. CASE ix.kind \notin LeafKinds
    <3>1. \A i : IsLast(i, new, a, LeafKinds) => IsLast(i, h, a, LeafKinds) /\ new[i] = h[i]
      BY <1>2, <2>2
    <3> QED
      BY <2>2, <3>1, Zenon DEF Tells, Recorded
  <2> QED
    BY <2>1, <2>2
<1>7. \A i : IsLast(i, new, a, DataKinds) => DataOf(new[i]) = post.data
  <2>1. CASE ix.kind \in DataKinds
    BY <1>1, <2>1, Zenon DEF Tells
  <2>2. CASE ix.kind \notin DataKinds
    BY <1>2, <2>2, Zenon DEF Tells, Recorded
  <2> QED
    BY <2>1, <2>2
<1>8. \A i : IsLast(i, new, a, CollectionKinds) =>
          CollectionWritten(new[i]) = post.collection
  <2>1. CASE ix.kind \in CollectionKinds
    BY <1>1, <2>1, Zenon DEF Tells
  <2>2. CASE ix.kind \notin CollectionKinds
    BY <1>2, <2>2, ZenonT(30) DEF Tells, Recorded
  <2> QED
    BY <2>1, <2>2
<1>9. \A i : IsLast(i, new, a, CreatorKinds) => CreatorsWritten(new[i]) = post.creators
  <2>1. CASE ix.kind \in CreatorKinds
    BY <1>1, <2>1, Zenon DEF Tells
  <2>2. CASE ix.kind \notin CreatorKinds
    BY <1>2, <2>2, Zenon DEF Tells, Recorded
  <2> QED
    BY <2>1, <2>2
<1> QED
  BY <1>3, <1>4, <1>5, <1>6, <1>7, <1>8, <1>9, Zenon DEF Recorded, Tells, new

\* The fields of the instruction that Emit appends.
Carries(ix, a, kind, post, args) ==
    /\ ix.asset = a /\ ix.kind = kind /\ ix.args = args
    /\ ix.owner = post.owner /\ ix.delegate = post.delegate /\ ix.flags = post.flags

\* An emitted instruction that tells the state it leads to keeps the history in
\* agreement with the state on chain.
LEMMA EmitRecorded ==
    ASSUME TypeOK, History, NEW a \in Assets, NEW kind, NEW post, NEW args,
           Emit(a, kind, post, args),
           \A ix : Carries(ix, a, kind, post, args) => Tells(ix, onchain[a], post)
    PROVE  History'
<1>1. PICK s :
          chain' = Append(chain, [kind |-> kind, asset |-> a, slot |-> s,
                                  owner |-> post.owner, delegate |-> post.delegate,
                                  flags |-> post.flags, args |-> args])
  BY Zenon DEF Emit
<1> DEFINE ix == [kind |-> kind, asset |-> a, slot |-> s, owner |-> post.owner,
                  delegate |-> post.delegate, flags |-> post.flags, args |-> args]
<1>2. Carries(ix, a, kind, post, args)
  BY Zenon DEF Carries
<1>3. chain' = Append(chain, ix) /\ chain \in Seq(Instruction)
  BY <1>1 DEF TypeOK
<1> HIDE DEF ix
<1>4. ix.asset = a /\ Tells(ix, onchain[a], post)
  BY <1>2, Zenon DEF Carries
<1>5. \A b \in Assets : onchain'[b] = IF b = a THEN post ELSE onchain[b]
  BY DEF Emit, TypeOK
<1>6. \A b \in Assets : Recorded(chain, b, onchain[b])
  BY Zenon DEF History
<1>7. Recorded(Append(chain, ix), a, post)
  BY <1>3, <1>4, <1>6, TellingIsRecorded, Zenon
<1>8. ASSUME NEW b \in Assets, b # a
      PROVE  Recorded(Append(chain, ix), b, onchain[b])
  BY <1>3, <1>4, <1>6, <1>8, OthersRecorded, Zenon
<1>9. \A b \in Assets : Recorded(chain', b, onchain'[b])
  BY <1>3, <1>5, <1>7, <1>8, Zenon
<1> QED
  BY <1>9, Zenon DEF History, Recorded, Of, Concerns, IsLast, Unique, DataOf, UpdatedData,
     CollectionWritten, CollectionOf, CreatorsWritten, UpdatedCreators, CreatorsAfterUpdate

\* The creators array with one flag changed is the array the handler derives.
LEMMA OneFlag ==
    ASSUME NEW args, args.creators \in Seq(Creator), Unique(args.creators),
           NEW p \in DOMAIN args.creators, args.creator = args.creators[p].address
    PROVE  /\ UpdatedCreators(args) = [args.creators EXCEPT ![p].verified = args.verify]
           /\ Unique([args.creators EXCEPT ![p].verified = args.verify])
<1> DEFINE l == args.creators
           v == args.verify
           new == [l EXCEPT ![p].verified = v]
<1>1. ASSUME NEW q \in DOMAIN l
      PROVE  /\ new[q] = [l[q] EXCEPT !.verified =
                             IF l[q].address = l[p].address THEN v ELSE l[q].verified]
             /\ new[q].address = l[q].address
  <2>1. l[q] \in Creator /\ (l[q].address = l[p].address <=> q = p)
    BY DEF Unique
  <2>2. CASE q = p
    BY <2>2, <2>1 DEF Creator
  <2>3. CASE q # p
    <3>1. new[q] = l[q]
      BY <2>3
    <3>2. l[q] = [l[q] EXCEPT !.verified = l[q].verified]
      BY <2>1 DEF Creator
    <3> QED
      BY <2>1, <2>3, <3>1, <3>2
  <2> QED
    BY <2>2, <2>3, Zenon
<1>2. DOMAIN new = DOMAIN l
  OBVIOUS
<1>3. UpdatedCreators(args) = new
  <2>1. UpdatedCreators(args) = [q \in DOMAIN l |-> new[q]]
    BY <1>1 DEF UpdatedCreators
  <2> QED
    BY <1>2, <2>1, Zenon
<1>4. Unique(new)
  BY <1>1, <1>2 DEF Unique
<1> QED
  BY <1>3, <1>4

\* Every instruction of the chain tells what it does.
LEMMA ChainRecorded ==
    ASSUME TypeOK, History, NEW a \in Assets, Chain(a)
    PROVE  History'
<1> DEFINE now == onchain[a]
<1>1. /\ now \in OnChain /\ Unique(now.creators)
      /\ now.status = "redeemed" => now.flags = NULL
  BY Zenon DEF TypeOK, History, Recorded
<1> USE DEF OwnerKinds, LeafKinds, DataKinds, CollectionKinds, CreatorKinds, Kinds
<1>2. ASSUME NEW kind \in {"transfer", "delegate", "burn", "redeem", "cancel_redeem"}, NEW post,
             Emit(a, kind, post, NoArgs),
             kind = "cancel_redeem" <=> now.status = "redeemed",
             now.status \in {"live", "redeemed"},
             post.status = CASE kind = "burn" -> "burnt"
                             [] kind = "redeem" -> "redeemed"
                             [] OTHER -> "live",
             kind \in {"redeem", "burn"} => post.flags = now.flags,
             kind = "redeem" => now.flags = NULL,
             kind \in {"burn", "redeem"} => post.owner = now.owner /\ post.delegate = now.delegate,
             post.data = now.data, post.creators = now.creators,
             post.collection = now.collection
      PROVE  History'
  <2>1. ASSUME NEW ix, Carries(ix, a, kind, post, NoArgs)
        PROVE  Tells(ix, now, post)
    <3>1. ix.kind = kind /\ ix.owner = post.owner /\ ix.delegate = post.delegate
              /\ ix.flags = post.flags
      BY <2>1, Zenon DEF Carries
    <3> QED
      BY <1>1, <1>2, <3>1 DEF Tells
  <2> QED
    BY <1>2, <2>1, EmitRecorded
<1>3. CASE ChainMint(a)
  <2>1. PICK o \in Owners, f \in {NULL, FALSE}, d \in DataSet, l \in CreatorLists,
             c \in {NULL} \cup [key : Collections, verified : BOOLEAN] :
          Emit(a, "mint",
               [status |-> "live", owner |-> o, delegate |-> o, flags |-> f,
                data |-> d, creators |-> l, collection |-> c],
               [NoArgs EXCEPT !.data = d, !.creators = l, !.collection = c])
    BY <1>3, Zenon DEF ChainMint
  <2> DEFINE post == [status |-> "live", owner |-> o, delegate |-> o, flags |-> f,
                      data |-> d, creators |-> l, collection |-> c]
             args == [NoArgs EXCEPT !.data = d, !.creators = l, !.collection = c]
  <2>2. /\ post.status = "live" /\ post.data = d /\ post.creators = l /\ post.collection = c
        /\ args.data = d /\ args.creators = l /\ args.collection = c
    BY DEF NoArgs
  <2>3. Unique(l) /\ now.status = "none"
    BY <1>3, ChainAssumption, Zenon DEF Unique, ChainMint
  <2>4. Emit(a, "mint", post, args)
    BY <2>1
  <2> HIDE DEF post, args
  <2>5. ASSUME NEW ix, Carries(ix, a, "mint", post, args)
        PROVE  Tells(ix, now, post)
    <3>1. /\ ix.kind = "mint" /\ ix.args = args
          /\ ix.owner = post.owner /\ ix.delegate = post.delegate /\ ix.flags = post.flags
      BY <2>5 DEF Carries
    <3> QED
      BY <2>2, <2>3, <3>1, Zenon DEF Tells, DataOf, CollectionWritten, CreatorsWritten
  <2> QED
    BY <2>4, <2>5, EmitRecorded
<1>4. CASE ChainTransfer(a)
  <2>1. PICK o \in Owners :
          Emit(a, "transfer", [now EXCEPT !.owner = o, !.delegate = o], NoArgs)
    BY <1>4, Zenon DEF ChainTransfer
  <2> QED
    BY <1>1, <1>2, <1>4, <2>1, Zenon DEF ChainTransfer, Live, OnChain
<1>5. CASE ChainDelegate(a)
  <2>1. PICK d \in Owners \cup {DefaultKey},
             f \in (IF now.flags = NULL THEN {NULL} ELSE BOOLEAN) :
          Emit(a, "delegate", [now EXCEPT !.delegate = d, !.flags = f], NoArgs)
    BY <1>5, Zenon DEF ChainDelegate
  <2> QED
    BY <1>1, <1>2, <1>5, <2>1, Zenon DEF ChainDelegate, Live, OnChain
<1>6. CASE ChainBurn(a)
  BY <1>1, <1>2, <1>6 DEF ChainBurn, Live, OnChain
<1>7. CASE ChainRedeem(a)
  BY <1>1, <1>2, <1>7 DEF ChainRedeem, Live, OnChain
<1>8. CASE ChainCancelRedeem(a)
  BY <1>1, <1>2, <1>8, Zenon DEF ChainCancelRedeem, OnChain
<1>9. CASE ChainCreatorVerification(a)
  <2>1. PICK p \in DOMAIN now.creators, v \in BOOLEAN :
          Emit(a, "creator_verification", [now EXCEPT !.creators[p].verified = v],
               [NoArgs EXCEPT !.creators = now.creators,
                              !.creator = now.creators[p].address, !.verify = v])
    BY <1>9, Zenon DEF ChainCreatorVerification
  <2> DEFINE post == [now EXCEPT !.creators[p].verified = v]
             args == [NoArgs EXCEPT !.creators = now.creators,
                                    !.creator = now.creators[p].address, !.verify = v]
  <2>2. /\ post.status = now.status /\ post.data = now.data
        /\ post.collection = now.collection
        /\ post.creators = [now.creators EXCEPT ![p].verified = v]
    BY <1>1 DEF OnChain
  <2>3. /\ args.creators = now.creators /\ args.creator = now.creators[p].address
        /\ args.verify = v
    BY DEF NoArgs
  <2>4. Emit(a, "creator_verification", post, args) /\ now.status = "live"
    BY <1>9, <2>1 DEF ChainCreatorVerification, Live
  <2> HIDE DEF post, args
  <2>5. UpdatedCreators(args) = post.creators /\ Unique(post.creators)
    <3>1. now.creators \in Seq(Creator)
      BY <1>1 DEF OnChain
    <3> QED
      BY <1>1, <2>2, <2>3, <3>1, OneFlag, SMTT(20)
  <2>6. ASSUME NEW ix, Carries(ix, a, "creator_verification", post, args)
        PROVE  Tells(ix, now, post)
    <3>1. /\ ix.kind = "creator_verification" /\ ix.args = args
          /\ ix.owner = post.owner /\ ix.delegate = post.delegate /\ ix.flags = post.flags
      BY <2>6 DEF Carries
    <3>2. CreatorsWritten(ix) = post.creators
      BY <2>5, <3>1, Zenon DEF CreatorsWritten
    <3> QED
      BY <2>2, <2>4, <2>5, <3>1, <3>2 DEF Tells
  <2> QED
    BY <2>4, <2>6, EmitRecorded
<1>10. CASE ChainCollectionVerification(a)
  <2>1. PICK k \in Collections \cup {ProgramId}, v \in BOOLEAN :
          Emit(a, "collection_verification",
               [now EXCEPT !.collection =
                   IF k = ProgramId THEN NULL ELSE [key |-> k, verified |-> v]],
               [NoArgs EXCEPT !.collection = [key |-> k, verified |-> v]])
    BY <1>10, Zenon DEF ChainCollectionVerification
  <2> DEFINE set == [key |-> k, verified |-> v]
             post == [now EXCEPT !.collection = IF k = ProgramId THEN NULL ELSE set]
             args == [NoArgs EXCEPT !.collection = set]
  <2>2. /\ post.status = now.status /\ post.data = now.data /\ post.creators = now.creators
        /\ post.owner = now.owner /\ post.delegate = now.delegate
        /\ post.collection = IF k = ProgramId THEN NULL ELSE set
        /\ args.collection = set /\ set.key = k
    BY <1>1 DEF OnChain, NoArgs
  <2>3. Emit(a, "collection_verification", post, args) /\ now.status = "live"
    BY <1>10, <2>1 DEF ChainCollectionVerification, Live
  <2> HIDE DEF post, args, set
  <2>4. ASSUME NEW ix, Carries(ix, a, "collection_verification", post, args)
        PROVE  Tells(ix, now, post)
    <3>1. /\ ix.kind = "collection_verification" /\ ix.args = args
          /\ ix.owner = post.owner /\ ix.delegate = post.delegate /\ ix.flags = post.flags
      BY <2>4, Zenon DEF Carries
    <3>2. CollectionWritten(ix) = post.collection
      BY <2>2, <3>1, Zenon DEF CollectionWritten, CollectionOf
    <3> QED
      BY <1>1, <2>2, <2>3, <3>1, <3>2, Zenon DEF Tells
  <2> QED
    BY <2>3, <2>4, EmitRecorded
<1>11. CASE ChainUpdateMetadata(a)
  <2>1. PICK d \in DataSet \cup {NULL}, l \in CreatorLists \cup {NULL} :
          Emit(a, "update_metadata",
               [now EXCEPT !.data = IF d = NULL THEN @ ELSE d,
                           !.creators = IF l = NULL THEN @ ELSE l],
               [NoArgs EXCEPT !.data = now.data, !.creators = now.creators,
                              !.new_data = d, !.new_creators = l])
    BY <1>11, Zenon DEF ChainUpdateMetadata
  <2> DEFINE data == IF d = NULL THEN now.data ELSE d
             creators == IF l = NULL THEN now.creators ELSE l
             post == [now EXCEPT !.data = IF d = NULL THEN @ ELSE d,
                                 !.creators = IF l = NULL THEN @ ELSE l]
             args == [NoArgs EXCEPT !.data = now.data, !.creators = now.creators,
                                    !.new_data = d, !.new_creators = l]
  <2>2. /\ post.status = now.status /\ post.data = data /\ post.creators = creators
        /\ post.owner = now.owner /\ post.delegate = now.delegate
        /\ post.collection = now.collection
    BY <1>1 DEF OnChain
  <2>3. UpdatedData(args) = data /\ CreatorsAfterUpdate(args) = creators
    BY DEF NoArgs, UpdatedData, CreatorsAfterUpdate
  <2>4. Emit(a, "update_metadata", post, args) /\ now.status = "live"
    BY <1>11, <2>1 DEF ChainUpdateMetadata, Live
  <2>5. Unique(creators)
    BY <1>1, ChainAssumption, Zenon DEF Unique
  <2> HIDE DEF post, args, data, creators
  <2>6. ASSUME NEW ix, Carries(ix, a, "update_metadata", post, args)
        PROVE  Tells(ix, now, post)
    <3>1. /\ ix.kind = "update_metadata" /\ ix.args = args
          /\ ix.owner = post.owner /\ ix.delegate = post.delegate /\ ix.flags = post.flags
      BY <2>6 DEF Carries
    <3>2. DataOf(ix) = post.data /\ CreatorsWritten(ix) = post.creators
      BY <2>2, <2>3, <3>1 DEF DataOf, CreatorsWritten
    <3> QED
      BY <2>2, <2>4, <2>5, <3>1, <3>2, Zenon DEF Tells
  <2> QED
    BY <2>4, <2>6, EmitRecorded
<1> QED
  BY <1>3, <1>4, <1>5, <1>6, <1>7, <1>8, <1>9, <1>10, <1>11 DEF Chain

\* No asset is minted at first, and the history is empty.
LEMMA HistoryInit ==
    ASSUME Init PROVE History
<1>1. \A a, kinds : Of(chain, a, kinds) = {}
  BY DEF Init, Of
<1>2. \A a \in Assets : /\ onchain[a].status = "none" /\ onchain[a].creators = << >>
  BY DEF Init, Unminted
<1>3. Unique(<< >>)
  BY DEF Unique
<1> QED
  BY <1>1, <1>2, <1>3, ZenonT(30) DEF History, Recorded, IsLast

\* The history stays in agreement with the state on chain.
LEMMA HistoryStep ==
    ASSUME TypeOK, History, [Next]_vars PROVE History'
<1>1. CASE UNCHANGED chainVars
  <2>1. \A b \in Assets : Recorded(chain', b, onchain'[b])
    BY <1>1, Zenon DEF chainVars, History
  <2> QED
    BY <2>1, Zenon DEF History, Recorded, Of, Concerns, IsLast, Unique, DataOf, UpdatedData,
       CollectionWritten, CollectionOf, CreatorsWritten, UpdatedCreators, CreatorsAfterUpdate
<1>2. ASSUME NEW w \in Workers,
             SaveChangelogEvent(w) \/ handle_bubblegum_instruction(w) \/ Abort(w)
      PROVE  UNCHANGED chainVars
  BY <1>2, Zenon DEF SaveChangelogEvent, Abort, handle_bubblegum_instruction, mint, transfer,
     delegation_freezing_nontransferability, cancel_redeem, LeafOwnerAndSeq, burn, redeem,
     creator_verification, collection_verification, update_metadata, Commit
<1> QED
  BY <1>1, <1>2, ChainRecorded DEF Next, vars

\* With every instruction applied, the latest applied instruction of a group is
\* the last of the history.
LEMMA LatestIsLast ==
    ASSUME TypeOK, applied = 1 .. Len(chain), NEW a, NEW kinds, "mint" \in kinds,
           Of(chain, a, {"mint"}) # {}, NEW seq, Latest(seq, Applied(a, kinds))
    PROVE  IsLast(seq, chain, a, kinds) /\ seq \in Nat /\ seq # NULL
<1>1. applied = DOMAIN chain /\ applied \subseteq Nat
  <2>1. chain \in Seq(Instruction)
    BY Zenon DEF TypeOK
  <2> QED
    BY <2>1
<1>2. Applied(a, kinds) = Of(chain, a, kinds)
  BY <1>1, Zenon DEF Applied, Of, Concerns
<1>3. Of(chain, a, kinds) # {}
  BY Zenon DEF Of, Concerns
<1>4. seq \in Of(chain, a, kinds) /\ \A j \in Of(chain, a, kinds) : j <= seq
  BY <1>2, <1>3 DEF Latest
<1>5. seq \in Nat
  BY <1>1, <1>4, ZenonT(30) DEF Of
<1> QED
  BY <1>4, <1>5, NullAssumption DEF IsLast

\* The rows of asset_creators of an asset whose instructions are all applied.
LEMMA CreatorsCaughtUp ==
    ASSUME Inv, History, applied = 1 .. Len(chain), NEW a \in Assets,
           Of(chain, a, {"mint"}) # {}, NEW p \in Positions
    PROVE  LET rows == asset_creators[a]
               creators == CreatorRows(onchain[a].creators)
           IN  IF p < Len(creators)
               THEN /\ rows[p].creator = creators[p + 1].address
                    /\ rows[p].verified = creators[p + 1].verified
                    /\ rows[p].seq = rows[0].seq
               ELSE rows[p].seq = NULL \/ rows[p].seq < rows[0].seq
<1> DEFINE Written(i) == CreatorRows(CreatorsWritten(chain[i]))
           Reach(q) == {i \in Applied(a, CreatorKinds) : q < Len(Written(i))}
           rows == asset_creators[a]
           creators == CreatorRows(onchain[a].creators)
<1>1. \A q \in Positions :
          /\ Latest(rows[q].seq, Reach(q))
          /\ rows[q].seq # NULL =>
                /\ rows[q].creator = Written(rows[q].seq)[q + 1].address
                /\ rows[q].verified = Written(rows[q].seq)[q + 1].verified
  BY ZenonT(30) DEF Inv, LatestWins, LatestCreator
<1>2. 0 \in Positions /\ p \in Nat
  BY BoundsAssumption DEF Positions
<1>3. Applied(a, CreatorKinds) \subseteq Nat /\ Applied(a, CreatorKinds) \subseteq DOMAIN chain
  BY DEF Inv, TypeOK, Applied
<1>4. ASSUME NEW i \in Applied(a, CreatorKinds)
      PROVE  Len(Written(i)) \in Nat /\ 0 < Len(Written(i))
  <2>1. chain[i] \in Instruction
    BY <1>3 DEF Inv, TypeOK
  <2>2. CreatorsWritten(chain[i]) \in Seq(Creator)
    BY <2>1, DerivedTyped, Zenon DEF CreatorsWritten, Args
  <2>3. ASSUME NEW l \in Seq(Creator)
        PROVE  Len(CreatorRows(l)) \in Nat /\ 0 < Len(CreatorRows(l))
    BY DEF CreatorRows
  <2> QED
    BY <2>2, <2>3, Zenon
<1> HIDE DEF Written
<1>5. Reach(0) = Applied(a, CreatorKinds)
  BY <1>4, Zenon
<1> DEFINE last == rows[0].seq
<1>6. IsLast(last, chain, a, CreatorKinds) /\ last \in Nat /\ last # NULL
  <2>1. Latest(last, Applied(a, CreatorKinds))
    BY <1>1, <1>2, <1>5, Zenon
  <2> QED
    BY <2>1, LatestIsLast DEF Inv, CreatorKinds
<1>7. Written(last) = creators
  BY <1>6, Zenon DEF History, Recorded, Written
<1>8. last \in Applied(a, CreatorKinds) /\ \A i \in Applied(a, CreatorKinds) : i <= last
  BY <1>1, <1>2, <1>5, <1>6, Zenon DEF Latest
<1>9. CASE p < Len(creators)
  <2>1. last \in Reach(p) /\ \A i \in Reach(p) : i <= last
    BY <1>7, <1>8, <1>9
  <2>2. rows[p].seq \in Reach(p) /\ \A i \in Reach(p) : i <= rows[p].seq
    BY <1>1, <2>1, Zenon DEF Latest
  <2>3. rows[p].seq = last
    <3>1. rows[p].seq \in Nat
      BY <1>3, <2>2, Zenon
    <3>2. last <= rows[p].seq /\ rows[p].seq <= last
      BY <2>1, <2>2
    <3> HIDE DEF last, rows, Reach
    <3> QED
      BY <1>6, <3>1, <3>2
  <2>4. /\ rows[p].creator = creators[p + 1].address
        /\ rows[p].verified = creators[p + 1].verified
    <3> HIDE DEF creators, Reach
    <3> QED
      BY <1>1, <1>6, <1>7, <2>3, Zenon
  <2> HIDE DEF last
  <2> QED
    BY <1>9, <2>3, <2>4, Zenon DEF last
<1>10. CASE ~(p < Len(creators))
  <2>1. last \notin Reach(p)
    BY <1>7, <1>10, Zenon
  <2>2. rows[p].seq = NULL \/ rows[p].seq \in Reach(p)
    BY <1>1, Zenon DEF Latest
  <2>3. rows[p].seq \in Reach(p) => rows[p].seq < last
    <3>1. rows[p].seq \in Reach(p) =>
             rows[p].seq \in Nat /\ rows[p].seq <= last /\ rows[p].seq # last
      BY <1>3, <1>8, <2>1, Zenon
    <3> HIDE DEF last, rows, Reach
    <3> QED
      BY <1>6, <3>1
  <2> QED
    BY <1>10, <2>2, <2>3, Zenon
<1> QED
  BY <1>9, <1>10

\* With every instruction applied, the rows of a minted asset hold its state on chain.
LEMMA CaughtUp ==
    ASSUME Inv, History, applied = 1 .. Len(chain), NEW a \in Assets, onchain[a].status # "none"
    PROVE  MatchesChain(a)
<1> DEFINE now == onchain[a]
           row == asset[a]
           group == asset_grouping[a]
<1>1. TypeOK /\ Recorded(chain, a, now) /\ Of(chain, a, {"mint"}) # {}
  BY Zenon DEF Inv, History, Recorded
<1>2. ASSUME NEW kinds, "mint" \in kinds, NEW seq, Latest(seq, Applied(a, kinds))
      PROVE  IsLast(seq, chain, a, kinds) /\ seq # NULL /\ seq \in Nat
  BY <1>1, <1>2, LatestIsLast, Zenon
<1>3. LatestLeaf(a) /\ LatestOwner(a) /\ LatestData(a) /\ LatestCollection(a) /\ Marked(a)
  BY Zenon DEF Inv, LatestWins
<1>4. /\ row.owner = now.owner
      /\ row.delegate = (IF now.delegate \in {now.owner, DefaultKey} THEN NULL ELSE now.delegate)
  <2> DEFINE seq == row.owner_delegate_seq
  <2>1. IsLast(seq, chain, a, OwnerKinds) /\ seq # NULL
    BY <1>2, <1>3 DEF LatestOwner, OwnerKinds
  <2>2. chain[seq].owner = now.owner /\ chain[seq].delegate = now.delegate
    BY <1>1, <2>1, Zenon DEF Recorded
  <2>3. row.owner = chain[seq].owner /\ row.delegate = DelegateOf(chain[seq])
    BY <1>3, <2>1, Zenon DEF LatestOwner
  <2> QED
    BY <2>2, <2>3, ZenonT(30) DEF DelegateOf
<1>5. row.frozen = (now.flags = TRUE) /\ (row.leaf = ZeroLeaf) = (now.status = "redeemed")
  <2> DEFINE seq == row.leaf_seq
  <2>1. IsLast(seq, chain, a, LeafKinds) /\ seq # NULL /\ seq \in Nat
    BY <1>2, <1>3, Zenon DEF LatestLeaf, LeafKinds, Kinds
  <2>2. /\ chain[seq].flags = now.flags
        /\ chain[seq].kind = "redeem" <=> now.status = "redeemed"
        /\ now.status = "redeemed" => now.flags = NULL
    BY <1>1, <2>1, Zenon DEF Recorded
  <2>3. IF chain[seq].kind = "redeem"
        THEN row.leaf = ZeroLeaf /\ ~row.frozen
        ELSE row.leaf = seq /\ row.frozen = (chain[seq].flags = TRUE)
    BY <1>3, <2>1, Zenon DEF LatestLeaf
  <2>4. row.frozen \in BOOLEAN
    BY <1>1 DEF TypeOK, AssetRow
  <2>5. CASE chain[seq].kind = "redeem"
    <3>1. row.leaf = ZeroLeaf /\ now.status = "redeemed" /\ row.frozen = FALSE
      BY <2>2, <2>3, <2>4, <2>5
    <3>2. now.flags # TRUE
      BY <2>2, <3>1, NullAssumption, Zenon
    <3> QED
      BY <3>1, <3>2, Zenon
  <2>6. CASE chain[seq].kind # "redeem"
    <3>1. row.leaf = seq /\ now.status # "redeemed" /\ row.frozen = (now.flags = TRUE)
      BY <2>2, <2>3, <2>6, Zenon
    <3>2. seq # ZeroLeaf
      BY <2>1, ChainAssumption
    <3> QED
      BY <3>1, <3>2, Zenon
  <2> QED
    BY <2>5, <2>6, Zenon
<1>6. asset_data[a].chain_data = now.data
  <2> DEFINE seq == row.base_info_seq
  <2>1. IsLast(seq, chain, a, DataKinds) /\ seq # NULL
    BY <1>2, <1>3, Zenon DEF LatestData, DataKinds
  <2> QED
    BY <1>1, <1>3, <2>1, Zenon DEF Recorded, LatestData
<1>7. IF now.collection = NULL
      THEN group.group_value = NULL /\ ~group.verified
      ELSE /\ group.group_value = now.collection.key
           /\ group.verified = now.collection.verified
  <2> DEFINE seq == group.group_info_seq
  <2>1. IsLast(seq, chain, a, CollectionKinds) /\ seq # NULL
    BY <1>2, <1>3, Zenon DEF LatestCollection, CollectionKinds
  <2>2. CollectionWritten(chain[seq]) = now.collection
    BY <1>1, <2>1, Zenon DEF Recorded
  <2> QED
    BY <1>3, <2>1, <2>2, Zenon DEF LatestCollection
<1>8. row.burnt = (now.status = "burnt") /\ row.compressed
  <2>1. \A kinds : Applied(a, kinds) = Of(chain, a, kinds)
    <3>1. chain \in Seq(Instruction)
      BY <1>1, Zenon DEF TypeOK
    <3>2. applied = DOMAIN chain
      BY <3>1
    <3> QED
      BY <3>2 DEF Applied, Of, Concerns
  <2>2. row.burnt \in BOOLEAN
    BY <1>1 DEF TypeOK, AssetRow
  <2> QED
    BY <1>1, <1>3, <2>1, <2>2, Zenon DEF Marked, Recorded
<1>9. \A p \in Positions :
          IF p < Len(CreatorRows(now.creators))
          THEN /\ asset_creators[a][p].creator = CreatorRows(now.creators)[p + 1].address
               /\ asset_creators[a][p].verified = CreatorRows(now.creators)[p + 1].verified
               /\ asset_creators[a][p].seq = asset_creators[a][0].seq
          ELSE \/ asset_creators[a][p].seq = NULL
               \/ asset_creators[a][p].seq < asset_creators[a][0].seq
  BY <1>1, CreatorsCaughtUp, Zenon
<1> QED
  BY <1>4, <1>5, <1>6, <1>7, <1>8, <1>9, Zenon DEF MatchesChain

\* Once every instruction of the tree has been handled, in whatever order and
\* however often, the tables hold the state on chain of every minted asset.
THEOREM CaughtUpHolds == Spec => []TablesMatchChain
<1>1. Init => Inv /\ History
  BY InvInit, HistoryInit
<1>2. Inv /\ [Next]_vars => Inv'
  BY InvStep
<1>3. Inv /\ History /\ [Next]_vars => History'
  BY HistoryStep, Zenon DEF Inv
<1>4. Inv /\ History => TablesMatchChain
  BY CaughtUp DEF TablesMatchChain
<1> QED
  BY <1>1, <1>2, <1>3, <1>4, PTL DEF Spec
=============================================================================
