----------------------------- MODULE HandlerProofs -----------------------------
(***************************************************************************)
(* The invariant of AccountIndex, and that every statement of the handlers *)
(* keeps it: it takes rows forward only, and what a handler has stored     *)
(* when it returns stays stored.                                           *)
(***************************************************************************)
EXTENDS AccountIndex, TLAPS

\* Write i is one of account a.
Of(i, a) == i \in DOMAIN writes /\ writes[i].acct = a

\* The account that the metadata of the asset is taken from.
Described == IF kind.extended THEN Mint ELSE Metadata

Accounts == TokenAccounts \cup {Mint, Metadata, Edition, Inscription}
WriteType == [acct : Accounts, slot : Nat, amount : Nat, closed : BOOLEAN]

\* What the programs write: slots do not fall, the supply of a mint is only ever
\* burnt, and editions and inscriptions are made of an asset with metadata.
ChainInv ==
    /\ kind \in Kinds /\ writes \in Seq(WriteType) /\ Len(writes) \in 2 .. MaxWrites
    /\ \A i \in DOMAIN writes : writes[i].slot >= 1
    /\ \A i, k \in DOMAIN writes : i <= k => writes[i].slot <= writes[k].slot
    /\ writes[1].acct = Mint /\ ~writes[1].closed /\ writes[1].amount = kind.supply
    /\ \A i \in DOMAIN writes :
          LET w == writes[i]
          IN  /\ w.acct = Mint => i = 1 \/ w.amount = 0
              /\ w.acct = Metadata => ~w.closed /\ w.amount \in {0, 1} /\ ~kind.extended
              /\ w.acct \in {Edition, Inscription} =>
                    /\ ~w.closed /\ kind.standard = "nft"
                    /\ \E m \in DOMAIN writes : writes[m].acct = Metadata /\ writes[m].amount = 1

\* Rows hold writes of their own accounts.
IsAsset(r) ==
    /\ r \in Asset
    /\ r.ta # 0 => \E t \in TokenAccounts : Of(r.ta, t)
    /\ r.mint # 0 => Of(r.mint, Mint)
    /\ r.md # 0 => Of(r.md, Described)

IsAttachment(r) ==
    /\ r \in Attachment
    /\ r.at = 0 => \E m \in DOMAIN writes : Of(m, Metadata) /\ Amount(m) = 1 /\ Slot(m) = r.slot
    /\ r.at # 0 => Of(r.at, Edition) /\ Slot(r.at) = r.slot

RowsInv ==
    /\ tokens # 0 => Of(tokens, Mint)
    /\ token_accounts \in [TokenAccounts -> Nat]
    /\ \A t \in TokenAccounts : token_accounts[t] # 0 => Of(token_accounts[t], t)
    /\ asset # NULL => IsAsset(asset)
    /\ data # 0 => Of(data, Described)
    /\ edition # NULL => IsAttachment(edition)
    /\ inscription # 0 => Of(inscription, Inscription)
    /\ errors \in 0 .. MaxErrors

\* Write i, or a newer one, has reached a row; a row that is deleted when an
\* account is closed is no matter.
MintStored(i) == Shut(Mint) \/ NotOlder(tokens, i)
AccountStored(i, t) == Shut(t) \/ NotOlder(token_accounts[t], i)
SupplyStored(i) == asset # NULL /\ NotOlder(asset.mint, i)
ColumnsStored(i) == asset # NULL /\ NotOlder(asset.md, i)
DataStored(i) == NotOlder(data, i)
InscriptionStored(i) == NotOlder(inscription, i)
Attached == edition # NULL /\ edition.known
EditionStored(i) ==
    edition # NULL /\ edition.slot >= Slot(i) /\ (edition.at = 0 => edition.slot > Slot(i))

\* The mint has one write, that of a unique token.
NeverBurnt == kind.supply = 1 /\ \A k \in DOMAIN writes : Of(k, Mint) => k = 1
OwnerStored(i) == blind \/ ~NeverBurnt \/ (asset # NULL /\ NotOlder(asset.ta, i))

\* What holds once the message of write i is acknowledged.
Applied(i) ==
    LET w == writes[i]
    IN  ~w.closed =>
          /\ w.acct = Mint =>
                /\ MintStored(i) /\ SupplyStored(i)
                /\ kind.extended => DataStored(i) /\ ColumnsStored(i)
          /\ w.acct \in TokenAccounts => AccountStored(i, w.acct) /\ OwnerStored(i)
          /\ w.acct = Metadata /\ w.amount = 1 =>
                /\ DataStored(i) /\ ColumnsStored(i)
                /\ kind.standard = "nft" => Attached
          /\ w.acct = Edition => EditionStored(i)
          /\ w.acct = Inscription => InscriptionStored(i)

AppliedInv == \A i \in DOMAIN writes \ pending : Applied(i)

\* The statements of the handlers.
AccountSteps == {"token_accounts", "find_mint", "owner"}
MintSteps == {"tokens", "supply", "asset_data", "metadata_cols"}
MetadataSteps == {"fetch_mint", "copy_mint", "fetch_owner", "copy_owner", "save", "attach"}
CloseSteps == {"close", "delete_mint", "set_burnt", "delete_account"}
Steps ==
    AccountSteps \cup MintSteps \cup MetadataSteps \cup CloseSteps
        \cup {"burn", "edition", "inscription"}

Job == [i : Nat, pc : Steps, row : Write_, supply : Nat]

\* A handler is at a statement for the account of its message, what it read is a
\* row of the right account, and its earlier statements have been effective.
JobInv(j) ==
    LET w == writes[j.i]
    IN  /\ w.closed <=> j.pc \in CloseSteps
        /\ j.pc \in {"delete_mint", "set_burnt"} \cup MintSteps => w.acct = Mint
        /\ j.pc \in AccountSteps => w.acct \in TokenAccounts
        /\ j.pc \in MetadataSteps => w.acct = Metadata /\ w.amount = 1
        /\ j.pc = "burn" => w.acct = Metadata /\ w.amount = 0
        /\ j.pc = "edition" => w.acct = Edition
        /\ j.pc = "inscription" => w.acct = Inscription
        /\ j.pc = "copy_mint" => Of(j.row, Mint)
        /\ j.pc = "copy_owner" => \E t \in TokenAccounts : Of(j.row, t)
        /\ j.pc \in {"find_mint", "owner"} => AccountStored(j.i, w.acct)
        /\ j.pc \in MintSteps \ {"tokens"} => MintStored(j.i)
        /\ j.pc \in {"asset_data", "metadata_cols"} => kind.extended /\ SupplyStored(j.i)
        /\ j.pc = "metadata_cols" => DataStored(j.i)
        /\ j.pc = "attach" => kind.standard = "nft" /\ DataStored(j.i) /\ ColumnsStored(j.i)

JobsInv ==
    /\ pending \subseteq DOMAIN writes
    /\ \A j \in jobs : j \in Job /\ j.i \in pending /\ JobInv(j)
    /\ \A j, k \in jobs : j.i = k.i => j = k

Inv == ChainInv /\ RowsInv /\ JobsInv /\ AppliedInv

-----------------------------------------------------------------------------
(* Writes and slots.                                                       *)

\* The domain of the writes and what a write is.
LEMMA Writes ==
    ASSUME ChainInv
    PROVE  /\ Len(writes) \in Nat /\ DOMAIN writes = 1 .. Len(writes) /\ Len(writes) <= MaxWrites
           /\ 1 \in DOMAIN writes /\ MaxWrites \in Nat
           /\ \A i \in DOMAIN writes : /\ writes[i] \in WriteType /\ i \in Write_ /\ i \in Nat /\ i # 0
                                       /\ writes[i].slot \in Nat /\ writes[i].amount \in Nat
                                       /\ writes[i].slot >= 1
<1>1. /\ writes \in Seq(WriteType) /\ Len(writes) \in 2 .. MaxWrites /\ MaxWrites \in Nat
      /\ \A i \in DOMAIN writes : writes[i].slot >= 1
  BY AccountAssumption DEF ChainInv
<1>2. Len(writes) \in Nat /\ DOMAIN writes = 1 .. Len(writes) /\ Len(writes) <= MaxWrites
  BY <1>1
<1>3. \A i \in DOMAIN writes : writes[i] \in WriteType
  BY <1>1
<1>4. \A w \in WriteType : w.slot \in Nat /\ w.amount \in Nat
  BY DEF WriteType
<1> QED
  BY <1>1, <1>2, <1>3, <1>4 DEF Write_

\* Slots of writes, and of no write.
LEMMA Slots ==
    ASSUME ChainInv
    PROVE  /\ Slot(0) = 0 /\ \A i \in DOMAIN writes : Slot(i) = writes[i].slot /\ Slot(i) \in Nat /\ Slot(i) >= 1
           /\ \A i, k \in DOMAIN writes : i <= k => Slot(i) <= Slot(k)
           /\ \A i, a : Of(i, a) => Slot(i) \in Nat
<1>1. \A i \in DOMAIN writes : i # 0 /\ writes[i].slot \in Nat /\ writes[i].slot >= 1
  BY Writes
<1>2. \A i, k \in DOMAIN writes : i <= k => writes[i].slot <= writes[k].slot
  BY DEF ChainInv
<1> QED
  BY <1>1, <1>2 DEF Slot, Of

\* The accounts of an asset differ.
LEMMA Names ==
    /\ Mint # Metadata /\ Mint # Edition /\ Mint # Inscription
    /\ Metadata # Edition /\ Metadata # Inscription /\ Edition # Inscription
    /\ \A t \in TokenAccounts : t \notin {Mint, Metadata, Edition, Inscription}
<1>1. \A t \in TokenAccounts : t \notin {Mint, Metadata, Edition, Inscription}
  BY AccountAssumption
<1> QED
  BY <1>1 DEF Mint, Metadata, Edition, Inscription

-----------------------------------------------------------------------------
(* Steps that take rows forward.                                           *)

\* The chain only grows.
Later ==
    /\ kind' = kind /\ DOMAIN writes \subseteq DOMAIN writes'
    /\ \A i \in DOMAIN writes : writes'[i] = writes[i]

\* A row stays, moves to a write of its account that is not older, or is deleted
\* after the account was closed.
GoodTokens ==
    \/ tokens' = tokens
    \/ Of(tokens', Mint) /\ NotOlder(tokens', tokens)
    \/ tokens' = 0 /\ Shut(Mint)

GoodAccounts ==
    /\ token_accounts' \in [TokenAccounts -> Nat]
    /\ \A t \in TokenAccounts :
          \/ token_accounts'[t] = token_accounts[t]
          \/ Of(token_accounts'[t], t) /\ NotOlder(token_accounts'[t], token_accounts[t])
          \/ token_accounts'[t] = 0 /\ Shut(t)

AssetForward(r) ==
    asset # NULL => NotOlder(r.ta, asset.ta) /\ NotOlder(r.mint, asset.mint) /\ NotOlder(r.md, asset.md)
GoodAsset == asset' = asset \/ (IsAsset(asset') /\ AssetForward(asset'))

GoodData == data' = data \/ (Of(data', Described) /\ NotOlder(data', data))
GoodInscription ==
    inscription' = inscription \/ (Of(inscription', Inscription) /\ NotOlder(inscription', inscription))

EditionForward(r) ==
    edition # NULL => /\ r.slot >= edition.slot /\ (edition.known => r.known)
                      /\ r.at = 0 => edition.at = 0 /\ r.slot = edition.slot
GoodEdition == edition' = edition \/ (IsAttachment(edition') /\ EditionForward(edition'))

Good ==
    /\ GoodTokens /\ GoodAccounts /\ GoodAsset /\ GoodData /\ GoodInscription /\ GoodEdition
    /\ errors' \in 0 .. MaxErrors /\ (blind => blind')

\* What is known of writes stays known.
LEMMA LaterFacts ==
    ASSUME ChainInv, Later
    PROVE  /\ \A i, a : Of(i, a) => i \in DOMAIN writes' /\ writes'[i].acct = a
           /\ Described' = Described
           /\ \A i \in DOMAIN writes : Slot(i)' = Slot(i)
           /\ Slot(0)' = 0
           /\ \A a : Shut(a) => Shut(a)'
           /\ NeverBurnt' => NeverBurnt
<1>1. \A i, a : Of(i, a) => i \in DOMAIN writes' /\ writes'[i].acct = a
  BY DEF Of, Later
<1>2. Described' = Described
  BY DEF Described, Later
<1>3. \A i \in DOMAIN writes : Slot(i)' = Slot(i)
  BY DEF Slot, Later
<1>4. Slot(0)' = 0
  BY DEF Slot
<1>5. \A a : Shut(a) => Shut(a)'
  BY DEF Shut, Later
<1>6. NeverBurnt' => NeverBurnt
  BY DEF NeverBurnt, Of, Later
<1> QED
  BY <1>1, <1>2, <1>3, <1>4, <1>5, <1>6

\* The slots of rows are numbers.
LEMMA RowSlots ==
    ASSUME ChainInv, RowsInv
    PROVE  /\ Slot(tokens) \in Nat /\ \A t \in TokenAccounts : Slot(token_accounts[t]) \in Nat
           /\ \A r : IsAsset(r) => Slot(r.ta) \in Nat /\ Slot(r.mint) \in Nat /\ Slot(r.md) \in Nat
           /\ \A r : IsAttachment(r) => r.slot \in Nat
           /\ Slot(data) \in Nat /\ Slot(inscription) \in Nat
<1>1. Slot(0) = 0 /\ \A i, a : Of(i, a) => Slot(i) \in Nat
  BY Slots
<1>2. \A r : IsAsset(r) => Slot(r.ta) \in Nat /\ Slot(r.mint) \in Nat /\ Slot(r.md) \in Nat
  BY <1>1 DEF IsAsset
<1>3. \A r : IsAttachment(r) => r.slot \in Nat
  BY DEF IsAttachment, Attachment
<1> QED
  BY <1>1, <1>2, <1>3 DEF RowsInv

\* Rows hold writes of their own accounts after a step forward.
LEMMA GoodRows ==
    ASSUME ChainInv, RowsInv, Later, Good
    PROVE  RowsInv'
<1>1. /\ \A i, a : Of(i, a) => i \in DOMAIN writes' /\ writes'[i].acct = a
      /\ Described' = Described
  BY LaterFacts
<1>2. (tokens # 0 => Of(tokens, Mint))'
  <2>1. tokens' # 0 => Of(tokens', Mint)
    BY DEF Good, GoodTokens, RowsInv
  <2> QED
    BY <1>1, <2>1 DEF Of
<1>3. (token_accounts \in [TokenAccounts -> Nat])'
  BY DEF Good, GoodAccounts
<1>4. (\A t \in TokenAccounts : token_accounts[t] # 0 => Of(token_accounts[t], t))'
  <2>1. \A t \in TokenAccounts : token_accounts'[t] # 0 => Of(token_accounts'[t], t)
    BY DEF Good, GoodAccounts, RowsInv
  <2> QED
    BY <1>1, <2>1 DEF Of
<1>5. (asset # NULL => IsAsset(asset))'
  <2>1. asset' # NULL => IsAsset(asset')
    BY DEF Good, GoodAsset, RowsInv
  <2> QED
    BY <1>1, <2>1 DEF IsAsset, Of
<1>6. (data # 0 => Of(data, Described))'
  <2>1. data' # 0 => Of(data', Described)
    BY DEF Good, GoodData, RowsInv
  <2> QED
    BY <1>1, <2>1 DEF Of
<1>7. (inscription # 0 => Of(inscription, Inscription))'
  <2>1. inscription' # 0 => Of(inscription', Inscription)
    BY DEF Good, GoodInscription, RowsInv
  <2> QED
    BY <1>1, <2>1 DEF Of
<1>8. (edition # NULL => IsAttachment(edition))'
  <2>1. edition' # NULL => IsAttachment(edition')
    BY DEF Good, GoodEdition, RowsInv
  <2> SUFFICES ASSUME edition' # NULL PROVE IsAttachment(edition)'
    OBVIOUS
  <2>2. edition' \in Attachment
    BY <2>1 DEF IsAttachment
  <2>3. ASSUME edition'.at = 0
        PROVE  \E m \in DOMAIN writes' :
                   /\ m \in DOMAIN writes' /\ writes'[m].acct = Metadata
                   /\ writes'[m].amount = 1 /\ (IF m = 0 THEN 0 ELSE writes'[m].slot) = edition'.slot
    <3>1. PICK m \in DOMAIN writes : Of(m, Metadata) /\ Amount(m) = 1 /\ Slot(m) = edition'.slot
      BY <2>1, <2>3 DEF IsAttachment
    <3> QED
      BY <3>1 DEF Of, Amount, Slot, Later
  <2>4. ASSUME edition'.at # 0
        PROVE  /\ edition'.at \in DOMAIN writes' /\ writes'[edition'.at].acct = Edition
               /\ (IF edition'.at = 0 THEN 0 ELSE writes'[edition'.at].slot) = edition'.slot
    <3>1. Of(edition'.at, Edition) /\ Slot(edition'.at) = edition'.slot
      BY <2>1, <2>4 DEF IsAttachment
    <3> QED
      BY <3>1 DEF Of, Slot, Later
  <2> QED
    BY <2>2, <2>3, <2>4 DEF IsAttachment, Of, Amount, Slot
<1>9. (errors \in 0 .. MaxErrors)'
  BY DEF Good
<1> QED
  BY <1>2, <1>3, <1>4, <1>5, <1>6, <1>7, <1>8, <1>9 DEF RowsInv

\* What has reached a row stays there.
LEMMA StoredStays ==
    ASSUME ChainInv, RowsInv, Later, Good, NEW i \in DOMAIN writes
    PROVE  /\ MintStored(i) => MintStored(i)'
           /\ \A t \in TokenAccounts : AccountStored(i, t) => AccountStored(i, t)'
           /\ SupplyStored(i) => SupplyStored(i)'
           /\ ColumnsStored(i) => ColumnsStored(i)'
           /\ DataStored(i) => DataStored(i)'
           /\ InscriptionStored(i) => InscriptionStored(i)'
           /\ Attached => Attached'
           /\ EditionStored(i) => EditionStored(i)'
           /\ OwnerStored(i) => OwnerStored(i)'
<1>1. /\ Slot(i) \in Nat /\ Slot(i)' = Slot(i) /\ \A a : Shut(a) => Shut(a)'
      /\ NeverBurnt' => NeverBurnt
  BY Slots, LaterFacts
<1>2. \A x, a : x = 0 \/ Of(x, a) => Slot(x) \in Nat /\ Slot(x)' = Slot(x)
  BY Slots, LaterFacts DEF Of
<1>3. /\ Slot(tokens) \in Nat /\ \A t \in TokenAccounts : Slot(token_accounts[t]) \in Nat
      /\ \A r : IsAsset(r) => Slot(r.ta) \in Nat /\ Slot(r.mint) \in Nat /\ Slot(r.md) \in Nat
      /\ \A r : IsAttachment(r) => r.slot \in Nat
      /\ Slot(data) \in Nat /\ Slot(inscription) \in Nat
  BY RowSlots
<1>4. MintStored(i) => MintStored(i)'
  <2>1. PICK x : x = tokens'
    OBVIOUS
  <2>2. (x = 0 \/ Of(x, Mint)) /\ ((x = 0 /\ Shut(Mint)) \/ Slot(x) >= Slot(tokens))
    BY <1>3, <2>1 DEF Good, GoodTokens, RowsInv, NotOlder
  <2>3. Slot(x) \in Nat /\ Slot(x)' = Slot(x)
    BY <1>2, <2>2
  <2>4. Slot(tokens)' = Slot(x)
    BY <2>1, <2>3 DEF Slot
  <2> QED
    BY <1>1, <1>3, <2>2, <2>3, <2>4 DEF MintStored, NotOlder
<1>5. ASSUME NEW t \in TokenAccounts
      PROVE  AccountStored(i, t) => AccountStored(i, t)'
  <2>1. PICK x : x = token_accounts'[t]
    OBVIOUS
  <2>2. (x = 0 \/ Of(x, t)) /\ ((x = 0 /\ Shut(t)) \/ Slot(x) >= Slot(token_accounts[t]))
    BY <1>3, <2>1 DEF Good, GoodAccounts, RowsInv, NotOlder
  <2>3. Slot(x) \in Nat /\ Slot(x)' = Slot(x)
    BY <1>2, <2>2
  <2>4. Slot(token_accounts[t])' = Slot(x)
    BY <2>1, <2>3 DEF Slot
  <2> QED
    BY <1>1, <1>3, <2>2, <2>3, <2>4 DEF AccountStored, NotOlder
<1>6. ASSUME asset # NULL
      PROVE  /\ asset' # NULL
             /\ Slot(asset.ta)' \in Nat /\ Slot(asset.ta)' >= Slot(asset.ta)
             /\ Slot(asset.mint)' \in Nat /\ Slot(asset.mint)' >= Slot(asset.mint)
             /\ Slot(asset.md)' \in Nat /\ Slot(asset.md)' >= Slot(asset.md)
  <2>1. PICK r : r = asset'
    OBVIOUS
  <2>2. IsAsset(r) /\ AssetForward(r) /\ IsAsset(asset)
    BY <1>3, <1>6, <2>1 DEF Good, GoodAsset, RowsInv, AssetForward, NotOlder
  <2>3. r # NULL
    BY <2>2, AccountAssumption DEF IsAsset
  <2>4. PICK x, y, z : x = r.ta /\ y = r.mint /\ z = r.md
    OBVIOUS
  <2>5. /\ Slot(x) \in Nat /\ Slot(x)' = Slot(x) /\ Slot(y) \in Nat /\ Slot(y)' = Slot(y)
        /\ Slot(z) \in Nat /\ Slot(z)' = Slot(z)
    BY <1>2, <2>2, <2>4 DEF IsAsset
  <2>6. Slot(asset.ta)' = Slot(x) /\ Slot(asset.mint)' = Slot(y) /\ Slot(asset.md)' = Slot(z)
    BY <2>1, <2>4, <2>5 DEF Slot
  <2> QED
    BY <1>6, <2>1, <2>2, <2>3, <2>4, <2>5, <2>6 DEF AssetForward, NotOlder
<1>7. SupplyStored(i) => SupplyStored(i)'
  BY <1>1, <1>3, <1>6 DEF SupplyStored, NotOlder, RowsInv
<1>8. ColumnsStored(i) => ColumnsStored(i)'
  BY <1>1, <1>3, <1>6 DEF ColumnsStored, NotOlder, RowsInv
<1>9. OwnerStored(i) => OwnerStored(i)'
  <2>1. blind => blind'
    BY DEF Good
  <2> QED
    BY <1>1, <1>3, <1>6, <2>1 DEF OwnerStored, NotOlder, RowsInv
<1>10. DataStored(i) => DataStored(i)'
  <2>1. PICK x : x = data'
    OBVIOUS
  <2>2. (x = 0 \/ Of(x, Described)) /\ Slot(x) >= Slot(data)
    BY <1>3, <2>1 DEF Good, GoodData, RowsInv, NotOlder
  <2>3. Slot(x) \in Nat /\ Slot(x)' = Slot(x)
    BY <1>2, <2>2
  <2>4. Slot(data)' = Slot(x)
    BY <2>1, <2>3 DEF Slot
  <2> QED
    BY <1>1, <1>3, <2>2, <2>3, <2>4 DEF DataStored, NotOlder
<1>11. InscriptionStored(i) => InscriptionStored(i)'
  <2>1. PICK x : x = inscription'
    OBVIOUS
  <2>2. (x = 0 \/ Of(x, Inscription)) /\ Slot(x) >= Slot(inscription)
    BY <1>3, <2>1 DEF Good, GoodInscription, RowsInv, NotOlder
  <2>3. Slot(x) \in Nat /\ Slot(x)' = Slot(x)
    BY <1>2, <2>2
  <2>4. Slot(inscription)' = Slot(x)
    BY <2>1, <2>3 DEF Slot
  <2> QED
    BY <1>1, <1>3, <2>2, <2>3, <2>4 DEF InscriptionStored, NotOlder
<1>12. ASSUME edition # NULL
       PROVE  /\ edition' # NULL /\ (edition.known => edition'.known)
              /\ edition'.slot \in Nat /\ edition'.slot >= edition.slot
              /\ edition'.at = 0 => edition.at = 0 /\ edition'.slot = edition.slot
  <2>1. IsAttachment(edition') /\ EditionForward(edition')
    BY <1>3, <1>12 DEF Good, GoodEdition, RowsInv, EditionForward
  <2>2. edition' # NULL
    BY <2>1, AccountAssumption DEF IsAttachment
  <2> QED
    BY <1>3, <1>12, <2>1, <2>2 DEF EditionForward
<1>13. Attached => Attached'
  BY <1>12 DEF Attached
<1>14. EditionStored(i) => EditionStored(i)'
  BY <1>1, <1>3, <1>12 DEF EditionStored, RowsInv
<1> QED
  BY <1>4, <1>5, <1>7, <1>8, <1>9, <1>10, <1>11, <1>13, <1>14

\* An applied write stays applied.
LEMMA AppliedStays ==
    ASSUME ChainInv, RowsInv, Later, Good, NEW i \in DOMAIN writes, Applied(i)
    PROVE  Applied(i)'
<1>1. PICK w : w = writes[i] /\ w = writes'[i]
  BY DEF Later
<1>2. /\ kind' = kind
      /\ MintStored(i) => MintStored(i)'
      /\ \A t \in TokenAccounts : AccountStored(i, t) => AccountStored(i, t)'
      /\ SupplyStored(i) => SupplyStored(i)'
      /\ ColumnsStored(i) => ColumnsStored(i)'
      /\ DataStored(i) => DataStored(i)'
      /\ InscriptionStored(i) => InscriptionStored(i)'
      /\ Attached => Attached'
      /\ EditionStored(i) => EditionStored(i)'
      /\ OwnerStored(i) => OwnerStored(i)'
  BY StoredStays, ZenonT(30) DEF Later
<1>3. ASSUME ~w.closed, w.acct \in TokenAccounts
      PROVE  AccountStored(i, writes[i].acct)' /\ OwnerStored(i)'
  <2>1. AccountStored(i, w.acct) /\ OwnerStored(i)
    BY <1>1, <1>3 DEF Applied
  <2>2. AccountStored(i, w.acct)'
    BY <1>2, <1>3, <2>1
  <2> QED
    BY <1>1, <1>2, <2>1, <2>2, Zenon DEF AccountStored
<1>4. ASSUME ~w.closed
      PROVE  /\ w.acct = Mint => /\ MintStored(i)' /\ SupplyStored(i)'
                                 /\ kind.extended => DataStored(i)' /\ ColumnsStored(i)'
             /\ w.acct = Metadata /\ w.amount = 1 => /\ DataStored(i)' /\ ColumnsStored(i)'
                                                     /\ kind.standard = "nft" => Attached'
             /\ w.acct = Edition => EditionStored(i)'
             /\ w.acct = Inscription => InscriptionStored(i)'
  BY <1>1, <1>2, <1>4, Zenon DEF Applied
<1> QED
  BY <1>1, <1>2, <1>3, <1>4, Zenon DEF Applied

\* What holds of a handler stays true when others take a step.
LEMMA JobStays ==
    ASSUME ChainInv, RowsInv, Later, Good, NEW j, j.i \in DOMAIN writes, JobInv(j)
    PROVE  JobInv(j)'
<1>1. PICK i, w : i = j.i /\ i \in DOMAIN writes /\ w = writes[i] /\ w = writes'[i]
  BY DEF Later
<1>2. /\ kind' = kind
      /\ MintStored(i) => MintStored(i)'
      /\ \A t \in TokenAccounts : AccountStored(i, t) => AccountStored(i, t)'
      /\ SupplyStored(i) => SupplyStored(i)'
      /\ ColumnsStored(i) => ColumnsStored(i)'
      /\ DataStored(i) => DataStored(i)'
  BY <1>1, StoredStays, Zenon DEF Later
<1>3. \A x, a : Of(x, a) => Of(x, a)'
  BY DEF Of, Later
<1>4. ASSUME j.pc \in {"find_mint", "owner"}
      PROVE  AccountStored(j.i, writes[j.i].acct)'
  <2>1. AccountStored(i, w.acct) /\ w.acct \in TokenAccounts
    BY <1>1, <1>4 DEF JobInv, AccountSteps
  <2>2. AccountStored(i, w.acct)'
    BY <1>2, <2>1
  <2> QED
    BY <1>1, <2>2 DEF AccountStored
<1>5. /\ w.closed <=> j.pc \in CloseSteps
      /\ j.pc \in {"delete_mint", "set_burnt"} \cup MintSteps => w.acct = Mint
      /\ j.pc \in AccountSteps => w.acct \in TokenAccounts
      /\ j.pc \in MetadataSteps => w.acct = Metadata /\ w.amount = 1
      /\ j.pc = "burn" => w.acct = Metadata /\ w.amount = 0
      /\ j.pc = "edition" => w.acct = Edition
      /\ j.pc = "inscription" => w.acct = Inscription
  BY <1>1, Zenon DEF JobInv
<1>6. /\ j.pc = "copy_mint" => Of(j.row, Mint)'
      /\ j.pc = "copy_owner" => \E t \in TokenAccounts : Of(j.row, t)'
  BY <1>3 DEF JobInv
<1>7. /\ j.pc \in MintSteps \ {"tokens"} => MintStored(i)'
      /\ j.pc \in {"asset_data", "metadata_cols"} => kind'.extended /\ SupplyStored(i)'
      /\ j.pc = "metadata_cols" => DataStored(i)'
      /\ j.pc = "attach" => kind'.standard = "nft" /\ DataStored(i)' /\ ColumnsStored(i)'
  BY <1>1, <1>2, Zenon DEF JobInv
<1> QED
  BY <1>1, <1>4, <1>5, <1>6, <1>7, ZenonT(60) DEF JobInv

-----------------------------------------------------------------------------
(* Handlers.                                                               *)

\* A handler goes on, fails, or returns when its write is applied.
JobMoves(j) ==
    \/ \E k \in Job : /\ k.i = j.i /\ JobInv(k)'
                      /\ jobs' = (jobs \ {j}) \cup {k} /\ pending' = pending
    \/ jobs' = jobs \ {j} /\ pending' = pending
    \/ jobs' = jobs \ {j} /\ pending' = pending \ {j.i} /\ Applied(j.i)'

\* What a statement has to show.
LEMMA StatementStep ==
    ASSUME Inv, NEW j \in jobs, UNCHANGED <<kind, writes>>, Good, JobMoves(j)
    PROVE  Inv' /\ Later
<1>0. ChainInv /\ RowsInv /\ JobsInv /\ AppliedInv
  BY DEF Inv
<1>1. Later
  BY DEF Later
<1>2. ChainInv' /\ RowsInv'
  BY <1>0, <1>1, GoodRows DEF ChainInv
<1>3. /\ pending \subseteq DOMAIN writes /\ \A k \in jobs : k \in Job /\ k.i \in pending /\ JobInv(k)'
      /\ \A k, l \in jobs : k.i = l.i => k = l
  BY <1>0, <1>1, JobStays DEF JobsInv
<1>4. \A i \in DOMAIN writes \ pending : Applied(i)'
  BY <1>0, <1>1, AppliedStays DEF AppliedInv
<1>5. CASE jobs' = jobs \ {j} /\ pending' = pending \ {j.i} /\ Applied(j.i)'
  <2>1. AppliedInv'
    BY <1>4, <1>5 DEF AppliedInv
  <2>2. JobsInv'
    BY <1>3, <1>5 DEF JobsInv
  <2> QED
    BY <1>1, <1>2, <2>1, <2>2 DEF Inv
<1>6. CASE jobs' = jobs \ {j} /\ pending' = pending
  <2>1. AppliedInv'
    BY <1>4, <1>6 DEF AppliedInv
  <2>2. JobsInv'
    BY <1>3, <1>6 DEF JobsInv
  <2> QED
    BY <1>1, <1>2, <2>1, <2>2 DEF Inv
<1>7. CASE \E k \in Job : /\ k.i = j.i /\ JobInv(k)'
                          /\ jobs' = (jobs \ {j}) \cup {k} /\ pending' = pending
  <2>1. AppliedInv'
    BY <1>4, <1>7 DEF AppliedInv
  <2>2. JobsInv'
    <3>1. PICK k \in Job : /\ k.i = j.i /\ JobInv(k)'
                           /\ jobs' = (jobs \ {j}) \cup {k} /\ pending' = pending
      BY <1>7
    <3>2. \A l \in jobs' : l \in Job /\ l.i \in pending /\ JobInv(l)'
      BY <1>3, <3>1
    <3>3. \A l, m \in jobs' : l.i = m.i => l = m
      BY <1>3, <3>1
    <3> QED
      BY <1>3, <3>1, <3>2, <3>3 DEF JobsInv
  <2> QED
    BY <1>1, <1>2, <2>1, <2>2 DEF Inv
<1> QED
  BY <1>5, <1>6, <1>7 DEF JobMoves

\* What is known of a handler at a statement.
LEMMA JobFacts ==
    ASSUME Inv, NEW j \in jobs
    PROVE  /\ ChainInv /\ RowsInv /\ JobsInv
           /\ j \in Job /\ j.i \in DOMAIN writes /\ j.i \in pending /\ JobInv(j)
           /\ j.i \in Nat /\ j.i # 0 /\ Slot(j.i) \in Nat /\ Slot(j.i) >= 1 /\ j.i \in Write_
           /\ Of(j.i, writes[j.i].acct) /\ writes[j.i].acct \in Accounts
<1>1. ChainInv /\ RowsInv /\ JobsInv
  BY DEF Inv
<1>2. j \in Job /\ j.i \in DOMAIN writes /\ j.i \in pending /\ JobInv(j)
  BY <1>1 DEF JobsInv
<1>3. j.i \in Nat /\ j.i # 0 /\ j.i \in Write_ /\ writes[j.i] \in WriteType
  BY <1>1, <1>2, Writes
<1>4. Slot(j.i) \in Nat /\ Slot(j.i) >= 1
  BY <1>1, <1>2, Slots
<1>5. writes[j.i].acct \in Accounts
  BY <1>3 DEF WriteType
<1> QED
  BY <1>1, <1>2, <1>3, <1>4, <1>5 DEF Of

\* A new row of asset.
LEMMA FreshRow ==
    ASSUME NEW r, r = Fresh \/ r = [Fresh EXCEPT !.class = "fungible", !.owner_type = "token"]
    PROVE  IsAsset(r) /\ r.ta = 0 /\ r.mint = 0 /\ r.md = 0
<1>1. 0 \in Write_ /\ FALSE \in BOOLEAN
  BY AccountAssumption DEF Write_
<1>2. \A c \in {NULL, "fungible"}, o \in {"single", "token"}, b \in BOOLEAN :
          [ta |-> 0, mint |-> 0, md |-> 0, class |-> c, owner_type |-> o, burnt |-> b] \in Asset
  BY <1>1 DEF Asset
<1>3. \/ r = [ta |-> 0, mint |-> 0, md |-> 0, class |-> NULL, owner_type |-> "single", burnt |-> FALSE]
      \/ r = [ta |-> 0, mint |-> 0, md |-> 0, class |-> "fungible", owner_type |-> "token", burnt |-> FALSE]
  BY Zenon DEF Fresh
<1>4. r \in Asset
  BY <1>1, <1>2, <1>3, Zenon
<1>5. r.ta = 0 /\ r.mint = 0 /\ r.md = 0
  BY <1>3
<1> QED
  BY <1>4, <1>5 DEF IsAsset

\* upsert_assets_token_account_columns leaves write i or a newer one.
LEMMA OwnerColumns ==
    ASSUME ChainInv, RowsInv, NEW i \in DOMAIN writes, NEW t \in TokenAccounts, Of(i, t),
           upsert_assets_token_account_columns(i)
    PROVE  GoodAsset /\ asset' # NULL /\ NotOlder(asset'.ta, i)
<1>1. PICK row : row = IF asset = NULL THEN Fresh ELSE asset
  OBVIOUS
<1>2. IsAsset(row) /\ (asset = NULL => row.ta = 0)
  BY <1>1, FreshRow DEF RowsInv
<1>3. /\ Slot(row.ta) \in Nat /\ Slot(row.mint) \in Nat /\ Slot(row.md) \in Nat
      /\ Slot(i) \in Nat /\ Slot(0) = 0
  BY <1>2, RowSlots, Slots
<1>4. CASE NotOlder(i, row.ta)
  <2>1. PICK q : q = [row EXCEPT !.ta = i]
    BY Zenon
  <2>2. IsAsset(q) /\ q.ta = i /\ q.mint = row.mint /\ q.md = row.md
    <3>1. q \in Asset /\ q.ta = i /\ q.mint = row.mint /\ q.md = row.md
      BY <1>2, <2>1, Writes DEF IsAsset, Asset
    <3> QED
      BY <1>2, <3>1 DEF IsAsset
  <2>3. asset' = q
    BY <1>1, <1>4, <2>1 DEF upsert_assets_token_account_columns
  <2>4. q # NULL
    BY <2>2, AccountAssumption DEF IsAsset
  <2>5. AssetForward(q) /\ NotOlder(q.ta, i)
    BY <1>1, <1>3, <1>4, <2>2 DEF AssetForward, NotOlder
  <2> QED
    BY <2>2, <2>3, <2>4, <2>5 DEF GoodAsset
<1>5. CASE ~NotOlder(i, row.ta)
  <2>1. asset # NULL
    BY <1>2, <1>3, <1>5 DEF NotOlder
  <2>2. asset' = asset /\ row = asset
    BY <1>1, <1>5, <2>1 DEF upsert_assets_token_account_columns
  <2> QED
    BY <1>3, <1>5, <2>1, <2>2 DEF GoodAsset, NotOlder
<1> QED
  BY <1>4, <1>5

\* The same for upsert_assets_mint_account_columns.
LEMMA SupplyColumns ==
    ASSUME ChainInv, RowsInv, NEW i \in DOMAIN writes, Of(i, Mint),
           upsert_assets_mint_account_columns(i)
    PROVE  GoodAsset /\ asset' # NULL /\ NotOlder(asset'.mint, i)
<1>1. PICK row : row = IF asset = NULL THEN [Fresh EXCEPT !.class = "fungible", !.owner_type = "token"] ELSE asset
  OBVIOUS
<1>2. IsAsset(row) /\ (asset = NULL => row.mint = 0)
  BY <1>1, FreshRow DEF RowsInv
<1>3. /\ Slot(row.ta) \in Nat /\ Slot(row.mint) \in Nat /\ Slot(row.md) \in Nat
      /\ Slot(i) \in Nat /\ Slot(0) = 0
  BY <1>2, RowSlots, Slots
<1>4. CASE NotOlder(i, row.mint)
  <2>1. PICK q : q = [row EXCEPT !.mint = i]
    BY Zenon
  <2>2. IsAsset(q) /\ q.mint = i /\ q.ta = row.ta /\ q.md = row.md
    <3>1. q \in Asset /\ q.mint = i /\ q.ta = row.ta /\ q.md = row.md
      BY <1>2, <2>1, Writes DEF IsAsset, Asset
    <3> QED
      BY <1>2, <3>1 DEF IsAsset
  <2>3. asset' = q
    BY <1>1, <1>4, <2>1 DEF upsert_assets_mint_account_columns
  <2>4. q # NULL
    BY <2>2, AccountAssumption DEF IsAsset
  <2>5. AssetForward(q) /\ NotOlder(q.mint, i)
    BY <1>1, <1>3, <1>4, <2>2 DEF AssetForward, NotOlder
  <2> QED
    BY <2>2, <2>3, <2>4, <2>5 DEF GoodAsset
<1>5. CASE ~NotOlder(i, row.mint)
  <2>1. asset # NULL
    BY <1>2, <1>3, <1>5 DEF NotOlder
  <2>2. asset' = asset /\ row = asset
    BY <1>1, <1>5, <2>1 DEF upsert_assets_mint_account_columns
  <2> QED
    BY <1>3, <1>5, <2>1, <2>2 DEF GoodAsset, NotOlder
<1> QED
  BY <1>4, <1>5

\* The same for upsert_assets_metadata_account_columns.
LEMMA MetadataColumns ==
    ASSUME ChainInv, RowsInv, NEW i \in DOMAIN writes, Of(i, Described),
           NEW c \in {"nft", "fungible", "unknown"}, NEW o \in {"single", "token", "unknown"},
           upsert_assets_metadata_account_columns(i, c, o)
    PROVE  GoodAsset /\ asset' # NULL /\ NotOlder(asset'.md, i)
<1>1. PICK row : row = IF asset = NULL THEN Fresh ELSE asset
  OBVIOUS
<1>2. IsAsset(row) /\ (asset = NULL => row.md = 0)
  BY <1>1, FreshRow DEF RowsInv
<1>3. /\ Slot(row.ta) \in Nat /\ Slot(row.mint) \in Nat /\ Slot(row.md) \in Nat
      /\ Slot(i) \in Nat /\ Slot(0) = 0
  BY <1>2, RowSlots, Slots
<1>4. CASE NotOlder(i, row.md)
  <2>1. PICK q : q = [row EXCEPT !.md = i, !.class = c, !.owner_type = o, !.burnt = FALSE]
    OBVIOUS
  <2>2. IsAsset(q) /\ q.md = i /\ q.ta = row.ta /\ q.mint = row.mint
    <3>1. \A b \in BOOLEAN : [row EXCEPT !.md = i, !.class = c, !.owner_type = o, !.burnt = b] \in Asset
      BY <1>2, Writes, Zenon DEF IsAsset, Asset
    <3>2. q \in Asset
      BY <2>1, <3>1, Zenon
    <3>3. q.md = i /\ q.ta = row.ta /\ q.mint = row.mint
      BY <1>2, <2>1 DEF IsAsset, Asset
    <3> QED
      BY <1>2, <3>2, <3>3 DEF IsAsset
  <2>3. asset' = q
    BY <1>1, <1>4, <2>1 DEF upsert_assets_metadata_account_columns
  <2>4. q # NULL
    BY <2>2, AccountAssumption DEF IsAsset
  <2>5. AssetForward(q) /\ NotOlder(q.md, i)
    BY <1>1, <1>3, <1>4, <2>2 DEF AssetForward, NotOlder
  <2> QED
    BY <2>2, <2>3, <2>4, <2>5 DEF GoodAsset
<1>5. CASE ~NotOlder(i, row.md)
  <2>1. asset # NULL
    BY <1>2, <1>3, <1>5 DEF NotOlder
  <2>2. asset' = asset /\ row = asset
    BY <1>1, <1>5, <2>1 DEF upsert_assets_metadata_account_columns
  <2> QED
    BY <1>3, <1>5, <2>1, <2>2 DEF GoodAsset, NotOlder
<1> QED
  BY <1>4, <1>5

\* The same for the columns that token extensions write.
LEMMA ExtensionColumns ==
    ASSUME ChainInv, RowsInv, NEW i \in DOMAIN writes, Of(i, Described),
           upsert_assets_metadata_cols(i)
    PROVE  GoodAsset /\ asset' # NULL /\ NotOlder(asset'.md, i)
<1>1. PICK row : row = IF asset = NULL THEN Fresh ELSE asset
  OBVIOUS
<1>2. IsAsset(row) /\ (asset = NULL => row.md = 0)
  BY <1>1, FreshRow DEF RowsInv
<1>3. /\ Slot(row.ta) \in Nat /\ Slot(row.mint) \in Nat /\ Slot(row.md) \in Nat
      /\ Slot(i) \in Nat /\ Slot(0) = 0
  BY <1>2, RowSlots, Slots
<1>4. CASE NotOlder(i, row.md)
  <2>1. PICK q : q = [row EXCEPT !.md = i]
    BY Zenon
  <2>2. IsAsset(q) /\ q.md = i /\ q.ta = row.ta /\ q.mint = row.mint
    <3>1. q \in Asset /\ q.md = i /\ q.ta = row.ta /\ q.mint = row.mint
      BY <1>2, <2>1, Writes DEF IsAsset, Asset
    <3> QED
      BY <1>2, <3>1 DEF IsAsset
  <2>3. asset' = q
    BY <1>1, <1>4, <2>1 DEF upsert_assets_metadata_cols
  <2>4. q # NULL
    BY <2>2, AccountAssumption DEF IsAsset
  <2>5. AssetForward(q) /\ NotOlder(q.md, i)
    BY <1>1, <1>3, <1>4, <2>2 DEF AssetForward, NotOlder
  <2> QED
    BY <2>2, <2>3, <2>4, <2>5 DEF GoodAsset
<1>5. CASE ~NotOlder(i, row.md)
  <2>1. asset # NULL
    BY <1>2, <1>3, <1>5 DEF NotOlder
  <2>2. asset' = asset /\ row = asset
    BY <1>1, <1>5, <2>1 DEF upsert_assets_metadata_cols
  <2> QED
    BY <1>3, <1>5, <2>1, <2>2 DEF GoodAsset, NotOlder
<1> QED
  BY <1>4, <1>5


\* Rows that a step leaves alone.
LEMMA Untouched ==
    ASSUME RowsInv
    PROVE  /\ UNCHANGED tokens => GoodTokens
           /\ UNCHANGED token_accounts => GoodAccounts
           /\ UNCHANGED asset => GoodAsset
           /\ UNCHANGED data => GoodData
           /\ UNCHANGED inscription => GoodInscription
           /\ UNCHANGED edition => GoodEdition
           /\ Trouble \/ UNCHANGED errors => errors' \in 0 .. MaxErrors
<1>1. Trouble \/ UNCHANGED errors => errors' \in 0 .. MaxErrors
  BY AccountAssumption DEF Trouble, RowsInv
<1>2. UNCHANGED token_accounts => GoodAccounts
  BY DEF GoodAccounts, RowsInv
<1> QED
  BY <1>1, <1>2 DEF GoodTokens, GoodAsset, GoodData, GoodInscription, GoodEdition

\* A handler goes on with another statement.
LEMMA Goes ==
    ASSUME Inv, NEW j \in jobs, NEW pc \in Steps, To(j, pc),
           \A k \in Job : k.i = j.i /\ k.pc = pc => JobInv(k)'
    PROVE  JobMoves(j) /\ UNCHANGED errors
<1>1. PICK k : k = [j EXCEPT !.pc = pc]
  BY Zenon
<1>2. j \in Job /\ 0 \in Write_ /\ 0 \in Nat
  BY JobFacts, AccountAssumption DEF Write_
<1>3. k \in Job /\ k.i = j.i /\ k.pc = pc
  BY <1>1, <1>2 DEF Job
<1>4. jobs' = (jobs \ {j}) \cup {k} /\ UNCHANGED <<pending, errors>>
  BY <1>1 DEF To, Goto
<1> QED
  BY <1>3, <1>4 DEF JobMoves

\* A handler returns after its write is applied.
LEMMA Returns ==
    ASSUME Inv, NEW j \in jobs, Return(j), Applied(j.i)'
    PROVE  JobMoves(j) /\ errors' \in 0 .. MaxErrors
<1>1. Trouble \/ UNCHANGED errors
  BY DEF Return
<1>2. errors' \in 0 .. MaxErrors
  BY <1>1, JobFacts, Untouched
<1> QED
  BY <1>2 DEF Return, JobMoves

\* The handler of a token account.
LEMMA TokenAccountStep ==
    ASSUME Inv, NEW j \in jobs, UpsertTokenAccount(j)
    PROVE  Good /\ JobMoves(j) /\ UNCHANGED <<kind, writes>>
<1>0. /\ ChainInv /\ RowsInv /\ JobInv(j) /\ j.i \in DOMAIN writes /\ Slot(j.i) \in Nat
      /\ Of(j.i, writes[j.i].acct) /\ j.i \in Nat
  BY JobFacts
<1>1. PICK i, t : i = j.i /\ t = writes[i].acct
  OBVIOUS
<1>2. t \in TokenAccounts /\ ~writes[i].closed
  BY <1>0, <1>1, ZenonT(30) DEF UpsertTokenAccount, JobInv, AccountSteps, CloseSteps
<1>3. /\ token_accounts' = [token_accounts EXCEPT ![t] = IF Newer(i, @) THEN i ELSE @]
      /\ To(j, "find_mint")
      /\ UNCHANGED <<kind, writes, tokens, asset, data, edition, inscription, stray, blind>>
  BY <1>1, Zenon DEF UpsertTokenAccount
<1>4. Slot(token_accounts[t]) \in Nat /\ token_accounts \in [TokenAccounts -> Nat]
  BY <1>0, <1>2, RowSlots DEF RowsInv
<1>5. GoodAccounts
  <2>1. token_accounts' \in [TokenAccounts -> Nat]
    BY <1>0, <1>1, <1>2, <1>3, <1>4
  <2>2. \A u \in TokenAccounts : u # t => token_accounts'[u] = token_accounts[u]
    BY <1>3, <1>4
  <2>3. CASE Newer(i, token_accounts[t])
    <3>1. token_accounts'[t] = i
      BY <1>2, <1>3, <1>4, <2>3
    <3>2. Of(i, t) /\ NotOlder(i, token_accounts[t])
      BY <1>0, <1>1, <1>4, <2>3 DEF Newer, NotOlder
    <3> QED
      BY <2>1, <2>2, <3>1, <3>2 DEF GoodAccounts
  <2>4. CASE ~Newer(i, token_accounts[t])
    <3>1. token_accounts'[t] = token_accounts[t]
      BY <1>2, <1>3, <1>4, <2>4
    <3> QED
      BY <2>1, <2>2, <3>1 DEF GoodAccounts
  <2> QED
    BY <2>3, <2>4
<1>6. AccountStored(i, t)'
  <2>1. Slot(token_accounts'[t]) >= Slot(i)
    BY <1>0, <1>1, <1>2, <1>3, <1>4 DEF Newer
  <2> QED
    BY <1>3, <2>1 DEF AccountStored, NotOlder, Slot
<1>7. \A k \in Job : k.i = j.i /\ k.pc = "find_mint" => JobInv(k)'
  BY <1>1, <1>2, <1>3, <1>6, ZenonT(30)
     DEF JobInv, AccountStored, AccountSteps, MintSteps, MetadataSteps, CloseSteps
<1>8. JobMoves(j) /\ UNCHANGED errors
  BY <1>3, <1>7, Goes, Zenon DEF Steps, AccountSteps
<1> QED
  BY <1>0, <1>3, <1>5, <1>8, Untouched DEF Good

\* The SELECT of the mint decides whether the owner is written.
LEMMA FindMintStep ==
    ASSUME Inv, NEW j \in jobs, FindMint(j)
    PROVE  Good /\ JobMoves(j) /\ UNCHANGED <<kind, writes>>
<1>0. /\ ChainInv /\ RowsInv /\ JobInv(j) /\ j.i \in DOMAIN writes
  BY JobFacts
<1>1. /\ UNCHANGED <<kind, writes, tables>> /\ blind' = (blind \/ tokens = 0)
      /\ IF is_non_fungible(tokens) THEN To(j, "owner") ELSE Return(j)
  BY DEF FindMint
<1>2. PICK i, t : i = j.i /\ t = writes[i].acct
  OBVIOUS
<1>3. t \in TokenAccounts /\ ~writes[i].closed /\ AccountStored(i, t)
  BY <1>0, <1>2, Zenon DEF FindMint, JobInv, AccountSteps, CloseSteps
<1>4. AccountStored(i, t)'
  BY <1>1, <1>3 DEF AccountStored, tables, Shut, NotOlder, Slot
<1>5. CASE is_non_fungible(tokens)
  <2>1. \A k \in Job : k.i = j.i /\ k.pc = "owner" => JobInv(k)'
    BY <1>1, <1>2, <1>3, <1>4, ZenonT(30)
       DEF JobInv, AccountStored, AccountSteps, MintSteps, MetadataSteps, CloseSteps
  <2>2. JobMoves(j) /\ UNCHANGED errors
    BY <1>1, <1>5, <2>1, Goes, ZenonT(30) DEF Steps, AccountSteps
  <2> QED
    BY <1>0, <1>1, <2>2, Untouched, ZenonT(30) DEF Good, tables
<1>6. CASE ~is_non_fungible(tokens)
  <2>1. blind' \/ ~NeverBurnt
    <3> SUFFICES ASSUME tokens # 0, NeverBurnt PROVE FALSE
      BY <1>1, Zenon
    <3>1. tokens \in DOMAIN writes /\ tokens = 1
      BY <1>0 DEF RowsInv, Of, NeverBurnt
    <3>2. Amount(tokens) = 1
      BY <1>0, <3>1, Zenon DEF ChainInv, Amount, NeverBurnt
    <3> QED
      BY <1>6, <3>2 DEF is_non_fungible
  <2>2. OwnerStored(i)'
    BY <1>1, <2>1 DEF OwnerStored, NeverBurnt, Of
  <2>3. Applied(j.i)'
    <3>1. t # Mint /\ t # Metadata /\ t # Edition /\ t # Inscription
      BY <1>3, Names
    <3> QED
      BY <1>1, <1>2, <1>4, <2>2, <3>1, Zenon DEF Applied, AccountStored
  <2>4. JobMoves(j) /\ errors' \in 0 .. MaxErrors
    BY <1>1, <1>6, <2>3, Returns
  <2> QED
    BY <1>0, <1>1, <2>4, Untouched, Zenon DEF Good, tables
<1> QED
  BY <1>5, <1>6

\* The owner columns take the token account.
LEMMA OwnerStep ==
    ASSUME Inv, NEW j \in jobs, SetOwner(j)
    PROVE  Good /\ JobMoves(j) /\ UNCHANGED <<kind, writes>>
<1>0. /\ ChainInv /\ RowsInv /\ JobInv(j) /\ j.i \in DOMAIN writes /\ Of(j.i, writes[j.i].acct)
  BY JobFacts
<1>1. /\ upsert_assets_token_account_columns(j.i) /\ Return(j)
      /\ UNCHANGED <<kind, writes, tokens, token_accounts, data, edition, inscription, stray, blind>>
  BY DEF SetOwner
<1>2. PICK i, t : i = j.i /\ t = writes[i].acct
  OBVIOUS
<1>3. t \in TokenAccounts /\ ~writes[i].closed /\ AccountStored(i, t)
  BY <1>0, <1>2, ZenonT(30) DEF SetOwner, JobInv, AccountSteps, CloseSteps
<1>4. GoodAsset /\ asset' # NULL /\ NotOlder(asset'.ta, i)
  BY <1>0, <1>1, <1>2, <1>3, OwnerColumns, Zenon
<1>5. AccountStored(i, t)' /\ OwnerStored(i)'
  BY <1>1, <1>3, <1>4 DEF AccountStored, OwnerStored, Shut, NotOlder, Slot
<1>6. Applied(j.i)'
  <2>1. t # Mint /\ t # Metadata /\ t # Edition /\ t # Inscription
    BY <1>3, Names
  <2> QED
    BY <1>1, <1>2, <1>5, <2>1, Zenon DEF Applied, AccountStored
<1>7. JobMoves(j) /\ errors' \in 0 .. MaxErrors
  BY <1>1, <1>6, Returns
<1> QED
  BY <1>0, <1>1, <1>4, <1>7, Untouched DEF Good

\* The handler of a mint.
LEMMA MintStep ==
    ASSUME Inv, NEW j \in jobs, UpsertMint(j)
    PROVE  Good /\ JobMoves(j) /\ UNCHANGED <<kind, writes>>
<1>0. /\ ChainInv /\ RowsInv /\ JobInv(j) /\ j.i \in DOMAIN writes /\ Slot(j.i) \in Nat
      /\ Of(j.i, writes[j.i].acct) /\ Slot(tokens) \in Nat
  BY JobFacts, RowSlots
<1>1. /\ tokens' = (IF NotOlder(j.i, tokens) THEN j.i ELSE tokens) /\ To(j, "supply")
      /\ UNCHANGED <<kind, writes, token_accounts, asset, data, edition, inscription, stray, blind>>
  BY DEF UpsertMint
<1>2. writes[j.i].acct = Mint /\ ~writes[j.i].closed
  BY <1>0, Zenon DEF UpsertMint, JobInv, MintSteps, CloseSteps
<1>3. GoodTokens /\ Slot(tokens') >= Slot(j.i)
  BY <1>0, <1>1, <1>2 DEF GoodTokens, NotOlder
<1>4. MintStored(j.i)'
  BY <1>1, <1>3, ZenonT(30) DEF MintStored, NotOlder, Slot
<1>5. \A k \in Job : k.i = j.i /\ k.pc = "supply" => JobInv(k)'
  BY <1>1, <1>2, <1>4, ZenonT(30)
     DEF JobInv, AccountSteps, MintSteps, MetadataSteps, CloseSteps
<1>6. JobMoves(j) /\ UNCHANGED errors
  BY <1>1, <1>5, Goes DEF Steps, MintSteps
<1> QED
  BY <1>0, <1>1, <1>3, <1>6, Untouched, Zenon DEF Good

\* The supply columns take the mint.
LEMMA SupplyStep ==
    ASSUME Inv, NEW j \in jobs, SetSupply(j)
    PROVE  Good /\ JobMoves(j) /\ UNCHANGED <<kind, writes>>
<1>0. /\ ChainInv /\ RowsInv /\ JobInv(j) /\ j.i \in DOMAIN writes /\ Of(j.i, writes[j.i].acct)
  BY JobFacts
<1>1. /\ upsert_assets_mint_account_columns(j.i)
      /\ IF kind.extended THEN To(j, "asset_data") ELSE Return(j)
      /\ UNCHANGED <<kind, writes, tokens, token_accounts, data, edition, inscription, stray, blind>>
  BY DEF SetSupply
<1>2. writes[j.i].acct = Mint /\ ~writes[j.i].closed /\ MintStored(j.i)
  BY <1>0, ZenonT(30) DEF SetSupply, JobInv, MintSteps, CloseSteps
<1>3. GoodAsset /\ asset' # NULL /\ NotOlder(asset'.mint, j.i)
  BY <1>0, <1>1, <1>2, SupplyColumns, ZenonT(30)
<1>4. MintStored(j.i)' /\ SupplyStored(j.i)'
  BY <1>1, <1>2, <1>3 DEF MintStored, SupplyStored, Shut, NotOlder, Slot
<1>5. CASE kind.extended
  <2>1. \A k \in Job : k.i = j.i /\ k.pc = "asset_data" => JobInv(k)'
    BY <1>1, <1>2, <1>4, <1>5, ZenonT(30)
       DEF JobInv, AccountSteps, MintSteps, MetadataSteps, CloseSteps
  <2>2. JobMoves(j) /\ UNCHANGED errors
    BY <1>1, <1>5, <2>1, Goes DEF Steps, MintSteps
  <2> QED
    BY <1>0, <1>1, <1>3, <2>2, Untouched, ZenonT(30) DEF Good
<1>6. CASE ~kind.extended
  <2>1. Applied(j.i)'
    BY <1>1, <1>2, <1>4, <1>6, Names, Zenon DEF Applied
  <2>2. JobMoves(j) /\ errors' \in 0 .. MaxErrors
    BY <1>1, <1>6, <2>1, Returns
  <2> QED
    BY <1>0, <1>1, <1>3, <2>2, Untouched, ZenonT(30) DEF Good
<1> QED
  BY <1>5, <1>6

\* asset_data of token extensions takes the mint.
LEMMA AssetDataStep ==
    ASSUME Inv, NEW j \in jobs, UpsertAssetData(j)
    PROVE  Good /\ JobMoves(j) /\ UNCHANGED <<kind, writes>>
<1>0. /\ ChainInv /\ RowsInv /\ JobInv(j) /\ j.i \in DOMAIN writes /\ Slot(j.i) \in Nat
      /\ Of(j.i, writes[j.i].acct) /\ Slot(data) \in Nat
  BY JobFacts, RowSlots
<1>1. /\ data' = (IF NotOlder(j.i, data) THEN j.i ELSE data) /\ To(j, "metadata_cols")
      /\ UNCHANGED <<kind, writes, tokens, token_accounts, asset, edition, inscription, stray, blind>>
  BY DEF UpsertAssetData
<1>2. /\ writes[j.i].acct = Mint /\ ~writes[j.i].closed /\ kind.extended
      /\ MintStored(j.i) /\ SupplyStored(j.i)
  BY <1>0, ZenonT(30) DEF UpsertAssetData, JobInv, MintSteps, CloseSteps
<1>3. GoodData /\ Slot(data') >= Slot(j.i)
  <2>1. CASE Slot(j.i) >= Slot(data) /\ data' = j.i
    BY <1>0, <1>2, <2>1 DEF GoodData, NotOlder, Described
  <2>2. CASE ~(Slot(j.i) >= Slot(data)) /\ data' = data
    BY <1>0, <2>2 DEF GoodData
  <2> QED
    BY <1>1, <2>1, <2>2 DEF NotOlder
<1>4. MintStored(j.i)' /\ SupplyStored(j.i)' /\ DataStored(j.i)'
  BY <1>1, <1>2, <1>3, ZenonT(30) DEF MintStored, SupplyStored, DataStored, Shut, NotOlder, Slot
<1>5. \A k \in Job : k.i = j.i /\ k.pc = "metadata_cols" => JobInv(k)'
  BY <1>1, <1>2, <1>4, Zenon
     DEF JobInv, AccountSteps, MintSteps, MetadataSteps, CloseSteps
<1>6. JobMoves(j) /\ UNCHANGED errors
  BY <1>1, <1>5, Goes DEF Steps, MintSteps
<1> QED
  BY <1>0, <1>1, <1>3, <1>6, Untouched DEF Good

\* The metadata columns of token extensions take the mint.
LEMMA MetadataColsStep ==
    ASSUME Inv, NEW j \in jobs, SetMetadataCols(j)
    PROVE  Good /\ JobMoves(j) /\ UNCHANGED <<kind, writes>>
<1>0. /\ ChainInv /\ RowsInv /\ JobInv(j) /\ j.i \in DOMAIN writes /\ Slot(j.i) \in Nat
      /\ Of(j.i, writes[j.i].acct)
  BY JobFacts
<1>1. /\ upsert_assets_metadata_cols(j.i) /\ Return(j)
      /\ UNCHANGED <<kind, writes, tokens, token_accounts, data, edition, inscription, stray, blind>>
  BY DEF SetMetadataCols
<1>2. /\ writes[j.i].acct = Mint /\ ~writes[j.i].closed /\ kind.extended
      /\ MintStored(j.i) /\ SupplyStored(j.i) /\ DataStored(j.i)
  BY <1>0, ZenonT(30) DEF SetMetadataCols, JobInv, MintSteps, CloseSteps
<1>3. GoodAsset /\ asset' # NULL /\ NotOlder(asset'.md, j.i)
  BY <1>0, <1>1, <1>2, ExtensionColumns, ZenonT(30) DEF Described
<1>4. MintStored(j.i)' /\ DataStored(j.i)' /\ ColumnsStored(j.i)'
  BY <1>1, <1>2, <1>3 DEF MintStored, DataStored, ColumnsStored, Shut, NotOlder, Slot
<1>5. SupplyStored(j.i)'
  <2>1. asset # NULL /\ Slot(asset.mint) >= Slot(j.i) /\ Slot(asset.mint) \in Nat
    BY <1>0, <1>2, RowSlots DEF SupplyStored, NotOlder, RowsInv
  <2>2. Slot(asset'.mint) >= Slot(asset.mint) /\ Slot(asset'.mint) \in Nat
    <3>1. IsAsset(asset) /\ Slot(asset.mint) >= Slot(asset.mint)
      BY <1>0, <2>1 DEF RowsInv
    <3>2. IsAsset(asset') /\ Slot(asset'.mint) >= Slot(asset.mint)
      BY <1>3, <2>1, <3>1, Zenon DEF GoodAsset, AssetForward, NotOlder
    <3> QED
      BY <1>0, <3>2, RowSlots, Zenon
  <2>3. Slot(asset'.mint) >= Slot(j.i)
    BY <1>0, <2>1, <2>2
  <2> QED
    BY <1>1, <1>3, <2>3 DEF SupplyStored, NotOlder, Slot
<1>6. Applied(j.i)'
  BY <1>1, <1>2, <1>4, <1>5, Names, Zenon DEF Applied
<1>7. JobMoves(j) /\ errors' \in 0 .. MaxErrors
  BY <1>1, <1>6, Returns
<1> QED
  BY <1>0, <1>1, <1>3, <1>7, Untouched, Zenon DEF Good

\* The handler of metadata.
LEMMA GoesTo ==
    ASSUME Inv, NEW j \in jobs, NEW k \in Job, k.i = j.i, Goto(j, k), JobInv(k)'
    PROVE  JobMoves(j) /\ UNCHANGED errors
BY DEF Goto, JobMoves

\* The handler of a metadata account.
LEMMA MetadataJob ==
    ASSUME Inv, NEW j \in jobs, j.pc \in MetadataSteps, UNCHANGED <<kind, writes>>
    PROVE  /\ writes[j.i].acct = Metadata /\ writes[j.i].amount = 1 /\ ~writes[j.i].closed
           /\ ~kind.extended /\ Described = Metadata /\ Of(j.i, Described)
           /\ \A k \in Job :
                 /\ k.i = j.i
                 /\ \/ k.pc \in {"fetch_owner", "save"}
                    \/ k.pc = "copy_mint" /\ Of(k.row, Mint)
                    \/ k.pc = "copy_owner" /\ \E t \in TokenAccounts : Of(k.row, t)
                 => JobInv(k)'
<1>0. /\ ChainInv /\ JobInv(j) /\ j.i \in DOMAIN writes /\ Of(j.i, writes[j.i].acct)
  BY JobFacts
<1>1. /\ writes[j.i].acct = Metadata /\ writes[j.i].amount = 1 /\ ~writes[j.i].closed
  BY <1>0, ZenonT(30) DEF JobInv, MetadataSteps, CloseSteps
<1>2. ~kind.extended
  BY <1>0, <1>1 DEF ChainInv
<1>3. Described = Metadata /\ Of(j.i, Described)
  BY <1>0, <1>1, <1>2 DEF Described
<1>4. ASSUME NEW k \in Job, k.i = j.i,
             \/ k.pc \in {"fetch_owner", "save"}
             \/ k.pc = "copy_mint" /\ Of(k.row, Mint)
             \/ k.pc = "copy_owner" /\ \E t \in TokenAccounts : Of(k.row, t)
      PROVE  JobInv(k)'
  <2>1. (k.pc = "copy_mint" => Of(k.row, Mint)') /\ (k.pc = "copy_owner" => \E t \in TokenAccounts : Of(k.row, t)')
    BY <1>4 DEF Of
  <2> QED
    BY <1>1, <1>4, <2>1, Zenon
       DEF JobInv, AccountSteps, MintSteps, MetadataSteps, CloseSteps
<1> QED
  BY <1>1, <1>2, <1>3, <1>4

\* What class and owner type may be.
LEMMA OwnedType ==
    ASSUME NEW j
    PROVE  /\ Owned(j) \in {"fetch_owner", "save"} /\ {"fetch_owner", "save"} \subseteq Steps
           /\ \A n : Class(n) \in {"nft", "fungible", "unknown"} /\ OwnerType(n) \in {"single", "token", "unknown"}
BY DEF Owned, Class, OwnerType, Steps, MetadataSteps

\* The handler of metadata reads the row of the mint,
LEMMA FetchMintStep ==
    ASSUME Inv, NEW j \in jobs, FetchMint(j)
    PROVE  Good /\ JobMoves(j) /\ UNCHANGED <<kind, writes>>
<1>0. ChainInv /\ RowsInv /\ j \in Job
  BY JobFacts
<1>1. UNCHANGED <<kind, writes, tables, blind>> /\ j.pc \in MetadataSteps
  BY DEF FetchMint, MetadataSteps
<1>2. \E k \in Job : k.i = j.i /\ Goto(j, k) /\ JobInv(k)'
  <2>1. CASE tokens = 0
    <3>1. PICK k : k = [j EXCEPT !.pc = Owned(j)]
      BY Zenon
    <3>2. k \in Job /\ k.i = j.i /\ k.pc \in {"fetch_owner", "save"}
      BY <1>0, <3>1, OwnedType DEF Job
    <3>3. Goto(j, k)
      BY <2>1, <3>1 DEF FetchMint, To
    <3> QED
      BY <1>1, <3>2, <3>3, MetadataJob, Zenon
  <2>2. CASE tokens # 0
    <3>1. PICK k : k = [j EXCEPT !.pc = "copy_mint", !.row = tokens, !.supply = Amount(tokens)]
      OBVIOUS
    <3>2. Of(tokens, Mint) /\ tokens \in Write_ /\ Amount(tokens) \in Nat
      BY <1>0, <2>2, Writes, Zenon DEF RowsInv, Of, Amount
    <3>3. k \in Job /\ k.i = j.i /\ k.pc = "copy_mint" /\ k.row = tokens
      BY <1>0, <3>1, <3>2, ZenonT(30) DEF Job, Steps, MetadataSteps
    <3>4. Goto(j, k)
      BY <2>2, <3>1 DEF FetchMint
    <3>5. JobInv(k)'
      BY <1>1, <3>2, <3>3, MetadataJob
    <3> QED
      BY <3>3, <3>4, <3>5
  <2> QED
    BY <2>1, <2>2
<1>3. JobMoves(j) /\ UNCHANGED errors
  BY <1>2, GoesTo
<1> QED
  BY <1>0, <1>1, <1>3, Untouched DEF Good, tables

\* copies it although it may be outdated,
LEMMA CopyMintStep ==
    ASSUME Inv, NEW j \in jobs, CopyMint(j)
    PROVE  Good /\ JobMoves(j) /\ UNCHANGED <<kind, writes>>
<1>0. ChainInv /\ RowsInv /\ j \in Job /\ JobInv(j)
  BY JobFacts
<1>1. /\ upsert_assets_mint_account_columns(j.row) /\ Goto(j, [j EXCEPT !.pc = Owned(j), !.row = 0])
      /\ UNCHANGED <<kind, writes, tokens, token_accounts, data, edition, inscription, stray, blind>>
      /\ j.pc \in MetadataSteps
  BY DEF CopyMint, MetadataSteps
<1>2. Of(j.row, Mint) /\ j.row \in DOMAIN writes
  BY <1>0 DEF CopyMint, JobInv, Of
<1>3. GoodAsset
  BY <1>0, <1>1, <1>2, SupplyColumns
<1>4. PICK k : k = [j EXCEPT !.pc = Owned(j), !.row = 0]
  OBVIOUS
<1>5. k \in Job /\ k.i = j.i /\ k.pc \in {"fetch_owner", "save"}
  <2>1. 0 \in Write_
    BY AccountAssumption DEF Write_
  <2> QED
    BY <1>0, <1>4, <2>1, OwnedType, Zenon DEF Job
<1>6. JobMoves(j) /\ UNCHANGED errors
  BY <1>1, <1>4, <1>5, MetadataJob, GoesTo, Zenon
<1> QED
  BY <1>0, <1>1, <1>3, <1>6, Untouched DEF Good

\* reads a row of a token account,
LEMMA FetchOwnerStep ==
    ASSUME Inv, NEW j \in jobs, FetchOwner(j)
    PROVE  Good /\ JobMoves(j) /\ UNCHANGED <<kind, writes>>
<1>0. ChainInv /\ RowsInv /\ j \in Job
  BY JobFacts
<1>1. UNCHANGED <<kind, writes, tables, blind>> /\ j.pc \in MetadataSteps
  BY ZenonT(30) DEF FetchOwner, MetadataSteps
<1>2. \E k \in Job : k.i = j.i /\ Goto(j, k) /\ JobInv(k)'
  <2>1. CASE To(j, "save")
    <3>1. PICK k : k = [j EXCEPT !.pc = "save"]
      BY Zenon
    <3>2. k \in Job /\ k.i = j.i /\ k.pc \in {"fetch_owner", "save"}
      BY <1>0, <3>1, OwnedType DEF Job
    <3>3. Goto(j, k)
      BY <2>1, <3>1 DEF To
    <3> QED
      BY <1>1, <3>2, <3>3, MetadataJob, Zenon
  <2>2. CASE \E t \in Holders : Goto(j, [j EXCEPT !.pc = "copy_owner", !.row = token_accounts[t]])
    <3>1. PICK t \in Holders : Goto(j, [j EXCEPT !.pc = "copy_owner", !.row = token_accounts[t]])
      BY <2>2, Zenon
    <3>2. t \in TokenAccounts /\ token_accounts[t] # 0
      BY DEF Holders
    <3>3. Of(token_accounts[t], t) /\ token_accounts[t] \in Write_
      BY <1>0, <3>2, Writes DEF RowsInv, Of
    <3>4. PICK k : k = [j EXCEPT !.pc = "copy_owner", !.row = token_accounts[t]]
      OBVIOUS
    <3>5. k \in Job /\ k.i = j.i /\ k.pc = "copy_owner" /\ k.row = token_accounts[t]
      BY <1>0, <3>3, <3>4, Zenon DEF Job, Steps, MetadataSteps
    <3>6. JobInv(k)'
      BY <1>1, <3>2, <3>3, <3>5, MetadataJob
    <3> QED
      BY <3>1, <3>4, <3>5, <3>6, Zenon
  <2> QED
    BY <2>1, <2>2, ZenonT(30) DEF FetchOwner
<1>3. JobMoves(j) /\ UNCHANGED errors
  BY <1>2, GoesTo
<1> QED
  BY <1>0, <1>1, <1>3, Untouched DEF Good, tables

\* and copies that.
LEMMA CopyOwnerStep ==
    ASSUME Inv, NEW j \in jobs, CopyOwner(j)
    PROVE  Good /\ JobMoves(j) /\ UNCHANGED <<kind, writes>>
<1>0. ChainInv /\ RowsInv /\ j \in Job /\ JobInv(j)
  BY JobFacts
<1>1. /\ upsert_assets_token_account_columns(j.row) /\ Goto(j, [j EXCEPT !.pc = "save", !.row = 0])
      /\ UNCHANGED <<kind, writes, tokens, token_accounts, data, edition, inscription, stray, blind>>
      /\ j.pc \in MetadataSteps
  BY DEF CopyOwner, MetadataSteps
<1>2. PICK t \in TokenAccounts : Of(j.row, t) /\ j.row \in DOMAIN writes
  BY <1>0 DEF CopyOwner, JobInv, Of
<1>3. GoodAsset
  BY <1>0, <1>1, <1>2, OwnerColumns
<1>4. PICK k : k = [j EXCEPT !.pc = "save", !.row = 0]
  OBVIOUS
<1>5. k \in Job /\ k.i = j.i /\ k.pc \in {"fetch_owner", "save"}
  <2>1. 0 \in Write_
    BY AccountAssumption DEF Write_
  <2> QED
    BY <1>0, <1>4, <2>1, OwnedType, Zenon DEF Job
<1>6. JobMoves(j) /\ UNCHANGED errors
  BY <1>1, <1>4, <1>5, MetadataJob, GoesTo, Zenon
<1> QED
  BY <1>0, <1>1, <1>3, <1>6, Untouched DEF Good

\* The transaction of save_v1_asset.
LEMMA SaveStep ==
    ASSUME Inv, NEW j \in jobs, Save(j)
    PROVE  Good /\ JobMoves(j) /\ UNCHANGED <<kind, writes>>
<1>0. /\ ChainInv /\ RowsInv /\ j \in Job /\ JobInv(j) /\ j.i \in DOMAIN writes /\ Slot(j.i) \in Nat
      /\ Slot(data) \in Nat
  BY JobFacts, RowSlots
<1>1. /\ SaveData(j.i) /\ SaveAttachment(j.i)
      /\ upsert_assets_metadata_account_columns(j.i, Class(j.supply), OwnerType(j.supply))
      /\ IF kind.standard = "nft" THEN To(j, "attach") ELSE Return(j)
      /\ UNCHANGED <<kind, writes, tokens, token_accounts, inscription, stray, blind>>
      /\ j.pc \in MetadataSteps
  BY DEF Save, MetadataSteps
<1>2. /\ writes[j.i].acct = Metadata /\ writes[j.i].amount = 1 /\ ~writes[j.i].closed
      /\ ~kind.extended /\ Described = Metadata /\ Of(j.i, Described)
  BY <1>1, MetadataJob, ZenonT(30)
<1>3. GoodData /\ Slot(data') >= Slot(j.i)
  <2>1. CASE Slot(j.i) >= Slot(data) /\ data' = j.i
    BY <1>0, <1>2, <2>1 DEF GoodData, NotOlder
  <2>2. CASE ~(Slot(j.i) > Slot(data)) /\ data' = data
    BY <1>0, <2>2 DEF GoodData
  <2>3. Slot(j.i) > Slot(data) => Slot(j.i) >= Slot(data)
    BY <1>0
  <2>4. \/ Slot(j.i) > Slot(data) /\ data' = j.i
        \/ ~(Slot(j.i) > Slot(data)) /\ data' = data
    BY <1>1, Zenon DEF SaveData, Newer
  <2> QED
    BY <2>1, <2>2, <2>3, <2>4, Zenon
<1>4. GoodAsset /\ asset' # NULL /\ NotOlder(asset'.md, j.i)
  BY <1>0, <1>1, <1>2, OwnedType, MetadataColumns, Zenon
<1>5. GoodEdition
  <2>1. CASE edition # NULL
    BY <1>1, <2>1 DEF SaveAttachment, GoodEdition
  <2>2. CASE edition = NULL
    <3>1. PICK r : r = [slot |-> Slot(j.i), at |-> 0, known |-> FALSE]
      BY Zenon
    <3>2. r \in Attachment
      <4>1. 0 \in Write_ /\ FALSE \in BOOLEAN
        BY AccountAssumption DEF Write_
      <4>2. \A b \in BOOLEAN : [slot |-> Slot(j.i), at |-> 0, known |-> b] \in Attachment
        BY <1>0, <4>1, Zenon DEF Attachment
      <4> QED
        BY <3>1, <4>1, <4>2, Zenon
    <3>3. r.at = 0 /\ r.slot = Slot(j.i)
      BY <3>1
    <3>4. IsAttachment(r)
      BY <1>0, <1>2, <3>2, <3>3 DEF IsAttachment, Amount
    <3>5. edition' = r
      BY <1>1, <2>2, <3>1 DEF SaveAttachment
    <3> QED
      BY <2>2, <3>4, <3>5 DEF GoodEdition, EditionForward
  <2> QED
    BY <2>1, <2>2
<1>6. DataStored(j.i)' /\ ColumnsStored(j.i)'
  BY <1>1, <1>3, <1>4, ZenonT(30) DEF DataStored, ColumnsStored, NotOlder, Slot
<1>7. CASE kind.standard = "nft"
  <2>1. \A k \in Job : k.i = j.i /\ k.pc = "attach" => JobInv(k)'
    BY <1>1, <1>2, <1>6, <1>7, ZenonT(30)
       DEF JobInv, AccountSteps, MintSteps, MetadataSteps, CloseSteps
  <2>2. JobMoves(j) /\ UNCHANGED errors
    BY <1>1, <1>7, <2>1, Goes, ZenonT(30) DEF Steps, MetadataSteps
  <2> QED
    BY <1>0, <1>1, <1>3, <1>4, <1>5, <2>2, Untouched, ZenonT(30) DEF Good
<1>8. CASE kind.standard # "nft"
  <2>1. Applied(j.i)'
    BY <1>1, <1>2, <1>6, <1>8, Names, Zenon DEF Applied
  <2>2. JobMoves(j) /\ errors' \in 0 .. MaxErrors
    BY <1>1, <1>8, <2>1, Returns
  <2> QED
    BY <1>0, <1>1, <1>3, <1>4, <1>5, <2>2, Untouched, ZenonT(30) DEF Good
<1> QED
  BY <1>7, <1>8

\* The attachment gets its asset.
LEMMA AttachStep ==
    ASSUME Inv, NEW j \in jobs, upsert_asset_v1_account_attachments(j)
    PROVE  Good /\ JobMoves(j) /\ UNCHANGED <<kind, writes>>
<1>0. /\ ChainInv /\ RowsInv /\ j \in Job /\ JobInv(j) /\ j.i \in DOMAIN writes /\ Slot(j.i) \in Nat
  BY JobFacts
<1>1. /\ edition' = (IF edition = NULL THEN [slot |-> Slot(j.i), at |-> 0, known |-> TRUE]
                     ELSE [edition EXCEPT !.known = TRUE])
      /\ Return(j)
      /\ UNCHANGED <<kind, writes, tokens, token_accounts, asset, data, inscription, stray, blind>>
      /\ j.pc \in MetadataSteps /\ j.pc = "attach"
  BY DEF upsert_asset_v1_account_attachments, MetadataSteps
<1>2. /\ writes[j.i].acct = Metadata /\ writes[j.i].amount = 1 /\ ~writes[j.i].closed
      /\ ~kind.extended /\ Described = Metadata /\ Of(j.i, Described)
  BY <1>1, MetadataJob
<1>3. TRUE \in BOOLEAN /\ 0 \in Write_
  BY AccountAssumption DEF Write_
<1>4. PICK r : r = edition'
  OBVIOUS
<1>5. IsAttachment(r) /\ EditionForward(r) /\ r.known
  <2>1. CASE edition = NULL
    <3>1. \A b \in BOOLEAN : [slot |-> Slot(j.i), at |-> 0, known |-> b] \in Attachment
      BY <1>0, <1>3, Zenon DEF Attachment
    <3>2. r \in Attachment
      BY <1>1, <1>3, <1>4, <2>1, <3>1, Zenon
    <3>3. r.at = 0 /\ r.slot = Slot(j.i) /\ r.known
      BY <1>1, <1>4, <2>1
    <3>4. Of(j.i, Metadata) /\ Amount(j.i) = 1
      BY <1>2, Zenon DEF Amount
    <3>5. IsAttachment(r)
      BY <1>0, <3>2, <3>3, <3>4, Zenon DEF IsAttachment
    <3> QED
      BY <2>1, <3>3, <3>5, Zenon DEF EditionForward
  <2>2. CASE edition # NULL
    <3>1. IsAttachment(edition) /\ edition \in Attachment
      BY <1>0, <2>2 DEF RowsInv, IsAttachment
    <3>2. \A b \in BOOLEAN : [edition EXCEPT !.known = b] \in Attachment
      BY <3>1 DEF Attachment
    <3>3. r \in Attachment
      BY <1>1, <1>3, <1>4, <2>2, <3>2, Zenon
    <3>4. r.at = edition.at /\ r.slot = edition.slot /\ r.known /\ edition.slot \in Nat
      BY <1>1, <1>4, <2>2, <3>1 DEF Attachment
    <3>5. IsAttachment(r)
      BY <3>1, <3>3, <3>4, Zenon DEF IsAttachment
    <3>6. EditionForward(r)
      BY <3>4 DEF EditionForward
    <3> QED
      BY <3>4, <3>5, <3>6, Zenon
  <2> QED
    BY <2>1, <2>2
<1>6. GoodEdition /\ Attached'
  <2>1. r # NULL
    BY <1>5, AccountAssumption DEF IsAttachment
  <2> QED
    BY <1>4, <1>5, <2>1 DEF GoodEdition, Attached
<1>7. DataStored(j.i)' /\ ColumnsStored(j.i)'
  <2>1. DataStored(j.i) /\ ColumnsStored(j.i)
    BY <1>0, <1>1 DEF JobInv
  <2> QED
    BY <1>1, <2>1 DEF DataStored, ColumnsStored, NotOlder, Slot
<1>8. Applied(j.i)'
  <2>1. /\ Metadata # Mint /\ Metadata # Edition /\ Metadata # Inscription
        /\ Metadata \notin TokenAccounts
    BY Names
  <2>2. writes'[j.i].acct = Metadata
    BY <1>1, <1>2
  <2> QED
    BY <1>6, <1>7, <2>1, <2>2, Zenon DEF Applied
<1>9. JobMoves(j) /\ errors' \in 0 .. MaxErrors
  BY <1>1, <1>8, Returns
<1> QED
  BY <1>0, <1>1, <1>6, <1>9, Untouched DEF Good

\* Metadata that was emptied, editions and inscriptions.
LEMMA BurnStep ==
    ASSUME Inv, NEW j \in jobs, burn_v1_asset(j)
    PROVE  Good /\ JobMoves(j) /\ UNCHANGED <<kind, writes>>
<1>0. ChainInv /\ RowsInv /\ JobInv(j)
  BY JobFacts
<1>1. /\ Return(j)
      /\ UNCHANGED <<kind, writes, tokens, token_accounts, asset, data, edition, inscription, blind>>
  BY DEF burn_v1_asset
<1>2. writes[j.i].acct = Metadata /\ writes[j.i].amount = 0
  BY <1>0, ZenonT(30) DEF burn_v1_asset, JobInv
<1>3. Applied(j.i)'
  <2>1. /\ writes'[j.i].acct = Metadata /\ writes'[j.i].amount # 1
        /\ Metadata # Mint /\ Metadata # Edition /\ Metadata # Inscription
        /\ Metadata \notin TokenAccounts
    BY <1>1, <1>2, Names
  <2> QED
    BY <2>1, Zenon DEF Applied
<1>4. JobMoves(j) /\ errors' \in 0 .. MaxErrors
  BY <1>1, <1>3, Returns
<1> QED
  BY <1>0, <1>1, <1>4, Untouched DEF Good

\* The attachment takes the edition.
LEMMA EditionStep ==
    ASSUME Inv, NEW j \in jobs, save_master_edition(j)
    PROVE  Good /\ JobMoves(j) /\ UNCHANGED <<kind, writes>>
<1>0. /\ ChainInv /\ RowsInv /\ JobInv(j) /\ Slot(j.i) \in Nat /\ j.i \in Write_ /\ j.i # 0
      /\ Of(j.i, writes[j.i].acct)
  BY JobFacts
<1>1. /\ edition' = (IF edition = NULL THEN [slot |-> Slot(j.i), at |-> j.i, known |-> FALSE]
                     ELSE IF Slot(j.i) >= edition.slot
                     THEN [edition EXCEPT !.slot = Slot(j.i), !.at = j.i]
                     ELSE edition)
      /\ Return(j)
      /\ UNCHANGED <<kind, writes, tokens, token_accounts, asset, data, inscription, stray, blind>>
  BY DEF save_master_edition
<1>2. writes[j.i].acct = Edition /\ Of(j.i, Edition)
  BY <1>0 DEF save_master_edition, JobInv
<1>3. PICK r : r = edition'
  OBVIOUS
<1>4. /\ IsAttachment(r) /\ EditionForward(r)
      /\ r.slot >= Slot(j.i) /\ (r.at = 0 => r.slot > Slot(j.i))
  <2>1. CASE edition = NULL
    <3>1. \A b \in BOOLEAN : [slot |-> Slot(j.i), at |-> j.i, known |-> b] \in Attachment
      BY <1>0 DEF Attachment
    <3>2. r \in Attachment
      <4>1. FALSE \in BOOLEAN
        OBVIOUS
      <4> QED
        BY <1>1, <1>3, <2>1, <3>1, <4>1, Zenon
    <3>3. r.at = j.i /\ r.slot = Slot(j.i)
      BY <1>1, <1>3, <2>1
    <3> QED
      BY <1>0, <1>2, <2>1, <3>2, <3>3 DEF IsAttachment, EditionForward
  <2>2. CASE edition # NULL /\ Slot(j.i) >= edition.slot
    <3>1. edition \in Attachment
      BY <1>0, <2>2 DEF RowsInv, IsAttachment
    <3>2. r = [edition EXCEPT !.slot = Slot(j.i), !.at = j.i]
      BY <1>1, <1>3, <2>2
    <3>3. r \in Attachment /\ r.at = j.i /\ r.slot = Slot(j.i) /\ r.known = edition.known
      BY <1>0, <3>1, <3>2, ZenonT(30) DEF Attachment
    <3> QED
      BY <1>0, <1>2, <2>2, <3>3 DEF IsAttachment, EditionForward
  <2>3. CASE edition # NULL /\ ~(Slot(j.i) >= edition.slot)
    <3>1. IsAttachment(edition) /\ edition.slot \in Nat /\ r = edition
      BY <1>0, <1>1, <1>3, <2>3, RowSlots DEF RowsInv
    <3> QED
      BY <1>0, <2>3, <3>1 DEF EditionForward
  <2> QED
    BY <2>1, <2>2, <2>3
<1>5. GoodEdition /\ EditionStored(j.i)'
  <2>1. r # NULL
    BY <1>4, AccountAssumption DEF IsAttachment
  <2> QED
    BY <1>1, <1>3, <1>4, <2>1 DEF GoodEdition, EditionStored, Slot
<1>6. Applied(j.i)'
  <2>1. Edition # Mint /\ Edition # Metadata /\ Edition # Inscription /\ Edition \notin TokenAccounts
    BY Names
  <2> QED
    BY <1>1, <1>2, <1>5, <2>1, Zenon DEF Applied
<1>7. JobMoves(j) /\ errors' \in 0 .. MaxErrors
  BY <1>1, <1>6, Returns
<1> QED
  BY <1>0, <1>1, <1>5, <1>7, Untouched DEF Good

\* The attachment takes the inscription.
LEMMA InscriptionStep ==
    ASSUME Inv, NEW j \in jobs, handle_token_inscription_program_update(j)
    PROVE  Good /\ JobMoves(j) /\ UNCHANGED <<kind, writes>>
<1>0. /\ ChainInv /\ RowsInv /\ JobInv(j) /\ Slot(j.i) \in Nat /\ Slot(inscription) \in Nat
      /\ Of(j.i, writes[j.i].acct)
  BY JobFacts, RowSlots
<1>1. /\ inscription' = (IF Newer(j.i, inscription) THEN j.i ELSE inscription) /\ Return(j)
      /\ UNCHANGED <<kind, writes, tokens, token_accounts, asset, data, edition, stray, blind>>
  BY DEF handle_token_inscription_program_update
<1>2. writes[j.i].acct = Inscription
  BY <1>0, ZenonT(30) DEF handle_token_inscription_program_update, JobInv
<1>3. GoodInscription /\ Slot(inscription') >= Slot(j.i)
  BY <1>0, <1>1, <1>2 DEF GoodInscription, Newer, NotOlder
<1>4. InscriptionStored(j.i)'
  BY <1>1, <1>3 DEF InscriptionStored, NotOlder, Slot
<1>5. Applied(j.i)'
  <2>1. /\ Inscription # Mint /\ Inscription # Metadata /\ Inscription # Edition
        /\ Inscription \notin TokenAccounts
    BY Names
  <2> QED
    BY <1>1, <1>2, <1>4, <2>1, Zenon DEF Applied
<1>6. JobMoves(j) /\ errors' \in 0 .. MaxErrors
  BY <1>1, <1>5, Returns
<1> QED
  BY <1>0, <1>1, <1>3, <1>6, Untouched, Zenon DEF Good

\* The handler of a closed account.
LEMMA CloseJob ==
    ASSUME Inv, NEW j \in jobs, j.pc \in CloseSteps, UNCHANGED <<kind, writes>>
    PROVE  /\ writes[j.i].closed /\ Shut(writes[j.i].acct)
           /\ j.pc \in {"delete_mint", "set_burnt"} => writes[j.i].acct = Mint
           /\ \A k \in Job : /\ k.i = j.i /\ k.pc \in CloseSteps
                             /\ k.pc \in {"delete_mint", "set_burnt"} => writes[j.i].acct = Mint
                             => JobInv(k)'
           /\ Applied(j.i)'
<1>0. ChainInv /\ JobInv(j) /\ j.i \in DOMAIN writes
  BY JobFacts
<1>1. writes[j.i].closed /\ (j.pc \in {"delete_mint", "set_burnt"} => writes[j.i].acct = Mint)
  BY <1>0, Zenon DEF JobInv
<1>2. Shut(writes[j.i].acct)
  BY <1>0, <1>1 DEF Shut
<1>3. ASSUME NEW k \in Job, k.i = j.i, k.pc \in CloseSteps,
             k.pc \in {"delete_mint", "set_burnt"} => writes[j.i].acct = Mint
      PROVE  JobInv(k)'
  BY <1>1, <1>3, ZenonT(30) DEF JobInv, AccountSteps, MintSteps, MetadataSteps, CloseSteps
<1>4. Applied(j.i)'
  BY <1>1, Zenon DEF Applied
<1> QED
  BY <1>1, <1>2, <1>3, <1>4

\* The SELECT of the closed account, answered or failed.
LEMMA FindClosedStep ==
    ASSUME Inv, NEW j \in jobs, FindClosed(j) \/ FindClosedFails(j)
    PROVE  Good /\ JobMoves(j) /\ UNCHANGED <<kind, writes>>
<1>0. ChainInv /\ RowsInv /\ j \in Job
  BY JobFacts
<1>1. UNCHANGED <<kind, writes, tables, blind>> /\ j.pc \in CloseSteps
  BY DEF FindClosed, FindClosedFails, CloseSteps
<1>2. PICK pc \in CloseSteps :
          /\ pc \in {"delete_mint", "set_burnt"} => writes[j.i].acct = Mint
          /\ jobs' = (jobs \ {j}) \cup {[j EXCEPT !.pc = pc]} /\ pending' = pending
          /\ Trouble \/ UNCHANGED errors
  BY DEF FindClosed, FindClosedFails, CloseSteps, To, Goto
<1>3. PICK k : k = [j EXCEPT !.pc = pc]
  BY Zenon
<1>4. k \in Job /\ k.i = j.i /\ k.pc = pc
  BY <1>0, <1>3 DEF Job, Steps
<1>5. JobInv(k)'
  BY <1>1, <1>2, <1>4, CloseJob
<1>6. JobMoves(j)
  BY <1>2, <1>3, <1>4, <1>5, Zenon DEF JobMoves
<1> QED
  BY <1>0, <1>1, <1>2, <1>6, Untouched DEF Good, tables

\* The second of the two statements that run at the same time.
LEMMA SecondType ==
    ASSUME Inv, NEW j \in jobs, j.pc \in {"delete_mint", "set_burnt"}
    PROVE  Second(j) \in Job /\ Second(j).i = j.i /\ Second(j).pc \in {"delete_mint", "set_burnt"}
<1>1. j \in Job /\ 1 \in Write_
  BY JobFacts, AccountAssumption DEF Write_
<1>2. PICK pc \in {"delete_mint", "set_burnt"} : Second(j) = [j EXCEPT !.pc = pc, !.row = 1]
  BY <1>1, Zenon DEF Second
<1>3. pc \in Steps
  BY <1>2 DEF Steps, CloseSteps
<1> QED
  BY <1>1, <1>2, <1>3, Zenon DEF Job

\* Both statements are through, or one is.
LEMMA Joins ==
    ASSUME Inv, NEW j \in jobs, j.pc \in {"delete_mint", "set_burnt"}, UNCHANGED <<kind, writes>>,
           \/ Join(j)
           \/ jobs' = (jobs \ {j}) \cup {Second(j)} /\ UNCHANGED pending
           \/ jobs' = jobs \ {j} /\ pending' = pending \ {j.i}
    PROVE  JobMoves(j)
<1>1. j.pc \in CloseSteps
  BY DEF CloseSteps
<1>2. CASE jobs' = (jobs \ {j}) \cup {Second(j)} /\ UNCHANGED pending
  <2>1. PICK k : k = Second(j)
    OBVIOUS
  <2>2. k \in Job /\ k.i = j.i /\ k.pc \in {"delete_mint", "set_burnt"} /\ k.pc \in CloseSteps
    BY <2>1, SecondType DEF CloseSteps
  <2>3. JobInv(k)'
    BY <1>1, <2>2, CloseJob
  <2> QED
    BY <1>2, <2>1, <2>2, <2>3 DEF JobMoves
<1>3. CASE jobs' = jobs \ {j} /\ pending' = pending \ {j.i}
  BY <1>1, <1>3, CloseJob, ZenonT(30) DEF JobMoves
<1>4. CASE Return(j)
  BY <1>1, <1>4, CloseJob, Returns, Zenon
<1> QED
  BY <1>2, <1>3, <1>4 DEF Join, Goto

\* The update that sets an asset burnt changes no other column.
LEMMA BurntStep ==
    ASSUME RowsInv, ChainInv, asset # NULL, asset' = [asset EXCEPT !.burnt = TRUE]
    PROVE  GoodAsset
<1>1. IsAsset(asset) /\ asset \in Asset
  BY DEF RowsInv, IsAsset
<1>2. PICK r : r = [asset EXCEPT !.burnt = TRUE]
  OBVIOUS
<1>3. r \in Asset
  <2>1. \A b \in BOOLEAN : [asset EXCEPT !.burnt = b] \in Asset
    BY <1>1 DEF Asset
  <2>2. TRUE \in BOOLEAN
    OBVIOUS
  <2> QED
    BY <1>2, <2>1, <2>2, Zenon
<1>4. r.ta = asset.ta /\ r.mint = asset.mint /\ r.md = asset.md
  BY <1>1, <1>2 DEF Asset
<1>5. Slot(asset.ta) \in Nat /\ Slot(asset.mint) \in Nat /\ Slot(asset.md) \in Nat
  BY <1>1, RowSlots
<1>6. IsAsset(r) /\ AssetForward(r)
  BY <1>1, <1>3, <1>4, <1>5 DEF IsAsset, AssetForward, NotOlder
<1> QED
  BY <1>2, <1>6 DEF GoodAsset

\* The delete of the mint and the update of its asset.
LEMMA CloseMintStep ==
    ASSUME Inv, NEW j \in jobs, DeleteMint(j) \/ SetBurnt(j)
    PROVE  Good /\ JobMoves(j) /\ UNCHANGED <<kind, writes>>
<1>0. ChainInv /\ RowsInv
  BY JobFacts
<1>1. /\ j.pc \in {"delete_mint", "set_burnt"} /\ j.pc \in CloseSteps /\ Join(j)
      /\ UNCHANGED <<kind, writes, token_accounts, data, edition, inscription, stray, blind>>
  BY DEF DeleteMint, SetBurnt, CloseSteps
<1>2. JobMoves(j) /\ Shut(Mint)
  BY <1>1, Joins, CloseJob, Zenon
<1>3. Trouble \/ UNCHANGED errors
  BY <1>1 DEF Join, Goto, Return
<1>4. GoodTokens /\ GoodAsset
  <2>1. CASE DeleteMint(j)
    BY <1>2, <2>1 DEF DeleteMint, GoodTokens, GoodAsset
  <2>2. CASE SetBurnt(j)
    BY <1>0, <2>2, BurntStep DEF SetBurnt, GoodTokens, GoodAsset
  <2> QED
    BY <2>1, <2>2
<1> QED
  BY <1>0, <1>1, <1>2, <1>3, <1>4, Untouched DEF Good

\* The delete of a token account.
LEMMA DeleteAccountStep ==
    ASSUME Inv, NEW j \in jobs, DeleteAccount(j)
    PROVE  Good /\ JobMoves(j) /\ UNCHANGED <<kind, writes>>
<1>0. ChainInv /\ RowsInv
  BY JobFacts
<1>1. PICK a : a = writes[j.i].acct
  OBVIOUS
<1>2. /\ token_accounts' = [t \in TokenAccounts |-> IF t = a THEN 0 ELSE token_accounts[t]]
      /\ UNCHANGED <<kind, writes, tokens, asset, data, edition, inscription, stray, blind>>
      /\ Return(j) /\ j.pc \in CloseSteps
  BY <1>1, ZenonT(30) DEF DeleteAccount, CloseSteps
<1>3. Shut(a) /\ Applied(j.i)'
  BY <1>1, <1>2, CloseJob, Zenon
<1>4. GoodAccounts
  BY <1>0, <1>2, <1>3 DEF GoodAccounts, RowsInv
<1>5. JobMoves(j) /\ errors' \in 0 .. MaxErrors
  BY <1>2, <1>3, Returns
<1> QED
  BY <1>0, <1>2, <1>4, <1>5, Untouched DEF Good

\* A failed statement, skipped or not.
LEMMA SkipStep ==
    ASSUME Inv, NEW j \in jobs, Skip(j) \/ Fail(j)
    PROVE  Good /\ JobMoves(j) /\ UNCHANGED <<kind, writes>>
<1>0. ChainInv /\ RowsInv
  BY JobFacts
<1>1. UNCHANGED <<kind, writes, tables, blind>> /\ Trouble
  BY DEF Skip, Fail
<1>2. JobMoves(j)
  <2>1. CASE Fail(j)
    BY <2>1 DEF Fail, JobMoves
  <2>2. CASE Skip(j) /\ j.pc # "delete_account"
    <3>1. j.pc \in {"delete_mint", "set_burnt"}
      BY <2>2 DEF Skip
    <3> QED
      BY <1>1, <2>2, <3>1, Joins DEF Skip
  <2>3. CASE Skip(j) /\ j.pc = "delete_account"
    <3>1. Applied(j.i)'
      BY <1>1, <2>3, CloseJob DEF CloseSteps
    <3> QED
      BY <2>3, <3>1 DEF Skip, JobMoves
  <2> QED
    BY <2>1, <2>2, <2>3
<1> QED
  BY <1>0, <1>1, <1>2, Untouched DEF Good, tables

\* Every statement.
LEMMA HandleStep ==
    ASSUME Inv, NEW j \in jobs, handle(j)
    PROVE  Good /\ JobMoves(j) /\ UNCHANGED <<kind, writes>>
<1>1. CASE TokenStatement(j) \/ UpsertAssetData(j) \/ SetMetadataCols(j)
  BY <1>1, TokenAccountStep, FindMintStep, OwnerStep, MintStep, SupplyStep, AssetDataStep,
     MetadataColsStep DEF TokenStatement
<1>2. CASE handle_token_metadata_account(j)
  BY <1>2, FetchMintStep, CopyMintStep, FetchOwnerStep, CopyOwnerStep, SaveStep, AttachStep, BurnStep,
     EditionStep DEF handle_token_metadata_account, save_v1_asset
<1>3. CASE handle_token_program_close_ix(j)
  BY <1>3, FindClosedStep, CloseMintStep, DeleteAccountStep, SkipStep DEF handle_token_program_close_ix
<1> QED
  BY <1>1, <1>2, <1>3, InscriptionStep, SkipStep
     DEF handle, handle_token_program_account, handle_token_extensions_program_account

\* A worker takes a message.
LEMMA FirstIs ==
    ASSUME ChainInv, NEW i \in DOMAIN writes, NEW k, k.i = i, k.pc = First(writes[i])
    PROVE  k.pc \in Steps /\ JobInv(k)
<1>1. PICK w : w = writes[k.i]
  OBVIOUS
<1>2. /\ w.acct \in Accounts /\ (w.acct = Metadata => ~w.closed /\ w.amount \in {0, 1})
  BY <1>1, Writes, ZenonT(30) DEF ChainInv, WriteType
<1>3. k.pc = First(w)
  BY <1>1
<1> USE DEF AccountSteps, MintSteps, MetadataSteps, CloseSteps, Steps
<1>4. CASE w.closed
  <2>1. k.pc = "close"
    BY <1>3, <1>4 DEF First
  <2> QED
    BY <1>1, <1>4, <2>1, Zenon DEF JobInv
<1>5. CASE ~w.closed /\ w.acct = Mint
  <2>1. k.pc = "tokens"
    BY <1>3, <1>5, Names DEF First
  <2> QED
    BY <1>1, <1>5, <2>1, Zenon DEF JobInv
<1>6. CASE ~w.closed /\ w.acct = Metadata
  <2>1. k.pc = IF w.amount = 0 THEN "burn" ELSE "fetch_mint"
    BY <1>3, <1>6, Names DEF First
  <2> QED
    BY <1>1, <1>2, <1>6, <2>1, Zenon DEF JobInv
<1>7. CASE ~w.closed /\ w.acct = Edition
  <2>1. k.pc = "edition"
    BY <1>3, <1>7, Names DEF First
  <2> QED
    BY <1>1, <1>7, <2>1, Zenon DEF JobInv
<1>8. CASE ~w.closed /\ w.acct = Inscription
  <2>1. k.pc = "inscription"
    BY <1>3, <1>8, Names DEF First
  <2> QED
    BY <1>1, <1>8, <2>1, Zenon DEF JobInv
<1>9. CASE ~w.closed /\ w.acct \in TokenAccounts
  <2>1. k.pc = "token_accounts"
    BY <1>3, <1>9, Names DEF First
  <2> QED
    BY <1>1, <1>9, <2>1, Zenon DEF JobInv
<1> QED
  BY <1>2, <1>4, <1>5, <1>6, <1>7, <1>8, <1>9, Zenon DEF Accounts

\* A new handler knows its account and has read nothing.
LEMMA BeginStep ==
    ASSUME Inv, NEW i \in pending, Begin(i)
    PROVE  Inv' /\ Later /\ Good
<1>0. ChainInv /\ RowsInv /\ JobsInv /\ AppliedInv
  BY DEF Inv
<1>1. PICK k : k = [i |-> i, pc |-> First(writes[i]), row |-> 0, supply |-> 1]
  BY ZenonT(30)
<1>2. /\ jobs' = jobs \cup {k} /\ UNCHANGED <<kind, writes, pending, tables, errors, blind>>
      /\ \A j \in jobs : j.i # i
  BY <1>1, Zenon DEF Begin
<1>3. i \in DOMAIN writes /\ i \in Nat /\ 0 \in Write_ /\ 1 \in Nat
  <2>1. i \in DOMAIN writes
    BY <1>0, Zenon DEF JobsInv
  <2>2. 0 \in Write_
    BY AccountAssumption DEF Write_
  <2> QED
    BY <1>0, <2>1, <2>2, Writes
<1>4. k.i = i /\ k.pc \in Steps /\ JobInv(k)
  BY <1>0, <1>1, <1>3, FirstIs, Zenon
<1>5. k \in Job
  BY <1>1, <1>3, <1>4, ZenonT(30) DEF Job
<1>6. Later /\ Good
  BY <1>0, <1>2, Untouched DEF Later, Good, tables, RowsInv
<1>7. ChainInv' /\ RowsInv'
  BY <1>0, <1>2, <1>6, GoodRows, ZenonT(30) DEF ChainInv
<1>8. AppliedInv'
  BY <1>0, <1>2, <1>6, AppliedStays, ZenonT(30) DEF AppliedInv
<1>9. JobsInv'
  <2>1. \A j \in jobs' : j \in Job /\ j.i \in pending /\ JobInv(j)'
    BY <1>0, <1>2, <1>3, <1>4, <1>5, <1>6, JobStays, Zenon DEF JobsInv
  <2>2. \A j, l \in jobs' : j.i = l.i => j = l
    BY <1>0, <1>2, <1>4, Zenon DEF JobsInv
  <2> QED
    BY <1>0, <1>2, <2>1, <2>2, ZenonT(30) DEF JobsInv
<1> QED
  BY <1>6, <1>7, <1>8, <1>9 DEF Inv
================================================================================
