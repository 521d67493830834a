----------------------------- MODULE AccountIndex -----------------------------
(***************************************************************************)
(* The handlers of account updates of the token programs, of token         *)
(* metadata and of inscriptions, and of closed accounts, for one mint      *)
(* (program_transformers: token, token_extensions, token_metadata,         *)
(* token_inscription, asset_upserts and the dispatch of lib.rs).           *)
(*                                                                         *)
(* Accounts are written on chain; each write is a message with the slot    *)
(* and the content of the account.  Messages are handled in any order, by  *)
(* several workers at a time and again after a failure, and each handler   *)
(* is a series of statements.  A row, or a group of columns, is modelled   *)
(* by the write it was taken from: 0 if there is none.  Its slot and its   *)
(* content are those of the write.                                         *)
(***************************************************************************)
EXTENDS Naturals, Sequences, FiniteSets, FiniteSetsExt

CONSTANTS
    TokenAccounts,  \* accounts that hold the token; each stands for its owner
    Kinds,          \* mints: [standard, supply, extended]
    MaxWrites,      \* bound on the writes
    MaxBusy,        \* messages handled at a time
    MaxErrors,      \* bound on failed statements and acknowledgements
    NULL

Mint == "mint"
Metadata == "metadata"
Edition == "edition"
Inscription == "inscription"

\* Rows of asset, by the writes of their groups of columns, and of attachments.
Write_ == 0 .. MaxWrites
Asset == [ta : Write_, mint : Write_, md : Write_, class : {NULL, "nft", "fungible", "unknown"},
          owner_type : {"single", "token", "unknown"}, burnt : BOOLEAN]
Attachment == [slot : Nat, at : Write_, known : BOOLEAN]

ASSUME AccountAssumption ==
    /\ TokenAccounts # {} /\ TokenAccounts \cap {Mint, Metadata, Edition, Inscription} = {}
    /\ {MaxWrites, MaxBusy, MaxErrors} \subseteq Nat /\ MaxWrites >= 2
    /\ NULL \notin Asset \cup Attachment
    /\ Kinds \subseteq [standard : {"nft", "fungible", "none"}, supply : Nat, extended : BOOLEAN]

VARIABLES
    kind,           \* the mint: extended if it has the metadata of token extensions
    writes,         \* writes on chain: account, slot, amount, closed
    pending,        \* writes whose message is not acknowledged
    jobs,           \* messages being handled: write, next statement, rows read
    tokens,         \* row of tokens
    token_accounts, \* rows of token_accounts
    asset,          \* row of asset, or NULL
    data,           \* rows of asset_data and asset_authority
    edition,        \* attachment of the edition: slot, write, asset known; or NULL
    inscription,    \* attachment of the inscription
    stray,          \* slot of the asset row under the metadata account's own address
    errors,
    blind           \* has a token account been handled that found no mint?

tables == <<tokens, token_accounts, asset, data, edition, inscription, stray>>
vars == <<kind, writes, pending, jobs, tables, errors, blind>>

Amount(i) == writes[i].amount
Slot(i) == IF i = 0 THEN 0 ELSE writes[i].slot

\* The two guards of the upserts; a row that is not there never stops one.
Newer(i, old) == Slot(i) > Slot(old)
NotOlder(i, old) == Slot(i) >= Slot(old)

Trouble == errors < MaxErrors /\ errors' = errors + 1

-----------------------------------------------------------------------------
(* The chain.                                                              *)

\* The last write of an account, 0 if there is none.
Last(a) == Max({0} \cup {i \in DOMAIN writes : writes[i].acct = a})
Open(a) == Last(a) # 0 /\ ~writes[Last(a)].closed
Holds(a) == Open(a) /\ Amount(Last(a)) > 0

Write(a, n, slot) == [acct |-> a, slot |-> slot, amount |-> n, closed |-> FALSE]
Closed(a, slot) == [acct |-> a, slot |-> slot, amount |-> 0, closed |-> TRUE]

Emit(new) ==
    /\ Len(writes) + Len(new) <= MaxWrites
    /\ writes' = writes \o new
    /\ pending' = pending \cup Len(writes) + 1 .. Len(writes) + Len(new)
    /\ UNCHANGED <<kind, jobs, tables, errors, blind>>

\* A transaction of the token program or of token metadata, in the slot of the
\* last one or a later one.
Transact ==
    \E s \in {Slot(Len(writes)), Slot(Len(writes)) + 1} :
        \/ \E t \in TokenAccounts :  \* a delegate or a freeze, or a new account
              Open(Mint) /\ Emit(<<Write(t, IF Open(t) THEN Amount(Last(t)) ELSE 0, s)>>)
        \/ \E t, u \in TokenAccounts :
              t # u /\ Holds(t) /\ Emit(<<Write(t, 0, s), Write(u, 1, s)>>)
        \/ \E t \in TokenAccounts :
              Open(t) /\ ~Holds(t) /\ Emit(<<Closed(t, s)>>)
        \/ Open(Mint) /\ ~kind.extended /\ Emit(<<Write(Metadata, 1, s)>>)
        \/ \E a \in {Edition, Inscription} :
              Holds(Metadata) /\ kind.standard = "nft" /\ Emit(<<Write(a, 1, s)>>)
        \/ \E t \in TokenAccounts :
              /\ Holds(t) /\ Holds(Metadata)
              /\ Emit(<<Write(Mint, 0, s), Closed(t, s), Write(Metadata, 0, s)>>)
        \/ \E t \in TokenAccounts :
              /\ Holds(t) /\ kind.extended
              /\ Emit(<<Closed(t, s), Closed(Mint, s)>>)

-----------------------------------------------------------------------------
(* Messages and workers.                                                   *)

\* Mutant: every account that is not metadata is taken for the mint.
First_mint(w) ==
    IF w.closed THEN "close"
    ELSE CASE w.acct = Metadata   -> IF w.amount = 0 THEN "burn" ELSE "fetch_mint"
           [] OTHER               -> "tokens"

\* handle_account_update and handle_transaction: the first statement of the
\* handler of a message.
First(w) ==
    IF w.closed THEN "close"
    ELSE CASE w.acct = Mint        -> "tokens"
           [] w.acct = Metadata    -> IF w.amount = 0 THEN "burn" ELSE "fetch_mint"
           [] w.acct = Edition     -> "edition"
           [] w.acct = Inscription -> "inscription"
           [] OTHER                -> "token_accounts"

Begin(i) ==
    /\ i \in pending /\ \A j \in jobs : j.i # i
    /\ Cardinality(jobs) < MaxBusy
    /\ jobs' = jobs \cup {[i |-> i, pc |-> First(writes[i]), row |-> 0, supply |-> 1]}
    /\ UNCHANGED <<kind, writes, pending, tables, errors, blind>>

\* The job goes on with another statement.
Goto(j, k) == jobs' = (jobs \ {j}) \cup {k} /\ UNCHANGED <<pending, errors>>
To(j, pc) == Goto(j, [j EXCEPT !.pc = pc])

\* The handler returns; the acknowledgement may get lost.
Return(j) ==
    /\ jobs' = jobs \ {j}
    /\ \/ pending' = pending \ {j.i} /\ UNCHANGED errors
       \/ Trouble /\ UNCHANGED pending

\* A statement fails and the handler with it: the message comes again.
Fail(j) ==
    /\ j.pc \notin {"close", "delete_mint", "set_burnt", "delete_account"}
    /\ jobs' = jobs \ {j} /\ Trouble
    /\ UNCHANGED <<kind, writes, pending, tables, blind>>

-----------------------------------------------------------------------------
(* asset_upserts.rs.                                                       *)

\* A row of asset with the defaults of its columns.
Fresh == [ta |-> 0, mint |-> 0, md |-> 0, class |-> NULL, owner_type |-> "single",
          burnt |-> FALSE]

\* Mutant: the guard is left out.
upsert_assets_token_account_columns_always(i) ==
    asset' = [IF asset = NULL THEN Fresh ELSE asset EXCEPT !.ta = i]

upsert_assets_token_account_columns(i) ==
    LET row == IF asset = NULL THEN Fresh ELSE asset
    IN  asset' = IF NotOlder(i, row.ta) THEN [row EXCEPT !.ta = i] ELSE asset

\* A new row is taken for a fungible token.
upsert_assets_mint_account_columns(i) ==
    LET row == IF asset = NULL
               THEN [Fresh EXCEPT !.class = "fungible", !.owner_type = "token"]
               ELSE asset
    IN  asset' = IF NotOlder(i, row.mint) THEN [row EXCEPT !.mint = i] ELSE asset

upsert_assets_metadata_account_columns(i, class, owner_type) ==
    LET row == IF asset = NULL THEN Fresh ELSE asset
    IN  asset' = IF NotOlder(i, row.md)
                 THEN [row EXCEPT !.md = i, !.class = class, !.owner_type = owner_type,
                                  !.burnt = FALSE]
                 ELSE asset

\* Token extensions write the slot of these columns alone.
upsert_assets_metadata_cols(i) ==
    LET row == IF asset = NULL THEN Fresh ELSE asset
    IN  asset' = IF NotOlder(i, row.md) THEN [row EXCEPT !.md = i] ELSE asset

-----------------------------------------------------------------------------
(* Token accounts and mints, of either token program.                      *)

UpsertTokenAccount(j) ==
    LET t == writes[j.i].acct
    IN  /\ j.pc = "token_accounts"
        /\ token_accounts' = [token_accounts EXCEPT ![t] = IF Newer(j.i, @) THEN j.i ELSE @]
        /\ To(j, "find_mint")
        /\ UNCHANGED <<kind, writes, tokens, asset, data, edition, inscription, stray, blind>>

\* Mutant: the supply has to be more than one.
is_non_fungible_shared(i) == i # 0 /\ Amount(i) > 1

is_non_fungible(i) == i # 0 /\ Amount(i) = 1

\* The owner is written only if the mint is known, whatever the account holds
\* and whether or not its own row was newer.
FindMint(j) ==
    /\ j.pc = "find_mint"
    /\ blind' = (blind \/ tokens = 0)
    /\ IF is_non_fungible(tokens) THEN To(j, "owner") ELSE Return(j)
    /\ UNCHANGED <<kind, writes, tables>>

SetOwner(j) ==
    /\ j.pc = "owner"
    /\ upsert_assets_token_account_columns(j.i)
    /\ Return(j)
    /\ UNCHANGED <<kind, writes, tokens, token_accounts, data, edition, inscription, stray, blind>>

UpsertMint(j) ==
    /\ j.pc = "tokens"
    /\ tokens' = IF NotOlder(j.i, tokens) THEN j.i ELSE tokens
    /\ To(j, "supply")
    /\ UNCHANGED <<kind, writes, token_accounts, asset, data, edition, inscription, stray, blind>>

SetSupply(j) ==
    /\ j.pc = "supply"
    /\ upsert_assets_mint_account_columns(j.i)
    /\ IF kind.extended THEN To(j, "asset_data") ELSE Return(j)
    /\ UNCHANGED <<kind, writes, tokens, token_accounts, data, edition, inscription, stray, blind>>

\* upsert_asset_data of token extensions: the row, then the columns of asset.
UpsertAssetData(j) ==
    /\ j.pc = "asset_data"
    /\ data' = IF NotOlder(j.i, data) THEN j.i ELSE data
    /\ To(j, "metadata_cols")
    /\ UNCHANGED <<kind, writes, tokens, token_accounts, asset, edition, inscription, stray, blind>>

SetMetadataCols(j) ==
    /\ j.pc = "metadata_cols"
    /\ upsert_assets_metadata_cols(j.i)
    /\ Return(j)
    /\ UNCHANGED <<kind, writes, tokens, token_accounts, data, edition, inscription, stray, blind>>

TokenStatement(j) ==
    UpsertTokenAccount(j) \/ FindMint(j) \/ SetOwner(j) \/ UpsertMint(j) \/ SetSupply(j)

handle_token_program_account(j) == ~kind.extended /\ TokenStatement(j)

\* Token extensions repeat the statements of the token program.
handle_token_extensions_program_account(j) ==
    kind.extended /\ (TokenStatement(j) \/ UpsertAssetData(j) \/ SetMetadataCols(j))

-----------------------------------------------------------------------------
(* Token metadata.                                                         *)

Class(supply) ==
    CASE kind.standard = "nft"      -> "nft"
      [] kind.standard = "fungible" -> "fungible"
      [] OTHER                      -> IF supply > 1 THEN "fungible" ELSE "unknown"

OwnerType(supply) ==
    CASE kind.standard = "nft"      -> "single"
      [] kind.standard = "fungible" -> "token"
      [] OTHER                      -> IF supply = 1 THEN "single"
                                       ELSE IF supply > 1 THEN "token" ELSE "unknown"

\* After the mint: only an asset with one owner looks for it.
Owned(j) == IF OwnerType(j.supply) \in {"single", "unknown"} THEN "fetch_owner" ELSE "save"

\* index_and_fetch_mint_data: a copy of the row of tokens; without one the
\* supply is taken to be 1.
FetchMint(j) ==
    /\ j.pc = "fetch_mint"
    /\ IF tokens = 0 THEN To(j, Owned(j))
       ELSE Goto(j, [j EXCEPT !.pc = "copy_mint", !.row = tokens, !.supply = Amount(tokens)])
    /\ UNCHANGED <<kind, writes, tables, blind>>

CopyMint(j) ==
    /\ j.pc = "copy_mint"
    /\ upsert_assets_mint_account_columns(j.row)
    /\ Goto(j, [j EXCEPT !.pc = Owned(j), !.row = 0])
    /\ UNCHANGED <<kind, writes, tokens, token_accounts, data, edition, inscription, stray, blind>>

\* The query of index_token_account_data: one of the newest rows that hold the token.
Holders ==
    LET held == {t \in TokenAccounts : token_accounts[t] # 0 /\ Amount(token_accounts[t]) > 0}
    IN  {t \in held : \A u \in held : Slot(token_accounts[t]) >= Slot(token_accounts[u])}

FetchOwner(j) ==
    /\ j.pc = "fetch_owner"
    /\ \/ Holders = {} /\ To(j, "save")
       \/ \E t \in Holders : Goto(j, [j EXCEPT !.pc = "copy_owner", !.row = token_accounts[t]])
    /\ UNCHANGED <<kind, writes, tables, blind>>

CopyOwner(j) ==
    /\ j.pc = "copy_owner"
    /\ upsert_assets_token_account_columns(j.row)
    /\ Goto(j, [j EXCEPT !.pc = "save", !.row = 0])
    /\ UNCHANGED <<kind, writes, tokens, token_accounts, data, edition, inscription, stray, blind>>

\* The statements of the transaction of save_v1_asset: asset_data, and with the same
\* guard authority and collection; asset with creators; an attachment for the edition
\* unless there is one.
SaveData(i) == data' = IF Newer(i, data) THEN i ELSE data

SaveAttachment(i) ==
    edition' = IF edition = NULL THEN [slot |-> Slot(i), at |-> 0, known |-> FALSE] ELSE edition

Save(j) ==
    /\ j.pc = "save"
    /\ SaveData(j.i)
    /\ upsert_assets_metadata_account_columns(j.i, Class(j.supply), OwnerType(j.supply))
    /\ SaveAttachment(j.i)
    /\ IF kind.standard = "nft" THEN To(j, "attach") ELSE Return(j)
    /\ UNCHANGED <<kind, writes, tokens, token_accounts, inscription, stray, blind>>

upsert_asset_v1_account_attachments(j) ==
    /\ j.pc = "attach"
    /\ edition' = IF edition = NULL THEN [slot |-> Slot(j.i), at |-> 0, known |-> TRUE]
                  ELSE [edition EXCEPT !.known = TRUE]
    /\ Return(j)
    /\ UNCHANGED <<kind, writes, tokens, token_accounts, asset, data, inscription, stray, blind>>

save_v1_asset(j) ==
    \/ FetchMint(j) \/ CopyMint(j) \/ FetchOwner(j) \/ CopyOwner(j) \/ Save(j)
    \/ upsert_asset_v1_account_attachments(j)

\* The emptied account is taken for the asset; the row of the mint is not touched.
\* The trigger leaves a row without other slots without slot_updated.
burn_v1_asset(j) ==
    /\ j.pc = "burn"
    /\ stray' = IF stray = 0 THEN Slot(j.i)
                ELSE IF stray # NULL /\ Slot(j.i) > stray THEN NULL ELSE stray
    /\ Return(j)
    /\ UNCHANGED <<kind, writes, tokens, token_accounts, asset, data, edition, inscription, blind>>

\* Mutant: the guard takes rows with a newer slot only.
save_master_edition_newer(j) ==
    /\ j.pc = "edition"
    /\ edition' = IF edition = NULL THEN [slot |-> Slot(j.i), at |-> j.i, known |-> FALSE]
                  ELSE IF Slot(j.i) > edition.slot
                  THEN [edition EXCEPT !.slot = Slot(j.i), !.at = j.i]
                  ELSE edition
    /\ Return(j)
    /\ UNCHANGED <<kind, writes, tokens, token_accounts, asset, data, inscription, stray, blind>>

save_master_edition(j) ==
    /\ j.pc = "edition"
    /\ edition' = IF edition = NULL THEN [slot |-> Slot(j.i), at |-> j.i, known |-> FALSE]
                  ELSE IF Slot(j.i) >= edition.slot
                  THEN [edition EXCEPT !.slot = Slot(j.i), !.at = j.i]
                  ELSE edition
    /\ Return(j)
    /\ UNCHANGED <<kind, writes, tokens, token_accounts, asset, data, inscription, stray, blind>>

handle_token_metadata_account(j) ==
    save_v1_asset(j) \/ burn_v1_asset(j) \/ save_master_edition(j)

handle_token_inscription_program_update(j) ==
    /\ j.pc = "inscription"
    /\ inscription' = IF Newer(j.i, inscription) THEN j.i ELSE inscription
    /\ Return(j)
    /\ UNCHANGED <<kind, writes, tokens, token_accounts, asset, data, edition, stray, blind>>

-----------------------------------------------------------------------------
(* handle_token_program_close_ix.  Its statements know no slot, and their   *)
(* errors are only logged.                                                 *)

FindClosed(j) ==
    /\ j.pc = "close"
    /\ IF writes[j.i].acct = Mint /\ tokens # 0
       THEN \E pc \in {"delete_mint", "set_burnt"} : To(j, pc)
       ELSE To(j, "delete_account")
    /\ UNCHANGED <<kind, writes, tables, blind>>

\* A failed query counts as no mint.
FindClosedFails(j) ==
    /\ j.pc = "close" /\ Trouble
    /\ jobs' = (jobs \ {j}) \cup {[j EXCEPT !.pc = "delete_account"]}
    /\ UNCHANGED <<kind, writes, pending, tables, blind>>

\* The delete and the update run at the same time: either may be the first.
Second(j) == [j EXCEPT !.pc = IF @ = "delete_mint" THEN "set_burnt" ELSE "delete_mint", !.row = 1]
Join(j) == IF j.row = 0 THEN Goto(j, Second(j)) ELSE Return(j)

DeleteMint(j) ==
    /\ j.pc = "delete_mint"
    /\ tokens' = 0
    /\ Join(j)
    /\ UNCHANGED <<kind, writes, token_accounts, asset, data, edition, inscription, stray, blind>>

SetBurnt(j) ==
    /\ j.pc = "set_burnt"
    /\ asset' = IF asset = NULL THEN NULL ELSE [asset EXCEPT !.burnt = TRUE]
    /\ Join(j)
    /\ UNCHANGED <<kind, writes, tokens, token_accounts, data, edition, inscription, stray, blind>>

DeleteAccount(j) ==
    LET a == writes[j.i].acct
    IN  /\ j.pc = "delete_account"
        /\ token_accounts' = [t \in TokenAccounts |-> IF t = a THEN 0 ELSE token_accounts[t]]
        /\ Return(j)
        /\ UNCHANGED <<kind, writes, tokens, asset, data, edition, inscription, stray, blind>>

\* A failed statement is skipped.
Skip(j) ==
    /\ j.pc \in {"delete_mint", "set_burnt", "delete_account"}
    /\ Trouble
    /\ IF j.pc # "delete_account" /\ j.row = 0
       THEN jobs' = (jobs \ {j}) \cup {Second(j)} /\ UNCHANGED pending
       ELSE jobs' = jobs \ {j} /\ pending' = pending \ {j.i}
    /\ UNCHANGED <<kind, writes, tables, blind>>

handle_token_program_close_ix(j) ==
    FindClosed(j) \/ FindClosedFails(j) \/ DeleteMint(j) \/ SetBurnt(j) \/ DeleteAccount(j) \/ Skip(j)

-----------------------------------------------------------------------------
\* A mint and its first token account.
Init ==
    /\ kind \in Kinds
    /\ \E t \in TokenAccounts : writes = <<Write(Mint, kind.supply, 1), Write(t, kind.supply, 1)>>
    /\ pending = DOMAIN writes /\ jobs = {}
    /\ tokens = 0 /\ token_accounts = [t \in TokenAccounts |-> 0]
    /\ asset = NULL /\ data = 0 /\ edition = NULL /\ inscription = 0 /\ stray = 0
    /\ errors = 0 /\ blind = FALSE

handle(j) ==
    \/ handle_token_program_account(j)
    \/ handle_token_extensions_program_account(j)
    \/ handle_token_metadata_account(j)
    \/ handle_token_inscription_program_update(j)
    \/ handle_token_program_close_ix(j)
    \/ Fail(j)

Next == Transact \/ (\E i \in pending : Begin(i)) \/ (\E j \in jobs : handle(j))

Spec == Init /\ [][Next]_vars

-----------------------------------------------------------------------------
(* Properties.                                                             *)

\* Type invariant; in particular a row holds the content of its own account.
TypeOK ==
    /\ kind \in Kinds /\ pending \subseteq DOMAIN writes /\ Len(writes) <= MaxWrites
    /\ \A j \in jobs : j.i \in pending /\ j.row \in Write_
    /\ tokens = 0 \/ writes[tokens].acct = Mint
    /\ \A t \in TokenAccounts : token_accounts[t] = 0 \/ writes[token_accounts[t]].acct = t
    /\ asset = NULL \/ asset \in Asset
    /\ data \in Write_ /\ inscription \in Write_ /\ errors \in 0 .. MaxErrors

\* A row, or a group of columns of the asset, never goes back to an older slot,
\* although handlers copy rows they read before and run side by side; only a
\* deleted row may start again.
StaleIsRejected ==
    [][/\ tokens' = 0 \/ NotOlder(tokens', tokens)
       /\ \A t \in TokenAccounts :
             token_accounts'[t] = 0 \/ NotOlder(token_accounts'[t], token_accounts[t])
       /\ asset # NULL => /\ NotOlder(asset'.ta, asset.ta) /\ NotOlder(asset'.mint, asset.mint)
                          /\ NotOlder(asset'.md, asset.md)
       /\ NotOlder(data', data) /\ NotOlder(inscription', inscription)]_vars

\* Every message has been handled and acknowledged.
Settled == pending = {} /\ jobs = {}
Shut(a) == \E i \in DOMAIN writes : writes[i].acct = a /\ writes[i].closed
Current(i, a) == Slot(i) = Slot(Last(a))
Emptied == \E i \in DOMAIN writes : writes[i].acct = Metadata /\ Amount(i) = 0

\* When all messages are handled, in whatever order, side by side, with failures
\* and repetitions, every row is at the newest slot of its account: updates of
\* mint, token accounts, metadata and attachments do not interfere.  Excepted is
\* an edition older than the metadata, which the attachment made for it rejects.
ColumnsSettle ==
    Settled =>
        /\ Shut(Mint) \/ Current(tokens, Mint)
        /\ \A t \in TokenAccounts : Shut(t) \/ Current(token_accounts[t], t)
        /\ asset # NULL /\ (Shut(Mint) \/ Current(asset.mint, Mint))
        /\ ~Emptied /\ ~kind.extended => Current(asset.md, Metadata) /\ Current(data, Metadata)
        /\ kind.extended /\ ~Shut(Mint) => Current(asset.md, Mint) /\ Current(data, Mint)
        /\ Current(inscription, Inscription)
        /\ Last(Edition) # 0 =>
              /\ edition # NULL /\ edition.known
              /\ \/ edition.at # 0 /\ Current(edition.at, Edition)
                 \/ \E i \in DOMAIN writes : /\ writes[i].acct = Metadata /\ Amount(i) = 1
                                            /\ Slot(i) > Slot(Last(Edition))

Unique == kind.supply = 1 /\ ~Shut(Mint) /\ Amount(Last(Mint)) = 1

\* When all messages are handled and every token account was handled after its mint,
\* the owner of a unique token is the one of its newest token account, although the
\* metadata handler copies the owner of rows it read before.
OwnerSettles ==
    Settled /\ ~blind /\ Unique =>
        \A t \in TokenAccounts : Slot(asset.ta) >= Slot(Last(t)) \/ Shut(t)

\* What the comment on index_and_fetch_mint_data promises: when all messages are
\* handled the owner of the asset is the one whose account holds the token.
OwnerIsHolder ==
    Settled /\ Unique /\ Last(Metadata) # 0 =>
        asset.ta # 0 /\ Holds(writes[asset.ta].acct)
=============================================================================
