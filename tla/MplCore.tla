-------------------------------- MODULE MplCore --------------------------------
(***************************************************************************)
(* The handler of MPL Core accounts (program_transformers:                 *)
(* mpl_core_program): assets and the collection whose authority they may   *)
(* take over.  Writes on chain are numbered, and the number of a write is  *)
(* its slot.  The handler of a collection works on its members over a      *)
(* connection of its own while its transaction is open.                    *)
(*                                                                         *)
(* Names shared with AccountIndex have the prefix core: burn_v1_asset and  *)
(* save_v1_asset are functions of the token metadata handlers as well.     *)
(***************************************************************************)
EXTENDS Naturals, FiniteSets, FiniteSetsExt, Sequences

CONSTANTS
    Assets,         \* ids of assets: numbers, in the order of the id column
    Authorities,    \* addresses
    MaxCoreWrites, MaxCoreBusy, MaxCoreErrors,
    PageSize,       \* members of a page: 1000 in the code
    Null

Coll == 0
Ids == Assets \cup {Coll}

\* Ids of assets differ from the collection's, an address is not an id, and Null
\* is none of the values that a column has.
CoreAssumption ==
    /\ Assets \subseteq Nat \ {Coll} /\ IsFiniteSet(Assets) /\ Coll \notin Authorities
    /\ PageSize \in Nat \ {0}
    /\ Null \notin Nat /\ Null \notin BOOLEAN
    /\ Null \notin [val : Authorities \cup {Coll}, slot : Nat] \cup [val : {""}, slot : Nat]

ASSUME CoreConstants == CoreAssumption

VARIABLES
    core_writes,    \* per slot: id, authority (Coll for a member), is the account empty?
    core_pending,   \* writes whose message is not acknowledged
    core_jobs,      \* messages being handled
    authority,      \* rows of asset_authority: value and slot, or Null
    core_data,      \* per id, the write its row of asset_data is from; 0 if there is none
    core_asset,     \* per id, the write its columns in asset are from; 0 if from none
    burnt,          \* per id, the column of that name; Null if there is no row
    slot_updated,   \* per id
    group,          \* per id, the write its row of asset_grouping is from, or 0
    core_errors,
    handled,        \* writes whose message was handled to the end
    ordered         \* were the messages handled one by one, in the order of the writes?

core_tables == <<authority, core_data, core_asset, burnt, slot_updated, group>>
core_vars == <<core_writes, core_pending, core_jobs, core_tables, core_errors, handled, ordered>>

CoreTrouble == core_errors < MaxCoreErrors /\ core_errors' = core_errors + 1

LastWrite(id) == Max({0} \cup {i \in DOMAIN core_writes : core_writes[i].id = id})
Exists(id) == LastWrite(id) # 0 /\ ~core_writes[LastWrite(id)].empty

\* A transaction of MPL Core: an account is created or changed, or an asset burnt.
\* An asset whose authority is the collection is its member.
CoreTransact ==
    /\ Len(core_writes) < MaxCoreWrites
    /\ \E w \in [id : Ids, auth : Authorities \cup {Coll}, empty : BOOLEAN] :
          /\ w.id = Coll => w.auth # Coll /\ ~w.empty
          /\ w.id # Coll /\ w.auth = Coll => Exists(Coll)
          /\ w.empty => Exists(w.id) /\ w.auth = core_writes[LastWrite(w.id)].auth
          /\ core_writes' = Append(core_writes, w)
    /\ core_pending' = core_pending \cup {Len(core_writes) + 1}
    /\ UNCHANGED <<core_jobs, core_tables, core_errors, handled, ordered>>

FirstStep(w) == IF w.empty THEN "burn"
                ELSE IF w.id = Coll THEN "begin"
                ELSE IF w.auth = Coll THEN "find" ELSE "save"

CoreBegin(i) ==
    /\ i \in core_pending /\ \A j \in core_jobs : j.i # i
    /\ Cardinality(core_jobs) < MaxCoreBusy
    /\ core_jobs' = core_jobs \cup {[i |-> i, pc |-> FirstStep(core_writes[i]),
                                     auth |-> core_writes[i].auth, after |-> 0, ids |-> {}]}
    /\ ordered' = (ordered /\ core_jobs = {} /\ 1 .. i - 1 \subseteq handled)
    /\ UNCHANGED <<core_writes, core_pending, core_tables, core_errors, handled>>

CoreGoto(j, k) ==
    core_jobs' = (core_jobs \ {j}) \cup {k} /\ UNCHANGED <<core_pending, core_errors, handled>>

CoreReturn(j) ==
    /\ core_jobs' = core_jobs \ {j} /\ handled' = handled \cup {j.i}
    /\ \/ core_pending' = core_pending \ {j.i} /\ UNCHANGED core_errors
       \/ CoreTrouble /\ UNCHANGED core_pending

\* A statement fails: the transaction is rolled back, what was done to members stays.
CoreFail(j) ==
    /\ core_jobs' = core_jobs \ {j} /\ CoreTrouble
    /\ UNCHANGED <<core_writes, core_pending, core_tables, handled, ordered>>

-----------------------------------------------------------------------------
\* Mutant: a row that is there is left alone.
core_burn_v1_asset_insert(j) ==
    LET id == core_writes[j.i].id
    IN  /\ j.pc = "burn"
        /\ IF burnt[id] = Null
           THEN /\ burnt' = [burnt EXCEPT ![id] = TRUE]
                /\ slot_updated' = [slot_updated EXCEPT ![id] = j.i]
           ELSE UNCHANGED <<burnt, slot_updated>>
        /\ CoreReturn(j)
        /\ UNCHANGED <<core_writes, authority, core_data, core_asset, group, ordered>>

\* The insert sets slot_updated; on an update the trigger sets it to the newest
\* of the slots of the columns, which the burn does not change.
core_burn_v1_asset(j) ==
    LET id == core_writes[j.i].id
    IN  /\ j.pc = "burn"
        /\ IF burnt[id] = Null
           THEN /\ burnt' = [burnt EXCEPT ![id] = TRUE]
                /\ slot_updated' = [slot_updated EXCEPT ![id] = j.i]
           ELSE IF slot_updated[id] # Null /\ j.i > slot_updated[id]
           THEN /\ burnt' = [burnt EXCEPT ![id] = TRUE]
                /\ slot_updated' = [slot_updated EXCEPT
                                       ![id] = IF core_asset[id] = 0 THEN Null ELSE core_asset[id]]
           ELSE UNCHANGED <<burnt, slot_updated>>
        /\ CoreReturn(j)
        /\ UNCHANGED <<core_writes, authority, core_data, core_asset, group, ordered>>

\* A member takes the authority of the collection's row; "" if there is none.
FindAuthority(j) ==
    /\ j.pc = "find"
    /\ CoreGoto(j, [j EXCEPT !.pc = "save",
                             !.auth = IF authority[Coll] = Null THEN "" ELSE authority[Coll].val])
    /\ UNCHANGED <<core_writes, core_tables, ordered>>

StoreAuthority(i, auth) ==
    LET id == core_writes[i].id
    IN  authority' = IF authority[id] = Null \/ i > authority[id].slot
                     THEN [authority EXCEPT ![id] = [val |-> auth, slot |-> i]] ELSE authority

StoreData(i) == core_data' = [core_data EXCEPT ![core_writes[i].id] = IF i > @ THEN i ELSE @]

\* Mutant: the row is written whatever its slot.
StoreAsset_always(i) ==
    LET id == core_writes[i].id
    IN  /\ core_asset' = [core_asset EXCEPT ![id] = i]
        /\ burnt' = [burnt EXCEPT ![id] = FALSE]
        /\ slot_updated' = [slot_updated EXCEPT ![id] = i]

\* The metadata, mint and token account columns, which all have this slot.
StoreAsset(i) ==
    LET id == core_writes[i].id
        fresh == i >= core_asset[id]
    IN  /\ core_asset' = [core_asset EXCEPT ![id] = IF fresh THEN i ELSE @]
        /\ burnt' = [burnt EXCEPT ![id] = IF fresh THEN FALSE ELSE @]
        /\ slot_updated' = [slot_updated EXCEPT ![id] = IF fresh THEN i ELSE @]

\* Only for a member: the row of a former member stays.
StoreGroup(i) ==
    group' = [group EXCEPT
                 ![core_writes[i].id] = IF core_writes[i].auth = Coll /\ i >= @ THEN i ELSE @]

\* The statements of the transaction; creators follow the columns of asset.
Store(i, auth) == StoreAuthority(i, auth) /\ StoreData(i) /\ StoreAsset(i) /\ StoreGroup(i)

SaveAsset(j) ==
    /\ j.pc = "save"
    /\ Store(j.i, j.auth)
    /\ CoreReturn(j)
    /\ UNCHANGED <<core_writes, ordered>>

\* The upsert of the collection's authority locks its row until the commit.
BeginCollection(j) ==
    /\ j.pc = "begin"
    /\ \A k \in core_jobs : k.pc \notin {"page", "update", "commit"}
    /\ CoreGoto(j, [j EXCEPT !.pc = "page"])
    /\ UNCHANGED <<core_writes, core_tables, ordered>>

\* A page of the ids in the group, after the last one of the page before.
Members(after) ==
    LET rest == {a \in Assets : group[a] # 0 /\ a > after}
    IN  {a \in rest : Cardinality({b \in rest : b < a}) < PageSize}

SelectPage(j) ==
    /\ j.pc = "page"
    /\ CoreGoto(j, [j EXCEPT !.pc = IF Members(j.after) = {} THEN "commit" ELSE "update",
                             !.ids = Members(j.after)])
    /\ UNCHANGED <<core_writes, core_tables, ordered>>

\* Mutant: the slot of the member's row is not compared.
UpdateMembers_always(j) ==
    /\ j.pc = "update"
    /\ authority' = [a \in Ids |-> IF a \in j.ids /\ authority[a].val # j.auth
                                   THEN [val |-> j.auth, slot |-> j.i] ELSE authority[a]]
    /\ CoreGoto(j, [j EXCEPT !.pc = "page", !.after = Max(j.ids), !.ids = {}])
    /\ UNCHANGED <<core_writes, core_data, core_asset, burnt, slot_updated, group, ordered>>

UpdateMembers(j) ==
    /\ j.pc = "update"
    /\ authority' = [a \in Ids |-> IF /\ a \in j.ids
                                      /\ authority[a].val # j.auth /\ authority[a].slot < j.i
                                   THEN [val |-> j.auth, slot |-> j.i] ELSE authority[a]]
    /\ CoreGoto(j, [j EXCEPT !.pc = "page", !.after = Max(j.ids), !.ids = {}])
    /\ UNCHANGED <<core_writes, core_data, core_asset, burnt, slot_updated, group, ordered>>

update_group_asset_authorities(j) == SelectPage(j) \/ UpdateMembers(j)

Commit(j) ==
    /\ j.pc = "commit"
    /\ Store(j.i, j.auth)
    /\ CoreReturn(j)
    /\ UNCHANGED <<core_writes, ordered>>

core_save_v1_asset(j) ==
    \/ FindAuthority(j) \/ SaveAsset(j)
    \/ BeginCollection(j) \/ update_group_asset_authorities(j) \/ Commit(j)

handle_mpl_core_account(j) == core_burn_v1_asset(j) \/ core_save_v1_asset(j) \/ CoreFail(j)

-----------------------------------------------------------------------------
CoreInit ==
    /\ core_writes = << >> /\ core_pending = {} /\ core_jobs = {}
    /\ authority = [id \in Ids |-> Null]
    /\ core_data = [id \in Ids |-> 0] /\ core_asset = [id \in Ids |-> 0]
    /\ burnt = [id \in Ids |-> Null] /\ slot_updated = [id \in Ids |-> Null]
    /\ group = [id \in Ids |-> 0]
    /\ core_errors = 0 /\ handled = {} /\ ordered = TRUE

CoreNext ==
    \/ CoreTransact
    \/ \E i \in core_pending : CoreBegin(i)
    \/ \E j \in core_jobs : handle_mpl_core_account(j)

CoreSpec == CoreInit /\ [][CoreNext]_core_vars

-----------------------------------------------------------------------------
(* Properties.                                                             *)

CoreSettled == core_pending = {} /\ core_jobs = {}
Saved(id) == {i \in DOMAIN core_writes : core_writes[i].id = id /\ ~core_writes[i].empty}

\* When all messages are handled, in any order, side by side, with failures and
\* repetitions, the rows of each asset are from its newest account, and an asset
\* that never was a member has the authority of its account.
CoreSettles ==
    CoreSettled => \A id \in Ids : Saved(id) # {} =>
        LET i == Max(Saved(id))
        IN  /\ core_asset[id] = i /\ core_data[id] = i
            /\ (\A k \in Saved(id) : core_writes[k].auth # Coll) =>
                  authority[id].val = core_writes[i].auth

\* When the messages were handled in the order of the writes, whatever was repeated,
\* each member has the authority of its collection.
MembersFollowCollection ==
    CoreSettled /\ ordered =>
        \A a \in Assets : Exists(a) /\ core_writes[LastWrite(a)].auth = Coll =>
            authority[a].val = core_writes[LastWrite(Coll)].auth

\* When the messages were handled once and in the order of the writes, the burnt
\* assets are those whose account is empty.  A repeated or late account sets a burnt
\* asset back: there is no guard against it.
BurnsSettle ==
    CoreSettled /\ ordered /\ core_errors = 0 =>
        \A a \in Assets : LastWrite(a) # 0 => burnt[a] = core_writes[LastWrite(a)].empty
================================================================================
