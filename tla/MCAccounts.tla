------------------------------ MODULE MCAccounts ------------------------------
(***************************************************************************)
(* The account handlers for TLC.  Three scenes, one per initial state: the *)
(* token programs, the purge of their tables, and MPL Core.  No table row  *)
(* of one asset is written by both kinds of programs, so the scenes are    *)
(* checked side by side and not in product.                                *)
(***************************************************************************)
EXTENDS Purger, MplCore, TLC

CONSTANTS
    Scenes,     \* those to be checked: "tokens", "purge", "core"
    t1, t2      \* token accounts

VARIABLE scene

MintKinds ==
    {[standard |-> "nft", supply |-> 1, extended |-> FALSE],
     [standard |-> "none", supply |-> 2, extended |-> FALSE],
     [standard |-> "nft", supply |-> 1, extended |-> TRUE]}

Rows == [k \in Keys |-> IF k = t1 THEN 1 ELSE IF k = t2 THEN 2 ELSE 3]
Moved == [Rows EXCEPT ![t1] = 2, ![t2] = 1]
RowOrders == {Rows, Moved}
Symmetry == Permutations(Authorities)

mcVars == <<scene, purgerVars, core_vars>>

MCInit ==
    /\ scene \in Scenes
    /\ PurgerInit /\ CoreInit
    /\ order = Rows
    /\ scene # "purge" => writes[2].acct = t1
    /\ scene = "purge" => kind.standard = "nft"
    /\ scene = "core" => kind.extended

\* Transactions come first: a handler never looks at the chain, so that a message
\* of a later transaction is as good as a late message.
Unhandled == pending = DOMAIN writes /\ jobs = {} /\ errors = 0

\* Burning a token takes three writes; these histories are handled one by one.
\* In histories of four writes failures are those of a closed account.
Short == Len(writes) <= 4
Sound(j) == Len(writes) <= 3 \/ errors' = errors \/ (Short /\ writes[j.i].closed)

Tokens ==
    \/ /\ Unhandled /\ Transact
       /\ Len(writes') <= 4 \/ Len(writes') = Len(writes) + 3
    \/ \E i \in pending : (Short \/ jobs = {}) /\ Begin(i)
    \/ \E j \in jobs : handle(j) /\ Sound(j)

\* The purge starts when all but messages of closed accounts are handled, and
\* handlers run one at a time.  A fifth write falls between two pages of token
\* accounts, when no call has failed and a row is left to be deleted.
Before == table = NULL
Between ==
    /\ table = "token_accounts" /\ offset # NULL /\ offset > 0 /\ jobs = {} /\ errors = 0
    /\ \E t \in Missing \cap TokenAccounts : Row(t) # 0

Handlers ==
    \/ /\ Transact /\ (Before => Unhandled)
       /\ Len(writes') <= IF Between /\ ~kind.extended THEN 5 ELSE 4
       /\ Slot(Len(writes)) < writes'[Len(writes')].slot
    \/ \E i \in pending : jobs = {} /\ (Before => i = Min(pending)) /\ Begin(i)
    \/ \E j \in jobs : handle(j) /\ (Before \/ ~Short => errors' = errors)

Purging ==
    \/ Handlers /\ Observe /\ UNCHANGED <<purge, purged>>
    \/ \E t \in {"tokens", "token_accounts"} :
          jobs = {} /\ (\A i \in pending : writes[i].closed) /\ start_purge(t)
    \/ Paginate \/ MarkDeletion \/ TokenAccountPurge \/ MintPurge

\* The first write is the collection, and the second asset is and stays a member.
\* Failures are for histories of up to three writes.
Cores ==
    \/ /\ core_pending = DOMAIN core_writes /\ core_jobs = {} /\ core_errors = 0
       /\ CoreTransact
       /\ core_writes'[1].id = Coll
       /\ LET w == core_writes'[Len(core_writes')]
          IN  w.id = 2 => w.auth = Coll /\ ~w.empty
    \/ \E i \in core_pending : CoreBegin(i)
    \/ \E j \in core_jobs :
          /\ handle_mpl_core_account(j)
          /\ Len(core_writes) <= 3 \/ core_errors' = core_errors

MCNext ==
    \/ scene = "tokens" /\ Tokens /\ UNCHANGED <<scene, order, purge, history, core_vars>>
    \/ scene = "purge" /\ Purging /\ UNCHANGED <<scene, core_vars>>
    \/ scene = "core" /\ Cores /\ UNCHANGED <<scene, purgerVars>>

MCSpec == MCInit /\ [][MCNext]_mcVars
===============================================================================
