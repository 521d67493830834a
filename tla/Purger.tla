-------------------------------- MODULE Purger --------------------------------
(***************************************************************************)
(* The purge tool of ops, next to the handlers of AccountIndex: a task     *)
(* that pages through a table, a task that asks an RPC node which of the   *)
(* accounts still exist, and workers that delete the rows of the others.   *)
(* The three run at the same time.  Pages are cut with OFFSET and without  *)
(* ORDER BY from rows that workers delete and handlers write meanwhile.    *)
(***************************************************************************)
EXTENDS AccountIndex

CONSTANTS
    Orders,     \* where the rows of the keys may lie in the table
    BatchSize   \* rows of a page

Keys == TokenAccounts \cup {Mint}

ASSUME PurgeAssumption ==
    /\ BatchSize \in Nat \ {0} /\ NULL \notin {"tokens", "token_accounts"} /\ NULL \notin Nat
    /\ IsFiniteSet(TokenAccounts) /\ Orders # {} /\ Orders \subseteq [Keys -> Nat]
    /\ \A o \in Orders : \A j, k \in Keys : o[j] = o[k] => j = k

VARIABLES
    order,      \* the places of the rows: a scan of the table meets them in this order
    table,      \* the table being purged: NULL before the start
    offset,     \* of the next page, NULL after the last
    pages,      \* keys on their way to the RPC node
    marked,     \* keys whose rows workers are to delete
    burns,      \* mints whose assets workers are to set burnt
    gone,       \* history: keys whose account was missing at some time since the start
    dead,       \* history: keys whose account has been missing since the start
    touched,    \* history: keys whose row was written since the start
    purged,     \* history: keys whose row a worker deleted
    shifted     \* history: has a row been deleted or rewritten before the last page?

purge == <<table, offset, pages, marked, burns>>
history == <<gone, dead, touched, purged, shifted>>
purgerVars == <<vars, order, purge, history>>

Row(k) == IF k = Mint THEN tokens ELSE token_accounts[k]

\* The rows of the table, and the number of them that a scan meets before that of a key.
Scan == {k \in Keys : Row(k) # 0 /\ (k = Mint <=> table = "tokens")}
Ahead(k) == {j \in Scan : order[j] < order[k]}
Rank(k) == Cardinality(Ahead(k))

Missing == {k \in Keys : Last(k) # 0 /\ ~Open(k)}

\* A row that is written may come to lie elsewhere; the others stay in their order.
Written(k) == Row(k)' # 0 /\ Row(k)' # Row(k)

Reorder ==
    \E o \in Orders :
        /\ order' = o
        /\ \A j, k \in {i \in Keys : ~Written(i)} : o[j] < o[k] <=> order[j] < order[k]

\* What the steps of the others do to the table and to the history of this run.
Observe ==
    /\ Reorder
    /\ gone' = gone \cup Missing' /\ dead' = dead \cap Missing'
    /\ touched' = touched \cup {k \in Keys : Written(k)}
    /\ shifted' = (shifted \/ (offset # NULL /\ \E k \in Keys : Row(k) # 0 /\ Row(k)' # Row(k)))

start_purge(t) ==
    /\ table = NULL /\ table' = t
    /\ offset' = 0 /\ pages' = {} /\ marked' = {} /\ burns' = {}
    /\ gone' = Missing /\ dead' = Missing /\ touched' = {} /\ shifted' = FALSE
    /\ UNCHANGED <<vars, order, purged>>

\* Mutant: the offset of the next page is one row too far.
Page_past ==
    {k \in Scan : Rank(k) \in IF offset = 0 THEN 0 .. BatchSize - 1 ELSE offset + 1 .. offset + BatchSize}

Page == {k \in Scan : Rank(k) \in offset .. offset + BatchSize - 1}

\* An error ends the loop like an empty page.
Paginate ==
    /\ table # NULL /\ offset # NULL
    /\ \/ /\ Page # {} /\ offset' = offset + BatchSize
          /\ pages' = pages \cup {Page}
          /\ UNCHANGED errors
       \/ /\ (Page = {} /\ UNCHANGED errors) \/ Trouble
          /\ offset' = NULL /\ UNCHANGED pages
    /\ UNCHANGED <<kind, writes, pending, jobs, tables, blind, order, table, marked, burns,
                   history>>

Mark(keys) ==
    /\ marked' = IF keys = {} THEN marked ELSE marked \cup {keys}
    /\ burns' = IF table = "tokens" /\ keys # {} THEN burns \cup {keys} ELSE burns

\* Mutant: accounts of a failed request are taken for missing.
MarkDeletion_failed ==
    \E p \in pages :
        /\ pages' = pages \ {p}
        /\ (Mark(p \cap Missing) /\ UNCHANGED errors) \/ (Trouble /\ Mark(p))
        /\ UNCHANGED <<kind, writes, pending, jobs, tables, blind, order, table, offset,
                       history>>

\* A page whose request fails is skipped.
MarkDeletion ==
    \E p \in pages :
        /\ pages' = pages \ {p}
        /\ (Mark(p \cap Missing) /\ UNCHANGED errors) \/ (Trouble /\ Mark({}))
        /\ UNCHANGED <<kind, writes, pending, jobs, tables, blind, order, table, offset,
                       history>>

\* What the two workers have in common; a failed statement is only logged.
Delete(m) ==
    /\ marked' = marked \ {m}
    /\ \/ /\ token_accounts' = [t \in TokenAccounts |-> IF t \in m THEN 0 ELSE token_accounts[t]]
          /\ tokens' = IF Mint \in m THEN 0 ELSE tokens
          /\ UNCHANGED errors
       \/ Trouble /\ UNCHANGED <<token_accounts, tokens>>
    /\ UNCHANGED <<kind, writes, pending, jobs, asset, data, edition, inscription, stray, blind,
                   table, offset, pages, burns>>
    /\ Observe
    /\ purged' = purged \cup {k \in Keys : Row(k) # 0 /\ Row(k)' = 0}

TokenAccountPurge == table = "token_accounts" /\ \E m \in marked : Delete(m)

\* The delete and the update run at the same time.
MintPurge ==
    /\ table = "tokens"
    /\ \/ \E m \in marked : Delete(m)
       \/ \E m \in burns :
             /\ burns' = burns \ {m}
             /\ \/ asset' = (IF asset = NULL THEN NULL ELSE [asset EXCEPT !.burnt = TRUE])
                   /\ UNCHANGED errors
                \/ Trouble /\ UNCHANGED asset
             /\ UNCHANGED <<kind, writes, pending, jobs, tokens, token_accounts, data, edition,
                            inscription, stray, blind, order, table, offset, pages, marked, history>>

PurgerInit ==
    /\ Init
    /\ order \in Orders /\ table = NULL /\ offset = NULL /\ pages = {} /\ marked = {} /\ burns = {}
    /\ gone = {} /\ dead = {} /\ touched = {} /\ purged = {} /\ shifted = FALSE

PurgerNext ==
    \/ Next /\ Observe /\ UNCHANGED <<purge, purged>>
    \/ \E t \in {"tokens", "token_accounts"} : start_purge(t)
    \/ Paginate \/ MarkDeletion \/ TokenAccountPurge \/ MintPurge

PurgerSpec == PurgerInit /\ [][PurgerNext]_purgerVars

-----------------------------------------------------------------------------
\* The purge removes a row only if its account was missing at some time since the
\* start, however deletions, new accounts and failed requests fall.
OnlyMissingPurged == purged \subseteq gone

\* When the purge is over, no row is left of an account that was missing all along,
\* unless it was written meanwhile, a call failed, or another row was deleted or
\* rewritten before the last page: the rows behind it move up and the next page
\* passes over them.
PurgeIsComplete ==
    /\ table # NULL /\ offset = NULL /\ pages = {} /\ marked = {}
    /\ errors = 0 /\ ~shifted
    => \A k \in dead \ touched : (k = Mint <=> table = "tokens") => Row(k) = 0
===============================================================================
