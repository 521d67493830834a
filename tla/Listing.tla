------------------------------ MODULE Listing -------------------------------
(***************************************************************************)
(* The lists of the API: how a request's paging parameters are checked     *)
(* (das_api/src/api/api_impl.rs), turned into a statement                  *)
(* (digital_asset_types/src/dapi/common/asset.rs, dao/scopes/asset.rs),    *)
(* and answered, while a client fetches page after page and rows change.   *)
(*                                                                         *)
(* A row says what the request's conditions and the answer tell apart:     *)
(*   hit      what the statement's filter sees (see Rows)                  *)
(*   supply   supply of an asset, or amount of a token account             *)
(*   data     its asset_data row exists                                    *)
(*   class    specification_asset_class is not NULL                        *)
(* Rows are numbered in the order of their addresses (or of seq).          *)
(***************************************************************************)
EXTENDS Naturals, Sequences, SequencesExt, FiniteSets, FiniteSetsExt

CONSTANTS
    None,
    MaxLimit,       \* the limit of a page
    MaxChanges      \* bound on rows changed during a walk

VARIABLES
    table,      \* the rows
    request,    \* the request to be sent next
    state,      \* "asking", "done" or "refused"
    seen,       \* addresses received so far, in order
    at,         \* the last row the database returned
    kept,       \* rows that belonged to the answer throughout
    shifted,    \* a row in front of `at` changed
    emptied,    \* rows were found and none of them was answered
    changes

list_vars == <<table, request, state, seen, at, kept, shifted, emptied, changes>>

-----------------------------------------------------------------------------
(* The statements.                                                         *)

\* Lists with a sort_by parameter, and lists with an ORDER BY.
Sortable == {"owner", "group", "creator", "authority", "search"}
Ordered(r) == (r.list \in Sortable /\ r.sort # "none") \/ r.list = "signatures"

\* How many rows of the statement belong to row x: 0 or 1, but for a search
\* that joins a table with several rows for an asset.
get_assets_by_owner(x) == x.hit = "owner" /\ x.supply > 0

get_by_authority(x) == x.hit = "authority" /\ x.supply > 0

get_by_grouping(x, r) ==
    /\ x.hit \in {"verified", "null"} \/ (r.flag /\ x.hit = "unverified")
    /\ x.supply > 0

get_by_creator(x, r) ==
    /\ x.hit \in {"verified", "stale"} \/ (~r.flag /\ x.hit = "unverified")
    /\ x.supply > 0

get_token_accounts(x, r) == x.hit = "owner" /\ (r.flag \/ x.supply > 0)

get_nft_editions(x) == x.hit = "parent" /\ x.data

fetch_transactions(x) == x.hit = "leaf"

Rows(r, x) ==
    LET one(found) == IF found THEN 1 ELSE 0
    IN  CASE r.list = "owner" -> one(get_assets_by_owner(x))
          [] r.list = "authority" -> one(get_by_authority(x))
          [] r.list = "group" -> one(get_by_grouping(x, r))
          [] r.list = "creator" -> one(get_by_creator(x, r))
          [] r.list = "tokens" -> one(get_token_accounts(x, r))
          [] r.list = "editions" -> one(get_nft_editions(x))
          [] r.list = "signatures" -> one(fetch_transactions(x))
          [] r.list = "search" -> IF x.hit = "twice" THEN 2 ELSE one(x.hit = "once")

\* get_related_for_assets: every asset once, without those that lack data
\* and those the creator asked for has left.
get_related_for_assets(r, found) ==
    LET once == SelectSeq([n \in DOMAIN found |-> n],
                          LAMBDA n : \A k \in 1 .. n - 1 : found[k] # found[n])
        assets == [n \in DOMAIN once |-> found[once[n]]]
    IN  IF r.list \notin Sortable THEN found
        ELSE SelectSeq(assets, LAMBDA id : /\ table[id].data
                                           /\ r.list = "creator" => table[id].hit # "stale")

\* asset_list_to_rpc: an asset without a class is reported as an error.
Converts(r, id) == r.list \in Sortable => table[id].class

-----------------------------------------------------------------------------
(* The paging of a request.                                                *)

UsesCursor(r) == r.page = None /\ r.before = None /\ r.after = None

\* validate_pagination: the requests it turns down.
Refused(r) ==
    \/ r.limit > MaxLimit
    \/ r.page # None /\ (r.page = 0 \/ \E p \in {r.before, r.after, r.cursor} : p # None)
    \/ /\ r.before # None \/ r.after # None
       /\ r.cursor # None \/ (r.list \in Sortable /\ r.sort # "id")
    \/ UsesCursor(r) /\ r.list \in Sortable /\ r.sort # "id"

\* Without a sort_by parameter the cursor is never looked at.
create_pagination(r) ==
    IF UsesCursor(r) /\ r.list \in Sortable
    THEN [by |-> "cursor", cursor |-> r.cursor]
    ELSE IF r.page = None THEN [by |-> "keyset", before |-> r.before, after |-> r.after]
    ELSE [by |-> "page", page |-> r.page]

\* The order of the statement; another column than the id reverses it here.
Precedes(r, a, b) ==
    IF r.asc = (r.sort # "other") THEN a < b ELSE a > b

\* The rows of the statement before LIMIT: any order where none is asked for.
Statement(r) ==
    LET hits == {id \in DOMAIN table : Rows(r, table[id]) > 0}
        times(ids) == FoldLeft(LAMBDA all, id : all \o [n \in 1 .. Rows(r, table[id]) |-> id],
                               << >>, ids)
    IN  IF Ordered(r)
        THEN {times(SetToSortSeq(hits, LAMBDA a, b : Precedes(r, a, b)))}
        ELSE {times(ids) : ids \in SetToSeqs(hits)}

\* Mutant: a cursor always goes up.
Past_forward(pagination, asc, id) ==
    CASE pagination.by = "keyset" ->
            /\ pagination.before # None => id < pagination.before
            /\ pagination.after # None => id > pagination.after
      [] pagination.by = "cursor" /\ pagination.cursor # None -> id > pagination.cursor
      [] OTHER -> TRUE

Past(pagination, asc, id) ==
    CASE pagination.by = "keyset" ->
            /\ pagination.before # None => id < pagination.before
            /\ pagination.after # None => id > pagination.after
      [] pagination.by = "cursor" /\ pagination.cursor # None ->
            IF asc THEN id > pagination.cursor ELSE id < pagination.cursor
      [] OTHER -> TRUE

paginate(pagination, limit, stmt, asc) ==
    LET rows == SelectSeq(stmt, LAMBDA id : Past(pagination, asc, id))
        offset == IF pagination.by = "page" THEN (pagination.page - 1) * limit ELSE 0
    IN  SubSeq(rows, offset + 1, Min({offset + limit, Len(rows)}))

\* The cursor of the answer is the last asset that was not dropped.
build_asset_response(r, assets) ==
    [items |-> SelectSeq(assets, LAMBDA id : Converts(r, id)),
     cursor |-> IF create_pagination(r).by = "cursor" /\ assets # << >>
                THEN Last(assets) ELSE None]

-----------------------------------------------------------------------------
(* A client that walks through a list.                                     *)

\* What the client asks for after an answer, by the way it pages.
FollowUp(r, answer) ==
    CASE r.walk = "cursor" -> [r EXCEPT !.cursor = answer.cursor]
      [] r.walk = "page" -> [r EXCEPT !.page = @ + 1]
      [] r.walk = "keyset" -> IF r.asc THEN [r EXCEPT !.after = Last(answer.items)]
                              ELSE [r EXCEPT !.before = Last(answer.items)]

LastAnswer(r, answer) == IF r.walk = "cursor" THEN answer.cursor = None ELSE answer.items = << >>

Refuse ==
    /\ state = "asking" /\ Refused(request)
    /\ state' = "refused"
    /\ UNCHANGED <<table, request, seen, at, kept, shifted, emptied, changes>>

Ask ==
    /\ state = "asking" /\ ~Refused(request)
    /\ \E stmt \in Statement(request) :
         LET rows == paginate(create_pagination(request), request.limit, stmt, request.asc)
             answer == build_asset_response(request, get_related_for_assets(request, rows))
         IN  /\ seen' = seen \o answer.items
             /\ at' = IF rows = << >> THEN at ELSE Last(rows)
             /\ IF LastAnswer(request, answer)
                THEN state' = "done" /\ emptied' = (rows # << >>) /\ UNCHANGED request
                ELSE request' = FollowUp(request, answer) /\ UNCHANGED <<state, emptied>>
    /\ UNCHANGED <<table, kept, shifted, changes>>

Answered(t, r) ==
    {id \in DOMAIN t : /\ Rows(r, t[id]) > 0
                       /\ r.list \in Sortable =>
                            t[id].data /\ t[id].class /\ (r.list = "creator" => t[id].hit # "stale")}

\* An ingester writes a row of the list between two requests.
RowChanges(id, x) ==
    /\ state = "asking" /\ changes < MaxChanges /\ seen # << >>
    /\ x # table[id]
    /\ table' = [table EXCEPT ![id] = x]
    /\ kept' = kept \cap Answered(table', request)
    /\ shifted' = (shifted \/ (Rows(request, x) # Rows(request, table[id])
                               /\ (id = at \/ Precedes(request, id, at))))
    /\ changes' = changes + 1
    /\ UNCHANGED <<request, state, seen, at, emptied>>

ListInit(requests, tables(_)) ==
    /\ request \in requests
    /\ table \in tables(request)
    /\ state = "asking" /\ seen = << >> /\ at = 0
    /\ kept = Answered(table, request)
    /\ shifted = FALSE /\ emptied = FALSE /\ changes = 0

-----------------------------------------------------------------------------

\* A walk through an ordered list receives no row twice, and once it has
\* ended it has received every row that belonged to the list throughout,
\* however rows change meanwhile: by cursor and by before/after always, by
\* page number unless a row in front of the walk changed.  Exceptions are a
\* page of which every row was dropped, which ends the walk, and an asset
\* joined twice, which two pages may hold
\* (paginate, build_asset_response, get_related_for_assets).
WalkIsComplete ==
    (Ordered(request) /\ (request.walk = "page" => ~shifted)) =>
        /\ (request.walk = "page" /\ request.list = "search") \/ IsInjective(seen)
        /\ (state = "done" /\ ~emptied) => kept \subseteq ToSet(seen)
=============================================================================
