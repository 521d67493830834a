----------------------------- MODULE MCService -----------------------------
(***************************************************************************)
(* Four parts of the services around the index, one scene each: the tree   *)
(* backfill of ops, the stream workers of the ingester, a client walking   *)
(* through a list of the API, and a client searching.  A scene keeps the   *)
(* variables of the others still.                                          *)
(***************************************************************************)
EXTENDS TreeBackfill, Stream, Listing, Search

VARIABLE scene

vars == <<scene, tree_vars, stream_vars, list_vars, search_vars>>

-----------------------------------------------------------------------------
(* Trees.                                                                  *)

MCShort == {c \in [1 .. 3 -> 0 .. 2] : MapThenSumSet(LAMBDA i : c[i], 1 .. 3) <= 3}
MCLong == {<<1, 0, 2, 1>>, <<1, 1, 0, 0, 1>>, <<1, 1, 1, 1, 1>>}
MCRows(total) == IF total <= 3 THEN SUBSET (1 .. total) ELSE {{}, {1}, {2, 4}, {3, 4}}
MCStarts ==
    UNION {{c} \X MCRows(MapThenSumSet(LAMBDA i : c[i], DOMAIN c)) : c \in MCShort \cup MCLong}

TreeIdle ==
    /\ chain = << >> /\ audits = {} /\ pc = "ended" /\ gaps = << >> /\ gap_queue = << >>
    /\ crawls = {} /\ signature_queue = << >> /\ fetches = {} /\ pool = Connections
    /\ holder = 0 /\ queued = << >> /\ errors = 0 /\ raced = FALSE

-----------------------------------------------------------------------------
(* Messages: `of` names the instruction whose execution logged an event.   *)

Ix(program, name, id) ==
    [program |-> program, name |-> name, id |-> id, of |-> 0, args |-> TRUE, keys |-> 9,
     lost |-> FALSE]
Log(name, of) ==
    [program |-> IF of % 2 = 0 THEN "spl_noop" ELSE "mpl_noop", name |-> name, id |-> 0,
     of |-> of, args |-> TRUE, keys |-> 0, lost |-> FALSE]
Bgum(name, id) == Ix("bubblegum", name, id)
Compress == Ix("compression", "append", 0)
Logs(id) == <<Log("leaf_schema", id), Compress, Log("change_log", id)>>
LogsBurn(id) == <<Compress, Log("change_log", id)>>
Call(outer, inner) == [outer |-> outer, inner |-> inner]
App(inner) == Call(Ix("app", "run", 9), inner)
Txn(calls) == [type |-> "transaction", calls |-> calls]
Token(name) == Ix("token", name, 0)
Update(program, args) == [type |-> "account", program |-> program, args |-> args]

\* A direct call, then an application that calls Bubblegum three times.
Wrapped ==
    Txn(<<Call(Bgum("Transfer", 1), Logs(1)),
          App(<<Bgum("MintV2", 2)>> \o Logs(2) \o <<Token("close"), Bgum("Burn", 3)>>
              \o LogsBurn(3) \o <<Bgum("VerifyCreatorV2", 4)>> \o Logs(4))>>)
\* The second instruction has too few accounts to be parsed.
Short ==
    Txn(<<Call(Bgum("UpdateMetadata", 1), Logs(1)),
          Call([Bgum("VerifyCollection", 2) EXCEPT !.keys = 8], Logs(2)),
          Call(Bgum("Redeem", 3), LogsBurn(3))>>)
\* An application that changes a tree of its own, before and after Bubblegum.
Foreign == Txn(<<App(<<Compress, Log("change_log", 9), Bgum("Delegate", 1)>> \o Logs(1))>>)
ForeignAfter == Txn(<<App(<<Bgum("Delegate", 1)>> \o Logs(1) \o <<Compress, Log("change_log", 9)>>)>>)
Garbled == Txn(<<Call(Bgum("CancelRedeem", 1), <<Log("leaf_schema", 1), Log("garbled", 1)>>)>>)
NoSchema == Txn(<<Call(Bgum("CreateTree", 1), << >>), Call(Bgum("Transfer", 2), <<Log("no_schema", 2)>>)>>)
Others == Txn(<<Call(Token("transfer"), << >>), App(<<Ix("mpl_core", "create", 0)>>)>>)
Lost == Txn(<<Call(Bgum("ThawV2", 1), Logs(1)), Call([Bgum("BurnV2", 2) EXCEPT !.lost = TRUE], LogsBurn(2))>>)
Nothing == Txn(<<App(<< >>)>>)

MCMessages ==
    <<Wrapped, Short, Foreign, ForeignAfter, Garbled, NoSchema, Others, Nothing,
      Update("token", TRUE), Update("token_metadata", FALSE), Update("app", TRUE),
      Update("bubblegum", TRUE), [type |-> "garbled"], Lost>>
MCStreams == {<<m>> : m \in DOMAIN Messages} \cup {<<3, 13>>, <<2, 3>>, <<9, 3>>}

-----------------------------------------------------------------------------
(* Requests and rows.                                                      *)

Request(list, walk, asc, sort, flag, limit) ==
    [list |-> list, walk |-> walk, asc |-> asc, sort |-> sort, flag |-> flag, limit |-> limit,
     page |-> IF walk = "page" THEN 1 ELSE None,
     before |-> IF walk = "keyset" /\ ~asc THEN 9 ELSE None,
     after |-> IF walk = "keyset" /\ asc THEN 0 ELSE None,
     cursor |-> None]
MCRequests ==
    {Request("owner", walk, asc, "id", FALSE, 2) : walk \in {"cursor", "page", "keyset"}, asc \in BOOLEAN}
    \cup {Request("owner", "page", FALSE, sort, FALSE, 2) : sort \in {"other", "none"}}
    \cup {Request("creator", "cursor", TRUE, "id", only_verified, 2) : only_verified \in BOOLEAN}
    \cup {Request("group", "cursor", FALSE, "id", show_unverified, 1) : show_unverified \in BOOLEAN}
    \cup {Request("authority", "cursor", FALSE, "id", FALSE, 1)}
    \cup {Request("search", walk, TRUE, "id", FALSE, 2) : walk \in {"cursor", "page"}}
    \cup {Request("tokens", "page", TRUE, "none", show_zero, 2) : show_zero \in BOOLEAN}
    \cup {Request("editions", "page", TRUE, "none", FALSE, 2), Request("tokens", "cursor", TRUE, "none", FALSE, 2)}
    \cup {Request("signatures", "page", asc, "none", FALSE, 2) : asc \in BOOLEAN}
    \cup {Request("owner", "cursor", TRUE, "other", FALSE, 2), Request("owner", "cursor", TRUE, "id", FALSE, 3),
          [Request("owner", "page", TRUE, "id", FALSE, 2) EXCEPT !.page = 0],
          [Request("owner", "page", TRUE, "id", FALSE, 2) EXCEPT !.cursor = 1]}

Row(hit, supply, data, class) == [hit |-> hit, supply |-> supply, data |-> data, class |-> class]
MCKinds(list) ==
    CASE list = "owner" -> {Row("owner", 1, TRUE, TRUE), Row("other", 1, TRUE, TRUE),
                            Row("owner", 1, FALSE, TRUE), Row("owner", 1, TRUE, FALSE)}
      [] list = "creator" -> {Row(hit, 1, TRUE, TRUE) : hit \in {"verified", "unverified", "stale"}}
      [] list = "group" -> {Row(hit, 1, TRUE, TRUE) : hit \in {"verified", "unverified", "null"}}
      [] list = "authority" -> {Row("authority", supply, TRUE, TRUE) : supply \in 0 .. 1}
      [] list = "search" -> {Row(hit, 1, TRUE, TRUE) : hit \in {"once", "twice", "other"}}
      [] list = "tokens" -> {Row("owner", amount, TRUE, TRUE) : amount \in 0 .. 1}
      [] list = "editions" -> {Row("parent", 1, data, TRUE) : data \in BOOLEAN}
      [] list = "signatures" -> {Row(hit, 1, TRUE, TRUE) : hit \in {"leaf", "other"}}
MCTables(r) ==
    [1 .. (IF Cardinality(MCKinds(r.list)) > 2 THEN 3 ELSE 4) -> MCKinds(r.list)]

ListIdle ==
    /\ table = << >> /\ request = Request("owner", "page", TRUE, "id", FALSE, 2)
    /\ state = "refused" /\ seen = << >> /\ at = 0 /\ kept = {} /\ shifted = FALSE
    /\ emptied = FALSE /\ changes = 0

-----------------------------------------------------------------------------
(* Searches: the columns a query does not look at do not vary.             *)

Query(asks, token_type, owner_type, condition_type) ==
    [asks |-> asks, token_type |-> token_type, owner_type |-> owner_type,
     condition_type |-> condition_type, negate |-> FALSE]
MCQueries ==
    {Query(asks, "none", owner_type, condition_type) :
        asks \in {{"delegate", "frozen"}, {"owner", "delegate"}, {"class", "burnt"},
                  {"creator", "creator_verified"}, {"creator_verified", "supply"},
                  {"authority", "grouping"}, {"owner", "name"}, {"json_uri", "owner"}},
        owner_type \in {"none", "token"}, condition_type \in {"all", "any"}}
    \cup {Query({"owner"}, token_type, "none", condition_type) :
        token_type \in {"compressed", "nft", "fungible", "all"}, condition_type \in {"all", "any"}}
    \cup {Query({"owner"}, "nft", "token", "all"), Query({"name"}, "none", "none", "all"),
          Query({"owner", "name", "json_uri"}, "none", "none", "all"),
          Query({}, "all", "none", "all"), Query({"owner", "class"}, "all", "none", "all")}

MCAssets(q) ==
    LET vary(asked, values, fixed) == IF asked THEN values ELSE {fixed}
        column(name) == vary(name \in q.asks, {"same", "other", Null}, "same")
        upto1(asked, row) == vary(asked, {<< >>} \cup {<<x>> : x \in row}, << >>)
        upto2(asked, row) == upto1(asked, row) \cup vary(asked, {<<x, y>> : x, y \in row}, << >>)
    IN  {[name \in Columns |-> CASE name = "delegate" -> d [] name = "frozen" -> f [] OTHER -> "same"]
         @@ [supply |-> s[1], burnt |-> s[2], owner_type |-> s[3], owner |-> o, class |-> c, tree |-> t,
             tokens |-> tk, creators |-> cr, authority |-> au, grouping |-> gr, data |-> da] :
            d \in column("delegate"),
            f \in vary("frozen" \in q.asks, {"same", "other"}, "same"),
            s \in {<<0, FALSE, "single">>, <<0, TRUE, "single">>, <<1, FALSE, "single">>,
                   <<1, TRUE, "token">>, <<2, FALSE, "single">>},
            o \in column("owner"),
            c \in IF q.token_type # "none" THEN {"same", "fungible", Null}
                  ELSE vary("class" \in q.asks, {"same", "nft", Null}, "same"),
            t \in vary(q.token_type # "none", BOOLEAN, FALSE),
            tk \in upto2(JoinsTokens(q), [owner : {"same", "other"}]),
            cr \in upto2(JoinsCreators(q), [creator : {"same", "other"}, verified : BOOLEAN]),
            au \in upto1("authority" \in q.asks, [authority : {"same", "other"}]),
            gr \in upto1("grouping" \in q.asks, [key : {"same"}, value : {"same", "other", Null}]),
            da \in upto1({"name", "json_uri"} \cap q.asks # {},
                         {[url |-> x, name |-> x] : x \in {"same", "other"}})}

SearchIdle ==
    /\ asset = << >> /\ query = << >>
    /\ answers = [negate \in BOOLEAN |-> [is |-> "not asked", rows |-> {}]]

-----------------------------------------------------------------------------

StreamIdle == StreamInit({<< >>})

MCInit ==
    \/ scene = "tree" /\ TreeInit(MCStarts) /\ StreamIdle /\ ListIdle /\ SearchIdle
    \/ scene = "stream" /\ StreamInit(MCStreams) /\ TreeIdle /\ ListIdle /\ SearchIdle
    \/ scene = "list" /\ ListInit(MCRequests, MCTables) /\ TreeIdle /\ StreamIdle /\ SearchIdle
    \/ scene = "search" /\ SearchInit(MCQueries, MCAssets) /\ TreeIdle /\ StreamIdle /\ ListIdle

\* Failed calls, and ingesters writing between the gap queries, on the
\* short chains only.
MCTree ==
    /\ \/ TreeStep
       \/ Len(chain) = 3 /\ TreeFails
       \/ Len(chain) = 3 /\ pc \in {"upper", "lower"} /\ \E seq \in 1 .. Total : Ingest(seq)
    /\ UNCHANGED <<scene, stream_vars, list_vars, search_vars>>

MCStream == StreamNext /\ UNCHANGED <<scene, tree_vars, list_vars, search_vars>>

MCList ==
    /\ \/ Refuse \/ Ask
       \/ \E id \in DOMAIN table, x \in MCKinds(request.list) : RowChanges(id, x)
    /\ UNCHANGED <<scene, tree_vars, stream_vars, search_vars>>

MCSearch ==
    /\ scene = "search" /\ \E negate \in BOOLEAN : Search(negate)
    /\ UNCHANGED <<scene, tree_vars, stream_vars, list_vars>>

MCNext == MCTree \/ MCStream \/ MCList \/ MCSearch

MCSpec == MCInit /\ [][MCNext]_vars /\ WF_tree_vars(TreeStep) /\ StreamFairness
=============================================================================
