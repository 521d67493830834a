------------------------------- MODULE Search -------------------------------
(***************************************************************************)
(* searchAssets: the condition SearchAssetsQuery::conditions builds        *)
(* (digital_asset_types/src/dao/mod.rs) under SQL's three-valued logic and *)
(* its LEFT JOINs, for a query and for the same query negated.             *)
(*                                                                         *)
(* A column that a filter compares with a value holds "same", "other" or   *)
(* Null.  `asset` has the columns of asset, and for each joined table the  *)
(* sequence of its rows; `query.asks` is the set of filters given.         *)
(***************************************************************************)
EXTENDS Naturals, FiniteSets, Sequences

CONSTANT Null

ASSUME NullAssumption == Null \notin BOOLEAN

VARIABLES
    asset,
    query,
    answers     \* by negate: whether it was asked or failed, and the rows found

search_vars == <<asset, query, answers>>

-----------------------------------------------------------------------------
(* SQL.                                                                    *)

Not(c) == IF c = Null THEN Null ELSE ~c

And(cs) == IF FALSE \in cs THEN FALSE ELSE IF Null \in cs THEN Null ELSE TRUE

Or(cs) == IF TRUE \in cs THEN TRUE ELSE IF Null \in cs THEN Null ELSE FALSE

Eq(column, value) == IF column = Null THEN Null ELSE column = value

\* The rows of a LEFT JOIN: one row of NULLs where the table has none.
Joined(given, rows) ==
    IF given /\ rows # << >> THEN DOMAIN rows ELSE {0}

Column(rows, n, name) == IF n = 0 THEN Null ELSE rows[n][name]

-----------------------------------------------------------------------------
(* The query.                                                              *)

\* The filters `column = value` on the asset table.
Columns == {"specification_version", "delegate", "frozen", "supply_mint", "compressed",
            "compressible", "royalty_target_type", "royalty_target", "royalty_amount"}

validate(q) ==
    q.token_type # "none" =>
        /\ q.owner_type = "none" /\ "owner" \in q.asks /\ "class" \notin q.asks

\* validate_search_with_name: a name needs the owner.  Two filters on
\* asset_data join the table twice under one name, which the database refuses.
Accepted(q) ==
    /\ validate(q)
    /\ "name" \in q.asks => "owner" \in q.asks
    /\ ~({"name", "json_uri"} \subseteq q.asks)

Nft == {"nft", "same"}
Fungible == {"fungible"}

ClassIn(classes) == IF asset.class = Null THEN Null ELSE asset.class \in classes

TokenType(q) ==
    CASE q.token_type = "compressed" -> {asset.tree}
      [] q.token_type = "nft" -> {And({~asset.tree, ClassIn(Nft)})}
      [] q.token_type = "fungible" -> {ClassIn(Fungible)}
      [] q.token_type = "all" -> {asset.class # Null}
      [] q.token_type = "none" -> {}

JoinsTokens(q) == q.token_type \in {"fungible", "all"} /\ "owner" \in q.asks

JoinsCreators(q) == {"creator", "creator_verified"} \cap q.asks # {}

\* The rows of the statement before WHERE.
JoinedRows(q) ==
    [token : Joined(JoinsTokens(q), asset.tokens),
     creator : Joined(JoinsCreators(q), asset.creators),
     authority : Joined("authority" \in q.asks, asset.authority),
     grouping : Joined("grouping" \in q.asks, asset.grouping),
     data : Joined({"json_uri", "name"} \cap q.asks # {}, asset.data)]

Option(q, name, condition) == IF name \in q.asks THEN {condition} ELSE {}

OwnerIs(q, row) ==
    IF JoinsTokens(q)
    THEN Or({Eq(asset.owner, "same"), Eq(Column(asset.tokens, row.token, "owner"), "same")})
    ELSE Eq(asset.owner, "same")

\* Without a supply, assets of supply 0 that are not burnt are left out.
SupplyIs(q) ==
    IF "supply" \in q.asks THEN asset.supply = 1 ELSE asset.supply # 0 \/ asset.burnt

\* Without an owner type and a token type, the search is for NFTs.
OwnerTypeIs(q) ==
    IF q.owner_type # "none" THEN asset.owner_type = q.owner_type
    ELSE CASE q.token_type = "fungible" ->
                And({asset.owner_type = "token", ClassIn(Fungible)})
           [] q.token_type = "all" -> asset.class # Null
           [] OTHER -> asset.owner_type = "single" /\ asset.supply <= 1

Filters(q, row) ==
    {Eq(asset[c], "same") : c \in q.asks \cap Columns}
    \cup TokenType(q)
    \cup Option(q, "class", Eq(asset.class, "same"))
    \cup Option(q, "owner", OwnerIs(q, row))
    \cup Option(q, "burnt", asset.burnt)
    \cup {SupplyIs(q), OwnerTypeIs(q)}
    \cup Option(q, "creator", Eq(Column(asset.creators, row.creator, "creator"), "same"))
    \cup Option(q, "creator_verified", Eq(Column(asset.creators, row.creator, "verified"), TRUE))
    \cup Option(q, "authority", Eq(Column(asset.authority, row.authority, "authority"), "same"))
    \cup Option(q, "grouping", And({Eq(Column(asset.grouping, row.grouping, "key"), "same"),
                                    Eq(Column(asset.grouping, row.grouping, "value"), "same")}))
    \cup Option(q, "json_uri", Eq(Column(asset.data, row.data, "url"), "same"))
    \cup Option(q, "name", Eq(Column(asset.data, row.data, "name"), "same"))

\* Mutant: every filter is negated, and they are combined as before.
conditions_each(q, row) ==
    LET cs == {IF q.negate THEN Not(c) ELSE c : c \in Filters(q, row)}
    IN  IF q.condition_type = "any" THEN Or(cs) ELSE And(cs)

conditions(q, row) ==
    LET cs == Filters(q, row)
        all == IF q.condition_type = "any" THEN Or(cs) ELSE And(cs)
    IN  IF q.negate THEN Not(all) ELSE all

\* get_assets_by_condition: the rows of the asset in the answer.
search_assets(q) ==
    IF Accepted(q)
    THEN [is |-> "answer", rows |-> {row \in JoinedRows(q) : conditions(q, row) = TRUE}]
    ELSE [is |-> "error", rows |-> {}]

-----------------------------------------------------------------------------

SearchInit(queries, assets(_)) ==
    /\ query \in queries
    /\ asset \in assets(query)
    /\ answers = [negate \in BOOLEAN |-> [is |-> "not asked", rows |-> {}]]

\* The client sends the query, or the query negated.
Search(negate) ==
    /\ answers[negate].is = "not asked"
    /\ answers' = [answers EXCEPT ![negate] = search_assets([query EXCEPT !.negate = negate])]
    /\ UNCHANGED <<asset, query>>

-----------------------------------------------------------------------------

\* A filter of the query meets NULL in row.
MeetsNull(row) == Null \in Filters(query, row)

\* A query and its negation share out the rows of the statement: no row
\* answers both, and a row that answers neither has NULL in a column the
\* query filters by.  They are refused together
\* (SearchAssetsQuery::conditions and validate).
NegationIsComplement ==
    (\A negate \in BOOLEAN : answers[negate].is # "not asked") =>
        LET asked == answers[FALSE]
            negated == answers[TRUE]
        IN  /\ asked.is = negated.is
            /\ asked.rows \cap negated.rows = {}
            /\ asked.is = "answer" =>
                 \A row \in JoinedRows(query) \ (asked.rows \cup negated.rows) : MeetsNull(row)
=============================================================================
