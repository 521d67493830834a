---------------------------- MODULE ServiceProofs ----------------------------
(***************************************************************************)
(* Proofs about two of the services around the index: the stream workers   *)
(* of the ingester with the parser of transactions, and searchAssets.      *)
(***************************************************************************)
EXTENDS Stream, Search, NaturalsInduction, WellFoundedInduction, TLAPS

-----------------------------------------------------------------------------
(* searchAssets: NegationIsComplement.                                     *)

Queries == [asks : SUBSET STRING, token_type : STRING, owner_type : STRING,
            condition_type : STRING, negate : BOOLEAN]

SearchNext == \E negate \in BOOLEAN : Search(negate)

\* An answer given is that of the query with its negate set.
SearchInv ==
    /\ query \in Queries
    /\ DOMAIN answers = BOOLEAN
    /\ \A negate \in BOOLEAN :
          answers[negate].is = "not asked"
          \/ answers[negate] = search_assets([query EXCEPT !.negate = negate])

\* conditions is one of the three values of SQL, NULL only if a filter is.
LEMMA ThreeValued ==
    ASSUME NEW cs
    PROVE  /\ And(cs) \in {TRUE, FALSE, Null} /\ Or(cs) \in {TRUE, FALSE, Null}
           /\ And(cs) = Null => Null \in cs
           /\ Or(cs) = Null => Null \in cs
  BY NullAssumption, Zenon DEF And, Or

\* The filters and the joins of a query do not depend on negate.
LEMMA SameFilters ==
    ASSUME NEW q \in Queries, NEW negate \in BOOLEAN, NEW p, p = [q EXCEPT !.negate = negate]
    PROVE  /\ Accepted(p) = Accepted(q) /\ JoinedRows(p) = JoinedRows(q)
           /\ \A row : Filters(p, row) = Filters(q, row)
           /\ p.condition_type = q.condition_type /\ p.negate = negate
<1>1. /\ p.asks = q.asks /\ p.token_type = q.token_type /\ p.owner_type = q.owner_type
      /\ p.condition_type = q.condition_type /\ p.negate = negate
  BY DEF Queries
<1>2. Accepted(p) = Accepted(q)
  BY <1>1, Zenon DEF Accepted, validate
<1>3. JoinsTokens(p) = JoinsTokens(q) /\ JoinsCreators(p) = JoinsCreators(q)
  BY <1>1, Zenon DEF JoinsTokens, JoinsCreators
<1>4. JoinedRows(p) = JoinedRows(q)
  BY <1>1, <1>3, Zenon DEF JoinedRows
<1>5. ASSUME NEW row
      PROVE  Filters(p, row) = Filters(q, row)
  <2>1. TokenType(p) = TokenType(q)
    BY <1>1, Zenon DEF TokenType
  <2>2. OwnerIs(p, row) = OwnerIs(q, row)
    BY <1>3, Zenon DEF OwnerIs
  <2>3. SupplyIs(p) = SupplyIs(q) /\ OwnerTypeIs(p) = OwnerTypeIs(q)
    BY <1>1, Zenon DEF SupplyIs, OwnerTypeIs
  <2>4. \A name, condition : Option(p, name, condition) = Option(q, name, condition)
    BY <1>1, Zenon DEF Option
  <2> QED
    BY <1>1, <2>1, <2>2, <2>3 DEF Filters, Option
<1> QED
  BY <1>1, <1>2, <1>4, <1>5, Zenon

\* The answers to a query and to its negation.
LEMMA Answers ==
    ASSUME NEW q \in Queries, NEW negate \in BOOLEAN
    PROVE  LET answer == search_assets([q EXCEPT !.negate = negate])
               all(row) == IF q.condition_type = "any" THEN Or(Filters(q, row))
                                                       ELSE And(Filters(q, row))
           IN  /\ answer.is = IF Accepted(q) THEN "answer" ELSE "error"
               /\ answer.rows = IF Accepted(q)
                                THEN {row \in JoinedRows(q) :
                                        (IF negate THEN Not(all(row)) ELSE all(row)) = TRUE}
                                ELSE {}
<1> DEFINE p == [q EXCEPT !.negate = negate]
           all(row) == IF q.condition_type = "any" THEN Or(Filters(q, row)) ELSE And(Filters(q, row))
<1>1. /\ Accepted(p) = Accepted(q) /\ JoinedRows(p) = JoinedRows(q)
      /\ \A row : Filters(p, row) = Filters(q, row)
      /\ p.condition_type = q.condition_type /\ p.negate = negate
  BY SameFilters, Zenon
<1> HIDE DEF p
<1>2. \A row : conditions(p, row) = IF negate THEN Not(all(row)) ELSE all(row)
  BY <1>1, Zenon DEF conditions
<1>3. CASE Accepted(q)
  <2>1. search_assets(p) = [is |-> "answer",
                            rows |-> {row \in JoinedRows(p) : conditions(p, row) = TRUE}]
    BY <1>1, <1>3, Zenon DEF search_assets
  <2>2. {row \in JoinedRows(p) : conditions(p, row) = TRUE}
        = {row \in JoinedRows(q) : (IF negate THEN Not(all(row)) ELSE all(row)) = TRUE}
    BY <1>1, <1>2, Zenon
  <2> HIDE DEF all
  <2>3. /\ search_assets(p).is = "answer"
        /\ search_assets(p).rows
           = {row \in JoinedRows(q) : (IF negate THEN Not(all(row)) ELSE all(row)) = TRUE}
    BY <2>1, <2>2
  <2> QED
    BY <1>3, <2>3 DEF all, p
<1>4. CASE ~Accepted(q)
  <2>1. search_assets(p) = [is |-> "error", rows |-> {}]
    BY <1>1, <1>4, Zenon DEF search_assets
  <2> QED
    BY <1>4, <2>1 DEF p
<1> QED
  BY <1>3, <1>4, Zenon

\* The answer to a query is a matter of the asset's columns and rows alone.
LEMMA AnswerStays ==
    ASSUME asset' = asset, NEW q
    PROVE  search_assets(q)' = search_assets(q)
<1>1. JoinedRows(q)' = JoinedRows(q)
  BY DEF JoinedRows, Joined
<1>2. ASSUME NEW row
      PROVE  Filters(q, row)' = Filters(q, row)
  <2>1. TokenType(q)' = TokenType(q)
    BY DEF TokenType, ClassIn
  <2>2. OwnerIs(q, row)' = OwnerIs(q, row)
    BY DEF OwnerIs
  <2>3. SupplyIs(q)' = SupplyIs(q) /\ OwnerTypeIs(q)' = OwnerTypeIs(q)
    BY DEF SupplyIs, OwnerTypeIs, ClassIn
  <2> QED
    BY <2>1, <2>2, <2>3 DEF Filters
<1>3. \A row : conditions(q, row)' = conditions(q, row)
  BY <1>2, Zenon DEF conditions
<1>4. {row \in JoinedRows(q)' : conditions(q, row)' = TRUE}
      = {row \in JoinedRows(q) : conditions(q, row) = TRUE}
  BY <1>1, <1>3, Zenon
<1> QED
  BY <1>4, Zenon DEF search_assets, Accepted, validate

\* Every search keeps the invariant.
LEMMA SearchStep ==
    ASSUME SearchInv, [SearchNext]_search_vars
    PROVE  SearchInv'
<1>1. asset' = asset /\ query' = query
  BY Zenon DEF SearchNext, Search, search_vars
<1>2. \A negate \in BOOLEAN : search_assets([query EXCEPT !.negate = negate])'
                              = search_assets([query EXCEPT !.negate = negate])
  BY <1>1, AnswerStays
<1>3. CASE UNCHANGED search_vars
  BY <1>1, <1>2, <1>3, Zenon DEF SearchInv, search_vars
<1>4. ASSUME NEW n \in BOOLEAN, Search(n)
      PROVE  SearchInv'
  <2>1. answers' = [answers EXCEPT ![n] = search_assets([query EXCEPT !.negate = n])]
    BY <1>4, Zenon DEF Search
  <2> QED
    BY <1>1, <1>2, <2>1, Zenon DEF SearchInv
<1> QED
  BY <1>3, <1>4, Zenon DEF SearchNext

\* For any query and any asset, with any columns NULL and any number of joined rows
\* (SearchAssetsQuery::conditions): no row answers the query and its negation, one that
\* answers neither has NULL in a column filtered by, and both are refused or neither.
THEOREM NegationHolds ==
    ASSUME NEW CONSTANT queries \in SUBSET Queries, NEW CONSTANT assets(_)
    PROVE  SearchInit(queries, assets) /\ [][SearchNext]_search_vars => []NegationIsComplement
<1>1. ASSUME SearchInit(queries, assets)
      PROVE  SearchInv
  <2>1. query \in Queries /\ answers = [negate \in BOOLEAN |-> [is |-> "not asked", rows |-> {}]]
    BY <1>1, Zenon DEF SearchInit
  <2>2. DOMAIN answers = BOOLEAN /\ \A negate \in BOOLEAN : answers[negate].is = "not asked"
    BY <2>1, Zenon
  <2> QED
    BY <2>1, <2>2, Zenon DEF SearchInv
<1>2. SearchInv /\ [SearchNext]_search_vars => SearchInv'
  BY SearchStep, Zenon
<1>3. ASSUME SearchInv
      PROVE  NegationIsComplement
  <2> SUFFICES ASSUME \A negate \in BOOLEAN : answers[negate].is # "not asked"
               PROVE  LET asked == answers[FALSE]
                          negated == answers[TRUE]
                      IN  /\ asked.is = negated.is
                          /\ asked.rows \cap negated.rows = {}
                          /\ asked.is = "answer" =>
                               \A row \in JoinedRows(query) \ (asked.rows \cup negated.rows) :
                                  MeetsNull(row)
    BY Zenon DEF NegationIsComplement
  <2> DEFINE all(row) == IF query.condition_type = "any" THEN Or(Filters(query, row))
                                                         ELSE And(Filters(query, row))
  <2>1. \A negate \in BOOLEAN : answers[negate] = search_assets([query EXCEPT !.negate = negate])
    BY <1>3, Zenon DEF SearchInv
  <2>2. query \in Queries
    BY <1>3, Zenon DEF SearchInv
  <2>3. \A row : all(row) \in {TRUE, FALSE, Null} /\ (all(row) = Null => MeetsNull(row))
    BY ThreeValued, Zenon DEF MeetsNull
  <2>4. /\ answers[FALSE].is = IF Accepted(query) THEN "answer" ELSE "error"
        /\ answers[FALSE].rows = IF Accepted(query) THEN {row \in JoinedRows(query) : all(row) = TRUE}
                                                    ELSE {}
    BY <2>1, <2>2, Answers, Zenon
  <2>5. /\ answers[TRUE].is = IF Accepted(query) THEN "answer" ELSE "error"
        /\ answers[TRUE].rows = IF Accepted(query)
                                THEN {row \in JoinedRows(query) : Not(all(row)) = TRUE} ELSE {}
    BY <2>1, <2>2, Answers, Zenon
  <2> HIDE DEF all
  <2>6. CASE Accepted(query)
    <3>1. answers[FALSE].is = "answer" /\ answers[TRUE].is = "answer"
      BY <2>4, <2>5, <2>6, Zenon
    <3>2. /\ answers[FALSE].rows = {row \in JoinedRows(query) : all(row) = TRUE}
          /\ answers[TRUE].rows = {row \in JoinedRows(query) : Not(all(row)) = TRUE}
      BY <2>4, <2>5, <2>6, Zenon
    <3>3. \A row : ~(all(row) = TRUE /\ Not(all(row)) = TRUE)
      BY NullAssumption, Zenon DEF Not
    <3>4. \A row : all(row) = TRUE \/ Not(all(row)) = TRUE \/ MeetsNull(row)
      BY <2>3, NullAssumption, Zenon DEF Not
    <3>5. answers[FALSE].rows \cap answers[TRUE].rows = {}
      BY <3>2, <3>3, Zenon
    <3> QED
      BY <3>1, <3>2, <3>4, <3>5, Zenon
  <2>7. CASE ~Accepted(query)
    <3>1. answers[FALSE].is = "error" /\ answers[TRUE].is = "error" /\ answers[FALSE].rows = {}
      BY <2>4, <2>5, <2>7, Zenon
    <3> QED
      BY <3>1, Zenon
  <2> QED
    BY <2>6, <2>7, Zenon
<1> QED
  BY <1>1, <1>2, <1>3, PTL

-----------------------------------------------------------------------------
(* The parser: what a Bubblegum instruction is stored with.                *)

\* A set of numbers has a least one, which Min is.
LEMMA MinIs ==
    ASSUME NEW S \in SUBSET Nat, S # {}
    PROVE  Min(S) \in S /\ \A n \in S : Min(S) <= n
<1>1. PICK m \in S : \A n \in S : ~(<<n, m>> \in OpToRel(<, Nat))
  BY NatLessThanWellFounded, WFMin, Zenon
<1>2. \A n \in S : ~(n < m)
  BY <1>1, Zenon DEF OpToRel
<1>3. \A n \in S : m <= n
  BY <1>2
<1> QED
  BY <1>3, Zenon DEF Min

\* Max is the greatest number of a set that has one.
LEMMA MaxIs ==
    ASSUME NEW S \in SUBSET Nat, NEW m \in S, \A n \in S : n <= m
    PROVE  Max(S) = m
<1>1. \E x \in S : \A y \in S : x >= y
  OBVIOUS
<1>2. Max(S) \in S /\ \A y \in S : Max(S) >= y
  BY <1>1, Zenon DEF Max
<1>3. Max(S) \in Nat /\ m \in Nat /\ Max(S) >= m /\ Max(S) <= m
  BY <1>2, Zenon
<1> HIDE DEF Max
<1> QED
  BY <1>3

\* A bounded set of numbers has a greatest one.
LEMMA MaxOfBounded ==
    ASSUME NEW b \in Nat, NEW S \in SUBSET (0 .. b), S # {}
    PROVE  Max(S) \in S
<1> DEFINE T == {k \in 0 .. b : \A n \in S : n <= k}
<1>1. T \in SUBSET Nat /\ b \in T
  OBVIOUS
<1>2. PICK k \in T : \A l \in T : k <= l
  <2>1. T # {}
    BY <1>1
  <2> HIDE DEF T
  <2> QED
    BY <1>1, <2>1, MinIs, Zenon
<1>3. k \in S
  <2> SUFFICES ASSUME k \notin S
               PROVE  FALSE
    OBVIOUS
  <2>1. PICK n : n \in S
    OBVIOUS
  <2>2. k \in 0 .. b /\ \A m \in S : m <= k /\ m # k /\ m \in 0 .. b
    BY <1>2
  <2>3. k - 1 \in T
    BY <2>1, <2>2
  <2> QED
    BY <1>2, <2>2, <2>3
<1>4. S \in SUBSET Nat /\ \A n \in S : n <= k
  BY <1>2
<1> QED
  BY <1>3, <1>4, MaxIs

\* An event kept by the parser is one of the events it was given.
LEMMA LastEvent ==
    ASSUME NEW inner \in Seq(Instructions), NEW kind, events(inner, kind) # 0
    PROVE  \E n \in DOMAIN inner : /\ inner[n].program \in Noops /\ inner[n].name = kind
                                   /\ events(inner, kind) = inner[n].of
<1> DEFINE found == {n \in DOMAIN inner : inner[n].program \in Noops /\ inner[n].name = kind}
<1>1. found # {} /\ events(inner, kind) = inner[Max(found)].of
  BY Zenon DEF events
<1>2. Len(inner) \in Nat /\ found \in SUBSET (0 .. Len(inner))
  OBVIOUS
<1>3. Max(found) \in found
  <2> HIDE DEF found
  <2> QED
    BY <1>1, <1>2, MaxOfBounded, Zenon
<1> QED
  BY <1>1, <1>3, Zenon

\* A hoisted instruction is given the ones behind it, none of them of its own program.
LEMMA HoistedSlice ==
    ASSUME NEW inner \in Seq(Instructions), NEW n \in DOMAIN inner
    PROVE  \E s \in Seq(Instructions) :
              /\ Hoisted(inner, n) = Work(inner[n], s)
              /\ \A m \in DOMAIN s :
                    /\ m \in Nat \ {0} /\ n + m \in DOMAIN inner /\ s[m] = inner[n + m]
                    /\ \A k \in n + 1 .. n + m : inner[k].program # inner[n].program
<1> DEFINE same == {m \in n + 1 .. Len(inner) : inner[m].program = inner[n].program}
           last == IF same = {} THEN Len(inner) ELSE Min(same) - 1
           s == SubSeq(inner, n + 1, last)
<1>1. Hoisted(inner, n) = Work(inner[n], s)
  BY Zenon DEF Hoisted
<1>2. n \in Nat \ {0} /\ Len(inner) \in Nat /\ n <= Len(inner) /\ DOMAIN inner = 1 .. Len(inner)
  OBVIOUS
<1>3. /\ last \in Nat /\ n <= last /\ last <= Len(inner)
      /\ \A k \in n + 1 .. last : k \notin same
  <2>1. CASE same = {}
    BY <1>2, <2>1
  <2>2. CASE same # {}
    <3>1. same \in SUBSET Nat
      BY <1>2
    <3>2. Min(same) \in same /\ \A m \in same : Min(same) <= m
      <4> HIDE DEF same
      <4> QED
        BY <2>2, <3>1, MinIs, SMTT(30)
    <3>3. last = Min(same) - 1
      BY <2>2
    <3>4. Min(same) \in n + 1 .. Len(inner)
      BY <3>2
    <3> HIDE DEF same, last
    <3> QED
      BY <1>2, <3>1, <3>2, <3>3, <3>4, SMTT(30)
  <2> QED
    BY <2>1, <2>2
<1>4. \A k \in n + 1 .. last : inner[k].program # inner[n].program
  BY <1>2, <1>3
<1> HIDE DEF same, last
<1>5. s \in Seq(Instructions) /\ Len(s) = last - n
  BY <1>2, <1>3
<1>6. \A m \in 1 .. last - n : s[m] = inner[n + m] /\ n + m \in DOMAIN inner /\ n + m \in n + 1 .. last
  BY <1>2, <1>3
<1> HIDE DEF s
<1>7. ASSUME NEW m \in DOMAIN s
      PROVE  /\ m \in Nat \ {0} /\ n + m \in DOMAIN inner /\ s[m] = inner[n + m]
             /\ \A k \in n + 1 .. n + m : inner[k].program # inner[n].program
  <2>1. m \in 1 .. last - n
    BY <1>3, <1>5
  <2>2. \A k \in n + 1 .. n + m : k \in n + 1 .. last
    BY <1>2, <1>3, <2>1
  <2> QED
    BY <1>4, <1>6, <2>1, <2>2
<1> QED
  BY <1>1, <1>5, <1>7, Zenon

Calls == [outer : Instructions, inner : Seq(Instructions)]

\* The events of an instruction called inside another are its own: those of later calls
\* are cut off, and nothing else logs after it.
LEMMA HoistedOwn ==
    ASSUME NEW call \in Calls, Logged(call), OwnEvents(call),
           NEW n \in DOMAIN call.inner, call.inner[n].program = "bubblegum",
           NEW kind, events(Hoisted(call.inner, n).inner, kind) # 0
    PROVE  /\ events(Hoisted(call.inner, n).inner, kind) = call.inner[n].id
           /\ kind = "leaf_schema" => call.inner[n].name \notin Leaves
<1> DEFINE inner == call.inner
<1>1. inner \in Seq(Instructions) /\ n \in DOMAIN inner
  BY DEF Calls
<1>2. PICK s \in Seq(Instructions) :
              /\ Hoisted(inner, n) = Work(inner[n], s)
              /\ \A m \in DOMAIN s :
                    /\ m \in Nat \ {0} /\ n + m \in DOMAIN inner /\ s[m] = inner[n + m]
                    /\ \A k \in n + 1 .. n + m : inner[k].program # inner[n].program
  BY <1>1, HoistedSlice, Zenon
<1>3. Hoisted(inner, n).inner = s
  BY <1>2 DEF Work
<1>4. PICK m \in DOMAIN s : /\ s[m].program \in Noops /\ s[m].name = kind
                            /\ events(s, kind) = s[m].of
  BY <1>3, LastEvent
<1> DEFINE l == n + m
           called == {k \in 1 .. l - 1 : inner[k].program = "bubblegum"}
<1>5. n \in Nat \ {0} /\ m \in Nat \ {0} /\ l \in DOMAIN inner /\ s[m] = inner[l]
  BY <1>1, <1>2
<1>6. called \in SUBSET Nat /\ n \in called
  BY <1>5
<1>7. \A k \in called : k <= n
  <2> TAKE k \in called
  <2>1. k \in 1 .. l - 1 /\ inner[k].program = inner[n].program
    OBVIOUS
  <2>2. k \notin n + 1 .. n + m
    BY <1>2, <2>1, Zenon
  <2> QED
    BY <1>5, <2>1, <2>2
<1>8. Max(called) = n
  <2> HIDE DEF called
  <2> QED
    BY <1>6, <1>7, MaxIs, Zenon
<1>9. inner[l].program \in Noops
  BY <1>4, <1>5, Zenon
<1>10. inner[l].of \in BubblegumIds(call)
  BY <1>5, <1>6, <1>9, Zenon DEF OwnEvents
<1>11. called # {}
  BY <1>6, Zenon
<1>12. /\ inner[l].of = inner[n].id
       /\ inner[l].name = "leaf_schema" => inner[n].name \notin Leaves
  BY <1>5, <1>8, <1>9, <1>10, <1>11, Zenon DEF Logged
<1> QED
  BY <1>3, <1>4, <1>5, <1>12, Zenon

\* The events of an instruction called by the transaction are its own.
LEMMA OuterOwn ==
    ASSUME NEW call \in Calls, Logged(call), OwnEvents(call), call.outer.program = "bubblegum",
           NEW kind, events(call.inner, kind) # 0
    PROVE  /\ events(call.inner, kind) = call.outer.id
           /\ kind = "leaf_schema" => call.outer.name \notin Leaves
<1> DEFINE inner == call.inner
<1>1. inner \in Seq(Instructions)
  BY DEF Calls
<1>2. PICK n \in DOMAIN inner : /\ inner[n].program \in Noops /\ inner[n].name = kind
                                /\ events(inner, kind) = inner[n].of
  BY <1>1, LastEvent
<1> DEFINE called == {k \in 1 .. n - 1 : inner[k].program = "bubblegum"}
<1>3. inner[n].of \in BubblegumIds(call)
  BY <1>2, Zenon DEF OwnEvents
<1>4. called = {}
  <2> SUFFICES ASSUME NEW k \in 1 .. n - 1, inner[k].program = "bubblegum"
               PROVE  FALSE
    BY Zenon
  <2>1. k \in DOMAIN inner
    BY <1>1, <1>2
  <2> QED
    BY <2>1, Zenon DEF Logged
<1>5. /\ inner[n].of = call.outer.id
      /\ inner[n].name = "leaf_schema" => call.outer.name \notin Leaves
  BY <1>2, <1>3, <1>4, Zenon DEF Logged
<1> QED
  BY <1>2, <1>5, Zenon

\* An instruction that is applied is stored with the change of the tree and the leaf that
\* its own execution logged.
LEMMA WorkOwn ==
    ASSUME NEW calls \in Seq(Calls),
           \A call \in ToSet(calls) : Logged(call) /\ OwnEvents(call),
           NEW work \in Works(calls), Outcome(work) = "apply"
    PROVE  LET parsed == handle_instruction(work)
           IN  /\ parsed.tree_update = work.ix.id
               /\ parsed.leaf_update = IF work.ix.name \in Leaves THEN 0 ELSE work.ix.id
<1> DEFINE parsed == handle_instruction(work)
<1>1. work.ix.program = "bubblegum" /\ Accepts(parsed)
  BY Zenon DEF Outcome
<1>2. /\ parsed.name = work.ix.name /\ parsed.tree_update = events(work.inner, "change_log")
      /\ parsed.leaf_update = events(work.inner, "leaf_schema")
  BY DEF handle_instruction
<1>3. parsed.tree_update # 0 /\ (work.ix.name \in Leaves \/ parsed.leaf_update # 0)
  BY <1>1, <1>2, Zenon DEF Accepts
<1>4. ASSUME NEW kind \in {"change_log", "leaf_schema"}, events(work.inner, kind) # 0
      PROVE  /\ events(work.inner, kind) = work.ix.id
             /\ kind = "leaf_schema" => work.ix.name \notin Leaves
  <2>1. PICK call \in ToSet(calls) :
             \/ \E n \in DOMAIN call.inner : work = Hoisted(call.inner, n)
             \/ work = Work(call.outer, call.inner)
    BY Zenon DEF Works
  <2>2. call \in Calls
    BY DEF ToSet
  <2>3. CASE \E n \in DOMAIN call.inner : work = Hoisted(call.inner, n)
    <3>1. PICK n \in DOMAIN call.inner : work = Hoisted(call.inner, n)
      BY <2>3
    <3>2. work.ix = call.inner[n]
      BY <3>1 DEF Hoisted, Work
    <3> QED
      BY <1>1, <1>4, <2>2, <3>1, <3>2, HoistedOwn, Zenon
  <2>4. CASE work = Work(call.outer, call.inner)
    <3>1. work.ix = call.outer /\ work.inner = call.inner
      BY <2>4 DEF Work
    <3> QED
      BY <1>1, <1>4, <2>2, <3>1, OuterOwn, Zenon
  <2> QED
    BY <2>1, <2>3, <2>4, Zenon
<1> HIDE DEF parsed
<1>5. parsed.tree_update = work.ix.id
  BY <1>2, <1>3, <1>4, Zenon
<1>6. parsed.leaf_update = IF work.ix.name \in Leaves THEN 0 ELSE work.ix.id
  BY <1>2, <1>3, <1>4, Zenon
<1> QED
  BY <1>5, <1>6, Zenon DEF parsed

-----------------------------------------------------------------------------
(* The stream workers: AckedIsApplied.                                     *)

Transactions == {x \in DOMAIN Messages : Messages[x].type = "transaction"}

\* Every change of message x, at m, that comes before step is done.
DoneBefore(x, m, step, done) ==
    \A n \in DOMAIN Pieces[x] :
        n < step /\ Pieces[x][n].outcome = "apply" => Change(m, Pieces[x][n]) \in done

\* Every change is done that does not follow an instruction that cannot be parsed.
Complete(x, m, done) ==
    \A n \in DOMAIN Pieces[x] : Pieces[x][n].outcome = "apply" =>
        Change(m, Pieces[x][n]) \in done \/ \E k \in 1 .. n - 1 : Pieces[x][k].outcome \in Final

Task == [m : DOMAIN stream, worker : Workers, step : Nat \ {0}, not_impl : Nat]

\* A task has done what comes before its step, and a message on its way to the
\* acknowledgement is complete.
StreamInv ==
    /\ stream \in Seq(DOMAIN Messages)
    /\ fresh \subseteq DOMAIN stream /\ pending \subseteq DOMAIN stream
    /\ acks \subseteq DOMAIN stream /\ acked \subseteq DOMAIN stream
    /\ tasks \subseteq Task
    /\ \A t \in tasks : stream[t.m] \in Transactions => DoneBefore(stream[t.m], t.m, t.step, applied)
    /\ \A m \in acks \cup acked : stream[m] \in Transactions => Complete(stream[m], m, applied)

\* The work of a transaction is a sequence of pieces.
LEMMA WorkIs ==
    ASSUME NEW x \in Transactions
    PROVE  LET calls == Messages[x].calls
               ordered == order_instructions(calls)
           IN  /\ calls \in Seq(Calls) /\ \A call \in ToSet(calls) : Logged(call)
               /\ ordered \in Seq(Works(calls))
               /\ Pieces[x] = [n \in DOMAIN ordered |-> Piece(ordered[n])]
               /\ Len(ordered) \in Nat /\ DOMAIN Pieces[x] = 1 .. Len(ordered)
               /\ Len(Pieces[x]) = Len(ordered)
<1> DEFINE calls == Messages[x].calls
           ordered == order_instructions(calls)
<1>1. /\ calls \in Seq(Calls) /\ \A call \in ToSet(calls) : Logged(call)
      /\ ordered \in Seq(Works(calls))
  BY MessagesAssumption, Zenon DEF Transactions, Calls
<1>2. Pieces[x] = [n \in DOMAIN ordered |-> Piece(ordered[n])]
  BY Zenon DEF Pieces, Transactions
<1> HIDE DEF ordered
<1>3. Len(ordered) \in Nat /\ DOMAIN ordered = 1 .. Len(ordered)
  BY <1>1
<1>4. Len(Pieces[x]) = Len(ordered) /\ DOMAIN Pieces[x] = 1 .. Len(ordered)
  BY <1>2, <1>3
<1> QED
  BY <1>1, <1>2, <1>3, <1>4, Zenon DEF ordered

\* What is written stays written.
LEMMA DoneGrows ==
    ASSUME NEW x, NEW m, NEW step, NEW done, NEW more, done \subseteq more
    PROVE  /\ DoneBefore(x, m, step, done) => DoneBefore(x, m, step, more)
           /\ Complete(x, m, done) => Complete(x, m, more)
  BY Zenon DEF DoneBefore, Complete

\* A step has to answer for new tasks and new acknowledgements only.
LEMMA StreamKeeps ==
    ASSUME StreamInv, stream' = stream, applied \subseteq applied',
           fresh' \subseteq DOMAIN stream, pending' \subseteq DOMAIN stream,
           \A t \in tasks' : t \in tasks \/ /\ t \in Task
                                            /\ stream[t.m] \in Transactions =>
                                                 DoneBefore(stream[t.m], t.m, t.step, applied'),
           \A m \in acks' \cup acked' :
              \/ m \in acks \cup acked
              \/ m \in DOMAIN stream /\ (stream[m] \in Transactions => Complete(stream[m], m, applied'))
    PROVE  StreamInv'
<1>1. \A t \in tasks' : t \in Task /\ (stream[t.m] \in Transactions =>
                                          DoneBefore(stream[t.m], t.m, t.step, applied'))
  BY DoneGrows, Zenon DEF StreamInv
<1>2. \A m \in acks' \cup acked' : m \in DOMAIN stream
                /\ (stream[m] \in Transactions => Complete(stream[m], m, applied'))
  BY DoneGrows, Zenon DEF StreamInv
<1>3. Task' = Task
  BY Zenon DEF Task
<1>4. stream \in Seq(DOMAIN Messages)
  BY Zenon DEF StreamInv
<1> QED
  BY <1>1, <1>2, <1>3, <1>4, Zenon DEF StreamInv

\* A task ends; it is acknowledged if what it leaves undone follows an error that is final.
LEMMA FinishKeeps ==
    ASSUME StreamInv, NEW t \in tasks, NEW result, Finish(t, result), UNCHANGED applied,
           capture_result(result) /\ stream[t.m] \in Transactions => Complete(stream[t.m], t.m, applied)
    PROVE  StreamInv'
<1>1. /\ stream' = stream /\ fresh' = fresh /\ pending' = pending /\ acked' = acked
      /\ tasks' \subseteq tasks
      /\ \A m \in acks' : m \in acks \/ (m = t.m /\ capture_result(result))
  BY Zenon DEF Finish
<1>2. t.m \in DOMAIN stream
  BY DEF StreamInv, Task
<1>3. fresh' \subseteq DOMAIN stream /\ pending' \subseteq DOMAIN stream /\ applied' = applied
  BY <1>1, Zenon DEF StreamInv
<1> QED
  BY <1>1, <1>2, <1>3, StreamKeeps, Zenon

\* A task goes on with the next piece.
LEMMA AdvanceKeeps ==
    ASSUME StreamInv, NEW t \in tasks, NEW not_impl \in Nat, Advance(t, not_impl),
           applied \subseteq applied',
           stream[t.m] \in Transactions => DoneBefore(stream[t.m], t.m, t.step + 1, applied')
    PROVE  StreamInv'
<1> DEFINE u == [t EXCEPT !.step = @ + 1, !.not_impl = @ + not_impl]
<1>1. /\ stream' = stream /\ fresh' = fresh /\ pending' = pending /\ acks' = acks /\ acked' = acked
      /\ \A v \in tasks' : v \in tasks \/ v = u
  BY Zenon DEF Advance
<1>2. u \in Task /\ u.m = t.m /\ u.step = t.step + 1
  <2>1. t \in [m : DOMAIN stream, worker : Workers, step : Nat \ {0}, not_impl : Nat]
    BY Zenon DEF StreamInv, Task
  <2>2. t.step \in Nat /\ t.not_impl \in Nat
    BY <2>1
  <2>3. t.step + 1 \in Nat \ {0} /\ t.not_impl + not_impl \in Nat
    BY <2>2
  <2> QED
    BY <2>1, <2>3, Zenon DEF Task
<1> HIDE DEF u
<1>3. stream[u.m] \in Transactions => DoneBefore(stream[u.m], u.m, u.step, applied')
  BY <1>2, Zenon
<1>4. fresh' \subseteq DOMAIN stream /\ pending' \subseteq DOMAIN stream
  BY <1>1, Zenon DEF StreamInv
<1> QED
  BY <1>1, <1>2, <1>3, <1>4, StreamKeeps, Zenon

\* New tasks have nothing to answer for.
LEMMA DeliverKeeps ==
    ASSUME StreamInv, NEW w \in Workers, NEW batch \in SUBSET DOMAIN stream, Deliver(w, batch),
           fresh' \subseteq DOMAIN stream, pending' \subseteq DOMAIN stream
    PROVE  StreamInv'
<1> DEFINE new(m) == [m |-> m, worker |-> w, step |-> 1, not_impl |-> 0]
<1>1. /\ stream' = stream /\ acks' = acks /\ acked' = acked /\ applied' = applied
      /\ \A t \in tasks' : t \in tasks \/ \E m \in batch : t = new(m)
  BY Zenon DEF Deliver
<1>2. ASSUME NEW m \in batch
      PROVE  /\ new(m) \in Task
             /\ stream[new(m).m] \in Transactions =>
                  DoneBefore(stream[new(m).m], new(m).m, new(m).step, applied')
  <2>1. new(m) \in Task /\ new(m).m = m /\ new(m).step = 1
    BY DEF Task
  <2> HIDE DEF new
  <2>2. ASSUME stream[m] \in Transactions
        PROVE  DoneBefore(stream[m], m, 1, applied')
    <3>1. DOMAIN Pieces[stream[m]] = 1 .. Len(order_instructions(Messages[stream[m]].calls))
      BY <2>2, WorkIs, Zenon
    <3>2. \A n \in DOMAIN Pieces[stream[m]] : ~(n < 1)
      BY <3>1
    <3> QED
      BY <3>2, Zenon DEF DoneBefore
  <2> QED
    BY <2>1, <2>2, Zenon
<1> HIDE DEF new
<1> QED
  BY <1>1, <1>2, StreamKeeps, Zenon

\* One round of the loop: the piece is written, passed over, or ends the task.
LEMMA HandleStepKeeps ==
    ASSUME StreamInv, NEW t \in tasks, HandleStep(t)
    PROVE  StreamInv'
<1> DEFINE x == stream[t.m]
           piece == Pieces[x][t.step]
<1>1. t.m \in DOMAIN stream /\ t.step \in Nat \ {0}
  BY DEF StreamInv, Task
<1>2. work_of(t.m) = Pieces[x]
  BY DEF work_of
<1>3. x \in Transactions => /\ DoneBefore(x, t.m, t.step, applied)
                            /\ \A n \in DOMAIN Pieces[x] : n \in Nat \ {0}
  <2>1. x \in Transactions => \A n \in DOMAIN Pieces[x] : n \in Nat \ {0}
    <3> SUFFICES ASSUME x \in Transactions
                 PROVE  \A n \in DOMAIN Pieces[x] : n \in Nat \ {0}
      OBVIOUS
    <3>1. DOMAIN Pieces[x] = 1 .. Len(order_instructions(Messages[x].calls))
      BY WorkIs, Zenon
    <3> QED
      BY <3>1
  <2> QED
    BY <2>1, Zenon DEF StreamInv
<1>4. CASE piece.outcome \in Final /\ Finish(t, piece.outcome) /\ UNCHANGED applied
  <2>1. ASSUME x \in Transactions
        PROVE  Complete(x, t.m, applied)
    <3> SUFFICES ASSUME NEW n \in DOMAIN Pieces[x], Pieces[x][n].outcome = "apply"
                 PROVE  Change(t.m, Pieces[x][n]) \in applied
                        \/ \E k \in 1 .. n - 1 : Pieces[x][k].outcome \in Final
      BY Zenon DEF Complete
    <3>1. n \in Nat \ {0}
      BY <1>3, <2>1, ZenonT(30)
    <3>2. n # t.step
      BY <1>4 DEF Final
    <3>3. CASE n < t.step
      BY <1>3, <2>1, <3>3, Zenon DEF DoneBefore
    <3>4. CASE t.step < n
      <4>1. t.step \in 1 .. n - 1
        BY <1>1, <3>1, <3>4, SMTT(30)
      <4> QED
        BY <1>4, <4>1, Zenon
    <3> QED
      BY <1>1, <3>1, <3>2, <3>3, <3>4, SMTT(30)
  <2> QED
    BY <1>4, <2>1, FinishKeeps, Zenon
<1>5. ASSUME NEW not_impl \in Nat, Advance(t, not_impl), applied \subseteq applied',
             piece.outcome = "apply" => Change(t.m, piece) \in applied'
      PROVE  StreamInv'
  <2>1. ASSUME x \in Transactions
        PROVE  DoneBefore(x, t.m, t.step + 1, applied')
    <3> SUFFICES ASSUME NEW n \in DOMAIN Pieces[x], n < t.step + 1, Pieces[x][n].outcome = "apply"
                 PROVE  Change(t.m, Pieces[x][n]) \in applied'
      BY Zenon DEF DoneBefore
    <3>1. n \in Nat \ {0}
      BY <1>3, <2>1, Zenon
    <3>2. n < t.step \/ n = t.step
      BY <1>1, <3>1
    <3>3. CASE n < t.step
      BY <1>3, <1>5, <2>1, <3>3, Zenon DEF DoneBefore
    <3>4. CASE n = t.step
      BY <1>5, <3>4, Zenon
    <3> QED
      BY <3>2, <3>3, <3>4, Zenon
  <2> QED
    BY <1>5, <2>1, AdvanceKeeps, Zenon
<1> HIDE DEF piece
<1>6. \/ piece.outcome \in Final /\ Finish(t, piece.outcome) /\ UNCHANGED applied
      \/ piece.outcome = "not_implemented" /\ Advance(t, 1) /\ UNCHANGED applied
      \/ piece.outcome \in {"ignore", "close"} /\ Advance(t, 0) /\ UNCHANGED applied
      \/ /\ piece.outcome = "apply" /\ Advance(t, 0)
         /\ applied' = applied \cup {Change(t.m, piece)}
  BY <1>2, Zenon DEF HandleStep, piece
<1>7. CASE piece.outcome = "not_implemented" /\ Advance(t, 1) /\ UNCHANGED applied
  BY <1>5, <1>7, SMTT(30)
<1>8. CASE piece.outcome \in {"ignore", "close"} /\ Advance(t, 0) /\ UNCHANGED applied
  BY <1>5, <1>8, SMTT(30)
<1>9. CASE /\ piece.outcome = "apply" /\ Advance(t, 0)
           /\ applied' = applied \cup {Change(t.m, piece)}
  BY <1>5, <1>9
<1> QED
  BY <1>4, <1>6, <1>7, <1>8, <1>9, Zenon

\* A failed write ends the task without an acknowledgement.
LEMMA HandleFailsKeeps ==
    ASSUME StreamInv, NEW t \in tasks, HandleFails(t)
    PROVE  StreamInv'
<1>1. Finish(t, "storage_write_error") /\ UNCHANGED applied
  BY Zenon DEF HandleFails
<1>2. ~capture_result("storage_write_error")
  BY DEF capture_result, Final
<1> QED
  BY <1>1, <1>2, FinishKeeps, Zenon

\* handle_transaction returns once all pieces are done.
LEMMA HandleReturnsKeeps ==
    ASSUME StreamInv, NEW t \in tasks, HandleReturns(t)
    PROVE  StreamInv'
<1> DEFINE x == stream[t.m]
<1>1. PICK result : Finish(t, result) /\ UNCHANGED applied
  BY Zenon DEF HandleReturns
<1>2. t.step \in Nat /\ t.step > Len(Pieces[x])
  <2>1. t \in Task
    BY Zenon DEF StreamInv
  <2> QED
    BY <2>1 DEF HandleReturns, work_of, Task
<1>3. ASSUME x \in Transactions
      PROVE  Complete(x, t.m, applied)
  <2>1. /\ DOMAIN Pieces[x] = 1 .. Len(order_instructions(Messages[x].calls))
        /\ Len(Pieces[x]) = Len(order_instructions(Messages[x].calls))
        /\ Len(order_instructions(Messages[x].calls)) \in Nat
    BY <1>3, WorkIs, Zenon
  <2>2. \A n \in DOMAIN Pieces[x] : n < t.step
    BY <1>2, <2>1
  <2>3. DoneBefore(x, t.m, t.step, applied)
    BY <1>3, Zenon DEF StreamInv
  <2> QED
    BY <2>2, <2>3, Zenon DEF DoneBefore, Complete
<1> QED
  BY <1>1, <1>3, FinishKeeps, Zenon

\* Every step of the workers, of the ack worker and of the mishaps keeps the invariant.
LEMMA StreamInvStep ==
    ASSUME StreamInv, [StreamNext]_stream_vars
    PROVE  StreamInv'
<1>1. CASE UNCHANGED stream_vars
  <2>1. /\ stream' = stream /\ fresh' = fresh /\ pending' = pending /\ tasks' = tasks
        /\ acks' = acks /\ acked' = acked /\ applied' = applied
    BY <1>1, Zenon DEF stream_vars
  <2> QED
    BY <2>1, StreamKeeps, Zenon DEF StreamInv
<1>2. ASSUME NEW w \in Workers, RecvNew(w)
      PROVE  StreamInv'
  <2>1. PICK batch \in SUBSET fresh : Deliver(w, batch) /\ fresh' = fresh \ batch
                                      /\ pending' = pending \cup batch
    BY <1>2, Zenon DEF RecvNew
  <2>2. /\ batch \in SUBSET DOMAIN stream
        /\ fresh' \subseteq DOMAIN stream /\ pending' \subseteq DOMAIN stream
    BY <2>1, Zenon DEF StreamInv
  <2> QED
    BY <2>1, <2>2, DeliverKeeps, Zenon
<1>3. ASSUME NEW w \in Workers, Redeliver(w)
      PROVE  StreamInv'
  <2>1. PICK slow \in SUBSET (InFlight \cap pending) : Deliver(w, (pending \ InFlight) \cup slow)
    BY <1>3, Zenon DEF Redeliver
  <2>2. fresh' = fresh /\ pending' = pending
    BY <1>3, Zenon DEF Redeliver
  <2>3. /\ (pending \ InFlight) \cup slow \in SUBSET DOMAIN stream
        /\ fresh' \subseteq DOMAIN stream /\ pending' \subseteq DOMAIN stream
    BY <2>2, Zenon DEF StreamInv
  <2> QED
    BY <2>1, <2>3, DeliverKeeps, Zenon
<1>4. ASSUME NEW t \in tasks, HandleGarbled(t)
      PROVE  StreamInv'
  <2>1. /\ stream' = stream /\ fresh' = fresh /\ pending' = pending /\ tasks' \subseteq tasks
        /\ acks' = acks /\ acked' = acked /\ applied' = applied
    BY <1>4, Zenon DEF HandleGarbled
  <2> QED
    BY <2>1, StreamKeeps, Zenon DEF StreamInv
<1>5. CASE AckTick
  <2>1. /\ stream' = stream /\ fresh' = fresh /\ pending' \subseteq pending /\ tasks' = tasks
        /\ acks' \cup acked' = acks \cup acked /\ applied' = applied
    BY <1>5, Zenon DEF AckTick
  <2> QED
    BY <2>1, StreamKeeps, Zenon DEF StreamInv
<1>6. CASE AckFails \/ Restart
  <2>1. /\ stream' = stream /\ fresh' = fresh /\ pending' = pending /\ tasks' \subseteq tasks
        /\ acks' = {} /\ acked' = acked /\ applied' = applied
    BY <1>6, Zenon DEF AckFails, Restart
  <2> QED
    BY <2>1, StreamKeeps, Zenon DEF StreamInv
<1> QED
  BY <1>1, <1>2, <1>3, <1>4, <1>5, <1>6, HandleStepKeeps, HandleReturnsKeeps, HandleFailsKeeps,
     Zenon DEF StreamNext, StreamStep, StreamTrouble, Handle

\* The inductive invariant of the stream workers holds.
LEMMA StreamInvHolds ==
    ASSUME NEW CONSTANT streams \in SUBSET Seq(DOMAIN Messages)
    PROVE  StreamInit(streams) /\ [][StreamNext]_stream_vars => []StreamInv
<1>1. StreamInit(streams) => StreamInv
  BY Zenon DEF StreamInit, StreamInv
<1>2. StreamInv /\ [StreamNext]_stream_vars => StreamInv'
  BY StreamInvStep, Zenon
<1> QED
  BY <1>1, <1>2, PTL

\* However messages are delivered again, handled side by side, or lost by failed writes,
\* acknowledgements and restarts (main.rs, ack_worker): each change of an acknowledged
\* transaction was written, with the events its own execution logged (hoist_known_programs,
\* BubblegumParser::handle_instruction), unless an instruction before it could not be parsed.
\* For any messages, any number of workers and of mishaps.
THEOREM AckedIsAppliedHolds ==
    ASSUME NEW CONSTANT streams \in SUBSET Seq(DOMAIN Messages)
    PROVE  StreamInit(streams) /\ [][StreamNext]_stream_vars => []AckedIsApplied
<1>1. ASSUME StreamInv
      PROVE  AckedIsApplied
  <2> SUFFICES ASSUME NEW m \in acked, Message(m).type = "transaction",
                      \A c \in ToSet(Message(m).calls) : OwnEvents(c),
                      NEW n \in DOMAIN work_of(m), work_of(m)[n].outcome = "apply"
               PROVE  \/ \E c \in applied :
                            /\ c.m = m /\ c.id = work_of(m)[n].id /\ c.tree_update = c.id
                            /\ c.leaf_update = IF work_of(m)[n].name \in Leaves THEN 0 ELSE c.id
                      \/ \E k \in 1 .. n - 1 : work_of(m)[k].outcome \in Final
    BY Zenon DEF AckedIsApplied
  <2> DEFINE x == stream[m]
             calls == Messages[x].calls
             work == order_instructions(calls)[n]
             c == Change(m, Pieces[x][n])
  <2>1. x \in Transactions
    <3>1. stream \in Seq(DOMAIN Messages) /\ m \in DOMAIN stream
      BY <1>1, Zenon DEF StreamInv
    <3>2. x \in DOMAIN Messages
      BY <3>1
    <3> QED
      BY <3>2, Zenon DEF Transactions, Message
  <2>2. n \in DOMAIN Pieces[x] /\ Pieces[x][n].outcome = "apply"
    BY Zenon DEF work_of
  <2>3. c \in applied \/ \E k \in 1 .. n - 1 : Pieces[x][k].outcome \in Final
    BY <1>1, <2>1, <2>2, Zenon DEF StreamInv, Complete
  <2>4. /\ calls \in Seq(Calls) /\ \A call \in ToSet(calls) : Logged(call)
        /\ order_instructions(calls) \in Seq(Works(calls))
        /\ Pieces[x] = [i \in DOMAIN order_instructions(calls) |-> Piece(order_instructions(calls)[i])]
    BY <2>1, WorkIs, Zenon
  <2>5. Pieces[x][n] = Piece(work) /\ n \in DOMAIN order_instructions(calls)
    BY <2>2, <2>4, ZenonT(30)
  <2>6. work \in Works(calls)
    BY <2>4, <2>5
  <2>7. \A call \in ToSet(calls) : Logged(call) /\ OwnEvents(call)
    BY <2>4, Zenon DEF Message
  <2> HIDE DEF work
  <2>8. /\ Pieces[x][n].id = work.ix.id /\ Pieces[x][n].name = work.ix.name
        /\ Pieces[x][n].outcome = Outcome(work)
        /\ Pieces[x][n].tree_update = handle_instruction(work).tree_update
        /\ Pieces[x][n].leaf_update = handle_instruction(work).leaf_update
    BY <2>5 DEF Piece
  <2>9. /\ Pieces[x][n].tree_update = Pieces[x][n].id
        /\ Pieces[x][n].leaf_update = IF Pieces[x][n].name \in Leaves THEN 0 ELSE Pieces[x][n].id
    BY <2>2, <2>4, <2>6, <2>7, <2>8, WorkOwn, Zenon
  <2>10. /\ c.m = m /\ c.id = Pieces[x][n].id /\ c.tree_update = Pieces[x][n].tree_update
         /\ c.leaf_update = Pieces[x][n].leaf_update
    BY DEF Change
  <2> HIDE DEF c
  <2>11. /\ c.m = m /\ c.id = work_of(m)[n].id /\ c.tree_update = c.id
         /\ c.leaf_update = IF work_of(m)[n].name \in Leaves THEN 0 ELSE c.id
    BY <2>9, <2>10, Zenon DEF work_of
  <2> QED
    BY <2>3, <2>11, Zenon DEF work_of
<1> QED
  BY <1>1, StreamInvHolds, PTL
===============================================================================
