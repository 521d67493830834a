--------------------------- MODULE ChangeLogProofs ---------------------------
(***************************************************************************)
(* What is proved of ChangeLog for every tree, every number of workers and *)
(* every bound: rows are historic and never go back, a recorded change is  *)
(* stored, a tree without gaps is current, a missing start is flagged.     *)
(***************************************************************************)
EXTENDS ChangeLog, TLAPS

\* How many nodes of the path of its event worker w has stored.
Done(w) == IF work[w].pc = "nodes" THEN work[w].i ELSE Len(Event(w))

\* A worker has stored the nodes it is through with, at its change or a later
\* one, and is not past the end of the path.
WorkIsStored ==
    \A w \in Workers : work[w] # Idle =>
        /\ work[w].pc = "nodes" => work[w].i < Len(Event(w))
        /\ \A k \in 1 .. Done(w) : cl_items[Event(w)[k]].seq >= work[w].seq

\* A worker that is going to insert a row without the flag is at the first
\* change of the tree or has seen a row of the tree.
UnflaggedIsSafe ==
    \A w \in Workers : work[w].pc = "insert" /\ ~work[w].force_chk =>
        work[w].seq = 1 \/ backfill_items # {}

\* The inductive invariant.
Inv ==
    /\ TypeOK /\ RowsAreHistoric /\ RecordedMeansStored /\ MissingStartIsFlagged
    /\ WorkIsStored /\ UnflaggedIsSafe

-----------------------------------------------------------------------------
(* The tree.                                                               *)

\* The path of a leaf has a first node, and its nodes are nodes of the tree.
LEMMA PathType ==
    ASSUME NEW l \in Leaves
    PROVE  /\ Path[l] \in Seq(Nodes) /\ Len(Path[l]) \in Nat \ {0}
           /\ PathNodes(l) \subseteq Nodes
           /\ \A k \in 1 .. Len(Path[l]) : Path[l][k] \in PathNodes(l)
           /\ \A n \in PathNodes(l) : \E k \in 1 .. Len(Path[l]) : n = Path[l][k]
<1>1. Path[l] \in Seq(Nodes) /\ Path[l] # << >>
  BY TreeAssumption
<1>2. Len(Path[l]) \in Nat \ {0} /\ DOMAIN Path[l] = 1 .. Len(Path[l])
  BY <1>1
<1>3. \A k \in 1 .. Len(Path[l]) : Path[l][k] \in Nodes
  BY <1>1
<1> QED
  BY <1>1, <1>2, <1>3 DEF PathNodes

\* A change of the tree leaves the hashes after earlier changes as they were.
LEMMA HashesOfThePast ==
    ASSUME history \in Seq(Leaves), NEW l \in Leaves,
           history' = history \/ history' = Append(history, l),
           NEW n, NEW s \in 0 .. Len(history)
    PROVE  HashAt(n, s)' = HashAt(n, s)
<1>1. \A leaf : {i \in 1 .. s : history'[i] = leaf} = {i \in 1 .. s : history[i] = leaf}
  <2>1. \A i \in 1 .. s : history'[i] = history[i]
    OBVIOUS
  <2> QED
    BY <2>1
<1>2. \A leaf : LastChange(leaf, s)' = LastChange(leaf, s)
  BY <1>1, Zenon DEF LastChange
<1> QED
  BY <1>2, Zenon DEF HashAt

\* The hash of a node that is not touched any more stays as it is.
LEMMA UntouchedHash ==
    ASSUME history \in Seq(Leaves), NEW n \in Nodes, NEW s \in 1 .. Len(history),
           \A i \in Touching(n) : i <= s
    PROVE  HashAt(n, Len(history)) = HashAt(n, s)
<1>1. ASSUME NEW leaf \in Below(n)
      PROVE  {i \in 1 .. Len(history) : history[i] = leaf} = {i \in 1 .. s : history[i] = leaf}
  <2>1. ASSUME NEW i \in 1 .. Len(history), history[i] = leaf
        PROVE  i \in 1 .. s
    <3>1. n \in PathNodes(history[i])
      BY <1>1, <2>1 DEF Below
    <3>2. i \in Touching(n)
      BY <3>1 DEF Touching
    <3> QED
      BY <3>2
  <2> QED
    BY <2>1
<1>2. \A leaf \in Below(n) : LastChange(leaf, Len(history)) = LastChange(leaf, s)
  BY <1>1, Zenon DEF LastChange
<1> QED
  BY <1>2, Zenon DEF HashAt

-----------------------------------------------------------------------------
(* Steps.                                                                  *)

Busy(n) == [pc : {"nodes", "audit", "find", "insert"}, seq : 1 .. n, i : Nat, force_chk : BOOLEAN]

\* What a worker that is not idle is at.
LEMMA BusyWorker ==
    ASSUME TypeOK, NEW w \in Workers, work[w] # Idle
    PROVE  /\ work[w] \in Busy(Len(history))
           /\ history[work[w].seq] \in Leaves /\ Event(w) = Path[history[work[w].seq]]
           /\ Event(w) \in Seq(Nodes) /\ Len(Event(w)) \in Nat \ {0}
<1>1. work[w] \in Busy(Len(history))
  BY DEF TypeOK, Busy
<1>2. history[work[w].seq] \in Leaves
  BY <1>1 DEF TypeOK, Busy
<1> QED
  BY <1>1, <1>2, PathType DEF Event

\* Only an idle worker has this pc.
LEMMA IdleIsIdle ==
    ASSUME TypeOK, NEW w \in Workers
    PROVE  work[w] = Idle <=> work[w].pc = "idle"
BY DEF TypeOK, Idle

\* A worker at another node or statement is well typed.
LEMMA BusyMoves ==
    ASSUME NEW n, NEW r \in Busy(n), NEW i \in Nat, NEW pc \in {"audit", "nodes"}
    PROVE  [r EXCEPT !.i = i, !.pc = pc] \in Busy(n)
BY Zenon DEF Busy

\* The first states are well typed.
LEMMA TypeInit == Init => TypeOK
BY BoundsAssumption, SMT DEF Init, TypeOK, NoItem, Idle

\* The node of the next statement, what it stores, and where the worker goes.
LEMMA NextNode ==
    ASSUME TypeOK, WorkIsStored, NEW w \in Workers, InsertNode(w)
    PROVE  LET i == work[w].i
               n == Event(w)[i + 1]
           IN  /\ work[w] # Idle /\ i \in Nat /\ i + 1 \in 1 .. Len(Event(w))
               /\ n \in Nodes /\ n \in PathNodes(history[work[w].seq])
<1>1. work[w] # Idle
  BY IdleIsIdle DEF InsertNode
<1>2. work[w].i \in Nat /\ work[w].i < Len(Event(w)) /\ Len(Event(w)) \in Nat
  BY <1>1, BusyWorker DEF WorkIsStored, InsertNode, Busy
<1> QED
  BY <1>1, <1>2, BusyWorker, PathType
\* A step of a worker leaves the others where they are, and itself where a
\* worker can be.
LEMMA WorkStep ==
    ASSUME TypeOK, NEW w \in Workers,
           \/ \E s \in 1 .. MaxSeq : Receive(w, s)
           \/ insert_change_log(w) \/ Fail(w)
    PROVE  /\ history' = history
           /\ work' \in [Workers -> {Idle} \cup Busy(Len(history))]
           /\ \A v \in Workers \ {w} : work'[v] = work[v]
<1> USE DEF Busy
<1>1. work \in [Workers -> {Idle} \cup Busy(Len(history))]
  BY DEF TypeOK
<1>2. CASE \E s \in 1 .. MaxSeq : Receive(w, s)
  <2>1. PICK s \in 1 .. Len(history) :
           /\ work' = [work EXCEPT ![w] = [Idle EXCEPT !.pc = "nodes", !.seq = s]]
           /\ history' = history
    BY <1>2, Zenon DEF Receive
  <2>2. [Idle EXCEPT !.pc = "nodes", !.seq = s] \in Busy(Len(history))
    BY Zenon DEF Idle
  <2> QED
    BY <1>1, <2>1, <2>2
<1>3. CASE InsertNode(w)
  <2>1. work[w] \in Busy(Len(history))
    BY <1>3, IdleIsIdle, BusyWorker DEF InsertNode
  <2> DEFINE pc == IF work[w].i = depth(w) THEN "audit" ELSE "nodes"
             x == [work[w] EXCEPT !.i = work[w].i + 1, !.pc = pc]
  <2>2. pc \in {"audit", "nodes"}
    OBVIOUS
  <2>3. work' = [work EXCEPT ![w] = x] /\ history' = history
    BY <1>1, <1>3, <2>1, Zenon DEF InsertNode
  <2> HIDE DEF pc
  <2>4. x \in Busy(Len(history))
    <3>1. work[w].i + 1 \in Nat
      BY <2>1
    <3> HIDE DEF Busy
    <3> QED
      BY <2>1, <2>2, <3>1, BusyMoves, Zenon
  <2> HIDE DEF x
  <2> QED
    BY <1>1, <2>3, <2>4
<1>4. CASE InsertAudit(w)
  <2>1. work[w] \in Busy(Len(history))
    BY <1>4, IdleIsIdle, BusyWorker DEF InsertAudit
  <2> QED
    BY <1>1, <1>4, <2>1 DEF InsertAudit
<1>5. CASE FindTree(w)
  <2>1. work[w] \in Busy(Len(history))
    BY <1>5, IdleIsIdle, BusyWorker DEF FindTree
  <2> QED
    BY <1>1, <1>5, <2>1, Zenon DEF FindTree
<1>6. CASE InsertBackfillItem(w) \/ Fail(w)
  BY <1>1, <1>6 DEF InsertBackfillItem, Fail, tables
<1> QED
  BY <1>2, <1>3, <1>4, <1>5, <1>6 DEF insert_change_log

\* The rows of cl_items have their type.
ItemsType(items, n) ==
    /\ DOMAIN items = Nodes
    /\ \A m \in Nodes :
          \/ items[m] = NoItem
          \/ /\ DOMAIN items[m] = DOMAIN NoItem
             /\ items[m].seq \in 1 .. n
             /\ items[m].level \in Nat /\ items[m].leaf_idx \in Int \cup {NULL}

\* The leaf index of a node is a number.
LEMMA LeafIndex ==
    ASSUME NEW n \in Nodes
    PROVE  node_idx_to_leaf_idx(n) \in Int
<1>1. n \in Nat /\ FirstLeaf \in Nat
  BY TreeAssumption
<1> QED
  BY <1>1 DEF node_idx_to_leaf_idx

\* Every step keeps the types.
LEMMA TypeStep == Inv /\ [Next]_vars => TypeOK'
<1> SUFFICES ASSUME Inv, [Next]_vars PROVE TypeOK'
  OBVIOUS
<1>0. /\ TypeOK /\ WorkIsStored /\ Len(history) \in Nat
      /\ ItemsType(cl_items, Len(history))
      /\ work \in [Workers -> {Idle} \cup Busy(Len(history))]
  BY DEF Inv, TypeOK, ItemsType, Busy
<1>1. ASSUME history' \in Seq(Leaves), Len(history') <= MaxSeq,
             ItemsType(cl_items', Len(history')), cl_audits_v2' \subseteq 1 .. Len(history'),
             backfill_items' \subseteq [seq : 1 .. Len(history'), force_chk : BOOLEAN],
             work' \in [Workers -> {Idle} \cup Busy(Len(history'))],
             failures' \in 0 .. MaxFailures
      PROVE  TypeOK'
  BY <1>1 DEF TypeOK, ItemsType, Busy
<1>2. CASE ReplaceLeaf
  <2>1. PICK l \in Leaves : history' = Append(history, l)
    BY <1>2 DEF ReplaceLeaf
  <2>2. /\ history' \in Seq(Leaves) /\ Len(history') <= MaxSeq
        /\ Len(history') \in Nat /\ Len(history) <= Len(history')
    BY <1>0, <1>2, <2>1, BoundsAssumption DEF ReplaceLeaf, TypeOK
  <2>3. 1 .. Len(history) \subseteq 1 .. Len(history')
    BY <1>0, <2>2
  <2>4. Busy(Len(history)) \subseteq Busy(Len(history'))
    BY <2>3 DEF Busy
  <2>5. UNCHANGED <<cl_items, cl_audits_v2, backfill_items, work, failures>>
    BY <1>2 DEF ReplaceLeaf, tables
  <2>6. ItemsType(cl_items', Len(history'))
    BY <1>0, <2>3, <2>5 DEF ItemsType
  <2>7. backfill_items' \subseteq [seq : 1 .. Len(history'), force_chk : BOOLEAN]
    BY <1>0, <2>3, <2>5 DEF TypeOK
  <2>8. work' \in [Workers -> {Idle} \cup Busy(Len(history'))]
    BY <1>0, <2>4, <2>5
  <2> QED
    BY <1>0, <1>1, <2>2, <2>3, <2>5, <2>6, <2>7, <2>8 DEF TypeOK
<1>3. ASSUME NEW w \in Workers,
             (\E s \in 1 .. MaxSeq : Receive(w, s)) \/ insert_change_log(w) \/ Fail(w)
      PROVE  TypeOK'
  <2>1. history' = history /\ work' \in [Workers -> {Idle} \cup Busy(Len(history'))]
    BY <1>0, <1>3, WorkStep
  <2>2. SUFFICES /\ ItemsType(cl_items', Len(history))
                 /\ cl_audits_v2' \subseteq 1 .. Len(history)
                 /\ backfill_items' \subseteq [seq : 1 .. Len(history), force_chk : BOOLEAN]
                 /\ failures' \in 0 .. MaxFailures
    BY <1>0, <1>1, <2>1 DEF TypeOK
  <2>3. CASE InsertNode(w)
    <3>1. /\ work[w].i \in Nat /\ Event(w)[work[w].i + 1] \in Nodes
          /\ work[w].seq \in 1 .. Len(history)
      BY <1>0, <2>3, NextNode, BusyWorker DEF Busy
    <3>2. node_idx_to_leaf_idx(Event(w)[work[w].i + 1]) \in Int
      BY <3>1, TreeAssumption, LeafIndex, Zenon
    <3>3. ItemsType(cl_items', Len(history))
      BY <1>0, <2>3, <3>1, <3>2, Zenon DEF InsertNode, ItemsType, upsert_cl_item, NoItem
    <3> QED
      BY <1>0, <2>3, <3>3 DEF InsertNode, TypeOK
  <2>4. CASE InsertAudit(w)
    <3>1. work[w].seq \in 1 .. Len(history)
      BY <1>0, <2>4, IdleIsIdle, BusyWorker DEF InsertAudit, Busy
    <3> QED
      BY <1>0, <2>4, <3>1, BoundsAssumption DEF InsertAudit, TypeOK
  <2>5. CASE InsertBackfillItem(w)
    <3>1. work[w].seq \in 1 .. Len(history) /\ work[w].force_chk \in BOOLEAN
      BY <1>0, <2>5, IdleIsIdle, BusyWorker DEF InsertBackfillItem, Busy
    <3> QED
      BY <1>0, <2>5, <3>1 DEF InsertBackfillItem, TypeOK
  <2>6. CASE FindTree(w) \/ Fail(w) \/ \E s \in 1 .. MaxSeq : Receive(w, s)
    <3>1. UNCHANGED <<cl_items, cl_audits_v2, backfill_items>>
      BY <2>6, Zenon DEF FindTree, Fail, Receive, tables
    <3>2. failures' \in 0 .. MaxFailures
      <4>1. failures \in 0 .. MaxFailures /\ MaxFailures \in Nat
        BY <1>0, BoundsAssumption DEF TypeOK
      <4>2. failures' = failures \/ (failures < MaxFailures /\ failures' = failures + 1)
        BY <2>6, Zenon DEF FindTree, Fail, Receive
      <4> QED
        BY <4>1, <4>2
    <3> QED
      BY <1>0, <3>1, <3>2 DEF TypeOK
  <2> QED
    BY <1>3, <2>3, <2>4, <2>5, <2>6 DEF insert_change_log
<1>4. CASE UNCHANGED vars
  BY <1>0, <1>4 DEF vars, tables, TypeOK
<1> QED
  BY <1>2, <1>3, <1>4 DEF Next
\* The sequence number of a row, 0 for none, and the one of a worker.
LEMMA SeqType ==
    ASSUME TypeOK
    PROVE  /\ \A n \in Nodes : cl_items[n].seq \in 0 .. Len(history)
           /\ \A n \in Nodes : cl_items[n] # NoItem => cl_items[n].seq \in 1 .. Len(history)
           /\ \A w \in Workers : work[w].seq \in 0 .. Len(history)
<1>1. \A w \in Workers : work[w].seq \in 0 .. Len(history)
  BY IdleIsIdle, BusyWorker DEF Busy, Idle, TypeOK
<1> QED
  BY <1>1 DEF TypeOK, NoItem

\* What happened is not changed by a step.
LEMMA HistoryStep ==
    ASSUME TypeOK, [Next]_vars
    PROVE  /\ history' = history \/ \E l \in Leaves : history' = Append(history, l)
           /\ Len(history') >= Len(history) /\ Len(history') \in Nat
           /\ \A i \in 1 .. Len(history) : history'[i] = history[i]
           /\ \A n \in Nodes : Touching(n) \subseteq Touching(n)'
           /\ \A n, s : s \in 0 .. Len(history) => HashAt(n, s)' = HashAt(n, s)
<1>0. history \in Seq(Leaves) /\ Len(history) \in Nat
  BY DEF TypeOK
<1>1. history' = history \/ \E l \in Leaves : history' = Append(history, l)
  BY WorkStep DEF Next, ReplaceLeaf, vars
<1>2. /\ Len(history') >= Len(history) /\ Len(history') \in Nat
      /\ \A i \in 1 .. Len(history) : history'[i] = history[i]
  BY <1>0, <1>1
<1>3. \A n \in Nodes : Touching(n) \subseteq Touching(n)'
  BY <1>0, <1>2 DEF Touching
<1>4. ASSUME NEW n, NEW s \in 0 .. Len(history)
      PROVE  HashAt(n, s)' = HashAt(n, s)
  <2>1. CASE history' = history
    BY <2>1, Zenon DEF HashAt, LastChange
  <2>2. CASE \E l \in Leaves : history' = Append(history, l)
    BY <1>0, <2>2, HashesOfThePast
  <2> QED
    BY <1>1, <2>1, <2>2
<1> QED
  BY <1>1, <1>2, <1>3, <1>4

\* Only InsertNode changes cl_items.
LEMMA ItemsStep ==
    ASSUME [Next]_vars, cl_items' # cl_items
    PROVE  \E w \in Workers : InsertNode(w)
BY Zenon DEF Next, ReplaceLeaf, Receive, insert_change_log, InsertAudit, FindTree, InsertBackfillItem,
       Fail, vars, tables

\* What InsertNode does to a row.
LEMMA InsertedNode ==
    ASSUME TypeOK, WorkIsStored, NEW w \in Workers, InsertNode(w)
    PROVE  LET n == Event(w)[work[w].i + 1]
           IN  /\ \A m \in Nodes \ {n} : cl_items'[m] = cl_items[m]
               /\ \/ cl_items'[n] = cl_items[n] /\ cl_items[n].seq >= work[w].seq
                  \/ /\ work[w].seq > cl_items[n].seq
                     /\ cl_items'[n].seq = work[w].seq
                     /\ cl_items'[n].hash = HashAt(n, work[w].seq)
<1>1. DOMAIN cl_items = Nodes /\ Event(w)[work[w].i + 1] \in Nodes
  BY NextNode DEF TypeOK
<1>2. \A m \in Nodes : cl_items[m].seq \in Nat
  BY SeqType DEF TypeOK
<1>3. work[w].seq \in Nat
  BY SeqType DEF TypeOK
<1> QED
  BY <1>1, <1>2, <1>3 DEF InsertNode, upsert_cl_item

\* A node's sequence number never falls.
LEMMA NodesRise ==
    ASSUME Inv, [Next]_vars
    PROVE  \A n \in Nodes : cl_items'[n].seq >= cl_items[n].seq
<1>1. TypeOK /\ WorkIsStored
  BY DEF Inv
<1>2. \A n \in Nodes : cl_items[n].seq \in Nat
  BY <1>1, SeqType DEF TypeOK
<1>3. CASE cl_items' = cl_items
  BY <1>2, <1>3
<1>4. ASSUME NEW w \in Workers, InsertNode(w)
      PROVE  \A n \in Nodes : cl_items'[n].seq >= cl_items[n].seq
  <2>1. work[w].seq \in Nat
    BY <1>1, SeqType DEF TypeOK
  <2> QED
    BY <1>1, <1>2, <1>4, <2>1, InsertedNode
<1> QED
  BY <1>3, <1>4, ItemsStep
\* Every step keeps rows historic: an upsert takes hash and number of one event.
LEMMA HistoricStep ==
    ASSUME Inv, [Next]_vars
    PROVE  RowsAreHistoric'
<1>1. TypeOK /\ WorkIsStored /\ RowsAreHistoric
  BY DEF Inv
<1>2. SUFFICES ASSUME NEW n \in Nodes, cl_items'[n] # NoItem
               PROVE  \E s : /\ cl_items'[n].seq = s /\ s \in Touching(n)'
                             /\ cl_items'[n].hash = HashAt(n, s)'
  <2>1. \A n \in Nodes : (cl_items[n] # NoItem)' => \E s : (/\ cl_items[n].seq = s
            /\ s \in Touching(n) /\ cl_items[n].hash = HashAt(n, s))'
    BY <1>2
  <2> QED
    BY <2>1, Zenon DEF RowsAreHistoric, HashAt
<1>3. \A s \in Touching(n) : s \in Touching(n)' /\ HashAt(n, s)' = HashAt(n, s)
  <2>1. \A s \in Touching(n) : s \in 0 .. Len(history)
    BY DEF Touching
  <2> QED
    BY <1>1, <2>1, HistoryStep, Zenon
<1>4. CASE cl_items'[n] = cl_items[n]
  <2>1. PICK s : s = cl_items[n].seq /\ s \in Touching(n) /\ cl_items[n].hash = HashAt(n, s)
    BY <1>1, <1>2, <1>4, Zenon DEF RowsAreHistoric
  <2> QED
    BY <1>3, <1>4, <2>1
<1>5. CASE cl_items'[n] # cl_items[n]
  <2>1. PICK w \in Workers : InsertNode(w)
    BY <1>5, ItemsStep
  <2>2. PICK s : s = work[w].seq
    OBVIOUS
  <2>3. n = Event(w)[work[w].i + 1] /\ cl_items'[n].seq = s /\ cl_items'[n].hash = HashAt(n, s)
    BY <1>1, <1>5, <2>1, <2>2, InsertedNode
  <2>4. s \in 1 .. Len(history) /\ n \in PathNodes(history[s])
    BY <1>1, <2>1, <2>2, <2>3, NextNode, BusyWorker DEF Busy
  <2>5. s \in Touching(n)
    BY <2>4 DEF Touching
  <2> QED
    BY <1>3, <2>3, <2>5
<1> QED
  BY <1>4, <1>5

\* What a step adds to backfill_items.
LEMMA RowsStep ==
    ASSUME [Next]_vars
    PROVE  \/ backfill_items' = backfill_items
           \/ \E w \in Workers : InsertBackfillItem(w)
BY Zenon DEF Next, ReplaceLeaf, Receive, insert_change_log, InsertNode, InsertAudit, FindTree, Fail, vars, tables

\* A row of backfill_items is inserted by a worker that is through with its path.
LEMMA RecordedStep ==
    ASSUME Inv, [Next]_vars
    PROVE  RecordedMeansStored'
<1>1. TypeOK /\ WorkIsStored /\ RecordedMeansStored
  BY DEF Inv
<1>2. SUFFICES ASSUME NEW s \in Recorded', NEW n \in PathNodes(history'[s])
               PROVE  cl_items'[n].seq >= s
  BY DEF RecordedMeansStored, PathNodes
<1>3. Len(history) \in Nat /\ \A m \in Nodes : cl_items[m].seq \in Nat
  BY <1>1, SeqType DEF TypeOK
<1>4. SUFFICES s \in 1 .. Len(history) /\ n \in Nodes /\ cl_items[n].seq >= s
  <2>1. cl_items'[n].seq >= cl_items[n].seq /\ cl_items[n].seq \in Nat
    BY <1>3, <1>4, NodesRise
  <2>2. cl_items'[n].seq \in Nat
    <3>1. TypeOK'
      BY TypeStep
    <3> QED
      BY <1>4, <3>1 DEF TypeOK, NoItem
  <2> QED
    BY <1>3, <1>4, <2>1, <2>2
<1>5. CASE s \in Recorded
  <2>1. s \in 1 .. Len(history)
    BY <1>1, <1>5 DEF Recorded, TypeOK
  <2>2. history'[s] = history[s] /\ history[s] \in Leaves
    BY <1>1, <2>1, HistoryStep DEF TypeOK
  <2> QED
    BY <1>1, <1>5, <2>1, <2>2, PathType DEF RecordedMeansStored
<1>6. CASE s \notin Recorded
  <2>1. PICK w \in Workers : InsertBackfillItem(w)
    BY <1>6, RowsStep DEF Recorded
  <2>2. s = work[w].seq /\ work[w].pc = "insert" /\ work[w] # Idle
    BY <1>1, <1>6, <2>1, IdleIsIdle DEF InsertBackfillItem, Recorded
  <2>3. s \in 1 .. Len(history) /\ history[s] \in Leaves /\ Event(w) = Path[history[s]]
    BY <1>1, <2>2, BusyWorker DEF Busy
  <2>4. history'[s] = history[s]
    BY <1>1, <2>3, HistoryStep
  <2>5. PICK k \in 1 .. Len(Path[history[s]]) : n = Path[history[s]][k]
    BY <2>3, <2>4, PathType
  <2>6. n \in Nodes
    BY <2>3, <2>4, PathType
  <2>7. cl_items[Event(w)[k]].seq >= work[w].seq
    BY <1>1, <2>2, <2>3, <2>5 DEF WorkIsStored, Done
  <2> QED
    BY <2>2, <2>3, <2>5, <2>6, <2>7
<1> QED
  BY <1>5, <1>6
\* What WorkIsStored says of one worker.
LEMMA DoneNodes ==
    ASSUME TypeOK, WorkIsStored, NEW w \in Workers, work[w] # Idle
    PROVE  /\ Done(w) \in 0 .. Len(Event(w))
           /\ \A k \in 1 .. Done(w) :
                 Event(w)[k] \in Nodes /\ cl_items[Event(w)[k]].seq >= work[w].seq
<1>1. Event(w) \in Seq(Nodes) /\ Len(Event(w)) \in Nat /\ work[w].i \in Nat
  BY BusyWorker DEF Busy
<1>2. Done(w) \in 0 .. Len(Event(w))
  BY <1>1 DEF Done, WorkIsStored
<1>3. \A k \in 1 .. Done(w) : Event(w)[k] \in Nodes
  BY <1>1, <1>2
<1> QED
  BY <1>2, <1>3 DEF WorkIsStored

\* What a worker stored is only replaced by later changes.
LEMMA WorkStoredStep ==
    ASSUME Inv, [Next]_vars
    PROVE  WorkIsStored'
<1>1. TypeOK /\ WorkIsStored /\ TypeOK'
  BY TypeStep DEF Inv
<1>2. SUFFICES ASSUME NEW v \in Workers, work'[v] # Idle
               PROVE  /\ work'[v].pc = "nodes" => work'[v].i < Len(Event(v)')
                      /\ \A k \in 1 .. Done(v)' : cl_items'[Event(v)'[k]].seq >= work'[v].seq
  BY Zenon DEF WorkIsStored
<1>3. /\ \A n \in Nodes : cl_items'[n].seq >= cl_items[n].seq
      /\ \A n \in Nodes : cl_items[n].seq \in Nat /\ cl_items'[n].seq \in Nat
      /\ work[v].seq \in Nat
  BY <1>1, NodesRise, SeqType DEF TypeOK, NoItem
\* A worker whose event is the one it had.
<1>4. ASSUME work[v] # Idle, work'[v].seq = work[v].seq
      PROVE  /\ Event(v)' = Event(v) /\ Event(v) \in Seq(Nodes) /\ Len(Event(v)) \in Nat \ {0}
             /\ \A k \in 1 .. Done(v) :
                   Event(v)[k] \in Nodes /\ cl_items'[Event(v)[k]].seq >= work[v].seq
  <2>1. work[v].seq \in 1 .. Len(history)
    BY <1>1, <1>4, BusyWorker DEF Busy
  <2>2. history'[work[v].seq] = history[work[v].seq]
    BY <1>1, <2>1, HistoryStep
  <2>3. Event(v)' = Event(v)
    BY <1>4, <2>2 DEF Event
  <2>4. \A k \in 1 .. Done(v) :
           Event(v)[k] \in Nodes /\ cl_items[Event(v)[k]].seq >= work[v].seq
    BY <1>1, <1>4, DoneNodes
  <2> QED
    BY <1>1, <1>3, <1>4, <2>3, <2>4, BusyWorker
<1>5. CASE work'[v] = work[v]
  <2>1. Done(v)' = Done(v)
    BY <1>2, <1>4, <1>5 DEF Done
  <2> QED
    BY <1>1, <1>2, <1>4, <1>5, <2>1 DEF WorkIsStored
<1>6. CASE work'[v] # work[v]
  <2>1. PICK w \in Workers : (\E s \in 1 .. MaxSeq : Receive(w, s)) \/ insert_change_log(w) \/ Fail(w)
    BY <1>6 DEF Next, ReplaceLeaf, vars
  <2>2. w = v
    BY <1>1, <1>6, <2>1, WorkStep
  <2>3. DOMAIN work = Workers
    BY <1>1 DEF TypeOK
  <2>4. CASE \E s \in 1 .. MaxSeq : Receive(v, s)
    <3>1. work'[v].i = 0 /\ work'[v].pc = "nodes"
      BY <2>3, <2>4 DEF Receive, Idle
    <3>2. Len(Event(v)') \in Nat \ {0}
      <4>1. work'[v].seq \in 1 .. Len(history')
        BY <1>1, <1>2 DEF TypeOK
      <4>2. history'[work'[v].seq] \in Leaves
        BY <1>1, <4>1 DEF TypeOK
      <4> QED
        BY <4>2, PathType DEF Event
    <3>3. Done(v)' = 0
      BY <3>1 DEF Done
    <3> QED
      BY <3>1, <3>2, <3>3
  <2>5. CASE InsertNode(v)
    <3> DEFINE i == work[v].i
               n == Event(v)[i + 1]
    <3>1. /\ work[v] # Idle /\ i \in Nat /\ i + 1 \in 1 .. Len(Event(v)) /\ n \in Nodes
          /\ work[v].pc = "nodes"
      BY <1>1, <2>5, NextNode, Zenon DEF InsertNode
    <3>2. work[v] \in Busy(Len(history))
      BY <1>1, <3>1, BusyWorker
    <3>3. /\ work'[v].seq = work[v].seq /\ work'[v].i = i + 1
          /\ work'[v].pc = IF i = Len(Event(v)) - 1 THEN "audit" ELSE "nodes"
      BY <2>3, <2>5, <3>2 DEF InsertNode, depth, Busy
    <3>4. cl_items'[n].seq >= work[v].seq
      BY <1>1, <1>3, <2>5, <3>1, InsertedNode
    <3>5. Event(v)' = Event(v) /\ Len(Event(v)) \in Nat
      BY <1>4, <3>1, <3>3
    <3>6. Done(v)' = i + 1
      BY <3>1, <3>3, <3>5 DEF Done
    <3>7. \A k \in 1 .. i : cl_items'[Event(v)[k]].seq >= work[v].seq
      BY <1>4, <3>1, <3>3 DEF Done
    <3> QED
      BY <3>1, <3>3, <3>4, <3>5, <3>6, <3>7
  <2>6. CASE InsertAudit(v) \/ FindTree(v)
    <3>1. work[v] # Idle /\ work[v].pc # "nodes"
      BY <1>1, <2>6, IdleIsIdle DEF InsertAudit, FindTree
    <3>2. work[v] \in Busy(Len(history))
      BY <1>1, <3>1, BusyWorker
    <3>3. work'[v].seq = work[v].seq /\ work'[v].pc # "nodes"
      BY <2>3, <2>6, <3>2 DEF InsertAudit, FindTree, Busy
    <3>4. Event(v)' = Event(v)
      BY <1>4, <3>1, <3>3
    <3>5. Done(v)' = Done(v)
      BY <3>1, <3>3, <3>4 DEF Done
    <3> QED
      BY <1>4, <3>1, <3>3, <3>4, <3>5
  <2>7. CASE InsertBackfillItem(v) \/ Fail(v)
    BY <1>2, <2>3, <2>7 DEF InsertBackfillItem, Fail
  <2> QED
    BY <2>1, <2>2, <2>4, <2>5, <2>6, <2>7 DEF insert_change_log
<1> QED
  BY <1>5, <1>6
\* Rows of backfill_items stay.
LEMMA RowsStay ==
    ASSUME [Next]_vars
    PROVE  backfill_items \subseteq backfill_items'
BY RowsStep DEF InsertBackfillItem

\* A worker that means to insert without a flag saw a row of the tree.
LEMMA UnflaggedStep ==
    ASSUME Inv, [Next]_vars
    PROVE  UnflaggedIsSafe'
<1>1. TypeOK /\ UnflaggedIsSafe
  BY DEF Inv
<1>2. SUFFICES ASSUME NEW v \in Workers, work'[v].pc = "insert", ~work'[v].force_chk
               PROVE  work'[v].seq = 1 \/ backfill_items' # {}
  BY DEF UnflaggedIsSafe
<1>3. CASE work'[v] = work[v]
  BY <1>1, <1>2, <1>3, RowsStay DEF UnflaggedIsSafe
<1>4. CASE work'[v] # work[v]
  <2>1. PICK w \in Workers : (\E s \in 1 .. MaxSeq : Receive(w, s)) \/ insert_change_log(w) \/ Fail(w)
    BY <1>4 DEF Next, ReplaceLeaf, vars
  <2>2. w = v
    BY <1>1, <1>4, <2>1, WorkStep
  <2>3. DOMAIN work = Workers
    BY <1>1 DEF TypeOK
  <2>4. CASE FindTree(v)
    <3>1. work[v] \in Busy(Len(history))
      BY <1>1, <2>4, IdleIsIdle, BusyWorker DEF FindTree
    <3>2. /\ work'[v].force_chk = (backfill_items = {} /\ work[v].seq > 1)
          /\ work'[v].seq = work[v].seq
      BY <2>3, <2>4, <3>1 DEF FindTree, Busy
    <3>3. work[v].seq \in Nat \ {0}
      BY <1>1, <3>1 DEF Busy, TypeOK
    <3>4. backfill_items # {} \/ ~(work[v].seq > 1)
      BY <1>2, <3>2, Zenon
    <3>5. backfill_items # {} => backfill_items' # {}
      BY RowsStay
    <3> QED
      BY <3>2, <3>3, <3>4, <3>5
  <2>5. CASE (\E s \in 1 .. MaxSeq : Receive(v, s)) \/ InsertBackfillItem(v) \/ Fail(v)
    <3>1. work'[v].pc \in {"nodes", "idle"}
      <4>1. CASE \E s \in 1 .. MaxSeq : Receive(v, s)
        BY <2>3, <4>1 DEF Receive, Idle
      <4>2. CASE InsertBackfillItem(v) \/ Fail(v)
        BY <2>3, <4>2 DEF InsertBackfillItem, Fail, Idle
      <4> QED
        BY <2>5, <4>1, <4>2
    <3> QED
      BY <1>2, <3>1, SMT
  <2>6. CASE InsertNode(v) \/ InsertAudit(v)
    <3>1. work[v] \in Busy(Len(history))
      BY <1>1, <2>6, IdleIsIdle, BusyWorker DEF InsertNode, InsertAudit
    <3>2. work'[v].pc \in {"nodes", "audit", "find"}
      BY <2>3, <2>6, <3>1 DEF InsertNode, InsertAudit, Busy
    <3> QED
      BY <1>2, <3>2, SMT
  <2> QED
    BY <2>1, <2>2, <2>4, <2>5, <2>6, Zenon DEF insert_change_log
<1> QED
  BY <1>3, <1>4

\* Every insert leaves a flagged row where the start is missing.
LEMMA FlaggedStep ==
    ASSUME Inv, [Next]_vars
    PROVE  MissingStartIsFlagged'
<1>1. TypeOK /\ UnflaggedIsSafe /\ MissingStartIsFlagged
  BY DEF Inv
<1>2. CASE backfill_items' = backfill_items
  BY <1>1, <1>2 DEF MissingStartIsFlagged, Recorded
<1>3. ASSUME NEW w \in Workers, InsertBackfillItem(w)
      PROVE  MissingStartIsFlagged'
  <2>1. backfill_items' = backfill_items \cup {[seq |-> work[w].seq, force_chk |-> work[w].force_chk]}
    BY <1>3 DEF InsertBackfillItem
  <2>2. CASE work[w].force_chk
    <3> DEFINE item == [seq |-> work[w].seq, force_chk |-> work[w].force_chk]
    <3>1. item \in backfill_items' /\ item.force_chk
      BY <2>1, <2>2, Zenon
    <3> QED
      BY <3>1, Zenon DEF MissingStartIsFlagged
  <2>3. CASE work[w].seq = 1
    BY <2>1, <2>3, Zenon DEF MissingStartIsFlagged, Recorded
  <2>4. CASE backfill_items # {}
    BY <1>1, <2>1, <2>4 DEF MissingStartIsFlagged, Recorded
  <2> QED
    BY <1>1, <1>3, <2>2, <2>3, <2>4 DEF UnflaggedIsSafe, InsertBackfillItem
<1> QED
  BY <1>2, <1>3, RowsStep

-----------------------------------------------------------------------------
(* Theorems.                                                               *)

\* Inv is an invariant of insert_change_log run by any number of workers.
THEOREM InvHolds == Spec => []Inv
<1>1. Init => Inv
  <2> SUFFICES ASSUME Init PROVE Inv
    OBVIOUS
  <2>1. TypeOK
    BY TypeInit
  <2>2. RowsAreHistoric
    BY DEF Init, RowsAreHistoric
  <2>3. RecordedMeansStored /\ MissingStartIsFlagged
    BY DEF Init, RecordedMeansStored, MissingStartIsFlagged, Recorded
  <2>4. WorkIsStored /\ UnflaggedIsSafe
    BY DEF Init, WorkIsStored, UnflaggedIsSafe, Idle
  <2> QED
    BY <2>1, <2>2, <2>3, <2>4 DEF Inv
<1>2. Inv /\ [Next]_vars => Inv'
  BY TypeStep, HistoricStep, RecordedStep, FlaggedStep, WorkStoredStep, UnflaggedStep DEF Inv
<1> QED
  BY <1>1, <1>2, PTL DEF Spec

\* The tables and the workers of insert_change_log have their types.
THEOREM TypeCorrect == Spec => []TypeOK
<1>1. Inv => TypeOK
  BY DEF Inv
<1> QED
  BY <1>1, InvHolds, PTL

\* A row of cl_items is never a mixture of two changes: the upsert of each node
\* stores hash and sequence number of one event, in whatever order events come.
THEOREM HistoricHolds == Spec => []RowsAreHistoric
<1>1. Inv => RowsAreHistoric
  BY DEF Inv
<1> QED
  BY <1>1, InvHolds, PTL

\* insert_change_log inserts the row of backfill_items last: where there is one,
\* the whole path is stored, whichever worker was interrupted where.
THEOREM RecordedHolds == Spec => []RecordedMeansStored
<1>1. Inv => RecordedMeansStored
  BY DEF Inv
<1> QED
  BY <1>1, InvHolds, PTL

\* The check for a row of the tree before the insert, although not atomic with
\* it, leaves no tree that misses its first change without a flagged row.
THEOREM FlaggedHolds == Spec => []MissingStartIsFlagged
<1>1. Inv => MissingStartIsFlagged
  BY DEF Inv
<1> QED
  BY <1>1, InvHolds, PTL

\* The guard of the upsert of cl_items: no message takes a node back.
THEOREM NeverBackHolds == Spec => NodesNeverGoBack
<1>1. Inv /\ [Next]_vars => [\A n \in Nodes : cl_items'[n].seq >= cl_items[n].seq]_vars
  BY NodesRise
<1> QED
  BY <1>1, InvHolds, PTL DEF Spec, NodesNeverGoBack

\* A tree with a row of backfill_items for each of its changes is stored as it is
\* on chain: what the backfiller takes for granted when it finds no gap.
THEOREM CurrentHolds == Spec => []GapFreeIsCurrent
<1>1. ASSUME Inv, Recorded = 1 .. Len(history), NEW n \in Nodes
      PROVE  IF Touching(n) = {} THEN cl_items[n] = NoItem
             ELSE cl_items[n].hash = HashAt(n, Len(history))
  <2>1. TypeOK /\ RowsAreHistoric /\ RecordedMeansStored /\ history \in Seq(Leaves)
    BY <1>1 DEF Inv, TypeOK
  <2>2. CASE Touching(n) = {}
    BY <2>1, <2>2 DEF RowsAreHistoric
  <2>3. CASE Touching(n) # {}
    <3>1. \A i \in Touching(n) : i <= cl_items[n].seq /\ i \in 1 .. Len(history)
      <4>1. \A i \in Touching(n) : i \in Recorded /\ n \in PathNodes(history[i])
        BY <1>1 DEF Touching
      <4>2. \A i \in Touching(n) : cl_items[n].seq >= i /\ i \in 1 .. Len(history)
        BY <2>1, <4>1 DEF RecordedMeansStored, Touching
      <4>3. cl_items[n].seq \in 0 .. Len(history)
        BY <2>1, SeqType
      <4> QED
        BY <4>2, <4>3
    <3>2. cl_items[n] # NoItem
      BY <2>3, <3>1 DEF NoItem
    <3>3. cl_items[n].seq \in 1 .. Len(history)
      BY <2>1, <3>2, SeqType
    <3>4. HashAt(n, Len(history)) = HashAt(n, cl_items[n].seq)
      BY <2>1, <3>1, <3>3, UntouchedHash
    <3> QED
      BY <2>1, <2>3, <3>2, <3>4 DEF RowsAreHistoric
  <2> QED
    BY <2>2, <2>3
<1>2. Inv => GapFreeIsCurrent
  BY <1>1 DEF GapFreeIsCurrent
<1> QED
  BY <1>2, InvHolds, PTL
=============================================================================
