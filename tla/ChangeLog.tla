------------------------------ MODULE ChangeLog ------------------------------
(***************************************************************************)
(* The change log of one concurrent Merkle tree: insert_change_log of      *)
(* program_transformers/src/bubblegum/db.rs, statement by statement.       *)
(*                                                                         *)
(* Each instruction on the tree replaces one leaf and emits the new hashes *)
(* of the path from that leaf to the root, under the next sequence number. *)
(* Workers save the path to cl_items, one statement per node and with no   *)
(* transaction around them, then an audit row, then a row in               *)
(* backfill_items.  Messages come in any order and any number of times,    *)
(* and a worker may fail at any statement.                                 *)
(***************************************************************************)
EXTENDS Integers, Sequences

CONSTANTS
    NULL,          \* SQL NULL
    Nodes, Leaves, \* node indexes of the tree (the root is 1), those of its leaves
    Path,          \* per leaf, the nodes from the leaf to the root
    FirstLeaf,     \* 2 ^ depth, the node index of leaf 0
    Hash(_, _),    \* the hash of a node with some contents
    Workers,
    MaxSeq,        \* bound on the tree's history
    MaxFailures    \* bound on failed statements and crashes

ASSUME TreeAssumption ==
    /\ Nodes \subseteq Nat \ {0} /\ Leaves \subseteq Nodes /\ FirstLeaf \in Nat
    /\ \A l \in Leaves : Path[l] \in Seq(Nodes) /\ Path[l] # << >>

ASSUME BoundsAssumption == MaxSeq \in Nat /\ MaxFailures \in Nat

VARIABLES
    history,         \* per sequence number, the leaf it replaced
    cl_items,        \* per node, the stored row
    cl_audits_v2,    \* the sequence numbers with an audit row
    backfill_items,  \* rows [seq, force_chk]
    work,            \* per worker, where it is in insert_change_log
    failures

tables == <<cl_items, cl_audits_v2, backfill_items>>
vars == <<history, tables, work, failures>>

NoItem == [seq |-> 0, hash |-> NULL, level |-> NULL, leaf_idx |-> NULL]

Idle == [pc |-> "idle", seq |-> 0, i |-> 0, force_chk |-> FALSE]

-----------------------------------------------------------------------------
(* The tree on chain.                                                      *)

PathNodes(leaf) == {Path[leaf][k] : k \in DOMAIN Path[leaf]}

Below(node) == {l \in Leaves : node \in PathNodes(l)}

Newest(changes) == IF changes = {} THEN 0 ELSE CHOOSE i \in changes : \A j \in changes : j <= i

\* The last of the first s changes that replaced the leaf, 0 if none did.
LastChange(leaf, s) == Newest({i \in 1 .. s : history[i] = leaf})

\* The hash of a node after s changes.
HashAt(node, s) == Hash(node, [l \in Below(node) |-> LastChange(l, s)])

ReplaceLeaf ==
    /\ Len(history) < MaxSeq
    /\ \E l \in Leaves : history' = Append(history, l)
    /\ UNCHANGED <<tables, work, failures>>

-----------------------------------------------------------------------------
(* insert_change_log.                                                      *)

\* Mutant: the root counts as complete one level early.
depth_short(w) == Len(Path[history[work[w].seq]]) - 2

Event(w) == Path[history[work[w].seq]]

depth(w) == Len(Event(w)) - 1

\* The loop over the path starts at the leaf.
Receive(w, s) ==
    /\ work[w] = Idle
    /\ s \in 1 .. Len(history)
    /\ work' = [work EXCEPT ![w] = [Idle EXCEPT !.pc = "nodes", !.seq = s]]
    /\ UNCHANGED <<history, tables, failures>>

node_idx_to_leaf_idx(index) == index - FirstLeaf

\* Mutant: the hash is not among the columns that a conflict updates.
upsert_cl_item_but_hash(row, item) ==
    IF item.seq > row.seq
    THEN [item EXCEPT !.hash = IF row.seq = 0 THEN @ ELSE row.hash]
    ELSE row

\* Mutant: the conflict clause without its guard.
upsert_cl_item_unguarded(row, item) == item

\* ON CONFLICT DO UPDATE ... WHERE excluded.seq > cl_items.seq
upsert_cl_item(row, item) == IF item.seq > row.seq THEN item ELSE row

InsertNode(w) ==
    LET i == work[w].i
        node_idx == Event(w)[i + 1]
        item == [seq |-> work[w].seq,
                 hash |-> HashAt(node_idx, work[w].seq),
                 level |-> i,
                 leaf_idx |-> IF i = 0 THEN node_idx_to_leaf_idx(node_idx) ELSE NULL]
    IN  /\ work[w].pc = "nodes"
        /\ cl_items' = [cl_items EXCEPT ![node_idx] = upsert_cl_item(@, item)]
        /\ work' = [work EXCEPT ![w].i = i + 1,
                                ![w].pc = IF i = depth(w) THEN "audit" ELSE "nodes"]
        /\ UNCHANGED <<history, cl_audits_v2, backfill_items, failures>>

\* An error of this statement is logged and ignored.
InsertAudit(w) ==
    /\ work[w].pc = "audit"
    /\ \/ cl_audits_v2' = cl_audits_v2 \cup {work[w].seq} /\ UNCHANGED failures
       \/ failures < MaxFailures /\ failures' = failures + 1 /\ UNCHANGED cl_audits_v2
    /\ work' = [work EXCEPT ![w].pc = "find"]
    /\ UNCHANGED <<history, cl_items, backfill_items>>

\* Mutant: only the tree's second change asks for a check.
FindTreeSecond(w) ==
    /\ work[w].pc = "find"
    /\ work' = [work EXCEPT ![w].pc = "insert",
                            ![w].force_chk = backfill_items = {} /\ work[w].seq = 2]
    /\ UNCHANGED <<history, tables, failures>>

\* Does the tree have a row?  If not, and this is not its first change, the
\* backfiller will have to look at the tree from the start.
FindTree(w) ==
    /\ work[w].pc = "find"
    /\ work' = [work EXCEPT ![w].pc = "insert",
                            ![w].force_chk = backfill_items = {} /\ work[w].seq > 1]
    /\ UNCHANGED <<history, tables, failures>>

\* Mutant: the row is numbered for the next change.
InsertBackfillItemNext(w) ==
    /\ work[w].pc = "insert"
    /\ backfill_items' = backfill_items \cup
           {[seq |-> work[w].seq + 1, force_chk |-> work[w].force_chk]}
    /\ work' = [work EXCEPT ![w] = Idle]
    /\ UNCHANGED <<history, cl_items, cl_audits_v2, failures>>

InsertBackfillItem(w) ==
    /\ work[w].pc = "insert"
    /\ backfill_items' = backfill_items \cup
           {[seq |-> work[w].seq, force_chk |-> work[w].force_chk]}
    /\ work' = [work EXCEPT ![w] = Idle]
    /\ UNCHANGED <<history, cl_items, cl_audits_v2, failures>>

\* A statement fails or the worker dies; what it has written stays.
Fail(w) ==
    /\ work[w] # Idle
    /\ failures < MaxFailures
    /\ failures' = failures + 1
    /\ work' = [work EXCEPT ![w] = Idle]
    /\ UNCHANGED <<history, tables>>

insert_change_log(w) ==
    InsertNode(w) \/ InsertAudit(w) \/ FindTree(w) \/ InsertBackfillItem(w)

-----------------------------------------------------------------------------
Init ==
    /\ history = << >>
    /\ cl_items = [n \in Nodes |-> NoItem]
    /\ cl_audits_v2 = {}
    /\ backfill_items = {}
    /\ work = [w \in Workers |-> Idle]
    /\ failures = 0

Next ==
    \/ ReplaceLeaf
    \/ \E w \in Workers :
          \/ \E s \in 1 .. MaxSeq : Receive(w, s)
          \/ insert_change_log(w)
          \/ Fail(w)

Spec == Init /\ [][Next]_vars

\* The sequence numbers with a row in backfill_items.
Recorded == {item.seq : item \in backfill_items}

\* Workers keep working, and a message that was not completed is delivered
\* again: handlers acknowledge a message only once they are through.
Fairness ==
    /\ \A w \in Workers : WF_vars(insert_change_log(w))
    /\ \A s \in 1 .. MaxSeq :
          SF_vars(s \notin Recorded /\ \E w \in Workers : Receive(w, s))

FairSpec == Spec /\ Fairness
-----------------------------------------------------------------------------
(* Properties.                                                             *)

\* Type invariant.
TypeOK ==
    /\ history \in Seq(Leaves) /\ Len(history) <= MaxSeq
    /\ DOMAIN cl_items = Nodes
    /\ \A n \in Nodes :
          \/ cl_items[n] = NoItem
          \/ /\ DOMAIN cl_items[n] = DOMAIN NoItem
             /\ cl_items[n].seq \in 1 .. Len(history)
             /\ cl_items[n].level \in Nat /\ cl_items[n].leaf_idx \in Int \cup {NULL}
    /\ cl_audits_v2 \subseteq 1 .. Len(history)
    /\ backfill_items \subseteq [seq : 1 .. Len(history), force_chk : BOOLEAN]
    /\ work \in [Workers -> {Idle} \cup [pc : {"nodes", "audit", "find", "insert"},
                                       seq : 1 .. Len(history), i : Nat, force_chk : BOOLEAN]]
    /\ failures \in 0 .. MaxFailures

\* The changes of the first s that touch a node.
Touching(node) == {i \in 1 .. Len(history) : node \in PathNodes(history[i])}

\* A row of cl_items holds what the chain had at the node after some change
\* that touched it, never a mixture of two changes.
RowsAreHistoric ==
    \A n \in Nodes :
        cl_items[n] # NoItem =>
            /\ cl_items[n].seq \in Touching(n)
            /\ cl_items[n].hash = HashAt(n, cl_items[n].seq)

\* A row of backfill_items for a change means that every node of its path has
\* been stored at that change or a later one: an interrupted path leaves a gap
\* in backfill_items, whichever worker and delivery was interrupted.
RecordedMeansStored ==
    \A s \in Recorded : \A n \in PathNodes(history[s]) : cl_items[n].seq >= s

\* Once every change of the tree is recorded, every stored node is the node on
\* chain, and nodes without a row were never touched, even while old messages
\* are being handled again.
GapFreeIsCurrent ==
    Recorded = 1 .. Len(history) =>
        \A n \in Nodes :
            IF Touching(n) = {} THEN cl_items[n] = NoItem
            ELSE cl_items[n].hash = HashAt(n, Len(history))

\* A tree with rows but without one for its first change has a row flagged for
\* the backfiller, however the checks and inserts of several workers interleave.
MissingStartIsFlagged ==
    backfill_items # {} /\ 1 \notin Recorded =>
        \E item \in backfill_items : item.force_chk

\* No message, however late, takes a node back to an earlier change.
NodesNeverGoBack ==
    [][\A n \in Nodes : cl_items'[n].seq >= cl_items[n].seq]_vars

\* Every change of the tree is recorded in the end, in spite of failures.
EveryChangeRecorded ==
    \A s \in 1 .. MaxSeq : s <= Len(history) ~> s \in Recorded
=============================================================================
