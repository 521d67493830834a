----------------------------- MODULE Backfiller -----------------------------
(***************************************************************************)
(* The backfiller of nft_ingester/src/backfiller.rs for one tree.          *)
(*                                                                         *)
(* Messages may be lost before they reach the stream.  Workers record each *)
(* change they save with a row in backfill_items; the filler looks for     *)
(* trees with a flagged row or with several rows, sends the transactions   *)
(* of the slots around each gap to the stream again, and then cleans the   *)
(* table up, statement by statement and without a transaction.  The finder *)
(* flags trees of which nothing is stored.                                 *)
(***************************************************************************)
EXTENDS Integers, Sequences, FiniteSets

CONSTANTS
    Workers,
    MaxSeq,         \* bound on the tree's history
    SlotOf,         \* per sequence number, the slot of its transaction; at 0,
                    \* the slot in which the tree was created
    NumTries,       \* NUM_TRIES
    MaxRows,        \* bound on the rows of the table
    MaxForced,      \* bound on the rows of the finder among them
    MaxErrors,      \* bound on failed calls, statements and acknowledgements
    Window,         \* slots of one get_blocks call (500_000)
    Mishaps         \* which of the events may happen that let the filler forget
                    \* a gap: a "crash" of the process, "blocks" that get_blocks
                    \* does not list because a call failed, rows inserted
                    \* between the SELECTs ("find") or during the "cleanup",
                    \* and a tree that is given up as "failed"

ASSUME BoundsAssumption ==
    /\ MaxSeq \in Nat /\ SlotOf \in [0 .. MaxSeq -> Nat]
    /\ \A s, t \in 0 .. MaxSeq : s <= t => SlotOf[s] <= SlotOf[t]
    /\ IsFiniteSet(Workers)
    /\ NumTries \in Nat \ {0} /\ MaxErrors \in Nat
    /\ MaxRows \in Nat /\ MaxForced \in 0 .. MaxRows
    /\ Window \in Nat \ {0}
    /\ Mishaps \subseteq {"crash", "blocks", "find", "cleanup", "failed"}

VARIABLES
    length,          \* number of changes of the tree on chain
    stream,          \* changes whose message is to be handled
    stored,          \* changes saved to cl_items
    backfill_items,  \* rows [seq, copy, force_chk, backfilled, failed, locked]
    work,            \* per worker, where it is in insert_change_log
    finder,          \* whether the finder has found the tree missing
    filler,          \* the state of run_filler
    errors,
    mishap           \* has one of the Mishaps happened?

tree == <<length, stream, stored>>
vars == <<tree, backfill_items, work, finder, filler, errors, mishap>>

Idle == [pc |-> "idle", seq |-> 0, force_chk |-> FALSE]

\* trees is what get_trees_to_backfill returned: per entry, backfill_from_seq_1.
\* mine are the rows locked by its uncommitted transaction, gaps the pairs of
\* slots still to plug and slots what is left of the gap being plugged.
Resting == [pc |-> "idle", trees |-> << >>, mine |-> {}, tries |-> 0,
            max_seq |-> 0, gaps |-> {}, slots |-> {}]

Cleanup == {"delete", "dedupe", "mark", "clear", "unlock"}

-----------------------------------------------------------------------------
(* The chain and the workers.                                              *)

\* A change of the tree; its message reaches the stream or is lost.
Change ==
    /\ length < MaxSeq
    /\ length' = length + 1
    /\ stream' \in {stream, stream \cup {length + 1}}
    /\ UNCHANGED <<stored, backfill_items, work, finder, filler, errors, mishap>>

MaxOf(S) == CHOOSE m \in S : \A n \in S : n <= m

\* A worker or the finder starts only while there is room for its row.
HasRoom ==
    Cardinality(backfill_items) + Cardinality({w \in Workers : work[w] # Idle})
        + (IF finder = "missing" THEN 1 ELSE 0) < MaxRows

\* A new row; copy tells rows with the same number apart.
Row(seq, force_chk) ==
    [seq |-> seq,
     copy |-> CHOOSE i \in 1 .. MaxRows :
                 LET copies == {r.copy : r \in {q \in backfill_items : q.seq = seq}}
                 IN  i \notin copies /\ 1 .. i - 1 \subseteq copies,
     force_chk |-> force_chk, backfilled |-> FALSE, failed |-> FALSE, locked |-> FALSE]

Key(row) == <<row.seq, row.copy>>

Trouble == errors < MaxErrors /\ errors' = errors + 1

\* What an insert, or a look at the table before one, disturbs now.
Disturbed == (IF filler.pc = "multi_row" THEN {"find"} ELSE {}) \cup
             (IF filler.pc \in Cleanup THEN {"cleanup"} ELSE {})

Happens(events) == events \subseteq Mishaps /\ mishap' = (mishap \/ events # {})

Save(w) ==
    /\ work[w] = Idle /\ HasRoom
    /\ \E s \in stream :
          /\ stored' = stored \cup {s}
          /\ work' = [work EXCEPT ![w] = [Idle EXCEPT !.pc = "find", !.seq = s]]
    /\ UNCHANGED <<length, stream, backfill_items, finder, filler, errors, mishap>>

FindTree(w) ==
    /\ work[w].pc = "find" /\ Happens(Disturbed)
    /\ work' = [work EXCEPT ![w].pc = "insert",
                            ![w].force_chk = backfill_items = {} /\ work[w].seq > 1]
    /\ UNCHANGED <<tree, backfill_items, finder, filler, errors>>

\* The message is acknowledged, unless the acknowledgement is lost.
InsertItem(w) ==
    /\ work[w].pc = "insert" /\ Happens(Disturbed)
    /\ backfill_items' = backfill_items \cup {Row(work[w].seq, work[w].force_chk)}
    /\ \/ stream' = stream \ {work[w].seq} /\ UNCHANGED errors
       \/ Trouble /\ UNCHANGED stream
    /\ work' = [work EXCEPT ![w] = Idle]
    /\ UNCHANGED <<length, stored, finder, filler>>

\* The message stays in the stream.
Fail(w) ==
    /\ work[w] # Idle /\ Trouble
    /\ work' = [work EXCEPT ![w] = Idle]
    /\ UNCHANGED <<tree, backfill_items, finder, filler, mishap>>

-----------------------------------------------------------------------------
(* run_finder.                                                             *)

\* The tree is on chain, none of its rows is locked or failed, and none of its
\* changes is stored.
get_missing_trees ==
    /\ finder = "idle"
    /\ HasRoom /\ Cardinality({r \in backfill_items : r.seq = 0}) < MaxForced
    /\ stored = {}
    /\ \A r \in backfill_items : ~r.locked /\ ~r.failed
    /\ finder' = "missing"
    /\ UNCHANGED <<tree, backfill_items, work, filler, errors, mishap>>

force_backfill_missing_trees ==
    /\ finder = "missing" /\ Happens(Disturbed)
    /\ backfill_items' = backfill_items \cup {Row(0, TRUE)}
    /\ finder' = "idle"
    /\ UNCHANGED <<tree, work, filler, errors>>

-----------------------------------------------------------------------------
(* get_trees_to_backfill, one transaction.  A row inserted between a        *)
(* SELECT and the UPDATE that follows it is locked with the others, as if   *)
(* it had been there before, so the two are one step.                       *)

Available(rows) == {r \in rows : ~r.failed /\ ~r.locked}

\* One entry per slot of a flagged row (SELECT DISTINCT tree, slot).
SelectForced ==
    LET slots == {SlotOf[r.seq] : r \in {q \in Available(backfill_items) : q.force_chk}}
    IN  /\ filler.pc = "idle"
        /\ filler' = [filler EXCEPT !.pc = "multi_row",
                !.trees = [n \in 1 .. Cardinality(slots) |-> TRUE],
                !.mine = IF slots = {} THEN {} ELSE {Key(r) : r \in backfill_items}]
        /\ UNCHANGED <<tree, backfill_items, work, finder, errors, mishap>>

\* The trees with several rows, the locks and the commit.
SelectMultiRow ==
    LET free == {r \in Available(backfill_items) : Key(r) \notin filler.mine}
        several == Cardinality(free) > 1
        trees == filler.trees \o (IF several THEN <<FALSE>> ELSE << >>)
    IN  /\ filler.pc = "multi_row"
        /\ backfill_items' =
              {[r EXCEPT !.locked = @ \/ several \/ Key(r) \in filler.mine] : r \in backfill_items}
        /\ filler' = [filler EXCEPT !.trees = trees, !.mine = {}, !.tries = 1,
                                    !.pc = IF trees = << >> THEN "idle" ELSE "fill"]
        /\ UNCHANGED <<tree, work, finder, errors, mishap>>

\* An error of a statement rolls the transaction back.
SelectFails ==
    /\ filler.pc = "multi_row"
    /\ Trouble
    /\ filler' = Resting
    /\ UNCHANGED <<tree, backfill_items, work, finder, mishap>>

-----------------------------------------------------------------------------
(* run_filler, for the head of filler.trees.                               *)

NextTree ==
    IF Len(filler.trees) = 1 THEN Resting
    ELSE [Resting EXCEPT !.pc = "fill", !.trees = Tail(filler.trees), !.tries = 1]

\* find_slots_via_address: the slots of all changes of the tree so far, each
\* plugged as a gap of its own.
backfill_tree_from_seq_1 ==
    /\ filler.pc = "fill" /\ Head(filler.trees)
    /\ filler' = [filler EXCEPT !.pc = "plug", !.max_seq = 0,
                                !.gaps = {<<SlotOf[s], SlotOf[s]>> : s \in 1 .. length}]
    /\ UNCHANGED <<tree, backfill_items, work, finder, errors, mishap>>

start_seq ==
    LET done == {r.seq : r \in {q \in backfill_items : q.backfilled}}
    IN  IF done = {} THEN 0 ELSE MaxOf(done)

\* The sequence numbers from start_seq on, and the gaps between them.
Candidates == {r.seq : r \in backfill_items} \cap {s \in 0 .. MaxSeq : s >= start_seq}

Gaps == {g \in Candidates \X Candidates :
            g[2] - g[1] > 1 /\ \A s \in Candidates : s <= g[1] \/ s >= g[2]}

\* Mutant: one past the highest number.
get_missing_data_past ==
    /\ filler.pc = "fill" /\ ~Head(filler.trees)
    /\ Candidates # {}
    /\ filler' = [filler EXCEPT !.pc = "plug", !.max_seq = MaxOf(Candidates) + 1,
                                !.gaps = {<<SlotOf[g[1]], SlotOf[g[2]]>> : g \in Gaps}]
    /\ UNCHANGED <<tree, backfill_items, work, finder, errors, mishap>>

get_missing_data ==
    /\ filler.pc = "fill" /\ ~Head(filler.trees)
    /\ Candidates # {}
    /\ filler' = [filler EXCEPT !.pc = "plug", !.max_seq = MaxOf(Candidates),
                                !.gaps = {<<SlotOf[g[1]], SlotOf[g[2]]>> : g \in Gaps}]
    /\ UNCHANGED <<tree, backfill_items, work, finder, errors, mishap>>

\* Mutant: a small gap is rounded to no range at all.
Ranges_rounded(prev, curr) ==
    LET end(k) == IF prev + k * Window < curr THEN prev + k * Window ELSE curr
    IN  {end(k - 1) .. end(k) : k \in 1 .. (curr - prev + Window \div 2) \div Window}

\* The slot ranges that plug_gap asks get_blocks for; their number is rounded
\* to the nearest, and is at least one.
Ranges(prev, curr) ==
    LET rounded == (curr - prev + Window \div 2) \div Window
        num_iter == IF rounded = 0 THEN 1 ELSE rounded
        end(k) == IF prev + k * Window < curr THEN prev + k * Window ELSE curr
    IN  {end(k - 1) .. end(k) : k \in 1 .. num_iter}

\* The slots of the next gap: gaps are plugged from the oldest on, the slots of
\* a forced backfill in the order of a hash set.  A range whose call fails is
\* left out.
get_blocks ==
    /\ filler.pc = "plug" /\ filler.slots = {}
    /\ \E gap \in filler.gaps :
          /\ Head(filler.trees) \/ \A other \in filler.gaps : gap[1] <= other[1]
          /\ \E answered \in SUBSET Ranges(gap[1], gap[2]) :
                /\ Happens(IF answered = Ranges(gap[1], gap[2]) THEN {} ELSE {"blocks"})
                /\ filler' = [filler EXCEPT !.gaps = @ \ {gap}, !.slots = UNION answered]
    /\ UNCHANGED <<tree, backfill_items, work, finder, errors>>

\* The tree's transactions of a block go to the stream again.
plug_gap ==
    /\ filler.pc = "plug"
    /\ \E slot \in filler.slots :
          /\ filler' = [filler EXCEPT !.slots = @ \ {slot}]
          /\ stream' = stream \cup {s \in 1 .. length : SlotOf[s] = slot}
    /\ UNCHANGED <<length, stored, backfill_items, work, finder, errors, mishap>>

Plugged ==
    /\ filler.pc = "plug" /\ filler.gaps = {} /\ filler.slots = {}
    /\ Happens(IF \E w \in Workers : work[w].pc = "insert" THEN {"cleanup"} ELSE {})
    /\ filler' = [filler EXCEPT !.pc = "delete"]
    /\ UNCHANGED <<tree, backfill_items, work, finder, errors>>

\* After so many errors.  The statement may fail as well, which is only logged.
mark_tree_as_failed(before) ==
    \E lost \in 0 .. 1 :
        /\ errors + before + lost <= MaxErrors
        /\ errors' = errors + before + lost
        /\ Happens({"failed"})
        /\ backfill_items' = {[r EXCEPT !.failed = @ \/ lost = 0] : r \in backfill_items}

\* A failed call: try again, or give the tree up after the last try.
TryFails ==
    /\ filler.pc \in {"fill", "plug"}
    /\ \/ /\ filler.tries < NumTries /\ Trouble
          /\ filler' = [filler EXCEPT !.pc = "fill", !.gaps = {}, !.slots = {},
                                      !.tries = @ + 1]
          /\ UNCHANGED <<backfill_items, mishap>>
       \/ /\ filler.tries = NumTries /\ mark_tree_as_failed(1)
          /\ filler' = NextTree
    /\ UNCHANGED <<tree, work, finder>>

\* No row of the tree from start_seq on.
NoRows ==
    /\ filler.pc = "fill" /\ ~Head(filler.trees) /\ Candidates = {}
    /\ mark_tree_as_failed(0)
    /\ filler' = NextTree
    /\ UNCHANGED <<tree, work, finder>>

-----------------------------------------------------------------------------
(* delete_extra_rows_and_mark_as_backfilled.                               *)

Statement(pc, next, rows) ==
    /\ filler.pc = pc
    /\ backfill_items' = rows
    /\ filler' = next
    /\ UNCHANGED <<tree, work, finder, errors, mishap>>

Then(pc) == [filler EXCEPT !.pc = pc]

\* Mutant: the rows to keep are the ones deleted.
DeleteNewestRow ==
    Statement("delete", Then("dedupe"), {r \in backfill_items : r.seq # filler.max_seq})

DeleteExtraRows ==
    Statement("delete", Then("dedupe"), {r \in backfill_items : r.seq = filler.max_seq})

\* All but one of the rows that the second query returns.
RemoveDuplicates ==
    LET items == {r \in backfill_items : r.seq # filler.max_seq}
    IN  \/ items = {} /\ Statement("dedupe", Then("mark"), backfill_items)
        \/ \E first \in items :
              Statement("dedupe", Then("mark"), backfill_items \ (items \ {first}))

mark_tree_as_backfilled ==
    Statement("mark", Then("clear"), {[r EXCEPT !.backfilled = TRUE] : r \in backfill_items})

clear_force_chk_flag ==
    Statement("clear", Then("unlock"), {[r EXCEPT !.force_chk = FALSE] : r \in backfill_items})

\* Mutant: the cleanup ends without releasing the tree.
unlock_tree_not == Statement("unlock", NextTree, backfill_items)

unlock_tree ==
    Statement("unlock", NextTree, {[r EXCEPT !.locked = FALSE] : r \in backfill_items})

CleanupFails ==
    /\ filler.pc \in Cleanup
    /\ mark_tree_as_failed(1)
    /\ filler' = NextTree
    /\ UNCHANGED <<tree, work, finder>>

run_filler ==
    \/ SelectForced \/ SelectMultiRow \/ SelectFails
    \/ backfill_tree_from_seq_1 \/ get_missing_data
    \/ get_blocks \/ plug_gap \/ Plugged
    \/ NoRows \/ TryFails
    \/ DeleteExtraRows \/ RemoveDuplicates \/ mark_tree_as_backfilled
    \/ clear_force_chk_flag \/ unlock_tree \/ CleanupFails

\* The process restarts; the table stays as it is.
Crash ==
    /\ Happens({"crash"}) /\ Trouble
    /\ filler' = Resting /\ finder' = "idle" /\ work' = [w \in Workers |-> Idle]
    /\ UNCHANGED <<tree, backfill_items>>

-----------------------------------------------------------------------------
Init ==
    /\ length = 0 /\ stream = {} /\ stored = {} /\ backfill_items = {}
    /\ work = [w \in Workers |-> Idle]
    /\ finder = "idle" /\ filler = Resting /\ errors = 0 /\ mishap = FALSE

Next ==
    \/ Change
    \/ \E w \in Workers : Save(w) \/ FindTree(w) \/ InsertItem(w) \/ Fail(w)
    \/ get_missing_trees \/ force_backfill_missing_trees
    \/ run_filler
    \/ Crash

Spec == Init /\ [][Next]_vars

\* The filler and the workers keep running; a worker that the filler makes wait
\* again and again still gets through.
FairSpec ==
    /\ Spec
    /\ WF_vars(run_filler)
    /\ \A w \in Workers : WF_vars(Save(w)) /\ SF_vars(FindTree(w) \/ InsertItem(w))
-----------------------------------------------------------------------------
(* Properties.                                                             *)

\* Type invariant.
TypeOK ==
    /\ length \in 0 .. MaxSeq
    /\ stream \subseteq 1 .. length /\ stored \subseteq 1 .. length
    /\ backfill_items \subseteq
          [seq : 0 .. length, copy : 1 .. MaxRows, force_chk : BOOLEAN,
           backfilled : BOOLEAN, failed : BOOLEAN, locked : BOOLEAN]
    /\ \A r, q \in backfill_items : Key(r) = Key(q) => r = q
    /\ work \in [Workers -> [pc : {"idle", "find", "insert"}, seq : 0 .. length,
                             force_chk : BOOLEAN]]
    /\ finder \in {"idle", "missing"}
    /\ filler \in [pc : {"idle", "multi_row", "fill", "plug"} \cup Cleanup,
                   trees : Seq(BOOLEAN), mine : SUBSET (Nat \X Nat), tries : 0 .. NumTries,
                   max_seq : 0 .. length, gaps : SUBSET (Nat \X Nat), slots : SUBSET Nat]
    /\ errors \in 0 .. MaxErrors /\ mishap \in BOOLEAN

\* The filler can still come across change s: the tree is flagged, or s lies in a
\* gap above start_seq, or above all rows, where the next change will show it.
InSight(s) ==
    \/ \E r \in backfill_items : r.force_chk
    \/ \E g \in Gaps : g[1] < s /\ s < g[2]
    \/ \A r \in backfill_items : r.seq < s

\* Unless one of the Mishaps happened, a change that is not stored and has no
\* message on the way is in sight of the backfiller: whatever workers, finder
\* and filler do, and whichever calls fail, the gap it left is not forgotten.
NothingForgotten ==
    mishap \/ \A s \in 1 .. length : s \in stored \cup stream \/ InSight(s)

\* While delete_extra_rows_and_mark_as_backfilled cleans up after plugging gaps,
\* a row of the highest number that get_missing_data saw is there, whatever
\* workers insert meanwhile: the filler can start the next time from it.
NewestRowRemains ==
    filler.pc \in Cleanup /\ ~Head(filler.trees) =>
        \E r \in backfill_items : r.seq = filler.max_seq

\* Once the filler has removed the duplicates, one row has the number max_seq.
NoDuplicatesRemain ==
    filler.pc = "mark" =>
        \A r, q \in backfill_items : r.seq = filler.max_seq /\ q.seq = r.seq => q = r

\* A change in a gap between two rows is stored in the end, unless the cleanup
\* after a forced backfill deletes the rows above the gap: then the next change
\* shows it again.
GapsAreFilled ==
    \A s \in 1 .. MaxSeq :
        (\E g \in Gaps : g[1] < s /\ s < g[2])
            ~> (mishap \/ s \in stored \/ \A r \in backfill_items : r.seq < s)
=============================================================================
