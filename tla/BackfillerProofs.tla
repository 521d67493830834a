--------------------------- MODULE BackfillerProofs ---------------------------
(***************************************************************************)
(* What is proved of Backfiller for every history, every number of workers *)
(* and every bound: its types, that a row of the highest number survives   *)
(* the cleanup and, for trees whose gaps are within one window of          *)
(* get_blocks, that without one of the Mishaps no gap is forgotten.        *)
(***************************************************************************)
EXTENDS Backfiller, FiniteSetTheorems, TLAPS

BusyWorkers == {w \in Workers : work[w] # Idle}

\* The rows and the ones to be inserted fit into the table.
RowsFit ==
    /\ IsFiniteSet(backfill_items)
    /\ Cardinality(backfill_items) + Cardinality(BusyWorkers)
           + (IF finder = "missing" THEN 1 ELSE 0) <= MaxRows

\* The filler is at a tree unless it looks for trees.
TreeAtHand == filler.pc \notin {"idle", "multi_row"} => filler.trees # << >>

TypeInv == TypeOK /\ RowsFit /\ TreeAtHand

-----------------------------------------------------------------------------
\* A worker has stored the change it is at.
BusyIsStored == \A w \in Workers : work[w].pc # "idle" => work[w].seq \in stored

\* As NewestRowRemains, from the time get_missing_data chose the number.
NewestRowStays ==
    filler.pc \in {"plug"} \cup Cleanup /\ ~Head(filler.trees) =>
        \E r \in backfill_items : r.seq = filler.max_seq

\* A gap is one between the slots of two changes.
GapsAreOfChanges ==
    \A g \in filler.gaps : \E s, t \in 0 .. MaxSeq : s <= t /\ g = <<SlotOf[s], SlotOf[t]>>

RowInv == TypeInv /\ BusyIsStored /\ NewestRowStays /\ GapsAreOfChanges

-----------------------------------------------------------------------------
\* Changes that are not stored and have no message on the way.
Lost == (1 .. length) \ (stored \cup stream)

\* In sight of the filler without a flagged row.
Shows(s) ==
    \/ \E g \in Gaps : g[1] < s /\ s < g[2]
    \/ \A r \in backfill_items : r.seq < s

\* The filler will still send the slot of change s to the stream.
ToPlug(s) ==
    \/ SlotOf[s] \in filler.slots
    \/ \E g \in filler.gaps : SlotOf[s] \in g[1] .. g[2]

Searching == filler.pc \in {"idle", "multi_row"}
Forced == \A n \in DOMAIN filler.trees : filler.trees[n]
Single == filler.trees = <<FALSE>>

\* No row is given up, and none is locked while the filler looks for trees.
RowsAreFree ==
    /\ \A r \in backfill_items : ~r.failed
    /\ Searching => \A r \in backfill_items : ~r.locked

\* The first SELECT has found all flagged rows: the trees it returned are
\* forced, and if there are none, no row is flagged.
SelectedForced ==
    filler.pc = "multi_row" =>
        /\ Forced
        /\ IF filler.trees = << >>
           THEN filler.mine = {} /\ \A r \in backfill_items : ~r.force_chk
           ELSE filler.mine = {Key(r) : r \in backfill_items}

\* The filler works on forced trees or on one with several rows, not on both.
OneKind == Forced \/ Single

\* A tree with several rows: its lost changes show without a flag until the
\* cleanup, and those up to max_seq are going to be sent.
SingleShows ==
    Single /\ filler.pc \in {"fill", "plug"} =>
        backfill_items # {} /\ \A s \in Lost : Shows(s)

SingleIsPlugged ==
    Single /\ filler.pc = "plug" => \A s \in Lost : s > filler.max_seq \/ ToPlug(s)

\* Forced trees are cleaned up entirely.
ForcedIsZero == Forced /\ filler.pc \in {"plug", "delete"} => filler.max_seq = 0

\* The cleanup: changes up to max_seq are not lost, other rows are deleted, and
\* no worker comes in between.
CleanIsSafe ==
    /\ filler.pc \in Cleanup => /\ \A s \in Lost : s > filler.max_seq
                               /\ \A w \in Workers : work[w].pc # "insert"
    /\ filler.pc \in Cleanup \ {"delete"} => \A r \in backfill_items : r.seq = filler.max_seq

\* A worker about to insert a row without the flag is at the first change or
\* will not find the table empty.
UnflaggedIsSafe ==
    \A w \in Workers :
        work[w].pc = "insert" /\ ~work[w].force_chk => work[w].seq = 1 \/ backfill_items # {}

CalmInv ==
    /\ \A s \in Lost : InSight(s)
    /\ RowsAreFree /\ SelectedForced /\ OneKind /\ SingleShows /\ SingleIsPlugged
    /\ ForcedIsZero /\ CleanIsSafe /\ UnflaggedIsSafe

Inv == RowInv /\ (mishap \/ CalmInv)
-----------------------------------------------------------------------------
(* Numbers, sets and slots.                                                *)

\* A set of numbers has a least one.
LEMMA LeastNumber ==
    ASSUME NEW S \in SUBSET Nat, S # {}
    PROVE  \E m \in S : \A n \in S : m <= n
<1>1. PICK m \in S : \A n \in S : ~(<<n, m>> \in OpToRel(<, Nat))
  BY NatLessThanWellFounded, WFMin, Zenon
<1>2. \A n \in S : ~(n < m)
  BY <1>1, Zenon DEF OpToRel
<1> QED
  BY <1>2

\* A bounded set of numbers has a greatest one.
LEMMA GreatestNumber ==
    ASSUME NEW b \in Nat, NEW S \in SUBSET (0 .. b), S # {}
    PROVE  \E m \in S : \A n \in S : n <= m
<1> DEFINE T == {k \in 0 .. b : b - k \in S}
<1>1. ASSUME NEW n \in S
      PROVE  n \in Nat /\ b - n \in T
  <2>1. n \in 0 .. b /\ b - n \in 0 .. b /\ b - (b - n) = n
    OBVIOUS
  <2> QED
    BY <2>1
<1>2. PICK k \in T : \A j \in T : k <= j
  <2>1. T \in SUBSET Nat
    OBVIOUS
  <2>2. PICK n : n \in S
    OBVIOUS
  <2>3. b - n \in T
    BY <1>1, <2>2
  <2> HIDE DEF T
  <2> QED
    BY <2>1, <2>3, LeastNumber
<1>3. b - k \in S /\ k \in 0 .. b
  BY <1>2
<1>4. ASSUME NEW n \in S
      PROVE  n <= b - k
  <2>1. n \in Nat /\ k <= b - n
    BY <1>1, <1>2
  <2> QED
    BY <1>3, <2>1
<1> QED
  BY <1>3, <1>4

\* MaxOf is the greatest number of a bounded set.
LEMMA MaxOfSet ==
    ASSUME NEW b \in Nat, NEW S \in SUBSET (0 .. b), S # {}
    PROVE  MaxOf(S) \in S /\ \A n \in S : n <= MaxOf(S)
<1>1. \E m \in S : \A n \in S : n <= m
  BY GreatestNumber, Zenon
<1> QED
  BY <1>1, Zenon DEF MaxOf

\* A gap of one window is asked for in one call, which covers it.
LEMMA OneRange ==
    ASSUME NEW prev \in Nat, NEW curr \in Nat, prev <= curr, curr - prev <= Window
    PROVE  UNION Ranges(prev, curr) = prev .. curr
<1> DEFINE rounded == (curr - prev + Window \div 2) \div Window
           num_iter == IF rounded = 0 THEN 1 ELSE rounded
           end(k) == IF prev + k * Window < curr THEN prev + k * Window ELSE curr
<1>1. Window \in Nat \ {0} /\ Window \div 2 \in Nat /\ Window \div 2 < Window
  BY BoundsAssumption
<1>2. rounded \in {0, 1}
  BY <1>1
<1>3. num_iter = 1
  BY <1>2
<1>4. end(0) = prev /\ end(1) = curr
  BY <1>1
<1>5. Ranges(prev, curr) = {end(k - 1) .. end(k) : k \in 1 .. num_iter}
  BY DEF Ranges
<1> HIDE DEF rounded, num_iter, end
<1>6. Ranges(prev, curr) = {prev .. curr}
  BY <1>3, <1>4, <1>5
<1> QED
  BY <1>6
\* The slots of the calls are numbers.
LEMMA RangesAreSlots ==
    ASSUME NEW prev \in Nat, NEW curr \in Nat
    PROVE  UNION Ranges(prev, curr) \subseteq Nat
<1> DEFINE rounded == (curr - prev + Window \div 2) \div Window
           num_iter == IF rounded = 0 THEN 1 ELSE rounded
           end(k) == IF prev + k * Window < curr THEN prev + k * Window ELSE curr
<1>1. Ranges(prev, curr) = {end(k - 1) .. end(k) : k \in 1 .. num_iter}
  BY DEF Ranges
<1>2. ASSUME NEW k \in 1 .. num_iter
      PROVE  end(k - 1) \in Nat
  <2>1. k - 1 \in Nat
    OBVIOUS
  <2>2. (k - 1) * Window \in Nat
    BY <2>1, BoundsAssumption
  <2> QED
    BY <2>2
<1> HIDE DEF end, num_iter
<1>3. \A k \in 1 .. num_iter : end(k - 1) .. end(k) \subseteq Nat
  BY <1>2
<1> QED
  BY <1>1, <1>3

-----------------------------------------------------------------------------
(* The rows of the table.                                                  *)

RowType(n) == [seq : 0 .. n, copy : 1 .. MaxRows, force_chk : BOOLEAN,
               backfilled : BOOLEAN, failed : BOOLEAN, locked : BOOLEAN]

\* A table that a step may leave, with at most `count` rows.
Table(rows, n, count) ==
    /\ rows \subseteq RowType(n)
    /\ \A r, q \in rows : Key(r) = Key(q) => r = q
    /\ IsFiniteSet(rows) /\ Cardinality(rows) <= count

\* The table is one in the sense of the type lemmas below.
LEMMA TableNow ==
    ASSUME TypeInv
    PROVE  /\ Table(backfill_items, length, Cardinality(backfill_items))
           /\ Cardinality(backfill_items) \in Nat /\ length \in Nat
<1>1. length \in Nat
  BY BoundsAssumption DEF TypeInv, TypeOK
<1>2. IsFiniteSet(backfill_items)
  BY DEF TypeInv, RowsFit
<1>3. Cardinality(backfill_items) \in Nat
  BY <1>2, FS_CardinalityType
<1> QED
  BY <1>1, <1>2, <1>3 DEF TypeInv, TypeOK, Table, RowType

\* DELETE
LEMMA FewerRows ==
    ASSUME NEW n, NEW count \in Nat, NEW rows, Table(rows, n, count), NEW fewer \in SUBSET rows
    PROVE  Table(fewer, n, count)
<1>1. IsFiniteSet(fewer) /\ Cardinality(fewer) <= Cardinality(rows)
  BY FS_Subset DEF Table
<1>2. Cardinality(fewer) \in Nat /\ Cardinality(rows) \in Nat
  BY <1>1, FS_CardinalityType DEF Table
<1>3. Cardinality(fewer) <= count
  BY <1>1, <1>2 DEF Table
<1> QED
  BY <1>1, <1>3 DEF Table

\* UPDATE
LEMMA ChangedRows ==
    ASSUME NEW n, NEW count \in Nat, NEW rows, Table(rows, n, count), NEW f \in [rows -> RowType(n)],
           \A r \in rows : Key(f[r]) = Key(r)
    PROVE  Table({f[r] : r \in rows}, n, count)
<1> DEFINE new == {f[r] : r \in rows}
<1>1. new \subseteq RowType(n)
  OBVIOUS
<1>2. \A r, q \in new : Key(r) = Key(q) => r = q
  <2>1. ASSUME NEW r \in rows, NEW q \in rows, Key(f[r]) = Key(f[q])
        PROVE  f[r] = f[q]
    BY <2>1, Zenon DEF Table
  <2>2. ASSUME NEW r \in new, NEW q \in new, Key(r) = Key(q)
        PROVE  r = q
    <3>1. PICK a \in rows : r = f[a]
      BY Zenon
    <3>2. PICK b \in rows : q = f[b]
      BY Zenon
    <3> QED
      BY <2>1, <2>2, <3>1, <3>2, Zenon
  <2> QED
    BY <2>2, Zenon
<1>3. f \in Surjection(rows, new)
  BY DEF Surjection
<1>4. IsFiniteSet(new) /\ Cardinality(new) <= Cardinality(rows)
  BY <1>3, FS_Surjection DEF Table
<1>5. Cardinality(new) \in Nat /\ Cardinality(rows) \in Nat
  BY <1>4, FS_CardinalityType DEF Table
<1>6. Cardinality(new) <= count
  BY <1>4, <1>5 DEF Table
<1> HIDE DEF new
<1>7. Table(new, n, count)
  BY <1>1, <1>2, <1>4, <1>6 DEF Table
<1> QED
  BY <1>7 DEF new

\* INSERT: while there is room there is a copy number left.
LEMMA NewRow ==
    ASSUME TypeInv, Cardinality(backfill_items) < MaxRows,
           NEW q \in 0 .. length, NEW flag \in BOOLEAN
    PROVE  /\ Row(q, flag) \in RowType(length)
           /\ Row(q, flag).seq = q /\ Row(q, flag).force_chk = flag
           /\ ~Row(q, flag).backfilled /\ ~Row(q, flag).failed /\ ~Row(q, flag).locked
           /\ Table(backfill_items \cup {Row(q, flag)}, length, Cardinality(backfill_items) + 1)
<1> DEFINE same == {r \in backfill_items : r.seq = q}
           copies == {r.copy : r \in same}
           free(i) == i \notin copies /\ 1 .. i - 1 \subseteq copies
           new == Row(q, flag)
<1>0. /\ Table(backfill_items, length, Cardinality(backfill_items))
      /\ Cardinality(backfill_items) \in Nat /\ length \in Nat /\ MaxRows \in Nat
  BY TableNow, BoundsAssumption
<1>1. IsFiniteSet(copies) /\ Cardinality(copies) < MaxRows
  <2> DEFINE f == [r \in same |-> r.copy]
  <2>1. IsFiniteSet(same) /\ Cardinality(same) <= Cardinality(backfill_items)
    BY <1>0, FS_Subset DEF Table
  <2>2. f \in Surjection(same, copies)
    BY DEF Surjection
  <2>3. IsFiniteSet(copies) /\ Cardinality(copies) <= Cardinality(same)
    BY <2>1, <2>2, FS_Surjection
  <2>4. Cardinality(copies) \in Nat /\ Cardinality(same) \in Nat
    BY <2>1, <2>3, FS_CardinalityType
  <2> HIDE DEF copies, same
  <2> QED
    BY <1>0, <2>1, <2>3, <2>4
<1>2. (1 .. MaxRows) \ copies # {}
  <2> SUFFICES ASSUME 1 .. MaxRows \subseteq copies PROVE FALSE
    OBVIOUS
  <2>1. Cardinality(1 .. MaxRows) = MaxRows
    BY <1>0, FS_Interval
  <2>2. Cardinality(1 .. MaxRows) <= Cardinality(copies)
    BY <1>1, FS_Subset, Zenon
  <2>3. Cardinality(copies) \in Nat
    BY <1>1, FS_CardinalityType
  <2> HIDE DEF copies
  <2> QED
    BY <1>0, <1>1, <2>1, <2>2, <2>3
<1>3. \E i \in 1 .. MaxRows : free(i)
  <2>1. PICK i \in (1 .. MaxRows) \ copies : \A j \in (1 .. MaxRows) \ copies : i <= j
    <3>1. (1 .. MaxRows) \ copies \in SUBSET Nat
      OBVIOUS
    <3> HIDE DEF copies
    <3> QED
      BY <1>2, <3>1, LeastNumber, Zenon
  <2>2. ASSUME NEW j \in 1 .. i - 1
        PROVE  j \in copies
    <3> HIDE DEF copies
    <3> QED
      BY <1>0, <2>1
  <2> QED
    BY <2>1, <2>2
<1>4. new.copy = CHOOSE i \in 1 .. MaxRows : free(i)
  BY DEF Row
<1>5. new.copy \in 1 .. MaxRows /\ new.copy \notin copies
  <2> HIDE DEF new, copies
  <2> QED
    BY <1>3, <1>4
<1>6. /\ new = [seq |-> q, copy |-> new.copy, force_chk |-> flag, backfilled |-> FALSE,
                failed |-> FALSE, locked |-> FALSE]
  BY DEF Row
<1>7. /\ new.seq = q /\ new.force_chk = flag /\ ~new.backfilled /\ ~new.failed /\ ~new.locked
  BY DEF Row
<1>8. new \in RowType(length)
  <2> HIDE DEF new
  <2>1. \A c \in 1 .. MaxRows :
           [seq |-> q, copy |-> c, force_chk |-> flag, backfilled |-> FALSE,
            failed |-> FALSE, locked |-> FALSE] \in RowType(length)
    BY DEF RowType
  <2> QED
    BY <1>5, <1>6, <2>1, Zenon
<1>9. Table(backfill_items \cup {new}, length, Cardinality(backfill_items) + 1)
  <2> HIDE DEF new
  <2>1. \A r \in backfill_items : Key(r) # Key(new)
    BY <1>5, <1>7 DEF Key
  <2>2. /\ IsFiniteSet(backfill_items \cup {new})
        /\ Cardinality(backfill_items \cup {new}) <= Cardinality(backfill_items) + 1
    <3>1. IsFiniteSet(backfill_items)
      BY <1>0 DEF Table
    <3>2. /\ IsFiniteSet(backfill_items \cup {new})
          /\ Cardinality(backfill_items \cup {new}) =
                IF new \in backfill_items THEN Cardinality(backfill_items)
                ELSE Cardinality(backfill_items) + 1
      BY <3>1, FS_AddElement, Zenon
    <3> QED
      BY <1>0, <3>2
  <2> QED
    BY <1>0, <1>8, <2>1, <2>2 DEF Table
<1> QED
  BY <1>7, <1>8, <1>9
-----------------------------------------------------------------------------
(* Types.                                                                  *)

Pcs == {"idle", "multi_row", "fill", "plug"} \cup Cleanup

FillerType(n) ==
    [pc : Pcs, trees : Seq(BOOLEAN), mine : SUBSET (Nat \X Nat), tries : 0 .. NumTries,
     max_seq : 0 .. n, gaps : SUBSET (Nat \X Nat), slots : SUBSET Nat]

WorkType(n) == [pc : {"idle", "find", "insert"}, seq : 0 .. n, force_chk : BOOLEAN]

\* What a step of the filler leaves of it.
FillerOK(f) == f \in FillerType(length) /\ (f.pc \notin {"idle", "multi_row"} => f.trees # << >>)

\* The parts of the type invariant that most steps need.
LEMMA Now ==
    ASSUME TypeInv
    PROVE  /\ FillerOK(filler) /\ work \in [Workers -> WorkType(length)]
           /\ length \in Nat /\ length \in 0 .. MaxSeq /\ errors \in 0 .. MaxErrors
BY BoundsAssumption DEF TypeInv, TypeOK, TreeAtHand, FillerOK, FillerType, WorkType, Pcs

\* A filler at rest is well typed.
LEMMA RestingOK == length \in Nat => FillerOK(Resting)
<1>1. << >> \in Seq(BOOLEAN) /\ 0 \in 0 .. NumTries
  BY BoundsAssumption
<1> QED
  BY <1>1 DEF FillerOK, FillerType, Resting, Pcs

\* The trees after the first.
LEMMA TailOfTrees ==
    ASSUME NEW S, NEW t \in Seq(S), t # << >>
    PROVE  Tail(t) \in Seq(S) /\ Len(Tail(t)) = Len(t) - 1 /\ (Len(t) # 1 => Tail(t) # << >>)
<1>1. Len(t) \in Nat \ {0} /\ Tail(t) \in Seq(S) /\ Len(Tail(t)) = Len(t) - 1
  OBVIOUS
<1>2. \A u \in Seq(S) : u = << >> => Len(u) = 0
  OBVIOUS
<1>3. Tail(t) = << >> => Len(Tail(t)) = 0
  BY <1>1, <1>2, Zenon
<1>4. Len(t) # 1 => Len(Tail(t)) # 0
  BY <1>1
<1> QED
  BY <1>1, <1>3, <1>4, Zenon

\* Trees of one kind, as the SELECTs find them.
LEMMA SameTrees ==
    ASSUME NEW S, NEW x \in S, NEW k \in Nat
    PROVE  [n \in 1 .. k |-> x] \in Seq(S)
OBVIOUS

\* The trees of both SELECTs.
LEMMA TreesJoined ==
    ASSUME NEW S, NEW t \in Seq(S), NEW u \in Seq(S)
    PROVE  t \o u \in Seq(S)
OBVIOUS

\* The SELECT DISTINCT of the flagged rows.
LEMMA FlaggedSlots ==
    ASSUME TypeInv
    PROVE  IsFiniteSet({SlotOf[r.seq] :
                           r \in {q \in backfill_items : ~q.failed /\ ~q.locked /\ q.force_chk}})
<1> DEFINE flagged == {q \in backfill_items : ~q.failed /\ ~q.locked /\ q.force_chk}
           slots == {SlotOf[r.seq] : r \in flagged}
           f == [r \in flagged |-> SlotOf[r.seq]]
<1>1. IsFiniteSet(flagged)
  BY TableNow, FS_Subset DEF Table
<1>2. f \in Surjection(flagged, slots)
  BY DEF Surjection
<1> QED
  BY <1>1, <1>2, FS_Surjection

\* The filler goes on with the next tree or rests.
LEMMA NextTreeOK ==
    ASSUME TypeInv, filler.trees # << >>
    PROVE  FillerOK(NextTree) /\ NextTree.pc \in {"idle", "fill"}
<1>1. filler.trees \in Seq(BOOLEAN) /\ length \in Nat
  BY Now DEF FillerOK, FillerType
<1>2. CASE Len(filler.trees) = 1
  BY <1>1, <1>2, RestingOK DEF NextTree, Resting
<1>3. CASE Len(filler.trees) # 1
  <2>1. Tail(filler.trees) \in Seq(BOOLEAN) /\ Tail(filler.trees) # << >>
    BY <1>1, <1>3, TailOfTrees, Zenon
  <2>2. 1 \in 0 .. NumTries
    BY BoundsAssumption
  <2>3. NextTree = [pc |-> "fill", trees |-> Tail(filler.trees), mine |-> {}, tries |-> 1,
                    max_seq |-> 0, gaps |-> {}, slots |-> {}]
    BY <1>3, Zenon DEF NextTree, Resting
  <2> QED
    BY <1>1, <2>1, <2>2, <2>3 DEF FillerOK, FillerType, Pcs
<1> QED
  BY <1>2, <1>3

\* The parts of the filler that a step may change.
LEMMA FillerMoves ==
    ASSUME TypeInv, NEW pc \in Pcs, filler.trees # << >> \/ pc \in {"idle", "multi_row"}
    PROVE  /\ FillerOK([filler EXCEPT !.pc = pc])
           /\ \A m \in 0 .. length, gaps \in SUBSET (Nat \X Nat) :
                 FillerOK([filler EXCEPT !.pc = pc, !.max_seq = m, !.gaps = gaps])
           /\ \A tries \in 0 .. NumTries :
                 FillerOK([filler EXCEPT !.pc = pc, !.gaps = {}, !.slots = {}, !.tries = tries])
<1>1. filler \in FillerType(length)
  BY Now DEF FillerOK
<1>2. PICK t \in Seq(BOOLEAN), mine \in SUBSET (Nat \X Nat), n \in 0 .. NumTries, m \in 0 .. length,
           g \in SUBSET (Nat \X Nat), slots \in SUBSET Nat, p \in Pcs :
         filler = [pc |-> p, trees |-> t, mine |-> mine, tries |-> n, max_seq |-> m, gaps |-> g,
                   slots |-> slots]
  BY <1>1 DEF FillerType
<1> QED
  BY <1>2, Zenon DEF FillerOK, FillerType

\* plug_gap changes gaps and slots only.
LEMMA FillerPlugs ==
    ASSUME TypeInv, filler.trees # << >>, NEW gaps \in SUBSET (Nat \X Nat), NEW slots \in SUBSET Nat
    PROVE  FillerOK([filler EXCEPT !.gaps = gaps, !.slots = slots])
<1>1. filler \in FillerType(length)
  BY Now DEF FillerOK
<1> QED
  BY <1>1, Zenon DEF FillerOK, FillerType
\* The four updates of columns.
LEMMA Updates ==
    ASSUME TypeInv, NEW b \in BOOLEAN, NEW keys
    PROVE  LET n == Cardinality(backfill_items)
           IN  /\ Table({[r EXCEPT !.locked = @ \/ b \/ Key(r) \in keys] : r \in backfill_items}, length, n)
               /\ Table({[r EXCEPT !.locked = FALSE] : r \in backfill_items}, length, n)
               /\ Table({[r EXCEPT !.failed = @ \/ b] : r \in backfill_items}, length, n)
               /\ Table({[r EXCEPT !.backfilled = TRUE] : r \in backfill_items}, length, n)
               /\ Table({[r EXCEPT !.force_chk = FALSE] : r \in backfill_items}, length, n)
<1> DEFINE n == Cardinality(backfill_items)
           f1 == [r \in backfill_items |-> [r EXCEPT !.locked = @ \/ b \/ Key(r) \in keys]]
           f2 == [r \in backfill_items |-> [r EXCEPT !.locked = FALSE]]
           f3 == [r \in backfill_items |-> [r EXCEPT !.failed = @ \/ b]]
           f4 == [r \in backfill_items |-> [r EXCEPT !.backfilled = TRUE]]
           f5 == [r \in backfill_items |-> [r EXCEPT !.force_chk = FALSE]]
<1>1. Table(backfill_items, length, n) /\ n \in Nat
  BY TableNow
<1>2. ASSUME NEW r \in RowType(length), NEW v \in BOOLEAN
      PROVE  /\ [r EXCEPT !.locked = v] \in RowType(length) /\ Key([r EXCEPT !.locked = v]) = Key(r)
             /\ [r EXCEPT !.failed = v] \in RowType(length) /\ Key([r EXCEPT !.failed = v]) = Key(r)
             /\ [r EXCEPT !.backfilled = v] \in RowType(length)
             /\ Key([r EXCEPT !.backfilled = v]) = Key(r)
             /\ [r EXCEPT !.force_chk = v] \in RowType(length)
             /\ Key([r EXCEPT !.force_chk = v]) = Key(r)
  BY DEF RowType, Key
<1>3. backfill_items \subseteq RowType(length)
  BY <1>1 DEF Table
<1>4. \A r : (r.locked \/ b \/ Key(r) \in keys) \in BOOLEAN /\ (r.failed \/ b) \in BOOLEAN
  BY Zenon
<1>5. Table({f1[r] : r \in backfill_items}, length, n)
  <2>1. f1 \in [backfill_items -> RowType(length)] /\ \A r \in backfill_items : Key(f1[r]) = Key(r)
    BY <1>2, <1>3, <1>4, Zenon
  <2> HIDE DEF f1, n
  <2> QED
    BY <1>1, <2>1, ChangedRows
<1>6. Table({f2[r] : r \in backfill_items}, length, n)
  <2>1. f2 \in [backfill_items -> RowType(length)] /\ \A r \in backfill_items : Key(f2[r]) = Key(r)
    BY <1>2, <1>3, Zenon
  <2> HIDE DEF f2, n
  <2> QED
    BY <1>1, <2>1, ChangedRows
<1>7. Table({f3[r] : r \in backfill_items}, length, n)
  <2>1. f3 \in [backfill_items -> RowType(length)] /\ \A r \in backfill_items : Key(f3[r]) = Key(r)
    BY <1>2, <1>3, <1>4, Zenon
  <2> HIDE DEF f3, n
  <2> QED
    BY <1>1, <2>1, ChangedRows
<1>8. Table({f4[r] : r \in backfill_items}, length, n)
  <2>1. f4 \in [backfill_items -> RowType(length)] /\ \A r \in backfill_items : Key(f4[r]) = Key(r)
    BY <1>2, <1>3, Zenon
  <2> HIDE DEF f4, n
  <2> QED
    BY <1>1, <2>1, ChangedRows
<1>9. Table({f5[r] : r \in backfill_items}, length, n)
  <2>1. f5 \in [backfill_items -> RowType(length)] /\ \A r \in backfill_items : Key(f5[r]) = Key(r)
    BY <1>2, <1>3, Zenon
  <2> HIDE DEF f5, n
  <2> QED
    BY <1>1, <2>1, ChangedRows
<1>10. /\ {f1[r] : r \in backfill_items} =
             {[r EXCEPT !.locked = @ \/ b \/ Key(r) \in keys] : r \in backfill_items}
       /\ {f2[r] : r \in backfill_items} = {[r EXCEPT !.locked = FALSE] : r \in backfill_items}
       /\ {f3[r] : r \in backfill_items} = {[r EXCEPT !.failed = @ \/ b] : r \in backfill_items}
       /\ {f4[r] : r \in backfill_items} = {[r EXCEPT !.backfilled = TRUE] : r \in backfill_items}
       /\ {f5[r] : r \in backfill_items} = {[r EXCEPT !.force_chk = FALSE] : r \in backfill_items}
  BY Zenon
<1> HIDE DEF f1, f2, f3, f4, f5
<1> QED
  BY <1>5, <1>6, <1>7, <1>8, <1>9, <1>10, Zenon
\* start_seq, and the candidates for the highest number, are numbers of changes.
LEMMA StartSeq ==
    ASSUME TypeInv
    PROVE  /\ start_seq \in 0 .. length /\ Candidates \subseteq 0 .. length
           /\ Candidates # {} => MaxOf(Candidates) \in Candidates
           /\ \A s \in Candidates : s <= MaxOf(Candidates)
           /\ \A r \in backfill_items : r.backfilled => r.seq <= start_seq
           /\ start_seq = 0 \/ \E r \in backfill_items : r.seq = start_seq
<1> DEFINE done == {r.seq : r \in {q \in backfill_items : q.backfilled}}
<1>1. length \in Nat /\ \A r \in backfill_items : r.seq \in 0 .. length
  BY Now DEF TypeInv, TypeOK
<1>2. done \in SUBSET (0 .. length)
  BY <1>1
<1>3. start_seq = IF done = {} THEN 0 ELSE MaxOf(done)
  BY DEF start_seq
<1>4. done # {} => MaxOf(done) \in done /\ \A n \in done : n <= MaxOf(done)
  <2> HIDE DEF done
  <2> QED
    BY <1>1, <1>2, MaxOfSet
<1>5. start_seq \in 0 .. length
  <2> HIDE DEF done
  <2> QED
    BY <1>1, <1>2, <1>3, <1>4
<1>6. \A r \in backfill_items : r.backfilled => r.seq <= start_seq
  <2>1. \A r \in backfill_items : r.backfilled => r.seq \in done
    BY Zenon
  <2> HIDE DEF done
  <2> QED
    BY <1>3, <1>4, <2>1
<1>7. start_seq = 0 \/ \E r \in backfill_items : r.seq = start_seq
  <2>1. \A n \in done : \E r \in backfill_items : r.seq = n
    BY Zenon
  <2> HIDE DEF done
  <2> QED
    BY <1>3, <1>4, <2>1
<1>8. Candidates \in SUBSET (0 .. length)
  BY <1>1 DEF Candidates
<1>9. Candidates # {} => MaxOf(Candidates) \in Candidates /\ \A s \in Candidates : s <= MaxOf(Candidates)
  BY <1>1, <1>8, MaxOfSet, Zenon
<1> QED
  BY <1>5, <1>6, <1>7, <1>8, <1>9, Zenon

\* mark_tree_as_failed leaves a table, and is a mishap.
LEMMA GivenUp ==
    ASSUME TypeInv, NEW before \in 0 .. 1, mark_tree_as_failed(before)
    PROVE  /\ Table(backfill_items', length, Cardinality(backfill_items))
           /\ errors' \in 0 .. MaxErrors /\ mishap' = TRUE
<1>1. PICK lost \in 0 .. 1 :
         /\ errors + before + lost <= MaxErrors /\ errors' = errors + before + lost
         /\ Happens({"failed"})
         /\ backfill_items' = {[r EXCEPT !.failed = @ \/ lost = 0] : r \in backfill_items}
  BY DEF mark_tree_as_failed
<1>2. errors' \in 0 .. MaxErrors
  BY <1>1, Now, BoundsAssumption
<1>3. mishap' = TRUE
  BY <1>1, Zenon DEF Happens
<1>4. (lost = 0) \in BOOLEAN
  OBVIOUS
<1>5. Table(backfill_items', length, Cardinality(backfill_items))
  BY <1>1, <1>4, Updates, Zenon
<1> QED
  BY <1>2, <1>3, <1>5

\* Errors stay in their bound.
LEMMA TroubleType ==
    ASSUME TypeInv, Trouble \/ UNCHANGED errors
    PROVE  errors' \in 0 .. MaxErrors
BY Now, BoundsAssumption DEF Trouble

\* A mishap is never forgotten.
LEMMA HappensType ==
    ASSUME TypeInv, NEW events, Happens(events) \/ UNCHANGED mishap
    PROVE  mishap' \in BOOLEAN /\ (mishap => mishap') /\ (events # {} /\ Happens(events) => mishap')
<1>1. mishap \in BOOLEAN
  BY DEF TypeInv, TypeOK
<1>2. CASE UNCHANGED mishap /\ ~Happens(events)
  BY <1>1, <1>2, Zenon
<1>3. CASE Happens(events)
  <2>1. mishap' = (mishap \/ events # {})
    BY <1>3 DEF Happens
  <2>2. (mishap \/ events # {}) \in BOOLEAN
    BY Zenon
  <2> QED
    BY <2>1, <2>2, Zenon
<1> QED
  BY <1>2, <1>3

FillerTypes ==
    /\ UNCHANGED <<length, stored, work, finder>> /\ stream' \subseteq 1 .. length
    /\ Table(backfill_items', length, Cardinality(backfill_items))
    /\ FillerOK(filler')
    /\ errors' \in 0 .. MaxErrors /\ mishap' \in BOOLEAN

\* The steps of get_trees_to_backfill keep the types.
LEMMA SelectTypes ==
    ASSUME TypeInv, SelectForced \/ SelectMultiRow \/ SelectFails
    PROVE  FillerTypes
<1>1. /\ FillerOK(filler) /\ filler \in FillerType(length) /\ length \in Nat /\ stream \subseteq 1 .. length
      /\ mishap \in BOOLEAN /\ errors \in 0 .. MaxErrors
      /\ Table(backfill_items, length, Cardinality(backfill_items))
  BY Now, TableNow, Zenon DEF TypeInv, TypeOK, FillerOK
<1>2. CASE SelectForced
  <2> DEFINE slots == {SlotOf[r.seq] : r \in {q \in Available(backfill_items) : q.force_chk}}
             trees == [n \in 1 .. Cardinality(slots) |-> TRUE]
             mine == IF slots = {} THEN {} ELSE {Key(r) : r \in backfill_items}
  <2>1. filler' = [filler EXCEPT !.pc = "multi_row", !.trees = trees, !.mine = mine]
    BY <1>2 DEF SelectForced
  <2>2. mine \in SUBSET (Nat \X Nat)
    BY <1>1 DEF Table, RowType, Key
  <2>3. trees \in Seq(BOOLEAN)
    <3>1. slots = {SlotOf[r.seq] : r \in {q \in backfill_items : ~q.failed /\ ~q.locked /\ q.force_chk}}
      BY DEF Available
    <3>2. IsFiniteSet(slots)
      BY FlaggedSlots, <3>1
    <3>3. Cardinality(slots) \in Nat
      BY <3>2, FS_CardinalityType
    <3> HIDE DEF slots
    <3> QED
      BY <3>3, SameTrees, Zenon
  <2> HIDE DEF trees, mine
  <2>4. FillerOK(filler')
    BY <1>1, <2>1, <2>2, <2>3, Zenon DEF FillerOK, FillerType, Pcs
  <2> QED
    BY <1>1, <1>2, <2>4 DEF SelectForced, tree, FillerTypes
<1>3. CASE SelectMultiRow
  <2> DEFINE free == {r \in Available(backfill_items) : Key(r) \notin filler.mine}
             several == Cardinality(free) > 1
             trees == filler.trees \o (IF several THEN <<FALSE>> ELSE << >>)
             pc == IF trees = << >> THEN "idle" ELSE "fill"
  <2>1. /\ filler' = [filler EXCEPT !.trees = trees, !.mine = {}, !.tries = 1, !.pc = pc]
        /\ backfill_items' =
              {[r EXCEPT !.locked = @ \/ several \/ Key(r) \in filler.mine] : r \in backfill_items}
    BY <1>3 DEF SelectMultiRow
  <2>2. several \in BOOLEAN
    OBVIOUS
  <2>3. trees \in Seq(BOOLEAN)
    <3>1. filler.trees \in Seq(BOOLEAN)
      BY <1>1 DEF FillerType
    <3>2. <<FALSE>> \in Seq(BOOLEAN) /\ << >> \in Seq(BOOLEAN)
      OBVIOUS
    <3>3. (IF several THEN <<FALSE>> ELSE << >>) \in Seq(BOOLEAN)
      BY <3>2, Zenon
    <3> QED
      BY <3>1, <3>3, TreesJoined
  <2>4. 1 \in 0 .. NumTries
    BY BoundsAssumption
  <2>5. pc \in Pcs /\ (pc \notin {"idle", "multi_row"} => trees # << >>)
    BY DEF Pcs
  <2>6. Table(backfill_items', length, Cardinality(backfill_items))
    BY <2>1, <2>2, Updates, Zenon
  <2> HIDE DEF pc, trees
  <2>7. FillerOK(filler')
    BY <1>1, <2>1, <2>3, <2>4, <2>5, Zenon DEF FillerOK, FillerType
  <2> QED
    BY <1>1, <1>3, <2>6, <2>7 DEF SelectMultiRow, tree, FillerTypes
<1>4. CASE SelectFails
  BY <1>1, <1>4, RestingOK, TroubleType DEF SelectFails, tree, FillerTypes
<1> QED
  BY <1>2, <1>3, <1>4
\* Slots of changes are numbers.
LEMMA SlotPairs ==
    ASSUME NEW n \in 0 .. MaxSeq
    PROVE  \A s \in 0 .. n : SlotOf[s] \in Nat
BY BoundsAssumption

\* The steps that look for gaps and plug them keep the types.
LEMMA PlugTypes ==
    ASSUME TypeInv, \/ backfill_tree_from_seq_1 \/ get_missing_data \/ get_blocks \/ plug_gap
                    \/ Plugged \/ NoRows \/ TryFails
    PROVE  FillerTypes
<1>1. /\ FillerOK(filler) /\ filler \in FillerType(length) /\ length \in Nat /\ stream \subseteq 1 .. length
      /\ mishap \in BOOLEAN /\ errors \in 0 .. MaxErrors /\ length \in 0 .. MaxSeq
      /\ Table(backfill_items, length, Cardinality(backfill_items))
  BY Now, TableNow, Zenon DEF TypeInv, TypeOK, FillerOK
<1>2. filler.pc \in {"fill", "plug"} => filler.trees # << >>
  BY <1>1 DEF FillerOK
<1>3. "plug" \in Pcs /\ "fill" \in Pcs /\ "delete" \in Pcs
  BY DEF Pcs, Cleanup
<1>4. CASE backfill_tree_from_seq_1
  <2> DEFINE gaps == {<<SlotOf[s], SlotOf[s]>> : s \in 1 .. length}
  <2>1. filler' = [filler EXCEPT !.pc = "plug", !.max_seq = 0, !.gaps = gaps] /\ filler.pc = "fill"
    BY <1>4, Zenon DEF backfill_tree_from_seq_1
  <2>2. gaps \in SUBSET (Nat \X Nat)
    BY <1>1, SlotPairs
  <2> HIDE DEF gaps
  <2>3. FillerOK(filler')
    <3>1. 0 \in 0 .. length /\ filler.trees # << >>
      BY <1>1, <1>2, <2>1
    <3> QED
      BY <1>3, <2>1, <2>2, <3>1, FillerMoves, Zenon
  <2> QED
    BY <1>1, <1>4, <2>3, Zenon DEF backfill_tree_from_seq_1, tree, FillerTypes
<1>5. CASE get_missing_data
  <2> DEFINE gaps == {<<SlotOf[g[1]], SlotOf[g[2]]>> : g \in Gaps}
  <2>1. /\ filler' = [filler EXCEPT !.pc = "plug", !.max_seq = MaxOf(Candidates), !.gaps = gaps]
        /\ filler.pc = "fill" /\ Candidates # {}
    BY <1>5, Zenon DEF get_missing_data
  <2>2. \A g \in Gaps : g[1] \in 0 .. length /\ g[2] \in 0 .. length
    BY StartSeq DEF Gaps
  <2>3. gaps \in SUBSET (Nat \X Nat)
    BY <1>1, <2>2, SlotPairs
  <2>4. MaxOf(Candidates) \in 0 .. length
    BY <2>1, StartSeq
  <2> HIDE DEF gaps
  <2>5. FillerOK(filler')
    BY <1>1, <1>2, <1>3, <2>1, <2>3, <2>4, FillerMoves, Zenon
  <2> QED
    BY <1>1, <1>5, <2>5, Zenon DEF get_missing_data, tree, FillerTypes
<1>6. CASE get_blocks
  <2>0. PICK gap \in filler.gaps : \E answered \in SUBSET Ranges(gap[1], gap[2]) :
           /\ Happens(IF answered = Ranges(gap[1], gap[2]) THEN {} ELSE {"blocks"})
           /\ filler' = [filler EXCEPT !.gaps = @ \ {gap}, !.slots = UNION answered]
    BY <1>6, Zenon DEF get_blocks
  <2>1. PICK answered \in SUBSET Ranges(gap[1], gap[2]) :
           /\ Happens(IF answered = Ranges(gap[1], gap[2]) THEN {} ELSE {"blocks"})
           /\ filler' = [filler EXCEPT !.gaps = @ \ {gap}, !.slots = UNION answered]
    BY <2>0, Zenon
  <2>2. filler.gaps \in SUBSET (Nat \X Nat) /\ filler.trees # << >>
    BY <1>1, <1>2, <1>6, Zenon DEF FillerType, get_blocks
  <2>3. UNION Ranges(gap[1], gap[2]) \subseteq Nat
    BY <2>2, RangesAreSlots
  <2>4. UNION answered \in SUBSET Nat
    BY <2>3
  <2>5. FillerOK([filler EXCEPT !.gaps = filler.gaps \ {gap}, !.slots = UNION answered])
    BY <2>2, <2>4, FillerPlugs, Zenon
  <2>6. mishap' \in BOOLEAN
    BY <2>1, HappensType
  <2> QED
    BY <1>1, <1>6, <2>1, <2>5, <2>6, Zenon DEF get_blocks, tree, FillerTypes
<1>7. CASE plug_gap
  <2>1. PICK slot \in filler.slots :
           /\ filler' = [filler EXCEPT !.slots = @ \ {slot}]
           /\ stream' = stream \cup {s \in 1 .. length : SlotOf[s] = slot}
    BY <1>7, Zenon DEF plug_gap
  <2>2. /\ filler.slots \ {slot} \in SUBSET Nat /\ filler.gaps \in SUBSET (Nat \X Nat)
        /\ filler.trees # << >>
    BY <1>1, <1>2, <1>7 DEF FillerType, plug_gap
  <2>3. filler' \in FillerType(length) /\ filler'.pc = filler.pc /\ filler'.trees = filler.trees
    BY <1>1, <2>1, <2>2, Zenon DEF FillerType
  <2>4. FillerOK(filler')
    BY <2>2, <2>3 DEF FillerOK
  <2>5. stream' \subseteq 1 .. length
    BY <1>1, <2>1
  <2> QED
    BY <1>1, <1>7, <2>4, <2>5 DEF plug_gap, FillerTypes
<1>8. CASE Plugged
  <2>1. filler' = [filler EXCEPT !.pc = "delete"] /\ filler.trees # << >>
    BY <1>2, <1>8 DEF Plugged
  <2>2. FillerOK(filler')
    BY <1>3, <2>1, FillerMoves, Zenon
  <2>3. mishap' \in BOOLEAN
    BY <1>8, HappensType DEF Plugged
  <2> QED
    BY <1>1, <1>8, <2>2, <2>3 DEF Plugged, tree, FillerTypes
<1>9. CASE NoRows
  <2>1. mark_tree_as_failed(0) /\ filler' = NextTree /\ filler.trees # << >>
    BY <1>2, <1>9, Zenon DEF NoRows
  <2>2. /\ Table(backfill_items', length, Cardinality(backfill_items))
        /\ errors' \in 0 .. MaxErrors /\ mishap' = TRUE
    BY <2>1, GivenUp
  <2> QED
    BY <1>1, <1>9, <2>1, <2>2, NextTreeOK, Zenon DEF NoRows, tree, FillerTypes
<1>10. CASE TryFails
  <2>1. filler.trees # << >>
    BY <1>2, <1>10 DEF TryFails
  <2>2. CASE /\ filler.tries < NumTries /\ Trouble /\ UNCHANGED <<backfill_items, mishap>>
             /\ filler' = [filler EXCEPT !.pc = "fill", !.gaps = {}, !.slots = {}, !.tries = @ + 1]
    <3>1. filler.tries + 1 \in 0 .. NumTries
      BY <1>1, <2>2, BoundsAssumption DEF FillerType
    <3>2. filler' = [filler EXCEPT !.pc = "fill", !.gaps = {}, !.slots = {}, !.tries = filler.tries + 1]
      BY <2>2
    <3>3. FillerOK(filler')
      BY <1>3, <2>1, <3>1, <3>2, FillerMoves, Zenon
    <3>4. errors' \in 0 .. MaxErrors
      BY <2>2, TroubleType
    <3> QED
      BY <1>1, <1>10, <2>2, <3>3, <3>4 DEF TryFails, tree, FillerTypes
  <2>3. CASE mark_tree_as_failed(1) /\ filler' = NextTree
    <3>1. /\ Table(backfill_items', length, Cardinality(backfill_items))
          /\ errors' \in 0 .. MaxErrors /\ mishap' = TRUE
      BY <2>3, GivenUp
    <3> QED
      BY <1>1, <1>10, <2>1, <2>3, <3>1, NextTreeOK DEF TryFails, tree, FillerTypes
  <2> QED
    BY <1>10, <2>2, <2>3 DEF TryFails
<1> QED
  BY <1>4, <1>5, <1>6, <1>7, <1>8, <1>9, <1>10

\* The steps of delete_extra_rows_and_mark_as_backfilled keep the types.
LEMMA CleanTypes ==
    ASSUME TypeInv, \/ DeleteExtraRows \/ RemoveDuplicates \/ mark_tree_as_backfilled
                    \/ clear_force_chk_flag \/ unlock_tree \/ CleanupFails
    PROVE  FillerTypes
<1>1. /\ FillerOK(filler) /\ length \in Nat /\ stream \subseteq 1 .. length
      /\ mishap \in BOOLEAN /\ errors \in 0 .. MaxErrors
      /\ Table(backfill_items, length, Cardinality(backfill_items))
      /\ Cardinality(backfill_items) \in Nat
  BY Now, TableNow, Zenon DEF TypeInv, TypeOK
<1>2. filler.pc \in Cleanup => filler.trees # << >>
  BY <1>1 DEF FillerOK, Cleanup
<1>3. Cleanup \subseteq Pcs
  BY DEF Pcs
<1>4. ASSUME NEW pc \in Cleanup, NEW next, FillerOK(next), NEW rows,
             Table(rows, length, Cardinality(backfill_items)), Statement(pc, next, rows)
      PROVE  FillerTypes
  BY <1>1, <1>4 DEF Statement, tree, FillerTypes
<1>5. \A pc \in Cleanup : filler.pc \in Cleanup => FillerOK(Then(pc))
  BY <1>2, <1>3, FillerMoves, Zenon DEF Then
<1>6. CASE DeleteExtraRows
  <2>1. filler.pc = "delete" /\ "delete" \in Cleanup /\ "dedupe" \in Cleanup
    BY <1>6 DEF DeleteExtraRows, Statement, Cleanup
  <2>2. Table({r \in backfill_items : r.seq = filler.max_seq}, length, Cardinality(backfill_items))
    BY <1>1, FewerRows
  <2> QED
    BY <1>4, <1>5, <1>6, <2>1, <2>2 DEF DeleteExtraRows
<1>7. CASE RemoveDuplicates
  <2>1. filler.pc = "dedupe" /\ "dedupe" \in Cleanup /\ "mark" \in Cleanup
    BY <1>7 DEF RemoveDuplicates, Statement, Cleanup
  <2>2. \A gone : Table(backfill_items \ gone, length, Cardinality(backfill_items))
    BY <1>1, FewerRows
  <2>3. FillerOK(Then("mark"))
    BY <1>5, <2>1
  <2> QED
    BY <1>1, <1>4, <1>7, <2>1, <2>2, <2>3, Zenon DEF RemoveDuplicates
<1>8. CASE mark_tree_as_backfilled
  <2>1. filler.pc = "mark" /\ "mark" \in Cleanup /\ "clear" \in Cleanup
    BY <1>8 DEF mark_tree_as_backfilled, Statement, Cleanup
  <2>2. Table({[r EXCEPT !.backfilled = TRUE] : r \in backfill_items}, length, Cardinality(backfill_items))
    BY Updates, Zenon
  <2> QED
    BY <1>4, <1>5, <1>8, <2>1, <2>2 DEF mark_tree_as_backfilled
<1>9. CASE clear_force_chk_flag
  <2>1. filler.pc = "clear" /\ "clear" \in Cleanup /\ "unlock" \in Cleanup
    BY <1>9 DEF clear_force_chk_flag, Statement, Cleanup
  <2>2. Table({[r EXCEPT !.force_chk = FALSE] : r \in backfill_items}, length, Cardinality(backfill_items))
    BY Updates, Zenon
  <2> QED
    BY <1>4, <1>5, <1>9, <2>1, <2>2 DEF clear_force_chk_flag
<1>10. CASE unlock_tree
  <2>1. filler.pc = "unlock" /\ "unlock" \in Cleanup
    BY <1>10 DEF unlock_tree, Statement, Cleanup
  <2>2. Table({[r EXCEPT !.locked = FALSE] : r \in backfill_items}, length, Cardinality(backfill_items))
    BY Updates, Zenon
  <2>3. FillerOK(NextTree)
    BY <1>2, <2>1, NextTreeOK
  <2> QED
    BY <1>4, <1>10, <2>1, <2>2, <2>3 DEF unlock_tree
<1>11. CASE CleanupFails
  <2>1. mark_tree_as_failed(1) /\ filler' = NextTree /\ filler.trees # << >>
    BY <1>2, <1>11 DEF CleanupFails
  <2>2. /\ Table(backfill_items', length, Cardinality(backfill_items))
        /\ errors' \in 0 .. MaxErrors /\ mishap' = TRUE
    BY <2>1, GivenUp
  <2> QED
    BY <1>1, <1>11, <2>1, <2>2, NextTreeOK DEF CleanupFails, tree, FillerTypes
<1> QED
  BY <1>6, <1>7, <1>8, <1>9, <1>10, <1>11
\* All steps of run_filler keep the types.
LEMMA FillerStepTypes ==
    ASSUME TypeInv, run_filler
    PROVE  FillerTypes
BY SelectTypes, PlugTypes, CleanTypes DEF run_filler

\* The rows and the ones to come, counted.
LEMMA Counted ==
    ASSUME TypeInv
    PROVE  /\ IsFiniteSet(BusyWorkers) /\ Cardinality(BusyWorkers) \in Nat
           /\ Cardinality(backfill_items) \in Nat /\ MaxRows \in Nat
           /\ \A w \in Workers : work[w] # Idle =>
                 /\ Cardinality(BusyWorkers \ {w}) = Cardinality(BusyWorkers) - 1
                 /\ Cardinality(BusyWorkers) >= 1 /\ Cardinality(backfill_items) < MaxRows
           /\ \A w \in Workers : work[w] = Idle =>
                 Cardinality(BusyWorkers \cup {w}) = Cardinality(BusyWorkers) + 1
<1>1. IsFiniteSet(BusyWorkers)
  BY BoundsAssumption, FS_Subset DEF BusyWorkers
<1>2. Cardinality(BusyWorkers) \in Nat /\ Cardinality(backfill_items) \in Nat /\ MaxRows \in Nat
  BY <1>1, FS_CardinalityType, TableNow, BoundsAssumption
<1>3. ASSUME NEW w \in Workers, work[w] # Idle
      PROVE  /\ Cardinality(BusyWorkers \ {w}) = Cardinality(BusyWorkers) - 1
             /\ Cardinality(BusyWorkers) >= 1 /\ Cardinality(backfill_items) < MaxRows
  <2>1. w \in BusyWorkers
    BY <1>3 DEF BusyWorkers
  <2>2. Cardinality(BusyWorkers \ {w}) = Cardinality(BusyWorkers) - 1
    BY <1>1, <2>1, FS_RemoveElement
  <2>3. Cardinality(BusyWorkers \ {w}) \in Nat
    <3>1. IsFiniteSet(BusyWorkers \ {w})
      BY <1>1, FS_RemoveElement
    <3> QED
      BY <3>1, FS_CardinalityType
  <2>4. Cardinality(BusyWorkers) >= 1
    BY <1>2, <2>2, <2>3
  <2>5. Cardinality(backfill_items) < MaxRows
    BY <1>2, <2>4 DEF TypeInv, RowsFit
  <2> QED
    BY <2>2, <2>4, <2>5
<1>4. ASSUME NEW w \in Workers, work[w] = Idle
      PROVE  Cardinality(BusyWorkers \cup {w}) = Cardinality(BusyWorkers) + 1
  <2>1. w \notin BusyWorkers
    BY <1>4 DEF BusyWorkers
  <2> QED
    BY <1>1, <2>1, FS_AddElement
<1> QED
  BY <1>1, <1>2, <1>3, <1>4, Zenon

\* What makes the next state well typed.
LEMMA TypeNext ==
    ASSUME NEW n \in Nat, length' \in 0 .. MaxSeq, stream' \subseteq 1 .. length',
           stored' \subseteq 1 .. length', Table(backfill_items', length', n),
           work' \in [Workers -> WorkType(length')], finder' \in {"idle", "missing"},
           FillerOK(filler)', errors' \in 0 .. MaxErrors, mishap' \in BOOLEAN,
           NEW busy \in Nat, Cardinality(BusyWorkers') <= busy, Cardinality(BusyWorkers') \in Nat,
           n + busy + (IF finder' = "missing" THEN 1 ELSE 0) <= MaxRows
    PROVE  TypeInv'
<1>1. TypeOK'
  BY SMTT(30) DEF TypeOK, FillerOK, FillerType, WorkType, Table, RowType, Pcs
<1>2. TreeAtHand'
  BY DEF FillerOK, TreeAtHand
<1>3. IsFiniteSet(backfill_items') /\ Cardinality(backfill_items') <= n
  BY DEF Table
<1>4. Cardinality(backfill_items') \in Nat
  BY <1>3, FS_CardinalityType
<1>5. MaxRows \in Nat
  BY BoundsAssumption
<1>6. Cardinality(backfill_items') + Cardinality(BusyWorkers')
         + (IF finder' = "missing" THEN 1 ELSE 0) <= MaxRows
  BY <1>3, <1>4, <1>5
<1>7. RowsFit'
  BY <1>3, <1>6 DEF RowsFit
<1> QED
  BY <1>1, <1>2, <1>7 DEF TypeInv

\* The workers' statements keep the types.
LEMMA WorkerTypes ==
    ASSUME TypeInv, NEW w \in Workers, Save(w) \/ FindTree(w) \/ InsertItem(w) \/ Fail(w)
    PROVE  TypeInv'
<1> DEFINE n == Cardinality(backfill_items)
           b == Cardinality(BusyWorkers)
<1>1. /\ FillerOK(filler) /\ work \in [Workers -> WorkType(length)] /\ length \in Nat
      /\ length \in 0 .. MaxSeq /\ errors \in 0 .. MaxErrors
      /\ stream \subseteq 1 .. length /\ stored \subseteq 1 .. length
      /\ finder \in {"idle", "missing"} /\ mishap \in BOOLEAN
      /\ Table(backfill_items, length, n)
      /\ n \in Nat /\ b \in Nat /\ MaxRows \in Nat
      /\ n + b + (IF finder = "missing" THEN 1 ELSE 0) <= MaxRows
  BY Now, TableNow, Counted, Zenon DEF TypeInv, TypeOK, RowsFit
<1>2. CASE Save(w)
  <2>1. PICK s \in stream :
           /\ stored' = stored \cup {s}
           /\ work' = [work EXCEPT ![w] = [Idle EXCEPT !.pc = "find", !.seq = s]]
    BY <1>2, Zenon DEF Save
  <2>2. /\ UNCHANGED <<length, stream, backfill_items, finder, filler, errors, mishap>>
        /\ n + b + (IF finder = "missing" THEN 1 ELSE 0) < MaxRows /\ work[w] = Idle
    BY <1>2, Zenon DEF Save, HasRoom, BusyWorkers
  <2>3. [Idle EXCEPT !.pc = "find", !.seq = s] \in WorkType(length)
    <3>1. s \in 0 .. length
      BY <1>1
    <3>2. \A r \in WorkType(length) : [r EXCEPT !.pc = "find", !.seq = s] \in WorkType(length)
      BY <3>1, Zenon DEF WorkType
    <3>3. Idle \in WorkType(length)
      BY <1>1 DEF Idle, WorkType
    <3> QED
      BY <3>2, <3>3, Zenon
  <2>4. work' \in [Workers -> WorkType(length)]
    BY <1>1, <2>1, <2>3
  <2>5. BusyWorkers' = BusyWorkers \cup {w}
    BY <1>1, <2>1, Zenon DEF BusyWorkers, Idle
  <2>6. Cardinality(BusyWorkers') = b + 1
    BY <2>2, <2>5, Counted
  <2>7. stored' \subseteq 1 .. length
    BY <1>1, <2>1
  <2>8. FillerOK(filler)'
    BY <1>1, <2>2 DEF FillerOK
  <2>9. n + (b + 1) + (IF finder' = "missing" THEN 1 ELSE 0) <= MaxRows /\ b + 1 \in Nat
    BY <1>1, <2>2
  <2> HIDE DEF n, b
  <2> QED
    BY <1>1, <2>2, <2>4, <2>6, <2>7, <2>8, <2>9, TypeNext
<1>3. CASE FindTree(w)
  <2> DEFINE flag == backfill_items = {} /\ work[w].seq > 1
  <2>1. /\ UNCHANGED <<length, stream, stored, backfill_items, finder, filler, errors>>
        /\ work' = [work EXCEPT ![w].pc = "insert", ![w].force_chk = flag]
        /\ work[w].pc = "find" /\ mishap' \in BOOLEAN
    BY <1>3, HappensType DEF FindTree, tree
  <2>2. flag \in BOOLEAN
    OBVIOUS
  <2>3. work' = [work EXCEPT ![w] = [work[w] EXCEPT !.pc = "insert", !.force_chk = flag]]
    BY <1>1, <2>1, Zenon
  <2>4. [work[w] EXCEPT !.pc = "insert", !.force_chk = flag] \in WorkType(length)
    BY <1>1, <2>2, Zenon DEF WorkType
  <2>5. work' \in [Workers -> WorkType(length)]
    BY <1>1, <2>3, <2>4
  <2>6. [work[w] EXCEPT !.pc = "insert", !.force_chk = flag].pc = "insert"
    BY <1>1 DEF WorkType
  <2> HIDE DEF flag
  <2>7. BusyWorkers' = BusyWorkers
    <3>1. work[w] # Idle
      BY <2>1 DEF Idle
    <3>2. work'[w] # Idle
      BY <1>1, <2>3, <2>6, Zenon DEF Idle
    <3>3. \A v \in Workers : v # w => work'[v] = work[v]
      BY <1>1, <2>3
    <3> QED
      BY <3>1, <3>2, <3>3, Zenon DEF BusyWorkers
  <2>8. FillerOK(filler)'
    BY <1>1, <2>1 DEF FillerOK
  <2> HIDE DEF n, b
  <2> QED
    BY <1>1, <2>1, <2>5, <2>7, <2>8, TypeNext DEF b
<1>4. CASE InsertItem(w)
  <2> DEFINE row == Row(work[w].seq, work[w].force_chk)
  <2>1. /\ UNCHANGED <<length, stored, finder, filler>>
        /\ backfill_items' = backfill_items \cup {row}
        /\ work' = [work EXCEPT ![w] = Idle]
        /\ work[w].pc = "insert" /\ mishap' \in BOOLEAN
        /\ errors' \in 0 .. MaxErrors /\ stream' \subseteq stream
    BY <1>4, HappensType, TroubleType DEF InsertItem
  <2>2. work[w] # Idle /\ work[w].seq \in 0 .. length /\ work[w].force_chk \in BOOLEAN
    BY <1>1, <2>1 DEF Idle, WorkType
  <2>3. Table(backfill_items', length, n + 1)
    BY <2>1, <2>2, Counted, NewRow, Zenon
  <2>4. work' \in [Workers -> WorkType(length)]
    BY <1>1, <2>1 DEF Idle, WorkType
  <2>5. BusyWorkers' = BusyWorkers \ {w}
    BY <1>1, <2>1 DEF BusyWorkers
  <2>6. Cardinality(BusyWorkers') = b - 1 /\ b - 1 \in Nat
    BY <1>1, <2>2, <2>5, Counted
  <2>7. FillerOK(filler)'
    BY <1>1, <2>1, Zenon DEF FillerOK
  <2>8. n + 1 + (b - 1) + (IF finder' = "missing" THEN 1 ELSE 0) <= MaxRows /\ n + 1 \in Nat
    BY <1>1, <2>1
  <2>9. stream' \subseteq 1 .. length
    BY <1>1, <2>1
  <2> HIDE DEF n, b, row
  <2> QED
    BY <1>1, <2>1, <2>3, <2>4, <2>6, <2>7, <2>8, <2>9, TypeNext
<1>5. CASE Fail(w)
  <2>1. /\ UNCHANGED <<length, stream, stored, backfill_items, finder, filler, mishap>>
        /\ work' = [work EXCEPT ![w] = Idle] /\ work[w] # Idle /\ errors' \in 0 .. MaxErrors
    BY <1>5, TroubleType DEF Fail, tree
  <2>2. work' \in [Workers -> WorkType(length)]
    BY <1>1, <2>1 DEF Idle, WorkType
  <2>3. BusyWorkers' = BusyWorkers \ {w}
    BY <1>1, <2>1 DEF BusyWorkers
  <2>4. Cardinality(BusyWorkers') = b - 1 /\ b - 1 \in Nat
    <3>1. work[w] # Idle
      BY <2>1
    <3> QED
      BY <1>1, <2>3, <3>1, Counted
  <2>5. FillerOK(filler)'
    BY <1>1, <2>1 DEF FillerOK
  <2>6. Cardinality(BusyWorkers') <= b
    BY <1>1, <2>4
  <2> HIDE DEF n, b
  <2> QED
    BY <1>1, <2>1, <2>2, <2>4, <2>5, <2>6, TypeNext
<1> QED
  BY <1>2, <1>3, <1>4, <1>5

\* The finder keeps the types: the rows it is to insert fit the table.
LEMMA FinderTypes ==
    ASSUME TypeInv, get_missing_trees \/ force_backfill_missing_trees
    PROVE  TypeInv'
<1> DEFINE n == Cardinality(backfill_items)
           b == Cardinality(BusyWorkers)
<1>1. /\ FillerOK(filler) /\ work \in [Workers -> WorkType(length)] /\ length \in Nat
      /\ length \in 0 .. MaxSeq /\ errors \in 0 .. MaxErrors
      /\ stream \subseteq 1 .. length /\ stored \subseteq 1 .. length
      /\ finder \in {"idle", "missing"} /\ mishap \in BOOLEAN
      /\ Table(backfill_items, length, n)
      /\ n \in Nat /\ b \in Nat /\ MaxRows \in Nat
      /\ n + b + (IF finder = "missing" THEN 1 ELSE 0) <= MaxRows
  BY Now, TableNow, Counted, Zenon DEF TypeInv, TypeOK, RowsFit
<1>2. CASE get_missing_trees
  <2>1. /\ UNCHANGED <<length, stream, stored, backfill_items, work, filler, errors, mishap>>
        /\ finder = "idle" /\ finder' = "missing"
        /\ n + b + (IF finder = "missing" THEN 1 ELSE 0) < MaxRows
    BY <1>2 DEF get_missing_trees, HasRoom, tree, BusyWorkers
  <2>2. BusyWorkers' = BusyWorkers
    BY <2>1 DEF BusyWorkers
  <2>3. n + b + (IF finder' = "missing" THEN 1 ELSE 0) <= MaxRows
    BY <1>1, <2>1
  <2>4. FillerOK(filler)'
    BY <1>1, <2>1 DEF FillerOK
  <2>5. Cardinality(BusyWorkers') = b
    BY <2>2
  <2> HIDE DEF n, b
  <2> QED
    BY <1>1, <2>1, <2>3, <2>4, <2>5, TypeNext
<1>3. CASE force_backfill_missing_trees
  <2>1. /\ UNCHANGED <<length, stream, stored, work, filler, errors>>
        /\ finder = "missing" /\ finder' = "idle" /\ mishap' \in BOOLEAN
        /\ backfill_items' = backfill_items \cup {Row(0, TRUE)}
    BY <1>3, HappensType DEF force_backfill_missing_trees, tree
  <2>2. BusyWorkers' = BusyWorkers
    BY <2>1 DEF BusyWorkers
  <2>3. n < MaxRows
    BY <1>1, <2>1
  <2>4. Table(backfill_items', length, n + 1)
    <3>1. 0 \in 0 .. length /\ TRUE \in BOOLEAN
      BY <1>1
    <3>2. Table(backfill_items \cup {Row(0, TRUE)}, length, n + 1)
      BY <2>3, <3>1, NewRow, Zenon
    <3> QED
      BY <2>1, <3>2
  <2>5. n + 1 + b + (IF finder' = "missing" THEN 1 ELSE 0) <= MaxRows /\ n + 1 \in Nat
    BY <1>1, <2>1
  <2>6. FillerOK(filler)'
    BY <1>1, <2>1 DEF FillerOK
  <2>7. Cardinality(BusyWorkers') = b
    BY <2>2
  <2> DEFINE m == n + 1
  <2>8. Table(backfill_items', length', m) /\ m \in Nat
    BY <2>1, <2>4, <2>5
  <2>9. m + b + (IF finder' = "missing" THEN 1 ELSE 0) <= MaxRows
    BY <2>5
  <2> HIDE DEF n, b, m
  <2>10. Cardinality(BusyWorkers') <= b /\ Cardinality(BusyWorkers') \in Nat
    BY <1>1, <2>7
  <2> QED
    BY <1>1, <2>1, <2>6, <2>8, <2>9, <2>10, TypeNext, Zenon
<1> QED
  BY <1>2, <1>3

\* Every step keeps the types.
LEMMA TypeStep == TypeInv /\ [Next]_vars => TypeInv'
<1> SUFFICES ASSUME TypeInv, [Next]_vars PROVE TypeInv'
  OBVIOUS
<1> DEFINE n == Cardinality(backfill_items)
           b == Cardinality(BusyWorkers)
<1>1. /\ FillerOK(filler) /\ work \in [Workers -> WorkType(length)] /\ length \in Nat
      /\ length \in 0 .. MaxSeq /\ errors \in 0 .. MaxErrors
      /\ stream \subseteq 1 .. length /\ stored \subseteq 1 .. length
      /\ finder \in {"idle", "missing"} /\ mishap \in BOOLEAN
      /\ Table(backfill_items, length, n)
      /\ n \in Nat /\ b \in Nat /\ MaxRows \in Nat
      /\ n + b + (IF finder = "missing" THEN 1 ELSE 0) <= MaxRows
  BY Now, TableNow, Counted, Zenon DEF TypeInv, TypeOK, RowsFit
<1>2. CASE Change
  <2>1. /\ length' = length + 1 /\ stream' \in {stream, stream \cup {length + 1}}
        /\ UNCHANGED <<stored, backfill_items, work, finder, filler, errors, mishap>>
        /\ length < MaxSeq
    BY <1>2 DEF Change
  <2>2. length' \in 0 .. MaxSeq /\ stream' \subseteq 1 .. length' /\ stored' \subseteq 1 .. length'
    BY <1>1, <2>1, BoundsAssumption, SMTT(30)
  <2>3. 0 .. length \subseteq 0 .. length'
    BY <1>1, <2>1
  <2>4. Table(backfill_items', length', n)
    <3>1. RowType(length) \subseteq RowType(length')
      BY <2>3 DEF RowType
    <3> QED
      BY <1>1, <2>1, <3>1 DEF Table
  <2>5. work' \in [Workers -> WorkType(length')]
    <3>1. WorkType(length) \subseteq WorkType(length')
      BY <2>3 DEF WorkType
    <3> QED
      BY <1>1, <2>1, <3>1
  <2>6. FillerOK(filler)'
    <3>1. FillerType(length) \subseteq FillerType(length')
      BY <2>3 DEF FillerType
    <3> QED
      BY <1>1, <2>1, <3>1, Zenon DEF FillerOK
  <2>7. Cardinality(BusyWorkers') = b
    BY <2>1 DEF BusyWorkers
  <2> HIDE DEF n, b
  <2> QED
    BY <1>1, <2>1, <2>2, <2>4, <2>5, <2>6, <2>7, TypeNext, SMTT(30)
<1>3. CASE \E w \in Workers : Save(w) \/ FindTree(w) \/ InsertItem(w) \/ Fail(w)
  BY <1>3, WorkerTypes
<1>4. CASE get_missing_trees \/ force_backfill_missing_trees
  BY <1>4, FinderTypes
<1>5. CASE run_filler
  <2>1. FillerTypes
    BY <1>5, FillerStepTypes
  <2>2. Cardinality(BusyWorkers') = b
    BY <2>1 DEF FillerTypes, BusyWorkers
  <2>3. FillerOK(filler)'
    BY <2>1 DEF FillerTypes, FillerOK
  <2>4. /\ UNCHANGED <<length, stored, work, finder>> /\ stream' \subseteq 1 .. length
        /\ Table(backfill_items', length, n)
        /\ errors' \in 0 .. MaxErrors /\ mishap' \in BOOLEAN
    BY <2>1 DEF FillerTypes
  <2> HIDE DEF n, b
  <2> QED
    BY <1>1, <2>2, <2>3, <2>4, TypeNext
<1>6. CASE Crash
  <2>1. /\ UNCHANGED <<length, stream, stored, backfill_items>> /\ filler' = Resting
        /\ finder' = "idle" /\ work' = [w \in Workers |-> Idle]
        /\ errors' \in 0 .. MaxErrors /\ mishap' \in BOOLEAN
    BY <1>6, TroubleType, HappensType DEF Crash, tree
  <2>2. Idle \in WorkType(length)
    BY <1>1 DEF Idle, WorkType
  <2>3. work' \in [Workers -> WorkType(length)]
    BY <2>1, <2>2
  <2>4. BusyWorkers' = {}
    BY <2>1 DEF BusyWorkers
  <2>5. Cardinality(BusyWorkers') = 0
    BY <2>4, FS_EmptySet
  <2>6. FillerOK(filler)'
    BY <1>1, <2>1, RestingOK DEF FillerOK
  <2>7. n + 0 + (IF finder' = "missing" THEN 1 ELSE 0) <= MaxRows
    BY <1>1, <2>1
  <2> HIDE DEF n, b
  <2> QED
    BY <1>1, <2>1, <2>3, <2>5, <2>6, <2>7, TypeNext, SMTT(30)
<1>7. CASE UNCHANGED vars
  <2>1. UNCHANGED <<length, stream, stored, backfill_items, work, finder, filler, errors, mishap>>
    BY <1>7 DEF vars, tree
  <2>2. Cardinality(BusyWorkers') = b
    BY <2>1 DEF BusyWorkers
  <2>3. FillerOK(filler)'
    BY <1>1, <2>1 DEF FillerOK
  <2> HIDE DEF n, b
  <2> QED
    BY <1>1, <2>1, <2>2, <2>3, TypeNext
<1> QED
  BY <1>2, <1>3, <1>4, <1>5, <1>6, <1>7, SMTT(30) DEF Next

\* The first states are well typed.
LEMMA TypeInit == Init => TypeInv
<1> SUFFICES ASSUME Init PROVE TypeInv
  OBVIOUS
<1>1. length = 0 /\ length \in Nat /\ 0 \in 0 .. MaxSeq /\ 0 \in 0 .. MaxErrors /\ MaxRows \in Nat
  BY BoundsAssumption DEF Init
<1>2. FillerOK(filler)
  BY <1>1, RestingOK DEF Init
<1>3. BusyWorkers = {}
  BY DEF Init, BusyWorkers
<1>4. Cardinality(BusyWorkers) = 0 /\ Cardinality(backfill_items) = 0 /\ IsFiniteSet(backfill_items)
  BY <1>3, FS_EmptySet DEF Init
<1>5. RowsFit
  BY <1>1, <1>4 DEF RowsFit, Init
<1>6. work \in [Workers -> WorkType(length)]
  BY <1>1 DEF Init, Idle, WorkType
<1>7. TypeOK
  BY <1>1, <1>2, <1>6, Zenon DEF TypeOK, Init, FillerOK, FillerType, WorkType, Pcs
<1>8. TreeAtHand
  BY <1>2 DEF FillerOK, TreeAtHand
<1> QED
  BY <1>5, <1>7, <1>8 DEF TypeInv

\* Type correctness of the backfiller, for every history, any number of workers
\* and all bounds: the copy numbers of rows never collide, the table never
\* outgrows its bound, and run_filler never works on without a tree.
THEOREM TypeCorrect == Spec => []TypeOK
<1>1. TypeInv => TypeOK
  BY DEF TypeInv
<1> QED
  BY <1>1, TypeInit, TypeStep, PTL DEF Spec

-----------------------------------------------------------------------------
(* The row of the highest number.                                          *)

\* A worker gets past its first statement only with its change stored.
LEMMA BusyStep ==
    ASSUME TypeInv, BusyIsStored, [Next]_vars
    PROVE  BusyIsStored'
<1>1. work \in [Workers -> WorkType(length)]
  BY Now
<1>2. CASE UNCHANGED work /\ stored \subseteq stored'
  BY <1>2 DEF BusyIsStored
<1>3. CASE \E w \in Workers : Save(w)
  <2>0. PICK w \in Workers : Save(w)
    BY <1>3
  <2>1. PICK s \in stream :
           /\ stored' = stored \cup {s}
           /\ work' = [work EXCEPT ![w] = [Idle EXCEPT !.pc = "find", !.seq = s]]
    BY <2>0, Zenon DEF Save
  <2>2. work'[w].seq = s
    BY <1>1, <2>1 DEF Idle
  <2>3. \A v \in Workers : v # w => work'[v] = work[v]
    BY <1>1, <2>1
  <2> QED
    BY <2>1, <2>2, <2>3 DEF BusyIsStored
<1>4. CASE \E w \in Workers : FindTree(w)
  <2>0. PICK w \in Workers : FindTree(w)
    BY <1>4
  <2>1. PICK flag : work' = [work EXCEPT ![w] = [work[w] EXCEPT !.pc = "insert", !.force_chk = flag]]
    BY <1>1, <2>0, Zenon DEF FindTree
  <2>2. work[w].pc = "find" /\ stored' = stored
    BY <2>0 DEF FindTree, tree
  <2>3. work'[w].seq = work[w].seq
    BY <1>1, <2>1 DEF WorkType
  <2>4. \A v \in Workers : v # w => work'[v] = work[v]
    BY <1>1, <2>1
  <2> QED
    BY <2>2, <2>3, <2>4 DEF BusyIsStored
<1>5. CASE \E w \in Workers : work' = [work EXCEPT ![w] = Idle] /\ stored' = stored
  BY <1>1, <1>5 DEF BusyIsStored, Idle
<1>6. CASE Crash
  BY <1>6 DEF Crash, tree, BusyIsStored, Idle
<1>7. CASE run_filler
  <2>1. FillerTypes
    BY <1>7, FillerStepTypes
  <2> QED
    BY <1>2, <2>1 DEF FillerTypes
<1>8. CASE Change \/ get_missing_trees \/ force_backfill_missing_trees \/ UNCHANGED vars
  BY <1>2, <1>8, Zenon DEF Change, get_missing_trees, force_backfill_missing_trees, vars, tree
<1>9. CASE \E w \in Workers : InsertItem(w) \/ Fail(w)
  BY <1>5, <1>9 DEF InsertItem, Fail, tree
<1> QED
  BY <1>3, <1>4, <1>6, <1>7, <1>8, <1>9 DEF Next

\* The fields that most steps of the filler leave alone.
LEMMA Fields ==
    ASSUME TypeInv
    PROVE  /\ \A pc \in Pcs : /\ Then(pc).pc = pc /\ Then(pc).trees = filler.trees
                              /\ Then(pc).max_seq = filler.max_seq /\ Then(pc).gaps = filler.gaps
                              /\ Then(pc).slots = filler.slots
           /\ \A gaps, slots : LET next == [filler EXCEPT !.gaps = gaps, !.slots = slots]
                               IN  /\ next.pc = filler.pc /\ next.trees = filler.trees
                                   /\ next.max_seq = filler.max_seq
                                   /\ next.gaps = gaps /\ next.slots = slots
           /\ \A slots : LET next == [filler EXCEPT !.slots = slots]
                         IN  /\ next.pc = filler.pc /\ next.trees = filler.trees
                             /\ next.max_seq = filler.max_seq
                             /\ next.gaps = filler.gaps /\ next.slots = slots
           /\ \A m, gaps : LET next == [filler EXCEPT !.pc = "plug", !.max_seq = m, !.gaps = gaps]
                           IN  /\ next.pc = "plug" /\ next.trees = filler.trees
                               /\ next.max_seq = m /\ next.gaps = gaps /\ next.slots = filler.slots
           /\ \A n : LET next == [filler EXCEPT !.pc = "fill", !.gaps = {}, !.slots = {}, !.tries = n]
                     IN  next.pc = "fill" /\ next.trees = filler.trees /\ next.gaps = {} /\ next.slots = {}
           /\ NextTree.pc \in {"idle", "fill"} /\ NextTree.gaps = {} /\ NextTree.slots = {}
<1>1. filler \in FillerType(length)
  BY Now, Zenon DEF FillerOK
<1>2. NextTree.pc \in {"idle", "fill"} /\ NextTree.gaps = {} /\ NextTree.slots = {}
  BY DEF NextTree, Resting
<1> QED
  BY <1>1, <1>2 DEF FillerType, Then

\* No step of cleanup, workers or finder removes the row of the highest number.
LEMMA NewestStep ==
    ASSUME TypeInv, NewestRowStays, GapsAreOfChanges, [Next]_vars
    PROVE  NewestRowStays' /\ GapsAreOfChanges'
<1>1. ASSUME filler'.pc \in {"idle", "multi_row", "fill"}, filler'.gaps \subseteq filler.gaps
      PROVE  NewestRowStays' /\ GapsAreOfChanges'
  BY <1>1, Zenon DEF NewestRowStays, GapsAreOfChanges, Cleanup
<1>2. ASSUME filler'.pc \in {"plug"} \cup Cleanup => filler.pc \in {"plug"} \cup Cleanup,
             filler'.trees = filler.trees, filler'.max_seq = filler.max_seq,
             filler'.gaps \subseteq filler.gaps,
             \A r \in backfill_items : r.seq = filler.max_seq =>
                 \E q \in backfill_items' : q.seq = r.seq
      PROVE  NewestRowStays' /\ GapsAreOfChanges'
  <2>1. NewestRowStays'
    BY <1>2, Zenon DEF NewestRowStays
  <2>2. GapsAreOfChanges'
    BY <1>2 DEF GapsAreOfChanges
  <2> QED
    BY <2>1, <2>2
<1>3. CASE UNCHANGED filler /\ backfill_items \subseteq backfill_items'
  BY <1>2, <1>3
<1>4. CASE \/ Change \/ get_missing_trees \/ force_backfill_missing_trees \/ UNCHANGED vars
           \/ \E w \in Workers : Save(w) \/ FindTree(w) \/ InsertItem(w) \/ Fail(w)
  BY <1>3, <1>4, Zenon DEF Change, get_missing_trees, force_backfill_missing_trees, vars, tree,
                    Save, FindTree, InsertItem, Fail
<1>5. CASE Crash \/ SelectFails
  BY <1>1, <1>5 DEF Crash, SelectFails, Resting
<1>6. CASE SelectForced \/ SelectMultiRow
  <2>1. filler \in FillerType(length)
    BY Now DEF FillerOK
  <2>2. filler'.pc \in {"idle", "multi_row", "fill"} /\ filler'.gaps = filler.gaps
    BY <1>6, <2>1, Zenon DEF SelectForced, SelectMultiRow, FillerType
  <2> QED
    BY <1>1, <2>2
<1>7. CASE backfill_tree_from_seq_1
  <2> DEFINE gaps == {<<SlotOf[s], SlotOf[s]>> : s \in 1 .. length}
  <2>1. filler' = [filler EXCEPT !.pc = "plug", !.max_seq = 0, !.gaps = gaps] /\ Head(filler.trees)
    BY <1>7, Zenon DEF backfill_tree_from_seq_1
  <2>2. filler'.trees = filler.trees /\ filler'.gaps = gaps
    <3> HIDE DEF gaps
    <3> QED
      BY <2>1, Now, Zenon DEF FillerOK, FillerType
  <2>3. NewestRowStays'
    BY <2>1, <2>2, Zenon DEF NewestRowStays
  <2>4. \A s \in 1 .. length : s \in 0 .. MaxSeq /\ s <= s
    BY Now, BoundsAssumption
  <2>5. GapsAreOfChanges'
    BY <2>2, <2>4 DEF GapsAreOfChanges
  <2> QED
    BY <2>3, <2>5
<1>8. CASE get_missing_data
  <2> DEFINE gaps == {<<SlotOf[g[1]], SlotOf[g[2]]>> : g \in Gaps}
  <2>1. /\ filler' = [filler EXCEPT !.pc = "plug", !.max_seq = MaxOf(Candidates), !.gaps = gaps]
        /\ backfill_items' = backfill_items /\ Candidates # {}
    BY <1>8, Zenon DEF get_missing_data
  <2>2. filler'.max_seq = MaxOf(Candidates) /\ filler'.gaps = gaps
    BY <2>1, Fields
  <2>3. MaxOf(Candidates) \in Candidates
    BY <2>1, StartSeq
  <2>4. NewestRowStays'
    BY <2>1, <2>2, <2>3, Zenon DEF NewestRowStays, Candidates
  <2>5. \A g \in Gaps : g[1] \in 0 .. MaxSeq /\ g[2] \in 0 .. MaxSeq /\ g[1] <= g[2]
    BY BoundsAssumption DEF Gaps, Candidates
  <2>6. GapsAreOfChanges'
    BY <2>2, <2>5 DEF GapsAreOfChanges
  <2> QED
    BY <2>4, <2>6
<1>9. CASE get_blocks
  <2>0. PICK gap \in filler.gaps : \E answered \in SUBSET Ranges(gap[1], gap[2]) :
           filler' = [filler EXCEPT !.gaps = @ \ {gap}, !.slots = UNION answered]
    BY <1>9, Zenon DEF get_blocks
  <2>1. PICK slots : filler' = [filler EXCEPT !.gaps = filler.gaps \ {gap}, !.slots = slots]
    BY <2>0, Zenon
  <2>2. filler.pc = "plug" /\ backfill_items' = backfill_items
    BY <1>9, Zenon DEF get_blocks
  <2> QED
    BY <1>2, <2>1, <2>2, Fields
<1>10. CASE plug_gap
  <2>1. PICK slots : filler' = [filler EXCEPT !.slots = slots]
    BY <1>10, Zenon DEF plug_gap
  <2>2. filler.pc = "plug" /\ backfill_items' = backfill_items
    BY <1>10 DEF plug_gap
  <2> QED
    BY <1>2, <2>1, <2>2, Fields
<1>11. CASE Plugged
  <2>1. filler' = Then("delete") /\ filler.pc = "plug" /\ backfill_items' = backfill_items
    BY <1>11 DEF Plugged, Then
  <2>2. "delete" \in Pcs
    BY DEF Pcs, Cleanup
  <2> QED
    BY <1>2, <2>1, <2>2, Fields
<1>12. CASE NoRows \/ TryFails \/ unlock_tree \/ CleanupFails
  <2>1. \/ filler' = NextTree
        \/ \E n : filler' = [filler EXCEPT !.pc = "fill", !.gaps = {}, !.slots = {}, !.tries = n]
    BY <1>12, Zenon DEF NoRows, TryFails, unlock_tree, CleanupFails, Statement
  <2>2. filler'.pc \in {"idle", "fill"} /\ filler'.gaps = {}
    <3>1. CASE filler' = NextTree
      BY <3>1, Fields
    <3>2. ASSUME NEW n, filler' = [filler EXCEPT !.pc = "fill", !.gaps = {}, !.slots = {}, !.tries = n]
          PROVE  filler'.pc = "fill" /\ filler'.gaps = {}
      BY <3>2, Now DEF FillerOK, FillerType
    <3> QED
      BY <2>1, <3>1, <3>2, Zenon
  <2> QED
    BY <1>1, <2>2
<1>13. CASE \/ DeleteExtraRows \/ RemoveDuplicates \/ mark_tree_as_backfilled \/ clear_force_chk_flag
  <2>1. PICK pc \in Cleanup : filler' = Then(pc)
    BY <1>13 DEF DeleteExtraRows, RemoveDuplicates, mark_tree_as_backfilled, clear_force_chk_flag,
                 Statement, Cleanup
  <2>2. filler.pc \in Cleanup
    BY <1>13 DEF DeleteExtraRows, RemoveDuplicates, mark_tree_as_backfilled, clear_force_chk_flag,
                 Statement, Cleanup
  <2>3. \A r \in backfill_items : r.seq = filler.max_seq => \E q \in backfill_items' : q.seq = r.seq
    <3>1. CASE DeleteExtraRows \/ RemoveDuplicates
      BY <3>1 DEF DeleteExtraRows, RemoveDuplicates, Statement
    <3>2. CASE mark_tree_as_backfilled \/ clear_force_chk_flag
      <4>1. \A r \in backfill_items : /\ [r EXCEPT !.backfilled = TRUE].seq = r.seq
                                      /\ [r EXCEPT !.force_chk = FALSE].seq = r.seq
        BY TableNow DEF Table, RowType
      <4> QED
        BY <3>2, <4>1, Zenon DEF mark_tree_as_backfilled, clear_force_chk_flag, Statement
    <3> QED
      BY <1>13, <3>1, <3>2
  <2>4. pc \in Pcs
    BY DEF Pcs
  <2>5. filler'.trees = filler.trees /\ filler'.max_seq = filler.max_seq /\ filler'.gaps = filler.gaps
    BY <2>1, <2>4, Fields
  <2> QED
    BY <1>2, <2>2, <2>3, <2>5
<1> QED
  BY <1>4, <1>5, <1>6, <1>7, <1>8, <1>9, <1>10, <1>11, <1>12, <1>13 DEF Next, run_filler

\* The invariant behind NewestRowRemains.
LEMMA RowInvHolds == Spec => []RowInv
<1>1. Init => RowInv
  <2> SUFFICES ASSUME Init PROVE RowInv
    OBVIOUS
  <2>1. BusyIsStored
    BY DEF Init, BusyIsStored, Idle
  <2>2. NewestRowStays /\ GapsAreOfChanges
    BY Zenon DEF Init, NewestRowStays, GapsAreOfChanges, Resting, Cleanup
  <2> QED
    BY <2>1, <2>2, TypeInit DEF RowInv
<1>2. RowInv /\ [Next]_vars => RowInv'
  BY TypeStep, BusyStep, NewestStep DEF RowInv
<1> QED
  BY <1>1, <1>2, PTL DEF Spec

\* While delete_extra_rows_and_mark_as_backfilled cleans up, the row of the
\* highest number that get_missing_data saw is there, however many workers
\* insert meanwhile and whichever of the Mishaps happen.
THEOREM NewestRowHolds == Spec => []NewestRowRemains
<1>1. RowInv => NewestRowRemains
  BY Zenon DEF RowInv, NewestRowStays, NewestRowRemains
<1> QED
  BY <1>1, RowInvHolds, PTL
-----------------------------------------------------------------------------
(* Changes in sight.                                                       *)

\* Rows have numbers of changes; with rows there is a candidate.
LEMMA RowNumbers ==
    ASSUME TypeInv
    PROVE  /\ \A r \in backfill_items : r.seq \in 0 .. length
           /\ Candidates = {r.seq : r \in {q \in backfill_items : q.seq >= start_seq}}
           /\ backfill_items # {} => Candidates # {}
<1>1. \A r \in backfill_items : r.seq \in 0 .. length
  BY DEF TypeInv, TypeOK
<1>2. \A r \in backfill_items : r.seq \in 0 .. MaxSeq
  BY <1>1, Now, BoundsAssumption
<1>3. Candidates = {r.seq : r \in {q \in backfill_items : q.seq >= start_seq}}
  BY <1>2 DEF Candidates
<1>4. ASSUME NEW r \in backfill_items
      PROVE  Candidates # {}
  <2>1. start_seq = 0 \/ \E q \in backfill_items : q.seq = start_seq
    BY StartSeq
  <2>2. CASE start_seq = 0
    <3>1. r.seq >= start_seq
      BY <1>1, <2>2
    <3> QED
      BY <1>3, <3>1, Zenon
  <2>3. CASE \E q \in backfill_items : q.seq = start_seq
    <3>1. PICK q \in backfill_items : q.seq = start_seq
      BY <2>3
    <3>2. q.seq >= start_seq
      BY <1>1, <3>1
    <3> QED
      BY <1>3, <3>2
  <2> QED
    BY <2>1, <2>2, <2>3
<1> QED
  BY <1>1, <1>3, <1>4

\* A row that is not backfilled moves no start_seq.
LEMMA SameStart ==
    ASSUME NEW row, backfill_items' = backfill_items \cup {row}, ~row.backfilled
    PROVE  start_seq' = start_seq
<1>1. {q \in backfill_items' : q.backfilled} = {q \in backfill_items : q.backfilled}
  BY Zenon
<1> QED
  BY <1>1, Zenon DEF start_seq

\* A new row splits a gap or closes one above the rows: what shows keeps showing
\* unless the table was empty.
LEMMA InsertShows ==
    ASSUME TypeInv, TypeInv', NEW row, backfill_items' = backfill_items \cup {row}, ~row.backfilled,
           NEW q \in Nat, row.seq = q, NEW s \in Nat, s # q, backfill_items # {} \/ q <= s, Shows(s)
    PROVE  Shows(s)'
<1>1. start_seq' = start_seq
  BY SameStart
<1>2. /\ Candidates \subseteq Candidates' /\ Candidates' \subseteq Candidates \cup {q}
      /\ q >= start_seq => q \in Candidates'
  <2>1. Candidates = {r.seq : r \in {p \in backfill_items : p.seq >= start_seq}}
    BY RowNumbers
  <2>2. Candidates' = {r.seq : r \in {p \in backfill_items' : p.seq >= start_seq'}}
    <3>1. \A r \in backfill_items' : r.seq \in 0 .. length'
      BY DEF TypeInv, TypeOK
    <3>2. length' \in 0 .. MaxSeq
      BY Zenon DEF TypeInv, TypeOK
    <3>3. \A r \in backfill_items' : r.seq \in 0 .. MaxSeq
      BY <3>1, <3>2, BoundsAssumption
    <3> QED
      BY <3>3 DEF Candidates
  <2> QED
    BY <1>1, <2>1, <2>2
<1>3. Candidates \subseteq Nat /\ start_seq \in Nat /\ \A c \in Candidates : c >= start_seq
  BY StartSeq, Now DEF Candidates
<1>4. CASE \E g \in Gaps : g[1] < s /\ s < g[2]
  <2>1. PICK g \in Gaps : g[1] < s /\ s < g[2]
    BY <1>4
  <2>2. /\ g \in Candidates \X Candidates /\ g = <<g[1], g[2]>>
        /\ \A c \in Candidates : c <= g[1] \/ c >= g[2]
    BY <2>1 DEF Gaps
  <2> DEFINE a == IF g[1] < q /\ q < s THEN q ELSE g[1]
             b == IF s < q /\ q < g[2] THEN q ELSE g[2]
  <2>3. g[1] \in Nat /\ g[2] \in Nat /\ g[1] >= start_seq /\ g[1] \in Candidates /\ g[2] \in Candidates
    BY <1>3, <2>2, Zenon
  <2>4. a \in Candidates' /\ b \in Candidates' /\ a < s /\ s < b /\ a \in Nat /\ b \in Nat
    BY <1>2, <1>3, <2>1, <2>3
  <2>5. \A c \in Candidates' : c <= a \/ c >= b
    <3>1. \A c \in Candidates : c <= a \/ c >= b
      BY <1>3, <2>1, <2>2, <2>3
    <3>2. q <= a \/ q >= b
      BY <2>1, <2>3
    <3> HIDE DEF a, b
    <3> QED
      BY <1>2, <3>1, <3>2
  <2> HIDE DEF a, b
  <2>6. <<a, b>> \in Gaps'
    BY <2>4, <2>5 DEF Gaps
  <2> QED
    BY <2>4, <2>6 DEF Shows
<1>5. CASE \A r \in backfill_items : r.seq < s
  <2>1. CASE q < s
    BY <1>5, <2>1 DEF Shows
  <2>2. CASE s < q
    <3>1. Candidates # {}
      BY <2>2, RowNumbers
    <3>2. PICK c \in Candidates : \A d \in Candidates : d <= c
      BY <3>1, StartSeq
    <3>3. c < s
      BY <1>5 DEF Candidates
    <3>4. q \in Candidates' /\ c \in Candidates' /\ c \in Nat
      BY <1>2, <1>3, <2>2, <3>3
    <3>5. \A d \in Candidates' : d <= c \/ d >= q
      BY <1>2, <3>2
    <3>6. <<c, q>> \in Gaps'
      BY <2>2, <3>3, <3>4, <3>5 DEF Gaps
    <3> QED
      BY <2>2, <3>3, <3>6 DEF Shows
  <2> QED
    BY <2>1, <2>2
<1> QED
  BY <1>4, <1>5 DEF Shows

\* Locks do not count.
LEMMA SameShows ==
    ASSUME TypeInv, NEW s, NEW f, backfill_items' = {f[r] : r \in backfill_items},
           \A r \in backfill_items : /\ f[r].seq = r.seq /\ f[r].backfilled = r.backfilled
                                     /\ f[r].force_chk = r.force_chk
    PROVE  (Shows(s) => Shows(s)') /\ (InSight(s) => InSight(s)')
<1>1. {r.seq : r \in backfill_items'} = {r.seq : r \in backfill_items}
  <2>1. \A n : (\E r \in backfill_items' : n = r.seq) <=> \E r \in backfill_items : n = r.seq
    BY ZenonT(30)
  <2> QED
    BY <2>1, SMT
<1>2. {r.seq : r \in {q \in backfill_items' : q.backfilled}}
         = {r.seq : r \in {q \in backfill_items : q.backfilled}}
  <2>1. \A n : (\E r \in backfill_items' : r.backfilled /\ n = r.seq)
                 <=> \E r \in backfill_items : r.backfilled /\ n = r.seq
    <3>1. \A r \in backfill_items : f[r].backfilled <=> r.backfilled
      OBVIOUS
    <3>2. ASSUME NEW n, NEW q \in backfill_items', q.backfilled, n = q.seq
          PROVE  \E r \in backfill_items : r.backfilled /\ n = r.seq
      <4>1. PICK r \in backfill_items : q = f[r]
        BY Zenon
      <4> QED
        BY <3>1, <3>2, <4>1, Zenon
    <3>3. ASSUME NEW n, NEW r \in backfill_items, r.backfilled, n = r.seq
          PROVE  \E q \in backfill_items' : q.backfilled /\ n = q.seq
      <4>1. f[r] \in backfill_items' /\ f[r].backfilled /\ n = f[r].seq
        BY <3>1, <3>3, Zenon
      <4> QED
        BY <4>1, Zenon
    <3> TAKE n
    <3>4. (\E q \in backfill_items' : q.backfilled /\ n = q.seq)
             => \E r \in backfill_items : r.backfilled /\ n = r.seq
      BY <3>2
    <3>5. (\E r \in backfill_items : r.backfilled /\ n = r.seq)
             => \E q \in backfill_items' : q.backfilled /\ n = q.seq
      BY <3>3
    <3> QED
      BY <3>4, <3>5
  <2> QED
    BY <2>1, SMT
<1>3. start_seq' = start_seq
  BY <1>2, Zenon DEF start_seq
<1>4. Gaps' = Gaps
  BY <1>1, <1>3, Zenon DEF Gaps, Candidates
<1>5. (\E r \in backfill_items : r.force_chk) => \E r \in backfill_items' : r.force_chk
  BY ZenonT(30)
<1>6. (\A r \in backfill_items : r.seq < s) => \A r \in backfill_items' : r.seq < s
  BY Zenon
<1> QED
  BY <1>4, <1>5, <1>6, Zenon DEF Shows, InSight
-----------------------------------------------------------------------------
(* Nothing is forgotten: the steps.                                        *)

\* After a mishap nothing is claimed any more.
LEMMA MishapStays ==
    ASSUME TypeInv, [Next]_vars, mishap
    PROVE  mishap'
<1>1. \A events : Happens(events) => mishap'
  BY HappensType, Zenon
<1>2. CASE UNCHANGED mishap
  BY <1>2, Zenon
<1>3. CASE \/ Change \/ get_missing_trees \/ force_backfill_missing_trees \/ UNCHANGED vars \/ Crash
           \/ \E w \in Workers : Save(w) \/ FindTree(w) \/ InsertItem(w) \/ Fail(w)
  BY <1>1, <1>2, <1>3, Zenon DEF Change, get_missing_trees, force_backfill_missing_trees, vars, tree, Crash,
                    Save, FindTree, InsertItem, Fail
<1>4. CASE SelectForced \/ SelectMultiRow \/ SelectFails \/ backfill_tree_from_seq_1 \/ get_missing_data
           \/ plug_gap
  BY <1>2, <1>4, Zenon DEF SelectForced, SelectMultiRow, SelectFails, backfill_tree_from_seq_1,
                    get_missing_data, plug_gap
<1>5. CASE get_blocks
  BY <1>1, <1>5, Zenon DEF get_blocks
<1>6. CASE Plugged
  BY <1>1, <1>6 DEF Plugged
<1>7. CASE NoRows \/ TryFails \/ CleanupFails
  BY <1>1, <1>2, <1>7, Zenon DEF NoRows, TryFails, CleanupFails, mark_tree_as_failed
<1>8. CASE \/ DeleteExtraRows \/ RemoveDuplicates \/ mark_tree_as_backfilled
           \/ clear_force_chk_flag \/ unlock_tree
  BY <1>2, <1>8, Zenon DEF DeleteExtraRows, RemoveDuplicates, mark_tree_as_backfilled,
                    clear_force_chk_flag, unlock_tree, Statement
<1> QED
  BY <1>3, <1>4, <1>5, <1>6, <1>7, <1>8 DEF Next, run_filler

\* Without a mishap no event happens.
LEMMA NoEvent ==
    ASSUME TypeInv, NEW events, Happens(events), ~mishap'
    PROVE  events = {}
BY HappensType, Zenon

\* Steps that leave the rows and the filler alone.
LEMMA CalmFrame ==
    ASSUME CalmInv, UNCHANGED <<backfill_items, filler>>,
           \A s \in Lost' : s \in Lost \/ ((\A r \in backfill_items : r.seq < s) /\ s > filler.max_seq),
           UnflaggedIsSafe', filler.pc \in Cleanup => \A w \in Workers : work'[w].pc # "insert"
    PROVE  CalmInv'
<1>1. \A s \in Lost' : InSight(s)'
  <2> SUFFICES ASSUME NEW s \in Lost' PROVE InSight(s)'
    OBVIOUS
  <2>1. InSight(s)
    BY DEF CalmInv, InSight
  <2> QED
    BY <2>1, Zenon DEF InSight, Gaps, Candidates, start_seq
<1>2. RowsAreFree' /\ SelectedForced' /\ OneKind' /\ ForcedIsZero'
  BY Zenon DEF CalmInv, RowsAreFree, Searching, SelectedForced, OneKind, Forced, Single, ForcedIsZero
<1>3. SingleShows'
  <2> SUFFICES ASSUME Single, filler.pc \in {"fill", "plug"}, NEW s \in Lost'
               PROVE  Shows(s)'
    BY DEF CalmInv, SingleShows, Single
  <2>1. Shows(s)
    BY DEF CalmInv, SingleShows, Shows
  <2> QED
    BY <2>1, Zenon DEF Shows, Gaps, Candidates, start_seq
<1>4. SingleIsPlugged'
  BY Zenon DEF CalmInv, SingleIsPlugged, Single, ToPlug
<1>5. CleanIsSafe'
  BY DEF CalmInv, CleanIsSafe
<1> QED
  BY <1>1, <1>2, <1>3, <1>4, <1>5 DEF CalmInv

\* Steps that insert no row keep changes in sight.
LEMMA CalmWorkers ==
    ASSUME RowInv, CalmInv, ~mishap', Change \/ get_missing_trees \/ UNCHANGED vars
                                      \/ \E w \in Workers : Save(w) \/ FindTree(w) \/ Fail(w)
    PROVE  CalmInv'
<1>0. /\ work \in [Workers -> WorkType(length)] /\ TypeInv /\ length \in Nat
      /\ stored \subseteq 1 .. length /\ filler.max_seq \in 0 .. length /\ BusyIsStored
      /\ \A r \in backfill_items : r.seq \in 0 .. length
  BY Now, Zenon DEF RowInv, TypeInv, TypeOK
<1>1. UNCHANGED <<backfill_items, filler>>
  BY Zenon DEF Change, get_missing_trees, vars, tree, Save, FindTree, Fail
<1>2. \A s \in Lost' : s \in Lost \/ ((\A r \in backfill_items : r.seq < s) /\ s > filler.max_seq)
  <2>1. CASE Change
    <3>1. /\ length' = length + 1 /\ stream \subseteq stream' /\ stored' = stored
      BY <2>1 DEF Change
    <3>2. \A s \in Lost' : s \in Lost \/ s = length + 1
      BY <1>0, <3>1 DEF Lost
    <3> QED
      BY <1>0, <3>2
  <2>2. CASE get_missing_trees \/ UNCHANGED vars \/ \E w \in Workers : Save(w) \/ FindTree(w) \/ Fail(w)
    <3>1. length' = length /\ stream' = stream /\ stored \subseteq stored'
      BY <2>2, Zenon DEF get_missing_trees, vars, tree, Save, FindTree, Fail
    <3> QED
      BY <3>1 DEF Lost
  <2> QED
    BY <2>1, <2>2
<1>3. CASE UNCHANGED work
  <2>1. UnflaggedIsSafe' /\ (filler.pc \in Cleanup => \A w \in Workers : work'[w].pc # "insert")
    BY <1>1, <1>3, Zenon DEF CalmInv, UnflaggedIsSafe, CleanIsSafe
  <2> QED
    BY <1>1, <1>2, <2>1, CalmFrame, Zenon
<1>4. CASE \E w \in Workers : Save(w) \/ Fail(w)
  <2>1. PICK w \in Workers : Save(w) \/ Fail(w)
    BY <1>4
  <2>2. PICK v : work' = [work EXCEPT ![w] = v] /\ v.pc \in {"idle", "find"}
    <3>1. CASE Save(w)
      <4>1. PICK s \in stream : work' = [work EXCEPT ![w] = [Idle EXCEPT !.pc = "find", !.seq = s]]
        BY <3>1, Zenon DEF Save
      <4>2. [Idle EXCEPT !.pc = "find", !.seq = s].pc = "find"
        BY DEF Idle
      <4> QED
        BY <4>1, <4>2, Zenon
    <3>2. CASE Fail(w)
      <4>1. Idle.pc = "idle"
        BY DEF Idle
      <4> QED
        BY <3>2, <4>1, Zenon DEF Fail
    <3> QED
      BY <2>1, <3>1, <3>2
  <2>3. \A u \in Workers : work'[u].pc = "insert" => work'[u] = work[u]
    BY <1>0, <2>2
  <2>4. UnflaggedIsSafe' /\ (filler.pc \in Cleanup => \A u \in Workers : work'[u].pc # "insert")
    BY <1>1, <2>3, Zenon DEF CalmInv, UnflaggedIsSafe, CleanIsSafe
  <2> QED
    BY <1>1, <1>2, <2>4, CalmFrame, Zenon
<1>5. CASE \E w \in Workers : FindTree(w)
  <2>1. PICK w \in Workers : FindTree(w)
    BY <1>5
  <2> DEFINE flag == backfill_items = {} /\ work[w].seq > 1
  <2>2. /\ Happens(Disturbed) /\ work[w].pc = "find"
        /\ work' = [work EXCEPT ![w] = [work[w] EXCEPT !.pc = "insert", !.force_chk = flag]]
    BY <1>0, <2>1, Zenon DEF FindTree
  <2>3. filler.pc \notin Cleanup
    BY <1>0, <2>2, NoEvent DEF Disturbed
  <2>4. work'[w].force_chk = flag /\ work'[w].seq = work[w].seq
    BY <1>0, <2>2 DEF WorkType
  <2>5. work[w].seq \in 1 .. length
    BY <1>0, <2>2 DEF BusyIsStored
  <2>6. \A u \in Workers : u # w => work'[u] = work[u]
    BY <1>0, <2>2
  <2>7. UnflaggedIsSafe'
    <3>1. ASSUME NEW u \in Workers, work'[u].pc = "insert", ~work'[u].force_chk
          PROVE  work'[u].seq = 1 \/ backfill_items # {}
      <4>1. CASE u = w
        <5>1. ~flag
          <6> HIDE DEF flag
          <6> QED
            BY <2>4, <3>1, <4>1, Zenon
        <5>2. backfill_items # {} \/ work[w].seq = 1
          BY <1>0, <2>5, <5>1
        <5> QED
          BY <2>4, <4>1, <5>2, Zenon
      <4>2. CASE u # w
        BY <2>6, <3>1, <4>2, Zenon DEF CalmInv, UnflaggedIsSafe
      <4> QED
        BY <4>1, <4>2, Zenon
    <3> QED
      BY <1>1, <3>1, Zenon DEF UnflaggedIsSafe
  <2> QED
    BY <1>1, <1>2, <2>3, <2>7, CalmFrame, Zenon
<1> QED
  BY <1>3, <1>4, <1>5 DEF Change, get_missing_trees, vars

\* A row comes in while the filler neither selects nor cleans up.
LEMMA CalmInsert ==
    ASSUME TypeInv, TypeInv', CalmInv, NEW row, NEW q \in Nat,
           backfill_items' = backfill_items \cup {row}, row.seq = q,
           ~row.backfilled, ~row.failed, ~row.locked, filler' = filler,
           filler.pc \notin {"multi_row"} \cup Cleanup, Lost' \subseteq Lost, q \notin Lost',
           row.force_chk \/ backfill_items # {} \/ q <= 1
    PROVE  CalmInv'
<1>1. \A s \in Lost' : s \in Nat /\ s >= 1 /\ s # q
  BY Now DEF Lost
<1>2. ASSUME NEW s \in Lost', Shows(s), backfill_items # {} \/ q <= 1
      PROVE  Shows(s)'
  <2>1. backfill_items # {} \/ q <= s
    BY <1>1, <1>2
  <2> QED
    BY <1>1, <1>2, <2>1, InsertShows, Zenon
<1>3. \A s \in Lost' : InSight(s)'
  <2> SUFFICES ASSUME NEW s \in Lost' PROVE InSight(s)'
    OBVIOUS
  <2>1. CASE row.force_chk \/ \E r \in backfill_items : r.force_chk
    BY <2>1 DEF InSight
  <2>2. CASE ~row.force_chk /\ ~\E r \in backfill_items : r.force_chk
    <3>1. Shows(s)
      BY <2>2 DEF CalmInv, InSight, Shows
    <3>2. Shows(s)'
      BY <1>2, <2>2, <3>1
    <3> QED
      BY <3>2 DEF Shows, InSight
  <2> QED
    BY <2>1, <2>2
<1>4. RowsAreFree'
  BY Zenon DEF CalmInv, RowsAreFree, Searching
<1>5. SelectedForced' /\ OneKind' /\ ForcedIsZero' /\ CleanIsSafe'
  BY Zenon DEF CalmInv, SelectedForced, OneKind, Forced, Single, ForcedIsZero, CleanIsSafe
<1>6. SingleShows'
  <2> SUFFICES ASSUME Single, filler.pc \in {"fill", "plug"}
               PROVE  \A s \in Lost' : Shows(s)'
    BY DEF SingleShows, Single
  <2>1. backfill_items # {} /\ \A s \in Lost : Shows(s)
    BY DEF CalmInv, SingleShows
  <2> QED
    BY <1>2, <2>1
<1>7. SingleIsPlugged'
  BY Zenon DEF CalmInv, SingleIsPlugged, Single, ToPlug
<1>8. UnflaggedIsSafe'
  BY DEF UnflaggedIsSafe
<1> QED
  BY <1>3, <1>4, <1>5, <1>6, <1>7, <1>8, Zenon DEF CalmInv

\* A row that a worker or the finder inserts hides no change.
LEMMA CalmInserts ==
    ASSUME RowInv, TypeInv', CalmInv, ~mishap',
           force_backfill_missing_trees \/ \E w \in Workers : InsertItem(w)
    PROVE  CalmInv'
<1>0. /\ TypeInv /\ work \in [Workers -> WorkType(length)] /\ length \in Nat /\ BusyIsStored
      /\ Cardinality(backfill_items) \in Nat /\ MaxRows \in Nat /\ stored \subseteq 1 .. length
  BY Now, Counted, Zenon DEF RowInv, TypeInv, TypeOK
<1>1. Happens(Disturbed) /\ filler' = filler
  BY Zenon DEF force_backfill_missing_trees, InsertItem
<1>2. filler.pc \notin {"multi_row"} \cup Cleanup
  BY <1>0, <1>1, NoEvent DEF Disturbed
<1>3. CASE force_backfill_missing_trees
  <2> DEFINE row == Row(0, TRUE)
  <2>1. backfill_items' = backfill_items \cup {row} /\ finder = "missing" /\ Lost' = Lost
    BY <1>3 DEF force_backfill_missing_trees, tree, Lost
  <2>2. row.seq = 0 /\ ~row.backfilled /\ ~row.failed /\ ~row.locked /\ row.force_chk
    BY Zenon DEF Row
  <2>3. 0 \notin Lost'
    BY <1>0, <2>1 DEF Lost
  <2> HIDE DEF row
  <2> QED
    BY <1>0, <1>1, <1>2, <2>1, <2>2, <2>3, CalmInsert
<1>4. CASE \E w \in Workers : InsertItem(w)
  <2>1. PICK w \in Workers : InsertItem(w)
    BY <1>4
  <2> DEFINE q == work[w].seq
             row == Row(work[w].seq, work[w].force_chk)
  <2>2. /\ work[w].pc = "insert" /\ backfill_items' = backfill_items \cup {row}
        /\ stream' = stream \/ stream' = stream \ {q}
        /\ length' = length /\ stored' = stored
    BY <2>1, Zenon DEF InsertItem
  <2>3. q \in stored /\ q \in 1 .. length
    BY <1>0, <2>2, Zenon DEF BusyIsStored
  <2>4. Lost' \subseteq Lost /\ q \notin Lost'
    BY <2>2, <2>3, Zenon DEF Lost
  <2>5. row.seq = q /\ ~row.backfilled /\ ~row.failed /\ ~row.locked /\ row.force_chk = work[w].force_chk
    BY Zenon DEF Row
  <2> HIDE DEF row
  <2>6. row.force_chk \/ backfill_items # {} \/ q <= 1
    <3>1. ~work[w].force_chk => q = 1 \/ backfill_items # {}
      BY <2>2, Zenon DEF CalmInv, UnflaggedIsSafe
    <3>2. q = 1 => q <= 1
      OBVIOUS
    <3> QED
      BY <2>5, <3>1, <3>2, Zenon
  <2>7. q \in Nat
    BY <1>0, <2>3
  <2> HIDE DEF q
  <2> QED
    BY <1>0, <1>1, <1>2, <2>2, <2>4, <2>5, <2>6, <2>7, CalmInsert, Zenon
<1> QED
  BY <1>3, <1>4

\* As many forced trees as there are slots.
LEMMA ForcedTrees ==
    ASSUME NEW k \in Nat, NEW t, t = [n \in 1 .. k |-> TRUE]
    PROVE  (\A n \in DOMAIN t : t[n]) /\ (t = << >> <=> k = 0)
<1>1. \A n \in DOMAIN t : t[n]
  BY Zenon
<1>2. DOMAIN t = 1 .. k
  BY Zenon
<1>3. ASSUME t = << >> PROVE k = 0
  <2>1. DOMAIN t = {}
    BY <1>3
  <2>2. 1 .. k = {}
    BY <1>2, <2>1
  <2> QED
    BY <2>2
<1>4. ASSUME k = 0 PROVE t = << >>
  <2>1. t = [n \in {} |-> TRUE]
    BY <1>4
  <2> QED
    BY <2>1
<1> QED
  BY <1>1, <1>3, <1>4

\* The first tree tells which kind there is.
LEMMA FirstTree ==
    ASSUME TypeInv, OneKind, filler.trees # << >>
    PROVE  (Head(filler.trees) <=> Forced) /\ (~Head(filler.trees) <=> Single)
<1>1. filler.trees \in Seq(BOOLEAN)
  BY Now DEF FillerOK, FillerType
<1>2. ASSUME NEW S, NEW t \in Seq(S), t # << >>
      PROVE  1 \in DOMAIN t /\ Head(t) = t[1]
  BY <1>2
<1>3. 1 \in DOMAIN filler.trees /\ Head(filler.trees) = filler.trees[1]
  BY <1>1, <1>2, Zenon
<1>4. Forced => filler.trees[1]
  BY <1>3, Zenon DEF Forced
<1>5. Single => ~filler.trees[1]
  <2>1. <<FALSE>>[1] = FALSE
    OBVIOUS
  <2> QED
    BY <2>1, Zenon DEF Single
<1> QED
  BY <1>3, <1>4, <1>5, Zenon DEF OneKind

\* The parts of CalmInv that only a tree at hand puts to the test.
LEMMA CalmSearch ==
    ASSUME TypeInv, CalmInv, Lost' = Lost, work' = work,
           NEW f, backfill_items' = {f[r] : r \in backfill_items},
           \A r \in backfill_items : /\ f[r].seq = r.seq /\ f[r].backfilled = r.backfilled
                                     /\ f[r].force_chk = r.force_chk /\ f[r].failed = r.failed,
           filler'.pc \in {"idle", "multi_row", "fill"}, OneKind', SelectedForced',
           filler'.pc # "fill" => \A r \in backfill_items : ~f[r].locked,
           Single' /\ filler'.pc = "fill" => backfill_items # {} /\ \A s \in Lost : Shows(s)
    PROVE  CalmInv'
<1>1. \A s \in Lost' : InSight(s)'
  BY SameShows, Zenon DEF CalmInv
<1>2. RowsAreFree'
  <2>1. \A r \in backfill_items : ~f[r].failed
    BY Zenon DEF CalmInv, RowsAreFree
  <2>2. \A r \in backfill_items' : ~r.failed
    BY <2>1, Zenon
  <2>3. filler'.pc # "fill" => \A r \in backfill_items' : ~r.locked
    BY Zenon
  <2> QED
    BY <2>2, <2>3, Zenon DEF RowsAreFree, Searching
<1>3. SingleShows'
  <2> SUFFICES ASSUME Single', filler'.pc \in {"fill", "plug"}
               PROVE  backfill_items' # {} /\ \A s \in Lost' : Shows(s)'
    BY Zenon DEF SingleShows
  <2>1. backfill_items # {} /\ \A s \in Lost : Shows(s)
    BY Zenon
  <2>2. \A s \in Lost' : Shows(s)'
    BY <2>1, SameShows, Zenon
  <2>3. backfill_items' # {}
    BY <2>1, Zenon
  <2> QED
    BY <2>2, <2>3, Zenon
<1>4. SingleIsPlugged' /\ ForcedIsZero' /\ CleanIsSafe'
  BY Zenon DEF SingleIsPlugged, ForcedIsZero, CleanIsSafe, Cleanup
<1>5. UnflaggedIsSafe'
  <2>1. backfill_items # {} => backfill_items' # {}
    BY Zenon
  <2> QED
    BY <2>1, Zenon DEF CalmInv, UnflaggedIsSafe
<1> QED
  BY <1>1, <1>2, <1>3, <1>4, <1>5, Zenon DEF CalmInv

\* Rows that stay as they are.
LEMMA CalmSearchRows ==
    ASSUME TypeInv, CalmInv, Lost' = Lost, work' = work, backfill_items' = backfill_items,
           filler'.pc \in {"idle", "multi_row", "fill"}, OneKind', SelectedForced',
           filler'.pc # "fill" => \A r \in backfill_items : ~r.locked,
           Single' /\ filler'.pc = "fill" => backfill_items # {} /\ \A s \in Lost : Shows(s)
    PROVE  CalmInv'
<1> DEFINE f == [r \in backfill_items |-> r]
<1>1. \A r \in backfill_items : f[r] = r
  OBVIOUS
<1>2. backfill_items' = {f[r] : r \in backfill_items}
  BY <1>1
<1> HIDE DEF f
<1>3. \A r \in backfill_items : /\ f[r].seq = r.seq /\ f[r].backfilled = r.backfilled
                                /\ f[r].force_chk = r.force_chk /\ f[r].failed = r.failed
  BY <1>1
<1>4. filler'.pc # "fill" => \A r \in backfill_items : ~f[r].locked
  BY <1>1
<1> QED
  BY <1>2, <1>3, <1>4, CalmSearch, Zenon

\* The SELECT of flagged trees keeps changes in sight.
LEMMA CalmSelectForced ==
    ASSUME TypeInv, CalmInv, SelectForced
    PROVE  CalmInv'
<1> DEFINE flagged == {q \in Available(backfill_items) : q.force_chk}
           slots == {SlotOf[r.seq] : r \in flagged}
           trees == [n \in 1 .. Cardinality(slots) |-> TRUE]
           keys == {Key(r) : r \in backfill_items}
           mine == IF slots = {} THEN {} ELSE keys
<1>1. /\ filler' = [filler EXCEPT !.pc = "multi_row", !.trees = trees, !.mine = mine]
      /\ UNCHANGED <<backfill_items, work>> /\ Lost' = Lost /\ filler.pc = "idle"
  BY DEF SelectForced, tree, Lost
<1>2. IsFiniteSet(slots)
  <2>1. slots = {SlotOf[r.seq] : r \in {q \in backfill_items : ~q.failed /\ ~q.locked /\ q.force_chk}}
    BY DEF Available
  <2> QED
    BY <2>1, FlaggedSlots, Zenon
<1>3. Cardinality(slots) \in Nat /\ (Cardinality(slots) = 0 <=> slots = {})
  <2> HIDE DEF slots
  <2> QED
    BY <1>2, FS_CardinalityType, FS_EmptySet
<1>4. (\A n \in DOMAIN trees : trees[n]) /\ (trees = << >> <=> slots = {})
  <2> HIDE DEF slots
  <2> QED
    BY <1>3, ForcedTrees
<1>5. \A r \in backfill_items : ~r.failed /\ ~r.locked
  BY <1>1 DEF CalmInv, RowsAreFree, Searching
<1>6. slots = {} => \A r \in backfill_items : ~r.force_chk
  BY <1>5, Zenon DEF Available
<1> HIDE DEF trees, slots
<1>7. filler'.pc = "multi_row" /\ filler'.trees = trees /\ filler'.mine = mine
  <2> HIDE DEF mine
  <2> QED
    BY <1>1, Now DEF FillerOK, FillerType
<1>8. Forced'
  BY <1>4, <1>7, Zenon DEF Forced
<1>9. SelectedForced'
  <2>1. keys' = keys
    BY <1>1 DEF Key
  <2>2. CASE slots = {}
    BY <1>1, <1>4, <1>6, <1>7, <1>8, <2>2 DEF SelectedForced
  <2>3. CASE slots # {}
    <3>1. filler'.mine = keys' /\ filler'.trees # << >>
      BY <1>4, <1>7, <2>1, <2>3, Zenon
    <3> QED
      BY <1>8, <3>1 DEF SelectedForced
  <2> QED
    BY <2>2, <2>3
<1> QED
  BY <1>1, <1>5, <1>7, <1>8, <1>9, CalmSearchRows DEF OneKind

\* Joining no trees.
LEMMA NothingJoined ==
    ASSUME NEW S, NEW t \in Seq(S)
    PROVE  t \o << >> = t /\ << >> \o t = t
OBVIOUS

\* The SELECT of trees with several rows keeps changes in sight.
LEMMA CalmSelectMultiRow ==
    ASSUME TypeInv, CalmInv, SelectMultiRow
    PROVE  CalmInv'
<1> DEFINE free == {r \in Available(backfill_items) : Key(r) \notin filler.mine}
           several == Cardinality(free) > 1
           trees == filler.trees \o (IF several THEN <<FALSE>> ELSE << >>)
           pc == IF trees = << >> THEN "idle" ELSE "fill"
           f == [r \in backfill_items |-> [r EXCEPT !.locked = @ \/ several \/ Key(r) \in filler.mine]]
<1>1. /\ filler' = [filler EXCEPT !.trees = trees, !.mine = {}, !.tries = 1, !.pc = pc]
      /\ backfill_items' =
            {[r EXCEPT !.locked = @ \/ several \/ Key(r) \in filler.mine] : r \in backfill_items}
      /\ work' = work /\ Lost' = Lost /\ filler.pc = "multi_row"
  BY DEF SelectMultiRow, tree, Lost
<1>2. backfill_items' = {f[r] : r \in backfill_items}
  BY <1>1, Zenon
<1>3. \A r \in backfill_items :
         /\ f[r].seq = r.seq /\ f[r].backfilled = r.backfilled
         /\ f[r].force_chk = r.force_chk /\ f[r].failed = r.failed
         /\ f[r].locked = (r.locked \/ several \/ Key(r) \in filler.mine)
  <2>1. ASSUME NEW r \in RowType(length), NEW v
        PROVE  LET q == [r EXCEPT !.locked = v]
               IN  /\ q.seq = r.seq /\ q.backfilled = r.backfilled
                   /\ q.force_chk = r.force_chk /\ q.failed = r.failed /\ q.locked = v
    BY DEF RowType
  <2>2. backfill_items \subseteq RowType(length)
    BY TableNow DEF Table
  <2> QED
    BY <2>1, <2>2, ZenonT(30)
<1>31. \A r \in backfill_items : /\ f[r].seq = r.seq /\ f[r].backfilled = r.backfilled
                                 /\ f[r].force_chk = r.force_chk /\ f[r].failed = r.failed
  BY <1>3, Zenon
<1>4. filler'.pc = pc /\ filler'.trees = trees
  <2> HIDE DEF pc, trees
  <2> QED
    BY <1>1, Now DEF FillerOK, FillerType
<1>5. filler.trees \in Seq(BOOLEAN)
  BY Now DEF FillerOK, FillerType
<1>6. /\ Forced
      /\ filler.trees = << >> => filler.mine = {} /\ \A r \in backfill_items : ~r.force_chk
      /\ filler.trees # << >> => filler.mine = {Key(r) : r \in backfill_items}
      /\ \A r \in backfill_items : ~r.locked
  BY <1>1 DEF CalmInv, SelectedForced, RowsAreFree, Searching
<1>7. SelectedForced'
  BY <1>4 DEF SelectedForced
<1>8. CASE filler.trees # << >>
  <2>1. free = {}
    BY <1>6, <1>8, Zenon DEF Available
  <2>2. ~several
    <3>1. Cardinality(free) = 0
      BY <2>1, FS_EmptySet, Zenon
    <3> QED
      BY <3>1
  <2>3. trees = filler.trees
    BY <1>5, <2>2, NothingJoined, Zenon
  <2>4. Forced' /\ pc = "fill"
    <3>1. filler'.trees = filler.trees
      BY <1>4, <2>3, Zenon
    <3>2. Forced'
      BY <1>6, <3>1, Zenon DEF Forced
    <3>3. pc = "fill"
      BY <1>8, <2>3
    <3> QED
      BY <3>2, <3>3
  <2>5. ~Single'
    <3>1. filler'.trees = filler.trees /\ Head(filler.trees)
      BY <1>4, <1>6, <1>8, <2>3, FirstTree, Zenon DEF OneKind
    <3>2. ~Single
      BY <1>8, <3>1, FirstTree, Zenon DEF CalmInv
    <3> QED
      BY <3>1, <3>2, Zenon DEF Single
  <2> HIDE DEF f, trees, pc, several
  <2> QED
    <3>1. OneKind'
      BY <2>4 DEF OneKind
    <3>2. filler'.pc = "fill"
      BY <1>4, <2>4
    <3> QED
      BY <1>1, <1>2, <1>31, <1>7, <2>5, <3>1, <3>2, CalmSearch, Zenon
<1>9. CASE filler.trees = << >> /\ several
  <2>1. trees = <<FALSE>>
    <3>1. <<FALSE>> \in Seq(BOOLEAN)
      OBVIOUS
    <3>2. trees = << >> \o <<FALSE>>
      BY <1>9, Zenon
    <3> QED
      BY <3>1, <3>2, NothingJoined, Zenon
  <2>2. pc = "fill"
    <3>1. \A x : <<x>> # << >>
      OBVIOUS
    <3> QED
      BY <2>1, <3>1, Zenon
  <2>3. Single'
    BY <1>4, <2>1, Zenon DEF Single
  <2>4. \A s \in Lost : Shows(s)
    BY <1>6, <1>9, Zenon DEF CalmInv, InSight, Shows
  <2>5. backfill_items # {}
    <3>1. ASSUME backfill_items = {} PROVE FALSE
      <4>1. free = {}
        BY <3>1 DEF Available
      <4>2. Cardinality(free) = 0
        BY <4>1, FS_EmptySet, Zenon
      <4> QED
        BY <1>9, <4>2
    <3> QED
      BY <3>1
  <2> HIDE DEF f, trees, pc, several
  <2> QED
    <3>1. OneKind'
      BY <2>3 DEF OneKind
    <3>2. filler'.pc = "fill"
      BY <1>4, <2>2
    <3> QED
      BY <1>1, <1>2, <1>31, <1>7, <2>4, <2>5, <3>1, <3>2, CalmSearch, Zenon
<1>10. CASE filler.trees = << >> /\ ~several
  <2>1. trees = << >>
    BY <1>5, <1>10
  <2>2. pc = "idle"
    BY <2>1
  <2>3. Forced'
    <3>1. filler'.trees = << >>
      BY <1>4, <2>1
    <3> QED
      BY <3>1 DEF Forced
  <2>4. \A r \in backfill_items : ~f[r].locked
    BY <1>3, <1>6, <1>10, Zenon
  <2> HIDE DEF f, trees, pc, several
  <2> QED
    <3>1. OneKind'
      BY <2>3 DEF OneKind
    <3>2. filler'.pc = "idle"
      BY <1>4, <2>2
    <3> QED
      BY <1>1, <1>2, <1>31, <1>7, <2>4, <3>1, <3>2, CalmSearch, Zenon
<1> QED
  BY <1>8, <1>9, <1>10, Zenon

\* A failure that is no mishap leaves the rows.
LEMMA CalmFailures ==
    ASSUME TypeInv, CalmInv, ~mishap', SelectFails \/ NoRows \/ TryFails \/ CleanupFails
    PROVE  CalmInv'
<1>1. ~mark_tree_as_failed(0) /\ ~mark_tree_as_failed(1)
  <2>1. 0 \in 0 .. 1 /\ 1 \in 0 .. 1
    OBVIOUS
  <2> QED
    BY <2>1, GivenUp, Zenon
<1>2. CASE SelectFails
  <2>1. /\ filler' = Resting /\ UNCHANGED <<backfill_items, work>> /\ Lost' = Lost
        /\ filler.pc = "multi_row"
    BY <1>2 DEF SelectFails, tree, Lost
  <2>2. filler'.pc = "idle" /\ filler'.trees = << >>
    BY <2>1, Zenon DEF Resting
  <2>3. Forced'
    BY <2>2 DEF Forced
  <2>4. SelectedForced' /\ OneKind'
    BY <2>2, <2>3 DEF SelectedForced, OneKind
  <2>5. \A r \in backfill_items : ~r.locked
    BY <2>1 DEF CalmInv, RowsAreFree, Searching
  <2> QED
    BY <2>1, <2>2, <2>4, <2>5, CalmSearchRows, Zenon
<1>3. CASE TryFails
  <2>1. /\ filler' = [filler EXCEPT !.pc = "fill", !.gaps = {}, !.slots = {}, !.tries = @ + 1]
        /\ UNCHANGED <<backfill_items, work>> /\ Lost' = Lost /\ filler.pc \in {"fill", "plug"}
    BY <1>1, <1>3 DEF TryFails, tree, Lost
  <2>2. filler'.pc = "fill" /\ filler'.trees = filler.trees
    BY <2>1, Now DEF FillerOK, FillerType
  <2>3. OneKind' /\ SelectedForced' /\ (Single' <=> Single)
    BY <2>2, Zenon DEF CalmInv, OneKind, Forced, Single, SelectedForced
  <2>4. Single => backfill_items # {} /\ \A s \in Lost : Shows(s)
    BY <2>1 DEF CalmInv, SingleShows
  <2> QED
    BY <2>1, <2>2, <2>3, <2>4, CalmSearchRows
<1> QED
  BY <1>1, <1>2, <1>3, Zenon DEF NoRows, CleanupFails

\* Steps while gaps are plugged.
LEMMA CalmPlugs ==
    ASSUME CalmInv, UNCHANGED <<backfill_items, work>>, Lost' \subseteq Lost,
           filler.pc \in {"fill", "plug"}, filler'.pc = "plug", filler'.trees = filler.trees,
           SingleIsPlugged', ForcedIsZero'
    PROVE  CalmInv'
<1>1. \A s \in Lost' : InSight(s)'
  BY Zenon DEF CalmInv, InSight, Gaps, Candidates, start_seq
<1>2. RowsAreFree' /\ SelectedForced' /\ OneKind' /\ CleanIsSafe'
  BY Zenon DEF CalmInv, RowsAreFree, Searching, SelectedForced, OneKind, Forced, Single, CleanIsSafe, Cleanup
<1>3. SingleShows'
  BY Zenon DEF CalmInv, SingleShows, Single, Shows, Gaps, Candidates, start_seq
<1>4. UnflaggedIsSafe'
  BY DEF CalmInv, UnflaggedIsSafe
<1> QED
  BY <1>1, <1>2, <1>3, <1>4, Zenon DEF CalmInv

\* The ranges that plug_gap asks for leave out no slot between two changes.
RangesCover ==
    \A s, t \in 0 .. MaxSeq : s <= t =>
        SlotOf[s] .. SlotOf[t] \subseteq UNION Ranges(SlotOf[s], SlotOf[t])

\* A gap is plugged with all its slots, where the ranges cover it.
LEMMA CalmPlugging ==
    ASSUME RangesCover, RowInv, CalmInv, ~mishap',
           backfill_tree_from_seq_1 \/ get_missing_data \/ get_blocks \/ plug_gap
    PROVE  CalmInv'
<1>1. /\ TypeInv /\ filler.pc \in {"fill", "plug"} /\ UNCHANGED <<backfill_items, work>>
      /\ length' = length /\ stored' = stored /\ stream \subseteq stream'
      /\ GapsAreOfChanges /\ filler.trees # << >>
  BY Now, Zenon DEF RowInv, backfill_tree_from_seq_1, get_missing_data, get_blocks, plug_gap, tree, FillerOK
<1>2. Lost' \subseteq Lost
  BY <1>1 DEF Lost
<1>3. \A s \in Lost : s \in 1 .. length /\ s \in 0 .. MaxSeq /\ s \in Nat
  BY <1>1, Now, BoundsAssumption DEF Lost
<1>4. (Head(filler.trees) <=> Forced) /\ (~Head(filler.trees) <=> Single)
  BY <1>1, FirstTree, Zenon DEF CalmInv
<1>5. ASSUME filler'.trees = filler.trees
      PROVE  (Forced' <=> Forced) /\ (Single' <=> Single)
  BY <1>5 DEF Forced, Single
<1>6. CASE backfill_tree_from_seq_1
  <2> DEFINE gaps == {<<SlotOf[s], SlotOf[s]>> : s \in 1 .. length}
  <2>1. filler' = [filler EXCEPT !.pc = "plug", !.max_seq = 0, !.gaps = gaps] /\ Head(filler.trees)
    BY <1>6, Zenon DEF backfill_tree_from_seq_1
  <2> HIDE DEF gaps
  <2>2. filler'.pc = "plug" /\ filler'.trees = filler.trees /\ filler'.max_seq = 0
    BY <1>1, <2>1, Now, Zenon DEF FillerOK, FillerType
  <2>3. ForcedIsZero' /\ SingleIsPlugged'
    BY <1>4, <1>5, <2>1, <2>2, Zenon DEF ForcedIsZero, SingleIsPlugged
  <2> QED
    BY <1>1, <1>2, <2>2, <2>3, CalmPlugs, Zenon
<1>7. CASE get_missing_data
  <2> DEFINE gaps == {<<SlotOf[g[1]], SlotOf[g[2]]>> : g \in Gaps}
  <2>1. /\ filler' = [filler EXCEPT !.pc = "plug", !.max_seq = MaxOf(Candidates), !.gaps = gaps]
        /\ ~Head(filler.trees) /\ Candidates # {} /\ filler.pc = "fill"
    BY <1>7, Zenon DEF get_missing_data
  <2>2. /\ filler'.pc = "plug" /\ filler'.trees = filler.trees
        /\ filler'.max_seq = MaxOf(Candidates) /\ filler'.gaps = gaps
    <3> HIDE DEF gaps
    <3> QED
      BY <1>1, <2>1, Now, Zenon DEF FillerOK, FillerType
  <2>3. ForcedIsZero'
    BY <1>4, <1>5, <2>1, <2>2, Zenon DEF ForcedIsZero
  <2>4. ASSUME NEW s \in Lost
        PROVE  s > MaxOf(Candidates) \/ \E g \in gaps : SlotOf[s] \in g[1] .. g[2]
    <3>1. Shows(s)
      BY <1>4, <2>1, Zenon DEF CalmInv, SingleShows
    <3>2. CASE \A r \in backfill_items : r.seq < s
      <4>1. MaxOf(Candidates) \in Candidates
        BY <1>1, <2>1, StartSeq, Zenon
      <4>2. \E r \in backfill_items : r.seq = MaxOf(Candidates)
        BY <4>1, Zenon DEF Candidates
      <4>3. MaxOf(Candidates) \in Nat
        BY <1>1, <4>1, StartSeq, Now
      <4> QED
        BY <1>3, <3>2, <4>2, <4>3, Zenon
    <3>3. CASE \E g \in Gaps : g[1] < s /\ s < g[2]
      <4>1. PICK g \in Gaps : g[1] < s /\ s < g[2]
        BY <3>3
      <4>2. g[1] \in 0 .. MaxSeq /\ g[2] \in 0 .. MaxSeq
        BY Zenon DEF Gaps, Candidates
      <4>3. SlotOf[g[1]] <= SlotOf[s] /\ SlotOf[s] <= SlotOf[g[2]]
        BY <1>3, <4>1, <4>2, BoundsAssumption, SMTT(30)
      <4>4. SlotOf[g[1]] \in Nat /\ SlotOf[s] \in Nat /\ SlotOf[g[2]] \in Nat
        BY <1>3, <4>2, BoundsAssumption, Zenon
      <4>5. SlotOf[s] \in SlotOf[g[1]] .. SlotOf[g[2]]
        BY <4>3, <4>4
      <4>6. <<SlotOf[g[1]], SlotOf[g[2]]>> \in gaps
        BY Zenon
      <4> QED
        BY <4>5, <4>6, Zenon
    <3> QED
      BY <3>1, <3>2, <3>3, Zenon DEF Shows
  <2> HIDE DEF gaps
  <2>5. SingleIsPlugged'
    BY <1>2, <2>2, <2>4, Zenon DEF SingleIsPlugged, ToPlug
  <2> QED
    BY <1>1, <1>2, <2>2, <2>3, <2>5, CalmPlugs, Zenon
<1>8. CASE get_blocks
  <2>0. PICK gap \in filler.gaps : \E answered \in SUBSET Ranges(gap[1], gap[2]) :
           /\ Happens(IF answered = Ranges(gap[1], gap[2]) THEN {} ELSE {"blocks"})
           /\ filler' = [filler EXCEPT !.gaps = @ \ {gap}, !.slots = UNION answered]
    BY <1>8, Zenon DEF get_blocks
  <2>1. filler' = [filler EXCEPT !.gaps = filler.gaps \ {gap}, !.slots = UNION Ranges(gap[1], gap[2])]
    <3>1. PICK answered \in SUBSET Ranges(gap[1], gap[2]) :
             /\ Happens(IF answered = Ranges(gap[1], gap[2]) THEN {} ELSE {"blocks"})
             /\ filler' = [filler EXCEPT !.gaps = @ \ {gap}, !.slots = UNION answered]
      BY <2>0, Zenon
    <3>2. (IF answered = Ranges(gap[1], gap[2]) THEN {} ELSE {"blocks"}) = {}
      BY <1>1, <3>1, NoEvent, Zenon
    <3>3. answered = Ranges(gap[1], gap[2])
      BY <3>2, Zenon
    <3> QED
      BY <3>1, <3>3
  <2>2. filler.pc = "plug" /\ filler.slots = {}
    BY <1>8, Zenon DEF get_blocks
  <2>3. /\ filler'.pc = "plug" /\ filler'.trees = filler.trees /\ filler'.max_seq = filler.max_seq
        /\ filler'.gaps = filler.gaps \ {gap} /\ filler'.slots = UNION Ranges(gap[1], gap[2])
    BY <1>1, <2>1, <2>2, Fields
  <2>4. gap[1] .. gap[2] \subseteq UNION Ranges(gap[1], gap[2])
    <3>1. PICK s \in 0 .. MaxSeq, t \in 0 .. MaxSeq : s <= t /\ gap = <<SlotOf[s], SlotOf[t]>>
      BY <1>1, Zenon DEF GapsAreOfChanges
    <3> QED
      BY <3>1, Zenon DEF RangesCover
  <2>5. ForcedIsZero'
    BY <1>5, <2>2, <2>3, Zenon DEF CalmInv, ForcedIsZero
  <2>6. SingleIsPlugged'
    BY <1>2, <1>5, <2>2, <2>3, <2>4, Zenon DEF CalmInv, SingleIsPlugged, ToPlug
  <2> QED
    BY <1>1, <1>2, <2>3, <2>5, <2>6, CalmPlugs, Zenon
<1>9. CASE plug_gap
  <2>1. PICK slot \in filler.slots :
           /\ filler' = [filler EXCEPT !.slots = filler.slots \ {slot}]
           /\ stream' = stream \cup {s \in 1 .. length : SlotOf[s] = slot}
    BY <1>9 DEF plug_gap
  <2>2. filler.pc = "plug"
    BY <1>9 DEF plug_gap
  <2>3. /\ filler'.pc = "plug" /\ filler'.trees = filler.trees /\ filler'.max_seq = filler.max_seq
        /\ filler'.gaps = filler.gaps /\ filler'.slots = filler.slots \ {slot}
    BY <1>1, <2>1, <2>2, Fields
  <2>4. \A s \in Lost' : SlotOf[s] # slot
    BY <1>1, <2>1 DEF Lost
  <2>5. ForcedIsZero'
    BY <1>5, <2>2, <2>3, Zenon DEF CalmInv, ForcedIsZero
  <2>6. SingleIsPlugged'
    BY <1>2, <1>5, <2>2, <2>3, <2>4, Zenon DEF CalmInv, SingleIsPlugged, ToPlug
  <2> QED
    BY <1>1, <1>2, <2>3, <2>5, <2>6, CalmPlugs, Zenon
<1> QED
  BY <1>6, <1>7, <1>8, <1>9

\* When plugging is over, the changes between the rows are on their way.
LEMMA CalmPlugged ==
    ASSUME RowInv, CalmInv, ~mishap', Plugged
    PROVE  CalmInv'
<1>1. /\ TypeInv /\ filler.pc = "plug" /\ filler.gaps = {} /\ filler.slots = {}
      /\ filler' = Then("delete") /\ UNCHANGED <<backfill_items, work>> /\ Lost' = Lost
  BY DEF RowInv, Plugged, Then, tree, Lost
<1>2. \A w \in Workers : work[w].pc # "insert"
  <2>1. (IF \E w \in Workers : work[w].pc = "insert" THEN {"cleanup"} ELSE {}) = {}
    BY <1>1, NoEvent DEF Plugged
  <2> QED
    BY <2>1
<1>3. filler'.pc = "delete" /\ filler'.trees = filler.trees /\ filler'.max_seq = filler.max_seq
  <2>1. "delete" \in Pcs
    BY DEF Pcs, Cleanup
  <2> QED
    BY <1>1, <2>1, Fields
<1>4. \A s \in Lost : s > filler.max_seq
  <2>1. CASE Single
    BY <1>1, <2>1 DEF CalmInv, SingleIsPlugged, ToPlug
  <2>2. CASE Forced
    <3>1. filler.max_seq = 0
      BY <1>1, <2>2 DEF CalmInv, ForcedIsZero
    <3> QED
      BY <1>1, <3>1, Now DEF Lost
  <2> QED
    BY <2>1, <2>2 DEF CalmInv, OneKind
<1>5. \A s \in Lost' : InSight(s)'
  BY <1>1, Zenon DEF CalmInv, InSight, Gaps, Candidates, start_seq
<1>6. RowsAreFree' /\ SelectedForced' /\ OneKind' /\ ForcedIsZero' /\ SingleShows' /\ SingleIsPlugged'
  BY <1>1, <1>3, Zenon DEF CalmInv, RowsAreFree, Searching, SelectedForced, OneKind, Forced, Single,
                    ForcedIsZero, SingleShows, SingleIsPlugged
<1>7. CleanIsSafe'
  BY <1>1, <1>2, <1>3, <1>4, Zenon DEF CleanIsSafe
<1>8. UnflaggedIsSafe'
  BY <1>1, Zenon DEF CalmInv, UnflaggedIsSafe
<1> QED
  BY <1>5, <1>6, <1>7, <1>8 DEF CalmInv

\* The statements of the cleanup, whichever rows they leave.
LEMMA CalmStatement ==
    ASSUME TypeInv, CalmInv, filler.pc \in Cleanup, UNCHANGED work, Lost' = Lost,
           NEW pc \in Cleanup \ {"delete"}, filler' = Then(pc),
           \A r \in backfill_items' : r.seq = filler.max_seq /\ ~r.failed
    PROVE  CalmInv'
<1>1. filler'.pc = pc /\ filler'.trees = filler.trees /\ filler'.max_seq = filler.max_seq
  <2>1. pc \in Pcs
    BY DEF Pcs
  <2> QED
    BY <2>1, Fields
<1>2. \A s \in Lost : s > filler.max_seq
  BY Zenon DEF CalmInv, CleanIsSafe
<1>3. filler.max_seq \in Nat /\ \A s \in Lost : s \in Nat
  BY Now DEF FillerOK, FillerType, Lost
<1>4. \A s \in Lost' : InSight(s)'
  BY <1>2, <1>3 DEF InSight
<1>5. pc \in {"dedupe", "mark", "clear", "unlock"}
  BY DEF Cleanup
<1>6. RowsAreFree' /\ SelectedForced' /\ OneKind' /\ ForcedIsZero' /\ SingleShows' /\ SingleIsPlugged'
  BY <1>1, <1>5, Zenon DEF CalmInv, RowsAreFree, Searching, SelectedForced, OneKind, Forced, Single,
                    ForcedIsZero, SingleShows, SingleIsPlugged
<1>7. CleanIsSafe' /\ UnflaggedIsSafe'
  BY <1>1, <1>2, Zenon DEF CalmInv, CleanIsSafe, UnflaggedIsSafe
<1> QED
  BY <1>4, <1>6, <1>7, Zenon DEF CalmInv

\* The cleanup deletes rows whose changes are on their way.
LEMMA CalmCleanup ==
    ASSUME TypeInv, CalmInv,
           \/ DeleteExtraRows \/ RemoveDuplicates \/ mark_tree_as_backfilled \/ clear_force_chk_flag
    PROVE  CalmInv'
<1>1. UNCHANGED work /\ Lost' = Lost /\ filler.pc \in Cleanup
  BY DEF DeleteExtraRows, RemoveDuplicates, mark_tree_as_backfilled, clear_force_chk_flag, Statement,
         Cleanup, tree, Lost
<1>2. \A r \in backfill_items : ~r.failed
  BY DEF CalmInv, RowsAreFree
<1>3. filler.pc # "delete" => \A r \in backfill_items : r.seq = filler.max_seq
  BY <1>1, Zenon DEF CalmInv, CleanIsSafe
<1>4. CASE DeleteExtraRows
  <2>1. filler' = Then("dedupe") /\ backfill_items' = {r \in backfill_items : r.seq = filler.max_seq}
    BY <1>4, Zenon DEF DeleteExtraRows, Statement
  <2>2. "dedupe" \in Cleanup \ {"delete"}
    BY DEF Cleanup
  <2> QED
    BY <1>1, <1>2, <2>1, <2>2, CalmStatement, Zenon
<1>5. CASE RemoveDuplicates
  <2>1. filler' = Then("mark") /\ backfill_items' \subseteq backfill_items /\ filler.pc = "dedupe"
    BY <1>5, Zenon DEF RemoveDuplicates, Statement
  <2>2. "mark" \in Cleanup \ {"delete"}
    BY DEF Cleanup
  <2> QED
    BY <1>1, <1>2, <1>3, <2>1, <2>2, CalmStatement, Zenon
<1>6. \A r \in backfill_items :
         /\ [r EXCEPT !.backfilled = TRUE].seq = r.seq /\ [r EXCEPT !.force_chk = FALSE].seq = r.seq
         /\ [r EXCEPT !.backfilled = TRUE].failed = r.failed
         /\ [r EXCEPT !.force_chk = FALSE].failed = r.failed
  BY TableNow DEF Table, RowType
<1>7. CASE mark_tree_as_backfilled
  <2>1. /\ filler' = Then("clear") /\ filler.pc = "mark"
        /\ backfill_items' = {[r EXCEPT !.backfilled = TRUE] : r \in backfill_items}
    BY <1>7 DEF mark_tree_as_backfilled, Statement
  <2>2. "clear" \in Cleanup \ {"delete"}
    BY DEF Cleanup
  <2>3. \A r \in backfill_items' : r.seq = filler.max_seq /\ ~r.failed
    BY <1>2, <1>3, <1>6, <2>1, Zenon
  <2> QED
    BY <1>1, <2>1, <2>2, <2>3, CalmStatement
<1>8. CASE clear_force_chk_flag
  <2>1. /\ filler' = Then("unlock") /\ filler.pc = "clear"
        /\ backfill_items' = {[r EXCEPT !.force_chk = FALSE] : r \in backfill_items}
    BY <1>8 DEF clear_force_chk_flag, Statement
  <2>2. "unlock" \in Cleanup \ {"delete"}
    BY DEF Cleanup
  <2>3. \A r \in backfill_items' : r.seq = filler.max_seq /\ ~r.failed
    BY <1>2, <1>3, <1>6, <2>1, Zenon
  <2> QED
    BY <1>1, <2>1, <2>2, <2>3, CalmStatement
<1> QED
  BY <1>4, <1>5, <1>7, <1>8

\* Unlocking puts the tree back in sight.
LEMMA CalmUnlock ==
    ASSUME TypeInv, CalmInv, unlock_tree
    PROVE  CalmInv'
<1> DEFINE f == [r \in backfill_items |-> [r EXCEPT !.locked = FALSE]]
<1>1. /\ UNCHANGED work /\ Lost' = Lost /\ filler.pc = "unlock" /\ filler' = NextTree
      /\ backfill_items' = {[r EXCEPT !.locked = FALSE] : r \in backfill_items}
  BY DEF unlock_tree, Statement, tree, Lost
<1>2. backfill_items' = {f[r] : r \in backfill_items}
  BY <1>1
<1>3. \A r \in backfill_items :
         /\ f[r].seq = r.seq /\ f[r].backfilled = r.backfilled
         /\ f[r].force_chk = r.force_chk /\ f[r].failed = r.failed /\ ~f[r].locked
  BY TableNow DEF Table, RowType
<1> HIDE DEF f
<1>4. filler.trees # << >> /\ filler.trees \in Seq(BOOLEAN)
  BY <1>1, Now DEF FillerOK, FillerType
<1>5. filler'.pc \in {"idle", "fill"}
  BY <1>1, Fields
<1>6. Forced' /\ ~Single'
  <2>1. CASE Len(filler.trees) = 1
    <3>1. filler'.trees = << >>
      BY <1>1, <2>1 DEF NextTree, Resting
    <3>2. \A x : << >> # <<x>>
      OBVIOUS
    <3> QED
      BY <3>1, <3>2 DEF Forced, Single
  <2>2. CASE Len(filler.trees) # 1
    <3>1. filler'.trees = Tail(filler.trees)
      BY <1>1, <2>2 DEF NextTree, Resting
    <3>2. Forced
      <4>1. \A x : Len(<<x>>) = 1
        OBVIOUS
      <4>2. ~Single
        BY <2>2, <4>1, Zenon DEF Single
      <4> QED
        BY <4>2 DEF CalmInv, OneKind
    <3>3. ASSUME NEW S, NEW t \in Seq(S), t # << >>, NEW n \in DOMAIN Tail(t)
          PROVE  n + 1 \in DOMAIN t /\ Tail(t)[n] = t[n + 1]
      BY <3>3
    <3>4. Forced'
      <4>1. \A n \in DOMAIN Tail(filler.trees) :
               n + 1 \in DOMAIN filler.trees /\ Tail(filler.trees)[n] = filler.trees[n + 1]
        BY <1>4, <3>3, Zenon
      <4>2. \A n \in DOMAIN Tail(filler.trees) : Tail(filler.trees)[n]
        BY <3>2, <4>1, Zenon DEF Forced
      <4> QED
        BY <3>1, <4>2, Zenon DEF Forced
    <3>5. ~Single'
      <4>1. 1 \in DOMAIN <<FALSE>> /\ <<FALSE>>[1] = FALSE
        OBVIOUS
      <4> QED
        BY <3>4, <4>1, Zenon DEF Forced, Single
    <3> QED
      BY <3>4, <3>5
  <2> QED
    BY <2>1, <2>2
<1>7. OneKind' /\ SelectedForced'
  BY <1>5, <1>6, Zenon DEF OneKind, SelectedForced
<1> QED
  BY <1>1, <1>2, <1>3, <1>5, <1>6, <1>7, CalmSearch, Zenon

\* Every step keeps the invariant.
LEMMA InvStep == RangesCover /\ Inv /\ [Next]_vars => Inv'
<1> SUFFICES ASSUME RangesCover, Inv, [Next]_vars PROVE Inv'
  OBVIOUS
<1>1. RowInv /\ TypeInv /\ RowInv' /\ TypeInv'
  BY TypeStep, BusyStep, NewestStep DEF Inv, RowInv
<1>2. CASE mishap
  BY <1>1, <1>2, MishapStays DEF Inv
<1>3. CASE mishap'
  BY <1>1, <1>3 DEF Inv
<1>4. CASE ~mishap /\ ~mishap'
  <2> SUFFICES CalmInv'
    BY <1>1 DEF Inv
  <2>1. CalmInv
    BY <1>4 DEF Inv
  <2>2. CASE Change \/ get_missing_trees \/ UNCHANGED vars
             \/ \E w \in Workers : Save(w) \/ FindTree(w) \/ Fail(w)
    BY <1>1, <1>4, <2>1, <2>2, CalmWorkers
  <2>3. CASE force_backfill_missing_trees \/ \E w \in Workers : InsertItem(w)
    BY <1>1, <1>4, <2>1, <2>3, CalmInserts
  <2>4. CASE SelectForced
    BY <1>1, <2>1, <2>4, CalmSelectForced
  <2>5. CASE SelectMultiRow
    BY <1>1, <2>1, <2>5, CalmSelectMultiRow
  <2>6. CASE SelectFails \/ NoRows \/ TryFails \/ CleanupFails
    BY <1>1, <1>4, <2>1, <2>6, CalmFailures
  <2>7. CASE backfill_tree_from_seq_1 \/ get_missing_data \/ get_blocks \/ plug_gap
    BY <1>1, <1>4, <2>1, <2>7, CalmPlugging
  <2>8. CASE Plugged
    BY <1>1, <1>4, <2>1, <2>8, CalmPlugged
  <2>9. CASE DeleteExtraRows \/ RemoveDuplicates \/ mark_tree_as_backfilled \/ clear_force_chk_flag
    BY <1>1, <2>1, <2>9, CalmCleanup
  <2>10. CASE unlock_tree
    BY <1>1, <2>1, <2>10, CalmUnlock
  <2>11. CASE Crash
    <3>1. Happens({"crash"})
      BY <2>11 DEF Crash
    <3>2. {"crash"} = {}
      BY <1>1, <1>4, <3>1, NoEvent
    <3> QED
      BY <3>2
  <2> QED
    BY <2>2, <2>3, <2>4, <2>5, <2>6, <2>7, <2>8, <2>9, <2>10, <2>11 DEF Next, run_filler
<1> QED
  BY <1>2, <1>3, <1>4

\* The invariant holds at first.
LEMMA InvInit == Init => Inv
<1> SUFFICES ASSUME Init PROVE Inv
  OBVIOUS
<1>1. TypeInv
  BY TypeInit
<1>2. BusyIsStored /\ NewestRowStays /\ GapsAreOfChanges
  BY Zenon DEF Init, BusyIsStored, NewestRowStays, GapsAreOfChanges, Resting, Cleanup, Idle
<1>3. Lost = {}
  BY DEF Init, Lost
<1>4. Forced
  <2>1. filler.trees = << >>
    BY DEF Init, Resting
  <2> QED
    BY <2>1 DEF Forced
<1>5. filler.pc = "idle" /\ backfill_items = {} /\ \A w \in Workers : work[w].pc = "idle"
  BY DEF Init, Resting, Idle
<1>6. CalmInv
  BY <1>3, <1>4, <1>5 DEF CalmInv, RowsAreFree, SelectedForced, OneKind, SingleShows, SingleIsPlugged,
                          ForcedIsZero, CleanIsSafe, UnflaggedIsSafe, Cleanup
<1> QED
  BY <1>1, <1>2, <1>6 DEF Inv, RowInv

\* The rounded number of calls of plug_gap reaches the end of the gap: the gap is
\* one window at most, or it was not rounded down.
EnoughCalls(prev, curr) ==
    \/ curr - prev <= Window
    \/ ((curr - prev + Window \div 2) \div Window) * Window >= curr - prev

\* Division with remainder.
LEMMA Quotient ==
    ASSUME NEW y \in Nat, NEW w \in Nat \ {0}
    PROVE  y \div w \in Nat /\ (y \div w) * w <= y /\ y < (y \div w + 1) * w
OBVIOUS

\* A common factor cancels.
LEMMA Factor ==
    ASSUME NEW a \in Nat, NEW b \in Nat, NEW w \in Nat \ {0}, a * w < b * w
    PROVE  a < b
<1>1. SUFFICES ASSUME a >= b PROVE FALSE
  OBVIOUS
<1>2. PICK d \in Nat : a = b + d
  <2>1. a - b \in Nat /\ a = b + (a - b)
    BY <1>1
  <2> QED
    BY <2>1
<1>3. a * w = b * w + d * w /\ d * w \in Nat /\ b * w \in Nat
  BY <1>2
<1> QED
  BY <1>3

\* Enough calls of get_blocks cover all slots of a gap.
LEMMA RangesReach ==
    ASSUME NEW prev \in Nat, NEW curr \in Nat, prev <= curr, EnoughCalls(prev, curr)
    PROVE  prev .. curr \subseteq UNION Ranges(prev, curr)
<1>1. CASE curr - prev <= Window
  BY <1>1, OneRange, Zenon
<1>2. CASE curr - prev > Window
  <2> DEFINE rounded == (curr - prev + Window \div 2) \div Window
             num_iter == IF rounded = 0 THEN 1 ELSE rounded
             end(k) == IF prev + k * Window < curr THEN prev + k * Window ELSE curr
  <2>1. Window \in Nat \ {0} /\ Window \div 2 \in Nat
    BY BoundsAssumption
  <2>2. rounded * Window >= curr - prev
    BY <1>2, <2>1 DEF EnoughCalls
  <2>3. rounded \in Nat
    BY <2>1, Quotient
  <2>4. rounded # 0 /\ num_iter = rounded
    BY <1>2, <2>1, <2>2, <2>3
  <2>5. Ranges(prev, curr) = {end(k - 1) .. end(k) : k \in 1 .. num_iter}
    BY DEF Ranges
  <2> HIDE DEF rounded, num_iter
  <2>6. ASSUME NEW x \in prev .. curr
        PROVE  \E k \in 1 .. num_iter : x \in end(k - 1) .. end(k)
    <3>1. CASE x = prev
      <4>1. 1 \in 1 .. num_iter
        BY <2>3, <2>4
      <4>2. end(0) = prev /\ end(1) \in Nat /\ prev <= end(1)
        BY <2>1
      <4> QED
        BY <3>1, <4>1, <4>2
    <3>2. CASE x > prev
      <4> DEFINE y == x - prev - 1
                 j == y \div Window
      <4>1. y \in Nat /\ y < curr - prev
        BY <3>2
      <4>2. j \in Nat /\ j * Window <= y /\ y < (j + 1) * Window
        BY <2>1, <4>1, Quotient
      <4> HIDE DEF j
      <4>3. j * Window < rounded * Window
        BY <2>1, <2>2, <2>3, <4>1, <4>2, SMTT(30)
      <4>4. j < rounded
        BY <2>1, <2>3, <4>2, <4>3, Factor, SMTT(30)
      <4>5. j + 1 \in 1 .. num_iter
        BY <2>3, <2>4, <4>2, <4>4
      <4>6. j * Window \in Nat /\ (j + 1) * Window \in Nat
        BY <2>1, <4>2, SMTT(30)
      <4>7. end(j) <= x /\ x <= end(j + 1) /\ end(j) \in Nat /\ end(j + 1) \in Nat
        BY <4>1, <4>2, <4>6
      <4>8. PICK i \in 1 .. num_iter : i = j + 1
        BY <4>5
      <4>9. i - 1 = j
        BY <4>2, <4>8
      <4> HIDE DEF end
      <4>10. x \in end(i - 1) .. end(i)
        BY <4>7, <4>8, <4>9
      <4> QED
        BY <4>10
    <3> QED
      BY <3>1, <3>2
  <2> HIDE DEF end
  <2> QED
    BY <2>5, <2>6, Zenon
<1> QED
  BY <1>1, <1>2, BoundsAssumption

\* Unless one of the Mishaps happened, a change that is not stored and has no
\* message on the way is in sight of the backfiller, for every history, any
\* number of workers and any number of rows, rows of the finder, tries and
\* failed calls.  The gaps must not lose their last slots to the rounding in
\* plug_gap: gaps of one window of get_blocks never do.
THEOREM NothingForgottenHolds ==
    ASSUME \A s, t \in 0 .. MaxSeq : s <= t => EnoughCalls(SlotOf[s], SlotOf[t])
    PROVE  Spec => []NothingForgotten
<1>1. RangesCover
  <2> SUFFICES ASSUME NEW s \in 0 .. MaxSeq, NEW t \in 0 .. MaxSeq, s <= t
               PROVE  SlotOf[s] .. SlotOf[t] \subseteq UNION Ranges(SlotOf[s], SlotOf[t])
    BY DEF RangesCover
  <2>1. SlotOf[s] \in Nat /\ SlotOf[t] \in Nat /\ SlotOf[s] <= SlotOf[t]
    BY BoundsAssumption
  <2> QED
    BY <2>1, RangesReach
<1>2. Inv => NothingForgotten
  BY DEF Inv, CalmInv, NothingForgotten, Lost
<1>3. Inv /\ [Next]_vars => Inv'
  BY <1>1, InvStep
<1> QED
  BY <1>2, <1>3, InvInit, PTL DEF Spec
===============================================================================
