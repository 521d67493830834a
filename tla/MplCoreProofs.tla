----------------------------- MODULE MplCoreProofs -----------------------------
(***************************************************************************)
(* Theorems about MplCore: what the rows of assets and of the members of a *)
(* collection are once all messages are handled.                           *)
(***************************************************************************)
EXTENDS MplCore, FiniteSetTheorems, NaturalsInduction, WellFoundedInduction, TLAPS

Write == [id : Ids, auth : Authorities \cup {Coll}, empty : BOOLEAN]
Auths == Authorities \cup {Coll, ""}
Row == [val : Auths, slot : Nat]
Job == [i : Nat, pc : {"burn", "find", "save", "begin", "page", "update", "commit"},
        auth : Auths, after : Nat, ids : SUBSET Assets]

TypeInv ==
    /\ core_writes \in Seq(Write) /\ core_pending \subseteq DOMAIN core_writes
    /\ core_jobs \subseteq Job /\ \A j \in core_jobs : j.i \in DOMAIN core_writes
    /\ authority \in [Ids -> Row \cup {Null}]
    /\ core_data \in [Ids -> Nat] /\ core_asset \in [Ids -> Nat] /\ group \in [Ids -> Nat]
    /\ burnt \in [Ids -> BOOLEAN \cup {Null}] /\ slot_updated \in [Ids -> Nat \cup {Null}]
    /\ core_errors \in Nat /\ handled \subseteq DOMAIN core_writes /\ ordered \in BOOLEAN

IsColl(k) == core_writes[k].id = Coll

\* A member is of a collection that was there before, and an empty account was
\* not empty before.
ChainInv ==
    \A i \in DOMAIN core_writes :
        /\ IsColl(i) => core_writes[i].auth # Coll /\ ~core_writes[i].empty
        /\ ~IsColl(i) /\ core_writes[i].auth = Coll => \E c \in 1 .. i - 1 : IsColl(c)
        /\ core_writes[i].empty =>
              \E k \in 1 .. i - 1 :
                  /\ core_writes[k].id = core_writes[i].id /\ ~core_writes[k].empty
                  /\ \A l \in k + 1 .. i - 1 : core_writes[l].id # core_writes[i].id

\* A message is handled by one job, whose step suits the account.
JobInv(j) ==
    LET w == core_writes[j.i]
    IN  /\ j.pc = "burn" <=> w.empty
        /\ j.pc \in {"begin", "page", "update", "commit"} <=> w.id = Coll
        /\ j.pc = "find" => w.auth = Coll
        /\ w.auth # Coll => j.auth = w.auth
        /\ \A a \in j.ids : group[a] # 0
        /\ j.pc = "update" => j.ids # {}

JobsInv ==
    /\ \A j \in core_jobs : j.i \in core_pending /\ JobInv(j)
    /\ \A j, k \in core_jobs : j.i = k.i => j = k

\* The rows of an asset are from accounts of it; only a member is in the group, and
\* only the authority of a member is from elsewhere.
NeverMember(id) == \A k \in Saved(id) : core_writes[k].auth # Coll

RowInv ==
    \A id \in Ids :
        /\ core_asset[id] # 0 => core_asset[id] \in Saved(id)
        /\ core_data[id] # 0 => core_data[id] \in Saved(id)
        /\ group[id] # 0 => group[id] \in Saved(id) /\ core_writes[group[id]].auth = Coll
        /\ group[id] # 0 => authority[id] # Null
        /\ authority[id] # Null => authority[id].slot \in DOMAIN core_writes
        /\ authority[id] # Null /\ NeverMember(id) =>
              /\ authority[id].slot \in Saved(id)
              /\ authority[id].val = core_writes[authority[id].slot].auth

\* The rows are not older than an account that was handled.
Stored(i) ==
    LET id == core_writes[i].id
    IN  /\ core_asset[id] >= i /\ core_data[id] >= i
        /\ authority[id] # Null /\ authority[id].slot >= i

HandledInv ==
    /\ DOMAIN core_writes \ core_pending \subseteq handled
    /\ \A i \in handled : ~core_writes[i].empty => Stored(i)
    /\ authority[Coll] # Null => authority[Coll].slot \in handled
    /\ \A id \in Ids : core_asset[id] # 0 => core_asset[id] \in handled

Inv == ChainInv /\ JobsInv /\ RowInv /\ HandledInv

\* Messages in the order of the writes: a job is of a message all of whose
\* predecessors were handled, and so is the collection's account that a member's
\* row is from.
OrderInv ==
    ordered =>
        /\ \A j, k \in core_jobs : j = k
        /\ \A i \in handled : 1 .. i - 1 \subseteq handled
        /\ \A j \in core_jobs : 1 .. j.i - 1 \subseteq handled
        /\ \A a \in Assets : authority[a] # Null /\ authority[a].slot \notin handled =>
              IsColl(authority[a].slot) /\ 1 .. authority[a].slot - 1 \subseteq handled

\* The newest account of its asset that was handled.
LastHandled(i) == i \in handled /\ \A k \in handled : k > i => core_writes[k].id # core_writes[i].id

\* The authority of a row is that of the newest account of the collection up to its
\* slot, and accounts handled since have the same.
Follows(r) ==
    /\ \A c \in 1 .. r.slot :
          IsColl(c) /\ (\A k \in c + 1 .. r.slot : ~IsColl(k)) => core_writes[c].auth = r.val
    /\ \A k \in handled : IsColl(k) /\ k > r.slot => core_writes[k].auth = r.val

Member(i) == ~IsColl(i) /\ ~core_writes[i].empty /\ core_writes[i].auth = Coll

MemberInv ==
    ordered => \A i \in handled : Member(i) /\ LastHandled(i) =>
        group[core_writes[i].id] # 0 /\ Follows(authority[core_writes[i].id])

\* The pages up to the job's cursor are done.
Reached(a, j) == authority[a].val = j.auth \/ authority[a].slot >= j.i

PageInv ==
    ordered => \A j \in core_jobs :
        /\ j.pc = "save" /\ core_writes[j.i].auth = Coll =>
              authority[Coll] # Null /\ j.auth = authority[Coll].val
        /\ j.pc = "begin" => j.after = 0
        /\ j.pc \in {"page", "update"} =>
              \A a \in Assets : group[a] # 0 /\ a <= j.after => Reached(a, j)
        /\ j.pc = "update" => j.ids = Members(j.after)
        /\ j.pc = "commit" => \A a \in Assets : group[a] # 0 => Reached(a, j)

FollowInv == OrderInv /\ MemberInv /\ PageInv

\* Messages handled once and in order: the rows are those of the newest account.
BurnInv ==
    ordered /\ core_errors = 0 =>
        /\ handled \cap core_pending = {}
        /\ \A i \in handled : LastHandled(i) =>
              /\ burnt[core_writes[i].id] = core_writes[i].empty
              /\ ~core_writes[i].empty => slot_updated[core_writes[i].id] = i /\ core_asset[core_writes[i].id] = i

-----------------------------------------------------------------------------
(* Numbers and writes.                                                     *)

\* A set of numbers has a least one.
LEMMA LeastNumber ==
    ASSUME NEW S \in SUBSET Nat, S # {}
    PROVE  \E m \in S : \A n \in S : m <= n
<1>1. PICK m \in S : \A n \in S : ~(<<n, m>> \in OpToRel(<, Nat))
  BY NatLessThanWellFounded, WFMin, Zenon
<1>2. \A n \in S : ~(n < m)
  BY <1>1, Zenon DEF OpToRel
<1> QED
  BY <1>2

\* Max is the greatest number of a set that has one.
LEMMA MaxIs ==
    ASSUME NEW S \in SUBSET Nat, NEW m \in S, \A n \in S : n <= m
    PROVE  Max(S) \in S /\ \A n \in S : n <= Max(S)
<1>1. \E x \in S : \A y \in S : x >= y
  OBVIOUS
<1>2. Max(S) \in S /\ \A y \in S : Max(S) >= y
  BY <1>1, Zenon DEF Max
<1> QED
  BY <1>2

\* A bounded set of numbers has a maximum.
LEMMA MaxOfBounded ==
    ASSUME NEW b \in Nat, NEW S \in SUBSET (0 .. b), S # {}
    PROVE  Max(S) \in S /\ \A n \in S : n <= Max(S)
<1> DEFINE T == {k \in 0 .. b : b - k \in S}
<1>1. ASSUME NEW n \in S
      PROVE  n \in Nat /\ b - n \in T
  <2>1. n \in 0 .. b /\ b - n \in 0 .. b /\ b - (b - n) = n
    OBVIOUS
  <2> QED
    BY <2>1
<1>2. PICK k \in T : \A j \in T : k <= j
  <2>1. T \in SUBSET Nat
    OBVIOUS
  <2>2. PICK n : n \in S
    OBVIOUS
  <2>3. b - n \in T
    BY <1>1, <2>2
  <2> HIDE DEF T
  <2> QED
    BY <2>1, <2>3, LeastNumber
<1>3. b - k \in S /\ k \in 0 .. b
  BY <1>2
<1>4. \A n \in S : n <= b - k
  <2> TAKE n \in S
  <2>1. n \in Nat /\ k <= b - n
    BY <1>1, <1>2
  <2> QED
    BY <1>3, <2>1
<1>5. S \in SUBSET Nat
  OBVIOUS
<1> HIDE DEF T
<1> QED
  BY <1>3, <1>4, <1>5, MaxIs

\* A finite set of numbers has a maximum.
LEMMA MaxOfFinite ==
    ASSUME NEW S \in SUBSET Nat, IsFiniteSet(S), S # {}
    PROVE  Max(S) \in S /\ \A n \in S : n <= Max(S)
<1> DEFINE above(m) == {n \in S : n > m}
           C == {Cardinality(above(m)) : m \in S}
<1>1. \A m \in S : IsFiniteSet(above(m)) /\ Cardinality(above(m)) \in Nat
  <2> TAKE m \in S
  <2>1. above(m) \in SUBSET S
    OBVIOUS
  <2>2. IsFiniteSet(above(m))
    BY <2>1, FS_Subset, Zenon
  <2> QED
    BY <2>2, FS_CardinalityType, Zenon
<1>2. PICK c \in C : \A d \in C : c <= d
  <2>1. C \in SUBSET Nat
    BY <1>1, Zenon
  <2>2. C # {}
    BY Zenon
  <2> HIDE DEF C
  <2> QED
    BY <2>1, <2>2, LeastNumber, Zenon
<1>3. PICK m \in S : c = Cardinality(above(m))
  BY <1>2, Zenon
<1>4. ASSUME NEW n \in S, ~(n <= m)
      PROVE  FALSE
  <2>1. n > m /\ n \in above(m) /\ n \notin above(n)
    BY <1>4
  <2>2. above(n) \in SUBSET above(m)
    <3>1. ASSUME NEW x \in S, x > n
          PROVE  x > m
      <4>1. x \in Nat /\ n \in Nat /\ m \in Nat
        BY Zenon
      <4> QED
        BY <2>1, <3>1, <4>1
    <3> QED
      BY <3>1, Zenon
  <2>3. Cardinality(above(n)) <= Cardinality(above(m)) /\ Cardinality(above(m)) # Cardinality(above(n))
    <3> HIDE DEF above
    <3> QED
      BY <1>1, <2>1, <2>2, FS_Subset, Zenon
  <2>4. c <= Cardinality(above(n))
    <3>1. Cardinality(above(n)) \in C
      BY Zenon
    <3> HIDE DEF above, C
    <3> QED
      BY <1>2, <3>1, Zenon
  <2>5. Cardinality(above(n)) \in Nat /\ Cardinality(above(m)) \in Nat
    BY <1>1, Zenon
  <2> HIDE DEF above, C
  <2> QED
    BY <1>3, <2>3, <2>4, <2>5
<1>5. \A n \in S : n <= m
  BY <1>4, Zenon
<1> HIDE DEF above, C
<1> QED
  BY <1>5, MaxIs, Zenon

\* The writes so far.
LEMMA Writes ==
    ASSUME TypeInv
    PROVE  /\ Len(core_writes) \in Nat /\ DOMAIN core_writes = 1 .. Len(core_writes)
           /\ \A i \in DOMAIN core_writes : i \in Nat \ {0} /\ core_writes[i] \in Write
<1>1. core_writes \in Seq(Write)
  BY DEF TypeInv
<1>2. Len(core_writes) \in Nat /\ DOMAIN core_writes = 1 .. Len(core_writes)
  BY <1>1
<1>3. \A i \in 1 .. Len(core_writes) : core_writes[i] \in Write
  BY <1>1
<1> QED
  BY <1>2, <1>3

\* A transaction adds a write after those so far.
LEMMA Appended ==
    ASSUME TypeInv, CoreTransact
    PROVE  \E w \in Write :
              /\ w.id = Coll => w.auth # Coll /\ ~w.empty
              /\ w.id # Coll /\ w.auth = Coll => Exists(Coll)
              /\ w.empty => Exists(w.id)
              /\ core_writes' \in Seq(Write) /\ Len(core_writes') = Len(core_writes) + 1
              /\ DOMAIN core_writes' = 1 .. Len(core_writes) + 1
              /\ \A i \in DOMAIN core_writes : i \in DOMAIN core_writes' /\ core_writes'[i] = core_writes[i]
              /\ core_writes'[Len(core_writes) + 1] = w
<1>1. PICK w \in Write :
          /\ w.id = Coll => w.auth # Coll /\ ~w.empty
          /\ w.id # Coll /\ w.auth = Coll => Exists(Coll)
          /\ w.empty => Exists(w.id)
          /\ core_writes' = Append(core_writes, w)
  BY Zenon DEF CoreTransact, Write
<1>2. core_writes \in Seq(Write)
  BY DEF TypeInv
<1>3. /\ core_writes' \in Seq(Write) /\ Len(core_writes') = Len(core_writes) + 1
      /\ DOMAIN core_writes' = 1 .. Len(core_writes) + 1 /\ DOMAIN core_writes = 1 .. Len(core_writes)
      /\ Len(core_writes) \in Nat
      /\ \A i \in 1 .. Len(core_writes) : core_writes'[i] = core_writes[i]
      /\ core_writes'[Len(core_writes) + 1] = w
  BY <1>1, <1>2
<1>4. \A i \in DOMAIN core_writes : i \in DOMAIN core_writes' /\ core_writes'[i] = core_writes[i]
  BY <1>3
<1> QED
  BY <1>1, <1>3, <1>4, Zenon

-----------------------------------------------------------------------------
(* What the steps do to the tables and the jobs, and their types.          *)

\* The statements of a transaction write the rows of one asset, each if it is newer.
Stores(i, auth, id) ==
    /\ id \in Ids
    /\ authority' \in [Ids -> Row \cup {Null}]
    /\ core_data' \in [Ids -> Nat] /\ core_asset' \in [Ids -> Nat] /\ group' \in [Ids -> Nat]
    /\ burnt' \in [Ids -> BOOLEAN \cup {Null}]
    /\ slot_updated' \in [Ids -> Nat \cup {Null}]
    /\ \A x \in Ids \ {id} :
          /\ authority'[x] = authority[x] /\ core_data'[x] = core_data[x] /\ core_asset'[x] = core_asset[x]
          /\ group'[x] = group[x] /\ burnt'[x] = burnt[x]
          /\ slot_updated'[x] = slot_updated[x]
    /\ core_data'[id] = IF i > core_data[id] THEN i ELSE core_data[id]
    /\ core_asset'[id] = IF i >= core_asset[id] THEN i ELSE core_asset[id]
    /\ i >= core_asset[id] => burnt'[id] = FALSE /\ slot_updated'[id] = i
    /\ group'[id] = IF core_writes[i].auth = Coll /\ i >= group[id] THEN i ELSE group[id]
    /\ authority'[id] = IF authority[id] = Null \/ i > authority[id].slot
                        THEN [val |-> auth, slot |-> i] ELSE authority[id]

\* The statements of a saved account have the effect described by Stores.
LEMMA StoreEffect ==
    ASSUME TypeInv, CoreAssumption, NEW i \in DOMAIN core_writes, NEW auth \in Auths, Store(i, auth)
    PROVE  Stores(i, auth, core_writes[i].id)
<1> DEFINE id == core_writes[i].id
<1>1. id \in Ids /\ i \in Nat
  BY Writes DEF Write
<1>2. /\ authority \in [Ids -> Row \cup {Null}]
      /\ core_data \in [Ids -> Nat] /\ core_asset \in [Ids -> Nat] /\ group \in [Ids -> Nat]
      /\ burnt \in [Ids -> BOOLEAN \cup {Null}]
      /\ slot_updated \in [Ids -> Nat \cup {Null}]
  BY DEF TypeInv
<1>3. /\ authority' \in [Ids -> Row \cup {Null}]
      /\ \A x \in Ids \ {id} : authority'[x] = authority[x]
      /\ authority'[id] = IF authority[id] = Null \/ i > authority[id].slot
                          THEN [val |-> auth, slot |-> i] ELSE authority[id]
  <2>1. authority' = IF authority[id] = Null \/ i > authority[id].slot
                     THEN [authority EXCEPT ![id] = [val |-> auth, slot |-> i]] ELSE authority
    BY Zenon DEF Store, StoreAuthority
  <2>2. [val |-> auth, slot |-> i] \in Row
    BY <1>1 DEF Row
  <2> QED
    BY <1>1, <1>2, <2>1, <2>2
<1>4. /\ core_data' \in [Ids -> Nat] /\ \A x \in Ids \ {id} : core_data'[x] = core_data[x]
      /\ core_data'[id] = IF i > core_data[id] THEN i ELSE core_data[id]
  BY <1>1, <1>2 DEF Store, StoreData
<1>5. /\ group' \in [Ids -> Nat] /\ \A x \in Ids \ {id} : group'[x] = group[x]
      /\ group'[id] = IF core_writes[i].auth = Coll /\ i >= group[id] THEN i ELSE group[id]
  BY <1>1, <1>2 DEF Store, StoreGroup
<1>6. /\ core_asset' \in [Ids -> Nat] /\ \A x \in Ids \ {id} : core_asset'[x] = core_asset[x]
      /\ core_asset'[id] = IF i >= core_asset[id] THEN i ELSE core_asset[id]
  BY <1>1, <1>2 DEF Store, StoreAsset
<1>7. /\ burnt' \in [Ids -> BOOLEAN \cup {Null}] /\ \A x \in Ids \ {id} : burnt'[x] = burnt[x]
      /\ i >= core_asset[id] => burnt'[id] = FALSE
  <2>1. burnt' = [burnt EXCEPT ![id] = IF i >= core_asset[id] THEN FALSE ELSE @]
    BY DEF Store, StoreAsset
  <2> QED
    BY <1>1, <1>2, <2>1, Zenon
<1>8. /\ slot_updated' \in [Ids -> Nat \cup {Null}]
      /\ \A x \in Ids \ {id} : slot_updated'[x] = slot_updated[x]
      /\ i >= core_asset[id] => slot_updated'[id] = i
  <2>1. slot_updated' = [slot_updated EXCEPT ![id] = IF i >= core_asset[id] THEN i ELSE @]
    BY DEF Store, StoreAsset
  <2> QED
    BY <1>1, <1>2, <2>1, Zenon
<1> QED
  BY <1>1, <1>3, <1>4, <1>5, <1>6, <1>7, <1>8, Zenon DEF Stores

\* A page of members is updated: a row whose authority is another and whose slot is lower.
LEMMA UpdateEffect ==
    ASSUME TypeInv, CoreAssumption, NEW j \in core_jobs, UpdateMembers(j)
    PROVE  /\ authority' \in [Ids -> Row \cup {Null}]
           /\ j.ids \subseteq Assets /\ Coll \notin j.ids
           /\ \A a \in Ids :
                 authority'[a] = IF a \in j.ids /\ authority[a].val # j.auth /\ authority[a].slot < j.i
                                 THEN [val |-> j.auth, slot |-> j.i] ELSE authority[a]
<1>1. j \in Job /\ authority \in [Ids -> Row \cup {Null}]
  BY DEF TypeInv
<1>2. [val |-> j.auth, slot |-> j.i] \in Row
  BY <1>1 DEF Job, Row
<1>3. authority' = [a \in Ids |-> IF /\ a \in j.ids
                                     /\ authority[a].val # j.auth /\ authority[a].slot < j.i
                                  THEN [val |-> j.auth, slot |-> j.i] ELSE authority[a]]
  BY Zenon DEF UpdateMembers
<1>4. j.ids \subseteq Assets /\ Coll \notin j.ids
  BY <1>1, Zenon DEF Job, CoreAssumption
<1>5. \A a \in Ids : authority[a] \in Row \cup {Null}
  BY <1>1, Zenon
<1>6. authority' \in [Ids -> Row \cup {Null}]
  BY <1>2, <1>3, <1>5, Zenon
<1> QED
  BY <1>3, <1>4, <1>6, Zenon

\* A job goes on with the next step.
LEMMA GotoJobs ==
    ASSUME TypeInv, NEW j \in core_jobs, NEW k \in Job, k.i = j.i, CoreGoto(j, k), UNCHANGED core_writes
    PROVE  /\ core_jobs' \subseteq Job /\ \A l \in core_jobs' : l.i \in DOMAIN core_writes'
           /\ core_pending' \subseteq DOMAIN core_writes' /\ core_errors' \in Nat /\ handled' \subseteq DOMAIN core_writes'
<1>1. core_jobs \subseteq Job /\ \A l \in core_jobs : l.i \in DOMAIN core_writes
  BY DEF TypeInv
<1>2. core_jobs' = (core_jobs \ {j}) \cup {k} /\ UNCHANGED <<core_pending, core_errors, handled>>
  BY Zenon DEF CoreGoto
<1>3. core_pending \subseteq DOMAIN core_writes /\ core_errors \in Nat /\ handled \subseteq DOMAIN core_writes
  BY DEF TypeInv
<1>4. DOMAIN core_writes' = DOMAIN core_writes
  OBVIOUS
<1> QED
  BY <1>1, <1>2, <1>3, <1>4, Zenon

\* A job ends; the message is acknowledged or comes again.
LEMMA ReturnJobs ==
    ASSUME TypeInv, NEW j \in core_jobs, CoreReturn(j), UNCHANGED core_writes
    PROVE  /\ core_jobs' = core_jobs \ {j} /\ handled' = handled \cup {j.i}
           /\ core_jobs' \subseteq Job /\ \A l \in core_jobs' : l.i \in DOMAIN core_writes'
           /\ core_pending' \subseteq DOMAIN core_writes' /\ core_errors' \in Nat /\ handled' \subseteq DOMAIN core_writes'
           /\ core_pending \ {j.i} \subseteq core_pending' /\ core_pending' \subseteq core_pending
           /\ core_errors' = 0 => core_errors = 0 /\ core_pending' = core_pending \ {j.i}
<1>1. core_jobs \subseteq Job /\ \A l \in core_jobs : l.i \in DOMAIN core_writes
  BY DEF TypeInv
<1>2. core_jobs' = core_jobs \ {j} /\ handled' = handled \cup {j.i}
  BY DEF CoreReturn
<1>3. core_pending \subseteq DOMAIN core_writes /\ core_errors \in Nat /\ handled \subseteq DOMAIN core_writes
  BY DEF TypeInv
<1>4. DOMAIN core_writes' = DOMAIN core_writes
  OBVIOUS
<1>5. \/ core_pending' = core_pending \ {j.i} /\ core_errors' = core_errors
      \/ core_errors' = core_errors + 1 /\ core_pending' = core_pending
  BY Zenon DEF CoreReturn, CoreTrouble
<1>6. core_errors' \in Nat /\ (core_errors' = 0 => core_errors = 0 /\ core_pending' = core_pending \ {j.i})
  BY <1>3, <1>5
<1>7. core_pending \ {j.i} \subseteq core_pending' /\ core_pending' \subseteq core_pending
  BY <1>5, Zenon
<1> QED
  BY <1>1, <1>2, <1>3, <1>4, <1>6, <1>7, Zenon

\* A job is a record of its fields, and its successors are jobs of the same message.
LEMMA Jobs ==
    ASSUME TypeInv, NEW j \in core_jobs
    PROVE  /\ j \in Job /\ j.i \in DOMAIN core_writes /\ j.i \in Nat \ {0} /\ j.auth \in Auths
           /\ j.after \in Nat /\ j.ids \in SUBSET Assets /\ core_writes[j.i] \in Write
<1>1. j \in Job /\ j.i \in DOMAIN core_writes
  BY DEF TypeInv
<1>2. j.i \in Nat \ {0} /\ core_writes[j.i] \in Write
  BY <1>1, Writes
<1> QED
  BY <1>1, <1>2 DEF Job

\* Steps that only move a job to its next step.
Moves(j, k) ==
    /\ k \in Job /\ k.i = j.i /\ CoreGoto(j, k)
    /\ UNCHANGED <<core_writes, ordered>>

\* FindAuthority takes the authority of the collection's row, if there is one.
LEMMA FindMoves ==
    ASSUME TypeInv, CoreAssumption, NEW j \in core_jobs, FindAuthority(j)
    PROVE  \E k : /\ Moves(j, k) /\ UNCHANGED core_tables /\ k.pc = "save" /\ k.ids = j.ids
                  /\ authority[Coll] # Null => k.auth = authority[Coll].val
<1> DEFINE k == [j EXCEPT !.pc = "save",
                          !.auth = IF authority[Coll] = Null THEN "" ELSE authority[Coll].val]
<1>1. CoreGoto(j, k) /\ UNCHANGED <<core_writes, core_tables, ordered>>
  BY Zenon DEF FindAuthority
<1>2. (IF authority[Coll] = Null THEN "" ELSE authority[Coll].val) \in Auths
  <2>1. Coll \in Ids /\ authority \in [Ids -> Row \cup {Null}]
    BY DEF TypeInv, Ids
  <2>2. authority[Coll] \in Row \cup {Null}
    BY <2>1
  <2> QED
    BY <2>2, Zenon DEF Row, Auths
<1>3. j \in Job
  BY Jobs
<1>4. /\ k \in Job /\ k.i = j.i /\ k.pc = "save" /\ k.ids = j.ids
      /\ authority[Coll] # Null => k.auth = authority[Coll].val
  BY <1>2, <1>3, Zenon DEF Job
<1>5. Moves(j, k)
  BY <1>1, <1>4, Zenon DEF Moves
<1> HIDE DEF k
<1> QED
  BY <1>1, <1>4, <1>5, Zenon

\* BeginCollection only moves the job to its first page.
LEMMA BeginCollectionMoves ==
    ASSUME TypeInv, NEW j \in core_jobs, BeginCollection(j)
    PROVE  \E k : /\ Moves(j, k) /\ UNCHANGED core_tables /\ k.pc = "page"
                  /\ k.ids = j.ids /\ k.auth = j.auth /\ k.after = j.after
<1> DEFINE k == [j EXCEPT !.pc = "page"]
<1>1. CoreGoto(j, k) /\ UNCHANGED <<core_writes, core_tables, ordered>>
  BY Zenon DEF BeginCollection
<1>2. j \in Job
  BY Jobs
<1>3. k \in Job /\ k.i = j.i /\ k.pc = "page" /\ k.ids = j.ids /\ k.auth = j.auth /\ k.after = j.after
  BY <1>2 DEF Job
<1>4. Moves(j, k)
  BY <1>1, <1>3, Zenon DEF Moves
<1> HIDE DEF k
<1> QED
  BY <1>1, <1>3, <1>4, Zenon

\* SelectPage moves the job to the update of a page, or to the commit if there is none.
LEMMA SelectMoves ==
    ASSUME TypeInv, NEW j \in core_jobs, SelectPage(j)
    PROVE  \E k : /\ Moves(j, k) /\ UNCHANGED core_tables /\ k.auth = j.auth /\ k.after = j.after
                  /\ k.pc = (IF Members(j.after) = {} THEN "commit" ELSE "update")
                  /\ k.ids = Members(j.after)
<1> DEFINE k == [j EXCEPT !.pc = IF Members(j.after) = {} THEN "commit" ELSE "update",
                          !.ids = Members(j.after)]
<1>1. CoreGoto(j, k) /\ UNCHANGED <<core_writes, core_tables, ordered>>
  BY Zenon DEF SelectPage
<1>2. j \in Job
  BY Jobs
<1>3. Members(j.after) \in SUBSET Assets
  BY Zenon DEF Members
<1>4. /\ k \in Job /\ k.i = j.i /\ k.auth = j.auth /\ k.after = j.after
      /\ k.pc = (IF Members(j.after) = {} THEN "commit" ELSE "update")
      /\ k.ids = Members(j.after)
  BY <1>2, <1>3, Zenon DEF Job
<1>5. Moves(j, k)
  BY <1>1, <1>4, Zenon DEF Moves
<1> HIDE DEF k
<1> QED
  BY <1>1, <1>4, <1>5, Zenon

\* UpdateMembers moves the job to the page after the last id of this one.
LEMMA UpdateMoves ==
    ASSUME TypeInv, CoreAssumption, NEW j \in core_jobs, UpdateMembers(j), j.ids # {}
    PROVE  /\ \E k : /\ Moves(j, k) /\ k.pc = "page" /\ k.auth = j.auth
                     /\ k.after = Max(j.ids) /\ k.ids = {}
           /\ UNCHANGED <<core_data, core_asset, burnt, slot_updated, group>>
           /\ Max(j.ids) \in j.ids /\ \A a \in j.ids : a \in Nat /\ a <= Max(j.ids)
<1> DEFINE k == [j EXCEPT !.pc = "page", !.after = Max(j.ids), !.ids = {}]
<1>1. /\ CoreGoto(j, k) /\ UNCHANGED <<core_writes, ordered>>
      /\ UNCHANGED <<core_data, core_asset, burnt, slot_updated, group>>
  BY Zenon DEF UpdateMembers
<1>2. j \in Job /\ j.ids \in SUBSET Assets
  BY Jobs
<1>3. Max(j.ids) \in j.ids /\ \A a \in j.ids : a \in Nat /\ a <= Max(j.ids)
  <2>1. j.ids \in SUBSET Nat /\ IsFiniteSet(Assets)
    BY <1>2, Zenon DEF CoreAssumption
  <2>2. IsFiniteSet(j.ids)
    BY <1>2, <2>1, FS_Subset, Zenon
  <2> QED
    BY <2>1, <2>2, MaxOfFinite, Zenon
<1>4. k \in Job /\ k.i = j.i /\ k.pc = "page" /\ k.auth = j.auth /\ k.after = Max(j.ids) /\ k.ids = {}
  BY <1>2, <1>3, Zenon DEF Job
<1>5. Moves(j, k)
  BY <1>1, <1>4, Zenon DEF Moves
<1> HIDE DEF k
<1> QED
  BY <1>1, <1>3, <1>4, <1>5, Zenon

\* A burn sets the column of its asset, or leaves it.
LEMMA BurnEffect ==
    ASSUME TypeInv, NEW j \in core_jobs, core_burn_v1_asset(j), NEW id, id = core_writes[j.i].id
    PROVE  /\ id \in Ids /\ CoreReturn(j) /\ UNCHANGED <<core_writes, authority, core_data, core_asset, group, ordered>>
           /\ burnt' \in [Ids -> BOOLEAN \cup {Null}] /\ slot_updated' \in [Ids -> Nat \cup {Null}]
           /\ \A x \in Ids \ {id} : burnt'[x] = burnt[x] /\ slot_updated'[x] = slot_updated[x]
           /\ slot_updated[id] # Null /\ j.i > slot_updated[id] => burnt'[id] = TRUE
<1>1. id \in Ids /\ j.i \in Nat
  BY Jobs DEF Write
<1>2. /\ burnt \in [Ids -> BOOLEAN \cup {Null}] /\ slot_updated \in [Ids -> Nat \cup {Null}]
      /\ core_asset \in [Ids -> Nat]
  BY DEF TypeInv
<1>3. CoreReturn(j) /\ UNCHANGED <<core_writes, authority, core_data, core_asset, group, ordered>>
  BY Zenon DEF core_burn_v1_asset
<1> DEFINE new == IF core_asset[id] = 0 THEN Null ELSE core_asset[id]
<1>4. \/ /\ burnt' = [burnt EXCEPT ![id] = TRUE]
         /\ slot_updated' = [slot_updated EXCEPT ![id] = j.i]
      \/ /\ burnt' = [burnt EXCEPT ![id] = TRUE]
         /\ slot_updated' = [slot_updated EXCEPT ![id] = new]
      \/ /\ ~(slot_updated[id] # Null /\ j.i > slot_updated[id])
         /\ burnt' = burnt /\ slot_updated' = slot_updated
  BY Zenon DEF core_burn_v1_asset
<1>5. new \in Nat \cup {Null}
  BY <1>1, <1>2, Zenon
<1> HIDE DEF new
<1>6. ASSUME NEW n \in Nat \cup {Null}, burnt' = [burnt EXCEPT ![id] = TRUE],
             slot_updated' = [slot_updated EXCEPT ![id] = n]
      PROVE  /\ burnt' \in [Ids -> BOOLEAN \cup {Null}] /\ slot_updated' \in [Ids -> Nat \cup {Null}]
             /\ \A x \in Ids \ {id} : burnt'[x] = burnt[x] /\ slot_updated'[x] = slot_updated[x]
             /\ burnt'[id] = TRUE
  BY <1>1, <1>2, <1>6, Zenon
<1> QED
  BY <1>1, <1>2, <1>3, <1>4, <1>5, <1>6, Zenon

\* Every step keeps the types.
LEMMA TypeStep ==
    ASSUME TypeInv, JobsInv, CoreAssumption, [CoreNext]_core_vars
    PROVE  TypeInv'
<1>1. CASE CoreTransact
  <2>1. /\ core_writes' \in Seq(Write) /\ DOMAIN core_writes' = 1 .. Len(core_writes) + 1
        /\ \A i \in DOMAIN core_writes : i \in DOMAIN core_writes'
    BY <1>1, Appended, Zenon
  <2>2. /\ core_pending' = core_pending \cup {Len(core_writes) + 1}
        /\ UNCHANGED <<core_jobs, authority, core_data, core_asset, burnt, slot_updated, group, core_errors, handled, ordered>>
    BY <1>1, Zenon DEF CoreTransact, core_tables
  <2>3. Len(core_writes) + 1 \in DOMAIN core_writes'
    BY <2>1, Writes
  <2> QED
    BY <2>1, <2>2, <2>3, Zenon DEF TypeInv
<1>2. ASSUME NEW i \in core_pending, CoreBegin(i)
      PROVE  TypeInv'
  <2> DEFINE j == [i |-> i, pc |-> FirstStep(core_writes[i]), auth |-> core_writes[i].auth, after |-> 0, ids |-> {}]
  <2>1. i \in DOMAIN core_writes /\ i \in Nat /\ core_writes[i] \in Write
    BY Writes DEF TypeInv
  <2>2. j \in Job /\ j.i \in DOMAIN core_writes
    BY <2>1, Zenon DEF Job, Write, Auths, FirstStep
  <2>3. /\ core_jobs' = core_jobs \cup {j} /\ ordered' = (ordered /\ core_jobs = {} /\ 1 .. i - 1 \subseteq handled)
        /\ UNCHANGED <<core_writes, core_pending, authority, core_data, core_asset, burnt, slot_updated, group, core_errors, handled>>
    BY <1>2, Zenon DEF CoreBegin, core_tables
  <2>4. ordered' \in BOOLEAN
    BY <2>3, Zenon
  <2> HIDE DEF j
  <2> QED
    BY <2>2, <2>3, <2>4, Zenon DEF TypeInv
<1>3. ASSUME NEW j \in core_jobs, handle_mpl_core_account(j)
      PROVE  TypeInv'
  <2>1. CASE core_burn_v1_asset(j)
    <3>1. /\ CoreReturn(j) /\ UNCHANGED <<core_writes, authority, core_data, core_asset, group, ordered>>
          /\ burnt' \in [Ids -> BOOLEAN \cup {Null}] /\ slot_updated' \in [Ids -> Nat \cup {Null}]
      BY <2>1, BurnEffect, Zenon
    <3> QED
      BY <3>1, ReturnJobs, Zenon DEF TypeInv
  <2>2. CASE SaveAsset(j) \/ Commit(j)
    <3>1. Store(j.i, j.auth) /\ CoreReturn(j) /\ UNCHANGED <<core_writes, ordered>>
      BY <2>2, Zenon DEF SaveAsset, Commit
    <3>2. /\ authority' \in [Ids -> Row \cup {Null}]
          /\ core_data' \in [Ids -> Nat] /\ core_asset' \in [Ids -> Nat] /\ group' \in [Ids -> Nat]
          /\ burnt' \in [Ids -> BOOLEAN \cup {Null}]
          /\ slot_updated' \in [Ids -> Nat \cup {Null}]
      BY <3>1, Jobs, StoreEffect, Zenon DEF Stores
    <3> QED
      BY <3>1, <3>2, ReturnJobs, Zenon DEF TypeInv
  <2>3. ASSUME NEW k, Moves(j, k), UNCHANGED core_tables
        PROVE  TypeInv'
    <3>1. k \in Job /\ k.i = j.i /\ CoreGoto(j, k) /\ UNCHANGED <<core_writes, ordered>>
      BY <2>3, Zenon DEF Moves
    <3>2. UNCHANGED <<authority, core_data, core_asset, burnt, slot_updated, group>>
      BY <2>3, Zenon DEF core_tables
    <3> QED
      BY <3>1, <3>2, GotoJobs, Zenon DEF TypeInv
  <2>4. CASE UpdateMembers(j)
    <3>1. j.ids # {}
      BY <2>4, Zenon DEF JobsInv, JobInv, UpdateMembers
    <3>2. PICK k : Moves(j, k)
      BY <2>4, <3>1, UpdateMoves, Zenon
    <3>3. UNCHANGED <<core_data, core_asset, burnt, slot_updated, group>>
      BY <2>4, <3>1, UpdateMoves, Zenon
    <3>4. authority' \in [Ids -> Row \cup {Null}]
      BY <2>4, UpdateEffect, Zenon
    <3>5. k \in Job /\ k.i = j.i /\ CoreGoto(j, k) /\ UNCHANGED <<core_writes, ordered>>
      BY <3>2, Zenon DEF Moves
    <3> QED
      BY <3>3, <3>4, <3>5, GotoJobs, Zenon DEF TypeInv
  <2>5. CASE CoreFail(j)
    <3>1. /\ core_jobs' = core_jobs \ {j} /\ core_errors' = core_errors + 1
          /\ UNCHANGED <<core_writes, core_pending, authority, core_data, core_asset, burnt, slot_updated, group, handled, ordered>>
      BY <2>5, Zenon DEF CoreFail, CoreTrouble, core_tables
    <3>2. core_errors' \in Nat
      BY <3>1 DEF TypeInv
    <3> QED
      BY <3>1, <3>2, Zenon DEF TypeInv
  <2>6. CASE FindAuthority(j)
    BY <2>3, <2>6, FindMoves, Zenon
  <2>7. CASE BeginCollection(j)
    BY <2>3, <2>7, BeginCollectionMoves, Zenon
  <2>8. CASE SelectPage(j)
    BY <2>3, <2>8, SelectMoves, Zenon
  <2> QED
    BY <1>3, <2>1, <2>2, <2>4, <2>5, <2>6, <2>7, <2>8, Zenon
       DEF handle_mpl_core_account, core_save_v1_asset, update_group_asset_authorities
<1>4. CASE UNCHANGED core_vars
  BY <1>4, Zenon DEF TypeInv, core_vars, core_tables
<1> QED
  BY <1>1, <1>2, <1>3, <1>4, Zenon DEF CoreNext

-----------------------------------------------------------------------------
(* The rows of an asset: CoreSettles.                                      *)

\* Saved accounts and membership grow with the writes.
LEMMA SavedGrows ==
    ASSUME TypeInv, CoreTransact, NEW id
    PROVE  /\ Saved(id) \subseteq Saved(id)' /\ (NeverMember(id)' => NeverMember(id))
           /\ \A k \in Saved(id) : core_writes'[k] = core_writes[k]
<1>1. \A i \in DOMAIN core_writes : i \in DOMAIN core_writes' /\ core_writes'[i] = core_writes[i]
  BY Appended, Zenon
<1>2. Saved(id) \subseteq Saved(id)' /\ \A k \in Saved(id) : core_writes'[k] = core_writes[k]
  BY <1>1, Zenon DEF Saved
<1>3. ASSUME NeverMember(id)', NEW k \in Saved(id)
      PROVE  core_writes[k].auth # Coll
  <2>1. k \in Saved(id)' /\ core_writes'[k] = core_writes[k]
    BY <1>2, Zenon
  <2> QED
    BY <1>3, <2>1, Zenon DEF NeverMember
<1> QED
  BY <1>2, <1>3, Zenon DEF NeverMember

\* Jobs other than the one that moves are as they were.
LEMMA GotoKeeps ==
    ASSUME TypeInv, JobsInv, NEW j \in core_jobs, NEW k, Moves(j, k), JobInv(k)',
           \A a \in Assets : group[a] # 0 => group'[a] # 0
    PROVE  JobsInv'
<1>1. /\ core_jobs' = (core_jobs \ {j}) \cup {k} /\ k.i = j.i
      /\ UNCHANGED <<core_writes, core_pending>>
  BY Zenon DEF Moves, CoreGoto
<1>2. ASSUME NEW l \in core_jobs
      PROVE  l.i \in core_pending' /\ JobInv(l)'
  <2>1. l.i \in core_pending /\ JobInv(l) /\ l.ids \in SUBSET Assets
    BY Jobs, Zenon DEF JobsInv
  <2> QED
    BY <1>1, <2>1, Zenon DEF JobInv
<1>3. k.i \in core_pending'
  BY <1>1, <1>2, Zenon
<1>4. \A l, m \in core_jobs' : l.i = m.i => l = m
  BY <1>1, Zenon DEF JobsInv
<1> QED
  BY <1>1, <1>2, <1>3, <1>4, Zenon DEF JobsInv

\* Jobs that go on are as they were when another one ends.
LEMMA ReturnKeeps ==
    ASSUME TypeInv, JobsInv, NEW j \in core_jobs, CoreReturn(j), UNCHANGED core_writes,
           \A a \in Assets : group[a] # 0 => group'[a] # 0
    PROVE  JobsInv'
<1>1. core_jobs' = core_jobs \ {j} /\ core_pending \ {j.i} \subseteq core_pending'
  BY ReturnJobs, Zenon
<1>2. ASSUME NEW l \in core_jobs'
      PROVE  l.i \in core_pending' /\ JobInv(l)'
  <2>1. l \in core_jobs /\ l # j
    BY <1>1, Zenon
  <2>2. l.i \in core_pending /\ JobInv(l) /\ l.ids \in SUBSET Assets /\ l.i # j.i
    BY <2>1, Jobs, Zenon DEF JobsInv
  <2> QED
    BY <1>1, <2>2, Zenon DEF JobInv
<1>3. \A l, m \in core_jobs' : l.i = m.i => l = m
  BY <1>1, Zenon DEF JobsInv
<1> QED
  BY <1>2, <1>3, Zenon DEF JobsInv

\* A transaction leaves what was there.
LEMMA TransactKeeps ==
    ASSUME TypeInv, Inv, CoreTransact
    PROVE  Inv'
<1>1. /\ core_pending' = core_pending \cup {Len(core_writes) + 1}
      /\ UNCHANGED <<core_jobs, authority, core_data, core_asset, group, handled>>
  BY Zenon DEF CoreTransact, core_tables
<1>2. PICK w \in Write :
          /\ w.id = Coll => w.auth # Coll /\ ~w.empty
          /\ w.id # Coll /\ w.auth = Coll => Exists(Coll)
          /\ w.empty => Exists(w.id)
          /\ DOMAIN core_writes' = 1 .. Len(core_writes) + 1
          /\ \A i \in DOMAIN core_writes : i \in DOMAIN core_writes' /\ core_writes'[i] = core_writes[i]
          /\ core_writes'[Len(core_writes) + 1] = w
  BY Appended, Zenon
<1>3. Len(core_writes) \in Nat /\ DOMAIN core_writes = 1 .. Len(core_writes)
  BY Writes
<1>4. \A i \in DOMAIN core_writes' : i \in DOMAIN core_writes \/ i = Len(core_writes) + 1
  BY <1>2, <1>3
<1>5. ASSUME NEW id, Exists(id)
      PROVE  /\ LastWrite(id) \in DOMAIN core_writes /\ core_writes[LastWrite(id)].id = id /\ ~core_writes[LastWrite(id)].empty
             /\ \A l \in DOMAIN core_writes : l > LastWrite(id) => core_writes[l].id # id
  <2> DEFINE S == {0} \cup {i \in DOMAIN core_writes : core_writes[i].id = id}
  <2>1. S \in SUBSET (0 .. Len(core_writes)) /\ S # {}
    BY <1>3
  <2>2. Max(S) \in S /\ \A n \in S : n <= Max(S)
    <3> HIDE DEF S
    <3> QED
      BY <1>3, <2>1, MaxOfBounded, Zenon
  <2>3. LastWrite(id) = Max(S)
    BY DEF LastWrite
  <2>4. LastWrite(id) # 0 /\ ~core_writes[LastWrite(id)].empty
    BY <1>5 DEF Exists
  <2>5. LastWrite(id) \in DOMAIN core_writes /\ core_writes[LastWrite(id)].id = id
    BY <2>2, <2>3, <2>4, Zenon
  <2>6. \A l \in DOMAIN core_writes : core_writes[l].id = id => l <= LastWrite(id)
    BY <2>2, <2>3, Zenon
  <2> HIDE DEF S
  <2>7. \A l \in DOMAIN core_writes : l > LastWrite(id) => ~(l <= LastWrite(id))
    BY <1>3, <2>5
  <2> QED
    BY <2>4, <2>5, <2>6, <2>7, Zenon
<1>6. ChainInv'
  <2> SUFFICES ASSUME NEW i \in DOMAIN core_writes'
               PROVE  /\ (IsColl(i) => core_writes[i].auth # Coll /\ ~core_writes[i].empty)'
                      /\ (~IsColl(i) /\ core_writes[i].auth = Coll => \E c \in 1 .. i - 1 : IsColl(c))'
                      /\ (core_writes[i].empty =>
                            \E k \in 1 .. i - 1 :
                                /\ core_writes[k].id = core_writes[i].id /\ ~core_writes[k].empty
                                /\ \A l \in k + 1 .. i - 1 : core_writes[l].id # core_writes[i].id)'
    BY Zenon DEF ChainInv
  <2>1. CASE i \in DOMAIN core_writes
    <3>1. \A k \in 1 .. i - 1 : k \in DOMAIN core_writes /\ core_writes'[k] = core_writes[k]
      BY <1>2, <1>3, <2>1
    <3>2. core_writes'[i] = core_writes[i]
      BY <1>2, <2>1, Zenon
    <3>3. \A k \in 1 .. i - 1 : \A l \in k + 1 .. i - 1 : l \in 1 .. i - 1
      BY <1>3, <2>1
    <3>4. /\ core_writes[i].id = Coll => core_writes[i].auth # Coll /\ ~core_writes[i].empty
          /\ core_writes[i].id # Coll /\ core_writes[i].auth = Coll => \E c \in 1 .. i - 1 : core_writes[c].id = Coll
          /\ core_writes[i].empty =>
              \E k \in 1 .. i - 1 :
                  /\ core_writes[k].id = core_writes[i].id /\ ~core_writes[k].empty
                  /\ \A l \in k + 1 .. i - 1 : core_writes[l].id # core_writes[i].id
      BY <2>1, Zenon DEF Inv, ChainInv, IsColl
    <3>5. (~IsColl(i) /\ core_writes[i].auth = Coll => \E c \in 1 .. i - 1 : IsColl(c))'
      BY <3>1, <3>2, <3>4, Zenon DEF IsColl
    <3>6. ASSUME core_writes'[i].empty
          PROVE  \E k \in 1 .. i - 1 :
                    /\ core_writes'[k].id = core_writes'[i].id /\ ~core_writes'[k].empty
                    /\ \A l \in k + 1 .. i - 1 : core_writes'[l].id # core_writes'[i].id
      <4>1. PICK k \in 1 .. i - 1 :
                  /\ core_writes[k].id = core_writes[i].id /\ ~core_writes[k].empty
                  /\ \A l \in k + 1 .. i - 1 : core_writes[l].id # core_writes[i].id
        BY <3>2, <3>4, <3>6, Zenon
      <4>2. \A l \in k + 1 .. i - 1 : core_writes'[l].id # core_writes'[i].id
        BY <3>1, <3>2, <3>3, <4>1, Zenon
      <4> QED
        BY <3>1, <3>2, <4>1, <4>2, Zenon
    <3> QED
      BY <3>2, <3>4, <3>5, <3>6, Zenon DEF IsColl
  <2>2. CASE i = Len(core_writes) + 1
    <3>1. core_writes'[i] = w
      BY <1>2, <2>2, Zenon
    <3>2. \A k \in DOMAIN core_writes : k \in 1 .. i - 1 /\ core_writes'[k] = core_writes[k]
      BY <1>2, <1>3, <2>2
    <3>3. ~(w.id = Coll) /\ w.auth = Coll => \E c \in 1 .. i - 1 : core_writes'[c].id = Coll
      <4>1. Exists(Coll) => LastWrite(Coll) \in DOMAIN core_writes /\ core_writes[LastWrite(Coll)].id = Coll
        BY <1>5, Zenon
      <4> QED
        BY <1>2, <3>2, <4>1, Zenon
    <3>4. ASSUME w.empty
          PROVE  \E k \in 1 .. i - 1 :
                    /\ core_writes'[k].id = w.id /\ ~core_writes'[k].empty
                    /\ \A l \in k + 1 .. i - 1 : core_writes'[l].id # w.id
      <4> DEFINE k == LastWrite(w.id)
      <4>1. /\ k \in DOMAIN core_writes /\ core_writes[k].id = w.id /\ ~core_writes[k].empty
            /\ \A l \in DOMAIN core_writes : l > k => core_writes[l].id # w.id
        BY <1>2, <1>5, <3>4, Zenon
      <4> HIDE DEF k
      <4>2. \A l \in k + 1 .. i - 1 : l \in DOMAIN core_writes /\ l > k
        BY <1>3, <2>2, <4>1
      <4> QED
        BY <3>2, <4>1, <4>2, Zenon
    <3> QED
      BY <1>2, <3>1, <3>3, <3>4, Zenon DEF IsColl
  <2> QED
    BY <1>4, <2>1, <2>2, Zenon
<1>7. JobsInv'
  <2>1. \A j \in core_jobs : core_writes'[j.i] = core_writes[j.i]
    BY <1>2, Jobs, Zenon
  <2> QED
    BY <1>1, <2>1, ZenonT(30) DEF Inv, JobsInv, JobInv
<1>8. RowInv'
  <2> SUFFICES ASSUME NEW id \in Ids
               PROVE  /\ core_asset[id] # 0 => core_asset[id] \in Saved(id)'
                      /\ core_data[id] # 0 => core_data[id] \in Saved(id)'
                      /\ group[id] # 0 => group[id] \in Saved(id)' /\ core_writes'[group[id]].auth = Coll
                      /\ group[id] # 0 => authority[id] # Null
                      /\ authority[id] # Null => authority[id].slot \in DOMAIN core_writes'
                      /\ authority[id] # Null /\ NeverMember(id)' =>
                            /\ authority[id].slot \in Saved(id)'
                            /\ authority[id].val = core_writes'[authority[id].slot].auth
    BY <1>1, Zenon DEF RowInv
  <2>1. /\ Saved(id) \subseteq Saved(id)' /\ (NeverMember(id)' => NeverMember(id))
        /\ \A k \in Saved(id) : core_writes'[k] = core_writes[k]
    BY SavedGrows, Zenon
  <2> QED
    BY <1>2, <2>1, Zenon DEF Inv, RowInv
<1>9. HandledInv'
  <2>1. \A i \in handled : core_writes'[i] = core_writes[i]
    BY <1>2, Zenon DEF TypeInv
  <2> QED
    BY <1>1, <1>4, <2>1, Zenon DEF Inv, HandledInv, Stored
<1> QED
  BY <1>6, <1>7, <1>8, <1>9, Zenon DEF Inv

\* A step that leaves the tables and writes leaves what the rows are from.
LEMMA RowsStay ==
    ASSUME RowInv, UNCHANGED <<core_writes, authority, core_data, core_asset, group>>
    PROVE  RowInv'
<1>1. \A id : Saved(id)' = Saved(id)
  BY DEF Saved
<1>2. \A id : NeverMember(id)' <=> NeverMember(id)
  BY <1>1, Zenon DEF NeverMember
<1> QED
  BY <1>1, <1>2, Zenon DEF RowInv

\* What the accounts are is a matter of the writes alone.
LEMMA ChainStays ==
    ASSUME ChainInv, UNCHANGED core_writes
    PROVE  ChainInv'
  BY Zenon DEF ChainInv, IsColl

\* A job starts with the step its account calls for.
LEMMA BeginKeeps ==
    ASSUME TypeInv, Inv, NEW i \in core_pending, CoreBegin(i)
    PROVE  Inv'
<1>0. PICK j : j = [i |-> i, pc |-> FirstStep(core_writes[i]), auth |-> core_writes[i].auth, after |-> 0, ids |-> {}]
  BY Zenon
<1>1. /\ core_jobs' = core_jobs \cup {j} /\ \A k \in core_jobs : k.i # i
      /\ UNCHANGED <<core_writes, core_pending, authority, core_data, core_asset, burnt, slot_updated, group, core_errors, handled>>
  BY <1>0, Zenon DEF CoreBegin, core_tables
<1>2. j.i = i /\ j.pc = FirstStep(core_writes[i]) /\ j.auth = core_writes[i].auth /\ j.ids = {}
  BY <1>0
<1>3. i \in DOMAIN core_writes
  BY Zenon DEF TypeInv
<1>4. JobInv(j)'
  <2>1. core_writes[i].id = Coll => core_writes[i].auth # Coll /\ ~core_writes[i].empty
    BY <1>3, Zenon DEF Inv, ChainInv, IsColl
  <2>2. core_writes[i].empty \in BOOLEAN
    BY <1>3, Writes DEF Write
  <2>3. /\ j.pc = "burn" <=> core_writes[i].empty
        /\ j.pc \in {"begin", "page", "update", "commit"} <=> core_writes[i].id = Coll
        /\ j.pc = "find" => core_writes[i].auth = Coll
        /\ j.pc # "update"
    BY <1>2, <2>1, <2>2 DEF FirstStep
  <2> QED
    BY <1>1, <1>2, <2>3, Zenon DEF JobInv
<1>5. JobsInv'
  <2>1. \A l \in core_jobs : l.i \in core_pending' /\ JobInv(l)'
    BY <1>1, Zenon DEF Inv, JobsInv, JobInv
  <2>2. \A l, m \in core_jobs' : l.i = m.i => l = m
    BY <1>1, <1>2, Zenon DEF Inv, JobsInv
  <2>3. \A l \in core_jobs' : l.i \in core_pending' /\ JobInv(l)'
    BY <1>1, <1>2, <1>4, <2>1, Zenon
  <2> QED
    BY <2>2, <2>3, Zenon DEF JobsInv
<1>6. HandledInv'
  BY <1>1, Zenon DEF Inv, HandledInv, Stored
<1> QED
  BY <1>1, <1>5, <1>6, RowsStay, ChainStays, Zenon DEF Inv

\* A job moves and the tables stay.
LEMMA MoveKeeps ==
    ASSUME TypeInv, Inv, NEW j \in core_jobs, NEW k, Moves(j, k), UNCHANGED core_tables, JobInv(k)'
    PROVE  Inv'
<1>1. UNCHANGED <<core_writes, core_pending, authority, core_data, core_asset, group, handled>>
  BY Zenon DEF Moves, CoreGoto, core_tables
<1>2. JobsInv'
  BY <1>1, GotoKeeps, Zenon DEF Inv
<1>3. HandledInv'
  BY <1>1, Zenon DEF Inv, HandledInv, Stored
<1> QED
  BY <1>1, <1>2, <1>3, RowsStay, ChainStays, Zenon DEF Inv

\* What a step of a job is about: the account is the one its step suits.
LEMMA JobFacts ==
    ASSUME TypeInv, Inv, NEW j \in core_jobs
    PROVE  /\ j.pc = "burn" <=> core_writes[j.i].empty
           /\ j.pc \in {"begin", "page", "update", "commit"} <=> core_writes[j.i].id = Coll
           /\ j.pc = "find" => core_writes[j.i].auth = Coll
           /\ core_writes[j.i].auth # Coll => j.auth = core_writes[j.i].auth
           /\ \A a \in j.ids : group[a] # 0
           /\ j.pc = "update" => j.ids # {}
           /\ core_writes[j.i].id = Coll => core_writes[j.i].auth # Coll
           /\ j.i \in core_pending
<1>1. JobInv(j) /\ j.i \in core_pending
  BY Zenon DEF Inv, JobsInv
<1>2. core_writes[j.i].id = Coll => core_writes[j.i].auth # Coll
  BY Jobs, Zenon DEF Inv, ChainInv, IsColl
<1> QED
  BY <1>1, <1>2, Zenon DEF JobInv

\* Looking for the collection keeps the invariant.
LEMMA FindKeeps ==
    ASSUME TypeInv, Inv, CoreAssumption, NEW j \in core_jobs, FindAuthority(j)
    PROVE  Inv'
<1>1. PICK k : Moves(j, k) /\ UNCHANGED core_tables /\ k.pc = "save" /\ k.ids = j.ids
  BY FindMoves, Zenon
<1>2. j.pc = "find" /\ k.i = j.i /\ UNCHANGED <<core_writes, group>>
  BY <1>1, Zenon DEF FindAuthority, Moves, core_tables
<1>3. ~core_writes[j.i].empty /\ core_writes[j.i].id # Coll /\ core_writes[j.i].auth = Coll
  BY <1>2, JobFacts
<1>4. \A a \in k.ids : group'[a] # 0
  BY <1>1, <1>2, JobFacts, Zenon
<1>5. k.pc # "burn" /\ k.pc \notin {"begin", "page", "update", "commit"} /\ k.pc # "find" /\ k.pc # "update"
  BY <1>1
<1>6. JobInv(k)'
  BY <1>2, <1>3, <1>4, <1>5, Zenon DEF JobInv
<1> QED
  BY <1>1, <1>6, MoveKeeps, Zenon

\* Beginning with the members of a collection keeps the invariant.
LEMMA BeginCollectionKeeps ==
    ASSUME TypeInv, Inv, NEW j \in core_jobs, BeginCollection(j)
    PROVE  Inv'
<1>1. PICK k : Moves(j, k) /\ UNCHANGED core_tables /\ k.pc = "page" /\ k.ids = j.ids /\ k.auth = j.auth
  BY BeginCollectionMoves, Zenon
<1>2. j.pc = "begin" /\ k.i = j.i /\ UNCHANGED <<core_writes, group>>
  BY <1>1, Zenon DEF BeginCollection, Moves, core_tables
<1>3. ~core_writes[j.i].empty /\ core_writes[j.i].id = Coll /\ (core_writes[j.i].auth # Coll => k.auth = core_writes[j.i].auth)
  BY <1>1, <1>2, JobFacts
<1>4. \A a \in k.ids : group'[a] # 0
  BY <1>1, <1>2, JobFacts, Zenon
<1>5. k.pc # "burn" /\ k.pc \in {"begin", "page", "update", "commit"} /\ k.pc # "find" /\ k.pc # "update"
  BY <1>1
<1>6. JobInv(k)'
  BY <1>2, <1>3, <1>4, <1>5, Zenon DEF JobInv
<1> QED
  BY <1>1, <1>6, MoveKeeps, Zenon

\* Selecting a page of members keeps the invariant.
LEMMA SelectKeeps ==
    ASSUME TypeInv, Inv, NEW j \in core_jobs, SelectPage(j)
    PROVE  Inv'
<1>1. PICK k : /\ Moves(j, k) /\ UNCHANGED core_tables /\ k.auth = j.auth
               /\ k.pc = (IF Members(j.after) = {} THEN "commit" ELSE "update")
               /\ k.ids = Members(j.after)
  BY SelectMoves, Zenon
<1>2. j.pc = "page" /\ k.i = j.i /\ UNCHANGED <<core_writes, group>>
  BY <1>1, Zenon DEF SelectPage, Moves, core_tables
<1>3. ~core_writes[j.i].empty /\ core_writes[j.i].id = Coll /\ (core_writes[j.i].auth # Coll => k.auth = core_writes[j.i].auth)
  BY <1>1, <1>2, JobFacts
<1>4. \A a \in k.ids : group'[a] # 0
  BY <1>1, <1>2, Zenon DEF Members
<1>5. /\ k.pc # "burn" /\ k.pc \in {"begin", "page", "update", "commit"} /\ k.pc # "find"
      /\ k.pc = "update" => k.ids # {}
  BY <1>1
<1>6. JobInv(k)'
  BY <1>2, <1>3, <1>4, <1>5, Zenon DEF JobInv
<1> QED
  BY <1>1, <1>6, MoveKeeps, Zenon

\* A burn leaves the columns and rows the invariant is about.
LEMMA BurnKeeps ==
    ASSUME TypeInv, Inv, NEW j \in core_jobs, core_burn_v1_asset(j)
    PROVE  Inv'
<1>1. CoreReturn(j) /\ UNCHANGED <<core_writes, authority, core_data, core_asset, group>>
  BY Zenon DEF core_burn_v1_asset
<1>2. JobsInv'
  BY <1>1, ReturnKeeps, Zenon DEF Inv
<1>3. /\ handled' = handled \cup {j.i} /\ core_pending \ {j.i} \subseteq core_pending'
      /\ core_writes[j.i].empty
  <2>1. j.pc = "burn"
    BY Zenon DEF core_burn_v1_asset
  <2> QED
    BY <1>1, <2>1, ReturnJobs, JobFacts, Zenon
<1>4. HandledInv'
  <2>1. DOMAIN core_writes' \ core_pending' \subseteq handled'
    BY <1>1, <1>3, Zenon DEF Inv, HandledInv
  <2>2. \A i \in handled' : ~core_writes'[i].empty => Stored(i)'
    BY <1>1, <1>3, Zenon DEF Inv, HandledInv, Stored
  <2> QED
    BY <1>1, <1>3, <2>1, <2>2, Zenon DEF Inv, HandledInv
<1> QED
  BY <1>1, <1>2, <1>4, RowsStay, ChainStays, Zenon DEF Inv

\* A job that fails leaves the tables, and its message comes again.
LEMMA FailKeeps ==
    ASSUME TypeInv, Inv, NEW j \in core_jobs, CoreFail(j)
    PROVE  Inv'
<1>1. core_jobs' = core_jobs \ {j} /\ UNCHANGED <<core_writes, core_pending, authority, core_data, core_asset, group, handled>>
  BY Zenon DEF CoreFail, core_tables
<1>2. JobsInv'
  BY <1>1, Zenon DEF Inv, JobsInv, JobInv
<1>3. HandledInv'
  BY <1>1, Zenon DEF Inv, HandledInv, Stored
<1> QED
  BY <1>1, <1>2, <1>3, RowsStay, ChainStays, Zenon DEF Inv

\* The new row of asset_authority is not NULL, and has its two fields.
LEMMA NewRow ==
    ASSUME CoreAssumption, NEW v \in Auths, NEW i \in Nat
    PROVE  /\ [val |-> v, slot |-> i] # Null
           /\ [val |-> v, slot |-> i].val = v /\ [val |-> v, slot |-> i].slot = i
<1>1. [val |-> v, slot |-> i]
        \in [val : Authorities \cup {Coll}, slot : Nat] \cup [val : {""}, slot : Nat]
  BY Zenon DEF Auths
<1>2. [val |-> v, slot |-> i] # Null
  BY <1>1, Zenon DEF CoreAssumption
<1> QED
  BY <1>2

\* A transaction that saves an account: the rows are from the newer of the two.
LEMMA StoreKeeps ==
    ASSUME TypeInv, Inv, CoreAssumption, NEW j \in core_jobs, SaveAsset(j) \/ Commit(j)
    PROVE  Inv'
<1>0. PICK i : i = j.i
  BY Zenon
<1>1. Store(i, j.auth) /\ CoreReturn(j) /\ UNCHANGED <<core_writes, ordered>> /\ j.pc \in {"save", "commit"}
  BY <1>0, Zenon DEF SaveAsset, Commit
<1>2. i \in DOMAIN core_writes /\ i \in Nat \ {0} /\ j.auth \in Auths
  BY <1>0, Jobs
<1>3. PICK id : id = core_writes[i].id
  BY Zenon
<1>4. /\ id \in Ids
      /\ \A x \in Ids \ {id} : /\ authority'[x] = authority[x] /\ core_data'[x] = core_data[x]
                               /\ core_asset'[x] = core_asset[x] /\ group'[x] = group[x]
      /\ core_data'[id] = IF i > core_data[id] THEN i ELSE core_data[id]
      /\ core_asset'[id] = IF i >= core_asset[id] THEN i ELSE core_asset[id]
      /\ group'[id] = IF core_writes[i].auth = Coll /\ i >= group[id] THEN i ELSE group[id]
      /\ authority'[id] = IF authority[id] = Null \/ i > authority[id].slot
                          THEN [val |-> j.auth, slot |-> i] ELSE authority[id]
  <2>1. Stores(i, j.auth, core_writes[i].id)
    BY <1>1, <1>2, StoreEffect, Zenon
  <2>2. Stores(i, j.auth, id)
    BY <1>3, <2>1, Zenon
  <2> QED
    BY <2>2, Zenon DEF Stores
<1>5. core_data[id] \in Nat /\ core_asset[id] \in Nat /\ group[id] \in Nat
  BY <1>4, Zenon DEF TypeInv
<1>6. ~core_writes[i].empty /\ (core_writes[i].auth # Coll => j.auth = core_writes[i].auth)
  <2>1. j.pc # "burn"
    BY <1>1
  <2> QED
    BY <1>0, <2>1, JobFacts, Zenon
<1>7. i \in Saved(id) /\ \A x : Saved(x)' = Saved(x)
  BY <1>1, <1>2, <1>3, <1>6 DEF Saved
<1>8. /\ handled' = handled \cup {i} /\ core_pending \ {i} \subseteq core_pending'
  BY <1>0, <1>1, ReturnJobs, Zenon
<1>9. /\ core_asset'[id] \in {i, core_asset[id]} /\ core_data'[id] \in {i, core_data[id]}
      /\ core_asset'[id] >= i /\ core_asset'[id] >= core_asset[id] /\ core_data'[id] >= i /\ core_data'[id] >= core_data[id]
      /\ core_asset'[id] # i => core_asset[id] # 0
      /\ core_data'[id] # i => core_data[id] # 0
  BY <1>2, <1>4, <1>5
<1>10. /\ group[id] # 0 => group'[id] # 0
       /\ group'[id] = group[id] \/ (group'[id] = i /\ core_writes[i].auth = Coll)
  BY <1>2, <1>4, <1>5
<1>11. /\ authority'[id] # Null
       /\ \/ authority'[id].slot = i /\ authority'[id].val = j.auth
          \/ authority'[id] = authority[id] /\ authority[id] # Null
  BY <1>2, <1>4, NewRow
<1>12. /\ authority'[id].slot >= i
       /\ authority[id] # Null => authority'[id].slot >= authority[id].slot
  <2>1. authority[id] \in Row \cup {Null}
    BY <1>4, Zenon DEF TypeInv
  <2>2. authority[id] # Null => authority[id].slot \in Nat
    BY <2>1 DEF Row
  <2>3. CASE authority[id] = Null \/ i > authority[id].slot
    <3>1. authority'[id].slot = i
      BY <1>2, <1>4, <2>3, NewRow
    <3> QED
      BY <1>2, <2>2, <2>3, <3>1
  <2>4. CASE ~(authority[id] = Null \/ i > authority[id].slot)
    <3>1. authority'[id] = authority[id]
      BY <1>4, <2>4, Zenon
    <3> QED
      BY <1>2, <2>2, <2>4, <3>1
  <2> QED
    BY <2>3, <2>4, Zenon
<1>13. JobsInv'
  <2>1. \A a \in Assets : group[a] # 0 => group'[a] # 0
    BY <1>4, <1>10, Zenon DEF Ids
  <2> QED
    BY <1>1, <2>1, ReturnKeeps, Zenon DEF Inv
<1>14. RowInv'
  <2> SUFFICES ASSUME NEW x \in Ids
               PROVE  /\ core_asset'[x] # 0 => core_asset'[x] \in Saved(x)
                      /\ core_data'[x] # 0 => core_data'[x] \in Saved(x)
                      /\ group'[x] # 0 => group'[x] \in Saved(x) /\ core_writes[group'[x]].auth = Coll
                      /\ group'[x] # 0 => authority'[x] # Null
                      /\ authority'[x] # Null => authority'[x].slot \in DOMAIN core_writes
                      /\ authority'[x] # Null /\ NeverMember(x) =>
                            /\ authority'[x].slot \in Saved(x)
                            /\ authority'[x].val = core_writes[authority'[x].slot].auth
    BY <1>1, <1>7, Zenon DEF RowInv, NeverMember
  <2>1. CASE x # id
    BY <1>4, <2>1, Zenon DEF Inv, RowInv
  <2>2. CASE x = id
    <3>1. /\ core_asset'[id] # 0 => core_asset'[id] \in Saved(id)
          /\ core_data'[id] # 0 => core_data'[id] \in Saved(id)
      BY <1>4, <1>7, <1>9, Zenon DEF Inv, RowInv
    <3>2. group'[id] # 0 => group'[id] \in Saved(id) /\ core_writes[group'[id]].auth = Coll
      BY <1>4, <1>7, <1>10, Zenon DEF Inv, RowInv
    <3>3. authority'[id].slot \in DOMAIN core_writes
      BY <1>2, <1>4, <1>11, Zenon DEF Inv, RowInv
    <3>4. NeverMember(id) => /\ authority'[id].slot \in Saved(id)
                             /\ authority'[id].val = core_writes[authority'[id].slot].auth
      <4>1. NeverMember(id) => core_writes[i].auth = j.auth
        BY <1>6, <1>7, Zenon DEF NeverMember
      <4> QED
        BY <1>4, <1>7, <1>11, <4>1, Zenon DEF Inv, RowInv
    <3> QED
      BY <1>11, <2>2, <3>1, <3>2, <3>3, <3>4, Zenon
  <2> QED
    BY <2>1, <2>2, Zenon
<1>15. HandledInv'
  <2>1. DOMAIN core_writes' \ core_pending' \subseteq handled'
    BY <1>1, <1>8, Zenon DEF Inv, HandledInv
  <2>2. ASSUME NEW h \in handled', ~core_writes[h].empty
        PROVE  Stored(h)'
    <3>1. h \in DOMAIN core_writes /\ h \in Nat /\ core_writes[h].id \in Ids
      <4>1. h \in DOMAIN core_writes
        BY <1>2, <1>8, Zenon DEF TypeInv
      <4> QED
        BY <4>1, Writes DEF Write
    <3>2. CASE core_writes[h].id # id
      <4>1. h \in handled
        BY <1>3, <1>8, <3>2, Zenon
      <4> QED
        BY <1>1, <1>4, <2>2, <3>1, <3>2, <4>1, Zenon DEF Inv, HandledInv, Stored
    <3>3. CASE core_writes[h].id = id
      <4>1. CASE h = i
        BY <1>1, <1>3, <1>9, <1>11, <1>12, <4>1, Zenon DEF Stored
      <4>2. CASE h \in handled
        <5>1. core_asset[id] >= h /\ core_data[id] >= h /\ authority[id] # Null /\ authority[id].slot >= h
          BY <2>2, <3>3, <4>2, Zenon DEF Inv, HandledInv, Stored
        <5>2. authority[id].slot \in Nat /\ authority'[id].slot \in Nat
          <6>1. authority[id] \in Row /\ authority'[id].slot \in {i, authority[id].slot}
            BY <1>4, <1>11, <5>1, Zenon DEF TypeInv
          <6> QED
            BY <1>2, <6>1 DEF Row
        <5>3. core_asset'[id] \in Nat /\ core_data'[id] \in Nat
          BY <1>2, <1>5, <1>9
        <5>4. core_asset'[id] >= h /\ core_data'[id] >= h /\ authority'[id].slot >= h
          BY <1>5, <1>9, <1>12, <3>1, <5>1, <5>2, <5>3
        <5> QED
          BY <1>1, <1>11, <3>3, <5>4, Zenon DEF Stored
      <4> QED
        BY <1>8, <4>1, <4>2, Zenon
    <3> QED
      BY <3>2, <3>3, Zenon
  <2>3. authority'[Coll] # Null => authority'[Coll].slot \in handled'
    <3>1. Coll \in Ids
      BY Zenon DEF Ids
    <3> QED
      BY <1>4, <1>8, <1>11, <3>1, Zenon DEF Inv, HandledInv
  <2>4. \A x \in Ids : core_asset'[x] # 0 => core_asset'[x] \in handled'
    BY <1>4, <1>8, <1>9, Zenon DEF Inv, HandledInv
  <2> QED
    BY <1>1, <2>1, <2>2, <2>3, <2>4, Zenon DEF HandledInv
<1> QED
  BY <1>1, <1>13, <1>14, <1>15, ChainStays, Zenon DEF Inv

\* A page of members takes the collection's authority: they are in the group, hence
\* were members.
LEMMA UpdateKeeps ==
    ASSUME TypeInv, Inv, CoreAssumption, NEW j \in core_jobs, UpdateMembers(j)
    PROVE  Inv'
<1>1. j.pc = "update" /\ j.ids # {} /\ \A a \in j.ids : group[a] # 0
  <2>1. j.pc = "update"
    BY Zenon DEF UpdateMembers
  <2> QED
    BY <2>1, JobFacts, Zenon
<1>2. PICK k : Moves(j, k) /\ k.pc = "page" /\ k.auth = j.auth /\ k.ids = {}
  BY <1>1, UpdateMoves, Zenon
<1>3. /\ UNCHANGED <<core_data, core_asset, group>> /\ k.i = j.i
      /\ UNCHANGED <<core_writes, core_pending, handled>>
  BY <1>1, <1>2, UpdateMoves, Zenon DEF Moves, CoreGoto
<1>4. /\ j.ids \subseteq Assets /\ Coll \notin j.ids
      /\ \A a \in Ids :
            authority'[a] = IF a \in j.ids /\ authority[a].val # j.auth /\ authority[a].slot < j.i
                            THEN [val |-> j.auth, slot |-> j.i] ELSE authority[a]
  BY UpdateEffect, Zenon
<1>5. JobsInv'
  <2>1. ~core_writes[j.i].empty /\ core_writes[j.i].id = Coll /\ (core_writes[j.i].auth # Coll => k.auth = core_writes[j.i].auth)
    BY <1>1, <1>2, JobFacts
  <2>2. k.pc # "burn" /\ k.pc \in {"begin", "page", "update", "commit"} /\ k.pc # "find" /\ k.pc # "update"
    BY <1>2
  <2>3. \A a \in k.ids : group'[a] # 0
    BY <1>2, Zenon
  <2>4. JobInv(k)'
    BY <1>3, <2>1, <2>2, <2>3, Zenon DEF JobInv
  <2> QED
    BY <1>2, <1>3, <2>4, GotoKeeps, Zenon DEF Inv
<1>6. ASSUME NEW a \in Ids
      PROVE  \/ authority'[a] = authority[a]
             \/ /\ a \in j.ids /\ authority[a] # Null /\ authority'[a] # Null
                /\ authority'[a].slot = j.i /\ authority[a].slot < j.i /\ ~NeverMember(a)
  <2>1. a \in j.ids => authority[a] # Null /\ ~NeverMember(a)
    BY <1>1, Zenon DEF Inv, RowInv, NeverMember
  <2>2. /\ [val |-> j.auth, slot |-> j.i] # Null
        /\ [val |-> j.auth, slot |-> j.i].slot = j.i
    BY Jobs, NewRow, Zenon
  <2> QED
    BY <1>4, <2>1, <2>2, Zenon
<1>7. \A id : Saved(id)' = Saved(id) /\ (NeverMember(id)' <=> NeverMember(id))
  <2>1. \A id : Saved(id)' = Saved(id)
    BY <1>3 DEF Saved
  <2> QED
    BY <1>3, <2>1, Zenon DEF NeverMember
<1>8. RowInv'
  <2> SUFFICES ASSUME NEW id \in Ids
               PROVE  /\ group[id] # 0 => authority'[id] # Null
                      /\ authority'[id] # Null => authority'[id].slot \in DOMAIN core_writes
                      /\ authority'[id] # Null /\ NeverMember(id) =>
                            /\ authority'[id].slot \in Saved(id)
                            /\ authority'[id].val = core_writes[authority'[id].slot].auth
    BY <1>3, <1>7, Zenon DEF Inv, RowInv
  <2>1. j.i \in DOMAIN core_writes
    BY Jobs, Zenon
  <2> QED
    BY <1>6, <2>1, Zenon DEF Inv, RowInv
<1>9. HandledInv'
  <2>1. ASSUME NEW h \in handled, ~core_writes[h].empty
        PROVE  Stored(h)'
    <3>1. core_writes[h].id \in Ids /\ h \in Nat
      BY Writes, Zenon DEF TypeInv, Write
    <3>2. PICK id \in Ids : id = core_writes[h].id
      BY <3>1, Zenon
    <3>3. core_asset[id] >= h /\ core_data[id] >= h /\ authority[id] # Null /\ authority[id].slot >= h
      BY <2>1, <3>2, Zenon DEF Inv, HandledInv, Stored
    <3>4. authority[id].slot \in Nat /\ j.i \in Nat
      <4>1. authority[id] \in Row
        BY <3>3, Zenon DEF TypeInv
      <4> QED
        BY <4>1, Jobs DEF Row
    <3>5. authority'[id] # Null /\ (authority'[id].slot = authority[id].slot
                                    \/ (authority'[id].slot = j.i /\ authority[id].slot < j.i))
      BY <1>6, <3>3, Zenon
    <3>6. authority'[id].slot >= h
      BY <3>1, <3>3, <3>4, <3>5
    <3> QED
      BY <1>3, <3>2, <3>3, <3>5, <3>6, Zenon DEF Stored
  <2>2. authority'[Coll] = authority[Coll]
    BY <1>4, Zenon DEF Ids
  <2> QED
    BY <1>3, <2>1, <2>2, Zenon DEF Inv, HandledInv
<1> QED
  BY <1>3, <1>5, <1>8, <1>9, ChainStays, Zenon DEF Inv

\* Every step keeps the invariant.
LEMMA InvStep ==
    ASSUME TypeInv, Inv, CoreAssumption, [CoreNext]_core_vars
    PROVE  Inv'
<1>1. CASE UNCHANGED core_vars
  <2>1. UNCHANGED <<core_writes, core_pending, core_jobs, authority, core_data, core_asset, group, handled>>
    BY <1>1, Zenon DEF core_vars, core_tables
  <2>2. JobsInv'
    BY <2>1, Zenon DEF Inv, JobsInv, JobInv
  <2>3. HandledInv'
    BY <2>1, Zenon DEF Inv, HandledInv, Stored
  <2> QED
    BY <2>1, <2>2, <2>3, RowsStay, ChainStays, Zenon DEF Inv
<1>2. ASSUME NEW j \in core_jobs, handle_mpl_core_account(j)
      PROVE  Inv'
  BY <1>2, BurnKeeps, FindKeeps, StoreKeeps, BeginCollectionKeeps, SelectKeeps, UpdateKeeps, FailKeeps, Zenon
     DEF handle_mpl_core_account, core_save_v1_asset, update_group_asset_authorities
<1> QED
  BY <1>1, <1>2, TransactKeeps, BeginKeeps, Zenon DEF CoreNext

\* The invariant holds of the empty tables.
LEMMA InitInv ==
    ASSUME CoreAssumption, CoreInit
    PROVE  TypeInv /\ Inv
<1>1. TypeInv
  <2>1. core_writes = << >> /\ core_pending = {} /\ core_jobs = {} /\ core_errors = 0 /\ handled = {} /\ ordered = TRUE
    BY DEF CoreInit
  <2>2. /\ authority = [id \in Ids |-> Null]
        /\ core_data = [id \in Ids |-> 0] /\ core_asset = [id \in Ids |-> 0]
        /\ burnt = [id \in Ids |-> Null] /\ slot_updated = [id \in Ids |-> Null]
        /\ group = [id \in Ids |-> 0]
    BY Zenon DEF CoreInit
  <2>3. core_writes \in Seq(Write) /\ DOMAIN core_writes = {} /\ core_errors \in Nat /\ 0 \in Nat
    BY <2>1
  <2>4. /\ authority \in [Ids -> Row \cup {Null}]
        /\ core_data \in [Ids -> Nat] /\ core_asset \in [Ids -> Nat] /\ group \in [Ids -> Nat]
        /\ burnt \in [Ids -> BOOLEAN \cup {Null}] /\ slot_updated \in [Ids -> Nat \cup {Null}]
    BY <2>2, <2>3, Zenon
  <2> QED
    BY <2>1, <2>3, <2>4, Zenon DEF TypeInv
<1>2. core_writes = << >> /\ DOMAIN core_writes = {} /\ core_jobs = {} /\ handled = {}
  BY DEF CoreInit
<1>3. \A id \in Ids : authority[id] = Null /\ core_data[id] = 0 /\ core_asset[id] = 0 /\ group[id] = 0
  BY Zenon DEF CoreInit
<1>4. ChainInv /\ JobsInv
  BY <1>2, Zenon DEF ChainInv, JobsInv
<1>5. RowInv
  BY <1>3, Zenon DEF RowInv
<1>6. HandledInv
  BY <1>2, <1>3, Zenon DEF HandledInv, Ids
<1> QED
  BY <1>1, <1>4, <1>5, <1>6, Zenon DEF Inv

\* The inductive invariant of the rows holds whatever is repeated, fails or overlaps.
LEMMA InvHolds ==
    ASSUME CoreAssumption
    PROVE  CoreSpec => [](TypeInv /\ Inv)
<1>1. CoreInit => TypeInv /\ Inv
  BY InitInv, Zenon
<1>2. TypeInv /\ Inv /\ [CoreNext]_core_vars => (TypeInv /\ Inv)'
  <2> SUFFICES ASSUME TypeInv, Inv, [CoreNext]_core_vars
               PROVE  TypeInv' /\ Inv'
    BY Zenon
  <2>1. TypeInv'
    BY TypeStep, Zenon DEF Inv
  <2> QED
    BY <2>1, InvStep, Zenon
<1> QED
  BY <1>1, <1>2, PTL DEF CoreSpec

\* When all messages of MPL Core accounts are handled, in any order, side by side, with
\* failures and repetitions (handle_mpl_core_account, save_v1_asset), the rows of each asset
\* are from its newest account, and the authority too if it never was a member.
THEOREM CoreSettlesHolds == CoreSpec => []CoreSettles
<1> USE CoreConstants
<1>1. TypeInv /\ Inv => CoreSettles
  <2> SUFFICES ASSUME TypeInv, Inv, CoreSettled, NEW id \in Ids, Saved(id) # {},
                      NEW i, i = Max(Saved(id))
               PROVE  /\ core_asset[id] = i /\ core_data[id] = i
                      /\ (\A k \in Saved(id) : core_writes[k].auth # Coll) => authority[id].val = core_writes[i].auth
    BY Zenon DEF CoreSettles
  <2>1. i \in Saved(id) /\ \A n \in Saved(id) : n \in Nat /\ n <= i
    <3>1. Saved(id) \in SUBSET (0 .. Len(core_writes)) /\ Len(core_writes) \in Nat
      BY Writes DEF Saved
    <3>2. i \in Saved(id) /\ \A n \in Saved(id) : n <= i
      BY <3>1, MaxOfBounded, Zenon
    <3> QED
      BY <3>1, <3>2
  <2>2. i \in DOMAIN core_writes /\ i \in Nat \ {0} /\ core_writes[i].id = id /\ ~core_writes[i].empty
    BY <2>1, Writes, Zenon DEF Saved
  <2>3. i \in handled
    BY <2>2, Zenon DEF CoreSettled, Inv, HandledInv
  <2>4. core_asset[id] >= i /\ core_data[id] >= i /\ authority[id] # Null /\ authority[id].slot >= i
    BY <2>2, <2>3, Zenon DEF Inv, HandledInv, Stored
  <2>5. core_asset[id] \in Nat /\ core_data[id] \in Nat
    BY Zenon DEF TypeInv
  <2>6. core_asset[id] # 0 /\ core_data[id] # 0
    BY <2>2, <2>4, <2>5
  <2>7. core_asset[id] \in Saved(id) /\ core_data[id] \in Saved(id)
    BY <2>6, Zenon DEF Inv, RowInv
  <2>8. core_asset[id] = i /\ core_data[id] = i
    BY <2>1, <2>2, <2>4, <2>5, <2>7
  <2>9. ASSUME \A k \in Saved(id) : core_writes[k].auth # Coll
        PROVE  authority[id].val = core_writes[i].auth
    <3>1. authority[id].slot \in Saved(id) /\ authority[id].val = core_writes[authority[id].slot].auth
      BY <2>4, <2>9, Zenon DEF Inv, RowInv, NeverMember
    <3>2. authority[id].slot = i
      BY <2>1, <2>2, <2>4, <3>1
    <3> QED
      BY <3>1, <3>2, Zenon
  <2> QED
    BY <2>8, <2>9, Zenon
<1> QED
  BY <1>1, InvHolds, PTL

-----------------------------------------------------------------------------
(* Members and their collection: MembersFollowCollection.                  *)

\* No id after the cursor: all rows of the group are before it.
LEMMA NoMembers ==
    ASSUME CoreAssumption, NEW after \in Nat, Members(after) = {}, NEW a \in Assets, group[a] # 0
    PROVE  a <= after
<1> DEFINE rest == {b \in Assets : group[b] # 0 /\ b > after}
<1>1. Assets \in SUBSET Nat /\ PageSize \in Nat \ {0}
  BY Zenon DEF CoreAssumption
<1>2. ASSUME a > after
      PROVE  FALSE
  <2>1. rest \in SUBSET Nat /\ a \in rest
    BY <1>1, <1>2, Zenon
  <2>2. PICK m \in rest : \A n \in rest : m <= n
    <3> HIDE DEF rest
    <3> QED
      BY <2>1, LeastNumber, Zenon
  <2>3. {b \in rest : b < m} = {}
    <3>1. \A b \in rest : ~(b < m)
      <4> HIDE DEF rest
      <4> QED
        BY <2>1, <2>2
    <3> QED
      BY <3>1, Zenon
  <2>4. Cardinality({b \in rest : b < m}) < PageSize
    BY <1>1, <2>3, FS_EmptySet
  <2>5. m \in Members(after)
    BY <2>2, <2>4, Zenon DEF Members
  <2> QED
    BY <2>5, Zenon
<1> QED
  BY <1>1, <1>2

\* A page has all ids of the group between the cursor and its last one.
LEMMA PageIsFull ==
    ASSUME CoreAssumption, NEW after \in Nat, NEW m \in Members(after),
           NEW a \in Assets, group[a] # 0, a > after, a <= m
    PROVE  a \in Members(after)
<1> DEFINE rest == {b \in Assets : group[b] # 0 /\ b > after}
           below(x) == {b \in rest : b < x}
<1>1. Assets \in SUBSET Nat /\ PageSize \in Nat \ {0} /\ IsFiniteSet(Assets)
  BY Zenon DEF CoreAssumption
<1>2. a \in rest /\ m \in rest /\ Cardinality(below(m)) < PageSize
  BY Zenon DEF Members
<1>3. a \in Nat /\ m \in Nat /\ rest \in SUBSET Nat
  BY <1>1, <1>2, Zenon
<1>4. below(a) \in SUBSET below(m)
  <2>1. \A b \in Nat : b < a => b < m
    BY <1>3
  <2> QED
    BY <1>3, <2>1, Zenon
<1>5. IsFiniteSet(below(m)) /\ IsFiniteSet(below(a))
  <2>1. below(m) \in SUBSET Assets /\ below(a) \in SUBSET Assets
    BY Zenon
  <2> HIDE DEF below
  <2> QED
    BY <1>1, <2>1, FS_Subset, Zenon
<1>6. /\ Cardinality(below(a)) <= Cardinality(below(m))
      /\ Cardinality(below(a)) \in Nat /\ Cardinality(below(m)) \in Nat
  <2> HIDE DEF below
  <2> QED
    BY <1>4, <1>5, FS_Subset, FS_CardinalityType, Zenon
<1>7. Cardinality(below(a)) < PageSize
  <2> HIDE DEF below
  <2> QED
    BY <1>1, <1>2, <1>6
<1> QED
  BY <1>2, <1>7, Zenon DEF Members

\* In order, a message that was not handled is newer than those that were.
LEMMA FreshIsNewest ==
    ASSUME TypeInv, NEW i \in Nat, i \notin handled,
           \A h \in handled : 1 .. h - 1 \subseteq handled, i > 0, NEW h \in handled
    PROVE  h \in Nat /\ h < i
<1>1. h \in Nat /\ h > 0
  BY Writes DEF TypeInv
<1>2. h # i
  BY Zenon
<1>3. h > i => i \in 1 .. h - 1
  BY <1>1
<1>4. ~(h > i)
  BY <1>3, Zenon
<1> QED
  BY <1>1, <1>2, <1>4

\* The authority of the collection's row is that of its newest account handled.
LEMMA CollectionRow ==
    ASSUME TypeInv, Inv, NEW c \in handled, IsColl(c)
    PROVE  /\ authority[Coll] # Null /\ authority[Coll].slot \in handled
           /\ authority[Coll].slot \in Nat /\ authority[Coll].slot >= c
           /\ IsColl(authority[Coll].slot)
           /\ authority[Coll].val = core_writes[authority[Coll].slot].auth
<1>1. c \in DOMAIN core_writes /\ Coll \in Ids
  BY Zenon DEF TypeInv, Ids
<1>2. ~core_writes[c].empty
  BY <1>1, Zenon DEF Inv, ChainInv
<1>3. authority[Coll] # Null /\ authority[Coll].slot >= c /\ authority[Coll].slot \in handled
  BY <1>2, Zenon DEF Inv, HandledInv, Stored, IsColl
<1>4. NeverMember(Coll)
  BY Zenon DEF Inv, ChainInv, NeverMember, Saved, IsColl
<1>5. /\ authority[Coll].slot \in Saved(Coll)
      /\ authority[Coll].val = core_writes[authority[Coll].slot].auth
  BY <1>1, <1>3, <1>4, Zenon DEF Inv, RowInv
<1>6. IsColl(authority[Coll].slot) /\ authority[Coll].slot \in DOMAIN core_writes
  BY <1>5, Zenon DEF IsColl, Saved
<1> QED
  BY <1>3, <1>5, <1>6, Writes, Zenon

\* The invariant is about these parts of the state.
LEMMA FollowStays ==
    ASSUME TypeInv, Inv, FollowInv, ordered' => ordered, handled' = handled, UNCHANGED <<authority, group>>,
           \A i \in DOMAIN core_writes : i \in DOMAIN core_writes' /\ core_writes'[i] = core_writes[i],
           (ordered => /\ \A j, k \in core_jobs : j = k
                       /\ \A j \in core_jobs : 1 .. j.i - 1 \subseteq handled)',
           PageInv'
    PROVE  FollowInv'
<1>1. handled \subseteq DOMAIN core_writes
  BY DEF TypeInv
<1>2. \A i \in DOMAIN core_writes : IsColl(i)' <=> IsColl(i)
  BY Zenon DEF IsColl
<1>3. OrderInv'
  <2>1. ASSUME ordered', NEW a \in Assets, authority[a] # Null, authority[a].slot \notin handled
        PROVE  IsColl(authority[a].slot)' /\ 1 .. authority[a].slot - 1 \subseteq handled
    <3>1. authority[a].slot \in DOMAIN core_writes
      BY <2>1, Zenon DEF Inv, RowInv, Ids
    <3> QED
      BY <1>2, <2>1, <3>1, Zenon DEF FollowInv, OrderInv
  <2>2. ordered' => \A i \in handled : 1 .. i - 1 \subseteq handled
    BY Zenon DEF FollowInv, OrderInv
  <2>3. ordered' => \A a \in Assets : authority[a] # Null /\ authority[a].slot \notin handled =>
            IsColl(authority[a].slot)' /\ 1 .. authority[a].slot - 1 \subseteq handled
    BY <2>1, Zenon
  <2> QED
    BY <2>2, <2>3, Zenon DEF OrderInv
<1>4. MemberInv'
  <2> SUFFICES ASSUME ordered', NEW i \in handled, Member(i)', LastHandled(i)'
               PROVE  (group[core_writes[i].id] # 0 /\ Follows(authority[core_writes[i].id]))'
    BY Zenon DEF MemberInv
  <2>1. core_writes'[i] = core_writes[i] /\ i \in DOMAIN core_writes
    BY <1>1, Zenon
  <2>2. PICK id : id = core_writes[i].id
    BY Zenon
  <2>3. Member(i) /\ LastHandled(i)
    <3>1. \A k \in handled : core_writes'[k] = core_writes[k]
      BY <1>1, Zenon
    <3> QED
      BY <1>2, <2>1, <3>1, Zenon DEF Member, LastHandled
  <2>4. group[id] # 0 /\ Follows(authority[id])
    BY <2>2, <2>3, Zenon DEF FollowInv, MemberInv
  <2>5. id \in Ids
    BY <2>1, <2>2, Writes DEF Write
  <2>6. PICK r : r = authority[id]
    BY Zenon
  <2>7. r.slot \in DOMAIN core_writes
    BY <2>4, <2>5, <2>6, Zenon DEF Inv, RowInv
  <2>8. 1 .. r.slot \subseteq DOMAIN core_writes /\ \A c \in 1 .. r.slot : c + 1 .. r.slot \subseteq DOMAIN core_writes
    BY <2>7, Writes
  <2>9. Follows(r)'
    <3>1. Follows(r)
      BY <2>4, <2>6, Zenon
    <3>2. \A c \in 1 .. r.slot :
             IsColl(c)' /\ (\A k \in c + 1 .. r.slot : ~IsColl(k)') => core_writes'[c].auth = r.val
      BY <1>2, <2>8, <3>1, Zenon DEF Follows
    <3>3. \A k \in handled : IsColl(k)' /\ k > r.slot => core_writes'[k].auth = r.val
      BY <1>1, <1>2, <3>1, Zenon DEF Follows
    <3> QED
      BY <3>2, <3>3, Zenon DEF Follows
  <2>10. authority'[core_writes'[i].id] = r /\ group'[core_writes'[i].id] # 0
    BY <2>1, <2>2, <2>4, <2>6, Zenon
  <2>11. Follows(authority[core_writes[i].id])'
    BY <2>9, <2>10, Zenon DEF Follows
  <2> QED
    BY <2>10, <2>11, Zenon
<1> QED
  BY <1>3, <1>4, Zenon DEF FollowInv

\* In order a job is the only one, and what came before its message is handled.
LEMMA OnlyJob ==
    ASSUME FollowInv, ordered, NEW j \in core_jobs
    PROVE  /\ core_jobs = {j} /\ 1 .. j.i - 1 \subseteq handled
           /\ \A i \in handled : 1 .. i - 1 \subseteq handled
<1>1. \A l, k \in core_jobs : l = k
  BY Zenon DEF FollowInv, OrderInv
<1> QED
  BY <1>1, Zenon DEF FollowInv, OrderInv

\* A new write changes none of the rows the members follow.
LEMMA TransactFollows ==
    ASSUME TypeInv, Inv, FollowInv, CoreTransact
    PROVE  FollowInv'
<1>1. UNCHANGED <<core_jobs, authority, group, handled, ordered>>
  BY Zenon DEF CoreTransact, core_tables
<1>2. \A i \in DOMAIN core_writes : i \in DOMAIN core_writes' /\ core_writes'[i] = core_writes[i]
  BY Appended, Zenon
<1>3. PageInv'
  <2>1. \A j \in core_jobs : core_writes'[j.i] = core_writes[j.i]
    BY <1>2, Jobs, Zenon
  <2>2. \A n : Members(n)' = Members(n)
    BY <1>1, Zenon DEF Members
  <2> QED
    BY <1>1, <2>1, <2>2, Zenon DEF FollowInv, PageInv, Reached
<1>4. (ordered => /\ \A j, k \in core_jobs : j = k
                  /\ \A j \in core_jobs : 1 .. j.i - 1 \subseteq handled)'
  BY <1>1, Zenon DEF FollowInv, OrderInv
<1> QED
  BY <1>1, <1>2, <1>3, <1>4, FollowStays, Zenon

\* Taking a message breaks the order, or keeps what the members follow.
LEMMA BeginFollows ==
    ASSUME TypeInv, Inv, FollowInv, NEW i \in core_pending, CoreBegin(i)
    PROVE  FollowInv'
<1>0. PICK j : j = [i |-> i, pc |-> FirstStep(core_writes[i]), auth |-> core_writes[i].auth, after |-> 0, ids |-> {}]
  BY Zenon
<1>1. /\ core_jobs' = core_jobs \cup {j} /\ UNCHANGED <<core_writes, authority, group, handled>>
      /\ ordered' = (ordered /\ core_jobs = {} /\ 1 .. i - 1 \subseteq handled)
  BY <1>0, Zenon DEF CoreBegin, core_tables
<1>2. j.i = i /\ j.pc = FirstStep(core_writes[i]) /\ j.after = 0
  BY <1>0
<1>3. ordered' => ordered /\ core_jobs' = {j} /\ 1 .. i - 1 \subseteq handled
  BY <1>1, Zenon
<1>4. PageInv'
  <2>1. /\ j.pc = "save" => core_writes[i].auth # Coll
        /\ j.pc \notin {"page", "update"} /\ j.pc # "update" /\ j.pc # "commit"
    BY <1>2 DEF FirstStep
  <2> QED
    BY <1>1, <1>2, <1>3, <2>1, Zenon DEF PageInv
<1>5. (ordered => /\ \A l, k \in core_jobs : l = k
                  /\ \A l \in core_jobs : 1 .. l.i - 1 \subseteq handled)'
  BY <1>1, <1>2, <1>3, Zenon
<1> QED
  BY <1>1, <1>3, <1>4, <1>5, FollowStays, Zenon

\* A job moves, in order: it stays the only one.
LEMMA MoveFollows ==
    ASSUME TypeInv, Inv, FollowInv, NEW j \in core_jobs, NEW k, Moves(j, k), UNCHANGED <<authority, group>>,
           ordered => (/\ k.pc = "save" /\ core_writes[k.i].auth = Coll =>
                             authority[Coll] # Null /\ k.auth = authority[Coll].val
                       /\ k.pc = "begin" => k.after = 0
                       /\ k.pc \in {"page", "update"} =>
                             \A a \in Assets : group[a] # 0 /\ a <= k.after => Reached(a, k)
                       /\ k.pc = "update" => k.ids = Members(k.after)
                       /\ k.pc = "commit" => \A a \in Assets : group[a] # 0 => Reached(a, k))
    PROVE  FollowInv'
<1>1. core_jobs' = (core_jobs \ {j}) \cup {k} /\ k.i = j.i /\ UNCHANGED <<core_writes, ordered, handled>>
  BY Zenon DEF Moves, CoreGoto
<1>2. ordered => core_jobs = {j} /\ 1 .. j.i - 1 \subseteq handled
  BY OnlyJob, Zenon
<1>3. ordered => core_jobs' = {k}
  BY <1>1, <1>2, Zenon
<1>4. PageInv'
  <2>1. \A n : Members(n)' = Members(n)
    BY Zenon DEF Members
  <2>2. \A a : Reached(a, k)' <=> Reached(a, k)
    BY Zenon DEF Reached
  <2>3. \A l \in core_jobs' : ordered => l = k
    BY <1>3, Zenon
  <2> QED
    BY <1>1, <2>1, <2>2, <2>3, Zenon DEF PageInv
<1>5. (ordered => /\ \A l, m \in core_jobs : l = m
                  /\ \A l \in core_jobs : 1 .. l.i - 1 \subseteq handled)'
  BY <1>1, <1>2, <1>3, Zenon
<1> QED
  BY <1>1, <1>4, <1>5, FollowStays, Zenon

\* Looking for the collection keeps what the members follow.
LEMMA FindFollows ==
    ASSUME TypeInv, Inv, FollowInv, CoreAssumption, NEW j \in core_jobs, FindAuthority(j)
    PROVE  FollowInv'
<1>1. PICK k : /\ Moves(j, k) /\ UNCHANGED core_tables /\ k.pc = "save"
               /\ authority[Coll] # Null => k.auth = authority[Coll].val
  BY FindMoves, Zenon
<1>2. UNCHANGED <<authority, group>>
  BY <1>1, Zenon DEF core_tables
<1>3. j.pc = "find" /\ core_writes[j.i].auth = Coll /\ ~IsColl(j.i)
  <2>1. j.pc = "find" /\ j.pc \notin {"begin", "page", "update", "commit"}
    BY DEF FindAuthority
  <2> QED
    BY <2>1, JobFacts, Zenon DEF IsColl
<1>4. ordered => authority[Coll] # Null
  <2>1. \E c \in 1 .. j.i - 1 : IsColl(c)
    BY <1>3, Jobs, Zenon DEF Inv, ChainInv
  <2>2. ordered => 1 .. j.i - 1 \subseteq handled
    BY OnlyJob, Zenon
  <2> QED
    BY <2>1, <2>2, CollectionRow, Zenon
<1>5. k.pc # "begin" /\ k.pc \notin {"page", "update"} /\ k.pc # "update" /\ k.pc # "commit"
  BY <1>1
<1> QED
  BY <1>1, <1>2, <1>4, <1>5, MoveFollows, Zenon

\* Before the first page no member is reached.
LEMMA BeginCollectionFollows ==
    ASSUME TypeInv, Inv, FollowInv, CoreAssumption, NEW j \in core_jobs, BeginCollection(j)
    PROVE  FollowInv'
<1>1. PICK k : Moves(j, k) /\ UNCHANGED core_tables /\ k.pc = "page" /\ k.after = j.after
  BY BeginCollectionMoves, Zenon
<1>2. UNCHANGED <<authority, group>>
  BY <1>1, Zenon DEF core_tables
<1>3. ordered => k.after = 0
  BY <1>1, Zenon DEF BeginCollection, FollowInv, PageInv
<1>4. \A a \in Assets : ~(a <= 0)
  <2>1. \A a \in Assets : a \in Nat \ {0}
    BY Zenon DEF CoreAssumption, Coll
  <2> QED
    BY <2>1
<1>5. k.pc # "begin" /\ k.pc # "save" /\ k.pc # "update" /\ k.pc # "commit"
  BY <1>1
<1> QED
  BY <1>1, <1>2, <1>3, <1>4, <1>5, MoveFollows, Zenon

\* The members a selected page does not have are reached already, or come later.
LEMMA SelectFollows ==
    ASSUME TypeInv, Inv, FollowInv, CoreAssumption, NEW j \in core_jobs, SelectPage(j)
    PROVE  FollowInv'
<1>1. PICK k : /\ Moves(j, k) /\ UNCHANGED core_tables /\ k.auth = j.auth /\ k.after = j.after
               /\ k.pc = (IF Members(j.after) = {} THEN "commit" ELSE "update")
               /\ k.ids = Members(j.after)
  BY SelectMoves, Zenon
<1>2. UNCHANGED <<authority, group>> /\ k.i = j.i
  BY <1>1, Zenon DEF core_tables, Moves
<1>3. ordered => \A a \in Assets : group[a] # 0 /\ a <= k.after => Reached(a, k)
  <2>1. j.pc \in {"page", "update"}
    BY DEF SelectPage
  <2>2. ordered => \A a \in Assets : group[a] # 0 /\ a <= j.after => Reached(a, j)
    BY <2>1, Zenon DEF FollowInv, PageInv
  <2> QED
    BY <1>1, <1>2, <2>2, Zenon DEF Reached
<1>4. k.pc # "begin" /\ k.pc # "save" /\ (k.pc = "commit" => Members(k.after) = {})
  BY <1>1
<1>5. k.pc = "commit" => \A a \in Assets : group[a] # 0 => a <= k.after
  <2>1. k.after \in Nat
    BY <1>1, Jobs, Zenon
  <2> QED
    BY <1>4, <2>1, NoMembers, Zenon
<1> QED
  BY <1>1, <1>2, <1>3, <1>4, <1>5, MoveFollows, Zenon

\* A job that fails leaves the rows of the members.
LEMMA FailFollows ==
    ASSUME TypeInv, Inv, FollowInv, NEW j \in core_jobs, CoreFail(j)
    PROVE  FollowInv'
<1>1. core_jobs' = core_jobs \ {j} /\ UNCHANGED <<core_writes, authority, group, handled, ordered>>
  BY Zenon DEF CoreFail, core_tables
<1>2. ordered => core_jobs' = {}
  BY <1>1, OnlyJob, Zenon
<1>3. PageInv'
  BY <1>1, <1>2, Zenon DEF PageInv
<1>4. (ordered => /\ \A l, m \in core_jobs : l = m
                  /\ \A l \in core_jobs : 1 .. l.i - 1 \subseteq handled)'
  BY <1>1, <1>2, Zenon
<1> QED
  BY <1>1, <1>3, <1>4, FollowStays, Zenon

\* A row still follows when a message was handled that is none of the collection, or
\* has the authority of the row, or is not newer.
LEMMA StillFollows ==
    ASSUME NEW r, NEW i, Follows(r), UNCHANGED core_writes, handled' = handled \cup {i},
           IsColl(i) /\ i > r.slot => core_writes[i].auth = r.val
    PROVE  Follows(r)'
<1>1. \A k : IsColl(k)' <=> IsColl(k)
  BY Zenon DEF IsColl
<1> QED
  BY <1>1, Zenon DEF Follows

\* The job that ends in order was the only one, and its message comes next or is
\* repeated.
LEMMA OrderReturns ==
    ASSUME TypeInv, Inv, FollowInv, ordered, UNCHANGED <<core_writes, ordered>>, NEW j \in core_jobs, CoreReturn(j),
           \A a \in Assets : authority'[a] = authority[a] \/ authority'[a].slot = j.i
    PROVE  OrderInv' /\ PageInv' /\ core_jobs' = {} /\ handled' = handled \cup {j.i}
<1>1. core_jobs' = core_jobs \ {j} /\ handled' = handled \cup {j.i}
  BY ReturnJobs, Zenon
<1>2. /\ core_jobs = {j} /\ 1 .. j.i - 1 \subseteq handled
      /\ \A i \in handled : 1 .. i - 1 \subseteq handled
  BY OnlyJob, Zenon
<1>3. core_jobs' = {}
  BY <1>1, <1>2, Zenon
<1>4. \A i \in handled' : 1 .. i - 1 \subseteq handled'
  BY <1>1, <1>2, Zenon
<1>5. \A a \in Assets : authority'[a] # Null /\ authority'[a].slot \notin handled' =>
          IsColl(authority'[a].slot) /\ 1 .. authority'[a].slot - 1 \subseteq handled'
  BY <1>1, Zenon DEF FollowInv, OrderInv
<1>6. OrderInv'
  BY <1>3, <1>4, <1>5, Zenon DEF OrderInv, IsColl
<1>7. PageInv'
  BY <1>3, Zenon DEF PageInv
<1> QED
  BY <1>1, <1>3, <1>6, <1>7, Zenon

\* A member whose rows stay follows as before.
LEMMA OthersFollow ==
    ASSUME TypeInv, Inv, FollowInv, ordered, UNCHANGED core_writes, NEW i, handled' = handled \cup {i},
           NEW m \in handled, Member(m)', LastHandled(m)',
           authority'[core_writes[m].id] = authority[core_writes[m].id], group'[core_writes[m].id] = group[core_writes[m].id],
           ASSUME group[core_writes[m].id] # 0, IsColl(i), i > authority[core_writes[m].id].slot
           PROVE  core_writes[i].auth = authority[core_writes[m].id].val
    PROVE  (group[core_writes[m].id] # 0 /\ Follows(authority[core_writes[m].id]))'
<1>1. Member(m) /\ LastHandled(m)
  <2>1. Member(m)
    BY Zenon DEF Member, IsColl
  <2>2. \A k \in handled : k > m => core_writes[k].id # core_writes[m].id
    BY Zenon DEF LastHandled
  <2> QED
    BY <2>1, <2>2, Zenon DEF LastHandled
<1>2. PICK r : r = authority[core_writes[m].id]
  BY Zenon
<1>3. group[core_writes[m].id] # 0 /\ Follows(r)
  BY <1>1, <1>2, Zenon DEF FollowInv, MemberInv
<1>4. Follows(r)'
  BY <1>2, <1>3, StillFollows, Zenon
<1>5. authority'[core_writes'[m].id] = r /\ group'[core_writes'[m].id] # 0
  BY <1>2, <1>3, Zenon
<1> QED
  BY <1>4, <1>5, Zenon DEF Follows

\* A burn leaves the authority of the members.
LEMMA BurnFollows ==
    ASSUME TypeInv, Inv, FollowInv, NEW j \in core_jobs, core_burn_v1_asset(j)
    PROVE  FollowInv'
<1>1. CoreReturn(j) /\ UNCHANGED <<core_writes, authority, group, ordered>> /\ j.pc = "burn"
  BY Zenon DEF core_burn_v1_asset
<1>2. CASE ~ordered
  BY <1>1, <1>2, Zenon DEF FollowInv, OrderInv, MemberInv, PageInv
<1>3. CASE ordered
  <2>1. OrderInv' /\ PageInv' /\ handled' = handled \cup {j.i}
    BY <1>1, <1>3, OrderReturns, Zenon
  <2>2. core_writes[j.i].empty /\ ~IsColl(j.i)
    <3>1. core_writes[j.i].empty
      BY <1>1, JobFacts, Zenon
    <3> QED
      BY <3>1, Jobs, Zenon DEF Inv, ChainInv
  <2>3. ASSUME NEW m \in handled', Member(m)', LastHandled(m)'
        PROVE  (group[core_writes[m].id] # 0 /\ Follows(authority[core_writes[m].id]))'
    <3>1. m \in handled
      BY <1>1, <2>1, <2>2, <2>3, Zenon DEF Member
    <3> QED
      BY <1>1, <1>3, <2>1, <2>2, <2>3, <3>1, OthersFollow, Zenon
  <2>4. MemberInv'
    BY <2>3, Zenon DEF MemberInv
  <2> QED
    BY <2>1, <2>4, Zenon DEF FollowInv
<1> QED
  BY <1>2, <1>3, Zenon

\* The collection's rows are saved once all pages of its members are done.
LEMMA CommitFollows ==
    ASSUME TypeInv, Inv, FollowInv, CoreAssumption, NEW j \in core_jobs, Commit(j)
    PROVE  FollowInv'
<1>1. Store(j.i, j.auth) /\ CoreReturn(j) /\ UNCHANGED <<core_writes, ordered>> /\ j.pc = "commit"
  BY Zenon DEF Commit
<1>2. CASE ~ordered
  BY <1>1, <1>2, Zenon DEF FollowInv, OrderInv, MemberInv, PageInv
<1>3. CASE ordered
  <2>1. IsColl(j.i) /\ j.auth = core_writes[j.i].auth
    <3>1. j.pc \in {"begin", "page", "update", "commit"}
      BY <1>1
    <3> QED
      BY <3>1, JobFacts, Zenon DEF IsColl
  <2>2. Stores(j.i, j.auth, Coll)
    <3>1. Stores(j.i, j.auth, core_writes[j.i].id)
      BY <1>1, Jobs, StoreEffect, Zenon
    <3> QED
      BY <2>1, <3>1, Zenon DEF IsColl
  <2>3. \A x \in Assets : authority'[x] = authority[x] /\ group'[x] = group[x]
    <3>1. \A x \in Assets : x \in Ids \ {Coll}
      BY Zenon DEF CoreAssumption, Ids
    <3> QED
      BY <2>2, <3>1, Zenon DEF Stores
  <2>4. OrderInv' /\ PageInv' /\ handled' = handled \cup {j.i}
    BY <1>1, <1>3, <2>3, OrderReturns, Zenon
  <2>5. ASSUME NEW m \in handled', Member(m)', LastHandled(m)'
        PROVE  (group[core_writes[m].id] # 0 /\ Follows(authority[core_writes[m].id]))'
    <3>1. m \in handled /\ ~IsColl(m)
      BY <1>1, <2>1, <2>4, <2>5, Zenon DEF Member, IsColl
    <3>2. PICK a \in Assets : a = core_writes[m].id
      <4>1. core_writes[m].id \in Ids
        BY <3>1, Writes, Zenon DEF TypeInv, Write
      <4> QED
        BY <3>1, <4>1, Zenon DEF Ids, IsColl
    <3>3. group[a] # 0 => Reached(a, j)
      BY <1>1, <1>3, Zenon DEF FollowInv, PageInv
    <3>4. ASSUME group[a] # 0, IsColl(j.i), j.i > authority[a].slot
          PROVE  core_writes[j.i].auth = authority[a].val
      <4>1. authority[a].slot \in Nat /\ j.i \in Nat
        <5>1. authority[a].slot \in DOMAIN core_writes
          BY <3>4, Zenon DEF Inv, RowInv, Ids
        <5> QED
          BY <5>1, Writes, Jobs
      <4>2. ~(authority[a].slot >= j.i)
        BY <3>4, <4>1
      <4> QED
        BY <2>1, <3>3, <3>4, <4>2, Zenon DEF Reached
    <3> QED
      BY <1>1, <1>3, <2>3, <2>4, <2>5, <3>1, <3>2, <3>4, OthersFollow, Zenon
  <2>6. MemberInv'
    BY <2>5, Zenon DEF MemberInv
  <2> QED
    BY <2>4, <2>6, Zenon DEF FollowInv
<1> QED
  BY <1>2, <1>3, Zenon

\* In order, what a new account of a member stores follows: the collection's row is
\* from the newest account before it.
LEMMA NewFollows ==
    ASSUME TypeInv, Inv, FollowInv, ordered, NEW j \in core_jobs, UNCHANGED core_writes,
           handled' = handled \cup {j.i}, j.i \notin handled, ~IsColl(j.i),
           NEW r, r.slot = j.i, authority[Coll] # Null => r.val = authority[Coll].val
    PROVE  Follows(r)'
<1>1. j.i \in Nat /\ j.i > 0
  BY Jobs
<1>2. /\ 1 .. j.i - 1 \subseteq handled
      /\ \A i \in handled : 1 .. i - 1 \subseteq handled
  BY OnlyJob, Zenon
<1>3. \A h \in handled : h \in Nat /\ h < j.i
  BY <1>1, <1>2, FreshIsNewest, Zenon
<1>4. ASSUME NEW c \in 1 .. j.i, IsColl(c), \A k \in c + 1 .. j.i : ~IsColl(k)
      PROVE  core_writes[c].auth = r.val
  <2>1. c \in handled
    <3>1. c # j.i
      BY <1>4, Zenon
    <3>2. c \in 1 .. j.i - 1
      BY <1>1, <3>1
    <3> QED
      BY <1>2, <3>2, Zenon
  <2> DEFINE s == authority[Coll].slot
  <2>2. /\ authority[Coll] # Null /\ s \in handled /\ s \in Nat /\ s >= c
        /\ IsColl(s) /\ authority[Coll].val = core_writes[s].auth
    BY <1>4, <2>1, CollectionRow, Zenon
  <2> HIDE DEF s
  <2>3. s < j.i
    BY <1>3, <2>2, Zenon
  <2>4. s > c => s \in c + 1 .. j.i
    BY <1>1, <2>2, <2>3
  <2>5. s = c
    <3>1. ~(s > c)
      BY <1>4, <2>2, <2>4, Zenon
    <3> QED
      BY <2>2, <3>1
  <2> QED
    BY <2>2, <2>5, Zenon
<1>5. \A k \in handled' : ~(k > j.i)
  BY <1>1, <1>3
<1> QED
  BY <1>4, <1>5, Zenon DEF Follows, IsColl

\* A saved account takes its authority from the collection's row, which the others follow.
LEMMA SaveFollows ==
    ASSUME TypeInv, Inv, FollowInv, CoreAssumption, NEW j \in core_jobs, SaveAsset(j)
    PROVE  FollowInv'
<1>1. Store(j.i, j.auth) /\ CoreReturn(j) /\ UNCHANGED <<core_writes, ordered>> /\ j.pc = "save"
  BY Zenon DEF SaveAsset
<1>2. CASE ~ordered
  BY <1>1, <1>2, Zenon DEF FollowInv, OrderInv, MemberInv, PageInv
<1>3. CASE ordered
  <2>0. PICK id : id = core_writes[j.i].id
    BY Zenon
  <2>1. ~IsColl(j.i) /\ ~core_writes[j.i].empty
    <3>1. j.pc \notin {"begin", "page", "update", "commit"} /\ j.pc # "burn"
      BY <1>1
    <3> QED
      BY <3>1, JobFacts, Zenon DEF IsColl
  <2>2. Stores(j.i, j.auth, id)
    <3>1. Stores(j.i, j.auth, core_writes[j.i].id)
      BY <1>1, Jobs, StoreEffect, Zenon
    <3> QED
      BY <2>0, <3>1, Zenon
  <2>3. /\ id \in Ids /\ id \in Assets
        /\ \A x \in Ids \ {id} : authority'[x] = authority[x] /\ group'[x] = group[x]
        /\ group'[id] = (IF core_writes[j.i].auth = Coll /\ j.i >= group[id] THEN j.i ELSE group[id])
        /\ authority'[id] = IF authority[id] = Null \/ j.i > authority[id].slot
                            THEN [val |-> j.auth, slot |-> j.i] ELSE authority[id]
    <3>1. id # Coll
      BY <2>0, <2>1, Zenon DEF IsColl
    <3> QED
      BY <2>2, <3>1, Zenon DEF Stores, Ids
  <2>4. j.i \in Nat \ {0} /\ group[id] \in Nat
    BY <2>3, Jobs DEF TypeInv
  <2>5. [val |-> j.auth, slot |-> j.i].slot = j.i /\ [val |-> j.auth, slot |-> j.i].val = j.auth
    OBVIOUS
  <2>6. \A a \in Assets : authority'[a] = authority[a] \/ authority'[a].slot = j.i
    BY <2>3, <2>5, Zenon DEF Ids
  <2>7. OrderInv' /\ PageInv' /\ handled' = handled \cup {j.i}
    BY <1>1, <1>3, <2>6, OrderReturns, Zenon
  <2>8. ASSUME NEW m \in handled', Member(m)', LastHandled(m)'
        PROVE  (group[core_writes[m].id] # 0 /\ Follows(authority[core_writes[m].id]))'
    <3>1. m \in DOMAIN core_writes /\ core_writes[m].id \in Ids
      <4>1. m \in DOMAIN core_writes
        BY <2>7, Jobs, Zenon DEF TypeInv
      <4> QED
        BY <4>1, Writes DEF Write
    <3>2. CASE core_writes[m].id # id
      <4>1. m \in handled
        BY <2>0, <2>7, <3>2, Zenon
      <4>2. authority'[core_writes[m].id] = authority[core_writes[m].id] /\ group'[core_writes[m].id] = group[core_writes[m].id]
        BY <2>3, <3>1, <3>2, Zenon
      <4> QED
        BY <1>1, <1>3, <2>1, <2>7, <2>8, <4>1, <4>2, OthersFollow, Zenon
    <3>3. CASE core_writes[m].id = id /\ j.i \in handled
      <4>1. m \in handled
        BY <2>7, <3>3, Zenon
      <4>2. authority[id] # Null /\ authority[id].slot >= j.i
        BY <2>0, <2>1, <3>3, Zenon DEF Inv, HandledInv, Stored
      <4>3. authority[id].slot \in Nat
        <5>1. authority[id] \in Row
          BY <2>3, <4>2, Zenon DEF TypeInv
        <5> QED
          BY <5>1 DEF Row
      <4>4. ~(j.i > authority[id].slot)
        BY <2>4, <4>2, <4>3
      <4>5. authority'[id] = authority[id]
        BY <2>3, <4>2, <4>4, Zenon
      <4>6. Member(m) /\ LastHandled(m)
        <5>1. \A k \in handled : k > m => core_writes[k].id # core_writes[m].id
          BY <1>1, <2>7, <2>8, Zenon DEF LastHandled
        <5> QED
          BY <1>1, <2>8, <4>1, <5>1, Zenon DEF Member, IsColl, LastHandled
      <4>7. group[id] # 0 /\ Follows(authority[id])
        BY <1>3, <3>3, <4>1, <4>6, Zenon DEF FollowInv, MemberInv
      <4>8. group'[id] # 0
        BY <2>3, <2>4, <4>7
      <4>9. PICK r : r = authority[id]
        BY Zenon
      <4>10. Follows(r)'
        BY <1>1, <2>1, <2>7, <4>7, <4>9, StillFollows, Zenon
      <4>11. authority'[core_writes'[m].id] = r /\ group'[core_writes'[m].id] # 0
        BY <1>1, <3>3, <4>5, <4>8, <4>9, Zenon
      <4> QED
        BY <4>10, <4>11, Zenon DEF Follows
    <3>4. CASE core_writes[m].id = id /\ j.i \notin handled
      <4>1. \A h \in handled : h \in Nat /\ h < j.i
        <5>1. \A i \in handled : 1 .. i - 1 \subseteq handled
          BY <1>3, OnlyJob, Zenon
        <5>2. j.i \in Nat /\ j.i > 0
          BY <2>4
        <5> QED
          BY <3>4, <5>1, <5>2, FreshIsNewest, Zenon
      <4>2. m = j.i
        <5>1. m < j.i => j.i > m
          BY <2>4, <3>1, Writes
        <5>2. j.i \in handled'
          BY <2>7, Zenon
        <5>3. ~(j.i > m)
          BY <1>1, <2>0, <2>8, <3>4, <5>2, Zenon DEF LastHandled
        <5> QED
          BY <2>7, <4>1, <5>1, <5>3, Zenon
      <4>3. core_writes[j.i].auth = Coll
        BY <1>1, <2>8, <4>2, Zenon DEF Member
      <4>4. authority[id] = Null \/ j.i > authority[id].slot
        <5> SUFFICES ASSUME authority[id] # Null
                     PROVE  j.i > authority[id].slot
          BY Zenon
        <5>1. authority[id].slot \in DOMAIN core_writes
          BY <2>3, Zenon DEF Inv, RowInv
        <5>2. authority[id].slot \in Nat \ {0}
          BY <5>1, Writes, Zenon
        <5>3. CASE authority[id].slot \in handled
          BY <2>4, <4>1, <5>2, <5>3
        <5>4. CASE authority[id].slot \notin handled
          <6>1. IsColl(authority[id].slot) /\ 1 .. authority[id].slot - 1 \subseteq handled
            BY <1>3, <2>3, <5>4, Zenon DEF FollowInv, OrderInv
          <6>2. j.i # authority[id].slot
            BY <2>1, <6>1, Zenon
          <6>3. j.i \notin 1 .. authority[id].slot - 1
            BY <3>4, <6>1, Zenon
          <6> QED
            BY <2>4, <5>2, <6>2, <6>3
        <5> QED
          BY <5>3, <5>4, Zenon
      <4>5. PICK r : r = [val |-> j.auth, slot |-> j.i]
        BY Zenon
      <4>6. r.slot = j.i /\ r.val = j.auth /\ authority'[id] = r
        <5>1. r.slot = j.i /\ r.val = j.auth
          BY <4>5
        <5> QED
          BY <2>3, <4>4, <4>5, <5>1, Zenon
      <4>7. authority[Coll] # Null => r.val = authority[Coll].val
        BY <1>1, <1>3, <4>3, <4>6, Zenon DEF FollowInv, PageInv
      <4>8. Follows(r)'
        BY <1>1, <1>3, <2>1, <2>7, <3>4, <4>6, <4>7, NewFollows, Zenon
      <4>9. group'[id] # 0
        BY <2>3, <2>4, <4>3
      <4>10. authority'[core_writes'[m].id] = r /\ group'[core_writes'[m].id] # 0
        BY <1>1, <3>4, <4>6, <4>9, Zenon
      <4> QED
        BY <4>8, <4>10, Zenon DEF Follows
    <3> QED
      BY <3>2, <3>3, <3>4, Zenon
  <2>9. MemberInv'
    BY <2>8, Zenon DEF MemberInv
  <2> QED
    BY <2>7, <2>9, Zenon DEF FollowInv
<1> QED
  BY <1>2, <1>3, Zenon

\* A page of members takes the authority of the account being handled.
LEMMA UpdateFollows ==
    ASSUME TypeInv, Inv, FollowInv, CoreAssumption, NEW j \in core_jobs, UpdateMembers(j)
    PROVE  FollowInv'
<1>1. j.pc = "update" /\ j.ids # {} /\ IsColl(j.i) /\ j.auth = core_writes[j.i].auth
  <2>1. j.pc = "update" /\ j.pc \in {"begin", "page", "update", "commit"}
    BY DEF UpdateMembers
  <2> QED
    BY <2>1, JobFacts, Zenon DEF IsColl
<1>2. PICK k : Moves(j, k) /\ k.pc = "page" /\ k.auth = j.auth /\ k.after = Max(j.ids) /\ k.ids = {}
  BY <1>1, UpdateMoves, Zenon
<1>3. /\ core_jobs' = (core_jobs \ {j}) \cup {k} /\ k.i = j.i
      /\ UNCHANGED <<core_writes, group, handled, ordered>>
      /\ Max(j.ids) \in j.ids /\ \A a \in j.ids : a \in Nat /\ a <= Max(j.ids)
  BY <1>1, <1>2, UpdateMoves, Zenon DEF Moves, CoreGoto
<1>4. \A a \in Ids :
        authority'[a] = IF a \in j.ids /\ authority[a].val # j.auth /\ authority[a].slot < j.i
                        THEN [val |-> j.auth, slot |-> j.i] ELSE authority[a]
  BY UpdateEffect, Zenon
<1>5. CASE ~ordered
  BY <1>3, <1>5, Zenon DEF FollowInv, OrderInv, MemberInv, PageInv
<1>6. CASE ordered
  <2>1. /\ core_jobs = {j} /\ 1 .. j.i - 1 \subseteq handled
        /\ \A i \in handled : 1 .. i - 1 \subseteq handled
    BY <1>6, OnlyJob, Zenon
  <2>2. core_jobs' = {k}
    BY <1>3, <2>1, Zenon
  <2>3. PICK r : r = [val |-> j.auth, slot |-> j.i]
    BY Zenon
  <2>4. r.val = j.auth /\ r.slot = j.i
    BY <2>3
  <2>5. \A a \in Assets : \/ authority'[a] = authority[a]
                          \/ authority'[a] = r /\ authority[a].val # j.auth /\ authority[a].slot < j.i
    BY <1>4, <2>3, Zenon DEF Ids
  <2>6. OrderInv'
    <3>1. \A a \in Assets : authority'[a] # Null /\ authority'[a].slot \notin handled =>
              IsColl(authority'[a].slot) /\ 1 .. authority'[a].slot - 1 \subseteq handled
      BY <1>1, <1>6, <2>1, <2>4, <2>5, Zenon DEF FollowInv, OrderInv
    <3>2. \A l, m \in core_jobs' : l = m
      BY <2>2, Zenon
    <3>3. \A l \in core_jobs' : 1 .. l.i - 1 \subseteq handled
      BY <1>3, <2>1, <2>2, Zenon
    <3>4. \A n : IsColl(n)' <=> IsColl(n)
      BY <1>3, Zenon DEF IsColl
    <3>5. /\ \A i \in handled' : 1 .. i - 1 \subseteq handled'
          /\ \A l \in core_jobs' : 1 .. l.i - 1 \subseteq handled'
          /\ \A a \in Assets : authority'[a] # Null /\ authority'[a].slot \notin handled' =>
                IsColl(authority[a].slot)' /\ 1 .. authority'[a].slot - 1 \subseteq handled'
      BY <1>3, <2>1, <3>1, <3>3, <3>4, Zenon
    <3> QED
      BY <3>2, <3>5, Zenon DEF OrderInv
  <2>7. j.i \in Nat /\ j.after \in Nat
    BY Jobs, Zenon
  <2>8. \A a \in Assets : a \in Nat
    BY Zenon DEF CoreAssumption
  <2>9. ASSUME NEW a \in Assets, group[a] # 0, a <= Max(j.ids)
        PROVE  Reached(a, k)'
    <3>1. authority[a].slot \in Nat
      <4>1. authority[a].slot \in DOMAIN core_writes
        BY <2>9, Zenon DEF Inv, RowInv, Ids
      <4> QED
        BY <4>1, Writes
    <3>2. CASE authority'[a] = r
      BY <1>2, <2>4, <3>2, Zenon DEF Reached
    <3>3. CASE authority'[a] = authority[a] /\ a <= j.after
      <4>1. j.pc \in {"page", "update"}
        BY <1>1
      <4>2. Reached(a, j)
        BY <1>6, <2>9, <3>3, <4>1, Zenon DEF FollowInv, PageInv
      <4> QED
        BY <1>2, <1>3, <3>3, <4>2, Zenon DEF Reached
    <3>4. CASE authority'[a] # r /\ ~(a <= j.after)
      <4>1. j.ids = Members(j.after)
        BY <1>1, <1>6, Zenon DEF FollowInv, PageInv
      <4>2. a > j.after
        BY <2>7, <2>8, <3>4
      <4>3. a \in j.ids
        BY <1>3, <2>7, <2>9, <4>1, <4>2, PageIsFull, Zenon
      <4>4. ~(authority[a].val # j.auth /\ authority[a].slot < j.i) /\ authority'[a] = authority[a]
        BY <1>4, <2>3, <3>4, <4>3, Zenon DEF Ids
      <4>5. ~(authority[a].slot < j.i) => authority[a].slot >= j.i
        BY <2>7, <3>1
      <4> QED
        BY <1>2, <1>3, <4>4, <4>5, Zenon DEF Reached
    <3> QED
      BY <2>5, <3>2, <3>3, <3>4, Zenon
  <2>10. PageInv'
    <3>1. k.pc # "save" /\ k.pc # "begin" /\ k.pc # "update" /\ k.pc # "commit"
      BY <1>2
    <3> QED
      BY <1>2, <1>3, <2>2, <2>9, <3>1, Zenon DEF PageInv
  <2>11. ASSUME NEW m \in handled, Member(m)', LastHandled(m)'
         PROVE  (group[core_writes[m].id] # 0 /\ Follows(authority[core_writes[m].id]))'
    <3>1. Member(m) /\ LastHandled(m)
      BY <1>3, <2>11, Zenon DEF Member, LastHandled, IsColl
    <3>2. PICK a \in Assets : a = core_writes[m].id
      <4>1. core_writes[m].id \in Ids
        BY Writes, Zenon DEF TypeInv, Write
      <4> QED
        BY <3>1, <4>1, Zenon DEF Ids, IsColl, Member
    <3>3. group[a] # 0 /\ Follows(authority[a])
      BY <1>6, <3>1, <3>2, Zenon DEF FollowInv, MemberInv
    <3>4. CASE authority'[a] = authority[a]
      <4>1. PICK q : q = authority[a]
        BY Zenon
      <4>2. Follows(q)
        BY <3>3, <4>1, Zenon
      <4>3. Follows(q)'
        BY <1>3, <4>2, Zenon DEF Follows, IsColl
      <4>4. authority'[core_writes'[m].id] = q /\ group'[core_writes'[m].id] # 0
        BY <1>3, <3>2, <3>3, <3>4, <4>1, Zenon
      <4> QED
        BY <4>3, <4>4, Zenon DEF Follows
    <3>5. CASE authority'[a] = r /\ authority[a].val # j.auth /\ authority[a].slot < j.i
      <4>1. j.i > authority[a].slot
        <5>1. authority[a].slot \in DOMAIN core_writes
          BY <3>3, Zenon DEF Inv, RowInv, Ids
        <5> QED
          BY <2>7, <3>5, <5>1, Writes
      <4>2. j.i \notin handled
        BY <1>1, <3>3, <3>5, <4>1, Zenon DEF Follows
      <4>3. \A h \in handled : ~(h > j.i)
        <5>1. j.i > 0
          BY Jobs
        <5>2. \A h \in handled : h \in Nat /\ h < j.i
          BY <2>1, <2>7, <4>2, <5>1, FreshIsNewest, Zenon
        <5> QED
          BY <2>7, <5>2
      <4>4. ASSUME NEW c \in 1 .. j.i, IsColl(c), \A n \in c + 1 .. j.i : ~IsColl(n)
            PROVE  core_writes[c].auth = r.val
        <5>1. c < j.i => j.i \in c + 1 .. j.i
          BY <2>7
        <5>2. ~(c < j.i)
          BY <1>1, <4>4, <5>1, Zenon
        <5>3. c = j.i
          BY <2>7, <5>2
        <5> QED
          BY <1>1, <2>4, <5>3, Zenon
      <4>5. Follows(r)'
        BY <1>3, <2>4, <4>3, <4>4, Zenon DEF Follows, IsColl
      <4>6. authority'[core_writes'[m].id] = r /\ group'[core_writes'[m].id] # 0
        BY <1>3, <3>2, <3>3, <3>5, Zenon
      <4> QED
        BY <4>5, <4>6, Zenon DEF Follows
    <3> QED
      BY <2>5, <3>4, <3>5, Zenon
  <2>12. MemberInv'
    BY <1>3, <2>11, Zenon DEF MemberInv
  <2> QED
    BY <2>6, <2>10, <2>12, Zenon DEF FollowInv
<1> QED
  BY <1>5, <1>6, Zenon

\* Every step keeps the invariant of the members.
LEMMA FollowStep ==
    ASSUME TypeInv, Inv, FollowInv, CoreAssumption, [CoreNext]_core_vars
    PROVE  FollowInv'
<1>1. CASE UNCHANGED core_vars
  <2>1. UNCHANGED <<core_writes, core_jobs, authority, group, handled, ordered>>
    BY <1>1, Zenon DEF core_vars, core_tables
  <2>2. \A n : Members(n)' = Members(n)
    BY <2>1, Zenon DEF Members
  <2>3. PageInv'
    BY <2>1, <2>2, Zenon DEF FollowInv, PageInv, Reached
  <2>4. (ordered => /\ \A j, k \in core_jobs : j = k
                    /\ \A j \in core_jobs : 1 .. j.i - 1 \subseteq handled)'
    BY <2>1, Zenon DEF FollowInv, OrderInv
  <2> QED
    BY <2>1, <2>3, <2>4, FollowStays, Zenon
<1>2. ASSUME NEW j \in core_jobs, handle_mpl_core_account(j)
      PROVE  FollowInv'
  BY <1>2, BurnFollows, FindFollows, SaveFollows, CommitFollows, BeginCollectionFollows, SelectFollows,
     UpdateFollows, FailFollows, Zenon
     DEF handle_mpl_core_account, core_save_v1_asset, update_group_asset_authorities
<1> QED
  BY <1>1, <1>2, TransactFollows, BeginFollows, Zenon DEF CoreNext

\* The members follow their collection as long as messages are handled in order.
LEMMA FollowHolds ==
    ASSUME CoreAssumption
    PROVE  CoreSpec => [](TypeInv /\ Inv /\ FollowInv)
<1>1. CoreInit => FollowInv
  <2> SUFFICES ASSUME CoreInit
               PROVE  FollowInv
    BY Zenon
  <2>1. core_jobs = {} /\ handled = {} /\ \A a \in Assets : authority[a] = Null
    BY Zenon DEF CoreInit, Ids
  <2> QED
    BY <2>1, Zenon DEF FollowInv, OrderInv, MemberInv, PageInv
<1>2. TypeInv /\ Inv /\ FollowInv /\ [CoreNext]_core_vars => FollowInv'
  BY FollowStep, Zenon
<1> QED
  BY <1>1, <1>2, InvHolds, PTL DEF CoreSpec

\* The newest write of an account.
LEMMA LastIs ==
    ASSUME TypeInv, NEW id
    PROVE  /\ LastWrite(id) # 0 => LastWrite(id) \in DOMAIN core_writes /\ core_writes[LastWrite(id)].id = id
           /\ \A k \in DOMAIN core_writes : core_writes[k].id = id => k <= LastWrite(id) /\ ~(k > LastWrite(id))
           /\ \A k \in DOMAIN core_writes : core_writes[k].id = id => LastWrite(id) # 0
<1>1. Len(core_writes) \in Nat /\ DOMAIN core_writes = 1 .. Len(core_writes)
  BY Writes
<1> DEFINE S == {0} \cup {i \in DOMAIN core_writes : core_writes[i].id = id}
<1>2. S \in SUBSET (0 .. Len(core_writes)) /\ S # {}
  BY <1>1
<1>3. Max(S) \in S /\ \A n \in S : n <= Max(S)
  <2> HIDE DEF S
  <2> QED
    BY <1>1, <1>2, MaxOfBounded, Zenon
<1>4. LastWrite(id) = Max(S)
  BY DEF LastWrite
<1>5. LastWrite(id) # 0 => LastWrite(id) \in DOMAIN core_writes /\ core_writes[LastWrite(id)].id = id
  BY <1>3, <1>4, Zenon
<1>6. \A k \in DOMAIN core_writes : core_writes[k].id = id => k <= LastWrite(id)
  BY <1>3, <1>4, Zenon
<1>7. LastWrite(id) \in Nat
  <2>1. LastWrite(id) \in 0 .. Len(core_writes)
    BY <1>2, <1>3, <1>4, Zenon
  <2> QED
    BY <1>1, <2>1
<1>8. \A k \in DOMAIN core_writes : k <= LastWrite(id) => ~(k > LastWrite(id)) /\ LastWrite(id) # 0
  BY <1>1, <1>7
<1> QED
  BY <1>5, <1>6, <1>8, Zenon

\* When the messages were handled in the order of the writes, whatever was repeated or
\* failed in between, each member has the authority of its collection
\* (update_group_asset_authorities walks the members page by page).
THEOREM MembersFollowHolds == CoreSpec => []MembersFollowCollection
<1> USE CoreConstants
<1>1. TypeInv /\ Inv /\ FollowInv => MembersFollowCollection
  <2> SUFFICES ASSUME TypeInv, Inv, FollowInv, CoreSettled, ordered, NEW a \in Assets, Exists(a),
                      core_writes[LastWrite(a)].auth = Coll
               PROVE  authority[a].val = core_writes[LastWrite(Coll)].auth
    BY Zenon DEF MembersFollowCollection
  <2> DEFINE i == LastWrite(a)
             c == LastWrite(Coll)
             s == authority[a].slot
  <2>1. /\ i \in DOMAIN core_writes /\ core_writes[i].id = a /\ ~core_writes[i].empty
        /\ \A k \in DOMAIN core_writes : core_writes[k].id = a => ~(k > i)
    BY LastIs, Zenon DEF Exists
  <2>2. a # Coll
    BY Zenon DEF CoreAssumption
  <2>3. \A k \in DOMAIN core_writes : k \in handled
    BY Zenon DEF CoreSettled, Inv, HandledInv
  <2>4. handled \subseteq DOMAIN core_writes
    BY Zenon DEF TypeInv
  <2>5. Member(i) /\ LastHandled(i)
    <3>1. Member(i)
      BY <2>1, <2>2, Zenon DEF Member, IsColl
    <3> QED
      BY <2>1, <2>3, <2>4, <3>1, Zenon DEF LastHandled
  <2>6. group[a] # 0 /\ Follows(authority[a])
    BY <2>1, <2>3, <2>5, Zenon DEF FollowInv, MemberInv
  <2>7. s \in DOMAIN core_writes
    BY <2>6, Zenon DEF Inv, RowInv, Ids
  <2>8. /\ c \in DOMAIN core_writes /\ IsColl(c)
        /\ \A k \in DOMAIN core_writes : IsColl(k) => ~(k > c)
    <3>1. PICK d \in 1 .. i - 1 : IsColl(d)
      BY <2>1, <2>5, Zenon DEF Inv, ChainInv, Member
    <3>2. d \in DOMAIN core_writes
      BY <2>1, Writes
    <3> QED
      BY <3>1, <3>2, LastIs, Zenon DEF IsColl
  <2> HIDE DEF i, c, s
  <2>9. CASE c > s
    BY <2>3, <2>6, <2>8, <2>9, Zenon DEF Follows, s, c
  <2>10. CASE ~(c > s)
    <3>1. c \in 1 .. s /\ \A k \in c + 1 .. s : k \in DOMAIN core_writes /\ k > c
      BY <2>7, <2>8, <2>10, Writes
    <3>2. \A k \in c + 1 .. s : ~IsColl(k)
      BY <2>8, <3>1, Zenon
    <3> QED
      BY <2>6, <2>8, <3>1, <3>2, Zenon DEF Follows, s, c
  <2> QED
    BY <2>9, <2>10, Zenon
<1> QED
  BY <1>1, FollowHolds, PTL

-----------------------------------------------------------------------------
(* Burnt assets: BurnsSettle.                                              *)

\* The rows of other assets stay.
LEMMA OthersStay ==
    ASSUME TypeInv, Inv, BurnInv, ordered, core_errors = 0, UNCHANGED core_writes, NEW j \in core_jobs,
           handled' = handled \cup {j.i},
           \A x \in Ids \ {core_writes[j.i].id} : /\ burnt'[x] = burnt[x] /\ core_asset'[x] = core_asset[x]
                                                  /\ slot_updated'[x] = slot_updated[x],
           NEW m \in handled', LastHandled(m)', core_writes[m].id # core_writes[j.i].id
    PROVE  /\ burnt'[core_writes[m].id] = core_writes[m].empty
           /\ ~core_writes[m].empty => slot_updated'[core_writes[m].id] = m /\ core_asset'[core_writes[m].id] = m
<1>1. m \in handled
  BY Zenon
<1>2. LastHandled(m)
  <2>1. \A k \in handled : k > m => core_writes[k].id # core_writes[m].id
    BY Zenon DEF LastHandled
  <2> QED
    BY <1>1, <2>1, Zenon DEF LastHandled
<1>3. core_writes[m].id \in Ids \ {core_writes[j.i].id}
  <2>1. core_writes[m].id \in Ids
    BY <1>1, Writes, Zenon DEF TypeInv, Write
  <2> QED
    BY <2>1, Zenon
<1> QED
  BY <1>1, <1>2, <1>3, Zenon DEF BurnInv

\* Handled once and in order: the message is newer than those handled.
LEMMA NextMessage ==
    ASSUME TypeInv, Inv, OrderInv, BurnInv, ordered, core_errors = 0, NEW j \in core_jobs
    PROVE  /\ j.i \notin handled /\ 1 .. j.i - 1 \subseteq handled
           /\ \A h \in handled : h \in Nat /\ h < j.i
<1>1. j.i \notin handled
  BY JobFacts, Zenon DEF BurnInv
<1>2. 1 .. j.i - 1 \subseteq handled /\ \A h \in handled : 1 .. h - 1 \subseteq handled
  BY Zenon DEF OrderInv
<1>3. j.i \in Nat /\ j.i > 0
  BY Jobs
<1> QED
  BY <1>1, <1>2, <1>3, FreshIsNewest, Zenon

\* A step that ends a job, when it is the first to handle the message.
LEMMA BurnReturns ==
    ASSUME TypeInv, Inv, OrderInv, BurnInv, ordered, NEW j \in core_jobs, CoreReturn(j), UNCHANGED <<core_writes, ordered>>,
           core_errors' = 0,
           \A x \in Ids \ {core_writes[j.i].id} : /\ burnt'[x] = burnt[x] /\ core_asset'[x] = core_asset[x]
                                                  /\ slot_updated'[x] = slot_updated[x],
           burnt'[core_writes[j.i].id] = core_writes[j.i].empty,
           ~core_writes[j.i].empty => slot_updated'[core_writes[j.i].id] = j.i /\ core_asset'[core_writes[j.i].id] = j.i
    PROVE  BurnInv'
<1>1. /\ handled' = handled \cup {j.i} /\ core_errors = 0 /\ core_pending' = core_pending \ {j.i}
      /\ handled' \subseteq DOMAIN core_writes
  BY ReturnJobs, Zenon
<1>2. handled' \cap core_pending' = {}
  BY <1>1, Zenon DEF BurnInv
<1>3. ASSUME NEW m \in handled', LastHandled(m)'
      PROVE  /\ burnt'[core_writes[m].id] = core_writes[m].empty
             /\ ~core_writes[m].empty => slot_updated'[core_writes[m].id] = m /\ core_asset'[core_writes[m].id] = m
  <2>1. CASE core_writes[m].id # core_writes[j.i].id
    BY <1>1, <1>3, <2>1, OthersStay, Zenon
  <2>2. CASE core_writes[m].id = core_writes[j.i].id
    <3>1. \A h \in handled : h \in Nat /\ h < j.i
      BY <1>1, NextMessage, Zenon
    <3>2. m < j.i => j.i > m
      BY <1>1, Writes, Jobs
    <3>3. ~(j.i > m)
      BY <1>1, <1>3, <2>2, Zenon DEF LastHandled
    <3>4. m = j.i
      BY <1>1, <3>1, <3>2, <3>3, Zenon
    <3> QED
      BY <3>4, Zenon
  <2> QED
    BY <2>1, <2>2, Zenon
<1> QED
  BY <1>2, <1>3, Zenon DEF BurnInv

\* A burn marks the asset of the newest account handled so far.
LEMMA BurnBurns ==
    ASSUME TypeInv, Inv, OrderInv, BurnInv, CoreAssumption, NEW j \in core_jobs, core_burn_v1_asset(j)
    PROVE  BurnInv'
<1>1. /\ CoreReturn(j) /\ UNCHANGED <<core_writes, core_asset, ordered>>
      /\ j.pc = "burn"
  BY Zenon DEF core_burn_v1_asset
<1>2. CASE ~(ordered /\ core_errors' = 0)
  BY <1>1, <1>2, Zenon DEF BurnInv
<1>3. CASE ordered /\ core_errors' = 0
  <2>0. PICK id : id = core_writes[j.i].id
    BY Zenon
  <2>1. /\ id \in Ids
        /\ \A x \in Ids \ {id} : burnt'[x] = burnt[x] /\ slot_updated'[x] = slot_updated[x]
        /\ slot_updated[id] # Null /\ j.i > slot_updated[id] => burnt'[id] = TRUE
    BY <2>0, BurnEffect, Zenon
  <2>2. core_writes[j.i].empty /\ core_errors = 0
    BY <1>1, <1>3, JobFacts, ReturnJobs, Zenon
  <2>3. /\ j.i \notin handled /\ 1 .. j.i - 1 \subseteq handled
        /\ \A h \in handled : h \in Nat /\ h < j.i
    BY <1>3, <2>2, NextMessage, Zenon
  <2>4. PICK k \in 1 .. j.i - 1 :
                  /\ core_writes[k].id = id /\ ~core_writes[k].empty
                  /\ \A l \in k + 1 .. j.i - 1 : core_writes[l].id # id
    BY <2>0, <2>2, Jobs, Zenon DEF Inv, ChainInv
  <2>5. k \in handled /\ LastHandled(k)
    <3>1. \A l \in handled : l > k => l \in k + 1 .. j.i - 1
      BY <2>3, <2>4, Jobs
    <3> QED
      BY <2>3, <2>4, <3>1, Zenon DEF LastHandled
  <2>6. slot_updated[id] = k
    BY <1>3, <2>2, <2>4, <2>5, Zenon DEF BurnInv
  <2>7. slot_updated[id] # Null /\ j.i > slot_updated[id]
    <3>1. k \in Nat /\ j.i > k
      BY <2>4, Jobs
    <3> QED
      BY <2>6, <3>1, Zenon DEF CoreAssumption
  <2>8. burnt'[id] = core_writes[j.i].empty
    <3>1. core_writes[j.i].empty = TRUE
      <4>1. core_writes[j.i].empty \in BOOLEAN
        BY Jobs DEF Write
      <4> QED
        BY <2>2, <4>1, Zenon
    <3> QED
      BY <2>1, <2>7, <3>1, Zenon
  <2> QED
    BY <1>1, <1>3, <2>0, <2>1, <2>2, <2>8, BurnReturns, Zenon
<1> QED
  BY <1>2, <1>3, Zenon

\* A saved account is the newest handled so far, and its asset is not burnt.
LEMMA StoreBurns ==
    ASSUME TypeInv, Inv, OrderInv, BurnInv, CoreAssumption, NEW j \in core_jobs, SaveAsset(j) \/ Commit(j)
    PROVE  BurnInv'
<1>1. /\ Store(j.i, j.auth) /\ CoreReturn(j) /\ UNCHANGED <<core_writes, ordered>> /\ j.pc \in {"save", "commit"}
  BY Zenon DEF SaveAsset, Commit
<1>2. CASE ~(ordered /\ core_errors' = 0)
  BY <1>1, <1>2, Zenon DEF BurnInv
<1>3. CASE ordered /\ core_errors' = 0
  <2>0. PICK id : id = core_writes[j.i].id
    BY Zenon
  <2>1. Stores(j.i, j.auth, id)
    <3>1. Stores(j.i, j.auth, core_writes[j.i].id)
      BY <1>1, Jobs, StoreEffect, Zenon
    <3> QED
      BY <2>0, <3>1, Zenon
  <2>2. /\ id \in Ids
        /\ \A x \in Ids \ {id} : /\ burnt'[x] = burnt[x] /\ core_asset'[x] = core_asset[x]
                                 /\ slot_updated'[x] = slot_updated[x]
        /\ core_asset'[id] = (IF j.i >= core_asset[id] THEN j.i ELSE core_asset[id])
        /\ j.i >= core_asset[id] => burnt'[id] = FALSE /\ slot_updated'[id] = j.i
    BY <2>1, Zenon DEF Stores
  <2>3. ~core_writes[j.i].empty /\ core_errors = 0
    <3>1. j.pc # "burn"
      BY <1>1
    <3> QED
      BY <1>1, <1>3, <3>1, JobFacts, ReturnJobs, Zenon
  <2>4. \A h \in handled : h \in Nat /\ h < j.i
    BY <1>3, <2>3, NextMessage, Zenon
  <2>5. j.i >= core_asset[id]
    <3>1. core_asset[id] \in Nat /\ j.i \in Nat
      BY <2>2, Jobs DEF TypeInv
    <3>2. core_asset[id] # 0 => core_asset[id] < j.i
      BY <2>2, <2>4, Zenon DEF Inv, HandledInv
    <3> QED
      BY <3>1, <3>2, SMTT(30)
  <2>6. burnt'[id] = core_writes[j.i].empty
    <3>1. core_writes[j.i].empty = FALSE
      <4>1. core_writes[j.i].empty \in BOOLEAN
        BY Jobs DEF Write
      <4> QED
        BY <2>3, <4>1, Zenon
    <3> QED
      BY <2>2, <2>5, <3>1, Zenon
  <2>7. slot_updated'[id] = j.i /\ core_asset'[id] = j.i
    BY <2>2, <2>5, Zenon
  <2> QED
    BY <1>1, <1>3, <2>0, <2>2, <2>6, <2>7, BurnReturns, Zenon
<1> QED
  BY <1>2, <1>3, Zenon

\* Every step keeps the invariant of the burnt assets.
LEMMA BurnStep ==
    ASSUME TypeInv, Inv, OrderInv, BurnInv, CoreAssumption, [CoreNext]_core_vars
    PROVE  BurnInv'
<1>1. ASSUME UNCHANGED <<core_writes, core_pending, handled, burnt, slot_updated, core_asset, core_errors>>, ordered' => ordered
      PROVE  BurnInv'
  <2>1. \A i : LastHandled(i)' <=> LastHandled(i)
    BY <1>1, Zenon DEF LastHandled
  <2> QED
    BY <1>1, <2>1, Zenon DEF BurnInv
<1>2. CASE CoreTransact
  <2>1. /\ core_pending' = core_pending \cup {Len(core_writes) + 1}
        /\ UNCHANGED <<handled, burnt, slot_updated, core_asset, core_errors, ordered>>
    BY <1>2, Zenon DEF CoreTransact, core_tables
  <2>2. \A i \in handled : core_writes'[i] = core_writes[i] /\ i # Len(core_writes) + 1
    <3>1. \A i \in DOMAIN core_writes : i # Len(core_writes) + 1
      BY Writes
    <3> QED
      BY <1>2, <3>1, Appended, Zenon DEF TypeInv
  <2>3. \A i \in handled : LastHandled(i)' => LastHandled(i)
    BY <2>1, <2>2, Zenon DEF LastHandled
  <2> QED
    BY <2>1, <2>2, <2>3, Zenon DEF BurnInv
<1>3. ASSUME NEW i \in core_pending, CoreBegin(i)
      PROVE  BurnInv'
  BY <1>1, <1>3, Zenon DEF CoreBegin, core_tables
<1>4. ASSUME NEW j \in core_jobs, handle_mpl_core_account(j)
      PROVE  BurnInv'
  <2>1. CASE CoreFail(j)
    <3>1. core_errors' = core_errors + 1 /\ core_errors \in Nat
      BY <2>1, Zenon DEF CoreFail, CoreTrouble, TypeInv
    <3>2. core_errors' # 0
      BY <3>1
    <3> QED
      BY <3>2, Zenon DEF BurnInv
  <2>2. CASE FindAuthority(j) \/ BeginCollection(j) \/ SelectPage(j)
    <3>1. UNCHANGED <<core_writes, core_pending, handled, burnt, slot_updated, core_asset, core_errors, ordered>>
      BY <2>2, Zenon DEF FindAuthority, BeginCollection, SelectPage, CoreGoto, core_tables
    <3> QED
      BY <1>1, <3>1, Zenon
  <2>3. CASE UpdateMembers(j)
    <3>1. UNCHANGED <<core_writes, core_pending, handled, burnt, slot_updated, core_asset, core_errors, ordered>>
      BY <2>3, Zenon DEF UpdateMembers, CoreGoto
    <3> QED
      BY <1>1, <3>1, Zenon
  <2> QED
    BY <1>4, <2>1, <2>2, <2>3, BurnBurns, StoreBurns, Zenon
       DEF handle_mpl_core_account, core_save_v1_asset, update_group_asset_authorities
<1>5. CASE UNCHANGED core_vars
  BY <1>1, <1>5, Zenon DEF core_vars, core_tables
<1> QED
  BY <1>2, <1>3, <1>4, <1>5, Zenon DEF CoreNext

\* When the messages were handled once and in the order of the writes, the burnt assets
\* are those whose account is empty (burn_v1_asset).
THEOREM BurnsSettleHolds == CoreSpec => []BurnsSettle
<1> USE CoreConstants
<1>1. CoreInit => BurnInv
  BY Zenon DEF CoreInit, BurnInv
<1>2. TypeInv /\ Inv /\ FollowInv /\ BurnInv /\ [CoreNext]_core_vars => BurnInv'
  BY BurnStep, Zenon DEF FollowInv
<1>3. TypeInv /\ Inv /\ BurnInv => BurnsSettle
  <2> SUFFICES ASSUME TypeInv, Inv, BurnInv, CoreSettled, ordered, core_errors = 0, NEW a \in Assets, LastWrite(a) # 0
               PROVE  burnt[a] = core_writes[LastWrite(a)].empty
    BY Zenon DEF BurnsSettle
  <2>1. /\ LastWrite(a) \in DOMAIN core_writes /\ core_writes[LastWrite(a)].id = a
        /\ \A k \in DOMAIN core_writes : core_writes[k].id = a => ~(k > LastWrite(a))
    BY LastIs, Zenon
  <2>2. \A k \in DOMAIN core_writes : k \in handled
    BY Zenon DEF CoreSettled, Inv, HandledInv
  <2>3. LastHandled(LastWrite(a))
    BY <2>1, <2>2, Zenon DEF LastHandled, TypeInv
  <2> QED
    BY <2>1, <2>2, <2>3, Zenon DEF BurnInv
<1> QED
  BY <1>1, <1>2, <1>3, FollowHolds, PTL DEF CoreSpec
================================================================================
