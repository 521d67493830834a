----------------------------- MODULE AccountProofs -----------------------------
(***************************************************************************)
(* What is proved of AccountIndex, and of Purger next to it, for any token *)
(* accounts, mints, numbers of writes, of messages handled at a time and   *)
(* of errors: rows never go back, all rows are at the newest slot of their *)
(* account once every message is handled, and the purge deletes rows of    *)
(* missing accounts only, and leaves none behind that it should delete.    *)
(***************************************************************************)
EXTENDS HandlerProofs, Purger, FiniteSetTheorems, WellFoundedInduction, TLAPS

\* Workers of the purge delete rows of accounts that were missing.
PurgeInv ==
    /\ table # NULL => Missing \subseteq gone
    /\ table = NULL => purged = {} /\ pages = {}
    /\ \A m \in marked : m \subseteq gone /\ \A k \in m : Shut(k)
    /\ purged \subseteq gone
-----------------------------------------------------------------------------
(* Numbers.                                                                *)

\* A set of numbers has a least one.
LEMMA LeastNumber ==
    ASSUME NEW S \in SUBSET Nat, S # {}
    PROVE  \E m \in S : \A n \in S : m <= n
<1>1. PICK m \in S : \A n \in S : ~(<<n, m>> \in OpToRel(<, Nat))
  BY NatLessThanWellFounded, WFMin, Zenon
<1>2. \A n \in S : ~(n < m)
  BY <1>1, Zenon DEF OpToRel
<1> QED
  BY <1>2

\* A bounded set of numbers has a greatest one.
LEMMA GreatestNumber ==
    ASSUME NEW b \in Nat, NEW S \in SUBSET (0 .. b), S # {}
    PROVE  \E m \in S : \A n \in S : n <= m
<1> DEFINE T == {k \in 0 .. b : b - k \in S}
<1>1. ASSUME NEW n \in S
      PROVE  n \in Nat /\ b - n \in T
  <2>1. n \in 0 .. b /\ b - n \in 0 .. b /\ b - (b - n) = n
    OBVIOUS
  <2> QED
    BY <2>1
<1>2. PICK k \in T : \A j \in T : k <= j
  <2>1. T \in SUBSET Nat
    OBVIOUS
  <2>2. PICK n : n \in S
    OBVIOUS
  <2>3. b - n \in T
    BY <1>1, <2>2
  <2> HIDE DEF T
  <2> QED
    BY <2>1, <2>3, LeastNumber
<1>3. b - k \in S /\ k \in 0 .. b
  BY <1>2
<1>4. ASSUME NEW n \in S
      PROVE  n <= b - k
  <2>1. n \in Nat /\ k <= b - n
    BY <1>1, <1>2
  <2> QED
    BY <1>3, <2>1
<1> QED
  BY <1>3, <1>4

-----------------------------------------------------------------------------
(* Transactions.                                                           *)

\* The last write of an account.
LEMMA LastIs ==
    ASSUME ChainInv, NEW a
    PROVE  \/ Last(a) = 0 /\ \A i \in DOMAIN writes : ~Of(i, a)
           \/ Of(Last(a), a) /\ \A i \in DOMAIN writes : Of(i, a) => i <= Last(a)
<1> DEFINE S == {0} \cup {i \in DOMAIN writes : writes[i].acct = a}
<1>1. Len(writes) \in Nat /\ DOMAIN writes = 1 .. Len(writes)
  BY Writes
<1>2. S \in SUBSET (0 .. Len(writes)) /\ S # {}
  BY <1>1
<1>3. \E m \in S : \A n \in S : n <= m
  <2> HIDE DEF S
  <2> QED
    BY <1>1, <1>2, GreatestNumber, Zenon
<1>4. \A m, n \in S : n <= m <=> m >= n
  BY <1>1, <1>2
<1>5. Last(a) = CHOOSE m \in S : \A n \in S : m >= n
  BY DEF Last, Max
<1>6. Last(a) \in S /\ \A n \in S : Last(a) >= n
  <2> HIDE DEF S
  <2> QED
    BY <1>3, <1>4, <1>5
<1>7. CASE Last(a) = 0
  <2>1. \A i \in DOMAIN writes : i \notin S
    BY <1>1, <1>6, <1>7
  <2> QED
    BY <1>7, <2>1 DEF Of
<1>8. CASE Last(a) # 0
  <2>1. Of(Last(a), a)
    BY <1>6, <1>8 DEF Of
  <2>2. \A i \in DOMAIN writes : Of(i, a) => i <= Last(a)
    BY <1>1, <1>2, <1>6 DEF Of
  <2> QED
    BY <2>1, <2>2
<1> QED
  BY <1>7, <1>8
\* What the two kinds of writes are.
LEMMA NewWrite ==
    ASSUME NEW a \in Accounts, NEW n \in Nat, NEW s \in Nat
    PROVE  /\ Write(a, n, s) \in WriteType /\ Write(a, n, s).acct = a /\ Write(a, n, s).slot = s
           /\ Write(a, n, s).amount = n /\ ~Write(a, n, s).closed
           /\ Closed(a, s) \in WriteType /\ Closed(a, s).acct = a /\ Closed(a, s).slot = s
           /\ Closed(a, s).amount = 0 /\ Closed(a, s).closed
<1>1. TRUE \in BOOLEAN /\ FALSE \in BOOLEAN /\ 0 \in Nat
  OBVIOUS
<1>2. \A c \in BOOLEAN, m \in Nat : [acct |-> a, slot |-> s, amount |-> m, closed |-> c] \in WriteType
  BY DEF WriteType
<1>3. Write(a, n, s) \in WriteType
  BY <1>1, <1>2, Zenon DEF Write
<1>4. Closed(a, s) \in WriteType
  BY <1>1, <1>2, Zenon DEF Closed
<1> QED
  BY <1>3, <1>4 DEF Write, Closed

\* What a transaction may write in slot s.
Legal(w, s) ==
    /\ w \in WriteType /\ w.slot = s
    /\ w.acct = Mint => w.amount = 0
    /\ w.acct = Metadata => ~w.closed /\ w.amount \in {0, 1} /\ ~kind.extended
    /\ w.acct \in {Edition, Inscription} =>
          /\ ~w.closed /\ kind.standard = "nft"
          /\ \E m \in DOMAIN writes : writes[m].acct = Metadata /\ writes[m].amount = 1

\* An account that is open has a write; one with metadata is not of token extensions.
LEMMA Opened ==
    ASSUME ChainInv, NEW a, Open(a)
    PROVE  /\ Of(Last(a), a) /\ Amount(Last(a)) \in Nat
           /\ a = Metadata => ~kind.extended
           /\ a = Metadata /\ Holds(a) =>
                 \E m \in DOMAIN writes : writes[m].acct = Metadata /\ writes[m].amount = 1
<1>1. Of(Last(a), a)
  BY LastIs DEF Open
<1>2. Last(a) \in DOMAIN writes /\ writes[Last(a)].acct = a
  BY <1>1 DEF Of
<1>3. Amount(Last(a)) \in Nat
  BY <1>2, Writes DEF Amount
<1>4. a = Metadata => writes[Last(a)].amount \in {0, 1} /\ ~kind.extended
  BY <1>2 DEF ChainInv
<1>5. a = Metadata /\ Holds(a) => writes[Last(a)].amount = 1
  BY <1>4 DEF Holds, Amount
<1> QED
  BY <1>1, <1>2, <1>3, <1>4, <1>5

\* Every transaction appends legal writes in one slot.
LEMMA TransactIsLegal ==
    ASSUME ChainInv, Transact
    PROVE  \E s \in Nat, new \in Seq(WriteType) :
               /\ Slot(Len(writes)) <= s /\ Emit(new) /\ \A m \in DOMAIN new : Legal(new[m], s)
<1>0. /\ Slot(Len(writes)) \in Nat /\ Slot(Len(writes)) >= 1 /\ 0 \in Nat /\ 1 \in Nat
      /\ Mint \in Accounts /\ Metadata \in Accounts /\ {Edition, Inscription} \subseteq Accounts
      /\ TokenAccounts \subseteq Accounts
  <2>1. Len(writes) \in DOMAIN writes
    BY Writes
  <2> QED
    BY <2>1, Slots DEF Accounts
<1>1. ASSUME NEW s \in Nat, NEW a, Slot(Len(writes)) <= s, Emit(<<a>>), Legal(a, s)
      PROVE  \E new \in Seq(WriteType) : Emit(new) /\ \A m \in DOMAIN new : Legal(new[m], s)
  <2>1. <<a>> \in Seq(WriteType) /\ \A m \in DOMAIN <<a>> : <<a>>[m] = a
    BY <1>1 DEF Legal
  <2> QED
    BY <1>1, <2>1, Zenon
<1>2. ASSUME NEW s \in Nat, NEW a, NEW b, Slot(Len(writes)) <= s, Emit(<<a, b>>), Legal(a, s), Legal(b, s)
      PROVE  \E new \in Seq(WriteType) : Emit(new) /\ \A m \in DOMAIN new : Legal(new[m], s)
  <2>1. <<a, b>> \in Seq(WriteType) /\ \A m \in DOMAIN <<a, b>> : <<a, b>>[m] = a \/ <<a, b>>[m] = b
    BY <1>2 DEF Legal
  <2> QED
    BY <1>2, <2>1, Zenon
<1>3. ASSUME NEW s \in Nat, NEW a, NEW b, NEW c, Slot(Len(writes)) <= s, Emit(<<a, b, c>>),
             Legal(a, s), Legal(b, s), Legal(c, s)
      PROVE  \E new \in Seq(WriteType) : Emit(new) /\ \A m \in DOMAIN new : Legal(new[m], s)
  <2>1. /\ <<a, b, c>> \in Seq(WriteType)
        /\ \A m \in DOMAIN <<a, b, c>> : <<a, b, c>>[m] = a \/ <<a, b, c>>[m] = b \/ <<a, b, c>>[m] = c
    BY <1>3 DEF Legal
  <2> QED
    BY <1>3, <2>1, Zenon
<1>4. PICK s \in {Slot(Len(writes)), Slot(Len(writes)) + 1} :
        \/ \E t \in TokenAccounts :
              Open(Mint) /\ Emit(<<Write(t, IF Open(t) THEN Amount(Last(t)) ELSE 0, s)>>)
        \/ \E t, u \in TokenAccounts :
              t # u /\ Holds(t) /\ Emit(<<Write(t, 0, s), Write(u, 1, s)>>)
        \/ \E t \in TokenAccounts :
              Open(t) /\ ~Holds(t) /\ Emit(<<Closed(t, s)>>)
        \/ Open(Mint) /\ ~kind.extended /\ Emit(<<Write(Metadata, 1, s)>>)
        \/ \E a \in {Edition, Inscription} :
              Holds(Metadata) /\ kind.standard = "nft" /\ Emit(<<Write(a, 1, s)>>)
        \/ \E t \in TokenAccounts :
              /\ Holds(t) /\ Holds(Metadata)
              /\ Emit(<<Write(Mint, 0, s), Closed(t, s), Write(Metadata, 0, s)>>)
        \/ \E t \in TokenAccounts :
              /\ Holds(t) /\ kind.extended
              /\ Emit(<<Closed(t, s), Closed(Mint, s)>>)
  BY Zenon DEF Transact
<1>5. s \in Nat /\ Slot(Len(writes)) <= s
  BY <1>0, <1>4
<1>6. ASSUME NEW t \in TokenAccounts, NEW n \in Nat
      PROVE  Legal(Write(t, n, s), s) /\ Legal(Closed(t, s), s)
  <2>1. t \in Accounts /\ t \notin {Mint, Metadata, Edition, Inscription}
    BY <1>0, Names
  <2> QED
    BY <1>5, <2>1, NewWrite DEF Legal
<1>7. Legal(Write(Mint, 0, s), s) /\ Legal(Closed(Mint, s), s)
  BY <1>0, <1>5, NewWrite, Names, SMTT(30) DEF Legal
<1>8. ASSUME ~kind.extended
      PROVE  Legal(Write(Metadata, 0, s), s) /\ Legal(Write(Metadata, 1, s), s)
  BY <1>0, <1>5, <1>8, NewWrite, Names DEF Legal
<1> SUFFICES \E new \in Seq(WriteType) : Emit(new) /\ \A m \in DOMAIN new : Legal(new[m], s)
  BY <1>5
<1>9. CASE \E t \in TokenAccounts :
              Open(Mint) /\ Emit(<<Write(t, IF Open(t) THEN Amount(Last(t)) ELSE 0, s)>>)
  <2>1. PICK t \in TokenAccounts : Emit(<<Write(t, IF Open(t) THEN Amount(Last(t)) ELSE 0, s)>>)
    BY <1>9
  <2>2. (IF Open(t) THEN Amount(Last(t)) ELSE 0) \in Nat
    BY Opened
  <2> HIDE DEF Write
  <2> QED
    BY <1>1, <1>5, <1>6, <2>1, <2>2, Zenon
<1>10. CASE \E t, u \in TokenAccounts : Emit(<<Write(t, 0, s), Write(u, 1, s)>>)
  BY <1>0, <1>2, <1>5, <1>6, <1>10, Zenon
<1>11. CASE \E t \in TokenAccounts : Emit(<<Closed(t, s)>>)
  BY <1>0, <1>1, <1>5, <1>6, <1>11
<1>12. CASE ~kind.extended /\ Emit(<<Write(Metadata, 1, s)>>)
  BY <1>1, <1>5, <1>8, <1>12, Zenon
<1>13. CASE \E a \in {Edition, Inscription} :
              Holds(Metadata) /\ kind.standard = "nft" /\ Emit(<<Write(a, 1, s)>>)
  <2>1. PICK a \in {Edition, Inscription} : kind.standard = "nft" /\ Emit(<<Write(a, 1, s)>>)
    BY <1>13
  <2>2. \E m \in DOMAIN writes : writes[m].acct = Metadata /\ writes[m].amount = 1
    BY <1>13, Opened DEF Holds
  <2>3. Legal(Write(a, 1, s), s)
    BY <1>0, <1>5, <2>1, <2>2, NewWrite, Names, SMTT(30) DEF Legal
  <2> QED
    BY <1>1, <1>5, <2>1, <2>3, Zenon
<1>14. CASE \E t \in TokenAccounts :
              /\ Holds(t) /\ Holds(Metadata)
              /\ Emit(<<Write(Mint, 0, s), Closed(t, s), Write(Metadata, 0, s)>>)
  <2>1. ~kind.extended
    BY <1>14, Opened DEF Holds
  <2> QED
    BY <1>0, <1>3, <1>5, <1>6, <1>7, <1>8, <1>14, <2>1, Zenon
<1>15. CASE \E t \in TokenAccounts : Emit(<<Closed(t, s), Closed(Mint, s)>>)
  BY <1>0, <1>2, <1>5, <1>6, <1>7, <1>15, Zenon
<1> QED
  BY <1>4, <1>9, <1>10, <1>11, <1>12, <1>13, <1>14, <1>15, SMTT(30)

\* A transaction appends its writes and their messages.
LEMMA EmitGrows ==
    ASSUME ChainInv, NEW new \in Seq(WriteType), Emit(new)
    PROVE  /\ writes' \in Seq(WriteType) /\ Len(writes') \in 2 .. MaxWrites
           /\ DOMAIN writes \subseteq DOMAIN writes'
           /\ \A i \in DOMAIN writes : writes'[i] = writes[i]
           /\ \A i \in DOMAIN writes' : \/ i \in DOMAIN writes
                                        \/ i > Len(writes) /\ \E m \in DOMAIN new : writes'[i] = new[m]
           /\ DOMAIN writes' \ pending' \subseteq DOMAIN writes \ pending
           /\ pending \subseteq pending'
           /\ pending \subseteq DOMAIN writes => pending' \subseteq DOMAIN writes'
<1>1. /\ writes \in Seq(WriteType) /\ writes' = writes \o new /\ Len(writes) + Len(new) <= MaxWrites
      /\ pending' = pending \cup Len(writes) + 1 .. Len(writes) + Len(new)
      /\ Len(writes) \in Nat /\ Len(new) \in Nat /\ Len(writes) >= 2
  BY Writes DEF Emit, ChainInv
<1>2. /\ writes' \in Seq(WriteType) /\ Len(writes') = Len(writes) + Len(new)
      /\ DOMAIN writes' = 1 .. Len(writes) + Len(new) /\ DOMAIN writes = 1 .. Len(writes)
      /\ DOMAIN new = 1 .. Len(new)
  BY <1>1
<1>3. \A i \in 1 .. Len(writes) + Len(new) :
          writes'[i] = IF i <= Len(writes) THEN writes[i] ELSE new[i - Len(writes)]
  BY <1>1
<1>4. /\ 1 .. Len(writes) \subseteq 1 .. Len(writes) + Len(new)
      /\ \A i \in 1 .. Len(writes) : writes'[i] = writes[i]
  BY <1>1, <1>3
<1>5. ASSUME NEW i \in 1 .. Len(writes) + Len(new), i \notin 1 .. Len(writes)
      PROVE  /\ i > Len(writes) /\ \E m \in DOMAIN new : writes'[i] = new[m]
             /\ i \in Len(writes) + 1 .. Len(writes) + Len(new)
  <2>1. i > Len(writes) /\ i - Len(writes) \in 1 .. Len(new)
    BY <1>1, <1>5
  <2>2. writes'[i] = new[i - Len(writes)]
    BY <1>1, <1>3, <2>1
  <2>3. \E m \in DOMAIN new : writes'[i] = new[m]
    BY <1>2, <2>1, <2>2
  <2>4. i \in Len(writes) + 1 .. Len(writes) + Len(new)
    BY <1>1, <1>5, <2>1
  <2> QED
    BY <2>1, <2>3, <2>4
<1>6. DOMAIN writes' \ pending' \subseteq DOMAIN writes \ pending
  BY <1>1, <1>2, <1>5, Zenon
<1>7. Len(writes) + 1 .. Len(writes) + Len(new) \subseteq 1 .. Len(writes) + Len(new)
  BY <1>1
<1>8. Len(writes') \in 2 .. MaxWrites
  BY <1>1, <1>2
<1>9. pending \subseteq DOMAIN writes => pending' \subseteq DOMAIN writes'
  BY <1>1, <1>2, <1>4, <1>7, SMTT(30)
<1>10. \A i \in DOMAIN writes' : \/ i \in DOMAIN writes
                                 \/ i > Len(writes) /\ \E m \in DOMAIN new : writes'[i] = new[m]
  <2> TAKE i \in DOMAIN writes'
  <2>1. i \in 1 .. Len(writes) + Len(new)
    BY <1>2
  <2>2. CASE i \notin 1 .. Len(writes)
    BY <1>5, <2>1, <2>2
  <2>3. CASE i \in 1 .. Len(writes)
    BY <1>2, <2>3
  <2> QED
    BY <2>2, <2>3
<1>11. DOMAIN writes \subseteq DOMAIN writes' /\ \A i \in DOMAIN writes : writes'[i] = writes[i]
  BY <1>2, <1>4
<1>12. pending \subseteq pending'
  BY <1>1
<1> QED
  BY <1>2, <1>6, <1>8, <1>9, <1>10, <1>11, <1>12, ZenonT(30)

\* Legal writes keep what is known of the chain.
LEMMA ChainStep == ASSUME ChainInv, Transact PROVE ChainInv'
<1>1. PICK s \in Nat, new \in Seq(WriteType) :
          Slot(Len(writes)) <= s /\ Emit(new) /\ \A m \in DOMAIN new : Legal(new[m], s)
  BY TransactIsLegal
<1>2. UNCHANGED kind
  BY <1>1 DEF Emit
<1>3. /\ writes' \in Seq(WriteType) /\ Len(writes') \in 2 .. MaxWrites
      /\ DOMAIN writes \subseteq DOMAIN writes'
      /\ \A i \in DOMAIN writes : writes'[i] = writes[i]
  BY <1>1, EmitGrows
<1>4. \A i \in DOMAIN writes' : \/ i \in DOMAIN writes
                                \/ i > Len(writes) /\ Legal(writes'[i], s)
  <2>1. \A i \in DOMAIN writes' : \/ i \in DOMAIN writes
                                  \/ i > Len(writes) /\ \E m \in DOMAIN new : writes'[i] = new[m]
    BY <1>1, EmitGrows, Zenon
  <2> QED
    BY <1>1, <2>1, Zenon
<1>5. /\ \A i \in DOMAIN writes : writes[i].slot \in Nat /\ writes[i].slot <= s /\ i <= Len(writes) /\ i \in Nat
      /\ Len(writes) \in Nat /\ s >= 1
  <2>1. /\ Len(writes) \in DOMAIN writes /\ Len(writes) \in Nat
        /\ \A i \in DOMAIN writes : i <= Len(writes) /\ i \in Nat /\ writes[i].slot \in Nat
    BY Writes
  <2>2. \A i \in DOMAIN writes : writes[i].slot <= Slot(Len(writes))
    BY <2>1, Slots DEF ChainInv
  <2>3. Slot(Len(writes)) \in Nat /\ Slot(Len(writes)) >= 1
    BY <2>1, Slots
  <2> QED
    BY <1>1, <2>1, <2>2, <2>3
<1>6. \A i \in DOMAIN writes' : writes'[i].slot >= 1
  BY <1>3, <1>4, <1>5 DEF ChainInv, Legal
<1>7. \A i, k \in DOMAIN writes' : i <= k => writes'[i].slot <= writes'[k].slot
  <2> SUFFICES ASSUME NEW i \in DOMAIN writes', NEW k \in DOMAIN writes', i <= k
               PROVE  writes'[i].slot <= writes'[k].slot
    OBVIOUS
  <2>1. CASE k \in DOMAIN writes
    <3>1. i \in DOMAIN writes
      <4>1. i \in Nat
        BY <1>3
      <4> QED
        BY <1>4, <1>5, <2>1, <4>1
    <3> QED
      BY <1>3, <2>1, <3>1 DEF ChainInv
  <2>2. CASE k \notin DOMAIN writes
    <3>1. writes'[k].slot = s
      BY <1>4, <2>2 DEF Legal
    <3>2. writes'[i].slot <= s
      BY <1>3, <1>4, <1>5 DEF Legal
    <3> QED
      BY <3>1, <3>2
  <2> QED
    BY <2>1, <2>2
<1>8. 1 \in DOMAIN writes /\ writes'[1] = writes[1]
  BY <1>3, Writes
<1>9. ASSUME NEW i \in DOMAIN writes'
      PROVE  LET w == writes'[i]
             IN  /\ w.acct = Mint => i = 1 \/ w.amount = 0
                 /\ w.acct = Metadata => ~w.closed /\ w.amount \in {0, 1} /\ ~kind.extended
                 /\ w.acct \in {Edition, Inscription} =>
                       /\ ~w.closed /\ kind.standard = "nft"
                       /\ \E m \in DOMAIN writes' : writes'[m].acct = Metadata /\ writes'[m].amount = 1
  <2>1. (\E m \in DOMAIN writes : writes[m].acct = Metadata /\ writes[m].amount = 1) =>
            \E m \in DOMAIN writes' : writes'[m].acct = Metadata /\ writes'[m].amount = 1
    BY <1>3
  <2>2. CASE i \in DOMAIN writes
    BY <1>3, <2>1, <2>2 DEF ChainInv
  <2>3. CASE i \notin DOMAIN writes
    <3>1. Legal(writes'[i], s)
      BY <1>4, <2>3
    <3> QED
      BY <2>1, <3>1 DEF Legal
  <2> QED
    BY <2>2, <2>3
<1> QED
  BY <1>2, <1>3, <1>6, <1>7, <1>8, <1>9, SMTT(30) DEF ChainInv
\* A transaction leaves rows and handlers alone.
LEMMA TransactStep ==
    ASSUME Inv, Transact
    PROVE  Inv' /\ Later /\ Good
<1>0. ChainInv /\ RowsInv /\ JobsInv /\ AppliedInv
  BY DEF Inv
<1>1. PICK new \in Seq(WriteType) : Emit(new)
  BY <1>0, TransactIsLegal
<1>2. UNCHANGED <<kind, jobs, tables, errors, blind>>
  BY <1>1 DEF Emit
<1>3. /\ DOMAIN writes \subseteq DOMAIN writes' /\ \A i \in DOMAIN writes : writes'[i] = writes[i]
      /\ DOMAIN writes' \ pending' \subseteq DOMAIN writes \ pending
      /\ pending \subseteq pending' /\ pending' \subseteq DOMAIN writes'
  BY <1>0, <1>1, EmitGrows DEF JobsInv
<1>4. Later
  BY <1>2, <1>3 DEF Later
<1>5. Good
  BY <1>0, <1>2
     DEF Good, GoodTokens, GoodAccounts, GoodAsset, GoodData, GoodInscription, GoodEdition, RowsInv, tables
<1>6. ChainInv' /\ RowsInv'
  BY <1>0, <1>4, <1>5, ChainStep, GoodRows
<1>7. AppliedInv'
  BY <1>0, <1>3, <1>4, <1>5, AppliedStays DEF AppliedInv
<1>8. JobsInv'
  <2>1. \A j \in jobs : j \in Job /\ j.i \in pending' /\ JobInv(j)'
    BY <1>0, <1>3, <1>4, <1>5, JobStays, Zenon DEF JobsInv
  <2> QED
    BY <1>0, <1>2, <1>3, <2>1, Zenon DEF JobsInv
<1> QED
  BY <1>4, <1>5, <1>6, <1>7, <1>8 DEF Inv

-----------------------------------------------------------------------------
(* The invariant.                                                          *)

\* The invariant holds at first.
LEMMA InitInv == Init => Inv
<1> SUFFICES ASSUME Init PROVE Inv
  OBVIOUS
<1>1. PICK t \in TokenAccounts : writes = <<Write(Mint, kind.supply, 1), Write(t, kind.supply, 1)>>
  BY DEF Init
<1>2. kind \in Kinds /\ kind.supply \in Nat
  BY AccountAssumption DEF Init
<1> DEFINE a == Write(Mint, kind.supply, 1)
           b == Write(t, kind.supply, 1)
<1>3. /\ writes = <<a, b>> /\ a \in WriteType /\ b \in WriteType
      /\ a.acct = Mint /\ b.acct = t /\ a.slot = 1 /\ b.slot = 1
      /\ ~a.closed /\ ~b.closed /\ a.amount = kind.supply
  <2>1. Mint \in Accounts /\ t \in Accounts /\ 1 \in Nat
    BY DEF Accounts
  <2> QED
    BY <1>1, <1>2, <2>1, NewWrite
<1> HIDE DEF a, b
<1>4. /\ writes \in Seq(WriteType) /\ Len(writes) = 2 /\ DOMAIN writes = {1, 2}
      /\ writes[1] = a /\ writes[2] = b
  BY <1>3
<1>5. 2 \in 2 .. MaxWrites
  BY AccountAssumption
<1>6. ChainInv
  <2>1. \A i \in DOMAIN writes : writes[i].slot = 1
    BY <1>3, <1>4
  <2>2. \A i \in DOMAIN writes :
          LET w == writes[i]
          IN  /\ w.acct = Mint => i = 1
              /\ w.acct \notin {Metadata, Edition, Inscription}
    BY <1>3, <1>4, Names
  <2> QED
    BY <1>2, <1>3, <1>4, <1>5, <2>1, <2>2, SMTT(30) DEF ChainInv
<1>7. RowsInv
  <2>1. 0 \in 0 .. MaxErrors
    BY AccountAssumption
  <2> QED
    BY <2>1 DEF Init, RowsInv
<1>8. JobsInv /\ AppliedInv
  BY DEF Init, JobsInv, AppliedInv
<1> QED
  BY <1>6, <1>7, <1>8 DEF Inv

\* Every step keeps the invariant and takes rows forward.
LEMMA NextStep ==
    ASSUME Inv, [Next]_vars
    PROVE  Inv' /\ Later /\ Good
<1>1. CASE Transact
  BY <1>1, TransactStep
<1>2. CASE \E i \in pending : Begin(i)
  BY <1>2, BeginStep
<1>3. CASE \E j \in jobs : handle(j)
  BY <1>3, HandleStep, StatementStep
<1>4. CASE UNCHANGED vars
  <2>0. ChainInv /\ RowsInv /\ JobsInv /\ AppliedInv
    BY DEF Inv
  <2>1. Later /\ Good
    BY <1>4, <2>0, Untouched DEF Later, Good, vars, tables, RowsInv
  <2>2. ChainInv' /\ RowsInv'
    BY <1>4, <2>0, <2>1, GoodRows, Zenon DEF ChainInv, vars
  <2>3. AppliedInv'
    BY <1>4, <2>0, <2>1, AppliedStays DEF AppliedInv, vars
  <2>4. JobsInv'
    BY <1>4, <2>0, <2>1, JobStays, Zenon DEF JobsInv, vars
  <2> QED
    BY <2>1, <2>2, <2>3, <2>4 DEF Inv
<1> QED
  BY <1>1, <1>2, <1>3, <1>4 DEF Next

\* Inv is an invariant of the handlers of account updates.
THEOREM InvHolds == Spec => []Inv
<1>1. Inv /\ [Next]_vars => Inv'
  BY NextStep
<1> QED
  BY InitInv, <1>1, PTL DEF Spec
-----------------------------------------------------------------------------
(* What follows from it.                                                   *)

\* The invariant has the types.
LEMMA InvType == Inv => TypeOK
<1> SUFFICES ASSUME Inv PROVE TypeOK
  OBVIOUS
<1>1. ChainInv /\ RowsInv /\ JobsInv
  BY DEF Inv
<1>2. \A x, a : Of(x, a) => x \in Write_ /\ writes[x].acct = a
  BY <1>1, Writes DEF Of
<1>3. 0 \in Write_
  BY AccountAssumption DEF Write_
<1>4. \A j \in jobs : j.i \in pending /\ j.row \in Write_
  BY <1>1 DEF JobsInv, Job
<1>5. Len(writes) <= MaxWrites
  BY <1>1, Writes
<1>6. /\ tokens = 0 \/ writes[tokens].acct = Mint
      /\ \A t \in TokenAccounts : token_accounts[t] = 0 \/ writes[token_accounts[t]].acct = t
      /\ asset = NULL \/ asset \in Asset
      /\ data \in Write_ /\ inscription \in Write_ /\ errors \in 0 .. MaxErrors
  BY <1>1, <1>2, <1>3 DEF RowsInv, IsAsset
<1> QED
  BY <1>1, <1>4, <1>5, <1>6, Zenon DEF TypeOK, ChainInv, JobsInv

\* Steps that take rows forward reject what is stale.
LEMMA Forward ==
    ASSUME ChainInv, RowsInv, Good
    PROVE  /\ tokens' = 0 \/ NotOlder(tokens', tokens)
           /\ \A t \in TokenAccounts :
                 token_accounts'[t] = 0 \/ NotOlder(token_accounts'[t], token_accounts[t])
           /\ asset # NULL => /\ NotOlder(asset'.ta, asset.ta) /\ NotOlder(asset'.mint, asset.mint)
                              /\ NotOlder(asset'.md, asset.md)
           /\ NotOlder(data', data) /\ NotOlder(inscription', inscription)
<1>1. /\ Slot(tokens) \in Nat /\ \A t \in TokenAccounts : Slot(token_accounts[t]) \in Nat
      /\ \A r : IsAsset(r) => Slot(r.ta) \in Nat /\ Slot(r.mint) \in Nat /\ Slot(r.md) \in Nat
      /\ Slot(data) \in Nat /\ Slot(inscription) \in Nat
  BY RowSlots, Zenon
<1>2. tokens' = 0 \/ NotOlder(tokens', tokens)
  BY <1>1 DEF Good, GoodTokens, NotOlder
<1>3. \A t \in TokenAccounts :
          token_accounts'[t] = 0 \/ NotOlder(token_accounts'[t], token_accounts[t])
  BY <1>1 DEF Good, GoodAccounts, NotOlder
<1>4. asset # NULL => /\ NotOlder(asset'.ta, asset.ta) /\ NotOlder(asset'.mint, asset.mint)
                      /\ NotOlder(asset'.md, asset.md)
  BY <1>1 DEF Good, GoodAsset, AssetForward, NotOlder, RowsInv
<1>5. NotOlder(data', data) /\ NotOlder(inscription', inscription)
  BY <1>1 DEF Good, GoodData, GoodInscription, NotOlder
<1> QED
  BY <1>2, <1>3, <1>4, <1>5, ZenonT(30)

\* A row that no write of its account is newer than is at the account's last slot.
LEMMA CurrentIf ==
    ASSUME ChainInv, NEW a, NEW x, x = 0 \/ Of(x, a),
           \A i \in DOMAIN writes : Of(i, a) => NotOlder(x, i)
    PROVE  Current(x, a)
<1>1. /\ Slot(0) = 0 /\ \A i \in DOMAIN writes : Slot(i) \in Nat /\ Slot(i) >= 1
      /\ \A i, k \in DOMAIN writes : i <= k => Slot(i) <= Slot(k)
  BY Slots
<1>2. CASE Last(a) = 0 /\ \A i \in DOMAIN writes : ~Of(i, a)
  <2>1. x = 0
    BY <1>2 DEF Of
  <2> QED
    BY <1>2, <2>1 DEF Current
<1>3. CASE Of(Last(a), a) /\ \A i \in DOMAIN writes : Of(i, a) => i <= Last(a)
  <2>1. Last(a) \in DOMAIN writes /\ Slot(x) >= Slot(Last(a))
    BY <1>3 DEF Of, NotOlder
  <2>2. x # 0
    BY <1>1, <2>1
  <2>3. x \in DOMAIN writes /\ x <= Last(a)
    BY <1>3, <2>2 DEF Of
  <2>4. Slot(x) <= Slot(Last(a)) /\ Slot(x) \in Nat /\ Slot(Last(a)) \in Nat
    BY <1>1, <2>1, <2>3
  <2> QED
    BY <2>1, <2>4 DEF Current
<1> QED
  BY <1>2, <1>3, LastIs

\* When all messages are handled, every write is applied.
LEMMA AllApplied ==
    ASSUME Inv, Settled
    PROVE  \A i \in DOMAIN writes : Applied(i)
BY DEF Inv, AppliedInv, Settled

\* The message of the mint has made the asset.
LEMMA AssetThere ==
    ASSUME Inv, Settled
    PROVE  asset # NULL /\ IsAsset(asset)
<1>1. 1 \in DOMAIN writes /\ ~writes[1].closed /\ writes[1].acct = Mint
  BY Writes, ZenonT(30) DEF Inv, ChainInv
<1>2. SupplyStored(1)
  BY <1>1, AllApplied, Zenon DEF Applied
<1> QED
  BY <1>2 DEF SupplyStored, Inv, RowsInv

\* The attachment ends with the last edition, or with newer metadata.
LEMMA EditionSettles ==
    ASSUME Inv, Settled, Last(Edition) # 0
    PROVE  /\ edition # NULL /\ edition.known
           /\ \/ edition.at # 0 /\ Current(edition.at, Edition)
              \/ \E i \in DOMAIN writes : /\ writes[i].acct = Metadata /\ Amount(i) = 1
                                         /\ Slot(i) > Slot(Last(Edition))
<1>0. ChainInv /\ RowsInv
  BY DEF Inv
<1>1. PICK e : e = Last(Edition) /\ Of(e, Edition) /\ \A i \in DOMAIN writes : Of(i, Edition) => i <= e
  BY <1>0, LastIs
<1>2. /\ e \in DOMAIN writes /\ writes[e].acct = Edition /\ ~writes[e].closed /\ kind.standard = "nft"
      /\ \E m \in DOMAIN writes : writes[m].acct = Metadata /\ writes[m].amount = 1
  BY <1>0, <1>1 DEF Of, ChainInv
<1>3. EditionStored(e)
  BY <1>2, AllApplied, ZenonT(30) DEF Applied
<1>4. Attached
  <2>1. PICK m \in DOMAIN writes : writes[m].acct = Metadata /\ writes[m].amount = 1
    BY <1>2
  <2>2. ~writes[m].closed
    BY <1>0, <2>1, Zenon DEF ChainInv
  <2> QED
    BY <1>2, <2>1, <2>2, AllApplied, Zenon DEF Applied
<1>5. edition # NULL /\ edition.known /\ IsAttachment(edition)
  BY <1>0, <1>4 DEF Attached, RowsInv
<1>6. CASE edition.at = 0
  BY <1>1, <1>3, <1>5, <1>6, SMTT(30) DEF IsAttachment, EditionStored, Of
<1>7. CASE edition.at # 0
  <2>1. /\ Of(edition.at, Edition) /\ edition.at \in DOMAIN writes /\ edition.at <= e
        /\ Slot(edition.at) >= Slot(e)
    BY <1>1, <1>3, <1>5, <1>7, SMTT(30) DEF IsAttachment, EditionStored, Of
  <2>2. Slot(edition.at) <= Slot(e) /\ Slot(edition.at) \in Nat /\ Slot(e) \in Nat
    BY <1>0, <1>2, <2>1, Slots, Zenon
  <2> QED
    BY <1>1, <1>5, <1>7, <2>1, <2>2, SMTT(30) DEF Current
<1> QED
  BY <1>5, <1>6, <1>7

\* A row that every write of its account has reached is at the last of them.
LEMMA InvSettles == Inv => ColumnsSettle
<1> SUFFICES ASSUME Inv, Settled
             PROVE  /\ Shut(Mint) \/ Current(tokens, Mint)
                    /\ \A t \in TokenAccounts : Shut(t) \/ Current(token_accounts[t], t)
                    /\ asset # NULL /\ (Shut(Mint) \/ Current(asset.mint, Mint))
                    /\ ~Emptied /\ ~kind.extended => Current(asset.md, Metadata) /\ Current(data, Metadata)
                    /\ kind.extended /\ ~Shut(Mint) => Current(asset.md, Mint) /\ Current(data, Mint)
                    /\ Current(inscription, Inscription)
  BY EditionSettles, Zenon DEF ColumnsSettle
<1>0. ChainInv /\ RowsInv
  BY DEF Inv
<1>1. \A i, a : Of(i, a) /\ ~Shut(a) => i \in DOMAIN writes /\ writes[i].acct = a /\ ~writes[i].closed
  BY DEF Of, Shut
<1>2. \A i \in DOMAIN writes : Applied(i)
  BY AllApplied
<1>3. asset # NULL /\ IsAsset(asset)
  BY AssetThere
<1>4. ASSUME ~Shut(Mint)
      PROVE  /\ Current(tokens, Mint) /\ Current(asset.mint, Mint)
             /\ kind.extended => Current(asset.md, Mint) /\ Current(data, Mint)
  <2>1. ASSUME NEW i \in DOMAIN writes, Of(i, Mint)
        PROVE  /\ NotOlder(tokens, i) /\ NotOlder(asset.mint, i)
               /\ kind.extended => NotOlder(asset.md, i) /\ NotOlder(data, i)
    <3>1. writes[i].acct = Mint /\ ~writes[i].closed
      BY <1>1, <1>4, <2>1, Zenon
    <3> QED
      BY <1>2, <1>4, <3>1, ZenonT(30) DEF Applied, MintStored, SupplyStored, DataStored, ColumnsStored
  <2>2. /\ tokens = 0 \/ Of(tokens, Mint)
        /\ asset.mint = 0 \/ Of(asset.mint, Mint)
        /\ kind.extended => /\ asset.md = 0 \/ Of(asset.md, Mint)
                            /\ data = 0 \/ Of(data, Mint)
    BY <1>0, <1>3 DEF RowsInv, IsAsset, Described
  <2> QED
    BY <1>0, <2>1, <2>2, CurrentIf
<1>5. ASSUME NEW t \in TokenAccounts, ~Shut(t)
      PROVE  Current(token_accounts[t], t)
  <2>1. ASSUME NEW i \in DOMAIN writes, Of(i, t)
        PROVE  NotOlder(token_accounts[t], i)
    <3>1. writes[i].acct = t /\ ~writes[i].closed
      BY <1>1, <1>5, <2>1, Zenon
    <3> QED
      BY <1>2, <1>5, <3>1, ZenonT(30) DEF Applied, AccountStored
  <2>2. token_accounts[t] = 0 \/ Of(token_accounts[t], t)
    BY <1>0 DEF RowsInv
  <2> QED
    BY <1>0, <2>1, <2>2, CurrentIf, Zenon
<1>6. ASSUME ~Emptied, ~kind.extended
      PROVE  Current(asset.md, Metadata) /\ Current(data, Metadata)
  <2>1. ASSUME NEW i \in DOMAIN writes, Of(i, Metadata)
        PROVE  NotOlder(asset.md, i) /\ NotOlder(data, i)
    <3>1. writes[i].acct = Metadata /\ ~writes[i].closed /\ writes[i].amount = 1
      BY <1>0, <1>6, <2>1, ZenonT(30) DEF ChainInv, Emptied, Amount, Of
    <3> QED
      BY <1>2, <3>1, ZenonT(30) DEF Applied, DataStored, ColumnsStored
  <2>2. /\ asset.md = 0 \/ Of(asset.md, Metadata)
        /\ data = 0 \/ Of(data, Metadata)
    BY <1>0, <1>3, <1>6 DEF RowsInv, IsAsset, Described
  <2> QED
    BY <1>0, <2>1, <2>2, CurrentIf, Zenon
<1>7. Current(inscription, Inscription)
  <2>1. ASSUME NEW i \in DOMAIN writes, Of(i, Inscription)
        PROVE  NotOlder(inscription, i)
    <3>1. writes[i].acct = Inscription /\ ~writes[i].closed
      BY <1>0, <2>1, Zenon DEF ChainInv, Of
    <3> QED
      BY <1>2, <3>1, ZenonT(30) DEF Applied, InscriptionStored
  <2>2. inscription = 0 \/ Of(inscription, Inscription)
    BY <1>0 DEF RowsInv
  <2> QED
    BY <1>0, <2>1, <2>2, CurrentIf
<1> QED
  BY <1>3, <1>4, <1>5, <1>6, <1>7, ZenonT(30)

\* A unique token is never burnt, so that each token account has reached the
\* owner.
LEMMA InvOwner == Inv => OwnerSettles
<1> SUFFICES ASSUME Inv, Settled, ~blind, Unique, NEW t \in TokenAccounts, ~Shut(t)
             PROVE  Slot(asset.ta) >= Slot(Last(t))
  BY DEF OwnerSettles
<1>0. ChainInv /\ RowsInv
  BY DEF Inv
<1>1. asset # NULL /\ IsAsset(asset) /\ Slot(asset.ta) \in Nat /\ Slot(0) = 0
  BY <1>0, AssetThere, RowSlots, Slots, Zenon
<1>2. NeverBurnt
  <2>1. 1 \in DOMAIN writes /\ Of(1, Mint)
    BY <1>0, Writes, Zenon DEF ChainInv, Of
  <2>2. Of(Last(Mint), Mint) /\ \A k \in DOMAIN writes : Of(k, Mint) => k <= Last(Mint)
    BY <1>0, <2>1, LastIs
  <2>3. Last(Mint) = 1
    <3>1. /\ Last(Mint) \in DOMAIN writes /\ writes[Last(Mint)].acct = Mint
          /\ writes[Last(Mint)].amount = 1
      BY <2>2, Zenon DEF Unique, Amount, Of
    <3>2. Last(Mint) = 1 \/ writes[Last(Mint)].amount = 0
      BY <1>0, <3>1, Zenon DEF ChainInv
    <3> QED
      BY <3>1, <3>2
  <2>4. \A k \in DOMAIN writes : k \in Nat /\ k # 0
    BY <1>0, Writes
  <2>5. \A k \in DOMAIN writes : Of(k, Mint) => k = 1
    BY <2>2, <2>3, <2>4
  <2> QED
    BY <2>5 DEF Unique, NeverBurnt
<1>3. CASE Last(t) = 0
  BY <1>1, <1>3
<1>4. CASE Of(Last(t), t)
  <2>1. PICK i \in DOMAIN writes : i = Last(t) /\ writes[i].acct = t /\ ~writes[i].closed
    BY <1>4 DEF Of, Shut
  <2>2. OwnerStored(i)
    BY <2>1, AllApplied, Zenon DEF Applied
  <2> QED
    BY <1>2, <2>1, <2>2, Zenon DEF OwnerStored, NotOlder
<1> QED
  BY <1>0, <1>3, <1>4, LastIs, SMTT(30)

\* Rows hold the content of their own account, whatever order messages and the
\* statements of their handlers run in.
THEOREM TypeCorrect == Spec => []TypeOK
BY InvHolds, InvType, PTL

\* The slot guards of asset_upserts.rs and of the upserts of tokens, token_accounts
\* and asset_data never let a row, or a group of columns of asset, go back.
THEOREM StaleHolds == Spec => StaleIsRejected
<1>1. Inv /\ [Next]_vars =>
        [/\ tokens' = 0 \/ NotOlder(tokens', tokens)
         /\ \A t \in TokenAccounts :
               token_accounts'[t] = 0 \/ NotOlder(token_accounts'[t], token_accounts[t])
         /\ asset # NULL => /\ NotOlder(asset'.ta, asset.ta) /\ NotOlder(asset'.mint, asset.mint)
                            /\ NotOlder(asset'.md, asset.md)
         /\ NotOlder(data', data) /\ NotOlder(inscription', inscription)]_vars
  <2> SUFFICES ASSUME Inv, [Next]_vars
               PROVE  /\ tokens' = 0 \/ NotOlder(tokens', tokens)
                      /\ \A t \in TokenAccounts :
                            token_accounts'[t] = 0 \/ NotOlder(token_accounts'[t], token_accounts[t])
                      /\ asset # NULL => /\ NotOlder(asset'.ta, asset.ta) /\ NotOlder(asset'.mint, asset.mint)
                                         /\ NotOlder(asset'.md, asset.md)
                      /\ NotOlder(data', data) /\ NotOlder(inscription', inscription)
    OBVIOUS
  <2>1. ChainInv /\ RowsInv /\ Good
    BY NextStep DEF Inv
  <2> QED
    BY <2>1, Forward, SMTT(30)
<1> QED
  BY InvHolds, <1>1, PTL DEF Spec, StaleIsRejected

\* Once the messages are handled, the rows of mint, token accounts, metadata and
\* attachments are those of the newest slots.
THEOREM SettleHolds == Spec => []ColumnsSettle
BY InvHolds, InvSettles, PTL

\* Once the messages are handled, each token account after its mint, the owner
\* columns of asset are not older than the newest token account.
THEOREM OwnerHolds == Spec => []OwnerSettles
BY InvHolds, InvOwner, PTL
-----------------------------------------------------------------------------
(* The purge.                                                              *)

\* An account is missing because it was closed.
LEMMA MissingIsShut ==
    ASSUME ChainInv, NEW k \in Missing
    PROVE  Shut(k)
<1>1. Last(k) # 0 /\ writes[Last(k)].closed
  BY DEF Missing, Open
<1>2. Of(Last(k), k)
  BY <1>1, LastIs
<1> QED
  BY <1>1, <1>2 DEF Of, Shut

\* A step of the purge leaves messages and handlers alone.
LEMMA PurgeKeepsInv ==
    ASSUME Inv, Good, UNCHANGED <<kind, writes, pending, jobs>>
    PROVE  Inv' /\ Later
<1>0. ChainInv /\ RowsInv /\ JobsInv /\ AppliedInv
  BY DEF Inv
<1>1. Later
  BY DEF Later
<1>2. ChainInv' /\ RowsInv'
  BY <1>0, <1>1, GoodRows, Zenon DEF ChainInv
<1>3. AppliedInv'
  BY <1>0, <1>1, AppliedStays, SMTT(30) DEF AppliedInv
<1>4. JobsInv'
  BY <1>0, <1>1, JobStays, SMTT(30) DEF JobsInv
<1> QED
  BY <1>1, <1>2, <1>3, <1>4, SMTT(30) DEF Inv

\* A purge starts with nothing to delete.
LEMMA StartStep ==
    ASSUME Inv, PurgeInv, NEW t \in {"tokens", "token_accounts"}, start_purge(t)
    PROVE  Good /\ PurgeInv' /\ UNCHANGED <<kind, writes, pending, jobs>>
<1>0. RowsInv
  BY DEF Inv
<1>1. UNCHANGED <<kind, writes, pending, jobs, tables, errors, blind>>
  BY DEF start_purge, vars
<1>2. Good
  BY <1>0, <1>1, Untouched DEF Good, tables
<1>3. table = NULL /\ table' = t /\ marked' = {} /\ gone' = Missing /\ purged' = purged /\ Missing' = Missing
  BY <1>1, Zenon DEF start_purge, Missing, Last, Open
<1>4. PurgeInv'
  BY <1>3, PurgeAssumption DEF PurgeInv
<1> QED
  BY <1>1, <1>2, <1>4, SMTT(30)

\* Only accounts that are missing are marked.
LEMMA PageStep ==
    ASSUME Inv, PurgeInv, Paginate \/ MarkDeletion
    PROVE  Good /\ PurgeInv' /\ UNCHANGED <<kind, writes, pending, jobs>>
<1>0. ChainInv /\ RowsInv
  BY DEF Inv
<1>1. /\ UNCHANGED <<kind, writes, pending, jobs, tables, blind, table, gone, purged>>
      /\ Trouble \/ UNCHANGED errors
  BY Zenon DEF Paginate, MarkDeletion, history
<1>2. Good
  BY <1>0, <1>1, Untouched, SMTT(30) DEF Good, tables
<1>3. /\ Missing' = Missing /\ \A k : Shut(k) => Shut(k)'
  BY <1>1 DEF Missing, Last, Open, Shut
<1>4. CASE Paginate
  <2>1. table # NULL /\ marked' = marked
    BY <1>4 DEF Paginate
  <2> QED
    BY <1>1, <1>2, <1>3, <2>1, SMTT(30) DEF PurgeInv
<1>5. CASE MarkDeletion
  <2>1. PICK p \in pages : pages' = pages \ {p} /\ (Mark(p \cap Missing) \/ Mark({}))
    BY <1>5, Zenon DEF MarkDeletion
  <2>2. table # NULL /\ Missing \subseteq gone
    BY <2>1 DEF PurgeInv
  <2>3. \A m \in marked' : m \in marked \/ m = p \cap Missing
    BY <2>1 DEF Mark
  <2>4. \A m \in marked' : m \subseteq gone /\ \A k \in m : Shut(k)
    BY <1>0, <2>2, <2>3, MissingIsShut, SMTT(30) DEF PurgeInv
  <2> QED
    BY <1>1, <1>2, <1>3, <2>2, <2>4, SMTT(30) DEF PurgeInv
<1> QED
  BY <1>1, <1>2, <1>4, <1>5

\* A worker deletes rows of closed accounts.
LEMMA DeleteStep ==
    ASSUME Inv, PurgeInv, table # NULL, NEW m \in marked, Delete(m)
    PROVE  Good /\ PurgeInv' /\ UNCHANGED <<kind, writes, pending, jobs>>
<1>0. ChainInv /\ RowsInv
  BY DEF Inv
<1>1. /\ UNCHANGED <<kind, writes, pending, jobs, asset, data, edition, inscription, stray, blind, table>>
      /\ Trouble \/ UNCHANGED errors
      /\ marked' = marked \ {m} /\ gone' = gone \cup Missing'
      /\ purged' = purged \cup {k \in Keys : Row(k) # 0 /\ Row(k)' = 0}
  BY DEF Delete, Observe
<1>2. m \subseteq gone /\ \A k \in m : Shut(k)
  BY DEF PurgeInv
<1>3. \/ /\ token_accounts' = [t \in TokenAccounts |-> IF t \in m THEN 0 ELSE token_accounts[t]]
         /\ tokens' = IF Mint \in m THEN 0 ELSE tokens
      \/ UNCHANGED <<token_accounts, tokens>>
  BY DEF Delete
<1>4. GoodTokens
  BY <1>2, <1>3, SMTT(30) DEF GoodTokens
<1>5. GoodAccounts
  BY <1>0, <1>2, <1>3, SMTT(30) DEF GoodAccounts, RowsInv
<1>6. Good
  BY <1>0, <1>1, <1>4, <1>5, Untouched, Zenon DEF Good
<1>7. \A k \in Keys : Row(k) # 0 /\ Row(k)' = 0 => k \in m
  BY <1>3 DEF Keys, Row
<1>8. PurgeInv'
  <2>1. purged' \subseteq gone'
    BY <1>1, <1>2, <1>7, SMTT(30) DEF PurgeInv
  <2>2. \A k : Shut(k) => Shut(k)'
    BY <1>1 DEF Shut
  <2> QED
    BY <1>1, <2>1, <2>2, SMTT(30) DEF PurgeInv
<1> QED
  BY <1>1, <1>6, <1>8

\* The workers of both purges.
LEMMA WorkerStep ==
    ASSUME Inv, PurgeInv, TokenAccountPurge \/ MintPurge
    PROVE  Good /\ PurgeInv' /\ UNCHANGED <<kind, writes, pending, jobs>>
<1>0. ChainInv /\ RowsInv /\ table # NULL
  BY PurgeAssumption DEF Inv, TokenAccountPurge, MintPurge
<1>1. CASE \E m \in marked : Delete(m)
  BY <1>0, <1>1, DeleteStep
<1>2. CASE /\ \/ asset' = (IF asset = NULL THEN NULL ELSE [asset EXCEPT !.burnt = TRUE])
                 /\ UNCHANGED errors
              \/ Trouble /\ UNCHANGED asset
           /\ UNCHANGED <<kind, writes, pending, jobs, tokens, token_accounts, data, edition,
                          inscription, stray, blind, table, offset, pages, marked, history>>
  <2>1. Trouble \/ UNCHANGED errors
    BY <1>2
  <2>2. GoodAsset
    BY <1>0, <1>2, BurntStep DEF GoodAsset
  <2>3. Good
    BY <1>0, <1>2, <2>1, <2>2, Untouched, SMTT(30) DEF Good
  <2>4. UNCHANGED <<writes, table, marked, gone, purged>>
    BY <1>2 DEF history
  <2>5. PurgeInv'
    BY <1>0, <2>4, Zenon DEF PurgeInv, Missing, Last, Open, Shut
  <2> QED
    BY <1>2, <2>3, <2>5
<1> QED
  BY <1>1, <1>2 DEF TokenAccountPurge, MintPurge

\* The handlers go on next to the purge.
LEMMA BesideStep ==
    ASSUME Inv, PurgeInv, Later, Observe, UNCHANGED <<purge, purged>>
    PROVE  PurgeInv'
<1>1. UNCHANGED <<table, pages, marked, purged>> /\ gone' = gone \cup Missing'
  BY DEF purge, Observe
<1>2. \A k : Shut(k) => Shut(k)'
  BY LaterFacts DEF Inv
<1> QED
  BY <1>1, <1>2 DEF PurgeInv

\* Every step of handlers and purge keeps both invariants.
LEMMA PurgerStep ==
    ASSUME Inv, PurgeInv, [PurgerNext]_purgerVars
    PROVE  Inv' /\ PurgeInv' /\ Good
<1>1. CASE Next /\ Observe /\ UNCHANGED <<purge, purged>>
  BY <1>1, NextStep, BesideStep, SMTT(30)
<1>2. CASE \/ \E t \in {"tokens", "token_accounts"} : start_purge(t)
           \/ Paginate \/ MarkDeletion \/ TokenAccountPurge \/ MintPurge
  BY <1>2, StartStep, PageStep, WorkerStep, PurgeKeepsInv, SMTT(30)
<1>3. CASE UNCHANGED purgerVars
  <2>1. UNCHANGED vars /\ UNCHANGED <<writes, table, pages, marked, gone, purged>>
    BY <1>3 DEF purgerVars, vars, purge, history
  <2>2. Inv' /\ Good
    BY <2>1, NextStep, SMTT(30)
  <2>3. PurgeInv'
    BY <2>1 DEF PurgeInv, Missing, Last, Open, Shut
  <2> QED
    BY <2>2, <2>3
<1> QED
  BY <1>1, <1>2, <1>3 DEF PurgerNext

\* The handlers' invariant holds beside the purge, together with the purge's own.
THEOREM PurgerHolds == PurgerSpec => [](Inv /\ PurgeInv)
<1>1. PurgerInit => Inv /\ PurgeInv
  <2>1. PurgerInit => Inv
    BY InitInv DEF PurgerInit
  <2>2. PurgerInit => PurgeInv
    BY DEF PurgerInit, PurgeInv
  <2> QED
    BY <2>1, <2>2
<1>2. Inv /\ PurgeInv /\ [PurgerNext]_purgerVars => (Inv /\ PurgeInv)'
  BY PurgerStep
<1> QED
  BY <1>1, <1>2, PTL DEF PurgerSpec

\* The workers of TokenAccountPurge and MintPurge delete a row only if the account
\* was missing at some time since the purge started.
THEOREM OnlyMissingHolds == PurgerSpec => []OnlyMissingPurged
<1>1. Inv /\ PurgeInv => OnlyMissingPurged
  BY DEF PurgeInv, OnlyMissingPurged
<1> QED
  BY PurgerHolds, <1>1, PTL

\* The purge does not disturb the handlers: it may run at any time beside them, and
\* once all messages are handled the rows are still those of the newest slots.
THEOREM PurgedSettleHolds == PurgerSpec => [](ColumnsSettle /\ OwnerSettles)
<1>1. Inv /\ PurgeInv => ColumnsSettle /\ OwnerSettles
  BY InvSettles, InvOwner, SMTT(30)
<1> QED
  BY PurgerHolds, <1>1, PTL
-----------------------------------------------------------------------------
(* Pages.                                                                  *)

\* Row k is one the purge has to delete; the scan will meet it, or its key is on the
\* way to the RPC node or to a worker.
Due(k) == k \in dead \ touched /\ (k = Mint <=> table = "tokens") /\ Row(k) # 0
InSight(k) ==
    \/ offset # NULL /\ Rank(k) >= offset
    \/ \E p \in pages \cup marked : k \in p
Calm == table # NULL /\ errors = 0 /\ ~shifted

ScanInv ==
    /\ order \in Orders /\ (offset = NULL \/ offset \in Nat)
    /\ dead \subseteq Missing
    /\ Calm => \A k \in Keys : Due(k) => InSight(k)

\* Sets of keys are finite, and a part is not larger than the whole.
LEMMA KeySets ==
    ASSUME NEW S \in SUBSET Keys, NEW T \in SUBSET S
    PROVE  IsFiniteSet(T) /\ Cardinality(T) \in Nat /\ Cardinality(T) <= Cardinality(S)
<1>1. IsFiniteSet(Keys)
  BY PurgeAssumption, FS_AddElement DEF Keys
<1>2. IsFiniteSet(S)
  BY <1>1, FS_Subset
<1>3. IsFiniteSet(T) /\ Cardinality(T) <= Cardinality(S)
  BY <1>2, FS_Subset
<1> QED
  BY <1>3, FS_CardinalityType, SMTT(30)

\* The places of rows.
LEMMA Places ==
    ASSUME order \in Orders
    PROVE  /\ \A k \in Keys : order[k] \in Nat
           /\ \A j, k \in Keys : order[j] = order[k] => j = k
           /\ Scan \subseteq Keys /\ \A k : Ahead(k) \subseteq Scan
<1>1. order \in [Keys -> Nat] /\ \A j, k \in Keys : order[j] = order[k] => j = k
  BY PurgeAssumption, Zenon
<1>2. Scan \subseteq Keys /\ \A k : Ahead(k) \subseteq Scan
  BY DEF Scan, Ahead
<1> QED
  BY <1>1, <1>2

\* Ranks are numbers.
LEMMA RankType ==
    ASSUME order \in Orders
    PROVE  \A k : Rank(k) \in Nat
BY Places, KeySets DEF Rank

\* No rank is left out: of the rows from rank n on, the first one has rank n.
LEMMA RanksAreDense ==
    ASSUME order \in Orders, NEW k \in Scan, NEW n \in Nat, Rank(k) >= n
    PROVE  \E j \in Scan : Rank(j) = n
<1>1. /\ \A i \in Scan : order[i] \in Nat
      /\ \A i, h \in Scan : order[i] = order[h] => i = h
      /\ \A i : Rank(i) \in Nat
  BY Places, RankType, SMTT(30)
<1>2. PICK j \in Scan : Rank(j) >= n /\ \A i \in Scan : Rank(i) >= n => order[j] <= order[i]
  <2> DEFINE late == {i \in Scan : Rank(i) >= n}
  <2> DEFINE P == {order[i] : i \in late}
  <2>1. P \in SUBSET Nat
    BY <1>1
  <2>2. order[k] \in P
    OBVIOUS
  <2>3. PICK m \in P : \A q \in P : m <= q
    <3> HIDE DEF P
    <3> QED
      BY <2>1, <2>2, LeastNumber, SMTT(30)
  <2>4. PICK j \in late : m = order[j]
    BY <2>3
  <2>5. \A i \in late : order[j] <= order[i]
    BY <2>3, <2>4, SMTT(30)
  <2> QED
    BY <2>4, <2>5, SMTT(30)
<1>3. CASE Ahead(j) = {}
  <2>1. Rank(j) = 0
    BY <1>3, FS_EmptySet DEF Rank
  <2> QED
    BY <1>2, <2>1
<1>4. CASE Ahead(j) # {}
  <2>1. PICK i \in Ahead(j) : \A h \in Ahead(j) : order[h] <= order[i]
    <3> DEFINE P == {order[h] : h \in Ahead(j)}
    <3>1. P \in SUBSET (0 .. order[j])
      BY <1>1 DEF Ahead
    <3>2. P # {} /\ order[j] \in Nat
      BY <1>1, <1>4
    <3>3. PICK m \in P : \A q \in P : q <= m
      <4> HIDE DEF P
      <4> QED
        BY <3>1, <3>2, GreatestNumber, ZenonT(30)
    <3>4. PICK i \in Ahead(j) : m = order[i]
      BY <3>3, SMTT(30)
    <3>5. \A h \in Ahead(j) : order[h] <= order[i]
      BY <3>3, <3>4, SMTT(30)
    <3> QED
      BY <3>5
  <2>2. i \in Scan /\ order[i] < order[j]
    BY <2>1 DEF Ahead
  <2>3. \A h \in Scan : order[h] < order[j] <=> (order[h] < order[i] \/ h = i)
    <3> SUFFICES ASSUME NEW h \in Scan
                 PROVE  order[h] < order[j] <=> (order[h] < order[i] \/ h = i)
      OBVIOUS
    <3>1. order[h] \in Nat /\ order[i] \in Nat /\ order[j] \in Nat
      BY <1>1, <2>2, SMTT(30)
    <3>2. order[h] = order[i] => h = i
      BY <1>1, <2>2, SMTT(30)
    <3>3. order[h] < order[j] => order[h] <= order[i]
      BY <2>1 DEF Ahead
    <3> QED
      BY <2>2, <3>1, <3>2, <3>3, SMTT(30)
  <2>4. Ahead(j) = Ahead(i) \cup {i}
    BY <2>2, <2>3, SMTT(30) DEF Ahead
  <2>5. i \notin Ahead(i)
    BY <1>1, <2>2, SMTT(30) DEF Ahead
  <2>6. IsFiniteSet(Ahead(i))
    BY Places, KeySets, SMTT(30)
  <2>7. Rank(j) = Rank(i) + 1
    BY <2>4, <2>5, <2>6, FS_AddElement, SMTT(30) DEF Rank
  <2>8. ~(Rank(i) >= n)
    <3>1. ~(order[j] <= order[i])
      BY <1>1, <2>2, SMTT(30)
    <3> QED
      BY <1>2, <2>2, <3>1, SMTT(30)
  <2>9. Rank(j) = n
    BY <1>1, <1>2, <2>7, <2>8, SMTT(30)
  <2> QED
    BY <2>9, SMTT(30)
<1> QED
  BY <1>3, <1>4

\* While there are rows from the offset on, the page is not empty; it holds them up to
\* the next offset.
LEMMA PageCovers ==
    ASSUME order \in Orders, offset \in Nat, NEW k \in Scan, Rank(k) >= offset
    PROVE  Page # {} /\ (k \in Page \/ Rank(k) >= offset + BatchSize)
<1>1. PICK j \in Scan : Rank(j) = offset
  BY RanksAreDense
<1>2. BatchSize \in Nat /\ BatchSize >= 1 /\ Rank(k) \in Nat
  BY PurgeAssumption, RankType
<1>3. Rank(j) \in offset .. offset + BatchSize - 1
  BY <1>1, <1>2
<1>4. Rank(k) \in offset .. offset + BatchSize - 1 \/ Rank(k) >= offset + BatchSize
  BY <1>2
<1> QED
  BY <1>1, <1>3, <1>4, SMTT(30) DEF Page

\* Errors are counted and never taken back.
LEMMA ErrorsStay ==
    ASSUME errors \in 0 .. MaxErrors, Trouble \/ UNCHANGED errors, errors' = 0
    PROVE  errors = 0 /\ ~Trouble
BY AccountAssumption DEF Trouble

\* No step of the handlers takes errors back.
LEMMA HandlersErrors == Next => Trouble \/ UNCHANGED errors
<1>1. ASSUME NEW j, NEW k, Goto(j, k)
      PROVE  UNCHANGED errors
  BY <1>1 DEF Goto
<1>2. ASSUME NEW j, NEW pc, To(j, pc)
      PROVE  UNCHANGED errors
  BY <1>2 DEF To, Goto
<1>3. ASSUME NEW j, Return(j)
      PROVE  Trouble \/ UNCHANGED errors
  BY <1>3 DEF Return
<1>4. ASSUME NEW j, TokenStatement(j) \/ UpsertAssetData(j) \/ SetMetadataCols(j)
      PROVE  Trouble \/ UNCHANGED errors
  BY <1>2, <1>3, <1>4, Zenon
     DEF TokenStatement, UpsertTokenAccount, FindMint, SetOwner, UpsertMint, SetSupply,
         UpsertAssetData, SetMetadataCols
<1>5. ASSUME NEW j, save_v1_asset(j)
      PROVE  Trouble \/ UNCHANGED errors
  BY <1>1, <1>2, <1>3, <1>5, Zenon
     DEF save_v1_asset, FetchMint, CopyMint, FetchOwner, CopyOwner, Save,
         upsert_asset_v1_account_attachments
<1>6. ASSUME NEW j, \/ burn_v1_asset(j) \/ save_master_edition(j)
                    \/ handle_token_inscription_program_update(j)
      PROVE  Trouble \/ UNCHANGED errors
  BY <1>3, <1>6, Zenon
     DEF burn_v1_asset, save_master_edition, handle_token_inscription_program_update
<1>7. ASSUME NEW j, handle_token_program_close_ix(j)
      PROVE  Trouble \/ UNCHANGED errors
  BY <1>1, <1>2, <1>3, <1>7, Zenon
     DEF handle_token_program_close_ix, FindClosed, FindClosedFails, DeleteMint, SetBurnt,
         DeleteAccount, Skip, Join
<1>8. ASSUME NEW j, handle(j)
      PROVE  Trouble \/ UNCHANGED errors
  BY <1>4, <1>5, <1>6, <1>7, <1>8, Zenon
     DEF handle, handle_token_program_account, handle_token_extensions_program_account,
         handle_token_metadata_account, Fail
<1>9. Transact => UNCHANGED errors
  BY Zenon DEF Transact, Emit
<1>10. ASSUME NEW i, Begin(i)
       PROVE  UNCHANGED errors
  BY <1>10 DEF Begin
<1> QED
  BY <1>8, <1>9, <1>10, Zenon DEF Next

\* A row that stays due is not written, and while no row that was there is deleted or
\* rewritten its rank does not fall.
LEMMA ObserveScan ==
    ASSUME ScanInv, Observe, UNCHANGED <<table, offset>>, errors' = 0 => errors = 0,
           Calm', NEW k \in Keys, Due(k)'
    PROVE  Calm /\ Due(k) /\ (offset # NULL => Rank(k)' >= Rank(k))
<1>1. k \in dead' /\ k \notin touched' /\ (k = Mint <=> table = "tokens") /\ Row(k)' # 0
  BY DEF Due
<1>2. k \in dead \ touched /\ ~Written(k)
  BY <1>1 DEF Observe
<1>3. Row(k)' = Row(k) /\ Row(k) # 0
  BY <1>1, <1>2, Zenon DEF Written
<1>4. Calm /\ Due(k)
  BY <1>1, <1>2, <1>3, Zenon DEF Calm, Due, Observe
<1>5. ASSUME offset # NULL
      PROVE  Rank(k)' >= Rank(k)
  <2>1. \A i \in Keys : Row(i) # 0 => Row(i)' = Row(i)
    BY <1>5, Zenon DEF Calm, Observe
  <2>2. PICK o \in Orders :
           /\ order' = o
           /\ \A j, h \in {i \in Keys : ~Written(i)} : o[j] < o[h] <=> order[j] < order[h]
    BY Zenon DEF Observe, Reorder
  <2>3. ASSUME NEW h \in Ahead(k)
        PROVE  h \in Ahead(k)'
    <3>1. h \in Keys /\ Row(h) # 0 /\ (h = Mint <=> table = "tokens") /\ order[h] < order[k]
      BY DEF Ahead, Scan
    <3>2. Row(h)' = Row(h) /\ ~Written(h)
      BY <2>1, <3>1, Zenon DEF Written
    <3>3. order'[h] < order'[k]
      BY <1>2, <2>2, <3>1, <3>2, Zenon
    <3> QED
      BY <3>1, <3>2, <3>3, SMTT(30) DEF Ahead, Scan
  <2>4. Ahead(k)' \in SUBSET Keys /\ Ahead(k) \in SUBSET Ahead(k)'
    BY <2>3 DEF Ahead, Scan
  <2>5. Cardinality(Ahead(k)) <= Cardinality(Ahead(k)')
    BY <2>4, KeySets, SMTT(30)
  <2>6. Cardinality(Ahead(k)) \in Nat /\ Cardinality(Ahead(k)') \in Nat
    BY <2>4, KeySets, SMTT(30)
  <2> QED
    BY <2>5, <2>6 DEF Rank
<1> QED
  BY <1>4, <1>5, SMTT(30)

\* A row with the same rank, or a higher one, is in sight as before.
LEMMA StaysInSight ==
    ASSUME ScanInv, UNCHANGED offset, NEW k \in Keys, Due(k), Calm,
           (order \in Orders)',
           offset # NULL => Rank(k)' >= Rank(k),
           \A p \in pages \cup marked : k \in p => p \in pages' \cup marked'
    PROVE  InSight(k)'
<1>1. InSight(k)
  BY DEF ScanInv
<1>2. CASE \E p \in pages \cup marked : k \in p
  BY <1>2 DEF InSight
<1>3. CASE offset # NULL /\ Rank(k) >= offset
  <2>1. Rank(k)' \in Nat /\ Rank(k) \in Nat /\ offset \in Nat
    <3>1. Ahead(k) \in SUBSET Keys /\ Ahead(k)' \in SUBSET Keys
      BY DEF Ahead, Scan
    <3> QED
      BY <1>3, <3>1, KeySets, ZenonT(30) DEF Rank, ScanInv
  <2> QED
    BY <1>3, <2>1 DEF InSight
<1> QED
  BY <1>1, <1>2, <1>3, SMTT(30) DEF InSight

\* The scan starts in front of all rows.
LEMMA StartScan ==
    ASSUME ScanInv, NEW t \in {"tokens", "token_accounts"}, start_purge(t)
    PROVE  ScanInv'
<1>1. offset' = 0 /\ dead' = Missing /\ order' = order /\ writes' = writes
  BY SMTT(30) DEF start_purge, vars
<1>2. Missing' = Missing
  BY <1>1, SMTT(30) DEF Missing, Last, Open
<1>3. \A k : InSight(k)'
  <2>1. \A k : Rank(k)' \in Nat
    BY <1>1, RankType, KeySets, SMTT(30) DEF ScanInv, Rank, Ahead, Scan
  <2> QED
    BY <1>1, <2>1, PurgeAssumption, SMTT(30) DEF InSight
<1> QED
  BY <1>1, <1>2, <1>3, SMTT(30) DEF ScanInv

\* What Paginate and MarkDeletion leave alone.
LEMMA SameRows ==
    ASSUME UNCHANGED <<tokens, token_accounts, table, order, dead, touched, shifted, writes>>
    PROVE  /\ \A k : Rank(k)' = Rank(k) /\ (Due(k)' <=> Due(k))
           /\ Missing' = Missing
<1>1. \A k : Row(k)' = Row(k)
  BY DEF Row
<1>2. Scan' = Scan
  BY <1>1 DEF Scan
<1>3. \A k : Ahead(k)' = Ahead(k)
  BY <1>2 DEF Ahead
<1>4. Missing' = Missing
  BY DEF Missing, Last, Open
<1> QED
  BY <1>1, <1>3, <1>4, SMTT(30) DEF Rank, Due

\* A page holds what lies between the old offset and the new one.
LEMMA PageScan ==
    ASSUME Inv, ScanInv, Paginate
    PROVE  ScanInv'
<1>0. errors \in 0 .. MaxErrors
  BY DEF Inv, RowsInv
<1>1. /\ table # NULL /\ offset \in Nat
      /\ UNCHANGED <<tokens, token_accounts, table, order, dead, touched, shifted, writes, marked>>
      /\ Trouble \/ UNCHANGED errors
  BY DEF Paginate, ScanInv, history, tables
<1>2. \/ Page # {} /\ offset' = offset + BatchSize /\ pages' = pages \cup {Page}
      \/ Page = {} /\ offset' = NULL /\ pages' = pages
      \/ Trouble /\ offset' = NULL
  BY Zenon DEF Paginate
<1>3. \A k : Rank(k)' = Rank(k) /\ (Due(k)' <=> Due(k))
  BY <1>1, SameRows, SMTT(30)
<1>4. Missing' = Missing
  BY <1>1, SameRows, SMTT(30)
<1>5. offset' = NULL \/ offset' \in Nat
  BY <1>1, <1>2, PurgeAssumption, SMTT(30)
<1>6. ASSUME Calm', NEW k \in Keys, Due(k)'
      PROVE  InSight(k)'
  <2>1. ~Trouble /\ Calm /\ Due(k)
    BY <1>0, <1>1, <1>3, <1>6, ErrorsStay, SMTT(30) DEF Calm
  <2>2. InSight(k)
    BY <2>1 DEF ScanInv
  <2>3. CASE \E p \in pages \cup marked : k \in p
    BY <1>1, <1>2, <2>1, <2>3, ZenonT(30) DEF InSight
  <2>4. CASE Rank(k) >= offset
    <3>1. k \in Scan
      BY <2>1 DEF Due, Scan
    <3>2. Page # {} /\ (k \in Page \/ Rank(k) >= offset + BatchSize)
      <4>1. order \in Orders /\ offset \in Nat
        BY <1>1, SMTT(30) DEF ScanInv
      <4> QED
        BY <2>4, <3>1, <4>1, PageCovers, ZenonT(30)
    <3>3. offset' = offset + BatchSize /\ pages' = pages \cup {Page} /\ offset' # NULL
      BY <1>1, <1>2, <2>1, <3>2, PurgeAssumption, SMTT(30)
    <3> QED
      BY <1>3, <3>2, <3>3, SMTT(30) DEF InSight
  <2> QED
    BY <2>2, <2>3, <2>4, SMTT(30) DEF InSight
<1> QED
  BY <1>1, <1>4, <1>5, <1>6, SMTT(30) DEF ScanInv

\* The RPC node does not know a dead account: its key goes from the page to the workers.
LEMMA MarkScan ==
    ASSUME Inv, ScanInv, MarkDeletion
    PROVE  ScanInv'
<1>0. errors \in 0 .. MaxErrors
  BY DEF Inv, RowsInv
<1>1. /\ UNCHANGED <<tokens, token_accounts, table, offset, order, dead, touched, shifted, writes>>
      /\ Trouble \/ UNCHANGED errors
  BY DEF MarkDeletion, history, tables
<1>2. PICK p \in pages : pages' = pages \ {p} /\ (Mark(p \cap Missing) \/ Trouble)
  BY Zenon DEF MarkDeletion
<1>3. \A k : Rank(k)' = Rank(k) /\ (Due(k)' <=> Due(k))
  BY <1>1, SameRows
<1>4. Missing' = Missing
  BY <1>1, SameRows
<1>5. ASSUME Calm', NEW k \in Keys, Due(k)'
      PROVE  InSight(k)'
  <2>1. ~Trouble /\ Calm /\ Due(k)
    BY <1>0, <1>1, <1>3, <1>5, ErrorsStay, SMTT(30) DEF Calm
  <2>2. InSight(k)
    BY <2>1 DEF ScanInv
  <2>3. k \in p => p \cap Missing \in marked' /\ k \in p \cap Missing
    BY <1>2, <2>1 DEF Mark, Due, ScanInv
  <2>4. marked \subseteq marked'
    BY <1>2, <2>1 DEF Mark
  <2>5. CASE offset # NULL /\ Rank(k) >= offset
    BY <1>1, <1>3, <2>5, SMTT(30) DEF InSight
  <2>6. CASE \E q \in pages \cup marked : k \in q
    BY <1>2, <2>3, <2>4, <2>6, SMTT(30) DEF InSight
  <2> QED
    BY <2>2, <2>5, <2>6, SMTT(30) DEF InSight
<1> QED
  BY <1>1, <1>4, <1>5, SMTT(30) DEF ScanInv

\* A worker deletes the rows of the keys it takes.
LEMMA DeleteScan ==
    ASSUME Inv, ScanInv, NEW m \in marked, Delete(m)
    PROVE  ScanInv'
<1>0. errors \in 0 .. MaxErrors
  BY DEF Inv, RowsInv
<1>1. /\ UNCHANGED <<table, offset, pages>> /\ Observe /\ marked' = marked \ {m}
      /\ \/ /\ token_accounts' = [t \in TokenAccounts |-> IF t \in m THEN 0 ELSE token_accounts[t]]
            /\ tokens' = IF Mint \in m THEN 0 ELSE tokens
         \/ Trouble
      /\ Trouble \/ UNCHANGED errors
  BY SMTT(30) DEF Delete
<1>2. order' \in Orders /\ dead' \subseteq Missing'
  BY <1>1, SMTT(30) DEF Observe, Reorder
<1>3. ASSUME Calm', NEW k \in Keys, Due(k)'
      PROVE  InSight(k)'
  <2>1. ~Trouble /\ errors = 0
    BY <1>0, <1>1, <1>3, ErrorsStay, SMTT(30) DEF Calm
  <2>2. Calm /\ Due(k) /\ (offset # NULL => Rank(k)' >= Rank(k))
    BY <1>1, <1>3, <2>1, ObserveScan, Zenon
  <2>3. k \notin m
    <3>1. Row(k)' # 0
      BY <1>3 DEF Due
    <3> QED
      BY <1>1, <2>1, <3>1, SMTT(30) DEF Row, Keys
  <2> QED
    BY <1>1, <1>2, <2>2, <2>3, StaysInSight, SMTT(30)
<1> QED
  BY <1>1, <1>2, <1>3, SMTT(30) DEF ScanInv

\* The handlers go on next to the scan.
LEMMA BesideScan ==
    ASSUME Inv, ScanInv, Next, Observe, UNCHANGED purge
    PROVE  ScanInv'
<1>0. errors \in 0 .. MaxErrors
  BY SMTT(30) DEF Inv, RowsInv
<1>1. UNCHANGED <<table, offset, pages, marked>> /\ order' \in Orders /\ dead' \subseteq Missing'
  BY DEF purge, Observe, Reorder
<1>2. ASSUME Calm', NEW k \in Keys, Due(k)'
      PROVE  InSight(k)'
  <2>1. errors = 0
    BY <1>0, <1>2, HandlersErrors, ErrorsStay, SMTT(30) DEF Calm
  <2>2. Calm /\ Due(k) /\ (offset # NULL => Rank(k)' >= Rank(k))
    BY <1>1, <1>2, <2>1, ObserveScan, SMTT(30)
  <2> QED
    BY <1>1, <2>2, StaysInSight, SMTT(30)
<1> QED
  BY <1>1, <1>2, SMTT(30) DEF ScanInv

\* Every step of handlers and purge keeps due rows in sight.
LEMMA ScanStep ==
    ASSUME Inv, ScanInv, [PurgerNext]_purgerVars
    PROVE  ScanInv'
<1>1. CASE Next /\ Observe /\ UNCHANGED <<purge, purged>>
  BY <1>1, BesideScan
<1>2. CASE \E t \in {"tokens", "token_accounts"} : start_purge(t)
  BY <1>2, StartScan
<1>3. CASE Paginate \/ MarkDeletion
  BY <1>3, PageScan, MarkScan
<1>4. CASE \E m \in marked : Delete(m)
  BY <1>4, DeleteScan, Zenon
<1>5. CASE /\ UNCHANGED <<tokens, token_accounts, table, offset, pages, marked, order, dead, touched,
                          shifted, writes>>
           /\ Trouble \/ UNCHANGED errors
  <2>1. \A k : Rank(k)' = Rank(k) /\ (Due(k)' <=> Due(k))
    BY <1>5, SameRows, SMTT(30)
  <2>2. Missing' = Missing
    BY <1>5, SameRows
  <2>3. \A k : InSight(k)' <=> InSight(k)
    BY <1>5, <2>1, SMTT(30) DEF InSight
  <2>4. Calm' => Calm
    <3>1. errors \in 0 .. MaxErrors
      BY DEF Inv, RowsInv
    <3> QED
      BY <1>5, <3>1, ErrorsStay, SMTT(30) DEF Calm
  <2> QED
    BY <1>5, <2>1, <2>2, <2>3, <2>4, SMTT(30) DEF ScanInv
<1>6. ASSUME TokenAccountPurge \/ MintPurge, ~\E m \in marked : Delete(m)
      PROVE  /\ UNCHANGED <<tokens, token_accounts, table, offset, pages, marked, order, dead, touched,
                            shifted, writes>>
             /\ Trouble \/ UNCHANGED errors
  BY <1>6, ZenonT(30) DEF TokenAccountPurge, MintPurge, history
<1>7. CASE UNCHANGED purgerVars
  BY <1>5, <1>7 DEF purgerVars, vars, tables, purge, history
<1> QED
  BY <1>1, <1>2, <1>3, <1>4, <1>5, <1>6, <1>7, Zenon DEF PurgerNext

\* A purge without errors, during which no row is deleted or rewritten before the last
\* page, leaves no row of an account that was missing all along: offsets pass over
\* nothing, and a key is never lost between Paginate, MarkDeletion and the workers.
THEOREM CompleteHolds == PurgerSpec => []PurgeIsComplete
<1>1. PurgerInit => ScanInv
  BY DEF PurgerInit, ScanInv, Calm
<1>2. Inv /\ PurgeInv /\ ScanInv /\ [PurgerNext]_purgerVars => ScanInv'
  BY ScanStep, SMTT(30)
<1>3. ScanInv => PurgeIsComplete
  <2> SUFFICES ASSUME ScanInv, table # NULL, offset = NULL, pages = {}, marked = {}, errors = 0, ~shifted,
                      NEW k \in dead \ touched, k = Mint <=> table = "tokens", Row(k) # 0
               PROVE  FALSE
    BY SMTT(30) DEF PurgeIsComplete
  <2>1. k \in Keys /\ Due(k) /\ Calm /\ ~InSight(k)
    BY DEF ScanInv, Missing, Due, Calm, InSight
  <2> QED
    BY <2>1 DEF ScanInv
<1> QED
  BY <1>1, <1>2, <1>3, PurgerHolds, PTL DEF PurgerSpec
===============================================================================
