---------------------------- MODULE TreeBackfill ----------------------------
(***************************************************************************)
(* ops/src/bubblegum/backfiller.rs and tree.rs: one tree is compared with  *)
(* the rows of cl_audits_v2, each stretch of missing changes is crawled    *)
(* page by page over RPC, and every successful transaction found is pushed *)
(* to the backfill stream over a pool of messengers                        *)
(* (core/src/plerkle_messenger_queue.rs).  Transactions are numbered in    *)
(* the order of the chain; 0 stands for None.                              *)
(***************************************************************************)
EXTENDS Naturals, Sequences, FiniteSets, SequencesExt, FiniteSetsExt

CONSTANTS
    Limit,          \* GET_SIGNATURES_FOR_ADDRESS_LIMIT
    GapChannel, SignatureChannel,
    GapWorkers, TransactionWorkers,
    Connections,    \* messengers of the pool
    MaxErrors       \* bound on failed calls

VARIABLES
    chain,      \* changes of each transaction of the tree; 0: it failed
    audits,     \* sequence numbers with a row in cl_audits_v2
    pc, gaps,   \* the gap worker and the gaps it has still to send
    gap_queue, crawls, signature_queue,
    fetches,    \* transaction workers: [tx, pc]
    pool,       \* messengers left in the pool
    holder,     \* the transaction whose push holds the receiver's lock
    queued,     \* how often each transaction was pushed
    errors, raced

tree_vars == <<chain, audits, pc, gaps, gap_queue, crawls, signature_queue,
               fetches, pool, holder, queued, errors, raced>>

Transactions == DOMAIN chain
Before(tx) == MapThenSumSet(LAMBDA t : chain[t], 1 .. tx - 1)
Seqs(tx) == Before(tx) + 1 .. Before(tx) + chain[tx]
TxOf(seq) == CHOOSE tx \in Transactions : seq \in Seqs(tx)
Total == Before(Len(chain) + 1)

Gap(before, until) == [before |-> before, until |-> until]

-----------------------------------------------------------------------------
(* The gap worker.                                                         *)

worker_keeps == <<chain, audits, crawls, signature_queue, fetches,
                  pool, holder, queued, raced>>

\* A failed call: run() or the gap worker ends; nobody looks at its error.
GapWorkerFails ==
    /\ pc \in {"trees", "gaps", "upper", "lower"} /\ errors < MaxErrors
    /\ pc' = "ended" /\ gaps' = << >> /\ errors' = errors + 1
    /\ UNCHANGED <<worker_keeps, gap_queue>>

\* TreeResponse::all or find: the tree's account is read for its seq.
FetchTrees == pc = "trees" /\ pc' = "gaps" /\ UNCHANGED <<worker_keeps, gaps, gap_queue, errors>>

\* TREE_GAP_SQL: neighbours in the order of seq that are more than one apart.
TreeGaps ==
    LET next(s) == Min({n \in audits : n > s})
        starts == {s \in audits : s # Max(audits) /\ next(s) - s > 1}
        ordered == SetToSortSeq(starts, <)
    IN  [n \in DOMAIN ordered |-> Gap(TxOf(next(ordered[n])), TxOf(ordered[n]))]

FindGaps ==
    /\ pc = "gaps"
    /\ gaps' = TreeGaps /\ pc' = "upper"
    /\ UNCHANGED <<worker_keeps, gap_queue, errors>>

\* Everything newer than the highest known change, or the whole tree.
FindUpper ==
    /\ pc = "upper"
    /\ gaps' = gaps \o (IF audits # {} THEN <<Gap(0, TxOf(Max(audits)))>>
                        ELSE IF Total > 0 THEN <<Gap(0, 0)>> ELSE << >>)
    /\ pc' = "lower"
    /\ UNCHANGED <<worker_keeps, gap_queue, errors>>

\* Everything older than the lowest known change, unless that is the first.
FindLower ==
    /\ pc = "lower"
    /\ gaps' = gaps \o (IF audits # {} /\ Min(audits) > 1
                        THEN <<Gap(TxOf(Min(audits)), 0)>> ELSE << >>)
    /\ pc' = "send"
    /\ UNCHANGED <<worker_keeps, gap_queue, errors>>

SendGap ==
    /\ pc = "send"
    /\ IF gaps = << >>
       THEN pc' = "ended" /\ UNCHANGED <<gaps, gap_queue>>
       ELSE /\ Len(gap_queue) < GapChannel
            /\ gap_queue' = Append(gap_queue, Head(gaps))
            /\ gaps' = Tail(gaps) /\ UNCHANGED pc
    /\ UNCHANGED <<worker_keeps, errors>>

\* The stream's ingesters keep writing rows of the same tree.
Ingest(seq) ==
    /\ seq \notin audits
    /\ audits' = audits \cup {seq}
    /\ raced' = (raced \/ (pc \in {"upper", "lower"}
                           /\ ((\A a \in audits : a < seq) \/ \A a \in audits : a > seq)))
    /\ UNCHANGED <<chain, pc, gaps, gap_queue, crawls, signature_queue, fetches,
                   pool, holder, queued, errors>>

-----------------------------------------------------------------------------
(* The crawl workers.                                                      *)

crawling_keeps == <<chain, audits, pc, gaps, pool, holder, queued, raced>>

\* The manager takes a gap once one of its workers is free.
StartCrawl ==
    /\ gap_queue # << >> /\ Cardinality(crawls) < GapWorkers
    /\ crawls' = crawls \cup {[before |-> Head(gap_queue).before,
                               until |-> Head(gap_queue).until,
                               page |-> << >>, count |-> Limit]}
    /\ gap_queue' = Tail(gap_queue)
    /\ UNCHANGED <<crawling_keeps, signature_queue, fetches, errors>>

\* At most Limit signatures older than before and newer than until, newest first.
get_signatures_for_address(before, until) ==
    LET inside == {tx \in Transactions : tx > until /\ (before = 0 \/ tx < before)}
        newest == SetToSortSeq(inside, >)
    IN  SubSeq(newest, 1, Min({Limit, Len(newest)}))

\* Mutant: only the successful signatures of a page are counted.
FetchPage_successful(c) ==
    LET sigs == get_signatures_for_address(c.before, c.until)
        successful == SelectSeq(sigs, LAMBDA tx : chain[tx] > 0)
    IN  /\ c.page = << >> /\ c.count = Limit
        /\ crawls' = (crawls \ {c})
                     \cup {[c EXCEPT !.page = successful, !.count = Len(successful)]}
        /\ UNCHANGED <<crawling_keeps, gap_queue, signature_queue, fetches, errors>>

\* The head of crawl's loop; failed transactions are dropped from the page.
FetchPage(c) ==
    LET sigs == get_signatures_for_address(c.before, c.until)
        successful == SelectSeq(sigs, LAMBDA tx : chain[tx] > 0)
    IN  /\ c.page = << >> /\ c.count = Limit
        /\ crawls' = (crawls \ {c})
                     \cup {[c EXCEPT !.page = successful, !.count = Len(sigs)]}
        /\ UNCHANGED <<crawling_keeps, gap_queue, signature_queue, fetches, errors>>

\* before moves with every signature sent, and only with those.
SendSignature(c) ==
    /\ c.page # << >> /\ Len(signature_queue) < SignatureChannel
    /\ signature_queue' = Append(signature_queue, Head(c.page))
    /\ crawls' = (crawls \ {c})
                 \cup {[c EXCEPT !.page = Tail(@), !.before = Head(c.page)]}
    /\ UNCHANGED <<crawling_keeps, gap_queue, fetches, errors>>

\* A short page was the last one.
EndCrawl(c) ==
    /\ c.page = << >> /\ c.count < Limit
    /\ crawls' = crawls \ {c}
    /\ UNCHANGED <<crawling_keeps, gap_queue, signature_queue, fetches, errors>>

\* spawn_crawl_worker logs the error; the rest of the gap is given up.
CrawlFails(c) ==
    /\ c.page = << >> /\ c.count = Limit /\ errors < MaxErrors
    /\ crawls' = crawls \ {c} /\ errors' = errors + 1
    /\ UNCHANGED <<crawling_keeps, gap_queue, signature_queue, fetches>>

-----------------------------------------------------------------------------
(* The transaction workers and the pool of messengers.                     *)

queueing_keeps == <<chain, audits, pc, gaps, gap_queue, crawls, raced>>

StartTransaction ==
    /\ signature_queue # << >> /\ Cardinality(fetches) < TransactionWorkers
    /\ fetches' = fetches \cup {[tx |-> Head(signature_queue), pc |-> "fetch"]}
    /\ signature_queue' = Tail(signature_queue)
    /\ UNCHANGED <<queueing_keeps, pool, holder, queued, errors>>

GetTransaction(f) ==
    /\ f.pc = "fetch"
    /\ fetches' = (fetches \ {f}) \cup {[f EXCEPT !.pc = "push"]}
    /\ UNCHANGED <<queueing_keeps, signature_queue, pool, holder, queued, errors>>

GetTransactionFails(f) ==
    /\ f.pc = "fetch" /\ errors < MaxErrors
    /\ fetches' = fetches \ {f} /\ errors' = errors + 1
    /\ UNCHANGED <<queueing_keeps, signature_queue, pool, holder, queued>>

\* push: the receiver's lock is held while a messenger is waited for and used.
Lock(f) ==
    /\ f.pc = "push" /\ holder = 0
    /\ holder' = f.tx
    /\ UNCHANGED <<queueing_keeps, signature_queue, fetches, pool, queued, errors>>

\* Mutant: the messenger is never given back.
Push_kept(f) ==
    /\ f.pc = "push" /\ holder = f.tx /\ pool > 0
    /\ queued' = [queued EXCEPT ![f.tx] = @ + 1]
    /\ pool' = pool - 1
    /\ holder' = 0 /\ fetches' = fetches \ {f}
    /\ UNCHANGED <<queueing_keeps, signature_queue, errors>>

\* The messenger taken sends and goes back.
Push(f) ==
    /\ f.pc = "push" /\ holder = f.tx /\ pool > 0
    /\ queued' = [queued EXCEPT ![f.tx] = @ + 1]
    /\ holder' = 0 /\ fetches' = fetches \ {f}
    /\ UNCHANGED <<queueing_keeps, signature_queue, pool, errors>>

\* send(...).await? returns without giving the messenger back.
PushFails(f) ==
    /\ f.pc = "push" /\ holder = f.tx /\ pool > 0 /\ errors < MaxErrors
    /\ pool' = pool - 1 /\ errors' = errors + 1
    /\ holder' = 0 /\ fetches' = fetches \ {f}
    /\ UNCHANGED <<queueing_keeps, signature_queue, queued>>

-----------------------------------------------------------------------------

TreeInit(starts) ==
    /\ \E start \in starts : chain = start[1] /\ audits = start[2]
    /\ pc = "trees" /\ gaps = << >> /\ gap_queue = << >> /\ crawls = {}
    /\ signature_queue = << >> /\ fetches = {} /\ pool = Connections
    /\ holder = 0 /\ queued = [tx \in Transactions |-> 0] /\ errors = 0 /\ raced = FALSE

TreeStep ==
    \/ FetchTrees \/ FindGaps \/ FindUpper \/ FindLower \/ SendGap
    \/ StartCrawl
    \/ \E c \in crawls : FetchPage(c) \/ SendSignature(c) \/ EndCrawl(c)
    \/ StartTransaction
    \/ \E f \in fetches : GetTransaction(f) \/ Lock(f) \/ Push(f)

TreeFails ==
    \/ GapWorkerFails
    \/ \E c \in crawls : CrawlFails(c)
    \/ \E f \in fetches : GetTransactionFails(f) \/ PushFails(f)

TreeNext == TreeStep \/ TreeFails \/ \E seq \in 1 .. Total : Ingest(seq)

\* run returns: every worker has ended and every channel is drained.
Done ==
    /\ pc = "ended" /\ gap_queue = << >> /\ crawls = {}
    /\ signature_queue = << >> /\ fetches = {}

-----------------------------------------------------------------------------

\* A run in which no call failed and no row appeared at either end of the
\* known range between the gap worker's three queries pushes every
\* successful transaction of which no change is known, and pushes none
\* twice: the pages of a crawl and the gaps of a tree neither miss nor
\* repeat one (TreeGapFill::crawl, spawn_gap_worker).
GapsAreQueued ==
    (Done /\ errors = 0 /\ ~raced) =>
        \A tx \in Transactions :
            /\ chain[tx] > 0 => queued[tx] > 0 \/ Seqs(tx) \cap audits # {}
            /\ queued[tx] <= 1

\* A full page of failed transactions does not move crawl's before.
Crawlable ==
    \A tx \in Transactions :
        tx + Limit - 1 \in Transactions => \E t \in tx .. tx + Limit - 1 : chain[t] > 0

\* run ends as long as no page is full of failed transactions and fewer
\* calls failed than the pool has messengers, however small the channels
\* and few the workers (run, QueuePool::push).
RunEnds == Crawlable => <>(Done \/ errors >= Connections)
=============================================================================
