------------------------------- MODULE Stream -------------------------------
(***************************************************************************)
(* nft_ingester: the workers of main.rs that take messages from a stream   *)
(* (transaction_notifications.rs, account_updates.rs), handle each in a    *)
(* task of its own (ProgramTransformer, program_transformers/src/lib.rs),  *)
(* and acknowledge it through the ack worker (ack.rs).  Worker 0 takes the *)
(* messages that were delivered and not acknowledged, the others new ones. *)
(*                                                                         *)
(* A message is a transaction [type, calls], an account update             *)
(* [type, program, args], or one that does not decode [type].              *)
(***************************************************************************)
EXTENDS Naturals, Sequences, SequencesExt, FiniteSets, Parser

CONSTANTS
    Messages,        \* the messages there are
    Length,          \* bound on the messages of a stream
    WorkerCount,     \* worker_count of the stream
    MaxTroubles      \* bound on failures and restarts

Instructions == [program : STRING, name : STRING, id : Nat, of : Nat, args : BOOLEAN,
                 keys : Nat, lost : BOOLEAN]

BubblegumIds(call) ==
    {ix.id : ix \in {x \in {call.outer} \cup ToSet(call.inner) : x.program = "bubblegum"}}

\* The execution of a call: a Bubblegum instruction calls no other one, an
\* event of Bubblegum is of the last instruction of it that was called, and
\* those that remove a leaf log none.
Logged(call) ==
    \A n \in DOMAIN call.inner :
        LET ix == call.inner[n]
            called == {k \in 1 .. n - 1 : call.inner[k].program = "bubblegum"}
            logger == IF called = {} THEN call.outer ELSE call.inner[Max(called)]
        IN  /\ ix.program = "bubblegum" => call.outer.program # "bubblegum"
            /\ (ix.program \in Noops /\ ix.of \in BubblegumIds(call)) =>
                 /\ ix.of = logger.id
                 /\ ix.name = "leaf_schema" => logger.name \notin Leaves

\* Transactions are executions of calls, and order_instructions makes a
\* sequence of their instructions.
ASSUME MessagesAssumption ==
    \A x \in DOMAIN Messages : Messages[x].type = "transaction" =>
        LET calls == Messages[x].calls
        IN  /\ calls \in Seq([outer : Instructions, inner : Seq(Instructions)])
            /\ \A call \in ToSet(calls) : Logged(call)
            /\ order_instructions(calls) \in Seq(Works(calls))

VARIABLES
    stream,     \* the stream: which message is at each position
    fresh,      \* positions not delivered yet
    pending,    \* positions delivered and not acknowledged
    tasks,      \* [m, worker, step, not_impl]: message m is being handled
    acks,       \* positions on their way to or held by the ack worker
    acked,      \* positions acknowledged
    applied,    \* [m, id, tree_update, leaf_update]: changes written
    troubles

stream_vars == <<stream, fresh, pending, tasks, acks, acked, applied, troubles>>

Workers == 0 .. WorkerCount - 1
InFlight == {t.m : t \in tasks}
Idle(w) == \A t \in tasks : t.worker # w

-----------------------------------------------------------------------------
(* What a message asks for.                                                *)

\* handle_account_update: an owner with no parser is no error.
AccountOutcome(update) ==
    IF update.program \notin key_set THEN "ignore"
    ELSE IF update.program = "bubblegum" THEN "not_implemented"
    ELSE IF update.args THEN "apply" ELSE "parsing_error"

\* Each piece of a message's work: what becomes of it, and what it writes.
Piece(work) ==
    LET parsed == handle_instruction(work)
    IN  [id |-> work.ix.id, name |-> work.ix.name, outcome |-> Outcome(work),
         tree_update |-> parsed.tree_update, leaf_update |-> parsed.leaf_update]

\* An account update is one piece.
Pieces ==
    LET transaction(calls) ==
            LET ordered == order_instructions(calls)
            IN  [n \in DOMAIN ordered |-> Piece(ordered[n])]
        account(update) ==
            <<[id |-> 0, name |-> "update", outcome |-> AccountOutcome(update),
               tree_update |-> 0, leaf_update |-> 0]>>
    IN  [x \in DOMAIN Messages |->
            CASE Messages[x].type = "transaction" -> transaction(Messages[x].calls)
              [] Messages[x].type = "account" -> account(Messages[x])
              [] OTHER -> << >>]

Message(m) == Messages[stream[m]]
work_of(m) == Pieces[stream[m]]

\* Errors that are not worth a retry.
Final == {"deserialization_error", "parsing_error"}

\* capture_result: is the message to be acknowledged?
capture_result(result) == result \in {"ok", "not_implemented"} \cup Final

-----------------------------------------------------------------------------
(* The workers.                                                            *)

Deliver(w, batch) ==
    /\ Idle(w) /\ batch # {}
    /\ tasks' = tasks \cup {[m |-> m, worker |-> w, step |-> 1, not_impl |-> 0] : m \in batch}
    /\ UNCHANGED <<stream, acks, acked, applied, troubles>>

\* Mutant: every worker takes new messages.
Redelivers_none(w) == FALSE

\* ConsumptionType of main.rs.
Redelivers(w) == w = 0

\* recv of ConsumptionType::New.
RecvNew(w) ==
    /\ ~Redelivers(w)
    /\ \E batch \in SUBSET fresh :
          /\ Deliver(w, batch)
          /\ fresh' = fresh \ batch /\ pending' = pending \cup batch

\* recv of ConsumptionType::Redeliver: what nobody handles, and perhaps
\* messages whose handler is only slow.
Redeliver(w) ==
    /\ Redelivers(w)
    /\ \E slow \in SUBSET (InFlight \cap pending) :
          Deliver(w, (pending \ InFlight) \cup slow)
    /\ UNCHANGED <<fresh, pending>>

Finish(t, result) ==
    /\ tasks' = tasks \ {t}
    /\ acks' = IF capture_result(result) THEN acks \cup {t.m} ELSE acks
    /\ UNCHANGED <<stream, fresh, pending, acked>>

Advance(t, not_impl) ==
    /\ tasks' = (tasks \ {t}) \cup {[t EXCEPT !.step = @ + 1, !.not_impl = @ + not_impl]}
    /\ UNCHANGED <<stream, fresh, pending, acks, acked>>

Change(m, piece) == [m |-> m, id |-> piece.id, tree_update |-> piece.tree_update,
                     leaf_update |-> piece.leaf_update]

\* One round of handle_transaction's loop.
HandleStep(t) ==
    /\ Message(t.m).type # "garbled" /\ t.step <= Len(work_of(t.m))
    /\ LET piece == work_of(t.m)[t.step]
       IN  \/ /\ piece.outcome \in Final
              /\ Finish(t, piece.outcome) /\ UNCHANGED applied
           \/ /\ piece.outcome = "not_implemented"
              /\ Advance(t, 1) /\ UNCHANGED applied
           \/ /\ piece.outcome \in {"ignore", "close"}
              /\ Advance(t, 0) /\ UNCHANGED applied
           \/ /\ piece.outcome = "apply"
              /\ Advance(t, 0) /\ applied' = applied \cup {Change(t.m, piece)}
    /\ UNCHANGED troubles

\* A write fails: the task ends with an error that is worth a retry.
HandleFails(t) ==
    /\ Message(t.m).type # "garbled" /\ t.step <= Len(work_of(t.m))
    /\ work_of(t.m)[t.step].outcome = "apply" /\ troubles < MaxTroubles
    /\ Finish(t, "storage_write_error")
    /\ troubles' = troubles + 1 /\ UNCHANGED applied

\* handle_transaction returns; one that found nothing to do is NotImplemented.
HandleReturns(t) ==
    /\ Message(t.m).type # "garbled" /\ t.step > Len(work_of(t.m))
    /\ Finish(t, IF t.not_impl = Len(work_of(t.m)) THEN "not_implemented" ELSE "ok")
    /\ UNCHANGED <<applied, troubles>>

\* A message that does not decode is neither handled nor acknowledged.
HandleGarbled(t) ==
    /\ Message(t.m).type = "garbled"
    /\ tasks' = tasks \ {t}
    /\ UNCHANGED <<stream, fresh, pending, acks, acked, applied, troubles>>

Handle(t) == HandleStep(t) \/ HandleReturns(t) \/ HandleGarbled(t)

\* The ack worker's tick.
AckTick ==
    /\ acks # {}
    /\ acked' = acked \cup acks /\ pending' = pending \ acks /\ acks' = {}
    /\ UNCHANGED <<stream, fresh, tasks, applied, troubles>>

\* ack_msg fails; the batch is cleared all the same.
AckFails ==
    /\ acks # {} /\ troubles < MaxTroubles
    /\ acks' = {} /\ troubles' = troubles + 1
    /\ UNCHANGED <<stream, fresh, pending, tasks, acked, applied>>

\* The ingester stops and starts again.
Restart ==
    /\ tasks # {} \/ acks # {}
    /\ troubles < MaxTroubles
    /\ tasks' = {} /\ acks' = {} /\ troubles' = troubles + 1
    /\ UNCHANGED <<stream, fresh, pending, acked, applied>>

StreamInit(streams) ==
    /\ stream \in streams
    /\ fresh = DOMAIN stream /\ pending = {} /\ tasks = {} /\ acks = {} /\ acked = {}
    /\ applied = {} /\ troubles = 0

StreamStep ==
    \/ \E w \in Workers : RecvNew(w) \/ Redeliver(w)
    \/ \E t \in tasks : Handle(t)
    \/ AckTick

StreamTrouble == AckFails \/ Restart \/ \E t \in tasks : HandleFails(t)

StreamNext == StreamStep \/ StreamTrouble

\* Every task is polled, every worker calls recv again, the interval ticks.
StreamFairness ==
    /\ WF_stream_vars(AckTick)
    /\ \A w \in Workers :
          /\ WF_stream_vars(RecvNew(w)) /\ WF_stream_vars(Redeliver(w))
          /\ \A m \in 1 .. Length :
                WF_stream_vars(\E t \in tasks : t.m = m /\ t.worker = w /\ Handle(t))

-----------------------------------------------------------------------------

\* No other program logs changes of a tree after Bubblegum, in the same call.
OwnEvents(call) ==
    \A n \in DOMAIN call.inner :
        (call.inner[n].program \in Noops /\ call.inner[n].of \notin BubblegumIds(call)) =>
            /\ call.outer.program # "bubblegum"
            /\ \A k \in 1 .. n - 1 : call.inner[k].program # "bubblegum"

\* Every change of an acknowledged transaction was written with the events
\* its own execution logged, unless an instruction ordered before it could
\* not be parsed: redelivery, concurrent handling, failed writes, lost
\* acknowledgements and restarts lose none (handle_transaction,
\* capture_result, order_instructions).
AckedIsApplied ==
    \A m \in acked :
        (Message(m).type = "transaction" /\ \A c \in ToSet(Message(m).calls) : OwnEvents(c)) =>
            \A n \in DOMAIN work_of(m) : work_of(m)[n].outcome = "apply" =>
                \/ \E c \in applied :
                      /\ c.m = m /\ c.id = work_of(m)[n].id /\ c.tree_update = c.id
                      /\ c.leaf_update = IF work_of(m)[n].name \in Leaves THEN 0 ELSE c.id
                \/ \E k \in 1 .. n - 1 : work_of(m)[k].outcome \in Final

\* With at least two workers, every message that decodes is acknowledged:
\* worker 0 takes up what a failed write, a lost acknowledgement or a
\* restart left behind (main.rs, ack_worker).
StreamDrains ==
    WorkerCount > 1 =>
        <>(\A m \in DOMAIN stream : Message(m).type # "garbled" => m \in acked)
=============================================================================
