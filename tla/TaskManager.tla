----------------------------- MODULE TaskManager -----------------------------
(***************************************************************************)
(* The background tasks of nft_ingester/src/tasks that download the        *)
(* off-chain metadata of an asset, for one asset.                          *)
(*                                                                         *)
(* A handler that stores a metadata URL sends a task to the listener once  *)
(* its transaction is committed.  The listener drops a task that the table *)
(* `tasks` has already, under the hash of asset and URL, and inserts the   *)
(* others.  The runner polls the table; each task it finds is locked,      *)
(* executed and saved by a spawned executor.  Neither the poll nor the     *)
(* lock is conditional: two executors may work on one task.  The operator  *)
(* may delete all tasks and create them again with bgtask_creator.         *)
(*                                                                         *)
(* A handler stores a URL as it is and sends the task with the blanks cut  *)
(* off (token metadata and core handlers cut them off for both).           *)
(***************************************************************************)
EXTENDS Naturals, Sequences, FiniteSets

CONSTANTS
    Uris, InvalidUris,  \* URLs as stored, those that do not parse
    Padded, Bare,       \* URLs with blanks around them, the URL without
    Executors,
    MaxAttempts,        \* max_attempts of DownloadMetadataTask
    ProcessNow,         \* process_on_receive
    MaxChanges,         \* bound on the changes of the asset
    MaxErrors,          \* bound on failed requests, statements, acknowledgements
    Losses,             \* may one task be lost: purged, deleted, not inserted, or in a crash?
    NULL

\* A row of the table.
Task == [status : {"pending", "running", "failed", "success"},
         attempts : Nat]

ASSUME TaskAssumption ==
    /\ InvalidUris \subseteq Uris /\ NULL \notin Uris \cup Task
    /\ Padded \subseteq Uris /\ Bare \in Uris \ Padded
    /\ {MaxAttempts, MaxChanges, MaxErrors} \subseteq Nat
    /\ {ProcessNow, Losses} \subseteq BOOLEAN

VARIABLES
    chain,      \* the URLs of the asset on chain, in order
    stream,     \* changes whose message is not acknowledged
    handling,   \* changes that are stored, their task not yet sent
    at,         \* row of asset_data: the change it is at (0: there is no row),
    metadata,   \*   the URL whose content is stored, NULL while processing,
    reindex,    \*   and whether it is to be downloaded
    channel,    \* tasks sent to the listener
    creating,   \* spawned new_task_handlers: task, and whether it starts locked
    tasks,      \* per URL, the row of its task or NULL
    execs,      \* per executor, where it is
    errors,
    lost        \* has a task been lost?

data == <<at, metadata, reindex>>
vars == <<chain, stream, handling, data, channel, creating, tasks, execs, errors, lost>>

Free == [pc |-> "free", uri |-> NULL, attempts |-> 0, result |-> NULL]

\* Mutant: nothing is left of a URL with blanks.
sanitize_nothing(u) == IF u \in Padded THEN NULL ELSE u

\* trim() in DownloadMetadataInfo::new and DownloadMetadata::sanitize.
sanitize(u) == IF u \in Padded THEN Bare ELSE u

Trouble == errors < MaxErrors /\ errors' = errors + 1

Lose == Losses /\ ~lost /\ lost' = TRUE

metadata_url == IF at = 0 THEN NULL ELSE chain[at]

-----------------------------------------------------------------------------
(* The chain and the handlers of its messages.                             *)

Change ==
    /\ Len(chain) < MaxChanges
    /\ \E u \in Uris : chain' = Append(chain, u)
    /\ stream' = stream \cup {Len(chain) + 1}
    /\ UNCHANGED <<handling, data, channel, creating, tasks, execs, errors, lost>>

\* upsert_asset_data: the content of an earlier URL stays until the download.
upsert_asset_data(i) ==
    IF i >= at THEN at' = i /\ reindex' = TRUE /\ UNCHANGED metadata ELSE UNCHANGED data

Handle(i) ==
    /\ i \in stream \ handling
    /\ upsert_asset_data(i)
    /\ handling' = handling \cup {i}
    /\ UNCHANGED <<chain, stream, channel, creating, tasks, execs, errors, lost>>

\* The handler sends the task whether its row was newer or not, and returns.
download_metadata_notifier(i) ==
    /\ i \in handling
    /\ channel' = Append(channel, sanitize(chain[i]))
    /\ handling' = handling \ {i}
    /\ \/ stream' = stream \ {i} /\ UNCHANGED errors
       \/ Trouble /\ UNCHANGED stream
    /\ UNCHANGED <<chain, data, creating, tasks, execs, lost>>

-----------------------------------------------------------------------------
(* start_listener and new_task_handler.                                    *)

\* Mutant: the hash of a task leaves the URL out.
Identical_by_asset(u) == \E v \in Uris : tasks[v] # NULL /\ tasks[v].status # "pending"

Identical(u) == tasks[u] # NULL /\ tasks[u].status # "pending"

\* A failed query counts as a new task.
start_listener ==
    /\ channel # << >>
    /\ channel' = Tail(channel)
    /\ \/ Identical(Head(channel)) /\ UNCHANGED <<creating, errors>>
       \/ /\ IF Identical(Head(channel)) THEN Trouble ELSE UNCHANGED errors
          /\ creating' = creating \cup {<<Head(channel), ProcessNow>>}
    /\ UNCHANGED <<chain, stream, handling, data, tasks, execs, lost>>

NewTask(now) == [status |-> IF now THEN "running" ELSE "pending", attempts |-> 0]

\* An insert of an existing task fails; the error of the handler is not looked at.
new_task_handler(u, now) ==
    /\ <<u, now>> \in creating
    /\ creating' = creating \ {<<u, now>>}
    /\ \/ /\ tasks' = [tasks EXCEPT ![u] = IF @ = NULL THEN NewTask(now) ELSE @]
          /\ UNCHANGED <<errors, lost>>
       \/ Lose /\ Trouble /\ UNCHANGED tasks
    /\ UNCHANGED <<chain, stream, handling, data, channel, execs>>

-----------------------------------------------------------------------------
(* start_runner and the executors.                                         *)

\* Mutant: a task that failed as often as it may is not found.
get_pending_tasks_fewer(u) ==
    /\ tasks[u] # NULL
    /\ tasks[u].status # "success" /\ tasks[u].attempts < MaxAttempts

\* locked_until excludes no task for good: the lock may have expired at any poll.
get_pending_tasks(u) ==
    /\ tasks[u] # NULL
    /\ tasks[u].status # "success" /\ tasks[u].attempts <= MaxAttempts

Spawn(e, u) ==
    /\ execs[e] = Free
    /\ get_pending_tasks(u)
    /\ execs' = [execs EXCEPT ![e] = [Free EXCEPT !.pc = "lock", !.uri = u]]
    /\ UNCHANGED <<chain, stream, handling, data, channel, creating, tasks, errors, lost>>

\* The UPDATE returns the row; execute_task counts its attempt.
lock_task(e) ==
    LET u == execs[e].uri
    IN  /\ execs[e].pc = "lock"
        /\ \/ /\ tasks[u] # NULL /\ UNCHANGED errors
              /\ tasks' = [tasks EXCEPT ![u].status = "running"]
              /\ execs' = [execs EXCEPT ![e].pc = "request",
                                        ![e].attempts = tasks[u].attempts + 1]
           \/ /\ (tasks[u] = NULL /\ UNCHANGED errors) \/ Trouble
              /\ execs' = [execs EXCEPT ![e] = Free]
              /\ UNCHANGED tasks
        /\ UNCHANGED <<chain, stream, handling, data, channel, creating, lost>>

Continue(e, pc) == execs' = [execs EXCEPT ![e].pc = pc]

\* The task ends with a result and is to be saved.
Finish(e, result) == execs' = [execs EXCEPT ![e].pc = "save", ![e].result = result]

\* The request, which only a URL that parses needs, and the SELECT of the row's URL.
\* The row exists: the task was sent after its commit.
request_metadata(e) ==
    /\ execs[e].pc = "request"
    /\ \/ metadata_url = execs[e].uri /\ Continue(e, "update") /\ UNCHANGED errors
       \/ metadata_url # execs[e].uri /\ Finish(e, "success") /\ UNCHANGED errors
       \/ Trouble /\ Finish(e, "failed")
    /\ UNCHANGED <<chain, stream, handling, data, channel, creating, tasks, lost>>

\* Mutant: the UPDATE by id alone.
UpdateMetadata_by_id(e) ==
    /\ execs[e].pc = "update"
    /\ metadata' = execs[e].uri /\ reindex' = FALSE
    /\ Finish(e, IF execs[e].uri \in InvalidUris THEN "unrecoverable" ELSE "success")
    /\ UNCHANGED <<chain, stream, handling, at, channel, creating, tasks, errors, lost>>

\* UPDATE ... WHERE id AND metadata_url; no row is an error.
UpdateMetadata(e) ==
    /\ execs[e].pc = "update"
    /\ \/ /\ metadata_url = execs[e].uri
          /\ metadata' = execs[e].uri /\ reindex' = FALSE
          /\ Finish(e, IF execs[e].uri \in InvalidUris THEN "unrecoverable" ELSE "success")
          /\ UNCHANGED errors
       \/ /\ (metadata_url # execs[e].uri /\ UNCHANGED errors) \/ Trouble
          /\ Finish(e, "failed")
          /\ UNCHANGED <<metadata, reindex>>
    /\ UNCHANGED <<chain, stream, handling, at, channel, creating, tasks, lost>>

\* Mutant: any result ends the task.
Outcome_done(e) == [status |-> "success", attempts |-> execs[e].attempts]

\* What execute_task sets for a result.
Outcome(e) ==
    [status   |-> IF execs[e].result = "success" THEN "success" ELSE "failed",
     attempts |-> IF execs[e].result = "unrecoverable" THEN MaxAttempts + 1
                  ELSE execs[e].attempts]

save_task(e) ==
    LET u == execs[e].uri
    IN  /\ execs[e].pc = "save"
        /\ \/ tasks' = [tasks EXCEPT ![u] = IF @ = NULL THEN NULL ELSE Outcome(e)]
              /\ UNCHANGED errors
           \/ Trouble /\ UNCHANGED tasks
        /\ execs' = [execs EXCEPT ![e] = Free]
        /\ UNCHANGED <<chain, stream, handling, data, channel, creating, lost>>

execute_task(e) ==
    lock_task(e) \/ request_metadata(e) \/ UpdateMetadata(e) \/ save_task(e)

\* Tasks of any status are deleted by age.
purge_old_tasks(u) ==
    /\ Lose /\ tasks[u] # NULL
    /\ tasks' = [tasks EXCEPT ![u] = NULL]
    /\ UNCHANGED <<chain, stream, handling, data, channel, creating, execs, errors>>

\* bgtask_creator delete: all tasks, whatever their status.
delete ==
    /\ Lose /\ \E u \in Uris : tasks[u] # NULL
    /\ tasks' = [u \in Uris |-> NULL]
    /\ UNCHANGED <<chain, stream, handling, data, channel, creating, execs, errors>>

\* bgtask_creator create, for a row that is flagged: a task that runs or ended is
\* not created again.
create ==
    LET u == sanitize(metadata_url)
    IN  /\ lost /\ reindex
        /\ ~Identical(u) /\ <<u, FALSE>> \notin creating
        /\ creating' = creating \cup {<<u, FALSE>>}
        /\ UNCHANGED <<chain, stream, handling, data, channel, tasks, execs, errors, lost>>

\* What is in memory is lost; messages not acknowledged come again.
Crash ==
    /\ Lose /\ Trouble
    /\ handling' = {} /\ channel' = << >> /\ creating' = {}
    /\ execs' = [e \in Executors |-> Free]
    /\ UNCHANGED <<chain, stream, data, tasks>>

-----------------------------------------------------------------------------
Init ==
    /\ chain = << >> /\ stream = {} /\ handling = {}
    /\ at = 0 /\ metadata = NULL /\ reindex = FALSE
    /\ channel = << >> /\ creating = {} /\ tasks = [u \in Uris |-> NULL]
    /\ execs = [e \in Executors |-> Free] /\ errors = 0 /\ lost = FALSE

Next ==
    \/ Change
    \/ \E i \in 1 .. MaxChanges : Handle(i) \/ download_metadata_notifier(i)
    \/ start_listener
    \/ \E u \in Uris, now \in BOOLEAN : new_task_handler(u, now)
    \/ \E u \in Uris : purge_old_tasks(u)
    \/ \E e \in Executors, u \in Uris : Spawn(e, u)
    \/ \E e \in Executors : execute_task(e)
    \/ delete \/ create
    \/ Crash

Spec == Init /\ [][Next]_vars

\* Messages are handled until they are acknowledged, the listener, the runner
\* and its executors keep running, and time passes.
Fairness ==
    /\ \A i \in 1 .. MaxChanges : WF_vars(Handle(i)) /\ WF_vars(download_metadata_notifier(i))
    /\ WF_vars(start_listener)
    /\ \A u \in Uris :
          /\ (\A now \in BOOLEAN : WF_vars(new_task_handler(u, now)))
          /\ SF_vars(\E e \in Executors : Spawn(e, u))
    /\ \A e \in Executors : WF_vars(execute_task(e))
-----------------------------------------------------------------------------
(* Properties.                                                             *)

Exec == [pc : {"lock", "request", "update", "save"}, uri : Uris,
         attempts : Nat,
         result : {NULL, "success", "failed", "unrecoverable"}]

\* Type invariant.
TypeOK ==
    /\ chain \in Seq(Uris) /\ stream \subseteq DOMAIN chain /\ handling \subseteq stream
    /\ at \in 0 .. Len(chain) /\ metadata \in Uris \cup {NULL} /\ reindex \in BOOLEAN
    /\ channel \in Seq(Uris) /\ creating \subseteq Uris \X BOOLEAN
    /\ tasks \in [Uris -> Task \cup {NULL}]
    /\ execs \in [Executors -> Exec \cup {Free}]
    /\ errors \in 0 .. MaxErrors /\ lost \in BOOLEAN

\* A row that is not flagged for a download holds the content of its own URL,
\* however messages, retries and slow executors interleave.
ServedMatchesUrl == at > 0 /\ ~reindex => metadata = metadata_url

\* The URL of the row has had a task before the row was at it: an earlier URL of
\* the asset, between which and now there was another, has the same task.
Reused ==
    \E i \in 1 .. at - 1 : /\ sanitize(chain[i]) = sanitize(chain[at])
                           /\ \E j \in i .. at : chain[j] # chain[at]

\* If the task of the row's URL has succeeded, its content is stored, although
\* executors skip a URL that is not the row's and the listener takes no second
\* task for a URL.  Excepted are the two cases in which the code leaves the old
\* content: a URL with blanks around it, which no task has, and a URL that comes
\* back after another one, whose task has ended.
SucceededMeansStored ==
    \A u \in Uris \ Padded :
        /\ tasks[u] # NULL /\ tasks[u].status = "success"
        /\ metadata_url = u /\ ~Reused
        => metadata = u

\* A task of the URL is in the table or on the way to it.
UnderWay(u) ==
    \/ \E i \in stream : chain[i] = u
    \/ \E i \in DOMAIN channel : channel[i] = u
    \/ \E now \in BOOLEAN : <<u, now>> \in creating
    \/ tasks[u] # NULL /\ tasks[u].status # "success"

\* Unless a task was lost, a row with the content of an earlier URL has a task
\* under way that will overwrite it, with the two exceptions above.
OldContentIsReplaced ==
    at > 0 /\ metadata # metadata_url =>
        lost \/ metadata_url \in Padded \/ Reused \/ UnderWay(metadata_url)

\* Unless a task was lost, the content of the row's URL is stored again and again,
\* when no more attempts fail than max_attempts allows, with the two exceptions
\* above: a download that is late or fails does not leave old content for good.
ContentIsStored ==
    []<>(\/ lost \/ at = 0 \/ metadata_url \in Padded \/ Reused
         \/ metadata = metadata_url)
=============================================================================
