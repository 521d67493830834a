--------------------------- MODULE TaskManagerProofs ---------------------------
(***************************************************************************)
(* What is proved of TaskManager for any number of URLs, executors,        *)
(* changes, attempts and errors: a row that is not flagged holds the       *)
(* content of its own URL, a task that succeeded has stored its content,   *)
(* and old content has a task under way that will replace it.              *)
(***************************************************************************)
EXTENDS TaskManager, TLAPS

\* The tasks of the changes that the row is at or past.
SeenUris == {sanitize(chain[i]) : i \in 1 .. at}

\* After such a change, of task u, the row was at another URL, or is now.
Left(u) == \E i \in 1 .. at : \E j \in i .. at : sanitize(chain[i]) = u /\ chain[j] # u

\* A row is flagged and handlers send tasks only once the row is at their change.
RowComesFirst == (reindex => at > 0) /\ \A i \in handling : i <= at

\* The content is that of a URL which the row has been at.
ContentIsSeen == metadata # NULL => \E i \in 1 .. at : chain[i] = metadata

\* The same for the tasks, wherever they are.
TasksAreSeen ==
    /\ \A n \in DOMAIN channel : channel[n] \in SeenUris
    /\ \A t \in creating : t[1] \in SeenUris
    /\ \A u \in Uris : tasks[u] # NULL => u \in SeenUris
    /\ \A e \in Executors : execs[e].pc # "free" => execs[e].uri \in SeenUris

\* A task has succeeded, or is about to be saved as such.
Succeeded(u) ==
    \/ tasks[u] # NULL /\ tasks[u].status = "success"
    \/ \E e \in Executors :
          execs[e].pc = "save" /\ execs[e].uri = u /\ execs[e].result = "success"

\* It has stored its content, unless the row was at another URL meanwhile.
SuccessStores == \A u \in Uris \ Padded : Succeeded(u) => metadata = u \/ Left(u)

\* A task of URL u is known to the listener or in the table.
Known(u) ==
    \/ \E n \in DOMAIN channel : channel[n] = u
    \/ \E now \in BOOLEAN : <<u, now>> \in creating
    \/ tasks[u] # NULL

\* A message that is acknowledged has its task there.
AckedIsKnown == \A i \in DOMAIN chain : i \in stream \/ Known(sanitize(chain[i]))

Inv ==
    /\ TypeOK /\ ServedMatchesUrl /\ RowComesFirst /\ ContentIsSeen /\ TasksAreSeen
    /\ SuccessStores /\ (lost \/ AckedIsKnown)
-----------------------------------------------------------------------------
(* Types.                                                                  *)

\* sanitize trims a padded URL and leaves the others.
LEMMA SanitizeType ==
    ASSUME NEW u \in Uris
    PROVE  sanitize(u) \in Uris /\ (u \notin Padded => sanitize(u) = u)
BY TaskAssumption DEF sanitize

\* The URL of the row is that of the change it is at.
LEMMA UrlType ==
    ASSUME TypeOK
    PROVE  /\ (at > 0 => metadata_url \in Uris /\ metadata_url = chain[at] /\ at \in DOMAIN chain)
           /\ (at = 0 => metadata_url \notin Uris)
           /\ \A i \in DOMAIN chain : chain[i] \in Uris
BY TaskAssumption DEF TypeOK, metadata_url

\* The states of an executor.
LEMMA ExecType ==
    ASSUME TypeOK, NEW e \in Executors
    PROVE  /\ execs[e] # Free <=> execs[e].pc # "free"
           /\ execs[e].pc # "free" => execs[e] \in Exec
           /\ \A u \in Uris : [Free EXCEPT !.pc = "lock", !.uri = u] \in Exec
           /\ execs[e] \in Exec =>
                 /\ \A n \in Nat : [execs[e] EXCEPT !.pc = "request", !.attempts = n] \in Exec
                 /\ [execs[e] EXCEPT !.pc = "update"] \in Exec
                 /\ \A res \in {"success", "failed", "unrecoverable"} :
                       [execs[e] EXCEPT !.pc = "save", !.result = res] \in Exec
<1>1. execs[e] \in Exec \/ execs[e] = Free
  BY DEF TypeOK
<1>2. \A r \in Exec : r.pc # "free"
  BY DEF Exec
<1>3. Free.pc = "free"
  BY DEF Free
<1>4. \A u \in Uris : [Free EXCEPT !.pc = "lock", !.uri = u] \in Exec
  BY Zenon DEF Free, Exec
<1>5. ASSUME NEW r \in Exec
      PROVE  /\ \A n \in Nat : [r EXCEPT !.pc = "request", !.attempts = n] \in Exec
             /\ [r EXCEPT !.pc = "update"] \in Exec
             /\ \A res \in {"success", "failed", "unrecoverable"} :
                   [r EXCEPT !.pc = "save", !.result = res] \in Exec
  BY Zenon DEF Exec
<1> QED
  BY <1>1, <1>2, <1>3, <1>4, <1>5, Zenon

\* Errors stay in their bound.
LEMMA TroubleType ==
    ASSUME TypeOK, Trouble \/ UNCHANGED errors
    PROVE  errors' \in 0 .. MaxErrors
BY TaskAssumption DEF TypeOK, Trouble

\* Messages and their handlers keep the types.
LEMMA TypeMessages ==
    ASSUME TypeOK, RowComesFirst,
           \/ Change \/ \E i \in 1 .. MaxChanges : Handle(i) \/ download_metadata_notifier(i)
           \/ Crash
    PROVE  TypeOK'
<1>1. CASE Change
  <2>1. PICK u \in Uris : chain' = Append(chain, u)
    BY <1>1 DEF Change
  <2>2. /\ stream' = stream \cup {Len(chain) + 1}
        /\ UNCHANGED <<handling, data, channel, creating, tasks, execs, errors, lost>>
    BY <1>1 DEF Change
  <2>3. /\ chain' \in Seq(Uris) /\ Len(chain') = Len(chain) + 1 /\ Len(chain) \in Nat
        /\ DOMAIN chain' = 1 .. Len(chain) + 1 /\ DOMAIN chain = 1 .. Len(chain)
    BY <2>1 DEF TypeOK
  <2>4. stream' \subseteq DOMAIN chain' /\ handling' \subseteq stream' /\ at' \in 0 .. Len(chain')
    BY <2>2, <2>3 DEF TypeOK, data
  <2> QED
    BY <2>2, <2>3, <2>4 DEF TypeOK, data
<1>2. CASE \E i \in 1 .. MaxChanges : Handle(i)
  <2>1. PICK i \in 1 .. MaxChanges : Handle(i)
    BY <1>2
  <2>2. /\ i \in stream /\ handling' = handling \cup {i} /\ upsert_asset_data(i)
        /\ UNCHANGED <<chain, stream, channel, creating, tasks, execs, errors, lost>>
    BY <2>1 DEF Handle
  <2>3. i \in 0 .. Len(chain)
    BY <2>2 DEF TypeOK
  <2>4. at' \in 0 .. Len(chain) /\ metadata' = metadata /\ reindex' \in BOOLEAN
    BY <2>2, <2>3, Zenon DEF upsert_asset_data, TypeOK, data
  <2> QED
    BY <2>2, <2>4 DEF TypeOK
<1>3. CASE \E i \in 1 .. MaxChanges : download_metadata_notifier(i)
  <2>1. PICK i \in 1 .. MaxChanges : download_metadata_notifier(i)
    BY <1>3
  <2>2. /\ i \in handling /\ channel' = Append(channel, sanitize(chain[i])) /\ handling' = handling \ {i}
        /\ stream' = stream \/ stream' = stream \ {i}
        /\ UNCHANGED <<chain, data, creating, tasks, execs, lost>>
    BY <2>1 DEF download_metadata_notifier
  <2>3. sanitize(chain[i]) \in Uris
    BY <2>2, UrlType, SanitizeType DEF TypeOK
  <2>4. channel' \in Seq(Uris) /\ stream' \subseteq DOMAIN chain' /\ handling' \subseteq stream'
    BY <2>2, <2>3 DEF TypeOK
  <2>5. errors' \in 0 .. MaxErrors
    BY <2>1, TroubleType DEF download_metadata_notifier
  <2> QED
    BY <2>2, <2>4, <2>5 DEF TypeOK, data
<1>4. CASE Crash
  <2>1. errors' \in 0 .. MaxErrors
    BY <1>4, TroubleType DEF Crash
  <2>2. /\ handling' = {} /\ channel' = << >> /\ creating' = {} /\ execs' = [e \in Executors |-> Free]
        /\ UNCHANGED <<chain, stream, data, tasks>> /\ lost' = TRUE
    BY <1>4 DEF Crash, Lose
  <2> QED
    BY <2>1, <2>2 DEF TypeOK, data
<1> QED
  BY <1>1, <1>2, <1>3, <1>4

\* Listener, inserts and the task table keep the types.
LEMMA TypeTasks ==
    ASSUME TypeOK, RowComesFirst,
           \/ start_listener \/ \E u \in Uris, now \in BOOLEAN : new_task_handler(u, now)
           \/ \E u \in Uris : purge_old_tasks(u)
           \/ delete \/ create
    PROVE  TypeOK'
<1>1. CASE start_listener
  <2>1. /\ channel # << >> /\ channel' = Tail(channel)
        /\ creating' = creating \/ creating' = creating \cup {<<Head(channel), ProcessNow>>}
        /\ UNCHANGED <<chain, stream, handling, data, tasks, execs, lost>>
    BY <1>1 DEF start_listener
  <2>2. channel' \in Seq(Uris) /\ Head(channel) \in Uris
    BY <2>1 DEF TypeOK
  <2>3. creating' \subseteq Uris \X BOOLEAN
    BY <2>1, <2>2, TaskAssumption DEF TypeOK
  <2>4. errors' \in 0 .. MaxErrors
    BY <1>1, TroubleType DEF start_listener
  <2> QED
    BY <2>1, <2>2, <2>3, <2>4 DEF TypeOK, data
<1>2. CASE \E u \in Uris, now \in BOOLEAN : new_task_handler(u, now)
  <2>1. PICK u \in Uris, now \in BOOLEAN : new_task_handler(u, now)
    BY <1>2
  <2>2. /\ creating' \subseteq creating
        /\ tasks' = tasks \/ tasks' = [tasks EXCEPT ![u] = IF @ = NULL THEN NewTask(now) ELSE @]
        /\ UNCHANGED <<chain, stream, handling, data, channel, execs>>
        /\ lost' \in BOOLEAN
    BY <2>1, Zenon DEF new_task_handler, Lose, TypeOK
  <2>3. NewTask(now) \in Task
    BY DEF NewTask, Task
  <2>4. tasks' \in [Uris -> Task \cup {NULL}]
    BY <2>2, <2>3 DEF TypeOK
  <2>5. errors' \in 0 .. MaxErrors
    BY <2>1, TroubleType DEF new_task_handler
  <2> QED
    BY <2>2, <2>4, <2>5 DEF TypeOK, data
<1>3. CASE delete \/ \E u \in Uris : purge_old_tasks(u)
  <2>1. /\ tasks' \in [Uris -> Task \cup {NULL}] /\ lost' = TRUE
        /\ UNCHANGED <<chain, stream, handling, data, channel, creating, execs, errors>>
    BY <1>3 DEF delete, purge_old_tasks, Lose, TypeOK
  <2> QED
    BY <2>1 DEF TypeOK, data
<1>4. CASE create
  <2>1. /\ creating' = creating \cup {<<sanitize(metadata_url), FALSE>>} /\ reindex
        /\ UNCHANGED <<chain, stream, handling, data, channel, tasks, execs, errors, lost>>
    BY <1>4 DEF create
  <2>2. sanitize(metadata_url) \in Uris
    BY <2>1, UrlType, SanitizeType DEF RowComesFirst
  <2>3. creating' \subseteq Uris \X BOOLEAN
    <3>1. <<sanitize(metadata_url), FALSE>> \in Uris \X BOOLEAN
      BY <2>2, Zenon
    <3> QED
      BY <2>1, <3>1, Zenon DEF TypeOK
  <2> QED
    BY <2>1, <2>3, Zenon DEF TypeOK, data
<1> QED
  BY <1>1, <1>2, <1>3, <1>4

\* Executors keep the types.
LEMMA TypeExecs ==
    ASSUME TypeOK, \E e \in Executors : execute_task(e) \/ \E u \in Uris : Spawn(e, u)
    PROVE  TypeOK'
<1>0. PICK e \in Executors : execute_task(e) \/ \E u \in Uris : Spawn(e, u)
  OBVIOUS
<1> DEFINE u == execs[e].uri
<1>1. /\ UNCHANGED <<chain, stream, handling, at, channel, creating, lost>>
  BY <1>0, Zenon DEF execute_task, lock_task, request_metadata, UpdateMetadata, save_task, Spawn, data
<1>2. errors' \in 0 .. MaxErrors
  BY <1>0, TroubleType, Zenon
     DEF execute_task, lock_task, request_metadata, UpdateMetadata, save_task, Spawn
<1>3. ASSUME execs[e].pc # "free" PROVE execs[e] \in Exec /\ u \in Uris /\ execs[e].attempts \in Nat
  BY <1>3, ExecType, ZenonT(30) DEF Exec
<1>4. ASSUME NEW r \in Exec \cup {Free}, execs' = [execs EXCEPT ![e] = r],
             tasks' \in [Uris -> Task \cup {NULL}], metadata' \in Uris \cup {NULL}, reindex' \in BOOLEAN
      PROVE  TypeOK'
  <2>1. execs' \in [Executors -> Exec \cup {Free}]
    BY <1>4 DEF TypeOK
  <2> QED
    BY <1>1, <1>2, <1>4, <2>1 DEF TypeOK
<1>5. /\ tasks \in [Uris -> Task \cup {NULL}] /\ metadata \in Uris \cup {NULL} /\ reindex \in BOOLEAN
      /\ execs \in [Executors -> Exec \cup {Free}]
  BY DEF TypeOK
<1>6. CASE \E v \in Uris : Spawn(e, v)
  BY <1>4, <1>5, <1>6, ExecType, Zenon DEF Spawn, data
<1>7. CASE lock_task(e)
  <2>1. execs[e] \in Exec /\ u \in Uris
    BY <1>3, <1>7 DEF lock_task
  <2>2. CASE /\ tasks[u] # NULL /\ tasks' = [tasks EXCEPT ![u].status = "running"]
             /\ execs' = [execs EXCEPT ![e].pc = "request", ![e].attempts = tasks[u].attempts + 1]
    <3>1. tasks[u] \in Task
      BY <1>5, <2>1, <2>2
    <3>2. tasks[u].attempts + 1 \in Nat /\ [tasks[u] EXCEPT !.status = "running"] \in Task
      BY <3>1 DEF Task
    <3>3. execs' = [execs EXCEPT ![e] = [execs[e] EXCEPT !.pc = "request", !.attempts = tasks[u].attempts + 1]]
      BY <1>5, <2>2, Zenon
    <3>4. tasks' \in [Uris -> Task \cup {NULL}]
      BY <1>5, <2>1, <2>2, <3>2
    <3>5. [execs[e] EXCEPT !.pc = "request", !.attempts = tasks[u].attempts + 1] \in Exec
      BY <2>1, <3>2, ExecType, Zenon
    <3> QED
      BY <1>4, <1>5, <1>7, <3>3, <3>4, <3>5, Zenon DEF lock_task, data
  <2>3. CASE execs' = [execs EXCEPT ![e] = Free] /\ UNCHANGED tasks
    BY <1>4, <1>5, <1>7, <2>3, Zenon DEF lock_task, data
  <2> QED
    BY <1>7, <2>2, <2>3 DEF lock_task
<1>8. ASSUME NEW res \in {"success", "failed", "unrecoverable"}, Finish(e, res), execs[e].pc # "free"
      PROVE  \E r \in Exec : execs' = [execs EXCEPT ![e] = r]
  <2>1. execs' = [execs EXCEPT ![e] = [execs[e] EXCEPT !.pc = "save", !.result = res]]
    BY <1>5, <1>8, Zenon DEF Finish
  <2>2. [execs[e] EXCEPT !.pc = "save", !.result = res] \in Exec
    BY <1>3, <1>8, ExecType, Zenon
  <2> QED
    BY <2>1, <2>2, Zenon
<1>9. CASE request_metadata(e)
  <2>1. execs[e] \in Exec /\ execs[e].pc # "free"
    BY <1>3, <1>9 DEF request_metadata
  <2>2. \E r \in Exec : execs' = [execs EXCEPT ![e] = r]
    <3>1. CASE Continue(e, "update")
      <4>1. execs' = [execs EXCEPT ![e] = [execs[e] EXCEPT !.pc = "update"]]
        BY <1>5, <3>1 DEF Continue
      <4> QED
        BY <2>1, <4>1, ExecType, Zenon
    <3>2. CASE Finish(e, "success") \/ Finish(e, "failed")
      BY <1>8, <2>1, <3>2
    <3> QED
      BY <1>9, <3>1, <3>2 DEF request_metadata
  <2> QED
    BY <1>4, <1>5, <1>9, <2>2, Zenon DEF request_metadata, data
<1>10. CASE UpdateMetadata(e)
  <2>1. execs[e].pc # "free" /\ u \in Uris
    BY <1>3, <1>10 DEF UpdateMetadata
  <2>2. /\ \E r \in Exec : execs' = [execs EXCEPT ![e] = r]
        /\ metadata' \in {metadata, u} /\ reindex' \in {reindex, FALSE} /\ tasks' = tasks
    BY <1>8, <1>10, <2>1, Zenon DEF UpdateMetadata
  <2> QED
    BY <1>4, <1>5, <2>1, <2>2, Zenon
<1>11. CASE save_task(e)
  <2>1. execs[e].pc # "free" /\ u \in Uris /\ execs[e].attempts \in Nat
    BY <1>3, <1>11 DEF save_task
  <2>2. Outcome(e) \in Task
    BY <2>1, TaskAssumption DEF Outcome, Task
  <2>3. tasks' \in [Uris -> Task \cup {NULL}]
    BY <1>5, <1>11, <2>1, <2>2 DEF save_task
  <2> QED
    BY <1>4, <1>5, <1>11, <2>3, Zenon DEF save_task, data
<1> QED
  BY <1>0, <1>6, <1>7, <1>9, <1>10, <1>11 DEF execute_task

\* Every step keeps the types.
LEMMA TypeStep == TypeOK /\ RowComesFirst /\ [Next]_vars => TypeOK'
<1> SUFFICES ASSUME TypeOK, RowComesFirst, [Next]_vars PROVE TypeOK'
  OBVIOUS
<1>1. CASE UNCHANGED vars
  BY <1>1 DEF vars, data, TypeOK
<1> QED
  BY <1>1, TypeMessages, TypeTasks, TypeExecs DEF Next
-----------------------------------------------------------------------------
(* The row and its history.                                                *)

\* A row never goes back, and the history stays as it is.
LEMMA Grows ==
    ASSUME TypeOK, [Next]_vars
    PROVE  /\ at \in Nat /\ at' \in Nat /\ at <= at'
           /\ \A i \in DOMAIN chain : i \in DOMAIN chain' /\ chain'[i] = chain[i]
           /\ \A i \in 1 .. at : i \in DOMAIN chain /\ i \in 1 .. at'
<1>1. /\ at \in Nat /\ at \in 0 .. Len(chain) /\ DOMAIN chain = 1 .. Len(chain) /\ Len(chain) \in Nat
  BY DEF TypeOK
<1>2. at' \in Nat /\ at <= at'
  <2>1. CASE UNCHANGED at
    BY <1>1, <2>1
  <2>2. CASE \E i \in 1 .. MaxChanges : Handle(i)
    <3>1. PICK i \in 1 .. MaxChanges : upsert_asset_data(i)
      BY <2>2 DEF Handle
    <3> QED
      BY <1>1, <3>1 DEF upsert_asset_data, data
  <2> QED
    BY <2>1, <2>2, Zenon
       DEF Next, vars, data, Change, download_metadata_notifier, start_listener, new_task_handler,
           purge_old_tasks, Spawn, execute_task, lock_task, request_metadata, UpdateMetadata,
           save_task, delete, create, Crash
<1>3. \A i \in DOMAIN chain : i \in DOMAIN chain' /\ chain'[i] = chain[i]
  <2>1. CASE UNCHANGED chain
    BY <2>1
  <2>2. CASE Change
    <3>1. PICK u \in Uris : chain' = Append(chain, u)
      BY <2>2 DEF Change
    <3> QED
      BY <3>1 DEF TypeOK
  <2> QED
    BY <2>1, <2>2, Zenon
       DEF Next, vars, data, Handle, download_metadata_notifier, start_listener, new_task_handler,
           purge_old_tasks, Spawn, execute_task, lock_task, request_metadata, UpdateMetadata,
           save_task, delete, create, Crash
<1> QED
  BY <1>1, <1>2, <1>3

\* The row only goes to later changes, so that URLs seen stay seen.
LEMMA SeenStays ==
    ASSUME TypeOK, [Next]_vars
    PROVE  SeenUris \subseteq SeenUris' /\ \A u : Left(u) => Left(u)'
<1>1. /\ at \in Nat /\ at' \in Nat /\ at <= at'
      /\ \A i \in 1 .. at : i \in 1 .. at' /\ chain'[i] = chain[i]
  BY Grows
<1>2. SeenUris \subseteq SeenUris'
  BY <1>1 DEF SeenUris, sanitize
<1>3. ASSUME NEW u, Left(u) PROVE Left(u)'
  <2>1. PICK i \in 1 .. at : \E j \in i .. at : sanitize(chain[i]) = u /\ chain[j] # u
    BY <1>3 DEF Left
  <2>2. PICK j \in i .. at : sanitize(chain[i]) = u /\ chain[j] # u
    BY <2>1
  <2>3. i \in 1 .. at' /\ j \in i .. at' /\ chain'[i] = chain[i] /\ chain'[j] = chain[j]
    BY <1>1
  <2>4. sanitize(chain[i])' = u /\ chain'[j] # u
    BY <2>2, <2>3 DEF sanitize
  <2> QED
    BY <2>3, <2>4 DEF Left
<1> QED
  BY <1>2, <1>3

\* The UPDATE of an executor and the upsert of a handler keep URL and content
\* together.
LEMMA RowStep ==
    ASSUME TypeOK, RowComesFirst, ServedMatchesUrl, ContentIsSeen, [Next]_vars
    PROVE  RowComesFirst' /\ ServedMatchesUrl' /\ ContentIsSeen'
<1>1. /\ at \in Nat /\ at' \in Nat /\ at <= at' /\ at \in 0 .. Len(chain) /\ Len(chain) \in Nat
      /\ \A i \in DOMAIN chain : i \in DOMAIN chain' /\ chain'[i] = chain[i]
      /\ \A i \in 1 .. at : i \in DOMAIN chain /\ i \in 1 .. at'
      /\ \A i \in handling : i \in Nat
  BY Grows DEF TypeOK
<1>2. CASE UNCHANGED data /\ handling' \subseteq handling
  <2>1. RowComesFirst'
    BY <1>2 DEF RowComesFirst, data
  <2>2. metadata_url' = metadata_url
    BY <1>1, <1>2 DEF metadata_url, data
  <2>3. ServedMatchesUrl'
    BY <1>2, <2>2 DEF ServedMatchesUrl, data
  <2>4. ContentIsSeen'
    BY <1>1, <1>2 DEF ContentIsSeen, data
  <2> QED
    BY <2>1, <2>3, <2>4
<1>3. CASE \E i \in 1 .. MaxChanges : Handle(i)
  <2>1. PICK i \in 1 .. MaxChanges : Handle(i)
    BY <1>3
  <2>2. /\ handling' = handling \cup {i} /\ chain' = chain /\ upsert_asset_data(i)
    BY <2>1 DEF Handle
  <2>3. CASE i >= at /\ at' = i /\ reindex' = TRUE /\ UNCHANGED metadata
    <3>1. RowComesFirst'
      BY <1>1, <2>2, <2>3 DEF RowComesFirst
    <3>2. ServedMatchesUrl'
      BY <2>3 DEF ServedMatchesUrl
    <3>3. ContentIsSeen'
      BY <1>1, <2>2, <2>3 DEF ContentIsSeen
    <3> QED
      BY <3>1, <3>2, <3>3
  <2>4. CASE ~(i >= at) /\ UNCHANGED data
    <3>1. RowComesFirst'
      BY <1>1, <2>2, <2>4 DEF RowComesFirst, data
    <3>2. ServedMatchesUrl' /\ ContentIsSeen'
      BY <2>2, <2>4 DEF ServedMatchesUrl, ContentIsSeen, metadata_url, data
    <3> QED
      BY <3>1, <3>2
  <2> QED
    BY <2>2, <2>3, <2>4, Zenon DEF upsert_asset_data
<1>4. CASE \E e \in Executors : UpdateMetadata(e)
  <2>1. PICK e \in Executors : UpdateMetadata(e)
    BY <1>4
  <2>2. UNCHANGED <<chain, handling, at>>
    BY <2>1 DEF UpdateMetadata
  <2>3. CASE metadata_url = execs[e].uri /\ metadata' = execs[e].uri /\ reindex' = FALSE
    <3>1. execs[e].uri \in Uris
      BY <2>1, ExecType, Zenon DEF UpdateMetadata, Exec
    <3>2. at > 0 /\ metadata_url = chain[at]
      BY <1>1, <2>3, <3>1, UrlType
    <3>3. RowComesFirst'
      BY <2>2, <2>3 DEF RowComesFirst
    <3>4. ServedMatchesUrl'
      BY <2>2, <2>3 DEF ServedMatchesUrl, metadata_url
    <3>5. ContentIsSeen'
      <4>1. at \in 1 .. at /\ chain[at] = metadata'
        BY <1>1, <2>3, <3>2
      <4> QED
        BY <2>2, <4>1 DEF ContentIsSeen
    <3> QED
      BY <3>3, <3>4, <3>5
  <2>4. CASE UNCHANGED <<metadata, reindex>>
    BY <1>2, <2>2, <2>4 DEF data
  <2> QED
    BY <2>1, <2>3, <2>4, Zenon DEF UpdateMetadata
<1> QED
  BY <1>2, <1>3, <1>4, Zenon
     DEF Next, vars, Change, download_metadata_notifier, start_listener, new_task_handler,
         purge_old_tasks, Spawn, execute_task, lock_task, request_metadata,
         save_task, delete, create, Crash
-----------------------------------------------------------------------------
(* The tasks.                                                              *)

\* What Append and Tail do to the tasks of the channel.
LEMMA ChannelType ==
    ASSUME NEW c \in Seq(Uris)
    PROVE  /\ \A v \in Uris : /\ \A n \in DOMAIN Append(c, v) :
                                   Append(c, v)[n] = v \/ \E m \in DOMAIN c : Append(c, v)[n] = c[m]
                              /\ \A m \in DOMAIN c : \E n \in DOMAIN Append(c, v) : Append(c, v)[n] = c[m]
                              /\ \E n \in DOMAIN Append(c, v) : Append(c, v)[n] = v
           /\ c # << >> => /\ 1 \in DOMAIN c /\ Head(c) = c[1]
                            /\ \A n \in DOMAIN Tail(c) : \E m \in DOMAIN c : Tail(c)[n] = c[m]
<1>1. ASSUME NEW v \in Uris
      PROVE  /\ DOMAIN Append(c, v) = 1 .. Len(c) + 1 /\ Append(c, v)[Len(c) + 1] = v
             /\ \A m \in 1 .. Len(c) : Append(c, v)[m] = c[m]
  OBVIOUS
<1>2. ASSUME c # << >>
      PROVE  /\ 1 \in DOMAIN c /\ Head(c) = c[1] /\ DOMAIN Tail(c) = 1 .. Len(c) - 1
             /\ \A n \in 1 .. Len(c) - 1 : Tail(c)[n] = c[n + 1]
  BY <1>2
<1>3. DOMAIN c = 1 .. Len(c) /\ Len(c) \in Nat
  OBVIOUS
<1>4. ASSUME NEW v \in Uris
      PROVE  /\ \A n \in DOMAIN Append(c, v) :
                    Append(c, v)[n] = v \/ \E m \in DOMAIN c : Append(c, v)[n] = c[m]
             /\ \A m \in DOMAIN c : \E n \in DOMAIN Append(c, v) : Append(c, v)[n] = c[m]
             /\ \E n \in DOMAIN Append(c, v) : Append(c, v)[n] = v
  <2>1. \A n \in 1 .. Len(c) + 1 : n = Len(c) + 1 \/ n \in 1 .. Len(c)
    BY <1>3
  <2>2. \A m \in 1 .. Len(c) : m \in 1 .. Len(c) + 1
    BY <1>3
  <2>3. Len(c) + 1 \in 1 .. Len(c) + 1
    BY <1>3
  <2> QED
    BY <1>1, <1>3, <2>1, <2>2, <2>3, Zenon
<1>5. ASSUME c # << >>
      PROVE  \A n \in DOMAIN Tail(c) : \E m \in DOMAIN c : Tail(c)[n] = c[m]
  <2>1. \A n \in 1 .. Len(c) - 1 : n + 1 \in 1 .. Len(c)
    BY <1>3
  <2> QED
    BY <1>2, <1>3, <1>5, <2>1, Zenon
<1> QED
  BY <1>2, <1>4, <1>5, Zenon

\* There are tasks only for URLs that the row has had.
LEMMA SeenStep ==
    ASSUME TypeOK, RowComesFirst, TasksAreSeen, [Next]_vars
    PROVE  TasksAreSeen'
<1>1. SeenUris \subseteq SeenUris'
  BY SeenStays
<1>2. /\ tasks \in [Uris -> Task \cup {NULL}] /\ execs \in [Executors -> Exec \cup {Free}]
      /\ channel \in Seq(Uris) /\ Free.pc = "free"
  BY DEF TypeOK, Free
<1>3. \A n \in DOMAIN channel' : channel'[n] \in SeenUris'
  <2>1. CASE UNCHANGED channel
    BY <1>1, <2>1 DEF TasksAreSeen
  <2>2. CASE \E i \in 1 .. MaxChanges : download_metadata_notifier(i)
    <3>1. PICK i \in handling : channel' = Append(channel, sanitize(chain[i]))
      BY <2>2 DEF download_metadata_notifier
    <3>2. sanitize(chain[i]) \in SeenUris /\ sanitize(chain[i]) \in Uris
      <4>1. i \in DOMAIN chain /\ i \in 1 .. at
        BY <3>1, Grows DEF TypeOK, RowComesFirst
      <4> QED
        BY <4>1, UrlType, SanitizeType DEF SeenUris
    <3>3. \A n \in DOMAIN channel' : channel'[n] = sanitize(chain[i]) \/ \E m \in DOMAIN channel : channel'[n] = channel[m]
      BY <1>2, <3>1, <3>2, ChannelType
    <3> QED
      BY <1>1, <3>2, <3>3, Zenon DEF TasksAreSeen
  <2>3. CASE start_listener
    <3>1. channel # << >> /\ channel' = Tail(channel)
      BY <2>3 DEF start_listener
    <3>2. \A n \in DOMAIN channel' : \E m \in DOMAIN channel : channel'[n] = channel[m]
      BY <1>2, <3>1, ChannelType, Zenon
    <3> QED
      BY <1>1, <3>2 DEF TasksAreSeen
  <2>4. CASE Crash
    BY <2>4 DEF Crash
  <2> QED
    BY <2>1, <2>2, <2>3, <2>4, Zenon
       DEF Next, vars, Change, Handle, new_task_handler, purge_old_tasks, Spawn, execute_task,
           lock_task, request_metadata, UpdateMetadata, save_task, delete, create
<1>4. \A t \in creating' : t[1] \in SeenUris'
  <2>1. CASE creating' \subseteq creating
    BY <1>1, <2>1 DEF TasksAreSeen
  <2>2. CASE start_listener
    <3>1. channel # << >> /\ creating' \subseteq creating \cup {<<Head(channel), ProcessNow>>}
      BY <2>2 DEF start_listener
    <3>2. Head(channel) \in SeenUris
      BY <1>2, <3>1, ChannelType DEF TasksAreSeen
    <3> QED
      BY <1>1, <3>1, <3>2 DEF TasksAreSeen
  <2>3. CASE create
    <3>1. creating' = creating \cup {<<sanitize(metadata_url), FALSE>>} /\ reindex
      BY <2>3 DEF create
    <3>2. sanitize(metadata_url) \in SeenUris
      <4>1. at \in 1 .. at /\ metadata_url = chain[at]
        BY <3>1, UrlType, Grows DEF RowComesFirst
      <4> QED
        BY <4>1 DEF SeenUris
    <3>3. \A x, y : <<x, y>>[1] = x
      OBVIOUS
    <3>4. PICK s : creating' = creating \cup {s} /\ s[1] = sanitize(metadata_url)
      BY <3>1, <3>3, Zenon
    <3> QED
      BY <1>1, <3>2, <3>4 DEF TasksAreSeen
  <2> QED
    BY <2>1, <2>2, <2>3, Zenon
       DEF Next, vars, Change, Handle, download_metadata_notifier, new_task_handler, purge_old_tasks,
           Spawn, execute_task, lock_task, request_metadata, UpdateMetadata, save_task, delete, Crash
<1>5. \A u \in Uris : tasks'[u] # NULL => u \in SeenUris'
  <2>1. CASE \A u \in Uris : tasks'[u] # NULL => tasks[u] # NULL
    BY <1>1, <2>1 DEF TasksAreSeen
  <2>2. CASE \E u \in Uris, now \in BOOLEAN : new_task_handler(u, now)
    <3>1. PICK u \in Uris, now \in BOOLEAN : new_task_handler(u, now)
      BY <2>2
    <3>2. <<u, now>> \in creating /\ \A v \in Uris : v # u => tasks'[v] = tasks[v]
      BY <1>2, <3>1 DEF new_task_handler
    <3>3. u \in SeenUris
      <4>1. <<u, now>>[1] \in SeenUris
        BY <3>2 DEF TasksAreSeen
      <4> QED
        BY <4>1
    <3> QED
      BY <1>1, <3>2, <3>3 DEF TasksAreSeen
  <2>3. CASE \E e \in Executors : lock_task(e) \/ save_task(e)
    <3>1. PICK e \in Executors : lock_task(e) \/ save_task(e)
      BY <2>3
    <3>2. \A u \in Uris : u # execs[e].uri => tasks'[u] = tasks[u]
      BY <1>2, <3>1 DEF lock_task, save_task
    <3>3. execs[e].uri \in SeenUris
      BY <3>1 DEF lock_task, save_task, TasksAreSeen
    <3> QED
      BY <1>1, <3>2, <3>3 DEF TasksAreSeen
  <2>4. CASE delete \/ \E u \in Uris : purge_old_tasks(u)
    BY <1>2, <2>1, <2>4 DEF delete, purge_old_tasks
  <2>5. CASE UNCHANGED tasks
    BY <2>1, <2>5
  <2> QED
    BY <2>2, <2>3, <2>4, <2>5, Zenon
       DEF Next, vars, Change, Handle, download_metadata_notifier, start_listener,
           Spawn, execute_task, request_metadata, UpdateMetadata, create, Crash
<1>6. \A e \in Executors : execs'[e].pc # "free" => execs'[e].uri \in SeenUris'
  <2>1. CASE UNCHANGED execs
    BY <1>1, <2>1 DEF TasksAreSeen
  <2>2. CASE \E e \in Executors, u \in Uris : Spawn(e, u)
    <3>1. PICK e \in Executors, u \in Uris : Spawn(e, u)
      BY <2>2
    <3>2. u \in SeenUris
      BY <3>1 DEF Spawn, get_pending_tasks, TasksAreSeen
    <3>3. execs' = [execs EXCEPT ![e] = [Free EXCEPT !.pc = "lock", !.uri = u]]
      BY <3>1 DEF Spawn
    <3>4. [Free EXCEPT !.pc = "lock", !.uri = u].uri = u
      BY DEF Free
    <3> QED
      BY <1>1, <1>2, <3>2, <3>3, <3>4 DEF TasksAreSeen
  <2>3. CASE \E e \in Executors : execute_task(e)
    <3>1. PICK e \in Executors : execute_task(e)
      BY <2>3
    <3>2. execs[e].pc # "free" /\ execs[e] \in Exec
      BY <3>1, ExecType, Zenon DEF execute_task, lock_task, request_metadata, UpdateMetadata, save_task
    <3>3. PICK r : execs' = [execs EXCEPT ![e] = r] /\ (r = Free \/ r.uri = execs[e].uri)
      <4>1. CASE lock_task(e) \/ save_task(e)
        <5>1. CASE execs' = [execs EXCEPT ![e] = Free]
          BY <5>1, Zenon
        <5>2. CASE execs' = [execs EXCEPT ![e].pc = "request",
                                          ![e].attempts = tasks[execs[e].uri].attempts + 1]
          <6> DEFINE r == [execs[e] EXCEPT !.pc = "request", !.attempts = tasks[execs[e].uri].attempts + 1]
          <6>1. execs' = [execs EXCEPT ![e] = r]
            BY <1>2, <5>2, Zenon
          <6>2. r.uri = execs[e].uri
            BY <3>2 DEF Exec
          <6> QED
            BY <6>1, <6>2, Zenon
        <5> QED
          BY <4>1, <5>1, <5>2 DEF lock_task, save_task
      <4>2. CASE request_metadata(e) \/ UpdateMetadata(e)
        <5>1. CASE Continue(e, "update")
          <6>1. execs' = [execs EXCEPT ![e] = [execs[e] EXCEPT !.pc = "update"]]
            BY <1>2, <5>1 DEF Continue
          <6>2. [execs[e] EXCEPT !.pc = "update"].uri = execs[e].uri
            BY <3>2 DEF Exec
          <6> QED
            BY <6>1, <6>2, Zenon
        <5>2. CASE \E res : Finish(e, res)
          <6>1. PICK res : execs' = [execs EXCEPT ![e] = [execs[e] EXCEPT !.pc = "save", !.result = res]]
            BY <1>2, <5>2, Zenon DEF Finish
          <6>2. [execs[e] EXCEPT !.pc = "save", !.result = res].uri = execs[e].uri
            BY <3>2 DEF Exec
          <6> QED
            BY <6>1, <6>2, Zenon
        <5> QED
          BY <4>2, <5>1, <5>2, Zenon DEF request_metadata, UpdateMetadata
      <4> QED
        BY <3>1, <4>1, <4>2 DEF execute_task
    <3> QED
      BY <1>1, <1>2, <3>2, <3>3, Zenon DEF TasksAreSeen
  <2>4. CASE Crash
    BY <1>2, <2>4 DEF Crash
  <2> QED
    BY <2>1, <2>2, <2>3, <2>4, Zenon
       DEF Next, vars, Change, Handle, download_metadata_notifier, start_listener, new_task_handler,
           purge_old_tasks, delete, create
<1> QED
  BY <1>3, <1>4, <1>5, <1>6 DEF TasksAreSeen

\* A task that was there is there again, or has just ended well.
LEMMA SuccessStep ==
    ASSUME TypeOK, ContentIsSeen, TasksAreSeen, SuccessStores, [Next]_vars
    PROVE  SuccessStores'
<1> SUFFICES ASSUME NEW u \in Uris \ Padded, Succeeded(u)'
             PROVE  metadata' = u \/ Left(u)'
  BY DEF SuccessStores
<1>1. /\ tasks \in [Uris -> Task \cup {NULL}] /\ execs \in [Executors -> Exec \cup {Free}]
      /\ Free.pc = "free"
  BY DEF TypeOK, Free
<1>2. Left(u) => Left(u)'
  BY SeenStays
<1>3. at \in Nat
  BY Grows
\* The row is at another URL than a task that was sent.
<1>4. ASSUME u \in SeenUris, metadata_url # u PROVE Left(u)
  <2>1. PICK i \in 1 .. at : sanitize(chain[i]) = u
    BY <1>4 DEF SeenUris
  <2>2. at > 0 /\ at \in i .. at
    BY <1>3, <2>1
  <2>3. chain[at] # u
    BY <1>4, <2>2, UrlType
  <2> QED
    BY <2>1, <2>2, <2>3 DEF Left
\* The content of u is overwritten only when the row is at another URL.
<1>5. ASSUME metadata = u PROVE metadata' = u \/ Left(u)
  <2>1. CASE metadata' = metadata
    BY <1>5, <2>1
  <2>2. CASE \E e \in Executors : UpdateMetadata(e)
    <3>1. PICK e \in Executors : UpdateMetadata(e)
      BY <2>2
    <3>2. metadata' = metadata \/ (metadata' = execs[e].uri /\ metadata_url = execs[e].uri)
      BY <3>1, Zenon DEF UpdateMetadata
    <3>3. u \in SeenUris
      <4>1. PICK i \in 1 .. at : chain[i] = u
        BY <1>5, TaskAssumption DEF ContentIsSeen
      <4>2. sanitize(chain[i]) = u
        BY <4>1, SanitizeType
      <4> QED
        BY <4>2 DEF SeenUris
    <3> QED
      BY <1>4, <1>5, <3>2, <3>3
  <2> QED
    BY <2>1, <2>2, Zenon
       DEF Next, vars, data, Change, Handle, upsert_asset_data, download_metadata_notifier, start_listener,
           new_task_handler, purge_old_tasks, Spawn, execute_task, lock_task, request_metadata,
           save_task, delete, create, Crash
<1>6. Succeeded(u) => metadata' = u \/ Left(u)'
  BY <1>2, <1>5 DEF SuccessStores
\* What a step adds to the tasks that succeeded.
<1>7. CASE /\ tasks'[u] # NULL /\ tasks'[u].status = "success" => tasks'[u] = tasks[u]
           /\ \A e \in Executors : execs'[e] = execs[e] \/ execs'[e].pc # "save"
  BY <1>6, <1>7, Zenon DEF Succeeded
<1>8. CASE \E v \in Uris, now \in BOOLEAN : new_task_handler(v, now)
  <2>1. PICK v \in Uris, now \in BOOLEAN : new_task_handler(v, now)
    BY <1>8
  <2>2. NewTask(now).status # "success"
    BY DEF NewTask
  <2>3. tasks'[u] = tasks[u] \/ tasks'[u] = NewTask(now)
    BY <1>1, <2>1 DEF new_task_handler
  <2>4. execs' = execs
    BY <2>1 DEF new_task_handler
  <2> QED
    BY <1>7, <2>2, <2>3, <2>4, Zenon
<1>9. CASE delete \/ \E v \in Uris : purge_old_tasks(v)
  <2>1. tasks'[u] = tasks[u] \/ tasks'[u] = NULL
    BY <1>1, <1>9 DEF delete, purge_old_tasks
  <2>2. execs' = execs
    BY <1>9 DEF delete, purge_old_tasks
  <2> QED
    BY <1>7, <2>1, <2>2, Zenon
<1>10. CASE \E e \in Executors, v \in Uris : Spawn(e, v)
  <2>1. PICK e \in Executors, v \in Uris : Spawn(e, v)
    BY <1>10
  <2>2. execs' = [execs EXCEPT ![e] = [Free EXCEPT !.pc = "lock", !.uri = v]] /\ tasks' = tasks
    BY <2>1 DEF Spawn
  <2>3. [Free EXCEPT !.pc = "lock", !.uri = v].pc = "lock"
    BY DEF Free
  <2> QED
    BY <1>1, <1>7, <2>2, <2>3
<1>11. CASE \E e \in Executors : lock_task(e)
  <2>1. PICK e \in Executors : lock_task(e)
    BY <1>11
  <2>2. execs[e] \in Exec
    BY <2>1, ExecType, Zenon DEF lock_task
  <2>3. CASE tasks' = tasks /\ execs' = [execs EXCEPT ![e] = Free]
    BY <1>1, <1>7, <2>3
  <2>4. CASE /\ tasks[execs[e].uri] # NULL /\ tasks' = [tasks EXCEPT ![execs[e].uri].status = "running"]
             /\ execs' = [execs EXCEPT ![e].pc = "request",
                                       ![e].attempts = tasks[execs[e].uri].attempts + 1]
    <3>1. execs[e].uri \in Uris
      BY <2>2 DEF Exec
    <3>2. tasks[execs[e].uri] \in Task
      BY <1>1, <2>4, <3>1
    <3>3. [tasks[execs[e].uri] EXCEPT !.status = "running"].status = "running"
      BY <3>2 DEF Task
    <3>4. tasks'[u] = tasks[u] \/ tasks'[u] = [tasks[execs[e].uri] EXCEPT !.status = "running"]
      BY <1>1, <2>4, <3>1
    <3>5. execs' = [execs EXCEPT ![e] = [execs[e] EXCEPT !.pc = "request",
                                                !.attempts = tasks[execs[e].uri].attempts + 1]]
      BY <1>1, <2>4, Zenon
    <3>6. [execs[e] EXCEPT !.pc = "request", !.attempts = tasks[execs[e].uri].attempts + 1].pc = "request"
      BY <2>2 DEF Exec
    <3>7. \A f \in Executors : execs'[f] = execs[f] \/ execs'[f].pc # "save"
      BY <1>1, <3>5, <3>6
    <3> QED
      BY <1>7, <3>3, <3>4, <3>7, Zenon
  <2> QED
    BY <2>1, <2>3, <2>4 DEF lock_task
<1>12. ASSUME NEW e \in Executors, execs[e] \in Exec, NEW res, Finish(e, res), tasks' = tasks,
              execs[e].uri = u => res # "success" \/ metadata' = u \/ Left(u)
       PROVE  metadata' = u \/ Left(u)'
  <2>1. execs' = [execs EXCEPT ![e] = [execs[e] EXCEPT !.pc = "save", !.result = res]]
    BY <1>1, <1>12, Zenon DEF Finish
  <2>2. /\ [execs[e] EXCEPT !.pc = "save", !.result = res].uri = execs[e].uri
        /\ [execs[e] EXCEPT !.pc = "save", !.result = res].result = res
    BY <1>12 DEF Exec
  <2>3. \A f \in Executors : f # e => execs'[f] = execs[f]
    BY <1>1, <2>1
  <2>4. execs'[e].uri = execs[e].uri /\ execs'[e].result = res
    BY <1>1, <2>1, <2>2
  <2> QED
    BY <1>2, <1>6, <1>12, <2>3, <2>4, Zenon DEF Succeeded
<1>13. CASE \E e \in Executors : request_metadata(e)
  <2>1. PICK e \in Executors : request_metadata(e)
    BY <1>13
  <2>2. execs[e] \in Exec /\ execs[e].uri \in SeenUris /\ tasks' = tasks
    BY <2>1, ExecType, Zenon DEF request_metadata, TasksAreSeen
  <2>3. CASE Continue(e, "update")
    <3>1. execs' = [execs EXCEPT ![e] = [execs[e] EXCEPT !.pc = "update"]]
      BY <1>1, <2>3 DEF Continue
    <3>2. [execs[e] EXCEPT !.pc = "update"].pc = "update"
      BY <2>2 DEF Exec
    <3> QED
      BY <1>1, <1>7, <2>2, <3>1, <3>2
  <2>4. CASE metadata_url # execs[e].uri /\ Finish(e, "success")
    BY <1>4, <1>12, <2>2, <2>4
  <2>5. CASE Finish(e, "failed")
    BY <1>12, <2>2, <2>5
  <2> QED
    BY <2>1, <2>3, <2>4, <2>5, Zenon DEF request_metadata
<1>14. CASE \E e \in Executors : UpdateMetadata(e)
  <2>1. PICK e \in Executors : UpdateMetadata(e)
    BY <1>14
  <2>2. execs[e] \in Exec /\ tasks' = tasks
    BY <2>1, ExecType, Zenon DEF UpdateMetadata
  <2>3. CASE /\ metadata' = execs[e].uri
             /\ Finish(e, IF execs[e].uri \in InvalidUris THEN "unrecoverable" ELSE "success")
    BY <1>12, <2>2, <2>3
  <2>4. CASE Finish(e, "failed")
    BY <1>12, <2>2, <2>4
  <2> QED
    BY <2>1, <2>3, <2>4, Zenon DEF UpdateMetadata
<1>15. CASE \E e \in Executors : save_task(e)
  <2>1. PICK e \in Executors : save_task(e)
    BY <1>15
  <2>2. execs[e] \in Exec /\ execs[e].uri \in Uris /\ execs[e].pc = "save"
    BY <2>1, ExecType, ZenonT(30) DEF save_task, Exec
  <2>3. execs' = [execs EXCEPT ![e] = Free]
    BY <2>1, Zenon DEF save_task
  <2>4. \A f \in Executors : execs'[f] = execs[f] \/ execs'[f].pc # "save"
    BY <1>1, <2>3
  <2>5. CASE u = execs[e].uri /\ tasks'[u] = Outcome(e)
    <3>1. Outcome(e).status = "success" => execs[e].result = "success"
      BY Zenon DEF Outcome
    <3>2. tasks'[u].status = "success" => Succeeded(u)
      BY <2>2, <2>5, <3>1, Zenon DEF Succeeded
    <3> QED
      BY <1>6, <2>4, <3>2, Zenon DEF Succeeded
  <2>6. CASE tasks'[u] = tasks[u] \/ tasks'[u] = NULL
    BY <1>7, <2>4, <2>6, Zenon
  <2>7. (u = execs[e].uri /\ tasks'[u] = Outcome(e)) \/ tasks'[u] = tasks[u] \/ tasks'[u] = NULL
    BY <1>1, <2>1, <2>2, Zenon DEF save_task
  <2> QED
    BY <2>5, <2>6, <2>7, Zenon
<1>16. CASE Crash
  BY <1>1, <1>7, <1>16 DEF Crash
<1>17. CASE UNCHANGED <<tasks, execs>>
  BY <1>7, <1>17, Zenon
<1> QED
  BY <1>8, <1>9, <1>10, <1>11, <1>13, <1>14, <1>15, <1>16, <1>17, Zenon
     DEF Next, vars, Change, Handle, download_metadata_notifier, start_listener, execute_task, create

\* A row of the table stays, unless a step loses it.
LEMMA RowsStay ==
    ASSUME TypeOK, [Next]_vars, ~lost', NEW u \in Uris, tasks[u] # NULL
    PROVE  tasks'[u] # NULL
<1>1. tasks \in [Uris -> Task \cup {NULL}] /\ \A t \in Task : t # NULL
  BY TaskAssumption, Zenon DEF TypeOK
<1>2. CASE UNCHANGED tasks
  BY <1>2
<1>3. CASE \E v \in Uris, now \in BOOLEAN : new_task_handler(v, now)
  BY <1>1, <1>3 DEF new_task_handler
<1>4. CASE \E e \in Executors : lock_task(e)
  <2>1. PICK e \in Executors : lock_task(e)
    BY <1>4
  <2>2. CASE tasks' = [tasks EXCEPT ![execs[e].uri].status = "running"] /\ execs[e].uri = u
    <3>1. tasks'[u] = [tasks[u] EXCEPT !.status = "running"]
      BY <1>1, <2>2
    <3>2. tasks[u] \in Task /\ \A t \in Task : [t EXCEPT !.status = "running"] \in Task
      BY <1>1 DEF Task
    <3> QED
      BY <1>1, <3>1, <3>2
  <2> QED
    BY <1>1, <2>1, <2>2, Zenon DEF lock_task
<1>5. CASE \E e \in Executors : save_task(e)
  <2>1. PICK e \in Executors : save_task(e)
    BY <1>5
  <2>2. execs[e] \in Exec
    BY <2>1, ExecType, Zenon DEF save_task
  <2>3. Outcome(e) \in Task
    <3>1. /\ Outcome(e).status \in {"success", "failed"} /\ Outcome(e).attempts \in Nat
          /\ Outcome(e) = [status |-> Outcome(e).status, attempts |-> Outcome(e).attempts]
      BY <2>2, TaskAssumption DEF Outcome, Exec
    <3> QED
      BY <3>1 DEF Task
  <2>4. tasks'[u] = tasks[u] \/ tasks'[u] = Outcome(e)
    BY <1>1, <2>1, Zenon DEF save_task
  <2> QED
    BY <1>1, <2>3, <2>4
<1>6. CASE delete \/ Crash \/ \E v \in Uris : purge_old_tasks(v)
  BY <1>6 DEF delete, Crash, purge_old_tasks, Lose
<1> QED
  BY <1>2, <1>3, <1>4, <1>5, <1>6, Zenon
     DEF Next, vars, Change, Handle, download_metadata_notifier, start_listener, Spawn,
         execute_task, request_metadata, UpdateMetadata, create

\* A task that is known stays known: the listener drops one only if the table has
\* it, and its handler inserts it.
LEMMA KnownStays ==
    ASSUME TypeOK, [Next]_vars, ~lost', NEW u \in Uris, Known(u)
    PROVE  Known(u)'
<1>1. tasks \in [Uris -> Task \cup {NULL}] /\ channel \in Seq(Uris)
  BY DEF TypeOK
<1>2. CASE tasks[u] # NULL
  BY <1>2, RowsStay DEF Known
<1>3. CASE \E n \in DOMAIN channel : channel[n] = u
  <2>1. PICK n \in DOMAIN channel : channel[n] = u
    BY <1>3
  <2>2. CASE UNCHANGED channel
    BY <2>1, <2>2 DEF Known
  <2>3. CASE \E i \in 1 .. MaxChanges : download_metadata_notifier(i)
    <3>1. PICK i \in handling : channel' = Append(channel, sanitize(chain[i]))
      BY <2>3 DEF download_metadata_notifier
    <3>2. sanitize(chain[i]) \in Uris
      BY <3>1, UrlType, SanitizeType, Zenon DEF TypeOK
    <3>3. \A v \in Uris : \A m \in DOMAIN channel :
              \E k \in DOMAIN Append(channel, v) : Append(channel, v)[k] = channel[m]
      BY <1>1, ChannelType, Zenon
    <3>4. \E k \in DOMAIN channel' : channel'[k] = u
      BY <2>1, <3>1, <3>2, <3>3, Zenon
    <3> QED
      BY <3>4, Zenon DEF Known
  <2>4. CASE start_listener
    <3>1. channel # << >> /\ channel' = Tail(channel) /\ UNCHANGED tasks
      BY <2>4 DEF start_listener
    <3>2. CASE n # 1
      <4>1. PICK place \in DOMAIN Tail(channel) : Tail(channel)[place] = u
        <5>1. /\ DOMAIN Tail(channel) = 1 .. Len(channel) - 1
              /\ \A k \in 1 .. Len(channel) - 1 : Tail(channel)[k] = channel[k + 1]
          BY <1>1, <3>1
        <5>2. n - 1 \in 1 .. Len(channel) - 1 /\ n - 1 + 1 = n
          BY <1>1, <2>1, <3>2
        <5> QED
          BY <2>1, <5>1, <5>2
      <4>2. \E k \in DOMAIN channel' : channel'[k] = u
        BY <3>1, <4>1, Zenon
      <4> QED
        BY <4>2, Zenon DEF Known
    <3>3. CASE n = 1
      <4>1. Head(channel) = u
        BY <1>1, <2>1, <3>1, <3>3, ChannelType, Zenon
      <4>2. CASE Identical(u)
        BY <3>1, <4>2, Zenon DEF Known, Identical
      <4>3. CASE creating' = creating \cup {<<u, ProcessNow>>}
        <5>1. <<u, ProcessNow>> \in creating' /\ ProcessNow \in BOOLEAN
          BY <4>3, TaskAssumption
        <5> QED
          BY <5>1, Zenon DEF Known
      <4> QED
        BY <2>4, <4>1, <4>2, <4>3 DEF start_listener
    <3> QED
      BY <3>2, <3>3
  <2>5. CASE Crash
    BY <2>5 DEF Crash, Lose
  <2> QED
    BY <2>2, <2>3, <2>4, <2>5, Zenon
       DEF Next, vars, Change, Handle, new_task_handler, purge_old_tasks, Spawn, execute_task,
           lock_task, request_metadata, UpdateMetadata, save_task, delete, create
<1>4. CASE \E now \in BOOLEAN : <<u, now>> \in creating
  <2>1. PICK now \in BOOLEAN : <<u, now>> \in creating
    BY <1>4
  <2>2. CASE <<u, now>> \in creating'
    BY <2>2, Zenon DEF Known
  <2>3. CASE \E v \in Uris, w \in BOOLEAN : new_task_handler(v, w) /\ <<u, now>> = <<v, w>>
    <3>1. PICK v \in Uris, w \in BOOLEAN : new_task_handler(v, w) /\ <<u, now>> = <<v, w>>
      BY <2>3
    <3>2. v = u
      BY <3>1
    <3>3. tasks' = [tasks EXCEPT ![u] = IF @ = NULL THEN NewTask(w) ELSE @]
      BY <3>1, <3>2 DEF new_task_handler, Lose
    <3>4. NewTask(w) \in Task
      BY DEF NewTask, Task
    <3>5. tasks'[u] # NULL
      BY <1>1, <3>3, <3>4, TaskAssumption
    <3> QED
      BY <3>5 DEF Known
  <2>4. CASE \E v \in Uris, w \in BOOLEAN : new_task_handler(v, w) /\ <<u, now>> # <<v, w>>
    BY <2>1, <2>2, <2>4 DEF new_task_handler
  <2>5. CASE creating \subseteq creating'
    BY <2>1, <2>2, <2>5
  <2>6. CASE Crash
    BY <2>6 DEF Crash, Lose
  <2> QED
    BY <2>3, <2>4, <2>5, <2>6, Zenon
       DEF Next, vars, Change, Handle, download_metadata_notifier, start_listener, purge_old_tasks,
           Spawn, execute_task, lock_task, request_metadata, UpdateMetadata, save_task, delete, create
<1> QED
  BY <1>2, <1>3, <1>4, Zenon DEF Known

\* A message is acknowledged only once its task is in the channel.
LEMMA AckedStep ==
    ASSUME TypeOK, TypeOK', lost \/ AckedIsKnown, [Next]_vars
    PROVE  lost' \/ AckedIsKnown'
<1> SUFFICES ASSUME ~lost', NEW i \in DOMAIN chain', i \notin stream'
             PROVE  Known(sanitize(chain[i]))'
  BY Zenon DEF AckedIsKnown
<1>1. lost => lost'
  BY Zenon DEF Next, vars, Change, Handle, download_metadata_notifier, start_listener, new_task_handler,
         purge_old_tasks, Spawn, execute_task, lock_task, request_metadata, UpdateMetadata,
         save_task, delete, create, Crash, Lose
<1>2. AckedIsKnown
  BY <1>1
<1>3. i \in DOMAIN chain
  <2>1. CASE UNCHANGED chain
    BY <2>1
  <2>2. CASE Change
    <3>1. PICK u \in Uris : chain' = Append(chain, u)
      BY <2>2 DEF Change
    <3>2. i \in 1 .. Len(chain) + 1 /\ i # Len(chain) + 1
      BY <2>2, <3>1 DEF Change, TypeOK
    <3> QED
      BY <3>2 DEF TypeOK
  <2> QED
    BY <2>1, <2>2, Zenon
       DEF Next, vars, Handle, download_metadata_notifier, start_listener, new_task_handler,
           purge_old_tasks, Spawn, execute_task, lock_task, request_metadata, UpdateMetadata,
           save_task, delete, create, Crash
<1>4. PICK u \in Uris : u = sanitize(chain[i]) /\ u = sanitize(chain[i])'
  <2>1. chain'[i] = chain[i]
    BY <1>3, Grows, Zenon
  <2>2. sanitize(chain[i])' = sanitize(chain[i])
    BY <2>1, Zenon DEF sanitize
  <2> QED
    BY <1>3, <2>2, UrlType, SanitizeType, Zenon
<1>5. Known(u)'
  <2>1. CASE i \notin stream
    BY <1>2, <1>3, <1>4, <2>1, KnownStays, Zenon DEF AckedIsKnown
  <2>2. CASE i \in stream
    <3>1. \E k \in 1 .. MaxChanges : download_metadata_notifier(k) /\ stream' = stream \ {k}
      BY <2>2, Zenon
         DEF Next, vars, Change, Handle, download_metadata_notifier, start_listener, new_task_handler,
             purge_old_tasks, Spawn, execute_task, lock_task, request_metadata, UpdateMetadata,
             save_task, delete, create, Crash
    <3>2. channel' = Append(channel, u) /\ channel \in Seq(Uris)
      BY <1>4, <2>2, <3>1, Zenon DEF download_metadata_notifier, TypeOK
    <3> QED
      BY <3>2, ChannelType DEF Known
  <2> QED
    BY <2>1, <2>2
<1> QED
  BY <1>4, <1>5, Zenon DEF Known
-----------------------------------------------------------------------------
(* The theorems.                                                           *)

\* The inductive invariant.
THEOREM InvHolds == Spec => []Inv
<1>1. Init => Inv
  <2> SUFFICES ASSUME Init PROVE Inv
    OBVIOUS
  <2>1. TypeOK
    <3>1. << >> \in Seq(Uris) /\ DOMAIN << >> = {} /\ Len(<< >>) = 0
      OBVIOUS
    <3>2. /\ chain \in Seq(Uris) /\ stream \subseteq DOMAIN chain /\ handling \subseteq stream
          /\ at \in 0 .. Len(chain) /\ channel \in Seq(Uris)
      BY <3>1 DEF Init
    <3>3. /\ metadata \in Uris \cup {NULL} /\ reindex \in BOOLEAN /\ creating \subseteq Uris \X BOOLEAN
          /\ lost \in BOOLEAN
      BY Zenon DEF Init
    <3>4. /\ tasks \in [Uris -> Task \cup {NULL}] /\ execs \in [Executors -> Exec \cup {Free}]
          /\ errors \in 0 .. MaxErrors
      BY TaskAssumption DEF Init
    <3> QED
      BY <3>2, <3>3, <3>4 DEF TypeOK
  <2>2. ServedMatchesUrl /\ RowComesFirst /\ ContentIsSeen
    BY DEF Init, ServedMatchesUrl, RowComesFirst, ContentIsSeen
  <2>3. TasksAreSeen /\ SuccessStores
    BY DEF Init, TasksAreSeen, SuccessStores, Succeeded, Free
  <2>4. AckedIsKnown
    BY DEF Init, AckedIsKnown
  <2> QED
    BY <2>1, <2>2, <2>3, <2>4 DEF Inv
<1>2. Inv /\ [Next]_vars => Inv'
  <2> SUFFICES ASSUME Inv, [Next]_vars PROVE Inv'
    OBVIOUS
  <2>1. TypeOK'
    BY TypeStep DEF Inv
  <2>2. ServedMatchesUrl' /\ RowComesFirst' /\ ContentIsSeen'
    BY RowStep DEF Inv
  <2>3. TasksAreSeen' /\ SuccessStores'
    BY SeenStep, SuccessStep DEF Inv
  <2>4. lost' \/ AckedIsKnown'
    BY <2>1, AckedStep DEF Inv
  <2> QED
    BY <2>1, <2>2, <2>3, <2>4 DEF Inv
<1> QED
  BY <1>1, <1>2, PTL DEF Spec

\* A task of the row's URL that was left for another URL is one the row reuses.
LEMMA LeftIsReused ==
    ASSUME TypeOK, at > 0, metadata_url \notin Padded, Left(metadata_url)
    PROVE  Reused
<1>1. /\ metadata_url = chain[at] /\ chain[at] \in Uris /\ at \in Nat
  BY UrlType DEF TypeOK
<1>2. PICK i \in 1 .. at : \E j \in i .. at : sanitize(chain[i]) = chain[at] /\ chain[j] # chain[at]
  BY <1>1 DEF Left
<1>3. PICK j \in i .. at : sanitize(chain[i]) = chain[at] /\ chain[j] # chain[at]
  BY <1>2
<1>4. sanitize(chain[at]) = chain[at]
  BY <1>1, SanitizeType
<1>5. i \in 1 .. at - 1
  <2>1. j # at
    BY <1>3
  <2> QED
    BY <1>1, <1>3, <2>1
<1> QED
  BY <1>3, <1>4, <1>5 DEF Reused

\* The variables keep their types.
THEOREM TypeCorrect == Spec => []TypeOK
<1>1. Inv => TypeOK
  BY DEF Inv
<1> QED
  BY InvHolds, <1>1, PTL

\* A row that is not flagged for a download holds the content of its own URL: the
\* UPDATE of perform_download_metadata_task compares the URL, so that a slow
\* executor cannot overwrite the content of a later one.
THEOREM ServedHolds == Spec => []ServedMatchesUrl
<1>1. Inv => ServedMatchesUrl
  BY DEF Inv
<1> QED
  BY InvHolds, <1>1, PTL

\* If the task of the row's URL has succeeded its content is stored, although an
\* executor that finds another URL in the row ends its task as a success.
THEOREM SucceededHolds == Spec => []SucceededMeansStored
<1>1. Inv => SucceededMeansStored
  <2> SUFFICES ASSUME Inv, NEW u \in Uris \ Padded, tasks[u] # NULL, tasks[u].status = "success",
                      metadata_url = u, ~Reused
               PROVE  metadata = u
    BY DEF SucceededMeansStored
  <2>1. TypeOK /\ SuccessStores
    BY DEF Inv
  <2>2. metadata = u \/ Left(u)
    BY <2>1, Zenon DEF SuccessStores, Succeeded
  <2>3. at > 0
    BY <2>1, UrlType DEF TypeOK
  <2> QED
    BY <2>1, <2>2, <2>3, LeftIsReused, Zenon
<1> QED
  BY InvHolds, <1>1, PTL

\* Unless a task was lost, old content has a task under way that will replace it:
\* a message is acknowledged after its task is sent, the listener drops a task only
\* if the table has it, and a task in the table is found until it succeeds.
THEOREM ReplacedHolds == Spec => []OldContentIsReplaced
<1>1. Inv => OldContentIsReplaced
  <2> SUFFICES ASSUME Inv, at > 0, metadata # metadata_url, ~lost, metadata_url \notin Padded, ~Reused
               PROVE  UnderWay(metadata_url)
    BY DEF OldContentIsReplaced
  <2>1. TypeOK /\ SuccessStores /\ AckedIsKnown
    BY DEF Inv
  <2>2. /\ at \in DOMAIN chain /\ chain[at] = metadata_url /\ metadata_url \in Uris
        /\ sanitize(chain[at]) = metadata_url
    BY <2>1, UrlType, SanitizeType
  <2>3. CASE at \in stream
    BY <2>2, <2>3, Zenon DEF UnderWay
  <2>4. CASE Known(metadata_url)
    <3>1. ~(tasks[metadata_url] # NULL /\ tasks[metadata_url].status = "success")
      BY <2>1, <2>2, LeftIsReused, Zenon DEF SuccessStores, Succeeded
    <3> QED
      BY <2>4, <3>1, Zenon DEF Known, UnderWay
  <2> QED
    BY <2>1, <2>2, <2>3, <2>4 DEF AckedIsKnown
<1> QED
  BY InvHolds, <1>1, PTL
===============================================================================
