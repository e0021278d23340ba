---------------------------- MODULE TaskPipeline ----------------------------
(***************************************************************************)
(* The path of a sub-task through the node: a dispatch stream accepts it   *)
(* (application/accept_task.rs), a bounded channel carries it to the one   *)
(* worker (application/worker.rs), the worker computes it and hands the    *)
(* result to the result outbox (application/result_outbox.rs), whose retry *)
(* loop re-sends what could not be sent.  The prune loop                   *)
(* (application/task_prune.rs) forgets finished rows, and a restart        *)
(* re-queues the unfinished ones (main.rs).                                *)
(*                                                                         *)
(* The SQLite tables `tasks` and `pending_results` survive a crash; every  *)
(* other variable is memory of the process.  One storage call is one step, *)
(* because Storage takes its connection mutex per call; one send is one    *)
(* step, because write_outbound_stream keeps the stream-control mutex from *)
(* open to close.                                                          *)
(***************************************************************************)
EXTENDS Integers, Sequences, FiniteSets

CONSTANTS
  SubTask,          \* keys (orchestrator_pubkey, task_id) of the tables
  Payload,          \* request bodies an orchestrator may dispatch for a key
  Stream,           \* dispatch streams being handled at the same time
  None,             \* no sub-task, no payload
  QueueCap,         \* capacity of the worker channel (100 in main.rs)
  MaxGen,           \* bound: how often one key may be inserted as a new row
  MaxCrash,         \* bound: how often the process may die
  StorageMayFail,   \* whether a storage call may return an error
  RowsAgeInFlight   \* whether a row may reach the retention age while its task
                    \* is unfinished (long downtime, short retention)

ASSUME ConstantsAssumption ==
  /\ None \notin SubTask \cup Payload
  /\ IsFiniteSet(SubTask)
  /\ IsFiniteSet(Stream)
  /\ QueueCap \in Nat \ {0}
  /\ MaxGen \in Nat \ {0}
  /\ MaxCrash \in Nat
  /\ StorageMayFail \in BOOLEAN
  /\ RowsAgeInFlight \in BOOLEAN

VARIABLES
  tasks,      \* table tasks: the row of each key
  outbox,     \* table pending_results
  mode,       \* "down", "restoring" (main before the worker starts) or "up"
  restore,    \* rows read at startup and not yet queued again
  counter,    \* AppState.pending_tasks
  held,       \* keys of WorkLedger.held
  queue,      \* the worker channel
  handler,    \* one accept_compute_task call per stream
  worker,     \* the process_task call of the worker
  retry,      \* the pass of the result retry loop
  gen,        \* ghost: how many rows have been inserted for each key
  sent,       \* ghost: results handed to the transport without error
  retained,   \* ghost: results whose proof went to retain_after_result
  crashes     \* ghost: crashes so far

durable == <<tasks, outbox>>
volatile == <<mode, restore, counter, held, queue, handler, worker, retry>>
ghosts == <<gen, sent, retained, crashes>>
vars == <<durable, volatile, ghosts>>

-----------------------------------------------------------------------------
(* Data.                                                                   *)

Terminal == {"completed", "failed"}
Row == [status : {"absent", "pending"} \cup Terminal,
        payload : Payload \cup {None},
        old : BOOLEAN]
NoRow == [status |-> "absent", payload |-> None, old |-> FALSE]

\* A ComputeTask; gen tells apart two acceptances of the same key (0: not
\* inserted yet).
Task == [key : SubTask, payload : Payload, gen : 0..MaxGen]
NoTask == [key |-> None, payload |-> None, gen |-> 0]

\* A pending_results row: the wire body is the outcome computed for (key, gen).
Entry == [key : SubTask, gen : 0..MaxGen, res : {"ok", "err"}]
NoEntry == [key |-> None, gen |-> 0, res |-> "none"]

IdleHandler == [pc |-> "idle", task |-> NoTask]
IdleWorker == [pc |-> "idle", task |-> NoTask, res |-> "none"]
IdleRetry == [pc |-> "sleep", todo |-> {}, cur |-> NoEntry]

TypeOK ==
  /\ tasks \in [SubTask -> Row]
  /\ outbox \in SUBSET Entry
  /\ mode \in {"down", "restoring", "up"}
  /\ restore \in SUBSET SubTask
  /\ counter \in Nat
  /\ held \in SUBSET SubTask
  /\ queue \in Seq(Task)
  /\ Len(queue) <= QueueCap
  /\ handler \in [Stream -> [pc : {"idle", "load", "save", "count", "send"},
                             task : Task \cup {NoTask}]]
  /\ worker \in [pc : {"idle", "compute", "status", "persist", "restatus",
                       "send", "delete", "retain", "finish"},
                 task : Task \cup {NoTask},
                 res : {"none", "ok", "err"}]
  /\ retry \in [pc : {"sleep", "send", "delete", "load"},
                todo : SUBSET Entry,
                cur : Entry \cup {NoEntry}]
  /\ gen \in [SubTask -> 0..MaxGen]
  /\ sent \in SUBSET (SubTask \X (0..MaxGen))
  /\ retained \in SUBSET (SubTask \X (0..MaxGen))
  /\ crashes \in 0..MaxCrash

Init ==
  /\ tasks = [k \in SubTask |-> NoRow]
  /\ outbox = {}
  /\ mode = "down"
  /\ restore = {}
  /\ counter = 0
  /\ held = {}
  /\ queue = <<>>
  /\ handler = [s \in Stream |-> IdleHandler]
  /\ worker = IdleWorker
  /\ retry = IdleRetry
  /\ gen = [k \in SubTask |-> 0]
  /\ sent = {} /\ retained = {}
  /\ crashes = 0

-----------------------------------------------------------------------------
(* Storage (infra/storage.rs).                                             *)

\* load_task finds a row.
HasRow(k) == tasks[k].status # "absent"

\* save_task: INSERT of a new row, whose UNIQUE constraint is the guard of the
\* caller.
SaveTask(k, p) ==
  /\ tasks' = [tasks EXCEPT ![k] = [status |-> "pending", payload |-> p, old |-> FALSE]]
  /\ gen' = [gen EXCEPT ![k] = @ + 1]

\* update_status: UPDATE of the row if there is one.
UpdateStatus(k, st) ==
  tasks' = IF HasRow(k) THEN [tasks EXCEPT ![k].status = st] ELSE tasks

\* upsert_pending_result: the new wire body replaces the row of the key.
UpsertResult(e) == outbox' = {x \in outbox : x.key # e.key} \cup {e}

\* delete_pending_result: by key, whatever the body.
DeleteResult(k) == outbox' = {x \in outbox : x.key # k}

\* Mutant: the NOT EXISTS clause is missing.
PrunableIgnoringOutbox ==
  {k \in SubTask : tasks[k].status \in Terminal /\ tasks[k].old}

\* Rows prune_terminal_tasks may delete.
Prunable ==
  {k \in SubTask : /\ tasks[k].status \in Terminal
                   /\ tasks[k].old
                   /\ \A e \in outbox : e.key # k}

\* Bound: a row stays once its key has been inserted MaxGen times.
MayBeForgotten(k) == gen[k] < MaxGen

StatusOf(res) == IF res = "ok" THEN "completed" ELSE "failed"

-----------------------------------------------------------------------------
(* Accepting a dispatch (accept_task.rs, dispatch_handler.rs).             *)

Goto(s, pc) == handler' = [handler EXCEPT ![s] = [pc |-> pc, task |-> @.task]]
Done(s) == handler' = [handler EXCEPT ![s] = IdleHandler]

\* A verified, valid dispatch arrives on a stream of its own.
Dispatch(s, k, p) ==
  /\ mode = "up"
  /\ handler[s].pc = "idle"
  /\ handler' = [handler EXCEPT
       ![s] = [pc |-> "load", task |-> [key |-> k, payload |-> p, gen |-> 0]]]
  /\ UNCHANGED <<durable, mode, restore, counter, held, queue, worker, retry, ghosts>>

\* load_task: an existing row ends the call, as a duplicate or as a conflict;
\* so does a storage error.
AcceptLoad(s) ==
  /\ handler[s].pc = "load"
  /\ \/ ~HasRow(handler[s].task.key) /\ Goto(s, "save")
     \/ (HasRow(handler[s].task.key) \/ StorageMayFail) /\ Done(s)
  /\ UNCHANGED <<durable, mode, restore, counter, held, queue, worker, retry, ghosts>>

\* Mutant: a UNIQUE violation is not an error.
AcceptSaveIgnoringConflict(s) ==
  LET t == handler[s].task IN
  /\ handler[s].pc = "save"
  /\ IF HasRow(t.key) THEN UNCHANGED <<tasks, gen>> ELSE SaveTask(t.key, t.payload)
  /\ handler' = [handler EXCEPT ![s] = [pc |-> "count",
                                        task |-> [t EXCEPT !.gen = gen'[t.key]]]]
  /\ UNCHANGED <<outbox, mode, restore, counter, held, queue, worker, retry,
                 sent, retained, crashes>>

\* save_task: another stream may have inserted the row since the lookup; the
\* UNIQUE violation ends the call like the lookup would have.
AcceptSave(s) ==
  LET t == handler[s].task IN
  /\ handler[s].pc = "save"
  /\ \/ /\ ~HasRow(t.key)
        /\ SaveTask(t.key, t.payload)
        /\ handler' = [handler EXCEPT ![s] = [pc |-> "count",
                                              task |-> [t EXCEPT !.gen = gen'[t.key]]]]
     \/ /\ HasRow(t.key) \/ StorageMayFail
        /\ Done(s)
        /\ UNCHANGED <<tasks, gen>>
  /\ UNCHANGED <<outbox, mode, restore, counter, held, queue, worker, retry,
                 sent, retained, crashes>>

\* pending_tasks.fetch_add and WorkLedger::hold.
AcceptCount(s) ==
  /\ handler[s].pc = "count"
  /\ counter' = counter + 1
  /\ held' = held \cup {handler[s].task.key}
  /\ Goto(s, "send")
  /\ UNCHANGED <<durable, mode, restore, queue, worker, retry, ghosts>>

\* Mutant: the channel has no bound.
AcceptEnqueueUnbounded(s) ==
  /\ handler[s].pc = "send"
  /\ queue' = Append(queue, handler[s].task)
  /\ Done(s)
  /\ UNCHANGED <<durable, mode, restore, counter, held, worker, retry, ghosts>>

\* AppState::enqueue: the send waits while the channel is full.  It fails only
\* once the receiver is gone, that is when the worker task has ended; the worker
\* loop has no exit but a panic, so the QueueFull path is not modelled.
AcceptEnqueue(s) ==
  /\ handler[s].pc = "send"
  /\ Len(queue) < QueueCap
  /\ queue' = Append(queue, handler[s].task)
  /\ Done(s)
  /\ UNCHANGED <<durable, mode, restore, counter, held, worker, retry, ghosts>>

-----------------------------------------------------------------------------
(* The worker (worker.rs) and the first delivery (result_outbox.rs).       *)

WorkerGoto(pc) == worker' = [worker EXCEPT !.pc = pc]

\* A send ends with or without an error; no answer of the orchestrator is read, so
\* "sent" is what the node knows.
Send(k, g, ok) == sent' = IF ok THEN sent \cup {<<k, g>>} ELSE sent

\* rx.recv() and WorkLedger::start.
WorkerRecv ==
  /\ mode = "up"
  /\ worker.pc = "idle"
  /\ queue # <<>>
  /\ worker' = [pc |-> "compute", task |-> Head(queue), res |-> "none"]
  /\ queue' = Tail(queue)
  /\ UNCHANGED <<durable, mode, restore, counter, held, handler, retry, ghosts>>

\* execute_compute returned, or the deadline had passed in the queue.
WorkerCompute ==
  /\ worker.pc = "compute"
  /\ \E r \in {"ok", "err"} : worker' = [worker EXCEPT !.pc = "status", !.res = r]
  /\ UNCHANGED <<durable, mode, restore, counter, held, queue, handler, retry, ghosts>>

\* Mutant: only deliver_result writes the status.
WorkerStatusLater ==
  /\ worker.pc = "status"
  /\ WorkerGoto("persist")
  /\ UNCHANGED <<durable, mode, restore, counter, held, queue, handler, retry, ghosts>>

\* The status is written before the result is stored; an error is only logged.
WorkerStatus ==
  /\ worker.pc = "status"
  /\ \/ UpdateStatus(worker.task.key, StatusOf(worker.res))
     \/ StorageMayFail /\ UNCHANGED tasks
  /\ WorkerGoto("persist")
  /\ UNCHANGED <<outbox, mode, restore, counter, held, queue, handler, retry, ghosts>>

\* deliver_result: the wire body goes to pending_results; an error ends the
\* delivery.
WorkerPersist ==
  /\ worker.pc = "persist"
  /\ \/ /\ UpsertResult([key |-> worker.task.key, gen |-> worker.task.gen,
                         res |-> worker.res])
        /\ WorkerGoto("restatus")
     \/ /\ StorageMayFail
        /\ WorkerGoto("finish")
        /\ UNCHANGED outbox
  /\ UNCHANGED <<tasks, mode, restore, counter, held, queue, handler, retry, ghosts>>

\* deliver_result writes the status once more.
WorkerRestatus ==
  /\ worker.pc = "restatus"
  /\ \/ UpdateStatus(worker.task.key, StatusOf(worker.res))
     \/ StorageMayFail /\ UNCHANGED tasks
  /\ WorkerGoto("send")
  /\ UNCHANGED <<outbox, mode, restore, counter, held, queue, handler, retry, ghosts>>

\* try_deliver_pending: after an error the row waits for the retry loop.
WorkerSend ==
  /\ worker.pc = "send"
  /\ \E ok \in BOOLEAN :
       /\ Send(worker.task.key, worker.task.gen, ok)
       /\ WorkerGoto(IF ok THEN "delete" ELSE "finish")
  /\ UNCHANGED <<durable, mode, restore, counter, held, queue, handler, retry,
                 gen, retained, crashes>>

\* delete_pending_result; only a success of it leads on to the proof.
WorkerDelete ==
  /\ worker.pc = "delete"
  /\ \/ /\ DeleteResult(worker.task.key)
        /\ WorkerGoto(IF worker.res = "ok" THEN "retain" ELSE "finish")
     \/ /\ StorageMayFail
        /\ WorkerGoto("finish")
        /\ UNCHANGED outbox
  /\ UNCHANGED <<tasks, mode, restore, counter, held, queue, handler, retry, ghosts>>

\* retain_after_result keeps the proof for a later PCS request.
WorkerRetain ==
  /\ worker.pc = "retain"
  /\ retained' = retained \cup {<<worker.task.key, worker.task.gen>>}
  /\ WorkerGoto("finish")
  /\ UNCHANGED <<durable, mode, restore, counter, held, queue, handler, retry,
                 gen, sent, crashes>>

\* Mutant: the hold is not released.
WorkerFinishHolding ==
  /\ worker.pc = "finish"
  /\ counter' = counter - 1
  /\ worker' = IdleWorker
  /\ UNCHANGED <<durable, mode, restore, held, queue, handler, retry, ghosts>>

\* pending_tasks.fetch_sub and WorkLedger::release, one right after the other: a
\* bid reads the ledger and the counter apart and never compares them, so the two
\* are one step here.
WorkerFinish ==
  /\ worker.pc = "finish"
  /\ counter' = counter - 1
  /\ held' = held \ {worker.task.key}
  /\ worker' = IdleWorker
  /\ UNCHANGED <<durable, mode, restore, queue, handler, retry, ghosts>>

WorkerStep ==
  \/ WorkerRecv \/ WorkerCompute \/ WorkerStatus \/ WorkerPersist
  \/ WorkerRestatus \/ WorkerSend \/ WorkerDelete \/ WorkerRetain \/ WorkerFinish

-----------------------------------------------------------------------------
(* The result retry loop (result_outbox.rs, spawn_retry_loop).             *)

\* list_pending_results: a pass works on this copy of the table.
RetryList ==
  /\ mode = "up"
  /\ retry.pc = "sleep"
  /\ outbox # {}
  /\ retry' = [retry EXCEPT !.pc = "send", !.todo = outbox]
  /\ UNCHANGED <<durable, mode, restore, counter, held, queue, handler, worker, ghosts>>

AfterEntry(todo) == IF todo = {} THEN "sleep" ELSE "send"

\* send_result_wire of one entry of the copy; an error leaves its row.
RetrySend(e, ok) ==
  /\ retry.pc = "send"
  /\ e \in retry.todo
  /\ Send(e.key, e.gen, ok)
  /\ LET rest == retry.todo \ {e} IN
     retry' = IF ok THEN [pc |-> "delete", todo |-> rest, cur |-> e]
                    ELSE [retry EXCEPT !.pc = AfterEntry(rest), !.todo = rest]
  /\ UNCHANGED <<durable, mode, restore, counter, held, queue, handler, worker,
                 gen, retained, crashes>>

\* Mutant: a delivered entry stays in the table.
RetryDeleteNothing ==
  /\ retry.pc = "delete"
  /\ retry' = [retry EXCEPT !.pc = "load"]
  /\ UNCHANGED <<durable, mode, restore, counter, held, queue, handler, worker, ghosts>>

\* delete_pending_result by the key of the copied entry; an error is logged.
RetryDelete ==
  /\ retry.pc = "delete"
  /\ \/ DeleteResult(retry.cur.key)
     \/ StorageMayFail /\ UNCHANGED outbox
  /\ retry' = [retry EXCEPT !.pc = "load"]
  /\ UNCHANGED <<tasks, mode, restore, counter, held, queue, handler, worker, ghosts>>

\* Mutant: only the first delivery retains the proof.
RetryRetainNothing ==
  /\ retry.pc = "load"
  /\ retry' = [retry EXCEPT !.pc = AfterEntry(retry.todo), !.cur = NoEntry]
  /\ UNCHANGED <<durable, mode, restore, counter, held, queue, handler, worker, ghosts>>

\* load_task, extract_proof_from_result_wire and retain_after_result: without a
\* row, or with an error result, no proof is kept.
RetryRetain ==
  /\ retry.pc = "load"
  /\ \/ /\ HasRow(retry.cur.key) /\ retry.cur.res = "ok"
        /\ retained' = retained \cup {<<retry.cur.key, retry.cur.gen>>}
     \/ /\ ~HasRow(retry.cur.key) \/ retry.cur.res = "err" \/ StorageMayFail
        /\ UNCHANGED retained
  /\ retry' = [retry EXCEPT !.pc = AfterEntry(retry.todo), !.cur = NoEntry]
  /\ UNCHANGED <<durable, mode, restore, counter, held, queue, handler, worker,
                 gen, sent, crashes>>

-----------------------------------------------------------------------------
(* Retention (task_prune.rs).                                              *)

\* The process still works on the key, or will after the restart.
Unfinished(k) ==
  \/ tasks[k].status = "pending"
  \/ worker.task.key = k
  \/ \E e \in retry.todo \cup {retry.cur} : e.key = k

\* created_at falls behind the retention cutoff.
Age(k) ==
  /\ HasRow(k) /\ ~tasks[k].old
  /\ RowsAgeInFlight \/ ~Unfinished(k)
  /\ tasks' = [tasks EXCEPT ![k].old = TRUE]
  /\ UNCHANGED <<outbox, volatile, ghosts>>

\* run_prune: one DELETE for all rows that qualify.
Prune ==
  LET gone == {k \in Prunable : MayBeForgotten(k)} IN
  /\ mode = "up"
  /\ gone # {}
  /\ tasks' = [k \in SubTask |-> IF k \in gone THEN NoRow ELSE tasks[k]]
  /\ UNCHANGED <<outbox, volatile, ghosts>>

-----------------------------------------------------------------------------
(* Crash and restart (main.rs).                                            *)

\* The process dies: memory is lost, the tables stay.
Crash ==
  /\ mode # "down"
  /\ crashes < MaxCrash
  /\ crashes' = crashes + 1
  /\ mode' = "down"
  /\ restore' = {} /\ counter' = 0 /\ held' = {} /\ queue' = <<>>
  /\ handler' = [s \in Stream |-> IdleHandler]
  /\ worker' = IdleWorker
  /\ retry' = IdleRetry
  /\ UNCHANGED <<durable, gen, sent, retained>>

\* Mutant: rows of every status are restored.
BootAllRows ==
  /\ mode = "down"
  /\ mode' = "restoring"
  /\ restore' = {k \in SubTask : HasRow(k)}
  /\ counter' = Cardinality(restore')
  /\ UNCHANGED <<durable, held, queue, handler, worker, retry, ghosts>>

\* Mutant: no row is restored.
BootFresh ==
  /\ mode = "down"
  /\ mode' = "restoring"
  /\ restore' = {}
  /\ counter' = 0
  /\ UNCHANGED <<durable, held, queue, handler, worker, retry, ghosts>>

\* Mutant: the counter starts at zero.
BootUncounted ==
  /\ mode = "down"
  /\ mode' = "restoring"
  /\ restore' = {k \in SubTask : tasks[k].status = "pending"}
  /\ counter' = 0
  /\ UNCHANGED <<durable, held, queue, handler, worker, retry, ghosts>>

\* get_pending_tasks; pending_tasks starts at the number of rows.
Boot ==
  /\ mode = "down"
  /\ mode' = "restoring"
  /\ restore' = {k \in SubTask : tasks[k].status = "pending"}
  /\ counter' = Cardinality(restore')
  /\ UNCHANGED <<durable, held, queue, handler, worker, retry, ghosts>>

\* WorkLedger::hold for the next row, in the order of created_at (whole seconds,
\* so any order).
RestoreHold(k) ==
  /\ mode = "restoring"
  /\ k \in restore
  /\ restore \cap held = {}
  /\ held' = held \cup {k}
  /\ UNCHANGED <<durable, mode, restore, counter, queue, handler, worker, retry, ghosts>>

\* tx.send of the row just held; it waits while the channel is full, and nothing
\* receives yet.
RestoreTask(k) ==
  /\ mode = "restoring"
  /\ k \in restore \cap held
  /\ Len(queue) < QueueCap
  /\ queue' = Append(queue, [key |-> k, payload |-> tasks[k].payload, gen |-> gen[k]])
  /\ restore' = restore \ {k}
  /\ UNCHANGED <<durable, mode, counter, held, handler, worker, retry, ghosts>>

\* Mutant: the tasks are spawned before the rows are queued.
StartEarly ==
  /\ mode = "restoring"
  /\ mode' = "up"
  /\ UNCHANGED <<durable, restore, counter, held, queue, handler, worker, retry, ghosts>>

\* The worker, the P2P host, the retry loop and the prune loop are spawned.
Start ==
  /\ mode = "restoring"
  /\ restore = {}
  /\ mode' = "up"
  /\ UNCHANGED <<durable, restore, counter, held, queue, handler, worker, retry, ghosts>>

-----------------------------------------------------------------------------

Next ==
  \/ \E s \in Stream, k \in SubTask, p \in Payload : Dispatch(s, k, p)
  \/ \E s \in Stream : \/ AcceptLoad(s) \/ AcceptSave(s)
                       \/ AcceptCount(s) \/ AcceptEnqueue(s)
  \/ WorkerStep
  \/ RetryList \/ RetryDelete \/ RetryRetain
  \/ \E e \in retry.todo, ok \in BOOLEAN : RetrySend(e, ok)
  \/ \E k \in SubTask : Age(k) \/ RestoreHold(k) \/ RestoreTask(k)
  \/ Prune \/ Crash \/ Boot \/ Start

Spec == Init /\ [][Next]_vars

(***************************************************************************)
(* Fairness.  Tokio polls every ready task; the channel hands its permits  *)
(* to waiting senders in arrival order, so a waiting send is not overtaken *)
(* for ever (SF); compute is bounded by its timeout and a stream ends with *)
(* an error when the connection is lost; a supervisor starts the process   *)
(* again; and a retry that is repeated for ever gets through once (SF).    *)
(* Dispatches, ageing, pruning and crashes owe nothing.                    *)
(***************************************************************************)
Fairness ==
  /\ \A s \in Stream : /\ WF_vars(AcceptLoad(s) \/ AcceptSave(s) \/ AcceptCount(s))
                       /\ SF_vars(AcceptEnqueue(s))
  /\ WF_vars(WorkerStep)
  /\ WF_vars(RetryList \/ RetryDelete \/ RetryRetain)
  /\ WF_vars(\E e \in retry.todo, ok \in BOOLEAN : RetrySend(e, ok))
  /\ \A k \in SubTask : SF_vars(\E e \in retry.todo : e.key = k /\ RetrySend(e, TRUE))
  /\ WF_vars(Boot \/ Start \/ \E k \in SubTask : RestoreHold(k) \/ RestoreTask(k))

FairSpec == Spec /\ Fairness

-----------------------------------------------------------------------------
(* Where a task is between its row and its result.                         *)

\* The call of stream s has inserted the row and not yet queued the task.
Accepting(s) == handler[s].pc \in {"count", "send"}

\* The worker has the task and its row does not say so yet.
Computing == worker.pc \in {"compute", "status"}

Queued(k) == \E i \in 1..Len(queue) : queue[i].key = k

\* Tasks still to be computed, wherever they are.
Owned == {handler[s].task : s \in {x \in Stream : Accepting(x)}}
           \cup {queue[i] : i \in 1..Len(queue)}
           \cup (IF Computing THEN {worker.task} ELSE {})

Busy == IF worker.pc = "idle" THEN 0 ELSE 1
Counted == {s \in Stream : handler[s].pc = "send"}

(* Safety.                                                                 *)

\* A sub-task is in at most one place on its way to core (a stream about to
\* queue it, the channel, the worker, the rows still to be restored), however
\* dispatches of the same task_id race in accept_compute_task and with a
\* restart: no sub-task is computed twice at once or queued behind itself.
NoDoubleQueue ==
  /\ \A s, t \in Stream :
       Accepting(s) /\ Accepting(t) /\ handler[s].task.key = handler[t].task.key => s = t
  /\ \A i, j \in 1..Len(queue) : queue[i].key = queue[j].key => i = j
  /\ \A s \in Stream : Accepting(s) => ~Queued(handler[s].task.key)
  /\ Computing =>
       /\ ~Queued(worker.task.key)
       /\ \A s \in Stream : Accepting(s) => handler[s].task.key # worker.task.key
  /\ \A k \in restore : ~Queued(k)

\* Whatever is on its way to core has a pending row with the same payload, so
\* a crash at any moment re-queues exactly what was accepted.
OwnedRowPending ==
  \A t \in Owned : /\ tasks[t.key].status = "pending"
                   /\ tasks[t.key].payload = t.payload
                   /\ gen[t.key] = t.gen

\* In a running node every pending row is on its way to core: no accepted task
\* waits for the next restart.
PendingRowOwned ==
  \A k \in SubTask :
    mode = "up" /\ tasks[k].status = "pending" => \E t \in Owned : t.key = k

\* AppState.pending_tasks, which /status reports and bids carry, is the number
\* of tasks accepted and not finished, and never wraps below zero.
CounterExact ==
  counter = Cardinality(restore) + Cardinality(Counted) + Len(queue) + Busy

\* WorkLedger.held, from which bids estimate the waiting time, holds exactly the
\* counted sub-tasks, and during a restart also the one row that main is about to
\* send: no hold leaks and none is released early, even when that send blocks.
HeldExact ==
  /\ held \ restore = {handler[s].task.key : s \in Counted}
                        \cup {queue[i].key : i \in 1..Len(queue)}
                        \cup (IF worker.pc = "idle" THEN {} ELSE {worker.task.key})
  /\ \A j, k \in restore \cap held : j = k

\* A sub-task whose row says completed or failed has a result that was handed
\* to the transport, is in pending_results, or is about to be stored there.
ResultTracked ==
  \A k \in SubTask : tasks[k].status \in Terminal =>
    \/ <<k, gen[k]>> \in sent
    \/ \E e \in outbox : e.key = k /\ e.gen = gen[k]
    \/ worker.pc = "persist" /\ worker.task.key = k

\* A pending_results row means the row is not computed again, across restarts
\* too: its tasks row has left pending before the result was stored.
OutboxNotRecomputed ==
  \A e \in outbox : e.gen = gen[e.key] => tasks[e.key].status # "pending"

\* A stored result leaves pending_results only after that very result was
\* handed to the transport: neither a late delete of the retry loop's stale
\* copy, nor an upsert for a re-dispatched task_id, drops an unsent one.
UnsentKept ==
  [][\A e \in outbox :
       \/ \E x \in outbox' : x.key = e.key /\ x.gen = e.gen
       \/ <<e.key, e.gen>> \in sent]_vars

\* "Retain the proof on the retry path too": the proof of a delivered result is
\* retained for a PCS request, whichever of the worker and the retry loop delivered
\* it or both did, as long as its row is there; only a crash between the two may
\* lose it.
ProofRetained ==
  \A k \in SubTask :
    /\ crashes = 0 /\ tasks[k].status = "completed"
    /\ <<k, gen[k]>> \in sent /\ \A e \in outbox : e.key # k
    => \/ <<k, gen[k]>> \in retained
       \/ worker.pc = "retain" /\ worker.task.key = k
       \/ retry.pc = "load" /\ retry.cur.key = k

(* Liveness.                                                               *)

\* An accepted sub-task is computed, through crashes and restarts.
PendingComputed ==
  \A k \in SubTask : (tasks[k].status = "pending") ~> (tasks[k].status \in Terminal)

-----------------------------------------------------------------------------
(* The abstract specification.                                             *)

\* How far the latest acceptance of a key has come, as the orchestrator could
\* tell: from the stored result, the sends and the row, in that order.
StageOf(k) ==
  IF gen[k] = 0 THEN "none"
  ELSE IF \E e \in outbox : e.key = k /\ e.gen = gen[k] THEN "stored"
  ELSE IF <<k, gen[k]>> \in sent THEN "settled"
  ELSE IF tasks[k].status = "pending" THEN "accepted"
  ELSE IF worker.pc = "persist" /\ worker.task.key = k THEN "finished"
  ELSE "lost"

Delivery == INSTANCE TaskDelivery WITH
  WritesMayFail <- StorageMayFail,
  turn <- gen,
  stage <- [k \in SubTask |-> StageOf(k)],
  delivered <- sent

\* The races of streams, worker, retry loop, prune loop and restarts over the
\* two tables implement TaskDelivery: only the result of the latest acceptance
\* is ever handed over, no stored result is dropped unsent, no finished
\* acceptance is taken up again, and a result is lost only between the
\* status write of process_task and the upsert of deliver_result.
ImplementsDelivery == Delivery!Spec

\* Every accepted sub-task comes to its end through crashes and restarts: its
\* result is handed over and its pending_results row is gone, or it was lost
\* in the one window where that may happen.
AcceptanceEnds == Delivery!Ends

=============================================================================
