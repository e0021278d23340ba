--------------------------- MODULE DeliveryProofs ---------------------------
(***************************************************************************)
(* TaskPipeline implements TaskDelivery, and what its tables, holds and     *)
(* retained proofs say is exact, for every value of the constants, as long  *)
(* as no row reaches the retention age while its task is unfinished.        *)
(*                                                                          *)
(* The argument is about generations: whatever still carries a key, in the  *)
(* tables, in the worker or in the copies of the retry loop, carries it for *)
(* the latest acceptance, because its row is still there and keeps every    *)
(* later dispatch out (DeliveryInv).  Without storage errors the row also   *)
(* says what the results say (StatusExact).                                 *)
(***************************************************************************)
EXTENDS TaskPipelineProofs

Stored(k) == \E e \in outbox : e.key = k /\ e.gen = gen[k]
Sent(k) == <<k, gen[k]>> \in sent
Present(k) == tasks[k].status # "absent"

\* Sends and rows belong to acceptances there have been.
Numbered ==
  /\ \A k \in SubTask : Present(k) => gen[k] # 0
  /\ \A k \in SubTask, g \in 0..MaxGen : <<k, g>> \in sent => g <= gen[k]

\* A stored result is that of the latest acceptance, whose row is there.
OutboxCurrent ==
  /\ \A e \in outbox : e.gen = gen[e.key] /\ Present(e.key)
  /\ \A e, f \in outbox : e.key = f.key => e = f

\* So is the worker's task, and behind the upsert its result is stored until
\* it was sent.
WorkerCurrent ==
  LET k == worker.task.key IN
  /\ worker.pc # "idle" => worker.task.gen = gen[k]
  /\ worker.pc \in {"restatus", "send"} => Stored(k) \/ Sent(k)
  /\ worker.pc \in {"delete", "retain"} => Sent(k)

\* A copied entry is current too: it is still stored, or it was sent and its row
\* is too young to prune.
Listed(e) ==
  /\ e.gen = gen[e.key] /\ Present(e.key)
  /\ Stored(e.key) \/ (Sent(e.key) /\ ~tasks[e.key].old)

RetryCurrent ==
  /\ \A e \in retry.todo : Listed(e)
  /\ \A e, f \in retry.todo : e.key = f.key => e = f
  /\ retry.pc = "delete" =>
       /\ Listed(retry.cur) /\ Sent(retry.cur.key)
       /\ \A e \in retry.todo : e.key # retry.cur.key

DeliveryInv == Numbered /\ OutboxCurrent /\ WorkerCurrent /\ RetryCurrent

\* Without storage errors the row says what the worker and the results say: no
\* pending row has a result, and a result's outcome is the status of its row.
Fresh(k) == ~Stored(k) /\ ~Sent(k)

RowsFresh == \A k \in SubTask : tasks[k].status = "pending" => Fresh(k)

WorkerExact ==
  /\ worker.pc = "persist" => Fresh(worker.task.key)
  /\ worker.pc \notin {"idle", "compute", "status"} =>
       tasks[worker.task.key].status = StatusOf(worker.res)

EntriesExact == \A e \in outbox \cup retry.todo : tasks[e.key].status = StatusOf(e.res)

CurExact ==
  retry.pc \in {"delete", "load"} =>
    /\ <<retry.cur.key, retry.cur.gen>> \in sent
    /\ Present(retry.cur.key) /\ retry.cur.gen = gen[retry.cur.key] =>
         tasks[retry.cur.key].status = StatusOf(retry.cur.res)

StatusExact == RowsFresh /\ WorkerExact /\ EntriesExact /\ CurExact

\* Without storage errors and crashes, a delivered proof is retained or about
\* to be.
Retaining(k) ==
  \/ <<k, gen[k]>> \in retained
  \/ worker.pc = "retain" /\ worker.task.key = k
  \/ retry.pc = "load" /\ retry.cur.key = k /\ retry.cur.gen = gen[k]

RetainedInv ==
  crashes = 0 =>
    \A k \in SubTask :
      tasks[k].status = "completed" /\ Sent(k) /\ (\A e \in outbox : e.key # k) => Retaining(k)

\* The places a sub-task can be in on its way through the node.
AtStream(k) == \E s \in Stream : Accepting(s) /\ handler[s].task.key = k
AtSend(k) == \E s \in Stream : handler[s].pc = "send" /\ handler[s].task.key = k
AtWorker(k) == worker.pc # "idle" /\ worker.task.key = k

\* Every pending row has its task in one of them, or waits for main.
PendingInv ==
  \A k \in SubTask : mode # "down" /\ tasks[k].status = "pending" =>
    k \in restore \/ AtStream(k) \/ Queued(k) \/ (Computing /\ AtWorker(k))

\* Whatever is held is in one of them or is the one row main is about to send.
HeldInv ==
  /\ \A k : k \in held /\ k \notin restore <=> AtSend(k) \/ Queued(k) \/ AtWorker(k)
  /\ \A j, k \in restore : j \in held /\ k \in held => j = k

-----------------------------------------------------------------------------
(* Generations.                                                            *)

USE DEF durable, volatile, ghosts

\* Facts about types the steps below share.
LEMMA Keys ==
  ASSUME TypeInv
  PROVE  /\ \A e \in outbox \cup retry.todo : e.key \in SubTask /\ e.gen \in 0..MaxGen
         /\ retry.pc \in {"delete", "load"} => retry.cur.key \in SubTask /\ retry.cur.gen \in 0..MaxGen
         /\ worker.pc # "idle" => worker.task.key \in SubTask /\ worker.task.gen \in 0..MaxGen
         /\ gen \in [SubTask -> 0..MaxGen] /\ MaxGen \in Nat
         /\ tasks \in [SubTask -> Row]
<1>1. \A e \in Entry : e.key \in SubTask /\ e.gen \in 0..MaxGen
  BY DEF Entry
<1>2. \A t \in Task : t.key \in SubTask /\ t.gen \in 0..MaxGen
  BY DEF Task
<1> QED BY <1>1, <1>2, ConstantsAssumption DEF TypeInv, TypeOK, Shape

\* Steps of the streams and of main, and those of the worker away from the
\* tables: nothing that carries a result changes.
LEMMA QuietDelivery ==
  ASSUME TypeInv, DeliveryInv, UNCHANGED <<tasks, outbox, gen, sent, retry>>,
         worker'.pc # "idle" => worker'.task.gen = gen[worker'.task.key],
         worker'.pc \notin {"restatus", "send", "delete", "retain"}
  PROVE  DeliveryInv'
<1>1. \A k : (Stored(k)' <=> Stored(k)) /\ (Sent(k)' <=> Sent(k)) /\ (Present(k)' <=> Present(k))
  BY DEF Stored, Sent, Present
<1>2. Numbered' /\ OutboxCurrent'
  BY <1>1 DEF DeliveryInv, Numbered, OutboxCurrent
<1>3. WorkerCurrent'
  BY DEF WorkerCurrent
<1>4. RetryCurrent'
  BY <1>1 DEF DeliveryInv, RetryCurrent, Listed
<1> QED BY <1>2, <1>3, <1>4 DEF DeliveryInv

\* A row is inserted: its key was nowhere.
LEMMA SaveDelivery ==
  ASSUME TypeInv, OwnInv, DeliveryInv, NEW s \in Stream, AcceptSave(s)
  PROVE  DeliveryInv'
<1>0. PICK k \in SubTask : k = handler[s].task.key
  BY TaskKeys DEF AcceptSave
<1>1. CASE UNCHANGED <<tasks, gen>>
  <2>1. /\ UNCHANGED <<tasks, outbox, gen, sent, retry, worker>>
    BY <1>1 DEF AcceptSave
  <2> QED BY <2>1 DEF DeliveryInv, Numbered, OutboxCurrent, WorkerCurrent, RetryCurrent, Listed,
                      Stored, Sent, Present
<1>2. CASE ~HasRow(k) /\ SaveTask(k, handler[s].task.payload)
  <2>1. /\ ~Present(k) /\ Present(k)'
        /\ gen'[k] = gen[k] + 1 /\ gen' \in [SubTask -> Int]
        /\ \A j \in SubTask : j # k => tasks'[j] = tasks[j] /\ gen'[j] = gen[j]
        /\ UNCHANGED <<outbox, sent, retry, worker>>
    <3>1. /\ UNCHANGED <<outbox, sent, retry, worker>> /\ ~Present(k)
          /\ tasks' = [tasks EXCEPT ![k] = [status |-> "pending", payload |-> handler[s].task.payload,
                                            old |-> FALSE]]
          /\ gen' = [gen EXCEPT ![k] = gen[k] + 1]
      BY <1>0, <1>2, Keys DEF AcceptSave, SaveTask, HasRow, Present
    <3> QED BY <1>0, <3>1, Keys DEF Present
  <2>2. /\ \A e \in outbox \cup retry.todo : e.key # k
        /\ retry.pc = "delete" => retry.cur.key # k
        /\ worker.pc # "idle" => worker.task.key # k
    BY <2>1, Keys DEF DeliveryInv, OutboxCurrent, RetryCurrent, Listed, OwnInv, Young, Present
  <2>3. \A j \in SubTask : j # k => (Stored(j)' <=> Stored(j)) /\ (Sent(j)' <=> Sent(j))
                                     /\ (Present(j)' <=> Present(j))
    BY <2>1 DEF Stored, Sent, Present
  <2>4. Numbered'
    BY <1>0, <2>1, <2>3, Keys DEF DeliveryInv, Numbered
  <2>5. OutboxCurrent'
    BY <2>1, <2>2, <2>3, Keys DEF DeliveryInv, OutboxCurrent
  <2>6. WorkerCurrent'
    BY <2>1, <2>2, <2>3, Keys DEF DeliveryInv, WorkerCurrent
  <2>7. RetryCurrent'
    BY <2>1, <2>2, <2>3, Keys DEF DeliveryInv, RetryCurrent, Listed
  <2> QED BY <2>4, <2>5, <2>6, <2>7 DEF DeliveryInv
<1> QED BY <1>0, <1>1, <1>2 DEF AcceptSave

\* Rows change their status or their age and stay.
LEMMA RowDelivery ==
  ASSUME TypeInv, DeliveryInv, UNCHANGED <<outbox, gen, sent, retry>>,
         \A k \in SubTask : Present(k)' <=> Present(k),
         \A k \in SubTask : tasks'[k].old = tasks[k].old \/ \A e \in retry.todo \cup {retry.cur} : e.key # k,
         worker'.task = worker.task, worker'.pc = "idle" <=> worker.pc = "idle",
         worker'.pc \in {"restatus", "send"} => worker.pc \in {"restatus", "send"},
         worker'.pc \in {"delete", "retain"} => worker.pc \in {"delete", "retain"}
  PROVE  DeliveryInv'
<1>1. \A k : (Stored(k)' <=> Stored(k)) /\ (Sent(k)' <=> Sent(k))
  BY DEF Stored, Sent
<1>2. Numbered' /\ OutboxCurrent'
  BY <1>1, Keys DEF DeliveryInv, Numbered, OutboxCurrent
<1>3. WorkerCurrent'
  BY <1>1 DEF DeliveryInv, WorkerCurrent
<1>4. RetryCurrent'
  BY <1>1, Keys DEF DeliveryInv, RetryCurrent, Listed
<1> QED BY <1>2, <1>3, <1>4 DEF DeliveryInv

\* The latest acceptance of a key is sent.
LEMMA SendNumbered ==
  ASSUME TypeInv, Numbered, NEW k \in SubTask, UNCHANGED <<tasks, gen>>,
         sent' = sent \cup {<<k, gen[k]>>}
  PROVE  Numbered'
<1>1. \A j, g : <<j, g>> \in sent' => <<j, g>> \in sent \/ (j = k /\ g = gen[k])
  OBVIOUS
<1>2. gen[k] <= gen[k]
  BY Keys
<1> QED BY <1>1, <1>2 DEF Numbered, Present

LEMMA WorkerDelivery ==
  ASSUME TypeInv, OwnInv, DeliveryInv, WorkerStep
  PROVE  DeliveryInv'
<1>1. CASE WorkerRecv
  <2>1. /\ UNCHANGED <<tasks, outbox, gen, sent, retry>> /\ worker'.pc = "compute"
        /\ worker'.task = queue[1] /\ 1 \in 1..Len(queue)
    BY <1>1 DEF WorkerRecv, TypeInv, TypeOK
  <2>2. worker'.task.gen = gen[worker'.task.key]
    BY <2>1 DEF OwnInv, Matching, RowMatches
  <2> QED BY <2>1, <2>2, QuietDelivery
<1>2. CASE WorkerCompute \/ WorkerRetain \/ WorkerFinish
  <2>1. /\ UNCHANGED <<tasks, outbox, gen, sent, retry>>
        /\ worker'.pc \in {"status", "finish", "idle"}
        /\ worker'.pc # "idle" => worker'.task = worker.task /\ worker.pc # "idle"
    <3>1. CASE WorkerFinish
      BY <3>1 DEF WorkerFinish, IdleWorker
    <3>2. CASE WorkerCompute \/ WorkerRetain
      BY <3>2 DEF WorkerCompute, WorkerRetain, WorkerGoto, TypeInv, TypeOK
    <3> QED BY <1>2, <3>1, <3>2
  <2> QED BY <2>1, QuietDelivery DEF DeliveryInv, WorkerCurrent
<1>3. CASE WorkerStatus \/ WorkerRestatus
  <2>1. /\ UNCHANGED <<outbox, gen, sent, retry>> /\ worker'.task = worker.task
        /\ \/ worker.pc = "status" /\ worker'.pc = "persist"
           \/ worker.pc = "restatus" /\ worker'.pc = "send"
        /\ UpdateStatus(worker.task.key, StatusOf(worker.res)) \/ UNCHANGED tasks
    BY <1>3 DEF WorkerStatus, WorkerRestatus, WorkerGoto, TypeInv, TypeOK
  <2>2. StatusOf(worker.res) \in Terminal
    BY DEF StatusOf, Terminal
  <2>3. \A k \in SubTask : (Present(k)' <=> Present(k)) /\ tasks'[k].old = tasks[k].old
    BY <2>1, <2>2, UpdateStatusType, Keys DEF Present
  <2> QED BY <2>1, <2>3, RowDelivery
<1>4. ASSUME worker.pc # "idle", worker'.task = worker.task, UNCHANGED <<tasks, gen, retry>>
      PROVE  /\ worker'.task.key = worker.task.key
             /\ worker'.task.gen = gen'[worker'.task.key]
             /\ Present(worker.task.key) /\ ~tasks[worker.task.key].old
             /\ worker.task.key \in SubTask
  BY <1>4, Keys DEF DeliveryInv, WorkerCurrent, OwnInv, Young, Present
<1>5. CASE WorkerPersist
  <2>0. worker.pc = "persist" /\ worker'.task = worker.task /\ UNCHANGED <<tasks, gen, retry, sent>>
    BY <1>5 DEF WorkerPersist, WorkerGoto, TypeInv, TypeOK
  <2>1. PICK k \in SubTask, g \in 0..MaxGen : k = worker.task.key /\ g = gen[k] /\ g = worker.task.gen
    BY <1>4, <2>0, Keys DEF DeliveryInv, WorkerCurrent
  <2>2. CASE UNCHANGED outbox /\ worker'.pc = "finish"
    BY <1>4, <2>0, <2>2, QuietDelivery
  <2>3. CASE UpsertResult([key |-> k, gen |-> g, res |-> worker.res]) /\ worker'.pc = "restatus"
    <3> DEFINE new == [key |-> k, gen |-> g, res |-> worker.res]
    <3>1. outbox' = {x \in outbox : x.key # k} \cup {new} /\ new.key = k /\ new.gen = g
      BY <2>3 DEF UpsertResult
    <3> HIDE DEF new
    <3>2. /\ \A j \in SubTask : (Sent(j)' <=> Sent(j)) /\ (Present(j)' <=> Present(j))
          /\ Stored(k)' /\ \A j \in SubTask : j # k => (Stored(j)' <=> Stored(j))
      BY <2>0, <2>1, <3>1 DEF Sent, Present, Stored
    <3>3. Numbered'
      BY <2>0, <3>2 DEF DeliveryInv, Numbered
    <3>4. OutboxCurrent'
      BY <1>4, <2>0, <2>1, <3>1, <3>2, Keys DEF DeliveryInv, OutboxCurrent
    <3>5. WorkerCurrent'
      BY <1>4, <2>0, <2>1, <2>3, <3>2 DEF WorkerCurrent
    <3>6. RetryCurrent'
      BY <2>0, <3>2, Keys DEF DeliveryInv, RetryCurrent, Listed
    <3> QED BY <3>3, <3>4, <3>5, <3>6 DEF DeliveryInv
  <2> QED BY <1>5, <2>1, <2>2, <2>3 DEF WorkerPersist, WorkerGoto, TypeInv, TypeOK
<1>6. CASE WorkerSend
  <2>0. /\ worker.pc = "send" /\ worker'.task = worker.task /\ UNCHANGED <<tasks, outbox, gen, retry>>
        /\ \/ worker'.pc = "finish" /\ UNCHANGED sent
           \/ worker'.pc = "delete" /\ sent' = sent \cup {<<worker.task.key, worker.task.gen>>}
    BY <1>6 DEF WorkerSend, Send, WorkerGoto, TypeInv, TypeOK
  <2>1. PICK k \in SubTask, g \in 0..MaxGen : k = worker.task.key /\ g = gen[k] /\ g = worker.task.gen
    BY <1>4, <2>0, Keys DEF DeliveryInv, WorkerCurrent
  <2>2. CASE UNCHANGED sent /\ worker'.pc = "finish"
    BY <1>4, <2>0, <2>2, QuietDelivery
  <2>3. CASE sent' = sent \cup {<<k, g>>} /\ worker'.pc = "delete"
    <3>1. /\ \A j : (Stored(j)' <=> Stored(j)) /\ (Present(j)' <=> Present(j)) /\ (Sent(j) => Sent(j)')
          /\ Sent(k)'
      BY <2>0, <2>1, <2>3 DEF Sent, Present, Stored
    <3>2. Numbered'
      BY <2>0, <2>1, <2>3, SendNumbered DEF DeliveryInv
    <3>3. WorkerCurrent'
      BY <1>4, <2>0, <2>1, <2>3, <3>1 DEF WorkerCurrent
    <3>4. OutboxCurrent' /\ RetryCurrent'
      BY <2>0, <3>1 DEF DeliveryInv, OutboxCurrent, RetryCurrent, Listed
    <3> QED BY <3>2, <3>3, <3>4 DEF DeliveryInv
  <2> QED BY <2>0, <2>1, <2>2, <2>3
<1>7. CASE WorkerDelete
  <2>0. /\ worker.pc = "delete" /\ worker'.task = worker.task /\ UNCHANGED <<tasks, sent, gen, retry>>
        /\ worker'.pc \in {"retain", "finish"}
        /\ UNCHANGED outbox \/ outbox' = {x \in outbox : x.key # worker.task.key}
    BY <1>7 DEF WorkerDelete, DeleteResult, WorkerGoto, TypeInv, TypeOK
  <2>1. PICK k \in SubTask : k = worker.task.key /\ Sent(k) /\ ~tasks[k].old
    BY <1>4, <2>0 DEF DeliveryInv, WorkerCurrent
  <2>2. /\ \A j : (Sent(j)' <=> Sent(j)) /\ (Present(j)' <=> Present(j))
        /\ \A j \in SubTask : j # k => (Stored(j)' <=> Stored(j))
    BY <2>0, <2>1 DEF Sent, Present, Stored
  <2>3. Numbered' /\ OutboxCurrent'
    BY <2>0, <2>2 DEF DeliveryInv, Numbered, OutboxCurrent
  <2>4. WorkerCurrent'
    BY <1>4, <2>0, <2>1, <2>2 DEF WorkerCurrent
  <2>5. RetryCurrent'
    BY <2>0, <2>1, <2>2, Keys DEF DeliveryInv, RetryCurrent, Listed
  <2> QED BY <2>3, <2>4, <2>5 DEF DeliveryInv
<1> QED BY <1>1, <1>2, <1>3, <1>5, <1>6, <1>7 DEF WorkerStep

LEMMA RetryDelivery ==
  ASSUME TypeInv, DeliveryInv,
         \/ RetryList \/ RetryDelete \/ RetryRetain
         \/ \E e \in retry.todo, ok \in BOOLEAN : RetrySend(e, ok)
  PROVE  DeliveryInv'
<1>1. CASE RetryList \/ RetryRetain
  <2>1. /\ UNCHANGED <<tasks, outbox, gen, sent, worker>> /\ retry'.pc # "delete"
        /\ retry'.todo = IF RetryList THEN outbox ELSE retry.todo
    BY <1>1 DEF RetryList, RetryRetain, AfterEntry, TypeInv, TypeOK
  <2>2. \A k : (Stored(k)' <=> Stored(k)) /\ (Sent(k)' <=> Sent(k)) /\ (Present(k)' <=> Present(k))
    BY <2>1 DEF Stored, Sent, Present
  <2>3. \A e \in outbox : Listed(e) /\ Stored(e.key)
    BY DEF DeliveryInv, OutboxCurrent, Listed, Stored
  <2>4. Numbered' /\ OutboxCurrent' /\ WorkerCurrent'
    BY <2>1, <2>2 DEF DeliveryInv, Numbered, OutboxCurrent, WorkerCurrent
  <2>5. RetryCurrent'
    BY <2>1, <2>2, <2>3 DEF DeliveryInv, RetryCurrent, Listed, OutboxCurrent
  <2> QED BY <2>4, <2>5 DEF DeliveryInv
<1>2. CASE RetryDelete
  <2>0. /\ retry.pc = "delete" /\ UNCHANGED <<tasks, sent, gen, worker>>
        /\ retry'.pc = "load" /\ retry'.todo = retry.todo
        /\ UNCHANGED outbox \/ outbox' = {x \in outbox : x.key # retry.cur.key}
    BY <1>2 DEF RetryDelete, DeleteResult, TypeInv, TypeOK
  <2>1. PICK k \in SubTask : k = retry.cur.key /\ Sent(k) /\ \A e \in retry.todo : e.key # k
    BY <2>0, Keys DEF DeliveryInv, RetryCurrent
  <2>2. /\ \A j : (Sent(j)' <=> Sent(j)) /\ (Present(j)' <=> Present(j))
        /\ \A j \in SubTask : j # k => (Stored(j)' <=> Stored(j))
    BY <2>0, <2>1 DEF Sent, Present, Stored
  <2>3. Numbered' /\ OutboxCurrent'
    BY <2>0, <2>2 DEF DeliveryInv, Numbered, OutboxCurrent
  <2>4. WorkerCurrent'
    BY <2>0, <2>1, <2>2, Keys DEF DeliveryInv, WorkerCurrent
  <2>5. RetryCurrent'
    BY <2>0, <2>1, <2>2, Keys DEF DeliveryInv, RetryCurrent, Listed
  <2> QED BY <2>3, <2>4, <2>5 DEF DeliveryInv
<1>3. ASSUME NEW e \in retry.todo, NEW ok \in BOOLEAN, RetrySend(e, ok) PROVE DeliveryInv'
  <2>0. /\ UNCHANGED <<tasks, outbox, gen, worker>> /\ retry'.todo = retry.todo \ {e}
        /\ \/ UNCHANGED sent /\ retry'.pc # "delete"
           \/ sent' = sent \cup {<<e.key, e.gen>>} /\ retry'.pc = "delete" /\ retry'.cur = e
    BY <1>3 DEF RetrySend, Send, AfterEntry, TypeInv, TypeOK
  <2>1. PICK k \in SubTask : k = e.key /\ e.gen = gen[k] /\ Listed(e)
    BY Keys DEF DeliveryInv, RetryCurrent, Listed
  <2>2. \A j : (Stored(j)' <=> Stored(j)) /\ (Present(j)' <=> Present(j)) /\ (Sent(j) => Sent(j)')
    BY <2>0 DEF Sent, Present, Stored
  <2>3. \A f : Listed(f) => Listed(f)'
    BY <2>0, <2>2 DEF Listed
  <2>4. Numbered'
    BY <2>0, <2>1, SendNumbered DEF DeliveryInv, Numbered, Present
  <2>5. OutboxCurrent' /\ WorkerCurrent'
    BY <2>0, <2>2 DEF DeliveryInv, OutboxCurrent, WorkerCurrent
  <2>6. retry'.pc = "delete" => Sent(k)'
    BY <2>0, <2>1 DEF Sent
  <2>7. RetryCurrent'
    BY <2>0, <2>1, <2>3, <2>6 DEF DeliveryInv, RetryCurrent
  <2> QED BY <2>4, <2>5, <2>7 DEF DeliveryInv
<1> QED BY <1>1, <1>2, <1>3

LEMMA LifecycleDelivery ==
  ASSUME TypeInv, OwnInv, DeliveryInv, RowsAgeInFlight = FALSE,
         \/ \E k \in SubTask : Age(k) \/ RestoreHold(k) \/ RestoreTask(k)
         \/ Prune \/ Crash \/ Boot \/ Start
  PROVE  DeliveryInv'
<1>1. ASSUME NEW k \in SubTask, Age(k) PROVE DeliveryInv'
  <2>1. /\ \A j \in SubTask : /\ tasks'[j].status = tasks[j].status
                              /\ j # k => tasks'[j] = tasks[j]
        /\ UNCHANGED <<outbox, gen, sent, retry, worker>>
        /\ \A e \in retry.todo \cup {retry.cur} : e.key # k
    BY <1>1, AgeType, Keys DEF Age, Unfinished
  <2>2. \A j \in SubTask : Present(j)' <=> Present(j)
    BY <2>1 DEF Present
  <2> QED BY <2>1, <2>2, RowDelivery
<1>2. CASE Prune
  <2>1. /\ \A j \in SubTask : tasks'[j] = tasks[j] \/ (tasks[j].old /\ ~Stored(j) /\ ~Present(j)')
        /\ UNCHANGED <<outbox, gen, sent, retry, worker>>
    BY <1>2 DEF Prune, Prunable, NoRow, Stored, Present
  <2>2. \A j : (Stored(j)' <=> Stored(j)) /\ (Sent(j)' <=> Sent(j))
    BY <2>1 DEF Stored, Sent
  <2>3. \A e \in outbox : Stored(e.key)
    BY DEF DeliveryInv, OutboxCurrent, Stored
  <2>4. \A j \in SubTask : (Present(j)' => Present(j)) /\ (Stored(j) /\ Present(j) => Present(j)')
    BY <2>1 DEF Present
  <2>5. Numbered' /\ OutboxCurrent' /\ WorkerCurrent'
    BY <2>1, <2>2, <2>3, <2>4, Keys DEF DeliveryInv, Numbered, OutboxCurrent, WorkerCurrent
  <2>6. \A e : e.key \in SubTask /\ Listed(e) => Listed(e)'
    BY <2>1, <2>2, <2>4 DEF Listed, Present
  <2>7. RetryCurrent'
    BY <2>1, <2>2, <2>6, Keys DEF DeliveryInv, RetryCurrent
  <2> QED BY <2>5, <2>7 DEF DeliveryInv
<1>3. CASE Crash
  <2>1. UNCHANGED <<tasks, outbox, gen, sent>> /\ worker'.pc = "idle"
        /\ retry'.todo = {} /\ retry'.pc = "sleep"
    BY <1>3 DEF Crash, IdleWorker, IdleRetry
  <2> QED BY <2>1 DEF DeliveryInv, Numbered, OutboxCurrent, WorkerCurrent, RetryCurrent, Present
<1>4. CASE Boot \/ Start \/ \E k \in SubTask : RestoreHold(k) \/ RestoreTask(k)
  <2>1. UNCHANGED <<tasks, outbox, gen, sent, retry, worker>>
    BY <1>4 DEF Boot, Start, RestoreHold, RestoreTask
  <2> QED BY <2>1 DEF DeliveryInv, Numbered, OutboxCurrent, WorkerCurrent, RetryCurrent, Listed,
                      Stored, Sent, Present
<1> QED BY <1>1, <1>2, <1>3, <1>4

LEMMA NextDelivery ==
  ASSUME TypeInv, OwnInv, DeliveryInv, RowsAgeInFlight = FALSE, Next
  PROVE  DeliveryInv'
<1>1. ASSUME NEW s \in Stream,
             \/ \E k \in SubTask, p \in Payload : Dispatch(s, k, p)
             \/ AcceptLoad(s) \/ AcceptCount(s) \/ AcceptEnqueue(s)
      PROVE  DeliveryInv'
  <2>1. UNCHANGED <<tasks, outbox, gen, sent, retry, worker>>
    BY <1>1 DEF Dispatch, AcceptLoad, AcceptCount, AcceptEnqueue
  <2> QED BY <2>1 DEF DeliveryInv, Numbered, OutboxCurrent, WorkerCurrent, RetryCurrent, Listed,
                      Stored, Sent, Present
<1> QED BY <1>1, SaveDelivery, WorkerDelivery, RetryDelivery, LifecycleDelivery DEF Next

\* The three invariants hold together.
PipelineInv == TypeInv /\ OwnInv /\ DeliveryInv

LEMMA InitPipeline == Init => PipelineInv
<1>1. Init => DeliveryInv
  BY DEF Init, DeliveryInv, Numbered, OutboxCurrent, WorkerCurrent, RetryCurrent, Present, NoRow,
         IdleWorker, IdleRetry
<1> QED BY <1>1, InitTypeInv, InitOwn DEF PipelineInv

\* Whatever happens, and provided no row expires in flight, the latest acceptance
\* of a key is the only one anything still refers to.
LEMMA PipelineCurrent ==
  ASSUME RowsAgeInFlight = FALSE
  PROVE  Spec => []PipelineInv
<1>1. PipelineInv /\ CounterExact /\ [Next]_vars => PipelineInv'
  <2>1. PipelineInv /\ CounterExact /\ Next => PipelineInv'
    BY NextTypeInv, NextOwn, NextDelivery DEF PipelineInv
  <2>2. PipelineInv /\ UNCHANGED vars => PipelineInv'
    <3> SUFFICES ASSUME PipelineInv, UNCHANGED vars PROVE PipelineInv'
      OBVIOUS
    <3>1. TypeInv'
      BY DEF PipelineInv, vars, TypeInv, TypeOK, Shape
    <3>2. OwnInv'
      BY DEF PipelineInv, vars, OwnInv, Matching, Exclusive, Young, Accepting, Computing, RowMatches
    <3>3. DeliveryInv'
      BY DEF PipelineInv, vars, DeliveryInv, Numbered, OutboxCurrent, WorkerCurrent, RetryCurrent,
             Listed, Stored, Sent, Present
    <3> QED BY <3>1, <3>2, <3>3 DEF PipelineInv
  <2> QED BY <2>1, <2>2
<1> QED BY <1>1, InitPipeline, CounterCorrect, PTL DEF Spec

\* Neither a late delete of the retry loop's copy nor an upsert drops an unsent
\* result, for any number of sub-tasks, dispatches, storage errors and crashes.
THEOREM UnsentResultsKept ==
  ASSUME RowsAgeInFlight = FALSE
  PROVE  Spec => UnsentKept
<1> DEFINE Kept == \A e \in outbox : \/ \E x \in outbox' : x.key = e.key /\ x.gen = e.gen
                                     \/ <<e.key, e.gen>> \in sent
<1>1. ASSUME PipelineInv, [Next]_vars PROVE Kept
  <2>1. CASE UNCHANGED outbox
    BY <2>1
  <2>2. ASSUME NEW k, outbox' = {x \in outbox : x.key # k}, Sent(k) PROVE Kept
    BY <1>1, <2>2 DEF PipelineInv, DeliveryInv, OutboxCurrent, Sent
  <2>3. CASE WorkerPersist
    <3>1. UNCHANGED outbox \/ UpsertResult([key |-> worker.task.key, gen |-> worker.task.gen,
                                            res |-> worker.res])
      BY <2>3 DEF WorkerPersist
    <3>2. worker.task.gen = gen[worker.task.key]
      BY <1>1, <2>3 DEF WorkerPersist, PipelineInv, DeliveryInv, WorkerCurrent
    <3> QED BY <1>1, <2>1, <3>1, <3>2 DEF UpsertResult, PipelineInv, DeliveryInv, OutboxCurrent
  <2>4. CASE WorkerDelete
    BY <1>1, <2>1, <2>2, <2>4 DEF WorkerDelete, DeleteResult, PipelineInv, DeliveryInv, WorkerCurrent
  <2>5. CASE RetryDelete
    BY <1>1, <2>1, <2>2, <2>5 DEF RetryDelete, DeleteResult, PipelineInv, DeliveryInv, RetryCurrent
  <2>6. CASE \/ UNCHANGED vars
             \/ \E s \in Stream : \/ \E k \in SubTask, p \in Payload : Dispatch(s, k, p)
                                  \/ AcceptLoad(s) \/ AcceptSave(s) \/ AcceptCount(s) \/ AcceptEnqueue(s)
             \/ WorkerRecv \/ WorkerCompute \/ WorkerStatus \/ WorkerRestatus \/ WorkerSend
             \/ WorkerRetain \/ WorkerFinish
             \/ RetryList \/ RetryRetain \/ \E e \in retry.todo, ok \in BOOLEAN : RetrySend(e, ok)
             \/ (\E k \in SubTask : Age(k) \/ RestoreHold(k) \/ RestoreTask(k)) \/ Prune \/ Crash \/ Boot \/ Start
    <3>1. UNCHANGED outbox
      BY <2>6 DEF vars, Dispatch, AcceptLoad, AcceptSave, AcceptCount, AcceptEnqueue, WorkerRecv,
                  WorkerCompute, WorkerStatus, WorkerRestatus, WorkerSend, WorkerRetain, WorkerFinish,
                  RetryList, RetryRetain, RetrySend, Age, RestoreHold, RestoreTask, Prune, Crash, Boot, Start
    <3> QED BY <2>1, <3>1
  <2> QED BY <1>1, <2>3, <2>4, <2>5, <2>6 DEF Next, WorkerStep
<1>2. Kept => [Kept]_vars
  OBVIOUS
<1> QED BY <1>1, PipelineCurrent, PTL DEF Spec, UnsentKept

-----------------------------------------------------------------------------
(* Rows and results without storage errors.                                *)

\* No row changes its status, no result is added or sent, and the worker is not
\* about to store one it was not about to store.
LEMMA CalmStatus ==
  ASSUME TypeInv, StatusExact, UNCHANGED <<gen, sent>>, outbox' \subseteq outbox,
         \A k \in SubTask : tasks'[k].status = tasks[k].status,
         \/ UNCHANGED worker
         \/ worker'.pc \in {"idle", "compute", "status"}
         \/ /\ worker'.task = worker.task /\ worker'.res = worker.res
            /\ worker'.pc # "persist" /\ worker.pc \notin {"idle", "compute", "status"},
         retry'.todo \subseteq outbox \cup retry.todo,
         retry'.pc \in {"delete", "load"} => retry.pc \in {"delete", "load"} /\ retry'.cur = retry.cur
  PROVE  StatusExact'
<1>1. \A k : (Stored(k)' => Stored(k)) /\ (Sent(k)' <=> Sent(k))
  BY DEF Stored, Sent
<1>2. RowsFresh'
  BY <1>1 DEF StatusExact, RowsFresh, Fresh
<1>3. WorkerExact'
  BY <1>1, Keys DEF StatusExact, WorkerExact, Fresh
<1>4. EntriesExact'
  BY Keys DEF StatusExact, EntriesExact
<1>5. CurExact'
  BY Keys DEF StatusExact, CurExact, Present
<1> QED BY <1>2, <1>3, <1>4, <1>5 DEF StatusExact

LEMMA SaveStatus ==
  ASSUME TypeInv, OwnInv, DeliveryInv, StatusExact, NEW s \in Stream, AcceptSave(s)
  PROVE  StatusExact'
<1>0. PICK k \in SubTask : k = handler[s].task.key
  BY TaskKeys DEF AcceptSave
<1>1. CASE UNCHANGED <<tasks, gen>>
  BY <1>1, CalmStatus DEF AcceptSave
<1>2. CASE ~HasRow(k) /\ SaveTask(k, handler[s].task.payload)
  <2>1. /\ UNCHANGED <<outbox, sent, retry, worker>> /\ ~Present(k)
        /\ tasks' = [tasks EXCEPT ![k] = [status |-> "pending", payload |-> handler[s].task.payload,
                                          old |-> FALSE]]
        /\ gen' = [gen EXCEPT ![k] = gen[k] + 1]
    BY <1>0, <1>2, Keys DEF AcceptSave, SaveTask, HasRow, Present
  <2>2. /\ gen'[k] = gen[k] + 1 /\ gen[k] \in Nat
        /\ \A j \in SubTask : j # k => tasks'[j] = tasks[j] /\ gen'[j] = gen[j]
    BY <1>0, <2>1, Keys
  <2>3. /\ \A e \in outbox \cup retry.todo : e.key # k
        /\ retry.pc = "delete" => retry.cur.key # k
        /\ worker.pc # "idle" => worker.task.key # k
    BY <2>1, Keys DEF DeliveryInv, OutboxCurrent, RetryCurrent, Listed, OwnInv, Young, Present
  <2>4. \A g \in 0..MaxGen : <<k, g>> \in sent => g # gen'[k]
    BY <2>2 DEF DeliveryInv, Numbered
  <2>5. Fresh(k)'
    <3>1. gen'[k] \in 0..MaxGen
      BY NextTypeInv, <2>1, <2>2, Keys DEF TypeInv, Shape, Present
    <3> QED BY <2>1, <2>3, <2>4, <3>1 DEF Fresh, Stored, Sent
  <2>6. \A j \in SubTask : j # k => (Stored(j)' <=> Stored(j)) /\ (Sent(j)' <=> Sent(j))
                                     /\ (Present(j)' <=> Present(j))
    BY <2>1, <2>2 DEF Stored, Sent, Present
  <2>7. RowsFresh'
    BY <2>2, <2>5, <2>6 DEF StatusExact, RowsFresh, Fresh
  <2>8. WorkerExact'
    BY <2>1, <2>2, <2>3, <2>6, Keys DEF StatusExact, WorkerExact, Fresh
  <2>9. EntriesExact'
    BY <2>1, <2>2, <2>3, Keys DEF StatusExact, EntriesExact
  <2>10. CurExact'
    BY <2>1, <2>2, <2>4, <2>6, Keys DEF StatusExact, CurExact
  <2> QED BY <2>7, <2>8, <2>9, <2>10 DEF StatusExact
<1> QED BY <1>0, <1>1, <1>2 DEF AcceptSave

\* A result is sent while the row is past pending and nobody is about to store
\* another.
LEMMA SendStatus ==
  ASSUME TypeInv, StatusExact, NEW k \in SubTask, UNCHANGED <<tasks, outbox, gen>>,
         sent' \in {sent, sent \cup {<<k, gen[k]>>}},
         tasks[k].status # "pending", worker.pc = "persist" => worker.task.key # k,
         worker'.task = worker.task, worker'.res = worker.res,
         \/ UNCHANGED worker
         \/ worker'.pc # "persist" /\ worker.pc \notin {"idle", "compute", "status"},
         retry'.todo \subseteq retry.todo,
         retry'.pc \in {"delete", "load"} =>
           \/ UNCHANGED retry
           \/ /\ retry'.cur \in retry.todo
              /\ <<retry'.cur.key, retry'.cur.gen>> \in sent'
  PROVE  StatusExact'
<1>1. \A j : /\ Stored(j)' <=> Stored(j)
             /\ Sent(j) => Sent(j)'
             /\ j # k => (Sent(j)' <=> Sent(j))
  BY DEF Stored, Sent
<1>2. RowsFresh'
  BY <1>1 DEF StatusExact, RowsFresh, Fresh
<1>3. WorkerExact'
  BY <1>1 DEF StatusExact, WorkerExact, Fresh
<1>4. EntriesExact'
  BY DEF StatusExact, EntriesExact
<1>5. CurExact'
  BY DEF StatusExact, CurExact, EntriesExact, Present
<1> QED BY <1>2, <1>3, <1>4, <1>5 DEF StatusExact

LEMMA WorkerStatusExact ==
  ASSUME TypeInv, OwnInv, DeliveryInv, StatusExact, StorageMayFail = FALSE, WorkerStep
  PROVE  StatusExact'
<1>1. CASE WorkerRecv \/ WorkerCompute \/ WorkerFinish
  <2>1. UNCHANGED <<tasks, outbox, gen, sent, retry>> /\ worker'.pc \in {"idle", "compute", "status"}
    <3>1. CASE WorkerFinish
      BY <3>1 DEF WorkerFinish, IdleWorker
    <3>2. CASE WorkerRecv
      BY <3>2 DEF WorkerRecv
    <3>3. CASE WorkerCompute
      BY <3>3 DEF WorkerCompute, TypeInv, TypeOK
    <3> QED BY <1>1, <3>1, <3>2, <3>3
  <2> QED BY <2>1, CalmStatus
<1>2. CASE WorkerDelete \/ WorkerRetain
  BY <1>2, CalmStatus DEF WorkerDelete, DeleteResult, WorkerRetain, WorkerGoto, TypeInv, TypeOK
<1>3. CASE WorkerStatus
  <2>0. /\ UNCHANGED <<outbox, gen, sent, retry>> /\ worker'.task = worker.task /\ worker'.res = worker.res
        /\ worker.pc = "status" /\ worker'.pc = "persist"
        /\ UpdateStatus(worker.task.key, StatusOf(worker.res))
    BY <1>3 DEF WorkerStatus, WorkerGoto, TypeInv, TypeOK
  <2>1. PICK k \in SubTask : k = worker.task.key /\ Present(k) /\ tasks[k].status = "pending" /\ Fresh(k)
    BY <2>0, Keys DEF OwnInv, Matching, Computing, RowMatches, StatusExact, RowsFresh, Present
  <2>2. /\ tasks'[k].status = StatusOf(worker.res) /\ Present(k)'
        /\ \A j \in SubTask : j # k => tasks'[j] = tasks[j]
    <3>1. StatusOf(worker.res) \in Terminal
      BY DEF StatusOf, Terminal
    <3> QED BY <2>0, <2>1, <3>1, UpdateStatusType, Keys DEF Present
  <2>3. StatusOf(worker.res) # "pending"
    BY DEF StatusOf
  <2>4. \A j : (Stored(j)' <=> Stored(j)) /\ (Sent(j)' <=> Sent(j))
    BY <2>0 DEF Stored, Sent
  <2>5. \A e \in outbox \cup retry.todo : e.key # k
    BY <2>1 DEF DeliveryInv, OutboxCurrent, RetryCurrent, Listed, Fresh, Stored
  <2>6. RowsFresh' /\ WorkerExact'
    BY <2>0, <2>1, <2>2, <2>3, <2>4 DEF StatusExact, RowsFresh, WorkerExact, Fresh
  <2>7. EntriesExact'
    BY <2>0, <2>2, <2>5, Keys DEF StatusExact, EntriesExact
  <2>8. CurExact'
    BY <2>0, <2>1, <2>2, Keys DEF StatusExact, CurExact, Fresh, Sent, Present
  <2> QED BY <2>6, <2>7, <2>8 DEF StatusExact
<1>4. CASE WorkerPersist
  <2>0. /\ UNCHANGED <<tasks, gen, sent, retry>> /\ worker'.task = worker.task /\ worker'.res = worker.res
        /\ worker.pc = "persist" /\ worker'.pc = "restatus"
        /\ UpsertResult([key |-> worker.task.key, gen |-> worker.task.gen, res |-> worker.res])
    BY <1>4 DEF WorkerPersist, WorkerGoto, TypeInv, TypeOK
  <2>1. PICK k \in SubTask : k = worker.task.key /\ tasks[k].status = StatusOf(worker.res)
    BY <2>0, Keys DEF StatusExact, WorkerExact
  <2> DEFINE new == [key |-> worker.task.key, gen |-> worker.task.gen, res |-> worker.res]
  <2>2. new.key = k /\ new.res = worker.res /\ \A e \in outbox' : e \in outbox \/ e = new
    BY <2>0, <2>1 DEF UpsertResult
  <2>3. StatusOf(worker.res) # "pending"
    BY DEF StatusOf
  <2> HIDE DEF new
  <2>4. \A j \in SubTask : (Sent(j)' <=> Sent(j)) /\ (j # k => (Stored(j)' => Stored(j)))
    BY <2>0, <2>2 DEF Stored, Sent
  <2>5. RowsFresh' /\ WorkerExact'
    BY <2>0, <2>1, <2>3, <2>4 DEF StatusExact, RowsFresh, WorkerExact, Fresh
  <2>6. EntriesExact' /\ CurExact'
    BY <2>0, <2>1, <2>2 DEF StatusExact, EntriesExact, CurExact, Present
  <2> QED BY <2>5, <2>6 DEF StatusExact
<1>5. CASE WorkerRestatus
  <2>0. /\ UNCHANGED <<outbox, gen, sent, retry>> /\ worker'.task = worker.task /\ worker'.res = worker.res
        /\ worker.pc = "restatus" /\ worker'.pc = "send"
        /\ UpdateStatus(worker.task.key, StatusOf(worker.res))
    BY <1>5 DEF WorkerRestatus, WorkerGoto, TypeInv, TypeOK
  <2>1. PICK k \in SubTask : k = worker.task.key /\ tasks[k].status = StatusOf(worker.res) /\ Present(k)
    BY <2>0, Keys DEF StatusExact, WorkerExact, Present, OwnInv, Young
  <2>2. \A j \in SubTask : tasks'[j].status = tasks[j].status
    <3>1. StatusOf(worker.res) \in Terminal
      BY DEF StatusOf, Terminal
    <3> QED BY <2>0, <2>1, <3>1, UpdateStatusType, Keys DEF Present
  <2> QED BY <2>0, <2>2, CalmStatus
<1>6. CASE WorkerSend
  <2>0. /\ worker.pc = "send" /\ worker'.task = worker.task /\ worker'.res = worker.res
        /\ UNCHANGED <<tasks, outbox, gen, retry>> /\ worker'.pc \in {"delete", "finish"}
        /\ sent' \in {sent, sent \cup {<<worker.task.key, worker.task.gen>>}}
    BY <1>6 DEF WorkerSend, Send, WorkerGoto, TypeInv, TypeOK
  <2>1. PICK k \in SubTask : k = worker.task.key /\ worker.task.gen = gen[k] /\ tasks[k].status # "pending"
    BY <2>0, Keys DEF DeliveryInv, WorkerCurrent, StatusExact, WorkerExact, StatusOf
  <2> QED BY <2>0, <2>1, SendStatus
<1> QED BY <1>1, <1>2, <1>3, <1>4, <1>5, <1>6 DEF WorkerStep

LEMMA NextStatus ==
  ASSUME TypeInv, OwnInv, DeliveryInv, StatusExact, StorageMayFail = FALSE,
         RowsAgeInFlight = FALSE, Next
  PROVE  StatusExact'
<1>1. CASE \E s \in Stream : \/ \E k \in SubTask, p \in Payload : Dispatch(s, k, p)
                             \/ AcceptLoad(s) \/ AcceptCount(s) \/ AcceptEnqueue(s)
  <2>1. UNCHANGED <<tasks, outbox, gen, sent, retry, worker>>
    BY <1>1 DEF Dispatch, AcceptLoad, AcceptCount, AcceptEnqueue
  <2> QED BY <2>1, CalmStatus
<1>2. CASE RetryList \/ RetryDelete \/ RetryRetain
  <2>1. /\ UNCHANGED <<tasks, gen, sent, worker>> /\ outbox' \subseteq outbox
        /\ retry'.todo \subseteq outbox \cup retry.todo
        /\ retry'.pc \in {"delete", "load"} => retry.pc = "delete" /\ retry'.cur = retry.cur
    BY <1>2 DEF RetryList, RetryDelete, RetryRetain, DeleteResult, AfterEntry, TypeInv, TypeOK
  <2> QED BY <2>1, CalmStatus
<1>3. ASSUME NEW e \in retry.todo, NEW ok \in BOOLEAN, RetrySend(e, ok) PROVE StatusExact'
  <2>0. /\ UNCHANGED <<tasks, outbox, gen, worker>> /\ retry'.todo \subseteq retry.todo
        /\ \/ UNCHANGED sent /\ retry'.pc \notin {"delete", "load"}
           \/ sent' = sent \cup {<<e.key, e.gen>>} /\ retry'.cur = e
    BY <1>3 DEF RetrySend, Send, AfterEntry, TypeInv, TypeOK
  <2>1. PICK k \in SubTask : /\ k = e.key /\ e.gen = gen[k] /\ tasks[k].status # "pending"
                             /\ ~Fresh(k)
    BY Keys DEF DeliveryInv, RetryCurrent, Listed, StatusExact, EntriesExact, StatusOf, Fresh
  <2>2. worker.pc = "persist" => worker.task.key # k
    BY <2>1 DEF StatusExact, WorkerExact
  <2> QED BY <2>0, <2>1, <2>2, SendStatus
<1>4. ASSUME NEW k \in SubTask, Age(k) PROVE StatusExact'
  <2>1. (\A j \in SubTask : tasks'[j].status = tasks[j].status) /\ UNCHANGED <<outbox, gen, sent, retry, worker>>
    BY <1>4, AgeType, Keys DEF Age
  <2> QED BY <2>1, CalmStatus
<1>5. CASE Prune
  <2>1. /\ \A j \in SubTask : tasks'[j] = tasks[j] \/ (tasks[j].old /\ ~Stored(j) /\ ~Present(j)')
        /\ UNCHANGED <<outbox, gen, sent, retry, worker>>
    BY <1>5 DEF Prune, Prunable, NoRow, Stored, Present
  <2>2. \A j : (Stored(j)' <=> Stored(j)) /\ (Sent(j)' <=> Sent(j))
    BY <2>1 DEF Stored, Sent
  <2>3. \A e \in outbox \cup retry.todo : tasks'[e.key] = tasks[e.key]
    BY <2>1, Keys DEF DeliveryInv, OutboxCurrent, Stored, RetryCurrent, Listed
  <2>4. worker.pc # "idle" => tasks'[worker.task.key] = tasks[worker.task.key]
    BY <2>1, Keys DEF OwnInv, Young
  <2>5. RowsFresh'
    BY <2>1, <2>2 DEF StatusExact, RowsFresh, Fresh, Present
  <2>6. WorkerExact' /\ EntriesExact'
    BY <2>1, <2>2, <2>3, <2>4 DEF StatusExact, WorkerExact, EntriesExact, Fresh
  <2>7. CurExact'
    BY <2>1, Keys DEF StatusExact, CurExact, Present
  <2> QED BY <2>5, <2>6, <2>7 DEF StatusExact
<1>6. CASE Crash \/ Boot \/ Start \/ \E k \in SubTask : RestoreHold(k) \/ RestoreTask(k)
  <2>1. /\ UNCHANGED <<tasks, outbox, gen, sent>>
        /\ UNCHANGED <<retry, worker>> \/ (retry' = IdleRetry /\ worker' = IdleWorker)
    BY <1>6 DEF Crash, Boot, Start, RestoreHold, RestoreTask
  <2> QED BY <2>1, CalmStatus DEF IdleRetry, IdleWorker
<1> QED BY <1>1, <1>2, <1>3, <1>4, <1>5, <1>6, SaveStatus, WorkerStatusExact DEF Next

\* No storage errors, no row expires in flight: the row is as good as the result.
LEMMA PipelineExact ==
  ASSUME RowsAgeInFlight = FALSE
  PROVE  Spec => [](PipelineInv /\ (StorageMayFail = FALSE => StatusExact))
<1>1. Init => StatusExact
  BY DEF Init, StatusExact, RowsFresh, WorkerExact, EntriesExact, CurExact, NoRow, IdleWorker, IdleRetry
<1>2. ASSUME StorageMayFail = FALSE, PipelineInv, StatusExact, [Next]_vars PROVE StatusExact'
  <2>1. CASE Next
    BY <1>2, <2>1, NextStatus DEF PipelineInv
  <2>2. CASE UNCHANGED vars
    BY <1>2, <2>2 DEF vars, StatusExact, RowsFresh, WorkerExact, EntriesExact, CurExact, Fresh, Stored,
                      Sent, Present
  <2> QED BY <1>2, <2>1, <2>2
<1>3. CASE StorageMayFail = FALSE
  <2>1. Init => StatusExact
    BY <1>1
  <2>2. PipelineInv /\ StatusExact /\ [Next]_vars => StatusExact'
    BY <1>2, <1>3
  <2>3. Spec => [](PipelineInv /\ StatusExact)
    BY <2>1, <2>2, PipelineCurrent, PTL DEF Spec
  <2>4. PipelineInv /\ StatusExact => PipelineInv /\ (StorageMayFail = FALSE => StatusExact)
    OBVIOUS
  <2> QED BY <2>3, <2>4, PTL
<1>4. CASE StorageMayFail # FALSE
  <2>1. PipelineInv => PipelineInv /\ (StorageMayFail = FALSE => StatusExact)
    BY <1>4
  <2> QED BY <2>1, PipelineCurrent, PTL
<1> QED BY <1>3, <1>4

\* A sub-task whose result is in pending_results is not computed again, across
\* any number of crashes and restarts.
THEOREM ResultsNotRecomputed ==
  ASSUME StorageMayFail = FALSE, RowsAgeInFlight = FALSE
  PROVE  Spec => []OutboxNotRecomputed
<1>1. PipelineInv /\ (StorageMayFail = FALSE => StatusExact) => OutboxNotRecomputed
  BY Keys DEF PipelineInv, StatusExact, RowsFresh, Fresh, Stored, OutboxNotRecomputed
<1> QED BY <1>1, PipelineExact, PTL

LEMMA NextRetained ==
  ASSUME PipelineInv, StatusExact, RetainedInv, StorageMayFail = FALSE, RowsAgeInFlight = FALSE,
         Next
  PROVE  RetainedInv'
<1> SUFFICES ASSUME crashes' = 0, NEW k \in SubTask, tasks'[k].status = "completed", Sent(k)',
                    \A e \in outbox' : e.key # k
             PROVE  Retaining(k)'
  BY DEF RetainedInv
<1> USE DEF PipelineInv
<1>0. \A j \in SubTask : /\ gen[j] \in 0..MaxGen
                         /\ StatusOf("err") = "failed" /\ StatusOf("ok") = "completed"
  BY Keys DEF StatusOf
\* Nothing new is due: whoever was to retain the proof still is, or has done it.
<1>1. ASSUME tasks[k].status = "completed", gen'[k] = gen[k], crashes = 0, Sent(k),
             \A e \in outbox : e.key # k,
             retained \subseteq retained',
             worker.pc = "retain" /\ worker.task.key = k =>
               UNCHANGED worker \/ <<k, gen[k]>> \in retained',
             retry.pc = "load" /\ retry.cur.key = k /\ retry.cur.gen = gen[k] =>
               UNCHANGED retry \/ <<k, gen[k]>> \in retained'
      PROVE  Retaining(k)'
  BY <1>1 DEF RetainedInv, Retaining
<1>2. CASE \E s \in Stream : \/ \E j \in SubTask, p \in Payload : Dispatch(s, j, p)
                             \/ AcceptLoad(s) \/ AcceptCount(s) \/ AcceptEnqueue(s)
  <2>1. UNCHANGED <<tasks, outbox, gen, sent, retained, crashes, retry, worker>>
    BY <1>2 DEF Dispatch, AcceptLoad, AcceptCount, AcceptEnqueue
  <2> QED BY <1>1, <2>1 DEF Sent
<1>3. ASSUME NEW s \in Stream, AcceptSave(s) PROVE Retaining(k)'
  <2>1. /\ UNCHANGED <<outbox, sent, retained, crashes, retry, worker>>
        /\ tasks'[k] = tasks[k] /\ gen'[k] = gen[k]
    <3>1. PICK j \in SubTask : j = handler[s].task.key
      BY <1>3, TaskKeys DEF AcceptSave
    <3>2. CASE SaveTask(j, handler[s].task.payload)
      BY <3>1, <3>2, <1>3, Keys DEF AcceptSave, SaveTask
    <3>3. CASE UNCHANGED <<tasks, gen>>
      BY <1>3, <3>3 DEF AcceptSave
    <3> QED BY <1>3, <3>1, <3>2, <3>3 DEF AcceptSave
  <2> QED BY <1>1, <2>1 DEF Sent
<1>4. CASE WorkerRecv \/ WorkerCompute \/ WorkerFinish \/ WorkerPersist
  <2>1. /\ UNCHANGED <<tasks, gen, sent, retained, crashes, retry>> /\ worker.pc # "retain"
        /\ \A e \in outbox : e.key = k => e.key = worker.task.key \/ e \in outbox'
    BY <1>4 DEF WorkerRecv, WorkerCompute, WorkerFinish, WorkerPersist, UpsertResult
  <2>2. WorkerPersist => worker.task.key # k
    BY DEF WorkerPersist, UpsertResult
  <2>3. ~WorkerPersist => UNCHANGED outbox
    BY <1>4 DEF WorkerRecv, WorkerCompute, WorkerFinish
  <2> QED BY <1>1, <2>1, <2>2, <2>3 DEF Sent
<1>5. CASE WorkerStatus \/ WorkerRestatus
  <2>1. /\ UNCHANGED <<outbox, gen, sent, retained, crashes, retry>> /\ worker.pc \in {"status", "restatus"}
        /\ UpdateStatus(worker.task.key, StatusOf(worker.res))
    BY <1>5 DEF WorkerStatus, WorkerRestatus
  <2>2. k # worker.task.key => tasks'[k] = tasks[k]
    <3>1. StatusOf(worker.res) \in Terminal /\ worker.task.key \in SubTask
      BY <2>1, Keys DEF StatusOf, Terminal
    <3> QED BY <2>1, <3>1, UpdateStatusType, Keys
  <2>3. CASE worker.pc = "restatus" \/ k # worker.task.key
    <3>1. tasks[k].status = "completed"
      <4>1. CASE k # worker.task.key
        BY <2>2, <4>1
      <4>2. CASE worker.pc = "restatus" /\ k = worker.task.key
        <5>1. StatusOf(worker.res) \in Terminal /\ tasks[k].status = StatusOf(worker.res)
          BY <4>2 DEF StatusOf, Terminal, StatusExact, WorkerExact
        <5> QED BY <2>1, <4>2, <5>1, UpdateStatusType, Keys
      <4> QED BY <2>3, <4>1, <4>2
    <3> QED BY <1>1, <2>1, <3>1 DEF Sent
  <2>4. CASE worker.pc = "status" /\ k = worker.task.key
    <3>1. tasks[k].status = "pending"
      BY <2>4 DEF OwnInv, Matching, Computing, RowMatches
    <3> QED BY <2>1, <3>1 DEF StatusExact, RowsFresh, Fresh, Sent
  <2> QED BY <2>1, <2>3, <2>4
<1>6. CASE WorkerSend
  <2>1. /\ UNCHANGED <<tasks, outbox, gen, retained, crashes, retry>> /\ worker.pc = "send"
        /\ sent' \in {sent, sent \cup {<<worker.task.key, worker.task.gen>>}}
    BY <1>6 DEF WorkerSend, Send
  <2>2. Sent(k)
    BY <2>1 DEF Sent, DeliveryInv, WorkerCurrent, Stored
  <2> QED BY <1>1, <2>1, <2>2
<1>7. CASE WorkerDelete
  <2>1. /\ UNCHANGED <<tasks, sent, gen, retained, crashes, retry>> /\ worker.pc = "delete"
        /\ worker'.task = worker.task
        /\ worker'.pc = IF worker.res = "ok" THEN "retain" ELSE "finish"
        /\ outbox' = {x \in outbox : x.key # worker.task.key}
    BY <1>7 DEF WorkerDelete, DeleteResult, WorkerGoto, TypeInv, TypeOK
  <2>2. CASE worker.task.key # k
    BY <1>1, <2>1, <2>2 DEF Sent
  <2>3. CASE worker.task.key = k
    <3>1. tasks[k].status = StatusOf(worker.res)
      BY <2>1, <2>3 DEF StatusExact, WorkerExact
    <3> QED BY <2>1, <2>3, <3>1 DEF StatusOf, Retaining
  <2> QED BY <2>2, <2>3
<1>8. CASE WorkerRetain
  <2>1. /\ UNCHANGED <<tasks, outbox, sent, gen, crashes, retry>> /\ worker.pc = "retain"
        /\ retained' = retained \cup {<<worker.task.key, worker.task.gen>>}
        /\ worker.task.gen = gen[worker.task.key]
    BY <1>8 DEF WorkerRetain, DeliveryInv, WorkerCurrent
  <2> QED BY <1>1, <2>1 DEF Sent
<1>9. CASE RetryList
  BY <1>1, <1>9 DEF RetryList, Sent
<1>10. CASE RetryDelete
  <2>1. /\ UNCHANGED <<tasks, sent, gen, retained, crashes, worker>> /\ retry.pc = "delete"
        /\ outbox' = {x \in outbox : x.key # retry.cur.key}
        /\ retry'.cur = retry.cur /\ retry'.pc = "load"
        /\ retry.cur.gen = gen[retry.cur.key]
    BY <1>10 DEF RetryDelete, DeleteResult, TypeInv, TypeOK, DeliveryInv, RetryCurrent, Listed
  <2> QED BY <1>1, <2>1 DEF Sent, Retaining
<1>11. CASE RetryRetain
  <2>1. /\ UNCHANGED <<tasks, outbox, sent, gen, crashes, worker>> /\ retry.pc = "load"
        /\ retained \subseteq retained'
        /\ \/ <<retry.cur.key, retry.cur.gen>> \in retained'
           \/ ~HasRow(retry.cur.key) \/ retry.cur.res = "err"
    BY <1>11 DEF RetryRetain
  <2>2. retry.cur.key = k /\ retry.cur.gen = gen[k] => <<k, gen[k]>> \in retained'
    <3>1. retry.cur.key = k /\ retry.cur.gen = gen[k] => retry.cur.res # "err" /\ HasRow(k)
      BY <2>1 DEF StatusExact, CurExact, Present, HasRow, StatusOf
    <3> QED BY <2>1, <3>1
  <2> QED BY <1>1, <2>1, <2>2 DEF Sent
<1>12. ASSUME NEW e \in retry.todo, NEW ok \in BOOLEAN, RetrySend(e, ok) PROVE Retaining(k)'
  <2>1. /\ UNCHANGED <<tasks, outbox, gen, retained, crashes, worker>> /\ retry.pc = "send"
        /\ sent' \in {sent, sent \cup {<<e.key, e.gen>>}}
    BY <1>12 DEF RetrySend, Send
  <2>2. Sent(k)
    BY <2>1 DEF Sent, DeliveryInv, RetryCurrent, Listed, Stored
  <2> QED BY <1>1, <2>1, <2>2
<1>13. CASE Prune \/ Boot \/ Start \/ \E j \in SubTask : Age(j) \/ RestoreHold(j) \/ RestoreTask(j)
  <2>1. UNCHANGED <<outbox, sent, gen, retained, crashes, worker, retry>>
    BY <1>13 DEF Prune, Boot, Start, Age, RestoreHold, RestoreTask
  <2>2. tasks[k].status = "completed"
    <3>1. CASE Prune
      BY <3>1 DEF Prune, NoRow
    <3>2. ASSUME NEW j \in SubTask, Age(j) PROVE tasks[k].status = "completed"
      BY <3>2, AgeType, Keys
    <3>3. CASE Boot \/ Start \/ \E j \in SubTask : RestoreHold(j) \/ RestoreTask(j)
      BY <3>3 DEF Boot, Start, RestoreHold, RestoreTask
    <3> QED BY <1>13, <3>1, <3>2, <3>3
  <2> QED BY <1>1, <2>1, <2>2 DEF Sent
<1>14. CASE Crash
  <2>1. crashes' # 0
    BY <1>14 DEF Crash, TypeInv, TypeOK
  <2> QED BY <2>1
<1> QED BY <1>2, <1>3, <1>4, <1>5, <1>6, <1>7, <1>8, <1>9, <1>10, <1>11, <1>12, <1>13, <1>14
        DEF Next, WorkerStep

\* The proof of a delivered result is retained for a PCS request, whichever of the
\* worker and the retry loop delivered it, for any number of sub-tasks.
THEOREM DeliveredProofsRetained ==
  ASSUME StorageMayFail = FALSE, RowsAgeInFlight = FALSE
  PROVE  Spec => []ProofRetained
<1>1. Init => RetainedInv
  BY DEF Init, RetainedInv, NoRow
<1>2. PipelineInv /\ (StorageMayFail = FALSE => StatusExact) /\ RetainedInv /\ [Next]_vars => RetainedInv'
  <2>1. PipelineInv /\ StatusExact /\ RetainedInv /\ Next => RetainedInv'
    BY NextRetained
  <2>2. RetainedInv /\ UNCHANGED vars => RetainedInv'
    BY DEF vars, RetainedInv, Retaining, Sent
  <2> QED BY <2>1, <2>2
<1>3. RetainedInv => ProofRetained
  BY DEF RetainedInv, Retaining, ProofRetained, Sent
<1> QED BY <1>1, <1>2, <1>3, PipelineExact, PTL DEF Spec

\* Where the result of a key's latest acceptance is, before its row is let go of.
AtPersist(k) == worker.pc = "persist" /\ worker.task.key = k
Tracked(k) == gen[k] = 0 \/ tasks[k].status = "pending" \/ Stored(k) \/ Sent(k) \/ AtPersist(k)
TrackedInv == crashes = 0 => \A k \in SubTask : Tracked(k)

LEMMA NextTracked ==
  ASSUME PipelineInv, TrackedInv, StorageMayFail = FALSE, Next
  PROVE  TrackedInv'
<1> SUFFICES ASSUME crashes' = 0, NEW k \in SubTask PROVE Tracked(k)'
  BY DEF TrackedInv
<1> USE DEF PipelineInv
<1>1. Tracked(k) /\ ~Crash
  <2>1. ~Crash
    BY DEF Crash, TypeInv, TypeOK
  <2>2. UNCHANGED crashes
    BY <2>1 DEF Next, Dispatch, AcceptLoad, AcceptSave, AcceptCount, AcceptEnqueue, WorkerStep, WorkerRecv,
                WorkerCompute, WorkerStatus, WorkerPersist, WorkerRestatus, WorkerSend, WorkerDelete,
                WorkerRetain, WorkerFinish, RetryList, RetryDelete, RetryRetain, RetrySend, Age,
                RestoreHold, RestoreTask, Prune, Boot, Start
  <2> QED BY <2>1, <2>2 DEF TrackedInv
\* A step that takes nothing away from k.
<1>2. ASSUME gen'[k] = gen[k], sent \subseteq sent', AtPersist(k) => UNCHANGED worker,
             tasks[k].status = "pending" => tasks'[k].status = "pending",
             \A e \in outbox : e.key = k => e \in outbox'
      PROVE  Tracked(k)'
  BY <1>1, <1>2 DEF Tracked, AtPersist, Stored, Sent
<1>3. CASE \E s \in Stream : \/ \E j \in SubTask, p \in Payload : Dispatch(s, j, p)
                             \/ AcceptLoad(s) \/ AcceptCount(s) \/ AcceptEnqueue(s)
  <2>1. UNCHANGED <<tasks, outbox, gen, sent, worker>>
    BY <1>3 DEF Dispatch, AcceptLoad, AcceptCount, AcceptEnqueue
  <2> QED BY <1>2, <2>1
<1>4. ASSUME NEW s \in Stream, AcceptSave(s) PROVE Tracked(k)'
  <2>1. UNCHANGED <<outbox, sent, worker>>
    BY <1>4 DEF AcceptSave
  <2>2. PICK j \in SubTask : j = handler[s].task.key
    BY <1>4, TaskKeys DEF AcceptSave
  <2>3. CASE SaveTask(j, handler[s].task.payload)
    <3>1. tasks'[k].status = "pending" \/ (tasks'[k] = tasks[k] /\ gen'[k] = gen[k])
      BY <2>3, Keys DEF SaveTask
    <3> QED BY <1>2, <2>1, <3>1 DEF Tracked
  <2>4. CASE UNCHANGED <<tasks, gen>>
    BY <1>2, <2>1, <2>4
  <2> QED BY <1>4, <2>2, <2>3, <2>4 DEF AcceptSave
<1>5. CASE WorkerRecv \/ WorkerCompute \/ WorkerFinish \/ WorkerRetain \/ WorkerSend
  <2>1. UNCHANGED <<tasks, outbox, gen>> /\ sent \subseteq sent' /\ worker.pc # "persist"
    BY <1>5 DEF WorkerRecv, WorkerCompute, WorkerFinish, WorkerRetain, WorkerSend, Send
  <2> QED BY <1>2, <2>1 DEF AtPersist
<1>6. CASE WorkerStatus \/ WorkerRestatus
  <2>1. /\ UNCHANGED <<outbox, gen, sent>> /\ worker.pc \in {"status", "restatus"}
        /\ UpdateStatus(worker.task.key, StatusOf(worker.res))
        /\ worker'.task = worker.task /\ (WorkerStatus => worker'.pc = "persist")
    BY <1>6 DEF WorkerStatus, WorkerRestatus, WorkerGoto, TypeInv, TypeOK
  <2>2. CASE k # worker.task.key
    <3>1. StatusOf(worker.res) \in Terminal /\ worker.task.key \in SubTask
      BY <2>1, Keys DEF StatusOf, Terminal
    <3>2. tasks'[k] = tasks[k]
      BY <2>1, <2>2, <3>1, UpdateStatusType, Keys
    <3> QED BY <1>2, <2>1, <3>2 DEF AtPersist
  <2>3. CASE k = worker.task.key /\ WorkerStatus
    BY <2>1, <2>3 DEF Tracked, AtPersist
  <2>4. CASE k = worker.task.key /\ WorkerRestatus
    <3>1. Stored(k) \/ Sent(k)
      BY <2>4 DEF WorkerRestatus, DeliveryInv, WorkerCurrent
    <3> QED BY <2>1, <3>1 DEF Tracked, Stored, Sent
  <2> QED BY <1>6, <2>2, <2>3, <2>4
<1>7. CASE WorkerPersist
  <2> DEFINE e == [key |-> worker.task.key, gen |-> worker.task.gen, res |-> worker.res]
  <2>1. /\ UNCHANGED <<tasks, gen, sent>> /\ worker.task.gen = gen[worker.task.key]
        /\ outbox' = {x \in outbox : x.key # worker.task.key} \cup {e}
    BY <1>7 DEF WorkerPersist, UpsertResult, DeliveryInv, WorkerCurrent
  <2>2. CASE k # worker.task.key
    BY <1>2, <2>1, <2>2 DEF AtPersist
  <2>3. CASE k = worker.task.key
    <3>1. e \in outbox' /\ e.key = k /\ e.gen = gen'[k]
      BY <2>1, <2>3
    <3> HIDE DEF e
    <3> QED BY <3>1 DEF Tracked, Stored
  <2> QED BY <2>2, <2>3
\* What is deleted was sent.
<1>8. ASSUME NEW j, outbox' = {x \in outbox : x.key # j}, Sent(j), UNCHANGED <<tasks, gen, sent>>,
             UNCHANGED worker \/ worker.pc # "persist"
      PROVE  Tracked(k)'
  <2>1. CASE k = j
    BY <1>8, <2>1 DEF Tracked, Sent
  <2>2. CASE k # j
    BY <1>2, <1>8, <2>2 DEF AtPersist
  <2> QED BY <2>1, <2>2
<1>9. CASE WorkerDelete
  BY <1>8, <1>9 DEF WorkerDelete, DeleteResult, DeliveryInv, WorkerCurrent
<1>10. CASE RetryDelete
  BY <1>8, <1>10 DEF RetryDelete, DeleteResult, DeliveryInv, RetryCurrent
<1>11. CASE RetryList \/ RetryRetain \/ \E e \in retry.todo, ok \in BOOLEAN : RetrySend(e, ok)
  <2>1. UNCHANGED <<tasks, outbox, gen, worker>> /\ sent \subseteq sent'
    BY <1>11 DEF RetryList, RetryRetain, RetrySend, Send
  <2> QED BY <1>2, <2>1
<1>12. CASE Prune \/ Boot \/ Start \/ \E j \in SubTask : Age(j) \/ RestoreHold(j) \/ RestoreTask(j)
  <2>1. UNCHANGED <<outbox, sent, gen, worker>>
    BY <1>12 DEF Prune, Boot, Start, Age, RestoreHold, RestoreTask
  <2>2. tasks[k].status = "pending" => tasks'[k].status = "pending"
    <3>1. CASE Prune
      BY <3>1 DEF Prune, Prunable, Terminal
    <3>2. ASSUME NEW j \in SubTask, Age(j) PROVE tasks'[k].status = tasks[k].status
      BY <3>2, AgeType, Keys
    <3>3. CASE Boot \/ Start \/ \E j \in SubTask : RestoreHold(j) \/ RestoreTask(j)
      BY <3>3 DEF Boot, Start, RestoreHold, RestoreTask
    <3> QED BY <1>12, <3>1, <3>2, <3>3
  <2> QED BY <1>2, <2>1, <2>2
<1> QED BY <1>1, <1>3, <1>4, <1>5, <1>6, <1>7, <1>9, <1>10, <1>11, <1>12 DEF Next, WorkerStep

\* A node that stores what it is told and does not die loses no result, whatever
\* sends fail and however the worker, the retry loop and the prune loop meet:
\* ResultTracked takes a crash to violate (run crash_loses_result), and a result
\* whose row was pruned has been handed over too (StageOf is never "lost").
THEOREM OnlyCrashesLose ==
  ASSUME StorageMayFail = FALSE, RowsAgeInFlight = FALSE
  PROVE  Spec => [](crashes = 0 => ResultTracked /\ \A k \in SubTask : StageOf(k) # "lost")
<1> DEFINE Lossless == crashes = 0 => ResultTracked /\ \A k \in SubTask : StageOf(k) # "lost"
<1>1. Init => TrackedInv
  BY DEF Init, TrackedInv, Tracked
<1>2. PipelineInv /\ TrackedInv /\ [Next]_vars => TrackedInv'
  <2>1. TrackedInv /\ UNCHANGED vars => TrackedInv'
    BY DEF vars, TrackedInv, Tracked, AtPersist, Stored, Sent
  <2> QED BY <2>1, NextTracked
<1>3. PipelineInv /\ TrackedInv => Lossless
  <2> SUFFICES ASSUME PipelineInv, TrackedInv, crashes = 0 PROVE Lossless
    OBVIOUS
  <2>1. ResultTracked
    <3> SUFFICES ASSUME NEW k \in SubTask, tasks[k].status \in Terminal
                 PROVE  Sent(k) \/ Stored(k) \/ AtPersist(k)
      BY DEF ResultTracked, Sent, Stored, AtPersist
    <3>1. gen[k] # 0 /\ tasks[k].status # "pending"
      BY DEF PipelineInv, DeliveryInv, Numbered, Present, Terminal
    <3> QED BY <3>1 DEF TrackedInv, Tracked
  <2>2. ASSUME NEW k \in SubTask PROVE StageOf(k) # "lost"
    BY <2>2 DEF StageOf, TrackedInv, Tracked, Stored, Sent, AtPersist
  <2> QED BY <2>1, <2>2
<1> HIDE DEF Lossless
<1>4. Spec => []Lossless
  BY <1>1, <1>2, <1>3, PipelineCurrent, PTL DEF Spec
<1> QED BY <1>4 DEF Lossless

-----------------------------------------------------------------------------
(* Where the tasks are.                                                    *)

\* The channel: what a send adds and what a receive takes.
LEMMA QueueAppended ==
  ASSUME TypeInv, NEW t \in Task, queue' = Append(queue, t)
  PROVE  \A k : Queued(k)' <=> Queued(k) \/ k = t.key
<1>1. /\ Len(queue') = Len(queue) + 1 /\ Len(queue) \in Nat
      /\ \A i \in 1..Len(queue) : queue'[i] = queue[i]
      /\ queue'[Len(queue) + 1] = t
  BY DEF TypeInv, TypeOK
<1>2. \A i \in 1..Len(queue') : i = Len(queue) + 1 \/ i \in 1..Len(queue)
  BY <1>1
<1>3. Len(queue) + 1 \in 1..Len(queue') /\ \A i \in 1..Len(queue) : i \in 1..Len(queue')
  BY <1>1
<1> QED BY <1>1, <1>2, <1>3 DEF Queued

LEMMA QueueTaken ==
  ASSUME TypeInv, queue # <<>>, queue' = Tail(queue)
  PROVE  /\ 1 \in 1..Len(queue) /\ Head(queue) = queue[1] /\ queue[1] \in Task
         /\ \A k : Queued(k) <=> Queued(k)' \/ k = queue[1].key
<1>1. /\ Len(queue') = Len(queue) - 1 /\ Len(queue) \in Nat \ {0}
      /\ \A i \in 1..Len(queue') : queue'[i] = queue[i + 1]
      /\ Head(queue) = queue[1] /\ queue[1] \in Task
  BY DEF TypeInv, TypeOK
<1>2. 1 \in 1..Len(queue)
  BY <1>1
<1>3. \A i \in 1..Len(queue') : i + 1 \in 1..Len(queue)
  BY <1>1
<1>4. \A i \in 1..Len(queue) : i = 1 \/ (i - 1 \in 1..Len(queue') /\ queue'[i - 1] = queue[i])
  BY <1>1
<1> QED BY <1>1, <1>2, <1>3, <1>4 DEF Queued

\* A stream's call moves on, and the other streams do not.
LEMMA StreamMoves ==
  ASSUME TypeInv, NEW s \in Stream,
         \/ \E k \in SubTask, p \in Payload : Dispatch(s, k, p)
         \/ AcceptLoad(s) \/ AcceptSave(s) \/ AcceptCount(s) \/ AcceptEnqueue(s)
  PROVE  /\ \A x \in Stream : x # s => handler'[x] = handler[x]
         /\ AcceptCount(s) => /\ handler'[s] = [pc |-> "send", task |-> handler[s].task]
                              /\ handler[s].pc = "count"
         /\ AcceptEnqueue(s) => handler'[s].pc = "idle" /\ handler[s].pc = "send"
         /\ AcceptLoad(s) => handler[s].pc = "load" /\ ~Accepting(s)'
         /\ AcceptSave(s) => handler[s].pc = "save" /\ handler'[s].pc # "send"
         /\ (\E k \in SubTask, p \in Payload : Dispatch(s, k, p)) => handler[s].pc = "idle" /\ ~Accepting(s)'
<1>0. handler \in [Stream -> [pc : {"idle", "load", "save", "count", "send"}, task : Task \cup {NoTask}]]
  BY DEF TypeInv, TypeOK
<1>1. PICK h : handler' = [handler EXCEPT ![s] = h]
  BY DEF Dispatch, AcceptLoad, AcceptSave, AcceptCount, AcceptEnqueue, Goto, Done
<1>2. \A x \in Stream : x # s => handler'[x] = handler[x]
  BY <1>0, <1>1
<1>3. AcceptCount(s) => handler'[s] = [pc |-> "send", task |-> handler[s].task] /\ handler[s].pc = "count"
  BY <1>0 DEF AcceptCount, Goto
<1>4. AcceptEnqueue(s) => handler'[s].pc = "idle" /\ handler[s].pc = "send"
  BY <1>0 DEF AcceptEnqueue, Done, IdleHandler
<1>5. AcceptLoad(s) => handler[s].pc = "load" /\ ~Accepting(s)'
  BY <1>0 DEF AcceptLoad, Done, Goto, IdleHandler, Accepting
<1>6. AcceptSave(s) => handler[s].pc = "save" /\ handler'[s].pc # "send"
  BY <1>0 DEF AcceptSave, Done, IdleHandler
<1>7. (\E k \in SubTask, p \in Payload : Dispatch(s, k, p)) => handler[s].pc = "idle" /\ ~Accepting(s)'
  BY <1>0 DEF Dispatch, Accepting
<1> QED BY <1>2, <1>3, <1>4, <1>5, <1>6, <1>7

LEMMA NextPending ==
  ASSUME TypeInv, PendingInv, StorageMayFail = FALSE, Next
  PROVE  PendingInv'
<1> SUFFICES ASSUME NEW k \in SubTask, mode' # "down", tasks'[k].status = "pending"
             PROVE  (k \in restore \/ AtStream(k) \/ Queued(k) \/ (Computing /\ AtWorker(k)))'
  BY DEF PendingInv
<1> DEFINE Placed == k \in restore \/ AtStream(k) \/ Queued(k) \/ (Computing /\ AtWorker(k))
<1>1. ASSUME mode # "down", tasks[k].status = "pending" PROVE Placed
  BY <1>1 DEF PendingInv
<1>2. ASSUME NEW s \in Stream,
             \/ \E j \in SubTask, p \in Payload : Dispatch(s, j, p)
             \/ AcceptLoad(s) \/ AcceptSave(s) \/ AcceptCount(s) \/ AcceptEnqueue(s)
      PROVE  Placed'
  <2>1. UNCHANGED <<mode, worker, restore>>
    BY <1>2 DEF Dispatch, AcceptLoad, AcceptSave, AcceptCount, AcceptEnqueue
  <2>2. CASE AcceptSave(s)
    <3>1. PICK j \in SubTask : j = handler[s].task.key
      BY <2>2, TaskKeys DEF AcceptSave
    <3>2. UNCHANGED queue /\ Queued(k)' = Queued(k) /\ handler[s].pc = "save"
      BY <2>2 DEF AcceptSave, Queued
    <3>3. CASE UNCHANGED <<tasks, gen>>
      BY <1>1, <1>2, <2>1, <2>2, <3>2, <3>3, StreamMoves DEF AtStream, Accepting, AtWorker, Computing
    <3>4. CASE SaveTask(j, handler[s].task.payload) /\ ~UNCHANGED <<tasks, gen>>
      <4>1. handler'[s].pc = "count" /\ handler'[s].task.key = j
        <5>1. handler'[s] = [pc |-> "count", task |-> [handler[s].task EXCEPT !.gen = gen'[j]]]
          BY <2>2, <3>1, <3>4 DEF AcceptSave, TypeInv, TypeOK
        <5>2. handler[s].task \in Task
          BY <3>2 DEF TypeInv, Shape
        <5> QED BY <3>1, <5>1, <5>2 DEF Task
      <4>2. k # j => tasks'[k] = tasks[k]
        BY <3>1, <3>4, Keys DEF SaveTask
      <4>3. CASE k = j
        BY <4>1, <4>3 DEF AtStream, Accepting
      <4>4. CASE k # j
        BY <1>1, <1>2, <2>1, <3>2, <4>2, <4>4, StreamMoves DEF AtStream, Accepting, AtWorker, Computing
      <4> QED BY <4>3, <4>4
    <3> QED BY <2>2, <3>1, <3>3, <3>4 DEF AcceptSave
  <2>3. CASE AcceptEnqueue(s)
    <3>1. handler[s].task \in Task /\ UNCHANGED tasks /\ queue' = Append(queue, handler[s].task)
      BY <2>3 DEF AcceptEnqueue, TypeInv, Shape
    <3>2. Queued(k)' <=> Queued(k) \/ k = handler[s].task.key
      BY <3>1, QueueAppended
    <3>3. AtStream(k) => AtStream(k)' \/ k = handler[s].task.key
      BY <1>2, StreamMoves DEF AtStream, Accepting
    <3> QED BY <1>1, <2>1, <3>1, <3>2, <3>3 DEF AtWorker, Computing
  <2>4. CASE ~AcceptSave(s) /\ ~AcceptEnqueue(s)
    <3>1. UNCHANGED <<tasks, queue>>
      BY <1>2, <2>4 DEF Dispatch, AcceptLoad, AcceptCount
    <3>2. /\ \A x \in Stream : x # s => handler'[x] = handler[x]
          /\ Accepting(s) => handler'[s] = [pc |-> "send", task |-> handler[s].task]
      BY <1>2, <2>4, StreamMoves DEF Accepting
    <3>3. AtStream(k) => AtStream(k)'
      BY <3>2 DEF AtStream, Accepting
    <3> QED BY <1>1, <2>1, <3>1, <3>3 DEF AtWorker, Computing, Queued
  <2> QED BY <2>2, <2>3, <2>4
<1>3. CASE WorkerRecv
  <2>1. /\ UNCHANGED <<tasks, mode, restore, handler>> /\ queue # <<>> /\ queue' = Tail(queue)
        /\ worker'.pc = "compute" /\ worker'.task = Head(queue) /\ worker.pc = "idle"
    BY <1>3 DEF WorkerRecv
  <2>2. Queued(k) => Queued(k)' \/ k = worker'.task.key
    BY <2>1, QueueTaken
  <2> QED BY <1>1, <2>1, <2>2 DEF AtStream, Accepting, AtWorker, Computing
<1>4. CASE WorkerStatus \/ WorkerRestatus
  <2>1. /\ UNCHANGED <<mode, restore, handler, queue>> /\ worker.pc # "idle"
        /\ UpdateStatus(worker.task.key, StatusOf(worker.res))
    BY <1>4 DEF WorkerStatus, WorkerRestatus
  <2>2. k # worker.task.key /\ tasks'[k] = tasks[k]
    <3>1. StatusOf(worker.res) \in Terminal /\ worker.task.key \in SubTask
      BY <2>1, Keys DEF StatusOf, Terminal
    <3> QED BY <2>1, <3>1, UpdateStatusType, Keys DEF Terminal
  <2> QED BY <1>1, <2>1, <2>2 DEF AtStream, Accepting, AtWorker, Queued
<1>5. CASE WorkerCompute \/ WorkerPersist \/ WorkerSend \/ WorkerDelete \/ WorkerRetain \/ WorkerFinish
  <2>1. /\ UNCHANGED <<tasks, mode, restore, handler, queue>>
        /\ Computing => Computing' /\ worker'.task = worker.task
    <3>1. CASE WorkerCompute
      BY <3>1 DEF WorkerCompute, Computing, TypeInv, TypeOK
    <3>2. CASE ~WorkerCompute
      BY <1>5, <3>2 DEF WorkerPersist, WorkerSend, WorkerDelete, WorkerRetain, WorkerFinish, Computing
    <3> QED BY <3>1, <3>2
  <2> QED BY <1>1, <2>1 DEF AtStream, Accepting, AtWorker, Computing, Queued
<1>6. CASE \/ RetryList \/ RetryDelete \/ RetryRetain \/ Prune
           \/ \E e \in retry.todo, ok \in BOOLEAN : RetrySend(e, ok)
           \/ \E j \in SubTask : Age(j) \/ RestoreHold(j)
  <2>1. UNCHANGED <<mode, restore, handler, queue, worker>>
    BY <1>6 DEF RetryList, RetryDelete, RetryRetain, RetrySend, Prune, Age, RestoreHold
  <2>2. tasks[k].status = "pending"
    <3>1. CASE Prune
      BY <3>1 DEF Prune, NoRow
    <3>2. ASSUME NEW j \in SubTask, Age(j) PROVE tasks[k].status = "pending"
      BY <3>2, AgeType, Keys
    <3>3. CASE \/ RetryList \/ RetryDelete \/ RetryRetain
               \/ \E e \in retry.todo, ok \in BOOLEAN : RetrySend(e, ok)
               \/ \E j \in SubTask : RestoreHold(j)
      BY <3>3 DEF RetryList, RetryDelete, RetryRetain, RetrySend, RestoreHold
    <3> QED BY <1>6, <3>1, <3>2, <3>3
  <2> QED BY <1>1, <2>1, <2>2 DEF AtStream, Accepting, AtWorker, Computing, Queued
<1>7. ASSUME NEW j \in SubTask, RestoreTask(j) PROVE Placed'
  <2>1. /\ UNCHANGED <<tasks, mode, handler, worker>> /\ restore' = restore \ {j} /\ mode = "restoring"
        /\ queue' = Append(queue, [key |-> j, payload |-> tasks[j].payload, gen |-> gen[j]])
    BY <1>7 DEF RestoreTask
  <2>2. [key |-> j, payload |-> tasks[j].payload, gen |-> gen[j]] \in Task
    BY <1>7 DEF RestoreTask, TypeInv, TypeOK, Shape, Task
  <2>3. Queued(k)' <=> Queued(k) \/ k = j
    BY <2>1, <2>2, QueueAppended
  <2> QED BY <1>1, <2>1, <2>3 DEF AtStream, Accepting, AtWorker, Computing
<1>8. CASE Boot
  BY <1>8 DEF Boot
<1>9. CASE Start
  <2>1. UNCHANGED <<tasks, restore, handler, queue, worker>> /\ mode = "restoring"
    BY <1>9 DEF Start
  <2> QED BY <1>1, <2>1 DEF AtStream, Accepting, AtWorker, Computing, Queued
<1>10. CASE Crash
  BY <1>10 DEF Crash
<1> QED BY <1>2, <1>3, <1>4, <1>5, <1>6, <1>7, <1>8, <1>9, <1>10 DEF Next, WorkerStep

\* In a running node every pending row is on its way to core: no accepted task waits
\* for the next restart, whatever the retention, the crashes and the races.
THEOREM PendingRowsOwned ==
  ASSUME StorageMayFail = FALSE
  PROVE  Spec => []PendingRowOwned
<1>1. Init => PendingInv
  BY DEF Init, PendingInv
<1>2. TypeInv /\ CounterExact /\ PendingInv /\ [Next]_vars => PendingInv'
  <2>1. TypeInv /\ PendingInv /\ Next => PendingInv'
    BY NextPending
  <2>2. PendingInv /\ UNCHANGED vars => PendingInv'
    BY DEF vars, PendingInv, AtStream, Accepting, AtWorker, Computing, Queued
  <2> QED BY <2>1, <2>2
<1>3. TypeInv /\ CounterExact /\ PendingInv => PendingRowOwned
  <2> SUFFICES ASSUME TypeInv, PendingInv, NEW k \in SubTask, mode = "up", tasks[k].status = "pending"
               PROVE  \E t \in Owned : t.key = k
    BY DEF PendingRowOwned
  <2>1. restore = {}
    BY DEF TypeInv, Shape
  <2>2. AtStream(k) \/ Queued(k) \/ (Computing /\ AtWorker(k))
    BY <2>1 DEF PendingInv
  <2> QED BY <2>2 DEF AtStream, AtWorker, Queued, Owned
<1> QED BY <1>1, <1>2, <1>3, PipelineInductive, PTL DEF Spec

LEMMA NextHeld ==
  ASSUME PipelineInv, HeldInv, Next
  PROVE  HeldInv'
<1> USE DEF PipelineInv
<1>1. ASSUME UNCHANGED <<held, queue, worker, restore>>, \A k : AtSend(k)' <=> AtSend(k) PROVE HeldInv'
  BY <1>1 DEF HeldInv, Queued, AtWorker
<1>2. ASSUME NEW s \in Stream,
             \/ \E k \in SubTask, p \in Payload : Dispatch(s, k, p)
             \/ AcceptLoad(s) \/ AcceptSave(s)
      PROVE  HeldInv'
  <2>1. UNCHANGED <<held, queue, worker, restore>>
    BY <1>2 DEF Dispatch, AcceptLoad, AcceptSave
  <2>2. /\ \A x \in Stream : x # s => handler'[x] = handler[x]
        /\ handler[s].pc # "send" /\ handler'[s].pc # "send"
    BY <1>2, StreamMoves DEF Accepting
  <2> QED BY <1>1, <2>1, <2>2 DEF AtSend
<1>3. ASSUME NEW s \in Stream, AcceptCount(s) PROVE HeldInv'
  <2>1. /\ UNCHANGED <<queue, worker, restore>> /\ held' = held \cup {handler[s].task.key}
        /\ restore = {}
    BY <1>3 DEF AcceptCount, TypeInv, Shape
  <2>2. /\ \A x \in Stream : x # s => handler'[x] = handler[x]
        /\ handler[s].pc # "send" /\ handler'[s].pc = "send" /\ handler'[s].task = handler[s].task
    <3>1. /\ \A x \in Stream : x # s => handler'[x] = handler[x]
          /\ handler'[s] = [pc |-> "send", task |-> handler[s].task] /\ handler[s].pc = "count"
      BY <1>3, StreamMoves
    <3> QED BY <3>1
  <2>3. \A k : AtSend(k)' <=> AtSend(k) \/ k = handler[s].task.key
    BY <2>2 DEF AtSend
  <2> QED BY <2>1, <2>3 DEF HeldInv, Queued, AtWorker
<1>4. ASSUME NEW s \in Stream, AcceptEnqueue(s) PROVE HeldInv'
  <2>1. /\ UNCHANGED <<held, worker, restore>> /\ queue' = Append(queue, handler[s].task)
        /\ handler[s].pc = "send" /\ handler[s].task \in Task
    BY <1>4 DEF AcceptEnqueue, TypeInv, Shape
  <2>2. (\A x \in Stream : x # s => handler'[x] = handler[x]) /\ handler'[s].pc = "idle"
    BY <1>4, StreamMoves
  <2>3. \A k : AtSend(k) <=> AtSend(k)' \/ k = handler[s].task.key
    BY <2>1, <2>2 DEF AtSend
  <2>4. \A k : Queued(k)' <=> Queued(k) \/ k = handler[s].task.key
    BY <2>1, QueueAppended
  <2> QED BY <2>1, <2>3, <2>4 DEF HeldInv, AtWorker
<1>5. CASE WorkerRecv
  <2>1. /\ UNCHANGED <<held, handler, restore>> /\ queue # <<>> /\ queue' = Tail(queue)
        /\ worker'.pc # "idle" /\ worker'.task = Head(queue) /\ worker.pc = "idle"
    BY <1>5 DEF WorkerRecv
  <2>2. \A k : Queued(k) <=> Queued(k)' \/ k = worker'.task.key
    BY <2>1, QueueTaken
  <2> QED BY <2>1, <2>2 DEF HeldInv, AtSend, AtWorker
<1>6. CASE \/ WorkerCompute \/ WorkerStatus \/ WorkerPersist \/ WorkerRestatus
           \/ WorkerSend \/ WorkerDelete \/ WorkerRetain
  <2>1. /\ UNCHANGED <<held, handler, queue, restore>> /\ worker.pc # "idle" /\ worker'.pc # "idle"
        /\ worker'.task = worker.task
    BY <1>6 DEF WorkerCompute, WorkerStatus, WorkerPersist, WorkerRestatus, WorkerSend, WorkerDelete,
                WorkerRetain, WorkerGoto, TypeInv, TypeOK
  <2> QED BY <2>1 DEF HeldInv, AtSend, AtWorker, Queued
\* Nobody else has the key the worker releases.
<1>7. CASE WorkerFinish
  <2>1. /\ UNCHANGED <<handler, queue, restore>> /\ worker.pc # "idle" /\ worker'.pc = "idle"
        /\ held' = held \ {worker.task.key}
    BY <1>7 DEF WorkerFinish, IdleWorker
  <2>2. ~AtSend(worker.task.key) /\ ~Queued(worker.task.key)
    BY <2>1 DEF OwnInv, Exclusive, AtSend, Queued, Accepting
  <2> QED BY <2>1, <2>2 DEF HeldInv, AtSend, AtWorker, Queued
<1>8. CASE \/ RetryList \/ RetryDelete \/ RetryRetain \/ Prune \/ Start
           \/ \E e \in retry.todo, ok \in BOOLEAN : RetrySend(e, ok)
           \/ \E k \in SubTask : Age(k)
  <2>1. UNCHANGED <<held, handler, queue, worker, restore>>
    BY <1>8 DEF RetryList, RetryDelete, RetryRetain, RetrySend, Prune, Age, Start
  <2> QED BY <1>1, <2>1 DEF AtSend
<1>9. ASSUME NEW j \in SubTask, RestoreTask(j) PROVE HeldInv'
  <2>1. /\ UNCHANGED <<held, handler, worker>> /\ j \in held /\ restore' = restore \ {j}
        /\ queue' = Append(queue, [key |-> j, payload |-> tasks[j].payload, gen |-> gen[j]])
    BY <1>9 DEF RestoreTask
  <2>2. [key |-> j, payload |-> tasks[j].payload, gen |-> gen[j]] \in Task
    BY <1>9 DEF RestoreTask, TypeInv, TypeOK, Shape, Task
  <2>3. \A k : Queued(k)' <=> Queued(k) \/ k = j
    BY <2>1, <2>2, QueueAppended
  <2> QED BY <2>1, <2>3 DEF HeldInv, AtSend, AtWorker
<1>11. ASSUME NEW j \in SubTask, RestoreHold(j) PROVE HeldInv'
  <2>1. /\ UNCHANGED <<handler, queue, worker, restore>> /\ held' = held \cup {j}
        /\ j \in restore /\ restore \cap held = {}
    BY <1>11 DEF RestoreHold
  <2> QED BY <2>1 DEF HeldInv, AtSend, AtWorker, Queued
\* A process that is down holds nothing.
<1>12. CASE Boot
  <2>1. /\ UNCHANGED <<held, handler, queue, worker>> /\ restore = {}
        /\ Len(queue) = 0 /\ worker.pc = "idle" /\ \A s \in Stream : handler[s].pc = "idle"
    BY <1>12 DEF Boot, TypeInv, Shape
  <2>2. held = {}
    BY <2>1 DEF HeldInv, AtSend, AtWorker, Queued
  <2> QED BY <2>1, <2>2 DEF HeldInv, AtSend, AtWorker, Queued
<1>10. CASE Crash
  <2>1. held' = {} /\ restore' = {} /\ Len(queue') = 0
    BY <1>10 DEF Crash
  <2> QED BY <1>10, <2>1, CrashState DEF HeldInv, AtSend, AtWorker, Queued
<1> QED BY <1>2, <1>3, <1>4, <1>5, <1>6, <1>7, <1>8, <1>9, <1>10, <1>11, <1>12 DEF Next, WorkerStep

\* No hold of the work ledger leaks and none is released early, for any number of
\* streams, any channel capacity, storage errors and crashes, and also while the
\* restart waits for room in the channel.
THEOREM HoldsExact ==
  ASSUME RowsAgeInFlight = FALSE
  PROVE  Spec => []HeldExact
<1>1. Init => HeldInv
  BY DEF Init, HeldInv, AtSend, AtWorker, Queued, IdleHandler, IdleWorker
<1>2. PipelineInv /\ HeldInv /\ [Next]_vars => HeldInv'
  <2>1. PipelineInv /\ HeldInv /\ Next => HeldInv'
    BY NextHeld
  <2>2. HeldInv /\ UNCHANGED vars => HeldInv'
    BY DEF vars, HeldInv, AtSend, AtWorker, Queued
  <2> QED BY <2>1, <2>2
<1>3. HeldInv => HeldExact
  <2> DEFINE Places == {handler[s].task.key : s \in Counted}
                         \cup {queue[i].key : i \in 1..Len(queue)}
                         \cup (IF worker.pc = "idle" THEN {} ELSE {worker.task.key})
  <2>1. \A k : k \in Places <=> AtSend(k) \/ Queued(k) \/ AtWorker(k)
    BY DEF AtSend, Queued, AtWorker, Counted
  <2> HIDE DEF Places
  <2>2. HeldInv => held \ restore = Places
    BY <2>1 DEF HeldInv
  <2>3. HeldInv => \A j, k \in restore \cap held : j = k
    BY DEF HeldInv
  <2> QED BY <2>2, <2>3 DEF HeldExact, Places
<1> QED BY <1>1, <1>2, <1>3, PipelineCurrent, PTL DEF Spec

-----------------------------------------------------------------------------
(* The refinement.                                                         *)

Pending(k) == tasks[k].status = "pending"

\* StageOf, case by case.
StageCases(k) ==
  /\ gen[k] = 0 => StageOf(k) = "none"
  /\ gen[k] # 0 =>
       /\ Stored(k) => StageOf(k) = "stored"
       /\ ~Stored(k) /\ Sent(k) => StageOf(k) = "settled"
       /\ Fresh(k) /\ Pending(k) => StageOf(k) = "accepted"
       /\ Fresh(k) /\ ~Pending(k) /\ AtPersist(k) => StageOf(k) = "finished"
       /\ Fresh(k) /\ ~Pending(k) /\ ~AtPersist(k) => StageOf(k) = "lost"

LEMMA StagesNow == \A k : StageCases(k) /\ StageCases(k)'
<1>1. ASSUME NEW k PROVE StageCases(k)
  <2>1. CASE gen[k] = 0
    BY <2>1 DEF StageCases, StageOf
  <2>2. CASE gen[k] # 0 /\ Stored(k)
    BY <2>2 DEF StageCases, StageOf, Stored, Fresh
  <2>3. CASE gen[k] # 0 /\ ~Stored(k) /\ Sent(k)
    BY <2>3 DEF StageCases, StageOf, Stored, Sent, Fresh
  <2>4. CASE gen[k] # 0 /\ Fresh(k)
    BY <2>4 DEF StageCases, StageOf, Stored, Sent, Fresh, Pending, AtPersist
  <2> QED BY <2>1, <2>2, <2>3, <2>4 DEF Fresh
<1>2. ASSUME NEW k PROVE StageCases(k)'
  <2>1. CASE (gen[k] = 0)'
    BY <2>1 DEF StageCases, StageOf
  <2>2. CASE (gen[k] # 0 /\ Stored(k))'
    BY <2>2 DEF StageCases, StageOf, Stored, Fresh
  <2>3. CASE (gen[k] # 0 /\ ~Stored(k) /\ Sent(k))'
    BY <2>3 DEF StageCases, StageOf, Stored, Sent, Fresh
  <2>4. CASE (gen[k] # 0 /\ Fresh(k))'
    BY <2>4 DEF StageCases, StageOf, Stored, Sent, Fresh, Pending, AtPersist
  <2> QED BY <2>1, <2>2, <2>3, <2>4 DEF Fresh
<1> QED BY <1>1, <1>2

\* What StageOf looks at is as before.
Same(k) ==
  /\ gen'[k] = gen[k]
  /\ Stored(k)' <=> Stored(k)
  /\ Sent(k)' <=> Sent(k)
  /\ Pending(k)' <=> Pending(k)
  /\ AtPersist(k)' <=> AtPersist(k)

LEMMA SameStage == \A k : Same(k) => StageOf(k)' = StageOf(k)
BY DEF Same, StageOf, Stored, Sent, Pending, AtPersist

AbstractStep == [Delivery!Next]_(Delivery!vars)

\* A step that changes no stage.
LEMMA StutterStep ==
  ASSUME UNCHANGED <<gen, sent>>, \A k \in SubTask : StageOf(k)' = StageOf(k)
  PROVE  AbstractStep
BY DEF AbstractStep, Delivery!vars

\* A step that moves the stage of one key.
LEMMA MoveStep ==
  ASSUME NEW k \in SubTask, UNCHANGED <<gen, sent>>,
         \A j \in SubTask : j # k => StageOf(j)' = StageOf(j),
         LET from == StageOf(k) to == StageOf(k)' IN
         \/ to = from
         \/ from = "accepted" /\ to = "finished"
         \/ from = "finished" /\ to = "stored"
         \/ from \in {"accepted", "settled"} /\ to = "stored" /\ StorageMayFail
         \/ from = "finished" /\ to = "lost"
         \/ from = "stored" /\ to = "settled" /\ <<k, gen[k]>> \in sent
  PROVE  AbstractStep
<1> DEFINE stages == [j \in SubTask |-> StageOf(j)]
           stagesNext == [j \in SubTask |-> StageOf(j)']
<1>1. CASE StageOf(k)' = StageOf(k)
  BY <1>1, StutterStep
<1>2. stagesNext = [stages EXCEPT ![k] = StageOf(k)'] /\ stages[k] = StageOf(k)
  OBVIOUS
<1>3. CASE StageOf(k) = "accepted" /\ StageOf(k)' = "finished"
  <2>1. Delivery!Finish(k)
    BY <1>2, <1>3 DEF Delivery!Finish, Delivery!Move
  <2> QED BY <2>1 DEF AbstractStep, Delivery!Next
<1>4. CASE /\ StageOf(k)' = "stored"
           /\ \/ StageOf(k) = "finished"
              \/ StageOf(k) \in {"accepted", "settled"} /\ StorageMayFail
  <2>1. Delivery!Store(k)
    BY <1>2, <1>4 DEF Delivery!Store, Delivery!Move
  <2> QED BY <2>1 DEF AbstractStep, Delivery!Next
<1>5. CASE StageOf(k) = "finished" /\ StageOf(k)' = "lost"
  <2>1. Delivery!Lose(k)
    BY <1>2, <1>5 DEF Delivery!Lose, Delivery!Move
  <2> QED BY <2>1 DEF AbstractStep, Delivery!Next
<1>6. CASE StageOf(k) = "stored" /\ StageOf(k)' = "settled" /\ <<k, gen[k]>> \in sent
  <2>1. Delivery!Settle(k)
    BY <1>2, <1>6 DEF Delivery!Settle, Delivery!Move, Delivery!Latest
  <2> QED BY <2>1 DEF AbstractStep, Delivery!Next
<1> QED BY <1>1, <1>3, <1>4, <1>5, <1>6

\* The current result of a key is sent while it is stored, or once more.
LEMMA DeliverStep ==
  ASSUME NEW k \in SubTask, gen[k] # 0, UNCHANGED gen, Stored(k) \/ Sent(k),
         sent' \in {sent, sent \cup {<<k, gen[k]>>}},
         \A j \in SubTask : /\ Stored(j)' <=> Stored(j)
                            /\ Pending(j)' <=> Pending(j)
                            /\ AtPersist(j)' <=> AtPersist(j)
  PROVE  AbstractStep
<1>1. CASE sent' = sent
  <2>1. \A j \in SubTask : Same(j)
    BY <1>1 DEF Same, Sent
  <2> QED BY <1>1, <2>1, SameStage, StutterStep
<1>2. CASE sent' # sent
  <2>1. sent' = sent \cup {<<k, gen[k]>>} /\ Stored(k) /\ \A j \in SubTask : j # k => Same(j)
    BY <1>2 DEF Same, Sent
  <2>2. StageOf(k) = "stored" /\ StageOf(k)' = "stored"
    BY <2>1, StagesNow DEF StageCases
  <2>3. \A j \in SubTask : StageOf(j)' = StageOf(j)
    BY <2>1, <2>2, SameStage
  <2>4. Delivery!Deliver(k)
    BY <2>1, <2>2, <2>3 DEF Delivery!Deliver, Delivery!Latest
  <2> QED BY <2>4 DEF AbstractStep, Delivery!Next
<1> QED BY <1>1, <1>2

\* A new row: the former acceptance of the key is over.
LEMMA AcceptStep ==
  ASSUME PipelineInv, NEW s \in Stream, AcceptSave(s)
  PROVE  AbstractStep
<1> USE DEF PipelineInv
<1>0. PICK k \in SubTask : k = handler[s].task.key
  BY TaskKeys DEF AcceptSave
<1>1. CASE UNCHANGED <<tasks, gen>>
  <2>1. UNCHANGED <<sent, gen>> /\ \A j \in SubTask : Same(j)
    BY <1>1 DEF AcceptSave, Same, Stored, Sent, Pending, AtPersist
  <2> QED BY <2>1, SameStage, StutterStep
<1>2. CASE ~HasRow(k) /\ SaveTask(k, handler[s].task.payload)
  <2>1. /\ UNCHANGED <<outbox, sent, worker>> /\ ~Present(k) /\ gen[k] < MaxGen
        /\ tasks' = [tasks EXCEPT ![k] = [status |-> "pending", payload |-> handler[s].task.payload,
                                          old |-> FALSE]]
        /\ gen' = [gen EXCEPT ![k] = gen[k] + 1]
    BY <1>0, <1>2, Keys DEF AcceptSave, SaveTask, HasRow, Present, TypeInv, Shape
  <2>2. /\ gen'[k] = gen[k] + 1 /\ gen[k] \in 0..MaxGen /\ gen'[k] \in 0..MaxGen /\ gen'[k] # 0
        /\ Pending(k)' /\ ~Pending(k)
        /\ \A j \in SubTask : j # k => tasks'[j] = tasks[j] /\ gen'[j] = gen[j]
    BY <2>1, Keys DEF Pending, Present
  <2>3. (\A e \in outbox : e.key # k) /\ ~AtPersist(k)
    BY <2>1 DEF DeliveryInv, OutboxCurrent, OwnInv, Young, Present, AtPersist
  <2>4. <<k, gen'[k]>> \notin sent
    BY <2>2 DEF DeliveryInv, Numbered
  <2>5. Fresh(k)' /\ ~Stored(k)
    BY <2>1, <2>3, <2>4 DEF Fresh, Stored, Sent
  <2>6. StageOf(k)' = "accepted" /\ StageOf(k) \in {"none", "settled", "lost"}
    BY <2>2, <2>3, <2>5, StagesNow DEF StageCases, Fresh
  <2>7. \A j \in SubTask : j # k => StageOf(j)' = StageOf(j)
    <3>1. \A j \in SubTask : j # k => Same(j)
      BY <2>1, <2>2 DEF Same, Stored, Sent, Pending, AtPersist
    <3> QED BY <3>1, SameStage
  <2>8. Delivery!Accept(k)
    <3> DEFINE stages == [j \in SubTask |-> StageOf(j)]
               stagesNext == [j \in SubTask |-> StageOf(j)']
    <3>1. stagesNext = [stages EXCEPT ![k] = "accepted"] /\ stages[k] \in {"none", "settled", "lost"}
      BY <2>6, <2>7
    <3> QED BY <2>1, <3>1 DEF Delivery!Accept, Delivery!Move, Delivery!Over
  <2> QED BY <2>8 DEF AbstractStep, Delivery!Next
<1> QED BY <1>0, <1>1, <1>2 DEF AcceptSave

LEMMA WorkerAbstract ==
  ASSUME PipelineInv, StorageMayFail = FALSE => StatusExact, WorkerStep
  PROVE  AbstractStep
<1> USE DEF PipelineInv
<1>0. worker.pc # "idle" =>
        /\ worker.task.key \in SubTask /\ gen[worker.task.key] # 0
        /\ worker.task.gen = gen[worker.task.key]
  BY Keys DEF OwnInv, Young, DeliveryInv, Numbered, WorkerCurrent, Present
<1>1. CASE WorkerRecv \/ WorkerCompute \/ WorkerRetain \/ WorkerFinish
  <2>1. UNCHANGED <<tasks, outbox, gen, sent>> /\ worker.pc # "persist" /\ worker'.pc # "persist"
    <3>1. CASE WorkerFinish
      BY <3>1 DEF WorkerFinish, IdleWorker
    <3>2. CASE WorkerRecv
      BY <3>2 DEF WorkerRecv
    <3>3. CASE WorkerCompute \/ WorkerRetain
      BY <3>3 DEF WorkerCompute, WorkerRetain, WorkerGoto, TypeInv, TypeOK
    <3> QED BY <1>1, <3>1, <3>2, <3>3
  <2>2. \A j \in SubTask : Same(j)
    BY <2>1 DEF Same, Stored, Sent, Pending, AtPersist
  <2> QED BY <2>1, <2>2, SameStage, StutterStep
<1>2. CASE WorkerStatus \/ WorkerRestatus
  <2>0. /\ UNCHANGED <<outbox, gen, sent>> /\ worker'.task = worker.task
        /\ \/ worker.pc = "status" /\ worker'.pc = "persist"
           \/ worker.pc = "restatus" /\ worker'.pc = "send"
        /\ UpdateStatus(worker.task.key, StatusOf(worker.res)) \/ UNCHANGED tasks
    BY <1>2 DEF WorkerStatus, WorkerRestatus, WorkerGoto, TypeInv, TypeOK
  <2>1. PICK k \in SubTask : k = worker.task.key /\ gen[k] # 0
    BY <1>0, <2>0
  <2>2. \A j \in SubTask : j # k => tasks'[j] = tasks[j]
    <3>1. StatusOf(worker.res) \in Terminal
      BY DEF StatusOf, Terminal
    <3> QED BY <2>0, <2>1, <3>1, UpdateStatusType, Keys
  <2>3. \A j \in SubTask : j # k => Same(j)
    BY <2>0, <2>1, <2>2 DEF Same, Stored, Sent, Pending, AtPersist
  <2>4. (Stored(k)' <=> Stored(k)) /\ (Sent(k)' <=> Sent(k)) /\ gen'[k] # 0
    BY <2>0, <2>1 DEF Stored, Sent
  <2>5. CASE Stored(k) \/ Sent(k)
    <3>1. StageOf(k)' = StageOf(k)
      BY <2>1, <2>4, <2>5, StagesNow DEF StageCases
    <3> QED BY <2>0, <2>3, <3>1, SameStage, StutterStep
  <2>6. CASE Fresh(k)
    <3>1. worker.pc = "status" /\ worker'.pc = "persist"
      BY <2>0, <2>1, <2>6 DEF Fresh, DeliveryInv, WorkerCurrent
    <3>2. Pending(k) /\ AtPersist(k)'
      BY <2>0, <2>1, <3>1 DEF OwnInv, Matching, Computing, RowMatches, Pending, AtPersist
    <3>3. StageOf(k) = "accepted" /\ StageOf(k)' \in {"accepted", "finished"}
      BY <2>1, <2>4, <2>6, <3>2, StagesNow DEF StageCases, Fresh
    <3> QED BY <2>0, <2>1, <2>3, <3>3, SameStage, MoveStep
  <2> QED BY <2>5, <2>6 DEF Fresh
<1>3. CASE WorkerPersist
  <2>0. /\ UNCHANGED <<tasks, gen, sent>> /\ worker'.task = worker.task
        /\ worker.pc = "persist" /\ worker'.pc # "persist"
        /\ \/ UpsertResult([key |-> worker.task.key, gen |-> worker.task.gen, res |-> worker.res])
           \/ StorageMayFail /\ UNCHANGED outbox
    BY <1>3 DEF WorkerPersist, WorkerGoto, TypeInv, TypeOK
  <2>1. PICK k \in SubTask : /\ k = worker.task.key /\ gen[k] # 0 /\ worker.task.gen = gen[k]
                             /\ AtPersist(k)
    BY <1>0, <2>0 DEF AtPersist
  <2>2. StorageMayFail = FALSE => Fresh(k) /\ ~Pending(k)
    BY <2>0, <2>1 DEF StatusExact, WorkerExact, StatusOf, Pending
  <2>3. StageOf(k) \in {"stored", "settled", "accepted", "finished"}
        /\ (StorageMayFail = FALSE => StageOf(k) = "finished")
    BY <2>1, <2>2, StagesNow DEF StageCases, Fresh
  <2>4. /\ (Sent(k)' <=> Sent(k)) /\ (Pending(k)' <=> Pending(k)) /\ gen'[k] # 0 /\ ~AtPersist(k)'
    BY <2>0, <2>1 DEF Sent, Pending, AtPersist
  <2>5. StorageMayFail \in BOOLEAN
    BY ConstantsAssumption
  <2>6. CASE UpsertResult([key |-> k, gen |-> gen[k], res |-> worker.res])
    <3> DEFINE new == [key |-> k, gen |-> gen[k], res |-> worker.res]
    <3>1. outbox' = {x \in outbox : x.key # k} \cup {new} /\ new.key = k /\ new.gen = gen[k]
      BY <2>6 DEF UpsertResult
    <3> HIDE DEF new
    <3>2. \A j \in SubTask : j # k => Same(j)
      BY <2>0, <2>1, <3>1 DEF Same, Stored, Sent, Pending, AtPersist
    <3>3. Stored(k)'
      BY <2>0, <3>1 DEF Stored
    <3>4. StageOf(k)' = "stored"
      BY <2>4, <3>3, StagesNow DEF StageCases
    <3> QED BY <2>0, <2>3, <2>5, <3>2, <3>4, SameStage, MoveStep
  <2>7. CASE StorageMayFail /\ UNCHANGED outbox
    <3>1. \A j \in SubTask : j # k => Same(j)
      BY <2>0, <2>1, <2>7 DEF Same, Stored, Sent, Pending, AtPersist
    <3>2. Stored(k)' <=> Stored(k)
      BY <2>0, <2>7 DEF Stored
    <3>3. StageOf(k)' = StageOf(k) \/ (StageOf(k) = "finished" /\ StageOf(k)' = "lost")
      BY <2>1, <2>4, <3>2, StagesNow DEF StageCases, Fresh
    <3> QED BY <2>0, <3>1, <3>3, SameStage, MoveStep
  <2> QED BY <2>0, <2>1, <2>6, <2>7
<1>4. CASE WorkerSend
  <2>0. /\ worker.pc = "send" /\ worker'.pc # "persist" /\ UNCHANGED <<tasks, outbox, gen>>
        /\ sent' \in {sent, sent \cup {<<worker.task.key, worker.task.gen>>}}
    BY <1>4 DEF WorkerSend, Send, WorkerGoto, TypeInv, TypeOK
  <2>1. PICK k \in SubTask : /\ k = worker.task.key /\ gen[k] # 0 /\ worker.task.gen = gen[k]
                             /\ Stored(k) \/ Sent(k)
    BY <1>0, <2>0 DEF DeliveryInv, WorkerCurrent
  <2>2. \A j \in SubTask : /\ Stored(j)' <=> Stored(j)
                           /\ Pending(j)' <=> Pending(j)
                           /\ AtPersist(j)' <=> AtPersist(j)
    BY <2>0 DEF Stored, Pending, AtPersist
  <2> QED BY <2>0, <2>1, <2>2, DeliverStep
<1>5. CASE WorkerDelete
  <2>0. /\ worker.pc = "delete" /\ worker'.pc # "persist" /\ UNCHANGED <<tasks, sent, gen>>
        /\ UNCHANGED outbox \/ outbox' = {x \in outbox : x.key # worker.task.key}
    BY <1>5 DEF WorkerDelete, DeleteResult, WorkerGoto, TypeInv, TypeOK
  <2>1. PICK k \in SubTask : k = worker.task.key /\ gen[k] # 0 /\ Sent(k)
    BY <1>0, <2>0 DEF DeliveryInv, WorkerCurrent
  <2>2. \A j \in SubTask : j # k => Same(j)
    BY <2>0, <2>1 DEF Same, Stored, Sent, Pending, AtPersist
  <2>3. Sent(k)' /\ gen'[k] # 0 /\ (Stored(k)' => Stored(k))
    BY <2>0, <2>1 DEF Sent, Stored
  <2>4. StageOf(k)' = StageOf(k) \/ (StageOf(k) = "stored" /\ StageOf(k)' = "settled")
    BY <2>1, <2>3, StagesNow DEF StageCases
  <2> QED BY <2>0, <2>1, <2>2, <2>4, SameStage, MoveStep DEF Sent
<1> QED BY <1>1, <1>2, <1>3, <1>4, <1>5 DEF WorkerStep

LEMMA NextAbstract ==
  ASSUME PipelineInv, StorageMayFail = FALSE => StatusExact, RowsAgeInFlight = FALSE, Next
  PROVE  AbstractStep
<1> USE DEF PipelineInv
<1>1. CASE \/ \E s \in Stream : \/ \E k \in SubTask, p \in Payload : Dispatch(s, k, p)
                                \/ AcceptLoad(s) \/ AcceptCount(s) \/ AcceptEnqueue(s)
           \/ RetryList \/ RetryRetain \/ Boot \/ Start
           \/ \E k \in SubTask : RestoreHold(k) \/ RestoreTask(k)
  <2>1. UNCHANGED <<tasks, outbox, gen, sent, worker>>
    BY <1>1 DEF Dispatch, AcceptLoad, AcceptCount, AcceptEnqueue, RetryList, RetryRetain, Boot, Start,
                RestoreHold, RestoreTask
  <2>2. \A j \in SubTask : Same(j)
    BY <2>1 DEF Same, Stored, Sent, Pending, AtPersist
  <2> QED BY <2>1, <2>2, SameStage, StutterStep
<1>2. CASE RetryDelete
  <2>0. /\ retry.pc = "delete" /\ UNCHANGED <<tasks, sent, gen, worker>>
        /\ UNCHANGED outbox \/ outbox' = {x \in outbox : x.key # retry.cur.key}
    BY <1>2 DEF RetryDelete, DeleteResult
  <2>1. PICK k \in SubTask : k = retry.cur.key /\ gen[k] # 0 /\ Sent(k)
    BY <2>0, Keys DEF DeliveryInv, RetryCurrent, Listed, Numbered
  <2>2. \A j \in SubTask : j # k => Same(j)
    BY <2>0, <2>1 DEF Same, Stored, Sent, Pending, AtPersist
  <2>3. Sent(k)' /\ gen'[k] # 0 /\ (Stored(k)' => Stored(k))
    BY <2>0, <2>1 DEF Sent, Stored
  <2>4. StageOf(k)' = StageOf(k) \/ (StageOf(k) = "stored" /\ StageOf(k)' = "settled")
    BY <2>1, <2>3, StagesNow DEF StageCases
  <2> QED BY <2>0, <2>1, <2>2, <2>4, SameStage, MoveStep DEF Sent
<1>3. ASSUME NEW e \in retry.todo, NEW ok \in BOOLEAN, RetrySend(e, ok) PROVE AbstractStep
  <2>0. /\ UNCHANGED <<tasks, outbox, gen, worker>>
        /\ sent' \in {sent, sent \cup {<<e.key, e.gen>>}}
    BY <1>3 DEF RetrySend, Send
  <2>1. PICK k \in SubTask : k = e.key /\ e.gen = gen[k] /\ gen[k] # 0 /\ (Stored(k) \/ Sent(k))
    BY Keys DEF DeliveryInv, RetryCurrent, Listed, Numbered
  <2>2. \A j \in SubTask : /\ Stored(j)' <=> Stored(j)
                           /\ Pending(j)' <=> Pending(j)
                           /\ AtPersist(j)' <=> AtPersist(j)
    BY <2>0 DEF Stored, Pending, AtPersist
  <2> QED BY <2>0, <2>1, <2>2, DeliverStep
<1>4. CASE Prune \/ \E k \in SubTask : Age(k)
  <2>1. UNCHANGED <<outbox, gen, sent, worker>>
    BY <1>4 DEF Prune, Age
  <2>2. \A j \in SubTask : Pending(j)' <=> Pending(j)
    <3>1. CASE Prune
      BY <3>1 DEF Prune, Prunable, NoRow, Terminal, Pending
    <3>2. ASSUME NEW k \in SubTask, Age(k) PROVE \A j \in SubTask : Pending(j)' <=> Pending(j)
      BY <3>2, AgeType, Keys DEF Pending
    <3> QED BY <1>4, <3>1, <3>2
  <2>3. \A j \in SubTask : Same(j)
    BY <2>1, <2>2 DEF Same, Stored, Sent, AtPersist
  <2> QED BY <2>1, <2>3, SameStage, StutterStep
\* A crash loses the result the worker was about to store, and no other.
<1>5. CASE Crash
  <2>1. UNCHANGED <<tasks, outbox, gen, sent>> /\ \A j : ~AtPersist(j)'
    BY <1>5, CrashState DEF Crash, AtPersist
  <2>2. CASE worker.pc # "persist"
    <3>1. \A j \in SubTask : Same(j)
      BY <2>1, <2>2 DEF Same, Stored, Sent, Pending, AtPersist
    <3> QED BY <2>1, <3>1, SameStage, StutterStep
  <2>3. CASE worker.pc = "persist"
    <3>1. PICK k \in SubTask : k = worker.task.key
      BY <2>3, Keys
    <3>2. \A j \in SubTask : j # k => Same(j)
      BY <2>1, <3>1 DEF Same, Stored, Sent, Pending, AtPersist
    <3>3. gen'[k] = gen[k] /\ (Stored(k)' <=> Stored(k)) /\ (Sent(k)' <=> Sent(k)) /\ (Pending(k)' <=> Pending(k))
      BY <2>1 DEF Stored, Sent, Pending
    <3>4. StageOf(k)' = StageOf(k) \/ (StageOf(k) = "finished" /\ StageOf(k)' = "lost")
      BY <2>1, <3>3, StagesNow DEF StageCases, Fresh
    <3> QED BY <2>1, <3>2, <3>4, SameStage, MoveStep
  <2> QED BY <2>2, <2>3
<1> QED BY <1>1, <1>2, <1>3, <1>4, <1>5, AcceptStep, WorkerAbstract DEF Next

\* The node keeps the promise of TaskDelivery to its orchestrators: only the
\* result of the latest acceptance is handed over, no stored result is dropped
\* unsent, and a result is lost only between the end of its computation and its
\* storing, with or without storage errors.
THEOREM PipelineImplementsDelivery ==
  ASSUME RowsAgeInFlight = FALSE
  PROVE  Spec => ImplementsDelivery
<1>1. Init => Delivery!Init
  BY DEF Init, Delivery!Init, StageOf
<1>2. PipelineInv /\ (StorageMayFail = FALSE => StatusExact) /\ [Next]_vars => AbstractStep
  <2>1. ASSUME PipelineInv, StorageMayFail = FALSE => StatusExact, Next PROVE AbstractStep
    BY <2>1, NextAbstract
  <2>2. CASE UNCHANGED vars
    <3>1. UNCHANGED <<gen, sent>> /\ \A k \in SubTask : Same(k)
      BY <2>2 DEF vars, Same, Stored, Sent, Pending, AtPersist
    <3> QED BY <3>1, SameStage, StutterStep
  <2> QED BY <2>1, <2>2
<1> QED BY <1>1, <1>2, PipelineExact, PTL DEF Spec, ImplementsDelivery, Delivery!Spec, AbstractStep

=============================================================================
