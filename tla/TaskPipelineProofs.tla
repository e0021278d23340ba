------------------------ MODULE TaskPipelineProofs ------------------------
(***************************************************************************)
(* Theorems about TaskPipeline for every value of its constants.           *)
(***************************************************************************)
EXTENDS TaskPipeline, FiniteSetTheorems, TLAPS

\* What the program counters say of the records: an active call has a task, a
\* computed task has an outcome, and a process that is down or restoring has
\* neither handlers nor worker nor retry pass.
Shape ==
  /\ \A s \in Stream : handler[s].pc # "idle" => handler[s].task \in Task
  /\ worker.pc # "idle" => worker.task \in Task
  /\ worker.pc \notin {"idle", "compute"} => worker.res \in {"ok", "err"}
  /\ retry.pc \in {"delete", "load"} => retry.cur \in Entry
  /\ \A k \in SubTask : tasks[k].status # "absent" => tasks[k].payload \in Payload
  /\ \A k \in SubTask : tasks[k].status = "absent" => gen[k] < MaxGen
  /\ \A k \in restore : tasks[k].status = "pending"
  /\ mode # "up" => /\ \A s \in Stream : handler[s].pc = "idle"
                    /\ worker.pc = "idle"
                    /\ retry.pc = "sleep"
  /\ mode = "down" => queue = <<>>
  /\ mode # "restoring" => restore = {}

TypeInv == TypeOK /\ Shape

LEMMA InitTypeInv == Init => TypeInv
BY ConstantsAssumption
DEF Init, TypeInv, TypeOK, Shape, Row, NoRow, Task, NoTask, Entry, NoEntry,
    IdleHandler, IdleWorker, IdleRetry, Terminal

USE DEF durable, volatile, ghosts

LEMMA HandlerTypeInv ==
  ASSUME TypeInv, CounterExact, NEW s \in Stream
  PROVE  /\ \A k \in SubTask, p \in Payload : Dispatch(s, k, p) => TypeInv'
         /\ AcceptLoad(s) => TypeInv'
         /\ AcceptSave(s) => TypeInv'
         /\ AcceptCount(s) => TypeInv'
         /\ AcceptEnqueue(s) => TypeInv'
<1> USE ConstantsAssumption DEF TypeInv, TypeOK, Shape
<1>1. ASSUME NEW k \in SubTask, NEW p \in Payload, Dispatch(s, k, p) PROVE TypeInv'
  BY <1>1 DEF Dispatch, Task
<1>2. ASSUME AcceptLoad(s) PROVE TypeInv'
  <2>1. CASE Goto(s, "save")
    BY <1>2, <2>1 DEF AcceptLoad, Goto
  <2>2. CASE Done(s)
    BY <1>2, <2>2 DEF AcceptLoad, Done, IdleHandler
  <2> QED BY <1>2, <2>1, <2>2 DEF AcceptLoad
<1>3. ASSUME AcceptSave(s) PROVE TypeInv'
  <2>1. handler[s].task \in Task /\ handler[s].task.key \in SubTask
    BY <1>3 DEF AcceptSave, Task
  <2> DEFINE t == handler[s].task
             u == [t EXCEPT !.gen = gen'[t.key]]
  <2>2. CASE /\ ~HasRow(t.key)
             /\ SaveTask(t.key, t.payload)
             /\ handler' = [handler EXCEPT ![s] = [pc |-> "count", task |-> u]]
    <3>1. tasks' \in [SubTask -> Row] /\ gen' \in [SubTask -> 0..MaxGen]
      BY <2>1, <2>2 DEF SaveTask, HasRow, Row, Task
    <3>2. u \in Task
      BY <2>1, <3>1 DEF Task
    <3>3. TypeOK'
      BY <1>3, <2>2, <3>1, <3>2 DEF AcceptSave
    <3>4. t.payload \in Payload /\ mode = "up"
      BY <1>3, <2>1 DEF Task, AcceptSave
    <3>5. Shape'
      BY <1>3, <2>1, <2>2, <3>1, <3>2, <3>4 DEF AcceptSave, SaveTask, HasRow, Row
    <3> QED BY <3>3, <3>5
  <2>3. CASE Done(s) /\ UNCHANGED <<tasks, gen>>
    BY <1>3, <2>3 DEF AcceptSave, Done, IdleHandler
  <2> QED BY <1>3, <2>2, <2>3 DEF AcceptSave
<1>4. AcceptCount(s) => TypeInv'
  BY DEF AcceptCount, Goto, Task
<1>5. AcceptEnqueue(s) => TypeInv'
  BY DEF AcceptEnqueue, Done, IdleHandler
<1> QED BY <1>1, <1>2, <1>3, <1>4, <1>5

\* update_status keeps the table well-formed, and neither adds nor removes a row.
LEMMA UpdateStatusType ==
  ASSUME tasks \in [SubTask -> Row],
         NEW k \in SubTask, NEW st \in Terminal, UpdateStatus(k, st)
  PROVE  /\ tasks' \in [SubTask -> Row]
         /\ \A j \in SubTask : /\ tasks'[j].status = "absent" <=> tasks[j].status = "absent"
                               /\ tasks'[j].payload = tasks[j].payload
                               /\ tasks'[j].old = tasks[j].old
                               /\ j # k => tasks'[j] = tasks[j]
                               /\ j = k => tasks'[j].status \in {"absent", st}
<1>1. CASE ~HasRow(k)
  BY <1>1 DEF UpdateStatus, HasRow
<1>2. CASE HasRow(k)
  <2> DEFINE r == [tasks[k] EXCEPT !.status = st]
  <2>1. r \in Row /\ r.status = st /\ r.payload = tasks[k].payload /\ r.old = tasks[k].old
    BY DEF Row
  <2>2. tasks' = [tasks EXCEPT ![k] = r]
    BY <1>2 DEF UpdateStatus
  <2> HIDE DEF r
  <2> QED BY <1>2, <2>1, <2>2 DEF HasRow, Terminal
<1> QED BY <1>1, <1>2

LEMMA WorkerTypeInv ==
  ASSUME TypeInv, CounterExact, WorkerStep
  PROVE  TypeInv'
<1> USE ConstantsAssumption DEF TypeInv
<1>0. worker.pc # "idle" => /\ mode = "up"
                            /\ restore = {}
                            /\ worker.task \in Task
                            /\ worker.task.key \in SubTask
                            /\ worker.task.gen \in 0..MaxGen
  BY DEF TypeOK, Shape, Task
<1>1. CASE WorkerRecv
  <2>1. Head(queue) \in Task /\ Tail(queue) \in Seq(Task) /\ Len(Tail(queue)) <= QueueCap
    BY <1>1 DEF WorkerRecv, TypeOK
  <2> QED BY <1>1, <2>1 DEF WorkerRecv, TypeOK, Shape
<1>2. CASE WorkerCompute
  BY <1>2 DEF WorkerCompute, TypeOK, Shape
<1>3. CASE WorkerStatus \/ WorkerRestatus
  <2>1. /\ worker.pc \in {"status", "restatus"}
        /\ worker.task.key \in SubTask
        /\ StatusOf(worker.res) \in Terminal
        /\ UpdateStatus(worker.task.key, StatusOf(worker.res)) \/ UNCHANGED tasks
    BY <1>0, <1>3 DEF WorkerStatus, WorkerRestatus, StatusOf, Terminal
  <2>2. /\ tasks' \in [SubTask -> Row]
        /\ \A j \in SubTask : /\ tasks'[j].status = "absent" <=> tasks[j].status = "absent"
                              /\ tasks'[j].payload = tasks[j].payload
    BY <1>0, <2>1, UpdateStatusType DEF TypeOK
  <2> QED BY <1>0, <1>3, <2>1, <2>2
          DEF WorkerStatus, WorkerRestatus, WorkerGoto, TypeOK, Shape
<1>4. CASE WorkerPersist
  <2>1. [key |-> worker.task.key, gen |-> worker.task.gen, res |-> worker.res] \in Entry
    BY <1>0, <1>4 DEF WorkerPersist, Shape, Entry
  <2> QED BY <1>0, <1>4, <2>1 DEF WorkerPersist, UpsertResult, WorkerGoto, TypeOK, Shape
<1>5. CASE WorkerSend
  <2>1. sent' \in SUBSET (SubTask \X (0..MaxGen))
    BY <1>0, <1>5 DEF WorkerSend, Send, TypeOK
  <2> QED BY <1>5, <2>1 DEF WorkerSend, WorkerGoto, TypeOK, Shape
<1>6. CASE WorkerDelete
  BY <1>6 DEF WorkerDelete, DeleteResult, WorkerGoto, TypeOK, Shape
<1>7. CASE WorkerRetain
  <2>1. retained' \in SUBSET (SubTask \X (0..MaxGen))
    BY <1>0, <1>7 DEF WorkerRetain, TypeOK
  <2> QED BY <1>7, <2>1 DEF WorkerRetain, WorkerGoto, TypeOK, Shape
<1>8. CASE WorkerFinish
  <2>1. counter - 1 \in Nat
    <3>1. Cardinality(restore) \in Nat /\ Cardinality(Counted) \in Nat
      <4>1. IsFiniteSet(restore) /\ IsFiniteSet(Counted)
        BY FS_Subset DEF TypeOK, Counted
      <4> QED BY <4>1, FS_CardinalityType
    <3> QED BY <1>8, <3>1 DEF WorkerFinish, CounterExact, Busy, TypeOK
  <2> QED BY <1>8, <2>1 DEF WorkerFinish, IdleWorker, TypeOK, Shape
<1> QED BY <1>1, <1>2, <1>3, <1>4, <1>5, <1>6, <1>7, <1>8 DEF WorkerStep

LEMMA RetryTypeInv ==
  ASSUME TypeInv
  PROVE  /\ RetryList => TypeInv'
         /\ RetryDelete => TypeInv'
         /\ RetryRetain => TypeInv'
         /\ \A e \in retry.todo, ok \in BOOLEAN : RetrySend(e, ok) => TypeInv'
<1> USE ConstantsAssumption DEF TypeInv
<1>1. RetryList => TypeInv'
  BY DEF RetryList, TypeOK, Shape
<1>2. RetryDelete => TypeInv'
  BY DEF RetryDelete, DeleteResult, TypeOK, Shape
<1>3. ASSUME RetryRetain PROVE TypeInv'
  <2>1. retained' \in SUBSET (SubTask \X (0..MaxGen))
    BY <1>3 DEF RetryRetain, TypeOK, Shape, Entry
  <2>2. AfterEntry(retry.todo) \in {"sleep", "send"}
    BY DEF AfterEntry
  <2> QED BY <1>3, <2>1, <2>2 DEF RetryRetain, TypeOK, Shape
<1>4. ASSUME NEW e \in retry.todo, NEW ok \in BOOLEAN, RetrySend(e, ok) PROVE TypeInv'
  <2>0. e \in Entry /\ e.key \in SubTask /\ e.gen \in 0..MaxGen
    BY DEF TypeOK, Entry
  <2>1. sent' \in SUBSET (SubTask \X (0..MaxGen))
    BY <1>4, <2>0 DEF RetrySend, Send, TypeOK
  <2>2. AfterEntry(retry.todo \ {e}) \in {"sleep", "send"}
    BY DEF AfterEntry
  <2> QED BY <1>4, <2>0, <2>1, <2>2 DEF RetrySend, TypeOK, Shape
<1> QED BY <1>1, <1>2, <1>3, <1>4

LEMMA AgeType ==
  ASSUME tasks \in [SubTask -> Row], NEW k \in SubTask, Age(k)
  PROVE  /\ tasks' \in [SubTask -> Row]
         /\ \A j \in SubTask : /\ tasks'[j].status = tasks[j].status
                               /\ tasks'[j].payload = tasks[j].payload
                               /\ j # k => tasks'[j] = tasks[j]
<1> DEFINE r == [tasks[k] EXCEPT !.old = TRUE]
<1>1. r \in Row /\ r.status = tasks[k].status /\ r.payload = tasks[k].payload
  BY DEF Row
<1>2. tasks' = [tasks EXCEPT ![k] = r]
  BY DEF Age
<1> HIDE DEF r
<1> QED BY <1>1, <1>2

\* Memory as a crash leaves it.
LEMMA CrashState ==
  ASSUME Crash
  PROVE  /\ mode' = "down" /\ restore' = {} /\ counter' = 0 /\ queue' = <<>>
         /\ \A s \in Stream : handler'[s].pc = "idle"
         /\ worker'.pc = "idle" /\ retry'.pc = "sleep"
BY DEF Crash, IdleHandler, IdleWorker, IdleRetry

LEMMA LifecycleTypeInv ==
  ASSUME TypeInv
  PROVE  /\ \A k \in SubTask : Age(k) => TypeInv'
         /\ \A k \in SubTask : RestoreHold(k) \/ RestoreTask(k) => TypeInv'
         /\ Prune => TypeInv'
         /\ Crash => TypeInv'
         /\ Boot => TypeInv'
         /\ Start => TypeInv'
<1> USE ConstantsAssumption DEF TypeInv
<1>1. ASSUME NEW k \in SubTask, Age(k) PROVE TypeInv'
  <2>1. /\ tasks' \in [SubTask -> Row]
        /\ \A j \in SubTask : /\ tasks'[j].status = tasks[j].status
                              /\ tasks'[j].payload = tasks[j].payload
    BY <1>1, AgeType DEF TypeOK
  <2>2. UNCHANGED <<outbox, volatile, ghosts>>
    BY <1>1 DEF Age
  <2> QED BY <2>1, <2>2 DEF TypeOK, Shape
<1>2. ASSUME NEW k \in SubTask, RestoreTask(k) PROVE TypeInv'
  <2>1. [key |-> k, payload |-> tasks[k].payload, gen |-> gen[k]] \in Task
    BY <1>2 DEF RestoreTask, TypeOK, Shape, Task
  <2> QED BY <1>2, <2>1 DEF RestoreTask, TypeOK, Shape
<1>7. ASSUME NEW k \in SubTask, RestoreHold(k) PROVE TypeInv'
  BY <1>7 DEF RestoreHold, TypeOK, Shape
<1>3. ASSUME Prune PROVE TypeInv'
  <2>1. PICK gone \in SUBSET SubTask :
          /\ tasks' = [k \in SubTask |-> IF k \in gone THEN NoRow ELSE tasks[k]]
          /\ \A k \in gone : tasks[k].status \in Terminal /\ gen[k] < MaxGen
    BY <1>3 DEF Prune, Prunable, MayBeForgotten
  <2>2. tasks' \in [SubTask -> Row]
    BY <2>1 DEF TypeOK, NoRow, Row
  <2>3. \A k \in SubTask : \/ tasks'[k] = tasks[k]
                           \/ /\ tasks'[k].status = "absent"
                              /\ tasks[k].status # "pending"
                              /\ gen[k] < MaxGen
    BY <2>1 DEF NoRow, Terminal
  <2>4. UNCHANGED <<outbox, volatile, ghosts>>
    BY <1>3 DEF Prune
  <2> QED BY <2>2, <2>3, <2>4 DEF TypeOK, Shape
<1>4. ASSUME Crash PROVE TypeInv'
  BY <1>4, CrashState
     DEF Crash, TypeOK, Shape, IdleHandler, IdleWorker, IdleRetry
<1>5. ASSUME Boot PROVE TypeInv'
  <2>1. restore' \in SUBSET SubTask /\ \A k \in restore' : tasks[k].status = "pending"
    BY <1>5 DEF Boot
  <2>2. counter' \in Nat
    BY <1>5, <2>1, FS_Subset, FS_CardinalityType DEF Boot
  <2>3. mode = "down" /\ mode' = "restoring"
        /\ UNCHANGED <<durable, held, queue, handler, worker, retry, ghosts>>
    BY <1>5 DEF Boot
  <2> QED BY <2>1, <2>2, <2>3 DEF TypeOK, Shape
<1>6. ASSUME Start PROVE TypeInv'
  BY <1>6 DEF Start, TypeOK, Shape
<1> QED BY <1>1, <1>2, <1>3, <1>4, <1>5, <1>6, <1>7

LEMMA InitCounter == Init => CounterExact
<1> SUFFICES ASSUME Init PROVE CounterExact
  OBVIOUS
<1>1. Counted = {} /\ restore = {} /\ queue = <<>> /\ counter = 0 /\ worker.pc = "idle"
  BY DEF Init, Counted, IdleHandler, IdleWorker
<1> QED BY <1>1, FS_EmptySet DEF CounterExact, Busy

\* The two sets CounterExact measures are finite.
LEMMA CountedFinite ==
  ASSUME TypeInv
  PROVE  /\ IsFiniteSet(restore) /\ Cardinality(restore) \in Nat
         /\ IsFiniteSet(Counted) /\ Cardinality(Counted) \in Nat
<1>1. IsFiniteSet(restore) /\ IsFiniteSet(Counted)
  BY ConstantsAssumption, FS_Subset DEF TypeInv, TypeOK, Counted
<1> QED BY <1>1, FS_CardinalityType

LEMMA NextCounter ==
  ASSUME TypeInv, CounterExact, Next
  PROVE  CounterExact'
<1> USE CountedFinite DEF TypeInv
<1>1. ASSUME UNCHANGED <<counter, restore, queue>>, Counted' = Counted, Busy' = Busy
      PROVE  CounterExact'
  BY <1>1 DEF CounterExact
<1>2. ASSUME NEW s \in Stream, NEW k \in SubTask, NEW p \in Payload, Dispatch(s, k, p)
      PROVE  CounterExact'
  BY <1>1, <1>2 DEF Dispatch, Counted, Busy, TypeOK
<1>3. ASSUME NEW s \in Stream, AcceptLoad(s) \/ AcceptSave(s)
      PROVE  CounterExact'
  <2>1. \/ Goto(s, "save") \/ Done(s)
        \/ handler'[s].pc = "count" /\ handler' = [handler EXCEPT ![s] = handler'[s]]
    BY <1>3 DEF AcceptLoad, AcceptSave, TypeOK
  <2>2. handler[s].pc # "send" /\ handler'[s].pc # "send"
    BY <1>3, <2>1 DEF AcceptLoad, AcceptSave, Goto, Done, IdleHandler, TypeOK
  <2>3. \A t \in Stream \ {s} : handler'[t] = handler[t]
    BY <1>3, <2>1 DEF Goto, Done, TypeOK
  <2>4. Counted' = Counted
    BY <2>2, <2>3 DEF Counted
  <2> QED BY <1>1, <1>3, <2>4 DEF AcceptLoad, AcceptSave, Busy
<1>4. ASSUME NEW s \in Stream, AcceptCount(s) PROVE CounterExact'
  <2>1. s \notin Counted /\ Counted' = Counted \cup {s}
    BY <1>4 DEF AcceptCount, Goto, Counted, TypeOK
  <2>2. Cardinality(Counted') = Cardinality(Counted) + 1
    BY <2>1, FS_AddElement
  <2> QED BY <1>4, <2>2 DEF AcceptCount, CounterExact, Busy, TypeOK
<1>5. ASSUME NEW s \in Stream, AcceptEnqueue(s) PROVE CounterExact'
  <2>1. s \in Counted /\ Counted' = Counted \ {s}
    BY <1>5 DEF AcceptEnqueue, Done, IdleHandler, Counted, TypeOK
  <2>2. Cardinality(Counted') = Cardinality(Counted) - 1
    BY <2>1, FS_RemoveElement
  <2>3. Len(queue') = Len(queue) + 1
    BY <1>5 DEF AcceptEnqueue, TypeOK, Shape
  <2>4. UNCHANGED <<counter, restore>> /\ Busy' = Busy /\ Busy \in Nat /\ Len(queue) \in Nat
    BY <1>5 DEF AcceptEnqueue, Busy, TypeOK
  <2> QED BY <2>2, <2>3, <2>4 DEF CounterExact
<1>6. CASE WorkerRecv
  <2>1. Len(queue') = Len(queue) - 1 /\ Busy = 0 /\ Busy' = 1
    BY <1>6 DEF WorkerRecv, Busy, TypeOK
  <2> QED BY <1>6, <2>1 DEF WorkerRecv, CounterExact, Counted, TypeOK
<1>7. CASE WorkerFinish
  <2>1. Busy = 1 /\ Busy' = 0
    BY <1>7 DEF WorkerFinish, IdleWorker, Busy
  <2> QED BY <1>7, <2>1 DEF WorkerFinish, CounterExact, Counted, TypeOK
<1>8. CASE \/ WorkerCompute \/ WorkerStatus \/ WorkerPersist \/ WorkerRestatus
           \/ WorkerSend \/ WorkerDelete \/ WorkerRetain
  BY <1>1, <1>8
     DEF WorkerCompute, WorkerStatus, WorkerPersist, WorkerRestatus, WorkerSend,
         WorkerDelete, WorkerRetain, WorkerGoto, Counted, Busy, TypeOK
<1>9. CASE \/ RetryList \/ RetryDelete \/ RetryRetain \/ Prune \/ Start
           \/ \E e \in retry.todo, ok \in BOOLEAN : RetrySend(e, ok)
           \/ \E k \in SubTask : Age(k) \/ RestoreHold(k)
  BY <1>1, <1>9
     DEF RetryList, RetryDelete, RetryRetain, RetrySend, Prune, Start, Age, RestoreHold, Counted, Busy
<1>10. ASSUME NEW k \in SubTask, RestoreTask(k) PROVE CounterExact'
  <2>1. Cardinality(restore') = Cardinality(restore) - 1
    BY <1>10, FS_RemoveElement DEF RestoreTask
  <2>2. Len(queue') = Len(queue) + 1
    BY <1>10 DEF RestoreTask, TypeOK
  <2>3. UNCHANGED counter /\ Counted' = Counted /\ Busy' = Busy
        /\ Busy \in Nat /\ Len(queue) \in Nat
    BY <1>10 DEF RestoreTask, Counted, Busy, TypeOK
  <2> QED BY <2>1, <2>2, <2>3 DEF CounterExact
<1>11. CASE Crash
  <2>1. Counted' = {}
    BY <1>11, CrashState DEF Counted
  <2>2. restore' = {} /\ counter' = 0 /\ Len(queue') = 0 /\ Busy' = 0
    BY <1>11, CrashState DEF Busy
  <2> QED BY <2>1, <2>2, FS_EmptySet DEF CounterExact
<1>12. CASE Boot
  <2>1. Counted' = {} /\ queue' = <<>> /\ Busy' = 0
    BY <1>12 DEF Boot, Shape, Counted, Busy
  <2>2. Cardinality(restore') \in Nat /\ counter' = Cardinality(restore')
    BY <1>12, ConstantsAssumption, FS_Subset, FS_CardinalityType DEF Boot
  <2> QED BY <2>1, <2>2, FS_EmptySet DEF CounterExact
<1> QED BY <1>2, <1>3, <1>4, <1>5, <1>6, <1>7, <1>8, <1>9, <1>10, <1>11, <1>12
        DEF Next, WorkerStep

LEMMA NextTypeInv ==
  ASSUME TypeInv, CounterExact, Next
  PROVE  TypeInv'
BY HandlerTypeInv, WorkerTypeInv, RetryTypeInv, LifecycleTypeInv DEF Next

LEMMA PipelineInductive == Spec => [](TypeInv /\ CounterExact)
<1>1. Init => TypeInv /\ CounterExact
  BY InitTypeInv, InitCounter
<1>2. (TypeInv /\ CounterExact) /\ [Next]_vars => (TypeInv /\ CounterExact)'
  <2>1. TypeInv /\ CounterExact /\ Next => (TypeInv /\ CounterExact)'
    BY NextTypeInv, NextCounter
  <2>2. TypeInv /\ CounterExact /\ UNCHANGED vars => (TypeInv /\ CounterExact)'
    BY DEF vars, TypeInv, TypeOK, Shape, CounterExact, Counted, Busy
  <2> QED BY <2>1, <2>2
<1> QED BY <1>1, <1>2, PTL DEF Spec

\* Type correctness of the pipeline, for every value of the constants.
THEOREM TypeCorrect == Spec => []TypeOK
<1>1. TypeInv /\ CounterExact => TypeOK
  BY DEF TypeInv
<1> QED BY <1>1, PipelineInductive, PTL

\* AppState.pending_tasks counts exactly the accepted and unfinished tasks, with
\* any number of streams and sub-tasks, any channel capacity, storage errors and
\* crashes, and even when rows expire while their tasks are in flight.
THEOREM CounterCorrect == Spec => []CounterExact
<1>1. TypeInv /\ CounterExact => CounterExact
  OBVIOUS
<1> QED BY <1>1, PipelineInductive, PTL

\* The rows get_pending_tasks returns.
PendingKeys == {k \in SubTask : tasks[k].status = "pending"}

\* While main restores, pending_tasks is the number of pending rows.
RestoreCount == mode = "restoring" => counter = Cardinality(PendingKeys)

LEMMA NextRestoreCount ==
  ASSUME TypeInv, RestoreCount, Next
  PROVE  RestoreCount'
<1> SUFFICES ASSUME mode' = "restoring" PROVE counter' = Cardinality(PendingKeys)'
  BY DEF RestoreCount
<1> USE DEF TypeInv
\* Only the lifecycle steps can happen in that mode.
<1>1. ASSUME mode = "restoring", UNCHANGED counter,
             \A k \in SubTask : tasks'[k].status = tasks[k].status
      PROVE  counter' = Cardinality(PendingKeys)'
  <2>1. PendingKeys' = PendingKeys
    BY <1>1 DEF PendingKeys
  <2> QED BY <1>1, <2>1 DEF RestoreCount
<1>2. CASE \E s \in Stream : \/ \E k \in SubTask, p \in Payload : Dispatch(s, k, p)
                             \/ AcceptLoad(s) \/ AcceptSave(s) \/ AcceptCount(s) \/ AcceptEnqueue(s)
  BY <1>2 DEF Dispatch, AcceptLoad, AcceptSave, AcceptCount, AcceptEnqueue, Shape
<1>3. CASE WorkerStep
  BY <1>3 DEF WorkerStep, WorkerRecv, WorkerCompute, WorkerStatus, WorkerPersist, WorkerRestatus,
              WorkerSend, WorkerDelete, WorkerRetain, WorkerFinish, Shape
<1>4. CASE RetryList \/ RetryDelete \/ RetryRetain \/ \E e \in retry.todo, ok \in BOOLEAN : RetrySend(e, ok)
  BY <1>4 DEF RetryList, RetryDelete, RetryRetain, RetrySend, Shape
<1>5. ASSUME NEW k \in SubTask, Age(k) PROVE counter' = Cardinality(PendingKeys)'
  <2>1. UNCHANGED <<mode, counter>> /\ \A j \in SubTask : tasks'[j].status = tasks[j].status
    BY <1>5, AgeType DEF Age, TypeOK
  <2> QED BY <1>1, <2>1
<1>6. ASSUME NEW k \in SubTask, RestoreHold(k) \/ RestoreTask(k)
      PROVE  counter' = Cardinality(PendingKeys)'
  BY <1>1, <1>6 DEF RestoreHold, RestoreTask
<1>7. CASE Prune \/ Crash \/ Start
  BY <1>7 DEF Prune, Crash, Start
<1>8. CASE Boot
  <2>1. restore' = PendingKeys' /\ counter' = Cardinality(restore')
    BY <1>8 DEF Boot, PendingKeys
  <2> QED BY <2>1
<1> QED BY <1>2, <1>3, <1>4, <1>5, <1>6, <1>7, <1>8 DEF Next

\* What main has queued and what it has still to queue are together the pending
\* rows: it waits on the full channel, which nothing drains yet, only if there
\* are more of them than the channel has places.  PendingComputed fails then
\* (run restore_hangs), and this is the only reason.
THEOREM RestoreFits ==
  Spec => [](mode = "restoring" =>
               /\ Len(queue) + Cardinality(restore) = Cardinality(PendingKeys)
               /\ Cardinality(PendingKeys) <= QueueCap /\ restore # {} => Len(queue) < QueueCap)
<1> DEFINE Fits == mode = "restoring" =>
              /\ Len(queue) + Cardinality(restore) = Cardinality(PendingKeys)
              /\ Cardinality(PendingKeys) <= QueueCap /\ restore # {} => Len(queue) < QueueCap
<1>1. Init => RestoreCount
  BY DEF Init, RestoreCount
<1>2. TypeInv /\ CounterExact /\ RestoreCount /\ [Next]_vars => RestoreCount'
  <2>1. RestoreCount /\ UNCHANGED vars => RestoreCount'
    <3> SUFFICES ASSUME RestoreCount, UNCHANGED vars PROVE RestoreCount'
      OBVIOUS
    <3>1. PendingKeys' = PendingKeys /\ mode' = mode /\ counter' = counter
      BY DEF vars, PendingKeys
    <3> QED BY <3>1 DEF RestoreCount
  <2> QED BY <2>1, NextRestoreCount
<1>3. TypeInv /\ CounterExact /\ RestoreCount => Fits
  <2> SUFFICES ASSUME TypeInv, CounterExact, RestoreCount, mode = "restoring" PROVE Fits
    OBVIOUS
  <2>1. Counted = {} /\ Busy = 0
    BY DEF TypeInv, Shape, Counted, Busy
  <2>2. Len(queue) \in Nat /\ QueueCap \in Nat /\ Cardinality(restore) \in Nat /\ Cardinality(Counted) = 0
    BY <2>1, CountedFinite, ConstantsAssumption, FS_EmptySet DEF TypeInv, TypeOK
  <2>3. Len(queue) + Cardinality(restore) = Cardinality(PendingKeys)
    BY <2>1, <2>2 DEF CounterExact, RestoreCount
  <2>4. restore # {} => Cardinality(restore) # 0
    BY CountedFinite, FS_EmptySet
  <2> QED BY <2>2, <2>3, <2>4
<1> HIDE DEF Fits
<1>4. Spec => []Fits
  BY <1>1, <1>2, <1>3, PipelineInductive, PTL DEF Spec
<1> QED BY <1>4 DEF Fits

-----------------------------------------------------------------------------
(***************************************************************************)
(* Exclusive ownership.  When no row reaches the retention age while its   *)
(* task is unfinished, a row that exists keeps every later dispatch of its *)
(* key out (accept_compute_task), and the row of whatever is on its way to *)
(* core stays pending.                                                     *)
(***************************************************************************)

RowMatches(t) == /\ tasks[t.key].status = "pending"
                 /\ tasks[t.key].payload = t.payload
                 /\ gen[t.key] = t.gen

Matching ==
  /\ \A s \in Stream : Accepting(s) => RowMatches(handler[s].task)
  /\ \A i \in 1..Len(queue) : RowMatches(queue[i])
  /\ Computing => RowMatches(worker.task)

Exclusive ==
  /\ \A s, t \in Stream :
       Accepting(s) /\ Accepting(t) /\ handler[s].task.key = handler[t].task.key => s = t
  /\ \A i, j \in 1..Len(queue) : queue[i].key = queue[j].key => i = j
  /\ \A s \in Stream, i \in 1..Len(queue) :
       Accepting(s) => handler[s].task.key # queue[i].key
  /\ worker.pc # "idle" =>
       /\ \A i \in 1..Len(queue) : queue[i].key # worker.task.key
       /\ \A s \in Stream : Accepting(s) => handler[s].task.key # worker.task.key
  /\ \A k \in restore, i \in 1..Len(queue) : queue[i].key # k

\* Rows of unfinished tasks exist and are younger than the retention.
Young ==
  /\ \A k \in SubTask : tasks[k].status = "pending" => ~tasks[k].old
  /\ worker.pc # "idle" => /\ tasks[worker.task.key].status # "absent"
                           /\ ~tasks[worker.task.key].old

OwnInv == Matching /\ Exclusive /\ Young

LEMMA InitOwn == Init => OwnInv
BY DEF Init, OwnInv, Matching, Exclusive, Young, Accepting, Computing, IdleHandler,
       IdleWorker, NoRow

\* Facts about types the steps below share.
LEMMA TaskKeys ==
  ASSUME TypeInv
  PROVE  /\ \A s \in Stream : handler[s].pc # "idle" => handler[s].task.key \in SubTask
         /\ \A i \in 1..Len(queue) : queue[i] \in Task /\ queue[i].key \in SubTask
         /\ worker.pc # "idle" => worker.task.key \in SubTask
         /\ Len(queue) \in Nat
<1>1. \A t \in Task : t.key \in SubTask
  BY DEF Task
<1>2. queue \in Seq(Task) /\ Len(queue) \in Nat
  BY DEF TypeInv, TypeOK
<1>3. \A i \in 1..Len(queue) : queue[i] \in Task
  BY <1>2
<1> QED BY <1>1, <1>2, <1>3 DEF TypeInv, Shape

LEMMA HandlerOwn ==
  ASSUME TypeInv, OwnInv, NEW s \in Stream
  PROVE  /\ \A k \in SubTask, p \in Payload : Dispatch(s, k, p) => OwnInv'
         /\ AcceptLoad(s) => OwnInv'
         /\ AcceptSave(s) => OwnInv'
         /\ AcceptCount(s) => OwnInv'
         /\ AcceptEnqueue(s) => OwnInv'
<1> USE TaskKeys DEF OwnInv
<1>0. handler \in [Stream -> [pc : {"idle", "load", "save", "count", "send"},
                              task : Task \cup {NoTask}]]
  BY DEF TypeInv, TypeOK
<1>1. ASSUME NEW h, handler' = [handler EXCEPT ![s] = h], h.pc \in {"idle", "load", "save"},
             UNCHANGED <<tasks, gen, queue, worker, restore>>
      PROVE  OwnInv'
  BY <1>0, <1>1 DEF Matching, Exclusive, Young, Accepting, Computing, RowMatches
<1>2. ASSUME NEW k \in SubTask, NEW p \in Payload, Dispatch(s, k, p) PROVE OwnInv'
  BY <1>1, <1>2 DEF Dispatch
<1>3. AcceptLoad(s) => OwnInv'
  BY <1>1 DEF AcceptLoad, Goto, Done, IdleHandler
<1>4. ASSUME AcceptSave(s) PROVE OwnInv'
  <2> DEFINE t == handler[s].task
             u == [t EXCEPT !.gen = gen'[t.key]]
  <2>1. CASE Done(s) /\ UNCHANGED <<tasks, gen>>
    BY <1>1, <1>4, <2>1 DEF AcceptSave, Done, IdleHandler
  <2>2. CASE /\ ~HasRow(t.key)
             /\ SaveTask(t.key, t.payload)
             /\ handler' = [handler EXCEPT ![s] = [pc |-> "count", task |-> u]]
    <3>1. t \in Task /\ t.key \in SubTask
      BY <1>4 DEF AcceptSave, TypeInv, Shape, Task
    <3>2. /\ u.key = t.key /\ u.payload = t.payload /\ u.gen = gen'[t.key]
          /\ handler'[s] = [pc |-> "count", task |-> u]
          /\ \A x \in Stream : x # s => handler'[x] = handler[x]
      BY <2>2, <3>1, <1>0 DEF Task
    <3>3. /\ tasks'[t.key] = [status |-> "pending", payload |-> t.payload, old |-> FALSE]
          /\ \A k \in SubTask : k # t.key => tasks'[k] = tasks[k] /\ gen'[k] = gen[k]
          /\ tasks[t.key].status = "absent"
      BY <2>2, <3>1 DEF SaveTask, HasRow, TypeInv, TypeOK
    <3>4. UNCHANGED <<queue, worker, restore>>
      BY <1>4 DEF AcceptSave
    <3>5. /\ \A x \in Stream : Accepting(x) => handler[x].task.key # t.key
          /\ \A i \in 1..Len(queue) : queue[i].key # t.key
          /\ worker.pc # "idle" => worker.task.key # t.key
      BY <3>3 DEF Matching, Young, RowMatches
    <3> HIDE DEF t, u
    <3>6. Matching'
      BY <3>1, <3>2, <3>3, <3>4, <3>5 DEF Matching, Accepting, Computing, RowMatches
    <3>7. Exclusive'
      BY <3>1, <3>2, <3>3, <3>4, <3>5 DEF Exclusive, Accepting
    <3>8. Young'
      BY <3>1, <3>3, <3>4, <3>5 DEF Young
    <3> QED BY <3>6, <3>7, <3>8
  <2> QED BY <1>4, <2>1, <2>2 DEF AcceptSave
<1>5. ASSUME AcceptCount(s) PROVE OwnInv'
  <2>1. /\ handler'[s].task = handler[s].task /\ handler'[s].pc = "send"
        /\ \A x \in Stream : x # s => handler'[x] = handler[x]
        /\ UNCHANGED <<tasks, gen, queue, worker, restore>>
        /\ handler[s].pc = "count"
    BY <1>0, <1>5 DEF AcceptCount, Goto
  <2>2. \A x \in Stream : Accepting(x)' <=> Accepting(x)
    BY <2>1 DEF Accepting
  <2>3. \A x \in Stream : handler'[x].task = handler[x].task
    BY <2>1
  <2> QED BY <2>1, <2>2, <2>3 DEF Matching, Exclusive, Young, Computing, RowMatches
<1>6. ASSUME AcceptEnqueue(s) PROVE OwnInv'
  <2>1. /\ handler'[s].pc = "idle" /\ Accepting(s)
        /\ \A x \in Stream : x # s => handler'[x] = handler[x]
        /\ UNCHANGED <<tasks, gen, worker, restore>>
        /\ handler[s].task \in Task
    BY <1>0, <1>6 DEF AcceptEnqueue, Done, IdleHandler, Accepting, TypeInv, Shape
  <2>2. /\ Len(queue') = Len(queue) + 1
        /\ \A i \in 1..Len(queue) : queue'[i] = queue[i]
        /\ queue'[Len(queue) + 1] = handler[s].task
    BY <1>6, <2>1 DEF AcceptEnqueue, TypeInv, TypeOK
  <2>3. \A x \in Stream : Accepting(x)' <=> Accepting(x) /\ x # s
    BY <2>1 DEF Accepting
  <2>4. restore = {}
    BY <2>1 DEF TypeInv, Shape, Accepting, TypeOK
  <2>5. \A i \in 1..Len(queue') : i = Len(queue) + 1 \/ i \in 1..Len(queue)
    BY <2>2
  <2>6. Matching'
    BY <2>1, <2>2, <2>3, <2>5 DEF Matching, Computing, RowMatches
  <2>7. Exclusive'
    BY <2>1, <2>2, <2>3, <2>4, <2>5 DEF Exclusive
  <2>8. Young'
    BY <2>1 DEF Young
  <2> QED BY <2>6, <2>7, <2>8
<1> QED BY <1>2, <1>3, <1>4, <1>5, <1>6

LEMMA WorkerOwn ==
  ASSUME TypeInv, OwnInv, WorkerStep
  PROVE  OwnInv'
<1> USE TaskKeys DEF OwnInv
<1>0. worker.pc # "idle" => worker.task.key \in SubTask /\ restore = {}
  BY DEF TypeInv, TypeOK, Shape
<1>1. CASE WorkerRecv
  <2>1. /\ Len(queue') = Len(queue) - 1 /\ Len(queue) >= 1
        /\ \A i \in 1..Len(queue') : queue'[i] = queue[i + 1]
        /\ worker'.task = queue[1] /\ worker'.pc = "compute" /\ worker.pc = "idle"
        /\ UNCHANGED <<tasks, gen, handler, restore>>
    BY <1>1 DEF WorkerRecv, TypeInv, TypeOK
  <2>2. \A i \in 1..Len(queue') : i + 1 \in 1..Len(queue) /\ i + 1 # 1
    BY <2>1
  <2>3. 1 \in 1..Len(queue)
    BY <2>1
  <2>4. RowMatches(queue[1]) /\ queue[1].key \in SubTask
    BY <2>3 DEF Matching
  <2>5. Matching'
    BY <2>1, <2>2, <2>3, <2>4 DEF Matching, Accepting, Computing, RowMatches
  <2>6. Exclusive'
    <3>1. \A i, j \in 1..Len(queue') : queue'[i].key = queue'[j].key => i = j
      BY <2>1, <2>2 DEF Exclusive
    <3>2. \A i \in 1..Len(queue') : queue'[i].key # worker'.task.key
      BY <2>1, <2>2, <2>3 DEF Exclusive
    <3> QED BY <2>1, <2>2, <2>3, <3>1, <3>2 DEF Exclusive, Accepting
  <2>7. Young'
    BY <2>1, <2>4 DEF Young, RowMatches
  <2> QED BY <2>5, <2>6, <2>7
<1>2. CASE WorkerStatus \/ WorkerRestatus
  <2> DEFINE k == worker.task.key
  <2>1. /\ worker.pc \in {"status", "restatus"} /\ worker'.pc \in {"persist", "send"}
        /\ worker'.task = worker.task
        /\ UNCHANGED <<queue, handler, restore, gen>>
        /\ UpdateStatus(k, StatusOf(worker.res)) \/ UNCHANGED tasks
    BY <1>2 DEF WorkerStatus, WorkerRestatus, WorkerGoto, TypeInv, TypeOK
  <2>2. /\ \A j \in SubTask : j # k => tasks'[j] = tasks[j]
        /\ tasks'[k].old = tasks[k].old
        /\ tasks'[k].status = "absent" <=> tasks[k].status = "absent"
    <3>1. StatusOf(worker.res) \in Terminal
      BY DEF StatusOf, Terminal
    <3> QED BY <1>0, <2>1, <3>1, UpdateStatusType DEF TypeInv, TypeOK
  <2>3. /\ \A i \in 1..Len(queue) : queue[i].key # k
        /\ \A s \in Stream : Accepting(s) => handler[s].task.key # k
    BY <2>1 DEF Exclusive
  <2>4. k \in SubTask
    BY <1>0, <2>1
  <2>5. \A s \in Stream : Accepting(s) => handler[s].task.key \in SubTask
    BY DEF Accepting
  <2> HIDE DEF k
  <2>6. Matching'
    BY <2>1, <2>2, <2>3, <2>5 DEF Matching, Accepting, Computing, RowMatches
  <2>7. Exclusive'
    BY <2>1 DEF Exclusive, Accepting
  <2>8. Young'
    BY <2>1, <2>2, <2>4 DEF Young, k
  <2> QED BY <2>6, <2>7, <2>8
<1>3. CASE \/ WorkerCompute \/ WorkerPersist \/ WorkerSend \/ WorkerDelete \/ WorkerRetain
  <2>1. /\ worker.pc # "idle" /\ worker'.task = worker.task
        /\ worker'.pc \in {"compute", "status"} => worker.pc \in {"compute", "status"}
        /\ UNCHANGED <<tasks, gen, queue, handler, restore>>
    BY <1>3 DEF WorkerCompute, WorkerPersist, WorkerSend, WorkerDelete, WorkerRetain,
                WorkerGoto, TypeInv, TypeOK
  <2> QED BY <2>1 DEF Matching, Exclusive, Young, Accepting, Computing, RowMatches
<1>4. CASE WorkerFinish
  <2>1. worker'.pc = "idle" /\ UNCHANGED <<tasks, gen, queue, handler, restore>>
    BY <1>4 DEF WorkerFinish, IdleWorker
  <2> QED BY <2>1 DEF Matching, Exclusive, Young, Accepting, Computing, RowMatches
<1> QED BY <1>1, <1>2, <1>3, <1>4 DEF WorkerStep

LEMMA LifecycleOwn ==
  ASSUME TypeInv, OwnInv, RowsAgeInFlight = FALSE
  PROVE  /\ \A k \in SubTask : Age(k) => OwnInv'
         /\ \A k \in SubTask : RestoreHold(k) \/ RestoreTask(k) => OwnInv'
         /\ Prune => OwnInv'
         /\ Crash => OwnInv'
         /\ Boot => OwnInv'
         /\ Start => OwnInv'
<1> USE TaskKeys DEF OwnInv
<1>0. \A s \in Stream : Accepting(s) => handler[s].task.key \in SubTask
  BY DEF Accepting
<1>1. ASSUME NEW k \in SubTask, Age(k) PROVE OwnInv'
  <2>1. /\ \A j \in SubTask : /\ tasks'[j].status = tasks[j].status
                              /\ tasks'[j].payload = tasks[j].payload
                              /\ j # k => tasks'[j] = tasks[j]
        /\ UNCHANGED <<gen, queue, handler, worker, restore>>
    BY <1>1, AgeType DEF Age, TypeInv, TypeOK
  <2>2. tasks[k].status # "pending" /\ worker.task.key # k
    BY <1>1 DEF Age, Unfinished
  <2>3. Matching'
    BY <1>0, <2>1 DEF Matching, Accepting, Computing, RowMatches
  <2>4. Exclusive'
    BY <2>1 DEF Exclusive, Accepting
  <2>5. Young'
    BY <2>1, <2>2 DEF Young
  <2> QED BY <2>3, <2>4, <2>5
<1>2. ASSUME NEW k \in SubTask, RestoreTask(k) PROVE OwnInv'
  <2> DEFINE t == [key |-> k, payload |-> tasks[k].payload, gen |-> gen[k]]
  <2>1. t \in Task /\ RowMatches(t) /\ t.key = k
    BY <1>2 DEF RestoreTask, TypeInv, TypeOK, Shape, Task, RowMatches
  <2>2. /\ Len(queue') = Len(queue) + 1
        /\ \A i \in 1..Len(queue) : queue'[i] = queue[i]
        /\ queue'[Len(queue) + 1] = t
    BY <1>2, <2>1 DEF RestoreTask, TypeInv, TypeOK
  <2>3. /\ UNCHANGED <<tasks, gen, handler, worker>>
        /\ k \in restore /\ restore' = restore \ {k}
        /\ worker.pc = "idle" /\ \A s \in Stream : ~Accepting(s)
    BY <1>2 DEF RestoreTask, TypeInv, Shape, Accepting
  <2>4. \A i \in 1..Len(queue') : i = Len(queue) + 1 \/ i \in 1..Len(queue)
    BY <2>2
  <2> HIDE DEF t
  <2>5. Matching'
    BY <2>1, <2>2, <2>3, <2>4 DEF Matching, Accepting, Computing, RowMatches
  <2>6. Exclusive'
    BY <2>1, <2>2, <2>3, <2>4 DEF Exclusive, Accepting
  <2>7. Young'
    BY <2>3 DEF Young
  <2> QED BY <2>5, <2>6, <2>7
<1>3. ASSUME Prune PROVE OwnInv'
  <2>1. /\ \A k \in SubTask : tasks'[k] = tasks[k]
                               \/ (tasks[k].status \in Terminal /\ tasks[k].old
                                     /\ tasks'[k].status = "absent")
        /\ UNCHANGED <<gen, queue, handler, worker, restore>>
    BY <1>3 DEF Prune, Prunable, NoRow
  <2>2. \A k \in SubTask : tasks[k].status = "pending" => tasks'[k] = tasks[k]
    BY <2>1 DEF Terminal
  <2>3. \A k \in SubTask : tasks'[k].status = "pending" => tasks'[k] = tasks[k]
    BY <2>1
  <2>4. worker.pc # "idle" => tasks'[worker.task.key] = tasks[worker.task.key]
    BY <2>1 DEF Young
  <2>5. Matching'
    BY <1>0, <2>1, <2>2 DEF Matching, Accepting, Computing, RowMatches
  <2>6. Exclusive'
    BY <2>1 DEF Exclusive, Accepting
  <2>7. Young'
    BY <2>1, <2>3, <2>4 DEF Young
  <2> QED BY <2>5, <2>6, <2>7
<1>4. ASSUME Crash PROVE OwnInv'
  <2>1. UNCHANGED <<tasks, gen>>
    BY <1>4 DEF Crash
  <2> QED BY <1>4, <2>1, CrashState
          DEF Matching, Exclusive, Young, Accepting, Computing, RowMatches
<1>5. ASSUME Boot PROVE OwnInv'
  <2>1. queue' = <<>> /\ UNCHANGED <<tasks, gen, queue, handler, worker>>
    BY <1>5 DEF Boot, TypeInv, Shape
  <2>2. Len(queue') = 0
    BY <2>1
  <2> QED BY <2>1, <2>2 DEF Matching, Exclusive, Young, Accepting, Computing, RowMatches
<1>6. ASSUME Start PROVE OwnInv'
  BY <1>6 DEF Start, Matching, Exclusive, Young, Accepting, Computing, RowMatches
<1>7. ASSUME NEW k \in SubTask, RestoreHold(k) PROVE OwnInv'
  BY <1>7 DEF RestoreHold, Matching, Exclusive, Young, Accepting, Computing, RowMatches
<1> QED BY <1>1, <1>2, <1>3, <1>4, <1>5, <1>6, <1>7

LEMMA NextOwn ==
  ASSUME TypeInv, OwnInv, RowsAgeInFlight = FALSE, Next
  PROVE  OwnInv'
<1>1. CASE \/ RetryList \/ RetryDelete \/ RetryRetain
           \/ \E e \in retry.todo, ok \in BOOLEAN : RetrySend(e, ok)
  <2>1. UNCHANGED <<tasks, gen, queue, handler, worker, restore>>
    BY <1>1 DEF RetryList, RetryDelete, RetryRetain, RetrySend
  <2> QED BY <2>1 DEF OwnInv, Matching, Exclusive, Young, Accepting, Computing, RowMatches
<1> QED BY <1>1, HandlerOwn, WorkerOwn, LifecycleOwn DEF Next

LEMMA OwnershipKept ==
  ASSUME RowsAgeInFlight = FALSE
  PROVE  Spec => []OwnInv
<1>1. Init => OwnInv
  BY InitOwn
<1>2. TypeInv /\ CounterExact /\ OwnInv /\ [Next]_vars => OwnInv'
  <2>1. TypeInv /\ OwnInv /\ Next => OwnInv'
    BY NextOwn
  <2>2. OwnInv /\ UNCHANGED vars => OwnInv'
    BY DEF vars, OwnInv, Matching, Exclusive, Young, Accepting, Computing, RowMatches
  <2> QED BY <2>1, <2>2
<1> QED BY <1>1, <1>2, PipelineInductive, PTL DEF Spec

\* No sub-task is queued or computed twice at once, for any number of racing
\* dispatch streams, any channel capacity, storage errors and crashes, provided
\* rows do not expire while their tasks are unfinished.
THEOREM ExclusiveOwnership ==
  ASSUME RowsAgeInFlight = FALSE
  PROVE  Spec => []NoDoubleQueue
<1>1. OwnInv => NoDoubleQueue
  BY DEF OwnInv, Exclusive, NoDoubleQueue, Queued, Computing
<1> QED BY <1>1, OwnershipKept, PTL

\* Whatever is on its way to core has its pending row, with the payload that was
\* accepted, so a crash at any moment re-queues exactly that.
THEOREM OwnedRowsPending ==
  ASSUME RowsAgeInFlight = FALSE
  PROVE  Spec => []OwnedRowPending
<1>1. OwnInv => OwnedRowPending
  BY DEF OwnInv, Matching, OwnedRowPending, Owned, RowMatches
<1> QED BY <1>1, OwnershipKept, PTL

=============================================================================
