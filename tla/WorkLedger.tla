----------------------------- MODULE WorkLedger -----------------------------
(***************************************************************************)
(* The work budget (domain/work.rs) with the code that drives it: an        *)
(* announcement is bid on only when the expected queue and the new work fit *)
(* the deadline (submit_bid, decide), a dispatch takes the budget the bid   *)
(* recorded (handle_dispatch_stream, hold), the worker gives core what is   *)
(* left of the deadline (process_task, compute_timeout), a restart counts   *)
(* the restored rows again (main).                                          *)
(*                                                                         *)
(* Time is a clock in whole seconds; the ledger is behind one mutex, so     *)
(* each of its calls is atomic.  Estimates are integers here, the rounding  *)
(* of f64 sums is not modelled.                                             *)
(***************************************************************************)
EXTENDS Integers, Sequences, FiniteSets, Functions

CONSTANTS
  SubTask, Parent,   \* sub-tasks, and the announced tasks they belong to
  ParentOf,          \* the parent_task_id of each sub-task
  Cost,              \* rates.seconds(work) + overhead_secs, per parent
  Deadline,          \* deadline_secs, per parent
  OwnTimeout,        \* WQC_COMPUTE_TIMEOUT_SECS
  ProbeMax,          \* the timeout of the health probe before a POST
  MarginNum, MarginDen, \* WQC_WORK_BUDGET_MARGIN as a fraction in (0, 1]
  Unknown,           \* WQC_WORK_UNKNOWN_SECS
  ReservationTtl,    \* RESERVATION_TTL
  AnnouncedTtl,      \* ANNOUNCED_TTL
  MaxClock,          \* bound: how long a run lasts
  MaxCrash           \* bound: crashes

ASSUME LedgerConstants ==
  /\ IsFiniteSet(SubTask) /\ IsFiniteSet(Parent)
  /\ ParentOf \in [SubTask -> Parent]
  /\ Cost \in [Parent -> Nat] /\ Deadline \in [Parent -> Nat]
  /\ OwnTimeout \in Nat /\ ProbeMax \in Nat /\ Unknown \in Nat
  /\ MarginNum \in Nat \ {0} /\ MarginDen \in Nat /\ MarginNum <= MarginDen
  /\ ReservationTtl \in Nat \ {0} /\ AnnouncedTtl \in Nat /\ ReservationTtl <= AnnouncedTtl
  /\ MaxClock \in Nat /\ MaxCrash \in Nat

VARIABLES
  clock,      \* now
  announced,  \* WorkLedger.announced: when the budget of a parent was recorded
  reserved,   \* WorkLedger.reserved: until when a bid counts
  held,       \* WorkLedger.held
  rows,       \* table tasks: accepted sub-tasks, with their budget
  queue,      \* the task channel
  worker,     \* process_task
  bids,       \* ghost: this process's bids that wait for a dispatch
  punctual,   \* ghost: the world has kept to the estimates: one dispatch per bid, in
              \* the order of the bids and before the reservation ends; no
              \* computation longer than estimated; no idle worker; no crash
  crashes     \* ghost: crashes so far

ledger == <<announced, reserved, held>>
vars == <<clock, ledger, rows, queue, worker, bids, punctual, crashes>>

-----------------------------------------------------------------------------
Never == 0 - 1
NoTask == [key |-> "none", budget |-> FALSE, at |-> 0]
\* A task: whether a budget came with it, and accepted_at_ms.
Task == [key : SubTask, budget : BOOLEAN, at : 0..MaxClock]
\* A held entry: absent, or with the start of its computation.
NotHeld == [in |-> FALSE, budget |-> FALSE, started |-> Never]
Held == [in : BOOLEAN, budget : BOOLEAN, started : 0..MaxClock \cup {Never}]
\* The process_task call: busy, the task, when it started and the timeout computed
\* then (0: none is left); when core was called; and what it waits for: the health
\* probe, core's answer, or the delivery of the result.
WorkerState == [busy : BOOLEAN, task : Task \cup {NoTask},
                start : 0..MaxClock, timeout : 0..OwnTimeout, post : 0..MaxClock,
                phase : {"probe", "core", "deliver"}]
IdleWorker == [busy |-> FALSE, task |-> NoTask, start |-> 0, timeout |-> 0, post |-> 0,
               phase |-> "probe"]

\* The bid on a parent: whether it is due for a dispatch or one behind it was
\* dispatched first, and which bids are older.
Bid == [state : {"none", "due", "passed"}, older : SUBSET Parent]
NoBid == [state |-> "none", older |-> {}]

TypeOK ==
  /\ clock \in 0..MaxClock
  /\ announced \in [Parent -> 0..MaxClock \cup {Never}]
  /\ reserved \in [Parent -> 0..(MaxClock + ReservationTtl)]
  /\ held \in [SubTask -> Held]
  /\ rows \in [SubTask -> [status : {"absent", "pending", "done"}, task : Task \cup {NoTask}]]
  /\ queue \in Seq(Task)
  /\ worker \in WorkerState
  /\ bids \in [Parent -> Bid]
  /\ punctual \in BOOLEAN
  /\ crashes \in 0..MaxCrash

Init ==
  /\ clock = 0
  /\ announced = [p \in Parent |-> Never]
  /\ reserved = [p \in Parent |-> 0]
  /\ held = [k \in SubTask |-> NotHeld]
  /\ rows = [k \in SubTask |-> [status |-> "absent", task |-> NoTask]]
  /\ queue = <<>>
  /\ worker = IdleWorker
  /\ bids = [p \in Parent |-> NoBid]
  /\ punctual = TRUE
  /\ crashes = 0

-----------------------------------------------------------------------------
(* domain/work.rs                                                          *)

MinOf(a, b) == IF a < b THEN a ELSE b
Expected(k, budget) == IF budget THEN Cost[ParentOf[k]] ELSE Unknown

\* What a held sub-task adds: past its estimate, the whole estimate again.
HeldSecs(k) ==
  LET left == Cost[ParentOf[k]] - (clock - held[k].started) IN
  IF held[k].budget /\ held[k].started # Never /\ left > 0
  THEN left
  ELSE Expected(k, held[k].budget)

Live(p) == clock < reserved[p]

HeldWork == SumFunctionOnSet([k \in SubTask |-> HeldSecs(k)], {k \in SubTask : held[k].in})

\* Mutant: bids that wait for a dispatch are not counted.
QueuedSecsHeldOnly == HeldWork

\* queued_secs
QueuedSecs == HeldWork + SumFunctionOnSet(Cost, {p \in Parent : Live(p)})

\* total > limit, with limit = margin * min(own timeout, deadline)
Exceeds(secs, p) == secs * MarginDen > MarginNum * MinOf(OwnTimeout, Deadline[p])

\* Mutant: the subtraction is not checked.
ComputeTimeoutUnchecked(task) ==
  MinOf(OwnTimeout, Deadline[ParentOf[task.key]] - (clock - task.at))

\* Mutant: the timeout counts from the start of the computation.
ComputeTimeoutFromStart(task) == MinOf(OwnTimeout, Deadline[ParentOf[task.key]])

\* compute_timeout; 0 when the deadline has passed while the task waited.
ComputeTimeout(task) ==
  LET left == Deadline[ParentOf[task.key]] - (clock - task.at) IN
  IF ~task.budget THEN OwnTimeout
  ELSE IF left <= 0 THEN 0 ELSE MinOf(OwnTimeout, left)

\* hold, on the given maps
Hold(k, budget, map) ==
  [map EXCEPT ![k] = [in |-> TRUE, budget |-> budget, started |-> Never]]

-----------------------------------------------------------------------------
(* Handlers                                                                *)

LapsedDropped == [p \in Parent |-> IF Live(p) THEN reserved[p] ELSE 0]

\* A new bid on p is the youngest.
Renewed(p) ==
  [q \in Parent |->
    IF q = p THEN [state |-> "due", older |-> {x \in Parent \ {p} : bids[x].state # "none"}]
             ELSE [state |-> bids[q].state, older |-> bids[q].older \ {p}]]

\* submit_bid on an announcement with work, decide included.  A bid that cannot be
\* delivered keeps its reservation; it is one that no dispatch follows.
Announce(p) ==
  /\ IF Exceeds(QueuedSecs + Cost[p], p)
     THEN reserved' = LapsedDropped /\ UNCHANGED <<announced, bids>>
     ELSE /\ announced' = [q \in Parent |->
               IF q = p THEN clock
               ELSE IF announced[q] # Never /\ clock - announced[q] < AnnouncedTtl
                    THEN announced[q] ELSE Never]
          /\ reserved' = [LapsedDropped EXCEPT ![p] = clock + ReservationTtl]
          /\ bids' = Renewed(p)
  /\ UNCHANGED <<clock, held, rows, queue, worker, punctual, crashes>>

\* A dispatch in the order of the bids, and what it leaves: the older bids are no
\* longer due.
InTurn(p) == Live(p) /\ bids[p].state = "due"
Dispatched(p) ==
  [q \in Parent |->
    IF q = p THEN NoBid
             ELSE [state |-> IF q \in bids[p].older THEN "passed" ELSE bids[q].state,
                   older |-> bids[q].older \ {p}]]

\* handle_dispatch_stream and accept_compute_task for a new sub-task, from the lookup
\* of the budget to the enqueue in one step; TaskPipeline takes them apart.
Accept(k) ==
  LET p == ParentOf[k]
      task == [key |-> k, budget |-> announced[p] # Never, at |-> clock]
  IN
  /\ rows[k].status = "absent"
  /\ punctual' = (punctual /\ InTurn(p))
  /\ bids' = Dispatched(p)
  /\ rows' = [rows EXCEPT ![k] = [status |-> "pending", task |-> task]]
  /\ reserved' = [reserved EXCEPT ![p] = 0]
  /\ held' = Hold(k, task.budget, held)
  /\ queue' = Append(queue, task)
  /\ UNCHANGED <<clock, announced, worker, crashes>>

\* The worker takes the next sub-task: start, compute_timeout.
WorkerRecv ==
  LET task == Head(queue) IN
  /\ ~worker.busy
  /\ queue # <<>>
  /\ queue' = Tail(queue)
  /\ held' = [held EXCEPT ![task.key].started = IF held[task.key].in THEN clock ELSE @]
  /\ worker' = [busy |-> TRUE, task |-> task, start |-> clock, timeout |-> ComputeTimeout(task),
                post |-> 0, phase |-> "probe"]
  /\ UNCHANGED <<clock, announced, reserved, rows, bids, punctual, crashes>>

\* dispatch_task: the health probe succeeded, the request goes out and only now the
\* clock of its timeout starts.
WorkerPost ==
  /\ worker.busy /\ worker.phase = "probe" /\ worker.timeout > 0
  /\ worker' = [worker EXCEPT !.phase = "core", !.post = clock]
  /\ UNCHANGED <<clock, ledger, rows, queue, bids, punctual, crashes>>

\* Core answers, fails, times out, or was not called; the status is written.
WorkerAnswer ==
  /\ worker.busy /\ worker.phase # "deliver"
  /\ worker' = [worker EXCEPT !.phase = "deliver", !.post = 0]
  /\ rows' = [rows EXCEPT ![worker.task.key].status = "done"]
  /\ UNCHANGED <<clock, ledger, queue, bids, punctual, crashes>>

\* send_result has returned; release.
WorkerFinish ==
  /\ worker.busy /\ worker.phase = "deliver"
  /\ held' = [held EXCEPT ![worker.task.key] = NotHeld]
  /\ worker' = IdleWorker
  /\ UNCHANGED <<clock, announced, reserved, rows, queue, bids, punctual, crashes>>

\* Time may pass for the worker: the probe and the request end with their timeouts, a
\* task without a timeout goes on at once, a delivery may take any time.
MayWait ==
  worker.busy =>
    /\ worker.phase = "probe" => worker.timeout > 0 /\ clock - worker.start < ProbeMax
    /\ worker.phase = "core" => clock - worker.post < worker.timeout

\* A second passes.
Tick ==
  /\ clock < MaxClock
  /\ MayWait
  /\ punctual' = (/\ punctual
                  /\ worker.busy =>
                       clock - worker.start < Expected(worker.task.key, worker.task.budget)
                  /\ ~worker.busy => queue = <<>>)
  /\ clock' = clock + 1
  /\ UNCHANGED <<ledger, rows, queue, worker, bids, crashes>>

\* get_pending_tasks: the pending rows, oldest first.
ByAge(S) ==
  {s \in [1..Cardinality(S) -> S] :
    \A i, j \in DOMAIN s : i < j => s[i] # s[j] /\ s[i].at <= s[j].at}

\* Mutant: restored rows are enqueued but not counted.
RestartUncounted ==
  LET pending == {k \in SubTask : rows[k].status = "pending"} IN
  /\ crashes < MaxCrash
  /\ crashes' = crashes + 1
  /\ announced' = [p \in Parent |-> Never]
  /\ reserved' = [p \in Parent |-> 0]
  /\ held' = [k \in SubTask |-> NotHeld]
  /\ \E s \in ByAge({rows[k].task : k \in pending}) : queue' = s
  /\ worker' = IdleWorker
  /\ bids' = [p \in Parent |-> NoBid]
  /\ punctual' = FALSE
  /\ UNCHANGED <<clock, rows>>

\* The process dies and main starts it again: the ledger is new, the pending rows are
\* held and enqueued.
Restart ==
  LET pending == {k \in SubTask : rows[k].status = "pending"} IN
  /\ crashes < MaxCrash
  /\ crashes' = crashes + 1
  /\ announced' = [p \in Parent |-> Never]
  /\ reserved' = [p \in Parent |-> 0]
  /\ held' = [k \in SubTask |->
       IF k \in pending
       THEN [in |-> TRUE, budget |-> rows[k].task.budget, started |-> Never]
       ELSE NotHeld]
  /\ \E s \in ByAge({rows[k].task : k \in pending}) : queue' = s
  /\ worker' = IdleWorker
  /\ bids' = [p \in Parent |-> NoBid]
  /\ punctual' = FALSE
  /\ UNCHANGED <<clock, rows>>

-----------------------------------------------------------------------------
Next ==
  \/ \E p \in Parent : Announce(p)
  \/ \E k \in SubTask : Accept(k)
  \/ WorkerRecv \/ WorkerPost \/ WorkerAnswer \/ WorkerFinish
  \/ Tick
  \/ Restart

Spec == Init /\ [][Next]_vars

-----------------------------------------------------------------------------
(* Properties                                                              *)

Computing == worker.busy /\ worker.phase = "core"

\* "Its own timeout, or what is left of the orchestrator's deadline when that is
\* shorter": a sub-task whose deadline passed in the queue is not sent to core, and
\* the node stops waiting for core at its own timeout and no later after the deadline,
\* which runs from the acceptance, than the health probe took: though the sub-task
\* waited in the queue, others overran or it was restored.
DeadlineRespected ==
  Computing =>
    LET deadline == Deadline[ParentOf[worker.task.key]] IN
    /\ clock - worker.post <= OwnTimeout
    /\ worker.task.budget => /\ worker.start - worker.task.at < deadline
                             /\ clock - worker.task.at <= deadline + ProbeMax

\* The work the node is really committed to: the queued sub-tasks, what is left of
\* the running one, and the bids of this process that may still be dispatched.
Remaining(t) ==
  LET left == Expected(t.key, t.budget) - (clock - worker.start) IN
  IF left > 0 THEN left ELSE 0
QueueSecs == [i \in 1..Len(queue) |-> Expected(queue[i].key, queue[i].budget)]
Committed ==
  SumFunctionOnSet(QueueSecs, 1..Len(queue))
    + (IF worker.busy THEN Remaining(worker.task) ELSE 0)
    + SumFunctionOnSet(Cost, {p \in Parent : bids[p].state # "none" /\ Live(p)})

\* The node bids only when all it is committed to and the new work fit the limit:
\* whatever the order of bids, dispatches, overruns and restarts, the ledger never
\* counts less than the queue, the worker and the open bids hold.
BidSound ==
  [][\A p \in Parent : reserved'[p] \notin {0, reserved[p]} => ~Exceeds(Committed + Cost[p], p)]_vars

\* "Whether this node can finish an announced sub-task before both its own timeout
\* and the orchestrator's deadline": as long as the world keeps to the estimates, every
\* sub-task is finished within the share of the deadline that its bid promised, counted
\* from its dispatch.
OnTime ==
  punctual /\ worker.busy =>
    /\ worker.task.budget
    /\ worker.timeout > 0
    /\ ~Exceeds(clock - worker.task.at, ParentOf[worker.task.key])

=============================================================================
