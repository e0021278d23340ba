# A verification project for wqc-node

wqc-node is the worker daemon of a distributed quantum-circuit service: it bids
on announced tasks, accepts dispatched sub-tasks, has a local `wqc-core` compute
them, and delivers results and leaf PCS proofs to an orchestrator over libp2p,
with SQLite as its only durable state.  This directory holds TLA+ models of the
parts that carry that logic, the TLC runs that check them on small instances,
and TLAPS proofs for every value of the constants.  `PROJECT.json` links every
definition to the lines it models.

    tlc -workers 2 -config pipeline_races.cfg MCTaskPipeline   # a run
    tlapm TaskPipelineProofs.tla                               # proofs

## 1. Inventory

| part | state it keeps | operations | what makes it correct |
|---|---|---|---|
| task intake (`application/accept_task.rs`, `transport/p2p/dispatch_handler.rs`) | `tasks` rows, `pending_tasks`, `WorkLedger.held`, the worker channel | `handle_dispatch_stream`, `accept_compute_task`, `AppState::enqueue` | one computation per sub-task although streams race; exact load |
| worker (`application/worker.rs`) | the task in hand | receive, compute, status, deliver, release | what is computed has a row; what finished has a result |
| result outbox (`application/result_outbox.rs`) | `pending_results` | persist, first delivery, retry loop | unsent results are never dropped and leave at last |
| retention (`application/task_prune.rs`) | ages of `tasks` rows | prune pass | never touches live work |
| startup (`main.rs`) | – | restore pending rows, spawn the loops | every unfinished row computed again, once |
| storage (`infra/storage.rs`) | three tables | one transaction per call | the conflict clauses the others rely on |
| PCS outbox (`application/pcs_outbox.rs`) | `pending_pcs`, `IN_FLIGHT` | retain, request, build, refuse, deliver, retry and TTL loop | one prove at a time per sub-task, only when asked; a stored request is answered |
| open calls (`application/pcs_open_call.rs`, `transport/p2p/pcs_open_handler.rs`) | `open_call_cache` | announce, bid, request, build from a CAS blob | the PCS sent is bound to the proof that was asked for; nothing is built unasked |
| work budget (`domain/work.rs`, `transport/p2p/bid_client.rs`) | `announced`, `reserved`, `held` | `decide`, `hold`, `start`, `release`, `compute_timeout` | no bid it cannot keep; no work for core once the deadline has passed |
| P2P host (`transport/p2p/host.rs`) | connections, redial timer, `orch_gossip_live` | swarm events, redial, forced subscription | a node off the network always comes back, and is heard |
| outbound streams (`transport/p2p/stream_io.rs`, `bid_client.rs`, `pcs_bid_client.rs`) | the stream control behind a mutex | write and close; write and wait for an ack; attempts | what is reported as submitted was received; one slow peer does not hold up the rest |
| core health gate (`infra/core_client.rs`) | `consecutive_failures`, `unhealthy_until` | `ensure_ready`, `mark_healthy`, `record_unreachable` | spares a dead core, never shuts out a live one |
| bidding (`domain/bid.rs`, `features.rs`) | – | verified announcements, feature gates, widths of a bid, lottery | what a bid offers is accepted; no work is bid on unweighed |
| circuit validation (`domain/validation.rs`) | – | check, then normalise, nested JSON | what core gets is what was checked, and in range |
| memory budget (`memory_budget.rs`, `config.rs`) | the widths in `NodeConfig` | host, request and VRAM to widths | accepted work fits; no width is given away |
| wire messages (`domain/p2p.rs`) | – | the bytes signatures cover | the node writes again what the orchestrator signed |
| bootstrap lookup, metrics and HTTP, geolocation | – | one-off requests, counters | not modelled (section 8) |

**How they interact.**  A dispatch stream verifies a message and calls
`accept_compute_task`, which inserts the `tasks` row, counts, holds and sends
into a channel of 100 slots.  The single worker receives from it.  When core
answers, the worker writes the status, stores the result in `pending_results`,
tries a first delivery, then retains the proof in `pending_pcs`.  Two retry
loops, over `pending_results` and `pending_pcs`, and a prune loop run beside it.
Each loop works on a *copy* of its table.  PCS requests arrive on streams of
their own and spawn builds, which share core, and its health gate, with the
worker.  All sends go through the P2P host, over streams that share one control.

**What is hard.**  Everything above is a tokio task; between two storage calls
of one task any step of any other may happen, and the process may die.  There is
no transaction over more than one call.  `PROJECT.json` lists the hazards, each
at its line.  The main ones: two dispatches of one `task_id`; a crash between two
of the worker's writes; a retry loop that acts on what it read earlier; deletes
by key of rows that changed meanwhile; a request overtaking the proof it is for;
a full channel at startup; separately updated counters of the health gate;
transports that close in the wrong order.

## 2. Modules

| module | models | state ↔ code |
|---|---|---|
| `TaskPipeline` | intake, worker, result outbox, prune, crash, restore | `tasks`, `outbox` = tables; `queue` = mpsc channel; `counter` = `pending_tasks`; `held` = ledger keys; `handler[s]`, `worker`, `retry` = where each tokio task is, with its local copies; `restore` = rows main still has to send, of which at most one is held already |
| `TaskDelivery` | abstract: what the node promises about a sub-task | `turn`, `stage`, `delivered` per acceptance of a key; no tables or tasks |
| `PcsOutbox` | retention, PCS requests, open calls, builds, retry/TTL loop | `rows`, `nextId` = `pending_pcs`; `inFlight` = `IN_FLIGHT`; `cache` = `open_call_cache`; `retainer`, `asker`, `builder` = calls under way with their copy of the job; `todo` = the pass's list |
| `OpenCalls` | announcements of open calls and the bids on them, over `PcsOutbox` | `call[c]` = a `handle_pcs_open_stream` under way: it waits for `/sysinfo`, or bids |
| `WorkLedger` | work budget with the bid, dispatch, worker and restart code that drives it | `announced`, `reserved`, `held` = the ledger's maps; `worker` = `process_task`: when it started, the timeout computed then, when core was called (`post`) and what it waits for (`phase`: probe, core, delivery); `clock` in seconds; ghost `bids[p]` = whether a bid may still be dispatched in its turn, and the older ones |
| `P2PHost` | event loop, redial timer, gossip subscription | `conns`, `dials`, `attempt`, `sleep`, `live`; `topic` and `heard` stand for gossipsub |
| `Outbound` | streams to the orchestrator, over `P2PHost` | `queue` = the mutex of the stream control, holder first; `pc`, `tries` per sender; `stream` = what became of its stream; `ok` = calls that returned Ok; `got` = payloads the peer read |
| `CoreHealth` | the gate in front of core | `failures`, `gate`; `pc[c]` per caller |
| `MemoryBudget` | the width formulas, over saturating words of `WordBits` bits | operators only |
| `SigningText` | numbers and characters in the text of a circuit, as ryu writes and `go_json_float` rewrites them, beside what Go writes | operators only |
| `Circuit` | check, normalisation and signing text of a circuit, over JSON values | operators only; `TypesOf`, `Leaves`, `Operands` are reference definitions.  A function of the code that calls itself is a constant, a TLA+ function, beside a definition of its body, which takes the function to call as its first parameter: `MCAdmission` builds each as a recursive function over its own body, and the assumption `RecursiveCalls` says that they agree |
| `Admission` | startup from `from_env` to `apply_core_sysinfo`, announcements as they arrive, the decision to bid, the checks of a dispatch from its signature on; over `MemoryBudget` and `Circuit` | `config` = `NodeConfig`'s widths, VRAM, rates; `gates` = `supported_gates`; `bid`, `last` = the last bid and the last dispatch with its verdict |
| `MC*` | the same for TLC | – |
| `*Proofs` | theorems: one module per model, except that `DeliveryProofs` (the results and the refinement) continues `TaskPipelineProofs`, and `OutboundProofs` holds those of `P2PHost` too | – |

Three relations between modules.  `TaskPipeline` *implements* `TaskDelivery`: its
`StageOf` reads the stage of a sub-task off the two tables, the worker and the
ghost `sent`.  `Outbound` is *composed over* `P2PHost` and `OpenCalls` over
`PcsOutbox`: each extends the other's module, adds variables and actions, and
conjoins what a step of the lower part does to the upper one (a connection that
closes cuts streams; a crash ends the handlers of announcements).  That neither
disturbs the part below is a theorem (`ImplementsHost`, `ImplementsOutbox`).

Conventions.  One storage call is one step, as the connection's mutex makes it;
what a task does between two awaits without touching shared state belongs to the
step before.  An error path that ends a call early is a disjunct of the action,
enabled by `StorageMayFail` for storage.  Payloads, proofs and hashes are model
values; a result is its outcome; what was built is the *source* it was built
from.  The signatures of
announcements and dispatches are checked in `Admission`; elsewhere a message is
valid or does not exist.
Generations (`gen`) number the dispatches of one `task_id` after prunes; they
are a ghost, as are `sent`, `got`, `retained`, `asked`, `promise`, `bids`,
`punctual`, `missed` and the counters that bounds are about.

## 3. Runs

Passing runs:

* **pipeline_races** – two sub-tasks, two racing streams, a crash, no storage
  errors.  `NoDoubleQueue`: a sub-task is on its way to core in one place only.
  `OwnedRowPending` and `PendingRowOwned`: what is on its way and what is `pending`
  in SQLite are the same.  `CounterExact`: the load that `/status` and bids report
  is the real one at every step, and never wraps.  `OutboxNotRecomputed`: a stored
  result is not computed again after a restart.  `ProofRetained`: whichever of the
  worker and the retry loop delivers, the proof is kept for a PCS request.
  `PendingComputed` and `AcceptanceEnds` (the liveness of `TaskDelivery`): every
  accepted task is computed, every acceptance is settled or lost at last, through
  the crash and failed sends.  The channel holds all rows.
* **pipeline_redispatch** – two `task_id`s, each pruned and dispatched again, a
  channel of *one* slot, a crash, any storage call failing.  `CounterExact` again,
  now over prunes, and `HeldExact`: the ledger's keys are the accepted and
  unfinished sub-tasks, and while main restores, the rows sent so far and at most
  the one whose send waits for room.  `UnsentKept`: neither the stale copy of the
  retry loop nor the prune loop drops an unsent result.  `ImplementsDelivery`: the
  whole is a behaviour of `TaskDelivery`: only the latest acceptance's result is
  handed over, a key is taken on again only when its former acceptance is over, and
  a result is lost in one window only.  Deadlock is not checked because with one
  slot the restart of two rows does hang (see restore_hangs).
* **pcs_builds** – `OpenCalls` over `PcsOutbox`: one sub-task, two requests at a
  time, an open call, two retentions, two spawned builds and the loop's, TTL,
  storage errors, a crash.  `InFlightExact`, `ProveOnlyIfAsked`, `LeafFitsJob`.
  `OnlyStaleCopiesDrop`: a stored request is lost in two ways only, the ones of the
  violation runs below: a retention that writes back what it read before the
  request, and a TTL delete of what was listed before it.
* **pcs_liveness** – two sub-tasks and a crash, with neither of the two causes and
  no open calls: `RequestAnswered`.
* **ledger** – a short task with two sub-tasks and a long one, five seconds, a
  probe of up to a second before each call of core, deliveries of any length, a
  restart.  `DeadlineRespected` and `BidSound` for every order of events;
  `OnTime` for as long as the world keeps to the estimates (ghost `punctual`).
* **host_link** – `Outbound` over `P2PHost`: TCP and QUIC, two connections at once,
  attempts up to the cap, subscriptions that may be refused, and three senders: a
  result, a PCS bid with a second attempt, a bid with an ack and three attempts.
  `Heard`, `RedialArmed`, `BackoffGrows`, `Reconnects`.  `AckedReceived`: what was
  reported as submitted was read in the attempt that succeeded.  `PlainSendsEnd`: a
  result's send ends although bids wait for acks that never come; it fails if
  `write_outbound_stream_expect_ack` kept the mutex while it waits.
* **core_gate** – three callers, threshold 3.  `DeadCoreSpared`: at most
  threshold × callers errors before the gate is set, the bound the separate
  updates really give; `Recovers`.
* **admission** – words of 7 bits with a GiB of 8 bytes; twelve hosts on both
  sides of each threshold, requests from negative to the largest word, six VRAM
  reports, three gate lists or the default one, some sixty circuits, with angles
  on both sides of each change of layout (1e-5, 1e-6, 1e16, 1e21) and a string of
  every kind of character; announcements whose optional fields were lost or
  changed on the way.
  `AcceptedFits` compares what is accepted with the host's, the operator's and the
  adapter's memory; `WidthLargest` shows the saturating loop exact for every
  budget the node can have (it is not for the largest word, which no host
  reaches: the reserve is taken off first); `BidHonoured` covers the omitted MPS
  width; `ForwardedSound` the normalisation that follows the check; `WorkHonoured` the
  two signature versions of an announcement (a stripped one is not bid on as if it
  had no work); `SignedAccepted` the text the node signs again.  Deadlock is
  not checked: the node may wait for ever for a message.

Runs that end in a violation, each a disagreement between the code and what the
repository says of it (`findings` quotes the lines):

* **crash_loses_result** – `worker.rs:105` writes `completed` before the result
  is stored; a crash between the two loses the result for good.
* **restore_hangs** – `main.rs:99` sends the restored rows before the receiver
  is spawned; with more rows than slots (100) the node never starts.  The run has
  two rows and one slot.
* **pcs_ttl_drops_request** – the TTL branch deletes by row id what it judged on
  a copy (`pcs_outbox.rs:545`); a request stored in between is lost.
* **pcs_retain_drops_request** – `retain_after_result` reads the row at
  `pcs_outbox.rs:107` and writes it back at 124.  When the worker and the result
  retry loop both deliver a result, the second retention can overwrite a request
  stored in between, which its own comment (line 106) rules out.

**Bounds.** `MaxGen`, `MaxCrash`, `MaxRetain`, `MaxAsk`, `MaxRow`, `MaxClock`,
`AttemptCap`, `MaxConns` and the sizes of `Spawned`, `Asker`, `Caller`, `Plain`
and `Acked` are bounds of the models and named so; `QueueCap` (100 in the code),
`LookupAttempts` (10), `ProbeMax` (2 s) and `RedialMax` are the code's constants made small,
`Attempts` is the code's own (3 for bids; 2 for the PCS bid of the run, enough
to fail and try again). Two streams, two callers or two sub-tasks are enough for
each pairwise race, one crash for each intermediate state. What no run combines is
left to the theorems, which have no such bounds: racing streams together with
prunes and storage errors, two payloads of one `task_id`, a second crash during the
recovery from the first (section 5: `ExclusiveOwnership`, `CounterCorrect` and
`PipelineImplementsDelivery`), several handlers of announcements at once
(`ImplementsOutbox`), the shift of the backoff at its limit of 16
(`BackoffCorrect`). `MaxClock` exceeds the reservation time, the
announcement time and the short task's deadline with the probe. In `host_link` the
delay doubles once and then meets its cap (1, 2, 3), two connections are one per
transport, and one acked sender beside two plain ones shows every order in the
mutex's queue. A behaviour of `Admission` has one dispatch, since none changes
what the next one meets; its word keeps the order of the code's constants (an
amplitude is smaller than a site, the loop's bound passes the largest width that
fits a word). Symmetry (over sub-tasks in `pipeline_redispatch`, over the short
task's sub-tasks in `ledger`, over requests and builds in `pcs_builds`) is used for
safety only.

## 4. Fairness

* `TaskPipeline`: weak fairness of each tokio task's steps, strong fairness of a
  successful send: the loops never end, main goes on restoring, and a peer that is
  tried for ever answers at last.  Weak fairness of recovery: a supervisor restarts the process.  No
  fairness of new dispatches, prunes or crashes.
* `PcsOutbox`: weak fairness of the loop and of every build, strong fairness of a
  build that ends (built or refused) and of an acknowledged send.  `OpenCalls` adds
  none: nothing obliges a node to bid.
* `P2PHost`: the timer is served, dials end, and one of them succeeds at last.
* `Outbound`: weak fairness of each sender's steps.  Tokio's mutex is first come
  first served, negotiating a stream has a timeout in libp2p, and a write ends
  because the orchestrator reads or the connection dies.  Nothing makes the
  orchestrator read or answer a stream that waits for an ack.
* `CoreHealth`: every caller is scheduled and returns with more work (the retry
  loops do); a core that is up answers a request at last.

## 5. What is proved

The theorems hold for every value of the constants under the `ASSUME` of each
module: any number of sub-tasks, streams, builders, callers, addresses, crashes,
any deadlines, any word size.  A hypothesis beyond those is in the theorem's own
`ASSUME` and says which behaviour of the code would break it.

* `TaskPipelineProofs`
  * `TypeCorrect`: `TypeOK` is not inductive; `TypeInv` adds `Shape`, which ties
    each task's place to what it carries (an active handler has a task, a sending
    retry loop a current entry).  The channel never exceeds its capacity.
  * `CounterCorrect`: `CounterExact` is inductive with `TypeInv`.  Each step adds or
    removes the same one on both sides: a stream joins `Counted` as the
    counter rises, a row leaves `restore` as it enters the queue, and so on; the
    cardinality lemmas come from `FiniteSetTheorems`.
  * `RestoreFits`: while main restores, the queued rows and those still to be queued
    are together the pending rows, whatever failed before (`RestoreCount`, since
    nothing else runs in that mode, and `CounterExact`).  So the restart hangs
    (restore_hangs) only with more pending rows than the channel has places.
  * `ExclusiveOwnership` (`NoDoubleQueue`) and `OwnedRowsPending`, under
    `~RowsAgeInFlight`.  The inductive invariant `OwnInv` says that whatever is on
    its way to core carries the payload and generation of a pending row
    (`Matching`), that two places never hold the same key (`Exclusive`), and that
    its row is too young to prune (`Young`).
* `DeliveryProofs`, on top of `OwnInv`
  * `UnsentResultsKept`: `DeliveryInv` follows the generations: a row of
    `pending_results` is of the latest acceptance of its key and there is one per
    key; what the worker stores is of the latest acceptance; every entry of the
    retry loop's stale copy is either still the stored one or already sent.  So
    the delete by key never hits a newer result.  Needs `~RowsAgeInFlight`.
  * `PipelineImplementsDelivery`: the refinement, under `~RowsAgeInFlight`, one lemma
    per group of actions.  A step that leaves the outbox, the sends, the row and the
    worker's place of every key alone is a stutter (`SameStage`); each other one
    changes the stage of one key, by a step of `TaskDelivery`.
  * `ResultsNotRecomputed`, `DeliveredProofsRetained`: `StatusExact` (a pending row has
    no result; a result's outcome is its row's status) and `RetainedInv` (what is
    delivered and not yet retained is in the hands of the worker or the retry
    loop).  Both need `~StorageMayFail`: when `update_status` fails (`worker.rs:105`),
    the code logs it and stores the result beside a pending row.
  * `OnlyCrashesLose`: before the first crash `ResultTracked` holds, and a pruned key's
    result was handed over too; so crash_loses_result shows the one way to lose a
    result that storage has not refused.  `TrackedInv`: the latest acceptance of a key
    is pending, about to be stored, stored or sent; a stored one is deleted only after
    its send, by `DeliveryInv`.  A refused upsert does lose it: `~StorageMayFail`.
  * `PendingRowsOwned`: `PendingInv` under `~StorageMayFail`, for the same reason;
    rows may age here.
  * `HoldsExact`: `HeldInv`, for any storage errors; a restored row is held before its
    send, so that during a restart one held row may not be queued yet.
* `PcsOutboxProofs`
  * `PcsTypes`: `TypeInv` adds `Keyed` (a call under way has a key).
  * `BuildsExclude`: `InFlightExact` is inductive with `TypeInv`.
  * `BuildsSound`: `ProveOnlyIfAsked` and `LeafFitsJob`, from `JobsInv`, which says of
    every copy of a job, in rows, lists, retentions, requests and builds alike,
    that a requested job was asked for and that a cached leaf fits its job.
  * `RequestsDropOnlyStale`: `OnlyStaleCopiesDrop`, with no hypothesis on retentions,
    open calls or the TTL.  `DropInv`: a build that is about to delete has had its
    answer, a PCS or a refusal, acknowledged (`AnsweredFirst`); whatever is at work on
    a request carries a job that says so (`JobsRequested`); an id names one row for
    ever (`IdsUnique`).
* `OpenCallsProofs`
  * `ImplementsOutbox`: the handlers of announcements add nothing to what the PCS
    outbox does; `CallsTypes`, `CallsProveAsked` and `CallsDropOnlyStale` lift its
    theorems.
* `OutboundProofs`, first the host alone
  * `HostTypes`, `LinkCorrect`: `LinkInv` adds `LiveExact`: `orch_gossip_live` is set
    exactly while the subscription was forced on a connection that still stands.
    `Heard` and `RedialArmed` follow.
  * `BackoffCorrect`: the delay doubles up to its cap while disconnected, from
    `SleepExact` (a pending timer was set with the delay of the current or the
    previous attempt) and `DelayDoubles`, for a cap of at most 65536 initial
    delays, the largest the shift reaches.
  * `ImplementsHost`: at the link, the node with its senders behaves as the host
    alone, for any sets of senders and numbers of attempts; with it `OutboundHeard`
    lifts what is proved of `P2PHost`; `OutboundTypes`.
  * `AcksSound`: `AckedReceived`.  The invariant ties the stream to the ghost: a
    stream that was read or answered belongs to a payload in `got`, and a call under
    way is not in `ok`, so that an attempt that clears `got` spoils no report.
* `WorkLedgerProofs`
  * `LedgerTypeCorrect`, `DeadlinesRespected`: `LedgerInv` says that queue, rows and
    worker carry times that have passed, that a probe ends within `ProbeMax` and a
    call of core within the timeout it was given, which was computed before the
    probe and would have ended by the deadline then.
  * `BidsSound`: `HeldInv` says that the queued and the running sub-tasks are
    pairwise different, held, and held with their own estimate.  What the node is
    committed to is a sum over queue positions, the ledger's a sum over keys; the
    lemmas on `SumFunctionOnSet` compare them.  Induction over sets is out of reach
    (below), so each is proved by a smallest counterexample: the strict subset
    ordering of a finite set is well-founded (`FiniteSetTheorems`).
  * `BidsKeptOnTime`: `OnTime`, with `TimelyInv`: as long as the run is punctual, the
    running sub-task, each queued one after those before it, and each bid that may
    be dispatched after the queue and the older bids, end within the share of
    their deadline that was promised.  Hypothesis: costs are positive, since a
    deadline that is used up to the second counts as expired.  `LedgerConstants` has
    that a reservation lapses before its announcement is forgotten (15 s and 6 h).
* `CoreHealthProofs`
  * `GateTypeCorrect`, `DeadCoreIsSpared`: `GateInv` bounds the counter by the threshold
    and the callers about to set the gate or to reset it (`CountBounded`), and the
    errors missed (`MissedBounded`): those past the threshold stand at the gate, and
    each caller that was about to reset when core died may wipe the counter once,
    which hides less than a threshold of errors.
* `AdmissionProofs`, for any word size, any circuits and any numbers in them
  * `AdmissionTypes`, `NoOvercommit` (`AcceptedFits`), `WidthsExact` (`WidthLargest`),
    `BidsHonoured`, `WorkAlwaysWeighed` (`WorkHonoured`): `AdmissionInv` says which
    widths the configuration holds in each phase and ties each bid and verdict to
    them.  The widths are a least number with a property, powers of two are
    counted as subsets, and the saturating loop is exact because the reserve keeps
    every budget below the word's largest value.  `BudgetConstants` is what the
    code's own constants satisfy (2^30, 16, 524288, the largest u32).
  * `NormalisedSound` (`ForwardedSound`): a gate that passes the check names only
    supported gates and operands in range (`GateSound`), and the normalisation of
    such a gate changes neither (`NormalSame`).  Both are about trees of any depth
    and are proved on the innermost value of a set of counterexamples: `Values`
    has a depth that falls from a value to its members, and naturals are
    well-founded (`Least`, `Innermost`).
  * `SignaturesKept` (`SignedAccepted`): for floats with any digits and any exponent,
    `decimal_digits` reads ryu's text back (`Reread`: whatever zeros ryu put around
    the digits, `Padded`, are trimmed and counted), the layout is then Go's, digit by
    digit (`NumberAlike`), and so is every value of a circuit (`AllAlike`).

Some definitions changed with the proofs.  `StageOf` was a `CASE` whose arms
overlapped (a stored result beside a row that a failed status write left
pending), which leaves its value open; it is now an `IF` chain, in the order TLC
took the arms in.  The functions over JSON values were recursive operators, which
the prover does not take; now each is a body beside a constant function
(section 2), so that the theorems about circuits need no more than the equation
between the two, and TLC runs the recursion as before.

Model-checked only:

* all liveness (`PendingComputed`, `AcceptanceEnds`, `RequestAnswered`, `Reconnects`,
  `PlainSendsEnd`, `Recovers`): `ENABLED` and fairness are out of the prover's reach.

## 6. Known limits of the code, seen while modelling

Behaviour the models contain and that bounds what the properties say:

* Between the retry loop's delete and its `load_task` (`result_outbox.rs:127–146`)
  nothing protects the `tasks` row; a prune there, or a crash, drops the proof.
  `ProofRetained` speaks of rows that are there and of runs without a crash.
* A stored request has two ways to be lost, both findings: `retain_after_result`
  reads and writes in two calls (`pcs_outbox.rs:107–124`), and the TTL branch deletes
  by id what it listed earlier (545).  `OnlyStaleCopiesDrop` says that there is no
  third.  An open call's row can likewise be replaced by a build or retention of the
  node's own proof, which keeps the mark and changes what is built (`LeafFitsJob`
  holds: what is sent is what the job names then).
* Open calls are cached by sub-task, one handler per announcement, after a wait for
  `/sysinfo` (`pcs_open_handler.rs:71`): a late handler can put an older announcement
  over the latest, and the end of any build of the sub-task removes what is cached
  (`pcs_open_call.rs:100`).  A node that has bid can so be asked for a call it no
  longer knows; it drops the request with a warning.  The model contains both, and
  nothing is claimed of the cache.
* The timeout for core is computed before the health probe and runs from after it
  (`core_client.rs:161–169`): the node may wait for core past the deadline, by the
  probe's 2 s at most.  `DeadlineRespected` states the bound the code gives.
* A build decides on its copy whether to prove (`pcs_outbox.rs:349`); one taken
  before the PCS was cached proves again later, never at the same time.
* A second transport that closes, or a late dial error, sets the redial timer of a
  connected node (`host.rs:421`, `433`): extra dials, nothing else.
* If a row may reach the retention age while its task is worked on
  (`RowsAgeInFlight`; a day by default) it can be pruned and dispatched again:
  `NoDoubleQueue` and `UnsentKept` then fail after repeated dispatches,
  `CounterExact` does not.
* A caller that counted the threshold may set the gate after another's
  `mark_healthy`: a core that has just answered is shut out for one backoff.
* A result counts as delivered when its stream closed without error
  (`result_delivery.rs:59`); no answer is read, although `docs/OPERATIONS.md:149`
  says the row is deleted "on ACK".  `TaskPipeline` takes such a result as received;
  in `Outbound`, `AckedReceived` cannot be said of plain senders.
* `write_outbound_stream` keeps the stream control over write and close and has no
  timeout: a connection that neither moves nor dies stops every send of the node.
  `PlainSendsEnd` rests on the assumption that there is none (section 4).
* `open_call_cache` is only cleared by a build's end: calls that others win stay in it.
* If core does not answer at startup, the default gates and the RAM-only widths
  stay for the life of the process (`main.rs:47`).  Features are coarser than
  gates, so that node bids on standard tasks whose S, T or CZ gates it then rejects.
* `OnTime` needs dispatches in the order of the bids; the ledger cannot see the
  orchestrator's order.  A reservation lapses after 15 s whether its dispatch is
  still to come or not, and from then on neither `BidSound` nor `OnTime` counts it.
* The memory check of an MPS dispatch takes a bond dimension of 128 whatever
  `mps_max_bond_dim` the dispatch carries, and so does `AcceptedFits`; without a
  report from core the adapter's memory is unknown to both.

## 7. Plan

Done: the models and runs above, with the abstract specification and the two
compositions, and a theorem for every safety property of a passing run.  Next, in
this order:

1. A run for the cache of open calls against "the latest announcement"
   (`pcs_open_call.rs:76`), with two handlers of announcements.
2. A composition of `TaskPipeline` and `PcsOutbox` over the retention of a proof: the
   two deliveries of one result and the requests that race them; its theorems lift
   those of the two parts as `ImplementsHost` and `ImplementsOutbox` do.
3. A run for a node with the default gates, whose bids promise more than it accepts.

## 8. Not modelled

The signature scheme and hashes (taken as sound), base64 and the message
encodings other than the text of a circuit: the JSON of observables and of a
contraction tree, which a dispatch signature covers as well (`p2p.rs:191–193`,
`211–216`), and the fields of fixed length or with their length in front;
logging and metrics, the HTTP status handlers (they read),
geolocation (a label on bids; the time it takes is part of the hazard at
`bid.rs:144`), the construction of the swarm, the wait for core, the bootstrap
lookup (one sequential HTTP round before anything else runs; its outcome is the
constant `Addr` of `P2PHost`), f64 rounding in the work estimates, and SQLite's own
durability (a call that returned is durable).

Simplifications inside the models, each noted at its definition:

* `AcceptEnqueue` has no error path (`accept_task.rs:145–152`): the send fails only
  when the receiver is gone, and the worker that owns it ends only with the process.
* `WorkerFinish` of `TaskPipeline` merges `fetch_sub` and `release`
  (`worker.rs:118–119`), `Accept` of `WorkLedger` the lookup of the budget, the insert,
  the hold and the enqueue, which `TaskPipeline` takes apart.
* `DialFailed` is about dials of the orchestrator, the only peer the node dials.
* `Heal` resets the ghost `missed`: errors that a late `mark_healthy` discards no longer
  count towards the bound of `DeadCoreSpared`.
* `GoJsonFloat` compares an exponent as a number, not digit by digit.
