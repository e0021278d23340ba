------------------------------ MODULE PcsOutbox ------------------------------
(***************************************************************************)
(* The leaf-PCS outbox (application/pcs_outbox.rs, pcs_open_call.rs).  A    *)
(* delivered result leaves its proof in pending_pcs (retain_after_result); *)
(* the orchestrator's request marks the row and starts a build             *)
(* (handle_pcs_request); an open-call request writes a row of its own that *)
(* is built from the CAS blob.  Builders are spawned tasks that carry a    *)
(* COPY of the row, serialised per sub-task by IN_FLIGHT; the retry loop   *)
(* works on a copy of the whole table.                                     *)
(*                                                                         *)
(* Storage calls are atomic; between two of them everything interleaves.   *)
(***************************************************************************)
EXTENDS Integers, FiniteSets

CONSTANTS
  SubTask,       \* keys of pending_pcs
  Hash,          \* leaf_proof_hash values of open calls
  None,          \* no key, no open call, no leaf
  Own,           \* the source of a build from the node's own retained proof
  Retainer,      \* callers of retain_after_result: the worker, the result retry loop
  Asker,         \* PCS requests being handled at the same time
  Loop,          \* the build slot of the retry loop
  Spawned,       \* bound: build slots for spawned builds
  LookupAttempts,\* RETAINED_PROOF_LOOKUP_ATTEMPTS (10)
  MaxRetain,     \* bound: retain_after_result calls per key
  MaxAsk,        \* bound: PCS requests per key
  MaxRow,        \* bound: AUTOINCREMENT ids
  MaxCrash,      \* bound: crashes
  TtlMayPass,    \* whether a row may reach WQC_PCS_UNREQUESTED_TTL_SECS
  StorageMayFail,\* whether a write to SQLite may return an error
  OpenCalls      \* whether open calls happen

ASSUME PcsConstants ==
  /\ None \notin SubTask \cup Hash \cup {Own}
  /\ Own \notin Hash
  /\ Loop \notin Spawned
  /\ LookupAttempts \in Nat \ {0}
  /\ MaxRetain \in Nat /\ MaxAsk \in Nat /\ MaxRow \in Nat /\ MaxCrash \in Nat
  /\ TtlMayPass \in BOOLEAN /\ StorageMayFail \in BOOLEAN /\ OpenCalls \in BOOLEAN

Builder == Spawned \cup {Loop}

VARIABLES
  rows,      \* table pending_pcs
  nextId,    \* its AUTOINCREMENT counter
  cache,     \* AppState.open_call_cache
  inFlight,  \* IN_FLIGHT
  retainer,  \* one retain_after_result call per caller
  asker,     \* the spawned part of handle_pcs_request per request
  builder,   \* one try_build_and_deliver call per slot
  todo,      \* the retry loop's copy of the table
  retains, asks, crashes,  \* ghosts: the counters the bounds are about
  asked,     \* ghost: keys the orchestrator has asked this node for
  promise    \* ghost: per key, whether a request was stored and answered

tables == <<rows, nextId>>
ghosts == <<retains, asks, crashes, asked, promise>>
vars == <<tables, cache, inFlight, retainer, asker, builder, todo, ghosts>>

-----------------------------------------------------------------------------
Source == Hash \cup {Own}
\* PendingPcsJob: who asked for it, the cached build, the open call it is for.
Job == [requested : BOOLEAN, leaf : Source \cup {None}, open : Hash \cup {None}]
NoJob == [requested |-> FALSE, leaf |-> None, open |-> None]
\* A row; id 0 is no row, late says created_at has passed the TTL.
Row == [id : 0..MaxRow, job : Job, late : BOOLEAN]
NoRow == [id |-> 0, job |-> NoJob, late |-> FALSE]
Entry == [key : SubTask, row : Row]

IdleRetainer == [pc |-> "idle", key |-> None, job |-> NoJob]
IdleAsker == [pc |-> "idle", key |-> None, left |-> 0, job |-> NoJob]
IdleBuilder == [pc |-> "idle", key |-> None, job |-> NoJob, refused |-> FALSE]

TypeOK ==
  /\ rows \in [SubTask -> Row]
  /\ nextId \in 1..(MaxRow + 1)
  /\ cache \in [SubTask -> Hash \cup {None}]
  /\ inFlight \in SUBSET SubTask
  /\ retainer \in [Retainer -> [pc : {"idle", "put"}, key : SubTask \cup {None}, job : Job]]
  /\ asker \in [Asker -> [pc : {"idle", "lookup", "mark", "spawn", "openStore"},
                          key : SubTask \cup {None},
                          left : 0..LookupAttempts, job : Job]]
  /\ builder \in [Builder -> [pc : {"idle", "claim", "build", "store", "send", "refuse",
                                    "delete", "clear"},
                              key : SubTask \cup {None}, job : Job, refused : BOOLEAN]]
  /\ todo \in SUBSET Entry
  /\ retains \in [SubTask -> 0..MaxRetain]
  /\ asks \in [SubTask -> 0..MaxAsk]
  /\ crashes \in 0..MaxCrash
  /\ asked \in SUBSET SubTask
  /\ promise \in [SubTask -> {"none", "stored", "answered"}]

Init ==
  /\ rows = [k \in SubTask |-> NoRow]
  /\ nextId = 1
  /\ cache = [k \in SubTask |-> None]
  /\ inFlight = {}
  /\ retainer = [c \in Retainer |-> IdleRetainer]
  /\ asker = [a \in Asker |-> IdleAsker]
  /\ builder = [b \in Builder |-> IdleBuilder]
  /\ todo = {}
  /\ retains = [k \in SubTask |-> 0]
  /\ asks = [k \in SubTask |-> 0]
  /\ crashes = 0
  /\ asked = {}
  /\ promise = [k \in SubTask |-> "none"]

-----------------------------------------------------------------------------
(* Storage (infra/storage.rs).                                             *)

HasRow(k) == rows[k].id # 0

\* upsert_pending_pcs: a conflict keeps id and created_at.
Upsert(k, job) ==
  IF HasRow(k)
  THEN rows' = [rows EXCEPT ![k].job = job] /\ UNCHANGED nextId
  ELSE /\ nextId <= MaxRow
       /\ rows' = [rows EXCEPT ![k] = [id |-> nextId, job |-> job, late |-> FALSE]]
       /\ nextId' = nextId + 1

\* delete_pending_pcs
DeleteByKey(k) == rows' = [rows EXCEPT ![k] = NoRow] /\ UNCHANGED nextId

\* delete_pending_pcs_by_id
DeleteById(id) ==
  /\ rows' = [k \in SubTask |-> IF rows[k].id = id THEN NoRow ELSE rows[k]]
  /\ UNCHANGED nextId

\* spawn_build_and_deliver: a new task with its own copy of the job.
SpawnBuild(k, job) ==
  \E b \in Spawned :
    /\ builder[b].pc = "idle"
    /\ builder' = [builder EXCEPT
         ![b] = [pc |-> "claim", key |-> k, job |-> job, refused |-> FALSE]]

-----------------------------------------------------------------------------
(* retain_after_result, called by the worker and by the result retry loop. *)

\* Mutant: the retained job forgets that it was an open call.
RetainGetWithoutOpen(c, k) ==
  /\ retainer[c].pc = "idle"
  /\ retains[k] < MaxRetain
  /\ retains' = [retains EXCEPT ![k] = @ + 1]
  /\ retainer' = [retainer EXCEPT
       ![c] = [pc |-> "put", key |-> k, job |-> [rows[k].job EXCEPT !.open = None]]]
  /\ UNCHANGED <<tables, cache, inFlight, asker, builder, todo, asks, crashes, asked, promise>>

\* get_pending_pcs: request, open call and cached build of the row carry over; a
\* read error is taken for "no row".
RetainGet(c, k) ==
  /\ retainer[c].pc = "idle"
  /\ retains[k] < MaxRetain
  /\ retains' = [retains EXCEPT ![k] = @ + 1]
  /\ \E job \in {rows[k].job} \cup (IF StorageMayFail THEN {NoJob} ELSE {}) :
       retainer' = [retainer EXCEPT ![c] = [pc |-> "put", key |-> k, job |-> job]]
  /\ UNCHANGED <<tables, cache, inFlight, asker, builder, todo, asks, crashes, asked, promise>>

\* Mutant: the proof is built as soon as it is retained.
RetainPutBuilding(c) ==
  /\ retainer[c].pc = "put"
  /\ Upsert(retainer[c].key, retainer[c].job)
  /\ SpawnBuild(retainer[c].key, retainer[c].job)
  /\ retainer' = [retainer EXCEPT ![c] = IdleRetainer]
  /\ UNCHANGED <<cache, inFlight, asker, todo, ghosts>>

\* upsert_pending_pcs, and a build when the row was requested already.
RetainPut(c) ==
  /\ retainer[c].pc = "put"
  /\ \/ /\ Upsert(retainer[c].key, retainer[c].job)
        /\ IF retainer[c].job.requested
           THEN SpawnBuild(retainer[c].key, retainer[c].job)
           ELSE UNCHANGED builder
     \/ StorageMayFail /\ UNCHANGED <<tables, builder>>
  /\ retainer' = [retainer EXCEPT ![c] = IdleRetainer]
  /\ UNCHANGED <<cache, inFlight, asker, todo, ghosts>>

-----------------------------------------------------------------------------
(* handle_pcs_request                                                      *)

\* A verified request that is not for an open call.
PcsRequest(a, k) ==
  /\ asker[a].pc = "idle"
  /\ asks[k] < MaxAsk
  /\ asks' = [asks EXCEPT ![k] = @ + 1]
  /\ asked' = asked \cup {k}
  /\ asker' = [asker EXCEPT ![a] = [pc |-> "lookup", key |-> k, left |-> LookupAttempts,
                                    job |-> NoJob]]
  /\ UNCHANGED <<tables, cache, inFlight, retainer, builder, todo, retains, crashes, promise>>

\* Mutant: the lookup loop has no last attempt.
LookupForever(a) ==
  LET k == asker[a].key IN
  /\ asker[a].pc = "lookup"
  /\ ~HasRow(k)
  /\ asker' = [asker EXCEPT ![a].left = @ - 1]
  /\ UNCHANGED <<tables, cache, inFlight, retainer, builder, todo, ghosts>>

\* One attempt of the lookup loop; after the last the request is dropped.
Lookup(a) ==
  LET k == asker[a].key IN
  /\ asker[a].pc = "lookup"
  /\ \/ /\ HasRow(k)
        /\ asker' = [asker EXCEPT ![a] =
             [pc |-> IF rows[k].job.requested THEN "spawn" ELSE "mark", key |-> k,
              left |-> 0, job |-> [rows[k].job EXCEPT !.requested = TRUE]]]
     \/ /\ ~HasRow(k)
        /\ asker' = [asker EXCEPT ![a] =
             IF asker[a].left = 1 THEN IdleAsker ELSE [asker[a] EXCEPT !.left = @ - 1]]
     \/ StorageMayFail /\ asker' = [asker EXCEPT ![a] = IdleAsker]
  /\ UNCHANGED <<tables, cache, inFlight, retainer, builder, todo, ghosts>>

\* The row that makes the request durable; when it cannot be written the request
\* is dropped.
StoreRequest(a) ==
  \/ /\ Upsert(asker[a].key, asker[a].job)
     /\ promise' = [promise EXCEPT ![asker[a].key] = IF @ = "none" THEN "stored" ELSE @]
     /\ asker' = [asker EXCEPT ![a].pc = "spawn"]
  \/ /\ StorageMayFail
     /\ asker' = [asker EXCEPT ![a] = IdleAsker]
     /\ UNCHANGED <<tables, promise>>

\* The row becomes requested.
Mark(a) ==
  /\ asker[a].pc = "mark"
  /\ StoreRequest(a)
  /\ UNCHANGED <<cache, inFlight, retainer, builder, todo, retains, asks, crashes, asked>>

Spawn(a) ==
  /\ asker[a].pc = "spawn"
  /\ SpawnBuild(asker[a].key, asker[a].job)
  /\ asker' = [asker EXCEPT ![a] = IdleAsker]
  /\ UNCHANGED <<tables, cache, inFlight, retainer, todo, ghosts>>

\* handle_pcs_open_stream on a spill core: cache_open_call.
CacheOpenCall(k, h) ==
  /\ OpenCalls
  /\ cache' = [cache EXCEPT ![k] = h]
  /\ UNCHANGED <<tables, inFlight, retainer, asker, builder, todo, ghosts>>

\* handle_open_call_pcs_request: without a cached announce of the same hash the
\* request is dropped.
OpenRequest(a, k, h) ==
  /\ OpenCalls
  /\ asker[a].pc = "idle"
  /\ asks[k] < MaxAsk
  /\ asks' = [asks EXCEPT ![k] = @ + 1]
  /\ asked' = asked \cup {k}
  /\ IF cache[k] = h
     THEN asker' = [asker EXCEPT ![a] = [pc |-> "openStore", key |-> k, left |-> 0,
            job |-> [requested |-> TRUE, leaf |-> None, open |-> h]]]
     ELSE UNCHANGED asker
  /\ UNCHANGED <<tables, cache, inFlight, retainer, builder, todo, retains, crashes, promise>>

\* The new job replaces whatever row there was.
OpenStore(a) ==
  /\ asker[a].pc = "openStore"
  /\ StoreRequest(a)
  /\ UNCHANGED <<cache, inFlight, retainer, builder, todo, retains, asks, crashes, asked>>

-----------------------------------------------------------------------------
(* try_build_and_deliver                                                   *)

Goto(b, pc) == builder' = [builder EXCEPT ![b].pc = pc]

\* Mutant: an early return that skips release_inflight.
ReleaseNothing(b) ==
  /\ builder' = [builder EXCEPT ![b] = IdleBuilder]
  /\ UNCHANGED inFlight

\* Every way out of the claimed part: release_inflight.
Release(b) ==
  /\ builder' = [builder EXCEPT ![b] = IdleBuilder]
  /\ inFlight' = inFlight \ {builder[b].key}

\* Mutant: the result of insert is ignored.
ClaimAlways(b) ==
  /\ builder[b].pc = "claim"
  /\ inFlight' = inFlight \cup {builder[b].key}
  /\ Goto(b, IF builder[b].job.leaf # None THEN "send" ELSE "build")
  /\ UNCHANGED <<tables, cache, retainer, asker, todo, ghosts>>

\* claim_inflight: SkippedInFlight when another build has the key.
Claim(b) ==
  /\ builder[b].pc = "claim"
  /\ IF builder[b].key \in inFlight
     THEN builder' = [builder EXCEPT ![b] = IdleBuilder] /\ UNCHANGED inFlight
     ELSE /\ inFlight' = inFlight \cup {builder[b].key}
          /\ Goto(b, IF builder[b].job.leaf # None THEN "send" ELSE "build")
  /\ UNCHANGED <<tables, cache, retainer, asker, todo, ghosts>>

\* The proof comes back: from the CAS blob of an open call, else from the own one.
Build(b) ==
  /\ builder[b].pc = "build"
  /\ builder' = [builder EXCEPT ![b].pc = "store",
       ![b].job.leaf = IF builder[b].job.open # None THEN builder[b].job.open ELSE Own]
  /\ UNCHANGED <<tables, cache, inFlight, retainer, asker, todo, ghosts>>

\* Backoff, a core that is down, a CAS fetch or any other error that may pass.
BuildFails(b) ==
  /\ builder[b].pc = "build"
  /\ Release(b)
  /\ UNCHANGED <<tables, cache, retainer, asker, todo, ghosts>>

\* The memory gate, or a CAS hash mismatch of an open call.
BuildRefused(b) ==
  /\ builder[b].pc = "build"
  /\ Goto(b, "refuse")
  /\ UNCHANGED <<tables, cache, inFlight, retainer, asker, todo, ghosts>>

\* The built PCS is persisted before it is sent.
Store(b) ==
  /\ builder[b].pc = "store"
  /\ \/ /\ Upsert(builder[b].key, builder[b].job)
        /\ Goto(b, "send")
        /\ UNCHANGED inFlight
     \/ StorageMayFail /\ Release(b) /\ UNCHANGED tables
  /\ UNCHANGED <<cache, retainer, asker, todo, ghosts>>

\* send_pcs_wire returned Ok: the orchestrator acknowledged the PCS, or the refusal
\* report_permanent_refusal sends.
SendAcked(b) ==
  /\ builder[b].pc \in {"send", "refuse"}
  /\ promise' = [promise EXCEPT ![builder[b].key] = "answered"]
  /\ builder' = [builder EXCEPT ![b].pc = "delete", ![b].refused = (builder[b].pc = "refuse")]
  /\ UNCHANGED <<tables, cache, inFlight, retainer, asker, todo, retains, asks, crashes, asked>>

\* Mutant: the row is deleted whether or not the send was acknowledged.
SendFailsThenDelete(b) ==
  /\ builder[b].pc \in {"send", "refuse"}
  /\ Goto(b, "delete")
  /\ UNCHANGED <<tables, cache, inFlight, retainer, asker, todo, ghosts>>

SendFails(b) ==
  /\ builder[b].pc \in {"send", "refuse"}
  /\ Release(b)
  /\ UNCHANGED <<tables, cache, retainer, asker, todo, ghosts>>

\* delete_pending_pcs by key, whatever the row holds by now.
Delete(b) ==
  /\ builder[b].pc = "delete"
  /\ \/ /\ DeleteByKey(builder[b].key)
        /\ IF builder[b].refused \/ builder[b].job.open # None
           THEN Goto(b, "clear") /\ UNCHANGED inFlight
           ELSE Release(b)
     \/ StorageMayFail /\ Release(b) /\ UNCHANGED tables
  /\ UNCHANGED <<cache, retainer, asker, todo, ghosts>>

\* clear_cached_open_call
Clear(b) ==
  /\ builder[b].pc = "clear"
  /\ cache' = [cache EXCEPT ![builder[b].key] = None]
  /\ Release(b)
  /\ UNCHANGED <<tables, retainer, asker, todo, ghosts>>

-----------------------------------------------------------------------------
(* spawn_retry_loop and the environment                                    *)

\* list_pending_pcs: one pass works on a copy of the table.
LoopList ==
  /\ todo = {} /\ builder[Loop].pc = "idle"
  /\ todo' = {[key |-> k, row |-> rows[k]] : k \in {x \in SubTask : HasRow(x)}}
  /\ UNCHANGED <<tables, cache, inFlight, retainer, asker, builder, ghosts>>

\* An entry nobody asked for is deleted, by id, once it is past the TTL.
LoopSkip(e) ==
  /\ builder[Loop].pc = "idle"
  /\ ~e.row.job.requested
  /\ todo' = todo \ {e}
  /\ \/ e.row.late /\ DeleteById(e.row.id)
     \/ (~e.row.late \/ StorageMayFail) /\ UNCHANGED tables
  /\ UNCHANGED <<cache, inFlight, retainer, asker, builder, ghosts>>

\* A requested entry is built and delivered from the copy; the pass waits for it.
LoopRetry(e) ==
  /\ builder[Loop].pc = "idle"
  /\ e.row.job.requested
  /\ todo' = todo \ {e}
  /\ builder' = [builder EXCEPT
       ![Loop] = [pc |-> "claim", key |-> e.key, job |-> e.row.job, refused |-> FALSE]]
  /\ UNCHANGED <<tables, cache, inFlight, retainer, asker, ghosts>>

\* created_at of a row falls behind the TTL.
Expire(k) ==
  /\ TtlMayPass /\ HasRow(k) /\ ~rows[k].late
  /\ rows' = [rows EXCEPT ![k].late = TRUE]
  /\ UNCHANGED <<nextId, cache, inFlight, retainer, asker, builder, todo, ghosts>>

\* The process dies and starts again: only SQLite survives.
Crash ==
  /\ crashes < MaxCrash
  /\ crashes' = crashes + 1
  /\ cache' = [k \in SubTask |-> None]
  /\ inFlight' = {}
  /\ retainer' = [c \in Retainer |-> IdleRetainer]
  /\ asker' = [a \in Asker |-> IdleAsker]
  /\ builder' = [b \in Builder |-> IdleBuilder]
  /\ todo' = {}
  /\ UNCHANGED <<tables, retains, asks, asked, promise>>

-----------------------------------------------------------------------------
BuilderStep(b) ==
  \/ Claim(b) \/ Build(b) \/ BuildFails(b) \/ BuildRefused(b) \/ Store(b)
  \/ SendAcked(b) \/ SendFails(b) \/ Delete(b) \/ Clear(b)

LoopNext == \E e \in todo : LoopSkip(e) \/ LoopRetry(e)

Next ==
  \/ \E c \in Retainer : RetainPut(c) \/ \E k \in SubTask : RetainGet(c, k)
  \/ \E a \in Asker :
       \/ Lookup(a) \/ Mark(a) \/ OpenStore(a) \/ Spawn(a)
       \/ \E k \in SubTask : PcsRequest(a, k) \/ \E h \in Hash : OpenRequest(a, k, h)
  \/ \E k \in SubTask : Expire(k) \/ \E h \in Hash : CacheOpenCall(k, h)
  \/ \E b \in Builder : BuilderStep(b)
  \/ LoopList \/ LoopNext
  \/ Crash

Spec == Init /\ [][Next]_vars

\* Tokio runs every spawned task and the retry loop, which never ends; a core and an
\* orchestrator that are tried again and again answer at last.
Fairness ==
  /\ WF_vars(LoopList) /\ WF_vars(LoopNext)
  /\ \A b \in Builder :
       /\ WF_vars(BuilderStep(b))
       /\ SF_vars(Build(b) \/ BuildRefused(b))
       /\ SF_vars(SendAcked(b))

-----------------------------------------------------------------------------
(* Properties                                                              *)

Claimed(b) == builder[b].pc \notin {"idle", "claim"}

\* "Without this, the retry loop starts a second prove while the first is in flight":
\* a sub-task has at most one build past claim_inflight, over spawned builds, the
\* retry loop and crashes, and IN_FLIGHT holds exactly the keys that are being built.
InFlightExact ==
  /\ \A b, c \in Builder : Claimed(b) /\ Claimed(c) /\ b # c => builder[b].key # builder[c].key
  /\ inFlight = {builder[b].key : b \in {x \in Builder : Claimed(x)}}

\* "Proving is deliberately not started here": a core prove runs only for a sub-task
\* the orchestrator has asked this node for, though every delivered result leaves a
\* row and the retry loop sees them all.
ProveOnlyIfAsked == \A b \in Builder : builder[b].pc \in {"build", "store"} => builder[b].key \in asked

Requested(k) == HasRow(k) /\ rows[k].job.requested

\* "never drop a won request": a request this node has stored stays stored, as
\* requested, until a PCS or a refusal is acknowledged.
RequestKept == \A k \in SubTask : promise[k] = "stored" => Requested(k)

\* retain_after_result c writes what it read before the row was marked.
StaleRetain(c, k) ==
  /\ retainer[c].pc = "put" /\ retainer'[c].pc = "idle"
  /\ retainer[c].key = k /\ ~retainer[c].job.requested

\* The retry pass deletes, past the TTL, an entry it listed before the row was marked.
StaleExpiry(k) ==
  \E e \in todo \ todo' : e.key = k /\ e.row.late /\ ~e.row.job.requested

\* What RequestKept asks for fails in two ways only: a stored request loses its mark
\* before it is answered by the write of a retention, or the TTL delete of a retry
\* pass, that had read the row before.  No build, failed send, refusal, storage error,
\* other request, open call or crash loses it.
OnlyStaleCopiesDrop ==
  [][\A k \in SubTask : promise[k] = "stored" /\ Requested(k) =>
       \/ Requested(k)' \/ promise'[k] = "answered"
       \/ StaleExpiry(k) \/ \E c \in Retainer : StaleRetain(c, k)]_vars

\* A stored request is answered, with the PCS or with a refusal, whatever fails and
\* however often, as long as attempts succeed at last.
RequestAnswered == \A k \in SubTask : promise[k] = "stored" ~> promise[k] = "answered"

\* What is sent to the orchestrator is bound to the proof its job names, the CAS blob of
\* an open call or the node's own proof, however retention, open calls and retries
\* replaced the row meanwhile.
LeafFitsJob ==
  \A b \in Builder : builder[b].pc = "send" =>
    builder[b].job.leaf = IF builder[b].job.open # None THEN builder[b].job.open ELSE Own

=============================================================================
