-------------------------- MODULE WorkLedgerProofs --------------------------
(***************************************************************************)
(* Theorems about WorkLedger for every set of sub-tasks, every deadline,    *)
(* cost, margin and retention: core never computes past a deadline, no bid  *)
(* is placed on top of commitments that do not leave it time, and what was  *)
(* bid on is finished in time as long as the world keeps to the estimates.  *)
(***************************************************************************)
EXTENDS WorkLedger, FiniteSetTheorems, TLAPS

-----------------------------------------------------------------------------
(* Sums over finite sets                                                   *)

\* A set of subsets of a finite set has a smallest one: what fails somewhere
\* fails first somewhere.
LEMMA Smallest ==
  ASSUME NEW S, IsFiniteSet(S), NEW F, F \subseteq SUBSET S, F # {}
  PROVE  \E s \in F : \A t \in F : t \subseteq s => t = s
<1>1. F \subseteq FiniteSubsetsOf(S)
  BY FS_FiniteSubsetsOfFinite
<1>2. IsWellFoundedOn(StrictSubsetOrdering(S), FiniteSubsetsOf(S))
  BY FS_StrictSubsetOrderingWellFounded
<1>3. PICK s \in F : \A t \in F : ~(<<t, s>> \in StrictSubsetOrdering(S))
  BY <1>1, <1>2, WFMin
<1>4. \A t \in F : t \subseteq s /\ t # s => <<t, s>> \in StrictSubsetOrdering(S)
  BY DEF StrictSubsetOrdering
<1>5. \A t \in F : t \subseteq s => t = s
  BY <1>3, <1>4, Zenon
<1> QED BY <1>5, Zenon

Pick(s) == CHOOSE x \in s : TRUE

\* g adds up f over the subsets of S.
Adds(g, f, S) ==
  g = [s \in SUBSET S |-> IF s = {} THEN 0 ELSE f[Pick(s)] + g[s \ {Pick(s)}]]

Partial(f, S) == CHOOSE g : Adds(g, f, S)

LEMMA SumIsPartial ==
  ASSUME NEW f, NEW S
  PROVE  SumFunctionOnSet(f, S) = Partial(f, S)[S]
BY Zenon DEF SumFunctionOnSet, FoldFunctionOnSet, MapThenFoldSet, Partial, Adds, Pick

LEMMA Picked == \A s : s # {} => Pick(s) \in s
BY DEF Pick

LEMMA AddsAt ==
  ASSUME NEW f, NEW g, NEW S, Adds(g, f, S), NEW s \in SUBSET S
  PROVE  g[s] = IF s = {} THEN 0 ELSE f[Pick(s)] + g[s \ {Pick(s)}]
BY DEF Adds

\* Two functions that add up f agree wherever both are defined.
LEMMA AddsUnique ==
  ASSUME NEW f, NEW g, NEW h, NEW S, NEW T, IsFiniteSet(S), Adds(g, f, S), Adds(h, f, T),
         NEW s, s \subseteq S, s \subseteq T
  PROVE  g[s] = h[s]
<1> DEFINE F == {u \in SUBSET S : u \subseteq T /\ g[u] # h[u]}
<1> SUFFICES ASSUME F # {} PROVE FALSE
  OBVIOUS
<1>1. PICK u \in F : \A t \in F : t \subseteq u => t = u
  <2>1. F \subseteq SUBSET S
    OBVIOUS
  <2> HIDE DEF F
  <2> QED BY <2>1, Smallest
<1>2. /\ g[u] = IF u = {} THEN 0 ELSE f[Pick(u)] + g[u \ {Pick(u)}]
      /\ h[u] = IF u = {} THEN 0 ELSE f[Pick(u)] + h[u \ {Pick(u)}]
  BY AddsAt
<1>3. u # {} /\ Pick(u) \in u
  BY <1>2, Picked
<1>4. u \ {Pick(u)} \notin F
  BY <1>1, <1>3
<1>5. g[u \ {Pick(u)}] = h[u \ {Pick(u)}]
  BY <1>4
<1> QED BY <1>2, <1>3, <1>5

\* Such a function exists.
LEMMA AddsExists ==
  ASSUME NEW f, NEW S, IsFiniteSet(S)
  PROVE  Adds(Partial(f, S), f, S)
<1> DEFINE F == {s \in SUBSET S : ~ \E g : Adds(g, f, s)}
<1>1. CASE F = {}
  <2>1. \E g : Adds(g, f, S)
    BY <1>1
  <2> QED BY <2>1 DEF Partial
<1>2. CASE F # {}
  <2>1. PICK s \in F : \A t \in F : t \subseteq s => t = s
    <3>1. F \subseteq SUBSET S
      OBVIOUS
    <3> HIDE DEF F
    <3> QED BY <1>2, <3>1, Smallest
  <2> DEFINE Less(u) == u \ {Pick(u)}
             g == [u \in SUBSET s |-> IF u = {} THEN 0 ELSE f[Pick(u)] + Partial(f, Less(u))[Less(u)]]
  <2>2. ASSUME NEW t, t \subseteq s, t # s PROVE Adds(Partial(f, t), f, t)
    <3>1. t \in SUBSET S /\ t \notin F
      BY <2>1, <2>2
    <3>2. \E x : Adds(x, f, t)
      BY <3>1
    <3> QED BY <3>2 DEF Partial
  <2>3. ASSUME NEW u, u \subseteq s, u # {} PROVE g[Less(u)] = Partial(f, Less(u))[Less(u)]
    <3> DEFINE t == Less(u)
    <3>1. t \subseteq s /\ t # s /\ Less(t) \subseteq t
      BY <2>3, Picked
    <3>2. Adds(Partial(f, t), f, t) /\ Adds(Partial(f, Less(t)), f, Less(t))
      BY <2>2, <3>1
    <3>3. Partial(f, t)[t] = IF t = {} THEN 0 ELSE f[Pick(t)] + Partial(f, t)[Less(t)]
      <4>1. \A w : Adds(Partial(f, w), f, w) =>
                    Partial(f, w)[w] = IF w = {} THEN 0 ELSE f[Pick(w)] + Partial(f, w)[w \ {Pick(w)}]
        BY AddsAt
      <4> QED BY <3>2, <4>1
    <3>4. Partial(f, t)[Less(t)] = Partial(f, Less(t))[Less(t)]
      <4>1. IsFiniteSet(t)
        BY <2>1, <3>1, FS_Subset
      <4> QED BY <3>1, <3>2, <4>1, AddsUnique
    <3>5. g[t] = IF t = {} THEN 0 ELSE f[Pick(t)] + Partial(f, Less(t))[Less(t)]
      BY <3>1
    <3> QED BY <3>3, <3>4, <3>5
  <2>4. Adds(g, f, s)
    <3>1. \A u \in SUBSET s : u # {} => g[u \ {Pick(u)}] = Partial(f, Less(u))[Less(u)]
      BY <2>3
    <3>2. g = [u \in SUBSET s |-> IF u = {} THEN 0 ELSE f[Pick(u)] + g[u \ {Pick(u)}]]
      BY <3>1
    <3> QED BY <3>2 DEF Adds
  <2> HIDE DEF g
  <2> QED BY <2>1, <2>4
<1> QED BY <1>1, <1>2

\* Sums one element at a time, the one CHOOSE takes first.
LEMMA SumPicked ==
  ASSUME NEW f, NEW S, IsFiniteSet(S)
  PROVE  SumFunctionOnSet(f, S) =
           IF S = {} THEN 0 ELSE f[Pick(S)] + SumFunctionOnSet(f, S \ {Pick(S)})
<1> DEFINE T == S \ {Pick(S)}
<1>1. Adds(Partial(f, S), f, S) /\ Adds(Partial(f, T), f, T)
  BY AddsExists, FS_RemoveElement
<1>2. Partial(f, S)[S] = IF S = {} THEN 0 ELSE f[Pick(S)] + Partial(f, S)[T]
  BY <1>1, AddsAt
<1>3. Partial(f, S)[T] = Partial(f, T)[T]
  <2>1. T \subseteq S
    OBVIOUS
  <2> HIDE DEF T
  <2> QED BY <1>1, <2>1, AddsUnique
<1> QED BY <1>2, <1>3, SumIsPartial

LEMMA SumEmpty == ASSUME NEW f PROVE SumFunctionOnSet(f, {}) = 0
BY SumPicked, FS_EmptySet

\* A sum of naturals is one, and its order does not matter.
LEMMA SumOrder ==
  ASSUME NEW f, NEW S, IsFiniteSet(S), \A x \in S : f[x] \in Nat
  PROVE  /\ SumFunctionOnSet(f, S) \in Nat
         /\ \A x \in S : SumFunctionOnSet(f, S) = f[x] + SumFunctionOnSet(f, S \ {x})
<1> DEFINE Ok(s) == /\ SumFunctionOnSet(f, s) \in Nat
                    /\ \A x \in s : SumFunctionOnSet(f, s) = f[x] + SumFunctionOnSet(f, s \ {x})
           F == {s \in SUBSET S : ~Ok(s)}
<1> SUFFICES ASSUME F # {} PROVE FALSE
  OBVIOUS
<1>1. PICK s \in F : \A t \in F : t \subseteq s => t = s
  <2>1. F \subseteq SUBSET S
    OBVIOUS
  <2> HIDE DEF F
  <2> QED BY <2>1, Smallest
<1>2. \A t : t \subseteq s /\ t # s => Ok(t)
  <2>1. ASSUME NEW t, t \subseteq s, t # s PROVE Ok(t)
    <3>1. t \in SUBSET S /\ t \notin F
      BY <1>1, <2>1
    <3> QED BY <3>1
  <2> QED BY <2>1
<1> DEFINE p == Pick(s)
<1>3. SumFunctionOnSet(f, s) = IF s = {} THEN 0 ELSE f[p] + SumFunctionOnSet(f, s \ {p})
  <2>1. IsFiniteSet(s)
    BY <1>1, FS_Subset
  <2> QED BY <2>1, SumPicked
<1>4. s # {} /\ p \in s
  <2>1. s = {} => Ok(s)
    BY <1>3
  <2> QED BY <1>1, <2>1, Picked
<1>5. Ok(s \ {p}) /\ f[p] \in Nat
  BY <1>1, <1>2, <1>4
<1>6. SumFunctionOnSet(f, s) \in Nat
  BY <1>3, <1>4, <1>5
<1>7. ASSUME NEW x \in s PROVE SumFunctionOnSet(f, s) = f[x] + SumFunctionOnSet(f, s \ {x})
  <2>1. CASE x = p
    BY <1>3, <1>4, <2>1
  <2>2. CASE x # p
    <3>1. /\ x \in s \ {p} /\ p \in s \ {x}
          /\ (s \ {p}) \ {x} = (s \ {x}) \ {p}
      BY <1>4, <2>2
    <3>2. Ok(s \ {x}) /\ Ok((s \ {x}) \ {p})
      BY <1>2, <1>7, <3>1
    <3>3. SumFunctionOnSet(f, s \ {p}) = f[x] + SumFunctionOnSet(f, (s \ {p}) \ {x})
      BY <1>5, <3>1
    <3>4. SumFunctionOnSet(f, s \ {x}) = f[p] + SumFunctionOnSet(f, (s \ {x}) \ {p})
      BY <3>1, <3>2
    <3>5. f[x] \in Nat /\ SumFunctionOnSet(f, (s \ {x}) \ {p}) \in Nat
      BY <1>1, <3>2
    <3>6. SumFunctionOnSet(f, s) = f[p] + SumFunctionOnSet(f, s \ {p})
      BY <1>3, <1>4
    <3>7. SumFunctionOnSet(f, (s \ {p}) \ {x}) = SumFunctionOnSet(f, (s \ {x}) \ {p})
      BY <3>1, Zenon
    <3>8. f[p] \in Nat
      BY <1>5
    <3> HIDE DEF p
    <3> QED BY <3>3, <3>4, <3>5, <3>6, <3>7, <3>8
  <2> QED BY <2>1, <2>2
<1> QED BY <1>1, <1>6, <1>7

\* A sum does not exceed another into which it can be matched, term by term.
LEMMA SumMatched ==
  ASSUME NEW f, NEW S, IsFiniteSet(S), \A x \in S : f[x] \in Nat,
         NEW g, NEW T, IsFiniteSet(T), \A y \in T : g[y] \in Nat,
         NEW h, \A x \in S : h[x] \in T /\ f[x] <= g[h[x]],
         \A x, y \in S : h[x] = h[y] => x = y
  PROVE  SumFunctionOnSet(f, S) <= SumFunctionOnSet(g, T)
<1> DEFINE Ok(s) == \A t \in SUBSET T : {h[x] : x \in s} \subseteq t =>
                       SumFunctionOnSet(f, s) <= SumFunctionOnSet(g, t)
           F == {s \in SUBSET S : ~Ok(s)}
<1>1. \A x \in SUBSET S : IsFiniteSet(x)
  BY FS_Subset
<1>2. \A x \in SUBSET T : IsFiniteSet(x)
  BY FS_Subset
<1>3. CASE F # {}
  <2>1. PICK s \in F : \A t \in F : t \subseteq s => t = s
    <3>1. F \subseteq SUBSET S
      OBVIOUS
    <3> HIDE DEF F
    <3> QED BY <1>3, <3>1, Smallest
  <2>2. PICK t \in SUBSET T : /\ {h[x] : x \in s} \subseteq t
                              /\ ~(SumFunctionOnSet(f, s) <= SumFunctionOnSet(g, t))
    BY <2>1
  <2>3. SumFunctionOnSet(g, t) \in Nat
    BY <1>2, SumOrder
  <2>4. s # {}
    BY <2>2, <2>3, SumEmpty
  <2>5. PICK x \in s : TRUE
    BY <2>4
  <2>6. h[x] \in t /\ {h[y] : y \in s \ {x}} \subseteq t \ {h[x]}
    BY <2>1, <2>2
  <2>7. Ok(s \ {x})
    <3>1. s \ {x} \in SUBSET S /\ s \ {x} \notin F
      BY <2>1, <2>5
    <3> QED BY <3>1
  <2>8. SumFunctionOnSet(f, s \ {x}) <= SumFunctionOnSet(g, t \ {h[x]})
    BY <2>6, <2>7
  <2>9. /\ SumFunctionOnSet(f, s) = f[x] + SumFunctionOnSet(f, s \ {x})
        /\ SumFunctionOnSet(f, s \ {x}) \in Nat
    <3>1. s \ {x} \in SUBSET S /\ s \in SUBSET S
      BY <2>1
    <3> QED BY <1>1, <3>1, SumOrder
  <2>10. /\ SumFunctionOnSet(g, t) = g[h[x]] + SumFunctionOnSet(g, t \ {h[x]})
         /\ SumFunctionOnSet(g, t \ {h[x]}) \in Nat
    <3>1. t \ {h[x]} \in SUBSET T
      OBVIOUS
    <3> QED BY <1>2, <2>6, <3>1, SumOrder
  <2>11. f[x] \in Nat /\ g[h[x]] \in Nat /\ f[x] <= g[h[x]]
    BY <2>1
  <2> QED BY <2>2, <2>8, <2>9, <2>10, <2>11
<1>4. CASE F = {}
  <2>1. Ok(S) /\ {h[x] : x \in S} \subseteq T
    BY <1>4
  <2> QED BY <2>1
<1> QED BY <1>3, <1>4
-----------------------------------------------------------------------------
(* Deadlines                                                               *)

Row == [status : {"absent", "pending", "done"}, task : Task \cup {NoTask}]

Types ==
  /\ clock \in 0..MaxClock
  /\ announced \in [Parent -> 0..MaxClock \cup {Never}]
  /\ reserved \in [Parent -> 0..(MaxClock + ReservationTtl)]
  /\ held \in [SubTask -> Held]
  /\ rows \in [SubTask -> Row]
  /\ queue \in Seq(Task)
  /\ worker \in WorkerState
  /\ bids \in [Parent -> Bid]
  /\ crashes \in 0..MaxCrash

\* Accepted work was accepted in the past.
RowsPast == \A k \in SubTask :
  rows[k].status = "pending" => rows[k].task \in Task /\ rows[k].task.at <= clock
QueuePast == \A i \in 1..Len(queue) : queue[i].at <= clock

\* The running sub-task has used up neither the probe's timeout nor its own, which
\* counted from its start ends no later than its deadline.
WorkerInTime ==
  LET t == worker.task IN
  worker.busy =>
    /\ t \in Task
    /\ t.at <= worker.start /\ worker.start <= clock
    /\ t.budget /\ worker.timeout > 0 =>
         worker.start - t.at + worker.timeout <= Deadline[ParentOf[t.key]]
    /\ worker.phase = "probe" => clock - worker.start <= ProbeMax
    /\ worker.phase = "core" => /\ worker.timeout > 0
                                /\ worker.post <= clock /\ worker.post - worker.start <= ProbeMax
                                /\ clock - worker.post <= worker.timeout

LedgerInv == Types /\ RowsPast /\ QueuePast /\ WorkerInTime

LEMMA TaskFields ==
  \A t \in Task : t.key \in SubTask /\ t.budget \in BOOLEAN /\ t.at \in 0..MaxClock
BY DEF Task

\* compute_timeout never exceeds the node's own timeout, and what it gives ends
\* by the deadline.
LEMMA TimeoutBounded ==
  ASSUME Types, NEW task \in Task, task.at <= clock
  PROVE  /\ ComputeTimeout(task) \in 0..OwnTimeout
         /\ task.budget /\ ComputeTimeout(task) > 0 =>
              clock - task.at + ComputeTimeout(task) <= Deadline[ParentOf[task.key]]
<1>1. Deadline[ParentOf[task.key]] \in Nat /\ OwnTimeout \in Nat
  BY LedgerConstants, TaskFields
<1>2. clock \in Nat /\ task.at \in Nat
  BY LedgerConstants, TaskFields DEF Types
<1> QED BY <1>1, <1>2 DEF ComputeTimeout, MinOf

LEMMA InitLedger == Init => LedgerInv
<1> SUFFICES ASSUME Init PROVE LedgerInv
  OBVIOUS
<1>1. Types
  BY LedgerConstants DEF Init, Types, Row, Held, NotHeld, IdleWorker, WorkerState, NoBid, Bid, Never
<1>2. RowsPast /\ QueuePast /\ WorkerInTime
  BY DEF Init, RowsPast, QueuePast, WorkerInTime, IdleWorker
<1> QED BY <1>1, <1>2 DEF LedgerInv

LEMMA AnnounceLedger ==
  ASSUME LedgerInv, NEW p \in Parent, Announce(p)
  PROVE  LedgerInv'
<1> USE DEF LedgerInv
<1>1. UNCHANGED <<clock, held, rows, queue, worker, crashes>>
  BY DEF Announce
<1>2. LapsedDropped \in [Parent -> 0..(MaxClock + ReservationTtl)]
  BY LedgerConstants DEF LapsedDropped, Types
<1>3. clock + ReservationTtl \in 0..(MaxClock + ReservationTtl)
  BY LedgerConstants DEF Types
<1>4. Renewed(p) \in [Parent -> Bid]
  BY DEF Renewed, Types, Bid
<1>5. /\ announced' \in [Parent -> 0..MaxClock \cup {Never}]
      /\ reserved' \in [Parent -> 0..(MaxClock + ReservationTtl)]
      /\ bids' \in [Parent -> Bid]
  BY <1>2, <1>3, <1>4 DEF Announce, Types
<1> QED BY <1>1, <1>5 DEF Types, RowsPast, QueuePast, WorkerInTime

LEMMA AcceptLedger ==
  ASSUME LedgerInv, NEW k \in SubTask, Accept(k)
  PROVE  LedgerInv'
<1> USE DEF LedgerInv
<1> DEFINE p == ParentOf[k]
           task == [key |-> k, budget |-> announced[p] # Never, at |-> clock]
<1>1. p \in Parent /\ task \in Task /\ task.at = clock
  BY LedgerConstants DEF Types, Task
<1>2. Dispatched(p) \in [Parent -> Bid]
  BY <1>1 DEF Dispatched, Types, Bid, NoBid
<1>3. Hold(k, task.budget, held) \in [SubTask -> Held]
  BY <1>1, TaskFields DEF Hold, Types, Held
<1>4. /\ rows' = [rows EXCEPT ![k] = [status |-> "pending", task |-> task]]
      /\ reserved' = [reserved EXCEPT ![p] = 0]
      /\ queue' = Append(queue, task)
      /\ bids' = Dispatched(p) /\ held' = Hold(k, task.budget, held)
      /\ UNCHANGED <<clock, announced, worker, crashes>>
  BY DEF Accept
<1> HIDE DEF p, task
<1>5. rows' \in [SubTask -> Row] /\ reserved' \in [Parent -> 0..(MaxClock + ReservationTtl)]
  BY <1>1, <1>4, LedgerConstants DEF Types, Row
<1>6. Types'
  BY <1>1, <1>2, <1>3, <1>4, <1>5 DEF Types
<1>7. RowsPast'
  BY <1>1, <1>4 DEF RowsPast, Types
<1>8. QueuePast'
  <2>1. /\ Len(queue') = Len(queue) + 1 /\ Len(queue) \in Nat
        /\ \A i \in 1..Len(queue) : queue'[i] = queue[i]
        /\ queue'[Len(queue) + 1] = task
    BY <1>1, <1>4 DEF Types
  <2>2. \A i \in 1..Len(queue') : i = Len(queue) + 1 \/ i \in 1..Len(queue)
    BY <2>1
  <2> QED BY <1>1, <1>4, <2>1, <2>2 DEF QueuePast, Types
<1>9. WorkerInTime'
  BY <1>4 DEF WorkerInTime
<1> QED BY <1>6, <1>7, <1>8, <1>9

LEMMA RecvLedger ==
  ASSUME LedgerInv, WorkerRecv
  PROVE  LedgerInv'
<1> USE DEF LedgerInv
<1> DEFINE task == Head(queue)
<1>1. /\ task = queue[1] /\ task \in Task /\ 1 \in 1..Len(queue)
      /\ Tail(queue) \in Seq(Task) /\ Len(Tail(queue)) = Len(queue) - 1 /\ Len(queue) \in Nat
      /\ \A i \in 1..Len(Tail(queue)) : Tail(queue)[i] = queue[i + 1]
  BY DEF WorkerRecv, Types
<1>2. task.at <= clock /\ task.key \in SubTask
  BY <1>1, TaskFields DEF QueuePast
<1>3. /\ worker' = [busy |-> TRUE, task |-> task, start |-> clock, timeout |-> ComputeTimeout(task),
                    post |-> 0, phase |-> "probe"]
      /\ queue' = Tail(queue)
      /\ UNCHANGED <<clock, announced, reserved, rows, bids, crashes>>
      /\ held' = [held EXCEPT ![task.key].started = IF held[task.key].in THEN clock ELSE @]
  BY DEF WorkerRecv
<1> HIDE DEF task
<1>4. held' \in [SubTask -> Held]
  <2>1. held[task.key] \in Held
    BY <1>2 DEF Types
  <2>2. \A t \in 0..MaxClock \cup {Never} : [held[task.key] EXCEPT !.started = t] \in Held
    BY <2>1 DEF Held
  <2>3. held' = [held EXCEPT ![task.key] =
                   [held[task.key] EXCEPT !.started = IF held[task.key].in THEN clock ELSE held[task.key].started]]
    BY <1>3
  <2>4. (IF held[task.key].in THEN clock ELSE held[task.key].started) \in 0..MaxClock \cup {Never}
    BY <2>1 DEF Held, Types
  <2> QED BY <2>2, <2>3, <2>4 DEF Types
<1>5. Types'
  <2>1. 0 \in 0..MaxClock /\ clock \in 0..MaxClock /\ ComputeTimeout(task) \in 0..OwnTimeout
    BY <1>1, <1>2, TimeoutBounded, LedgerConstants DEF Types
  <2>2. worker' \in WorkerState
    BY <1>1, <1>3, <2>1 DEF WorkerState
  <2> QED BY <1>1, <1>3, <1>4, <2>2 DEF Types
<1>6. RowsPast'
  BY <1>3 DEF RowsPast
<1>7. QueuePast'
  BY <1>1, <1>3 DEF QueuePast, Types
<1>8. WorkerInTime'
  <2>1. clock \in Int /\ clock - clock = 0 /\ ComputeTimeout(task) \in 0..OwnTimeout
    BY <1>1, <1>2, TimeoutBounded DEF Types
  <2> QED BY <1>1, <1>2, <1>3, <2>1, TimeoutBounded, LedgerConstants DEF WorkerInTime
<1> QED BY <1>5, <1>6, <1>7, <1>8

\* The worker moves on with its sub-task.
LEMMA PostLedger ==
  ASSUME LedgerInv, WorkerPost
  PROVE  LedgerInv'
<1> USE DEF LedgerInv
<1>1. /\ UNCHANGED <<clock, announced, reserved, held, rows, queue, bids, crashes>>
      /\ worker.busy /\ worker.phase = "probe" /\ worker.timeout > 0
      /\ worker' = [worker EXCEPT !.phase = "core", !.post = clock]
  BY DEF WorkerPost, ledger
<1>2. /\ worker' \in WorkerState /\ worker'.phase = "core" /\ worker'.post = clock /\ worker'.busy
      /\ worker'.task = worker.task /\ worker'.start = worker.start /\ worker'.timeout = worker.timeout
  BY <1>1 DEF Types, WorkerState
<1>3. clock \in Nat /\ worker.timeout \in Nat /\ clock - clock = 0
  BY LedgerConstants DEF Types, WorkerState
<1>4. WorkerInTime'
  BY <1>1, <1>2, <1>3 DEF WorkerInTime
<1> QED BY <1>1, <1>2, <1>4 DEF Types, RowsPast, QueuePast

LEMMA AnswerLedger ==
  ASSUME LedgerInv, WorkerAnswer
  PROVE  LedgerInv'
<1> USE DEF LedgerInv
<1>1. PICK k \in SubTask : k = worker.task.key
  BY TaskFields DEF WorkerAnswer, WorkerInTime
<1>2. /\ rows' = [rows EXCEPT ![k] = [rows[k] EXCEPT !.status = "done"]]
      /\ worker' = [worker EXCEPT !.phase = "deliver", !.post = 0]
      /\ UNCHANGED <<clock, announced, reserved, held, queue, bids, crashes>>
  BY <1>1 DEF WorkerAnswer, ledger
<1>3. LET r == [rows[k] EXCEPT !.status = "done"] IN r \in Row /\ r.task = rows[k].task /\ r.status = "done"
  BY DEF Types, Row
<1>4. /\ worker' \in WorkerState /\ worker'.phase = "deliver" /\ worker'.busy = worker.busy
      /\ worker'.task = worker.task /\ worker'.start = worker.start /\ worker'.timeout = worker.timeout
  <2>1. 0 \in 0..MaxClock
    BY LedgerConstants
  <2> QED BY <1>2, <2>1 DEF Types, WorkerState
<1>5. Types'
  BY <1>2, <1>3, <1>4 DEF Types
<1>6. RowsPast'
  BY <1>2, <1>3 DEF RowsPast, Types
<1>7. QueuePast' /\ WorkerInTime'
  BY <1>2, <1>4 DEF QueuePast, WorkerInTime
<1> QED BY <1>5, <1>6, <1>7

LEMMA FinishLedger ==
  ASSUME LedgerInv, WorkerFinish
  PROVE  LedgerInv'
<1> USE DEF LedgerInv
<1>1. PICK k \in SubTask : k = worker.task.key
  BY TaskFields DEF WorkerFinish, WorkerInTime
<1>2. /\ held' = [held EXCEPT ![k] = NotHeld]
      /\ worker' = IdleWorker
      /\ UNCHANGED <<clock, announced, reserved, rows, queue, bids, crashes>>
  BY <1>1 DEF WorkerFinish
<1>3. NotHeld \in Held
  BY DEF NotHeld, Held
<1>4. worker' \in WorkerState
  BY <1>2, LedgerConstants DEF IdleWorker, WorkerState
<1>5. Types'
  BY <1>2, <1>3, <1>4 DEF Types
<1>6. RowsPast' /\ QueuePast' /\ WorkerInTime'
  BY <1>2 DEF RowsPast, QueuePast, WorkerInTime, IdleWorker
<1> QED BY <1>5, <1>6

LEMMA TickLedger ==
  ASSUME LedgerInv, Tick
  PROVE  LedgerInv'
<1> USE DEF LedgerInv
<1>1. /\ clock' = clock + 1 /\ clock < MaxClock
      /\ MayWait
      /\ UNCHANGED <<announced, reserved, held, rows, queue, worker, bids, crashes>>
  BY DEF Tick, ledger
<1>2. Types'
  BY <1>1, LedgerConstants DEF Types
<1>3. RowsPast'
  BY <1>1, TaskFields DEF RowsPast, Types
<1>4. QueuePast'
  <2>1. \A i \in 1..Len(queue) : queue[i].at \in 0..MaxClock
    BY TaskFields DEF Types
  <2> QED BY <1>1, <2>1 DEF QueuePast, Types
<1>5. WorkerInTime'
  <2>1. /\ clock \in Int /\ worker.start \in Int /\ worker.post \in Int /\ worker.timeout \in Int
        /\ ProbeMax \in Int
    BY LedgerConstants DEF Types, WorkerState
  <2> QED BY <1>1, <2>1 DEF WorkerInTime, MayWait
<1> QED BY <1>2, <1>3, <1>4, <1>5

\* get_pending_tasks returns the pending rows.
LEMMA RestartLedger ==
  ASSUME LedgerInv, Restart
  PROVE  LedgerInv'
<1> USE DEF LedgerInv
<1> DEFINE pending == {k \in SubTask : rows[k].status = "pending"}
           S == {rows[k].task : k \in pending}
<1>1. /\ UNCHANGED <<clock, rows>> /\ crashes < MaxCrash /\ crashes' = crashes + 1
      /\ announced' = [p \in Parent |-> Never] /\ reserved' = [p \in Parent |-> 0]
      /\ held' = [k \in SubTask |-> IF k \in pending
                                    THEN [in |-> TRUE, budget |-> rows[k].task.budget, started |-> Never]
                                    ELSE NotHeld]
      /\ queue' \in ByAge(S)
      /\ worker' = IdleWorker /\ bids' = [p \in Parent |-> NoBid]
  BY DEF Restart
<1>2. \A t \in S : t \in Task /\ t.at <= clock
  BY DEF RowsPast
<1>3. Cardinality(S) \in Nat
  <2>1. IsFiniteSet(pending)
    BY LedgerConstants, FS_Subset
  <2>2. [k \in pending |-> rows[k].task] \in Surjection(pending, S)
    BY DEF Surjection
  <2>3. IsFiniteSet(S)
    BY <2>1, <2>2, FS_Surjection
  <2> QED BY <2>3, FS_CardinalityType
<1>4. queue' \in [1..Cardinality(S) -> S]
  BY <1>1 DEF ByAge
<1>5. held' \in [SubTask -> Held]
  <2>1. \A k \in pending : rows[k].task.budget \in BOOLEAN
    BY TaskFields DEF RowsPast
  <2>2. \A k \in pending : [in |-> TRUE, budget |-> rows[k].task.budget, started |-> Never] \in Held
    BY <2>1 DEF Held
  <2>3. NotHeld \in Held
    BY DEF NotHeld, Held
  <2> QED BY <1>1, <2>2, <2>3
<1> HIDE DEF S, pending
<1>6. queue' \in Seq(Task) /\ \A i \in 1..Len(queue') : queue'[i] \in S
  <2>1. queue' \in Seq(S) /\ Len(queue') = Cardinality(S)
    BY <1>3, <1>4
  <2> QED BY <1>2, <1>4, <2>1
<1>7. Types'
  BY <1>1, <1>5, <1>6, LedgerConstants DEF Types, IdleWorker, WorkerState, NoBid, Bid
<1>8. RowsPast' /\ QueuePast' /\ WorkerInTime'
  BY <1>1, <1>2, <1>6 DEF RowsPast, QueuePast, WorkerInTime, IdleWorker
<1> QED BY <1>7, <1>8

LEMMA LedgerInductive == Spec => []LedgerInv
<1>1. ASSUME LedgerInv, [Next]_vars PROVE LedgerInv'
  <2>1. CASE UNCHANGED vars
    BY <1>1, <2>1 DEF vars, ledger, LedgerInv, Types, RowsPast, QueuePast, WorkerInTime
  <2> QED BY <1>1, <2>1, AnnounceLedger, AcceptLedger, RecvLedger, PostLedger, AnswerLedger, FinishLedger,
             TickLedger, RestartLedger
          DEF Next
<1> QED BY <1>1, InitLedger, PTL DEF Spec

\* The ledger, the rows, the queue and the worker keep their types.
THEOREM LedgerTypeCorrect == Spec => []TypeOK
<1> DEFINE Flag == punctual \in BOOLEAN
<1>1. LedgerInv /\ Flag => TypeOK
  BY DEF LedgerInv, Types, Row, TypeOK
<1>2. Init => Flag
  BY DEF Init
<1>3. Flag /\ [Next]_vars => Flag'
  BY DEF Next, Announce, Accept, WorkerRecv, WorkerPost, WorkerAnswer, WorkerFinish, Tick, Restart, vars
<1> QED BY <1>1, <1>2, <1>3, LedgerInductive, PTL DEF Spec

\* No sub-task whose deadline has passed is sent to core, and the node stops waiting
\* for core at its own timeout and no later after the deadline, which runs from the
\* acceptance, than the health probe's timeout: for every deadline, however long the
\* sub-task waited and however often the node was restarted.
THEOREM DeadlinesRespected == Spec => []DeadlineRespected
<1>1. ASSUME LedgerInv, Computing
      PROVE  /\ clock - worker.post <= OwnTimeout
             /\ worker.task.budget =>
                  /\ worker.start - worker.task.at < Deadline[ParentOf[worker.task.key]]
                  /\ clock - worker.task.at <= Deadline[ParentOf[worker.task.key]] + ProbeMax
  <2>1. /\ worker.task \in Task /\ clock - worker.post <= worker.timeout
        /\ worker.post - worker.start <= ProbeMax
        /\ worker.timeout \in 0..OwnTimeout /\ worker.timeout > 0
        /\ worker.task.budget =>
             worker.start - worker.task.at + worker.timeout <= Deadline[ParentOf[worker.task.key]]
        /\ clock \in Int /\ worker.start \in Int /\ worker.post \in Int
    BY <1>1 DEF LedgerInv, Types, WorkerState, WorkerInTime, Computing
  <2>2. /\ worker.task.at \in Int /\ Deadline[ParentOf[worker.task.key]] \in Int
        /\ OwnTimeout \in Int /\ ProbeMax \in Int
    BY <2>1, TaskFields, LedgerConstants
  <2> QED BY <2>1, <2>2
<1>2. LedgerInv => DeadlineRespected
  BY <1>1 DEF DeadlineRespected
<1> QED BY <1>2, LedgerInductive, PTL

-----------------------------------------------------------------------------
(* The queue and the ledger                                                *)

\* The ledger's entry for a sub-task: its budget and when it was started.
HeldAs(h, budget, at) == h.in /\ h.budget = budget /\ h.started = at

\* What is queued is pending, what the worker has was, and both are held for what
\* they are.
QueueHeld ==
  /\ \A i \in 1..Len(queue) :
       /\ rows[queue[i].key].status = "pending"
       /\ HeldAs(held[queue[i].key], queue[i].budget, Never)
  /\ \A i, j \in 1..Len(queue) : queue[i].key = queue[j].key => i = j

WorkerHeld ==
  LET t == worker.task IN
  worker.busy =>
    /\ rows[t.key].status # "absent"
    /\ HeldAs(held[t.key], t.budget, worker.start)
    /\ \A i \in 1..Len(queue) : queue[i].key # t.key

RowsKeyed == \A k \in SubTask : rows[k].status = "pending" => rows[k].task.key = k

HeldInv == LedgerInv /\ RowsKeyed /\ QueueHeld /\ WorkerHeld


LEMMA InitHeld == Init => HeldInv
BY InitLedger DEF Init, HeldInv, RowsKeyed, QueueHeld, WorkerHeld, IdleWorker

LEMMA AcceptHeld ==
  ASSUME HeldInv, NEW k \in SubTask, Accept(k)
  PROVE  HeldInv'
<1> USE DEF HeldInv, LedgerInv
<1> DEFINE task == [key |-> k, budget |-> announced[ParentOf[k]] # Never, at |-> clock]
<1>1. /\ rows[k].status = "absent"
      /\ rows' = [rows EXCEPT ![k] = [status |-> "pending", task |-> task]]
      /\ queue' = Append(queue, task)
      /\ held' = [held EXCEPT ![k] = [in |-> TRUE, budget |-> task.budget, started |-> Never]]
      /\ worker' = worker
  BY DEF Accept, Hold
<1>2. task.key = k /\ task \in Task
  BY LedgerConstants DEF Types, Task
<1> HIDE DEF task
<1>3. /\ Len(queue') = Len(queue) + 1 /\ Len(queue) \in Nat
      /\ \A i \in 1..Len(queue) : queue'[i] = queue[i] /\ queue[i].key \in SubTask /\ queue[i].key # k
      /\ queue'[Len(queue) + 1] = task
      /\ \A i \in 1..Len(queue') : i = Len(queue) + 1 \/ i \in 1..Len(queue)
  <2>1. \A i \in 1..Len(queue) : queue[i].key \in SubTask /\ queue[i].key # k
    <3>1. \A i \in 1..Len(queue) : queue[i] \in Task
      BY DEF Types
    <3>2. \A i \in 1..Len(queue) : rows[queue[i].key].status # rows[k].status
      BY <1>1 DEF QueueHeld
    <3> QED BY <3>1, <3>2, TaskFields
  <2>2. /\ Len(queue') = Len(queue) + 1 /\ Len(queue) \in Nat
        /\ \A i \in 1..Len(queue) : queue'[i] = queue[i]
        /\ queue'[Len(queue) + 1] = task
    BY <1>1, <1>2 DEF Types
  <2> QED BY <2>1, <2>2
<1>4. LedgerInv'
  BY AcceptLedger
<1>5. RowsKeyed'
  BY <1>1, <1>2 DEF RowsKeyed, Types
<1>6. QueueHeld'
  <2>1. /\ \A x \in SubTask : x # k => rows'[x] = rows[x] /\ held'[x] = held[x]
        /\ rows'[k].status = "pending"
        /\ HeldAs(held'[k], task.budget, Never)
    BY <1>1 DEF Types, HeldAs
  <2>2. ASSUME NEW i \in 1..Len(queue')
        PROVE  /\ rows'[queue'[i].key].status = "pending"
               /\ HeldAs(held'[queue'[i].key], queue'[i].budget, Never)
    <3>1. CASE i = Len(queue) + 1
      BY <1>2, <1>3, <2>1, <3>1 DEF HeldAs
    <3>2. CASE i \in 1..Len(queue)
      <4>1. queue'[i] = queue[i] /\ queue[i].key \in SubTask /\ queue[i].key # k
        BY <1>3, <3>2
      <4> QED BY <2>1, <3>2, <4>1 DEF QueueHeld, HeldAs
    <3> QED BY <1>3, <3>1, <3>2
  <2>3. ASSUME NEW i \in 1..Len(queue'), NEW j \in 1..Len(queue'), queue'[i].key = queue'[j].key
        PROVE  i = j
    BY <1>2, <1>3, <2>3 DEF QueueHeld
  <2> QED BY <2>2, <2>3 DEF QueueHeld
<1>7. WorkerHeld'
  <2>1. worker.busy => worker.task.key \in SubTask /\ worker.task.key # k
    BY <1>1, TaskFields DEF WorkerHeld, WorkerInTime
  <2> QED BY <1>1, <1>2, <1>3, <2>1 DEF WorkerHeld, HeldAs, Types
<1> QED BY <1>4, <1>5, <1>6, <1>7

LEMMA RecvHeld ==
  ASSUME HeldInv, WorkerRecv
  PROVE  HeldInv'
<1> USE DEF HeldInv, LedgerInv
<1> DEFINE task == Head(queue)
<1>1. /\ task = queue[1] /\ task \in Task /\ 1 \in 1..Len(queue)
      /\ Len(Tail(queue)) = Len(queue) - 1 /\ Len(queue) \in Nat
      /\ \A i \in 1..Len(Tail(queue)) : Tail(queue)[i] = queue[i + 1] /\ i + 1 \in 1..Len(queue)
  BY DEF WorkerRecv, Types
<1>2. /\ worker'.busy /\ worker'.task = task /\ worker'.start = clock
      /\ queue' = Tail(queue) /\ rows' = rows
      /\ held' = [held EXCEPT ![task.key].started = IF held[task.key].in THEN clock ELSE @]
  BY DEF WorkerRecv
<1> HIDE DEF task
<1>3. task.key \in SubTask
  BY <1>1, TaskFields
<1>4. /\ \A x \in SubTask : x # task.key => held'[x] = held[x]
      /\ HeldAs(held'[task.key], task.budget, clock)
  <2>1. HeldAs(held[task.key], task.budget, Never) /\ held[task.key] \in Held
    BY <1>1, <1>3 DEF QueueHeld, Types
  <2>2. held' = [held EXCEPT ![task.key] = [held[task.key] EXCEPT !.started = clock]]
    BY <1>2, <2>1 DEF HeldAs
  <2>3. LET r == [held[task.key] EXCEPT !.started = clock]
        IN  HeldAs(r, task.budget, clock)
    BY <2>1 DEF HeldAs, Held
  <2> QED BY <1>3, <2>2, <2>3 DEF Types
<1>5. \A i \in 1..Len(queue') : /\ queue'[i] = queue[i + 1] /\ i + 1 \in 1..Len(queue)
                                /\ queue'[i].key # task.key /\ queue'[i].key \in SubTask
  <2>1. \A i \in 1..Len(queue') : i + 1 # 1
    BY <1>1, <1>2
  <2>2. \A i \in 1..Len(queue) : queue[i].key \in SubTask
    BY TaskFields DEF Types
  <2>3. \A i \in 1..Len(queue') : queue'[i] = queue[i + 1] /\ i + 1 \in 1..Len(queue)
    BY <1>1, <1>2
  <2>4. \A i \in 1..Len(queue) : i # 1 => queue[i].key # task.key
    BY <1>1 DEF QueueHeld
  <2> QED BY <2>1, <2>2, <2>3, <2>4
<1>6. LedgerInv' /\ RowsKeyed'
  BY <1>2, RecvLedger DEF RowsKeyed
<1>7. QueueHeld'
  <2>1. \A i \in 1..Len(queue') : /\ rows'[queue'[i].key].status = "pending"
                                  /\ HeldAs(held'[queue'[i].key], queue'[i].budget, Never)
    BY <1>2, <1>4, <1>5 DEF QueueHeld, HeldAs
  <2>2. ASSUME NEW i \in 1..Len(queue'), NEW j \in 1..Len(queue'), queue'[i].key = queue'[j].key
        PROVE  i = j
    <3>1. i + 1 = j + 1
      BY <1>5, <2>2 DEF QueueHeld
    <3> QED BY <3>1
  <2> QED BY <2>1, <2>2 DEF QueueHeld
<1>8. WorkerHeld'
  <2>1. rows'[task.key].status = "pending"
    BY <1>1, <1>2 DEF QueueHeld
  <2> QED BY <1>2, <1>4, <1>5, <2>1 DEF WorkerHeld
<1> QED BY <1>6, <1>7, <1>8

LEMMA PostHeld ==
  ASSUME HeldInv, WorkerPost
  PROVE  HeldInv'
<1> USE DEF HeldInv, LedgerInv
<1>1. /\ UNCHANGED <<held, rows, queue>> /\ worker'.busy = worker.busy
      /\ worker'.task = worker.task /\ worker'.start = worker.start
  BY DEF WorkerPost, ledger, Types, WorkerState
<1> QED BY <1>1, PostLedger DEF RowsKeyed, QueueHeld, WorkerHeld, HeldAs

LEMMA AnswerHeld ==
  ASSUME HeldInv, WorkerAnswer
  PROVE  HeldInv'
<1> USE DEF HeldInv, LedgerInv
<1>1. PICK k \in SubTask : k = worker.task.key
  BY TaskFields DEF WorkerAnswer, WorkerInTime
<1>2. /\ rows' = [rows EXCEPT ![k] = [rows[k] EXCEPT !.status = "done"]]
      /\ UNCHANGED <<held, queue>> /\ worker.busy /\ worker'.busy
      /\ worker'.task = worker.task /\ worker'.start = worker.start
  BY <1>1 DEF WorkerAnswer, ledger, Types, WorkerState
<1>3. (\A x \in SubTask : x # k => rows'[x] = rows[x]) /\ rows'[k].status = "done"
  BY <1>2 DEF Types, Row
<1>4. \A i \in 1..Len(queue) : queue[i].key \in SubTask /\ queue[i].key # k
  BY <1>1, <1>2, TaskFields DEF WorkerHeld, Types
<1>5. RowsKeyed' /\ QueueHeld' /\ WorkerHeld'
  BY <1>1, <1>2, <1>3, <1>4 DEF RowsKeyed, QueueHeld, WorkerHeld, HeldAs
<1> QED BY <1>5, AnswerLedger

LEMMA FinishHeld ==
  ASSUME HeldInv, WorkerFinish
  PROVE  HeldInv'
<1> USE DEF HeldInv, LedgerInv
<1>1. PICK k \in SubTask : k = worker.task.key
  BY TaskFields DEF WorkerFinish, WorkerInTime
<1>2. /\ held' = [held EXCEPT ![k] = NotHeld]
      /\ worker' = IdleWorker /\ worker.busy /\ UNCHANGED <<rows, queue>>
  BY <1>1 DEF WorkerFinish
<1>3. \A x \in SubTask : x # k => held'[x] = held[x]
  BY <1>2 DEF Types
<1>4. \A i \in 1..Len(queue) : queue[i].key \in SubTask /\ queue[i].key # k
  BY <1>1, <1>2, TaskFields DEF WorkerHeld, Types
<1>5. RowsKeyed' /\ QueueHeld' /\ WorkerHeld'
  BY <1>2, <1>3, <1>4 DEF RowsKeyed, QueueHeld, WorkerHeld, HeldAs, IdleWorker
<1> QED BY <1>5, FinishLedger

LEMMA RestartHeld ==
  ASSUME HeldInv, Restart
  PROVE  HeldInv'
<1> USE DEF HeldInv, LedgerInv
<1> DEFINE pending == {k \in SubTask : rows[k].status = "pending"}
           S == {rows[k].task : k \in pending}
<1>1. /\ rows' = rows /\ worker' = IdleWorker
      /\ held' = [k \in SubTask |-> IF k \in pending
                                    THEN [in |-> TRUE, budget |-> rows[k].task.budget, started |-> Never]
                                    ELSE NotHeld]
      /\ queue' \in ByAge(S)
  BY DEF Restart
<1>2. LedgerInv'
  BY RestartLedger
<1>3. \A t \in S : t.key \in pending /\ t = rows[t.key].task
  BY DEF RowsKeyed
<1>4. /\ \A i \in 1..Len(queue') : queue'[i] \in S
      /\ \A i, j \in 1..Len(queue') : i < j => queue'[i] # queue'[j]
  <2>1. /\ queue' \in [1..Cardinality(S) -> S]
        /\ \A i, j \in 1..Cardinality(S) : i < j => queue'[i] # queue'[j]
    BY <1>1 DEF ByAge
  <2>2. queue' \in Seq(Task)
    BY <1>2 DEF Types
  <2>3. 1..Len(queue') = 1..Cardinality(S)
    BY <2>1, <2>2
  <2> QED BY <2>1, <2>3
<1> HIDE DEF S
<1>5. \A i, j \in 1..Len(queue') : queue'[i].key = queue'[j].key => i = j
  <2>1. ASSUME NEW i \in 1..Len(queue'), NEW j \in 1..Len(queue'), queue'[i].key = queue'[j].key
        PROVE  i = j
    <3>1. queue'[i] = queue'[j]
      BY <1>3, <1>4, <2>1
    <3>2. ~(i < j) /\ ~(j < i)
      BY <1>4, <3>1
    <3>3. Len(queue') \in Nat
      BY <1>2 DEF Types
    <3> QED BY <3>2, <3>3
  <2> QED BY <2>1
<1>6. QueueHeld'
  BY <1>1, <1>3, <1>4, <1>5 DEF QueueHeld, HeldAs
<1>7. RowsKeyed' /\ WorkerHeld'
  BY <1>1 DEF RowsKeyed, WorkerHeld, IdleWorker
<1> QED BY <1>2, <1>6, <1>7

LEMMA HeldInductive == Spec => []HeldInv
<1>1. ASSUME HeldInv, [Next]_vars PROVE HeldInv'
  <2>1. CASE UNCHANGED vars \/ Tick \/ \E p \in Parent : Announce(p)
    <3>1. UNCHANGED <<held, rows, queue, worker>>
      BY <2>1 DEF vars, ledger, Tick, Announce
    <3>2. LedgerInv'
      <4>1. CASE UNCHANGED vars
        BY <1>1, <4>1 DEF vars, ledger, HeldInv, LedgerInv, Types, RowsPast, QueuePast, WorkerInTime
      <4> QED BY <1>1, <2>1, <4>1, TickLedger, AnnounceLedger DEF HeldInv
    <3> QED BY <1>1, <3>1, <3>2 DEF HeldInv, RowsKeyed, QueueHeld, WorkerHeld, HeldAs
  <2> QED BY <1>1, <2>1, AcceptHeld, RecvHeld, PostHeld, AnswerHeld, FinishHeld, RestartHeld DEF Next
<1> QED BY <1>1, InitHeld, PTL DEF Spec

-----------------------------------------------------------------------------
(* The ledger counts what the node is committed to                         *)

\* The sub-tasks on their way, and what each of them still takes.
Underway == {queue[i].key : i \in 1..Len(queue)} \cup (IF worker.busy THEN {worker.task.key} ELSE {})
Load == [k \in SubTask |-> IF worker.busy /\ k = worker.task.key THEN Remaining(worker.task)
                                                              ELSE Expected(k, held[k].budget)]

LEMMA CostTypes ==
  /\ \A k \in SubTask : ParentOf[k] \in Parent
  /\ \A p \in Parent : Cost[p] \in Nat /\ Deadline[p] \in Nat
  /\ \A k \in SubTask : \A b \in BOOLEAN : Expected(k, b) \in Nat
BY LedgerConstants DEF Expected

\* HeldSecs is never less than what the sub-task still takes.
LEMMA HeldEnough ==
  ASSUME HeldInv, NEW k \in Underway
  PROVE  k \in SubTask /\ held[k].in /\ Load[k] \in Nat /\ HeldSecs(k) \in Nat /\ Load[k] <= HeldSecs(k)
<1> USE DEF HeldInv, LedgerInv
<1>1. CASE worker.busy /\ k = worker.task.key
  <2>1. /\ k \in SubTask /\ worker.task.budget \in BOOLEAN
        /\ worker.start \in 0..MaxClock /\ worker.start <= clock /\ clock \in 0..MaxClock
        /\ worker.start # Never
    BY <1>1, TaskFields, LedgerConstants DEF WorkerInTime, Types, WorkerState, Never
  <2>2. held[k].in /\ held[k].budget = worker.task.budget /\ held[k].started = worker.start
    BY <1>1 DEF WorkerHeld, HeldAs
  <2> DEFINE e == Expected(k, worker.task.budget)
             left == e - (clock - worker.start)
  <2>3. e \in Nat /\ Cost[ParentOf[k]] \in Nat /\ (worker.task.budget => e = Cost[ParentOf[k]])
    BY <2>1, CostTypes DEF Expected
  <2>4. Load[k] = IF left > 0 THEN left ELSE 0
    BY <1>1, <2>1 DEF Load, Remaining
  <2>5. HeldSecs(k) = IF worker.task.budget /\ left > 0 THEN left ELSE e
    BY <2>1, <2>2, <2>3 DEF HeldSecs
  <2> HIDE DEF e
  <2>6. left \in Int /\ left <= e
    BY <2>1, <2>3
  <2> HIDE DEF left
  <2> QED BY <2>1, <2>2, <2>3, <2>4, <2>5, <2>6
<1>2. CASE ~(worker.busy /\ k = worker.task.key)
  <2>1. PICK i \in 1..Len(queue) : k = queue[i].key
    BY <1>2 DEF Underway
  <2>2. queue[i] \in Task
    BY DEF Types
  <2>3. k \in SubTask /\ queue[i].budget \in BOOLEAN
    BY <2>1, <2>2, TaskFields
  <2>4. held[k].in /\ held[k].budget = queue[i].budget /\ held[k].started = Never
    BY <2>1 DEF QueueHeld, HeldAs
  <2>5. Load[k] = Expected(k, queue[i].budget)
    BY <1>2, <2>3, <2>4 DEF Load
  <2>6. HeldSecs(k) = Expected(k, queue[i].budget)
    BY <2>4 DEF HeldSecs
  <2>7. Expected(k, queue[i].budget) \in Nat
    BY <2>3, CostTypes
  <2> QED BY <2>3, <2>4, <2>5, <2>6, <2>7
<1> QED BY <1>1, <1>2

LEMMA UnderwayFinite ==
  ASSUME HeldInv
  PROVE  IsFiniteSet(Underway) /\ Underway \subseteq SubTask
<1>1. Underway \subseteq SubTask
  BY HeldEnough
<1> QED BY <1>1, LedgerConstants, FS_Subset

\* What any entry of the ledger counts is a natural number.
LEMMA HeldSecsType ==
  ASSUME HeldInv, NEW k \in SubTask
  PROVE  HeldSecs(k) \in Nat
<1>1. /\ held[k].budget \in BOOLEAN /\ clock \in Int /\ Cost[ParentOf[k]] \in Nat
      /\ held[k].started \in Int
  BY CostTypes, LedgerConstants DEF HeldInv, LedgerInv, Types, Held, Never
<1>2. Expected(k, held[k].budget) \in Nat
  BY <1>1, CostTypes
<1> QED BY <1>1, <1>2 DEF HeldSecs

LEMMA LedgerCounts ==
  ASSUME HeldInv
  PROVE  /\ SumFunctionOnSet(Load, Underway) \in Nat /\ HeldWork \in Nat
         /\ SumFunctionOnSet(Load, Underway) <= HeldWork
<1> DEFINE g == [k \in SubTask |-> HeldSecs(k)]
           T == {k \in SubTask : held[k].in}
           h == [k \in SubTask |-> k]
<1>1. IsFiniteSet(Underway) /\ IsFiniteSet(T)
  BY UnderwayFinite, LedgerConstants, FS_Subset
<1>2. \A k \in T : g[k] \in Nat
  BY HeldSecsType
<1>3. \A k \in Underway : Load[k] \in Nat
  BY HeldEnough
<1>4. \A k \in Underway : h[k] \in T /\ Load[k] <= g[h[k]]
  BY HeldEnough
<1>5. \A k, x \in Underway : h[k] = h[x] => k = x
  BY UnderwayFinite
<1>6. HeldWork = SumFunctionOnSet(g, T)
  BY DEF HeldWork
<1> HIDE DEF g, T, h
<1> QED BY <1>1, <1>2, <1>3, <1>4, <1>5, <1>6, SumOrder, SumMatched

\* The queue's and the worker's share of the commitments.
LEMMA CommittedCounted ==
  ASSUME HeldInv
  PROVE  LET q == SumFunctionOnSet(QueueSecs, 1..Len(queue))
             r == IF worker.busy THEN Remaining(worker.task) ELSE 0
         IN  q \in Nat /\ r \in Nat /\ q + r <= HeldWork
<1> USE DEF HeldInv, LedgerInv
<1> DEFINE q == SumFunctionOnSet(QueueSecs, 1..Len(queue))
           r == IF worker.busy THEN Remaining(worker.task) ELSE 0
           K == {queue[i].key : i \in 1..Len(queue)}
           h == [i \in 1..Len(queue) |-> queue[i].key]
<1>1. Len(queue) \in Nat /\ IsFiniteSet(1..Len(queue))
  BY FS_Interval DEF Types
<1>2. IsFiniteSet(K) /\ K \subseteq Underway
  <2>1. K \subseteq Underway
    BY DEF Underway
  <2> QED BY <2>1, UnderwayFinite, FS_Subset
<1>3. \A k \in K : Load[k] \in Nat
  BY <1>2, HeldEnough
<1>4. \A i \in 1..Len(queue) : h[i] \in K /\ QueueSecs[i] \in Nat /\ QueueSecs[i] <= Load[h[i]]
  <2> SUFFICES ASSUME NEW i \in 1..Len(queue)
               PROVE  QueueSecs[i] \in Nat /\ QueueSecs[i] = Load[queue[i].key]
    BY <1>3
  <2>1. queue[i].key \in SubTask /\ queue[i].budget \in BOOLEAN
    BY TaskFields DEF Types
  <2>2. held[queue[i].key].budget = queue[i].budget
    BY DEF QueueHeld, HeldAs
  <2>3. ~(worker.busy /\ queue[i].key = worker.task.key)
    BY DEF WorkerHeld
  <2> QED BY <2>1, <2>2, <2>3, CostTypes DEF QueueSecs, Load
<1>5. \A i, j \in 1..Len(queue) : h[i] = h[j] => i = j
  BY DEF QueueHeld
<1>6. q \in Nat /\ q <= SumFunctionOnSet(Load, K) /\ SumFunctionOnSet(Load, K) \in Nat
  <2> HIDE DEF h, K
  <2> QED BY <1>1, <1>2, <1>3, <1>4, <1>5, SumOrder, SumMatched
<1>7. r \in Nat /\ SumFunctionOnSet(Load, Underway) = SumFunctionOnSet(Load, K) + r
  <2>1. CASE ~worker.busy
    BY <2>1, <1>6 DEF Underway
  <2>2. CASE worker.busy
    <3> DEFINE x == worker.task.key
    <3>1. x \in Underway /\ x \notin K /\ Underway \ {x} = K
      BY <2>2 DEF Underway, WorkerHeld
    <3>2. Load[x] \in Nat /\ Load[x] = r
      BY <2>2, <3>1, HeldEnough DEF Load
    <3>3. SumFunctionOnSet(Load, Underway) = Load[x] + SumFunctionOnSet(Load, Underway \ {x})
      <4>1. \A k \in Underway : Load[k] \in Nat
        BY HeldEnough
      <4> QED BY <3>1, <4>1, UnderwayFinite, SumOrder
    <3>4. SumFunctionOnSet(Load, Underway \ {x}) = SumFunctionOnSet(Load, K)
      BY <3>1, Zenon
    <3> HIDE DEF x, K, r
    <3> QED BY <1>6, <3>2, <3>3, <3>4
  <2> QED BY <2>1, <2>2
<1> HIDE DEF q, r, K
<1>8. q \in Nat /\ r \in Nat /\ q + r <= HeldWork
  BY <1>6, <1>7, LedgerCounts
<1> QED BY <1>8 DEF q, r

\* Costs of parents add up, and those of fewer parents to less.
LEMMA CostSums ==
  ASSUME NEW S, NEW T, S \subseteq T, T \subseteq Parent
  PROVE  /\ SumFunctionOnSet(Cost, S) \in Nat /\ SumFunctionOnSet(Cost, T) \in Nat
         /\ SumFunctionOnSet(Cost, S) <= SumFunctionOnSet(Cost, T)
<1> DEFINE h == [p \in Parent |-> p]
<1>1. IsFiniteSet(S) /\ IsFiniteSet(T)
  BY LedgerConstants, FS_Subset
<1>2. \A p \in T : Cost[p] \in Nat
  BY CostTypes
<1>3. \A p \in S : Cost[p] \in Nat /\ h[p] \in T /\ Cost[p] <= Cost[h[p]]
  BY CostTypes
<1>4. \A p, q \in S : h[p] = h[q] => p = q
  OBVIOUS
<1> HIDE DEF h
<1> QED BY <1>1, <1>2, <1>3, <1>4, SumOrder, SumMatched

\* The limit of a bid: what exceeds it still does when there is more of it.
LEMMA ExceedsMore ==
  ASSUME NEW p \in Parent, NEW a \in Nat, NEW b \in Nat, a <= b, ~Exceeds(b, p)
  PROVE  ~Exceeds(a, p)
<1>1. PICK c \in Nat : b = a + c
  <2>1. b - a \in Nat /\ b = a + (b - a)
    OBVIOUS
  <2> QED BY <2>1
<1>2. MarginDen \in Nat /\ MarginNum \in Nat /\ MinOf(OwnTimeout, Deadline[p]) \in Nat
  BY LedgerConstants, CostTypes DEF MinOf
<1>3. b * MarginDen = a * MarginDen + c * MarginDen
  BY <1>1, <1>2
<1>4. a * MarginDen \in Nat /\ c * MarginDen \in Nat /\ MarginNum * MinOf(OwnTimeout, Deadline[p]) \in Nat
  BY <1>2
<1> QED BY <1>3, <1>4 DEF Exceeds

LEMMA CommittedInLedger ==
  ASSUME HeldInv
  PROVE  Committed \in Nat /\ QueuedSecs \in Nat /\ Committed <= QueuedSecs
<1> DEFINE S == {p \in Parent : bids[p].state # "none" /\ Live(p)}
           T == {p \in Parent : Live(p)}
           q == SumFunctionOnSet(QueueSecs, 1..Len(queue))
           r == IF worker.busy THEN Remaining(worker.task) ELSE 0
           c == SumFunctionOnSet(Cost, S)
           d == SumFunctionOnSet(Cost, T)
<1>1. q \in Nat /\ r \in Nat /\ q + r <= HeldWork
  BY CommittedCounted
<1>2. c \in Nat /\ d \in Nat /\ c <= d
  <2>1. S \subseteq T /\ T \subseteq Parent
    OBVIOUS
  <2> HIDE DEF S, T
  <2> QED BY <2>1, CostSums
<1>3. HeldWork \in Nat
  BY LedgerCounts
<1>4. Committed = q + r + c /\ QueuedSecs = HeldWork + d
  BY DEF Committed, QueuedSecs
<1> HIDE DEF q, r, c, d
<1> QED BY <1>1, <1>2, <1>3, <1>4

\* No bid is placed unless all the node is committed to and the new work fit the
\* limit, for any tasks and costs, whatever the order of bids, dispatches, overruns
\* and restarts: decide never counts less than there is.
THEOREM BidsSound == Spec => BidSound
<1> DEFINE Sound == \A p \in Parent : reserved'[p] \notin {0, reserved[p]} => ~Exceeds(Committed + Cost[p], p)
<1>1. ASSUME HeldInv, [Next]_vars PROVE Sound
  <2> SUFFICES ASSUME NEW p \in Parent, reserved'[p] \notin {0, reserved[p]}
               PROVE  ~Exceeds(Committed + Cost[p], p)
    OBVIOUS
  <2>1. reserved \in [Parent -> 0..(MaxClock + ReservationTtl)]
    BY <1>1 DEF HeldInv, LedgerInv, Types
  <2>2. CASE \E q \in Parent : Announce(q)
    <3>1. PICK q \in Parent : Announce(q)
      BY <2>2
    <3>2. LapsedDropped[p] \in {0, reserved[p]} /\ LapsedDropped \in [Parent -> Int]
      BY <2>1, LedgerConstants DEF LapsedDropped
    <3>3. q = p /\ ~Exceeds(QueuedSecs + Cost[p], p)
      BY <3>1, <3>2 DEF Announce
    <3>4. /\ Committed + Cost[p] \in Nat /\ QueuedSecs + Cost[p] \in Nat
          /\ Committed + Cost[p] <= QueuedSecs + Cost[p]
      BY <1>1, CommittedInLedger, CostTypes
    <3> QED BY <3>3, <3>4, ExceedsMore
  <2>3. CASE ~ \E q \in Parent : Announce(q)
    <3>1. reserved' \in {reserved, [x \in Parent |-> 0]}
             \/ \E x \in Parent : reserved' = [reserved EXCEPT ![x] = 0]
      BY <1>1, <2>3, LedgerConstants
      DEF Next, Accept, WorkerRecv, WorkerPost, WorkerAnswer, WorkerFinish, Tick, Restart, vars, ledger
    <3> QED BY <2>1, <3>1
  <2> QED BY <2>2, <2>3
<1> QED BY <1>1, HeldInductive, PTL DEF BidSound, Spec

-----------------------------------------------------------------------------
(* Bids kept on time                                                       *)

\* What is left of the running computation, and what sub-tasks take.
Running == IF worker.busy THEN Remaining(worker.task) ELSE 0
Secs == [k \in SubTask |-> Cost[ParentOf[k]]]
FirstKeys(n) == {queue[i].key : i \in 1..n}
Older(p) == {q \in bids[p].older : Live(q)}

\* A bid that may still be dispatched left its budget.
BudgetKnown == \A p \in Parent : Live(p) => /\ announced[p] # Never
                                           /\ reserved[p] = announced[p] + ReservationTtl

\* Of two bids one is older, and only bids are.
BidsOrdered ==
  \A p, q \in Parent :
    /\ p # q /\ bids[p].state # "none" /\ bids[q].state # "none" =>
         p \in bids[q].older \/ q \in bids[p].older
    /\ q \in bids[p].older => bids[q].state # "none"

\* While the world keeps to the estimates, the running sub-task ends within the
\* limit of its bid; so does each queued one, with all that is ahead of it; and so
\* would one dispatched on a bid that is due, with the older bids before it.
WorkerOnTime ==
  worker.busy =>
    /\ worker.task.budget /\ worker.timeout > 0
    /\ clock - worker.start <= Cost[ParentOf[worker.task.key]]
    /\ ~Exceeds(clock - worker.task.at + Running, ParentOf[worker.task.key])

Wait(n) == Running + SumFunctionOnSet(Secs, FirstKeys(n))

QueueOnTime ==
  \A i \in 1..Len(queue) :
    queue[i].budget /\ ~Exceeds(clock - queue[i].at + Wait(i), ParentOf[queue[i].key])

BidsOnTime ==
  \A p \in Parent : bids[p].state = "due" /\ Live(p) =>
    ~Exceeds(Wait(Len(queue)) + SumFunctionOnSet(Cost, Older(p)) + Cost[p], p)

TimelyInv == BudgetKnown /\ BidsOrdered /\ (punctual => WorkerOnTime /\ QueueOnTime /\ BidsOnTime)

LEMMA InitTimely == Init => TimelyInv
BY LedgerConstants DEF Init, TimelyInv, BudgetKnown, BidsOrdered, Live, NoBid, WorkerOnTime, QueueOnTime, BidsOnTime,
                       IdleWorker

LEMMA Clocks ==
  ASSUME HeldInv
  PROVE  clock \in Nat /\ Never = -1 /\ \A p \in Parent : reserved[p] \in Nat
BY LedgerConstants DEF HeldInv, LedgerInv, Types, Never

LEMMA QueuedTask ==
  ASSUME HeldInv, NEW i \in 1..Len(queue)
  PROVE  /\ queue[i] \in Task /\ queue[i].at \in Nat /\ queue[i].at <= clock
         /\ queue[i].key \in SubTask /\ ParentOf[queue[i].key] \in Parent
         /\ i \in 0..Len(queue)
<1>1. queue \in Seq(Task) /\ QueuePast
  BY DEF HeldInv, LedgerInv, Types
<1>2. queue[i] \in Task
  BY <1>1
<1>3. queue[i].at \in Nat /\ queue[i].key \in SubTask
  BY <1>2, TaskFields, LedgerConstants
<1>4. i \in 0..Len(queue)
  BY <1>1
<1> QED BY <1>1, <1>2, <1>3, <1>4, CostTypes DEF QueuePast

\* The keys of the first places of the queue.
LEMMA KeysOfQueue ==
  ASSUME HeldInv, NEW n \in 0..Len(queue)
  PROVE  /\ FirstKeys(n) \subseteq SubTask /\ IsFiniteSet(FirstKeys(n))
         /\ \A k \in FirstKeys(n) : Secs[k] \in Nat
         /\ SumFunctionOnSet(Secs, FirstKeys(n)) \in Nat
<1>1. FirstKeys(n) \subseteq SubTask
  <2>1. \A i \in 1..Len(queue) : queue[i].key \in SubTask
    BY TaskFields DEF HeldInv, LedgerInv, Types
  <2>2. 1..n \subseteq 1..Len(queue)
    BY DEF HeldInv, LedgerInv, Types
  <2> QED BY <2>1, <2>2 DEF FirstKeys
<1>2. IsFiniteSet(FirstKeys(n))
  BY <1>1, LedgerConstants, FS_Subset
<1>3. \A k \in FirstKeys(n) : Secs[k] \in Nat
  BY <1>1, CostTypes DEF Secs
<1> QED BY <1>1, <1>2, <1>3, SumOrder

LEMMA RunningType ==
  ASSUME HeldInv
  PROVE  Running \in Nat
BY CommittedCounted DEF Running

LEMMA WaitType ==
  ASSUME HeldInv, NEW n \in 0..Len(queue)
  PROVE  Wait(n) \in Nat
BY RunningType, KeysOfQueue DEF Wait

LEMMA OlderType ==
  ASSUME HeldInv, NEW p \in Parent
  PROVE  Older(p) \subseteq Parent /\ SumFunctionOnSet(Cost, Older(p)) \in Nat
<1>1. Older(p) \subseteq Parent
  BY DEF Older, HeldInv, LedgerInv, Types, Bid
<1> QED BY <1>1, CostSums

\* What is within the limit of a bid is within the deadline and the timeout.
LEMMA LimitBounds ==
  ASSUME NEW p \in Parent, NEW a \in Nat, ~Exceeds(a, p)
  PROVE  a <= OwnTimeout /\ a <= Deadline[p]
<1> DEFINE m == MinOf(OwnTimeout, Deadline[p])
<1>1. /\ MarginDen \in Nat \ {0} /\ MarginNum \in Nat /\ MarginNum <= MarginDen
      /\ m \in Nat /\ m <= OwnTimeout /\ m <= Deadline[p] /\ OwnTimeout \in Nat /\ Deadline[p] \in Nat
  BY LedgerConstants, CostTypes DEF MinOf
<1>2. a * MarginDen <= MarginNum * m
  <2>1. a * MarginDen \in Int /\ MarginNum * m \in Int
    BY <1>1
  <2> QED BY <2>1 DEF Exceeds
<1> HIDE DEF m
<1>3. MarginNum * m <= MarginDen * m
  <2>1. PICK c \in Nat : MarginDen = MarginNum + c
    <3>1. MarginDen - MarginNum \in Nat /\ MarginDen = MarginNum + (MarginDen - MarginNum)
      BY <1>1
    <3> QED BY <3>1
  <2>2. MarginDen * m = MarginNum * m + c * m
    BY <1>1, <2>1
  <2>3. c * m \in Nat /\ MarginNum * m \in Nat
    BY <1>1
  <2> QED BY <2>2, <2>3
<1>4. a <= m
  <2> SUFFICES ASSUME m < a PROVE FALSE
    BY <1>1
  <2>1. PICK c \in Nat : a = m + 1 + c
    <3>1. a - m - 1 \in Nat /\ a = m + 1 + (a - m - 1)
      BY <1>1
    <3> QED BY <3>1
  <2>2. a * MarginDen = MarginDen * m + MarginDen + c * MarginDen
    BY <1>1, <2>1
  <2>3. c * MarginDen \in Nat /\ MarginDen * m \in Nat /\ MarginNum * m \in Nat
    BY <1>1
  <2> QED BY <1>1, <1>2, <1>3, <2>2, <2>3
<1> QED BY <1>1, <1>4

\* The waiting time before the queue's end is in the ledger.
LEMMA WaitInLedger ==
  ASSUME HeldInv, QueueOnTime
  PROVE  Wait(Len(queue)) <= HeldWork
<1> USE DEF HeldInv, LedgerInv
<1> DEFINE S == FirstKeys(Len(queue))
<1>1. Len(queue) \in Nat /\ Len(queue) \in 0..Len(queue) /\ IsFiniteSet(1..Len(queue))
  BY FS_Interval DEF Types
<1>2. IsFiniteSet(S) /\ (\A k \in S : Secs[k] \in Nat) /\ SumFunctionOnSet(Secs, S) \in Nat
  BY <1>1, KeysOfQueue
<1>3. \A k \in S : \E i \in 1..Len(queue) : k = queue[i].key
  BY DEF FirstKeys
<1> DEFINE g == [k \in SubTask |-> CHOOSE i \in 1..Len(queue) : k = queue[i].key]
<1>4. ASSUME NEW k \in S
      PROVE  g[k] \in 1..Len(queue) /\ k = queue[g[k]].key /\ QueueSecs[g[k]] = Secs[k]
  <2>1. k \in SubTask
    BY <1>1, KeysOfQueue
  <2>2. g[k] \in 1..Len(queue) /\ k = queue[g[k]].key
    BY <1>3, <2>1
  <2> HIDE DEF g
  <2>3. queue[g[k]].budget
    BY <2>2 DEF QueueOnTime
  <2> QED BY <2>1, <2>2, <2>3 DEF QueueSecs, Expected, Secs
<1>5. \A i \in 1..Len(queue) : QueueSecs[i] \in Nat
  <2>1. \A i \in 1..Len(queue) : queue[i].key \in SubTask /\ queue[i].budget \in BOOLEAN
    BY TaskFields DEF Types
  <2> QED BY <2>1, CostTypes DEF QueueSecs
<1>6. SumFunctionOnSet(Secs, S) <= SumFunctionOnSet(QueueSecs, 1..Len(queue))
  <2> HIDE DEF S, g
  <2>1. \A k \in S : g[k] \in 1..Len(queue) /\ Secs[k] <= QueueSecs[g[k]]
    <3>1. \A k \in S : Secs[k] <= Secs[k]
      BY <1>2
    <3> QED BY <1>4, <3>1
  <2>2. \A k, x \in S : g[k] = g[x] => k = x
    <3>1. \A k \in S : k = queue[g[k]].key
      BY <1>4
    <3> QED BY <3>1, Zenon
  <2> QED BY <1>1, <1>2, <1>5, <2>1, <2>2, SumMatched
<1>7. SumFunctionOnSet(QueueSecs, 1..Len(queue)) \in Nat
  BY <1>1, <1>5, SumOrder
<1>8. Running \in Nat /\ SumFunctionOnSet(QueueSecs, 1..Len(queue)) + Running <= HeldWork /\ HeldWork \in Nat
  BY CommittedCounted, LedgerCounts DEF Running
<1> HIDE DEF S
<1>9. Wait(Len(queue)) = Running + SumFunctionOnSet(Secs, S)
  BY DEF Wait, S
<1> QED BY <1>2, <1>6, <1>7, <1>8, <1>9

LEMMA AnnounceTimely ==
  ASSUME HeldInv, TimelyInv, NEW p \in Parent, Announce(p), HeldInv'
  PROVE  TimelyInv'
<1> USE DEF HeldInv, LedgerInv
<1>1. UNCHANGED <<clock, queue, worker, punctual>>
  BY DEF Announce
<1>2. /\ UNCHANGED Running /\ (\A n \in 0..Len(queue) : Wait(n)' = Wait(n))
      /\ WorkerOnTime' = WorkerOnTime /\ QueueOnTime' = QueueOnTime
  BY <1>1 DEF Running, Remaining, Wait, FirstKeys, WorkerOnTime, QueueOnTime
<1>3. \A q \in Parent : clock < LapsedDropped[q] <=> Live(q)
  BY Clocks DEF LapsedDropped, Live
<1>4. CASE Exceeds(QueuedSecs + Cost[p], p)
  <2>1. reserved' = LapsedDropped /\ announced' = announced /\ bids' = bids
    BY <1>4 DEF Announce
  <2>2. \A q \in Parent : /\ Live(q)' <=> Live(q)
                          /\ Live(q) => reserved'[q] = reserved[q]
    BY <1>1, <1>3, <2>1 DEF Live, LapsedDropped
  <2>3. \A q \in Parent : Older(q)' = Older(q)
    BY <2>1, <2>2 DEF Older, Types, Bid
  <2>4. BudgetKnown' /\ BidsOrdered'
    BY <2>1, <2>2 DEF TimelyInv, BudgetKnown, BidsOrdered
  <2>5. BidsOnTime => BidsOnTime'
    <3>1. Wait(Len(queue))' = Wait(Len(queue))
      BY <1>1, <1>2 DEF Types
    <3> QED BY <2>1, <2>2, <2>3, <3>1 DEF BidsOnTime
  <2> QED BY <1>1, <1>2, <2>4, <2>5 DEF TimelyInv
<1>5. CASE ~Exceeds(QueuedSecs + Cost[p], p)
  <2>1. /\ reserved' = [LapsedDropped EXCEPT ![p] = clock + ReservationTtl]
        /\ announced' = [q \in Parent |->
               IF q = p THEN clock
               ELSE IF announced[q] # Never /\ clock - announced[q] < AnnouncedTtl
                    THEN announced[q] ELSE Never]
        /\ bids' = Renewed(p)
    BY <1>5 DEF Announce
  <2>2. LapsedDropped \in [Parent -> Nat] /\ \A q \in Parent : Live(q) => LapsedDropped[q] = reserved[q]
    BY Clocks DEF LapsedDropped
  <2>3. \A q \in Parent : q # p => (Live(q)' <=> Live(q)) /\ (Live(q) => reserved'[q] = reserved[q])
    BY <1>1, <1>3, <2>1, <2>2 DEF Live
  <2>4. BudgetKnown'
    <3> SUFFICES ASSUME NEW q \in Parent, Live(q)'
                 PROVE  announced'[q] # Never /\ reserved'[q] = announced'[q] + ReservationTtl
      BY DEF BudgetKnown
    <3>1. CASE q = p
      BY <2>1, <2>2, <3>1, Clocks
    <3>2. CASE q # p
      <4>1. Live(q) /\ reserved'[q] = reserved[q]
        BY <2>3, <3>2
      <4>2. announced[q] # Never /\ reserved[q] = announced[q] + ReservationTtl
        BY <4>1 DEF TimelyInv, BudgetKnown
      <4>3. announced[q] \in Int
        BY LedgerConstants DEF Types, Never
      <4>4. clock - announced[q] < AnnouncedTtl
        BY <4>1, <4>2, <4>3, Clocks, LedgerConstants DEF Live
      <4> QED BY <2>1, <3>2, <4>1, <4>2, <4>4
    <3> QED BY <3>1, <3>2
  <2>5. /\ bids'[p].state = "due" /\ bids'[p].older = {x \in Parent \ {p} : bids[x].state # "none"}
        /\ \A q \in Parent : q # p => bids'[q].state = bids[q].state /\ bids'[q].older = bids[q].older \ {p}
    BY <2>1 DEF Renewed
  <2>6. BidsOrdered'
    <3> SUFFICES ASSUME NEW q \in Parent, NEW r \in Parent
                 PROVE  /\ q # r /\ bids'[q].state # "none" /\ bids'[r].state # "none" =>
                             q \in bids'[r].older \/ r \in bids'[q].older
                        /\ r \in bids'[q].older => bids'[r].state # "none"
      BY DEF BidsOrdered
    <3> QED BY <2>5 DEF TimelyInv, BidsOrdered
  <2>7. ASSUME punctual, NEW q \in Parent, bids'[q].state = "due", Live(q)'
        PROVE  ~Exceeds(Wait(Len(queue)) + SumFunctionOnSet(Cost, Older(q)') + Cost[q], q)
    <3>1. Len(queue) \in 0..Len(queue) /\ Wait(Len(queue)) \in Nat /\ Cost[q] \in Nat
      <4>1. Len(queue) \in 0..Len(queue)
        BY DEF Types
      <4> QED BY <4>1, WaitType, CostTypes
    <3>2. CASE q = p
      <4> DEFINE T == {x \in Parent : Live(x)}
      <4>1. Older(p)' \subseteq T
        BY <2>3, <2>5 DEF Older
      <4>2. /\ SumFunctionOnSet(Cost, Older(p)') \in Nat /\ SumFunctionOnSet(Cost, T) \in Nat
            /\ SumFunctionOnSet(Cost, Older(p)') <= SumFunctionOnSet(Cost, T)
        <5>1. T \subseteq Parent
          OBVIOUS
        <5> HIDE DEF T
        <5> QED BY <4>1, <5>1, CostSums
      <4>3. Wait(Len(queue)) <= HeldWork /\ HeldWork \in Nat
        BY <2>7, WaitInLedger, LedgerCounts DEF TimelyInv
      <4>4. QueuedSecs = HeldWork + SumFunctionOnSet(Cost, T)
        BY DEF QueuedSecs
      <4> DEFINE a == Wait(Len(queue)) + SumFunctionOnSet(Cost, Older(p)') + Cost[p]
                 b == QueuedSecs + Cost[p]
      <4>5. a \in Nat /\ b \in Nat /\ a <= b
        <5> HIDE DEF T
        <5> QED BY <3>1, <3>2, <4>2, <4>3, <4>4
      <4> HIDE DEF T, a
      <4>6. ~Exceeds(a, p)
        BY <1>5, <4>5, ExceedsMore
      <4> QED BY <3>2, <4>6 DEF a
    <3>3. CASE q # p
      <4>1. bids[q].state = "due" /\ Live(q) /\ Older(q)' \subseteq Older(q)
        <5>1. \A x \in bids'[q].older : x \in Parent /\ x # p
          BY <2>5, <3>3 DEF Types, Bid
        <5> QED BY <2>3, <2>5, <2>7, <3>3, <5>1 DEF Older
      <4>2. ~Exceeds(Wait(Len(queue)) + SumFunctionOnSet(Cost, Older(q)) + Cost[q], q)
        BY <2>7, <4>1 DEF TimelyInv, BidsOnTime
      <4>3. /\ SumFunctionOnSet(Cost, Older(q)') \in Nat /\ SumFunctionOnSet(Cost, Older(q)) \in Nat
            /\ SumFunctionOnSet(Cost, Older(q)') <= SumFunctionOnSet(Cost, Older(q))
        BY <4>1, OlderType, CostSums
      <4> QED BY <3>1, <4>2, <4>3, ExceedsMore
    <3> QED BY <3>2, <3>3
  <2>8. punctual => BidsOnTime'
    <3>1. Wait(Len(queue))' = Wait(Len(queue))
      BY <1>1, <1>2 DEF Types
    <3> QED BY <2>7, <3>1 DEF BidsOnTime
  <2> QED BY <1>1, <1>2, <2>4, <2>6, <2>8 DEF TimelyInv
<1> QED BY <1>4, <1>5

LEMMA AcceptTimely ==
  ASSUME HeldInv, TimelyInv, NEW k \in SubTask, Accept(k), HeldInv'
  PROVE  TimelyInv'
<1> USE DEF HeldInv, LedgerInv
<1> DEFINE p == ParentOf[k]
           task == [key |-> k, budget |-> announced[p] # Never, at |-> clock]
<1>1. /\ queue' = Append(queue, task) /\ task.key = k /\ task.at = clock /\ task \in Task
      /\ (task.budget <=> announced[p] # Never)
      /\ reserved' = [reserved EXCEPT ![p] = 0] /\ bids' = Dispatched(p)
      /\ rows[k].status = "absent"
      /\ punctual' = (punctual /\ InTurn(p))
      /\ UNCHANGED <<clock, announced, worker>>
  BY LedgerConstants DEF Accept, Types, Task
<1>2. p \in Parent /\ Cost[p] \in Nat /\ Secs[k] = Cost[p]
  BY CostTypes DEF Secs
<1> HIDE DEF task, p
<1>3. \A q \in Parent : /\ Live(q)' => q # p /\ Live(q)
                        /\ q # p => (Live(q)' <=> Live(q)) /\ reserved'[q] = reserved[q]
  BY <1>1, <1>2, Clocks DEF Live, Types
<1>4. BudgetKnown'
  BY <1>1, <1>3 DEF TimelyInv, BudgetKnown
<1>5. /\ bids'[p].state = "none" /\ bids'[p].older = {}
      /\ \A q \in Parent : q # p =>
           /\ bids'[q].state = IF q \in bids[p].older THEN "passed" ELSE bids[q].state
           /\ bids'[q].older = bids[q].older \ {p}
  BY <1>1, <1>2 DEF Dispatched, NoBid
<1>6. BidsOrdered'
  <2> SUFFICES ASSUME NEW q \in Parent, NEW r \in Parent
               PROVE  /\ q # r /\ bids'[q].state # "none" /\ bids'[r].state # "none" =>
                           q \in bids'[r].older \/ r \in bids'[q].older
                      /\ r \in bids'[q].older => bids'[r].state # "none"
    BY DEF BidsOrdered
  <2> QED BY <1>2, <1>5 DEF TimelyInv, BidsOrdered
<1>7. SUFFICES ASSUME punctual' PROVE WorkerOnTime' /\ QueueOnTime' /\ BidsOnTime'
  BY <1>4, <1>6 DEF TimelyInv
<1>8. punctual /\ Live(p) /\ bids[p].state = "due" /\ WorkerOnTime /\ QueueOnTime /\ BidsOnTime
  BY <1>1, <1>7 DEF InTurn, TimelyInv
<1>9. Running' = Running /\ Running \in Nat /\ WorkerOnTime'
  BY <1>1, <1>8, RunningType DEF Running, Remaining, WorkerOnTime
<1>0. PICK n \in Nat : n = Len(queue)
  BY DEF Types
<1>10. /\ Len(queue) = n /\ Len(queue') = n + 1
       /\ \A i \in 1..n : queue'[i] = queue[i]
       /\ queue'[n + 1] = task
  BY <1>1, <1>0 DEF Types
<1>11. (\A i \in 0..n : FirstKeys(i)' = FirstKeys(i)) /\ FirstKeys(n + 1)' = FirstKeys(n) \cup {k}
  <2>1. \A i \in 0..n : 1..i \subseteq 1..n
    BY <1>10
  <2>2. 1..n + 1 = 1..n \cup {n + 1}
    BY <1>10
  <2>3. \A i \in 0..n : FirstKeys(i)' = FirstKeys(i)
    BY <1>10, <2>1 DEF FirstKeys
  <2>4. FirstKeys(n + 1)' = {queue'[i].key : i \in 1..n + 1}
    BY DEF FirstKeys
  <2>5. {queue'[i].key : i \in 1..n + 1} = {queue[i].key : i \in 1..n} \cup {k}
    BY <1>1, <1>10, <2>2
  <2> QED BY <2>3, <2>4, <2>5 DEF FirstKeys
<1>12. (\A i \in 0..n : Wait(i)' = Wait(i)) /\ Wait(n + 1)' = Wait(n) + Cost[p] /\ Wait(n) \in Nat
  <2>1. Secs' = Secs
    BY DEF Secs
  <2>2. \A i \in 0..n : Wait(i)' = Wait(i)
    BY <1>9, <1>11, <2>1 DEF Wait
  <2>3. k \notin FirstKeys(n)
    BY <1>1, <1>10 DEF FirstKeys, QueueHeld
  <2>4. n + 1 \in 0..Len(queue') /\ n \in 0..Len(queue)
    BY <1>10
  <2>5. (FirstKeys(n) \cup {k}) \ {k} = FirstKeys(n)
    BY <2>3
  <2>6. SumFunctionOnSet(Secs, FirstKeys(n) \cup {k}) = Secs[k] + SumFunctionOnSet(Secs, FirstKeys(n))
    <3>1. IsFiniteSet(FirstKeys(n) \cup {k})
      BY <2>4, KeysOfQueue, FS_AddElement
    <3>2. \A x \in FirstKeys(n) \cup {k} : Secs[x] \in Nat
      BY <1>2, <2>4, KeysOfQueue
    <3>3. SumFunctionOnSet(Secs, FirstKeys(n) \cup {k})
            = Secs[k] + SumFunctionOnSet(Secs, (FirstKeys(n) \cup {k}) \ {k})
      BY <3>1, <3>2, SumOrder
    <3> QED BY <2>5, <3>3, Zenon
  <2>7. Wait(n + 1)' = Running + SumFunctionOnSet(Secs, FirstKeys(n) \cup {k})
    BY <1>9, <1>11, <2>1 DEF Wait
  <2>8. SumFunctionOnSet(Secs, FirstKeys(n)) \in Nat /\ Wait(n) = Running + SumFunctionOnSet(Secs, FirstKeys(n))
    BY <2>4, KeysOfQueue DEF Wait
  <2> QED BY <1>2, <1>9, <2>2, <2>6, <2>7, <2>8
<1>13. ~Exceeds(Wait(n) + SumFunctionOnSet(Cost, Older(p)) + Cost[p], p) /\ SumFunctionOnSet(Cost, Older(p)) \in Nat
  BY <1>2, <1>8, <1>10, OlderType DEF BidsOnTime
<1>14. QueueOnTime'
  <2> SUFFICES ASSUME NEW i \in 1..Len(queue')
               PROVE  /\ queue'[i].budget
                      /\ ~Exceeds(clock - queue'[i].at + Wait(i)', ParentOf[queue'[i].key])
    BY <1>1 DEF QueueOnTime, Exceeds
  <2>1. CASE i \in 1..n
    <3>1. i \in 0..n
      BY <1>10, <2>1
    <3> QED BY <1>8, <1>10, <1>12, <2>1, <3>1 DEF QueueOnTime
  <2>2. CASE i = n + 1
    <3>1. clock - clock + Wait(i)' = Wait(n) + Cost[p]
      BY <1>2, <1>12, <2>2, Clocks
    <3>2. ~Exceeds(Wait(n) + Cost[p], p)
      BY <1>2, <1>12, <1>13, ExceedsMore
    <3>3. queue'[i] = task /\ ParentOf[task.key] = p /\ task.budget
      BY <1>1, <1>2, <1>8, <1>10, <2>2 DEF p, TimelyInv, BudgetKnown
    <3> QED BY <1>1, <3>1, <3>2, <3>3
  <2> QED BY <1>10, <2>1, <2>2
<1>15. BidsOnTime'
  <2> SUFFICES ASSUME NEW q \in Parent, bids'[q].state = "due", Live(q)'
               PROVE  ~Exceeds(Wait(n + 1)' + SumFunctionOnSet(Cost, Older(q)') + Cost[q], q)
    BY <1>10 DEF BidsOnTime, Exceeds
  <2>1. q # p /\ Live(q) /\ q \notin bids[p].older /\ bids[q].state = "due"
    BY <1>3, <1>5
  <2>2. p \in bids[q].older
    BY <1>2, <1>8, <2>1 DEF TimelyInv, BidsOrdered
  <2>3. p \in Older(q) /\ Older(q)' = Older(q) \ {p}
    <3>1. \A x \in bids[q].older : x \in Parent
      BY DEF Types, Bid
    <3> QED BY <1>3, <1>5, <1>8, <2>1, <2>2, <3>1 DEF Older
  <2>4. /\ SumFunctionOnSet(Cost, Older(q)) = Cost[p] + SumFunctionOnSet(Cost, Older(q) \ {p})
        /\ SumFunctionOnSet(Cost, Older(q) \ {p}) \in Nat
    <3>1. Older(q) \subseteq Parent /\ Older(q) \ {p} \subseteq Parent
      BY OlderType
    <3>2. IsFiniteSet(Older(q)) /\ \A x \in Older(q) : Cost[x] \in Nat
      BY <3>1, LedgerConstants, FS_Subset, CostTypes
    <3> QED BY <2>3, <3>1, <3>2, SumOrder, CostSums
  <2>5. ~Exceeds(Wait(n) + SumFunctionOnSet(Cost, Older(q)) + Cost[q], q)
    BY <1>8, <1>10, <2>1 DEF BidsOnTime
  <2>6. Cost[q] \in Nat /\ SumFunctionOnSet(Cost, Older(q)') = SumFunctionOnSet(Cost, Older(q) \ {p})
    BY <2>3, CostTypes
  <2>7. Wait(n + 1)' + SumFunctionOnSet(Cost, Older(q)') + Cost[q] = Wait(n) + SumFunctionOnSet(Cost, Older(q)) + Cost[q]
    BY <1>2, <1>12, <2>4, <2>6
  <2> QED BY <2>5, <2>7
<1> QED BY <1>9, <1>14, <1>15

LEMMA CallTimely ==
  ASSUME HeldInv, TimelyInv, WorkerPost \/ WorkerAnswer
  PROVE  TimelyInv'
<1>1. /\ UNCHANGED <<clock, announced, reserved, queue, bids, punctual>>
      /\ worker'.busy = worker.busy /\ worker'.task = worker.task
      /\ worker'.start = worker.start /\ worker'.timeout = worker.timeout
  BY DEF WorkerPost, WorkerAnswer, ledger, HeldInv, LedgerInv, Types, WorkerState
<1>2. \A p \in Parent : (Live(p)' <=> Live(p)) /\ Older(p)' = Older(p)
  BY <1>1 DEF Live, Older
<1>3. Running' = Running
  BY <1>1 DEF Running, Remaining
<1>4. \A n \in 0..Len(queue) : Wait(n)' = Wait(n)
  BY <1>1, <1>3 DEF Wait, FirstKeys
<1>5. BudgetKnown' /\ BidsOrdered'
  BY <1>1, <1>2 DEF TimelyInv, BudgetKnown, BidsOrdered
<1>6. SUFFICES ASSUME punctual PROVE WorkerOnTime' /\ QueueOnTime' /\ BidsOnTime'
  BY <1>1, <1>5 DEF TimelyInv
<1>7. WorkerOnTime'
  BY <1>1, <1>3, <1>6 DEF TimelyInv, WorkerOnTime, Exceeds
<1>8. Len(queue) \in Nat
  BY DEF HeldInv, LedgerInv, Types
<1>9. QueueOnTime'
  BY <1>1, <1>4, <1>6, <1>8 DEF TimelyInv, QueueOnTime, Exceeds
<1>10. BidsOnTime'
  <2>1. Wait(Len(queue))' = Wait(Len(queue))
    BY <1>1, <1>3 DEF Wait, FirstKeys
  <2>2. \A p \in Parent : bids'[p].state = "due" /\ Live(p)' =>
          ~Exceeds(Wait(Len(queue))' + SumFunctionOnSet(Cost, Older(p)') + Cost[p], p)
    BY <1>1, <1>2, <1>6, <2>1 DEF TimelyInv, BidsOnTime
  <2> QED BY <2>2 DEF BidsOnTime, Exceeds
<1> QED BY <1>7, <1>9, <1>10

LEMMA FinishTimely ==
  ASSUME HeldInv, TimelyInv, WorkerFinish, HeldInv'
  PROVE  TimelyInv'
<1> USE DEF HeldInv, LedgerInv
<1>1. /\ UNCHANGED <<clock, announced, reserved, queue, bids, punctual>>
      /\ ~worker'.busy
  BY DEF WorkerFinish, IdleWorker
<1>2. \A p \in Parent : (Live(p)' <=> Live(p)) /\ Older(p)' = Older(p)
  BY <1>1 DEF Live, Older
<1>3. BudgetKnown' /\ BidsOrdered' /\ WorkerOnTime'
  BY <1>1, <1>2 DEF TimelyInv, BudgetKnown, BidsOrdered, WorkerOnTime
<1>4. \A n \in 0..Len(queue) : Wait(n) \in Nat /\ Wait(n)' \in Nat /\ Wait(n)' <= Wait(n)
  <2> SUFFICES ASSUME NEW n \in 0..Len(queue) PROVE Wait(n) \in Nat /\ Wait(n)' \in Nat /\ Wait(n)' <= Wait(n)
    OBVIOUS
  <2>1. Running' = 0 /\ Running \in Nat
    BY <1>1, RunningType DEF Running
  <2>2. SumFunctionOnSet(Secs, FirstKeys(n))' = SumFunctionOnSet(Secs, FirstKeys(n))
    BY <1>1 DEF Secs, FirstKeys
  <2>3. SumFunctionOnSet(Secs, FirstKeys(n)) \in Nat
    BY KeysOfQueue
  <2> QED BY <2>1, <2>2, <2>3 DEF Wait
<1>5. ASSUME punctual PROVE QueueOnTime' /\ BidsOnTime'
  <2>1. QueueOnTime /\ BidsOnTime
    BY <1>5 DEF TimelyInv
  <2>2. ASSUME NEW i \in 1..Len(queue)
        PROVE  queue[i].budget /\ ~Exceeds(clock - queue[i].at + Wait(i)', ParentOf[queue[i].key])
    <3>1. queue[i].at \in Nat /\ queue[i].at <= clock /\ ParentOf[queue[i].key] \in Parent /\ i \in 0..Len(queue)
      BY QueuedTask
    <3>2. queue[i].budget /\ ~Exceeds(clock - queue[i].at + Wait(i), ParentOf[queue[i].key])
      BY <2>1 DEF QueueOnTime
    <3>3. Wait(i) \in Nat /\ Wait(i)' \in Nat /\ Wait(i)' <= Wait(i)
      BY <1>4, <3>1
    <3> DEFINE a == clock - queue[i].at + Wait(i)'
               b == clock - queue[i].at + Wait(i)
    <3>4. a \in Nat /\ b \in Nat /\ a <= b
      BY <3>1, <3>3, Clocks
    <3> HIDE DEF a, b
    <3>5. ~Exceeds(a, ParentOf[queue[i].key])
      BY <3>1, <3>2, <3>4, ExceedsMore DEF b
    <3> QED BY <3>2, <3>5 DEF a
  <2>3. ASSUME NEW p \in Parent, bids[p].state = "due", Live(p)
        PROVE  ~Exceeds(Wait(Len(queue))' + SumFunctionOnSet(Cost, Older(p)) + Cost[p], p)
    <3>1. Len(queue) \in 0..Len(queue)
      BY DEF Types
    <3>2. /\ Wait(Len(queue)) \in Nat /\ Wait(Len(queue))' \in Nat /\ Wait(Len(queue))' <= Wait(Len(queue))
          /\ SumFunctionOnSet(Cost, Older(p)) \in Nat /\ Cost[p] \in Nat
      BY <1>1, <1>4, <3>1, OlderType, CostTypes
    <3>3. ~Exceeds(Wait(Len(queue)) + SumFunctionOnSet(Cost, Older(p)) + Cost[p], p)
      BY <2>1, <2>3 DEF BidsOnTime
    <3> DEFINE a == Wait(Len(queue))' + SumFunctionOnSet(Cost, Older(p)) + Cost[p]
               b == Wait(Len(queue)) + SumFunctionOnSet(Cost, Older(p)) + Cost[p]
    <3>4. a \in Nat /\ b \in Nat /\ a <= b
      BY <3>2
    <3> HIDE DEF a, b
    <3>5. ~Exceeds(a, p)
      BY <3>3, <3>4, ExceedsMore DEF b
    <3> QED BY <3>5 DEF a
  <2>4. QueueOnTime'
    BY <1>1, <2>2 DEF QueueOnTime, Exceeds
  <2>5. BidsOnTime'
    BY <1>1, <1>2, <2>3 DEF BidsOnTime, Exceeds
  <2> QED BY <2>4, <2>5
<1> QED BY <1>1, <1>3, <1>5 DEF TimelyInv

LEMMA RecvTimely ==
  ASSUME HeldInv, TimelyInv, WorkerRecv, HeldInv', \A p \in Parent : Cost[p] > 0
  PROVE  TimelyInv'
<1> USE DEF HeldInv, LedgerInv
<1>1. PICK t \in Task : t = Head(queue)
  BY DEF WorkerRecv, Types
<1>2. PICK m \in Nat : Len(queue) = m + 1
  <2>1. Len(queue) \in Nat \ {0}
    BY DEF WorkerRecv, Types
  <2>2. Len(queue) - 1 \in Nat /\ Len(queue) = (Len(queue) - 1) + 1
    BY <2>1
  <2> QED BY <2>2
<1>3. /\ t = queue[1] /\ queue' = Tail(queue) /\ Len(queue') = m
      /\ \A i \in 1..m : queue'[i] = queue[i + 1] /\ i + 1 \in 1..Len(queue)
      /\ ~worker.busy
      /\ worker' = [busy |-> TRUE, task |-> t, start |-> clock, timeout |-> ComputeTimeout(t),
                    post |-> 0, phase |-> "probe"]
      /\ UNCHANGED <<clock, announced, reserved, bids, punctual>>
  BY <1>1, <1>2 DEF WorkerRecv, Types
<1>4. /\ t.key \in SubTask /\ ParentOf[t.key] \in Parent /\ t.at \in Nat /\ t.at <= clock
      /\ 1 \in 1..Len(queue)
  BY <1>2, <1>3, QueuedTask
<1> DEFINE p == ParentOf[t.key]
<1>5. \A q \in Parent : (Live(q)' <=> Live(q)) /\ Older(q)' = Older(q)
  BY <1>3 DEF Live, Older
<1>6. BudgetKnown' /\ BidsOrdered'
  BY <1>3, <1>5 DEF TimelyInv, BudgetKnown, BidsOrdered
<1>7. SUFFICES ASSUME punctual' PROVE WorkerOnTime' /\ QueueOnTime' /\ BidsOnTime'
  BY <1>6 DEF TimelyInv
<1>8. QueueOnTime /\ BidsOnTime /\ t.budget
  BY <1>3, <1>4, <1>7 DEF TimelyInv, QueueOnTime
<1>9. Cost[p] \in Nat /\ Cost[p] > 0 /\ Secs[t.key] = Cost[p]
  BY <1>4, CostTypes DEF Secs
<1>10. Running = 0 /\ Running' = Cost[p]
  <2>1. Running = 0
    BY <1>3 DEF Running
  <2>2. Remaining(worker.task)' = IF Cost[p] - (clock - clock) > 0 THEN Cost[p] - (clock - clock) ELSE 0
    BY <1>3, <1>8 DEF Remaining, Expected
  <2> QED BY <1>3, <1>9, <2>1, <2>2, Clocks DEF Running
<1>11. ASSUME NEW i \in 0..m PROVE Wait(i)' = Wait(i + 1) /\ Wait(i + 1) \in Nat /\ i + 1 \in 1..Len(queue)
  <2>1. i + 1 \in 1..Len(queue) /\ i + 1 \in 0..Len(queue) /\ 1 \in 1..i + 1
    BY <1>2
  <2>2. FirstKeys(i)' = FirstKeys(i + 1) \ {t.key} /\ t.key \in FirstKeys(i + 1)
    <3>1. FirstKeys(i)' = {queue'[j].key : j \in 1..i} /\ FirstKeys(i + 1) = {queue[j].key : j \in 1..i + 1}
      BY DEF FirstKeys
    <3>2. \A j \in 1..i : queue'[j] = queue[j + 1] /\ j + 1 \in 1..i + 1
      BY <1>3
    <3>3. \A j \in 1..i + 1 : j = 1 \/ (j - 1 \in 1..i /\ (j - 1) + 1 = j)
      OBVIOUS
    <3>4. \A j \in 1..i : queue[j + 1].key # t.key
      <4>1. \A j \in 1..i : j + 1 \in 1..Len(queue) /\ j + 1 # 1
        BY <1>2
      <4> QED BY <1>3, <1>4, <4>1 DEF QueueHeld
    <3>5. \A x \in FirstKeys(i)' : x \in FirstKeys(i + 1) /\ x # t.key
      BY <3>1, <3>2, <3>4
    <3>6. \A x \in FirstKeys(i + 1) : x = t.key \/ x \in FirstKeys(i)'
      <4> SUFFICES ASSUME NEW j \in 1..i + 1 PROVE queue[j].key = t.key \/ queue[j].key \in FirstKeys(i)'
        BY <3>1
      <4>1. CASE j = 1
        BY <1>3, <4>1
      <4>2. CASE j - 1 \in 1..i /\ (j - 1) + 1 = j
        BY <3>1, <3>2, <4>2
      <4> QED BY <3>3, <4>1, <4>2
    <3>7. t.key \in FirstKeys(i + 1)
      BY <1>3, <2>1, <3>1
    <3> QED BY <3>5, <3>6, <3>7
  <2>3. SumFunctionOnSet(Secs, FirstKeys(i + 1)) = Secs[t.key] + SumFunctionOnSet(Secs, FirstKeys(i + 1) \ {t.key})
    BY <2>1, <2>2, KeysOfQueue, SumOrder
  <2>4. Wait(i)' = Cost[p] + SumFunctionOnSet(Secs, FirstKeys(i + 1) \ {t.key})
    BY <1>10, <2>2 DEF Wait, Secs
  <2>5. SumFunctionOnSet(Secs, FirstKeys(i + 1)) \in Nat
    BY <2>1, KeysOfQueue
  <2>6. Wait(i + 1) = SumFunctionOnSet(Secs, FirstKeys(i + 1))
    BY <1>10, <2>5 DEF Wait
  <2> QED BY <1>9, <2>1, <2>3, <2>4, <2>5, <2>6
<1>12. Wait(1) = Cost[p]
  <2>1. 0 \in 0..m /\ FirstKeys(0)' = {} /\ 0 + 1 = 1
    BY DEF FirstKeys
  <2>2. Wait(0)' = Wait(1)
    BY <1>11, <2>1
  <2>3. Wait(0)' = Cost[p] + SumFunctionOnSet(Secs, {})
    BY <1>10, <2>1 DEF Wait, Secs
  <2> QED BY <1>9, <2>2, <2>3, SumEmpty
<1>13. WorkerOnTime'
  <2>1. ~Exceeds(clock - t.at + Cost[p], p)
    BY <1>3, <1>4, <1>8, <1>12 DEF QueueOnTime
  <2>2. clock - t.at + Cost[p] \in Nat
    BY <1>4, <1>9, Clocks
  <2>3. clock - t.at + Cost[p] <= OwnTimeout /\ clock - t.at + Cost[p] <= Deadline[p]
    BY <1>4, <2>1, <2>2, LimitBounds
  <2>4. ComputeTimeout(t) > 0
    <3>1. OwnTimeout \in Nat /\ Deadline[p] \in Nat
      BY <1>4, CostTypes, LedgerConstants
    <3>2. PICK left \in Int : left = Deadline[p] - (clock - t.at)
      BY <1>4, <3>1, Clocks
    <3>3. left > 0 /\ OwnTimeout > 0
      BY <1>4, <1>9, <2>3, <3>1, <3>2, Clocks
    <3>4. ComputeTimeout(t) = MinOf(OwnTimeout, left)
      BY <1>8, <3>2, <3>3 DEF ComputeTimeout
    <3> QED BY <3>1, <3>3, <3>4 DEF MinOf
  <2>5. clock - clock <= Cost[p]
    BY <1>9, Clocks
  <2> QED BY <1>3, <1>8, <1>10, <2>1, <2>4, <2>5 DEF WorkerOnTime, Exceeds
<1>14. QueueOnTime'
  <2> SUFFICES ASSUME NEW i \in 1..m
               PROVE  /\ queue'[i].budget
                      /\ ~Exceeds(clock - queue'[i].at + Wait(i)', ParentOf[queue'[i].key])
    BY <1>3 DEF QueueOnTime, Exceeds
  <2>1. i \in 0..m
    OBVIOUS
  <2> QED BY <1>3, <1>8, <1>11, <2>1 DEF QueueOnTime
<1>15. BidsOnTime'
  <2>1. Wait(m)' = Wait(Len(queue))
    <3>1. m \in 0..m
      OBVIOUS
    <3> QED BY <1>2, <1>11, <3>1
  <2>2. \A q \in Parent : bids'[q].state = "due" /\ Live(q)' =>
          ~Exceeds(Wait(m)' + SumFunctionOnSet(Cost, Older(q)') + Cost[q], q)
    BY <1>3, <1>5, <1>8, <2>1 DEF BidsOnTime
  <2> QED BY <1>3, <2>2 DEF BidsOnTime, Exceeds
<1> QED BY <1>13, <1>14, <1>15

LEMMA TickTimely ==
  ASSUME HeldInv, TimelyInv, Tick, HeldInv'
  PROVE  TimelyInv'
<1> USE DEF HeldInv, LedgerInv
<1>1. /\ clock' = clock + 1 /\ clock \in Nat
      /\ punctual' => /\ punctual
                      /\ worker.busy => clock - worker.start < Expected(worker.task.key, worker.task.budget)
                      /\ ~worker.busy => queue = <<>>
      /\ UNCHANGED <<announced, reserved, queue, worker, bids>>
  BY Clocks DEF Tick, ledger
<1>2. \A p \in Parent : Live(p)' => Live(p)
  BY <1>1, Clocks DEF Live
<1>3. \A p \in Parent : Older(p)' \subseteq Older(p)
  BY <1>1, <1>2 DEF Older, Types, Bid
<1>4. BudgetKnown' /\ BidsOrdered'
  BY <1>1, <1>2 DEF TimelyInv, BudgetKnown, BidsOrdered
<1>5. SUFFICES ASSUME punctual' PROVE WorkerOnTime' /\ QueueOnTime' /\ BidsOnTime'
  BY <1>4 DEF TimelyInv
<1>6. WorkerOnTime /\ QueueOnTime /\ BidsOnTime
  BY <1>1, <1>5 DEF TimelyInv
<1>7. /\ Running \in Nat /\ Running' \in Nat /\ Running' <= Running
      /\ worker.busy => /\ Running' = Running - 1
                        /\ clock + 1 - worker.start <= Cost[ParentOf[worker.task.key]]
  <2>1. CASE worker.busy
    <3> DEFINE c == Cost[ParentOf[worker.task.key]]
    <3>1. worker.task \in Task /\ worker.task.budget /\ worker.start \in Nat /\ worker.start <= clock
      BY <1>6, <2>1, LedgerConstants DEF WorkerOnTime, WorkerInTime, Types, WorkerState
    <3>2. c \in Nat
      BY <3>1, TaskFields, CostTypes
    <3>3. clock - worker.start < c
      BY <1>1, <1>5, <2>1, <3>1 DEF Expected
    <3>4. /\ Running = IF c - (clock - worker.start) > 0 THEN c - (clock - worker.start) ELSE 0
          /\ Running' = IF c - (clock' - worker.start) > 0 THEN c - (clock' - worker.start) ELSE 0
      BY <1>1, <2>1, <3>1 DEF Running, Remaining, Expected
    <3> HIDE DEF c
    <3>5. /\ Running \in Nat /\ Running' \in Nat /\ Running' <= Running /\ Running' = Running - 1
          /\ clock + 1 - worker.start <= c
      BY <1>1, <3>1, <3>2, <3>3, <3>4
    <3> QED BY <2>1, <3>5 DEF c
  <2>2. CASE ~worker.busy
    BY <1>1, <2>2 DEF Running
  <2> QED BY <2>1, <2>2
<1>8. ASSUME NEW n \in 0..Len(queue)
      PROVE  /\ Wait(n) \in Nat /\ Wait(n)' \in Nat /\ Wait(n)' <= Wait(n)
             /\ worker.busy => Wait(n)' = Wait(n) - 1
  <2>1. SumFunctionOnSet(Secs, FirstKeys(n))' = SumFunctionOnSet(Secs, FirstKeys(n))
    BY <1>1 DEF Secs, FirstKeys
  <2>2. SumFunctionOnSet(Secs, FirstKeys(n)) \in Nat
    BY KeysOfQueue
  <2> QED BY <1>7, <2>1, <2>2 DEF Wait
<1>9. WorkerOnTime'
  <2> SUFFICES ASSUME worker.busy
               PROVE  /\ worker.task.budget /\ worker.timeout > 0
                      /\ clock' - worker.start <= Cost[ParentOf[worker.task.key]]
                      /\ ~Exceeds(clock' - worker.task.at + Running', ParentOf[worker.task.key])
    BY <1>1 DEF WorkerOnTime, Exceeds
  <2>1. worker.task.at \in Nat
    BY TaskFields, LedgerConstants DEF WorkerInTime
  <2>2. clock' - worker.task.at + Running' = clock - worker.task.at + Running
    BY <1>1, <1>7, <2>1
  <2>3. /\ worker.task.budget /\ worker.timeout > 0
        /\ ~Exceeds(clock - worker.task.at + Running, ParentOf[worker.task.key])
    BY <1>6 DEF WorkerOnTime
  <2>4. clock' - worker.start <= Cost[ParentOf[worker.task.key]]
    <3>1. clock' = clock + 1
      BY <1>1
    <3>2. clock + 1 - worker.start <= Cost[ParentOf[worker.task.key]]
      BY <1>7
    <3>3. clock \in Nat /\ worker.start \in Nat /\ Cost[ParentOf[worker.task.key]] \in Nat
      <4>1. worker.task.key \in SubTask
        BY TaskFields DEF WorkerInTime
      <4> QED BY <1>1, <4>1, CostTypes DEF Types, WorkerState
    <3> QED BY ONLY <3>1, <3>2, <3>3
  <2> QED BY <2>2, <2>3, <2>4
<1>10. QueueOnTime'
  <2> SUFFICES ASSUME NEW i \in 1..Len(queue)
               PROVE  queue[i].budget /\ ~Exceeds(clock' - queue[i].at + Wait(i)', ParentOf[queue[i].key])
    BY <1>1 DEF QueueOnTime, Exceeds
  <2>1. worker.busy
    BY <1>1, <1>5
  <2>2. clock' - queue[i].at + Wait(i)' = clock - queue[i].at + Wait(i)
    <3>1. queue[i].at \in Nat /\ i \in 0..Len(queue)
      BY QueuedTask
    <3>2. Wait(i) \in Nat /\ Wait(i)' = Wait(i) - 1
      BY <1>8, <2>1, <3>1
    <3> QED BY <1>1, <3>1, <3>2
  <2> QED BY <1>6, <2>2 DEF QueueOnTime
<1>11. BidsOnTime'
  <2> SUFFICES ASSUME NEW p \in Parent, bids[p].state = "due", Live(p)'
               PROVE  ~Exceeds(Wait(Len(queue))' + SumFunctionOnSet(Cost, Older(p)') + Cost[p], p)
    BY <1>1 DEF BidsOnTime, Exceeds
  <2>1. Len(queue) \in 0..Len(queue)
    BY DEF Types
  <2>2. Wait(Len(queue)) \in Nat /\ Wait(Len(queue))' \in Nat /\ Wait(Len(queue))' <= Wait(Len(queue))
    <3>1. PICK n \in 0..Len(queue) : n = Len(queue)
      BY <2>1
    <3>2. Wait(Len(queue))' = Wait(n)'
      BY <1>1, <3>1 DEF Wait, FirstKeys
    <3> QED BY <1>8, <3>1, <3>2
  <2>3. /\ SumFunctionOnSet(Cost, Older(p)') \in Nat /\ SumFunctionOnSet(Cost, Older(p)) \in Nat
        /\ SumFunctionOnSet(Cost, Older(p)') <= SumFunctionOnSet(Cost, Older(p)) /\ Cost[p] \in Nat
    BY <1>3, OlderType, CostSums, CostTypes
  <2>4. ~Exceeds(Wait(Len(queue)) + SumFunctionOnSet(Cost, Older(p)) + Cost[p], p)
    BY <1>2, <1>6 DEF BidsOnTime
  <2> DEFINE a == Wait(Len(queue))' + SumFunctionOnSet(Cost, Older(p)') + Cost[p]
             b == Wait(Len(queue)) + SumFunctionOnSet(Cost, Older(p)) + Cost[p]
  <2>5. a \in Nat /\ b \in Nat /\ a <= b
    BY <2>2, <2>3
  <2> HIDE DEF a, b
  <2>6. ~Exceeds(a, p)
    BY <2>4, <2>5, ExceedsMore DEF b
  <2> QED BY <2>6 DEF a
<1> QED BY <1>9, <1>10, <1>11

LEMMA RestartTimely ==
  ASSUME HeldInv, Restart
  PROVE  TimelyInv'
<1>1. /\ clock' = clock /\ reserved' = [p \in Parent |-> 0] /\ bids' = [p \in Parent |-> NoBid]
      /\ punctual' = FALSE
  BY DEF Restart
<1> QED BY <1>1, Clocks DEF TimelyInv, BudgetKnown, BidsOrdered, Live, NoBid

\* As long as dispatches come in the order of the bids and in time, and no
\* computation takes longer than estimated, every sub-task is finished within the
\* share of the deadline that its bid promised: for any tasks, costs, deadlines,
\* margin and lifetimes, whatever else is bid on meanwhile.  The hypothesis is
\* needed: work that costs nothing would leave a deadline that is used up to the
\* second, and compute_timeout calls that expired.
THEOREM BidsKeptOnTime ==
  ASSUME \A p \in Parent : Cost[p] > 0
  PROVE  Spec => []OnTime
<1>1. ASSUME HeldInv, TimelyInv, [Next]_vars, HeldInv' PROVE TimelyInv'
  <2>1. CASE UNCHANGED vars
    BY <1>1, <2>1 DEF vars, ledger, TimelyInv, BudgetKnown, BidsOrdered, WorkerOnTime, QueueOnTime, BidsOnTime,
                      Wait, Running, Remaining, FirstKeys, Older, Live, Exceeds
  <2> QED BY <1>1, <2>1, AnnounceTimely, AcceptTimely, RecvTimely, CallTimely, FinishTimely, TickTimely,
             RestartTimely DEF Next
<1>2. ASSUME HeldInv, TimelyInv PROVE OnTime
  <2> SUFFICES ASSUME punctual, worker.busy
               PROVE  /\ worker.task.budget /\ worker.timeout > 0
                      /\ ~Exceeds(clock - worker.task.at, ParentOf[worker.task.key])
    BY DEF OnTime
  <2>1. WorkerOnTime
    BY <1>2 DEF TimelyInv
  <2>2. worker.task \in Task /\ worker.task.at <= worker.start /\ worker.start <= clock /\ worker.start \in Nat
    BY <1>2, LedgerConstants DEF HeldInv, LedgerInv, WorkerInTime, Types, WorkerState
  <2>3. worker.task.at \in Nat /\ ParentOf[worker.task.key] \in Parent
    BY <2>2, TaskFields, CostTypes, LedgerConstants
  <2>4. Running \in Nat /\ clock \in Nat
    BY <1>2, RunningType, Clocks
  <2>5. /\ clock - worker.task.at \in Nat /\ clock - worker.task.at + Running \in Nat
        /\ clock - worker.task.at <= clock - worker.task.at + Running
    BY <2>2, <2>3, <2>4
  <2> QED BY <2>1, <2>3, <2>5, ExceedsMore DEF WorkerOnTime
<1> QED BY <1>1, <1>2, InitTimely, HeldInductive, PTL DEF Spec

=============================================================================
