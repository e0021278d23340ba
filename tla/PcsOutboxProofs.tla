-------------------------- MODULE PcsOutboxProofs --------------------------
(***************************************************************************)
(* What holds of the PCS outbox for any number of sub-tasks, requests and   *)
(* builders: builds of one sub-task exclude each other, core proves only    *)
(* what the orchestrator asked for, a PCS fits the job it is sent for, and  *)
(* a stored request is lost to a stale copy of its row or not at all.       *)
(***************************************************************************)
EXTENDS PcsOutbox, TLAPS

-----------------------------------------------------------------------------
(* Types                                                                   *)

\* A slot in use has a key, and a lookup has attempts left.
Keyed ==
  /\ \A c \in Retainer : retainer[c].pc = "put" => retainer[c].key \in SubTask
  /\ \A a \in Asker : asker[a].pc # "idle" => asker[a].key \in SubTask
  /\ \A a \in Asker : asker[a].pc = "lookup" => asker[a].left # 0
  /\ \A b \in Builder : builder[b].pc # "idle" => builder[b].key \in SubTask

TypeInv == TypeOK /\ Keyed

\* NoJob, NoRow and the idle slots are well typed.
LEMMA Blanks ==
  /\ NoJob \in Job
  /\ NoRow \in Row
  /\ IdleRetainer \in [pc : {"idle", "put"}, key : SubTask \cup {None}, job : Job]
  /\ IdleAsker \in [pc : {"idle", "lookup", "mark", "spawn", "openStore"},
                    key : SubTask \cup {None}, left : 0..LookupAttempts, job : Job]
  /\ IdleBuilder \in [pc : {"idle", "claim", "build", "store", "send", "refuse",
                            "delete", "clear"},
                      key : SubTask \cup {None}, job : Job, refused : BOOLEAN]
<1>1. NoJob \in Job
  BY DEF NoJob, Job
<1>2. NoRow \in Row
  BY <1>1, PcsConstants DEF NoRow, Row
<1> QED BY <1>1, <1>2, PcsConstants DEF IdleRetainer, IdleAsker, IdleBuilder

\* upsert_pending_pcs changes the job of one key.
LEMMA UpsertEffect ==
  ASSUME TypeOK, NEW k \in SubTask, NEW job \in Job, Upsert(k, job)
  PROVE  /\ rows' \in [SubTask -> Row]
         /\ nextId' \in 1..(MaxRow + 1)
         /\ rows'[k].job = job
         /\ \A x \in SubTask : x # k => rows'[x] = rows[x]
<1>1. CASE HasRow(k)
  <2>1. rows' = [rows EXCEPT ![k].job = job] /\ nextId' = nextId
    BY <1>1 DEF Upsert
  <2>2. rows[k] \in Row
    BY DEF TypeOK
  <2>3. [rows[k] EXCEPT !.job = job] \in Row
    BY <2>2 DEF Row
  <2> QED BY <2>1, <2>2, <2>3 DEF TypeOK, Row
<1>2. CASE ~HasRow(k)
  <2>1. /\ nextId <= MaxRow
        /\ rows' = [rows EXCEPT ![k] = [id |-> nextId, job |-> job, late |-> FALSE]]
        /\ nextId' = nextId + 1
    BY <1>2 DEF Upsert
  <2>2. [id |-> nextId, job |-> job, late |-> FALSE] \in Row
    BY <2>1, PcsConstants DEF Row, TypeOK
  <2> QED BY <2>1, <2>2, PcsConstants DEF TypeOK
<1> QED BY <1>1, <1>2

\* spawn_build_and_deliver takes one free slot.
LEMMA SpawnEffect ==
  ASSUME NEW k, NEW job, SpawnBuild(k, job)
  PROVE  \E b \in Builder :
           /\ builder[b].pc = "idle"
           /\ builder' = [builder EXCEPT
                ![b] = [pc |-> "claim", key |-> k, job |-> job, refused |-> FALSE]]
BY DEF SpawnBuild, Builder

\* Types of the slots, as in TypeOK.
RetainerSet == [pc : {"idle", "put"}, key : SubTask \cup {None}, job : Job]
AskerSet == [pc : {"idle", "lookup", "mark", "spawn", "openStore"},
             key : SubTask \cup {None}, left : 0..LookupAttempts, job : Job]
BuilderSet == [pc : {"idle", "claim", "build", "store", "send", "refuse", "delete", "clear"},
               key : SubTask \cup {None}, job : Job, refused : BOOLEAN]

\* A slot function stays typed when one slot is replaced.
BuildersTyped == /\ builder \in [Builder -> BuilderSet]
                 /\ \A b \in Builder : builder[b].pc # "idle" => builder[b].key \in SubTask
AskersTyped == /\ asker \in [Asker -> AskerSet]
               /\ \A a \in Asker : asker[a].pc # "idle" => asker[a].key \in SubTask
               /\ \A a \in Asker : asker[a].pc = "lookup" => asker[a].left # 0
RetainersTyped == /\ retainer \in [Retainer -> RetainerSet]
                  /\ \A c \in Retainer : retainer[c].pc = "put" => retainer[c].key \in SubTask
TablesTyped == rows \in [SubTask -> Row] /\ nextId \in 1..(MaxRow + 1)
RestTyped == /\ cache \in [SubTask -> Hash \cup {None}]
             /\ inFlight \in SUBSET SubTask
             /\ todo \in SUBSET Entry
GhostsTyped == /\ retains \in [SubTask -> 0..MaxRetain]
               /\ asks \in [SubTask -> 0..MaxAsk]
               /\ crashes \in 0..MaxCrash
               /\ asked \in SUBSET SubTask
               /\ promise \in [SubTask -> {"none", "stored", "answered"}]

LEMMA TypeParts ==
  TypeInv <=> /\ TablesTyped /\ RetainersTyped /\ AskersTyped /\ BuildersTyped
              /\ RestTyped /\ GhostsTyped
BY DEF TypeInv, TypeOK, Keyed, TablesTyped, RetainersTyped, AskersTyped, BuildersTyped,
       RestTyped, GhostsTyped, RetainerSet, AskerSet, BuilderSet

LEMMA TypePartsNext ==
  TypeInv' <=> /\ TablesTyped' /\ RetainersTyped' /\ AskersTyped' /\ BuildersTyped'
               /\ RestTyped' /\ GhostsTyped'
BY DEF TypeInv, TypeOK, Keyed, TablesTyped, RetainersTyped, AskersTyped, BuildersTyped,
       RestTyped, GhostsTyped, RetainerSet, AskerSet, BuilderSet

\* A builder slot that is filled, moved on or freed stays typed.
LEMMA FillBuilder ==
  ASSUME BuildersTyped, NEW k \in SubTask, NEW job \in Job, NEW b \in Builder,
         builder' = [builder EXCEPT
           ![b] = [pc |-> "claim", key |-> k, job |-> job, refused |-> FALSE]]
  PROVE  BuildersTyped'
BY DEF BuildersTyped, BuilderSet

LEMMA MoveBuilder ==
  ASSUME BuildersTyped, NEW b \in Builder, builder[b].pc # "idle",
         NEW pc \in {"build", "store", "send", "refuse", "delete", "clear"},
         Goto(b, pc)
  PROVE  BuildersTyped'
BY DEF BuildersTyped, BuilderSet, Goto

LEMMA FreeBuilder ==
  ASSUME BuildersTyped, NEW b \in Builder,
         builder' = [builder EXCEPT ![b] = IdleBuilder]
  PROVE  BuildersTyped'
BY Blanks DEF BuildersTyped, BuilderSet, IdleBuilder

LEMMA SpawnTyped ==
  ASSUME BuildersTyped, NEW k \in SubTask, NEW job \in Job, SpawnBuild(k, job)
  PROVE  BuildersTyped'
BY SpawnEffect, FillBuilder

\* A request slot that is replaced stays typed.
LEMMA SetAsker ==
  ASSUME AskersTyped, NEW a \in Asker, NEW r \in AskerSet,
         r.pc # "idle" => r.key \in SubTask,
         r.pc = "lookup" => r.left # 0,
         asker' = [asker EXCEPT ![a] = r]
  PROVE  AskersTyped'
BY DEF AskersTyped

\* The steps of retain_after_result keep the types.
LEMMA RetainTypes ==
  ASSUME TypeInv, NEW c \in Retainer, RetainPut(c) \/ \E k \in SubTask : RetainGet(c, k)
  PROVE  TypeInv'
<1> USE TypeParts, TypePartsNext
<1>1. ASSUME NEW k \in SubTask, RetainGet(c, k) PROVE TypeInv'
  <2>1. PICK job \in {rows[k].job} \cup (IF StorageMayFail THEN {NoJob} ELSE {}) :
          retainer' = [retainer EXCEPT ![c] = [pc |-> "put", key |-> k, job |-> job]]
    BY <1>1 DEF RetainGet
  <2>2. job \in Job
    BY <2>1, Blanks DEF TablesTyped, Row
  <2>3. RetainersTyped'
    BY <2>1, <2>2 DEF RetainersTyped, RetainerSet
  <2>4. GhostsTyped'
    BY <1>1, PcsConstants DEF RetainGet, GhostsTyped
  <2> QED BY <1>1, <2>3, <2>4
        DEF RetainGet, tables, TablesTyped, AskersTyped, BuildersTyped, RestTyped
<1>2. CASE RetainPut(c)
  <2>1. retainer[c].key \in SubTask /\ retainer[c].job \in Job
    BY <1>2 DEF RetainPut, RetainersTyped, RetainerSet
  <2>2. TablesTyped' /\ BuildersTyped'
    <3>1. CASE Upsert(retainer[c].key, retainer[c].job)
               /\ IF retainer[c].job.requested
                  THEN SpawnBuild(retainer[c].key, retainer[c].job)
                  ELSE UNCHANGED builder
      BY <2>1, <3>1, UpsertEffect, SpawnTyped DEF TablesTyped, TypeInv, BuildersTyped
    <3>2. CASE UNCHANGED <<tables, builder>>
      BY <3>2 DEF tables, TablesTyped, BuildersTyped
    <3> QED BY <1>2, <3>1, <3>2 DEF RetainPut
  <2>3. RetainersTyped'
    BY <1>2, Blanks DEF RetainPut, RetainersTyped, RetainerSet, IdleRetainer
  <2> QED BY <1>2, <2>2, <2>3 DEF RetainPut, AskersTyped, RestTyped, GhostsTyped, ghosts
<1> QED BY <1>1, <1>2

\* The steps of the two request handlers keep the types.
LEMMA AskTypes ==
  ASSUME TypeInv, NEW a \in Asker,
         \/ Lookup(a) \/ Mark(a) \/ OpenStore(a) \/ Spawn(a)
         \/ \E k \in SubTask : PcsRequest(a, k) \/ \E h \in Hash : OpenRequest(a, k, h)
  PROVE  TypeInv'
<1> USE TypeParts, TypePartsNext
<1>0. asker[a] \in AskerSet
  BY DEF AskersTyped
<1>1. ASSUME NEW k \in SubTask, PcsRequest(a, k) PROVE TypeInv'
  <2>1. [pc |-> "lookup", key |-> k, left |-> LookupAttempts, job |-> NoJob] \in AskerSet
    BY Blanks, PcsConstants DEF AskerSet
  <2>2. AskersTyped'
    BY <1>1, <2>1, SetAsker, PcsConstants DEF PcsRequest
  <2>3. GhostsTyped'
    BY <1>1, PcsConstants DEF PcsRequest, GhostsTyped
  <2> QED BY <1>1, <2>2, <2>3
        DEF PcsRequest, tables, TablesTyped, RetainersTyped, BuildersTyped, RestTyped
<1>2. ASSUME NEW k \in SubTask, NEW h \in Hash, OpenRequest(a, k, h) PROVE TypeInv'
  <2>1. [pc |-> "openStore", key |-> k, left |-> 0,
         job |-> [requested |-> TRUE, leaf |-> None, open |-> h]] \in AskerSet
    BY PcsConstants DEF AskerSet, Job
  <2>2. AskersTyped'
    <3>1. CASE cache[k] = h
      BY <1>2, <2>1, <3>1, SetAsker DEF OpenRequest
    <3>2. CASE cache[k] # h
      BY <1>2, <3>2 DEF OpenRequest, AskersTyped
    <3> QED BY <3>1, <3>2
  <2>3. GhostsTyped'
    BY <1>2, PcsConstants DEF OpenRequest, GhostsTyped
  <2> QED BY <1>2, <2>2, <2>3
        DEF OpenRequest, tables, TablesTyped, RetainersTyped, BuildersTyped, RestTyped
<1>3. CASE Lookup(a)
  <2>1. asker[a].key \in SubTask
    BY <1>3 DEF Lookup, AskersTyped
  <2>2. rows[asker[a].key] \in Row
    BY <2>1 DEF TablesTyped
  <2>3. [rows[asker[a].key].job EXCEPT !.requested = TRUE] \in Job
    BY <2>2 DEF Row, Job
  <2>4. AskersTyped'
    <3>1. CASE asker' = [asker EXCEPT ![a] =
             [pc |-> IF rows[asker[a].key].job.requested THEN "spawn" ELSE "mark",
              key |-> asker[a].key, left |-> 0,
              job |-> [rows[asker[a].key].job EXCEPT !.requested = TRUE]]]
      BY <2>1, <2>3, <3>1, PcsConstants DEF AskersTyped, AskerSet
    <3>2. CASE asker' = [asker EXCEPT ![a] = IdleAsker]
      BY <3>2, Blanks DEF AskersTyped, AskerSet, IdleAsker
    <3>3. CASE /\ asker[a].left # 1
               /\ asker' = [asker EXCEPT ![a] = [asker[a] EXCEPT !.left = @ - 1]]
      <4>1. asker[a].left \in 0..LookupAttempts /\ asker[a].left # 0
        BY <1>0, <1>3 DEF AskersTyped, AskerSet, Lookup
      <4>2. asker[a].left - 1 \in 0..LookupAttempts /\ asker[a].left - 1 # 0
        BY <3>3, <4>1, PcsConstants
      <4>3. [asker[a] EXCEPT !.left = @ - 1] \in AskerSet
        BY <1>0, <4>2 DEF AskerSet
      <4>4. [asker[a] EXCEPT !.left = @ - 1].key = asker[a].key
            /\ [asker[a] EXCEPT !.left = @ - 1].left = asker[a].left - 1
        BY <1>0 DEF AskerSet
      <4> QED BY <2>1, <3>3, <4>2, <4>3, <4>4, SetAsker
    <3>4. CASE HasRow(asker[a].key)
               \/ asker' = [asker EXCEPT ![a] = IdleAsker]
      BY <1>3, <3>1, <3>2, <3>4 DEF Lookup
    <3>5. CASE /\ ~HasRow(asker[a].key)
               /\ asker' = [asker EXCEPT ![a] =
                    IF asker[a].left = 1 THEN IdleAsker ELSE [asker[a] EXCEPT !.left = @ - 1]]
      <4>1. CASE asker[a].left = 1
        <5>1. asker' = [asker EXCEPT ![a] = IdleAsker]
          BY <3>5, <4>1
        <5> QED BY <3>2, <5>1
      <4>2. CASE asker[a].left # 1
        <5>1. asker' = [asker EXCEPT ![a] = [asker[a] EXCEPT !.left = @ - 1]]
          BY <3>5, <4>2
        <5> QED BY <3>3, <4>2, <5>1
      <4> QED BY <4>1, <4>2
    <3> QED BY <1>3, <3>4, <3>5 DEF Lookup
  <2> QED BY <1>3, <2>4
        DEF Lookup, tables, ghosts, TablesTyped, RetainersTyped, BuildersTyped, RestTyped,
            GhostsTyped
<1>4. CASE Mark(a) \/ OpenStore(a)
  <2>1. asker[a].key \in SubTask /\ asker[a].job \in Job /\ StoreRequest(a)
    BY <1>0, <1>4 DEF Mark, OpenStore, AskersTyped, AskerSet
  <2>2. TablesTyped' /\ AskersTyped' /\ promise' \in [SubTask -> {"none", "stored", "answered"}]
    <3>1. CASE /\ Upsert(asker[a].key, asker[a].job)
               /\ promise' = [promise EXCEPT ![asker[a].key] = IF @ = "none" THEN "stored" ELSE @]
               /\ asker' = [asker EXCEPT ![a].pc = "spawn"]
      <4>1. TablesTyped'
        BY <2>1, <3>1, UpsertEffect DEF TablesTyped, TypeInv
      <4>2. AskersTyped'
        BY <1>0, <2>1, <3>1 DEF AskersTyped, AskerSet
      <4> QED BY <3>1, <4>1, <4>2 DEF GhostsTyped
    <3>2. CASE /\ asker' = [asker EXCEPT ![a] = IdleAsker]
               /\ UNCHANGED <<tables, promise>>
      BY <3>2, Blanks DEF AskersTyped, AskerSet, IdleAsker, tables, TablesTyped, GhostsTyped
    <3> QED BY <2>1, <3>1, <3>2 DEF StoreRequest
  <2> QED BY <1>4, <2>2
        DEF Mark, OpenStore, RetainersTyped, BuildersTyped, RestTyped, GhostsTyped
<1>5. CASE Spawn(a)
  <2>1. asker[a].key \in SubTask /\ asker[a].job \in Job
    BY <1>0, <1>5 DEF Spawn, AskersTyped, AskerSet
  <2>2. BuildersTyped'
    BY <1>5, <2>1, SpawnTyped DEF Spawn
  <2>3. AskersTyped'
    BY <1>5, Blanks DEF Spawn, AskersTyped, AskerSet, IdleAsker
  <2> QED BY <1>5, <2>2, <2>3
        DEF Spawn, tables, ghosts, TablesTyped, RetainersTyped, RestTyped, GhostsTyped
<1> QED BY <1>1, <1>2, <1>3, <1>4, <1>5

\* The steps of try_build_and_deliver keep the types.
LEMMA BuildTypes ==
  ASSUME TypeInv, NEW b \in Builder, BuilderStep(b)
  PROVE  TypeInv'
<1> USE TypeParts, TypePartsNext
<1>0. builder[b] \in BuilderSet
  BY DEF BuildersTyped
<1>1. CASE Claim(b)
  <2>1. builder[b].key \in SubTask
    BY <1>1 DEF Claim, BuildersTyped
  <2>2. BuildersTyped'
    <3>1. CASE builder' = [builder EXCEPT ![b] = IdleBuilder]
      BY <3>1, FreeBuilder
    <3>2. CASE Goto(b, "send") \/ Goto(b, "build")
      BY <1>1, <3>2, MoveBuilder DEF Claim
    <3> QED BY <1>1, <3>1, <3>2 DEF Claim
  <2>3. RestTyped'
    BY <1>1, <2>1 DEF Claim, RestTyped
  <2> QED BY <1>1, <2>2, <2>3
        DEF Claim, tables, ghosts, TablesTyped, RetainersTyped, AskersTyped, GhostsTyped
<1>2. CASE Build(b)
  <2>1. BuildersTyped'
    <3>1. builder[b].job \in Job
      BY <1>0 DEF BuilderSet
    <3>2. DEFINE leaf == IF builder[b].job.open # None THEN builder[b].job.open ELSE Own
                 r == [builder[b] EXCEPT !.pc = "store", !.job.leaf = leaf]
    <3>3. leaf \in Source
      BY <3>1 DEF Job, Source
    <3>4. [builder[b].job EXCEPT !.leaf = leaf] \in Job
      BY <3>1, <3>3 DEF Job
    <3>5. r \in BuilderSet /\ r.key = builder[b].key
      BY <1>0, <3>4 DEF BuilderSet
    <3>6. builder' = [builder EXCEPT ![b] = r]
      BY <1>0, <1>2 DEF Build, BuildersTyped, BuilderSet
    <3> QED BY <1>2, <3>5, <3>6 DEF Build, BuildersTyped
  <2> QED BY <1>2, <2>1
        DEF Build, tables, ghosts, TablesTyped, RetainersTyped, AskersTyped, RestTyped,
            GhostsTyped
<1>3. CASE BuildFails(b) \/ SendFails(b)
  <2>1. BuildersTyped' /\ RestTyped'
    BY <1>3, FreeBuilder DEF BuildFails, SendFails, Release, RestTyped
  <2> QED BY <1>3, <2>1
        DEF BuildFails, SendFails, tables, ghosts, TablesTyped, RetainersTyped, AskersTyped,
            GhostsTyped
<1>4. CASE BuildRefused(b)
  <2>1. BuildersTyped'
    BY <1>4, MoveBuilder DEF BuildRefused
  <2> QED BY <1>4, <2>1
        DEF BuildRefused, tables, ghosts, TablesTyped, RetainersTyped, AskersTyped, RestTyped,
            GhostsTyped
<1>5. CASE Store(b)
  <2>1. builder[b].key \in SubTask /\ builder[b].job \in Job
    BY <1>0, <1>5 DEF Store, BuildersTyped, BuilderSet
  <2>2. TablesTyped' /\ BuildersTyped' /\ RestTyped'
    <3>1. CASE Upsert(builder[b].key, builder[b].job) /\ Goto(b, "send") /\ UNCHANGED inFlight
      <4>1. TablesTyped'
        BY <2>1, <3>1, UpsertEffect DEF TablesTyped, TypeInv
      <4>2. BuildersTyped'
        BY <1>5, <3>1, MoveBuilder DEF Store
      <4> QED BY <1>5, <3>1, <4>1, <4>2 DEF Store, RestTyped
    <3>2. CASE Release(b) /\ UNCHANGED tables
      BY <1>5, <3>2, FreeBuilder DEF Release, Store, RestTyped, TablesTyped, tables
    <3> QED BY <1>5, <3>1, <3>2 DEF Store
  <2> QED BY <1>5, <2>2 DEF Store, ghosts, RetainersTyped, AskersTyped, GhostsTyped
<1>6. CASE SendAcked(b)
  <2>1. BuildersTyped'
    <3>1. DEFINE r == [builder[b] EXCEPT !.pc = "delete", !.refused = (builder[b].pc = "refuse")]
    <3>2. r \in BuilderSet /\ r.key = builder[b].key
      BY <1>0 DEF BuilderSet
    <3>3. builder' = [builder EXCEPT ![b] = r]
      BY <1>0, <1>6 DEF SendAcked, BuildersTyped, BuilderSet
    <3> QED BY <1>6, <3>2, <3>3 DEF SendAcked, BuildersTyped
  <2>2. GhostsTyped'
    BY <1>6 DEF SendAcked, GhostsTyped
  <2> QED BY <1>6, <2>1, <2>2
        DEF SendAcked, tables, TablesTyped, RetainersTyped, AskersTyped, RestTyped
<1>7. CASE Delete(b)
  <2>1. TablesTyped' /\ BuildersTyped' /\ RestTyped'
    <3>1. TablesTyped'
      BY <1>7, Blanks DEF Delete, DeleteByKey, TablesTyped, tables
    <3>2. CASE Goto(b, "clear") /\ UNCHANGED inFlight
      BY <1>7, <3>1, <3>2, MoveBuilder DEF Delete, RestTyped
    <3>3. CASE Release(b)
      BY <1>7, <3>1, <3>3, FreeBuilder DEF Delete, Release, RestTyped
    <3> QED BY <1>7, <3>2, <3>3 DEF Delete
  <2> QED BY <1>7, <2>1 DEF Delete, ghosts, RetainersTyped, AskersTyped, GhostsTyped
<1>8. CASE Clear(b)
  <2>1. BuildersTyped'
    BY <1>8, FreeBuilder DEF Clear, Release
  <2>2. RestTyped'
    BY <1>8 DEF Clear, Release, RestTyped
  <2> QED BY <1>8, <2>1, <2>2
        DEF Clear, tables, ghosts, TablesTyped, RetainersTyped, AskersTyped, GhostsTyped
<1> QED BY <1>1, <1>2, <1>3, <1>4, <1>5, <1>6, <1>7, <1>8 DEF BuilderStep

\* The steps of the retry loop, of time and of a restart keep the types.
LEMMA LoopTypes ==
  ASSUME TypeInv,
         \/ LoopList \/ LoopNext \/ Crash
         \/ \E k \in SubTask : Expire(k) \/ \E h \in Hash : CacheOpenCall(k, h)
  PROVE  TypeInv'
<1> USE TypeParts, TypePartsNext
<1>1. CASE LoopList
  <2>1. todo' \in SUBSET Entry
    BY <1>1 DEF LoopList, Entry, TablesTyped
  <2> QED BY <1>1, <2>1
        DEF LoopList, tables, ghosts, TablesTyped, RetainersTyped, AskersTyped, BuildersTyped,
            RestTyped, GhostsTyped
<1>2. ASSUME NEW e \in todo, LoopSkip(e) PROVE TypeInv'
  <2>1. TablesTyped'
    BY <1>2, Blanks DEF LoopSkip, DeleteById, TablesTyped, tables
  <2> QED BY <1>2, <2>1
        DEF LoopSkip, ghosts, RetainersTyped, AskersTyped, BuildersTyped, RestTyped, GhostsTyped
<1>3. ASSUME NEW e \in todo, LoopRetry(e) PROVE TypeInv'
  <2>1. e.key \in SubTask /\ e.row.job \in Job
    BY DEF RestTyped, Entry, Row
  <2>2. BuildersTyped'
    BY <1>3, <2>1, FillBuilder DEF LoopRetry, Builder
  <2> QED BY <1>3, <2>2
        DEF LoopRetry, tables, ghosts, TablesTyped, RetainersTyped, AskersTyped, RestTyped,
            GhostsTyped
<1>4. CASE Crash
  <2>1. RetainersTyped' /\ AskersTyped' /\ BuildersTyped'
    BY <1>4, Blanks DEF Crash, RetainersTyped, AskersTyped, BuildersTyped, RetainerSet,
       AskerSet, BuilderSet, IdleRetainer, IdleAsker, IdleBuilder
  <2>2. GhostsTyped'
    BY <1>4, PcsConstants DEF Crash, GhostsTyped
  <2> QED BY <1>4, <2>1, <2>2 DEF Crash, tables, TablesTyped, RestTyped
<1>5. ASSUME NEW k \in SubTask, Expire(k) PROVE TypeInv'
  <2>1. [rows[k] EXCEPT !.late = TRUE] \in Row
    BY DEF TablesTyped, Row
  <2>2. TablesTyped'
    BY <1>5, <2>1 DEF Expire, TablesTyped, Row
  <2> QED BY <1>5, <2>2
        DEF Expire, ghosts, RetainersTyped, AskersTyped, BuildersTyped, RestTyped, GhostsTyped
<1>6. ASSUME NEW k \in SubTask, NEW h \in Hash, CacheOpenCall(k, h) PROVE TypeInv'
  <2>1. RestTyped'
    BY <1>6 DEF CacheOpenCall, RestTyped
  <2> QED BY <1>6, <2>1
        DEF CacheOpenCall, tables, ghosts, TablesTyped, RetainersTyped, AskersTyped,
            BuildersTyped, GhostsTyped
<1> QED BY <1>1, <1>2, <1>3, <1>4, <1>5, <1>6 DEF LoopNext

LEMMA TypeStep == TypeInv /\ [Next]_vars => TypeInv'
<1> SUFFICES ASSUME TypeInv, [Next]_vars PROVE TypeInv'
  OBVIOUS
<1>1. CASE UNCHANGED vars
  BY <1>1, TypeParts, TypePartsNext
     DEF vars, tables, ghosts, TablesTyped, RetainersTyped, AskersTyped, BuildersTyped,
         RestTyped, GhostsTyped
<1>2. CASE Next
  BY <1>2, RetainTypes, AskTypes, BuildTypes, LoopTypes DEF Next
<1> QED BY <1>1, <1>2

LEMMA InitTypes == Init => TypeInv
<1> SUFFICES ASSUME Init PROVE TypeInv
  OBVIOUS
<1>1. RetainersTyped /\ AskersTyped /\ BuildersTyped
  BY Blanks DEF Init, RetainersTyped, AskersTyped, BuildersTyped, RetainerSet, AskerSet,
     BuilderSet, IdleRetainer, IdleAsker, IdleBuilder
<1>2. TablesTyped /\ RestTyped /\ GhostsTyped
  BY Blanks, PcsConstants DEF Init, TablesTyped, RestTyped, GhostsTyped
<1> QED BY <1>1, <1>2, TypeParts

\* Every variable of the outbox keeps its type, in particular the row ids and the
\* lookup attempts stay in their ranges.
THEOREM PcsTypes == Spec => []TypeOK
<1>1. TypeInv /\ [Next]_vars => TypeInv'
  BY TypeStep
<1>2. TypeInv => TypeOK
  BY DEF TypeInv
<1> QED BY <1>1, <1>2, InitTypes, PTL DEF Spec

-----------------------------------------------------------------------------
(* Builds of one sub-task exclude each other                               *)

\* A step that starts, moves on or ends one builder, seen from IN_FLIGHT.
LEMMA ClaimsUnmoved ==
  ASSUME BuildersTyped, InFlightExact, NEW b \in Builder, inFlight' = inFlight,
         builder' \in [Builder -> BuilderSet],
         \A x \in Builder : x # b => builder'[x] = builder[x],
         Claimed(b)' <=> Claimed(b),
         Claimed(b) => builder'[b].key = builder[b].key
  PROVE  InFlightExact'
BY DEF InFlightExact, Claimed

LEMMA ClaimsReleased ==
  ASSUME BuildersTyped, InFlightExact, NEW b \in Builder, Claimed(b), Release(b)
  PROVE  InFlightExact'
<1>1. /\ builder'[b] = IdleBuilder
      /\ \A x \in Builder : x # b => builder'[x] = builder[x]
      /\ inFlight' = inFlight \ {builder[b].key}
  BY DEF Release, BuildersTyped
<1>2. ~Claimed(b)'
  BY <1>1 DEF Claimed, IdleBuilder
<1>3. \A x \in Builder : x # b => (Claimed(x)' <=> Claimed(x)) /\ builder'[x].key = builder[x].key
  BY <1>1 DEF Claimed
<1>4. \A x, y \in Builder : Claimed(x)' /\ Claimed(y)' /\ x # y => builder'[x].key # builder'[y].key
  BY <1>2, <1>3 DEF InFlightExact
<1>5. ASSUME NEW k PROVE k \in inFlight' <=> \E x \in Builder : Claimed(x)' /\ builder'[x].key = k
  <2>1. k \in inFlight <=> \E x \in Builder : Claimed(x) /\ builder[x].key = k
    BY DEF InFlightExact
  <2>2. \A x \in Builder : Claimed(x) /\ builder[x].key = builder[b].key => x = b
    BY DEF InFlightExact
  <2> QED BY <1>1, <1>2, <1>3, <2>1, <2>2
<1> QED BY <1>4, <1>5 DEF InFlightExact

LEMMA ClaimsClaimed ==
  ASSUME BuildersTyped, InFlightExact, NEW b \in Builder, Claim(b)
  PROVE  InFlightExact'
<1>1. CASE builder[b].key \in inFlight
  <2>1. builder' = [builder EXCEPT ![b] = IdleBuilder] /\ inFlight' = inFlight
    BY <1>1 DEF Claim
  <2>2. ~Claimed(b) /\ ~Claimed(b)'
    BY <2>1 DEF Claim, Claimed, IdleBuilder, BuildersTyped
  <2>3. BuildersTyped'
    BY <2>1, FreeBuilder
  <2> QED BY <2>1, <2>2, <2>3, ClaimsUnmoved DEF BuildersTyped
<1>2. CASE builder[b].key \notin inFlight
  <2>1. /\ inFlight' = inFlight \cup {builder[b].key}
        /\ Goto(b, IF builder[b].job.leaf # None THEN "send" ELSE "build")
    BY <1>2 DEF Claim
  <2>2. /\ builder'[b].pc \in {"send", "build"} /\ builder'[b].key = builder[b].key
        /\ \A x \in Builder : x # b => builder'[x] = builder[x]
    BY <2>1 DEF Goto, BuildersTyped, BuilderSet
  <2>3. ~Claimed(b) /\ Claimed(b)'
    BY <2>2 DEF Claim, Claimed
  <2>4. \A x \in Builder : x # b => (Claimed(x)' <=> Claimed(x)) /\ builder'[x].key = builder[x].key
    BY <2>2 DEF Claimed
  <2>5. \A x \in Builder : Claimed(x) => builder[x].key # builder[b].key
    BY <1>2 DEF InFlightExact
  <2>6. \A x, y \in Builder : Claimed(x)' /\ Claimed(y)' /\ x # y => builder'[x].key # builder'[y].key
    BY <2>2, <2>3, <2>4, <2>5 DEF InFlightExact
  <2>7. ASSUME NEW k PROVE k \in inFlight' <=> \E x \in Builder : Claimed(x)' /\ builder'[x].key = k
    <3>1. k \in inFlight <=> \E x \in Builder : Claimed(x) /\ builder[x].key = k
      BY DEF InFlightExact
    <3> QED BY <2>1, <2>2, <2>3, <2>4, <3>1
  <2> QED BY <2>6, <2>7 DEF InFlightExact
<1> QED BY <1>1, <1>2

\* A new build waits for its claim.
LEMMA ClaimsFilled ==
  ASSUME BuildersTyped, InFlightExact, NEW b \in Builder, builder[b].pc = "idle",
         NEW k \in SubTask, NEW job \in Job, inFlight' = inFlight,
         builder' = [builder EXCEPT
           ![b] = [pc |-> "claim", key |-> k, job |-> job, refused |-> FALSE]]
  PROVE  InFlightExact'
<1>1. BuildersTyped'
  BY FillBuilder
<1>2. ~Claimed(b) /\ ~Claimed(b)'
  BY DEF Claimed, BuildersTyped
<1>3. \A x \in Builder : x # b => builder'[x] = builder[x]
  BY DEF BuildersTyped
<1> QED BY <1>1, <1>2, <1>3, ClaimsUnmoved DEF BuildersTyped

LEMMA ClaimsSpawned ==
  ASSUME BuildersTyped, InFlightExact, NEW k \in SubTask, NEW job \in Job,
         inFlight' = inFlight, SpawnBuild(k, job)
  PROVE  InFlightExact'
BY SpawnEffect, ClaimsFilled

LEMMA InFlightStep == TypeInv /\ InFlightExact /\ [Next]_vars => InFlightExact'
<1> SUFFICES ASSUME TypeInv, InFlightExact, [Next]_vars PROVE InFlightExact'
  OBVIOUS
<1>0. BuildersTyped /\ RetainersTyped /\ AskersTyped /\ RestTyped /\ BuildersTyped'
  BY TypeParts, TypePartsNext, TypeStep
<1>1. ASSUME UNCHANGED <<builder, inFlight>> PROVE InFlightExact'
  BY <1>1 DEF InFlightExact, Claimed
<1>2. ASSUME NEW c \in Retainer, RetainPut(c) PROVE InFlightExact'
  <2>1. retainer[c].key \in SubTask /\ retainer[c].job \in Job /\ inFlight' = inFlight
    BY <1>0, <1>2 DEF RetainPut, RetainersTyped, RetainerSet
  <2> QED BY <1>0, <1>1, <1>2, <2>1, ClaimsSpawned DEF RetainPut
<1>3. ASSUME NEW a \in Asker, Spawn(a) PROVE InFlightExact'
  <2>1. asker[a].key \in SubTask /\ asker[a].job \in Job /\ inFlight' = inFlight
    BY <1>0, <1>3 DEF Spawn, AskersTyped, AskerSet
  <2> QED BY <1>0, <1>3, <2>1, ClaimsSpawned DEF Spawn
<1>4. ASSUME NEW b \in Builder, BuilderStep(b) PROVE InFlightExact'
  <2>1. CASE Claim(b)
    BY <1>0, <2>1, ClaimsClaimed
  <2>2. ASSUME Claimed(b), Release(b) PROVE InFlightExact'
    BY <1>0, <2>2, ClaimsReleased
  <2>3. ASSUME Claimed(b), inFlight' = inFlight,
               NEW pc \in {"build", "store", "send", "refuse", "delete", "clear"},
               \A x \in Builder : x # b => builder'[x] = builder[x],
               builder'[b].pc = pc, builder'[b].key = builder[b].key
        PROVE  InFlightExact'
    <3>1. Claimed(b)'
      BY <2>3 DEF Claimed
    <3> QED BY <1>0, <2>3, <3>1, ClaimsUnmoved DEF BuildersTyped
  <2>4. ASSUME NEW pc \in {"refuse", "send", "clear"}, Goto(b, pc), Claimed(b),
               inFlight' = inFlight
        PROVE  InFlightExact'
    <3>1. /\ \A x \in Builder : x # b => builder'[x] = builder[x]
          /\ builder'[b].pc = pc /\ builder'[b].key = builder[b].key
      BY <1>0, <2>4 DEF Goto, BuildersTyped, BuilderSet
    <3> QED BY <2>3, <2>4, <3>1
  <2>5. CASE Build(b)
    <3>1. /\ \A x \in Builder : x # b => builder'[x] = builder[x]
          /\ builder'[b].pc = "store" /\ builder'[b].key = builder[b].key
          /\ inFlight' = inFlight /\ Claimed(b)
      BY <1>0, <2>5 DEF Build, BuildersTyped, BuilderSet, Claimed
    <3> QED BY <2>3, <3>1
  <2>6. CASE SendAcked(b)
    <3>1. /\ \A x \in Builder : x # b => builder'[x] = builder[x]
          /\ builder'[b].pc = "delete" /\ builder'[b].key = builder[b].key
          /\ inFlight' = inFlight /\ Claimed(b)
      BY <1>0, <2>6 DEF SendAcked, BuildersTyped, BuilderSet, Claimed
    <3> QED BY <2>3, <3>1
  <2>7. CASE BuildFails(b) \/ SendFails(b) \/ Clear(b)
    BY <2>2, <2>7 DEF BuildFails, SendFails, Clear, Claimed
  <2>8. CASE BuildRefused(b)
    BY <2>4, <2>8 DEF BuildRefused, Claimed
  <2>9. CASE Store(b)
    BY <2>2, <2>4, <2>9 DEF Store, Claimed
  <2>10. CASE Delete(b)
    BY <2>2, <2>4, <2>10 DEF Delete, Claimed
  <2> QED BY <1>4, <2>1, <2>5, <2>6, <2>7, <2>8, <2>9, <2>10 DEF BuilderStep
<1>5. ASSUME NEW e \in todo, LoopRetry(e) PROVE InFlightExact'
  <2>1. e.key \in SubTask /\ e.row.job \in Job /\ inFlight' = inFlight
    BY <1>0, <1>5 DEF LoopRetry, RestTyped, Entry, Row
  <2> QED BY <1>0, <1>5, <2>1, ClaimsFilled DEF LoopRetry, Builder
<1>6. CASE Crash
  BY <1>6 DEF Crash, InFlightExact, Claimed, IdleBuilder
<1>7. ASSUME NEW e \in todo, LoopSkip(e) PROVE InFlightExact'
  BY <1>1, <1>7 DEF LoopSkip
<1>8. CASE LoopList \/ UNCHANGED vars
  BY <1>1, <1>8 DEF LoopList, vars
<1>9. ASSUME NEW c \in Retainer, NEW k \in SubTask, RetainGet(c, k) PROVE InFlightExact'
  BY <1>1, <1>9 DEF RetainGet
<1>10. ASSUME NEW a \in Asker, Lookup(a) \/ Mark(a) \/ OpenStore(a) PROVE InFlightExact'
  BY <1>1, <1>10 DEF Lookup, Mark, OpenStore
<1>11. ASSUME NEW a \in Asker, NEW k \in SubTask,
              PcsRequest(a, k) \/ \E h \in Hash : OpenRequest(a, k, h)
       PROVE  InFlightExact'
  BY <1>1, <1>11 DEF PcsRequest, OpenRequest
<1>12. ASSUME NEW k \in SubTask, Expire(k) \/ \E h \in Hash : CacheOpenCall(k, h)
       PROVE  InFlightExact'
  BY <1>1, <1>12 DEF Expire, CacheOpenCall
<1> QED BY <1>2, <1>3, <1>4, <1>5, <1>6, <1>7, <1>8, <1>9, <1>10, <1>11, <1>12
      DEF Next, LoopNext

\* A sub-task never has two builds past claim_inflight, and IN_FLIGHT holds exactly
\* the keys being built: for any number of requests, builds and crashes.
THEOREM BuildsExclude == Spec => []InFlightExact
<1>1. Init => InFlightExact
  BY DEF Init, InFlightExact, Claimed, IdleBuilder
<1>2. TypeInv /\ InFlightExact /\ [Next]_vars => (TypeInv /\ InFlightExact)'
  BY TypeStep, InFlightStep
<1> QED BY <1>1, <1>2, InitTypes, PTL DEF Spec

-----------------------------------------------------------------------------
(* Proving only what was asked for, sending what the job names             *)

\* The built PCS of a job, if there is one, comes from the proof the job names.
Fits(job) == job.leaf \in {None, IF job.open # None THEN job.open ELSE Own}

\* A job of key k: requested only if the orchestrator asked for k.
Sound(k, job) == (job.requested => k \in asked) /\ Fits(job)

RowsSound == \A k \in SubTask : Sound(k, rows[k].job)
RetainersSound == \A c \in Retainer :
  retainer[c].pc = "put" => Sound(retainer[c].key, retainer[c].job)
AskersSound == \A a \in Asker :
  asker[a].pc # "idle" => asker[a].key \in asked /\ Fits(asker[a].job)
BuildersSound == \A b \in Builder :
  /\ builder[b].pc # "idle" => builder[b].key \in asked /\ Fits(builder[b].job)
  /\ builder[b].pc \in {"store", "send"} => builder[b].job.leaf # None
TodoSound == \A e \in todo : Sound(e.key, e.row.job)

JobsInv == RowsSound /\ RetainersSound /\ AskersSound /\ BuildersSound /\ TodoSound

LEMMA BlankSound == ASSUME NEW k PROVE Sound(k, NoJob) /\ Fits(NoJob)
BY DEF Sound, Fits, NoJob

\* A new build of a sound job that was asked for.
LEMMA FilledSound ==
  ASSUME BuildersTyped, BuildersSound, asked' = asked, NEW b \in Builder,
         NEW k \in asked, NEW job, Fits(job),
         builder' = [builder EXCEPT
           ![b] = [pc |-> "claim", key |-> k, job |-> job, refused |-> FALSE]]
  PROVE  BuildersSound'
BY DEF BuildersTyped, BuildersSound, Fits

LEMMA SpawnedSound ==
  ASSUME BuildersTyped, BuildersSound, asked' = asked, NEW k \in asked, NEW job, Fits(job),
         SpawnBuild(k, job)
  PROVE  BuildersSound'
BY SpawnEffect, FilledSound

LEMMA FreedSound ==
  ASSUME BuildersTyped, BuildersSound, asked' = asked, NEW b \in Builder,
         builder' = [builder EXCEPT ![b] = IdleBuilder]
  PROVE  BuildersSound'
BY DEF BuildersTyped, BuildersSound, IdleBuilder, Fits

\* A builder that moves on with its job.
LEMMA MovedSound ==
  ASSUME BuildersTyped, BuildersSound, asked' = asked, NEW b \in Builder,
         builder[b].pc # "idle", NEW pc \in {"build", "send", "refuse", "delete", "clear"},
         Goto(b, pc), pc = "send" => builder[b].job.leaf # None
  PROVE  BuildersSound'
<1>1. /\ \A x \in Builder : x # b => builder'[x] = builder[x]
      /\ builder'[b].pc = pc /\ builder'[b].key = builder[b].key
      /\ builder'[b].job = builder[b].job
  BY DEF Goto, BuildersTyped, BuilderSet
<1> QED BY <1>1 DEF BuildersSound, Fits

LEMMA UpsertSound ==
  ASSUME TypeInv, RowsSound, asked' = asked, NEW k \in SubTask, NEW job \in Job,
         Sound(k, job), Upsert(k, job)
  PROVE  RowsSound'
<1>1. rows'[k].job = job /\ \A x \in SubTask : x # k => rows'[x] = rows[x]
  BY UpsertEffect DEF TypeInv
<1> QED BY <1>1 DEF RowsSound, Sound, Fits

LEMMA JobsStep == TypeInv /\ JobsInv /\ [Next]_vars => JobsInv'
<1> SUFFICES ASSUME TypeInv, JobsInv, [Next]_vars PROVE JobsInv'
  OBVIOUS
<1>0. TablesTyped /\ BuildersTyped /\ RetainersTyped /\ AskersTyped /\ RestTyped
  BY TypeParts
<1> USE DEF JobsInv
<1>1. ASSUME asked' = asked
      PROVE  /\ UNCHANGED rows => RowsSound'
             /\ UNCHANGED retainer => RetainersSound'
             /\ UNCHANGED asker => AskersSound'
             /\ UNCHANGED builder => BuildersSound'
             /\ UNCHANGED todo => TodoSound'
  BY <1>1 DEF RowsSound, RetainersSound, AskersSound, BuildersSound, TodoSound, Sound, Fits
<1>2. ASSUME NEW c \in Retainer, NEW k \in SubTask, RetainGet(c, k) PROVE JobsInv'
  <2>1. PICK job \in {rows[k].job} \cup (IF StorageMayFail THEN {NoJob} ELSE {}) :
          retainer' = [retainer EXCEPT ![c] = [pc |-> "put", key |-> k, job |-> job]]
    BY <1>2 DEF RetainGet
  <2>2. Sound(k, job)
    BY <2>1, BlankSound DEF RowsSound
  <2>3. RetainersSound'
    BY <1>0, <1>2, <2>1, <2>2 DEF RetainGet, RetainersSound, RetainersTyped, Sound, Fits
  <2> QED BY <1>1, <1>2, <2>3 DEF RetainGet, tables
<1>3. ASSUME NEW c \in Retainer, RetainPut(c) PROVE JobsInv'
  <2>1. /\ retainer[c].key \in SubTask /\ retainer[c].job \in Job
        /\ Sound(retainer[c].key, retainer[c].job) /\ asked' = asked
    BY <1>0, <1>3 DEF RetainPut, RetainersTyped, RetainerSet, RetainersSound, ghosts
  <2>2. RowsSound'
    BY <1>1, <1>3, <2>1, UpsertSound DEF RetainPut, tables
  <2>3. BuildersSound'
    BY <1>0, <1>1, <1>3, <2>1, SpawnedSound DEF RetainPut, Sound
  <2>4. RetainersSound'
    BY <1>0, <1>3, <2>1
       DEF RetainPut, RetainersSound, RetainersTyped, IdleRetainer, Sound, Fits
  <2> QED BY <1>1, <1>3, <2>1, <2>2, <2>3, <2>4 DEF RetainPut
<1>4. ASSUME NEW a \in Asker, NEW k \in SubTask, PcsRequest(a, k) PROVE JobsInv'
  <2>1. asked' = asked \cup {k}
    BY <1>4 DEF PcsRequest
  <2>2. AskersSound'
    BY <1>0, <1>4, <2>1, BlankSound DEF PcsRequest, AskersSound, AskersTyped, Fits
  <2> QED BY <1>4, <2>1, <2>2 DEF PcsRequest, tables, RowsSound, RetainersSound,
        BuildersSound, TodoSound, Sound, Fits
<1>5. ASSUME NEW a \in Asker, NEW k \in SubTask, NEW h \in Hash, OpenRequest(a, k, h)
      PROVE  JobsInv'
  <2>1. asked' = asked \cup {k}
    BY <1>5 DEF OpenRequest
  <2>2. AskersSound'
    BY <1>0, <1>5, <2>1 DEF OpenRequest, AskersSound, AskersTyped, Fits
  <2> QED BY <1>5, <2>1, <2>2 DEF OpenRequest, tables, RowsSound, RetainersSound,
        BuildersSound, TodoSound, Sound, Fits
<1>6. ASSUME NEW a \in Asker, Lookup(a) PROVE JobsInv'
  <2>1. asker[a].key \in SubTask /\ asker[a].key \in asked /\ Fits(asker[a].job)
    BY <1>0, <1>6 DEF Lookup, AskersTyped, AskersSound
  <2>2. Fits([rows[asker[a].key].job EXCEPT !.requested = TRUE])
    BY <1>0, <2>1 DEF RowsSound, Sound, Fits, TablesTyped, Row, Job
  <2>3. asked' = asked
    BY <1>6 DEF Lookup, ghosts
  <2>4. /\ asker'[a].pc # "idle" => asker'[a].key \in asked /\ Fits(asker'[a].job)
        /\ \A x \in Asker : x # a => asker'[x] = asker[x]
    <3>0. asker \in [Asker -> AskerSet]
      BY <1>0 DEF AskersTyped
    <3>1. CASE asker' = [asker EXCEPT ![a] =
             [pc |-> IF rows[asker[a].key].job.requested THEN "spawn" ELSE "mark",
              key |-> asker[a].key, left |-> 0,
              job |-> [rows[asker[a].key].job EXCEPT !.requested = TRUE]]]
      BY <2>1, <2>2, <3>0, <3>1
    <3>2. CASE asker' = [asker EXCEPT ![a] = IdleAsker]
      BY <3>0, <3>2 DEF IdleAsker
    <3>3. CASE asker' = [asker EXCEPT ![a] = [asker[a] EXCEPT !.left = @ - 1]]
      <4>1. asker'[a] = [asker[a] EXCEPT !.left = @ - 1]
        BY <3>0, <3>3
      <4>2. asker'[a].key = asker[a].key /\ asker'[a].job = asker[a].job
        BY <3>0, <4>1 DEF AskerSet
      <4> QED BY <2>1, <3>0, <3>3, <4>2
    <3> QED BY <1>6, <3>1, <3>2, <3>3 DEF Lookup
  <2>5. AskersSound'
    BY <2>3, <2>4 DEF AskersSound, Fits
  <2> QED BY <1>1, <1>6, <2>3, <2>5 DEF Lookup, tables
<1>7. ASSUME NEW a \in Asker, Mark(a) \/ OpenStore(a) PROVE JobsInv'
  <2>1. /\ asker[a].key \in SubTask /\ asker[a].job \in Job /\ StoreRequest(a)
        /\ asker[a].key \in asked /\ Fits(asker[a].job) /\ asked' = asked
    BY <1>0, <1>7 DEF Mark, OpenStore, AskersTyped, AskerSet, AskersSound
  <2>2. RowsSound'
    BY <1>1, <2>1, UpsertSound DEF StoreRequest, Sound, tables
  <2>3. /\ asker'[a].pc # "idle" => asker'[a].key = asker[a].key /\ asker'[a].job = asker[a].job
        /\ \A x \in Asker : x # a => asker'[x] = asker[x]
    BY <1>0, <2>1 DEF StoreRequest, AskersTyped, AskerSet, IdleAsker
  <2>4. AskersSound'
    BY <2>1, <2>3 DEF AskersSound, Fits
  <2> QED BY <1>1, <1>7, <2>1, <2>2, <2>4 DEF Mark, OpenStore
<1>8. ASSUME NEW a \in Asker, Spawn(a) PROVE JobsInv'
  <2>1. asker[a].key \in asked /\ Fits(asker[a].job) /\ asked' = asked
    BY <1>8 DEF Spawn, AskersSound, ghosts
  <2>2. BuildersSound'
    BY <1>0, <1>8, <2>1, SpawnedSound DEF Spawn
  <2>3. AskersSound'
    BY <1>0, <1>8, <2>1 DEF Spawn, AskersSound, AskersTyped, IdleAsker, Fits
  <2> QED BY <1>1, <1>8, <2>1, <2>2, <2>3 DEF Spawn, tables
<1>9. ASSUME NEW b \in Builder, BuilderStep(b) PROVE JobsInv'
  <2>1. asked' = asked /\ UNCHANGED <<retainer, asker, todo>>
    BY <1>9 DEF BuilderStep, Claim, Build, BuildFails, BuildRefused, Store, SendAcked,
       SendFails, Delete, Clear, ghosts
  <2>2. RowsSound'
    <3>1. CASE Store(b)
      <4>1. /\ builder[b].key \in SubTask /\ builder[b].job \in Job
            /\ Sound(builder[b].key, builder[b].job)
        BY <1>0, <3>1 DEF Store, BuildersTyped, BuilderSet, BuildersSound, Sound
      <4> QED BY <1>1, <2>1, <3>1, <4>1, UpsertSound DEF Store, tables
    <3>2. CASE Delete(b)
      BY <1>0, <2>1, <3>2, BlankSound
         DEF Delete, DeleteByKey, tables, TablesTyped, RowsSound, Sound, Fits, NoRow
    <3>3. CASE UNCHANGED rows
      BY <1>1, <2>1, <3>3
    <3> QED BY <1>9, <3>1, <3>2, <3>3 DEF BuilderStep, Claim, Build, BuildFails,
          BuildRefused, SendAcked, SendFails, Clear, tables
  <2>3. BuildersSound'
    <3>1. ASSUME Release(b) PROVE BuildersSound'
      BY <1>0, <2>1, <3>1, FreedSound DEF Release
    <3>2. CASE Claim(b)
      BY <1>0, <2>1, <3>2, FreedSound, MovedSound DEF Claim
    <3>3. CASE Build(b)
      <4>1. /\ \A x \in Builder : x # b => builder'[x] = builder[x]
            /\ builder'[b].pc = "store" /\ builder'[b].key = builder[b].key
            /\ builder'[b].job.open = builder[b].job.open
            /\ builder'[b].job.leaf = IF builder[b].job.open # None
                                      THEN builder[b].job.open ELSE Own
        BY <1>0, <3>3 DEF Build, BuildersTyped, BuilderSet, Job
      <4>2. builder[b].key \in asked
        BY <3>3 DEF Build, BuildersSound
      <4> QED BY <2>1, <4>1, <4>2, PcsConstants DEF BuildersSound, Fits
    <3>4. CASE SendAcked(b)
      <4>1. /\ \A x \in Builder : x # b => builder'[x] = builder[x]
            /\ builder'[b].pc = "delete" /\ builder'[b].key = builder[b].key
            /\ builder'[b].job = builder[b].job
        BY <1>0, <3>4 DEF SendAcked, BuildersTyped, BuilderSet
      <4> QED BY <2>1, <3>4, <4>1 DEF SendAcked, BuildersSound, Fits
    <3>5. CASE BuildRefused(b)
      BY <1>0, <2>1, <3>5, MovedSound DEF BuildRefused
    <3>6. CASE Store(b)
      <4>1. builder[b].job.leaf # None
        BY <3>6 DEF Store, BuildersSound
      <4> QED BY <1>0, <2>1, <3>1, <3>6, <4>1, MovedSound DEF Store
    <3>7. CASE Delete(b)
      BY <1>0, <2>1, <3>1, <3>7, MovedSound DEF Delete
    <3> QED BY <1>9, <3>1, <3>2, <3>3, <3>4, <3>5, <3>6, <3>7
          DEF BuilderStep, BuildFails, SendFails, Clear
  <2> QED BY <1>1, <2>1, <2>2, <2>3
<1>10. CASE LoopList
  <2>1. asked' = asked /\ TodoSound'
    BY <1>10 DEF LoopList, ghosts, TodoSound, RowsSound, Sound, Fits
  <2> QED BY <1>1, <1>10, <2>1 DEF LoopList, tables
<1>11. ASSUME NEW e \in todo, LoopSkip(e) PROVE JobsInv'
  <2>1. asked' = asked /\ TodoSound'
    BY <1>11 DEF LoopSkip, ghosts, TodoSound, Sound, Fits
  <2>2. RowsSound'
    BY <1>0, <1>1, <1>11, <2>1, BlankSound
       DEF LoopSkip, DeleteById, tables, TablesTyped, RowsSound, Sound, Fits, NoRow
  <2> QED BY <1>1, <1>11, <2>1, <2>2 DEF LoopSkip
<1>12. ASSUME NEW e \in todo, LoopRetry(e) PROVE JobsInv'
  <2>1. asked' = asked /\ TodoSound' /\ e.key \in asked /\ Fits(e.row.job)
    BY <1>12 DEF LoopRetry, ghosts, TodoSound, Sound, Fits
  <2>2. BuildersSound'
    BY <1>0, <1>12, <2>1, FilledSound DEF LoopRetry, Builder
  <2> QED BY <1>1, <1>12, <2>1, <2>2 DEF LoopRetry, tables
<1>13. CASE Crash
  BY <1>1, <1>13 DEF Crash, tables, RetainersSound, AskersSound, BuildersSound, TodoSound,
     IdleRetainer, IdleAsker, IdleBuilder
<1>14. ASSUME NEW k \in SubTask, Expire(k) PROVE JobsInv'
  <2>1. asked' = asked /\ \A x \in SubTask : rows'[x].job = rows[x].job
    BY <1>0, <1>14 DEF Expire, ghosts, TablesTyped, Row
  <2>2. RowsSound'
    BY <2>1 DEF RowsSound, Sound, Fits
  <2> QED BY <1>1, <1>14, <2>1, <2>2 DEF Expire
<1>15. ASSUME NEW k \in SubTask, NEW h \in Hash, CacheOpenCall(k, h) PROVE JobsInv'
  BY <1>1, <1>15 DEF CacheOpenCall, ghosts, tables
<1>16. CASE UNCHANGED vars
  BY <1>1, <1>16 DEF vars, ghosts, tables
<1> QED BY <1>2, <1>3, <1>4, <1>5, <1>6, <1>7, <1>8, <1>9, <1>10, <1>11, <1>12, <1>13,
           <1>14, <1>15, <1>16
      DEF Next, LoopNext

\* Core proves only what the orchestrator asked this node for, and what is sent to
\* the orchestrator was built from the proof its job names.
THEOREM BuildsSound == Spec => [](ProveOnlyIfAsked /\ LeafFitsJob)
<1>1. Init => JobsInv
  BY BlankSound DEF Init, JobsInv, RowsSound, RetainersSound, AskersSound, BuildersSound,
     TodoSound, NoRow, IdleRetainer, IdleAsker, IdleBuilder
<1>2. TypeInv /\ JobsInv /\ [Next]_vars => (TypeInv /\ JobsInv)'
  BY TypeStep, JobsStep
<1>3. JobsInv => ProveOnlyIfAsked /\ LeafFitsJob
  BY DEF JobsInv, BuildersSound, Fits, ProveOnlyIfAsked, LeafFitsJob
<1> QED BY <1>1, <1>2, <1>3, InitTypes, PTL DEF Spec

-----------------------------------------------------------------------------
(* Answers                                                                 *)

\* A build that deletes its row or clears the cache has had its answer acknowledged.
AnsweredFirst ==
  \A b \in Builder : builder[b].pc \in {"delete", "clear"} => promise[builder[b].key] = "answered"

\* No step takes an answer back.
AnswersKept == \A k \in SubTask : promise[k] = "answered" => promise'[k] = "answered"

\* A new build in an idle slot, a slot that becomes idle and one that moves on
\* before the answer keep AnsweredFirst.
LEMMA SlotChanged ==
  ASSUME BuildersTyped, AnsweredFirst, AnswersKept, NEW b \in Builder,
         \A x \in Builder \ {b} : builder'[x] = builder[x],
         builder'[b].pc \notin {"delete", "clear"}
  PROVE  AnsweredFirst'
BY DEF BuildersTyped, AnsweredFirst, AnswersKept

\* Steps of retention, of requests and of the retry loop.
LEMMA AnsweredOthers ==
  ASSUME TypeInv, AnsweredFirst,
         \/ \E c \in Retainer : RetainPut(c) \/ \E k \in SubTask : RetainGet(c, k)
         \/ \E a \in Asker :
              \/ Lookup(a) \/ Mark(a) \/ OpenStore(a) \/ Spawn(a)
              \/ \E k \in SubTask : PcsRequest(a, k) \/ \E h \in Hash : OpenRequest(a, k, h)
         \/ \E k \in SubTask : Expire(k) \/ \E h \in Hash : CacheOpenCall(k, h)
         \/ LoopList \/ LoopNext \/ Crash
  PROVE  AnsweredFirst' /\ AnswersKept
<1> USE DEF ghosts
<1>0. BuildersTyped /\ GhostsTyped
  BY TypeParts
<1>1. ASSUME NEW k, NEW job, SpawnBuild(k, job), AnswersKept PROVE AnsweredFirst'
  <2>1. PICK b \in Builder : builder' = [builder EXCEPT
          ![b] = [pc |-> "claim", key |-> k, job |-> job, refused |-> FALSE]]
    BY <1>1 DEF SpawnBuild, Builder
  <2> QED BY <1>0, <1>1, <2>1, SlotChanged DEF BuildersTyped
<1>2. ASSUME UNCHANGED builder, AnswersKept PROVE AnsweredFirst'
  BY <1>0, <1>2 DEF AnsweredFirst, AnswersKept, BuildersTyped
<1>3. ASSUME UNCHANGED promise PROVE AnswersKept
  BY <1>3 DEF AnswersKept
<1>4. ASSUME NEW c \in Retainer, RetainPut(c) \/ \E k \in SubTask : RetainGet(c, k)
      PROVE  AnsweredFirst' /\ AnswersKept
  BY <1>1, <1>2, <1>3, <1>4 DEF RetainPut, RetainGet
<1>5. ASSUME NEW a \in Asker, Mark(a) \/ OpenStore(a) PROVE AnsweredFirst' /\ AnswersKept
  <2>1. AnswersKept
    BY <1>0, <1>5 DEF Mark, OpenStore, StoreRequest, AnswersKept, GhostsTyped
  <2> QED BY <1>2, <1>5, <2>1 DEF Mark, OpenStore
<1>6. ASSUME NEW a \in Asker,
             \/ Lookup(a) \/ Spawn(a)
             \/ \E k \in SubTask : PcsRequest(a, k) \/ \E h \in Hash : OpenRequest(a, k, h)
      PROVE  AnsweredFirst' /\ AnswersKept
  BY <1>1, <1>2, <1>3, <1>6 DEF Lookup, Spawn, PcsRequest, OpenRequest
<1>7. ASSUME NEW k \in SubTask, Expire(k) \/ \E h \in Hash : CacheOpenCall(k, h)
      PROVE  AnsweredFirst' /\ AnswersKept
  BY <1>2, <1>3, <1>7 DEF Expire, CacheOpenCall
<1>8. CASE LoopList
  BY <1>2, <1>3, <1>8 DEF LoopList
<1>9. CASE LoopNext
  <2>1. PICK e \in todo : LoopSkip(e) \/ LoopRetry(e)
    BY <1>9 DEF LoopNext
  <2>2. CASE LoopSkip(e)
    BY <1>2, <1>3, <2>2 DEF LoopSkip
  <2>3. CASE LoopRetry(e)
    BY <1>0, <1>3, <2>3, SlotChanged DEF LoopRetry, BuildersTyped, Builder
  <2> QED BY <2>1, <2>2, <2>3
<1>10. CASE Crash
  BY <1>3, <1>10 DEF Crash, AnsweredFirst, IdleBuilder
<1> QED BY <1>4, <1>5, <1>6, <1>7, <1>8, <1>9, <1>10

\* Steps of a build: only an acknowledged send leads to "delete" and "clear".
LEMMA AnsweredBuilds ==
  ASSUME TypeInv, AnsweredFirst, NEW b \in Builder, BuilderStep(b)
  PROVE  AnsweredFirst' /\ AnswersKept
<1> USE DEF ghosts
<1>0. BuildersTyped /\ GhostsTyped
  BY TypeParts
<1>1. ASSUME UNCHANGED promise PROVE AnswersKept
  BY <1>1 DEF AnswersKept
<1>2. ASSUME UNCHANGED promise, builder' = [builder EXCEPT ![b] = IdleBuilder]
      PROVE  AnsweredFirst'
  BY <1>0, <1>1, <1>2, SlotChanged DEF IdleBuilder, BuildersTyped
<1>3. ASSUME UNCHANGED promise, NEW pc \in {"build", "store", "send", "refuse"}, Goto(b, pc)
      PROVE  AnsweredFirst'
  BY <1>0, <1>1, <1>3, SlotChanged DEF Goto, BuildersTyped, BuilderSet
<1>4. CASE Claim(b) \/ BuildFails(b) \/ BuildRefused(b) \/ Store(b) \/ SendFails(b)
  BY <1>1, <1>2, <1>3, <1>4 DEF Claim, BuildFails, BuildRefused, Store, SendFails, Release
<1>5. CASE Build(b)
  BY <1>0, <1>1, <1>5, SlotChanged DEF Build, BuildersTyped, BuilderSet
<1>6. CASE SendAcked(b)
  BY <1>0, <1>6 DEF SendAcked, BuildersTyped, BuilderSet, GhostsTyped, AnsweredFirst, AnswersKept
<1>7. CASE Delete(b)
  <2>1. CASE Goto(b, "clear")
    BY <1>0, <1>7, <2>1 DEF Delete, Goto, BuildersTyped, BuilderSet, AnsweredFirst, AnswersKept
  <2> QED BY <1>1, <1>2, <1>7, <2>1 DEF Delete, Release
<1>8. CASE Clear(b)
  BY <1>1, <1>2, <1>8 DEF Clear, Release
<1> QED BY <1>4, <1>5, <1>6, <1>7, <1>8 DEF BuilderStep

\* Only an acknowledged send is followed by the deletion of the row.
LEMMA AnsweredStep == TypeInv /\ AnsweredFirst /\ [Next]_vars => AnsweredFirst'
<1> SUFFICES ASSUME TypeInv, AnsweredFirst, [Next]_vars PROVE AnsweredFirst'
  OBVIOUS
<1>1. CASE UNCHANGED vars
  BY <1>1 DEF vars, ghosts, AnsweredFirst
<1>2. ASSUME NEW b \in Builder, BuilderStep(b) PROVE AnsweredFirst'
  BY <1>2, AnsweredBuilds
<1> QED BY <1>1, <1>2, AnsweredOthers DEF Next

-----------------------------------------------------------------------------
(* A stored request is kept                                                *)

\* What is at work on a request carries a job that says it was requested.
JobsRequested ==
  /\ \A a \in Asker : asker[a].pc \notin {"idle", "lookup"} => asker[a].job.requested
  /\ \A b \in Builder : builder[b].pc # "idle" => builder[b].job.requested

\* Row ids are those AUTOINCREMENT has given out, and name one key each, in the table
\* and in the retry loop's copy of it.
IdsUnique ==
  /\ \A k \in SubTask : rows[k].id < nextId
  /\ \A k, x \in SubTask : rows[k].id = rows[x].id /\ HasRow(k) => k = x
  /\ \A e \in todo : /\ e.row.id # 0 /\ e.row.id < nextId
                     /\ \A k \in SubTask : rows[k].id = e.row.id => k = e.key

DropInv == TypeInv /\ AnsweredFirst /\ JobsRequested /\ IdsUnique

\* upsert_pending_pcs leaves a row, with its id or a new one.
LEMMA UpsertRow ==
  ASSUME TypeOK, NEW k \in SubTask, NEW job \in Job, Upsert(k, job)
  PROVE  /\ HasRow(k)' /\ rows'[k].job = job
         /\ \/ rows'[k].id = rows[k].id /\ nextId' = nextId /\ HasRow(k)
            \/ rows'[k].id = nextId /\ nextId' = nextId + 1
         /\ \A x \in SubTask : x # k => rows'[x] = rows[x]
<1>1. CASE HasRow(k)
  <2>1. rows' = [rows EXCEPT ![k].job = job] /\ rows[k] \in Row /\ nextId' = nextId
    BY <1>1 DEF Upsert, TypeOK
  <2>2. rows'[k] = [rows[k] EXCEPT !.job = job]
    BY <2>1 DEF TypeOK
  <2>3. rows'[k].id = rows[k].id
    BY <2>1, <2>2 DEF Row
  <2> QED BY <1>1, <2>1, <2>3, UpsertEffect DEF HasRow
<1>2. CASE ~HasRow(k)
  <2>1. /\ rows' = [rows EXCEPT ![k] = [id |-> nextId, job |-> job, late |-> FALSE]]
        /\ nextId' = nextId + 1
    BY <1>2 DEF Upsert
  <2>2. nextId # 0
    BY PcsConstants DEF TypeOK
  <2> QED BY <2>1, <2>2, UpsertEffect DEF TypeOK, HasRow
<1> QED BY <1>1, <1>2

\* A step of a build touches its own slot and key.
LEMMA BuilderFrame ==
  ASSUME TypeInv, NEW b \in Builder, BuilderStep(b)
  PROVE  /\ builder[b].pc # "idle" /\ builder[b].key \in SubTask
         /\ UNCHANGED <<retainer, asker, todo, retains>>
         /\ \A x \in Builder \ {b} : builder'[x] = builder[x]
         /\ builder'[b].pc # "idle" =>
              /\ builder'[b].key = builder[b].key
              /\ builder'[b].job.requested = builder[b].job.requested
         /\ \A k \in SubTask \ {builder[b].key} : rows'[k] = rows[k] /\ promise'[k] = promise[k]
<1>0. BuildersTyped /\ TablesTyped /\ GhostsTyped
  BY TypeParts
<1>1. builder[b].pc # "idle" /\ UNCHANGED <<retainer, asker, todo, retains>>
  BY DEF BuilderStep, Claim, Build, BuildFails, BuildRefused, Store, SendAcked,
     SendFails, Delete, Clear, ghosts
<1>2. builder[b].key \in SubTask /\ builder[b].job \in Job
  BY <1>0, <1>1 DEF BuildersTyped, BuilderSet
<1> DEFINE Moved ==
      /\ \A x \in Builder \ {b} : builder'[x] = builder[x]
      /\ builder'[b].pc # "idle" =>
           /\ builder'[b].key = builder[b].key
           /\ builder'[b].job.requested = builder[b].job.requested
<1>3. ASSUME builder' = [builder EXCEPT ![b] = IdleBuilder] PROVE Moved
  BY <1>0, <1>3 DEF BuildersTyped, IdleBuilder
<1>4. ASSUME NEW pc, Goto(b, pc) PROVE Moved
  BY <1>0, <1>4 DEF Goto, BuildersTyped, BuilderSet
<1>5. CASE Build(b)
  <2>1. Moved
    BY <1>0, <1>5 DEF Build, BuildersTyped, BuilderSet, Job
  <2> QED BY <1>1, <1>2, <1>5, <2>1 DEF Build, tables, ghosts
<1>6. CASE SendAcked(b)
  <2>1. Moved
    BY <1>0, <1>6 DEF SendAcked, BuildersTyped, BuilderSet
  <2> QED BY <1>0, <1>1, <1>2, <1>6, <2>1 DEF SendAcked, tables, GhostsTyped
<1>7. CASE Claim(b) \/ BuildFails(b) \/ BuildRefused(b) \/ SendFails(b) \/ Clear(b)
  <2>1. Moved
    BY <1>3, <1>4, <1>7 DEF Claim, BuildFails, BuildRefused, SendFails, Clear, Release
  <2> QED BY <1>1, <1>2, <1>7, <2>1
        DEF Claim, BuildFails, BuildRefused, SendFails, Clear, tables, ghosts
<1>8. CASE Store(b)
  <2>1. Moved
    BY <1>3, <1>4, <1>8 DEF Store, Release
  <2>2. \A k \in SubTask \ {builder[b].key} : rows'[k] = rows[k]
    BY <1>2, <1>8, UpsertEffect DEF Store, TypeInv, tables
  <2> QED BY <1>1, <1>2, <1>8, <2>1, <2>2 DEF Store, ghosts
<1>9. CASE Delete(b)
  <2>1. Moved
    BY <1>3, <1>4, <1>9 DEF Delete, Release
  <2>2. \A k \in SubTask \ {builder[b].key} : rows'[k] = rows[k]
    BY <1>0, <1>9 DEF Delete, DeleteByKey, TablesTyped, tables
  <2> QED BY <1>1, <1>2, <1>9, <2>1, <2>2 DEF Delete, ghosts
<1> QED BY <1>5, <1>6, <1>7, <1>8, <1>9 DEF BuilderStep

\* A step of a request touches its own slot; a build it starts is for its job.
LEMMA AskerFrame ==
  ASSUME TypeInv, NEW a \in Asker,
         \/ Lookup(a) \/ Mark(a) \/ OpenStore(a) \/ Spawn(a)
         \/ \E k \in SubTask : PcsRequest(a, k) \/ \E h \in Hash : OpenRequest(a, k, h)
  PROVE  /\ UNCHANGED <<retainer, todo, retains>>
         /\ \A x \in Asker \ {a} : asker'[x] = asker[x]
<1>1. AskersTyped
  BY TypeParts
<1> QED BY <1>1 DEF Lookup, Mark, OpenStore, StoreRequest, Spawn, PcsRequest, OpenRequest,
      ghosts, AskersTyped

\* Builds and stored requests are always for requested jobs.
LEMMA RequestedStep ==
  ASSUME DropInv, [Next]_vars
  PROVE  JobsRequested'
<1>0. TypeInv /\ JobsRequested /\ BuildersTyped /\ AskersTyped /\ TablesTyped /\ RestTyped
  BY TypeParts DEF DropInv
<1> USE DEF JobsRequested
<1>1. ASSUME NEW b \in Builder, NEW k, NEW job, job.requested, UNCHANGED asker,
             builder' = [builder EXCEPT
               ![b] = [pc |-> "claim", key |-> k, job |-> job, refused |-> FALSE]]
      PROVE  JobsRequested'
  BY <1>0, <1>1 DEF BuildersTyped
<1>2. ASSUME NEW c \in Retainer, RetainPut(c) PROVE JobsRequested'
  <2>1. CASE UNCHANGED builder
    BY <1>0, <1>2, <2>1 DEF RetainPut
  <2>2. CASE retainer[c].job.requested /\ SpawnBuild(retainer[c].key, retainer[c].job)
    BY <1>1, <1>2, <2>2, SpawnEffect DEF RetainPut
  <2> QED BY <1>2, <2>1, <2>2 DEF RetainPut
<1>3. ASSUME NEW a \in Asker, Spawn(a) PROVE JobsRequested'
  <2>1. asker[a].job.requested
    BY <1>0, <1>3 DEF Spawn
  <2>2. PICK b \in Builder : builder' = [builder EXCEPT
          ![b] = [pc |-> "claim", key |-> asker[a].key, job |-> asker[a].job, refused |-> FALSE]]
    BY <1>3, SpawnEffect DEF Spawn
  <2> QED BY <1>0, <1>3, <2>1, <2>2 DEF Spawn, BuildersTyped, AskersTyped, IdleAsker
<1>4. ASSUME NEW a \in Asker, Mark(a) \/ OpenStore(a) PROVE JobsRequested'
  <2>1. asker[a].job.requested
    BY <1>0, <1>4 DEF Mark, OpenStore
  <2>2. /\ asker'[a].pc # "idle" => asker'[a].job = asker[a].job
        /\ \A x \in Asker \ {a} : asker'[x] = asker[x]
    BY <1>0, <1>4 DEF Mark, OpenStore, StoreRequest, AskersTyped, AskerSet, IdleAsker
  <2> QED BY <1>0, <1>4, <2>1, <2>2 DEF Mark, OpenStore
<1>5. ASSUME NEW a \in Asker, Lookup(a) PROVE JobsRequested'
  <2>1. asker[a].key \in SubTask
    BY <1>0, <1>5 DEF Lookup, AskersTyped
  <2>2. [rows[asker[a].key].job EXCEPT !.requested = TRUE].requested
    BY <1>0, <2>1 DEF TablesTyped, Row, Job
  <2>3. asker'[a].pc \notin {"idle", "lookup"} => asker'[a].job.requested
    <3>0. asker[a] \in AskerSet /\ asker[a].pc = "lookup"
      BY <1>0, <1>5 DEF AskersTyped, Lookup
    <3>1. CASE asker' = [asker EXCEPT ![a] =
             [pc |-> IF rows[asker[a].key].job.requested THEN "spawn" ELSE "mark",
              key |-> asker[a].key, left |-> 0,
              job |-> [rows[asker[a].key].job EXCEPT !.requested = TRUE]]]
      BY <1>0, <2>2, <3>1 DEF AskersTyped
    <3>2. CASE asker' = [asker EXCEPT ![a] = IdleAsker]
      BY <1>0, <3>2 DEF AskersTyped, IdleAsker
    <3>3. CASE asker' = [asker EXCEPT ![a] = [asker[a] EXCEPT !.left = @ - 1]]
      BY <1>0, <3>0, <3>3 DEF AskersTyped, AskerSet
    <3> QED BY <1>5, <3>1, <3>2, <3>3 DEF Lookup
  <2> QED BY <1>0, <1>5, <2>3, AskerFrame DEF Lookup
<1>6. ASSUME NEW a \in Asker, NEW k \in SubTask, PcsRequest(a, k) PROVE JobsRequested'
  BY <1>0, <1>6 DEF PcsRequest, AskersTyped
<1>7. ASSUME NEW a \in Asker, NEW k \in SubTask, NEW h \in Hash, OpenRequest(a, k, h)
      PROVE  JobsRequested'
  BY <1>0, <1>7 DEF OpenRequest, AskersTyped
<1>8. ASSUME NEW b \in Builder, BuilderStep(b) PROVE JobsRequested'
  BY <1>0, <1>8, BuilderFrame
<1>9. ASSUME NEW e \in todo, LoopRetry(e) PROVE JobsRequested'
  BY <1>1, <1>9 DEF LoopRetry, Builder
<1>10. CASE Crash
  BY <1>10 DEF Crash, IdleAsker, IdleBuilder
<1>11. CASE UNCHANGED <<asker, builder>>
  BY <1>0, <1>11
<1> QED BY <1>2, <1>3, <1>4, <1>5, <1>6, <1>7, <1>8, <1>9, <1>10, <1>11
      DEF Next, LoopNext, RetainGet, Expire, CacheOpenCall, LoopList, LoopSkip, vars

\* A step that writes at most one row by upsert, or deletes rows, keeps ids apart.
LEMMA IdsKept ==
  ASSUME TypeInv, IdsUnique, todo' \subseteq todo,
         \/ \E k \in SubTask, job \in Job : Upsert(k, job)
         \/ /\ nextId' = nextId
            /\ \A k \in SubTask : rows'[k].id \in {0, rows[k].id}
  PROVE  IdsUnique'
<1>0. TypeOK /\ TablesTyped /\ RestTyped /\ nextId \in Nat /\ \A k \in SubTask : rows[k].id \in Nat
  BY TypeParts, PcsConstants DEF TypeInv, TablesTyped, Row
<1>1. \A e \in todo : e.row.id \in Nat
  BY <1>0, PcsConstants DEF RestTyped, Entry, Row
<1>2. ASSUME NEW k \in SubTask, NEW job \in Job, Upsert(k, job) PROVE IdsUnique'
  <2>1. /\ \/ rows'[k].id = rows[k].id /\ nextId' = nextId
           \/ rows'[k].id = nextId /\ nextId' = nextId + 1
        /\ \A x \in SubTask : x # k => rows'[x] = rows[x]
    BY <1>0, <1>2, UpsertRow
  <2>2. CASE rows'[k].id = rows[k].id /\ nextId' = nextId
    <3>1. \A x \in SubTask : rows'[x].id = rows[x].id
      BY <2>1, <2>2
    <3> QED BY <2>2, <3>1 DEF IdsUnique, HasRow
  <2>3. CASE rows'[k].id = nextId /\ nextId' = nextId + 1
    <3>1. \A x \in SubTask \ {k} : rows'[x].id = rows[x].id /\ rows[x].id < nextId
      BY <2>1 DEF IdsUnique
    <3>2. \A x \in SubTask : rows'[x].id < nextId'
      BY <1>0, <2>3, <3>1
    <3>3. \A x, y \in SubTask : rows'[x].id = rows'[y].id /\ rows'[x].id # 0 => x = y
      BY <1>0, <2>3, <3>1 DEF IdsUnique, HasRow
    <3>4. \A e \in todo' : /\ e.row.id # 0 /\ e.row.id < nextId'
                           /\ \A x \in SubTask : rows'[x].id = e.row.id => x = e.key
      BY <1>0, <1>1, <2>3, <3>1 DEF IdsUnique
    <3> QED BY <3>2, <3>3, <3>4 DEF IdsUnique, HasRow
  <2> QED BY <2>1, <2>2, <2>3
<1>3. ASSUME nextId' = nextId, \A k \in SubTask : rows'[k].id \in {0, rows[k].id}
      PROVE  IdsUnique'
  <2>1. \A x \in SubTask : rows'[x].id < nextId'
    BY <1>0, <1>3, PcsConstants DEF IdsUnique, TablesTyped
  <2>2. \A x, y \in SubTask : rows'[x].id = rows'[y].id /\ rows'[x].id # 0 => x = y
    BY <1>3 DEF IdsUnique, HasRow
  <2>3. \A e \in todo' : /\ e.row.id # 0 /\ e.row.id < nextId'
                         /\ \A x \in SubTask : rows'[x].id = e.row.id => x = e.key
    BY <1>3 DEF IdsUnique
  <2> QED BY <2>1, <2>2, <2>3 DEF IdsUnique, HasRow
<1> QED BY <1>2, <1>3

\* Ids stay unique.
LEMMA IdsStep ==
  ASSUME DropInv, [Next]_vars
  PROVE  IdsUnique'
<1>0. /\ TypeInv /\ TypeOK /\ IdsUnique /\ TablesTyped /\ AskersTyped /\ BuildersTyped
      /\ RetainersTyped
  BY TypeParts DEF DropInv, TypeInv
<1>1. ASSUME UNCHANGED tables, todo' \subseteq todo PROVE IdsUnique'
  BY <1>0, <1>1, IdsKept DEF tables
<1>2. ASSUME NEW k \in SubTask, NEW job \in Job, Upsert(k, job), UNCHANGED todo PROVE IdsUnique'
  BY <1>0, <1>2, IdsKept
<1>3. ASSUME NEW c \in Retainer, RetainPut(c) PROVE IdsUnique'
  BY <1>0, <1>1, <1>2, <1>3 DEF RetainPut, RetainersTyped, RetainerSet
<1>4. ASSUME NEW a \in Asker, Mark(a) \/ OpenStore(a) PROVE IdsUnique'
  BY <1>0, <1>1, <1>2, <1>4 DEF Mark, OpenStore, StoreRequest, AskersTyped, AskerSet
<1>5. ASSUME NEW b \in Builder, Store(b) PROVE IdsUnique'
  BY <1>0, <1>1, <1>2, <1>5 DEF Store, BuildersTyped, BuilderSet
<1>6. ASSUME NEW b \in Builder, Delete(b) PROVE IdsUnique'
  <2>1. CASE DeleteByKey(builder[b].key)
    <3>1. nextId' = nextId /\ UNCHANGED todo
          /\ \A k \in SubTask : rows'[k].id \in {0, rows[k].id}
      BY <1>0, <1>6, <2>1 DEF DeleteByKey, Delete, TablesTyped, NoRow
    <3> QED BY <1>0, <3>1, IdsKept
  <2> QED BY <1>1, <1>6, <2>1 DEF Delete
<1>7. ASSUME NEW e \in todo, LoopSkip(e) PROVE IdsUnique'
  <2>1. CASE DeleteById(e.row.id)
    <3>1. nextId' = nextId /\ todo' \subseteq todo
          /\ \A k \in SubTask : rows'[k].id \in {0, rows[k].id}
      BY <1>0, <1>7, <2>1 DEF DeleteById, LoopSkip, TablesTyped, NoRow
    <3> QED BY <1>0, <3>1, IdsKept
  <2> QED BY <1>1, <1>7, <2>1 DEF LoopSkip
<1>8. CASE LoopList
  <2>1. UNCHANGED <<rows, nextId>>
    BY <1>8 DEF LoopList, tables
  <2>2. \A e \in todo' : e.key \in SubTask /\ e.row = rows[e.key] /\ HasRow(e.key)
    BY <1>8 DEF LoopList
  <2> QED BY <1>0, <2>1, <2>2 DEF IdsUnique, HasRow
<1>9. ASSUME NEW k \in SubTask, Expire(k) PROVE IdsUnique'
  <2>1. /\ nextId' = nextId /\ UNCHANGED todo /\ rows' = [rows EXCEPT ![k].late = TRUE]
    BY <1>9 DEF Expire
  <2>2. \A x \in SubTask : rows'[x].id = rows[x].id
    BY <1>0, <2>1 DEF TablesTyped, Row
  <2> QED BY <1>0, <2>1, <2>2, IdsKept
<1>10. ASSUME NEW b \in Builder,
              \/ Claim(b) \/ Build(b) \/ BuildFails(b) \/ BuildRefused(b)
              \/ SendAcked(b) \/ SendFails(b) \/ Clear(b)
       PROVE  IdsUnique'
  BY <1>1, <1>10 DEF Claim, Build, BuildFails, BuildRefused, SendAcked, SendFails, Clear
<1>11. ASSUME NEW a \in Asker,
              \/ Lookup(a) \/ Spawn(a)
              \/ \E k \in SubTask : PcsRequest(a, k) \/ \E h \in Hash : OpenRequest(a, k, h)
       PROVE  IdsUnique'
  BY <1>1, <1>11 DEF Lookup, Spawn, PcsRequest, OpenRequest
<1>12. ASSUME NEW k \in SubTask,
              \/ \E c \in Retainer : RetainGet(c, k)
              \/ \E h \in Hash : CacheOpenCall(k, h)
       PROVE  IdsUnique'
  BY <1>1, <1>12 DEF RetainGet, CacheOpenCall
<1>13. CASE Crash \/ UNCHANGED vars \/ \E e \in todo : LoopRetry(e)
  BY <1>1, <1>13 DEF Crash, vars, LoopRetry
<1> QED BY <1>3, <1>4, <1>5, <1>6, <1>7, <1>8, <1>9, <1>10, <1>11, <1>12, <1>13
      DEF Next, LoopNext, BuilderStep

\* What a step may do to a stored request.
MayDrop(k) ==
  promise[k] = "stored" /\ Requested(k) =>
    \/ Requested(k)' \/ promise'[k] = "answered"
    \/ StaleExpiry(k) \/ \E c \in Retainer : StaleRetain(c, k)

\* A stored request loses its mark to a stale copy, or not at all.
LEMMA DropStep ==
  ASSUME DropInv, [Next]_vars, NEW k \in SubTask
  PROVE  MayDrop(k)
<1> SUFFICES ASSUME promise[k] = "stored", Requested(k)
             PROVE  \/ Requested(k)' \/ promise'[k] = "answered"
                    \/ StaleExpiry(k) \/ \E c \in Retainer : StaleRetain(c, k)
  BY DEF MayDrop
<1>0. /\ TypeInv /\ TypeOK /\ TablesTyped /\ RetainersTyped /\ GhostsTyped
      /\ BuildersTyped /\ AskersTyped /\ JobsRequested /\ AnsweredFirst /\ IdsUnique
  BY TypeParts DEF DropInv, TypeInv
<1>1. ASSUME rows'[k] = rows[k] PROVE Requested(k)'
  BY <1>1 DEF Requested, HasRow
<1>2. ASSUME NEW x \in SubTask, NEW job \in Job, job.requested, Upsert(x, job)
      PROVE  Requested(k)'
  <2>1. HasRow(x)' /\ rows'[x].job = job /\ (k # x => rows'[k] = rows[k])
    BY <1>0, <1>2, UpsertRow
  <2> QED BY <1>1, <1>2, <2>1 DEF Requested
<1>3. ASSUME NEW c \in Retainer, RetainPut(c) PROVE Requested(k)' \/ StaleRetain(c, k)
  <2>1. /\ retainer[c].key \in SubTask /\ retainer[c].job \in Job /\ retainer[c].pc = "put"
        /\ retainer'[c].pc = "idle"
    BY <1>0, <1>3 DEF RetainPut, RetainersTyped, RetainerSet, IdleRetainer
  <2>2. CASE UNCHANGED tables
    BY <1>1, <2>2 DEF tables
  <2>3. CASE Upsert(retainer[c].key, retainer[c].job) /\ retainer[c].job.requested
    BY <1>2, <2>1, <2>3
  <2>4. CASE Upsert(retainer[c].key, retainer[c].job) /\ ~retainer[c].job.requested
    <3>1. CASE retainer[c].key = k
      BY <2>1, <2>4, <3>1 DEF StaleRetain
    <3>2. CASE retainer[c].key # k
      BY <1>0, <1>1, <2>1, <2>4, <3>2, UpsertRow
    <3> QED BY <3>1, <3>2
  <2> QED BY <1>3, <2>2, <2>3, <2>4 DEF RetainPut
<1>4. ASSUME NEW a \in Asker, Mark(a) \/ OpenStore(a) PROVE Requested(k)'
  <2>1. asker[a].key \in SubTask /\ asker[a].job \in Job /\ asker[a].job.requested
    BY <1>0, <1>4 DEF Mark, OpenStore, AskersTyped, AskerSet, JobsRequested
  <2> QED BY <1>1, <1>2, <1>4, <2>1 DEF Mark, OpenStore, StoreRequest, tables
<1>5. ASSUME NEW b \in Builder, BuilderStep(b) PROVE Requested(k)' \/ promise'[k] = "answered"
  <2>1. builder[b].key \in SubTask /\ builder[b].job \in Job /\ builder[b].job.requested
    BY <1>0, <1>5, BuilderFrame DEF BuildersTyped, BuilderSet, JobsRequested
  <2>2. CASE Store(b)
    BY <1>1, <1>2, <2>1, <2>2 DEF Store, tables
  <2>3. CASE Delete(b)
    <3>1. CASE builder[b].key = k
      BY <1>0, <2>3, <3>1 DEF Delete, AnsweredFirst, ghosts
    <3>2. CASE builder[b].key # k
      BY <1>0, <1>1, <1>5, <3>2, BuilderFrame
    <3> QED BY <3>1, <3>2
  <2>4. CASE UNCHANGED rows
    BY <1>1, <2>4
  <2> QED BY <1>5, <2>2, <2>3, <2>4
        DEF BuilderStep, Claim, Build, BuildFails, BuildRefused, SendAcked, SendFails, Clear, tables
<1>6. ASSUME NEW e \in todo, LoopSkip(e) PROVE Requested(k)' \/ StaleExpiry(k)
  <2>1. CASE UNCHANGED tables
    BY <1>1, <2>1 DEF tables
  <2>2. CASE e.row.late /\ DeleteById(e.row.id)
    <3>1. CASE rows[k].id = e.row.id
      <4>1. e.key = k /\ ~e.row.job.requested /\ e \in todo \ todo'
        BY <1>0, <1>6, <3>1 DEF IdsUnique, LoopSkip
      <4> QED BY <2>2, <4>1 DEF StaleExpiry
    <3>2. CASE rows[k].id # e.row.id
      BY <1>1, <2>2, <3>2 DEF DeleteById
    <3> QED BY <3>1, <3>2
  <2> QED BY <1>6, <2>1, <2>2 DEF LoopSkip
<1>7. ASSUME NEW x \in SubTask, Expire(x) PROVE Requested(k)'
  <2>1. rows[k] \in Row /\ rows' = [rows EXCEPT ![x].late = TRUE]
    BY <1>0, <1>7 DEF Expire, TablesTyped
  <2>2. rows'[k].id = rows[k].id /\ rows'[k].job = rows[k].job
    BY <1>0, <2>1 DEF TablesTyped, Row
  <2> QED BY <2>2 DEF Requested, HasRow
<1>8. CASE UNCHANGED rows
  BY <1>1, <1>8
<1> QED BY <1>3, <1>4, <1>5, <1>6, <1>7, <1>8
      DEF Next, LoopNext, RetainGet, Lookup, Spawn, PcsRequest, OpenRequest,
          CacheOpenCall, LoopList, LoopRetry, Crash, vars, tables

\* A request this node has stored is lost only to one of the two stale copies, for any
\* number of sub-tasks, retentions, requests, open calls, builds and crashes, with rows
\* past the TTL and any storage call failing: every build carries a requested job, only
\* an acknowledged answer is followed by a deletion, and an id names one row for ever.
THEOREM RequestsDropOnlyStale == Spec => OnlyStaleCopiesDrop
<1>1. Init => DropInv
  <2> SUFFICES ASSUME Init PROVE DropInv
    OBVIOUS
  <2>1. AnsweredFirst /\ JobsRequested
    BY DEF Init, AnsweredFirst, JobsRequested, IdleAsker, IdleBuilder
  <2>2. IdsUnique
    BY DEF Init, IdsUnique, HasRow, NoRow
  <2> QED BY <2>1, <2>2, InitTypes DEF DropInv
<1>2. DropInv /\ [Next]_vars => DropInv'
  <2> SUFFICES ASSUME DropInv, [Next]_vars PROVE DropInv'
    OBVIOUS
  <2>1. TypeInv' /\ AnsweredFirst'
    BY TypeStep, AnsweredStep DEF DropInv
  <2>2. JobsRequested' /\ IdsUnique'
    BY RequestedStep, IdsStep
  <2> QED BY <2>1, <2>2 DEF DropInv
<1>3. DropInv /\ [Next]_vars =>
        [\A k \in SubTask : promise[k] = "stored" /\ Requested(k) =>
           \/ Requested(k)' \/ promise'[k] = "answered"
           \/ StaleExpiry(k) \/ \E c \in Retainer : StaleRetain(c, k)]_vars
  BY DropStep DEF MayDrop
<1> QED BY <1>1, <1>2, <1>3, PTL DEF Spec, OnlyStaleCopiesDrop

=============================================================================
