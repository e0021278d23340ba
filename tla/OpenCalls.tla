------------------------------ MODULE OpenCalls ------------------------------
(***************************************************************************)
(* Open calls for a PCS, in front of PcsOutbox (transport/p2p/              *)
(* pcs_open_handler.rs, application/pcs_open_call.rs): the orchestrator     *)
(* announces a sub-task whose PCS nobody has built; a node whose core       *)
(* spills caches the announcement, bids unless the call rules it out, and   *)
(* is later asked for the PCS of exactly that announcement.  Every          *)
(* announcement is handled by a task of its own, which waits for core's     *)
(* /sysinfo before it caches anything.                                      *)
(***************************************************************************)
EXTENDS PcsOutbox

CONSTANT Caller  \* bound: announcements being handled at the same time

VARIABLE call    \* one handle_pcs_open_stream per slot

allVars == <<vars, call>>

Call == [pc : {"idle", "sysinfo", "bid"}, key : SubTask \cup {None}, hash : Hash \cup {None}]
IdleCall == [pc |-> "idle", key |-> None, hash |-> None]

CallsInit == Init /\ call = [c \in Caller |-> IdleCall]

-----------------------------------------------------------------------------
\* A verified announcement; its handler asks core for /sysinfo.
Announcement(c, k, h) ==
  /\ OpenCalls
  /\ call[c].pc = "idle"
  /\ call' = [call EXCEPT ![c] = [pc |-> "sysinfo", key |-> k, hash |-> h]]
  /\ UNCHANGED vars

\* Core refuses to spill, or does not answer: nothing is cached, no bid is placed.
PolicyRefuse(c) ==
  /\ call[c].pc = "sysinfo"
  /\ call' = [call EXCEPT ![c] = IdleCall]
  /\ UNCHANGED vars

\* Core spills: cache_open_call, over whatever is cached.  should_bid_open_call then
\* depends on the announcement alone: its deadline, the builders it names, its fields.
PolicySpill(c) ==
  /\ call[c].pc = "sysinfo"
  /\ CacheOpenCall(call[c].key, call[c].hash)
  /\ \E bids \in BOOLEAN :
       call' = [call EXCEPT ![c] = IF bids THEN [call[c] EXCEPT !.pc = "bid"] ELSE IdleCall]

\* submit_pcs_open_call_bid: its outcome is only logged.
SubmitBid(c) ==
  /\ call[c].pc = "bid"
  /\ call' = [call EXCEPT ![c] = IdleCall]
  /\ UNCHANGED vars

\* The process dies and starts again.
CallsCrash == Crash /\ call' = [c \in Caller |-> IdleCall]

\* Everything else is PcsOutbox's.
OutboxStep ==
  /\ \/ \E c \in Retainer : RetainPut(c) \/ \E k \in SubTask : RetainGet(c, k)
     \/ \E a \in Asker :
          \/ Lookup(a) \/ Mark(a) \/ OpenStore(a) \/ Spawn(a)
          \/ \E k \in SubTask : PcsRequest(a, k) \/ \E h \in Hash : OpenRequest(a, k, h)
     \/ \E k \in SubTask : Expire(k)
     \/ \E b \in Builder : BuilderStep(b)
     \/ LoopList \/ LoopNext
  /\ UNCHANGED call

CallsNext ==
  \/ \E c \in Caller :
       \/ PolicyRefuse(c) \/ PolicySpill(c) \/ SubmitBid(c)
       \/ \E k \in SubTask, h \in Hash : Announcement(c, k, h)
  \/ CallsCrash
  \/ OutboxStep

CallsSpec == CallsInit /\ [][CallsNext]_allVars

\* With the fairness of PcsOutbox.  Nothing obliges a node to bid.
FairSpec == CallsSpec /\ Fairness

-----------------------------------------------------------------------------
(* Properties                                                              *)

CallsTypeOK == TypeOK /\ call \in [Caller -> Call]

=============================================================================
