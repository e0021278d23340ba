--------------------------- MODULE OpenCallsProofs ---------------------------
(***************************************************************************)
(* What holds of open calls for any number of sub-tasks, announcements,     *)
(* requests and builds: to PcsOutbox they are entries of its cache, so      *)
(* that everything proved of it holds with them.                            *)
(***************************************************************************)
EXTENDS OpenCalls, PcsOutboxProofs

\* A handler past the receipt of its announcement has a sub-task and a hash.
CallsTyped ==
  /\ call \in [Caller -> Call]
  /\ \A c \in Caller : call[c].pc # "idle" => call[c].key \in SubTask /\ call[c].hash \in Hash

\* A step of the whole is a step of the PCS outbox, or leaves it as it is.
LEMMA OutboxStepOrStutter == CallsTyped /\ [CallsNext]_allVars => [Next]_vars
<1> SUFFICES ASSUME CallsTyped, [CallsNext]_allVars PROVE [Next]_vars
  OBVIOUS
<1>1. ASSUME NEW c \in Caller,
             \/ PolicyRefuse(c) \/ SubmitBid(c)
             \/ \E k \in SubTask, h \in Hash : Announcement(c, k, h)
      PROVE  UNCHANGED vars
  BY <1>1 DEF PolicyRefuse, SubmitBid, Announcement
<1>2. ASSUME NEW c \in Caller, PolicySpill(c) PROVE Next
  <2>1. call[c].key \in SubTask /\ call[c].hash \in Hash
    BY <1>2 DEF PolicySpill, CallsTyped
  <2> QED BY <1>2, <2>1 DEF PolicySpill, Next
<1>3. CASE CallsCrash
  BY <1>3 DEF CallsCrash, Next
<1>4. CASE OutboxStep
  BY <1>4 DEF OutboxStep, Next
<1>5. CASE UNCHANGED allVars
  BY <1>5 DEF allVars
<1> QED BY <1>1, <1>2, <1>3, <1>4, <1>5 DEF CallsNext

\* Every step keeps the handlers typed.
LEMMA CallsTypedStep == CallsTyped /\ [CallsNext]_allVars => CallsTyped'
<1> SUFFICES ASSUME CallsTyped, [CallsNext]_allVars PROVE CallsTyped'
  OBVIOUS
<1> USE DEF CallsTyped, Call, IdleCall
<1>1. ASSUME NEW c \in Caller, PolicyRefuse(c) \/ SubmitBid(c) PROVE CallsTyped'
  BY <1>1 DEF PolicyRefuse, SubmitBid
<1>2. ASSUME NEW c \in Caller, NEW k \in SubTask, NEW h \in Hash, Announcement(c, k, h)
      PROVE  CallsTyped'
  BY <1>2 DEF Announcement
<1>3. ASSUME NEW c \in Caller, PolicySpill(c) PROVE CallsTyped'
  <2>1. call[c] \in Call /\ call[c].key \in SubTask /\ call[c].hash \in Hash
    BY <1>3 DEF PolicySpill
  <2>2. CASE call' = [call EXCEPT ![c] = [call[c] EXCEPT !.pc = "bid"]]
    BY <2>1, <2>2
  <2>3. CASE call' = [call EXCEPT ![c] = IdleCall]
    BY <2>3
  <2> QED BY <1>3, <2>2, <2>3 DEF PolicySpill
<1>4. CASE CallsCrash
  BY <1>4 DEF CallsCrash
<1>5. CASE OutboxStep \/ UNCHANGED allVars
  BY <1>5 DEF OutboxStep, allVars
<1> QED BY <1>1, <1>2, <1>3, <1>4, <1>5 DEF CallsNext

\* Announcements add nothing to what the PCS outbox does, so that everything proved
\* of it holds with them.
THEOREM ImplementsOutbox == CallsSpec => Spec
<1>1. CallsInit => Init /\ CallsTyped
  BY DEF CallsInit, CallsTyped, Call, IdleCall
<1> QED BY <1>1, OutboxStepOrStutter, CallsTypedStep, PTL DEF CallsSpec, Spec

\* The handlers and the PCS outbox keep their types, for any constants.
THEOREM CallsTypes == CallsSpec => []CallsTypeOK
<1>1. CallsInit => CallsTyped
  BY DEF CallsInit, CallsTyped, Call, IdleCall
<1>2. CallsTyped /\ TypeOK => CallsTypeOK
  BY DEF CallsTyped, CallsTypeOK
<1> QED BY <1>1, <1>2, CallsTypedStep, ImplementsOutbox, PcsTypes, PTL DEF CallsSpec

\* With open calls in front of it, the outbox still proves only what the orchestrator
\* has asked this node for.
THEOREM CallsProveAsked == CallsSpec => []ProveOnlyIfAsked
BY ImplementsOutbox, BuildsSound, PTL

\* With open calls in front of the outbox, of any number and in any order, a stored
\* request is still lost only to a stale copy of its row.
THEOREM CallsDropOnlyStale == CallsSpec => OnlyStaleCopiesDrop
BY ImplementsOutbox, RequestsDropOnlyStale

=============================================================================
