--------------------------- MODULE OutboundProofs ---------------------------
(***************************************************************************)
(* What holds of the orchestrator link for every number of addresses and    *)
(* connections and every cap of the backoff: a disconnected node has a      *)
(* redial pending, a connected one is heard on the announcement topic, and  *)
(* the delay between dials never shrinks while the node is disconnected.    *)
(* Then what holds of the outbound streams for any set of senders and any   *)
(* number of attempts: the senders never touch the link, so that what is    *)
(* proved of P2PHost holds with them too, and what is reported as           *)
(* submitted was read.                                                      *)
(***************************************************************************)
EXTENDS Outbound, TLAPS

-----------------------------------------------------------------------------
(* The backoff                                                             *)

\* The shift table: every multiplier is at least 1.
LEMMA ShiftedPositive ==
  ASSUME NEW n \in Nat
  PROVE  Shifted(n) \in Nat \ {0}
<1>1. DEFINE i == 1 + IF n < 16 THEN n ELSE 16
<1>2. i \in 1..17
  OBVIOUS
<1>3. \A j \in 1..17 : Multiplier[j] \in Nat \ {0}
  BY DEF Multiplier
<1> QED BY <1>2, <1>3 DEF Shifted

\* bootstrap_redial_delay is never zero and never above the cap.
LEMMA DelayBounds ==
  ASSUME NEW n \in Nat
  PROVE  RedialDelay(n) \in 1..RedialMax
BY ShiftedPositive, HostConstants DEF RedialDelay

-----------------------------------------------------------------------------
(* Types                                                                   *)

GossipTypes == live \in BOOLEAN /\ topic \in BOOLEAN /\ heard \in BOOLEAN

\* TypeOK is inductive.
LEMMA TypeStep == TypeOK /\ [Next]_vars => TypeOK'
<1> SUFFICES ASSUME TypeOK, [Next]_vars PROVE TypeOK'
  OBVIOUS
<1> USE HostConstants DEF TypeOK
<1>1. \A n \in Nat : RedialDelay(n) \in 0..RedialMax
  BY DelayBounds
<1>2. ASSUME Connected PROVE conns' \in 0..MaxConns /\ attempt' \in 0..AttemptCap
                             /\ sleep' \in 0..RedialMax /\ GossipTypes'
  <2>1. conns' \in 0..MaxConns /\ attempt' \in 0..AttemptCap /\ sleep' \in 0..RedialMax
    BY <1>2 DEF Connected
  <2>2. GossipTypes'
    BY <1>2, Zenon DEF Connected, EnsureSubscription, GossipTypes
  <2> QED BY <2>1, <2>2
<1>8. ASSUME NEW a \in Addr, DialOk(a) PROVE TypeOK'
  BY <1>2, <1>8 DEF DialOk, GossipTypes
<1>3. ASSUME NEW a \in Addr, DialFailed(a) PROVE TypeOK'
  BY <1>1, <1>3 DEF DialFailed, gossip
<1>4. CASE Inbound
  BY <1>2, <1>4 DEF Inbound, GossipTypes
<1>5. CASE Closed
  <2>1. GossipTypes'
    BY <1>5, Zenon DEF Closed, gossip, GossipTypes
  <2> QED BY <1>1, <1>5, <2>1 DEF Closed, GossipTypes
<1>6. CASE Redial
  <2>1. attempt' \in 0..AttemptCap
    BY <1>6 DEF Redial
  <2> QED BY <1>1, <1>6, <2>1 DEF Redial, gossip
<1>7. CASE UNCHANGED vars
  BY <1>7 DEF vars, link, timer, gossip
<1> QED BY <1>3, <1>4, <1>5, <1>6, <1>7, <1>8 DEF Next

LEMMA InitType == Init => TypeOK
<1> SUFFICES ASSUME Init PROVE TypeOK
  OBVIOUS
<1>1. sleep \in 0..RedialMax /\ conns \in 0..MaxConns /\ attempt \in 0..AttemptCap
  BY DelayBounds, HostConstants DEF Init
<1>2. dials \in SUBSET Addr /\ GossipTypes
  BY Zenon DEF Init, GossipTypes
<1> QED BY <1>1, <1>2 DEF TypeOK, GossipTypes

\* Every variable of the host keeps its type: the counter saturates, the delay stays
\* under its cap.
THEOREM HostTypes == Spec => []TypeOK
<1>1. TypeOK /\ [Next]_vars => TypeOK'
  BY TypeStep
<1> QED BY <1>1, InitType, PTL DEF Spec

-----------------------------------------------------------------------------
(* Heard and RedialArmed                                                   *)

\* orch_gossip_live is exact: it is set only while connected and subscribed, and it
\* is set whenever a connected node could subscribe.
LiveExact ==
  /\ live => conns > 0 /\ topic /\ heard
  /\ conns > 0 /\ ~SubscribeMayFail => live

LinkInv == TypeOK /\ LiveExact /\ RedialArmed

LEMMA LinkStep == LinkInv /\ [Next]_vars => LinkInv'
<1> SUFFICES ASSUME LinkInv, [Next]_vars PROVE LinkInv'
  OBVIOUS
<1>1. TypeOK'
  BY TypeStep DEF LinkInv
<1>2. \A n \in Nat : RedialDelay(n) # 0
  BY DelayBounds, HostConstants
<1> USE HostConstants DEF LinkInv, LiveExact, RedialArmed, TypeOK
<1>3. ASSUME Connected PROVE (LiveExact /\ RedialArmed)'
  BY <1>3 DEF Connected, EnsureSubscription
<1>4. ASSUME NEW a \in Addr, DialOk(a) PROVE (LiveExact /\ RedialArmed)'
  BY <1>3, <1>4 DEF DialOk
<1>5. ASSUME NEW a \in Addr, DialFailed(a) PROVE (LiveExact /\ RedialArmed)'
  BY <1>2, <1>5 DEF DialFailed, gossip
<1>6. CASE Inbound
  BY <1>1, <1>3, <1>6 DEF Inbound
<1>7. CASE Closed
  BY <1>1, <1>2, <1>7 DEF Closed, gossip
<1>8. CASE Redial
  <2>1. attempt' \in Nat
    BY <1>8 DEF Redial
  <2> QED BY <1>1, <1>2, <1>8, <2>1 DEF Redial, gossip
<1>9. CASE UNCHANGED vars
  BY <1>9 DEF vars, link, timer, gossip
<1> QED BY <1>1, <1>4, <1>5, <1>6, <1>7, <1>8, <1>9 DEF Next

\* LinkInv holds always.
LEMMA LinkAlways == Spec => []LinkInv
<1>1. Init => LinkInv
  BY InitType, DelayBounds, HostConstants DEF Init, LinkInv, LiveExact, RedialArmed
<1>2. LinkInv /\ [Next]_vars => LinkInv'
  BY LinkStep
<1> QED BY <1>1, <1>2, PTL DEF Spec

\* A connected node is heard on the announcement topic, and a disconnected one has a
\* redial pending, for any number of transports and any order of their events.
THEOREM LinkCorrect == Spec => [](Heard /\ RedialArmed)
<1>1. LinkInv => Heard /\ RedialArmed
  BY HostConstants DEF LinkInv, LiveExact, Heard, TypeOK
<1> QED BY <1>1, LinkAlways, PTL

-----------------------------------------------------------------------------
(* BackoffGrows                                                            *)

\* One attempt more doubles the delay, up to the cap, and never shortens it.
LEMMA DelayDoubles ==
  ASSUME RedialMax <= 65536, NEW n \in Nat
  PROVE  /\ RedialDelay(n + 1) = IF 2 * RedialDelay(n) < RedialMax
                                 THEN 2 * RedialDelay(n) ELSE RedialMax
         /\ RedialDelay(n + 1) >= RedialDelay(n)
<1>1. CASE n < 16
  <2>1. \A j \in 1..16 : Multiplier[j + 1] = 2 * Multiplier[j]
    BY DEF Multiplier
  <2>2. Shifted(n + 1) = 2 * Shifted(n)
    BY <1>1, <2>1 DEF Shifted
  <2> QED BY <2>2, ShiftedPositive, HostConstants DEF RedialDelay
<1>2. CASE n >= 16
  <2>1. Shifted(n) = 65536 /\ Shifted(n + 1) = 65536
    BY <1>2 DEF Shifted, Multiplier
  <2> QED BY <2>1, HostConstants DEF RedialDelay
<1> QED BY <1>1, <1>2

\* A timer that is set was set with the delay of the current attempt.
SleepExact == sleep \in {0, RedialDelay(attempt)}

LEMMA SleepStep == TypeOK /\ SleepExact /\ [Next]_vars => SleepExact'
<1> SUFFICES ASSUME TypeOK, SleepExact, [Next]_vars PROVE SleepExact'
  OBVIOUS
<1> USE DEF SleepExact
<1>1. ASSUME NEW a \in Addr, DialOk(a) \/ DialFailed(a) PROVE SleepExact'
  BY <1>1 DEF DialOk, Connected, DialFailed
<1>2. CASE Inbound
  BY <1>2 DEF Inbound, Connected
<1>3. CASE Closed
  BY <1>3 DEF Closed
<1>4. CASE Redial
  BY <1>4 DEF Redial
<1>5. CASE UNCHANGED vars
  BY <1>5 DEF vars, timer
<1> QED BY <1>1, <1>2, <1>3, <1>4, <1>5 DEF Next

\* What BackoffGrows says of one step.
GrowStep ==
  conns = 0 /\ conns' = 0 =>
    /\ sleep' >= sleep
    /\ attempt' > attempt =>
         sleep' = IF 2 * sleep < RedialMax THEN 2 * sleep ELSE RedialMax

LEMMA Grows ==
  ASSUME RedialMax <= 65536, LinkInv, SleepExact, [Next]_vars
  PROVE  GrowStep
<1> SUFFICES ASSUME conns = 0, conns' = 0
             PROVE  /\ sleep' >= sleep
                    /\ attempt' > attempt =>
                         sleep' = IF 2 * sleep < RedialMax THEN 2 * sleep ELSE RedialMax
  BY DEF GrowStep
<1>1. sleep = RedialDelay(attempt) /\ attempt \in Nat /\ sleep \in Nat
  BY HostConstants DEF LinkInv, RedialArmed, SleepExact, TypeOK
<1>2. ASSUME NEW a \in Addr, DialOk(a) PROVE FALSE
  BY <1>2 DEF DialOk, Connected
<1>3. ASSUME NEW a \in Addr, DialFailed(a) PROVE sleep' = sleep /\ attempt' = attempt
  BY <1>1, <1>3 DEF DialFailed
<1>4. CASE Inbound \/ Closed
  BY <1>4 DEF Inbound, Connected, Closed
<1>5. CASE Redial
  <2>1. CASE attempt < AttemptCap
    <3>1. sleep' = RedialDelay(attempt + 1) /\ attempt' = attempt + 1
      BY <1>5, <2>1 DEF Redial
    <3> QED BY <1>1, <3>1, DelayDoubles
  <2>2. CASE ~(attempt < AttemptCap)
    BY <1>1, <1>5, <2>2 DEF Redial
  <2> QED BY <2>1, <2>2
<1>6. CASE UNCHANGED vars
  BY <1>1, <1>6 DEF vars, timer
<1> QED BY <1>1, <1>2, <1>3, <1>4, <1>5, <1>6 DEF Next

\* While the node is disconnected the delay between dials doubles up to the cap and
\* nothing shortens it, for every cap the shift of at most 16 can reach.
THEOREM BackoffCorrect ==
  ASSUME RedialMax <= 65536
  PROVE  Spec => BackoffGrows
<1>1. Init => SleepExact
  BY DEF Init, SleepExact
<1>2. LinkInv /\ SleepExact /\ [Next]_vars => SleepExact'
  BY SleepStep DEF LinkInv
<1>3. LinkInv /\ SleepExact /\ [Next]_vars => [GrowStep]_vars
  BY Grows
<1> QED BY <1>1, <1>2, <1>3, LinkAlways, PTL DEF Spec, BackoffGrows, GrowStep

-----------------------------------------------------------------------------
(* Outbound streams                                                        *)

\* A step of the whole is a step of the host, or leaves the host as it is.
LEMMA HostStepOrStutter == [OutboundNext]_outVars => [Next]_vars
<1> SUFFICES ASSUME [OutboundNext]_outVars PROVE [Next]_vars
  OBVIOUS
<1>1. ASSUME NEW s \in Sender, Start(s) \/ Step(s) PROVE UNCHANGED vars
  BY <1>1 DEF Start, Step, Open, OpenFails, Write, WriteFails, ReadAck, Resume, Succeed, Fail
<1>2. ASSUME NEW s \in Acked, Receive(s) \/ \E answer \in Answers : Answer(s, answer)
      PROVE  UNCHANGED vars
  BY <1>2 DEF Receive, Answer
<1>3. CASE Cut
  BY <1>3 DEF Cut, Next
<1>4. CASE HostStep
  BY <1>4 DEF HostStep, Next
<1>5. CASE UNCHANGED outVars
  BY <1>5 DEF outVars
<1> QED BY <1>1, <1>2, <1>3, <1>4, <1>5 DEF OutboundNext

\* The node with its senders behaves, at the link, as the host alone does:
\* no sender delays, forces or forgets a dial or a subscription.
THEOREM ImplementsHost == OutboundSpec => Spec
<1>1. OutboundInit => Init
  BY DEF OutboundInit
<1> QED BY <1>1, HostStepOrStutter, PTL DEF OutboundSpec, Spec

-----------------------------------------------------------------------------
(* Types                                                                   *)

Labels == {"idle", "lock", "write", "ack", "pause"}
States == {"none", "open", "sent", "read", "cut"} \cup Answers

CallTypes ==
  /\ pc \in [Sender -> Labels] /\ queue \in Seq(Sender)
  /\ tries \in [Sender -> Nat] /\ ok \subseteq Sender

NetTypes == stream \in [Sender -> States] /\ got \subseteq Sender

\* The mutex's queue holds senders only, whoever leaves it.
LEMMA ReleaseType ==
  ASSUME CallTypes, NEW s \in Sender, Release(s)
  PROVE  queue' \in Seq(Sender)
BY DEF CallTypes, Release, Holds

\* Every step of a sender keeps the types.
LEMMA SenderTypes ==
  ASSUME CallTypes, NetTypes, NEW s \in Sender, Start(s) \/ Step(s)
  PROVE  CallTypes' /\ NetTypes'
<1> USE DEF CallTypes, NetTypes, Labels, States, Answers, Goto, Stream, At, net
<1>1. CASE Start(s)
  BY <1>1 DEF Start
<1>2. CASE Open(s)
  BY <1>2 DEF Open, Holds
<1>3. ASSUME Succeed(s) PROVE CallTypes' /\ NetTypes'
  BY <1>3, ReleaseType DEF Succeed
<1>4. ASSUME Fail(s) PROVE CallTypes' /\ NetTypes'
  <2>1. queue' \in Seq(Sender)
    BY <1>4, ReleaseType DEF Fail
  <2>2. tries' \in [Sender -> Nat] /\ pc' \in [Sender -> Labels]
    BY <1>4 DEF Fail
  <2> QED BY <1>4, <2>1, <2>2 DEF Fail
<1>5. CASE Write(s)
  BY <1>3, <1>5 DEF Write
<1>6. CASE Resume(s)
  BY <1>6 DEF Resume
<1>7. CASE OpenFails(s) \/ WriteFails(s)
  BY <1>4, <1>7 DEF OpenFails, WriteFails
<1>8. CASE ReadAck(s)
  BY <1>3, <1>4, <1>8 DEF ReadAck
<1> QED BY <1>1, <1>2, <1>5, <1>6, <1>7, <1>8 DEF Step

-----------------------------------------------------------------------------
(* Acks                                                                    *)

\* A positive answer is on a stream only after the payload was read, and stays
\* with it until the call returns; what returned Ok was read.
AckInv ==
  /\ \A s \in Sender : stream[s] \in {"read", "yes", "no"} => s \in got
  /\ AckedReceived
  /\ \A s \in Sender : pc[s] # "idle" => s \notin ok

Inv == CallTypes /\ NetTypes /\ AckInv

\* A step of a sender keeps AckInv: a call that is running has not returned Ok,
\* so that forgetting what an older attempt achieved takes nothing back.
LEMMA SenderAcks ==
  ASSUME Inv, NEW s \in Sender, Start(s) \/ Step(s)
  PROVE  AckInv'
<1> USE DEF Inv, AckInv, CallTypes, NetTypes, AckedReceived, Goto, Stream, At, net, Sender
<1>1. CASE Start(s)
  BY <1>1 DEF Start
<1>2. CASE Open(s)
  BY <1>2 DEF Open
<1>4. ASSUME Fail(s), pc[s] # "idle" PROVE AckInv'
  BY <1>4 DEF Fail
<1>3. ASSUME Succeed(s), s \in Plain \/ stream[s] = "yes" PROVE AckInv'
  BY <1>3, OutboundConstants DEF Succeed
<1>5. CASE Write(s)
  BY <1>3, <1>5 DEF Write
<1>6. CASE Resume(s)
  BY <1>6 DEF Resume
<1>7. CASE OpenFails(s) \/ WriteFails(s)
  BY <1>4, <1>7 DEF OpenFails, WriteFails
<1>8. CASE ReadAck(s)
  BY <1>3, <1>4, <1>8 DEF ReadAck
<1> QED BY <1>1, <1>2, <1>5, <1>6, <1>7, <1>8 DEF Step

\* The invariant holds at the start and is kept by every step.
LEMMA InvStep == Inv /\ [OutboundNext]_outVars => Inv'
<1> SUFFICES ASSUME Inv, [OutboundNext]_outVars PROVE Inv'
  OBVIOUS
<1>1. ASSUME NEW s \in Sender, Start(s) \/ Step(s) PROVE Inv'
  BY <1>1, SenderTypes, SenderAcks DEF Inv
<1> USE DEF Inv, AckInv, AckedReceived, CallTypes, NetTypes, States, Stream, calls, net, Sender
<1>2. ASSUME NEW s \in Acked, Receive(s) PROVE Inv'
  BY <1>2 DEF Receive
<1>3. ASSUME NEW s \in Acked, NEW answer \in Answers, Answer(s, answer) PROVE Inv'
  BY <1>3 DEF Answer, Answers
<1>4. CASE Cut
  BY <1>4 DEF Cut
<1>5. CASE HostStep
  BY <1>5 DEF HostStep
<1>6. CASE UNCHANGED outVars
  BY <1>6 DEF outVars
<1> QED BY <1>1, <1>2, <1>3, <1>4, <1>5, <1>6 DEF OutboundNext

\* A bid or a PCS proof that was reported as submitted was read by the
\* orchestrator in the attempt that succeeded, for any set of senders, any
\* number of attempts and any loss of streams and connections.
THEOREM AcksSound == OutboundSpec => []AckedReceived
<1>1. OutboundInit => Inv
  BY DEF OutboundInit, Inv, AckInv, AckedReceived, CallTypes, NetTypes, Labels, States
<1>2. Inv => AckedReceived
  BY DEF Inv, AckInv
<1> QED BY <1>1, <1>2, InvStep, PTL DEF OutboundSpec

\* The senders and the host keep their types, for any constants.
THEOREM OutboundTypes == OutboundSpec => []OutboundTypeOK
<1>1. OutboundInit => Inv
  BY DEF OutboundInit, Inv, AckInv, AckedReceived, CallTypes, NetTypes, Labels, States
<1>2. Inv /\ TypeOK => OutboundTypeOK
  BY DEF Inv, CallTypes, NetTypes, Labels, States, OutboundTypeOK
<1> QED BY <1>1, <1>2, InvStep, ImplementsHost, HostTypes, PTL DEF OutboundSpec

\* The orchestrator hears the subscription of a node that sends over the link.
THEOREM OutboundHeard == OutboundSpec => []Heard
BY ImplementsHost, LinkCorrect, PTL

=============================================================================
