------------------------------ MODULE Outbound ------------------------------
(***************************************************************************)
(* The streams the node opens to the orchestrator over the link of P2PHost  *)
(* (transport/p2p/stream_io.rs, with the attempts of bid_client.rs and      *)
(* pcs_bid_client.rs).  All senders share one Control behind a tokio mutex, *)
(* which is handed over in the order of arrival.  A plain sender (results,  *)
(* PCS bids) keeps it until its stream is closed; one that waits for an ack *)
(* (bids, PCS proofs) gives it back as soon as its stream is open.          *)
(*                                                                         *)
(* A connection that closes takes its streams with it.  The peer may read,  *)
(* answer, or leave a stream as it is, in its own time.                     *)
(***************************************************************************)
EXTENDS P2PHost

CONSTANTS
  Plain,     \* senders that use write_outbound_stream
  Acked,     \* senders that use write_outbound_stream_expect_ack
  Attempts   \* MAX_ATTEMPTS of a sender: 3 for both kinds of bid, else 1

Sender == Plain \cup Acked

ASSUME OutboundConstants ==
  /\ Plain \cap Acked = {}
  /\ Attempts \in [Sender -> Nat \ {0}]

VARIABLES
  pc,      \* where a sender is: "idle", "lock", "write", "ack" or "pause"
  queue,   \* the mutex: its holder, then those who wait
  stream,  \* a sender's stream: "none", "open", "sent", "read", "cut", or the answer
  tries,   \* attempts of the call that have failed
  ok,      \* senders whose last call returned Ok
  got      \* senders whose payload of the running attempt the peer has read

calls == <<pc, queue, tries, ok>>
net == <<stream, got>>
outVars == <<vars, calls, net>>

Answers == {"yes", "no", "empty"}

OutboundInit ==
  /\ Init
  /\ pc = [s \in Sender |-> "idle"] /\ queue = <<>>
  /\ stream = [s \in Sender |-> "none"]
  /\ tries = [s \in Sender |-> 0]
  /\ ok = {} /\ got = {}

-----------------------------------------------------------------------------
(* Senders                                                                 *)

At(s, label) == pc[s] = label
Goto(s, label) == pc' = [pc EXCEPT ![s] = label]
Stream(s, state) == stream' = [stream EXCEPT ![s] = state]
Holds(s) == queue # <<>> /\ Head(queue) = s

\* A result, a bid or a PCS wire is to be sent: control.lock().
Start(s) ==
  /\ At(s, "idle") /\ Goto(s, "lock")
  /\ queue' = Append(queue, s)
  /\ tries' = [tries EXCEPT ![s] = 0]
  /\ ok' = ok \ {s}
  /\ UNCHANGED <<vars, net>>

\* Mutant: expect_ack keeps the mutex, as write_outbound_stream does.
OpenKeeping(s) ==
  /\ At(s, "lock") /\ Holds(s) /\ conns > 0
  /\ Goto(s, "write") /\ Stream(s, "open") /\ got' = got \ {s}
  /\ UNCHANGED <<vars, queue, tries, ok>>

Open(s) ==
  /\ At(s, "lock") /\ Holds(s) /\ conns > 0
  /\ Goto(s, "write") /\ Stream(s, "open") /\ got' = got \ {s}
  /\ queue' = IF s \in Acked THEN Tail(queue) ELSE queue
  /\ UNCHANGED <<vars, tries, ok>>

\* The guard of the mutex is dropped with the function's frame.
Release(s) == queue' = IF Holds(s) THEN Tail(queue) ELSE queue

Succeed(s) ==
  /\ Goto(s, "idle") /\ Stream(s, "none") /\ Release(s)
  /\ ok' = ok \cup {s}
  /\ UNCHANGED <<vars, tries, got>>

\* An attempt fails: after a pause the next one, if there is one left.
Fail(s) ==
  /\ Stream(s, "none") /\ Release(s)
  /\ tries' = [tries EXCEPT ![s] = @ + 1]
  /\ Goto(s, IF tries'[s] < Attempts[s] THEN "pause" ELSE "idle")
  /\ UNCHANGED <<vars, ok, got>>

\* open_stream fails: no link, or the protocol is not negotiated in time.
OpenFails(s) == At(s, "lock") /\ Holds(s) /\ Fail(s)

\* write_all and close: the payload and the end of it are handed to the link.
Write(s) ==
  /\ At(s, "write") /\ stream[s] = "open"
  /\ IF s \in Plain THEN Succeed(s)
     ELSE Goto(s, "ack") /\ Stream(s, "sent") /\ UNCHANGED <<vars, queue, tries, ok, got>>

WriteFails(s) == At(s, "write") /\ Fail(s)

\* Mutant: whatever ends read_to_end counts as an ack.
ReadAckAny(s) == At(s, "ack") /\ stream[s] \in Answers /\ Succeed(s)

\* read_to_end: only {"ok":true} is an ack; a stream that ends without a JSON
\* answer, or is cut, is an error.
ReadAck(s) ==
  /\ At(s, "ack") /\ stream[s] \in Answers \cup {"cut"}
  /\ IF stream[s] = "yes" THEN Succeed(s) ELSE Fail(s)

\* The pause of 100 ms is over.
Resume(s) ==
  /\ At(s, "pause") /\ Goto(s, "lock")
  /\ queue' = Append(queue, s)
  /\ UNCHANGED <<vars, tries, ok, net>>

Step(s) == Open(s) \/ OpenFails(s) \/ Write(s) \/ WriteFails(s) \/ ReadAck(s) \/ Resume(s)

-----------------------------------------------------------------------------
(* The orchestrator and the link                                           *)

\* External: the orchestrator reads a payload to its end.
Receive(s) ==
  /\ stream[s] = "sent" /\ Stream(s, "read")
  /\ got' = got \cup {s}
  /\ UNCHANGED <<vars, calls>>

\* External: it answers what it has read, or drops the stream at any time.
Answer(s, answer) ==
  /\ stream[s] \in (IF answer = "empty" THEN {"sent", "read"} ELSE {"read"})
  /\ Stream(s, answer)
  /\ UNCHANGED <<vars, calls, got>>

\* A connection closes: the streams on it are cut, and those are all of them
\* when it was the last one.
Cut ==
  /\ Closed
  /\ \E lost \in SUBSET {s \in Sender : stream[s] # "none"} :
       /\ conns = 1 => lost = {s \in Sender : stream[s] # "none"}
       /\ stream' = [s \in Sender |-> IF s \in lost THEN "cut" ELSE stream[s]]
  /\ UNCHANGED <<calls, got>>

\* The other events of the host leave the streams as they are.
HostStep ==
  /\ (\E a \in Addr : DialOk(a) \/ DialFailed(a)) \/ Inbound \/ Redial
  /\ UNCHANGED <<calls, net>>

OutboundNext ==
  \/ \E s \in Sender : Start(s) \/ Step(s)
  \/ \E s \in Acked : Receive(s) \/ \E answer \in Answers : Answer(s, answer)
  \/ Cut
  \/ HostStep

\* A sender that can go on does: the mutex is fair, open_stream has a timeout,
\* and a written payload is taken by the link in the end, for the orchestrator
\* reads or the connection dies.  Nothing makes it answer.
OutboundSpec ==
  /\ OutboundInit /\ [][OutboundNext]_outVars /\ Fairness
  /\ \A s \in Sender : WF_outVars(Step(s))

-----------------------------------------------------------------------------
(* Properties                                                              *)

OutboundTypeOK ==
  /\ TypeOK
  /\ pc \in [Sender -> {"idle", "lock", "write", "ack", "pause"}]
  /\ queue \in Seq(Sender)
  /\ stream \in [Sender -> {"none", "open", "sent", "read", "cut"} \cup Answers]
  /\ tries \in [Sender -> Nat]
  /\ ok \subseteq Sender /\ got \subseteq Sender

\* A bid or a PCS proof that was reported as submitted
\* (write_outbound_stream_expect_ack returned Ok) was read by the orchestrator in
\* the attempt that succeeded, whatever streams were cut, dropped or answered
\* late on the way.
AckedReceived == ok \cap Acked \subseteq got

\* Sending a result, and a PCS bid with all of its attempts, comes to an end,
\* although any number of bids may be waiting for acks that never come and the
\* link may be lost at any time.
PlainSendsEnd == \A s \in Plain : pc[s] # "idle" ~> pc[s] = "idle"

=============================================================================
