------------------------------ MODULE P2PHost ------------------------------
(***************************************************************************)
(* The libp2p host's link to the orchestrator (transport/p2p/host.rs): the  *)
(* event loop of run with handle_swarm_event, the redial timer, and the     *)
(* forced gossip subscription.  The node may be connected several times at  *)
(* once (TCP and QUIC, or a redial beside a live connection); libp2p        *)
(* reports each connection on its own.                                      *)
(*                                                                         *)
(* A swarm event and its handler are one step: the loop handles one event   *)
(* at a time and the swarm's view changes when it yields the event.  Timers *)
(* fire at any time after they are set.                                     *)
(***************************************************************************)
EXTENDS Integers, Sequences

CONSTANTS
  Addr,            \* the orchestrator's bootstrap addresses
  RedialMax,       \* BOOTSTRAP_REDIAL_MAX, in units of BOOTSTRAP_REDIAL_INITIAL
  AttemptCap,      \* bound: where redial_attempt saturates (2^32 - 1 in the code)
  MaxConns,        \* bound: connections at once
  SubscribeMayFail \* whether gossipsub.subscribe may refuse

ASSUME HostConstants ==
  /\ RedialMax \in Nat \ {0}
  /\ AttemptCap \in Nat
  /\ MaxConns \in Nat \ {0}
  /\ SubscribeMayFail \in BOOLEAN

VARIABLES
  conns,    \* connections to the orchestrator in the swarm
  dials,    \* addresses being dialled
  attempt,  \* redial_attempt
  sleep,    \* redial_sleep: the delay it was set with, 0 for None
  live,     \* orch_gossip_live
  topic,    \* gossipsub: the node is subscribed to the announcements
  heard     \* gossipsub: the orchestrator knows of that subscription

link == <<conns, dials>>
timer == <<attempt, sleep>>
gossip == <<live, topic, heard>>
vars == <<link, timer, gossip>>

-----------------------------------------------------------------------------
(* bootstrap_redial_delay                                                  *)

\* 1 << shift, for a shift of at most 16
Multiplier == <<1, 2, 4, 8, 16, 32, 64, 128, 256, 512, 1024, 2048, 4096, 8192, 16384,
                32768, 65536>>
Shifted(n) == Multiplier[1 + IF n < 16 THEN n ELSE 16]

\* Mutant: the delay is not capped.
RedialDelayUncapped(n) == Shifted(n)

RedialDelay(n) == IF Shifted(n) < RedialMax THEN Shifted(n) ELSE RedialMax

TypeOK ==
  /\ conns \in 0..MaxConns
  /\ dials \in SUBSET Addr
  /\ attempt \in 0..AttemptCap
  /\ sleep \in 0..RedialMax
  /\ live \in BOOLEAN /\ topic \in BOOLEAN /\ heard \in BOOLEAN

\* run up to the event loop: dial, and set the timer.
Init ==
  /\ conns = 0
  /\ dials = Addr
  /\ attempt = 0
  /\ sleep = RedialDelay(0)
  /\ live = FALSE /\ topic = FALSE /\ heard = FALSE

-----------------------------------------------------------------------------
\* ensure_orchestrator_gossip_subscription.  A forced unsubscribe and subscribe tells
\* the connected orchestrator; with orch_gossip_live set nothing is sent, and what the
\* orchestrator knows of an older subscription is not certain on a new link.
EnsureSubscription ==
  \/ /\ live
     /\ UNCHANGED <<live, topic>>
     /\ IF conns > 0 THEN UNCHANGED heard ELSE heard' \in {heard, topic}
  \/ /\ ~live
     /\ live' = TRUE /\ topic' = TRUE /\ heard' = TRUE
  \/ /\ ~live /\ SubscribeMayFail
     /\ live' = FALSE /\ topic' = FALSE /\ heard' = FALSE

\* ConnectionEstablished for the orchestrator.
Connected ==
  /\ conns < MaxConns
  /\ conns' = conns + 1
  /\ attempt' = 0
  /\ sleep' = 0
  /\ EnsureSubscription

\* A dialled address answers.
DialOk(a) ==
  /\ a \in dials
  /\ dials' = dials \ {a}
  /\ Connected

\* The orchestrator dials the node.
Inbound == Connected /\ UNCHANGED dials

\* Mutant: the timer is set only once, at the first failure.
DialFailedOnce(a) ==
  /\ a \in dials
  /\ dials' = dials \ {a}
  /\ sleep' = IF attempt = 0 THEN RedialDelay(attempt) ELSE 0
  /\ UNCHANGED <<conns, attempt, gossip>>

\* Mutant: a failed dial starts the backoff over.
DialFailedRestarting(a) ==
  /\ a \in dials
  /\ dials' = dials \ {a}
  /\ attempt' = 0
  /\ sleep' = RedialDelay(0)
  /\ UNCHANGED <<conns, gossip>>

\* OutgoingConnectionError for the orchestrator, the only peer whose dials are
\* modelled: the timer is set anew.  The failed dial of another peer only gets logged.
DialFailed(a) ==
  /\ a \in dials
  /\ dials' = dials \ {a}
  /\ sleep' = RedialDelay(attempt)
  /\ UNCHANGED <<conns, attempt, gossip>>

\* Mutant: orch_gossip_live survives the disconnect.
ClosedStillLive ==
  /\ conns > 0
  /\ conns' = conns - 1
  /\ sleep' = RedialDelay(attempt)
  /\ topic' = (topic /\ conns > 1)
  /\ heard' = (heard /\ conns > 1)
  /\ UNCHANGED <<dials, attempt, live>>

\* Mutant: the timer is set while another connection is left, not when none is.
ClosedUnarmed ==
  /\ conns > 0
  /\ conns' = conns - 1
  /\ IF conns = 1
     THEN live' = FALSE /\ topic' = FALSE /\ heard' = FALSE /\ UNCHANGED sleep
     ELSE UNCHANGED gossip /\ sleep' = RedialDelay(attempt)
  /\ UNCHANGED <<dials, attempt>>

\* ConnectionClosed: the last connection takes the subscription with it; the timer is
\* set in any case.
Closed ==
  /\ conns > 0
  /\ conns' = conns - 1
  /\ sleep' = RedialDelay(attempt)
  /\ IF conns = 1
     THEN live' = FALSE /\ topic' = FALSE /\ heard' = FALSE
     ELSE UNCHANGED gossip
  /\ UNCHANGED <<dials, attempt>>

\* The timer fires: dial every address, and set it again unless connected.
Redial ==
  /\ sleep # 0
  /\ attempt' = IF attempt < AttemptCap THEN attempt + 1 ELSE attempt
  /\ dials' = Addr
  /\ sleep' = IF conns = 0 THEN RedialDelay(attempt') ELSE 0
  /\ UNCHANGED <<conns, gossip>>

-----------------------------------------------------------------------------
Next ==
  \/ \E a \in Addr : DialOk(a) \/ DialFailed(a)
  \/ Inbound
  \/ Closed
  \/ Redial

Spec == Init /\ [][Next]_vars

\* The event loop serves the timer, and an orchestrator that is dialled for ever is
\* reached at last.
Fairness == WF_vars(Redial) /\ SF_vars(\E a \in Addr : DialOk(a))

-----------------------------------------------------------------------------
(* Properties                                                              *)

\* The orchestrator hears the node's gossip subscription whenever they are connected,
\* over any sequence of connects and disconnects of two transports: no reconnect keeps
\* a dead subscription and no second transport tears down a live one.
Heard == conns > 0 /\ (live \/ ~SubscribeMayFail) => heard /\ topic

\* "Retry until connected": a node without a connection always has a redial pending,
\* whatever mix of errors, disconnects and timers led there.
RedialArmed == conns = 0 => sleep # 0

\* "Exponential backoff (1s, 2s, 4s, ... capped at 60s)": while the node stays
\* disconnected, no error or timer shortens the delay before the next dial, and a
\* dial that ran out doubles it up to the cap.
BackoffGrows ==
  [][conns = 0 /\ conns' = 0 =>
       /\ sleep' >= sleep
       /\ attempt' > attempt =>
            sleep' = IF 2 * sleep < RedialMax THEN 2 * sleep ELSE RedialMax]_vars

\* A node that lost the orchestrator is connected again.
Reconnects == conns = 0 ~> conns > 0

=============================================================================
