----------------------------- MODULE CoreHealth -----------------------------
(***************************************************************************)
(* The health gate in front of wqc-core (infra/core_client.rs), shared by   *)
(* the worker's /compute calls and the /leaf_pcs calls of the PCS builds.   *)
(* consecutive_failures is an atomic and unhealthy_until a mutex of its     *)
(* own: record_unreachable and mark_healthy update them in separate steps,  *)
(* and those of several callers interleave.                                 *)
(*                                                                         *)
(* Time passes in ticks between the network waits; the steps of a caller    *)
(* that does not wait take none.                                            *)
(***************************************************************************)
EXTENDS Integers, FiniteSets

CONSTANTS
  Caller,         \* tasks that call core: the worker, spawned builds, retry loops
  FailThreshold,  \* WQC_CORE_HEALTH_FAIL_THRESHOLD (0 acts as 1)
  Backoff         \* WQC_CORE_HEALTH_BACKOFF_SECS, in ticks

ASSUME HealthConstants ==
  /\ IsFiniteSet(Caller)
  /\ FailThreshold \in Nat \ {0} /\ Backoff \in Nat \ {0}

VARIABLES
  up,        \* whether core can be reached
  failures,  \* consecutive_failures
  gate,      \* ticks until unhealthy_until passes; 0 is no backoff
  pc,        \* where each caller is
  missed,    \* ghost: unreachable errors since the gate was set or core answered
  answers    \* ghost: a request to core has just been answered

vars == <<up, failures, gate, pc, missed, answers>>

-----------------------------------------------------------------------------
\* Callers that wait for the network; the others run without a wait.
Waiting == {"idle", "probe", "call"}
\* mark_healthy and record_unreachable return to the request or to the caller.
Places == Waiting \cup {"heal", "healGate", "answer", "answerGate", "fail", "open", "reset"}

\* The most errors in a row before the gate is set: the counter may be reset late by
\* every other caller, and each reset hides up to a threshold of errors.
MissedBound == FailThreshold * Cardinality(Caller)

TypeOK ==
  /\ up \in BOOLEAN
  /\ failures \in 0..(FailThreshold + Cardinality(Caller))
  /\ gate \in 0..Backoff
  /\ pc \in [Caller -> Places]
  /\ missed \in Nat
  /\ answers \in BOOLEAN

Init ==
  /\ up \in BOOLEAN
  /\ failures = 0
  /\ gate = 0
  /\ pc = [c \in Caller |-> "idle"]
  /\ missed = 0
  /\ answers = FALSE

-----------------------------------------------------------------------------
At(c, here) == pc[c] = here
Go(c, there) == pc' = [pc EXCEPT ![c] = there] /\ answers' = FALSE

\* Mutant: any recorded failure counts as backoff.
BeginWithoutFailures(c) ==
  /\ At(c, "idle")
  /\ gate = 0 /\ failures = 0
  /\ Go(c, "probe")
  /\ UNCHANGED <<up, failures, gate, missed>>

\* dispatch_task, post_leaf_pcs: ensure_ready refuses in backoff.
Begin(c) ==
  /\ At(c, "idle")
  /\ gate = 0
  /\ Go(c, "probe")
  /\ UNCHANGED <<up, failures, gate, missed>>

\* probe_health: any answer but success, or none within 2 s, counts as unreachable.
Probe(c) ==
  /\ At(c, "probe")
  /\ Go(c, IF up THEN "heal" ELSE "fail")
  /\ UNCHANGED <<up, failures, gate, missed>>

\* The request: answered, refused at the connection (is_unreachable), or failed in a
\* way that does not count (a timeout, an error status, a body that does not parse).
Call(c) ==
  /\ At(c, "call")
  /\ \/ up /\ Go(c, "answer")
     \/ ~up /\ Go(c, "fail")
     \/ Go(c, "idle")
  /\ UNCHANGED <<up, failures, gate, missed>>

\* mark_healthy, first the counter ...  The ghost starts over with it, for a caller
\* that comes late with an old answer too: the errors it discards are the code's to
\* forget, DeadCoreSpared bounds the ones since the last mark_healthy.
Heal(c) ==
  /\ \/ At(c, "heal") /\ Go(c, "healGate")
     \/ At(c, "answer") /\ Go(c, "answerGate")
  /\ failures' = 0
  /\ missed' = 0
  /\ UNCHANGED <<up, gate>>

\* ... then unhealthy_until.
HealGate(c) ==
  /\ \/ /\ At(c, "healGate") /\ Go(c, "call")
     \/ /\ At(c, "answerGate")
        /\ pc' = [pc EXCEPT ![c] = "idle"] /\ answers' = TRUE
  /\ gate' = 0
  /\ UNCHANGED <<up, failures, missed>>

\* Mutant: the threshold is tested on the count before the error.
FailBefore(c) ==
  /\ At(c, "fail")
  /\ failures' = failures + 1
  /\ missed' = missed + 1
  /\ Go(c, IF failures >= FailThreshold THEN "open" ELSE "idle")
  /\ UNCHANGED <<up, gate>>

\* record_unreachable: fetch_add; the threshold is tested on what it returned.
Fail(c) ==
  /\ At(c, "fail")
  /\ failures' = failures + 1
  /\ missed' = missed + 1
  /\ Go(c, IF failures + 1 >= FailThreshold THEN "open" ELSE "idle")
  /\ UNCHANGED <<up, gate>>

\* unhealthy_until = now + backoff
Open(c) ==
  /\ At(c, "open")
  /\ gate' = Backoff
  /\ missed' = 0
  /\ Go(c, "reset")
  /\ UNCHANGED <<up, failures>>

\* Mutant: the counter is not reset when the gate is set.
ResetNothing(c) ==
  /\ At(c, "reset")
  /\ Go(c, "idle")
  /\ UNCHANGED <<up, failures, gate, missed>>

\* ... and the counter starts over.
Reset(c) ==
  /\ At(c, "reset")
  /\ failures' = 0
  /\ Go(c, "idle")
  /\ UNCHANGED <<up, gate, missed>>

\* Time passes while every caller waits.
Tick ==
  /\ \A c \in Caller : pc[c] \in Waiting
  /\ gate > 0
  /\ gate' = gate - 1
  /\ answers' = FALSE
  /\ UNCHANGED <<up, failures, pc, missed>>

\* Core stops or comes back.
CoreTurns ==
  /\ up' = ~up
  /\ answers' = FALSE
  /\ UNCHANGED <<failures, gate, pc, missed>>

-----------------------------------------------------------------------------
Step(c) ==
  Begin(c) \/ Probe(c) \/ Call(c) \/ Heal(c) \/ HealGate(c) \/ Fail(c) \/ Open(c) \/ Reset(c)

Next == (\E c \in Caller : Step(c)) \/ Tick \/ CoreTurns

Spec == Init /\ [][Next]_vars

\* Every caller is scheduled and comes back with more work, time passes, and a core
\* that is up answers a request at last.
Fairness ==
  /\ WF_vars(Tick)
  /\ \A c \in Caller : WF_vars(Step(c)) /\ SF_vars(Call(c) /\ pc'[c] = "answer")

FairSpec == Spec /\ Fairness

-----------------------------------------------------------------------------
(* Properties                                                              *)

\* "Avoid hammering a dead core": however the callers interleave, a core that cannot
\* be reached is asked no more often than the threshold times the callers before the
\* gate is set, although resets and a late mark_healthy discard counted errors.
DeadCoreSpared == missed <= MissedBound

\* The gate never shuts out a core that works: once core stays up, requests are
\* answered again and again.
Recovers == <>[]up => []<>answers

=============================================================================
