---------------------------- MODULE TaskDelivery ----------------------------
(***************************************************************************)
(* What the node promises the orchestrator about a sub-task, with no        *)
(* streams, queue, worker, tables or loops: each acceptance of a key        *)
(* is computed, its result is stored, handed over, and only then let go of. *)
(* A result can be lost only between the end of the computation and its     *)
(* storing; a key is accepted again only when its former acceptance is over. *)
(* TaskPipeline implements this (ImplementsDelivery there).                 *)
(***************************************************************************)
EXTENDS Integers

CONSTANTS
  SubTask,          \* keys
  WritesMayFail     \* whether the node's storage may refuse a write

VARIABLES
  turn,        \* acceptances of each key so far
  stage,       \* how far the latest acceptance of each key has come
  delivered    \* acceptances <<key, turn>> whose result was handed over

vars == <<turn, stage, delivered>>

Over == {"none", "settled", "lost"}
Stage == Over \cup {"accepted", "finished", "stored"}

Latest(k) == <<k, turn[k]>>
\* The second conjunct follows from the third; it spares TLC the function.
Move(k, from, to) ==
  /\ stage[k] \in from
  /\ stage'[k] = to
  /\ stage' = [stage EXCEPT ![k] = to]

Init ==
  /\ turn = [k \in SubTask |-> 0]
  /\ stage = [k \in SubTask |-> "none"]
  /\ delivered = {}

\* A dispatch is taken on.
Accept(k) ==
  /\ turn' = [turn EXCEPT ![k] = @ + 1]
  /\ Move(k, Over, "accepted")
  /\ UNCHANGED delivered

\* The computation is over, with a result or an error to report.
Finish(k) == Move(k, {"accepted"}, "finished") /\ UNCHANGED <<turn, delivered>>

\* The result is safe.  When the write that ends the computation was refused, the
\* acceptance has not been marked finished, and a restart may compute it anew.
Store(k) ==
  /\ Move(k, {"finished"} \cup (IF WritesMayFail THEN {"accepted", "settled"} ELSE {}), "stored")
  /\ UNCHANGED <<turn, delivered>>

\* A finished computation is lost before its result is stored.
Lose(k) == Move(k, {"finished"}, "lost") /\ UNCHANGED <<turn, delivered>>

\* The stored result is handed to the transport, perhaps not for the first time.
Deliver(k) ==
  /\ stage[k] = "stored"
  /\ delivered' = delivered \cup {Latest(k)}
  /\ UNCHANGED <<turn, stage>>

\* A delivered result is let go of.
Settle(k) ==
  /\ Latest(k) \in delivered
  /\ Move(k, {"stored"}, "settled")
  /\ UNCHANGED <<turn, delivered>>

Next == \E k \in SubTask :
  Accept(k) \/ Finish(k) \/ Store(k) \/ Lose(k) \/ Deliver(k) \/ Settle(k)

Spec == Init /\ [][Next]_vars

\* Every acceptance comes to an end.
Ends == \A k \in SubTask : (stage[k] \notin Over) ~> (stage[k] \in Over)

=============================================================================
