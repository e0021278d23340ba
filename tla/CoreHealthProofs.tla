-------------------------- MODULE CoreHealthProofs --------------------------
(***************************************************************************)
(* Theorems about CoreHealth for any number of callers and any threshold.   *)
(*                                                                          *)
(* An error that makes the counter reach the threshold sends its caller to  *)
(* set the gate, and setting it starts missed over: so the errors missed    *)
(* counts beyond the threshold stand in a line at "open".  A caller at      *)
(* "reset" may still wipe the counter once, and each wipe hides less than a *)
(* threshold of errors.                                                     *)
(***************************************************************************)
EXTENDS CoreHealth, FiniteSetTheorems, TLAPS

Opening == {c \in Caller : pc[c] = "open"}
Resetting == {c \in Caller : pc[c] = "reset"}
Callers == Cardinality(Caller)
Openers == Cardinality(Opening)
Resetters == Cardinality(Resetting)

\* Errors of the present count that sent nobody to the gate.
Silent == IF failures < FailThreshold THEN failures ELSE FailThreshold - 1

\* The counter passes the threshold only by the errors of callers that are about to
\* set the gate or to reset the counter.
CountBounded == failures <= FailThreshold - 1 + Openers + Resetters

\* Errors the counter has forgotten: less than a threshold for each caller that does
\* not stand at "reset" any more, one less for the segment that is being counted.
MissedBounded ==
  IF Resetters = Callers
  THEN missed = 0
  ELSE missed <= (Callers - Resetters - 1) * (FailThreshold - 1) + Silent + Openers

Types ==
  /\ failures \in Nat
  /\ gate \in 0..Backoff
  /\ pc \in [Caller -> Places]
  /\ missed \in Nat

GateInv == Types /\ CountBounded /\ MissedBounded

USE DEF Places, Waiting

\* How many callers there can be at each place.
LEMMA Headcount ==
  ASSUME pc \in [Caller -> Places]
  PROVE  /\ IsFiniteSet(Opening) /\ IsFiniteSet(Resetting)
         /\ Openers \in Nat /\ Resetters \in Nat /\ Callers \in Nat
         /\ Openers + Resetters <= Callers
         /\ (\E c \in Caller : pc[c] # "reset") => Resetters < Callers
<1>1. /\ IsFiniteSet(Opening) /\ IsFiniteSet(Resetting)
      /\ Openers \in Nat /\ Resetters \in Nat /\ Callers \in Nat
  BY HealthConstants, FS_Subset, FS_CardinalityType DEF Opening, Resetting, Openers, Resetters, Callers
<1>2. Openers + Resetters <= Callers
  <2>1. Opening \cap Resetting = {} /\ Opening \cup Resetting \subseteq Caller
    BY DEF Opening, Resetting
  <2>2. Cardinality(Opening \cup Resetting) = Openers + Resetters
    BY <1>1, <2>1, FS_Union, FS_EmptySet DEF Openers, Resetters
  <2> QED BY <2>1, <2>2, HealthConstants, FS_Subset DEF Callers
<1>3. ASSUME NEW c \in Caller, pc[c] # "reset" PROVE Resetters < Callers
  <2>1. Resetting \subseteq Caller /\ Resetting # Caller
    BY <1>3 DEF Resetting
  <2>2. Resetters <= Callers /\ Resetters # Callers
    BY <2>1, HealthConstants, FS_Subset DEF Resetters, Callers
  <2> QED BY <1>1, <2>2
<1> QED BY <1>1, <1>2, <1>3

\* A caller moves without passing "open" or "reset".
LEMMA QuietMove ==
  ASSUME Types, NEW c \in Caller, NEW there \in Places, pc' = [pc EXCEPT ![c] = there],
         pc[c] \notin {"open", "reset"}, there \notin {"open", "reset"}
  PROVE  Openers' = Openers /\ Resetters' = Resetters
<1>1. Opening' = Opening /\ Resetting' = Resetting
  BY DEF Opening, Resetting, Types
<1> QED BY <1>1 DEF Openers, Resetters

LEMMA OpenMove ==
  ASSUME Types, NEW c \in Caller, pc' = [pc EXCEPT ![c] = "open"], pc[c] \notin {"open", "reset"}
  PROVE  Openers' = Openers + 1 /\ Resetters' = Resetters
<1>1. Opening' = Opening \cup {c} /\ c \notin Opening /\ Resetting' = Resetting
  BY DEF Opening, Resetting, Types
<1> QED BY <1>1, Headcount, FS_AddElement DEF Openers, Resetters, Types

LEMMA ResetMove ==
  ASSUME Types, NEW c \in Caller, pc' = [pc EXCEPT ![c] = "reset"], pc[c] = "open"
  PROVE  Openers' = Openers - 1 /\ Resetters' = Resetters + 1
<1>1. Opening' = Opening \ {c} /\ c \in Opening /\ Resetting' = Resetting \cup {c} /\ c \notin Resetting
  BY DEF Opening, Resetting, Types
<1> QED BY <1>1, Headcount, FS_AddElement, FS_RemoveElement DEF Openers, Resetters, Types

LEMMA DoneMove ==
  ASSUME Types, NEW c \in Caller, pc' = [pc EXCEPT ![c] = "idle"], pc[c] = "reset"
  PROVE  Openers' = Openers /\ Resetters' = Resetters - 1
<1>1. Opening' = Opening /\ c \in Resetting /\ Resetting' = Resetting \ {c}
  BY DEF Opening, Resetting, Types
<1> QED BY <1>1, Headcount, FS_RemoveElement DEF Openers, Resetters, Types

\* One segment more, one less.
LEMMA Segment ==
  ASSUME NEW n \in Nat, NEW r \in Nat, NEW d \in Nat
  PROVE  /\ (n - (r - 1) - 1) * d = (n - r - 1) * d + d
         /\ r < n => (n - r - 1) * d \in Nat
<1>1. (n - (r - 1) - 1) * d = (n - r - 1) * d + d
  OBVIOUS
<1>2. ASSUME r < n PROVE (n - r - 1) * d \in Nat
  <2>1. n - r - 1 \in Nat
    BY <1>2
  <2>2. \A x, y \in Nat : x * y \in Nat
    OBVIOUS
  <2> QED BY <2>1, <2>2
<1> QED BY <1>1, <1>2

LEMMA InitGate == Init => GateInv
<1> SUFFICES ASSUME Init PROVE GateInv
  OBVIOUS
<1>1. Types /\ failures = 0 /\ missed = 0
  BY HealthConstants DEF Init, Types
<1>2. Opening = {} /\ Resetting = {}
  BY DEF Init, Opening, Resetting
<1>3. Openers = 0 /\ Resetters = 0
  BY <1>2, FS_EmptySet DEF Openers, Resetters
<1>4. CountBounded
  BY <1>1, <1>3, HealthConstants DEF CountBounded
<1>5. MissedBounded
  <2>1. Resetters < Callers => (Callers - Resetters - 1) * (FailThreshold - 1) \in Nat
    BY <1>1, Headcount, Segment, HealthConstants DEF Types
  <2> QED BY <1>1, <1>3, <2>1, Headcount, HealthConstants DEF MissedBounded, Silent, Types
<1> QED BY <1>1, <1>4, <1>5 DEF GateInv

LEMMA StepGate ==
  ASSUME GateInv, NEW c \in Caller, Step(c)
  PROVE  GateInv'
<1> USE DEF GateInv, Go, At
<1> DEFINE D == FailThreshold - 1
           Past(r) == (Callers - r - 1) * D
<1>0. /\ FailThreshold \in Nat \ {0} /\ D \in Nat /\ Callers' = Callers
      /\ Openers \in Nat /\ Resetters \in Nat /\ Callers \in Nat
      /\ pc[c] # "reset" => Resetters < Callers
      /\ failures \in Nat /\ missed \in Nat
  BY HealthConstants, Headcount DEF Types, Callers
<1>1. /\ \A r \in Nat : (r < Callers => Past(r) \in Nat)
      /\ \A r \in Nat : Past(r - 1) = Past(r) + D
  BY <1>0, Segment
<1> HIDE DEF Past, D
<1>2. ASSUME Begin(c) \/ Probe(c) \/ Call(c) \/ HealGate(c) PROVE GateInv'
  <2>1. PICK there \in Places : /\ pc' = [pc EXCEPT ![c] = there]
                                /\ there \notin {"open", "reset"} /\ pc[c] \notin {"open", "reset"}
    BY <1>2 DEF Begin, Probe, Call, HealGate
  <2>2. Openers' = Openers /\ Resetters' = Resetters
    BY <2>1, QuietMove
  <2>3. Types' /\ UNCHANGED <<failures, missed>>
    BY <1>2, <2>1, HealthConstants DEF Begin, Probe, Call, HealGate, Types
  <2> QED BY <1>0, <2>2, <2>3 DEF CountBounded, MissedBounded, Silent
<1>3. ASSUME Heal(c) PROVE GateInv'
  <2>1. PICK there \in Places : /\ pc' = [pc EXCEPT ![c] = there]
                                /\ there \notin {"open", "reset"} /\ pc[c] \notin {"open", "reset"}
    BY <1>3 DEF Heal
  <2>2. Openers' = Openers /\ Resetters' = Resetters
    BY <2>1, QuietMove
  <2>3. Types' /\ failures' = 0 /\ missed' = 0
    BY <1>3, <2>1 DEF Heal, Types
  <2>4. CountBounded'
    BY <1>0, <2>2, <2>3 DEF CountBounded
  <2>5. MissedBounded'
    BY <1>0, <1>1, <2>1, <2>2, <2>3 DEF MissedBounded, Silent, Past, D
  <2> QED BY <2>3, <2>4, <2>5
<1>4. ASSUME Fail(c) PROVE GateInv'
  <2>1. /\ failures' = failures + 1 /\ missed' = missed + 1 /\ pc[c] = "fail"
        /\ Types'
    BY <1>4 DEF Fail, Types
  <2>2. missed <= Past(Resetters) + Silent + Openers
    BY <1>0, <2>1 DEF MissedBounded, Past, D
  <2>3. CASE failures + 1 < FailThreshold
    <3>1. Openers' = Openers /\ Resetters' = Resetters
      <4>1. ~(failures + 1 >= FailThreshold)
        BY <1>0, <2>3
      <4>2. pc' = [pc EXCEPT ![c] = "idle"]
        BY <1>4, <4>1 DEF Fail
      <4> QED BY <2>1, <4>2, QuietMove
    <3>2. Silent' = Silent + 1
      BY <1>0, <2>1, <2>3 DEF Silent
    <3>3. missed' <= Past(Resetters) + Silent' + Openers'
      BY <1>0, <1>1, <2>1, <2>2, <3>1, <3>2 DEF Silent
    <3> QED BY <1>0, <2>1, <2>3, <3>1, <3>3 DEF CountBounded, MissedBounded, Past, D
  <2>4. CASE failures + 1 >= FailThreshold
    <3>1. Openers' = Openers + 1 /\ Resetters' = Resetters
      <4>1. pc' = [pc EXCEPT ![c] = "open"]
        BY <1>4, <2>4 DEF Fail
      <4> QED BY <2>1, <4>1, OpenMove
    <3>2. Silent' = Silent
      BY <1>0, <2>1, <2>4 DEF Silent
    <3>3. missed' <= Past(Resetters) + Silent' + Openers'
      BY <1>0, <1>1, <2>1, <2>2, <3>1, <3>2 DEF Silent
    <3>4. CountBounded'
      BY <1>0, <2>1, <3>1 DEF CountBounded
    <3> QED BY <1>0, <2>1, <3>1, <3>3, <3>4 DEF MissedBounded, Past, D
  <2> QED BY <1>0, <2>3, <2>4
<1>5. ASSUME Open(c) PROVE GateInv'
  <2>1. UNCHANGED failures /\ missed' = 0 /\ Types' /\ Openers' = Openers - 1 /\ Resetters' = Resetters + 1
    <3>1. /\ UNCHANGED failures /\ missed' = 0 /\ gate' = Backoff
          /\ pc' = [pc EXCEPT ![c] = "reset"] /\ pc[c] = "open"
      BY <1>5 DEF Open
    <3>2. Types'
      BY <3>1, HealthConstants DEF Types
    <3> QED BY <3>1, <3>2, ResetMove
  <2>2. Openers' \in Nat /\ Resetters' \in Nat /\ Resetters' <= Callers
    <3>1. c \in Opening
      BY <1>5 DEF Open, Opening
    <3>2. Openers > 0 /\ Openers + Resetters <= Callers
      BY <1>0, <3>1, Headcount, FS_EmptySet DEF Types, Openers
    <3> QED BY <1>0, <2>1, <3>2
  <2>3. CountBounded'
    BY <1>0, <2>1 DEF CountBounded
  <2>4. Silent' \in Nat
    BY <1>0, <2>1 DEF Silent
  <2>5. Resetters' < Callers => Past(Resetters') \in Nat
    BY <1>1, <2>2
  <2>6. Resetters' # Callers => missed' <= Past(Resetters') + Silent' + Openers'
    BY <1>0, <2>1, <2>2, <2>4, <2>5
  <2>7. MissedBounded'
    BY <1>0, <2>1, <2>6 DEF MissedBounded, Past, D
  <2> QED BY <2>1, <2>3, <2>7
<1>6. ASSUME Reset(c) PROVE GateInv'
  <2>1. /\ failures' = 0 /\ UNCHANGED missed /\ Types' /\ Openers' = Openers /\ Resetters' = Resetters - 1
        /\ pc[c] = "reset"
    BY <1>6, DoneMove DEF Reset, Types
  <2>2. c \in Resetting /\ Resetters > 0 /\ Resetters <= Callers
    <3>1. c \in Resetting
      BY <2>1 DEF Resetting
    <3> QED BY <1>0, <3>1, Headcount, FS_EmptySet DEF Types, Resetters
  <2>3. CountBounded'
    BY <1>0, <2>1, <2>2 DEF CountBounded
  <2>4. Silent <= D /\ Silent \in Nat /\ Silent' = 0
    BY <1>0, <2>1 DEF Silent, D
  <2>5. missed <= Past(Resetters') + Openers
    <3>1. CASE Resetters = Callers
      <4>1. missed = 0 /\ Past(Resetters') \in Nat
        BY <1>0, <1>1, <2>1, <2>2, <3>1 DEF MissedBounded
      <4> QED BY <1>0, <4>1
    <3>2. CASE Resetters < Callers
      <4>1. missed <= Past(Resetters) + Silent + Openers /\ Past(Resetters) \in Nat
        BY <1>0, <1>1, <3>2 DEF MissedBounded, Past, D
      <4>2. Past(Resetters') = Past(Resetters) + D
        BY <1>0, <1>1, <2>1
      <4> QED BY <1>0, <2>4, <4>1, <4>2
    <3> QED BY <1>0, <2>2, <3>1, <3>2
  <2>6. MissedBounded'
    BY <1>0, <2>1, <2>2, <2>4, <2>5 DEF MissedBounded, Past, D
  <2> QED BY <2>1, <2>3, <2>6
<1> QED BY <1>2, <1>3, <1>4, <1>5, <1>6 DEF Step

LEMMA GateInductive == Spec => []GateInv
<1>1. ASSUME GateInv, [Next]_vars PROVE GateInv'
  <2>1. CASE Tick \/ CoreTurns \/ UNCHANGED vars
    <3>1. UNCHANGED <<failures, pc, missed>> /\ Types'
      BY <1>1, <2>1, HealthConstants DEF GateInv, Types, Tick, CoreTurns, vars
    <3> QED BY <1>1, <3>1 DEF GateInv, CountBounded, MissedBounded, Silent, Openers, Resetters, Opening,
                              Resetting, Callers
  <2> QED BY <1>1, <2>1, StepGate DEF Next
<1> QED BY <1>1, InitGate, PTL DEF Spec

\* Every variable keeps its type; consecutive_failures exceeds the threshold by
\* no more than the number of callers.
THEOREM GateTypeCorrect == Spec => []TypeOK
<1> DEFINE Flags == up \in BOOLEAN /\ answers \in BOOLEAN
<1>1. GateInv /\ Flags => TypeOK
  BY HealthConstants, Headcount DEF GateInv, Types, CountBounded, TypeOK, Callers
<1>2. Init => Flags
  BY DEF Init
<1>3. Flags /\ [Next]_vars => Flags'
  BY DEF Next, Step, Begin, Probe, Call, Heal, HealGate, Fail, Open, Reset, Tick, CoreTurns, Go, vars
<1> QED BY <1>1, <1>2, <1>3, GateInductive, PTL DEF Spec

\* A core that cannot be reached is asked no more often than the threshold times
\* the callers before the gate is set, for every number of callers and every
\* threshold, however their late resets interleave.
THEOREM DeadCoreIsSpared == Spec => []DeadCoreSpared
<1>1. ASSUME GateInv PROVE DeadCoreSpared
  <2> DEFINE D == FailThreshold - 1
             n == Callers
             r == Resetters
  <2>1. /\ n \in Nat /\ r \in Nat /\ Openers \in Nat /\ Openers + r <= n /\ D \in Nat
        /\ FailThreshold = D + 1 /\ missed \in Nat /\ Silent <= D /\ Silent \in Nat
    BY <1>1, Headcount, HealthConstants DEF GateInv, Types, Silent
  <2>2. MissedBound = FailThreshold * n
    BY DEF MissedBound, Callers
  <2>3. CASE r = n
    <3>1. missed = 0
      BY <1>1, <2>3 DEF GateInv, MissedBounded
    <3>2. \A x, y \in Nat : x * y \in Nat
      OBVIOUS
    <3> QED BY <2>1, <2>2, <3>1, <3>2 DEF DeadCoreSpared
  <2>4. CASE r # n
    <3>1. missed <= (n - r - 1) * D + Silent + Openers
      BY <1>1, <2>4 DEF GateInv, MissedBounded
    <3> HIDE DEF D, n, r
    <3>2. missed <= (n - r) * D + (n - r)
      BY <2>1, <3>1
    <3>3. (n - r) * D + (n - r) = n * D + n - (r * D + r)
      BY <2>1
    <3>4. r * D \in Nat
      BY <2>1
    <3>5. FailThreshold * n = n * D + n
      BY <2>1
    <3> QED BY <2>1, <2>2, <3>2, <3>3, <3>4, <3>5 DEF DeadCoreSpared
  <2> QED BY <2>3, <2>4
<1> QED BY <1>1, GateInductive, PTL

=============================================================================
