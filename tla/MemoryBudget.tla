---------------------------- MODULE MemoryBudget ----------------------------
(***************************************************************************)
(* The memory envelope of the node (memory_budget.rs): how many bytes it    *)
(* may use of the host's RAM and the adapter's VRAM, and how wide a         *)
(* circuit it may advertise for them.  Words are unsigned with WordBits     *)
(* bits and the arithmetic saturates, as the code's u64 does; f64 serves    *)
(* the log only and is left out.                                            *)
(***************************************************************************)
EXTENDS Integers

CONSTANTS
  WordBits,       \* 64 in the code
  GiB,            \* GIB_U64
  AmpBytes,       \* DENSE_AMPLITUDE_BYTES
  SiteBytes,      \* MPS_BOND_DIM^2 * MPS_SITE_FACTOR_BYTES
  BidMax,         \* u32::MAX, the largest width a bid can carry
  LargeHostGiB    \* HOST_MEMORY_RESERVE_THRESHOLD_GIB

WordMax == 2^WordBits - 1

ASSUME BudgetConstants ==
  /\ WordBits \in Nat \ {0} /\ BidMax \in Nat \ {0} /\ LargeHostGiB \in Nat
  /\ GiB \in 1..WordMax - 1 /\ SiteBytes \in 1..WordMax
  /\ AmpBytes \in 2..SiteBytes - 1

Unset == -1
Lesser(a, b) == IF a < b THEN a ELSE b
Greater(a, b) == IF a > b THEN a ELSE b
SaturatingMul(a, b) == Lesser(a * b, WordMax)
SaturatingSub(a, b) == Greater(a - b, 0)

-----------------------------------------------------------------------------
HostReserveGiB(totalGiB) == IF totalGiB >= LargeHostGiB THEN 2 ELSE 1

\* Mutant: the whole host is offered.
MaxGiBWithoutReserve(totalGiB) == Greater(totalGiB, 1)

MaxGiBFromTotal(totalGiB) ==
  IF totalGiB = 0 THEN 1
  ELSE Greater(SaturatingSub(totalGiB, HostReserveGiB(totalGiB)), 1)

\* A host of any size is rounded down to whole GiB first.
MaxBytesFromTotal(total) == SaturatingMul(MaxGiBFromTotal(total \div GiB), GiB)

\* The request is in bytes here: WQC_MAX_MEMORY_GB times GiB, or Unset.  The
\* cast from f64 saturates at both ends.
EffectiveBytes(request, total) ==
  IF request = Unset THEN MaxBytesFromTotal(total)
  ELSE Lesser(Greater(request, 0), MaxBytesFromTotal(total))

-----------------------------------------------------------------------------
\* Mutant: the width may pass what a bid can carry.
MpsQubitsUncapped(budget) == budget \div SiteBytes

MpsQubits(budget) ==
  IF budget < SiteBytes THEN 0 ELSE Lesser(budget \div SiteBytes, BidMax)

\* Mutant: the loop compares with < where the code has <=.
LoopGoesOnStrictly(n, budget) ==
  n < WordBits - 1 /\ SaturatingMul(AmpBytes, 2^n) < budget

\* The loop of max_qubits_from_dense_memory_budget goes on at n while this
\* holds; the bound keeps 1 << n inside the word.
LoopGoesOn(n, budget) ==
  n < WordBits - 1 /\ SaturatingMul(AmpBytes, 2^n) <= budget

DenseQubits(budget) ==
  IF budget < AmpBytes THEN 0
  ELSE LET exit == CHOOSE n \in 0..WordBits - 1 :
                     ~ LoopGoesOn(n, budget) /\ \A m \in 0..n - 1 : LoopGoesOn(m, budget)
       IN  SaturatingSub(exit, 1)

\* A budget and which envelope set it.  Without a VRAM budget (Unset), or with
\* one of zero, the RAM budget stands; an adapter smaller than its reserve
\* still counts as one amplitude.
WithVram(ram, vram) ==
  LET usable == Greater(SaturatingSub(vram, GiB), AmpBytes)
  IN  IF vram > 0 /\ usable < ram THEN [bytes |-> usable, source |-> "vram"]
                                  ELSE [bytes |-> ram, source |-> "ram"]

=============================================================================
