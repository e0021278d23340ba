------------------------------ MODULE Admission ------------------------------
(***************************************************************************)
(* What the node offers and what it admits.  At startup the widths come     *)
(* from the host's memory (NodeConfig::from_env), the gates and the VRAM    *)
(* from core if it answers (main, sync_core_capabilities,                   *)
(* apply_core_sysinfo).  Afterwards announcements are verified and answered *)
(* with bids (verify_announcement_message, submit_bid, should_bid_on,       *)
(* build_signed_bid) and dispatches pass the signature check and then the   *)
(* width and circuit checks of accept_compute_task, which normalises what   *)
(* it hands on.  The configuration never changes once the node is up.       *)
(*                                                                         *)
(* A signature is valid when the node's signing bytes are those the         *)
(* orchestrator signed.  The lottery's hash and the fields of a bid that    *)
(* only report (load, stake, location, metrics) are left out.               *)
(***************************************************************************)
EXTENDS MemoryBudget, Circuit, FiniteSets

CONSTANTS
  Totals,      \* host RAM sizes, in bytes
  Requests,    \* WQC_MAX_MEMORY_GB, in bytes, or Unset
  Vrams,       \* vram_budget_bytes of /sysinfo, or Unset
  Circuits,    \* circuits of a dispatch
  MinQubits    \* NETWORK_MIN_QUBITS

DefaultGates == {"H", "X", "Y", "Z", "CNOT"}

ASSUME AdmissionConstants ==
  /\ \A circuit \in Circuits :
       circuit \in Seq(Gate) /\ \A i \in DOMAIN circuit : NormalGate(circuit[i]) \in Gate
  /\ DefaultGates \in GateSets
  /\ Totals \subseteq 0..WordMax /\ Requests \subseteq Int
  /\ Vrams \subseteq {Unset} \cup 0..WordMax
  /\ Widths \subseteq Nat /\ MinQubits \in Nat

VARIABLES
  phase,    \* how far main has come: "gates", "sysinfo", "up"
  host,     \* the environment at startup: RAM, the request, an operator key or none
  config,   \* NodeConfig: widths, VRAM used, source of the cap, rates known or not
  gates,    \* AppState.supported_gates
  bid,      \* the last bid sent, a set of at most one
  last      \* the last dispatch handled, with its verdict: a set of at most one

vars == <<phase, host, config, gates, bid, last>>

-----------------------------------------------------------------------------
(* Features.                                                               *)

\* apply_gate_feature and node_features: the features a node's bid carries.
FeatureOf(gate) ==
  CASE gate \in {"H", "X", "Y", "Z", "S", "T", "CNOT", "CZ", "CCNOT"} -> {"standard"}
    [] gate \in {"RX", "RY", "RZ"} -> {"custom"}
    [] gate = "NETWORK_GATE_SPLIT" -> {"split"}
    [] OTHER -> {}

Features == {"standard", "custom", "split", "work"}

NodeFeatures == UNION {FeatureOf(g) : g \in gates} \cup IF config.rates THEN {"work"} ELSE {}

(* Startup.                                                                *)

Widened(budget, vram, rates) ==
  [maxQubits |-> DenseQubits(budget.bytes), maxMps |-> MpsQubits(budget.bytes),
   vram |-> vram, source |-> budget.source, rates |-> rates]

\* NodeConfig::from_env: RAM alone, no rates.
Init ==
  /\ host \in [total : Totals, request : Requests, operator : BOOLEAN]
  /\ config = Widened([bytes |-> EffectiveBytes(host.request, host.total), source |-> "ram"],
                      Unset, FALSE)
  /\ phase = "gates" /\ gates = {} /\ bid = {} /\ last = {}

\* sync_core_capabilities: core's gates, or the default ones when /gates fails.
SyncGates ==
  /\ phase = "gates" /\ phase' = "sysinfo"
  /\ gates' \in GateSets \cup {DefaultGates}
  /\ UNCHANGED <<host, config, bid, last>>

\* apply_core_sysinfo: the VRAM counts with the WebGPU backend only, and the
\* RAM budget is worked out anew.
ApplySysinfo(webgpu, reported, rates) ==
  /\ phase = "sysinfo" /\ phase' = "up"
  /\ LET vram == IF webgpu /\ reported > 0 THEN reported ELSE Unset
     IN  config' = Widened(WithVram(EffectiveBytes(host.request, host.total), vram), vram, rates)
  /\ UNCHANGED <<host, gates, bid, last>>

\* /sysinfo fails: the widths of from_env stand for the life of the process.
NoSysinfo ==
  /\ phase = "sysinfo" /\ phase' = "up"
  /\ UNCHANGED <<host, config, gates, bid, last>>

-----------------------------------------------------------------------------
(* Bids.                                                                   *)

ShouldBidOn(required) ==
  /\ config.maxQubits >= MinQubits
  /\ NodeFeatures # {}
  /\ required \subseteq NodeFeatures

\* External: the orchestrator announces work with a deadline, feature bit 4 and
\* signature_v2, or none of the four.
Announced(required) == [required |-> required, work |-> "work" \in required]

\* What may arrive of it: the fields that signature (v1) does not cover can be
\* missing or altered, as a relay that does not know them leaves them.
Arrivals(ann) ==
  {[required |-> ann.required, work |-> w, deadline |-> d, v2 |-> v] :
     w \in {"none"} \cup (IF ann.work THEN {"announced", "altered"} ELSE {"altered"}),
     d \in BOOLEAN, v \in {ann.work, FALSE}}

\* Mutant: feature bit 4 is not checked against the fields.
AnnouncementVerifiedUnasked(msg) ==
  msg.work # "none" => msg.deadline /\ msg.v2 /\ msg.work = "announced"

\* verify_announcement_message: work is trusted under signature_v2 only, and
\* without work signature covers all that is left.
AnnouncementVerified(msg) ==
  /\ "work" \in msg.required => msg.work # "none" /\ msg.deadline
  /\ msg.work # "none" => msg.deadline /\ msg.v2 /\ msg.work = "announced"

\* submit_bid consults the ledger when the message has work and core has rates.
Budgeted(msg) == msg.work # "none" /\ config.rates

\* An announcement, by gossip or on a stream, that ends in a bid.  It ends
\* without one, and leaves the state as it is, when the ledger declines announced
\* work, when no lottery proof is mined in the window or when three attempts to
\* send fail.
Announce(ann, msg) ==
  /\ phase = "up" /\ AnnouncementVerified(msg)
  /\ ShouldBidOn(msg.required) /\ host.operator
  /\ bid' = {[width |-> config.maxQubits, mps |-> Lesser(config.maxMps, BidMax),
               work |-> ann.work, budgeted |-> Budgeted(msg)]}
  /\ UNCHANGED <<phase, host, config, gates, last>>

-----------------------------------------------------------------------------
(* Dispatches.                                                             *)

Modes == {"scalar", "other"}

\* Mutant: a scalar slice is held to the MPS width even when that is zero.
CompactLimitWithoutFallback(mode) ==
  IF mode = "scalar" THEN config.maxMps ELSE config.maxQubits

CompactLimit(mode) ==
  IF mode = "scalar" /\ config.maxMps > 0 THEN config.maxMps ELSE config.maxQubits

Handled(mode, width, verdict, circuit, forwarded) ==
  [mode |-> mode, width |-> width, verdict |-> verdict,
   circuit |-> circuit, forwarded |-> forwarded]

\* Circuits whose signing text the node cannot write as the orchestrator did, the
\* part of the payload whose bytes depend on a JSON writer of each side.
Misprinted == {c \in Circuits : ~ TextKept(c)}

\* verify_dispatch_signature, for a message the orchestrator has signed or not.
SignatureOk(signed, circuit) == signed /\ circuit \notin Misprinted

Handling == phase = "up" /\ UNCHANGED <<phase, host, config, gates, bid>>

\* handle_dispatch_stream drops what fails verify_dispatch_signature.
Refuse(circuit, signed) ==
  /\ Handling /\ ~ SignatureOk(signed, circuit)
  /\ last' = {Handled("other", 0, IF signed THEN "signature lost" ELSE "unsigned", <<>>, <<>>)}

\* handle_dispatch_stream and accept_compute_task up to the normalised request;
\* what follows (lookup, save, enqueue) is TaskPipeline's.  Nothing of a
\* rejected request is kept.
Dispatch(mode, width, circuit) ==
  /\ Handling /\ SignatureOk(TRUE, circuit)
  /\ \/ /\ width > CompactLimit(mode)
        /\ last' = {Handled(mode, width, "too wide", <<>>, <<>>)}
     \/ /\ width <= CompactLimit(mode) /\ ~ ValidCircuit(circuit, width, gates)
        /\ last' = {Handled(mode, width, "invalid", <<>>, <<>>)}
     \/ /\ width <= CompactLimit(mode) /\ ValidCircuit(circuit, width, gates)
        /\ last' = {Handled(mode, width, "accepted", circuit, NormalCircuit(circuit))}

Next ==
  \/ SyncGates
  \/ \E webgpu, rates \in BOOLEAN, v \in Vrams : ApplySysinfo(webgpu, v, rates)
  \/ NoSysinfo
  \/ \E required \in SUBSET Features : \E msg \in Arrivals(Announced(required)) :
       Announce(Announced(required), msg)
  \/ /\ last = {}   \* Bound: one dispatch, as none changes what the next one meets.
     /\ \/ \E c \in Circuits, signed \in BOOLEAN : Refuse(c, signed)
        \/ \E m \in Modes, w \in Widths, c \in Circuits : Dispatch(m, w, c)

Spec == Init /\ [][Next]_vars

-----------------------------------------------------------------------------
(* Properties.                                                             *)

\* Types; widths never exceed what a bid can carry.
TypeOK ==
  /\ phase \in {"gates", "sysinfo", "up"}
  /\ host \in [total : Totals, request : Requests, operator : BOOLEAN]
  /\ config \in [maxQubits : 0..WordBits - 2, maxMps : 0..BidMax,
                 vram : {Unset} \cup 1..WordMax, source : {"ram", "vram"}, rates : BOOLEAN]
  /\ gates \in GateSets \cup {{}, DefaultGates}
  /\ \A b \in bid : b.width \in 0..WordBits - 2 /\ b.mps \in 0..BidMax
                     /\ b.work \in BOOLEAN /\ b.budgeted \in BOOLEAN
  /\ \A d \in last : d.mode \in Modes /\ d.width \in Widths \cup {0} /\ d.circuit \in Circuits \cup {<<>>}
                     /\ d.verdict \in {"unsigned", "signature lost", "too wide", "invalid", "accepted"}
  /\ Cardinality(bid) <= 1 /\ Cardinality(last) <= 1

\* Bytes that fit: within the operator's request, beside the host's reserve (a
\* host of at most one GiB is taken to have one), and beside the reserve of
\* the VRAM core reported.
Fits(bytes) ==
  LET whole == (host.total \div GiB) * GiB
      reserve == IF host.total >= LargeHostGiB * GiB THEN 2 * GiB ELSE GiB
  IN  /\ host.request # Unset => bytes <= Greater(host.request, 0)
      /\ bytes + reserve <= whole \/ bytes <= GiB
      /\ config.vram # Unset => bytes + GiB <= config.vram

\* The memory core needs for width qubits: all amplitudes, or for a scalar
\* slice, where the node has an MPS width at all, the sites of an MPS of bond
\* dimension 128, which the node assumes whatever mps_max_bond_dim a dispatch has.
Need(mode, width) ==
  IF mode = "scalar" /\ Fits(SiteBytes) THEN width * SiteBytes ELSE AmpBytes * 2^width

\* No accepted sub-task (accept_compute_task) needs more memory than the host and
\* the operator can spare, nor more than the adapter where core reported one at
\* startup, for every host size, request and VRAM.
AcceptedFits ==
  \A d \in last : d.verdict = "accepted" /\ d.width > 0 => Fits(Need(d.mode, d.width))

\* The resolved widths are the largest that fit, as the manual's
\* floor(log2(budget / 16)) and budget / (128^2 * 32) say: the saturating loop
\* of max_qubits_from_dense_memory_budget is exact for every budget the node
\* can have, although it is not for the largest word.
WidthLargest ==
  phase = "up" =>
    /\ ~ Fits(Need("other", config.maxQubits + 1))
    /\ ~ Fits((config.maxMps + 1) * SiteBytes) \/ config.maxMps = BidMax

\* A sub-task as wide as the bid offered is not turned away for its width.  The
\* bid omits an MPS width of zero, and its reader then takes the dense width.
BidHonoured ==
  \A b \in bid, d \in last :
    d.verdict = "too wide" => d.width > IF d.mode = "scalar" /\ b.mps > 0 THEN b.mps ELSE b.width

\* The node bids on a task with announced work only after the ledger has weighed
\* that very work: an announcement that lost its work, deadline or signature_v2 on
\* the way is never answered as a task without work, nor with another amount.
WorkHonoured == \A b \in bid : b.work = b.budgeted

\* What reaches the queue after normalize_gate_params, which runs after the
\* check, is still sound: every gate, nested ones included, is supported, every
\* operand is in range, and normalising changed no operand.
ForwardedSound ==
  \A d \in last : d.verdict = "accepted" =>
    \A i \in DOMAIN d.forwarded :
      /\ TypesOf[d.forwarded[i]] \subseteq gates
      /\ Operands[d.forwarded[i]] \subseteq 0..d.width - 1
      /\ Operands[d.forwarded[i]] = Operands[d.circuit[i]]

\* "Mirrors orchestrator byte layout exactly": no dispatch the orchestrator has
\* signed is turned away for its signature, whatever numbers (of every magnitude,
\* at both ends of the plain layout) and strings its circuit carries.
SignedAccepted == \A d \in last : d.verdict # "signature lost"

=============================================================================
