------------------------------- MODULE Circuit -------------------------------
(***************************************************************************)
(* The check, the normalisation and the signing text of a dispatched        *)
(* circuit (domain/validation.rs, domain/p2p.rs).  A gate is its type and   *)
(* the JSON value of its params; a value is a record whose kind is          *)
(*   "int" (v, of any sign, and num, the float it becomes),                 *)
(*   "frac" (a number num that is no integer),                              *)
(*   "text" (a string of chars, a boolean or null), "arr" (items) or        *)
(*   "obj" (its "qubit" and "gate" members: sequences of at most one).      *)
(* The other members of an object are never read.  A "gate" member that     *)
(* does not parse as a gate has the type NoType.  Error texts are left out. *)
(*                                                                          *)
(* A function of the code that calls itself is a constant, a TLA+ function, *)
(* beside a definition: its body, with the function to call as the first    *)
(* parameter (for a given width and list of gates, where it takes these).   *)
(* RecursiveCalls says that each is what its body makes of it.              *)
(***************************************************************************)
EXTENDS SigningText

CONSTANTS
  Value,        \* the JSON values in circuits, as dispatched and normalised
  Depth(_),     \* how deep a value is nested
  GateTypes,    \* names of gates, NoType among them
  Widths,       \* qubit_count of a dispatch
  GateSets,     \* lists of supported gates
  QubitValuesOk, GateOk, NormalValue, Alike,  \* functions that call themselves
  TypesOf, Leaves, Operands                   \* and those of the reference

NoType == "no type"
Rotations == {"RX", "RY", "RZ"}
Gate == [type : GateTypes, params : Value]

\* qubit_index followed by ensure_in_range: require_qubit.
RequireQubit(value, width) == value.kind = "int" /\ value.v \in 0..width - 1

\* Only the first parameter of a rotation is a qubit; the angle is anything.
RotationQubitOk(params, width) ==
  IF params.kind = "arr"
  THEN params.items # <<>> /\ RequireQubit(Head(params.items), width)
  ELSE RequireQubit(params, width)

\* Mutant: the items of an array are checked, but not the arrays among them.
CheckQubitValuesShallow(ok, value, width) ==
  LET Here(v) == CASE v.kind \in {"int", "frac"} -> RequireQubit(v, width)
                   [] v.kind = "obj" -> \A i \in DOMAIN v.qubit : RequireQubit(v.qubit[i], width)
                   [] OTHER -> TRUE
  IN  IF value.kind = "arr" THEN \A i \in DOMAIN value.items : Here(value.items[i])
                            ELSE Here(value)

\* Arrays are searched to any depth; an object answers for its "qubit"
\* member only, and text is not an index.
CheckQubitValues(ok, value, width) ==
  CASE value.kind = "arr"  -> \A i \in DOMAIN value.items : ok[value.items[i]]
    [] value.kind \in {"int", "frac"} -> RequireQubit(value, width)
    [] value.kind = "obj"  -> \A i \in DOMAIN value.qubit : RequireQubit(value.qubit[i], width)
    [] OTHER               -> TRUE

QubitParamsOk(gate, width) ==
  IF gate.type \in Rotations THEN RotationQubitOk(gate.params, width)
                             ELSE QubitValuesOk[width][gate.params]

\* An IF gate needs a nested gate, which is checked in its place.
ValidateGate(ok, gate, width, supported) ==
  /\ gate.type \in supported
  /\ IF gate.type = "IF"
     THEN /\ gate.params.kind = "obj" /\ gate.params.gate # <<>>
          /\ gate.params.gate[1].type # NoType
          /\ ok[gate.params.gate[1]]
     ELSE QubitParamsOk(gate, width)

ValidCircuit(circuit, width, supported) ==
  \A i \in DOMAIN circuit : GateOk[width][supported][circuit[i]]

-----------------------------------------------------------------------------
WithParams(normal, gate) == [gate EXCEPT !.params = normal[gate.params]]

\* A one-element array becomes its element, once and without a look at what
\* it holds; otherwise the params of a nested gate are normalised.
NormalizeGateValue(normal, params) ==
  CASE params.kind = "arr" /\ Len(params.items) = 1 -> params.items[1]
    [] params.kind = "obj" /\ params.gate # <<>> ->
         [params EXCEPT !.gate = <<WithParams(normal, params.gate[1])>>]
    [] OTHER -> params

NormalGate(gate) == WithParams(NormalValue, gate)

NormalCircuit(circuit) == [i \in DOMAIN circuit |-> NormalGate(circuit[i])]

-----------------------------------------------------------------------------
\* write_go_json_value visits every value; what it writes around the numbers
\* and characters is the same on both sides.
WrittenAlike(alike, value) ==
  CASE value.kind = "arr" -> \A i \in DOMAIN value.items : alike[value.items[i]]
    [] value.kind = "obj" ->
         /\ \A i \in DOMAIN value.qubit : alike[value.qubit[i]]
         /\ \A i \in DOMAIN value.gate : alike[value.gate[i].params]
    [] value.kind = "text" -> \A ch \in ToSet(value.chars) : Escape(ch) = GoEscape(ch)
    [] OTHER -> GoJsonFloat(value.num) = GoNumber(value.num)

\* circuit_signing_json gives the text that the orchestrator signed.
TextKept(circuit) == \A i \in DOMAIN circuit : Alike[circuit[i].params]

-----------------------------------------------------------------------------
\* What a gate names, gathered without regard to the checks above: the types
\* of the gate and those nested in it, and its operands; a number that is no
\* index counts as the operand -1.
Nested(gate) ==
  IF gate.type = "IF" /\ gate.params.kind = "obj" THEN ToSet(gate.params.gate) ELSE {}

TypesWithin(types, gate) == {gate.type} \cup UNION {types[g] : g \in Nested(gate)}

Index(value) == IF value.kind = "int" THEN value.v ELSE -1

LeavesWithin(leaves, value) ==
  CASE value.kind = "arr" -> UNION {leaves[v] : v \in ToSet(value.items)}
    [] value.kind = "obj" -> {Index(v) : v \in ToSet(value.qubit)}
    [] value.kind = "text" -> {}
    [] OTHER -> {Index(value)}

OperandsWithin(operands, gate) ==
  CASE gate.type = "IF" -> UNION {operands[g] : g \in Nested(gate)}
    [] gate.type \in Rotations /\ gate.params.kind = "arr" ->
         {Index(gate.params.items[i]) : i \in DOMAIN gate.params.items \cap {1}}
    [] gate.type \in Rotations /\ gate.params.kind # "arr" -> {Index(gate.params)}
    [] OTHER -> Leaves[gate.params]

-----------------------------------------------------------------------------
\* JSON is a finite tree.
Members(value) ==
  CASE value.kind = "arr" -> ToSet(value.items)
    [] value.kind = "obj" -> ToSet(value.qubit) \cup {g.params : g \in ToSet(value.gate)}
    [] OTHER -> {}

ASSUME Values ==
  \A value \in Value :
    /\ \/ value \in [kind : {"int"}, v : Int, num : Float]
       \/ value \in [kind : {"frac"}, num : Float]
       \/ value \in [kind : {"text"}, chars : Seq(Char)]
       \/ value \in [kind : {"arr"}, items : Seq(Value)]
       \/ value \in [kind : {"obj"}, qubit : Seq(Value), gate : Seq(Gate)] /\ Len(value.gate) <= 1
    /\ Depth(value) \in Nat
    /\ \A v \in Members(value) : Depth(v) < Depth(value)

ASSUME RecursiveCalls ==
  /\ \A value \in Value :
       /\ NormalValue[value] = NormalizeGateValue(NormalValue, value)
       /\ Alike[value] <=> WrittenAlike(Alike, value)
       /\ Leaves[value] = LeavesWithin(Leaves, value)
       /\ \A width \in Widths :
            QubitValuesOk[width][value] <=> CheckQubitValues(QubitValuesOk[width], value, width)
  /\ \A gate \in Gate :
       /\ TypesOf[gate] = TypesWithin(TypesOf, gate)
       /\ Operands[gate] = OperandsWithin(Operands, gate)
       /\ \A width \in Widths, supported \in GateSets :
            GateOk[width][supported][gate] <=>
              ValidateGate(GateOk[width][supported], gate, width, supported)

=============================================================================
