----------------------------- MODULE MCAdmission -----------------------------
(***************************************************************************)
(* Admission for TLC, with words of 7 bits, a GiB of 8 bytes and amplitudes *)
(* of 4: hosts from none to the largest word, on both sides of each GiB and *)
(* of the threshold; requests from negative to the largest word, with one   *)
(* that admits a dense qubit but no MPS site.                               *)
(***************************************************************************)
EXTENDS Admission

MCTotals == {0, 7, 8, 15, 16, 24, 31, 32, 33, 47, 88, 127}
MCRequests == {Unset, -5, 9, 33, 127}
MCVrams == {Unset, 0, 10, 17, 45, 127}
MCGateSets == {DefaultGates, {}, {"H", "RX", "IF"}, {"CNOT", "IF", "NETWORK_GATE_SPLIT"}}

int(v) == [kind |-> "int", v |-> v, num |-> Number(v < 0, IF v = 0 THEN <<>> ELSE <<IF v < 0 THEN -v ELSE v>>, 0)]
frac == [kind |-> "frac", num |-> Number(FALSE, <<2, 5>>, -1)]
text == [kind |-> "text", chars |-> <<"a", "<">>]
arr(items) == [kind |-> "arr", items |-> items]
obj(qubit, gate) == [kind |-> "obj", qubit |-> qubit, gate |-> gate]
gateOf(type, params) == [type |-> type, params |-> params]

MCParams ==
  {int(v) : v \in {-1, 0, 2}} \cup
  {frac, text, arr(<<>>), arr(<<int(1)>>), arr(<<int(0), int(2)>>), arr(<<int(0), frac>>),
   arr(<<arr(<<int(2)>>)>>), arr(<<arr(<<int(1)>>), int(0)>>),
   arr(<<obj(<<int(2)>>, <<>>)>>), obj(<<>>, <<>>), obj(<<int(1)>>, <<>>), obj(<<text>>, <<>>)}

\* Angles on both sides of every change of layout, ryu's and Go's: short ones,
\* one with a zero inside, and one of 17 digits; a zero of either sign; and a
\* string of every kind of character.
MCDigits ==
  << <<1>>, <<9, 9>>, <<1, 0, 5>>, <<1, 2, 3, 4, 5, 6, 7, 8, 9, 0, 1, 2, 3, 4, 5, 6, 8>> >>
MCPowers == <<-324, -10, -7, -6, -5, -4, -1, 0, 1, 2, 15, 16, 20, 21, 22, 300>>
MCAngles ==
  <<Number(FALSE, <<>>, 0), Number(TRUE, <<>>, 0)>> \o
  [i \in 1..128 |-> Number(i % 2 = 0, MCDigits[1 + (((i - 1) \div 2) % 4)], MCPowers[(i - 1) \div 8 + 1])]
MCText ==
  [kind |-> "text",
   chars |-> <<"quote", "backslash", "bs", "ff", "nl", "cr", "tab", "<", ">", "&",
               "u2028", "u2029", "u0001", "u001f", "a", "u007f", "kanji">>]

\* One circuit with all of them: it is signed alike if each of them is.
MCAngled ==
  {<<gateOf("RX", arr(<<int(0), MCText>> \o
                      [i \in DOMAIN MCAngles |-> [kind |-> "frac", num |-> MCAngles[i]]]))>>}

\* Nested gates: sound or not, one array deep, with no type, and IF in IF.
MCNested ==
  {gateOf("H", arr(<<int(0)>>)), gateOf("H", int(2)), gateOf("RX", arr(<<int(1), frac>>)),
   gateOf("CNOT", arr(<<arr(<<int(2)>>)>>)), gateOf("S", int(0)), gateOf(NoType, text)}

MCAll ==
  {<<gateOf(t, p)>> : t \in {"H", "RX", "CNOT"}, p \in MCParams} \cup
  {<<gateOf("IF", obj(<<>>, <<g>>))>> : g \in MCNested} \cup
  {<<gateOf("IF", obj(<<>>, <<gateOf("IF", obj(<<>>, <<g>>))>>))>> : g \in MCNested} \cup
  MCAngled \cup
  {<<>>, <<gateOf("IF", obj(<<int(0)>>, <<>>))>>, <<gateOf("IF", arr(<<int(0)>>))>>,
   <<gateOf("H", arr(<<int(0)>>)), gateOf("H", arr(<<int(2)>>))>>}

MCCircuits == MCAll
MCGateTypes == {"H", "RX", "CNOT", "S", "IF", NoType}

\* All values there are in these circuits, as they come and normalised: five
\* levels at most.
Opened(values) == UNION {Members(v) \cup {v} : v \in values}
AllWithin(values) == Opened(Opened(Opened(Opened(values))))
MCDispatched == AllWithin({g.params : g \in UNION {ToSet(c) : c \in MCCircuits}})
MCWritten ==
  LET sent == MCDispatched
      normal[v \in sent] == NormalizeGateValue(normal, v)
  IN  AllWithin(sent \cup {normal[v] : v \in sent})

MCValue == MCWritten

RECURSIVE Nesting(_)
Nesting(v) == IF Members(v) = {} THEN 0 ELSE 1 + Max({Nesting(u) : u \in Members(v)})

\* The functions that call themselves, each with its own body.
MCQubitValuesOk ==
  [width \in Widths |-> LET ok[v \in Value] == CheckQubitValues(ok, v, width) IN ok]
MCGateOk ==
  [width \in Widths |-> [supported \in GateSets |->
     LET ok[g \in Gate] == ValidateGate(ok, g, width, supported) IN ok]]
MCNormalValue[v \in Value] == NormalizeGateValue(MCNormalValue, v)
MCAlike[v \in Value] == WrittenAlike(MCAlike, v)
MCTypesOf[g \in Gate] == TypesWithin(MCTypesOf, g)
MCLeaves[v \in Value] == LeavesWithin(MCLeaves, v)
MCOperands[g \in Gate] == OperandsWithin(MCOperands, g)

=============================================================================
