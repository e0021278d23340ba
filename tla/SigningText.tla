----------------------------- MODULE SigningText -----------------------------
(***************************************************************************)
(* Numbers and strings in the text of a circuit that a dispatch signature   *)
(* covers (domain/p2p.rs).  The orchestrator signs what Go's encoding/json  *)
(* wrote; the node parses the JSON and has to write the same text again.    *)
(*                                                                         *)
(* A finite float64 is its sign, its shortest digits without zeros at       *)
(* either end, and the power of ten of the first one: d.ddd * 10^exp.  A    *)
(* zero has no digits.  A number's text is its sign, the digits before and  *)
(* behind the point, and the exponent behind the "e" (0: there is none).    *)
(* A character stands for all characters that are written alike.            *)
(***************************************************************************)
EXTENDS Integers, Sequences, SequencesExt

\* Finite float64s, and more: any number of digits and any power.
Float ==
  {x \in [neg : BOOLEAN, digits : Seq(0..9), exp : Int] :
     IF x.digits = <<>> THEN x.exp = 0 ELSE x.digits[1] # 0 /\ x.digits[Len(x.digits)] # 0}

Number(neg, digits, exp) == [neg |-> neg, digits |-> digits, exp |-> exp]
Text(neg, whole, frac, e) == [neg |-> neg, whole |-> whole, frac |-> frac, e |-> e]

Zeros(n) == [i \in 1..n |-> 0]
First(digits, n) == SubSeq(digits, 1, n)
From(digits, n) == SubSeq(digits, n + 1, Len(digits))

(* Numbers as the node writes them.                                        *)

\* External: ryu's format_finite, without an exponent from 1e-5 to below 1e16.
Ryu(x) ==
  LET n == Len(x.digits)
      point == x.exp + 1
  IN
  CASE point \in n..16      -> Text(x.neg, x.digits \o Zeros(point - n), <<0>>, 0)
    [] point \in 1..16 \ n..16 -> Text(x.neg, First(x.digits, point), From(x.digits, point), 0)
    [] point \in -4..0      -> Text(x.neg, <<0>>, Zeros(-point) \o x.digits, 0)
    [] OTHER                -> Text(x.neg, First(x.digits, 1), From(x.digits, 1), x.exp)

NonZero(d) == d # 0
Trimmed(all) == SubSeq(all, SelectInSeq(all, NonZero), SelectLastInSeq(all, NonZero))

\* Mutant: the zeros of 0.05 are trimmed but not counted.
DecimalDigitsUncounted(text) ==
  Number(text.neg, Trimmed(text.whole \o text.frac), Len(text.whole) - 1 + text.e)

\* decimal_digits: a text back to sign, digits and exponent.
DecimalDigits(text) ==
  LET all == text.whole \o text.frac
      leading == SelectInSeq(all, NonZero) - 1
  IN  Number(text.neg, Trimmed(all), Len(text.whole) - 1 - leading + text.e)

PlainDecimal(x) ==
  LET n == Len(x.digits) IN
  IF x.exp < 0 THEN Text(x.neg, <<0>>, Zeros(-x.exp - 1) \o x.digits, 0)
  ELSE IF n <= x.exp + 1 THEN Text(x.neg, x.digits \o Zeros(x.exp + 1 - n), <<>>, 0)
  ELSE Text(x.neg, First(x.digits, x.exp + 1), From(x.digits, x.exp + 1), 0)

\* go_json_float: the layout follows the value, which is f itself and not what
\* decimal_digits read.  An exponent is kept as a number, its sign and padding are
\* not spelt out.
GoJsonFloat(f) ==
  LET x == DecimalDigits(Ryu(f)) IN
  IF f.digits = <<>> THEN Text(f.neg, <<0>>, <<>>, 0)
  ELSE IF f.exp \in -6..20 THEN PlainDecimal(x)
  ELSE Text(x.neg, First(x.digits, 1), From(x.digits, 1), x.exp)

(* Numbers as Go writes them.                                              *)

\* External: encoding/json writes |f| < 1e-6 and |f| >= 1e21 with an exponent,
\* everything else digit by digit, by the power of ten each stands for.
GoNumber(f) ==
  LET At(power) == IF f.exp - power + 1 \in DOMAIN f.digits THEN f.digits[f.exp - power + 1] ELSE 0
      top == IF f.exp < 0 THEN 0 ELSE f.exp
      bottom == f.exp + 1 - Len(f.digits)
  IN
  IF f.exp \in -6..20
  THEN Text(f.neg, [i \in 1..top + 1 |-> At(top + 1 - i)],
                   [i \in 1..(IF bottom < 0 THEN -bottom ELSE 0) |-> At(-i)], 0)
  ELSE Text(f.neg, <<Head(f.digits)>>, Tail(f.digits), f.exp)

(* Strings.                                                                *)

Short == {"quote", "backslash", "bs", "ff", "nl", "cr", "tab"}
Html == {"<", ">", "&"}
Separators == {"u2028", "u2029"}
Controls == {"u0001", "u001f"}
Others == {"a", "u007f", "kanji"}
Char == Short \cup Html \cup Separators \cup Controls \cup Others

\* write_go_json_string, one character.
Escape(ch) ==
  CASE ch \in Short -> "short"
    [] ch \in Html \cup Separators -> "unicode"
    [] ch \in Controls -> "unicode"
    [] OTHER -> "as it is"

\* External: encoding/json with HTML escaping, as of Go 1.22, where \b and \f
\* have their short form.
GoEscape(ch) ==
  IF ch \in Others THEN "as it is" ELSE IF ch \in Short THEN "short" ELSE "unicode"

=============================================================================
