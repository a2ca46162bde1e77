----------------------------- MODULE MCNumerals -----------------------------
(***************************************************************************)
(* An instance of Numerals for TLC: cells of three bits, all operands.     *)
(***************************************************************************)
EXTENDS Numerals

MCPower == [k \in 0..Bits |-> 2^k]

\* For 10, 16 and 2.
MCPrefixBase == [c \in {Hash, Dollar, Percent} |->
                   CASE c = Hash -> 3 [] c = Dollar -> 7 [] c = Percent -> 2]

MCTexts ==
  LET chars == {0, 1, 6, Minus, Hash, Percent, Dollar, Dot, Quote}
  IN  [1..1 -> chars] \cup [1..2 -> chars] \cup [1..3 -> chars] \cup [1..4 -> {0, 1, 2}]
=============================================================================
