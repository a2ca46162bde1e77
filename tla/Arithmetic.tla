----------------------------- MODULE Arithmetic -----------------------------
(***************************************************************************)
(* Multiplication and division (asm/math.asm, forth/base.fs).  Everything  *)
(* goes through two loops over the bits of a cell: UM*, which shifts and   *)
(* adds, and UM/MOD, which shifts and subtracts with the quotient entering *)
(* the dividend's low cell one turn late, through the carry.  The signed   *)
(* words dress the operands, call a loop, and dress the answer.            *)
(***************************************************************************)
EXTENDS Integers, Sequences

CONSTANTS
  Bits,     \* of a cell: 32
  Power,    \* the powers of two up to 2^Bits
  Garbage   \* what the low half of `product` may hold when UM* starts

B == Power[Bits]

Cell == 0..B-1

ASSUME ArithmeticAssumption ==
  /\ Bits \in Nat \ {0}
  /\ Power \in [0..Bits -> Nat \ {0}]
  /\ Power[0] = 1
  /\ \A k \in 0..Bits-1 : Power[k + 1] = 2 * Power[k]
  /\ Garbage \subseteq Cell /\ Garbage # {}

VARIABLES
  pc,      \* where the word is
  asked,   \* the word and its operands, the top of the stack in z, 0 for none
  lo, hi, top,  \* cells of the stack, UM/MOD's ( udlo udhi divisor )
  carry,   \* the C flag at the head of UM/MOD's loop
  count,   \* turns left: N of UM/MOD, Y of UM*
  product, \* low and high cell of the partial product
  kept,    \* what a word keeps while a loop runs: on the return stack, or
           \* (FM/MOD) patched into an operand of its code, DIVISOR_SIGN
  given,   \* what UM* or UM/MOD was called with
  answer   \* what the word leaves, the top of the stack last

arithVars == <<pc, asked, lo, hi, top, carry, count, product, kept, given, answer>>

Words == {"um*", "m*", "*", "um/mod", "fm/mod", "/mod", "sm/rem", "ud/mod", "*/mod"}

Nothing == [word |-> "none", x |-> 0, y |-> 0, z |-> 0]

ArithInit ==
  /\ pc = "idle" /\ asked = Nothing
  /\ lo = 0 /\ hi = 0 /\ top = 0 /\ carry = 0 /\ count = 0
  /\ product = <<0, 0>> /\ kept = <<>> /\ given = <<>> /\ answer = <<>>

---------------------------------------------------------------------------
(* Cells.                                                                  *)

Low(x) == IF x >= B THEN x - B ELSE x

Negative(x) == 2 * x >= B

Negate(x) == IF x = 0 THEN 0 ELSE B - x

Abs(x) == IF Negative(x) THEN Negate(x) ELSE x

\* High cell of DNEGATE: invert both, and 1+ that carries.
DNegateHigh(l, h) == IF l = 0 THEN Negate(h) ELSE B - 1 - h

DAbsHigh(l, h) == IF Negative(h) THEN DNegateHigh(l, h) ELSE h

DAbsLow(l, h) == IF Negative(h) THEN Negate(l) ELSE l

\* S>D.
Extend(x) == IF Negative(x) THEN B - 1 ELSE 0

---------------------------------------------------------------------------
(* The loops.                                                              *)

\* Throw -10 when the quotient does not fit, which includes /0.
UM_DIV_MOD(l, h, d) ==
  /\ lo' = l /\ hi' = h /\ top' = d
  /\ carry' = 0 /\ count' = Bits + 1
  /\ pc' = IF h >= d THEN "thrown" ELSE "dividing"
  /\ given' = <<l, h, d>>
  /\ UNCHANGED product

U_M_STAR(u1, u2) ==
  /\ lo' = 0 /\ hi' = u1 /\ top' = u2
  /\ \E g \in Garbage : product' = <<g, 0>>
  /\ count' = Bits
  /\ pc' = "multiplying"
  /\ given' = <<u1, u2>>
  /\ UNCHANGED carry

\* Mutant: the bit rotated out of the high cell is not brought in.
BugTurn(out) == Low(2 * hi + out)

\* The high cell after rol, and the bit it rotated into N+2 above it.
Turn(out) == 2 * hi + out

DivideLoop ==
  /\ pc = "dividing"
  /\ lo' = Low(2 * lo + carry)
  /\ count' = count - 1
  /\ IF count = 1
       THEN pc' = "divided" /\ UNCHANGED <<hi, carry>>
       ELSE LET t == Turn(IF 2 * lo + carry >= B THEN 1 ELSE 0)
            IN  /\ hi' = Low(IF t >= top THEN t - top ELSE t)
                /\ carry' = IF t >= top THEN 1 ELSE 0
                /\ pc' = pc
  /\ UNCHANGED <<asked, top, product, kept, given, answer>>

MultiplyLoop ==
  /\ pc = "multiplying"
  /\ LET s == product[2] + IF hi % 2 = 1 THEN top ELSE 0
     IN  product' = <<(product[1] \div 2) + (s % 2) * Power[Bits - 1], s \div 2>>
  /\ hi' = hi \div 2
  /\ count' = count - 1
  /\ pc' = IF count = 1 THEN "multiplied" ELSE pc
  /\ UNCHANGED <<asked, lo, top, carry, kept, given, answer>>

---------------------------------------------------------------------------
(* The words.                                                              *)

\* FM/MOD makes the divisor positive, and adds it to the high cell of a
\* negative dividend, which adds 2^Bits to the quotient.
FM_DIV_MOD(l, h, n) ==
  LET high == IF Negative(n) THEN DNegateHigh(l, h) ELSE h
  IN  /\ kept' = <<n>>
      /\ UM_DIV_MOD(IF Negative(n) THEN Negate(l) ELSE l,
                    IF Negative(high) THEN Low(high + Abs(n)) ELSE high,
                    Abs(n))

SM_REM(l, h, n) ==
  /\ kept' = <<Negative(h), Negative(h) # Negative(n)>>
  /\ UM_DIV_MOD(DAbsLow(l, h), DAbsHigh(l, h), Abs(n))

\* The high cell first; the divisor waits in W3, the low cell below.
UD_MOD(l, h, u) ==
  /\ kept' = <<>>
  /\ UM_DIV_MOD(h, 0, u)

DABS_STAR(n1, n2) ==
  /\ kept' = <<Negative(n1) # Negative(n2)>>
  /\ U_M_STAR(Abs(n1), Abs(n2))

Begin(w, x, y, z) ==
  /\ pc = "idle"
  /\ w \in {"um*", "m*", "*", "/mod"} => x = 0
  /\ asked' = [word |-> w, x |-> x, y |-> y, z |-> z]
  /\ answer' = <<>>
  /\ \/ w = "um*" /\ U_M_STAR(y, z) /\ kept' = <<>>
     \/ w \in {"m*", "*"} /\ DABS_STAR(y, z)
     \/ w = "*/mod" /\ DABS_STAR(x, y)
     \/ w = "um/mod" /\ UM_DIV_MOD(x, y, z) /\ kept' = <<>>
     \/ w = "fm/mod" /\ FM_DIV_MOD(x, y, z)
     \/ w = "/mod" /\ FM_DIV_MOD(y, Extend(y), z)
     \/ w = "sm/rem" /\ SM_REM(x, y, z)
     \/ w = "ud/mod" /\ UD_MOD(x, y, z)

Leave(cells) ==
  /\ answer' = cells
  /\ pc' = "answered"
  /\ UNCHANGED <<asked, lo, hi, top, carry, count, product, kept, given>>

\* Mutant: the sign of the dividend, not of the divisor.
BugFloored == <<IF Negative(asked.y) THEN Negate(hi) ELSE hi, lo>>

\* FM/MOD's end: the remainder takes the divisor's sign.
Floored == <<IF Negative(kept[1]) THEN Negate(hi) ELSE hi, lo>>

Symmetric ==
  <<IF kept[1] THEN Negate(hi) ELSE hi, IF kept[2] THEN Negate(lo) ELSE lo>>

\* The second division of UD/MOD has its first's quotient on the return stack.
Divided ==
  /\ pc = "divided"
  /\ \/ asked.word = "um/mod" /\ Leave(<<hi, lo>>)
     \/ asked.word \in {"fm/mod", "/mod", "*/mod"} /\ Leave(Floored)
     \/ asked.word = "sm/rem" /\ Leave(Symmetric)
     \/ asked.word = "ud/mod" /\ kept # <<>> /\ Leave(<<hi, lo, kept[1]>>)
     \/ /\ asked.word = "ud/mod" /\ kept = <<>>
        /\ kept' = <<lo>>
        /\ UM_DIV_MOD(asked.x, hi, asked.z)
        /\ UNCHANGED <<asked, answer>>

\* M*'s product, negated if the signs differed.
SignedProduct ==
  IF kept[1] THEN <<Negate(product[1]), DNegateHigh(product[1], product[2])>> ELSE product

Multiplied ==
  /\ pc = "multiplied"
  /\ \/ asked.word = "um*" /\ Leave(product)
     \/ asked.word = "m*" /\ Leave(SignedProduct)
     \/ asked.word = "*" /\ Leave(<<SignedProduct[1]>>)
     \/ /\ asked.word = "*/mod"
        /\ FM_DIV_MOD(SignedProduct[1], SignedProduct[2], asked.z)
        /\ UNCHANGED <<asked, answer>>

\* The caller takes the answer, or an exception took it away.
Return ==
  /\ pc \in {"answered", "thrown"}
  /\ pc' = "idle"
  /\ asked' = Nothing /\ lo' = 0 /\ hi' = 0 /\ top' = 0 /\ carry' = 0 /\ count' = 0
  /\ product' = <<0, 0>> /\ kept' = <<>> /\ given' = <<>> /\ answer' = <<>>

Run == DivideLoop \/ MultiplyLoop \/ Divided \/ Multiplied

ArithNext ==
  \/ \E w \in Words, x, y, z \in Cell : Begin(w, x, y, z)
  \/ Run
  \/ Return

ArithSpec == ArithInit /\ [][ArithNext]_arithVars

---------------------------------------------------------------------------
(* Properties.                                                             *)

ArithTypeOK ==
  /\ pc \in {"idle", "dividing", "multiplying", "divided", "multiplied", "answered", "thrown"}
  /\ {lo, hi, top} \subseteq Cell
  /\ carry \in {0, 1}
  /\ count \in 0..Bits+1
  /\ product \in Cell \X Cell

(***************************************************************************)
(* The loops are exact: UM/MOD ends with the quotient and the remainder of *)
(* the double it was given (whatever that was: with the divisor above the  *)
(* high cell the quotient always fits), UM* with the whole product         *)
(* (whatever the low half of its accumulator held before).                 *)
(***************************************************************************)
LoopsExact ==
  /\ pc = "divided" => given[2] * B + given[1] = lo * given[3] + hi /\ hi < given[3]
  /\ pc = "multiplied" => product[2] * B + product[1] = given[1] * given[2]

Value(x) == IF Negative(x) THEN x - B ELSE x

Double(l, h) == h * B + l

SignedDouble(l, h) == Value(h) * B + l

\* d = q*n + r with the remainder on the divisor's side of 0.
IsFloored(d, n, q, r) == d = q * n + r /\ (r \in 0..n-1 \/ r \in n+1..0)

\* d = q*n + r with the remainder on the dividend's side of 0.
IsSymmetric(d, n, q, r) ==
  /\ d = q * n + r
  /\ r < n \/ r < -n
  /\ -r < n \/ -r < -n
  /\ r # 0 => (r < 0 <=> d < 0)

\* What ARITHMETIC.TXT promises of each word.
IsAnswer(cells) ==
  LET w == asked.word  x == asked.x  y == asked.y  z == asked.z
  IN  CASE w = "um*" -> Double(cells[1], cells[2]) = y * z
        [] w = "m*" -> SignedDouble(cells[1], cells[2]) = Value(y) * Value(z)
        [] w = "*" -> cells[1] = (Value(y) * Value(z)) % B
        [] w = "um/mod" -> Double(x, y) = cells[2] * z + cells[1] /\ cells[1] < z
        [] w = "ud/mod" -> /\ Double(x, y) = Double(cells[2], cells[3]) * z + cells[1]
                           /\ cells[1] < z
        [] w = "fm/mod" ->
             IsFloored(SignedDouble(x, y), Value(z), Value(cells[2]), Value(cells[1]))
        [] w = "/mod" -> IsFloored(Value(y), Value(z), Value(cells[2]), Value(cells[1]))
        [] w = "*/mod" ->
             IsFloored(Value(x) * Value(y), Value(z), Value(cells[2]), Value(cells[1]))
        [] w = "sm/rem" ->
             IsSymmetric(SignedDouble(x, y), Value(z), Value(cells[2]), Value(cells[1]))

\* There is an answer that two cells hold.
Answerable == \E r, q \in Cell : IsAnswer(<<r, q>>)

(***************************************************************************)
(* A word that has an answer gives it, for every sign and at the most      *)
(* negative numbers; the exception is thrown only when there is none, and  *)
(* always for a divisor of zero.  (FM/MOD and SM/REM may answer modulo     *)
(* 2^Bits when the quotient does not fit.)                                 *)
(***************************************************************************)
AnswersRight ==
  /\ pc = "answered" /\ (asked.word \in {"um*", "*", "ud/mod"} \/ Answerable) =>
       IsAnswer(answer)
  /\ pc = "thrown" => IF asked.word = "ud/mod" THEN asked.z = 0 ELSE ~Answerable
  /\ pc = "answered" /\ asked.word \notin {"um*", "m*", "*"} => asked.z # 0
===========================================================================
