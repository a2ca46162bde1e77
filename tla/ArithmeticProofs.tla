-------------------------- MODULE ArithmeticProofs --------------------------
(***************************************************************************)
(* The loops of UM* and UM/MOD are exact for cells of every width, and so  *)
(* are the words that dress their operands and answers.  On these rest the *)
(* conversions of Numerals, with an induction over the digits: numbers     *)
(* print and read as what they are in every base.                          *)
(***************************************************************************)
EXTENDS Numerals, TLAPS, WellFoundedInduction

---------------------------------------------------------------------------
(* One turn of a loop, as arithmetic: u and v are the powers of two of the *)
(* bits done and to do.                                                    *)

\* The low cell and the carry shifted out, x, with b = 2^(bits of a cell):
\* the quotient so far above the unused bits of the dividend.
Shifted(u, v, b, rest, q, x) ==
  u * (2 * v) = b /\ rest < 2 * v /\ q < u /\ x = rest * (2 * u) + q

\* Taking the highest unused bit off it.
BitTaken(u, v, b, rest, q, x, left) ==
  /\ left < v
  /\ left * (2 * u) + q < b
  /\ \/ x >= b /\ x - b = left * (2 * u) + q /\ rest = v + left
     \/ x < b /\ x = left * (2 * u) + q /\ rest = left

LEMMA DivideTurn ==
  ASSUME NEW u \in Nat, NEW v \in Nat, NEW b \in Nat, NEW rest \in Nat, NEW q \in Nat,
         NEW x \in Nat, Shifted(u, v, b, rest, q, x)
  PROVE  \E left \in Nat : BitTaken(u, v, b, rest, q, x, left)
<1>. USE DEF Shifted, BitTaken
<1>1. ASSUME NEW left \in Nat, left < v
      PROVE  left * (2 * u) + q < b /\ left * (2 * u) \in Nat
  <2>1. (left + 1) * (2 * u) <= v * (2 * u)
    BY <1>1
  <2>2. (left + 1) * (2 * u) = left * (2 * u) + 2 * u
    BY <1>1
  <2>3. v * (2 * u) = b /\ left * (2 * u) \in Nat
    BY <1>1
  <2>4. \A p \in Nat : p + 2 * u <= b => p + q < b
    OBVIOUS
  <2>. QED BY <2>1, <2>2, <2>3, <2>4
<1>2. CASE rest >= v
  <2>. DEFINE left == rest - v
  <2>1. left \in Nat /\ left < v /\ rest = v + left
    BY <1>2
  <2>2. left * (2 * u) + q < b /\ left * (2 * u) \in Nat
    BY <1>1, <2>1
  <2>3. rest * (2 * u) = left * (2 * u) + b
    BY <2>1
  <2>4. \A p \in Nat : x = p + b + q => x >= b /\ x - b = p + q
    OBVIOUS
  <2>5. x >= b /\ x - b = left * (2 * u) + q
    BY <2>2, <2>3, <2>4
  <2>. HIDE DEF left
  <2>. QED BY <2>1, <2>2, <2>5
<1>3. CASE rest < v
  BY <1>1, <1>3
<1>. QED BY <1>2, <1>3

LEMMA QuotientTurn ==
  ASSUME NEW q \in Nat, NEW d \in Nat, NEW h \in Nat, NEW v \in Nat, NEW left \in Nat,
         NEW out \in {0, 1}, h < d
  PROVE  LET t == 2 * h + out
             bit == IF t >= d THEN 1 ELSE 0
             high == IF t >= d THEN t - d ELSE t
         IN  /\ high \in Nat /\ high < d
             /\ (q * d + h) * (2 * v) + out * v + left
                  = ((2 * q + bit) * d + high) * v + left
<1>. DEFINE t == 2 * h + out
<1>0. (q * d + h) * (2 * v) + out * v = (2 * (q * d) + t) * v
  <2>1. CASE out = 0
    BY <2>1
  <2>2. CASE out = 1
    BY <2>2
  <2>. QED BY <2>1, <2>2
<1>1. CASE t >= d
  <2>1. (2 * q + 1) * d = 2 * (q * d) + d
    OBVIOUS
  <2>2. \A p \in Int : p + d + (t - d) = p + t
    OBVIOUS
  <2>3. (2 * q + 1) * d + (t - d) = 2 * (q * d) + t
    BY <2>1, <2>2
  <2>. QED BY <1>0, <1>1, <2>3
<1>2. CASE t < d
  <2>1. (2 * q + 0) * d = 2 * (q * d)
    OBVIOUS
  <2>. QED BY <1>0, <1>2, <2>1
<1>. QED BY <1>1, <1>2

\* A cell is shifted right: the half of it, and the bit that falls out.
LEMMA Halves ==
  ASSUME NEW n \in Nat
  PROVE  \E half \in Nat, bit \in {0, 1} : n \div 2 = half /\ n % 2 = bit /\ n = 2 * half + bit
<1>1. n = 2 * (n \div 2) + (n % 2)
  OBVIOUS
<1>2. n \div 2 \in Nat /\ n % 2 \in {0, 1}
  OBVIOUS
<1>. QED BY <1>1, <1>2, Zenon

LEMMA Products == \A x, y \in Nat : x * y \in Nat
OBVIOUS

\* Rotating the low bit of 2*sd + sm into 2*pd + pm halves both.
LEMMA Rotated ==
  ASSUME NEW half \in Nat, NEW sd \in Nat, NEW sm \in {0, 1}, NEW pd \in Nat, NEW pm \in {0, 1}
  PROVE  LET new == sd * (2 * half) + (pd + sm * half)
         IN  new \in Nat /\ 2 * new + pm = (2 * sd + sm) * (2 * half) + (2 * pd + pm)
<1>1. sd * half \in Nat /\ sd * (2 * half) = 2 * (sd * half)
  OBVIOUS
<1>2. CASE sm = 0 BY <1>1, <1>2
<1>3. CASE sm = 1 BY <1>1, <1>3
<1>. QED BY <1>2, <1>3

\* The multiplicand, added or not, at the place of the bit.
LEMMA Added ==
  ASSUME NEW half \in Nat, NEW a \in Nat, NEW q \in Nat, NEW u \in Nat, NEW v \in Nat,
         NEW bit \in 0..1, u * (2 * v) = 2 * half
  PROVE  /\ a * (q + bit * u) * v \in Nat
         /\ a * q * (2 * v) + (bit * a) * (2 * half) = 2 * (a * (q + bit * u) * v)
<1>1. CASE bit = 0
  <2>1. a * (q + bit * u) * v = a * q * v /\ a * q * v \in Nat
    BY <1>1
  <2>2. a * q * (2 * v) = 2 * (a * q * v) /\ (bit * a) * (2 * half) = 0
    BY <1>1
  <2>. QED BY <2>1, <2>2
<1>2. CASE bit = 1
  <2>1. a * (q + bit * u) * v = a * q * v + a * u * v /\ a * q * v + a * u * v \in Nat
    BY <1>2
  <2>2. (bit * a) * (2 * half) = a * (u * (2 * v))
    BY <1>2
  <2>3. a * (u * (2 * v)) = 2 * (a * u * v) /\ a * q * (2 * v) = 2 * (a * q * v)
    OBVIOUS
  <2>. QED BY <2>1, <2>2, <2>3
<1>. QED BY <1>1, <1>2

\* The accumulator holds a times the bits q done, above g; s is its high cell
\* after the addition of a or 0.
Accumulated(half, p, a, q, u, v, g, bit, s) ==
  /\ u * (2 * v) = 2 * half /\ g < 2 * v
  /\ \E high \in Nat :
       high * (2 * half) + p = a * q * (2 * v) + g /\ s = high + bit * a

\* So it does after the turn.
TurnedOver(half, p, a, q, u, v, g, bit, s) ==
  /\ g < v
  /\ (s \div 2) * (2 * half) + ((p \div 2) + (s % 2) * half) = a * (q + bit * u) * v + g

LEMMA ProductTurn ==
  ASSUME NEW half \in Nat, NEW p \in Nat, NEW a \in Nat, NEW q \in Nat,
         NEW u \in Nat, NEW v \in Nat, NEW g \in Nat, NEW bit \in 0..1, NEW s \in Nat,
         Accumulated(half, p, a, q, u, v, g, bit, s)
  PROVE  \E g2 \in Nat : TurnedOver(half, p, a, q, u, v, g2, bit, s)
<1>. USE DEF Accumulated, TurnedOver
<1>0. PICK high \in Nat :
        high * (2 * half) + p = a * q * (2 * v) + g /\ s = high + bit * a
  OBVIOUS
<1>. DEFINE aq == a * (q + bit * u) * v
<1>1. s \in Nat /\ s * (2 * half) = high * (2 * half) + (bit * a) * (2 * half)
  <2>1. bit * a \in Nat
    BY Products
  <2>2. \A x, y, z \in Int : (x + y) * z = x * z + y * z
    OBVIOUS
  <2>. QED BY <1>0, <2>1, <2>2
<1>2. aq \in Nat /\ a * q * (2 * v) + (bit * a) * (2 * half) = 2 * aq
  BY Added
<1>. HIDE DEF aq
<1>3. PICK sd \in Nat, sm \in {0, 1} : s \div 2 = sd /\ s % 2 = sm /\ s = 2 * sd + sm
  BY <1>1, Halves
<1>4. PICK pd \in Nat, pm \in {0, 1} : p \div 2 = pd /\ p % 2 = pm /\ p = 2 * pd + pm
  BY Halves
<1>. DEFINE new == sd * (2 * half) + (pd + sm * half)
<1>5. new \in Nat /\ 2 * new + pm = (2 * sd + sm) * (2 * half) + (2 * pd + pm)
  BY Rotated
<1>6. (2 * sd + sm) * (2 * half) = s * (2 * half) /\ 2 * pd + pm = p
  BY <1>3, <1>4
<1>7. a * q * (2 * v) \in Nat /\ (bit * a) * (2 * half) \in Nat
        /\ high * (2 * half) \in Nat /\ s * (2 * half) \in Nat
  BY <1>1, Products
<1>. HIDE DEF new
<1>8. 2 * new + pm = 2 * aq + g
  <2>1. \A x, y, z, w, n \in Int :
          n = s * (2 * half) + p /\ s * (2 * half) = x + z /\ x + p = y + g /\ y + z = w
            => n = w + g
    BY <1>7
  <2>. QED BY <1>0, <1>1, <1>2, <1>5, <1>6, <1>7, <2>1
<1>9. new - aq \in Nat /\ new - aq < v /\ new = aq + (new - aq)
  <2>1. \A n, m \in Nat :
          2 * n + pm = 2 * m + g => n - m \in Nat /\ n - m < v /\ n = m + (n - m)
    OBVIOUS
  <2>. QED BY <1>2, <1>5, <1>8, <2>1
<1>10. (s \div 2) * (2 * half) + ((p \div 2) + (s % 2) * half) = new
  BY <1>3, <1>4 DEF new
<1>. QED BY <1>9, <1>10 DEF aq

---------------------------------------------------------------------------
(* Cells.                                                                  *)

USE ArithmeticAssumption

LEMMA Sizes ==
  /\ B \in Nat \ {0} /\ Power[Bits - 1] \in Nat \ {0} /\ B = 2 * Power[Bits - 1]
  /\ \A k \in 0..Bits : Power[k] \in Nat \ {0}
<1>1. Bits \in 0..Bits /\ Bits - 1 \in 0..Bits-1 /\ Bits - 1 \in 0..Bits /\ (Bits - 1) + 1 = Bits
  OBVIOUS
<1>2. \A k \in 0..Bits : Power[k] \in Nat \ {0}
  OBVIOUS
<1>3. Power[Bits] = 2 * Power[Bits - 1]
  BY <1>1
<1>. QED BY <1>1, <1>2, <1>3 DEF B

\* What the dressing of operands and answers yields is a cell.
LEMMA Dressed ==
  /\ 0 \in Cell
  /\ \A x \in Cell : Negate(x) \in Cell /\ Abs(x) \in Cell /\ Extend(x) \in Cell
  /\ \A l, h \in Cell :
       DNegateHigh(l, h) \in Cell /\ DAbsHigh(l, h) \in Cell /\ DAbsLow(l, h) \in Cell
  /\ \A x, y \in Cell : Low(x + y) \in Cell
<1>1. B \in Nat \ {0}
  BY Sizes
<1>. QED BY <1>1 DEF Cell, Negate, Abs, Extend, DNegateHigh, DAbsHigh, DAbsLow, Low

---------------------------------------------------------------------------
(* The invariant: what the turns done so far have computed.                *)

\* u is 2^(turns done), v what is left of B.  The low cell holds, above the
\* quotient q so far, the bits of the dividend not yet used, rest.
DivideState(u, v, l, c, h, g) ==
  \E rest, q \in Nat :
    /\ u * v = B /\ rest < v /\ q < u
    /\ 2 * l + c = rest * (2 * u) + q
    /\ g[2] * B + g[1] = (q * g[3] + h) * v + rest

Dividing ==
  pc = "dividing" =>
    /\ count \in 1..Bits+1
    /\ given \in Cell \X Cell \X Cell
    /\ top = given[3] /\ hi < top
    /\ DivideState(Power[Bits + 1 - count], Power[count - 1], lo, carry, hi, given)

\* The product of the bits q taken from the multiplier, above what the
\* accumulator held.
MultiplyState(u, v, h, p, x) ==
  \E q, g \in Nat :
    /\ u * v = B /\ q < u /\ g < v
    /\ x[1] = h * u + q
    /\ p[2] * B + p[1] = x[2] * q * v + g

Multiplying ==
  pc = "multiplying" =>
    /\ count \in 1..Bits
    /\ given \in Cell \X Cell
    /\ top = given[2]
    /\ MultiplyState(Power[Bits - count], Power[count], hi, product, given)

AskedCells == asked.x \in Cell /\ asked.y \in Cell /\ asked.z \in Cell

Loops == ArithTypeOK /\ Dividing /\ Multiplying /\ LoopsExact

IInv == Loops /\ AskedCells

LEMMA DivideStarts ==
  ASSUME NEW l \in Cell, NEW h \in Cell, NEW d \in Cell, Loops, UM_DIV_MOD(l, h, d)
  PROVE  Loops'
<1>1. ArithTypeOK'
  BY DEF UM_DIV_MOD, Loops, ArithTypeOK
<1>2. Dividing'
  <2>1. SUFFICES ASSUME pc' = "dividing"
                 PROVE  Dividing'
    BY DEF Dividing
  <2>2. h < d
    BY <2>1 DEF UM_DIV_MOD, Cell
  <2>3. count' = Bits + 1 /\ given' = <<l, h, d>> /\ lo' = l /\ hi' = h /\ top' = d /\ carry' = 0
    BY DEF UM_DIV_MOD
  <2>4. Bits + 1 - count' = 0 /\ count' - 1 = Bits /\ count' \in 1..Bits+1
    BY <2>3
  <2>5. DivideState(1, B, l, 0, h, <<l, h, d>>)
    <3>1. l \in Nat /\ l < B /\ h \in Nat /\ d \in Nat /\ B \in Nat
      BY Sizes DEF Cell
    <3>2. 1 * B = B /\ 2 * l + 0 = l * (2 * 1) + 0 /\ h * B + l = (0 * d + h) * B + l
      BY <3>1
    <3>. QED BY <2>3, <3>1, <3>2 DEF DivideState, B
  <2>. QED BY <2>2, <2>3, <2>4, <2>5 DEF Dividing, B
<1>3. Multiplying' /\ LoopsExact'
  BY DEF UM_DIV_MOD, Multiplying, LoopsExact
<1>. QED BY <1>1, <1>2, <1>3 DEF Loops

LEMMA MultiplyStarts ==
  ASSUME NEW a \in Cell, NEW m \in Cell, Loops, U_M_STAR(a, m)
  PROVE  Loops'
<1>0. PICK g \in Cell : product' = <<g, 0>>
  BY DEF U_M_STAR
<1>1. ArithTypeOK'
  BY <1>0, Dressed DEF U_M_STAR, Loops, ArithTypeOK
<1>2. Multiplying'
  <2>1. count' = Bits /\ given' = <<a, m>> /\ hi' = a /\ top' = m
    BY DEF U_M_STAR
  <2>2. Bits - count' = 0 /\ count' \in 1..Bits
    BY <2>1
  <2>3. MultiplyState(1, B, a, <<g, 0>>, <<a, m>>)
    <3>1. a \in Nat /\ m \in Nat /\ g \in Nat /\ g < B /\ B \in Nat
      BY Sizes DEF Cell
    <3>2. 1 * B = B /\ a = a * 1 + 0 /\ 0 * B + g = m * 0 * B + g
      BY <3>1
    <3>. QED BY <2>1, <3>1, <3>2 DEF MultiplyState, B
  <2>. QED BY <1>0, <2>1, <2>2, <2>3 DEF Multiplying, B
<1>3. Dividing' /\ LoopsExact'
  BY DEF U_M_STAR, Dividing, LoopsExact
<1>. QED BY <1>1, <1>2, <1>3 DEF Loops

---------------------------------------------------------------------------
(* The turns of the loops.                                                 *)

LEMMA DivideTurns ==
  ASSUME Loops, DivideLoop
  PROVE  Loops'
<1>1. /\ pc = "dividing" /\ count \in 1..Bits+1 /\ given \in Cell \X Cell \X Cell
      /\ top = given[3] /\ hi < top
      /\ DivideState(Power[Bits + 1 - count], Power[count - 1], lo, carry, hi, given)
      /\ lo \in Cell /\ hi \in Cell /\ top \in Cell /\ carry \in {0, 1} /\ product \in Cell \X Cell
  BY DEF Loops, ArithTypeOK, Dividing, DivideLoop
<1>. DEFINE u == Power[Bits + 1 - count]
            v == Power[count - 1]
            x == 2 * lo + carry
<1>2. PICK rest \in Nat, q \in Nat :
        /\ u * v = B /\ rest < v /\ q < u
        /\ x = rest * (2 * u) + q
        /\ given[2] * B + given[1] = (q * given[3] + hi) * v + rest
  BY <1>1 DEF DivideState
<1>3. u \in Nat \ {0} /\ v \in Nat \ {0} /\ B \in Nat \ {0}
  <2>1. Bits + 1 - count \in 0..Bits /\ count - 1 \in 0..Bits
    BY <1>1
  <2>. QED BY <2>1, Sizes
<1>4. hi \in Nat /\ top \in Nat /\ lo \in Nat /\ x \in Nat /\ top < B
  BY <1>1, <1>3 DEF Cell
<1>5. /\ lo' = Low(x) /\ count' = count - 1
      /\ UNCHANGED <<asked, top, product, kept, given, answer>>
  BY DEF DivideLoop
<1>6. CASE count = 1
  <2>1. pc' = "divided" /\ hi' = hi /\ carry' = carry
    BY <1>6 DEF DivideLoop
  <2>2. Bits + 1 - count = Bits /\ count - 1 = 0 /\ count' \in 0..Bits+1
    BY <1>5, <1>6
  <2>3. u = B /\ v = 1
    BY <2>2 DEF B
  <2>4. rest = 0 /\ x = q /\ q < B
    BY <1>2, <1>3, <2>3
  <2>5. lo' = q /\ lo' \in Cell
    BY <1>3, <1>5, <2>4 DEF Low, Cell
  <2>6. given[2] * B + given[1] = q * given[3] + hi
    <3>1. q * given[3] \in Nat
      BY <1>1, <1>4, Products
    <3>. QED BY <1>2, <1>4, <2>3, <2>4, <3>1
  <2>7. ArithTypeOK'
    BY <1>1, <1>5, <2>1, <2>2, <2>5 DEF ArithTypeOK
  <2>8. LoopsExact'
    BY <1>1, <1>5, <2>1, <2>5, <2>6 DEF LoopsExact
  <2>. QED BY <2>1, <2>7, <2>8 DEF Loops, Dividing, Multiplying
<1>7. CASE count # 1
  <2>. DEFINE w == Power[count - 2]
              out == IF x >= B THEN 1 ELSE 0
              t == 2 * hi + out
              bit == IF t >= top THEN 1 ELSE 0
              high == IF t >= top THEN t - top ELSE t
  <2>1. /\ hi' = Low(high) /\ carry' = bit /\ pc' = "dividing"
    BY <1>1, <1>7 DEF DivideLoop, Turn
  <2>2. w \in Nat /\ v = 2 * w /\ Power[Bits + 1 - count'] = 2 * u /\ Power[count' - 1] = w
    <3>1. count - 2 \in 0..Bits-1 /\ (count - 2) + 1 = count - 1 /\ count' - 1 = count - 2
      <4>1. \A n \in 1..Bits+1 :
              n # 1 => n - 2 \in 0..Bits-1 /\ (n - 2) + 1 = n - 1 /\ (n - 1) - 1 = n - 2
        OBVIOUS
      <4>. QED BY <1>1, <1>5, <1>7, <4>1
    <3>2. Bits + 1 - count \in 0..Bits-1 /\ Bits + 1 - count' = (Bits + 1 - count) + 1
      <4>1. \A n \in 1..Bits+1 :
              n # 1 => Bits + 1 - n \in 0..Bits-1 /\ Bits + 1 - (n - 1) = (Bits + 1 - n) + 1
        OBVIOUS
      <4>. QED BY <1>1, <1>5, <1>7, <4>1
    <3>3. count - 2 \in 0..Bits
      BY <3>1
    <3>4. w \in Nat
      BY <3>3, Sizes
    <3>5. v = 2 * w
      BY <3>1
    <3>6. Power[Bits + 1 - count'] = 2 * u
      BY <3>2
    <3>. QED BY <3>1, <3>4, <3>5, <3>6
  <2>3. count' \in 1..Bits+1
    BY <1>1, <1>5, <1>7
  <2>. HIDE DEF u, v, x, w
  <2>4. PICK left \in Nat : BitTaken(u, w, B, rest, q, x, left)
    <3>1. u \in Nat /\ w \in Nat /\ B \in Nat /\ x \in Nat
      BY <1>3, <1>4, <2>2
    <3>2. Shifted(u, w, B, rest, q, x)
      BY <1>2, <2>2, Zenon DEF Shifted
    <3>. QED BY <3>1, <3>2, DivideTurn
  <2>. USE DEF BitTaken
  <2>5. lo' = left * (2 * u) + q /\ rest = out * w + left /\ out \in {0, 1}
    <3>1. CASE x >= B
      <4>1. out = 1 /\ lo' = x - B
        BY <1>5, <3>1 DEF Low
      <4>2. 1 * w = w
        BY <2>2
      <4>. QED BY <1>3, <1>4, <2>4, <3>1, <4>1, <4>2
    <3>2. CASE x < B
      <4>1. out = 0 /\ lo' = x
        BY <1>3, <1>4, <1>5, <3>2 DEF Low
      <4>2. 0 * w = 0 /\ 0 + left = left
        BY <2>2
      <4>. QED BY <1>3, <1>4, <2>4, <3>2, <4>1, <4>2
    <3>. QED BY <1>3, <1>4, <3>1, <3>2
  <2>6. left * (2 * u) \in Nat
    BY <1>3, <2>4, Products
  <2>7. lo' \in Cell
    <3>1. \A p \in Nat : p + q < B => p + q \in 0..B-1
      BY <1>3
    <3>. QED BY <2>4, <2>5, <2>6, <3>1 DEF Cell
  <2>. HIDE DEF out
  <2>8. /\ high \in Nat /\ high < top
        /\ (q * top + hi) * (2 * w) + out * w + left = ((2 * q + bit) * top + high) * w + left
    <3>1. q \in Nat /\ top \in Nat /\ hi \in Nat /\ w \in Nat /\ left \in Nat /\ hi < top
      BY <1>1, <1>4, <2>2
    <3>. QED BY <2>5, <3>1, QuotientTurn
  <2>9. bit \in {0, 1}
    OBVIOUS
  <2>. HIDE DEF high, bit, t
  <2>10. hi' = high /\ high \in Cell
    BY <1>3, <1>4, <2>1, <2>8 DEF Low, Cell
  <2>11. DivideState(2 * u, w, lo', carry', hi', given')
    <3>1. (2 * u) * w = B
      BY <1>2, <1>3, <2>2
    <3>2. 2 * q + bit \in Nat /\ 2 * q + bit < 2 * u
      BY <1>2, <1>3, <2>9
    <3>3. 2 * lo' + carry' = left * (2 * (2 * u)) + (2 * q + bit)
      <4>1. left * (2 * (2 * u)) = 2 * (left * (2 * u))
        BY <1>3, <2>4
      <4>. QED BY <2>1, <2>5, <2>6, <2>9, <4>1
    <3>4. given[2] * B + given[1] = ((2 * q + bit) * top + high) * w + left
      <4>1. given[2] * B + given[1] = (q * top + hi) * (2 * w) + (out * w + left)
        BY <1>1, <1>2, <2>2, <2>5
      <4>2. (q * top + hi) * (2 * w) \in Nat /\ out * w \in Nat
        <5>0. q * top \in Nat
          BY <1>4, Products
        <5>1. q * top + hi \in Nat /\ 2 * w \in Nat /\ out \in Nat
          BY <1>4, <2>2, <2>5, <5>0
        <5>. QED BY <2>2, <5>1, Products
      <4>. QED BY <2>4, <2>8, <4>1, <4>2
    <3>5. given'[2] * B + given'[1] = ((2 * q + bit) * given'[3] + hi') * w + left
      BY <1>1, <1>5, <2>10, <3>4, Zenon
    <3>. QED BY <2>4, <3>1, <3>2, <3>3, <3>5 DEF DivideState
  <2>12. Dividing'
    BY <1>1, <1>5, <2>1, <2>2, <2>3, <2>8, <2>10, <2>11 DEF Dividing
  <2>13. ArithTypeOK'
    <3>1. count' \in 0..Bits+1
      BY <2>3
    <3>. QED BY <1>1, <1>5, <2>1, <2>7, <2>9, <2>10, <3>1 DEF ArithTypeOK
  <2>. QED BY <2>1, <2>12, <2>13 DEF Loops, Multiplying, LoopsExact
<1>. QED BY <1>6, <1>7

LEMMA MultiplyTurns ==
  ASSUME Loops, MultiplyLoop
  PROVE  Loops'
<1>1. /\ pc = "multiplying" /\ count \in 1..Bits /\ given \in Cell \X Cell /\ top = given[2]
      /\ MultiplyState(Power[Bits - count], Power[count], hi, product, given)
      /\ lo \in Cell /\ hi \in Cell /\ top \in Cell /\ carry \in {0, 1} /\ product \in Cell \X Cell
  BY DEF Loops, ArithTypeOK, Multiplying, MultiplyLoop
<1>. DEFINE u == Power[Bits - count]
            v == Power[count]
            w == Power[count - 1]
            half == Power[Bits - 1]
            p == product[1]
            high == product[2]
<1>2. PICK q \in Nat, g \in Nat :
        /\ u * v = B /\ q < u /\ g < v
        /\ given[1] = hi * u + q
        /\ high * B + p = given[2] * q * v + g
  BY <1>1 DEF MultiplyState
<1>3. PICK hh \in Nat, bit \in {0, 1} : hi \div 2 = hh /\ hi % 2 = bit /\ hi = 2 * hh + bit
  <2>1. hi \in Nat
    BY <1>1, Sizes DEF Cell
  <2>. QED BY <2>1, Halves
<1>. DEFINE s == high + bit * top
<1>4. /\ u \in Nat \ {0} /\ w \in Nat \ {0} /\ half \in Nat \ {0} /\ B = 2 * half
      /\ v = 2 * w
  <2>1. Bits - count \in 0..Bits /\ count - 1 \in 0..Bits /\ count - 1 \in 0..Bits-1
    BY <1>1
  <2>2. (count - 1) + 1 = count
    BY <1>1
  <2>3. Power[(count - 1) + 1] = 2 * Power[count - 1]
    BY <2>1
  <2>. QED BY <2>1, <2>2, <2>3, Sizes
<1>5. top \in Nat /\ top < B /\ hi \in Nat /\ p \in Nat /\ p < B /\ high \in Nat /\ high < B
  <2>1. \A x \in Cell : x \in Nat /\ x < B
    BY Sizes DEF Cell
  <2>2. p \in Cell /\ high \in Cell
    BY <1>1
  <2>. QED BY <1>1, <2>1, <2>2
<1>6. /\ hi' = hh /\ count' = count - 1
      /\ product' = <<(p \div 2) + (s % 2) * half, s \div 2>>
      /\ pc' = IF count = 1 THEN "multiplied" ELSE "multiplying"
      /\ UNCHANGED <<asked, lo, top, carry, kept, given, answer>>
  <2>1. high + (IF hi % 2 = 1 THEN top ELSE 0) = s
    <3>1. CASE bit = 0 BY <1>3, <1>5, <3>1
    <3>2. CASE bit = 1 BY <1>3, <1>5, <3>2
    <3>. QED BY <3>1, <3>2
  <2>. QED BY <1>1, <1>3, <2>1 DEF MultiplyLoop
<1>. HIDE DEF u, v, w, half, p, high
<1>7. s \in Nat /\ s < 2 * B
  <2>1. CASE bit = 0 BY <1>4, <1>5, <2>1
  <2>2. CASE bit = 1 BY <1>4, <1>5, <2>2
  <2>. QED BY <2>1, <2>2
<1>. HIDE DEF s
<1>8. PICK g2 \in Nat : TurnedOver(half, p, top, q, u, w, g2, bit, s)
  <2>1. Accumulated(half, p, top, q, u, w, g, bit, s)
    <3>1. u * (2 * w) = 2 * half /\ g < 2 * w
      BY <1>2, <1>4, Zenon
    <3>2. high * (2 * half) + p = top * q * (2 * w) + g
      BY <1>1, <1>2, <1>4, Zenon
    <3>. QED BY <1>5, <3>1, <3>2 DEF Accumulated, s
  <2>2. half \in Nat /\ u \in Nat /\ w \in Nat /\ p \in Nat /\ top \in Nat /\ s \in Nat
        /\ bit \in 0..1
    BY <1>4, <1>5, <1>7
  <2>. QED BY <2>1, <2>2, ProductTurn
<1>9. product' \in Cell \X Cell
  <2>1. PICK sd \in Nat, sm \in {0, 1} : s \div 2 = sd /\ s % 2 = sm /\ s = 2 * sd + sm
    BY <1>7, Halves
  <2>2. PICK pd \in Nat, pm \in {0, 1} : p \div 2 = pd /\ p % 2 = pm /\ p = 2 * pd + pm
    BY <1>5, Halves
  <2>3. sd \in 0..B-1
    BY <1>4, <1>7, <2>1
  <2>4. pd + sm * half \in 0..B-1
    <3>1. pd < half
      BY <1>4, <1>5, <2>2
    <3>2. CASE sm = 0 BY <1>4, <3>1, <3>2
    <3>3. CASE sm = 1 BY <1>4, <3>1, <3>3
    <3>. QED BY <3>2, <3>3
  <2>. QED BY <1>6, <2>1, <2>2, <2>3, <2>4 DEF Cell
<1>10. hh \in Cell /\ count' \in 0..Bits+1
  <2>1. hh \in 0..B-1
    BY <1>1, <1>3, <1>4 DEF Cell
  <2>2. count' \in 0..Bits+1
    BY <1>1, <1>6
  <2>. QED BY <2>1, <2>2 DEF Cell
<1>11. ArithTypeOK'
  BY <1>1, <1>6, <1>9, <1>10 DEF ArithTypeOK
<1>. DEFINE q2 == q + bit * u
<1>12. given[1] = hh * (2 * u) + q2 /\ q2 \in Nat /\ q2 < 2 * u
  <2>1. CASE bit = 0
    <3>1. bit * u = 0 /\ hi = 2 * hh
      BY <1>3, <1>4, <2>1
    <3>2. hi * u = hh * (2 * u)
      BY <1>4, <3>1
    <3>. QED BY <1>2, <1>4, <3>1, <3>2
  <2>2. CASE bit = 1
    <3>1. bit * u = u /\ hi = 2 * hh + 1
      BY <1>3, <1>4, <2>2
    <3>2. hi * u = hh * (2 * u) + u /\ hh * (2 * u) \in Nat
      BY <1>4, <3>1
    <3>. QED BY <1>2, <1>4, <3>1, <3>2
  <2>. QED BY <2>1, <2>2
<1>13. g2 < w /\ product'[2] * B + product'[1] = top * q2 * w + g2
  BY <1>4, <1>6, <1>8, Zenon DEF TurnedOver
<1>. HIDE DEF q2
<1>14. (2 * u) * w = B
  BY <1>2, <1>4
<1>15. CASE count = 1
  <2>1. w = 1 /\ pc' = "multiplied"
    BY <1>6, <1>15 DEF w
  <2>2. 2 * u = B /\ g2 = 0
    BY <1>4, <1>13, <1>14, <2>1
  <2>3. given[1] = q2
    <3>1. given[1] \in Nat /\ given[1] < B
      BY <1>1, <1>4 DEF Cell
    <3>2. hh = 0
      <4>1. ASSUME hh # 0 PROVE FALSE
        <5>1. hh * B >= B
          BY <1>4, <4>1
        <5>. QED BY <1>4, <1>12, <2>2, <3>1, <5>1
      <4>. QED BY <4>1
    <3>. QED BY <1>4, <1>12, <3>2
  <2>4. top * q2 * w + g2 = given[1] * given[2]
    <3>1. top * q2 \in Nat /\ top * q2 = q2 * top
      BY <1>5, <1>12
    <3>2. top * q2 * w + g2 = top * q2
      BY <2>1, <2>2, <3>1
    <3>. QED BY <1>1, <2>3, <3>1, <3>2
  <2>5. LoopsExact'
    BY <1>6, <1>13, <2>1, <2>4 DEF LoopsExact
  <2>. QED BY <1>11, <2>1, <2>5 DEF Loops, Dividing, Multiplying
<1>16. CASE count # 1
  <2>1. pc' = "multiplying" /\ count' \in 1..Bits
    BY <1>1, <1>6, <1>16
  <2>2. Power[Bits - count'] = 2 * u /\ Power[count'] = w
    <3>1. Bits - count \in 0..Bits-1 /\ Bits - count' = (Bits - count) + 1
      BY <1>1, <1>6
    <3>2. Power[(Bits - count) + 1] = 2 * Power[Bits - count]
      BY <3>1
    <3>. QED BY <1>6, <3>1, <3>2 DEF u, w
  <2>3. MultiplyState(2 * u, w, hi', product', given')
    <3>1. given'[1] = hi' * (2 * u) + q2
      BY <1>6, <1>12
    <3>2. product'[2] * B + product'[1] = given'[2] * q2 * w + g2
      BY <1>1, <1>6, <1>13, Zenon
    <3>. QED BY <1>12, <1>13, <1>14, <3>1, <3>2 DEF MultiplyState
  <2>4. Multiplying'
    BY <1>1, <1>6, <2>1, <2>2, <2>3 DEF Multiplying
  <2>. QED BY <1>11, <2>1, <2>4 DEF Loops, Dividing, LoopsExact
<1>. QED BY <1>15, <1>16

---------------------------------------------------------------------------
(* The words around the loops.                                             *)

LEMMA FlooredStarts ==
  ASSUME NEW l \in Cell, NEW h \in Cell, NEW n \in Cell, Loops, FM_DIV_MOD(l, h, n)
  PROVE  Loops'
<1>1. \A x \in Cell : Negate(x) \in Cell /\ Abs(x) \in Cell
  BY Dressed
<1>. DEFINE high == IF Negative(n) THEN DNegateHigh(l, h) ELSE h
            dl == IF Negative(n) THEN Negate(l) ELSE l
            dh == IF Negative(high) THEN Low(high + Abs(n)) ELSE high
<1>2. dl \in Cell /\ high \in Cell
  BY <1>1, Dressed
<1>3. UM_DIV_MOD(dl, dh, Abs(n))
  BY DEF FM_DIV_MOD
<1>. HIDE DEF high, dl
<1>4. dh \in Cell
  BY <1>1, <1>2, Dressed
<1>. HIDE DEF dh
<1>. QED BY <1>1, <1>2, <1>3, <1>4, DivideStarts

LEMMA BeginKeeps ==
  ASSUME NEW w \in Words, NEW x \in Cell, NEW y \in Cell, NEW z \in Cell,
         IInv, Begin(w, x, y, z)
  PROVE  IInv'
<1>0. Loops
  BY DEF IInv
<1>1. AskedCells'
  BY DEF Begin, AskedCells
<1>2. \A n \in Cell : Abs(n) \in Cell /\ Extend(n) \in Cell
  BY Dressed
<1>3. CASE U_M_STAR(y, z)
  BY <1>0, <1>1, <1>3, MultiplyStarts DEF IInv
<1>4. CASE DABS_STAR(y, z) \/ DABS_STAR(x, y)
  BY <1>0, <1>1, <1>2, <1>4, MultiplyStarts DEF IInv, DABS_STAR
<1>5. CASE UM_DIV_MOD(x, y, z)
  BY <1>0, <1>1, <1>5, DivideStarts DEF IInv
<1>6. CASE FM_DIV_MOD(x, y, z) \/ FM_DIV_MOD(y, Extend(y), z)
  BY <1>0, <1>1, <1>2, <1>6, FlooredStarts DEF IInv
<1>7. CASE SM_REM(x, y, z)
  BY <1>0, <1>1, <1>2, <1>7, Dressed, DivideStarts DEF IInv, SM_REM
<1>8. CASE UD_MOD(x, y, z)
  BY <1>0, <1>1, <1>8, Dressed, DivideStarts DEF IInv, UD_MOD
<1>. QED BY <1>3, <1>4, <1>5, <1>6, <1>7, <1>8 DEF Begin

LEMMA LeaveKeeps ==
  ASSUME NEW cells, IInv, Leave(cells)
  PROVE  IInv'
BY DEF IInv, Loops, Leave, ArithTypeOK, Dividing, Multiplying, LoopsExact, AskedCells

LEMMA DividedKeeps ==
  ASSUME IInv, Divided
  PROVE  IInv'
<1>1. CASE Leave(<<hi, lo>>) \/ Leave(Floored) \/ Leave(Symmetric) \/ Leave(<<hi, lo, kept[1]>>)
  BY <1>1, LeaveKeeps
<1>2. CASE UM_DIV_MOD(asked.x, hi, asked.z) /\ UNCHANGED <<asked, answer>>
  <2>1. asked.x \in Cell /\ hi \in Cell /\ asked.z \in Cell
    BY DEF IInv, Loops, AskedCells, ArithTypeOK
  <2>2. Loops'
    BY <1>2, <2>1, DivideStarts DEF IInv
  <2>. QED BY <1>2, <2>2 DEF IInv, AskedCells
<1>. QED BY <1>1, <1>2 DEF Divided

LEMMA MultipliedKeeps ==
  ASSUME IInv, Multiplied
  PROVE  IInv'
<1>1. CASE Leave(product) \/ Leave(SignedProduct) \/ Leave(<<SignedProduct[1]>>)
  BY <1>1, LeaveKeeps
<1>2. CASE /\ FM_DIV_MOD(SignedProduct[1], SignedProduct[2], asked.z)
           /\ UNCHANGED <<asked, answer>>
  <2>1. asked.z \in Cell /\ product[1] \in Cell /\ product[2] \in Cell
    BY DEF IInv, Loops, AskedCells, ArithTypeOK
  <2>2. SignedProduct[1] \in Cell /\ SignedProduct[2] \in Cell
    BY <2>1, Dressed DEF SignedProduct
  <2>3. Loops'
    BY <1>2, <2>1, <2>2, FlooredStarts DEF IInv
  <2>. QED BY <1>2, <2>3 DEF IInv, AskedCells
<1>. QED BY <1>1, <1>2 DEF Multiplied

LEMMA Starts == ArithInit => IInv
<1>1. 0 \in Cell /\ 0 \in 0..Bits+1
  BY Dressed
<1>. QED BY <1>1 DEF ArithInit, Nothing, IInv, Loops, ArithTypeOK, Dividing, Multiplying,
                     LoopsExact, AskedCells

LEMMA Keeps == IInv /\ [ArithNext]_arithVars => IInv'
<1>. SUFFICES ASSUME IInv, [ArithNext]_arithVars
              PROVE  IInv'
  OBVIOUS
<1>1. ASSUME NEW w \in Words, NEW x \in Cell, NEW y \in Cell, NEW z \in Cell, Begin(w, x, y, z)
      PROVE  IInv'
  BY <1>1, BeginKeeps
<1>2. CASE DivideLoop
  <2>1. AskedCells'
    BY <1>2 DEF DivideLoop, IInv, AskedCells
  <2>. QED BY <1>2, <2>1, DivideTurns DEF IInv
<1>3. CASE MultiplyLoop
  <2>1. AskedCells'
    BY <1>3 DEF MultiplyLoop, IInv, AskedCells
  <2>. QED BY <1>3, <2>1, MultiplyTurns DEF IInv
<1>4. CASE Divided
  BY <1>4, DividedKeeps
<1>5. CASE Multiplied
  BY <1>5, MultipliedKeeps
<1>6. CASE Return
  <2>1. 0 \in Cell /\ 0 \in 0..Bits+1
    BY Dressed
  <2>. QED BY <1>6, <2>1 DEF Return, Nothing, IInv, Loops, ArithTypeOK, Dividing, Multiplying,
                             LoopsExact, AskedCells
<1>7. CASE UNCHANGED arithVars
  BY <1>7 DEF arithVars, IInv, Loops, ArithTypeOK, Dividing, Multiplying, LoopsExact, AskedCells
<1>. QED BY <1>1, <1>2, <1>3, <1>4, <1>5, <1>6, <1>7 DEF ArithNext, Run

(***************************************************************************)
(* Every cell of the words of asm/math.asm stays a cell, whatever they are *)
(* called with.                                                            *)
(***************************************************************************)
THEOREM CellsOnly == ArithSpec => []ArithTypeOK
<1>1. IInv => ArithTypeOK
  BY DEF IInv, Loops
<1>. QED BY <1>1, Starts, Keeps, PTL DEF ArithSpec

(***************************************************************************)
(* The loops of UM* and UM/MOD compute exact products, quotients and       *)
(* remainders, for cells of any width.                                     *)
(***************************************************************************)
THEOREM Exact == ArithSpec => []LoopsExact
<1>1. IInv => LoopsExact
  BY DEF IInv, Loops
<1>. QED BY <1>1, Starts, Keeps, PTL DEF ArithSpec

HIDE ArithmeticAssumption

---------------------------------------------------------------------------
(* Signed cells.                                                           *)

Half == Power[Bits - 1]

LEMMA HalfFacts == Half \in Nat \ {0} /\ B \in Nat \ {0} /\ B = 2 * Half /\ Cell = 0..B-1
BY Sizes DEF Half, Cell

LEMMA Signed ==
  ASSUME NEW x \in Cell
  PROVE  /\ x \in Nat /\ x < B
         /\ Value(x) \in Int /\ -Half <= Value(x) /\ Value(x) < Half
         /\ Negative(x) <=> Value(x) < 0
         /\ Abs(x) = IF Value(x) < 0 THEN -Value(x) ELSE Value(x)
         /\ Abs(x) \in Nat /\ Abs(x) <= Half
BY HalfFacts DEF Value, Negative, Abs, Negate

LEMMA OfValue ==
  ASSUME NEW x \in Nat
  PROVE  /\ x < Half => x \in Cell /\ Value(x) = x
         /\ x <= Half => Negate(x) \in Cell /\ Value(Negate(x)) = -x
BY HalfFacts DEF Value, Negative, Negate

LEMMA HighNegated ==
  ASSUME NEW l \in Cell, NEW h \in Cell, ~(l = 0 /\ h = Half)
  PROVE  /\ Value(DNegateHigh(l, h)) = IF l = 0 THEN -Value(h) ELSE -1 - Value(h)
BY HalfFacts DEF Value, Negative, DNegateHigh, Negate

LEMMA DoubleNegated ==
  ASSUME NEW l \in Cell, NEW h \in Cell, ~(l = 0 /\ h = Half)
  PROVE  SignedDouble(Negate(l), DNegateHigh(l, h)) = -SignedDouble(l, h)
<1>. DEFINE v == Value(h)
            k == Value(DNegateHigh(l, h))
<1>1. v \in Int /\ l \in Nat /\ B \in Nat /\ k = IF l = 0 THEN -v ELSE -1 - v
  BY HalfFacts, HighNegated, Signed
<1>2. Negate(l) = IF l = 0 THEN 0 ELSE B - l
  BY DEF Negate
<1>. HIDE DEF v, k
<1>3. k * B + Negate(l) = -(v * B + l)
  <2>1. CASE l = 0
    BY <1>1, <1>2, <2>1
  <2>2. CASE l # 0
    BY <1>1, <1>2, <2>2
  <2>. QED BY <2>1, <2>2
<1>. QED BY <1>3 DEF SignedDouble, k, v

\* As a number without sign the absolute value always fits.
LEMMA DoubleAbs ==
  ASSUME NEW l \in Cell, NEW h \in Cell
  PROVE  LET s == SignedDouble(l, h)
         IN  /\ s \in Int /\ (s < 0 <=> Negative(h))
             /\ Double(DAbsLow(l, h), DAbsHigh(l, h)) = IF s < 0 THEN -s ELSE s
<1>. DEFINE v == Value(h)
<1>1. v \in Int /\ l \in Nat /\ B \in Nat /\ l < B /\ (Negative(h) <=> v < 0) /\ h \in Nat
      /\ (v < 0 => v = h - B) /\ (v >= 0 => v = h)
  BY HalfFacts, Signed DEF Value
<1>. HIDE DEF v
<1>2. v * B \in Int /\ (v < 0 <=> v * B + l < 0)
  <2>1. v < 0 => v * B <= -B
    BY <1>1
  <2>2. v >= 0 => v * B >= 0
    BY <1>1
  <2>3. v * B \in Int
    BY <1>1
  <2>. QED BY <1>1, <2>1, <2>2, <2>3
<1>3. CASE v >= 0
  <2>1. DAbsLow(l, h) = l /\ DAbsHigh(l, h) = h
    BY <1>1, <1>3 DEF DAbsLow, DAbsHigh
  <2>. QED BY <1>1, <1>2, <1>3, <2>1 DEF SignedDouble, Double, v
<1>4. CASE v < 0
  <2>1. DAbsLow(l, h) = IF l = 0 THEN 0 ELSE B - l
    BY <1>1, <1>4 DEF DAbsLow, Negate
  <2>2. DAbsHigh(l, h) = IF l = 0 THEN -v ELSE -v - 1
    <3>1. Negative(h) /\ h = v + B /\ h # 0
      BY HalfFacts, <1>1, <1>4 DEF Negative
    <3>. QED BY HalfFacts, <1>1, <3>1 DEF DAbsHigh, DNegateHigh, Negate
  <2>3. DAbsHigh(l, h) * B + DAbsLow(l, h) = -(v * B + l)
    <3>1. CASE l = 0
      BY <1>1, <2>1, <2>2, <3>1
    <3>2. CASE l # 0
      BY <1>1, <2>1, <2>2, <3>2
    <3>. QED BY <3>1, <3>2
  <2>. QED BY <1>1, <1>2, <1>4, <2>3 DEF SignedDouble, Double, v
<1>. QED BY <1>1, <1>3, <1>4

LEMMA Unique ==
  ASSUME NEW m \in Nat, NEW q \in Int, NEW r \in 0..m-1, NEW k \in Int, NEW s \in 0..m-1,
         q * m + r = k * m + s
  PROVE  q = k /\ r = s
<1>1. q * m \in Int /\ k * m \in Int
  OBVIOUS
<1>2. ASSUME q > k PROVE FALSE
  <2>1. q * m >= (k + 1) * m
    BY <1>2
  <2>2. (k + 1) * m = k * m + m
    OBVIOUS
  <2>. QED BY <1>1, <2>1, <2>2
<1>3. ASSUME q < k PROVE FALSE
  <2>1. k * m >= (q + 1) * m
    BY <1>3
  <2>2. (q + 1) * m = q * m + m
    OBVIOUS
  <2>. QED BY <1>1, <2>1, <2>2
<1>4. q = k
  BY <1>2, <1>3
<1>. QED BY <1>1, <1>4

---------------------------------------------------------------------------
(* M* and *: the product of the absolute values, with the sign.            *)

LEMMA SmallProduct ==
  ASSUME NEW a \in 0..Half, NEW c \in 0..Half, NEW l \in Cell, NEW h \in Cell,
         Double(l, h) = a * c
  PROVE  2 * h < B /\ ~(l = 0 /\ h = Half)
<1>1. /\ a \in Nat /\ c \in Nat /\ a <= Half /\ c <= Half /\ l \in Nat /\ h \in Nat
      /\ Half \in Nat \ {0} /\ B = 2 * Half
  BY HalfFacts
<1>2. a * c <= Half * Half
  <2>1. a * c <= a * Half
    BY <1>1
  <2>2. a * Half <= Half * Half
    BY <1>1
  <2>. QED BY <1>1, <2>1, <2>2
<1>3. h * B + l = a * c
  BY DEF Double
<1>4. ASSUME h >= Half PROVE FALSE
  <2>1. h * B >= Half * B
    BY <1>1, <1>4
  <2>2. Half * B = 2 * (Half * Half) /\ Half * Half \in Nat /\ Half * Half > 0
    BY <1>1
  <2>3. h * B \in Nat /\ a * c \in Nat
    BY <1>1
  <2>. QED BY <1>1, <1>2, <1>3, <2>1, <2>2, <2>3
<1>. QED BY <1>1, <1>4

LEMMA ProductRight ==
  ASSUME NEW y \in Cell, NEW z \in Cell, NEW l \in Cell, NEW h \in Cell,
         Double(l, h) = Abs(y) * Abs(z)
  PROVE  LET p == IF Negative(y) # Negative(z) THEN <<Negate(l), DNegateHigh(l, h)>>
                                               ELSE <<l, h>>
         IN  SignedDouble(p[1], p[2]) = Value(y) * Value(z)
<1>. DEFINE v == Value(y)
            w == Value(z)
<1>1. /\ v \in Int /\ w \in Int /\ (Negative(y) <=> v < 0) /\ (Negative(z) <=> w < 0)
      /\ Abs(y) = (IF v < 0 THEN -v ELSE v) /\ Abs(z) = (IF w < 0 THEN -w ELSE w)
      /\ Abs(y) \in 0..Half /\ Abs(z) \in 0..Half
  BY Signed, HalfFacts
<1>2. 2 * h < B /\ ~(l = 0 /\ h = Half)
  BY <1>1, SmallProduct
<1>3. SignedDouble(l, h) = Double(l, h) /\ SignedDouble(l, h) \in Int
  BY <1>2, HalfFacts, DoubleAbs DEF SignedDouble, Double, Value, Negative
<1>4. SignedDouble(Negate(l), DNegateHigh(l, h)) = -SignedDouble(l, h)
  BY <1>2, DoubleNegated
<1>. HIDE DEF v, w
<1>5. CASE (v < 0) <=> (w < 0)
  <2>1. Abs(y) * Abs(z) = v * w
    BY <1>1, <1>5
  <2>2. Negative(y) = Negative(z)
    BY <1>1, <1>5 DEF Negative
  <2>. QED BY <1>3, <2>1, <2>2 DEF v, w
<1>6. CASE ~((v < 0) <=> (w < 0))
  <2>1. Abs(y) * Abs(z) = -(v * w) /\ v * w \in Int
    <3>1. CASE v < 0
      <4>1. Abs(y) = -v /\ Abs(z) = w
        BY <1>1, <1>6, <3>1
      <4>. QED BY <1>1, <4>1
    <3>2. CASE v >= 0
      <4>1. Abs(y) = v /\ Abs(z) = -w
        BY <1>1, <1>6, <3>2
      <4>. QED BY <1>1, <4>1
    <3>. QED BY <1>1, <3>1, <3>2
  <2>2. Negative(y) # Negative(z)
    BY <1>1, <1>6 DEF Negative
  <2>3. -(-(v * w)) = v * w
    BY <2>1
  <2>. QED BY <1>3, <1>4, <2>1, <2>2, <2>3 DEF v, w
<1>. QED BY <1>5, <1>6

\* The low cell of a double is its value modulo B.
LEMMA LowCell ==
  ASSUME NEW l \in Cell, NEW h \in Cell
  PROVE  l = SignedDouble(l, h) % B
<1>. DEFINE s == SignedDouble(l, h)
            v == Value(h)
            k == s \div B
            r == s % B
<1>1. v \in Int /\ B \in Nat \ {0} /\ l \in 0..B-1 /\ s = v * B + l
  BY HalfFacts, Signed DEF SignedDouble
<1>. HIDE DEF v
<1>2. s \in Int
  BY <1>1
<1>. HIDE DEF s
<1>3. k \in Int /\ r \in 0..B-1 /\ s = k * B + r
  <2>1. \A b \in Nat \ {0} : \A a \in Int :
          a \div b \in Int /\ (a % b) \in 0..b-1 /\ a = (a \div b) * b + (a % b)
    OBVIOUS
  <2>. QED BY <1>1, <1>2, <2>1
<1>. HIDE DEF k, r
<1>4. l = r
  BY <1>1, <1>3, Unique
<1>. QED BY <1>4 DEF r, s

---------------------------------------------------------------------------
(* FM/MOD: what it hands to UM/MOD, and what that leaves.                  *)

FlooredLow(l, n) == IF Negative(n) THEN Negate(l) ELSE l

FlooredHigh(l, h, n) ==
  LET high == IF Negative(n) THEN DNegateHigh(l, h) ELSE h
  IN  IF Negative(high) THEN Low(high + Abs(n)) ELSE high

FlooredRest(n, r) == IF Negative(n) THEN Negate(r) ELSE r

\* A quotient that a cell holds bounds the dividend.
LEMMA Bounds ==
  ASSUME NEW m \in 1..Half, NEW q \in Int, -Half <= q, q < Half, NEW r \in 0..m-1
  PROVE  /\ q * m \in Int
         /\ -(Half * m) <= q * m + r /\ q * m + r < Half * m
         /\ q >= 0 <=> q * m + r >= 0
<1>0. m \in Nat /\ m > 0 /\ Half \in Nat
  BY HalfFacts
<1>1. q * m \in Int /\ Half * m \in Int
  BY <1>0
<1>2. q * m >= (-Half) * m /\ (-Half) * m = -(Half * m)
  BY <1>0
<1>3. (q + 1) * m <= Half * m /\ (q + 1) * m = q * m + m
  BY <1>0
<1>4. q >= 0 => q * m >= 0
  BY <1>0
<1>5. q < 0 => (q + 1) * m <= 0
  BY <1>0
<1>. QED BY <1>0, <1>1, <1>2, <1>3, <1>4, <1>5

LEMMA FlooredStart ==
  ASSUME NEW m \in 1..Half, NEW q \in Int, -Half <= q, q < Half, NEW r \in 0..m-1,
         NEW l \in 0..B-1, NEW v \in Int, v * B + l = q * m + r
  PROVE  IF v >= 0 THEN v < m /\ q >= 0 ELSE v + m \in 0..m-1 /\ q < 0
<1>1. m \in Nat /\ m > 0 /\ Half \in Nat \ {0} /\ B = 2 * Half /\ B \in Nat
  BY HalfFacts
<1>2. /\ q * m \in Int /\ -(Half * m) <= q * m + r /\ q * m + r < Half * m
      /\ q >= 0 <=> q * m + r >= 0
  BY Bounds
<1>3. Half * m \in Nat /\ m * B = 2 * (Half * m) /\ v * B \in Int
  BY <1>1
<1>4. CASE v >= 0
  <2>1. v * B >= 0
    BY <1>1, <1>4
  <2>2. v >= m => v * B >= m * B
    BY <1>1
  <2>. QED BY <1>1, <1>2, <1>3, <1>4, <2>1, <2>2
<1>5. CASE v < 0
  <2>1. v * B <= -B
    BY <1>1, <1>5
  <2>2. v + m < 0 => (v + 1) * B <= (-m) * B
    BY <1>1
  <2>3. (v + 1) * B = v * B + B /\ (-m) * B = -(m * B)
    BY <1>1
  <2>4. Half * m >= Half
    BY <1>1
  <2>. QED BY <1>1, <1>2, <1>3, <1>5, <2>1, <2>2, <2>3, <2>4
<1>. QED BY <1>4, <1>5

\* The quotient and the remainder of the positive divisor m.
LEMMA FlooredPlain ==
  ASSUME NEW d \in Int, NEW n \in Int, NEW q \in Int, NEW r \in Int
  PROVE  LET m == IF n < 0 THEN -n ELSE n
             e == IF n < 0 THEN -d ELSE d
             s == IF n < 0 THEN -r ELSE r
         IN  IsFloored(d, n, q, r) <=> n # 0 /\ e = q * m + s /\ s \in 0..m-1
<1>1. CASE n < 0
  <2>1. q * (-n) = -(q * n) /\ q * n \in Int
    BY <1>1
  <2>. QED BY <1>1, <2>1 DEF IsFloored
<1>2. CASE n >= 0
  <2>1. q * n \in Int
    BY <1>2
  <2>. QED BY <1>2, <2>1 DEF IsFloored
<1>. QED BY <1>1, <1>2

\* What UM/MOD leaves is the floored answer, the quotient modulo B.
LEMMA FlooredNumbers ==
  ASSUME NEW m \in 1..Half, NEW q \in Int, -Half <= q, q < Half, NEW r \in 0..m-1,
         NEW l \in 0..B-1, NEW v \in Int, v * B + l = q * m + r,
         NEW k \in 0..B-1, NEW s \in 0..m-1,
         (IF v >= 0 THEN v ELSE v + m) * B + l = k * m + s
  PROVE  s = r /\ k = IF q >= 0 THEN q ELSE q + B
<1>1. m \in Nat /\ B \in Nat /\ k \in Int
  BY HalfFacts
<1>2. IF v >= 0 THEN v < m /\ q >= 0 ELSE v + m \in 0..m-1 /\ q < 0
  BY FlooredStart
<1>3. CASE v >= 0
  <2>1. k * m + s = q * m + r
    BY <1>3
  <2>. QED BY <1>1, <1>2, <1>3, <2>1, Unique
<1>4. CASE v < 0
  <2>1. (v + m) * B + l = (v * B + l) + m * B
    BY <1>1
  <2>2. (q + B) * m + r = (q * m + r) + m * B
    BY <1>1
  <2>3. k * m + s = (q + B) * m + r
    BY <1>4, <2>1, <2>2
  <2>4. k = q + B /\ s = r
    BY <1>1, <2>3, Unique
  <2>. QED BY <1>2, <1>4, <2>4
<1>. QED BY <1>3, <1>4

LEMMA Folded ==
  ASSUME NEW k \in Cell, NEW q \in Int, -Half <= q, q < Half,
         k = IF q >= 0 THEN q ELSE q + B
  PROVE  Value(k) = q
BY HalfFacts DEF Value, Negative

LEMMA FlooredRight ==
  ASSUME NEW l \in Cell, NEW h \in Cell, NEW n \in Cell, NEW q \in Cell, NEW r \in Cell,
         IsFloored(SignedDouble(l, h), Value(n), Value(q), Value(r))
  PROVE  /\ FlooredHigh(l, h, n) < Abs(n)
         /\ \A k, s \in Cell :
              Double(FlooredLow(l, n), FlooredHigh(l, h, n)) = k * Abs(n) + s /\ s < Abs(n)
                => IsFloored(SignedDouble(l, h), Value(n), Value(k), Value(FlooredRest(n, s)))
<1>. DEFINE d == SignedDouble(l, h)
            w == Value(n)
            m == Abs(n)
            R == Value(r)
            e == IF w < 0 THEN -d ELSE d
            t == IF w < 0 THEN -R ELSE R
            high == IF Negative(n) THEN DNegateHigh(l, h) ELSE h
            low == FlooredLow(l, n)
            v == Value(high)
            Q == Value(q)
            top2 == FlooredHigh(l, h, n)
<1>1. d \in Int
  BY DoubleAbs
<1>2. /\ w \in Int /\ m = (IF w < 0 THEN -w ELSE w) /\ m \in Nat /\ m <= Half
      /\ w < Half /\ (Negative(n) <=> w < 0)
  BY Signed
<1>3. Q \in Int /\ R \in Int /\ -Half <= Q /\ Q < Half
  BY Signed
<1>4. w # 0 /\ e = Q * m + t /\ t \in 0..m-1
  <2>1. IsFloored(d, w, Q, R)
    OBVIOUS
  <2>. HIDE DEF d, w, R, Q, m
  <2>2. LET m2 == IF w < 0 THEN -w ELSE w
        IN  w # 0 /\ e = Q * m2 + t /\ t \in 0..m2-1
    BY <1>1, <1>2, <1>3, <2>1, FlooredPlain
  <2>. QED BY <1>2, <2>2
<1>5. low \in Cell /\ high \in Cell
  BY Dressed DEF FlooredLow
<1>6. m \in 1..Half
  <2>. HIDE DEF d, w, R, Q, m
  <2>. QED BY <1>2, <1>4, HalfFacts
<1>7. v * B + low = e
  <2>1. SignedDouble(low, high) = v * B + low
    BY DEF SignedDouble
  <2>2. CASE ~(w < 0)
    <3>1. low = l /\ high = h
      BY <1>2, <2>2 DEF FlooredLow
    <3>. QED BY <2>1, <2>2, <3>1
  <2>3. CASE w < 0
    <3>1. low = Negate(l) /\ high = DNegateHigh(l, h) /\ e = -d
      BY <1>2, <2>3 DEF FlooredLow
    <3>2. ASSUME l = 0, h = Half PROVE FALSE
      <4>1. Value(h) = -Half
        BY <3>2, HalfFacts DEF Value, Negative
      <4>2. d = (-Half) * B
        BY <3>2, <4>1, HalfFacts DEF SignedDouble
      <4>. HIDE DEF d, w, R, Q, m, e, t
      <4>3. Q * m + t < Half * m
        BY <1>3, <1>4, <1>6, Bounds
      <4>4. Half * m <= Half * B /\ e = Half * B /\ Half * B \in Int
        BY <1>6, <3>1, <4>2, HalfFacts
      <4>5. Half * m \in Int
        BY <1>6, HalfFacts
      <4>. QED BY <1>4, <4>3, <4>4, <4>5
    <3>3. SignedDouble(low, high) = e
      BY <3>1, <3>2, DoubleNegated
    <3>. QED BY <2>1, <3>3
  <2>. QED BY <2>2, <2>3
<1>8. /\ v \in Int /\ (Negative(high) <=> v < 0) /\ low \in 0..B-1 /\ high \in Nat
      /\ high = (IF v < 0 THEN v + B ELSE v)
  <2>1. v \in Int /\ (Negative(high) <=> v < 0) /\ high \in Nat
    BY <1>5, Signed
  <2>2. v = IF Negative(high) THEN high - B ELSE high
    BY DEF Value
  <2>3. low \in 0..B-1
    BY <1>5, HalfFacts
  <2>. HIDE DEF v, high, low
  <2>. QED BY <2>1, <2>2, <2>3, HalfFacts
<1>9. top2 = IF Negative(high) THEN Low(high + m) ELSE high
  BY DEF FlooredHigh
<1>. HIDE DEF d, w, R, Q, m, e, t, v, high, low, top2
<1>10. IF v >= 0 THEN v < m /\ Q >= 0 ELSE v + m \in 0..m-1 /\ Q < 0
  BY <1>3, <1>4, <1>6, <1>7, <1>8, FlooredStart
<1>11. top2 = IF v >= 0 THEN v ELSE v + m
  <2>1. m \in Nat /\ B \in Nat
    BY <1>6, HalfFacts
  <2>2. CASE v >= 0
    BY <1>8, <1>9, <2>2
  <2>3. CASE v < 0
    <3>1. high + m = (v + m) + B /\ (v + m) + B >= B /\ ((v + m) + B) - B = v + m
      BY <1>8, <1>10, <2>1, <2>3
    <3>. QED BY <1>8, <1>9, <2>3, <3>1 DEF Low
  <2>. QED BY <1>8, <2>2, <2>3
<1>12. top2 < m
  BY <1>6, <1>8, <1>10, <1>11
<1>13. ASSUME NEW k \in Cell, NEW s \in Cell, Double(low, top2) = k * m + s, s < m
       PROVE  IsFloored(d, w, Value(k), Value(FlooredRest(n, s)))
  <2>1. k \in 0..B-1 /\ s \in Nat /\ s \in 0..m-1
    BY <1>6, <1>13, HalfFacts
  <2>2. (IF v >= 0 THEN v ELSE v + m) * B + low = k * m + s
    BY <1>11, <1>13 DEF Double
  <2>3. s = t /\ k = IF Q >= 0 THEN Q ELSE Q + B
    BY <1>3, <1>4, <1>6, <1>7, <1>8, <2>1, <2>2, FlooredNumbers
  <2>4. Value(k) = Q
    BY <1>3, <2>3, Folded
  <2>5. Value(FlooredRest(n, s)) = R
    <3>1. CASE w < 0
      <4>1. s <= Half /\ -s = R
        BY <1>2, <1>3, <2>1, <2>3, <3>1, HalfFacts DEF t
      <4>. QED BY <1>2, <2>1, <3>1, <4>1, OfValue DEF FlooredRest
    <3>2. CASE ~(w < 0)
      <4>1. s < Half /\ s = R
        BY <1>2, <1>3, <2>1, <2>3, <3>2, HalfFacts DEF t
      <4>. QED BY <1>2, <2>1, <3>2, <4>1, OfValue DEF FlooredRest
    <3>. QED BY <3>1, <3>2
  <2>6. IsFloored(d, w, Q, R)
    BY DEF d, w, Q, R
  <2>. QED BY <2>4, <2>5, <2>6
<1>. QED BY <1>12, <1>13 DEF d, w, m, low, top2

---------------------------------------------------------------------------
(* SM/REM: the absolute values are divided, the signs put back.            *)

LEMMA SymmetricPlain ==
  ASSUME NEW d \in Int, NEW n \in Int, NEW q \in Int, NEW r \in Int
  PROVE  LET m == IF n < 0 THEN -n ELSE n
             a == IF d < 0 THEN -d ELSE d
             s == IF d < 0 THEN -r ELSE r
             k == IF (d < 0) # (n < 0) THEN -q ELSE q
         IN  IsSymmetric(d, n, q, r) <=> n # 0 /\ a = k * m + s /\ s \in 0..m-1
<1>0. q * n \in Int /\ q * (-n) = -(q * n) /\ (-q) * n = -(q * n) /\ (-q) * (-n) = q * n
  OBVIOUS
<1>1. CASE d < 0 /\ n < 0
  BY <1>0, <1>1 DEF IsSymmetric
<1>2. CASE d < 0 /\ n >= 0
  BY <1>0, <1>2 DEF IsSymmetric
<1>3. CASE d >= 0 /\ n < 0
  BY <1>0, <1>3 DEF IsSymmetric
<1>4. CASE d >= 0 /\ n >= 0
  BY <1>0, <1>4 DEF IsSymmetric
<1>. QED BY <1>1, <1>2, <1>3, <1>4

\* The quotient of absolute values: it is not negative, and fits.
LEMMA SymmetricNumbers ==
  ASSUME NEW m \in 1..Half, NEW q \in Int, q <= Half, NEW r \in 0..m-1,
         NEW a \in Nat, a = q * m + r, NEW l \in 0..B-1, NEW h \in Nat, h * B + l = a
  PROVE  /\ h < m /\ q >= 0
         /\ \A k \in 0..B-1, s \in 0..m-1 : a = k * m + s => k = q /\ s = r
<1>1. m \in Nat /\ m > 0 /\ Half \in Nat \ {0} /\ B = 2 * Half /\ B \in Nat
  BY HalfFacts
<1>2. q * m \in Int /\ q * m <= Half * m /\ Half * m \in Nat /\ m * B = 2 * (Half * m)
  BY <1>1
<1>3. q < 0 => (q + 1) * m <= 0
  BY <1>1
<1>4. (q + 1) * m = q * m + m
  BY <1>1
<1>5. q >= 0
  BY <1>1, <1>2, <1>3, <1>4
<1>6. h < m
  <2>1. h >= m => h * B >= m * B
    BY <1>1
  <2>2. Half * m >= m
    BY <1>1
  <2>3. h * B \in Nat
    BY <1>1
  <2>. QED BY <1>1, <1>2, <2>1, <2>2, <2>3
<1>7. ASSUME NEW k \in 0..B-1, NEW s \in 0..m-1, a = k * m + s
      PROVE  k = q /\ s = r
  <2>1. k \in Int /\ k * m + s = q * m + r
    BY <1>1, <1>7
  <2>. QED BY <1>1, <2>1, Unique
<1>. QED BY <1>5, <1>6, <1>7

SymmetricRest(h, s) == IF Negative(h) THEN Negate(s) ELSE s

SymmetricQuotient(h, n, k) == IF Negative(h) # Negative(n) THEN Negate(k) ELSE k

LEMMA SymmetricRight ==
  ASSUME NEW l \in Cell, NEW h \in Cell, NEW n \in Cell, NEW q \in Cell, NEW r \in Cell,
         IsSymmetric(SignedDouble(l, h), Value(n), Value(q), Value(r))
  PROVE  /\ DAbsHigh(l, h) < Abs(n)
         /\ \A k, s \in Cell :
              Double(DAbsLow(l, h), DAbsHigh(l, h)) = k * Abs(n) + s /\ s < Abs(n)
                => IsSymmetric(SignedDouble(l, h), Value(n), Value(SymmetricQuotient(h, n, k)),
                               Value(SymmetricRest(h, s)))
<1>. DEFINE d == SignedDouble(l, h)
            w == Value(n)
            m == Abs(n)
            Q == Value(q)
            R == Value(r)
            a == IF d < 0 THEN -d ELSE d
            t == IF d < 0 THEN -R ELSE R
            p == IF (d < 0) # (w < 0) THEN -Q ELSE Q
            low == DAbsLow(l, h)
            high == DAbsHigh(l, h)
<1>1. d \in Int /\ (Negative(h) <=> d < 0) /\ Double(low, high) = a
  BY DoubleAbs
<1>2. /\ w \in Int /\ m = (IF w < 0 THEN -w ELSE w) /\ m \in Nat /\ m <= Half
      /\ (Negative(n) <=> w < 0)
  BY Signed
<1>3. Q \in Int /\ R \in Int /\ -Half <= Q /\ Q < Half
  BY Signed
<1>4. low \in 0..B-1 /\ high \in Nat
  <2>1. low \in Cell /\ high \in Cell
    BY Dressed
  <2>. HIDE DEF low, high
  <2>. QED BY <2>1, HalfFacts
<1>5. high * B + low = a
  BY <1>1 DEF Double
<1>6. w # 0 /\ a = p * m + t /\ t \in 0..m-1
  <2>1. IsSymmetric(d, w, Q, R)
    OBVIOUS
  <2>. HIDE DEF d, w, R, Q, m
  <2>2. LET m2 == IF w < 0 THEN -w ELSE w
        IN  w # 0 /\ a = p * m2 + t /\ t \in 0..m2-1
    BY <1>1, <1>2, <1>3, <2>1, SymmetricPlain
  <2>. QED BY <1>2, <2>2
<1>. HIDE DEF d, w, m, Q, R, low, high
<1>7. m \in 1..Half /\ p \in Int /\ p <= Half /\ a \in Nat
  BY <1>1, <1>2, <1>3, <1>6, HalfFacts
<1>. HIDE DEF a, t, p
<1>8. /\ high < m /\ p >= 0
      /\ \A k \in 0..B-1, s \in 0..m-1 : a = k * m + s => k = p /\ s = t
  BY <1>4, <1>5, <1>6, <1>7, SymmetricNumbers
<1>9. ASSUME NEW k \in Cell, NEW s \in Cell, Double(low, high) = k * m + s, s < m
      PROVE  IsSymmetric(d, w, Value(SymmetricQuotient(h, n, k)), Value(SymmetricRest(h, s)))
  <2>1. k \in 0..B-1 /\ k \in Nat /\ s \in Nat /\ s \in 0..m-1
    BY <1>7, <1>9, HalfFacts
  <2>2. k = p /\ s = t
    BY <1>1, <1>8, <1>9, <2>1
  <2>3. s < Half
    BY <1>2, <2>1, HalfFacts
  <2>4. Value(SymmetricRest(h, s)) = R
    <3>1. CASE d < 0
      <4>1. s <= Half /\ -s = R
        BY <1>3, <2>1, <2>2, <2>3, <3>1, HalfFacts DEF t
      <4>. QED BY <1>1, <2>1, <3>1, <4>1, OfValue DEF SymmetricRest
    <3>2. CASE ~(d < 0)
      <4>1. s = R
        BY <2>2, <3>2 DEF t
      <4>. QED BY <1>1, <2>1, <2>3, <3>2, <4>1, OfValue DEF SymmetricRest
    <3>. QED BY <3>1, <3>2
  <2>5. Value(SymmetricQuotient(h, n, k)) = Q
    <3>1. CASE (d < 0) # (w < 0)
      <4>1. k <= Half /\ -k = Q
        BY <1>3, <1>7, <2>1, <2>2, <3>1, HalfFacts DEF p
      <4>2. Negative(h) # Negative(n)
        BY <1>1, <1>2, <3>1 DEF Negative
      <4>. QED BY <2>1, <4>1, <4>2, OfValue DEF SymmetricQuotient
    <3>2. CASE ~((d < 0) # (w < 0))
      <4>1. k < Half /\ k = Q
        BY <1>3, <2>2, <3>2 DEF p
      <4>2. Negative(h) = Negative(n)
        BY <1>1, <1>2, <3>2 DEF Negative
      <4>. QED BY <2>1, <4>1, <4>2, OfValue DEF SymmetricQuotient
    <3>. QED BY <3>1, <3>2
  <2>6. IsSymmetric(d, w, Q, R)
    BY DEF d, w, Q, R
  <2>. QED BY <2>4, <2>5, <2>6
<1>. QED BY <1>8, <1>9 DEF d, w, m, low, high

---------------------------------------------------------------------------
(* What each word asked of the loop that runs.                             *)

FlooredWords == {"fm/mod", "/mod", "*/mod"}

Dividend ==
  IF asked.word = "fm/mod" THEN SignedDouble(asked.x, asked.y)
  ELSE IF asked.word = "/mod" THEN Value(asked.y) ELSE Value(asked.x) * Value(asked.y)

FlooredGiven(l, h) == <<FlooredLow(l, asked.z), FlooredHigh(l, h, asked.z), Abs(asked.z)>>

FlooredAsked ==
  /\ asked.word \in FlooredWords /\ kept = <<asked.z>>
  /\ \E l, h \in Cell : SignedDouble(l, h) = Dividend /\ given = FlooredGiven(l, h)

SymmetricAsked ==
  /\ asked.word = "sm/rem"
  /\ given = <<DAbsLow(asked.x, asked.y), DAbsHigh(asked.x, asked.y), Abs(asked.z)>>
  /\ kept = <<Negative(asked.y), Negative(asked.y) # Negative(asked.z)>>

\* UD/MOD divides the high cell, then the remainder over the low cell.
TwiceAsked ==
  /\ asked.word = "ud/mod"
  /\ \/ kept = <<>> /\ given = <<asked.y, 0, asked.z>>
     \/ \E k, r \in Cell :
          /\ kept = <<k>> /\ given = <<asked.x, r, asked.z>>
          /\ asked.y = k * asked.z + r /\ r < asked.z

Divides ==
  pc \in {"dividing", "divided", "thrown"} =>
    \/ asked.word = "um/mod" /\ given = <<asked.x, asked.y, asked.z>>
    \/ FlooredAsked
    \/ SymmetricAsked
    \/ TwiceAsked

SignsAsked(a, b) == given = <<Abs(a), Abs(b)>> /\ kept = <<Negative(a) # Negative(b)>>

Multiplies ==
  pc \in {"multiplying", "multiplied"} =>
    \/ asked.word = "um*" /\ given = <<asked.y, asked.z>>
    \/ asked.word \in {"m*", "*"} /\ SignsAsked(asked.y, asked.z)
    \/ asked.word = "*/mod" /\ SignsAsked(asked.x, asked.y)

Thrown == pc = "thrown" => given[2] >= given[3]

Answered ==
  pc = "answered" =>
    /\ asked.word \in {"um*", "*", "ud/mod"} \/ Answerable => IsAnswer(answer)
    /\ asked.word \notin {"um*", "m*", "*"} => asked.z # 0

Asks == Divides /\ Multiplies /\ Thrown /\ Answered

LEMMA NoQuotient ==
  ASSUME NEW l \in Cell, NEW h \in Cell, NEW d \in Cell, h >= d,
         NEW q \in Cell, NEW r \in Cell, r < d
  PROVE  Double(l, h) # q * d + r
<1>1. /\ l \in Nat /\ h \in Nat /\ d \in Nat /\ q \in Nat /\ r \in Nat /\ B \in Nat /\ q < B
  BY HalfFacts
<1>2. (q + 1) * d <= B * d /\ (q + 1) * d = q * d + d
  BY <1>1
<1>3. d * B <= h * B /\ d * B = B * d
  BY <1>1
<1>4. q * d \in Nat /\ h * B \in Nat /\ d * B \in Nat
  BY <1>1
<1>. QED BY <1>1, <1>2, <1>3, <1>4 DEF Double

\* The exception is right to be thrown.
LEMMA ThrownRight ==
  ASSUME AskedCells, Divides, Thrown, pc = "thrown"
  PROVE  IF asked.word = "ud/mod" THEN asked.z = 0 ELSE ~Answerable
<1>. DEFINE x == asked.x
            y == asked.y
            z == asked.z
<1>1. x \in Cell /\ y \in Cell /\ z \in Cell /\ given[2] >= given[3]
  BY DEF AskedCells, Thrown
<1>2. CASE asked.word = "um/mod" /\ given = <<x, y, z>>
  <2>. SUFFICES ASSUME NEW r \in Cell, NEW q \in Cell, IsAnswer(<<r, q>>) PROVE FALSE
    BY <1>2 DEF Answerable
  <2>1. Double(x, y) = q * z + r /\ r < z
    BY <1>2 DEF IsAnswer
  <2>. QED BY <1>1, <1>2, <2>1, NoQuotient
<1>3. CASE FlooredAsked
  <2>1. PICK l \in Cell, h \in Cell :
          SignedDouble(l, h) = Dividend /\ given = FlooredGiven(l, h)
    BY <1>3 DEF FlooredAsked
  <2>2. FlooredHigh(l, h, z) >= Abs(z)
    BY <1>1, <2>1 DEF FlooredGiven
  <2>. SUFFICES ASSUME NEW r \in Cell, NEW q \in Cell, IsAnswer(<<r, q>>) PROVE FALSE
    BY <1>3 DEF Answerable, FlooredAsked, FlooredWords
  <2>3. IsFloored(SignedDouble(l, h), Value(z), Value(q), Value(r))
    BY <1>3, <2>1 DEF IsAnswer, Dividend, FlooredAsked, FlooredWords
  <2>4. FlooredHigh(l, h, z) < Abs(z)
    BY <1>1, <2>3, FlooredRight
  <2>5. FlooredHigh(l, h, z) \in Int /\ Abs(z) \in Int
    <3>1. FlooredHigh(l, h, z) \in Cell /\ Abs(z) \in Cell
      <4>1. \A c \in Cell : Low(c + Abs(z)) \in Cell
        BY <1>1, Dressed
      <4>. QED BY <1>1, <4>1, Dressed DEF FlooredHigh
    <3>. QED BY <3>1, HalfFacts
  <2>. QED BY <2>2, <2>4, <2>5
<1>4. CASE SymmetricAsked
  <2>1. DAbsHigh(x, y) >= Abs(z)
    BY <1>1, <1>4 DEF SymmetricAsked
  <2>. SUFFICES ASSUME NEW r \in Cell, NEW q \in Cell, IsAnswer(<<r, q>>) PROVE FALSE
    BY <1>4 DEF Answerable, SymmetricAsked
  <2>2. IsSymmetric(SignedDouble(x, y), Value(z), Value(q), Value(r))
    BY <1>4 DEF IsAnswer, SymmetricAsked
  <2>3. DAbsHigh(x, y) < Abs(z)
    BY <1>1, <2>2, SymmetricRight
  <2>4. DAbsHigh(x, y) \in Cell /\ Abs(z) \in Cell
    BY <1>1, Dressed
  <2>. QED BY <2>1, <2>3, <2>4, HalfFacts
<1>5. CASE TwiceAsked
  BY <1>1, <1>5, HalfFacts DEF TwiceAsked
<1>. QED BY <1>2, <1>3, <1>4, <1>5 DEF Divides

\* What a word leaves when UM/MOD is done is its answer.
LEMMA DividedRight ==
  ASSUME IInv, Divides, pc = "divided"
  PROVE  /\ asked.z # 0
         /\ asked.word = "um/mod" => IsAnswer(<<hi, lo>>)
         /\ asked.word \in FlooredWords /\ Answerable => IsAnswer(Floored)
         /\ asked.word = "sm/rem" /\ Answerable => IsAnswer(Symmetric)
         /\ asked.word = "ud/mod" =>
              IF kept = <<>> THEN asked.y = lo * asked.z + hi /\ hi < asked.z
                             ELSE IsAnswer(<<hi, lo, kept[1]>>)
<1>. DEFINE x == asked.x
            y == asked.y
            z == asked.z
<1>1. /\ x \in Cell /\ y \in Cell /\ z \in Cell /\ hi \in Cell /\ lo \in Cell
      /\ given[2] * B + given[1] = lo * given[3] + hi /\ hi < given[3]
  BY DEF IInv, Loops, AskedCells, ArithTypeOK, LoopsExact
<1>2. hi \in Nat /\ lo \in Nat /\ x \in Nat /\ y \in Nat /\ z \in Nat
  BY <1>1, HalfFacts
<1>3. z = 0 => Abs(z) = 0
  <2>1. 0 \in Cell /\ (z = 0 => Value(z) = 0)
    BY HalfFacts DEF Value, Negative
  <2>. QED BY <2>1, <1>1, Signed
<1>4. CASE asked.word = "um/mod" /\ given = <<x, y, z>>
  <2>1. y * B + x = lo * z + hi /\ hi < z
    BY <1>1, <1>4
  <2>2. z # 0
    BY <1>2, <2>1
  <2>3. IsAnswer(<<hi, lo>>)
    BY <1>4, <2>1 DEF IsAnswer, Double
  <2>. QED BY <1>4, <2>2, <2>3 DEF FlooredWords
<1>5. CASE FlooredAsked
  <2>1. PICK l \in Cell, h \in Cell :
          SignedDouble(l, h) = Dividend /\ given = FlooredGiven(l, h)
    BY <1>5 DEF FlooredAsked
  <2>2. Double(FlooredLow(l, z), FlooredHigh(l, h, z)) = lo * Abs(z) + hi /\ hi < Abs(z)
    BY <1>1, <2>1 DEF FlooredGiven, Double
  <2>3. z # 0
    BY <1>2, <1>3, <2>2
  <2>4. asked.word \in FlooredWords /\ kept = <<z>>
    BY <1>5 DEF FlooredAsked
  <2>5. ASSUME NEW r \in Cell, NEW q \in Cell, IsAnswer(<<r, q>>) PROVE IsAnswer(Floored)
    <3>1. IsFloored(Dividend, Value(z), Value(q), Value(r))
      BY <2>4, <2>5 DEF IsAnswer, Dividend, FlooredWords
    <3>2. IsFloored(Dividend, Value(z), Value(lo), Value(FlooredRest(z, hi)))
      <4>. HIDE DEF x, y, z
      <4>. QED BY <1>1, <2>1, <2>2, <3>1, FlooredRight
    <3>3. Floored = <<FlooredRest(z, hi), lo>>
      BY <2>4 DEF Floored, FlooredRest
    <3>. QED BY <2>4, <3>2, <3>3 DEF IsAnswer, Dividend, FlooredWords
  <2>. QED BY <2>3, <2>4, <2>5 DEF Answerable, FlooredWords
<1>6. CASE SymmetricAsked
  <2>1. asked.word = "sm/rem" /\ kept = <<Negative(y), Negative(y) # Negative(z)>>
        /\ given = <<DAbsLow(x, y), DAbsHigh(x, y), Abs(z)>>
    BY <1>6 DEF SymmetricAsked
  <2>2. Double(DAbsLow(x, y), DAbsHigh(x, y)) = lo * Abs(z) + hi /\ hi < Abs(z)
    BY <1>1, <2>1 DEF Double
  <2>3. z # 0
    BY <1>2, <1>3, <2>2
  <2>4. ASSUME NEW r \in Cell, NEW q \in Cell, IsAnswer(<<r, q>>) PROVE IsAnswer(Symmetric)
    <3>1. IsSymmetric(SignedDouble(x, y), Value(z), Value(q), Value(r))
      BY <2>1, <2>4 DEF IsAnswer
    <3>2. IsSymmetric(SignedDouble(x, y), Value(z), Value(SymmetricQuotient(y, z, lo)),
                      Value(SymmetricRest(y, hi)))
      <4>. HIDE DEF x, y, z
      <4>. QED BY <1>1, <2>2, <3>1, SymmetricRight
    <3>3. Symmetric = <<SymmetricRest(y, hi), SymmetricQuotient(y, z, lo)>>
      BY <2>1 DEF Symmetric, SymmetricRest, SymmetricQuotient
    <3>. QED BY <2>1, <3>2, <3>3 DEF IsAnswer
  <2>. QED BY <2>1, <2>3, <2>4 DEF Answerable, FlooredWords
<1>7. CASE TwiceAsked
  <2>1. CASE kept = <<>> /\ given = <<y, 0, z>>
    <3>1. y = lo * z + hi /\ hi < z
      <4>1. 0 * B + y = y
        BY <1>2, HalfFacts
      <4>. QED BY <1>1, <2>1, <4>1
    <3>2. z # 0
      BY <1>2, <3>1
    <3>. QED BY <1>7, <2>1, <3>1, <3>2 DEF TwiceAsked, FlooredWords
  <2>2. CASE \E k, r \in Cell : /\ kept = <<k>> /\ given = <<x, r, z>>
                                /\ y = k * z + r /\ r < z
    <3>1. PICK k \in Cell, r \in Cell : /\ kept = <<k>> /\ given = <<x, r, z>>
                                        /\ y = k * z + r /\ r < z
      BY <2>2
    <3>2. k \in Nat /\ r \in Nat
      BY <3>1, HalfFacts
    <3>3. r * B + x = lo * z + hi /\ hi < z
      BY <1>1, <3>1
    <3>4. Double(x, y) = Double(lo, k) * z + hi
      <4>1. y = k * z + r /\ B \in Nat
        BY <3>1, HalfFacts
      <4>. HIDE DEF x, y, z
      <4>2. y * B = (k * z) * B + r * B
        BY <1>2, <3>2, <4>1
      <4>3. (lo + k * B) * z = lo * z + (k * z) * B
        BY <1>2, <3>2, <4>1
      <4>4. y * B \in Nat /\ (k * z) * B \in Nat /\ r * B \in Nat /\ lo * z \in Nat /\ k * B \in Nat
        BY <1>2, <3>2, <4>1
      <4>5. \A a, b, c, d \in Nat :
              a = b + c /\ c + x = d + hi => a + x = (d + b) + hi
        BY <1>2
      <4>6. y * B + x = (lo + k * B) * z + hi
        BY <1>2, <3>3, <4>2, <4>3, <4>4, <4>5
      <4>7. lo + k * B = k * B + lo
        BY <1>2, <4>4
      <4>. QED BY <4>6, <4>7, Zenon DEF Double
    <3>5. z # 0
      BY <1>2, <3>3
    <3>6. IsAnswer(<<hi, lo, kept[1]>>)
      BY <1>7, <3>1, <3>3, <3>4 DEF IsAnswer, TwiceAsked
    <3>7. kept # <<>>
      BY <3>1
    <3>. QED BY <1>7, <3>5, <3>6, <3>7 DEF TwiceAsked, FlooredWords
  <2>. QED BY <1>7, <2>1, <2>2 DEF TwiceAsked
<1>. QED BY <1>4, <1>5, <1>6, <1>7 DEF Divides

LEMMA MultipliedRight ==
  ASSUME IInv, Multiplies, pc = "multiplied"
  PROVE  /\ asked.word = "um*" => IsAnswer(product)
         /\ asked.word = "m*" => IsAnswer(SignedProduct)
         /\ asked.word = "*" => IsAnswer(<<SignedProduct[1]>>)
         /\ SignedProduct[1] \in Cell /\ SignedProduct[2] \in Cell
         /\ asked.word = "*/mod" =>
              SignedDouble(SignedProduct[1], SignedProduct[2]) = Value(asked.x) * Value(asked.y)
         /\ asked.word \in {"um*", "m*", "*", "*/mod"}
<1>. DEFINE l == product[1]
            h == product[2]
<1>1. /\ asked.x \in Cell /\ asked.y \in Cell /\ asked.z \in Cell /\ l \in Cell /\ h \in Cell
      /\ product = <<l, h>> /\ Double(l, h) = given[1] * given[2]
  BY DEF IInv, Loops, AskedCells, ArithTypeOK, LoopsExact, Double
<1>. HIDE DEF l, h
<1>2. SignedProduct[1] \in Cell /\ SignedProduct[2] \in Cell
  BY <1>1, Dressed DEF SignedProduct
<1>3. ASSUME NEW a \in Cell, NEW c \in Cell, SignsAsked(a, c)
      PROVE  SignedDouble(SignedProduct[1], SignedProduct[2]) = Value(a) * Value(c)
  <2>1. Double(l, h) = Abs(a) * Abs(c)
    BY <1>1, <1>3 DEF SignsAsked
  <2>2. SignedProduct = IF Negative(a) # Negative(c) THEN <<Negate(l), DNegateHigh(l, h)>>
                                                     ELSE <<l, h>>
    BY <1>1, <1>3 DEF SignedProduct, SignsAsked
  <2>. QED BY <1>1, <2>1, <2>2, ProductRight
<1>4. CASE asked.word = "um*" /\ given = <<asked.y, asked.z>>
  BY <1>1, <1>2, <1>4 DEF IsAnswer
<1>5. CASE asked.word \in {"m*", "*"} /\ SignsAsked(asked.y, asked.z)
  <2>1. SignedDouble(SignedProduct[1], SignedProduct[2]) = Value(asked.y) * Value(asked.z)
    BY <1>1, <1>3, <1>5
  <2>2. SignedProduct[1] = (Value(asked.y) * Value(asked.z)) % B
    BY <1>2, <2>1, LowCell, Zenon
  <2>. QED BY <1>2, <1>5, <2>1, <2>2 DEF IsAnswer
<1>6. CASE asked.word = "*/mod" /\ SignsAsked(asked.x, asked.y)
  BY <1>1, <1>2, <1>3, <1>6
<1>. QED BY <1>4, <1>5, <1>6 DEF Multiplies

---------------------------------------------------------------------------
(* The steps keep what was asked.                                          *)

LEMMA Extended ==
  ASSUME NEW x \in Cell
  PROVE  SignedDouble(x, Extend(x)) = Value(x)
<1>. DEFINE e == Value(Extend(x))
<1>1. /\ e = (IF Negative(x) THEN -1 ELSE 0) /\ Value(x) = (IF Negative(x) THEN x - B ELSE x)
      /\ B \in Nat /\ x \in Nat
  BY HalfFacts DEF Extend, Value, Negative
<1>. HIDE DEF e
<1>2. e * B + x = Value(x)
  BY <1>1
<1>. QED BY <1>2 DEF SignedDouble, e

\* A division that starts is of what the word asks.
LEMMA DivisionAsks ==
  ASSUME NEW l, NEW h, NEW d, UM_DIV_MOD(l, h, d), given' = <<l, h, d>> => Divides'
  PROVE  Asks'
<1>1. /\ pc' \in {"thrown", "dividing"} /\ given' = <<l, h, d>>
      /\ pc' = "thrown" => h >= d
  BY DEF UM_DIV_MOD
<1>. QED BY <1>1 DEF Asks, Multiplies, Thrown, Answered

LEMMA FlooredAsks ==
  ASSUME NEW l \in Cell, NEW h \in Cell, FM_DIV_MOD(l, h, asked'.z),
         asked'.word \in FlooredWords, SignedDouble(l, h) = Dividend'
  PROVE  Asks'
<1>. DEFINE n == asked'.z
<1>1. UM_DIV_MOD(FlooredLow(l, n), FlooredHigh(l, h, n), Abs(n)) /\ kept' = <<n>>
  BY DEF FM_DIV_MOD, FlooredLow, FlooredHigh
<1>2. given' = <<FlooredLow(l, n), FlooredHigh(l, h, n), Abs(n)>> => Divides'
  BY <1>1 DEF Divides, FlooredAsked, FlooredGiven
<1>. QED BY <1>1, <1>2, DivisionAsks

LEMMA MultiplicationAsks ==
  ASSUME NEW a, NEW c, U_M_STAR(a, c), given' = <<a, c>> => Multiplies'
  PROVE  Asks'
<1>1. pc' = "multiplying" /\ given' = <<a, c>>
  BY DEF U_M_STAR
<1>. QED BY <1>1 DEF Asks, Divides, Thrown, Answered

LEMMA BeginAsks ==
  ASSUME NEW w \in Words, NEW x \in Cell, NEW y \in Cell, NEW z \in Cell, Begin(w, x, y, z)
  PROVE  Asks'
<1>0. asked' = [word |-> w, x |-> x, y |-> y, z |-> z]
  BY DEF Begin
<1>1. CASE w = "um*" /\ U_M_STAR(y, z)
  <2>1. given' = <<y, z>> => Multiplies'
    BY <1>0, <1>1 DEF Multiplies
  <2>. QED BY <1>1, <2>1, MultiplicationAsks
<1>2. CASE w \in {"m*", "*"} /\ DABS_STAR(y, z)
  <2>1. given' = <<Abs(y), Abs(z)>> => Multiplies'
    BY <1>0, <1>2 DEF Multiplies, SignsAsked, DABS_STAR
  <2>. QED BY <1>2, <2>1, MultiplicationAsks DEF DABS_STAR
<1>3. CASE w = "*/mod" /\ DABS_STAR(x, y)
  <2>1. given' = <<Abs(x), Abs(y)>> => Multiplies'
    BY <1>0, <1>3 DEF Multiplies, SignsAsked, DABS_STAR
  <2>. QED BY <1>3, <2>1, MultiplicationAsks DEF DABS_STAR
<1>4. CASE w = "um/mod" /\ UM_DIV_MOD(x, y, z)
  <2>1. given' = <<x, y, z>> => Divides'
    BY <1>0, <1>4 DEF Divides
  <2>. QED BY <1>4, <2>1, DivisionAsks
<1>5. CASE w = "fm/mod" /\ FM_DIV_MOD(x, y, z)
  <2>1. SignedDouble(x, y) = Dividend' /\ asked'.word \in FlooredWords /\ asked'.z = z
    BY <1>0, <1>5 DEF Dividend, FlooredWords
  <2>. QED BY <1>5, <2>1, FlooredAsks
<1>6. CASE w = "/mod" /\ FM_DIV_MOD(y, Extend(y), z)
  <2>1. Dividend' = Value(y) /\ asked'.word \in FlooredWords /\ asked'.z = z
    BY <1>0, <1>6 DEF Dividend, FlooredWords
  <2>2. Extend(y) \in Cell /\ SignedDouble(y, Extend(y)) = Value(y)
    BY Dressed, Extended
  <2>. QED BY <1>6, <2>1, <2>2, FlooredAsks
<1>7. CASE w = "sm/rem" /\ SM_REM(x, y, z)
  <2>1. given' = <<DAbsLow(x, y), DAbsHigh(x, y), Abs(z)>> => Divides'
    BY <1>0, <1>7 DEF Divides, SymmetricAsked, SM_REM
  <2>. QED BY <1>7, <2>1, DivisionAsks DEF SM_REM
<1>8. CASE w = "ud/mod" /\ UD_MOD(x, y, z)
  <2>1. given' = <<y, 0, z>> => Divides'
    BY <1>0, <1>8 DEF Divides, TwiceAsked, UD_MOD
  <2>. QED BY <1>8, <2>1, DivisionAsks DEF UD_MOD
<1>. QED BY <1>1, <1>2, <1>3, <1>4, <1>5, <1>6, <1>7, <1>8 DEF Begin

LEMMA LeaveAsks ==
  ASSUME NEW cells, Leave(cells),
         asked.word \in {"um*", "*", "ud/mod"} \/ Answerable => IsAnswer(cells),
         asked.word \notin {"um*", "m*", "*"} => asked.z # 0
  PROVE  Asks'
<1>1. pc' = "answered" /\ answer' = cells /\ asked' = asked
  BY DEF Leave
<1>2. (Answerable' <=> Answerable) /\ (IsAnswer(answer)' <=> IsAnswer(cells))
  BY <1>1 DEF Answerable, IsAnswer
<1>. QED BY <1>1, <1>2 DEF Asks, Divides, Multiplies, Thrown, Answered

LEMMA DividedAsks ==
  ASSUME IInv, Asks, Divided
  PROVE  Asks'
<1>1. pc = "divided" /\ Divides
  BY DEF Divided, Asks
<1>2. /\ asked.z # 0
      /\ asked.word = "um/mod" => IsAnswer(<<hi, lo>>)
      /\ asked.word \in FlooredWords /\ Answerable => IsAnswer(Floored)
      /\ asked.word = "sm/rem" /\ Answerable => IsAnswer(Symmetric)
      /\ asked.word = "ud/mod" =>
           IF kept = <<>> THEN asked.y = lo * asked.z + hi /\ hi < asked.z
                          ELSE IsAnswer(<<hi, lo, kept[1]>>)
  BY <1>1, DividedRight
<1>3. CASE asked.word = "um/mod" /\ Leave(<<hi, lo>>)
  BY <1>2, <1>3, LeaveAsks
<1>4. CASE asked.word \in {"fm/mod", "/mod", "*/mod"} /\ Leave(Floored)
  BY <1>2, <1>4, LeaveAsks DEF FlooredWords
<1>5. CASE asked.word = "sm/rem" /\ Leave(Symmetric)
  BY <1>2, <1>5, LeaveAsks
<1>6. CASE asked.word = "ud/mod" /\ kept # <<>> /\ Leave(<<hi, lo, kept[1]>>)
  BY <1>2, <1>6, LeaveAsks
<1>7. CASE /\ asked.word = "ud/mod" /\ kept = <<>>
           /\ kept' = <<lo>>
           /\ UM_DIV_MOD(asked.x, hi, asked.z)
           /\ UNCHANGED <<asked, answer>>
  <2>1. asked.y = lo * asked.z + hi /\ hi < asked.z /\ hi \in Cell /\ lo \in Cell
    BY <1>2, <1>7 DEF IInv, Loops, ArithTypeOK
  <2>2. given' = <<asked.x, hi, asked.z>> => TwiceAsked'
    BY <1>7, <2>1, Zenon DEF TwiceAsked
  <2>. QED BY <1>7, <2>2, DivisionAsks DEF Divides
<1>. QED BY <1>3, <1>4, <1>5, <1>6, <1>7 DEF Divided

LEMMA MultipliedAsks ==
  ASSUME IInv, Asks, Multiplied
  PROVE  Asks'
<1>1. pc = "multiplied" /\ Multiplies
  BY DEF Multiplied, Asks
<1>2. /\ asked.word = "um*" => IsAnswer(product)
      /\ asked.word = "m*" => IsAnswer(SignedProduct)
      /\ asked.word = "*" => IsAnswer(<<SignedProduct[1]>>)
      /\ SignedProduct[1] \in Cell /\ SignedProduct[2] \in Cell
      /\ asked.word = "*/mod" =>
           SignedDouble(SignedProduct[1], SignedProduct[2]) = Value(asked.x) * Value(asked.y)
  BY <1>1, MultipliedRight
<1>3. CASE asked.word = "um*" /\ Leave(product)
  BY <1>2, <1>3, LeaveAsks
<1>4. CASE asked.word = "m*" /\ Leave(SignedProduct)
  BY <1>2, <1>4, LeaveAsks
<1>5. CASE asked.word = "*" /\ Leave(<<SignedProduct[1]>>)
  BY <1>2, <1>5, LeaveAsks
<1>6. CASE /\ asked.word = "*/mod"
           /\ FM_DIV_MOD(SignedProduct[1], SignedProduct[2], asked.z)
           /\ UNCHANGED <<asked, answer>>
  <2>1. Dividend' = Value(asked.x) * Value(asked.y) /\ asked'.word \in FlooredWords
        /\ asked'.z = asked.z
    BY <1>6 DEF Dividend, FlooredWords
  <2>. QED BY <1>2, <1>6, <2>1, FlooredAsks
<1>. QED BY <1>3, <1>4, <1>5, <1>6 DEF Multiplied

LEMMA AsksKept == IInv /\ Asks /\ [ArithNext]_arithVars => Asks'
<1>. SUFFICES ASSUME IInv, Asks, [ArithNext]_arithVars
              PROVE  Asks'
  OBVIOUS
<1>. USE DEF Asks, Divides, Multiplies, Thrown, Answered
<1>1. ASSUME NEW w \in Words, NEW x \in Cell, NEW y \in Cell, NEW z \in Cell, Begin(w, x, y, z)
      PROVE  Asks'
  BY <1>1, BeginAsks
<1>2. CASE DivideLoop
  <2>1. /\ pc = "dividing" /\ pc' \in {"dividing", "divided"}
        /\ asked' = asked /\ kept' = kept /\ given' = given
    BY <1>2 DEF DivideLoop
  <2>2. (FlooredAsked' <=> FlooredAsked) /\ (SymmetricAsked' <=> SymmetricAsked)
        /\ (TwiceAsked' <=> TwiceAsked)
    BY <2>1 DEF FlooredAsked, SymmetricAsked, TwiceAsked, FlooredGiven, Dividend
  <2>. QED BY <2>1, <2>2
<1>3. CASE MultiplyLoop
  <2>1. /\ pc = "multiplying" /\ pc' \in {"multiplying", "multiplied"}
        /\ asked' = asked /\ kept' = kept /\ given' = given
    BY <1>3 DEF MultiplyLoop
  <2>. QED BY <2>1 DEF SignsAsked
<1>4. CASE Divided
  BY <1>4, DividedAsks
<1>5. CASE Multiplied
  BY <1>5, MultipliedAsks
<1>6. CASE Return
  BY <1>6 DEF Return
<1>7. CASE UNCHANGED arithVars
  <2>1. pc' = pc /\ asked' = asked /\ kept' = kept /\ given' = given /\ answer' = answer
    BY <1>7 DEF arithVars
  <2>2. (FlooredAsked' <=> FlooredAsked) /\ (SymmetricAsked' <=> SymmetricAsked)
        /\ (TwiceAsked' <=> TwiceAsked)
    BY <2>1 DEF FlooredAsked, SymmetricAsked, TwiceAsked, FlooredGiven, Dividend
  <2>3. (Answerable' <=> Answerable) /\ (IsAnswer(answer)' <=> IsAnswer(answer))
    BY <2>1 DEF Answerable, IsAnswer
  <2>4. Divides' /\ Multiplies' /\ Thrown'
    BY <2>1, <2>2 DEF SignsAsked
  <2>. QED BY <2>1, <2>3, <2>4
<1>. QED BY <1>1, <1>2, <1>3, <1>4, <1>5, <1>6, <1>7 DEF ArithNext, Run

(***************************************************************************)
(* Every word of multiplication and division that has an answer gives it,  *)
(* for every sign, at the most negative number and for cells of any width; *)
(* it throws only when there is none, and always when the divisor is 0.    *)
(***************************************************************************)
THEOREM RightAnswers == ArithSpec => []AnswersRight
<1>1. ArithInit => IInv /\ Asks
  BY Starts DEF ArithInit, Asks, Divides, Multiplies, Thrown, Answered
<1>2. IInv /\ Asks => AnswersRight
  BY ThrownRight DEF AnswersRight, Asks, Answered, IInv
<1>. QED BY <1>1, <1>2, Keeps, AsksKept, PTL DEF ArithSpec

---------------------------------------------------------------------------
(* Induction over a set of numbers, from the well-foundedness of <.        *)

LEMMA LeastElement ==
  ASSUME NEW S \in SUBSET Nat, S # {}
  PROVE  \E x \in S : \A y \in S : x <= y
<1>. DEFINE R == OpToRel(<, Nat)
<1>1. IsWellFoundedOn(R, Nat)
  BY NatLessThanWellFounded
<1>2. \A x, y \in Nat : <<y, x>> \in R <=> y < x
  BY DEF OpToRel
<1>. HIDE DEF R
<1>3. PICK x \in S : \A y \in S : ~(<<y, x>> \in R)
  BY <1>1, WFMin
<1>4. ASSUME NEW y \in S
      PROVE  x <= y
  <2>1. x \in Nat /\ y \in Nat
    OBVIOUS
  <2>2. ~(y < x)
    BY <1>2, <1>3, <2>1
  <2>. QED BY <2>1, <2>2
<1>. QED BY <1>4

LEMMA Induction ==
  ASSUME NEW S \in SUBSET Nat, NEW m \in Nat, 0 \in S,
         \A n \in S : n < m => n + 1 \in S
  PROVE  0..m \subseteq S
<1>. SUFFICES ASSUME NEW k \in 0..m, k \notin S
              PROVE  FALSE
  OBVIOUS
<1>. DEFINE T == (0..m) \ S
<1>1. T \in SUBSET Nat /\ T # {}
  OBVIOUS
<1>2. PICK x \in T : \A y \in T : x <= y
  <2>. HIDE DEF T
  <2>. QED BY <1>1, LeastElement
<1>3. x - 1 \in S /\ x - 1 < m
  BY <1>2
<1>4. (x - 1) + 1 \in S
  BY <1>3
<1>. QED BY <1>2, <1>4

\* What goes from t through F along 0..n, staying in T.
Courses(T, t, n, F) ==
  {v \in [0..n -> T] : v[0] = t /\ \A i \in 1..n : v[i] = F[<<i, v[i - 1]>>]}

\* A recursion along 0..n has a solution.
LEMMA Recursion ==
  ASSUME NEW T, NEW t \in T, NEW n \in Nat, NEW F \in [(1..n) \X T -> T]
  PROVE  Courses(T, t, n, F) # {}
<1>. DEFINE Up(k) == {v \in [0..k -> T] :
                        v[0] = t /\ \A i \in 1..k : v[i] = F[<<i, v[i - 1]>>]}
            S == {k \in Nat : k <= n => Up(k) # {}}
<1>1. 0 \in S
  <2>1. [i \in 0..0 |-> t] \in Up(0)
    OBVIOUS
  <2>. QED BY <2>1
<1>2. ASSUME NEW k \in S, k < n
      PROVE  k + 1 \in S
  <2>1. k \in Nat /\ Up(k) # {}
    <3>. HIDE DEF Up
    <3>. QED BY <1>2
  <2>2. PICK v \in [0..k -> T] : v[0] = t /\ \A i \in 1..k : v[i] = F[<<i, v[i - 1]>>]
    BY <2>1
  <2>. DEFINE w == [i \in 0..k+1 |-> IF i = k + 1 THEN F[<<k + 1, v[k]>>] ELSE v[i]]
  <2>3. F[<<k + 1, v[k]>>] \in T
    BY <1>2, <2>1, <2>2
  <2>4. w \in [0..k+1 -> T] /\ w[0] = t
    BY <2>1, <2>2, <2>3
  <2>5. ASSUME NEW i \in 1..k+1
        PROVE  w[i] = F[<<i, w[i - 1]>>]
    <3>1. CASE i = k + 1
      <4>1. i - 1 = k /\ w[k] = v[k] /\ w[k + 1] = F[<<k + 1, v[k]>>]
        BY <2>1, <3>1
      <4>. QED BY <3>1, <4>1
    <3>2. CASE i # k + 1
      <4>1. i \in 1..k /\ w[i] = v[i] /\ w[i - 1] = v[i - 1]
        BY <2>1, <3>2
      <4>. QED BY <2>2, <4>1
    <3>. QED BY <3>1, <3>2
  <2>6. w \in Up(k + 1)
    <3>. HIDE DEF w
    <3>. QED BY <2>4, <2>5
  <2>. HIDE DEF Up
  <2>. QED BY <2>1, <2>6
<1>. HIDE DEF S
<1>3. 0..n \subseteq S
  <2>1. S \in SUBSET Nat
    BY DEF S
  <2>. QED BY <1>1, <1>2, <2>1, Induction
<1>4. Up(n) # {}
  <2>1. n \in S
    BY <1>3
  <2>. HIDE DEF Up
  <2>. QED BY <2>1 DEF S
<1>. QED BY <1>4 DEF Courses

---------------------------------------------------------------------------
(* The value of digits, digit by digit.                                    *)

\* v goes from start through the digits s in base b.
Stages(start, s, b, v) ==
  /\ v \in [0..Len(s) -> Int]
  /\ v[0] = start
  /\ \A i \in 1..Len(s) : v[i] = v[i - 1] * b + s[i]

LEMMA StagesExist ==
  ASSUME NEW start \in Int, NEW s \in Seq(Int), NEW b \in Int
  PROVE  \E v : Stages(start, s, b, v)
<1>. DEFINE n == Len(s)
            F == [p \in (1..n) \X Int |-> p[2] * b + s[p[1]]]
<1>1. n \in Nat /\ \A i \in 1..n, k \in Int : F[<<i, k>>] = k * b + s[i] /\ k * b + s[i] \in Int
  OBVIOUS
<1>2. F \in [(1..n) \X Int -> Int]
  OBVIOUS
<1>. HIDE DEF F, n
<1>3. PICK v \in [0..n -> Int] : v[0] = start /\ \A i \in 1..n : v[i] = F[<<i, v[i - 1]>>]
  <2>1. Courses(Int, start, n, F) # {}
    BY <1>1, <1>2, Recursion
  <2>. QED BY <2>1 DEF Courses
<1>4. ASSUME NEW i \in 1..n
      PROVE  v[i] = v[i - 1] * b + s[i]
  <2>1. v[i - 1] \in Int
    BY <1>1, <1>3
  <2>. QED BY <1>1, <1>3, <2>1
<1>. QED BY <1>3, <1>4 DEF Stages, n

LEMMA StagesUnique ==
  ASSUME NEW start \in Int, NEW s \in Seq(Int), NEW b \in Int, NEW v, Stages(start, s, b, v),
         NEW w, w[0] = start, \A i \in 1..Len(s) : w[i] = w[i - 1] * b + s[i]
  PROVE  \A i \in 0..Len(s) : w[i] = v[i]
<1>. DEFINE n == Len(s)
            S == {i \in Nat : w[i] = v[i]}
<1>1. n \in Nat /\ 0 \in S /\ S \in SUBSET Nat
  BY DEF Stages
<1>2. ASSUME NEW k \in S, k < n
      PROVE  k + 1 \in S
  <2>1. k + 1 \in 1..n /\ (k + 1) - 1 = k /\ w[k] = v[k]
    BY <1>1, <1>2
  <2>2. w[k + 1] = w[k] * b + s[k + 1] /\ v[k + 1] = v[k] * b + s[k + 1]
    BY <2>1 DEF Stages
  <2>. QED BY <2>1, <2>2
<1>3. 0..n \subseteq S
  <2>. HIDE DEF S, n
  <2>. QED BY <1>1, <1>2, Induction
<1>. QED BY <1>3

\* From start through the first k of the digits s in base b.
Through(start, s, b, k) ==
  LET v[i \in 0..Len(s)] == IF i = 0 THEN start ELSE v[i - 1] * b + s[i]
  IN  v[k]

LEMMA ThroughIs ==
  ASSUME NEW start \in Int, NEW s \in Seq(Int), NEW b \in Int, NEW v, Stages(start, s, b, v)
  PROVE  \A k \in 0..Len(s) : Through(start, s, b, k) = v[k]
<1>. DEFINE n == Len(s)
            Turned(w) == [i \in 0..n |-> IF i = 0 THEN start ELSE w[i - 1] * b + s[i]]
            c == CHOOSE w : w = Turned(w)
<1>0. n \in Nat
  OBVIOUS
<1>1. v = Turned(v)
  BY DEF Stages
<1>2. c = Turned(c)
  BY <1>1
<1>. HIDE DEF c
<1>3. c[0] = start /\ \A i \in 1..n : c[i] = c[i - 1] * b + s[i]
  <2>1. c[0] = Turned(c)[0] /\ \A i \in 1..n : c[i] = Turned(c)[i]
    <3>. HIDE DEF Turned
    <3>. QED BY <1>2
  <2>2. Turned(c)[0] = start /\ \A i \in 1..n : Turned(c)[i] = c[i - 1] * b + s[i]
    BY <1>0
  <2>. HIDE DEF Turned
  <2>. QED BY <2>1, <2>2
<1>4. \A k \in 0..n : c[k] = v[k]
  BY <1>3, StagesUnique
<1>. QED BY <1>4 DEF Through, c

LEMMA ValueIs ==
  ASSUME NEW s \in Seq(Int), NEW b \in Int, NEW v, Stages(0, s, b, v)
  PROVE  ValueOf(s, b) = v[Len(s)]
<1>1. ValueOf(s, b) = Through(0, s, b, Len(s))
  BY DEF ValueOf, Through
<1>2. Len(s) \in 0..Len(s) /\ 0 \in Int
  OBVIOUS
<1>. QED BY <1>1, <1>2, ThroughIs

\* Digits make no number smaller.
LEMMA StagesGrow ==
  ASSUME NEW start \in Nat, NEW s \in Seq(Int), NEW b \in Nat \ {0}, Digits(s, b),
         NEW v, Stages(start, s, b, v)
  PROVE  \A j \in 0..Len(s) : v[j] \in Nat /\ \A i \in 0..j : v[i] <= v[j]
<1>. DEFINE n == Len(s)
            S == {j \in Nat : j <= n => v[j] \in Nat /\ \A i \in 0..j : v[i] <= v[j]}
<1>1. n \in Nat /\ 0 \in S /\ S \in SUBSET Nat
  BY DEF Stages
<1>2. ASSUME NEW k \in S, k < n
      PROVE  k + 1 \in S
  <2>1. k + 1 \in 1..n /\ (k + 1) - 1 = k /\ v[k] \in Nat /\ \A i \in 0..k : v[i] <= v[k]
    BY <1>1, <1>2
  <2>2. v[k + 1] = v[k] * b + s[k + 1] /\ s[k + 1] \in Nat
    <3>1. s[k + 1] \in 0..b-1
      BY <2>1 DEF Digits
    <3>. QED BY <2>1, <3>1 DEF Stages
  <2>3. v[k] * b \in Nat /\ v[k] <= v[k] * b
    BY <2>1
  <2>4. v[k + 1] \in Nat /\ v[k] <= v[k + 1]
    BY <2>1, <2>2, <2>3
  <2>5. ASSUME NEW i \in 0..k+1
        PROVE  v[i] <= v[k + 1]
    <3>1. CASE i = k + 1
      BY <2>4, <3>1
    <3>2. CASE i \in 0..k
      <4>1. v[i] <= v[k] /\ v \in [0..n -> Int] /\ i \in 0..n
        BY <1>1, <2>1, <3>2 DEF Stages
      <4>2. v[i] \in Int
        BY <4>1
      <4>. QED BY <2>1, <2>4, <4>1, <4>2
    <3>. QED BY <3>1, <3>2
  <2>. QED BY <2>1, <2>4, <2>5
<1>3. 0..n \subseteq S
  <2>. HIDE DEF S, n
  <2>. QED BY <1>1, <1>2, Induction
<1>. QED BY <1>1, <1>3

---------------------------------------------------------------------------
(* (dnum) accumulates the value of the digits, as long as a double holds   *)
(* it.                                                                     *)

LEMMA DivMod ==
  ASSUME NEW a \in Nat, NEW b \in Nat \ {0}
  PROVE  /\ a \div b \in Nat /\ a % b \in Nat /\ a % b < b
         /\ a = (a \div b) * b + (a % b)
BY Z3

\* The cells of a number.
CellsOf(n) == <<n % B, n \div B>>

LEMMA CellsAre ==
  ASSUME NEW l \in Cell, NEW h \in Nat, NEW n \in Nat, n = h * B + l
  PROVE  CellsOf(n) = <<l, h>>
<1>. DEFINE k == n \div B
            r == n % B
<1>1. B \in Nat \ {0} /\ l \in 0..B-1 /\ h \in Int
  BY HalfFacts
<1>2. k \in Nat /\ r \in Nat /\ r < B /\ n = k * B + r
  BY <1>1, DivMod
<1>. HIDE DEF k, r
<1>3. k = h /\ r = l
  <2>1. B \in Nat /\ k \in Int /\ r \in 0..B-1 /\ k * B + r = h * B + l
    BY <1>1, <1>2
  <2>. QED BY <1>1, <2>1, Unique
<1>. QED BY <1>3 DEF CellsOf, k, r

LEMMA CellsBelow ==
  ASSUME NEW n \in Nat, n < B * B
  PROVE  CellsOf(n) \in Cell \X Cell /\ Double(CellsOf(n)[1], CellsOf(n)[2]) = n
<1>. DEFINE k == n \div B
            r == n % B
<1>1. B \in Nat \ {0}
  BY HalfFacts
<1>2. k \in Nat /\ r \in Nat /\ r < B /\ n = k * B + r
  BY <1>1, DivMod
<1>. HIDE DEF k, r
<1>3. k < B
  <2>1. k >= B => k * B >= B * B
    BY <1>1, <1>2
  <2>2. k * B \in Nat /\ B * B \in Nat
    BY <1>1, <1>2
  <2>. QED BY <1>1, <1>2, <2>1, <2>2
<1>4. CellsOf(n) = <<r, k>> /\ r \in Cell /\ k \in Cell
  BY <1>1, <1>2, <1>3 DEF CellsOf, Cell, r, k
<1>. QED BY <1>2, <1>4 DEF Double

\* One turn of (dnum)'s loop.
LEMMA DoubleTurn ==
  ASSUME NEW l \in Cell, NEW h \in Cell, NEW b \in Cell \ {0}, NEW d \in 0..b-1,
         (h * B + l) * b + d < B * B
  PROVE  MPlus(UDStar(<<l, h>>, b), d) = CellsOf((h * B + l) * b + d)
<1>. DEFINE x == (h * B + l) * b + d
            p == l * b
            c == p \div B
            r == p % B
            e == (r + d) \div B
            f == (r + d) % B
<1>1. /\ B \in Nat \ {0} /\ l \in Nat /\ h \in Nat /\ b \in Nat /\ d \in Nat /\ d < B
      /\ Cell = 0..B-1
  BY HalfFacts
<1>2. p \in Nat
  BY <1>1
<1>3. c \in Nat /\ r \in Nat /\ r < B /\ p = c * B + r
  BY <1>1, <1>2, DivMod
<1>4. r + d \in Nat
  BY <1>1, <1>3
<1>5. e \in Nat /\ f \in Nat /\ f < B /\ r + d = e * B + f
  BY <1>1, <1>4, DivMod
<1>. HIDE DEF p, c, r, e, f
<1>. DEFINE g == c + h * b
            k == g + e
<1>6. h * b \in Nat /\ g \in Nat /\ k \in Nat
  BY <1>1, <1>3, <1>5
<1>7. x = k * B + f
  <2>1. (h * B + l) * b = (h * b) * B + l * b
    BY <1>1
  <2>2. k * B = c * B + (h * b) * B + e * B
    <3>. HIDE DEF x
    <3>. QED BY <1>1, <1>3, <1>5, <1>6
  <2>3. c * B \in Nat /\ (h * b) * B \in Nat /\ e * B \in Nat /\ l * b = p
    BY <1>1, <1>3, <1>5, <1>6 DEF p
  <2>. HIDE DEF k
  <2>4. \A i, j, m \in Nat :
          i + r = p /\ r + d = m + f => (j + p) + d = (i + j + m) + f
    BY <1>1, <1>2, <1>3, <1>5
  <2>5. ((h * b) * B + p) + d = (c * B + (h * b) * B + e * B) + f
    BY <1>3, <1>5, <2>3, <2>4
  <2>. QED BY <2>1, <2>2, <2>3, <2>5
<1>8. x \in Nat
  BY <1>1, <1>5, <1>6, <1>7
<1>9. k < B /\ g < B
  <2>. HIDE DEF x
  <2>1. k >= B => k * B >= B * B
    BY <1>1, <1>6
  <2>2. k * B \in Nat /\ B * B \in Nat /\ x < B * B
    BY <1>1, <1>6 DEF x
  <2>3. k < B
    <3>. HIDE DEF k
    <3>. QED BY <1>1, <1>5, <1>6, <1>7, <2>1, <2>2
  <2>. QED BY <1>1, <1>5, <1>6, <2>3
<1>10. CellsOf(x) = <<f, k>>
  <2>1. f \in Cell
    BY <1>1, <1>5
  <2>. HIDE DEF x, k
  <2>. QED BY <1>6, <1>7, <1>8, <2>1, CellsAre
<1>11. UDStar(<<l, h>>, b) = <<r, g>>
  <2>1. g % B = g
    <3>1. \A n \in Nat : n < B => n % B = n
      BY <1>1
    <3>. HIDE DEF g
    <3>. QED BY <1>6, <1>9, <3>1
  <2>. QED BY <2>1 DEF UDStar, p, c, r
<1>12. MPlus(<<r, g>>, d) = <<f, k>>
  <2>1. k % B = k
    <3>1. \A n \in Nat : n < B => n % B = n
      BY <1>1
    <3>. HIDE DEF k
    <3>. QED BY <1>6, <1>9, <3>1
  <2>. QED BY <2>1 DEF MPlus, e, f
<1>. QED BY <1>10, <1>11, <1>12

LEMMA DoubleRight ==
  ASSUME NEW s \in Seq(Int), NEW b \in Cell \ {0}, Digits(s, b),
         NEW v, Stages(0, s, b, v), v[Len(s)] < B * B
  PROVE  DoubleOf(s, b) = CellsOf(v[Len(s)])
<1>. DEFINE n == Len(s)
            Turned(d) == [i \in 0..n |->
                            IF i = 0 THEN <<0, 0>> ELSE MPlus(UDStar(d[i - 1], b), s[i])]
            w == [i \in 0..n |-> CellsOf(v[i])]
            c == CHOOSE d : d = Turned(d)
<1>1. n \in Nat /\ b \in Nat \ {0} /\ B \in Nat \ {0} /\ v[0] = 0
  BY HalfFacts DEF Stages
<1>2. ASSUME NEW i \in 0..n
      PROVE  v[i] \in Nat /\ v[i] < B * B
  <2>1. \A j \in 0..n : v[j] \in Nat /\ \A k \in 0..j : v[k] <= v[j]
    BY <1>1, StagesGrow
  <2>2. n \in 0..n /\ i \in 0..n
    BY <1>1
  <2>3. v[i] \in Nat /\ v[n] \in Nat /\ v[i] <= v[n] /\ v[n] < B * B /\ B * B \in Nat
    BY <1>1, <2>1, <2>2
  <2>. QED BY <2>3
<1>3. ASSUME NEW i \in 1..n
      PROVE  MPlus(UDStar(CellsOf(v[i - 1]), b), s[i]) = CellsOf(v[i])
  <2>1. i - 1 \in 0..n /\ i \in 0..n
    BY <1>1
  <2>. DEFINE l == CellsOf(v[i - 1])[1]
              h == CellsOf(v[i - 1])[2]
  <2>2. l \in Cell /\ h \in Cell /\ CellsOf(v[i - 1]) = <<l, h>> /\ v[i - 1] = h * B + l
    BY <1>2, <2>1, CellsBelow DEF Double
  <2>3. s[i] \in 0..b-1
    BY <1>1 DEF Digits
  <2>4. v[i] = v[i - 1] * b + s[i]
    BY DEF Stages
  <2>. HIDE DEF l, h
  <2>5. v[i] = (h * B + l) * b + s[i] /\ v[i] < B * B
    BY <1>2, <2>1, <2>2, <2>4
  <2>. QED BY <2>2, <2>3, <2>5, DoubleTurn
<1>4. CellsOf(0) = <<0, 0>>
  <2>1. 0 \in Cell /\ 0 \in Nat /\ 0 = 0 * B + 0
    BY <1>1, HalfFacts
  <2>. QED BY <2>1, CellsAre
<1>5. w = Turned(w)
  <2>1. ASSUME NEW i \in 0..n
        PROVE  w[i] = IF i = 0 THEN <<0, 0>> ELSE MPlus(UDStar(w[i - 1], b), s[i])
    <3>1. CASE i = 0
      BY <1>1, <1>4, <3>1
    <3>2. CASE i # 0
      <4>1. i \in 1..n /\ i - 1 \in 0..n
        BY <1>1, <3>2
      <4>2. w[i] = CellsOf(v[i]) /\ w[i - 1] = CellsOf(v[i - 1])
        BY <4>1
      <4>. QED BY <1>3, <3>2, <4>1, <4>2
    <3>. QED BY <3>1, <3>2
  <2>2. w = [i \in 0..n |-> w[i]]
    OBVIOUS
  <2>. HIDE DEF w
  <2>. QED BY <2>1, <2>2
<1>6. c = Turned(c)
  <2>. HIDE DEF w
  <2>. QED BY <1>5
<1>. HIDE DEF c
<1>. DEFINE S == {i \in Nat : c[i] = w[i]}
<1>7. 0 \in S /\ S \in SUBSET Nat
  <2>1. c[0] = <<0, 0>> /\ w[0] = <<0, 0>>
    <3>1. 0 \in 0..n
      BY <1>1
    <3>2. c[0] = Turned(c)[0] /\ w[0] = Turned(w)[0]
      <4>. HIDE DEF Turned, w
      <4>. QED BY <1>5, <1>6
    <3>. QED BY <3>1, <3>2
  <2>. QED BY <2>1
<1>8. ASSUME NEW k \in S, k < n
      PROVE  k + 1 \in S
  <2>1. k + 1 \in 0..n /\ k + 1 # 0 /\ (k + 1) - 1 = k /\ c[k] = w[k]
    BY <1>1, <1>8
  <2>2. c[k + 1] = Turned(c)[k + 1] /\ w[k + 1] = Turned(w)[k + 1]
    <3>. HIDE DEF Turned, w
    <3>. QED BY <1>5, <1>6
  <2>3. Turned(c)[k + 1] = MPlus(UDStar(c[k], b), s[k + 1])
        /\ Turned(w)[k + 1] = MPlus(UDStar(w[k], b), s[k + 1])
    <3>. HIDE DEF w
    <3>. QED BY <2>1
  <2>. HIDE DEF w, Turned
  <2>. QED BY <2>1, <2>2, <2>3
<1>9. 0..n \subseteq S
  <2>. HIDE DEF S, n
  <2>. QED BY <1>1, <1>7, <1>8, Induction
<1>10. c[n] = CellsOf(v[n])
  BY <1>1, <1>9
<1>. QED BY <1>10 DEF DoubleOf, c

---------------------------------------------------------------------------
(* Where the digits of a numeral begin.                                    *)

LEMMA SubSeqFacts ==
  ASSUME NEW s \in Seq(Int), NEW m \in 1..Len(s)+1, NEW n \in m-1..Len(s)
  PROVE  /\ SubSeq(s, m, n) \in Seq(Int)
         /\ Len(SubSeq(s, m, n)) = n - m + 1
         /\ \A i \in 1..n-m+1 : SubSeq(s, m, n)[i] = s[m + i - 1]
OBVIOUS

LEMMA Pair ==
  ASSUME NEW s \in Seq(Int)
  PROVE  \A a, b : s = <<a, b>> <=> Len(s) = 2 /\ s[1] = a /\ s[2] = b
OBVIOUS

LEMMA Triple ==
  ASSUME NEW s \in Seq(Int)
  PROVE  \A a, b, c : s = <<a, b, c>> <=> Len(s) = 3 /\ s[1] = a /\ s[2] = b /\ s[3] = c
OBVIOUS

\* The first k characters are prefixes.
Leads(s, k) ==
  \/ k = 0
  \/ k = 1 /\ s[1] \in {Hash, Dollar, Percent}
  \/ k = 2 /\ s[1] = Hash /\ s[2] \in {Dollar, Percent}
  \/ k = 2 /\ s[1] = Dollar /\ s[2] = Percent
  \/ k = 3 /\ s[1] = Hash /\ s[2] = Dollar /\ s[3] = Percent

LEMMA PrefixIs ==
  ASSUME NEW s \in Seq(Int), NEW k \in 0..Len(s)
  PROVE  SubSeq(s, 1, k) \in Prefixes <=> Leads(s, k)
<1>. DEFINE t == SubSeq(s, 1, k)
<1>1. t \in Seq(Int) /\ Len(t) = k /\ \A i \in 1..k : t[i] = s[i]
  BY SubSeqFacts
<1>. HIDE DEF t
<1>2. t \in Prefixes <=> Leads(t, k)
  <2>0. t \in Seq(Int) /\ Len(t) = k
    BY <1>1
  <2>1. t = <<>> <=> k = 0
    BY <2>0
  <2>2. ASSUME NEW a PROVE t = <<a>> <=> k = 1 /\ t[1] = a
    BY <1>1
  <2>3. \A a, b : t = <<a, b>> <=> Len(t) = 2 /\ t[1] = a /\ t[2] = b
    BY <2>0, Pair, Zenon
  <2>4. \A a, b, c : t = <<a, b, c>> <=> Len(t) = 3 /\ t[1] = a /\ t[2] = b /\ t[3] = c
    BY <2>0, Triple, Zenon
  <2>5. t \in Prefixes <=>
          \/ t = <<>> \/ t = <<Hash>> \/ t = <<Dollar>> \/ t = <<Percent>>
          \/ t = <<Hash, Dollar>> \/ t = <<Hash, Percent>> \/ t = <<Dollar, Percent>>
          \/ t = <<Hash, Dollar, Percent>>
    BY DEF Prefixes
  <2>6. \/ t = <<Hash, Dollar>> \/ t = <<Hash, Percent>> \/ t = <<Dollar, Percent>>
        <=> Len(t) = 2 /\ \/ t[1] = Hash /\ t[2] \in {Dollar, Percent}
                          \/ t[1] = Dollar /\ t[2] = Percent
    BY <2>3, Zenon
  <2>7. t = <<Hash, Dollar, Percent>>
        <=> Len(t) = 3 /\ t[1] = Hash /\ t[2] = Dollar /\ t[3] = Percent
    BY <2>4, Zenon
  <2>8. t = <<Hash>> \/ t = <<Dollar>> \/ t = <<Percent>>
        <=> k = 1 /\ t[1] \in {Hash, Dollar, Percent}
    BY <2>2, Zenon
  <2>. HIDE DEF Hash, Dollar, Percent
  <2>. QED BY <2>0, <2>1, <2>5, <2>6, <2>7, <2>8 DEF Leads
<1>3. Leads(t, k) <=> Leads(s, k)
  BY <1>1 DEF Leads
<1>. QED BY <1>2, <1>3 DEF t

LEMMA PrefixFound ==
  ASSUME NEW s \in Seq(Int)
  PROVE  AfterPrefix(s) \in 1..Len(s)+1 /\ Leads(s, AfterPrefix(s) - 1)
BY DEF AfterPrefix, Char, Leads, Hash, Dollar, Percent, Blank

LEMMA PrefixOnly ==
  ASSUME NEW s \in Seq(Int), NEW k \in 0..Len(s)-1, Leads(s, k), s[k + 1] >= Minus
  PROVE  AfterPrefix(s) = k + 1
<1>. USE DEF Hash, Dollar, Percent, Blank, Minus
<1>1. Len(s) \in Nat /\ \A i \in 1..Len(s) : Char(s, i) = s[i]
  BY DEF Char
<1>2. CASE k = 0
  BY <1>1, <1>2 DEF AfterPrefix
<1>3. CASE k = 1
  BY <1>1, <1>3 DEF AfterPrefix, Leads
<1>4. CASE k = 2
  BY <1>1, <1>4 DEF AfterPrefix, Leads
<1>5. CASE k = 3
  BY <1>1, <1>5 DEF AfterPrefix, Leads
<1>. QED BY <1>2, <1>3, <1>4, <1>5 DEF Leads

HasSign(s) == Char(s, AfterPrefix(s)) = Minus

Start(s) == AfterPrefix(s) + IF HasSign(s) THEN 1 ELSE 0

DigitsOf(s) == SubSeq(s, Start(s), Len(s))

Radix(s, b) == IF AfterPrefix(s) = 1 THEN b ELSE PrefixBase[s[AfterPrefix(s) - 1]]

\* A numeral as READ_NUMBER takes it apart.
Numeral(s, b) ==
  /\ AfterPrefix(s) <= Len(s)
  /\ Digits(DigitsOf(s), Radix(s, b))
  /\ DigitsOf(s) # <<>> \/ HasSign(s)
  /\ ValueOf(DigitsOf(s), Radix(s, b)) < B

NumeralCell(s, b) ==
  LET n == ValueOf(DigitsOf(s), Radix(s, b)) IN IF HasSign(s) THEN Negate(n) ELSE n

LEMMA RadixIs ==
  ASSUME NEW s \in Seq(Int), NEW b \in Cell \ {0, 1}
  PROVE  Radix(s, b) \in Cell \ {0, 1} /\ Radix(s, b) \in Nat /\ Radix(s, b) > 1
<1>1. Radix(s, b) \in Cell \ {0, 1}
  BY PrefixFound, NumeralsAssumption DEF Radix, Leads
<1>. QED BY <1>1, HalfFacts

LEMMA TakenApart ==
  ASSUME NEW s \in Seq(Int), NEW b \in Cell \ {0, 1}, NEW cell
  PROVE  IsNumeral(s, b, cell) <=> Numeral(s, b) /\ cell = NumeralCell(s, b)
<1>. DEFINE p == AfterPrefix(s)
            n == Len(s)
<1>1. p \in 1..n+1 /\ n \in Nat /\ Leads(s, p - 1) /\ \A i \in 1..n : Char(s, i) = s[i]
  BY PrefixFound DEF Char
<1>2. ASSUME Numeral(s, b), cell = NumeralCell(s, b)
      PROVE  IsNumeral(s, b, cell)
  <2>. DEFINE sign == IF HasSign(s) THEN 1 ELSE 0
  <2>1. p \in 1..n /\ sign \in {0, 1}
    BY <1>1, <1>2 DEF Numeral
  <2>2. SubSeq(s, 1, p - 1) \in Prefixes
    BY <1>1, <2>1, PrefixIs
  <2>3. sign = 1 <=> s[p] = Minus
    BY <1>1, <2>1 DEF HasSign
  <2>4. DigitsOf(s) = SubSeq(s, p + sign, Len(s))
        /\ Radix(s, b) = IF p = 1 THEN b ELSE PrefixBase[s[p - 1]]
    BY DEF DigitsOf, Start, Radix
  <2>5. Digits(DigitsOf(s), Radix(s, b)) /\ (DigitsOf(s) = <<>> => sign = 1)
        /\ ValueOf(DigitsOf(s), Radix(s, b)) < B
        /\ cell = IF sign = 1 THEN Negate(ValueOf(DigitsOf(s), Radix(s, b)))
                              ELSE ValueOf(DigitsOf(s), Radix(s, b))
    BY <1>2 DEF Numeral, NumeralCell
  <2>. HIDE DEF sign, p
  <2>. QED BY <2>1, <2>2, <2>3, <2>4, <2>5 DEF IsNumeral
<1>3. ASSUME NEW i \in 1..n, NEW sign \in {0, 1},
             SubSeq(s, 1, i - 1) \in Prefixes, sign = 1 => s[i] = Minus,
             NEW radix \in Nat, radix = IF i = 1 THEN b ELSE PrefixBase[s[i - 1]],
             Digits(SubSeq(s, i + sign, n), radix),
             SubSeq(s, i + sign, n) = <<>> => sign = 1
      PROVE  /\ i = p /\ (sign = 1 <=> HasSign(s))
             /\ SubSeq(s, i + sign, n) = DigitsOf(s) /\ radix = Radix(s, b)
  <2>. DEFINE t == SubSeq(s, i + sign, n)
  <2>1. sign = 0 => s[i] >= 0 /\ s[i] # Minus
    <3>. SUFFICES ASSUME sign = 0 PROVE s[i] >= 0 /\ s[i] # Minus
      OBVIOUS
    <3>1. t \in Seq(Int) /\ Len(t) = n - i + 1 /\ t[1] = s[i] /\ Len(t) > 0
      BY <1>1, SubSeqFacts
    <3>2. t[1] \in 0..radix-1
      <4>1. Digits(t, radix)
        BY <1>3
      <4>. HIDE DEF t
      <4>2. 1 \in DOMAIN t
        BY <3>1
      <4>. QED BY <4>1, <4>2 DEF Digits
    <3>. QED BY <3>1, <3>2 DEF Minus
  <2>2. s[i] >= Minus
    BY <1>3, <2>1 DEF Minus
  <2>3. Leads(s, i - 1)
    BY <1>1, <1>3, PrefixIs
  <2>4. i = p
    <3>1. i - 1 \in 0..n-1 /\ (i - 1) + 1 = i
      BY <1>1
    <3>. QED BY <2>2, <2>3, <3>1, PrefixOnly
  <2>5. sign = 1 <=> HasSign(s)
    BY <1>1, <1>3, <2>1, <2>4 DEF HasSign
  <2>6. DigitsOf(s) = t
    <3>1. Start(s) = i + sign
      BY <2>4, <2>5 DEF Start
    <3>. QED BY <3>1 DEF DigitsOf
  <2>. QED BY <1>3, <2>4, <2>5, <2>6 DEF Radix
<1>4. ASSUME IsNumeral(s, b, cell)
      PROVE  Numeral(s, b) /\ cell = NumeralCell(s, b)
  <2>1. PICK i \in 1..n, sign \in {0, 1} :
          LET radix == IF i = 1 THEN b ELSE PrefixBase[s[i - 1]]
              digits == SubSeq(s, i + sign, n)
              v == ValueOf(digits, radix)
          IN  /\ SubSeq(s, 1, i - 1) \in Prefixes
              /\ sign = 1 => s[i] = Minus
              /\ Digits(digits, radix)
              /\ digits = <<>> => sign = 1
              /\ v < B
              /\ cell = IF sign = 1 THEN Negate(v) ELSE v
    BY <1>4, Zenon DEF IsNumeral
  <2>. DEFINE radix == IF i = 1 THEN b ELSE PrefixBase[s[i - 1]]
              digits == SubSeq(s, i + sign, n)
  <2>2. radix \in Nat
    <3>1. i = 1 \/ s[i - 1] \in {Hash, Dollar, Percent}
      <4>1. Leads(s, i - 1)
        BY <1>1, <2>1, PrefixIs
      <4>. QED BY <4>1 DEF Leads
    <3>. QED BY <3>1, HalfFacts, NumeralsAssumption
  <2>3. /\ SubSeq(s, 1, i - 1) \in Prefixes
        /\ sign = 1 => s[i] = Minus
        /\ Digits(digits, radix)
        /\ digits = <<>> => sign = 1
        /\ ValueOf(digits, radix) < B
        /\ cell = IF sign = 1 THEN Negate(ValueOf(digits, radix)) ELSE ValueOf(digits, radix)
    BY <2>1, Zenon
  <2>4. radix = IF i = 1 THEN b ELSE PrefixBase[s[i - 1]]
    OBVIOUS
  <2>. HIDE DEF radix
  <2>5. /\ i = p /\ (sign = 1 <=> HasSign(s))
        /\ digits = DigitsOf(s) /\ radix = Radix(s, b)
    BY <1>3, <2>2, <2>3, <2>4
  <2>. HIDE DEF digits
  <2>6. AfterPrefix(s) <= n
    BY <1>1, <2>5
  <2>. QED BY <2>3, <2>5, <2>6 DEF Numeral, NumeralCell
<1>. QED BY <1>2, <1>4

---------------------------------------------------------------------------
(* What (dnum) leaves is a double, or nothing.                             *)

LEMMA DoublePair ==
  ASSUME NEW s \in Seq(Int), NEW b \in Cell \ {0}, Digits(s, b)
  PROVE  DoubleOf(s, b) \in Cell \X Cell
<1>. DEFINE n == Len(s)
            T == Cell \X Cell
            F == [p \in (1..n) \X T |-> MPlus(UDStar(p[2], b), s[p[1]])]
            Turned(d) == [i \in 0..n |->
                            IF i = 0 THEN <<0, 0>> ELSE MPlus(UDStar(d[i - 1], b), s[i])]
            c == CHOOSE d : d = Turned(d)
<1>1. n \in Nat /\ b \in Nat /\ B \in Nat \ {0} /\ Cell = 0..B-1
  BY HalfFacts
<1>2. ASSUME NEW x \in Nat
      PROVE  x % B \in Cell /\ x \div B \in Nat
  <2>. DEFINE r == x % B
              k == x \div B
  <2>1. r \in Nat /\ r < B /\ k \in Nat
    BY <1>1, <1>2, DivMod
  <2>. HIDE DEF r, k
  <2>2. r \in Cell /\ k \in Nat
    BY <1>1, <2>1
  <2>. QED BY <2>2 DEF r, k
<1>3. ASSUME NEW i \in 1..n, NEW d \in T
      PROVE  MPlus(UDStar(d, b), s[i]) \in T
  <2>1. d[1] \in Nat /\ d[2] \in Nat /\ s[i] \in Nat
    <3>1. s[i] \in 0..b-1
      BY <1>1 DEF Digits
    <3>. QED BY <1>1, <3>1
  <2>. DEFINE x == d[1] * b
              y == x \div B + d[2] * b
              e == <<x % B, y % B>>
  <2>2. x \in Nat /\ d[2] * b \in Nat
    BY <1>1, <2>1
  <2>. HIDE DEF x
  <2>3. x % B \in Cell /\ x \div B \in Nat
    BY <1>2, <2>2
  <2>4. y \in Nat
    BY <2>2, <2>3
  <2>. HIDE DEF y
  <2>5. y % B \in Cell
    BY <1>2, <2>4
  <2>6. e[1] \in Cell /\ e[2] \in Cell /\ e = UDStar(d, b)
    BY <2>3, <2>5 DEF UDStar, x, y
  <2>. HIDE DEF e
  <2>. DEFINE u == e[1] + s[i]
              t == e[2] + u \div B
  <2>7. u \in Nat
    BY <1>1, <2>1, <2>6
  <2>. HIDE DEF u
  <2>8. u % B \in Cell /\ u \div B \in Nat
    BY <1>2, <2>7
  <2>9. t \in Nat
    BY <1>1, <2>6, <2>8
  <2>. HIDE DEF t
  <2>10. t % B \in Cell
    BY <1>2, <2>9
  <2>11. MPlus(e, s[i]) = <<u % B, t % B>>
    BY DEF MPlus, u, t
  <2>. QED BY <2>6, <2>8, <2>10, <2>11
<1>4. F \in [(1..n) \X T -> T]
  BY <1>3
<1>5. <<0, 0>> \in T
  BY <1>1
<1>6. \A i \in 1..n, d \in T : F[<<i, d>>] = MPlus(UDStar(d, b), s[i])
  OBVIOUS
<1>. HIDE DEF F, T
<1>7. PICK w \in [0..n -> T] : w[0] = <<0, 0>> /\ \A i \in 1..n : w[i] = F[<<i, w[i - 1]>>]
  <2>1. Courses(T, <<0, 0>>, n, F) # {}
    BY <1>1, <1>4, <1>5, Recursion
  <2>. QED BY <2>1 DEF Courses
<1>8. ASSUME NEW i \in 0..n
      PROVE  w[i] = IF i = 0 THEN <<0, 0>> ELSE MPlus(UDStar(w[i - 1], b), s[i])
  <2>1. CASE i = 0
    BY <1>7, <2>1
  <2>2. CASE i # 0
    <3>1. i \in 1..n /\ w[i - 1] \in T
      BY <1>1, <1>7, <2>2
    <3>. QED BY <1>6, <1>7, <2>2, <3>1
  <2>. QED BY <2>1, <2>2
<1>9. w = Turned(w)
  BY <1>7, <1>8
<1>10. c = Turned(c)
  BY <1>9
<1>. HIDE DEF c
<1>. DEFINE S == {i \in Nat : c[i] = w[i]}
<1>11. c[0] = <<0, 0>> /\ \A i \in 1..n : c[i] = MPlus(UDStar(c[i - 1], b), s[i])
  <2>1. c[0] = Turned(c)[0] /\ \A i \in 1..n : c[i] = Turned(c)[i]
    <3>. HIDE DEF Turned
    <3>. QED BY <1>10
  <2>2. Turned(c)[0] = <<0, 0>>
        /\ \A i \in 1..n : Turned(c)[i] = MPlus(UDStar(c[i - 1], b), s[i])
    BY <1>1
  <2>. HIDE DEF Turned
  <2>. QED BY <2>1, <2>2
<1>12. 0 \in S /\ S \in SUBSET Nat
  BY <1>7, <1>11
<1>13. ASSUME NEW k \in S, k < n
       PROVE  k + 1 \in S
  <2>1. k + 1 \in 1..n /\ k + 1 \in 0..n /\ k + 1 # 0 /\ (k + 1) - 1 = k /\ c[k] = w[k]
    BY <1>1, <1>13
  <2>2. c[k + 1] = MPlus(UDStar(c[k], b), s[k + 1])
    BY <1>11, <2>1
  <2>3. w[k + 1] = MPlus(UDStar(w[k], b), s[k + 1])
    BY <1>8, <2>1
  <2>. QED BY <2>1, <2>2, <2>3
<1>14. 0..n \subseteq S
  <2>. HIDE DEF S, n
  <2>. QED BY <1>1, <1>12, <1>13, Induction
<1>15. c[n] \in T
  BY <1>1, <1>7, <1>14
<1>. QED BY <1>15 DEF DoubleOf, c, T

LEMMA DNumShape ==
  ASSUME NEW s \in Seq(Int), NEW b \in Cell \ {0}
  PROVE  DNum(s, b) = <<>> \/ DNum(s, b) \in Cell \X Cell
<1>. DEFINE m == IF Char(s, 1) = Minus THEN 2 ELSE 1
            body == SubSeq(s, m, Len(s) - 1)
            d == DoubleOf(body, b)
<1>. SUFFICES ASSUME Char(s, Len(s)) = Dot, body # <<>>, Digits(body, b)
              PROVE  DNum(s, b) \in Cell \X Cell
  BY DEF DNum
<1>1. Len(s) \in Nat /\ Len(s) # 0
  BY DEF Char, Dot, Blank
<1>2. m \in 1..Len(s)+1 /\ Len(s) - 1 \in m-1..Len(s)
  BY <1>1 DEF Char, Minus, Dot
<1>3. body \in Seq(Int)
  BY <1>2, SubSeqFacts
<1>. HIDE DEF m, body
<1>4. d \in Cell \X Cell
  BY <1>3, DoublePair
<1>5. <<Negate(d[1]), DNegateHigh(d[1], d[2])>> \in Cell \X Cell
  BY <1>4, Dressed
<1>. HIDE DEF d
<1>. QED BY <1>4, <1>5 DEF DNum, d, body, m

---------------------------------------------------------------------------
(* What is printed is read as what it was printed from.                    *)

LEMMA NegatedTwice ==
  /\ \A x \in Cell : Negate(Negate(x)) = x
  /\ \A l, h \in Cell : DNegateHigh(Negate(l), DNegateHigh(l, h)) = h
BY HalfFacts DEF Negate, DNegateHigh

\* A number to print: the word, and the cells it takes.
IsNumber(n) ==
  /\ n = <<n[1], n[2], n[3]>>
  /\ n[1] \in {"u.", ".", "d."} /\ n[2] \in Cell /\ n[3] \in Cell
  /\ n[1] # "d." => n[3] = 0

Signs(n) == \/ n[1] = "." /\ Negative(n[2])
            \/ n[1] = "d." /\ Negative(n[3])

\* The double that is left to convert.
Unsigned(n) == CASE n[1] = "u." -> <<n[2], 0>> [] n[1] = "." -> <<Abs(n[2]), 0>>
                 [] n[1] = "d." -> <<DAbsLow(n[2], n[3]), DAbsHigh(n[2], n[3])>>

Magnitude(n) == Double(Unsigned(n)[1], Unsigned(n)[2])

LEMMA UnsignedCells ==
  ASSUME NEW n, IsNumber(n)
  PROVE  /\ Unsigned(n) \in Cell \X Cell
         /\ n[1] # "d." => Unsigned(n)[2] = 0
BY Dressed DEF IsNumber, Unsigned

\* The cells it is read as.
LEMMA Resigned ==
  ASSUME NEW n, IsNumber(n), NEW l, NEW h, Unsigned(n) = <<l, h>>
  PROVE  /\ n[1] # "d." => n[2] = IF Signs(n) THEN Negate(l) ELSE l
         /\ n[1] = "d." => n[2] = (IF Signs(n) THEN Negate(l) ELSE l)
                           /\ n[3] = (IF Signs(n) THEN DNegateHigh(l, h) ELSE h)
<1>1. CASE n[1] = "u."
  BY <1>1 DEF Unsigned, Signs
<1>2. CASE n[1] = "."
  BY <1>2, NegatedTwice DEF Unsigned, Signs, IsNumber, Abs
<1>3. CASE n[1] = "d."
  BY <1>3, NegatedTwice DEF Unsigned, Signs, IsNumber, DAbsLow, DAbsHigh
<1>. QED BY <1>1, <1>2, <1>3 DEF IsNumber

SignText(n) == IF Signs(n) THEN <<Minus>> ELSE <<>>

\* Text t is n printed in base b: a sign or not, and the digits.
PrintedText(n, b, t) ==
  \E s \in Seq(Int) : /\ s # <<>> /\ Digits(s, b) /\ ValueOf(s, b) = Magnitude(n)
                      /\ t = SignText(n) \o s

\* It is that, typed in: a double with a dot.
TypedText(n, b, t) ==
  \E s \in Seq(Int) : /\ s # <<>> /\ Digits(s, b) /\ ValueOf(s, b) = Magnitude(n)
                      /\ t = SignText(n) \o (IF n[1] = "d." THEN Append(s, Dot) ELSE s)

LEMMA TypedIn ==
  ASSUME NEW n, NEW b \in Nat, NEW t, PrintedText(n, b, t)
  PROVE  TypedText(n, b, IF n[1] = "d." THEN Append(t, Dot) ELSE t)
<1>1. PICK s \in Seq(Int) : /\ s # <<>> /\ Digits(s, b) /\ ValueOf(s, b) = Magnitude(n)
                            /\ t = SignText(n) \o s
  BY DEF PrintedText
<1>2. Append(t, Dot) = SignText(n) \o Append(s, Dot)
  BY <1>1 DEF SignText, Minus, Dot
<1>. QED BY <1>1, <1>2 DEF TypedText

\* Its parts.
LEMMA TypedParts ==
  ASSUME NEW n, NEW s \in Seq(Int), s # <<>>, NEW b \in Nat, Digits(s, b), NEW u \in Seq(Int),
         u = s \/ u = Append(s, Dot), NEW t, t = SignText(n) \o u
  PROVE  /\ t \in Seq(Int) /\ t # <<>> /\ Char(t, 1) # Quote
         /\ AfterPrefix(t) = 1 /\ (HasSign(t) <=> Signs(n)) /\ (Char(t, 1) = Minus <=> Signs(n))
         /\ DigitsOf(t) = u
         /\ Len(t) = Start(t) - 1 + Len(u) /\ Len(u) > 0
         /\ Char(t, Len(t)) = u[Len(u)]
<1>1. Len(s) \in Nat /\ Len(s) > 0 /\ s[1] \in Nat
  BY DEF Digits
<1>2. Len(u) \in Nat /\ Len(u) > 0 /\ u[1] = s[1]
  <2>1. CASE u = s
    BY <1>1, <2>1
  <2>2. CASE u = Append(s, Dot)
    BY <1>1, <2>2
  <2>. QED BY <2>1, <2>2
<1>. DEFINE z == IF Signs(n) THEN 1 ELSE 0
<1>3. /\ t \in Seq(Int) /\ Len(t) = z + Len(u) /\ \A i \in 1..Len(u) : t[z + i] = u[i]
      /\ (Signs(n) => t[1] = Minus)
  BY DEF SignText, Minus
<1>. HIDE DEF z
<1>4. t[1] >= Minus /\ (t[1] = Minus <=> Signs(n)) /\ Len(t) > 0 /\ z \in {0, 1}
  <2>1. CASE Signs(n)
    <3>1. z = 1 BY <2>1 DEF z
    <3>. QED BY <1>2, <1>3, <2>1, <3>1 DEF Minus
  <2>2. CASE ~Signs(n)
    <3>1. z = 0 BY <2>2 DEF z
    <3>2. 1 \in 1..Len(u) /\ z + 1 = 1
      BY <1>2, <3>1
    <3>3. t[1] = u[1]
      BY <1>3, <3>2, Zenon
    <3>. QED BY <1>1, <1>2, <1>3, <2>2, <3>1, <3>3 DEF Minus
  <2>. QED BY <2>1, <2>2
<1>5. Char(t, 1) = t[1] /\ Char(t, Len(t)) = u[Len(u)]
  <2>1. t[z + Len(u)] = u[Len(u)]
    <3>1. Len(u) \in 1..Len(u)
      BY <1>2
    <3>. QED BY <1>3, <3>1, Zenon
  <2>2. 1 \in 1..Len(t) /\ Len(t) \in 1..Len(t) /\ t[Len(t)] = u[Len(u)]
    BY <1>2, <1>3, <1>4, <2>1
  <2>. QED BY <2>2 DEF Char
<1>6. AfterPrefix(t) = 1
  <2>1. 0 \in 0..Len(t)-1 /\ Leads(t, 0) /\ t[0 + 1] >= Minus
    BY <1>3, <1>4 DEF Leads
  <2>2. AfterPrefix(t) = 0 + 1
    BY <1>3, <2>1, PrefixOnly
  <2>. QED BY <2>2
<1>7. HasSign(t) <=> Signs(n)
  BY <1>4, <1>5, <1>6 DEF HasSign
<1>8. Start(t) = z + 1
  BY <1>6, <1>7 DEF Start, z
<1>9. DigitsOf(t) = u
  <2>. DEFINE m == z + 1
              k == Len(t)
              w == SubSeq(t, m, k)
  <2>1. m \in 1..k+1 /\ k \in m-1..k /\ k - m + 1 = Len(u)
    BY <1>2, <1>3, <1>4
  <2>2. w \in Seq(Int) /\ Len(w) = k - m + 1 /\ \A i \in 1..k-m+1 : w[i] = t[m + i - 1]
    <3>. HIDE DEF m, k
    <3>. QED BY <1>3, <2>1, SubSeqFacts DEF k
  <2>. HIDE DEF w
  <2>3. ASSUME NEW i \in 1..Len(u)
        PROVE  w[i] = u[i]
    <3>1. w[i] = t[m + i - 1] /\ m + i - 1 = z + i
      <4>1. i \in 1..k-m+1 /\ m + i - 1 = z + i
        BY <1>4, <2>1
      <4>. HIDE DEF m, k
      <4>. QED BY <2>2, <4>1
    <3>. QED BY <1>3, <3>1
  <2>4. Len(w) = Len(u)
    BY <2>1, <2>2
  <2>5. w = u
    BY <2>2, <2>3, <2>4
  <2>. QED BY <1>8, <2>5 DEF DigitsOf, w
<1>10. t # <<>> /\ Char(t, 1) # Quote
  <2>1. t[1] # Quote
    <3>1. t[1] \in Int /\ t[1] >= Minus
      BY <1>3, <1>4
    <3>. QED BY <3>1 DEF Quote, Minus
  <2>2. t # <<>>
    BY <1>4
  <2>. QED BY <1>5, <2>1, <2>2, Zenon
<1>11. Len(t) = Start(t) - 1 + Len(u)
  BY <1>2, <1>3, <1>4, <1>8
<1>12. Char(t, 1) = Minus <=> Signs(n)
  BY <1>4, <1>5, Zenon
<1>. QED BY <1>2, <1>3, <1>5, <1>6, <1>7, <1>9, <1>10, <1>11, <1>12, Zenon


LEMMA TypedSingle ==
  ASSUME NEW n, IsNumber(n), n[1] # "d.", NEW b \in Cell \ {0, 1}, NEW t, TypedText(n, b, t)
  PROVE  Numeral(t, b) /\ NumeralCell(t, b) = n[2]
<1>1. PICK s \in Seq(Int) : /\ s # <<>> /\ Digits(s, b) /\ ValueOf(s, b) = Magnitude(n)
                            /\ t = SignText(n) \o s
  BY DEF TypedText
<1>2. b \in Nat
  BY HalfFacts
<1>3. /\ t \in Seq(Int) /\ t # <<>>
      /\ AfterPrefix(t) = 1 /\ (HasSign(t) <=> Signs(n)) /\ DigitsOf(t) = s
  BY <1>1, <1>2, TypedParts
<1>4. Radix(t, b) = b
  BY <1>3 DEF Radix
<1>. DEFINE l == Unsigned(n)[1]
            h == Unsigned(n)[2]
<1>5. l \in Cell /\ h = 0 /\ Unsigned(n) = <<l, h>>
  BY UnsignedCells
<1>. HIDE DEF l, h
<1>6. ValueOf(s, b) = l /\ l < B
  BY <1>1, <1>5, HalfFacts DEF Magnitude, Double
<1>7. n[2] = IF Signs(n) THEN Negate(l) ELSE l
  BY <1>5, Resigned
<1>8. NumeralCell(t, b) = n[2]
  BY <1>3, <1>4, <1>6, <1>7 DEF NumeralCell
<1>9. AfterPrefix(t) <= Len(t)
  BY <1>3
<1>10. Digits(DigitsOf(t), Radix(t, b)) /\ DigitsOf(t) # <<>>
       /\ ValueOf(DigitsOf(t), Radix(t, b)) < B
  BY <1>1, <1>3, <1>4, <1>6
<1>. QED BY <1>8, <1>9, <1>10 DEF Numeral

LEMMA TypedDouble ==
  ASSUME NEW n, IsNumber(n), n[1] = "d.", NEW b \in Cell \ {0, 1}, NEW t, TypedText(n, b, t)
  PROVE  ~Numeral(t, b) /\ DNum(t, b) = <<n[2], n[3]>>
<1>1. PICK s \in Seq(Int) : /\ s # <<>> /\ Digits(s, b) /\ ValueOf(s, b) = Magnitude(n)
                            /\ t = SignText(n) \o Append(s, Dot)
  BY DEF TypedText
<1>2. b \in Nat /\ b \in Nat \ {0} /\ b \in Cell \ {0} /\ B \in Nat
  BY HalfFacts
<1>. DEFINE u == Append(s, Dot)
<1>3. u \in Seq(Int) /\ Len(u) = Len(s) + 1 /\ u[Len(u)] = Dot
      /\ \A i \in 1..Len(s) : u[i] = s[i]
  BY DEF Dot
<1>. HIDE DEF u
<1>4. /\ t \in Seq(Int) /\ t # <<>>
      /\ AfterPrefix(t) = 1 /\ (HasSign(t) <=> Signs(n)) /\ (Char(t, 1) = Minus <=> Signs(n))
      /\ DigitsOf(t) = u /\ Char(t, Len(t)) = u[Len(u)]
      /\ Len(t) = Start(t) - 1 + Len(u) /\ Len(u) > 0
  <2>1. u = Append(s, Dot)
    BY DEF u
  <2>2. t = SignText(n) \o u
    BY <1>1, <2>1
  <2>3. s # <<>> /\ Digits(s, b) /\ b \in Nat /\ u \in Seq(Int) /\ (u = s \/ u = Append(s, Dot))
    BY <1>1, <1>2, <1>3, <2>1
  <2>4. /\ t \in Seq(Int) /\ t # <<>> /\ Char(t, 1) # Quote
        /\ AfterPrefix(t) = 1 /\ (HasSign(t) <=> Signs(n)) /\ (Char(t, 1) = Minus <=> Signs(n))
        /\ DigitsOf(t) = u
        /\ Len(t) = Start(t) - 1 + Len(u) /\ Len(u) > 0
        /\ Char(t, Len(t)) = u[Len(u)]
    BY <2>2, <2>3, TypedParts, Zenon
  <2>. QED BY <2>4, Zenon
<1>5. Radix(t, b) = b
  BY <1>4 DEF Radix
<1>6. ~Digits(u, b)
  <2>1. Len(u) \in DOMAIN u
    BY <1>3, <1>4
  <2>2. Dot \notin 0..b-1
    BY DEF Dot
  <2>. QED BY <1>3, <2>1, <2>2 DEF Digits
<1>7. ~Numeral(t, b)
  BY <1>4, <1>5, <1>6 DEF Numeral
<1>. DEFINE m == IF Char(t, 1) = Minus THEN 2 ELSE 1
            body == SubSeq(t, m, Len(t) - 1)
<1>8. body = s
  <2>. DEFINE k == Len(t)
              w == SubSeq(t, m, k)
  <2>1. m = Start(t) /\ m \in {1, 2} /\ Len(s) \in Nat /\ k = m + Len(s) /\ k \in Nat
    BY <1>3, <1>4 DEF Start
  <2>. HIDE DEF m, k
  <2>2. w = u
    BY <1>4, <2>1 DEF DigitsOf, k
  <2>3. m \in 1..k+1 /\ k \in m-1..k /\ k - 1 \in m-1..k
    BY <2>1
  <2>4. \A i \in 1..k-m+1 : w[i] = t[m + i - 1]
    BY <1>4, <2>3, SubSeqFacts DEF k
  <2>. DEFINE j == k - 1
  <2>5. body \in Seq(Int) /\ Len(body) = j - m + 1 /\ \A i \in 1..j-m+1 : body[i] = t[m + i - 1]
    <3>1. body = SubSeq(t, m, j)
      BY DEF k
    <3>2. j \in m-1..k
      BY <2>3
    <3>. HIDE DEF j, body
    <3>. QED BY <1>4, <2>3, <3>1, <3>2, SubSeqFacts DEF k
  <2>. HIDE DEF body, w
  <2>6. j - m + 1 = Len(s) /\ Len(s) \in Nat
    BY <2>1
  <2>7. ASSUME NEW i \in 1..Len(s)
        PROVE  body[i] = s[i]
    <3>1. i \in 1..k-m+1 /\ i \in 1..j-m+1
      BY <2>1
    <3>2. body[i] = w[i]
      <4>. HIDE DEF j
      <4>. QED BY <2>4, <2>5, <3>1
    <3>. QED BY <1>3, <2>2, <3>2
  <2>8. Len(body) = Len(s)
    BY <2>5, <2>6
  <2>. QED BY <2>5, <2>7, <2>8
<1>. DEFINE l == Unsigned(n)[1]
            h == Unsigned(n)[2]
<1>9. l \in Cell /\ h \in Cell /\ Unsigned(n) = <<l, h>>
  BY UnsignedCells
<1>. HIDE DEF l, h, m, body
<1>10. DoubleOf(s, b) = <<l, h>>
  <2>1. PICK v : Stages(0, s, b, v)
    BY <1>2, StagesExist
  <2>2. v[Len(s)] = Double(l, h)
    BY <1>1, <1>2, <2>1, ValueIs DEF Magnitude, l, h
  <2>3. l \in Nat /\ h \in Nat /\ l <= B - 1 /\ h <= B - 1
    BY <1>9, HalfFacts
  <2>4. Double(l, h) \in Nat /\ Double(l, h) = h * B + l
    BY <1>2, <2>3 DEF Double
  <2>5. Double(l, h) < B * B
    <3>1. h * B <= (B - 1) * B
      BY <1>2, <2>3
    <3>2. (B - 1) * B = B * B - B /\ B * B \in Nat /\ h * B \in Nat
      BY <1>2, <2>3
    <3>. QED BY <1>2, <2>3, <2>4, <3>1, <3>2
  <2>6. DoubleOf(s, b) = CellsOf(Double(l, h))
    BY <1>1, <1>2, <2>1, <2>2, <2>5, DoubleRight
  <2>. QED BY <1>9, <2>3, <2>4, <2>6, CellsAre
<1>11. DNum(t, b) = IF Signs(n) THEN <<Negate(l), DNegateHigh(l, h)>> ELSE <<l, h>>
  <2>1. DNum(t, b) = IF Char(t, Len(t)) # Dot \/ body = <<>> \/ ~Digits(body, b) THEN <<>>
                     ELSE LET d == DoubleOf(body, b)
                          IN  IF Char(t, 1) = Minus
                                THEN <<Negate(d[1]), DNegateHigh(d[1], d[2])>> ELSE d
    BY DEF DNum, body, m
  <2>2. Char(t, Len(t)) = Dot /\ body # <<>> /\ Digits(body, b) /\ (Char(t, 1) = Minus <=> Signs(n))
    BY <1>1, <1>3, <1>4, <1>8
  <2>3. DoubleOf(body, b)[1] = l /\ DoubleOf(body, b)[2] = h /\ DoubleOf(body, b) = <<l, h>>
    BY <1>8, <1>10
  <2>. QED BY <2>1, <2>2, <2>3
<1>12. n[2] = (IF Signs(n) THEN Negate(l) ELSE l)
       /\ n[3] = (IF Signs(n) THEN DNegateHigh(l, h) ELSE h)
  BY <1>9, Resigned
<1>. QED BY <1>7, <1>11, <1>12


\* Digit by digit.
LEMMA ThroughSteps ==
  ASSUME NEW start \in Int, NEW s \in Seq(Int), NEW b \in Int
  PROVE  /\ Through(start, s, b, 0) = start
         /\ \A k \in 0..Len(s) : Through(start, s, b, k) \in Int
         /\ \A k \in 1..Len(s) :
              Through(start, s, b, k) = Through(start, s, b, k - 1) * b + s[k]
<1>1. PICK v : Stages(start, s, b, v)
  BY StagesExist
<1>2. \A k \in 0..Len(s) : Through(start, s, b, k) = v[k]
  BY <1>1, ThroughIs
<1>3. Len(s) \in Nat /\ v \in [0..Len(s) -> Int] /\ v[0] = start
      /\ \A k \in 1..Len(s) : v[k] = v[k - 1] * b + s[k]
  BY <1>1 DEF Stages
<1>4. Through(start, s, b, 0) = start
  BY <1>2, <1>3
<1>5. \A k \in 0..Len(s) : Through(start, s, b, k) \in Int
  BY <1>2, <1>3
<1>6. ASSUME NEW k \in 1..Len(s)
      PROVE  Through(start, s, b, k) = Through(start, s, b, k - 1) * b + s[k]
  <2>1. k \in 0..Len(s) /\ k - 1 \in 0..Len(s)
    BY <1>3
  <2>2. Through(start, s, b, k) = v[k] /\ Through(start, s, b, k - 1) = v[k - 1]
    BY <1>2, <2>1
  <2>. QED BY <1>3, <2>2
<1>. QED BY <1>4, <1>5, <1>6

\* To the end.
LEMMA ThroughAll ==
  ASSUME NEW s \in Seq(Int), NEW b \in Int
  PROVE  Through(0, s, b, Len(s)) = ValueOf(s, b)
BY DEF Through, ValueOf

LEMMA ThroughGrows ==
  ASSUME NEW s \in Seq(Int), NEW b \in Nat \ {0}, Digits(s, b), NEW k \in 0..Len(s)
  PROVE  Through(0, s, b, k) \in Nat /\ Through(0, s, b, k) <= ValueOf(s, b)
<1>1. PICK v : Stages(0, s, b, v)
  BY StagesExist
<1>2. Through(0, s, b, k) = v[k] /\ ValueOf(s, b) = v[Len(s)]
  BY <1>1, ThroughIs, ValueIs
<1>3. Len(s) \in 0..Len(s) /\ k \in 0..Len(s)
  OBVIOUS
<1>4. \A j \in 0..Len(s) : v[j] \in Nat /\ \A i \in 0..j : v[i] <= v[j]
  BY <1>1, StagesGrow
<1>. QED BY <1>2, <1>3, <1>4

\* A digit taken off the start and put before the others.
LEMMA ThroughPrepended ==
  ASSUME NEW q \in Int, NEW d \in Int, NEW s \in Seq(Int), NEW b \in Int
  PROVE  LET t == <<d>> \o s
         IN  /\ t \in Seq(Int) /\ Len(t) = Len(s) + 1
             /\ Through(q, t, b, Len(t)) = Through(q * b + d, s, b, Len(s))
<1>. DEFINE t == <<d>> \o s
            p == q * b + d
<1>0. t \in Seq(Int) /\ p \in Int /\ Len(s) \in Nat
  OBVIOUS
<1>1. PICK v : Stages(p, s, b, v)
  BY <1>0, StagesExist
<1>. DEFINE n == Len(s)
            w == [i \in 0..n+1 |-> IF i = 0 THEN q ELSE v[i - 1]]
<1>2. /\ n \in Nat /\ Len(t) = n + 1 /\ t[1] = d
      /\ \A i \in 2..n+1 : t[i] = s[i - 1]
  OBVIOUS
<1>3. v \in [0..n -> Int] /\ v[0] = q * b + d /\ \A i \in 1..n : v[i] = v[i - 1] * b + s[i]
  BY <1>1 DEF Stages
<1>4. w \in [0..n+1 -> Int] /\ w[0] = q
  BY <1>2, <1>3
<1>5. w[1] = v[0] /\ \A i \in 2..n+1 : w[i] = v[i - 1] /\ w[i - 1] = v[(i - 1) - 1]
  BY <1>2
<1>6. w[n + 1] = v[n]
  BY <1>2
<1>. HIDE DEF w, t, p, n
<1>7. ASSUME NEW i \in 1..n+1
      PROVE  w[i] = w[i - 1] * b + t[i]
  <2>1. CASE i = 1
    BY <1>2, <1>3, <1>4, <1>5, <2>1
  <2>2. CASE i # 1
    <3>1. i \in 2..n+1 /\ i - 1 \in 1..n
      BY <1>2, <2>2
    <3>2. v[i - 1] = v[(i - 1) - 1] * b + s[i - 1]
      BY <1>3, <3>1
    <3>. QED BY <1>2, <1>5, <3>1, <3>2
  <2>. QED BY <2>1, <2>2
<1>8. Stages(q, t, b, w)
  BY <1>2, <1>4, <1>7 DEF Stages
<1>9. Through(q, t, b, Len(t)) = w[n + 1]
  <2>1. Len(t) \in 0..Len(t) /\ Len(t) = n + 1
    BY <1>2
  <2>. QED BY <1>0, <1>8, <2>1, ThroughIs
<1>10. Through(p, s, b, Len(s)) = v[n]
  <2>1. Len(s) \in 0..Len(s)
    BY <1>0
  <2>. QED BY <1>0, <1>1, <2>1, ThroughIs DEF n
<1>11. Through(q, t, b, Len(t)) = Through(p, s, b, Len(s))
  BY <1>6, <1>9, <1>10
<1>. QED BY <1>0, <1>2, <1>11 DEF t, p, n

LEMMA TypedWord ==
  ASSUME NEW n, NEW b \in Cell, NEW t, TypedText(n, b, t)
  PROVE  t \in Seq(Int) /\ t # <<>> /\ Char(t, 1) # Quote
<1>1. PICK s \in Seq(Int) : /\ s # <<>> /\ Digits(s, b) /\ ValueOf(s, b) = Magnitude(n)
                            /\ t = SignText(n) \o (IF n[1] = "d." THEN Append(s, Dot) ELSE s)
  BY DEF TypedText
<1>. DEFINE u == IF n[1] = "d." THEN Append(s, Dot) ELSE s
<1>2. u \in Seq(Int) /\ (u = s \/ u = Append(s, Dot)) /\ b \in Nat
  BY HalfFacts DEF Dot
<1>. HIDE DEF u
<1>3. t = SignText(n) \o u
  BY <1>1 DEF u
<1>. QED BY <1>1, <1>2, <1>3, TypedParts, Zenon

---------------------------------------------------------------------------
(* What the conversions keep.                                              *)

\* UM* leaves two cells, UD/MOD three.
AnswerCells ==
  pc = "answered" =>
    /\ asked.word = "um*" => answer \in Cell \X Cell
    /\ asked.word = "ud/mod" => answer \in Cell \X Cell \X Cell

\* What is asked of it.
Asking ==
  /\ task \in {"printed", "done"} => pc = "idle"
  /\ task = "print" /\ pc # "idle" =>
       asked = [word |-> "ud/mod", x |-> ud[1], y |-> ud[2], z |-> base]
  /\ task = "read" /\ pc # "idle" =>
       times /\ asked = [word |-> "um*", x |-> 0, y |-> acc, z |-> base]

Radices == Cell \ {0, 1}

NumberTypes ==
  /\ task \in {"none", "print", "printed", "read", "done"}
  /\ base \in Radices /\ was \in Radices /\ acc \in Cell
  /\ ud \in Cell \X Cell
  /\ text \in Seq(Int)
  /\ times \in BOOLEAN /\ negate \in BOOLEAN
  /\ number = <<>> \/ IsNumber(number)
  /\ task \in {"print", "printed"} => number # <<>>

\* The digits held continue what is left.
Printing ==
  task = "print" =>
    /\ Digits(text, base)
    /\ Through(Double(ud[1], ud[2]), text, base, Len(text)) = Magnitude(number)

Printed ==
  /\ task = "printed" => PrintedText(number, base, text)
  /\ task \in {"read", "done"} /\ number # <<>> => TypedText(number, was, text)

\* How far READ_NUMBER got: acc is the value of the digits before `at`, times
\* the base once it has multiplied.
Reading ==
  task = "read" =>
    LET digits == DigitsOf(text)
        k == at - Start(text)
    IN  /\ Char(text, 1) # Quote
        /\ base = Radix(text, was) /\ negate = HasSign(text)
        /\ at \in Start(text)..Len(text)+1
        /\ at = Len(text) + 1 => ~times /\ ~negate /\ k = 0
        /\ \A i \in 1..k : digits[i] \in 0..base-1
        /\ acc = Through(0, digits, base, k) * (IF times THEN 1 ELSE base)

\* How it ended.
Ended ==
  task = "done" =>
    /\ base = was
    /\ Char(text, 1) # Quote =>
         result = IF Numeral(text, base) THEN <<NumeralCell(text, base)>> ELSE DNum(text, base)

Converts == Asking /\ NumberTypes /\ Printing /\ Printed /\ Reading /\ Ended

LEMMA AnswerCellsKept ==
  ASSUME IInv, Asks, AnswerCells, [ArithNext]_arithVars
  PROVE  AnswerCells'
<1>1. ASSUME NEW w \in Words, NEW x \in Cell, NEW y \in Cell, NEW z \in Cell, Begin(w, x, y, z)
      PROVE  AnswerCells'
  BY <1>1 DEF AnswerCells, Begin, U_M_STAR, UM_DIV_MOD, FM_DIV_MOD, SM_REM, UD_MOD, DABS_STAR
<1>2. CASE DivideLoop \/ MultiplyLoop
  BY <1>2 DEF AnswerCells, DivideLoop, MultiplyLoop
<1>3. CASE Divided
  <2>1. pc = "divided" /\ hi \in Cell /\ lo \in Cell
    BY <1>3 DEF Divided, IInv, Loops, ArithTypeOK
  <2>2. CASE asked.word = "ud/mod" /\ kept # <<>> /\ Leave(<<hi, lo, kept[1]>>)
    <3>1. kept[1] \in Cell
      BY <2>1, <2>2 DEF Asks, Divides, FlooredAsked, FlooredWords, SymmetricAsked, TwiceAsked
    <3>. QED BY <2>1, <2>2, <3>1 DEF AnswerCells, Leave
  <2>3. CASE UM_DIV_MOD(asked.x, hi, asked.z)
    BY <2>3 DEF AnswerCells, UM_DIV_MOD
  <2>4. CASE asked.word \notin {"um*", "ud/mod"} /\ asked' = asked
    BY <2>4 DEF AnswerCells
  <2>. QED BY <1>3, <2>2, <2>3, <2>4 DEF Divided, Leave
<1>4. CASE Multiplied
  <2>1. pc = "multiplied" /\ product \in Cell \X Cell
    BY <1>4 DEF Multiplied, IInv, Loops, ArithTypeOK
  <2>2. CASE asked.word = "um*" /\ Leave(product)
    BY <2>1, <2>2 DEF AnswerCells, Leave
  <2>3. CASE asked.word \notin {"um*", "ud/mod"} /\ asked' = asked
    BY <2>3 DEF AnswerCells
  <2>. QED BY <1>4, <2>2, <2>3 DEF Multiplied, Leave
<1>5. CASE Return
  BY <1>5 DEF AnswerCells, Return
<1>6. CASE UNCHANGED arithVars
  BY <1>6 DEF AnswerCells, arithVars
<1>. QED BY <1>1, <1>2, <1>3, <1>4, <1>5, <1>6 DEF ArithNext, Run

\* Arithmetic sees operands that are cells.
LEMMA StepIsArith ==
  ASSUME NumberTypes, [Next]_vars
  PROVE  [ArithNext]_arithVars
<1>1. 0 \in Cell /\ acc \in Cell /\ base \in Cell /\ ud[1] \in Cell /\ ud[2] \in Cell
      /\ "um*" \in Words /\ "ud/mod" \in Words
  BY Dressed DEF NumberTypes, Radices, Words
<1>2. CASE NUMBER_SIGN
  BY <1>1, <1>2 DEF NUMBER_SIGN, ArithNext
<1>3. CASE ReadTimes
  BY <1>1, <1>3 DEF ReadTimes, ArithNext
<1>4. CASE HOLD \/ ReadTimed
  BY <1>4 DEF HOLD, ReadTimed, ArithNext
<1>5. CASE ReadBack
  BY <1>5 DEF ReadBack, READ_NUMBER
<1>6. CASE \E s \in Texts : ReadText(s)
  BY <1>6 DEF ReadText, READ_NUMBER
<1>7. CASE \E w \in {"u.", ".", "d."}, l, h \in Cell : LESS_NUMBER_SIGN(w, l, h)
  BY <1>7 DEF LESS_NUMBER_SIGN
<1>8. CASE ReadDigit \/ Rest
  BY <1>8 DEF ReadDigit, Rest
<1>9. CASE Run \/ (\E w \in Words, x, y, z \in Cell : Begin(w, x, y, z)) \/ Return
  BY <1>9 DEF ArithNext
<1>10. CASE UNCHANGED vars
  BY <1>10 DEF vars
<1>. QED BY <1>2, <1>3, <1>4, <1>5, <1>6, <1>7, <1>8, <1>9, <1>10 DEF Next

LEMMA NumbersStay ==
  ASSUME Converts, UNCHANGED numVars, Asking'
  PROVE  Converts'
<1>1. UNCHANGED <<task, base, was, number, ud, text, at, times, acc, negate, result>>
  BY DEF numVars
<1>2. NumberTypes' /\ Printed' /\ Printing'
  BY <1>1 DEF Converts, NumberTypes, Printed, Printing
<1>3. Reading' /\ Ended'
  BY <1>1 DEF Converts, Reading, Ended
<1>. QED BY <1>2, <1>3 DEF Converts

\* The loops turn, and words are called that convert nothing.
LEMMA RunConverts ==
  ASSUME Converts, UNCHANGED numVars,
         Run \/ task = "none" \/ UNCHANGED arithVars
  PROVE  Converts'
<1>1. UNCHANGED <<task, base, ud, times, acc>>
  BY DEF numVars
<1>2. CASE Run
  <2>1. pc # "idle" /\ asked' = asked
    BY <1>2 DEF Run, DivideLoop, MultiplyLoop, Divided, Multiplied, Leave
  <2>2. Asking'
    BY <1>1, <2>1 DEF Converts, Asking
  <2>. QED BY <2>2, NumbersStay
<1>3. CASE task = "none"
  <2>1. Asking'
    BY <1>1, <1>3 DEF Asking
  <2>. QED BY <2>1, NumbersStay
<1>4. CASE UNCHANGED arithVars
  <2>1. Asking'
    BY <1>1, <1>4 DEF Converts, Asking, arithVars
  <2>. QED BY <2>1, NumbersStay
<1>. QED BY <1>2, <1>3, <1>4

---------------------------------------------------------------------------
(* Printing.                                                               *)

LEMMA PrintStarts ==
  ASSUME Converts, NEW w \in {"u.", ".", "d."}, NEW l \in Cell, NEW h \in Cell,
         LESS_NUMBER_SIGN(w, l, h)
  PROVE  Converts'
<1>. DEFINE n == <<w, l, h>>
<1>1. /\ task' = "print" /\ pc' = "idle" /\ number' = n /\ text' = <<>>
      /\ UNCHANGED <<base, was, times, acc, negate>>
  BY DEF LESS_NUMBER_SIGN, arithVars
<1>2. IsNumber(n)
  BY DEF LESS_NUMBER_SIGN, IsNumber
<1>3. ud' = Unsigned(n)
  BY DEF LESS_NUMBER_SIGN, Unsigned
<1>. HIDE DEF n
<1>4. Unsigned(n) \in Cell \X Cell
  BY <1>2, UnsignedCells
<1>5. NumberTypes'
  <2>1. number' # <<>>
    BY <1>1, <1>2 DEF IsNumber
  <2>. QED BY <1>1, <1>2, <1>3, <1>4, <2>1 DEF Converts, NumberTypes
<1>6. Printing'
  <2>. DEFINE e == <<>>
              x == Double(ud'[1], ud'[2])
  <2>1. base \in Int /\ x \in Int /\ e \in Seq(Int) /\ Len(e) = 0
    BY <1>3, <1>4, HalfFacts DEF Double, Converts, NumberTypes, Radices
  <2>. HIDE DEF e, x
  <2>2. Through(x, e, base, Len(e)) = x
    BY <2>1, ThroughSteps
  <2>3. x = Magnitude(n)
    BY <1>3 DEF Magnitude, x
  <2>4. Digits(e, base)
    BY DEF Digits, e
  <2>5. Digits(text', base') /\ Through(x, text', base', Len(text')) = Magnitude(number')
    BY <1>1, <2>2, <2>3, <2>4 DEF e
  <2>. QED BY <2>5 DEF Printing, x
<1>7. Asking' /\ Printed' /\ Reading' /\ Ended'
  BY <1>1 DEF Asking, Printed, Reading, Ended
<1>. QED BY <1>5, <1>6, <1>7 DEF Converts

LEMMA NumberSignConverts ==
  ASSUME Converts, NUMBER_SIGN
  PROVE  Converts'
<1>1. /\ task = "print" /\ UNCHANGED numVars /\ UNCHANGED <<task, ud, base>>
      /\ asked' = [word |-> "ud/mod", x |-> ud[1], y |-> ud[2], z |-> base]
  BY DEF NUMBER_SIGN, Begin, numVars
<1>2. Asking'
  BY <1>1 DEF Asking
<1>. QED BY <1>1, <1>2, NumbersStay

\* The digit: ud = q * base + r, and the digits held go on from there.
LEMMA Held ==
  ASSUME IInv, Asks, AnswerCells, Converts, task = "print", pc = "answered"
  PROVE  LET held == <<answer[1]>> \o text
         IN  /\ answer[2] \in Cell /\ answer[3] \in Cell
             /\ held \in Seq(Int) /\ held # <<>> /\ Digits(held, base)
             /\ Through(Double(answer[2], answer[3]), held, base, Len(held)) = Magnitude(number)
<1>. DEFINE r == answer[1]
            q == Double(answer[2], answer[3])
            held == <<r>> \o text
<1>1. asked = [word |-> "ud/mod", x |-> ud[1], y |-> ud[2], z |-> base]
  BY DEF Converts, Asking
<1>2. r \in Cell /\ answer[2] \in Cell /\ answer[3] \in Cell
  BY <1>1 DEF AnswerCells
<1>3. IsAnswer(answer)
  BY <1>1 DEF Asks, Answered
<1>4. Double(ud[1], ud[2]) = q * base + r /\ r < base
  BY <1>1, <1>3 DEF IsAnswer
<1>5. text \in Seq(Int) /\ base \in Nat /\ r \in Nat /\ answer[2] \in Nat /\ answer[3] \in Nat /\ B \in Nat
  BY <1>2, HalfFacts DEF Converts, NumberTypes, Radices
<1>6. q \in Int
  BY <1>5 DEF Double
<1>7. Digits(text, base)
      /\ Through(Double(ud[1], ud[2]), text, base, Len(text)) = Magnitude(number)
  BY DEF Converts, Printing
<1>. HIDE DEF q, r
<1>8. held \in Seq(Int) /\ Len(held) = Len(text) + 1
      /\ Through(q, held, base, Len(held)) = Through(q * base + r, text, base, Len(text))
  BY <1>5, <1>6, ThroughPrepended
<1>9. held # <<>> /\ Digits(held, base)
  <2>1. r \in 0..base-1
    BY <1>4, <1>5
  <2>2. ASSUME NEW i \in DOMAIN held PROVE held[i] \in 0..base-1
    <3>1. CASE i = 1
      BY <1>5, <2>1, <3>1
    <3>2. CASE i # 1
      <4>1. i - 1 \in DOMAIN text /\ held[i] = text[i - 1]
        BY <1>5, <3>2
      <4>. QED BY <1>7, <4>1 DEF Digits
    <3>. QED BY <3>1, <3>2
  <2>. QED BY <1>5, <2>2 DEF Digits
<1>. HIDE DEF held
<1>10. Through(q, held, base, Len(held)) = Magnitude(number)
  BY <1>4, <1>7, <1>8
<1>. QED BY <1>2, <1>8, <1>9, <1>10 DEF held, q, r

LEMMA HoldConverts ==
  ASSUME IInv, Asks, AnswerCells, Converts, HOLD
  PROVE  Converts'
<1>. DEFINE held == <<answer[1]>> \o text
            l == answer[2]
            h == answer[3]
<1>1. /\ task = "print" /\ pc = "answered" /\ pc' = "idle"
      /\ ud' = <<l, h>>
      /\ UNCHANGED <<base, was, number, times, acc, negate>>
  BY DEF HOLD, Return
<1>2. l \in Cell /\ h \in Cell /\ held \in Seq(Int) /\ held # <<>> /\ Digits(held, base)
      /\ Through(Double(l, h), held, base, Len(held)) = Magnitude(number)
  BY <1>1, Held
<1>3. IsNumber(number) /\ base \in Radices
  BY <1>1 DEF Converts, NumberTypes
<1>4. SIGN <=> Signs(number)
  BY DEF SIGN, Signs
<1>5. IF ud' # <<0, 0>> THEN text' = held /\ task' = task
      ELSE text' = (IF SIGN THEN <<Minus>> ELSE <<>>) \o held /\ task' = "printed"
  BY DEF HOLD
<1>. HIDE DEF held, l, h
<1>6. CASE ud' # <<0, 0>>
  <2>1. text' = held /\ task' = "print"
    BY <1>1, <1>5, <1>6
  <2>2. NumberTypes'
    BY <1>1, <1>2, <2>1 DEF Converts, NumberTypes
  <2>3. Printing'
    BY <1>1, <1>2, <2>1 DEF Printing
  <2>4. Asking' /\ Printed' /\ Reading' /\ Ended'
    BY <1>1, <2>1 DEF Asking, Printed, Reading, Ended
  <2>. QED BY <2>2, <2>3, <2>4 DEF Converts
<1>7. CASE ud' = <<0, 0>>
  <2>1. text' = SignText(number) \o held /\ task' = "printed"
    BY <1>4, <1>5, <1>7 DEF SignText
  <2>2. SignText(number) \o held \in Seq(Int)
    BY <1>2 DEF SignText, Minus
  <2>3. NumberTypes'
    BY <1>1, <1>2, <2>1, <2>2 DEF Converts, NumberTypes
  <2>4. ValueOf(held, base) = Magnitude(number)
    <3>1. l = 0 /\ h = 0
      BY <1>1, <1>7
    <3>2. Double(l, h) = 0
      BY <3>1, HalfFacts DEF Double
    <3>3. base \in Int
      BY <1>3, HalfFacts DEF Radices
    <3>. QED BY <1>2, <3>2, <3>3, ThroughAll
  <2>5. PrintedText(number, base, text')
    BY <1>2, <2>1, <2>4, Zenon DEF PrintedText
  <2>6. Asking' /\ Printing' /\ Printed' /\ Reading' /\ Ended'
    BY <1>1, <2>1, <2>5 DEF Asking, Printing, Printed, Reading, Ended
  <2>. QED BY <2>3, <2>6 DEF Converts
<1>. QED BY <1>6, <1>7

---------------------------------------------------------------------------
(* Reading.                                                                *)

LEMMA ReadStarts ==
  ASSUME Converts, NEW s \in Seq(Int), READ_NUMBER(s),
         number' = <<>> \/ (IsNumber(number') /\ TypedText(number', base, s))
  PROVE  Converts'
<1>. DEFINE p == AfterPrefix(s)
<1>1. /\ pc' = "idle" /\ was' = base /\ text' = s /\ acc' = 0 /\ ud' = ud
      /\ base \in Radices /\ ud \in Cell \X Cell
  BY DEF READ_NUMBER, arithVars, Converts, NumberTypes
<1>2. p \in 1..Len(s)+1 /\ Len(s) \in Nat
  BY PrefixFound
<1>3. 0 \in Cell /\ base \in Int
  BY HalfFacts, Dressed DEF Converts, NumberTypes, Radices
<1>4. Asking' /\ Printing'
  BY <1>1 DEF READ_NUMBER, Asking, Printing
<1>5. Printed'
  <2>1. task' \in {"read", "done"}
    BY DEF READ_NUMBER
  <2>. QED BY <1>1, <2>1 DEF Printed, IsNumber
<1>6. ASSUME task' \in {"read", "done"}, base' \in Radices, times' \in BOOLEAN, negate' \in BOOLEAN
      PROVE  NumberTypes'
  BY <1>1, <1>3, <1>6 DEF NumberTypes
<1>7. CASE Char(s, 1) = Quote
  <2>1. task' = "done" /\ base' = base /\ times' = FALSE /\ negate' = FALSE
    BY <1>7 DEF READ_NUMBER
  <2>2. NumberTypes'
    BY <1>1, <1>6, <2>1
  <2>3. Reading' /\ Ended'
    BY <1>1, <1>7, <2>1 DEF Reading, Ended
  <2>. QED BY <1>4, <1>5, <2>2, <2>3 DEF Converts
<1>8. CASE Char(s, 1) # Quote /\ Char(s, p) = Minus /\ p = Len(s)
  <2>1. task' = "done" /\ result' = <<0>> /\ base' = base /\ negate' = TRUE /\ times' = TRUE
    BY <1>8 DEF READ_NUMBER
  <2>2. NumberTypes'
    BY <1>1, <1>6, <2>1
  <2>. DEFINE e == <<>>
              r == Radix(s, base)
  <2>3. DigitsOf(s) = e /\ HasSign(s)
    BY <1>2, <1>8 DEF DigitsOf, Start, HasSign
  <2>4. r \in Int
    BY <1>1, RadixIs DEF Radices
  <2>5. ValueOf(e, r) = 0
    <3>1. e \in Seq(Int) /\ Len(e) = 0 /\ 0 \in Int
      OBVIOUS
    <3>. HIDE DEF e, r
    <3>2. Through(0, e, r, 0) = 0
      BY <2>4, <3>1, ThroughSteps
    <3>. QED BY <2>4, <3>1, <3>2, ThroughAll
  <2>6. Digits(e, r)
    BY DEF Digits
  <2>. HIDE DEF e, r
  <2>7. Numeral(s, base) /\ NumeralCell(s, base) = 0
    BY <1>2, <1>8, <2>3, <2>5, <2>6, HalfFacts DEF Numeral, NumeralCell, r, Negate
  <2>8. Reading' /\ Ended'
    BY <1>1, <2>1, <2>7 DEF Reading, Ended
  <2>. QED BY <1>4, <1>5, <2>2, <2>8 DEF Converts
<1>9. CASE Char(s, 1) # Quote /\ ~(Char(s, p) = Minus /\ p = Len(s))
  <2>1. /\ task' = "read" /\ base' = BaseOf(s) /\ negate' = (Char(s, p) = Minus)
        /\ times' = negate' /\ at' = IF negate' THEN p + 1 ELSE p
    BY <1>9 DEF READ_NUMBER
  <2>2. base' = Radix(s, base) /\ base' \in Radices /\ base' \in Int
    BY <1>1, <2>1, RadixIs DEF BaseOf, Radix, Radices
  <2>3. negate' = HasSign(s) /\ at' = Start(s) /\ negate' \in BOOLEAN
    <3>1. negate' = HasSign(s)
      BY <2>1, Zenon DEF HasSign
    <3>2. negate' \in BOOLEAN
      BY <3>1, Zenon DEF HasSign
    <3>3. at' = IF HasSign(s) THEN p + 1 ELSE p
      BY <2>1, <3>1, Zenon
    <3>4. at' = Start(s)
      BY <1>2, <3>3 DEF Start
    <3>. QED BY <3>1, <3>2, <3>4
  <2>4. NumberTypes'
    BY <1>1, <1>6, <2>1, <2>2, <2>3
  <2>. DEFINE ds == DigitsOf(s)
  <2>5. /\ Start(s) \in p..p+1 /\ Start(s) <= Len(s) + 1
        /\ Start(s) = Len(s) + 1 => ~HasSign(s)
    BY <1>2, <1>9 DEF Start, HasSign, Char, Minus, Blank
  <2>6. ds \in Seq(Int)
    <3>1. Start(s) \in 1..Len(s)+1 /\ Len(s) \in Start(s)-1..Len(s)
      BY <1>2, <2>5
    <3>. QED BY <3>1, SubSeqFacts DEF DigitsOf
  <2>. HIDE DEF ds
  <2>7. Through(0, ds, base', 0) = 0
    BY <2>2, <2>6, ThroughSteps
  <2>8. /\ Char(text', 1) # Quote
        /\ base' = Radix(text', was') /\ negate' = HasSign(text')
        /\ at' \in Start(text')..Len(text')+1
        /\ at' = Len(text') + 1 => ~times' /\ ~negate' /\ at' - Start(text') = 0
        /\ \A i \in 1..at'-Start(text') : DigitsOf(text')[i] \in 0..base'-1
        /\ acc' = Through(0, DigitsOf(text'), base', at' - Start(text'))
                    * (IF times' THEN 1 ELSE base')
    <3>1. at' - Start(s) = 0
      BY <1>2, <2>3, <2>5
    <3>2. 0 = Through(0, ds, base', at' - Start(s)) * (IF times' THEN 1 ELSE base')
      BY <2>2, <2>7, <3>1
    <3>3. at' \in Start(s)..Len(s)+1
      BY <1>2, <2>3, <2>5
    <3>4. at' = Len(s) + 1 => ~times' /\ ~negate'
      BY <2>1, <2>3, <2>5
    <3>5. \A i \in 1..at'-Start(s) : FALSE
      BY <3>1
    <3>. QED BY <1>1, <1>9, <2>2, <2>3, <3>1, <3>2, <3>3, <3>4, <3>5 DEF ds
  <2>9. Reading'
    BY <2>8 DEF Reading
  <2>10. Ended'
    BY <2>1 DEF Ended
  <2>. QED BY <1>4, <1>5, <2>4, <2>9, <2>10 DEF Converts
<1>. QED BY <1>7, <1>8, <1>9

\* What is printed is typed in.
LEMMA ReadBackConverts ==
  ASSUME Converts, ReadBack
  PROVE  Converts'
<1>. DEFINE s == IF number[1] = "d." THEN Append(text, Dot) ELSE text
<1>1. task = "printed" /\ number' = number /\ READ_NUMBER(s)
  BY DEF ReadBack
<1>2. IsNumber(number) /\ base \in Cell /\ base \in Nat
  BY <1>1, HalfFacts DEF Converts, NumberTypes, Radices
<1>3. TypedText(number, base, s)
  BY <1>1, <1>2, TypedIn DEF Converts, Printed
<1>. HIDE DEF s
<1>4. s \in Seq(Int)
  BY <1>2, <1>3, TypedWord
<1>5. IsNumber(number') /\ TypedText(number', base, s)
  BY <1>1, <1>2, <1>3
<1>. QED BY <1>1, <1>4, <1>5, ReadStarts

LEMMA ReadTextConverts ==
  ASSUME Converts, NEW s \in Texts, ReadText(s)
  PROVE  Converts'
<1>1. s \in Seq(Int)
  BY NumeralsAssumption
<1>2. READ_NUMBER(s) /\ number' = <<>>
  BY DEF ReadText
<1>3. number' = <<>> \/ (IsNumber(number') /\ TypedText(number', base, s))
  BY <1>2
<1>. QED BY <1>1, <1>2, <1>3, ReadStarts


LEMMA NumberEnds ==
  ASSUME Converts, task = "read", pc' = "idle", NEW cells, base' = was, Done(cells),
         cells = IF Numeral(text, was) THEN <<NumeralCell(text, was)>> ELSE DNum(text, was)
  PROVE  Converts'
<1>1. /\ task' = "done" /\ result' = cells
      /\ UNCHANGED <<was, number, ud, text, at, acc, negate, times>>
  BY DEF Done
<1>2. NumberTypes' /\ Printed'
  BY <1>1 DEF Converts, NumberTypes, Printed
<1>3. Asking' /\ Printing' /\ Reading'
  BY <1>1 DEF Asking, Printing, Reading
<1>4. Ended'
  BY <1>1 DEF Ended
<1>. QED BY <1>2, <1>3, <1>4 DEF Converts

LEMMA NoNumeralEnds ==
  ASSUME Converts, task = "read", pc' = "idle", NotANumber(text), ~Numeral(text, was)
  PROVE  Converts'
<1>1. base' = was /\ Done(DNum(text, was))
  BY DEF NotANumber
<1>. QED BY <1>1, NumberEnds

\* Where READ_NUMBER stands.
LEMMA Where ==
  ASSUME Converts, task = "read"
  PROVE  LET digits == DigitsOf(text)
             k == at - Start(text)
         IN  /\ digits \in Seq(Int) /\ Len(digits) = Len(text) + 1 - Start(text)
             /\ k \in Nat /\ Start(text) \in Nat /\ Len(text) \in Nat /\ at \in 1..Len(text)+1
             /\ base \in Radices /\ base \in Nat /\ base > 1 /\ base = Radix(text, was)
             /\ negate = HasSign(text)
             /\ at = Len(text) + 1 => ~times /\ ~HasSign(text) /\ k = 0
             /\ at # Len(text) + 1 => /\ k + 1 \in 1..Len(digits)
                                      /\ digits[k + 1] = Char(text, at)
                                      /\ AfterPrefix(text) <= Len(text)
             /\ \A i \in 1..k : digits[i] \in 0..base-1
             /\ acc = Through(0, digits, base, k) * (IF times THEN 1 ELSE base)
<1>. DEFINE digits == DigitsOf(text)
            a == Start(text)
            k == at - a
            n == Len(text)
<1>1. /\ base = Radix(text, was) /\ negate = HasSign(text)
      /\ at \in a..n+1
      /\ at = n + 1 => ~times /\ ~negate /\ k = 0
      /\ \A i \in 1..k : digits[i] \in 0..base-1
      /\ acc = Through(0, digits, base, k) * (IF times THEN 1 ELSE base)
  BY DEF Converts, Reading
<1>2. text \in Seq(Int) /\ base \in Radices
  BY DEF Converts, NumberTypes
<1>3. base \in Nat /\ base > 1
  BY <1>2, HalfFacts DEF Radices
<1>4. n \in Nat /\ AfterPrefix(text) \in 1..n+1 /\ a \in AfterPrefix(text)..AfterPrefix(text)+1
  BY <1>2, PrefixFound DEF Start
<1>5. a \in 1..n+1 /\ n \in a-1..n /\ k \in Nat /\ a \in Nat /\ at \in 1..n+1
  BY <1>1, <1>4
<1>6. digits \in Seq(Int) /\ Len(digits) = n - a + 1 /\ \A i \in 1..n-a+1 : digits[i] = text[a + i - 1]
  BY <1>2, <1>5, SubSeqFacts DEF DigitsOf
<1>. HIDE DEF digits, n, a
<1>7. at # n + 1 => k + 1 \in 1..Len(digits) /\ digits[k + 1] = Char(text, at)
                    /\ AfterPrefix(text) <= n
  <2>. SUFFICES ASSUME at # n + 1
                PROVE  k + 1 \in 1..Len(digits) /\ digits[k + 1] = Char(text, at)
                       /\ AfterPrefix(text) <= n
    OBVIOUS
  <2>1. k + 1 \in 1..n-a+1 /\ a + (k + 1) - 1 = at /\ at \in 1..n
    BY <1>1, <1>4, <1>5
  <2>. HIDE DEF k
  <2>2. digits[k + 1] = text[at]
    BY <1>6, <2>1
  <2>3. Char(text, at) = text[at]
    BY <2>1 DEF Char, n
  <2>4. AfterPrefix(text) <= n
    BY <1>1, <1>4, <2>1
  <2>. QED BY <1>6, <2>1, <2>2, <2>3, <2>4
<1>8. Len(digits) = n + 1 - a
  BY <1>4, <1>5, <1>6
<1>. HIDE DEF k
<1>. QED BY <1>1, <1>2, <1>3, <1>4, <1>5, <1>6, <1>7, <1>8 DEF digits, n, a, k

\* The first digits of a number that fits in a cell.
LEMMA DigitsFit ==
  ASSUME NEW digits \in Seq(Int), NEW r \in Nat \ {0},
         Digits(digits, r), ValueOf(digits, r) < B,
         NEW k \in Nat, k + 1 \in 1..Len(digits)
  PROVE  /\ digits[k + 1] \in 0..r-1
         /\ Through(0, digits, r, k) * r + digits[k + 1] < B
<1>2. k + 1 \in 0..Len(digits) /\ (k + 1) - 1 = k /\ k + 1 \in DOMAIN digits /\ r \in Int /\ 0 \in Int
  OBVIOUS
<1>3. digits[k + 1] \in 0..r-1
  BY <1>2 DEF Digits
<1>. DEFINE m == k + 1
            x == Through(0, digits, r, m)
<1>4. x = Through(0, digits, r, k) * r + digits[m]
  <2>1. m \in 1..Len(digits) /\ m - 1 = k
    OBVIOUS
  <2>2. \A j \in 1..Len(digits) :
          Through(0, digits, r, j) = Through(0, digits, r, j - 1) * r + digits[j]
    <3>1. 0 \in Int /\ r \in Int /\ digits \in Seq(Int)
      OBVIOUS
    <3>. QED BY <3>1, ThroughSteps, Zenon
  <2>. HIDE DEF m
  <2>. QED BY <2>1, <2>2
<1>5. x \in Nat /\ x <= ValueOf(digits, r)
  <2>1. m \in 0..Len(digits)
    OBVIOUS
  <2>. HIDE DEF m
  <2>. QED BY <2>1, ThroughGrows
<1>6. ValueOf(digits, r) \in Int
  <2>1. Len(digits) \in 0..Len(digits)
    OBVIOUS
  <2>2. Through(0, digits, r, Len(digits)) \in Int
    BY <1>2, <2>1, ThroughSteps
  <2>. QED BY <1>2, <2>2, ThroughAll
<1>7. x < B
  <2>. HIDE DEF x
  <2>. QED BY <1>5, <1>6, HalfFacts
<1>. QED BY <1>3, <1>4, <1>7

LEMMA StillSmall ==
  ASSUME NEW s, NEW b, Numeral(s, b), NEW r \in Nat \ {0},
         r = Radix(s, b), NEW digits \in Seq(Int), digits = DigitsOf(s),
         NEW k \in Nat, k + 1 \in 1..Len(digits)
  PROVE  /\ digits[k + 1] \in 0..r-1
         /\ Through(0, digits, r, k) * r + digits[k + 1] < B
<1>1. Digits(digits, r) /\ ValueOf(digits, r) < B
  BY DEF Numeral
<1>. QED BY <1>1, DigitsFit


LEMMA ReadDigitConverts ==
  ASSUME Converts, ReadDigit
  PROVE  Converts'
<1>. DEFINE digits == DigitsOf(text)
            k == at - Start(text)
            c == Char(text, at)
            n == acc + c
            x == Through(0, digits, base, k)
<1>1. task = "read" /\ ~times /\ pc = "idle" /\ pc' = "idle"
  BY DEF ReadDigit, arithVars
<1>2. /\ digits \in Seq(Int) /\ Len(digits) = Len(text) + 1 - Start(text)
      /\ k \in Nat /\ Start(text) \in Nat /\ Len(text) \in Nat /\ at \in 1..Len(text)+1
      /\ base \in Radices /\ base \in Nat \ {0} /\ base = Radix(text, was)
      /\ negate = HasSign(text)
      /\ at = Len(text) + 1 => ~HasSign(text) /\ k = 0
      /\ at # Len(text) + 1 => k + 1 \in 1..Len(digits) /\ digits[k + 1] = c
                               /\ AfterPrefix(text) <= Len(text)
      /\ \A i \in 1..k : digits[i] \in 0..base-1
      /\ acc = x * base
  BY <1>1, Where
<1>3. text \in Seq(Int) /\ was \in Radices /\ was \in Nat \ {0} /\ acc \in Cell
      /\ times \in BOOLEAN /\ negate \in BOOLEAN
  BY HalfFacts DEF Converts, NumberTypes, Radices
<1>. HIDE DEF digits, c, x
<1>4. CASE c \notin 0..base-1 \/ Overflows(n)
  <2>1. NotANumber(text)
    BY <1>1, <1>4 DEF ReadDigit, c
  <2>2. ~Numeral(text, was)
    <3>. SUFFICES ASSUME Numeral(text, was) PROVE FALSE
      OBVIOUS
    <3>1. CASE at = Len(text) + 1
      <4>1. digits # <<>>
        BY <1>2, <3>1 DEF Numeral, digits
      <4>2. Len(digits) = 0
        BY <1>2, <3>1
      <4>. QED BY <1>2, <4>1, <4>2
    <3>2. CASE at # Len(text) + 1
      <4>1. k + 1 \in 1..Len(digits) /\ digits[k + 1] = c
        BY <1>2, <3>2
      <4>. HIDE DEF k
      <4>2. digits[k + 1] \in 0..base-1 /\ Through(0, digits, base, k) * base + digits[k + 1] < B
        BY <1>2, <1>3, <4>1, StillSmall DEF digits
      <4>3. c \in 0..base-1 /\ n < B
        BY <1>2, <4>1, <4>2 DEF x
      <4>4. n \in Int
        BY <1>3, <4>3, HalfFacts
      <4>. QED BY <1>4, <4>3, <4>4, HalfFacts DEF Overflows
    <3>. QED BY <3>1, <3>2
  <2>. QED BY <1>1, <2>1, <2>2, NoNumeralEnds
<1>5. CASE c \in 0..base-1 /\ ~Overflows(n)
  <2>1. at # Len(text) + 1
    <3>1. at = Len(text) + 1 => c = Blank
      BY <1>2 DEF c, Char
    <3>. QED BY <1>2, <1>5, <3>1 DEF Blank
  <2>2. n \in Cell /\ n \in Nat /\ n < B
    <3>1. acc \in Nat /\ c \in Nat /\ B \in Nat
      <4>1. base \in Nat
        BY <1>2
      <4>. QED BY <1>3, <1>5, <4>1, HalfFacts
    <3>2. n \in Nat /\ n < B
      BY <1>5, <3>1 DEF Overflows
    <3>. HIDE DEF n
    <3>. QED BY <3>1, <3>2, HalfFacts
  <2>3. k + 1 \in 1..Len(digits) /\ digits[k + 1] = c /\ AfterPrefix(text) <= Len(text)
        /\ at \in 1..Len(text)
    BY <1>2, <2>1
  <2>. DEFINE y == Through(0, digits, base, k + 1)
  <2>4. y = n
    <3>1. \A j \in 1..Len(digits) :
            Through(0, digits, base, j) = Through(0, digits, base, j - 1) * base + digits[j]
      <4>1. 0 \in Int /\ base \in Int /\ digits \in Seq(Int)
        BY <1>2
      <4>. QED BY <4>1, ThroughSteps, Zenon
    <3>2. (k + 1) - 1 = k
      BY <1>2
    <3>. HIDE DEF k
    <3>. QED BY <1>2, <2>3, <3>1, <3>2 DEF x
  <2>5. \A i \in 1..k+1 : digits[i] \in 0..base-1
    <3>. HIDE DEF k
    <3>1. ASSUME NEW i \in 1..k+1 PROVE digits[i] \in 0..base-1
      <4>1. CASE i = k + 1
        BY <1>5, <2>3, <4>1
      <4>2. CASE i \in 1..k
        BY <1>2, <4>2
      <4>. QED BY <1>2, <4>1, <4>2
    <3>. QED BY <3>1
  <2>6. CASE at = Len(text)
    <3>1. ANumber(n)
      BY <1>1, <1>5, <2>6 DEF ReadDigit, c
    <3>2. k + 1 = Len(digits)
      BY <1>2, <2>6
    <3>. HIDE DEF k
    <3>3. ValueOf(digits, base) = n
      BY <1>2, <2>4, <3>2, ThroughAll
    <3>4. Digits(digits, base)
      BY <1>2, <2>5, <3>2 DEF Digits
    <3>5. digits # <<>>
      BY <2>3
    <3>6. Numeral(text, was) /\ NumeralCell(text, was) = IF negate THEN Negate(n) ELSE n
      BY <1>2, <2>2, <2>3, <3>3, <3>4, <3>5 DEF Numeral, NumeralCell, digits
    <3>7. base' = was /\ Done(<<IF negate THEN Negate(n) ELSE n>>)
      BY <3>1 DEF ANumber
    <3>. QED BY <1>1, <3>6, <3>7, NumberEnds
  <2>7. CASE at # Len(text)
    <3>1. /\ acc' = n /\ at' = at + 1 /\ times' = TRUE
          /\ UNCHANGED <<task, base, was, number, ud, text, negate, result>>
      BY <1>1, <1>5, <2>7 DEF ReadDigit, c
    <3>2. NumberTypes' /\ Printed'
      BY <2>2, <3>1 DEF Converts, NumberTypes, Printed
    <3>3. Asking' /\ Printing' /\ Ended'
      BY <1>1, <3>1 DEF Asking, Printing, Ended
    <3>4. at' - Start(text) = k + 1 /\ at' \in Start(text)..Len(text)+1 /\ at' # Len(text) + 1
      BY <1>2, <2>3, <2>7, <3>1
    <3>5. acc' = Through(0, digits, base, k + 1) * 1
      BY <2>2, <2>4, <3>1
    <3>. HIDE DEF k
    <3>6. Char(text, 1) # Quote
      BY <1>1 DEF Converts, Reading
    <3>7. Reading'
      <4>1. text' = text /\ base' = base /\ was' = was /\ negate' = negate /\ times'
        BY <3>1
      <4>2. at' - Start(text') = k + 1 /\ DigitsOf(text') = digits
        BY <3>4, <4>1 DEF digits
      <4>. QED BY <1>2, <2>5, <3>4, <3>5, <3>6, <4>1, <4>2 DEF Reading
    <3>. QED BY <3>2, <3>3, <3>7 DEF Converts
  <2>. QED BY <2>6, <2>7
<1>. QED BY <1>4, <1>5

LEMMA ReadTimesConverts ==
  ASSUME Converts, ReadTimes
  PROVE  Converts'
<1>1. /\ task = "read" /\ times /\ UNCHANGED numVars /\ UNCHANGED <<task, acc, base, times>>
      /\ asked' = [word |-> "um*", x |-> 0, y |-> acc, z |-> base]
  BY DEF ReadTimes, Begin, numVars
<1>2. Asking'
  BY <1>1 DEF Asking
<1>. QED BY <1>1, <1>2, NumbersStay

LEMMA ReadTimedConverts ==
  ASSUME Asks, AnswerCells, Converts, ReadTimed
  PROVE  Converts'
<1>. DEFINE digits == DigitsOf(text)
            k == at - Start(text)
            l == answer[1]
            h == answer[2]
            x == Through(0, digits, base, k)
<1>1. task = "read" /\ pc = "answered" /\ pc' = "idle"
  BY DEF ReadTimed, Return
<1>2. times /\ asked = [word |-> "um*", x |-> 0, y |-> acc, z |-> base]
  BY <1>1 DEF Converts, Asking
<1>3. l \in Cell /\ h \in Cell /\ Double(l, h) = acc * base
  BY <1>1, <1>2 DEF AnswerCells, Asks, Answered, IsAnswer
<1>4. /\ digits \in Seq(Int)
      /\ k \in Nat /\ base \in Nat \ {0} /\ base = Radix(text, was)
      /\ k + 1 \in 1..Len(digits)
      /\ acc = x * 1
  BY <1>1, <1>2, Where
<1>5. text \in Seq(Int) /\ was \in Nat \ {0} /\ acc \in Nat /\ l \in Nat /\ h \in Nat /\ B \in Nat \ {0}
  BY <1>3, HalfFacts DEF Converts, NumberTypes, Radices
<1>6. x \in Int /\ acc = x
  <2>1. \A j \in 0..Len(digits) : Through(0, digits, base, j) \in Int
    BY <1>4, ThroughSteps
  <2>2. k \in 0..Len(digits)
    BY <1>4
  <2>3. x \in Int
    <3>. HIDE DEF k, digits
    <3>. QED BY <2>1, <2>2
  <2>. HIDE DEF x
  <2>. QED BY <1>4, <2>3
<1>. HIDE DEF digits, x, l, h
<1>7. CASE h # 0
  <2>1. NotANumber(text)
    BY <1>7 DEF ReadTimed, h
  <2>2. ~Numeral(text, was)
    <3>. SUFFICES ASSUME Numeral(text, was) PROVE FALSE
      OBVIOUS
    <3>. HIDE DEF k
    <3>1. digits[k + 1] \in 0..base-1 /\ Through(0, digits, base, k) * base + digits[k + 1] < B
      BY <1>4, <1>5, StillSmall DEF digits
    <3>2. h * B >= B /\ h * B \in Nat
      BY <1>5, <1>7
    <3>3. acc * base = h * B + l
      BY <1>3 DEF Double
    <3>4. acc * base + digits[k + 1] < B
      BY <1>6, <3>1 DEF x
    <3>. DEFINE w == acc * base
    <3>5. w \in Nat /\ w >= B
      BY <1>5, <3>2, <3>3
    <3>. HIDE DEF w
    <3>6. w + digits[k + 1] < B /\ digits[k + 1] \in Nat
      BY <1>4, <3>1, <3>4 DEF w
    <3>. QED BY <1>5, <3>5, <3>6
  <2>. QED BY <1>1, <2>1, <2>2, NoNumeralEnds
<1>8. CASE h = 0
  <2>1. /\ acc' = l /\ times' = FALSE
        /\ UNCHANGED <<task, base, was, number, ud, text, at, negate, result>>
    BY <1>8 DEF ReadTimed, l, h
  <2>2. l = x * base
    BY <1>3, <1>5, <1>6, <1>8 DEF Double
  <2>3. NumberTypes' /\ Printed'
    BY <1>3, <2>1 DEF Converts, NumberTypes, Printed
  <2>4. Asking' /\ Printing' /\ Ended'
    BY <1>1, <2>1 DEF Asking, Printing, Ended
  <2>5. Reading'
    <3>1. /\ Char(text, 1) # Quote
          /\ base = Radix(text, was) /\ negate = HasSign(text)
          /\ at \in Start(text)..Len(text)+1
          /\ at = Len(text) + 1 => ~times /\ ~negate /\ k = 0
          /\ \A i \in 1..k : digits[i] \in 0..base-1
      BY <1>1 DEF Converts, Reading, digits
    <3>2. /\ text' = text /\ base' = base /\ was' = was /\ negate' = negate /\ ~times' /\ at' = at
          /\ acc' = x * base
      BY <2>1, <2>2
    <3>3. at' - Start(text') = k /\ DigitsOf(text') = digits /\ x = Through(0, digits, base, k)
      BY <3>2 DEF digits, x
    <3>. HIDE DEF k
    <3>. QED BY <3>1, <3>2, <3>3 DEF Reading
  <2>. QED BY <2>3, <2>4, <2>5 DEF Converts
<1>. QED BY <1>7, <1>8

LEMMA RestConverts ==
  ASSUME Converts, Rest
  PROVE  Converts'
<1>1. /\ task' = "none" /\ was' = base /\ base' = base
      /\ number' = <<>> /\ ud' = <<0, 0>> /\ text' = <<>>
      /\ times' = FALSE /\ acc' = 0 /\ negate' = FALSE
  BY DEF Rest
<1>2. NumberTypes'
  <2>1. 0 \in Cell
    BY Dressed
  <2>2. base \in Radices
    BY DEF Converts, NumberTypes
  <2>3. ud' \in Cell \X Cell /\ text' \in Seq(Int) /\ acc' \in Cell
    BY <1>1, <2>1
  <2>4. task' \in {"none", "print", "printed", "read", "done"}
        /\ task' \notin {"print", "printed"}
    BY <1>1
  <2>5. times' \in BOOLEAN /\ negate' \in BOOLEAN
    BY <1>1, Zenon
  <2>6. base' \in Radices /\ was' \in Radices
    BY <1>1, <2>2, Zenon
  <2>. QED BY <1>1, <2>3, <2>4, <2>5, <2>6, Zenon DEF NumberTypes
<1>. QED BY <1>1, <1>2 DEF Converts, Asking, Printing, Printed, Reading, Ended

---------------------------------------------------------------------------
(* The invariant, and what follows.                                        *)

NInv == IInv /\ Asks /\ AnswerCells /\ Converts

LEMMA NumeralsStart == Init => NInv
<1>. SUFFICES ASSUME Init PROVE NInv
  OBVIOUS
<1>1. ArithInit /\ task = "none" /\ base \in Bases /\ was = base /\ number = <<>>
      /\ ud = <<0, 0>> /\ text = <<>> /\ times = FALSE /\ acc = 0 /\ negate = FALSE
  BY DEF Init
<1>2. IInv
  BY <1>1, Starts
<1>3. pc = "idle"
  BY <1>1 DEF ArithInit
<1>4. Asks /\ AnswerCells
  BY <1>3 DEF Asks, Divides, Multiplies, Thrown, Answered, AnswerCells
<1>5. NumberTypes
  <2>1. 0 \in Cell /\ base \in Radices
    BY <1>1, Dressed, NumeralsAssumption DEF Radices
  <2>2. ud \in Cell \X Cell /\ text \in Seq(Int) /\ acc \in Cell
    BY <1>1, <2>1
  <2>3. task \in {"none", "print", "printed", "read", "done"} /\ task \notin {"print", "printed"}
    BY <1>1
  <2>4. times \in BOOLEAN /\ negate \in BOOLEAN /\ was \in Radices
    BY <1>1, <2>1, Zenon
  <2>. QED BY <1>1, <2>1, <2>2, <2>3, <2>4, Zenon DEF NumberTypes
<1>6. Asking /\ Printing /\ Printed /\ Reading /\ Ended
  BY <1>1 DEF Asking, Printing, Printed, Reading, Ended
<1>. QED BY <1>2, <1>4, <1>5, <1>6 DEF NInv, Converts

LEMMA NextConverts ==
  ASSUME NInv, [Next]_vars
  PROVE  Converts'
<1>0. IInv /\ Asks /\ AnswerCells /\ Converts
  BY DEF NInv
<1>1. CASE /\ task = "none" /\ UNCHANGED numVars
           /\ (\E w \in Words, x, y, z \in Cell : Begin(w, x, y, z)) \/ Return
  BY <1>0, <1>1, RunConverts
<1>2. CASE Run /\ UNCHANGED numVars
  BY <1>0, <1>2, RunConverts
<1>3. ASSUME NEW w \in {"u.", ".", "d."}, NEW l \in Cell, NEW h \in Cell, LESS_NUMBER_SIGN(w, l, h)
      PROVE  Converts'
  BY <1>0, <1>3, PrintStarts
<1>4. CASE NUMBER_SIGN
  BY <1>0, <1>4, NumberSignConverts
<1>5. CASE HOLD
  BY <1>0, <1>5, HoldConverts
<1>6. CASE ReadBack
  BY <1>0, <1>6, ReadBackConverts
<1>7. ASSUME NEW s \in Texts, ReadText(s)
      PROVE  Converts'
  BY <1>0, <1>7, ReadTextConverts
<1>8. CASE ReadDigit
  BY <1>0, <1>8, ReadDigitConverts
<1>9. CASE ReadTimes
  BY <1>0, <1>9, ReadTimesConverts
<1>10. CASE ReadTimed
  BY <1>0, <1>10, ReadTimedConverts
<1>11. CASE Rest
  BY <1>0, <1>11, RestConverts
<1>12. CASE UNCHANGED vars
  <2>1. UNCHANGED numVars /\ UNCHANGED arithVars
    BY <1>12 DEF vars
  <2>. QED BY <1>0, <2>1, RunConverts
<1>. QED BY <1>1, <1>2, <1>3, <1>4, <1>5, <1>6, <1>7, <1>8, <1>9, <1>10, <1>11, <1>12 DEF Next

LEMMA NumeralsKeep == NInv /\ [Next]_vars => NInv'
<1>. SUFFICES ASSUME NInv, [Next]_vars PROVE NInv'
  OBVIOUS
<1>1. IInv /\ Asks /\ AnswerCells /\ NumberTypes
  BY DEF NInv, Converts
<1>2. [ArithNext]_arithVars
  BY <1>1, StepIsArith
<1>3. IInv' /\ Asks' /\ AnswerCells'
  BY <1>1, <1>2, Keeps, AsksKept, AnswerCellsKept
<1>4. Converts'
  BY NextConverts
<1>. QED BY <1>3, <1>4 DEF NInv

(***************************************************************************)
(* The conversions use the arithmetic as any caller does: what is proved   *)
(* of UM* and UD/MOD holds of every digit printed or read.                 *)
(***************************************************************************)
THEOREM NumeralsCompute == Spec => ArithSpec
<1>1. Init => ArithInit
  BY DEF Init
<1>2. NInv /\ [Next]_vars => [ArithNext]_arithVars
  BY StepIsArith DEF NInv, Converts
<1>. QED BY <1>1, <1>2, NumeralsStart, NumeralsKeep, PTL DEF Spec, ArithSpec

(***************************************************************************)
(* Printing and reading keep to cells, BASE among them, and READ_NUMBER    *)
(* looks at most one character behind the word.                            *)
(***************************************************************************)
THEOREM NumeralTypes == Spec => []TypeOK
<1>1. NInv => TypeOK
  <2>. SUFFICES ASSUME NInv PROVE TypeOK
    OBVIOUS
  <2>1. ArithTypeOK /\ NumberTypes /\ Converts
    BY DEF NInv, IInv, Loops, Converts
  <2>2. {base, was, acc} \subseteq Cell
    BY <2>1 DEF NumberTypes, Radices
  <2>3. task = "read" => at \in 1..Len(text)+1
    BY <2>1, Where
  <2>. QED BY <2>1, <2>2, <2>3 DEF TypeOK, NumberTypes
<1>. QED BY <1>1, NumeralsStart, NumeralsKeep, PTL DEF Spec

(***************************************************************************)
(* A word is read as a single number exactly if it is a numeral whose      *)
(* value a cell holds, as that value; and BASE is what it was before, on   *)
(* every way out of READ_NUMBER.                                           *)
(***************************************************************************)
THEOREM NumeralsRead == Spec => []ReadsNumerals
<1>1. NInv => ReadsNumerals
  <2>. SUFFICES ASSUME NInv, task = "done"
                PROVE  /\ base = was
                       /\ Char(text, 1) # Quote =>
                            \A n \in Cell : IsNumeral(text, base, n) <=> result = <<n>>
    BY DEF ReadsNumerals
  <2>1. base = was /\ text \in Seq(Int) /\ base \in Cell \ {0, 1}
    BY DEF NInv, Converts, Ended, NumberTypes, Radices
  <2>2. ASSUME Char(text, 1) # Quote, NEW n \in Cell
        PROVE  IsNumeral(text, base, n) <=> result = <<n>>
    <3>1. IsNumeral(text, base, n) <=> Numeral(text, base) /\ n = NumeralCell(text, base)
      BY <2>1, TakenApart
    <3>2. result = IF Numeral(text, base) THEN <<NumeralCell(text, base)>> ELSE DNum(text, base)
      BY <2>2 DEF NInv, Converts, Ended
    <3>3. DNum(text, base) # <<n>>
      <4>. DEFINE d == DNum(text, base)
      <4>1. d = <<>> \/ d \in Cell \X Cell
        BY <2>1, DNumShape
      <4>. HIDE DEF d
      <4>2. d = <<>> \/ Len(d) = 2
        BY <4>1
      <4>3. d # <<n>>
        BY <4>2
      <4>. QED BY <4>3 DEF d
    <3>. QED BY <3>1, <3>2, <3>3
  <2>. QED BY <2>1, <2>2
<1>. QED BY <1>1, NumeralsStart, NumeralsKeep, PTL DEF Spec

(***************************************************************************)
(* What U. . and D. print, in any base and for cells of any width, is read *)
(* back as the cells it was printed from, the most negative ones included. *)
(***************************************************************************)
THEOREM PrintedComesBack == Spec => []PrintedReadsBack
<1>1. NInv => PrintedReadsBack
  <2>. SUFFICES ASSUME NInv, task = "done", number # <<>>
                PROVE  result = IF number[1] = "d." THEN <<number[2], number[3]>>
                                ELSE <<number[2]>>
    BY DEF PrintedReadsBack
  <2>1. base = was /\ base \in Cell \ {0, 1} /\ IsNumber(number)
    BY DEF NInv, Converts, Ended, NumberTypes, Radices
  <2>2. TypedText(number, base, text)
    BY <2>1 DEF NInv, Converts, Printed
  <2>3. Char(text, 1) # Quote
    BY <2>1, <2>2, TypedWord
  <2>4. result = IF Numeral(text, base) THEN <<NumeralCell(text, base)>> ELSE DNum(text, base)
    BY <2>3 DEF NInv, Converts, Ended
  <2>5. CASE number[1] = "d."
    BY <2>1, <2>2, <2>4, <2>5, TypedDouble
  <2>6. CASE number[1] # "d."
    BY <2>1, <2>2, <2>4, <2>6, TypedSingle
  <2>. QED BY <2>5, <2>6
<1>. QED BY <1>1, NumeralsStart, NumeralsKeep, PTL DEF Spec
=============================================================================
