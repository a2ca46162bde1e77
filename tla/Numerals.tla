------------------------------ MODULE Numerals ------------------------------
(***************************************************************************)
(* Numbers as text: pictured output (asm/format.asm) divides by BASE with  *)
(* UD/MOD until nothing is left, READ_NUMBER (asm/interpreter.asm)         *)
(* multiplies by it with UM*, and (dnum) (forth/base.fs) takes the         *)
(* numerals that end in a dot.  Digits are their values, whatever the case *)
(* of the letter; the other characters are numbers below 0.  Words are     *)
(* shorter than 256 characters, which READ_NUMBER counts in a byte; what   *)
(* stands behind the last one, where a prefix alone makes it look, is no   *)
(* digit.                                                                  *)
(***************************************************************************)
EXTENDS Arithmetic

CONSTANTS
  Bases,       \* values of BASE whose digits have characters: 2 to 36
  PrefixBase,  \* what # $ and % stand for: 10, 16 and 2
  Texts        \* words to be read as numbers

Minus == -1
Hash == -2
Dollar == -3
Percent == -4
Quote == -5
Dot == -6
Blank == -7

ASSUME NumeralsAssumption ==
  /\ Bases \subseteq Cell \ {0, 1}
  /\ PrefixBase \in [{Hash, Dollar, Percent} -> Cell \ {0, 1}]
  /\ Texts \subseteq Seq(Int)

VARIABLES
  task,     \* what is under way
  base,     \* BASE
  was,      \* BASE as READ_NUMBER pushed it
  number,   \* what is printed: word, low and high cell
  ud,       \* what is left of it
  text,     \* the hold area; the word that is read
  at,       \* the character READ_NUMBER is at
  times,    \* it is about to multiply
  acc,      \* the number so far
  negate,   \* a minus sign was read
  result    \* the cells read, none for a word not found

numVars == <<task, base, was, number, ud, text, at, times, acc, negate, result>>

vars == <<arithVars, numVars>>

Init ==
  /\ ArithInit
  /\ task = "none" /\ base \in Bases /\ was = base
  /\ number = <<>> /\ ud = <<0, 0>> /\ text = <<>>
  /\ at = 0 /\ times = FALSE /\ acc = 0 /\ negate = FALSE /\ result = <<>>

---------------------------------------------------------------------------
(* Printing.                                                               *)

\* U. of one cell, . of a signed one, D. of a signed double: <# and the
\* magnitude.
LESS_NUMBER_SIGN(w, l, h) ==
  /\ task = "none" /\ pc = "idle"
  /\ w # "d." => h = 0
  /\ number' = <<w, l, h>>
  /\ ud' = CASE w = "u." -> <<l, 0>> [] w = "." -> <<Abs(l), 0>>
             [] w = "d." -> <<DAbsLow(l, h), DAbsHigh(l, h)>>
  /\ text' = <<>>
  /\ task' = "print"
  /\ UNCHANGED <<arithVars, base, was, at, times, acc, negate, result>>

\* #: the next digit, from the right.
NUMBER_SIGN ==
  /\ task = "print" /\ pc = "idle"
  /\ Begin("ud/mod", ud[1], ud[2], base)
  /\ UNCHANGED numVars

\* Mutant: SIGN looks at the low cell of a double.
BugSIGN == number[1] # "u." /\ Negative(number[2])

SIGN ==
  \/ number[1] = "." /\ Negative(number[2])
  \/ number[1] = "d." /\ Negative(number[3])

\* HOLD, and #S goes on until the double is 0.
HOLD ==
  /\ task = "print" /\ pc = "answered"
  /\ Return
  /\ ud' = <<answer[2], answer[3]>>
  /\ LET held == <<answer[1]>> \o text
     IN  IF ud' # <<0, 0>> THEN text' = held /\ task' = task
         ELSE text' = (IF SIGN THEN <<Minus>> ELSE <<>>) \o held /\ task' = "printed"
  /\ UNCHANGED <<base, was, number, at, times, acc, negate, result>>

---------------------------------------------------------------------------
(* Reading.                                                                *)

Char(s, i) == IF i \in 1..Len(s) THEN s[i] ELSE Blank

\* Where the numeral starts after its prefixes, each of which may stand once,
\* in this order.
AfterPrefix(s) ==
  LET i == IF Char(s, 1) = Hash THEN 2 ELSE 1
      j == IF Char(s, i) = Dollar THEN i + 1 ELSE i
  IN  IF Char(s, j) = Percent THEN j + 1 ELSE j

BaseOf(s) == IF AfterPrefix(s) = 1 THEN base ELSE PrefixBase[s[AfterPrefix(s) - 1]]

Digits(s, b) == \A i \in DOMAIN s : s[i] \in 0..b-1

\* UD* and M+ (of a digit), modulo a double.
UDStar(d, u) == <<(d[1] * u) % B, ((d[1] * u) \div B + d[2] * u) % B>>

MPlus(d, n) == <<(d[1] + n) % B, (d[2] + (d[1] + n) \div B) % B>>

\* The loop of (dnum) over the digits.
DoubleOf(digits, b) ==
  LET d[i \in 0..Len(digits)] ==
        IF i = 0 THEN <<0, 0>> ELSE MPlus(UDStar(d[i - 1], b), digits[i])
  IN  d[Len(digits)]

\* (dnum), the handler of words not found.
DNum(s, b) ==
  LET signed == Char(s, 1) = Minus
      body == SubSeq(s, IF signed THEN 2 ELSE 1, Len(s) - 1)
      d == DoubleOf(body, b)
  IN  IF Char(s, Len(s)) # Dot \/ body = <<>> \/ ~Digits(body, b) THEN <<>>
      ELSE IF signed THEN <<Negate(d[1]), DNegateHigh(d[1], d[2])>> ELSE d

Done(cells) ==
  /\ task' = "done"
  /\ result' = cells
  /\ UNCHANGED <<was, number, ud, text, at, acc, negate, times>>

\* Mutant: only a number that was read restores BASE.
BugNotANumber(s) ==
  /\ base' = base
  /\ Done(DNum(s, base'))

\* READ_NUMBER fails, leaving the word to NOTFOUND_VEC.
NotANumber(s) ==
  /\ base' = was
  /\ Done(DNum(s, base'))

ANumber(n) ==
  /\ base' = was
  /\ Done(<<IF negate THEN Negate(n) ELSE n>>)

\* Entry: BASE is pushed, prefixes and the minus sign are taken.  A minus
\* sign alone, with or without prefix, is 0.
READ_NUMBER(s) ==
  /\ pc = "idle"
  /\ was' = base /\ text' = s /\ acc' = 0
  /\ LET i == AfterPrefix(s)
     IN  IF Char(s, 1) = Quote
           THEN /\ task' = "done"
                /\ result' = IF Len(s) = 3 /\ s[3] = Quote THEN <<s[2]>> ELSE <<>>
                /\ base' = base /\ at' = 1 /\ negate' = FALSE /\ times' = FALSE
           ELSE /\ negate' = (Char(s, i) = Minus)
                /\ IF Char(s, i) = Minus /\ i = Len(s)
                     THEN task' = "done" /\ result' = <<0>> /\ base' = base
                     ELSE task' = "read" /\ result' = <<>> /\ base' = BaseOf(s)
                /\ times' = negate'
                /\ at' = IF negate' THEN i + 1 ELSE i
  /\ UNCHANGED <<arithVars, ud>>

\* What was printed is typed in, a double with its dot.
ReadBack ==
  /\ task = "printed"
  /\ READ_NUMBER(IF number[1] = "d." THEN Append(text, Dot) ELSE text)
  /\ number' = number

ReadText(s) ==
  /\ task = "none"
  /\ READ_NUMBER(s)
  /\ number' = <<>>

\* Mutant: the carry out of the low half is dropped.
BugOverflows(n) == FALSE

\* The digit carried out of the cell.
Overflows(n) == n >= B

ReadDigit ==
  /\ task = "read" /\ ~times /\ pc = "idle"
  /\ LET n == acc + Char(text, at)
     IN  IF Char(text, at) \notin 0..base-1 \/ Overflows(n) THEN NotANumber(text)
         ELSE IF at = Len(text) THEN ANumber(n)
         ELSE /\ acc' = n /\ at' = at + 1 /\ times' = TRUE
              /\ UNCHANGED <<task, base, was, number, ud, text, negate, result>>
  /\ UNCHANGED arithVars

ReadTimes ==
  /\ task = "read" /\ times /\ pc = "idle"
  /\ Begin("um*", 0, acc, base)
  /\ UNCHANGED numVars

\* A product above a cell is no number.
ReadTimed ==
  /\ task = "read" /\ pc = "answered"
  /\ Return
  /\ IF answer[2] # 0 THEN NotANumber(text)
     ELSE /\ acc' = answer[1] /\ times' = FALSE
          /\ UNCHANGED <<task, base, was, number, ud, text, at, negate, result>>

Rest ==
  /\ task = "done"
  /\ task' = "none" /\ was' = base
  /\ number' = <<>> /\ ud' = <<0, 0>> /\ text' = <<>>
  /\ at' = 0 /\ times' = FALSE /\ acc' = 0 /\ negate' = FALSE /\ result' = <<>>
  /\ UNCHANGED <<arithVars, base>>

---------------------------------------------------------------------------

Next ==
  \/ task = "none" /\ UNCHANGED numVars
       /\ ((\E w \in Words, x, y, z \in Cell : Begin(w, x, y, z)) \/ Return)
  \/ Run /\ UNCHANGED numVars
  \/ \E w \in {"u.", ".", "d."}, l, h \in Cell : LESS_NUMBER_SIGN(w, l, h)
  \/ NUMBER_SIGN \/ HOLD \/ ReadBack
  \/ \E s \in Texts : ReadText(s)
  \/ ReadDigit \/ ReadTimes \/ ReadTimed \/ Rest

Spec == Init /\ [][Next]_vars

---------------------------------------------------------------------------
(* Properties.                                                             *)

TypeOK ==
  /\ ArithTypeOK
  /\ task \in {"none", "print", "printed", "read", "done"}
  /\ {base, was, acc} \subseteq Cell
  /\ ud \in Cell \X Cell
  /\ times \in BOOLEAN /\ negate \in BOOLEAN
  /\ task = "read" => at \in 1..Len(text)+1

(***************************************************************************)
(* What U. . and D. print is read back as the cells it was printed from,   *)
(* in every base, the most negative numbers included.                      *)
(***************************************************************************)
PrintedReadsBack ==
  task = "done" /\ number # <<>> =>
    result = IF number[1] = "d." THEN <<number[2], number[3]>> ELSE <<number[2]>>

\* The digits' value.
ValueOf(digits, b) ==
  LET v[i \in 0..Len(digits)] == IF i = 0 THEN 0 ELSE v[i - 1] * b + digits[i]
  IN  v[Len(digits)]

Prefixes == {<<>>, <<Hash>>, <<Dollar>>, <<Percent>>, <<Hash, Dollar>>,
             <<Hash, Percent>>, <<Dollar, Percent>>, <<Hash, Dollar, Percent>>}

\* The text is: prefixes, a sign or not, digits; without prefix in base b.
IsNumeral(s, b, cell) ==
  \E i \in 1..Len(s), sign_ \in {0, 1} :
    LET radix == IF i = 1 THEN b ELSE PrefixBase[s[i - 1]]
        digits == SubSeq(s, i + sign_, Len(s))
        n == ValueOf(digits, radix)
    IN  /\ SubSeq(s, 1, i - 1) \in Prefixes
        /\ sign_ = 1 => s[i] = Minus
        /\ Digits(digits, radix)
        /\ digits = <<>> => sign_ = 1
        /\ n < B
        /\ cell = IF sign_ = 1 THEN Negate(n) ELSE n

(***************************************************************************)
(* A word is read as a single number exactly if it is one and a cell holds *)
(* it ("overflow" included), with that value; and BASE is what it was,     *)
(* however the reading ended.                                              *)
(***************************************************************************)
ReadsNumerals ==
  task = "done" =>
    /\ base = was
    /\ Char(text, 1) # Quote =>
         \A n \in Cell : IsNumeral(text, base, n) <=> result = <<n>>
===========================================================================
