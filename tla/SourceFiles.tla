--------------------------- MODULE SourceFiles ---------------------------
(***************************************************************************)
(* The files toacme reads, byte by byte: what other assemblers wrote, as   *)
(* the comments of toacme describe their formats (ab.c:15-24, 125-139,     *)
(* ab3.c:20-31, f8ab.c:145-159, 248-251, prof.c:16-23) and as the layout   *)
(* of BASIC programs has it for Hypra-Ass and Giga-Ass.  Nothing here is   *)
(* the converter's: each byte has a role in its file, and After tells      *)
(* which bytes, in which roles, may come next.                             *)
(***************************************************************************)
EXTENDS Integers, Sequences

CONSTANT FileBytes  \* format id -> the byte values its files are made of

EOF == -1
SPACE == 32
QUOTE == 34
OPENING == 40
CLOSING == 41
DOT == 46
COMMENT == 59        \* AB_COMMENT, and the comments of Hypra-Ass
AB_ENDOFLINE == 255

AbFormats == {"ab3", "f8ab", "vis"}
BasicFormats == {"hypra", "giga"}

\* `is' names the role, `left' and `len' count what is open or outstanding.
Role(is, left, len) == [is |-> is, left |-> left, len |-> len]
Plain(is) == Role(is, 0, 0)
As(role, bytes) == [role |-> role, bytes |-> bytes]

\* The bit of value that mask (a power of two) selects; EOF has every bit.
HasBit(value, mask) == (value \div mask) % 2 = 1

---------------------------------------------------------------------------
(* VisAss, AssBlaster 3.x and Flash8-AssBlaster.                           *)

MnemonicCodes(fmt) ==
  CASE fmt = "ab3" -> 129..199 [] fmt = "f8ab" -> 128..219 [] fmt = "vis" -> 1..71

FirstPseudo(fmt) == CASE fmt = "ab3" -> 200 [] fmt = "f8ab" -> 220 [] fmt = "vis" -> 72
PseudoCodes(fmt) == FirstPseudo(fmt)..(FirstPseudo(fmt) + IF fmt = "f8ab" THEN 16 ELSE 12)

ModeCodes(fmt) == 0..4 \cup 8..11 \cup (IF fmt = "f8ab" THEN {13, 16, 19, 21, 22} ELSE {})

\* Packed numbers: first bytes whose size and format exist, bytes to follow.
NumberCodes(fmt) ==
  CASE fmt = "ab3" -> {f \in 128..255 : /\ ~(HasBit(f, 1) /\ HasBit(f, 4))
                                        /\ \/ HasBit(f, 16) /\ ~HasBit(f, 8) /\ ~HasBit(f, 2)
                                           \/ HasBit(f, 2) /\ ~HasBit(f, 16)}
    [] fmt = "f8ab" -> {f \in 128..255 : ~(HasBit(f, 4) /\ HasBit(f, 8))}
    [] fmt = "vis" -> {}
NumberSize(fmt, f) ==
  IF fmt = "f8ab" THEN f % 4 ELSE IF HasBit(f, 1) THEN 0 ELSE IF HasBit(f, 4) THEN 1 ELSE 2

VabLine(fmt) ==
  IF fmt = "vis" THEN {As(Plain("length"), 0..127)}
  ELSE {As(Plain("start"), MnemonicCodes(fmt) \cup PseudoCodes(fmt) \cup 0..31 \cup {SPACE, COMMENT})}
VabEnd == {As(Plain("text"), {COMMENT}), As(Plain("eol"), {AB_ENDOFLINE})}
VabName == VabEnd \cup {As(Plain("name"), 1..31)}
VabArgument(fmt) ==
  VabEnd \cup {As(Plain("arg"), 1..127 \ {QUOTE, COMMENT}), As(Plain("quote"), {QUOTE})}
        \cup {As(Role("num", NumberSize(fmt, f), 0), {f}) : f \in NumberCodes(fmt) \ {AB_ENDOFLINE}}

AfterStart(fmt, b) ==
  CASE b = COMMENT /\ fmt # "vis" -> {As(Plain("text"), 0..254), As(Plain("eol"), {AB_ENDOFLINE})}
    [] b = 0 -> {As(Plain("eol"), {AB_ENDOFLINE})}
    [] b \in MnemonicCodes(fmt) /\ fmt # "vis" -> {As(Plain("mode"), ModeCodes(fmt))}
    [] b \in 1..31 /\ fmt # "vis" -> VabName
    [] OTHER -> VabArgument(fmt)

AfterVab(fmt, r, b) ==
  CASE r.is = "eol" -> VabLine(fmt)
    [] r.is = "length" -> {As(Plain("start"), MnemonicCodes(fmt) \cup PseudoCodes(fmt))}
    [] r.is = "start" -> AfterStart(fmt, b)
    [] r.is = "name" -> VabName
    [] r.is = "num" /\ r.left > 0 -> {As(Role("data", r.left - 1, 0), 0..255)}
    [] r.is = "data" /\ r.left > 0 -> {As(Role("data", r.left - 1, 0), 0..255)}
    [] r.is = "quote" -> {As(Plain("quote"), 0..254 \ {QUOTE}), As(Plain("arg"), {QUOTE}),
                          As(Plain("eol"), {AB_ENDOFLINE})}
    [] r.is = "text" -> {As(Plain("text"), 0..254), As(Plain("eol"), {AB_ENDOFLINE})}
    [] OTHER -> VabArgument(fmt)

---------------------------------------------------------------------------
(* Hypra-Ass and Giga-Ass: BASIC lines of link, number, text and a zero;   *)
(* a link of zero ends the program.  In an argument `left' is the number   *)
(* of open parentheses.  An operator is !x! and has an operand.            *)

Letters == 65..90
Middles == {60, 61, 62, 65, 78, 79}

BasicEnd == {As(Plain("text"), {COMMENT}), As(Plain("eol"), {0})}
BasicOpcode(fmt) ==
  IF fmt = "giga" THEN {As(Plain("token"), 160..255), As(Role("arg", 0, 0), Letters)}
  ELSE {As(Role("op", 2, 0), Letters), As(Role("po", 2, 0), {DOT})}
BasicSpace(fmt) == BasicEnd \cup {As(Plain("space"), {SPACE})}
BasicOperand(d) ==
  {As(Role("arg", d, 0), (Letters \cup {61})), As(Role("arg", d + 1, 0), {OPENING}),
   As(Role("quote", d, 0), {QUOTE})}
BasicArgument(d) ==
  BasicOperand(d) \cup {As(Role("arg", d, 0), {SPACE, DOT}), As(Role("bang", d, 0), {33})}
    \cup (IF d = 0 THEN BasicEnd ELSE {As(Role("arg", d - 1, 0), {CLOSING})})

AfterBasic(fmt, r, b) ==
  CASE r.is = "eol" -> {As(Plain("link"), 0..255)}
    [] r.is = "link" -> IF b = 0 THEN {As(Plain("end"), {0})} ELSE {As(Plain("link2"), 0..255)}
    [] r.is = "end" -> {}
    [] r.is = "link2" -> {As(Plain("number"), 0..255)}
    [] r.is = "number" -> {As(Plain("number2"), 0..255)}
    [] r.is = "number2" -> BasicSpace(fmt) \cup {As(Plain("name"), Letters)}
                             \cup (IF fmt = "giga" THEN {As(Plain("token"), 160..255)} ELSE {})
    [] r.is = "name" -> BasicSpace(fmt) \cup {As(Plain("name"), Letters)}
    [] r.is = "space" -> BasicSpace(fmt) \cup BasicOpcode(fmt)
    [] r.is = "op" /\ r.left > 0 -> {As(Role("op", r.left - 1, 0), Letters)}
    [] r.is = "po" /\ r.left > 0 -> {As(Role("po", r.left - 1, b), Letters \cup {DOT})}
    [] r.is = "bang" -> {As(Role("middle", r.left, 0), Middles)}
    [] r.is = "middle" -> {As(Role("bang2", r.left, 0), {33})}
    [] r.is = "bang2" -> BasicOperand(r.left)
    [] r.is = "quote" -> {As(r, 1..255 \ {QUOTE}), As(Role("arg", r.left, 0), {QUOTE})}
                           \cup (IF r.left = 0 THEN {As(Plain("eol"), {0})} ELSE {})
    [] r.is = "text" -> {As(r, 1..255), As(Plain("eol"), {0})}
    [] OTHER -> BasicArgument(r.left)

---------------------------------------------------------------------------
(* Professional Ass: records of length, indentation, characters, length.   *)

AfterProf(r, b) ==
  CASE r.is \in {"len2", "header"} -> {As(Plain("len"), 3..255)}
    [] r.is = "len" -> {As(Role("indent", b - 3, b), 0..255)}
    [] OTHER -> IF r.left > 0 THEN {As(Role("char", r.left - 1, r.len), 0..255)}
                ELSE {As(Plain("len2"), {r.len})}

---------------------------------------------------------------------------
(* The header: a load address, then AB_ENDOFLINE for the AssBlasters; F8AB *)
(* 1.2 writes five bytes (f8ab.c:248-251).                                 *)

Headers(fmt) ==
  IF fmt \in AbFormats
  THEN {<<0, 8, AB_ENDOFLINE>>} \cup
       (IF fmt = "f8ab" THEN {<<AB_ENDOFLINE, 0, 0, 3, AB_ENDOFLINE>>} ELSE {})
  ELSE {<<1, 8>>}

FirstLine(fmt) == CASE fmt \in AbFormats -> VabLine(fmt)
                    [] fmt \in BasicFormats -> {As(Plain("link"), 0..255)}
                    [] OTHER -> {As(Plain("len"), 3..255)}

\* `left' bytes of the header were read; `len' tells the headers apart.
AfterHeader(fmt, r) ==
  IF r.left > 0 /\ r.left = r.len THEN FirstLine(fmt)
  ELSE {As(Role("header", r.left + 1, Len(h)), {h[r.left + 1]})
          : h \in {g \in Headers(fmt) : r.len \in {0, Len(g)}}}

AfterBody(fmt, r, b) ==
  CASE fmt \in AbFormats -> AfterVab(fmt, r, b)
    [] fmt \in BasicFormats -> AfterBasic(fmt, r, b)
    [] OTHER -> AfterProf(r, b)
Successors(fmt, r, b) ==
  CASE r.is = "raw" -> {As(r, 0..255)}
    [] r.is = "header" -> AfterHeader(fmt, r)
    [] OTHER -> AfterBody(fmt, r, b)
After(fmt, r, b) == {As(n.role, n.bytes \cap FileBytes[fmt]) : n \in Successors(fmt, r, b)}

\* Where a file that was written whole may end.
MayEnd(r) == r.is \in {"raw", "eol", "end", "len2"}

---------------------------------------------------------------------------
(* Blocks: macro definitions and conditionals.  What byte b, read in role  *)
(* r, opens or closes in the source.                                       *)

Opens(fmt, r, b) ==
  CASE fmt \in AbFormats -> r.is = "start" /\ b = FirstPseudo(fmt) + 5
    [] fmt = "giga" -> r.is = "token" /\ b \in {161, 174}
    [] fmt = "hypra" -> r.is = "po" /\ r.left = 0 /\ <<r.len, b>> \in {<<77, 65>>, <<73, 70>>}
    [] OTHER -> FALSE
Closes(fmt, r, b) ==
  CASE fmt \in AbFormats -> r.is = "start" /\ b = FirstPseudo(fmt) + 6
    [] fmt = "giga" -> r.is = "token" /\ b \in {162, 176}
    [] fmt = "hypra" -> r.is = "po" /\ r.left = 0 /\ <<r.len, b>> \in {<<82, 84>>, <<69, 73>>}
    [] OTHER -> FALSE
==========================================================================
