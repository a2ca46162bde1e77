---------------------------- MODULE AssBlaster ----------------------------
(***************************************************************************)
(* The converter for VisAss, AssBlaster 3.x and Flash8-AssBlaster (ab.c    *)
(* with the configurations of vis.c, ab3.c and f8ab.c): a line is a code,  *)
(* an argument with names, strings and packed numbers, and a comment.      *)
(* What a character is converted to, mnemonics and messages are left out.  *)
(***************************************************************************)
EXTENDS ToacmeIO

VARIABLE ab  \* locals: where parse_unspecified (ret) and pipe_name (nret)
             \* return to, handled, the bytes a number still needs

AbLabels == {"body", "ab_head", "ab_head4", "ab_head5", "ab_line", "ab_mnemo", "ab_mode",
             "ab_pseudo", "ab_unused", "ab_name", "ab_args", "ab_quoted", "ab_number",
             "ab_comment", "ab_ctext", "ab_eol", "ab_garbage"}
AbTypeOK ==
  ab \in [ret : {"ab_pseudo", "ab_unused", "ab_comment"}, nret : {"ab_args", "ab_comment"},
          handled : BOOLEAN, need : 0..3]
AbInit == ab = [ret |-> "ab_comment", nret |-> "ab_args", handled |-> FALSE, need |-> 0]

(***************************************************************************)
(* struct vab: VABFLAG_ADD_DOT, VABFLAG_HASLENGTHBYTE, the addressing      *)
(* modes, and the ranges of codes.                                         *)
(***************************************************************************)
Vab(adds, length, modes, mnemo, mnemos, pseudo, pseudos, unused) ==
  [add_dot |-> adds, has_length |-> length, address_mode_count |-> modes,
   first_mnemonic |-> mnemo, mnemonic_count |-> mnemos, first_pseudo_opcode |-> pseudo,
   pseudo_opcode_count |-> pseudos, first_unused |-> unused]
ab3_conf == Vab(TRUE, FALSE, 12, 128, 40, 200, 13, 213)
f8ab_conf == Vab(TRUE, FALSE, 23, 128, 92, 220, 17, 237)
visass_conf == Vab(FALSE, TRUE, 2, 0, 72, 72, 14, 256)
conf == CASE client = "ab3" -> ab3_conf [] client = "f8ab" -> f8ab_conf [] OTHER -> visass_conf

In(first, count) == GotByte >= first /\ GotByte < first + count

SCREENCODE_UPARROW == 30
Digits == 48..57
NameByte == GotByte < 32 \/ GotByte \in Digits

Locals == UNCHANGED ab
WithAb(r) == ab' = r

---------------------------------------------------------------------------
(* visass_main, ab3_main, f8ab_main: the header, checked and skipped.      *)

AbHeader ==
  /\ Keep /\ Locals
  /\ \/ pc = "body" /\ client \in AbFormats /\ ReadTo("ab_head")
     \/ /\ pc = "ab_head"
        /\ CASE GotByte = AB_ENDOFLINE -> ReadTo("ab_line")
             [] GotByte = 0 /\ client = "f8ab" -> ReadTo("ab_head4")
             [] OTHER -> KeepTo("ab_line")
     \/ pc = "ab_head4" /\ IF GotByte = 3 THEN ReadTo("ab_head5") ELSE KeepTo("ab_line")
     \/ /\ pc = "ab_head5"
        /\ IF GotByte = AB_ENDOFLINE THEN ReadTo("ab_line") ELSE KeepTo("ab_line")

---------------------------------------------------------------------------
(* AB_main: one line.                                                      *)

AB_line ==
  /\ pc = "ab_line"
  /\ Keep
  /\ IF IO_reached_eof THEN KeepTo("done") /\ Locals
     ELSE /\ WithAb([ab EXCEPT !.handled = FALSE])
          /\ IF conf.has_length THEN ReadTo("ab_mnemo") ELSE KeepTo("ab_mnemo")

\* parse_mnemo: the mode is read, and the byte after it.  VisAss has no
\* mode.  Mutant: the byte after the mode is not fetched.
Bugparse_mode == pc = "ab_mode" /\ Keep /\ Locals /\ KeepTo("ab_args")
parse_mode == pc = "ab_mode" /\ Keep /\ Locals /\ ReadTo("ab_args")
parse_mnemo ==
  /\ pc = "ab_mnemo"
  /\ Keep
  /\ IF In(conf.first_mnemonic, conf.mnemonic_count)
     THEN /\ WithAb([ab EXCEPT !.handled = TRUE, !.ret = "ab_pseudo"])
          /\ ReadTo(IF conf.address_mode_count > 2 THEN "ab_mode" ELSE "ab_args")
     ELSE KeepTo("ab_pseudo") /\ Locals

\* parse_pseudo_opcode: offset 5 defines a macro, 7 calls one, and 6, the
\* end of a definition, stands for a string that begins with a brace.
AB_PSEUDOOFFSET_MACRODEF == 5
AB_PSEUDOOFFSET_MACROCALL == 7
EndMacro == 6
Brace(offset) == IF offset = EndMacro THEN -1
                 ELSE IF offset = AB_PSEUDOOFFSET_MACRODEF THEN 1 ELSE 0
parse_pseudo_opcode ==
  /\ pc = "ab_pseudo"
  /\ UNCHANGED quoted
  /\ IF ~In(conf.first_pseudo_opcode, conf.pseudo_opcode_count)
     THEN KeepTo("ab_unused") /\ Locals /\ UNCHANGED braces
     ELSE LET offset == GotByte - conf.first_pseudo_opcode
              macro == offset \in {AB_PSEUDOOFFSET_MACRODEF, AB_PSEUDOOFFSET_MACROCALL}
          IN  /\ braces' = braces + Brace(offset)
              /\ WithAb([ab EXCEPT !.handled = TRUE, !.ret = "ab_unused", !.nret = "ab_args"])
              /\ ReadTo(IF macro THEN "ab_name" ELSE "ab_args")

\* pipe_name: a name with the mark for global labels is taken without it.
pipe_name(r) ==
  /\ WithAb(r)
  /\ IF conf.add_dot /\ GotByte = SCREENCODE_UPARROW THEN ReadTo("ab_name") ELSE KeepTo("ab_name")

\* A code without meaning; a line that begins with no code at all.
Unused == GotByte >= conf.first_unused /\ GotByte # AB_ENDOFLINE
Argument == [ab EXCEPT !.ret = "ab_comment"]
OtherLines ==
  /\ pc = "ab_unused"
  /\ Keep
  /\ \/ Unused /\ ReadTo("ab_args") /\ WithAb([Argument EXCEPT !.handled = TRUE])
     \/ ~Unused /\ (ab.handled \/ GotByte = COMMENT) /\ KeepTo("ab_comment") /\ Locals
     \/ /\ ~Unused /\ ~ab.handled /\ GotByte # COMMENT
        /\ CASE GotByte = 0 -> ReadTo("ab_comment") /\ Locals
             [] GotByte = SPACE -> ReadTo("ab_args") /\ WithAb(Argument)
             [] OTHER -> pipe_name([ab EXCEPT !.nret = "ab_comment"])

\* A comment, if something is in it.
LateComment ==
  /\ Keep
  /\ Locals
  /\ \/ pc = "ab_comment" /\ IF GotByte = COMMENT THEN ReadTo("ab_ctext") ELSE KeepTo("ab_eol")
     \/ /\ pc = "ab_ctext"
        /\ IF GotByte = AB_ENDOFLINE THEN KeepTo("ab_eol") ELSE ReadTo("ab_ctext")

\* The line ends: what else is in it, garbage, is passed over.  A byte of
\* zero is taken for the end of the file, and still ends a line only.
EndOfLine ==
  /\ Keep
  /\ Locals
  /\ \/ /\ pc = "ab_eol"
        /\ IF GotByte \in {AB_ENDOFLINE, 0} THEN ReadTo("ab_line") ELSE ReadTo("ab_garbage")
     \/ /\ pc = "ab_garbage"
        /\ IF GotByte = AB_ENDOFLINE THEN KeepTo("ab_eol") ELSE ReadTo("ab_garbage")

---------------------------------------------------------------------------
(* The functions it calls.                                                 *)

\* pipe_global_name
pipe_global_name ==
  /\ pc = "ab_name"
  /\ Keep
  /\ Locals
  /\ IF NameByte THEN ReadTo("ab_name") ELSE KeepTo(ab.nret)

\* parse_quoted, after the opening quote: the string is closed, also where
\* the line ends before it does, and the end of the line is left unread.
\* Mutant: no closing quote at the end of a line.
Bugparse_quoted ==
  /\ pc = "ab_quoted"
  /\ Locals
  /\ UNCHANGED braces
  /\ CASE GotByte = QUOTE -> ReadTo("ab_args") /\ quoted' = FALSE
       [] GotByte = AB_ENDOFLINE -> KeepTo("ab_args") /\ quoted' = quoted
       [] OTHER -> ReadTo("ab_quoted") /\ quoted' = quoted
parse_quoted ==
  /\ pc = "ab_quoted"
  /\ Locals
  /\ UNCHANGED braces
  /\ CASE GotByte = QUOTE -> ReadTo("ab_args") /\ quoted' = FALSE
       [] GotByte = AB_ENDOFLINE -> KeepTo("ab_args") /\ quoted' = FALSE
       [] OTHER -> ReadTo("ab_quoted") /\ quoted' = quoted

\* parse_number of ab3.c and f8ab.c: how many bytes follow the first one.
Ab3Size(flags) ==
  CASE HasBit(flags, 1) /\ ~HasBit(flags, 4) -> 0
    [] HasBit(flags, 4) /\ ~HasBit(flags, 1) -> 1
    [] ~HasBit(flags, 1) /\ ~HasBit(flags, 4) -> 2
    [] OTHER -> 0
F8abSize(flags) == flags % 4

\* The first byte; that of VisAss returns at once and has read nothing.
number_parser ==
  IF client = "vis" THEN KeepTo("ab_args") /\ Locals
  ELSE LET size == IF client = "ab3" THEN Ab3Size(GotByte) ELSE F8abSize(GotByte)
       IN  /\ ReadTo(IF size = 0 THEN "ab_args" ELSE "ab_number")
           /\ WithAb([ab EXCEPT !.need = size])
\* Mutant: one byte too many.
Bugparse_number ==
  /\ pc = "ab_number"
  /\ Keep
  /\ ReadTo(IF ab.need > 0 THEN "ab_number" ELSE "ab_args")
  /\ WithAb([ab EXCEPT !.need = @ - 1])
parse_number ==
  /\ pc = "ab_number"
  /\ Keep
  /\ ReadTo(IF ab.need > 1 THEN "ab_number" ELSE "ab_args")
  /\ WithAb([ab EXCEPT !.need = @ - 1])

\* parse_unspecified: one turn of its loop.
parse_unspecified ==
  /\ pc = "ab_args"
  /\ UNCHANGED braces
  /\ quoted' = (quoted \/ GotByte = QUOTE)
  /\ CASE GotByte \in {AB_ENDOFLINE, COMMENT} -> KeepTo(ab.ret) /\ Locals
       [] HasBit(GotByte, 128) /\ GotByte # AB_ENDOFLINE -> number_parser
       [] GotByte \in 0..31 -> pipe_name([ab EXCEPT !.nret = "ab_args"])
       [] GotByte = QUOTE -> ReadTo("ab_quoted") /\ Locals
       [] OTHER -> ReadTo("ab_args") /\ Locals

AbNext == \/ AbHeader \/ AB_line \/ parse_mnemo \/ parse_mode \/ parse_pseudo_opcode
          \/ OtherLines \/ pipe_global_name \/ parse_unspecified \/ parse_quoted
          \/ parse_number \/ LateComment \/ EndOfLine
==========================================================================
