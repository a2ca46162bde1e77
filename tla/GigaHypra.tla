----------------------------- MODULE GigaHypra -----------------------------
(***************************************************************************)
(* The converters for Hypra-Ass and Giga-Ass (gighyp.c with hypra.c and    *)
(* giga.c): lines of a BASIC program with a label, an opcode, an argument  *)
(* and a comment.  What the flags say of spaces, file formats and string   *)
(* endings is left out, and so are the characters.                         *)
(***************************************************************************)
EXTENDS ToacmeIO

VARIABLE gh  \* locals: left (bytes of a line's head or of an opcode to come),
             \* first (of a pseudo opcode), flags and paren of GigaHypra_argument

GhLabels == {"gh_line", "gh_head", "gh_first", "gh_label", "gh_spaces", "gh_opcode", "gh_op",
             "gh_po1", "gh_po2", "gh_args", "gh_char", "gh_bang1", "gh_bang2", "gh_quoted",
             "gh_comment", "gh_text"}

FLAG_ADD_LEFT_BRACE == "add_left_brace"
FLAG_SKIP_OPENING == "skip_opening"
FLAG_SKIP_CLOSING == "skip_closing"

GhTypeOK ==
  gh \in [left : 0..4, first : 0..255, paren : Int,
          flags : SUBSET {FLAG_ADD_LEFT_BRACE, FLAG_SKIP_OPENING, FLAG_SKIP_CLOSING}]
GhFresh == [left |-> 0, first |-> 0, paren |-> 0, flags |-> {}]
GhInit == gh = GhFresh

BANG == 33
EndOfArgument == GotByte \in {COMMENT, 0}
EndOfWord == GotByte \in {SPACE, COMMENT, 0}

WithGh(r) == gh' = r
GhLocals == UNCHANGED gh

---------------------------------------------------------------------------
(* hypra_main, giga_main: one line.                                        *)

\* Link, line number and first byte: five bytes, unless the file has ended.
GhLine ==
  /\ pc \in {"body", "gh_line"}
  /\ client \in BasicFormats
  /\ Keep
  /\ IF IO_reached_eof THEN KeepTo("done") /\ GhLocals
     ELSE ReadTo("gh_head") /\ WithGh([GhFresh EXCEPT !.left = 4])
GhHead ==
  /\ pc = "gh_head"
  /\ Keep
  /\ ReadTo(IF gh.left > 1 THEN "gh_head" ELSE "gh_first")
  /\ WithGh([gh EXCEPT !.left = @ - 1])

\* A label, which Giga-Ass tells from tokens; its first byte is taken as it is.
GhFirst ==
  /\ pc = "gh_first"
  /\ Keep
  /\ GhLocals
  /\ IF EndOfWord \/ (client = "giga" /\ GotByte > 127) THEN KeepTo("gh_spaces")
     ELSE ReadTo("gh_label")
GigaHypra_label_definition ==
  /\ pc = "gh_label"
  /\ Keep
  /\ GhLocals
  /\ IF EndOfWord THEN KeepTo("gh_spaces") ELSE ReadTo("gh_label")

GhSpaces ==
  /\ pc = "gh_spaces"
  /\ Keep
  /\ GhLocals
  /\ CASE GotByte = SPACE -> ReadTo("gh_spaces")
       [] EndOfArgument -> KeepTo("gh_comment")
       [] OTHER -> KeepTo("gh_opcode")

\* GigaHypra_comment, then the end of the line.
GigaHypra_comment ==
  /\ Keep
  /\ GhLocals
  /\ \/ pc = "gh_comment" /\ IF GotByte = COMMENT THEN ReadTo("gh_text") ELSE KeepTo("gh_line")
     \/ pc = "gh_text" /\ IF GotByte = 0 THEN KeepTo("gh_line") ELSE ReadTo("gh_text")

---------------------------------------------------------------------------
(* Opcodes.                                                                *)

\* giga.c.  A token below FIRST_TOKEN is the name of a macro to call, and
\* part of the argument.  ACME_endmacro and ACME_endif close a brace;
\* the brace of a conditional is never opened.
FIRST_TOKEN == 160
TokenFlags == IF GotByte = 161 THEN {FLAG_ADD_LEFT_BRACE} ELSE {}
process_tokenized ==
  /\ pc = "gh_opcode"
  /\ client = "giga"
  /\ UNCHANGED quoted
  /\ IF GotByte < FIRST_TOKEN THEN KeepTo("gh_args") /\ GhLocals /\ UNCHANGED braces
     ELSE /\ ReadTo("gh_args")
          /\ WithGh([gh EXCEPT !.flags = TokenFlags])
          /\ braces' = IF GotByte \in {162, 176} THEN braces - 1 ELSE braces

\* hypra.c.  An opcode has three letters, or ends before.
real_opcode ==
  /\ Keep
  /\ \/ /\ pc = "gh_opcode"
        /\ client = "hypra"
        /\ GotByte # DOT
        /\ ReadTo("gh_op")
        /\ WithGh([gh EXCEPT !.left = 2])
     \/ /\ pc = "gh_op"
        /\ IF EndOfWord \/ gh.left = 0 THEN KeepTo("gh_args") /\ GhLocals
           ELSE ReadTo("gh_op") /\ WithGh([gh EXCEPT !.left = @ - 1])

\* A pseudo opcode is a dot and two letters; a shorter one is complained of.
\* ".ma" and ".if" open a brace and ".rt" and ".ei" close it; ".el" does both.
\* "..." calls a macro; its arguments lose their parentheses like those of ".ma".
PseudoFlags(a, b) ==
  (IF <<a, b>> \in {<<77, 65>>, <<73, 70>>} THEN {FLAG_ADD_LEFT_BRACE} ELSE {})
    \cup (IF <<a, b>> \in {<<77, 65>>, <<DOT, DOT>>} THEN {FLAG_SKIP_OPENING} ELSE {})
process_pseudo_opcode ==
  /\ UNCHANGED quoted
  /\ \/ /\ pc = "gh_opcode"
        /\ client = "hypra"
        /\ GotByte = DOT
        /\ ReadTo("gh_po1")
        /\ GhLocals
        /\ UNCHANGED braces
     \/ /\ pc = "gh_po1"
        /\ UNCHANGED braces
        /\ IF EndOfWord THEN KeepTo("gh_args") /\ GhLocals
           ELSE ReadTo("gh_po2") /\ WithGh([gh EXCEPT !.first = IF GotByte = EOF THEN 255 ELSE GotByte])
     \/ /\ pc = "gh_po2"
        /\ IF EndOfWord THEN KeepTo("gh_args") /\ WithGh(GhFresh) /\ UNCHANGED braces
           ELSE /\ ReadTo("gh_args")
                /\ WithGh([GhFresh EXCEPT !.flags = PseudoFlags(gh.first, GotByte)])
                /\ braces' = IF <<gh.first, GotByte>> \in {<<82, 84>>, <<69, 73>>}
                             THEN braces - 1 ELSE braces

---------------------------------------------------------------------------
(* GigaHypra_argument: its loop tests for the end, then takes an operator, *)
(* and then a character, which is not tested again.                        *)

ArgumentEnds ==
  /\ pc = "gh_args"
  /\ EndOfArgument
  /\ KeepTo("gh_comment")
  /\ UNCHANGED quoted
  /\ braces' = IF FLAG_ADD_LEFT_BRACE \in gh.flags THEN braces + 1 ELSE braces
  /\ GhLocals

\* "!x!": the character in the middle is printed if it is no operator.
GigaHypra_operator ==
  /\ GhLocals
  /\ UNCHANGED braces
  /\ \/ pc = "gh_args" /\ GotByte = BANG /\ ReadTo("gh_bang1") /\ UNCHANGED quoted
     \/ /\ pc = "gh_bang1"
        /\ IF EndOfArgument THEN KeepTo("gh_char") ELSE ReadTo("gh_bang2")
        /\ quoted' = (quoted # (GotByte = QUOTE))
     \/ /\ pc = "gh_bang2"
        /\ UNCHANGED quoted
        /\ IF GotByte = BANG THEN ReadTo("gh_char") ELSE KeepTo("gh_char")

\* The parentheses around a macro's arguments are left out.
Parenthesis ==
  LET skip == FLAG_SKIP_CLOSING \in gh.flags /\ gh.paren = 0
  IN  CASE GotByte = OPENING /\ FLAG_SKIP_OPENING \in gh.flags ->
             [gh EXCEPT !.flags = (@ \ {FLAG_SKIP_OPENING}) \cup {FLAG_SKIP_CLOSING}]
        [] GotByte = OPENING /\ FLAG_SKIP_OPENING \notin gh.flags -> [gh EXCEPT !.paren = @ + 1]
        [] GotByte = CLOSING /\ skip -> [gh EXCEPT !.flags = @ \ {FLAG_SKIP_CLOSING}]
        [] GotByte = CLOSING /\ ~skip -> [gh EXCEPT !.paren = @ - 1]
        [] OTHER -> gh

GigaHypra_argument ==
  /\ pc = "gh_char" \/ (pc = "gh_args" /\ ~EndOfArgument /\ GotByte # BANG)
  /\ UNCHANGED braces
  /\ WithGh(Parenthesis)
  /\ quoted' = (quoted # (GotByte = QUOTE))
  /\ ReadTo(IF GotByte = QUOTE THEN "gh_quoted" ELSE "gh_args")

\* A string, closed also where the line ends before it does.
GhQuoted ==
  /\ pc = "gh_quoted"
  /\ GhLocals
  /\ UNCHANGED braces
  /\ quoted' = (quoted # (GotByte \in {0, QUOTE}))
  /\ CASE GotByte = 0 -> KeepTo("gh_args")
       [] GotByte = QUOTE -> ReadTo("gh_args")
       [] OTHER -> ReadTo("gh_quoted")

GhNext == \/ GhLine \/ GhHead \/ GhFirst \/ GigaHypra_label_definition \/ GhSpaces
          \/ process_tokenized \/ real_opcode \/ process_pseudo_opcode \/ ArgumentEnds
          \/ GigaHypra_operator \/ GigaHypra_argument \/ GhQuoted \/ GigaHypra_comment
=============================================================================
