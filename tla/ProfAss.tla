------------------------------ MODULE ProfAss ------------------------------
(***************************************************************************)
(* The converter for Professional Ass (prof.c): a line has its length, its *)
(* indentation and characters of which bit 7 says reverse.  The `+' before *)
(* a label is eaten and the space after the label doubled, so that columns *)
(* stay; markers show where reverse begins and ends.                       *)
(***************************************************************************)
EXTENDS ToacmeIO

VARIABLE pa  \* locals length1, ii, hibit, linestate, and what was put out in
             \* this line: col characters, rev: a reverse marker is open

ProfLabels == {"prof_len", "prof_indent", "prof_char", "prof_len2"}

REMOVEPLUS == "removeplus"
DOUBLENEXTSPACE == "doublenextspace"
NOTHINGSPECIAL == "nothingspecial"

ProfTypeOK ==
  pa \in [length1 : 0..255, ii : 0..252, hibit : BOOLEAN, rev : BOOLEAN, col : 0..253,
          linestate : {REMOVEPLUS, DOUBLENEXTSPACE, NOTHINGSPECIAL}]
NewLine(length1) ==
  [length1 |-> length1, ii |-> 0, hibit |-> FALSE, rev |-> FALSE, col |-> 0,
   linestate |-> REMOVEPLUS]
ProfInit == pa = NewLine(0)

PLUS == 43

\* The first length, twice: the file may end here, or hold nonsense.
ProfLine ==
  \/ pc = "body" /\ client = "prof" /\ ReadTo("prof_len") /\ UNCHANGED pa
  \/ /\ pc = "prof_len"
     /\ IF GotByte < 3 THEN KeepTo("done") /\ UNCHANGED pa
        ELSE ReadTo("prof_indent") /\ pa' = NewLine(GotByte)

\* Characters follow the indentation if the length says so.
ProfIndent ==
  /\ pc = "prof_indent"
  /\ ReadTo(IF pa.length1 > 3 THEN "prof_char" ELSE "prof_len2")
  /\ UNCHANGED pa

\* Mutant: the space that makes up for the `+' is lost.
BugPut(state, byte) ==
  CASE byte = PLUS /\ state = REMOVEPLUS -> [state |-> DOUBLENEXTSPACE, put |-> 0]
    [] byte = SPACE /\ state = DOUBLENEXTSPACE -> [state |-> NOTHINGSPECIAL, put |-> 1]
    [] byte \notin {PLUS, SPACE} /\ state = REMOVEPLUS -> [state |-> NOTHINGSPECIAL, put |-> 1]
    [] OTHER -> [state |-> state, put |-> 1]
\* Outside of comments: what becomes of linestate, characters put out.
Put(state, byte) ==
  CASE byte = PLUS /\ state = REMOVEPLUS -> [state |-> DOUBLENEXTSPACE, put |-> 0]
    [] byte = SPACE /\ state = DOUBLENEXTSPACE -> [state |-> NOTHINGSPECIAL, put |-> 2]
    [] byte \notin {PLUS, SPACE} /\ state = REMOVEPLUS -> [state |-> NOTHINGSPECIAL, put |-> 1]
    [] OTHER -> [state |-> state, put |-> 1]

\* A change of bit 7 puts out a marker; at the end of the line an open one
\* is closed.
ProfChar ==
  LET reverse == HasBit(GotByte, 128)
      after == IF reverse THEN [state |-> pa.linestate, put |-> 1]
               ELSE Put(pa.linestate, GotByte % 128)
      marked == IF reverse # pa.hibit THEN reverse ELSE pa.rev
      more == pa.ii + 1 < pa.length1 - 3
  IN  /\ pc = "prof_char"
      /\ pa' = [pa EXCEPT !.ii = @ + 1, !.hibit = reverse, !.col = @ + after.put,
                          !.rev = marked /\ (more \/ ~reverse), !.linestate = after.state]
      /\ ReadTo(IF more THEN "prof_char" ELSE "prof_len2")

\* The second length is compared and only complained of.
ProfLength2 == pc = "prof_len2" /\ ReadTo("prof_len") /\ UNCHANGED pa

ProfNext == Keep /\ (ProfLine \/ ProfIndent \/ ProfChar \/ ProfLength2)
=============================================================================
