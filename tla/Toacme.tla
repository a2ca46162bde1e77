------------------------------- MODULE Toacme -------------------------------
(***************************************************************************)
(* toacme: main takes a format and two files, the converter of the format  *)
(* reads the one and writes the other until the input has ended.           *)
(***************************************************************************)
EXTENDS AssBlaster, GigaHypra, ProfAss, ObjectCode

VARIABLES
  streams,  \* the open ones of global_input_stream and global_output_stream
  status    \* what main returned

vars == <<pc, ioVars, outVars, ab, gh, pa, oc, streams, status>>

MainLabels == {"main", "load_low", "load_high", "body", "done", "exited"}
Labels == CASE client \in AbFormats -> MainLabels \cup AbLabels
            [] client \in BasicFormats -> MainLabels \cup GhLabels
            [] client = "prof" -> MainLabels \cup ProfLabels
            [] client = "object" -> MainLabels \cup ObjLabels
            [] OTHER -> {"main", "exited"}

Init ==
  /\ IoInit /\ AbInit /\ GhInit /\ ProfInit /\ ObjInit
  /\ pc = "main"
  /\ streams = {}
  /\ status = "none"

LocalVars == <<ab, gh, pa, oc>>

---------------------------------------------------------------------------
(* main                                                                    *)

\* The information is asked for; the arguments are wrong; a file cannot be
\* opened, the output when the input is open already.
Leave ==
  /\ pc = "main"
  /\ \E outcome \in {<<"success", {}>>, <<"failure", {}>>, <<"failure", {"input"}>>} :
       status' = outcome[1] /\ streams' = outcome[2]
  /\ Goto("exited")
  /\ UNCHANGED <<ioVars, outVars, LocalVars>>

\* IO_set_input_padding, which each client calls first.
\* Mutant: the AssBlaster formats are padded with zeroes like the others.
BugIO_set_input_padding(fmt) == 0
IO_set_input_padding(fmt) == IF fmt \in AbFormats THEN AB_ENDOFLINE ELSE 0

\* version_parse_id, the files are opened, version_main.
version_main ==
  /\ pc = "main"
  /\ streams' = {"input", "output"}
  /\ \E fmt \in Formats :
       /\ client' = fmt
       /\ padding_value' = IO_set_input_padding(fmt)
       /\ Goto(IF fmt = "object" THEN "obj_low" ELSE "load_low")
       /\ \/ fmt # "object" /\ sound' = TRUE /\ role' = Plain("header")
          \/ fmt \in RawFormats /\ sound' = FALSE /\ role' = Plain("raw")
  /\ UNCHANGED <<GotByte, IO_reached_eof, taken, blocks, outVars, LocalVars, status>>

\* The client returns, the files are closed.
Finish ==
  /\ pc = "done"
  /\ Goto("exited")
  /\ streams' = {}
  /\ status' = "success"
  /\ UNCHANGED <<ioVars, outVars, LocalVars>>

Exited == pc = "exited" /\ UNCHANGED vars

Main == Leave \/ version_main \/ Finish

Convert ==
  /\ \/ IO_process_load_address /\ UNCHANGED LocalVars
     \/ AbNext /\ UNCHANGED <<gh, pa, oc>>
     \/ GhNext /\ UNCHANGED <<ab, pa, oc>>
     \/ ProfNext /\ UNCHANGED <<ab, gh, oc>>
     \/ ObjNext /\ UNCHANGED <<ab, gh, pa>>
  /\ UNCHANGED <<streams, status>>

Next == Main \/ Convert \/ Exited

Spec == Init /\ [][Next]_vars

\* One sequential program; the system reads and writes its files.
FairSpec == Spec /\ WF_vars(Next)

---------------------------------------------------------------------------
(* Properties                                                              *)

\* Control stays in the functions of the chosen client, its locals in their
\* ranges, and nothing is converted before both files are open.
TypeOK ==
  /\ IoTypeOK /\ AbTypeOK /\ GhTypeOK /\ ProfTypeOK /\ ObjTypeOK
  /\ pc \in Labels
  /\ status \in {"none", "success", "failure"}
  /\ streams \subseteq {"input", "output"}
  /\ pc \notin {"main", "exited"} => streams = {"input", "output"}

\* Each converter pre-reads a byte here and leaves one there (io.c's GotByte
\* is all they share).  In a file that is what its format demands, every loop
\* over lines begins where a line does, and no byte of a line's head, of a
\* packed number or of an addressing mode is taken for text, nor text for it.
LinesInStep ==
  sound /\ ~IO_reached_eof =>
    /\ pc = "ab_line" => role.is = IF client = "vis" THEN "length" ELSE "start"
    /\ pc = "ab_mode" => role.is = "mode"
    /\ pc = "ab_number" <=> role.is = "data"
    /\ pc \in {"ab_args", "ab_quoted"} => role.is \notin {"start", "mode", "length", "header"}
    /\ pc = "gh_line" => role.is \in {"eol", "end"}
    /\ pc \in {"gh_args", "gh_char", "gh_quoted", "gh_text"} =>
         role.is \notin {"link", "link2", "number", "number2"}
    /\ pc = "prof_len" => role.is = "len"
    /\ pc = "prof_char" => role.is = "char"
    /\ pc = "prof_len2" => role.is = "len2"

\* What the output opens it closes.  A string is closed before the comment and
\* the end of its line, whatever an AssBlaster file holds (ab.c:278-291).  In
\* sound BASIC files so are strings, and parentheses, of which both or none are
\* left out.  Where a line of a sound file ends, the output has as many braces
\* open as the source has blocks: macros, and Hypra-Ass's conditionals.
PairsClosed ==
  /\ pc \in {"ab_comment", "ab_ctext", "ab_eol", "ab_line", "ab_number"} => ~quoted
  /\ sound /\ pc \in {"gh_comment", "gh_text"} =>
       /\ ~quoted
       /\ ~IO_reached_eof => gh.paren = 0 /\ FLAG_SKIP_CLOSING \notin gh.flags
  /\ sound /\ ~IO_reached_eof /\ pc \in {"ab_eol", "gh_line"} => braces = blocks

\* The label of a disassembled instruction is its address: the load address
\* and the instruction's place in the file (two bytes of load address and the
\* opcode itself have been read).  Handlers read operands, and separately tell
\* by how much to advance (obj.c:105-176).
LabelsAreAddresses ==
  pc = "obj_op" /\ ~IO_reached_eof => oc.pc = oc.load + taken - 3

\* Columns of a Professional Ass line are kept: but for a `+' that is not
\* made up for yet, as many characters were put out as were read.  A reverse
\* marker is open exactly in reverse text, and never at the end of a line.
ColumnsKept ==
  /\ pc = "prof_char" =>
       /\ pa.col = pa.ii - (IF pa.linestate = DOUBLENEXTSPACE THEN 1 ELSE 0)
       /\ pa.rev <=> pa.hibit
  /\ pc \in {"prof_len", "prof_len2"} => ~pa.rev

\* number_parser of vis.c consumes nothing.  A packed number in an argument,
\* which VisAss does not write, and the end of the file there, which is -1 and
\* has the same bit (ab.c:312), keep the program in parse_unspecified for ever.
VisHangs == client = "vis" /\ pc = "ab_args" /\ GotByte \in {EOF} \cup 128..254

\* The conversion ends, with success, whatever the file holds and wherever it
\* was cut, but for VisHangs: each loop that looks for the end of a line or of
\* a number finds it in the padding (io.c:22-27), although few look for EOF.
ConversionEnds ==
  <>(VisHangs \/ (pc = "exited" /\ (client # "none" => status = "success" /\ streams = {})))
=============================================================================
