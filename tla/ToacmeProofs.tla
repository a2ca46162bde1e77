---------------------------- MODULE ToacmeProofs ----------------------------
(***************************************************************************)
(* For files of any length and any bytes: the locals of the converters     *)
(* stay in their ranges, the labels of a disassembly are addresses,        *)
(* columns are kept, strings are closed.  For sound files: every byte is   *)
(* taken for what it is.                                                   *)
(***************************************************************************)
EXTENDS Toacme, TLAPS

USE ToacmeAssumption

\* Before the body is converted nothing has been put out.
Opening == {"main", "load_low", "load_high", "body"}

\* A packed number needs the byte that is fetched; a string is open only in
\* parse_quoted.
AbState ==
  /\ pc = "ab_number" => ab.need > 0
  /\ client \notin BasicFormats /\ quoted => pc = "ab_quoted"
  /\ pc = "main" => ~quoted

GhState == pc = "gh_head" => gh.left > 0

\* What col, rev and linestate are worth at each step of a line.
ProfState ==
  /\ pc \in Opening => pa = NewLine(0)
  /\ pc \in {"prof_len", "prof_len2"} => ~pa.rev
  /\ pc = "prof_indent" => pa = NewLine(pa.length1)
  /\ pc = "prof_char" =>
       /\ pa.ii < pa.length1 - 3
       /\ pa.col = pa.ii - (IF pa.linestate = DOUBLENEXTSPACE THEN 1 ELSE 0)
       /\ pa.rev <=> pa.hibit

\* Where the disassembler's reading stands, whatever pc is due to advance by.
ObjState ==
  /\ pc = "main" => taken = 0
  /\ pc = "obj_am" => oc.left > 0
  /\ ~IO_reached_eof =>
       /\ pc = "obj_low" => taken = 0
       /\ pc = "obj_high" => taken = 1
       /\ pc = "obj_pc" => taken = 2
       /\ pc = "obj_op" => oc.pc = oc.load + taken - 3
       /\ pc = "obj_am" => oc.pc + oc.adds - oc.left = oc.load + taken - 3

Inv == TypeOK /\ AbState /\ GhState /\ ProfState /\ ObjState

---------------------------------------------------------------------------
(* Input.                                                                  *)

\* A byte read is a byte, or the end of the file or padding.
LEMMA NextBytes ==
  ASSUME NEW fmt \in Formats, NEW r, NEW b, NEW n \in After(fmt, r, b), NEW c \in n.bytes
  PROVE  c \in 0..255
<1>1. PICK m : n = As(m.role, m.bytes \cap FileBytes[fmt])  BY DEF After
<1>2. c \in FileBytes[fmt]  BY <1>1 DEF As
<1>. QED BY <1>2

LEMMA ReadTypes ==
  ASSUME IoTypeOK, client \in Formats, IO_get_byte
  PROVE  /\ GotByte' \in {EOF} \cup 0..255 /\ IO_reached_eof' \in BOOLEAN
         /\ taken' \in Nat /\ blocks' \in 0..MaxBlocks
         /\ client' = client /\ padding_value' = padding_value /\ sound' = sound
<1>. USE DEF IoTypeOK, IO_get_byte
<1>1. CASE IO_reached_eof  BY <1>1 DEF AB_ENDOFLINE
<1>2. CASE ~IO_reached_eof /\ NextByte
  <2>1. PICK n \in After(client, role, GotByte) :
          GotByte' \in n.bytes /\ blocks' \in 0..MaxBlocks
    BY <1>2 DEF NextByte
  <2>2. GotByte' \in 0..255  BY <2>1, NextBytes
  <2>3. taken' = taken + 1 /\ IO_reached_eof' = IO_reached_eof  BY <1>2 DEF NextByte
  <2>. QED BY <1>2, <2>1, <2>2, <2>3
<1>3. CASE ~IO_reached_eof /\ EndOfFile  BY <1>3 DEF EndOfFile
<1>. QED BY <1>1, <1>2, <1>3

\* While the file lasts, a byte read is a byte taken.
LEMMA ReadCounts ==
  ASSUME IO_get_byte, ~IO_reached_eof'
  PROVE  ~IO_reached_eof /\ taken' = taken + 1
BY DEF IO_get_byte, NextByte, EndOfFile

\* A step of a converter reads or does not.
LEMMA StepTypes ==
  ASSUME IoTypeOK, client \in Formats, IO_get_byte \/ UNCHANGED ioVars,
         braces' \in Int, quoted' \in BOOLEAN
  PROVE  IoTypeOK' /\ client' = client
<1>1. CASE IO_get_byte  BY <1>1, ReadTypes DEF IoTypeOK
<1>2. CASE UNCHANGED ioVars  BY <1>2 DEF IoTypeOK, ioVars
<1>. QED BY <1>1, <1>2

---------------------------------------------------------------------------
(* Labels.                                                                 *)

LEMMA Clients ==
  ASSUME TypeOK
  PROVE  /\ pc \notin {"main", "exited"} => client \in Formats
         /\ pc \in AbLabels \ {"body"} => client \in AbFormats
         /\ pc \in GhLabels => client \in BasicFormats
         /\ pc \in ProfLabels => client = "prof"
         /\ pc \in ObjLabels => client = "object"
BY DEF TypeOK, IoTypeOK, Labels, MainLabels, AbLabels, GhLabels, ProfLabels, ObjLabels,
       AbFormats, BasicFormats

---------------------------------------------------------------------------
(* AssBlaster.                                                             *)

\* What a step of the client leaves behind.
AbStep ==
  /\ pc \notin {"main", "exited"}
  /\ client \in AbFormats
  /\ IO_get_byte \/ UNCHANGED ioVars
  /\ pc' \in (AbLabels \ {"body"}) \cup {"done"}
  /\ braces' \in Int /\ quoted' \in BOOLEAN
  /\ AbTypeOK'
  /\ pc' = "ab_number" => ab'.need > 0
  /\ quoted' => pc' = "ab_quoted"

LEMMA NumberSizes ==
  ASSUME NEW b \in Int
  PROVE  F8abSize(b) \in 0..3 /\ Ab3Size(b) \in 0..3
BY DEF F8abSize, Ab3Size

LEMMA AbSteps == ASSUME Inv, AbNext PROVE AbStep
<1>. DEFINE quiet == client \notin BasicFormats /\ quoted => pc = "ab_quoted"
<1>1. /\ AbTypeOK /\ braces \in Int /\ quoted \in BOOLEAN /\ GotByte \in Int
      /\ quiet /\ (pc = "ab_number" => ab.need > 0)
      /\ pc \in AbLabels \ {"body"} => client \in AbFormats
      /\ client \in AbFormats => client \notin BasicFormats
  BY Clients DEF Inv, TypeOK, IoTypeOK, AbState, EOF, AbFormats, BasicFormats
<1>. USE <1>1 DEF AbStep, AbTypeOK, AbLabels, Keep, outVars, Locals, WithAb, ReadTo, KeepTo, Goto
<1>2. CASE AbHeader  BY <1>2 DEF AbHeader
<1>3. CASE AB_line  BY <1>3 DEF AB_line
<1>4. CASE parse_mnemo
  <2>. DEFINE coded == In(conf.first_mnemonic, conf.mnemonic_count)
  <2>1. CASE ~coded  BY <1>4, <2>1 DEF parse_mnemo
  <2>2. CASE coded
    <3>1. /\ ab' = [ab EXCEPT !.handled = TRUE, !.ret = "ab_pseudo"]
          /\ IO_get_byte /\ pc' \in {"ab_mode", "ab_args"} /\ pc = "ab_mnemo"
          /\ UNCHANGED <<braces, quoted>>
      BY <1>4, <2>2 DEF parse_mnemo
    <3>. QED BY <3>1
  <2>. QED BY <2>1, <2>2
<1>5. CASE parse_mode  BY <1>5 DEF parse_mode
<1>6. CASE parse_pseudo_opcode
  <2>. DEFINE offset == GotByte - conf.first_pseudo_opcode
              coded == In(conf.first_pseudo_opcode, conf.pseudo_opcode_count)
              macro == offset \in {AB_PSEUDOOFFSET_MACRODEF, AB_PSEUDOOFFSET_MACROCALL}
  <2>1. Brace(offset) \in {-1, 0, 1}  BY DEF Brace
  <2>2. CASE ~coded  BY <1>6, <2>2 DEF parse_pseudo_opcode
  <2>3. CASE coded
    <3>1. /\ braces' = braces + Brace(offset) /\ quoted' = quoted
          /\ ab' = [ab EXCEPT !.handled = TRUE, !.ret = "ab_unused", !.nret = "ab_args"]
          /\ IO_get_byte /\ pc' = IF macro THEN "ab_name" ELSE "ab_args"
          /\ pc = "ab_pseudo"
      BY <1>6, <2>3 DEF parse_pseudo_opcode
    <3>2. pc' \in {"ab_name", "ab_args"}  BY <3>1
    <3>3. braces' \in Int  BY <2>1, <3>1
    <3>. QED BY <3>1, <3>2, <3>3
  <2>. QED BY <2>2, <2>3
<1>7. CASE OtherLines
  <2>1. CASE Unused
    <3>1. /\ ab' = [Argument EXCEPT !.handled = TRUE] /\ pc = "ab_unused"
          /\ IO_get_byte /\ pc' = "ab_args" /\ UNCHANGED <<braces, quoted>>
      BY <1>7, <2>1 DEF OtherLines
    <3>2. AbTypeOK'  BY <3>1 DEF Argument
    <3>. QED BY <3>1, <3>2
  <2>2. CASE ~Unused /\ (ab.handled \/ GotByte = COMMENT)
    BY <1>7, <2>2 DEF OtherLines
  <2>3. CASE ~Unused /\ ~(ab.handled \/ GotByte = COMMENT)
    BY <1>7, <2>3 DEF OtherLines, pipe_name, Argument
  <2>. QED BY <2>1, <2>2, <2>3
<1>8. CASE pipe_global_name  BY <1>8 DEF pipe_global_name
<1>9. CASE parse_unspecified
  <2>1. CASE GotByte = QUOTE
    BY <1>9, <2>1 DEF parse_unspecified, QUOTE, HasBit, AB_ENDOFLINE, COMMENT
  <2>2. CASE GotByte # QUOTE
    BY <1>9, <2>2, NumberSizes DEF parse_unspecified, number_parser, pipe_name
  <2>. QED BY <2>1, <2>2
<1>10. CASE parse_quoted  BY <1>10 DEF parse_quoted
<1>11. CASE parse_number  BY <1>11 DEF parse_number
<1>12. CASE LateComment  BY <1>12 DEF LateComment
<1>13. CASE EndOfLine  BY <1>13 DEF EndOfLine
<1>. QED BY <1>2, <1>3, <1>4, <1>5, <1>6, <1>7, <1>8, <1>9, <1>10, <1>11, <1>12, <1>13,
            AbNext DEF AbNext

---------------------------------------------------------------------------
(* GigaHypra.                                                              *)

GhStep ==
  /\ pc \notin {"main", "exited"}
  /\ client \in BasicFormats
  /\ IO_get_byte \/ UNCHANGED ioVars
  /\ pc' \in GhLabels \cup {"done"}
  /\ braces' \in Int /\ quoted' \in BOOLEAN
  /\ GhTypeOK'
  /\ pc' = "gh_head" => gh'.left > 0

LEMMA GhSteps == ASSUME Inv, GhNext PROVE GhStep
<1>1. /\ GhTypeOK /\ braces \in Int /\ quoted \in BOOLEAN /\ GotByte \in {EOF} \cup 0..255
      /\ pc = "gh_head" => gh.left > 0
      /\ pc \in GhLabels => client \in BasicFormats
  BY Clients DEF Inv, TypeOK, IoTypeOK, GhState
<1>. USE <1>1 DEF GhStep, GhTypeOK, GhLabels, Keep, outVars, GhLocals, WithGh, GhFresh,
                  ReadTo, KeepTo, Goto
<1>2. CASE GhLine  BY <1>2 DEF GhLine
<1>3. CASE GhHead  BY <1>3 DEF GhHead
<1>4. CASE GhFirst  BY <1>4 DEF GhFirst
<1>5. CASE GigaHypra_label_definition  BY <1>5 DEF GigaHypra_label_definition
<1>6. CASE GhSpaces  BY <1>6 DEF GhSpaces
<1>7. CASE process_tokenized  BY <1>7 DEF process_tokenized, TokenFlags
<1>8. CASE real_opcode  BY <1>8 DEF real_opcode
<1>9. CASE process_pseudo_opcode  BY <1>9 DEF process_pseudo_opcode, PseudoFlags, EOF
<1>10. CASE ArgumentEnds  BY <1>10 DEF ArgumentEnds
<1>11. CASE GigaHypra_operator  BY <1>11 DEF GigaHypra_operator
<1>12. CASE GigaHypra_argument
  <2>1. Parenthesis \in [left : 0..4, first : 0..255, paren : Int,
          flags : SUBSET {FLAG_ADD_LEFT_BRACE, FLAG_SKIP_OPENING, FLAG_SKIP_CLOSING}]
    BY DEF Parenthesis
  <2>. QED BY <1>12, <2>1 DEF GigaHypra_argument
<1>13. CASE GhQuoted  BY <1>13 DEF GhQuoted
<1>14. CASE GigaHypra_comment  BY <1>14 DEF GigaHypra_comment
<1>. QED BY <1>2, <1>3, <1>4, <1>5, <1>6, <1>7, <1>8, <1>9, <1>10, <1>11, <1>12, <1>13,
            <1>14, GhNext DEF GhNext

---------------------------------------------------------------------------
(* ProfAss.                                                                *)

ProfStep ==
  /\ pc \notin {"main", "exited"}
  /\ client = "prof"
  /\ IO_get_byte \/ UNCHANGED ioVars
  /\ pc' \in ProfLabels \cup {"done"}
  /\ UNCHANGED outVars
  /\ ProfTypeOK'
  /\ ProfState'

\* The column that is owed while a `+' is not made up for.
Owed(state) == IF state = DOUBLENEXTSPACE THEN 1 ELSE 0

LineStates == {REMOVEPLUS, DOUBLENEXTSPACE, NOTHINGSPECIAL}

\* One character is read, and put out unless it is owed or was.
LEMMA Puts ==
  ASSUME NEW state \in LineStates, NEW byte
  PROVE  /\ Put(state, byte).state \in LineStates
         /\ Put(state, byte).put \in 0..2
         /\ Put(state, byte).put = 1 + Owed(state) - Owed(Put(state, byte).state)
BY DEF Put, Owed, LineStates, REMOVEPLUS, DOUBLENEXTSPACE, NOTHINGSPECIAL, PLUS, SPACE

LEMMA ProfSteps == ASSUME Inv, ProfNext PROVE ProfStep
<1>1. /\ ProfTypeOK /\ GotByte \in {EOF} \cup 0..255 /\ ProfState
      /\ pc \in ProfLabels => client = "prof"
      /\ UNCHANGED outVars
  BY Clients DEF Inv, TypeOK, IoTypeOK, ProfNext, Keep
<1>. USE <1>1 DEF ProfStep, ProfTypeOK, ProfLabels, ProfState, Opening, NewLine,
                  ReadTo, KeepTo, Goto
<1>2. CASE ProfLine
  <2>1. CASE pc = "body"  BY <1>2, <2>1 DEF ProfLine
  <2>2. CASE pc = "prof_len" /\ GotByte < 3  BY <1>2, <2>2 DEF ProfLine
  <2>3. CASE pc = "prof_len" /\ ~(GotByte < 3)
    <3>1. GotByte \in 0..255 /\ pa' = NewLine(GotByte) /\ IO_get_byte /\ pc' = "prof_indent"
      BY <1>2, <2>3 DEF ProfLine, EOF
    <3>2. pa'.length1 = GotByte  BY <3>1
    <3>3. ProfState'  BY <3>1, <3>2
    <3>4. ProfTypeOK'  BY <3>1
    <3>. QED BY <2>3, <3>1, <3>3, <3>4
  <2>. QED BY <1>2, <2>1, <2>2, <2>3 DEF ProfLine
<1>3. CASE ProfIndent  BY <1>3 DEF ProfIndent, REMOVEPLUS, DOUBLENEXTSPACE
<1>4. CASE ProfChar
  <2>. DEFINE reverse == HasBit(GotByte, 128)
              after == IF reverse THEN [state |-> pa.linestate, put |-> 1]
                       ELSE Put(pa.linestate, GotByte % 128)
              marked == IF reverse # pa.hibit THEN reverse ELSE pa.rev
              more == pa.ii + 1 < pa.length1 - 3
              rev == marked /\ (more \/ ~reverse)
  <2>1. /\ pc = "prof_char" /\ client = "prof"
        /\ pa' = [pa EXCEPT !.ii = @ + 1, !.hibit = reverse, !.col = @ + after.put,
                            !.rev = rev, !.linestate = after.state]
        /\ IO_get_byte /\ pc' = IF more THEN "prof_char" ELSE "prof_len2"
    BY <1>4 DEF ProfChar
  <2>2. /\ after.state \in LineStates /\ after.put \in 0..2
        /\ after.put = 1 + Owed(pa.linestate) - Owed(after.state)
    <3>1. pa.linestate \in LineStates  BY DEF LineStates
    <3>2. CASE reverse  BY <3>1, <3>2 DEF Owed
    <3>3. CASE ~reverse  BY <3>1, <3>3, Puts
    <3>. QED BY <3>2, <3>3
  <2>3. reverse \in BOOLEAN  BY DEF HasBit
  <2>4. rev = (reverse /\ more)  BY <2>1, <2>3
  <2>5. pa.col = pa.ii - Owed(pa.linestate)  BY <2>1 DEF Owed
  <2>6. Owed(pa.linestate) \in 0..1 /\ Owed(after.state) \in 0..1  BY DEF Owed
  <2>. HIDE DEF reverse, after, marked, more, rev
  <2>7. /\ pa'.ii = pa.ii + 1 /\ pa'.hibit = reverse /\ pa'.rev = rev
        /\ pa'.col = pa.col + after.put /\ pa'.linestate = after.state
        /\ pa'.length1 = pa.length1
    BY <2>1
  <2>8. pa'.col = pa'.ii - Owed(pa'.linestate)  BY <2>2, <2>5, <2>6, <2>7
  <2>9. pa'.col \in 0..253 /\ pa'.ii \in 0..252
    BY <2>1, <2>2, <2>5, <2>6, <2>7
  <2>10. ProfTypeOK'
    <3>1. rev \in BOOLEAN  BY <2>3, <2>4
    <3>2. pa' = [length1 |-> pa.length1, ii |-> pa.ii + 1, hibit |-> reverse, rev |-> rev,
                 col |-> pa.col + after.put, linestate |-> after.state]
      BY <2>1
    <3>3. pa.ii + 1 \in 0..252 /\ pa.col + after.put \in 0..253  BY <2>7, <2>9
    <3>4. pa.length1 \in 0..255 /\ after.state \in LineStates  BY <2>2
    <3>. HIDE DEF ProfTypeOK
    <3>5. pa' \in [length1 : 0..255, ii : 0..252, hibit : BOOLEAN, rev : BOOLEAN, col : 0..253,
                   linestate : LineStates]
      BY <2>3, <3>1, <3>2, <3>3, <3>4
    <3>. QED BY <3>5 DEF LineStates, ProfTypeOK
  <2>11. ProfState'  BY <2>1, <2>3, <2>4, <2>7, <2>8 DEF more, Owed
  <2>12. pc' \in {"prof_char", "prof_len2"}  BY <2>1
  <2>. QED BY <2>1, <2>10, <2>11, <2>12
<1>5. CASE ProfLength2  BY <1>5 DEF ProfLength2
<1>. QED BY <1>2, <1>3, <1>4, <1>5, ProfNext DEF ProfNext

---------------------------------------------------------------------------
(* ObjectCode.                                                             *)

ObjStep ==
  /\ pc \notin {"main", "exited"}
  /\ client = "object"
  /\ IO_get_byte \/ UNCHANGED ioVars
  /\ pc' \in ObjLabels \cup {"done"}
  /\ UNCHANGED outVars
  /\ ObjTypeOK'
  /\ ObjState'

\* pc advances by the opcode and by what the handler reads.
LEMMA HandlersAgree ==
  ASSUME NEW code
  PROVE  /\ addressing_mode_of_code(code).reads \in 0..2
         /\ addressing_mode_of_code(code).adds = addressing_mode_of_code(code).reads + 1
<1>1. addressing_mode_of_code(code) \in {am_word, am_byte, am_implied}
  BY DEF addressing_mode_of_code
<1>. QED BY <1>1 DEF am_word, am_byte, am_implied

LEMMA ObjSteps == ASSUME Inv, ObjNext PROVE ObjStep
<1>1. /\ ObjTypeOK /\ GotByte \in Int /\ ObjState /\ taken \in Nat
      /\ pc \in ObjLabels => client = "object" /\ client \in Formats
      /\ UNCHANGED outVars
  BY Clients DEF Inv, TypeOK, IoTypeOK, ObjNext, Keep, EOF, ObjLabels
<1>. USE <1>1 DEF ObjStep, ObjTypeOK, ObjLabels, ObjState, ReadTo, KeepTo, Goto
<1>2. CASE ObjLoad
  <2>1. IO_get_byte /\ pc \in {"obj_low", "obj_high", "obj_pc"}  BY <1>2 DEF ObjLoad
  <2>2. ~IO_reached_eof' => ~IO_reached_eof /\ taken' = taken + 1  BY <2>1, ReadCounts
  <2>3. CASE pc = "obj_low"  BY <1>2, <2>1, <2>2, <2>3 DEF ObjLoad
  <2>4. CASE pc = "obj_high"
    <3>1. oc' = [pc |-> oc.pc, load |-> GotByte, left |-> oc.left, adds |-> oc.adds]
      BY <1>2, <2>4 DEF ObjLoad
    <3>. QED BY <1>2, <2>1, <2>2, <2>4, <3>1 DEF ObjLoad
  <2>5. CASE pc = "obj_pc"
    <3>. DEFINE address == IF oc.load = EOF THEN EOF ELSE oc.load + 256 * GotByte
    <3>1. address \in Int  BY DEF EOF
    <3>2. /\ oc' = [oc EXCEPT !.pc = address, !.load = address] /\ pc' = "obj_op"
      BY <1>2, <2>5 DEF ObjLoad
    <3>. HIDE DEF address
    <3>3. oc' = [pc |-> address, load |-> address, left |-> oc.left, adds |-> oc.adds]
      BY <3>2
    <3>4. ~IO_reached_eof' => oc'.pc = oc'.load + taken' - 3  BY <2>2, <2>5, <3>1, <3>3
    <3>. QED BY <2>1, <2>5, <3>1, <3>2, <3>3, <3>4
  <2>. QED BY <2>1, <2>3, <2>4, <2>5
<1>3. CASE ObjCode
  <2>1. CASE IO_reached_eof  BY <1>3, <2>1 DEF ObjCode, ioVars
  <2>2. CASE ~IO_reached_eof
    <3>. DEFINE am == addressing_mode_of_code(GotByte)
    <3>1. /\ pc = "obj_op" /\ IO_get_byte
          /\ pc' = IF am.reads = 0 THEN "obj_op" ELSE "obj_am"
          /\ oc' = [oc EXCEPT !.pc = IF am.reads = 0 THEN @ + am.adds ELSE @,
                              !.left = am.reads, !.adds = am.adds]
      BY <1>3, <2>2 DEF ObjCode
    <3>2. am.reads \in 0..2 /\ am.adds = am.reads + 1  BY HandlersAgree
    <3>. HIDE DEF am
    <3>3. ~IO_reached_eof' => taken' = taken + 1  BY <3>1, ReadCounts
    <3>. DEFINE here == oc.load + taken - 3
    <3>6. oc.pc = here  BY <2>2, <3>1
    <3>4. CASE am.reads = 0
      <4>1. oc' = [oc EXCEPT !.pc = @ + am.adds, !.left = am.reads, !.adds = am.adds]
        BY <3>1, <3>4
      <4>2. am.reads = 0 /\ am.adds = 1  BY <3>2, <3>4
      <4>3. oc' = [oc EXCEPT !.pc = @ + 1, !.left = 0, !.adds = 1]  BY <4>1, <4>2
      <4>4. pc' = "obj_op"  BY <3>1, <3>4
      <4>5. oc' = [pc |-> oc.pc + 1, load |-> oc.load, left |-> 0, adds |-> 1]  BY <4>3
      <4>6. ~IO_reached_eof' => oc'.pc = oc'.load + taken' - 3  BY <3>3, <3>6, <4>5
      <4>7. ObjTypeOK'  BY <4>5
      <4>. QED BY <3>1, <4>4, <4>6, <4>7
    <3>5. CASE am.reads # 0
      <4>1. oc' = [oc EXCEPT !.pc = @, !.left = am.reads, !.adds = am.adds]  BY <3>1, <3>5
      <4>2. am.reads \in 1..2 /\ am.adds \in 1..3 /\ am.adds - am.reads = 1  BY <3>2, <3>5
      <4>3. pc' = "obj_am"  BY <3>1, <3>5
      <4>4. oc'.left = am.reads /\ oc'.adds = am.adds /\ oc'.pc = oc.pc /\ oc'.load = oc.load
        BY <4>1
      <4>5. ObjTypeOK'
        <5>. DEFINE reads == am.reads  adds == am.adds
        <5>1. reads \in 0..2 /\ adds \in 1..3  BY <4>2
        <5>2. oc' = [oc EXCEPT !.pc = @, !.left = reads, !.adds = adds]  BY <4>1
        <5>. HIDE DEF reads, adds
        <5>3. oc' = [pc |-> oc.pc, load |-> oc.load, left |-> reads, adds |-> adds]  BY <5>2
        <5>. QED BY <5>1, <5>3
      <4>6. ~IO_reached_eof' => oc'.pc + oc'.adds - oc'.left = oc'.load + taken' - 3
        <5>1. oc.pc \in Int /\ oc.load \in Int  OBVIOUS
        <5>2. oc'.pc + oc'.adds - oc'.left = oc.pc + am.adds - am.reads  BY <4>4
        <5>3. oc.pc + am.adds - am.reads = oc.pc + 1  BY <4>2, <5>1
        <5>4. here + 1 = oc.load + (taken + 1) - 3  BY <5>1
        <5>. QED BY <3>3, <3>6, <4>4, <5>2, <5>3, <5>4
      <4>. QED BY <3>1, <4>2, <4>3, <4>4, <4>5, <4>6
    <3>. QED BY <3>4, <3>5
  <2>. QED BY <2>1, <2>2
<1>4. CASE ObjOperand
  <2>1. ~IO_reached_eof' => ~IO_reached_eof /\ taken' = taken + 1
    BY <1>4, ReadCounts DEF ObjOperand
  <2>2. CASE oc.left = 1
    <3>. DEFINE to == oc.pc + oc.adds
    <3>0. to \in Int /\ oc' = [oc EXCEPT !.pc = to, !.left = 0]  BY <1>4, <2>2 DEF ObjOperand
    <3>. HIDE DEF to
    <3>1. oc' = [pc |-> to, load |-> oc.load, left |-> 0, adds |-> oc.adds]  BY <3>0
    <3>2. pc' = "obj_op" /\ IO_get_byte /\ pc = "obj_am"  BY <1>4, <2>2 DEF ObjOperand
    <3>3. ~IO_reached_eof' => oc'.pc = oc'.load + taken' - 3  BY <2>1, <2>2, <3>1, <3>2 DEF to
    <3>. QED BY <3>0, <3>1, <3>2, <3>3
  <2>3. CASE oc.left # 1
    <3>1. oc' = [pc |-> oc.pc, load |-> oc.load, left |-> oc.left - 1, adds |-> oc.adds]
      BY <1>4, <2>3 DEF ObjOperand
    <3>. QED BY <1>4, <2>1, <2>3, <3>1 DEF ObjOperand
  <2>. QED BY <2>2, <2>3
<1>. QED BY <1>2, <1>3, <1>4, ObjNext DEF ObjNext

---------------------------------------------------------------------------
(* The invariant.                                                          *)

LEMMA InitInv == Init => Inv
<1>. SUFFICES ASSUME Init PROVE Inv  OBVIOUS
<1>. USE DEF Init, IoInit, AbInit, GhInit, ProfInit, ObjInit
<1>1. IoTypeOK
  <2>1. blocks \in 0..MaxBlocks  OBVIOUS
  <2>2. GotByte \in {EOF} \cup 0..255 /\ taken \in Nat /\ braces \in Int  OBVIOUS
  <2>3. client \in Formats \cup {"none"}  OBVIOUS
  <2>. QED BY <2>1, <2>2, <2>3 DEF IoTypeOK
<1>2. AbTypeOK /\ GhTypeOK /\ ObjTypeOK  BY DEF AbTypeOK, GhTypeOK, GhFresh, ObjTypeOK
<1>3. ProfTypeOK  BY DEF ProfTypeOK, NewLine, REMOVEPLUS
<1>4. pc \in Labels  BY DEF Labels, MainLabels
<1>5. AbState /\ GhState /\ ProfState /\ ObjState
  BY DEF AbState, GhState, ProfState, ObjState, Opening
<1>. QED BY <1>1, <1>2, <1>3, <1>4, <1>5 DEF Inv, TypeOK

\* A step of one converter leaves the others' parts of the invariant alone.
LEMMA ConvertInv == ASSUME Inv, Convert PROVE Inv'
<1>. USE DEF AbState, GhState, ProfState, ObjState, Opening, AbFormats, BasicFormats
<1>1. /\ TypeOK /\ IoTypeOK /\ UNCHANGED <<streams, status>>
      /\ AbState /\ GhState /\ ProfState /\ ObjState
      /\ client \in AbFormats \cup BasicFormats \cup {"prof", "object", "none"}
  BY DEF Inv, TypeOK, IoTypeOK, Convert
<1>2. /\ AbTypeOK /\ GhTypeOK /\ ProfTypeOK /\ ObjTypeOK
      /\ status \in {"none", "success", "failure"} /\ streams \subseteq {"input", "output"}
      /\ pc \notin {"main", "exited"} => streams = {"input", "output"}
  BY <1>1 DEF TypeOK
<1>3. CASE IO_process_load_address /\ UNCHANGED LocalVars
  <2>1. /\ pc \in {"load_low", "load_high"} /\ pc' \in {"load_high", "body"}
        /\ IO_get_byte /\ UNCHANGED <<braces, quoted, ab, gh, pa, oc>>
    BY <1>3 DEF IO_process_load_address, LoadLow, LoadHigh, ReadTo, Goto, Keep, outVars, LocalVars
  <2>2. client \in Formats  BY <1>1, <2>1, Clients
  <2>3. IoTypeOK' /\ client' = client  BY <1>1, <2>1, <2>2, StepTypes DEF IoTypeOK
  <2>4. AbTypeOK' /\ GhTypeOK' /\ ProfTypeOK' /\ ObjTypeOK'
    BY <1>2, <2>1 DEF AbTypeOK, GhTypeOK, ProfTypeOK, ObjTypeOK
  <2>6. pc' \in Labels'
    BY <1>1, <2>1, <2>2, <2>3 DEF Labels, MainLabels
  <2>7. AbState' /\ GhState' /\ ProfState' /\ ObjState'  BY <1>1, <2>1, <2>3
  <2>. QED BY <1>1, <1>2, <2>1, <2>3, <2>4, <2>6, <2>7 DEF Inv, TypeOK
<1>4. CASE AbNext /\ UNCHANGED <<gh, pa, oc>>
  <2>1. AbStep  BY <1>4, AbSteps
  <2>2. client \in Formats  BY <1>1, <2>1 DEF AbStep, IoTypeOK
  <2>3. IoTypeOK' /\ client' = client  BY <1>1, <2>1, <2>2, StepTypes DEF AbStep
  <2>4. GhTypeOK' /\ ProfTypeOK' /\ ObjTypeOK'
    BY <1>2, <1>4 DEF GhTypeOK, ProfTypeOK, ObjTypeOK
  <2>5. pc' \in Labels' /\ pc' \notin {"main", "exited"}
    BY <2>1, <2>3 DEF AbStep, Labels, MainLabels, AbLabels
  <2>6. GhState' /\ ProfState' /\ ObjState'  BY <2>1 DEF AbStep, AbLabels
  <2>7. AbState'  BY <2>1 DEF AbStep
  <2>. QED BY <1>1, <1>2, <2>1, <2>3, <2>4, <2>5, <2>6, <2>7 DEF Inv, TypeOK, AbStep
<1>5. CASE GhNext /\ UNCHANGED <<ab, pa, oc>>
  <2>1. GhStep  BY <1>5, GhSteps
  <2>2. client \in Formats  BY <1>1, <2>1 DEF GhStep, IoTypeOK
  <2>3. IoTypeOK' /\ client' = client  BY <1>1, <2>1, <2>2, StepTypes DEF GhStep
  <2>4. AbTypeOK' /\ ProfTypeOK' /\ ObjTypeOK'
    BY <1>2, <1>5 DEF AbTypeOK, ProfTypeOK, ObjTypeOK
  <2>5. pc' \in Labels' /\ pc' \notin {"main", "exited"}
    BY <2>1, <2>3 DEF GhStep, Labels, MainLabels, GhLabels
  <2>6. AbState' /\ ProfState' /\ ObjState'  BY <2>1, <2>3 DEF GhStep, GhLabels
  <2>7. GhState'  BY <2>1 DEF GhStep
  <2>. QED BY <1>1, <1>2, <2>1, <2>3, <2>4, <2>5, <2>6, <2>7 DEF Inv, TypeOK, GhStep
<1>6. CASE ProfNext /\ UNCHANGED <<ab, gh, oc>>
  <2>1. ProfStep  BY <1>6, ProfSteps
  <2>2. client \in Formats  BY <1>1, <2>1 DEF ProfStep, IoTypeOK
  <2>3. IoTypeOK' /\ client' = client /\ quoted' = quoted
    BY <1>1, <2>1, <2>2, StepTypes DEF ProfStep, IoTypeOK, outVars
  <2>4. AbTypeOK' /\ GhTypeOK' /\ ObjTypeOK'
    BY <1>2, <1>6 DEF AbTypeOK, GhTypeOK, ObjTypeOK
  <2>5. pc' \in Labels' /\ pc' \notin {"main", "exited"}
    BY <2>1, <2>3 DEF ProfStep, Labels, MainLabels, ProfLabels
  <2>6. pc # "ab_quoted"  BY <1>1, <2>1 DEF TypeOK, ProfStep, Labels, MainLabels, ProfLabels
  <2>7. AbState' /\ GhState' /\ ObjState'  BY <1>1, <2>1, <2>3, <2>6 DEF ProfStep, ProfLabels
  <2>8. ProfState'  BY <2>1 DEF ProfStep
  <2>. QED BY <1>1, <1>2, <2>1, <2>3, <2>4, <2>5, <2>7, <2>8 DEF Inv, TypeOK, ProfStep
<1>7. CASE ObjNext /\ UNCHANGED <<ab, gh, pa>>
  <2>1. ObjStep  BY <1>7, ObjSteps
  <2>2. client \in Formats  BY <1>1, <2>1 DEF ObjStep, IoTypeOK
  <2>3. IoTypeOK' /\ client' = client /\ quoted' = quoted
    BY <1>1, <2>1, <2>2, StepTypes DEF ObjStep, IoTypeOK, outVars
  <2>4. AbTypeOK' /\ GhTypeOK' /\ ProfTypeOK'
    BY <1>2, <1>7 DEF AbTypeOK, GhTypeOK, ProfTypeOK
  <2>5. pc' \in Labels' /\ pc' \notin {"main", "exited"}
    BY <2>1, <2>3 DEF ObjStep, Labels, MainLabels, ObjLabels
  <2>6. pc # "ab_quoted"  BY <1>1, <2>1 DEF TypeOK, ObjStep, Labels, MainLabels, ObjLabels
  <2>7. AbState' /\ GhState' /\ ProfState'  BY <1>1, <2>1, <2>3, <2>6 DEF ObjStep, ObjLabels
  <2>8. ObjState'  BY <2>1 DEF ObjStep
  <2>. QED BY <1>1, <1>2, <2>1, <2>3, <2>4, <2>5, <2>7, <2>8 DEF Inv, TypeOK, ObjStep
<1>. QED BY <1>3, <1>4, <1>5, <1>6, <1>7 DEF Convert

LEMMA StepInv == Inv /\ [Next]_vars => Inv'
<1>. SUFFICES ASSUME Inv, [Next]_vars PROVE Inv'  OBVIOUS
<1>1. /\ IoTypeOK /\ AbTypeOK /\ GhTypeOK /\ ProfTypeOK /\ ObjTypeOK
      /\ pc \in Labels /\ TypeOK
      /\ status \in {"none", "success", "failure"} /\ streams \subseteq {"input", "output"}
      /\ AbState /\ GhState /\ ProfState /\ ObjState
  BY DEF Inv, TypeOK
<1>. USE DEF AbTypeOK, GhTypeOK, ProfTypeOK, ObjTypeOK, AbState, GhState, ProfState, ObjState,
             Opening
<1>2. CASE UNCHANGED vars
  BY <1>1, <1>2 DEF vars, ioVars, outVars, IoTypeOK, Labels, Inv, TypeOK
<1>3. CASE Leave
  <2>1. pc' = "exited" /\ UNCHANGED <<ioVars, braces, quoted, ab, gh, pa, oc>> /\ pc = "main"
    BY <1>3 DEF Leave, Goto, outVars, LocalVars
  <2>2. status' \in {"success", "failure"} /\ streams' \subseteq {"input", "output"}
    BY <1>3 DEF Leave
  <2>3. IoTypeOK' /\ client' = client  BY <1>1, <2>1 DEF IoTypeOK, ioVars
  <2>4. pc' \in Labels'  BY <2>1 DEF Labels, MainLabels
  <2>. QED BY <1>1, <2>1, <2>2, <2>3, <2>4 DEF Inv, TypeOK
<1>4. CASE version_main
  <2>1. /\ client' \in Formats /\ padding_value' \in {0, AB_ENDOFLINE} /\ sound' \in BOOLEAN
        /\ pc' \in {"obj_low", "load_low"} /\ (pc' = "obj_low" => client' = "object")
        /\ UNCHANGED <<GotByte, IO_reached_eof, taken, blocks, braces, quoted, ab, gh, pa, oc>>
        /\ streams' = {"input", "output"} /\ status' = status /\ pc = "main"
    BY <1>4 DEF version_main, Goto, IO_set_input_padding, outVars, LocalVars
  <2>2. IoTypeOK'  BY <1>1, <2>1 DEF IoTypeOK
  <2>3. client' \in AbFormats \cup BasicFormats \cup {"prof", "object"}  BY <2>1
  <2>4. pc' \in Labels'
    <3>1. CASE client' = "object"
      BY <2>1, <3>1 DEF Labels, MainLabels, ObjLabels, AbFormats, BasicFormats
    <3>2. CASE client' # "object"  BY <2>1, <2>3, <3>2 DEF Labels, MainLabels
    <3>. QED BY <3>1, <3>2
  <2>. QED BY <1>1, <2>1, <2>2, <2>4 DEF Inv, TypeOK
<1>5. CASE Finish
  <2>1. /\ pc' = "exited" /\ UNCHANGED <<ioVars, braces, quoted, ab, gh, pa, oc>>
        /\ status' = "success" /\ streams' = {} /\ pc = "done"
    BY <1>5 DEF Finish, Goto, outVars, LocalVars
  <2>2. IoTypeOK' /\ client' = client  BY <1>1, <2>1 DEF IoTypeOK, ioVars
  <2>3. pc' \in Labels'  BY <2>1 DEF Labels, MainLabels
  <2>. QED BY <1>1, <2>1, <2>2, <2>3 DEF Inv, TypeOK
<1>6. CASE Convert  BY <1>6, ConvertInv
<1>7. CASE Exited  BY <1>2, <1>7 DEF Exited
<1>. QED BY <1>2, <1>3, <1>4, <1>5, <1>6, <1>7 DEF Next, Main

THEOREM InvHolds == Spec => []Inv
BY InitInv, StepInv, PTL DEF Spec

---------------------------------------------------------------------------
(* Theorems.                                                               *)

\* Whatever a file holds and wherever it is cut, control stays in the
\* functions of its client, every local in its range and every byte read in
\* -1..255 (io.c, ab.c, gighyp.c, prof.c, obj.c).
THEOREM TypeCorrect == Spec => []TypeOK
<1>1. Inv => TypeOK  BY DEF Inv
<1>. QED BY <1>1, InvHolds, PTL

\* The label before each instruction of a disassembly is the load address and
\* the instruction's place in the file (obj.c:252-274), for any object code.
THEOREM LabelsRight == Spec => []LabelsAreAddresses
<1>1. Inv => LabelsAreAddresses  BY DEF Inv, ObjState, LabelsAreAddresses
<1>. QED BY <1>1, InvHolds, PTL

\* A line of Professional Ass keeps its columns, and reverse markers pair up
\* (prof.c:42-120), for lines of any length and any characters.
THEOREM ColumnsRight == Spec => []ColumnsKept
<1>1. Inv => ColumnsKept  BY DEF Inv, ProfState, ColumnsKept
<1>. QED BY <1>1, InvHolds, PTL

\* The strings part of PairsClosed: the AssBlaster formats leave a string only
\* through parse_quoted, which closes it (ab.c:278-291), sound file or not.
StringsClosed ==
  pc \in {"ab_comment", "ab_ctext", "ab_eol", "ab_line", "ab_number"} => ~quoted

THEOREM StringsRight == Spec => []StringsClosed
<1>1. Inv => StringsClosed
  BY Clients DEF Inv, AbState, StringsClosed, AbLabels, AbFormats, BasicFormats
<1>. QED BY <1>1, InvHolds, PTL

---------------------------------------------------------------------------
(* Sound files of any length, any bytes and any nesting: the converters    *)
(* take every byte for what it is, and close what they open.               *)

\* What the runs leave out, too: codes that ab3_conf (ab3.c:92) does not know
\* to be mnemonics, and Giga-Ass's .IF, which opens no brace (giga.c:35).
Written ==
  /\ "ab3" \in Formats => FileBytes["ab3"] \cap 168..199 = {}
  /\ "giga" \in Formats => 174 \notin FileBytes["giga"]

\* What byte b, read in role r, changes of the open blocks.
Change(fmt, r, b) == IF Opens(fmt, r, b) THEN 1 ELSE IF Closes(fmt, r, b) THEN -1 ELSE 0

Reading == sound /\ ~IO_reached_eof

---------------------------------------------------------------------------
(* Where in a file of the AssBlasters the byte in GotByte may stand.       *)

Others == IF client = "vis" THEN {} ELSE 0..31 \cup {SPACE, COMMENT}
AtStart == role = Plain("start") /\ GotByte \in MnemonicCodes(client) \cup PseudoCodes(client) \cup Others
           /\ GotByte \in FileBytes[client]
AtEol == role = Plain("eol") /\ GotByte = AB_ENDOFLINE
AtEnd == AtEol \/ (role = Plain("text") /\ GotByte = COMMENT)
AtArgument ==
  \/ AtEnd
  \/ role = Plain("arg") /\ GotByte \in 1..127 \ {QUOTE, COMMENT}
  \/ role = Plain("quote") /\ GotByte = QUOTE
  \/ /\ GotByte \in NumberCodes(client) \ {AB_ENDOFLINE}
     /\ role = Role("num", NumberSize(client, GotByte), 0)
AtName == AtEnd \/ (role = Plain("name") /\ GotByte \in 1..31)

AbSound ==
  /\ pc = "ab_line" => IF client = "vis" THEN role = Plain("length") ELSE AtStart
  /\ pc = "ab_mnemo" => AtStart /\ ~ab.handled
  /\ pc = "ab_mode" => role = Plain("mode")
  /\ pc = "ab_pseudo" =>
       IF ab.handled THEN AtEnd ELSE AtStart /\ GotByte \notin MnemonicCodes(client)
  /\ pc = "ab_unused" =>
       IF ab.handled THEN AtEnd ELSE AtStart /\ GotByte \in Others
  /\ pc = "ab_args" => AtArgument
  /\ pc = "ab_name" =>
       IF ab.nret = "ab_args" THEN AtArgument
       ELSE AtName \/ (role = Plain("start") /\ GotByte \in 1..31 /\ client # "vis")
  /\ pc = "ab_quoted" =>
       \/ role = Plain("quote") /\ GotByte \in 0..254 \ {QUOTE}
       \/ role = Plain("arg") /\ GotByte = QUOTE
       \/ AtEol
  /\ pc = "ab_number" => role = Role("data", ab.need - 1, 0)
  /\ pc = "ab_comment" =>
       AtEnd \/ (role = Plain("start") /\ GotByte = COMMENT /\ client # "vis")
  /\ pc = "ab_ctext" => AtEol \/ (role = Plain("text") /\ GotByte \in 0..254)
  /\ pc = "ab_eol" => AtEol
  /\ pc # "ab_garbage"

\* parse_unspecified returns to where something was handled.
AbReturns ==
  /\ \/ pc \in {"ab_mode", "ab_args", "ab_quoted", "ab_number"}
     \/ pc = "ab_name" /\ ab.nret = "ab_args"
  /\ ab.ret \in {"ab_pseudo", "ab_unused"}
  => ab.handled

AbBraces ==
  LET ahead == \/ pc \in {"ab_mnemo", "ab_line"} /\ role.is = "start"
               \/ pc = "ab_pseudo" /\ ~ab.handled
  IN  blocks = braces + IF ahead THEN Change(client, role, GotByte) ELSE 0

---------------------------------------------------------------------------
(* Hypra-Ass and Giga-Ass.                                                 *)

Depth == gh.paren + IF FLAG_SKIP_CLOSING \in gh.flags THEN 1 ELSE 0

AtZero == role = Plain("eol") /\ GotByte = 0
AtRest == AtZero \/ (role = Plain("text") /\ GotByte = COMMENT)
AtSpace == role = Plain("space") /\ GotByte = SPACE
AtLetter == role = Plain("name") /\ GotByte \in Letters
AtToken == client = "giga" /\ role = Plain("token") /\ GotByte \in 160..255 \ {174}
AtOpcode ==
  \/ AtToken
  \/ client = "giga" /\ role = Plain("arg") /\ GotByte \in Letters
  \/ client = "hypra" /\ role = Role("op", 2, 0) /\ GotByte \in Letters
  \/ client = "hypra" /\ role = Role("po", 2, 0) /\ GotByte = DOT
AtOperand ==
  \/ role = Role("arg", Depth, 0) /\ GotByte \in Letters \cup {61}
  \/ role = Role("arg", Depth + 1, 0) /\ GotByte = OPENING
  \/ role = Role("quote", Depth, 0) /\ GotByte = QUOTE
AtBasic ==
  \/ AtOperand
  \/ Depth = 0 /\ AtRest
  \/ role = Role("arg", Depth, 0) /\ GotByte \in {SPACE, DOT}
  \/ role = Role("bang", Depth, 0) /\ GotByte = BANG
  \/ Depth > 0 /\ role = Role("arg", Depth - 1, 0) /\ GotByte = CLOSING

Heads == <<"number2", "number", "link2", "link">>

GhSound ==
  /\ pc = "gh_line" => AtZero
  /\ pc = "gh_head" => \/ role = Plain(Heads[gh.left])
                       \/ gh.left = 3 /\ role = Plain("end")
  /\ pc = "gh_first" => AtRest \/ AtSpace \/ AtLetter \/ AtToken
  /\ pc = "gh_label" => AtRest \/ AtSpace \/ AtLetter
  /\ pc = "gh_spaces" => AtRest \/ AtSpace \/ AtOpcode
  /\ pc = "gh_opcode" => AtOpcode
  /\ pc = "gh_op" => IF gh.left = 0 THEN AtBasic
                     ELSE role = Role("op", gh.left - 1, 0) /\ GotByte \in Letters
  /\ pc = "gh_po1" => role = Role("po", 1, DOT) /\ GotByte \in Letters \cup {DOT}
  /\ pc = "gh_po2" => role = Role("po", 0, gh.first) /\ GotByte \in Letters \cup {DOT}
  /\ pc \in {"gh_po1", "gh_po2"} => client = "hypra"
  /\ pc = "gh_args" => AtBasic
  /\ pc = "gh_char" => AtOperand
  /\ pc = "gh_bang1" => role = Role("middle", Depth, 0) /\ GotByte \in Middles
  /\ pc = "gh_bang2" => role = Role("bang2", Depth, 0) /\ GotByte = BANG
  /\ pc = "gh_quoted" =>
       \/ role = Role("quote", Depth, 0) /\ GotByte \notin {0, QUOTE}
       \/ role = Role("arg", Depth, 0) /\ GotByte = QUOTE
       \/ Depth = 0 /\ AtZero
  /\ pc = "gh_comment" => AtRest /\ Depth = 0
  /\ pc = "gh_text" => (AtZero \/ (role = Plain("text") /\ GotByte # 0)) /\ Depth = 0

GhParens ==
  /\ gh.paren >= 0
  /\ FLAG_SKIP_OPENING \in gh.flags => Depth = 0
  /\ pc \in {"gh_head", "gh_first", "gh_label", "gh_spaces", "gh_opcode", "gh_op", "gh_po1", "gh_po2"} =>
       gh.flags = {} /\ gh.paren = 0

InArgument == {"gh_args", "gh_char", "gh_bang1", "gh_bang2", "gh_quoted"}
GhBraces ==
  blocks = braces + CASE pc \in {"gh_first", "gh_spaces", "gh_opcode", "gh_po2"} -> Change(client, role, GotByte)
                      [] pc \in InArgument -> IF FLAG_ADD_LEFT_BRACE \in gh.flags THEN 1 ELSE 0
                      [] OTHER -> 0

\* A string is open in its loop and nowhere else, the end of the file or not.
GhQuotes ==
  sound /\ client \in BasicFormats =>
    /\ quoted <=> pc = "gh_quoted"
    /\ IO_reached_eof => GotByte \in {EOF, 0}
    /\ padding_value = 0

---------------------------------------------------------------------------
(* Professional Ass, and the heads of all formats.                         *)

ProfSound ==
  /\ pc = "prof_len" => role = Plain("len") /\ GotByte \in 3..255
  /\ pc = "prof_indent" => role = Role("indent", pa.length1 - 3, pa.length1)
  /\ pc = "prof_char" => role = Role("char", pa.length1 - 4 - pa.ii, pa.length1)
  /\ pc = "prof_len2" => role.is = "len2"

\* `place' bytes of a header have been read.
AtHeader(place) ==
  \E h \in Headers(client) : /\ place \in 1..Len(h)
                             /\ role = Role("header", place, Len(h)) /\ GotByte = h[place]

HeadSound ==
  /\ pc = "load_low" => role = Plain("header")
  /\ pc = "load_high" => AtHeader(1)
  /\ pc = "body" => AtHeader(2)
  /\ pc = "ab_head" => AtHeader(3)
  /\ pc = "ab_head4" => AtHeader(4)
  /\ pc = "ab_head5" => AtHeader(5)
  /\ pc \notin {"main", "done", "exited"}

SoundInv ==
  /\ GhQuotes
  /\ pc = "main" => /\ ~sound /\ ~IO_reached_eof /\ blocks = 0 /\ braces = 0 /\ ~quoted
                    /\ gh = GhFresh
  /\ sound => client \in Formats \ {"object"}
  /\ Reading => /\ HeadSound /\ AbSound /\ GhSound /\ ProfSound
                /\ client \in AbFormats => AbReturns /\ AbBraces
                /\ client \in BasicFormats => GhParens /\ GhBraces

---------------------------------------------------------------------------
(* What is read next.                                                      *)

LEMMA SoundRead ==
  ASSUME IO_get_byte, Reading'
  PROVE  /\ Reading /\ client' = client
         /\ \E n \in After(client, role, GotByte) : role' = n.role /\ GotByte' \in n.bytes
         /\ blocks' = blocks + Change(client, role', GotByte')
<1>1. Reading /\ NextByte /\ client' = client
  BY DEF IO_get_byte, EndOfFile, Reading
<1>2. PICK n \in After(client, role, GotByte) : \E b \in n.bytes :
        /\ GotByte' = b /\ role' = n.role
        /\ blocks' = blocks + (IF Opens(client, n.role, b) THEN 1
                               ELSE IF Closes(client, n.role, b) THEN -1 ELSE 0)
  BY <1>1 DEF NextByte
<1>. QED BY <1>1, <1>2 DEF Change

\* m is a row of what After offers, before it is cut down to the bytes in use.
Taken(next) == \E m \in next : role' = m.role /\ GotByte' \in m.bytes

LEMMA ReadOne ==
  ASSUME IO_get_byte, Reading'
  PROVE  Taken(Successors(client, role, GotByte)) /\ GotByte' \in FileBytes[client]
<1>1. PICK n \in After(client, role, GotByte) : role' = n.role /\ GotByte' \in n.bytes
  BY SoundRead
<1>2. PICK m \in Successors(client, role, GotByte) :
        n = As(m.role, m.bytes \cap FileBytes[client])
  BY <1>1 DEF After
<1>. QED BY <1>1, <1>2 DEF As, Taken

LEMMA SuccessorsOf ==
  ASSUME NEW fmt, NEW r, NEW b
  PROVE  /\ r.is = "header" => Successors(fmt, r, b) = AfterHeader(fmt, r)
         /\ r.is \notin {"raw", "header"} =>
              /\ fmt \in AbFormats => Successors(fmt, r, b) = AfterVab(fmt, r, b)
              /\ fmt \in BasicFormats => Successors(fmt, r, b) = AfterBasic(fmt, r, b)
              /\ fmt \notin AbFormats \cup BasicFormats => Successors(fmt, r, b) = AfterProf(r, b)
<1>1. fmt \in BasicFormats => fmt \notin AbFormats  BY DEF BasicFormats, AbFormats
<1>2. CASE r.is = "header"  BY <1>2 DEF Successors
<1>3. CASE r.is \notin {"raw", "header"}
  BY <1>1, <1>3 DEF Successors, AfterBody
<1>. QED BY <1>2, <1>3

LEMMA RoleFields ==
  ASSUME NEW is, NEW left, NEW len
  PROVE  /\ Role(is, left, len).is = is /\ Role(is, left, len).left = left
         /\ Role(is, left, len).len = len
BY DEF Role

LEMMA PlainFields ==
  ASSUME NEW is PROVE Plain(is).is = is /\ Plain(is).left = 0 /\ Plain(is).len = 0
BY DEF Role, Plain

---------------------------------------------------------------------------
(* AssBlaster: the byte after each kind of byte.                           *)

LEMMA AfterVabArgument ==
  ASSUME Taken(VabArgument(client)), client' = client
  PROVE  AtArgument'
<1>1. PICK m \in VabArgument(client) : role' = m.role /\ GotByte' \in m.bytes  BY DEF Taken
<1>. USE DEF AtArgument, AtEnd, AtEol
<1>2. CASE m \in VabEnd  BY <1>1, <1>2 DEF VabEnd, As
<1>3. CASE m = As(Plain("arg"), 1..127 \ {QUOTE, COMMENT})  BY <1>1, <1>3 DEF As
<1>4. CASE m = As(Plain("quote"), {QUOTE})  BY <1>1, <1>4 DEF As
<1>5. CASE \E f \in NumberCodes(client) \ {AB_ENDOFLINE} :
             m = As(Role("num", NumberSize(client, f), 0), {f})
  BY <1>1, <1>5 DEF As
<1>. QED BY <1>1, <1>2, <1>3, <1>4, <1>5 DEF VabArgument

LEMMA AfterVabName ==
  ASSUME Taken(VabName), client' = client
  PROVE  AtName'
BY DEF Taken, VabName, VabEnd, AtName, AtEnd, AtEol, As

LEMMA AfterVabLine ==
  ASSUME client \in AbFormats, Taken(VabLine(client)), client' = client,
         GotByte' \in FileBytes[client]
  PROVE  IF client = "vis" THEN role' = Plain("length") ELSE AtStart'
BY DEF Taken, VabLine, AtStart, Others, As

LEMMA OnlyStartsChange ==
  ASSUME NEW fmt \in AbFormats, NEW r, NEW b, r.is # "start"
  PROVE  Change(fmt, r, b) = 0
BY DEF Change, Opens, Closes, AbFormats

LEMMA VabRead ==
  ASSUME IO_get_byte, Reading', client \in AbFormats, role.is \notin {"raw", "header"}
  PROVE  /\ Taken(AfterVab(client, role, GotByte)) /\ GotByte' \in FileBytes[client]
         /\ client' = client /\ blocks' = blocks + Change(client, role', GotByte')
BY SoundRead, ReadOne, SuccessorsOf

\* Roles in which the argument goes on.
Continues(r) == \/ r = Plain("arg") \/ r = Plain("mode")
                \/ r.is \in {"num", "data"} /\ r.left = 0

LEMMA ArgumentRead ==
  ASSUME IO_get_byte, Reading', client \in AbFormats, blocks \in Int,
         \/ Continues(role)
         \/ role = Plain("start") /\ AfterStart(client, GotByte) = VabArgument(client)
  PROVE  AtArgument' /\ client' = client /\ blocks' = blocks
<1>1. role.is \notin {"raw", "header"}  BY PlainFields DEF Continues
<1>2. AfterVab(client, role, GotByte) = VabArgument(client)
  <2>1. CASE role = Plain("arg")  BY <2>1, PlainFields DEF AfterVab
  <2>2. CASE role = Plain("mode")  BY <2>2, PlainFields DEF AfterVab
  <2>3. CASE role.is \in {"num", "data"} /\ role.left = 0  BY <2>3 DEF AfterVab
  <2>4. CASE role = Plain("start")  BY <2>4, PlainFields DEF AfterVab, Continues
  <2>. QED BY <2>1, <2>2, <2>3, <2>4 DEF Continues
<1>3. AtArgument' /\ client' = client  BY <1>1, <1>2, VabRead, AfterVabArgument
<1>4. role'.is # "start"  BY <1>3, PlainFields, RoleFields DEF AtArgument, AtEnd, AtEol
<1>5. blocks' = blocks + Change(client, role', GotByte')  BY <1>1, VabRead
<1>6. Change(client, role', GotByte') = 0  BY <1>4, OnlyStartsChange
<1>. QED BY <1>3, <1>5, <1>6

LEMMA CodesApart ==
  ASSUME NEW fmt \in AbFormats, NEW b
  PROVE  /\ b \in MnemonicCodes(fmt) /\ fmt # "vis" => b \in 128..219
         /\ b \in PseudoCodes(fmt) => b \in 72..236 /\ b \notin MnemonicCodes(fmt)
         /\ b \in MnemonicCodes(fmt) => b \in 1..219
<1>1. CASE fmt = "ab3"  BY <1>1 DEF MnemonicCodes, PseudoCodes, FirstPseudo
<1>2. CASE fmt = "f8ab"  BY <1>2 DEF MnemonicCodes, PseudoCodes, FirstPseudo
<1>3. CASE fmt = "vis"  BY <1>3 DEF MnemonicCodes, PseudoCodes, FirstPseudo
<1>. QED BY <1>1, <1>2, <1>3 DEF AbFormats

\* What a line's code demands.
LEMMA StartCases ==
  ASSUME NEW fmt \in AbFormats, NEW b
  PROVE  /\ b \in PseudoCodes(fmt) \/ (fmt # "vis" /\ b = SPACE)
               \/ (fmt = "vis" /\ b \in MnemonicCodes(fmt))
             => AfterStart(fmt, b) = VabArgument(fmt)
         /\ fmt # "vis" /\ b \in MnemonicCodes(fmt)
             => AfterStart(fmt, b) = {As(Plain("mode"), ModeCodes(fmt))}
         /\ fmt # "vis" /\ b \in 1..31 => AfterStart(fmt, b) = VabName
         /\ fmt # "vis" /\ b = COMMENT => AfterStart(fmt, b)
              = {As(Plain("text"), 0..254), As(Plain("eol"), {AB_ENDOFLINE})}
         /\ b = 0 => AfterStart(fmt, b) = {As(Plain("eol"), {AB_ENDOFLINE})}
<1>. USE DEF COMMENT, SPACE
<1>1. CASE b \in PseudoCodes(fmt)
  <2>1. b \in 72..236 /\ b \notin MnemonicCodes(fmt)  BY <1>1, CodesApart
  <2>2. b # COMMENT /\ b # 0 /\ b \notin 1..31 /\ b # SPACE  BY <2>1
  <2>. HIDE DEF COMMENT, SPACE
  <2>. QED BY <2>1, <2>2 DEF AfterStart
<1>2. CASE fmt # "vis" /\ b = SPACE
  <2>1. b \notin MnemonicCodes(fmt)  BY <1>2, CodesApart
  <2>2. b # COMMENT /\ b # 0 /\ b \notin 1..31  BY <1>2
  <2>. HIDE DEF COMMENT, SPACE
  <2>. QED BY <1>2, <2>1, <2>2 DEF AfterStart
<1>3. CASE b \in MnemonicCodes(fmt)
  <2>1. b # 0 /\ (fmt # "vis" => b # COMMENT /\ b \notin 1..31 /\ b # SPACE)
    BY <1>3, CodesApart
  <2>. HIDE DEF COMMENT, SPACE
  <2>2. b \notin PseudoCodes(fmt)  BY <1>3, CodesApart
  <2>. QED BY <1>3, <2>1, <2>2 DEF AfterStart
<1>4. CASE fmt # "vis" /\ b \in 1..31
  <2>1. b \notin MnemonicCodes(fmt) /\ b \notin PseudoCodes(fmt)  BY <1>4, CodesApart
  <2>2. b # COMMENT /\ b # 0 /\ b # SPACE  BY <1>4
  <2>. HIDE DEF COMMENT, SPACE
  <2>. QED BY <1>4, <2>1, <2>2 DEF AfterStart
<1>5. CASE fmt # "vis" /\ b = COMMENT
  <2>1. b \notin MnemonicCodes(fmt) /\ b \notin PseudoCodes(fmt)  BY <1>5, CodesApart
  <2>2. b \notin 1..31 /\ b # 0 /\ b # SPACE  BY <1>5
  <2>. HIDE DEF COMMENT, SPACE
  <2>. QED BY <1>5, <2>1, <2>2 DEF AfterStart
<1>6. CASE b = 0
  <2>1. b \notin MnemonicCodes(fmt) /\ b \notin PseudoCodes(fmt)  BY <1>6, CodesApart
  <2>2. b \notin 1..31 /\ b # COMMENT /\ b # SPACE  BY <1>6
  <2>. HIDE DEF COMMENT, SPACE
  <2>. QED BY <1>6, <2>1, <2>2 DEF AfterStart
<1>. QED BY <1>1, <1>2, <1>3, <1>4, <1>5, <1>6

LEMMA NameRead ==
  ASSUME IO_get_byte, Reading', client \in AbFormats, blocks \in Int,
         \/ role = Plain("name")
         \/ role = Plain("start") /\ AfterStart(client, GotByte) = VabName
  PROVE  AtName' /\ client' = client /\ blocks' = blocks
<1>1. role.is \notin {"raw", "header"}  BY PlainFields
<1>2. AfterVab(client, role, GotByte) = VabName
  <2>1. CASE role = Plain("name")  BY <2>1, PlainFields DEF AfterVab
  <2>2. CASE role = Plain("start")  BY <2>2, PlainFields DEF AfterVab
  <2>. QED BY <2>1, <2>2
<1>3. AtName' /\ client' = client  BY <1>1, <1>2, VabRead, AfterVabName
<1>4. role'.is # "start"  BY <1>3, PlainFields DEF AtName, AtEnd, AtEol
<1>5. blocks' = blocks + Change(client, role', GotByte')  BY <1>1, VabRead
<1>6. Change(client, role', GotByte') = 0  BY <1>4, OnlyStartsChange
<1>. QED BY <1>3, <1>5, <1>6

\* A comment, and the one byte that may follow a line's code of zero.
AtText == AtEol \/ (role = Plain("text") /\ GotByte \in 0..254)
LEMMA TextRead ==
  ASSUME IO_get_byte, Reading', client \in AbFormats, blocks \in Int,
         \/ role = Plain("text")
         \/ role = Plain("start") /\ GotByte = COMMENT /\ client # "vis"
         \/ role = Plain("start") /\ GotByte = 0
  PROVE  /\ AtText' /\ client' = client /\ blocks' = blocks
         /\ role = Plain("start") /\ GotByte = 0 => AtEol'
<1>1. role.is \notin {"raw", "header"}  BY PlainFields
<1>. DEFINE rest == {As(Plain("text"), 0..254), As(Plain("eol"), {AB_ENDOFLINE})}
<1>2. AfterVab(client, role, GotByte) \in {rest, {As(Plain("eol"), {AB_ENDOFLINE})}}
  <2>1. CASE role = Plain("text")  BY <2>1, PlainFields DEF AfterVab
  <2>2. CASE role = Plain("start") /\ GotByte = COMMENT /\ client # "vis"
    <3>1. AfterStart(client, GotByte) = rest  BY <2>2, StartCases
    <3>. QED BY <2>2, <3>1, PlainFields DEF AfterVab
  <2>3. CASE role = Plain("start") /\ GotByte = 0
    <3>1. AfterStart(client, GotByte) = {As(Plain("eol"), {AB_ENDOFLINE})}  BY <2>3, StartCases
    <3>. QED BY <2>3, <3>1, PlainFields DEF AfterVab
  <2>. QED BY <2>1, <2>2, <2>3
<1>3. Taken(AfterVab(client, role, GotByte)) /\ client' = client  BY <1>1, VabRead
<1>4. AtText'  BY <1>2, <1>3 DEF Taken, As, AtText, AtEol
<1>7. ASSUME role = Plain("start"), GotByte = 0 PROVE AtEol'
  <2>1. AfterVab(client, role, GotByte) = {As(Plain("eol"), {AB_ENDOFLINE})}
    <3>1. AfterStart(client, GotByte) = {As(Plain("eol"), {AB_ENDOFLINE})}  BY <1>7, StartCases
    <3>. QED BY <1>7, <3>1, PlainFields DEF AfterVab
  <2>. QED BY <1>3, <2>1 DEF Taken, As, AtEol
<1>5. role'.is # "start"  BY <1>4, PlainFields DEF AtText, AtEol
<1>6. Change(client, role', GotByte') = 0  BY <1>3, <1>5, OnlyStartsChange
<1>. QED BY <1>1, <1>3, <1>4, <1>6, <1>7, VabRead

AtString ==
  \/ role = Plain("quote") /\ GotByte \in 0..254 \ {QUOTE}
  \/ role = Plain("arg") /\ GotByte = QUOTE
  \/ AtEol
LEMMA StringRead ==
  ASSUME IO_get_byte, Reading', client \in AbFormats, blocks \in Int, role = Plain("quote")
  PROVE  AtString' /\ client' = client /\ blocks' = blocks
<1>1. role.is \notin {"raw", "header"}  BY PlainFields
<1>2. AfterVab(client, role, GotByte) =
        {As(Plain("quote"), 0..254 \ {QUOTE}), As(Plain("arg"), {QUOTE}),
         As(Plain("eol"), {AB_ENDOFLINE})}
  BY PlainFields DEF AfterVab
<1>3. Taken(AfterVab(client, role, GotByte)) /\ client' = client  BY <1>1, VabRead
<1>4. AtString'  BY <1>2, <1>3 DEF Taken, As, AtString, AtEol
<1>5. role'.is # "start"  BY <1>4, PlainFields DEF AtString, AtEol
<1>6. Change(client, role', GotByte') = 0  BY <1>3, <1>5, OnlyStartsChange
<1>. QED BY <1>1, <1>3, <1>4, <1>6, VabRead

LEMMA NumberRead ==
  ASSUME IO_get_byte, Reading', client \in AbFormats, blocks \in Int, NEW n \in Nat,
         n > 0, role = Role("num", n, 0) \/ role = Role("data", n, 0)
  PROVE  role' = Role("data", n - 1, 0) /\ client' = client /\ blocks' = blocks
<1>1. role.is \in {"num", "data"} /\ role.left = n  BY RoleFields
<1>2. AfterVab(client, role, GotByte) = {As(Role("data", n - 1, 0), 0..255)}
  BY <1>1 DEF AfterVab
<1>3. Taken(AfterVab(client, role, GotByte)) /\ client' = client  BY <1>1, VabRead
<1>4. role' = Role("data", n - 1, 0)  BY <1>2, <1>3 DEF Taken, As
<1>5. role'.is # "start"  BY <1>4, RoleFields
<1>6. Change(client, role', GotByte') = 0  BY <1>3, <1>5, OnlyStartsChange
<1>. QED BY <1>1, <1>3, <1>4, <1>6, VabRead

LEMMA ModeRead ==
  ASSUME IO_get_byte, Reading', client \in AbFormats \ {"vis"}, blocks \in Int,
         role = Plain("start"), GotByte \in MnemonicCodes(client)
  PROVE  role' = Plain("mode") /\ client' = client /\ blocks' = blocks
<1>1. role.is \notin {"raw", "header"}  BY PlainFields
<1>2. AfterVab(client, role, GotByte) = {As(Plain("mode"), ModeCodes(client))}
  BY PlainFields, StartCases DEF AfterVab
<1>3. Taken(AfterVab(client, role, GotByte)) /\ client' = client  BY <1>1, VabRead
<1>4. role' = Plain("mode")  BY <1>2, <1>3 DEF Taken, As
<1>5. role'.is # "start"  BY <1>4, PlainFields
<1>6. Change(client, role', GotByte') = 0  BY <1>3, <1>5, OnlyStartsChange
<1>. QED BY <1>1, <1>3, <1>4, <1>6, VabRead

\* A line begins: where VisAss has the line's length, no block changes.
LEMMA LineRead ==
  ASSUME IO_get_byte, Reading', client \in AbFormats, blocks \in Int, role = Plain("eol")
  PROVE  /\ IF client = "vis" THEN role' = Plain("length") ELSE AtStart'
         /\ client' = client
         /\ blocks' = blocks + Change(client, role', GotByte')
<1>1. role.is \notin {"raw", "header"}  BY PlainFields
<1>2. AfterVab(client, role, GotByte) = VabLine(client)  BY PlainFields DEF AfterVab
<1>. QED BY <1>1, <1>2, VabRead, AfterVabLine

LEMMA LengthRead ==
  ASSUME IO_get_byte, Reading', client = "vis", blocks \in Int, role = Plain("length")
  PROVE  AtStart' /\ client' = client /\ blocks' = blocks + Change(client, role', GotByte')
<1>1. role.is \notin {"raw", "header"} /\ client \in AbFormats  BY PlainFields DEF AbFormats
<1>2. AfterVab(client, role, GotByte) =
        {As(Plain("start"), MnemonicCodes(client) \cup PseudoCodes(client))}
  BY PlainFields DEF AfterVab
<1>3. /\ Taken(AfterVab(client, role, GotByte)) /\ GotByte' \in FileBytes[client]
      /\ client' = client
  BY <1>1, VabRead
<1>4. AtStart'  BY <1>2, <1>3 DEF Taken, As, AtStart
<1>. QED BY <1>1, <1>3, <1>4, VabRead

---------------------------------------------------------------------------
(* Headers.                                                                *)

LEMMA HeaderRead ==
  ASSUME IO_get_byte, Reading', client \in Formats, blocks \in Int,
         NEW h \in Headers(client), NEW place \in 0..Len(h),
         role = Role("header", place, IF place = 0 THEN 0 ELSE Len(h))
  PROVE  /\ client' = client
         /\ place < Len(h) => AtHeader(place + 1)' /\ blocks' = blocks
         /\ place = Len(h) =>
              /\ Taken(FirstLine(client)) /\ GotByte' \in FileBytes[client]
              /\ blocks' = blocks + Change(client, role', GotByte')
<1>1. /\ Len(h) \in {2, 3, 5}
      /\ role.is = "header" /\ role.left = place
      /\ role.len = IF place = 0 THEN 0 ELSE Len(h)
  BY RoleFields DEF Headers
<1>2. /\ Taken(AfterHeader(client, role)) /\ GotByte' \in FileBytes[client] /\ client' = client
      /\ blocks' = blocks + Change(client, role', GotByte')
  BY <1>1, ReadOne, SoundRead, SuccessorsOf
<1>3. CASE place = Len(h)
  BY <1>1, <1>2, <1>3 DEF AfterHeader
<1>4. CASE place < Len(h)
  <2>1. PICK m \in AfterHeader(client, role) : role' = m.role /\ GotByte' \in m.bytes
    BY <1>2 DEF Taken
  <2>2. ~(role.left > 0 /\ role.left = role.len)  BY <1>1, <1>4
  <2>3. PICK g \in Headers(client) :
          /\ role.len \in {0, Len(g)}
          /\ m = As(Role("header", role.left + 1, Len(g)), {g[role.left + 1]})
    BY <2>1, <2>2 DEF AfterHeader
  <2>4. role' = Role("header", place + 1, Len(g)) /\ GotByte' = g[place + 1]
    BY <1>1, <2>1, <2>3 DEF As
  <2>5. Len(g) \in {2, 3, 5} /\ place + 1 \in 1..Len(g)
    <3>1. Len(g) \in {2, 3, 5}  BY DEF Headers
    <3>. QED BY <1>1, <1>4, <2>3, <3>1
  <2>6. AtHeader(place + 1)'  BY <1>2, <2>4, <2>5 DEF AtHeader
  <2>7. role'.is = "header"  BY <2>4, RoleFields
  <2>8. Change(client, role', GotByte') = 0
    BY <2>7 DEF Change, Opens, Closes, AbFormats
  <2>. QED BY <1>2, <1>4, <2>6, <2>8
<1>. QED BY <1>2, <1>3, <1>4

---------------------------------------------------------------------------
(* A step of an AssBlaster converter.                                      *)

AbPart == HeadSound /\ AbSound /\ AbReturns /\ AbBraces

\* What is known where such a step begins.
AbHere ==
  /\ client \in AbFormats /\ client \in Formats /\ ~IO_reached_eof
  /\ AbPart /\ AbTypeOK
  /\ blocks \in Int /\ braces \in Int /\ GotByte \in {EOF} \cup 0..255
  /\ pc = "ab_number" => ab.need > 0

LEMMA AbHeaders ==
  ASSUME NEW fmt \in AbFormats, NEW h \in Headers(fmt), NEW place \in 1..Len(h)
  PROVE  /\ place = 3 \/ place = 5 => (place = Len(h) <=> h[place] = AB_ENDOFLINE)
         /\ place \in {1, 2, 4} => place < Len(h)
<1>1. h = <<0, 8, 255>> \/ h = <<255, 0, 0, 3, 255>>  BY DEF Headers, AB_ENDOFLINE
<1>2. CASE h = <<0, 8, 255>>  BY <1>2 DEF AB_ENDOFLINE
<1>3. CASE h = <<255, 0, 0, 3, 255>>  BY <1>3 DEF AB_ENDOFLINE
<1>. QED BY <1>1, <1>2, <1>3

LEMMA HeaderGoesOn ==
  ASSUME AbHere, IO_get_byte, Reading', NEW place \in 1..5, AtHeader(place),
         \/ place = 3 /\ GotByte # AB_ENDOFLINE
         \/ place \in {1, 2, 4}
  PROVE  AtHeader(place + 1)' /\ blocks' = blocks /\ client' = client
<1>. USE DEF AbHere
<1>1. PICK h \in Headers(client) :
        place \in 1..Len(h) /\ role = Role("header", place, Len(h)) /\ GotByte = h[place]
  BY DEF AtHeader
<1>2. place < Len(h)
  <2>1. place \in {1, 2, 4} \/ (place = 3 /\ place # Len(h))  BY <1>1, AbHeaders
  <2>2. Len(h) \in Nat  BY DEF Headers
  <2>. QED BY <1>1, <2>1, <2>2, AbHeaders
<1>3. place \in 0..Len(h) /\ place # 0  BY <1>1
<1>. QED BY <1>1, <1>2, <1>3, HeaderRead

LEMMA HeaderEnds ==
  ASSUME AbHere, IO_get_byte, Reading', NEW place \in {3, 5}, AtHeader(place),
         GotByte = AB_ENDOFLINE
  PROVE  /\ IF client = "vis" THEN role' = Plain("length") ELSE AtStart'
         /\ client' = client
         /\ blocks' = blocks + Change(client, role', GotByte')
<1>. USE DEF AbHere
<1>1. PICK h \in Headers(client) :
        place \in 1..Len(h) /\ role = Role("header", place, Len(h)) /\ GotByte = h[place]
  BY DEF AtHeader
<1>2. place = Len(h)  BY <1>1, AbHeaders
<1>3. place \in 0..Len(h) /\ place # 0  BY <1>1
<1>4. /\ client' = client /\ Taken(FirstLine(client)) /\ GotByte' \in FileBytes[client]
      /\ blocks' = blocks + Change(client, role', GotByte')
  BY <1>1, <1>2, <1>3, HeaderRead
<1>5. FirstLine(client) = VabLine(client)  BY DEF FirstLine, AbFormats, BasicFormats
<1>. QED BY <1>4, <1>5, AfterVabLine

\* Where a line begins.
LEMMA LineBegins ==
  ASSUME client \in AbFormats, pc' = "ab_line", client' = client,
         IF client = "vis" THEN role' = Plain("length") ELSE AtStart',
         blocks' = braces' + Change(client, role', GotByte'), braces' \in Int
  PROVE  AbPart'
<1>1. client # "vis" => role'.is = "start"  BY PlainFields DEF AtStart
<1>2. client = "vis" => role'.is = "length" BY PlainFields
<1>3. client = "vis" => Change(client, role', GotByte') = 0
  BY <1>2, OnlyStartsChange
<1>. QED BY <1>1, <1>2, <1>3 DEF AbPart, HeadSound, AbSound, AbReturns, AbBraces

LEMMA AbHeadStep == ASSUME AbHere, AbHeader, Reading' PROVE AbPart'
<1>1. UNCHANGED <<braces, ab>> /\ client \in AbFormats /\ AbPart /\ braces \in Int
  BY DEF AbHeader, Keep, Locals, outVars, AbHere
<1>2. pc \in {"body", "ab_head", "ab_head4", "ab_head5"} => blocks = braces
  BY <1>1 DEF AbPart, AbBraces, AbHere
<1>. USE DEF ReadTo, Goto, KeepTo
<1>3. CASE pc = "body"
  <2>1. AtHeader(2) /\ pc' = "ab_head" /\ IO_get_byte
    BY <1>1, <1>3 DEF AbHeader, AbPart, HeadSound
  <2>2. AtHeader(3)' /\ blocks' = blocks /\ client' = client  BY <2>1, HeaderGoesOn
  <2>. QED BY <1>1, <1>2, <1>3, <2>1, <2>2 DEF AbPart, HeadSound, AbSound, AbReturns, AbBraces
<1>4. CASE pc = "ab_head"
  <2>1. AtHeader(3)  BY <1>1, <1>4 DEF AbPart, HeadSound
  <2>2. CASE GotByte = AB_ENDOFLINE
    <3>1. pc' = "ab_line" /\ IO_get_byte  BY <1>4, <2>2 DEF AbHeader, AB_ENDOFLINE
    <3>2. /\ IF client = "vis" THEN role' = Plain("length") ELSE AtStart'
          /\ client' = client /\ blocks' = blocks + Change(client, role', GotByte')
      BY <2>1, <2>2, <3>1, HeaderEnds
    <3>. QED BY <1>1, <1>2, <1>4, <3>1, <3>2, LineBegins
  <2>3. CASE GotByte # AB_ENDOFLINE
    <3>1. client = "f8ab" /\ GotByte = 0
      BY <2>1, <2>3 DEF AtHeader, Headers
    <3>2. pc' = "ab_head4" /\ IO_get_byte  BY <1>4, <2>3, <3>1 DEF AbHeader
    <3>3. AtHeader(4)' /\ blocks' = blocks /\ client' = client  BY <2>1, <2>3, <3>2, HeaderGoesOn
    <3>. QED BY <1>1, <1>2, <1>4, <3>2, <3>3 DEF AbPart, HeadSound, AbSound, AbReturns, AbBraces
  <2>. QED BY <2>2, <2>3
<1>5. CASE pc = "ab_head4"
  <2>1. AtHeader(4)  BY <1>1, <1>5 DEF AbPart, HeadSound
  <2>2. GotByte = 3  BY <2>1 DEF AtHeader, Headers
  <2>3. pc' = "ab_head5" /\ IO_get_byte  BY <1>5, <2>2 DEF AbHeader
  <2>4. AtHeader(5)' /\ blocks' = blocks /\ client' = client  BY <2>1, <2>3, HeaderGoesOn
  <2>. QED BY <1>1, <1>2, <1>5, <2>3, <2>4 DEF AbPart, HeadSound, AbSound, AbReturns, AbBraces
<1>6. CASE pc = "ab_head5"
  <2>1. AtHeader(5)  BY <1>1, <1>6 DEF AbPart, HeadSound
  <2>2. GotByte = AB_ENDOFLINE  BY <2>1 DEF AtHeader, Headers
  <2>3. pc' = "ab_line" /\ IO_get_byte  BY <1>6, <2>2 DEF AbHeader
  <2>. QED BY <1>1, <1>2, <1>6, <2>1, <2>2, <2>3, HeaderEnds, LineBegins
<1>. QED BY <1>3, <1>4, <1>5, <1>6 DEF AbHeader

\* The converters' ranges are those of the files.
LEMMA Ranges ==
  ASSUME client \in AbFormats
  PROVE  /\ conf.first_pseudo_opcode = FirstPseudo(client)
         /\ (conf.address_mode_count > 2) <=> client # "vis"
         /\ conf.has_length <=> client = "vis"
         /\ client = "vis" => conf.add_dot = FALSE
         /\ AtEnd => ~In(conf.first_pseudo_opcode, conf.pseudo_opcode_count) /\ ~Unused
BY DEF conf, Vab, ab3_conf, f8ab_conf, visass_conf, FirstPseudo, AbFormats, In, AtEnd, AtEol,
       Unused, AB_ENDOFLINE, COMMENT

LEMMA StartRanges ==
  ASSUME client \in AbFormats, client \in Formats, Written, AtStart
  PROVE  /\ In(conf.first_mnemonic, conf.mnemonic_count) <=> GotByte \in MnemonicCodes(client)
         /\ In(conf.first_pseudo_opcode, conf.pseudo_opcode_count)
              <=> GotByte \in PseudoCodes(client)
         /\ GotByte \in Others => ~Unused
         /\ GotByte \in PseudoCodes(client) \/ GotByte \in MnemonicCodes(client)
              \/ GotByte \in Others
<1>. USE DEF conf, Vab, FirstPseudo, In, Unused, MnemonicCodes, PseudoCodes, AtStart,
             Others, AB_ENDOFLINE, COMMENT, SPACE
<1>1. CASE client = "ab3"
  <2>1. GotByte \notin 168..199  BY <1>1 DEF Written
  <2>. QED BY <1>1, <2>1 DEF ab3_conf
<1>2. CASE client = "f8ab"  BY <1>2 DEF f8ab_conf
<1>3. CASE client = "vis"  BY <1>3 DEF visass_conf
<1>. QED BY <1>1, <1>2, <1>3 DEF AbFormats

\* What opens or closes a block is a pseudo opcode.
LEMMA StartChanges ==
  ASSUME client \in AbFormats, role = Plain("start"), GotByte \in Int
  PROVE  /\ GotByte \notin PseudoCodes(client) => Change(client, role, GotByte) = 0
         /\ Change(client, role, GotByte) = Brace(GotByte - FirstPseudo(client))
<1>. DEFINE first == FirstPseudo(client)
<1>1. role.is = "start"  BY PlainFields
<1>2. first \in Int  BY DEF FirstPseudo, AbFormats
<1>3. Change(client, role, GotByte) =
        IF GotByte = first + 5 THEN 1 ELSE IF GotByte = first + 6 THEN -1 ELSE 0
  BY <1>1 DEF Change, Opens, Closes, AbFormats
<1>4. GotByte = first + 5 \/ GotByte = first + 6 => GotByte \in PseudoCodes(client)
  BY <1>2 DEF PseudoCodes
<1>. HIDE DEF first
<1>5. Brace(GotByte - first) =
        IF GotByte = first + 5 THEN 1 ELSE IF GotByte = first + 6 THEN -1 ELSE 0
  BY <1>2 DEF Brace, EndMacro, AB_PSEUDOOFFSET_MACRODEF
<1>. QED BY <1>3, <1>4, <1>5 DEF first

\* Where a converter goes within a line: the byte is where pc' has it, and the
\* output is level with the blocks.
LEMMA ArgumentsBegin ==
  ASSUME pc' = "ab_args", client' \in AbFormats, AtArgument', blocks' = braces',
         braces' \in Int, ab'.ret \in {"ab_pseudo", "ab_unused"} => ab'.handled
  PROVE  AbPart'
<1>1. HeadSound'  BY DEF HeadSound
<1>2. AbSound'  BY DEF AbSound
<1>3. AbReturns'  BY DEF AbReturns
<1>4. AbBraces'
  <2>1. PICK n \in Int : braces' = n  OBVIOUS
  <2>. QED BY <2>1 DEF AbBraces
<1>. QED BY <1>1, <1>2, <1>3, <1>4 DEF AbPart

LEMMA NamesBegin ==
  ASSUME pc' = "ab_name", client' \in AbFormats, blocks' = braces', braces' \in Int,
         IF ab'.nret = "ab_args"
         THEN AtArgument' /\ (ab'.ret \in {"ab_pseudo", "ab_unused"} => ab'.handled)
         ELSE AtName' \/ (role' = Plain("start") /\ GotByte' \in 1..31 /\ client' # "vis")
  PROVE  AbPart'
<1>1. HeadSound'  BY DEF HeadSound
<1>2. AbSound'  BY DEF AbSound
<1>3. AbReturns'  BY DEF AbReturns
<1>4. AbBraces'
  <2>1. PICK n \in Int : braces' = n  OBVIOUS
  <2>. QED BY <2>1 DEF AbBraces
<1>. QED BY <1>1, <1>2, <1>3, <1>4 DEF AbPart

LEMMA AbLineStep == ASSUME AbHere, AB_line, Reading' PROVE AbPart'
<1>1. /\ UNCHANGED <<braces>> /\ client \in AbFormats /\ braces \in Int /\ pc = "ab_line"
      /\ ab' = [ab EXCEPT !.handled = FALSE] /\ AbTypeOK
  BY DEF AB_line, AbHere, AbTypeOK, Keep, outVars, WithAb
<1>2. ab'.handled = FALSE  BY <1>1 DEF AbTypeOK
<1>3. CASE client = "vis"
  <2>1. role = Plain("length") /\ pc' = "ab_mnemo" /\ IO_get_byte
    BY <1>1, <1>3, Ranges DEF AB_line, AbHere, AbPart, AbSound, ReadTo, Goto
  <2>2. blocks = braces
    BY <1>1, <2>1, PlainFields DEF AbHere, AbPart, AbBraces
  <2>3. AtStart' /\ client' = client /\ blocks' = blocks + Change(client, role', GotByte')
    BY <1>3, <2>1, LengthRead DEF AbHere
  <2>4. role'.is = "start"  BY <2>3, PlainFields DEF AtStart
  <2>. QED BY <1>1, <2>1, <2>2, <2>3, <2>4 DEF AbPart, HeadSound, AbSound, AbReturns, AbBraces
<1>4. CASE client # "vis"
  <2>1. AtStart /\ pc' = "ab_mnemo" /\ UNCHANGED ioVars
    BY <1>1, <1>4, Ranges DEF AB_line, AbHere, AbPart, AbSound, KeepTo, Goto
  <2>2. role.is = "start"  BY <2>1, PlainFields DEF AtStart
  <2>3. blocks = braces + Change(client, role, GotByte)
    BY <1>1, <2>2 DEF AbHere, AbPart, AbBraces
  <2>4. AtStart' /\ UNCHANGED <<client, role, GotByte, blocks, braces>>
    BY <1>1, <2>1 DEF ioVars, AtStart, Others
  <2>. QED BY <1>1, <2>1, <2>2, <2>3, <2>4 DEF AbPart, HeadSound, AbSound, AbReturns, AbBraces
<1>. QED BY <1>3, <1>4

LEMMA MnemoStep == ASSUME AbHere, Written, parse_mnemo, Reading' PROVE AbPart'
<1>1. /\ UNCHANGED <<braces>> /\ client \in AbFormats /\ braces \in Int /\ pc = "ab_mnemo"
      /\ AtStart /\ client \in Formats /\ blocks \in Int /\ GotByte \in Int /\ ~ab.handled
  BY DEF parse_mnemo, AbHere, AbPart, AbSound, Keep, outVars, EOF
<1>2. role = Plain("start") /\ role.is = "start"  BY <1>1, PlainFields DEF AtStart
<1>3. blocks = braces + Change(client, role, GotByte)
  BY <1>1, <1>2 DEF AbHere, AbPart, AbBraces
<1>4. CASE GotByte \notin MnemonicCodes(client)
  <2>1. KeepTo("ab_pseudo") /\ Locals  BY <1>1, <1>4, StartRanges DEF parse_mnemo
  <2>2. /\ AtStart' /\ UNCHANGED <<client, role, GotByte, blocks, braces>> /\ pc' = "ab_pseudo"
        /\ ~ab'.handled
    BY <1>1, <2>1 DEF ioVars, AtStart, Others, KeepTo, Goto, Locals
  <2>. QED BY <1>1, <1>2, <1>3, <1>4, <2>1, <2>2 DEF AbPart, HeadSound, AbSound, AbReturns, AbBraces
<1>5. CASE GotByte \in MnemonicCodes(client)
  <2>1. /\ ab' = [ab EXCEPT !.handled = TRUE, !.ret = "ab_pseudo"]
        /\ pc' = IF client # "vis" THEN "ab_mode" ELSE "ab_args"
        /\ IO_get_byte
    BY <1>1, <1>5, Ranges, StartRanges DEF parse_mnemo, WithAb, ReadTo, Goto
  <2>2. ab'.handled  BY <2>1 DEF AbHere, AbTypeOK
  <2>3. GotByte \notin PseudoCodes(client)  BY <1>1, <1>5, CodesApart
  <2>4. blocks = braces  BY <1>1, <1>2, <1>3, <2>3, StartChanges
  <2>5. CASE client # "vis"
    <3>1. role' = Plain("mode") /\ client' = client /\ blocks' = blocks
      BY <1>1, <1>2, <1>5, <2>1, <2>5, ModeRead
    <3>2. role'.is = "mode"  BY <3>1, PlainFields
    <3>. QED BY <1>1, <2>1, <2>2, <2>4, <2>5, <3>1, <3>2
         DEF AbPart, HeadSound, AbSound, AbReturns, AbBraces
  <2>6. CASE client = "vis"
    <3>1. AfterStart(client, GotByte) = VabArgument(client)  BY <1>1, <1>5, <2>6, StartCases
    <3>2. AtArgument' /\ client' = client /\ blocks' = blocks
      BY <1>1, <1>2, <2>1, <3>1, ArgumentRead
    <3>. QED BY <1>1, <2>1, <2>2, <2>4, <2>6, <3>2, ArgumentsBegin
  <2>. QED BY <2>5, <2>6
<1>. QED BY <1>4, <1>5

LEMMA ModeStep == ASSUME AbHere, parse_mode, Reading' PROVE AbPart'
<1>1. /\ UNCHANGED <<braces, ab>> /\ client \in AbFormats /\ braces \in Int /\ pc = "ab_mode"
      /\ blocks \in Int /\ blocks = braces /\ role = Plain("mode")
      /\ pc' = "ab_args" /\ IO_get_byte
      /\ ab.ret \in {"ab_pseudo", "ab_unused"} => ab.handled
  BY DEF parse_mode, AbHere, AbPart, AbSound, AbReturns, AbBraces, Keep, outVars, Locals, ReadTo, Goto
<1>2. AtArgument' /\ client' = client /\ blocks' = blocks
  BY <1>1, ArgumentRead DEF Continues
<1>. QED BY <1>1, <1>2, ArgumentsBegin

LEMMA PseudoStep == ASSUME AbHere, Written, parse_pseudo_opcode, Reading' PROVE AbPart'
<1>. DEFINE coded == In(conf.first_pseudo_opcode, conf.pseudo_opcode_count)
<1>1. /\ client \in AbFormats /\ braces \in Int /\ pc = "ab_pseudo"
      /\ client \in Formats /\ blocks \in Int /\ GotByte \in Int
      /\ IF ab.handled THEN AtEnd ELSE AtStart /\ GotByte \notin MnemonicCodes(client)
  BY DEF parse_pseudo_opcode, AbHere, AbPart, AbSound, EOF
<1>2. CASE ~coded
  <2>1. KeepTo("ab_unused") /\ Locals /\ UNCHANGED braces
    BY <1>2 DEF parse_pseudo_opcode
  <2>2. UNCHANGED <<client, role, GotByte, blocks, braces, ab>> /\ pc' = "ab_unused"
    BY <2>1 DEF ioVars, KeepTo, Goto, Locals
  <2>3. blocks = braces
    <3>1. CASE ab.handled  BY <1>1, <3>1 DEF AbHere, AbPart, AbBraces
    <3>2. CASE ~ab.handled
      <4>1. GotByte \notin PseudoCodes(client) /\ role = Plain("start")
        BY <1>1, <1>2, <3>2, StartRanges DEF AtStart
      <4>2. Change(client, role, GotByte) = 0  BY <1>1, <4>1, StartChanges
      <4>. QED BY <1>1, <3>2, <4>2 DEF AbHere, AbPart, AbBraces
    <3>. QED BY <3>1, <3>2
  <2>4. IF ab.handled THEN AtEnd ELSE AtStart /\ GotByte \in Others
    BY <1>1, <1>2, StartRanges
  <2>5. IF ab'.handled THEN AtEnd' ELSE AtStart' /\ GotByte' \in Others'
    BY <2>2, <2>4 DEF AtEnd, AtEol, AtStart, Others
  <2>. QED BY <1>1, <2>2, <2>3, <2>5 DEF AbPart, HeadSound, AbSound, AbReturns, AbBraces
<1>3. CASE coded
  <2>1. ~ab.handled  BY <1>1, <1>3, Ranges
  <2>2. role = Plain("start") /\ GotByte \in PseudoCodes(client)
    BY <1>1, <1>3, <2>1, StartRanges DEF AtStart
  <2>3. /\ braces' = braces + Brace(GotByte - FirstPseudo(client))
        /\ ab' = [ab EXCEPT !.handled = TRUE, !.ret = "ab_unused", !.nret = "ab_args"]
        /\ IO_get_byte /\ pc' \in {"ab_name", "ab_args"}
    BY <1>1, <1>3, Ranges DEF parse_pseudo_opcode, WithAb, ReadTo, Goto
  <2>4. ab'.handled /\ ab'.nret = "ab_args"  BY <2>3 DEF AbHere, AbTypeOK
  <2>5. blocks = braces + Brace(GotByte - FirstPseudo(client))
    BY <1>1, <2>1, <2>2, StartChanges DEF AbHere, AbPart, AbBraces
  <2>6. AfterStart(client, GotByte) = VabArgument(client)  BY <1>1, <2>2, StartCases
  <2>7. AtArgument' /\ client' = client /\ blocks' = blocks
    BY <1>1, <2>2, <2>3, <2>6, ArgumentRead
  <2>8. blocks' = braces' /\ braces' \in Int  BY <1>1, <2>3, <2>5, <2>7
  <2>. QED BY <1>1, <2>3, <2>4, <2>7, <2>8, ArgumentsBegin, NamesBegin
<1>. QED BY <1>2, <1>3

LEMMA CommentsBegin ==
  ASSUME pc' = "ab_comment", client' \in AbFormats, blocks' = braces', braces' \in Int,
         AtEnd' \/ (role' = Plain("start") /\ GotByte' = COMMENT /\ client' # "vis")
  PROVE  AbPart'
<1>1. HeadSound'  BY DEF HeadSound
<1>2. AbSound'  BY DEF AbSound
<1>3. AbReturns'  BY DEF AbReturns
<1>4. AbBraces'
  <2>1. PICK n \in Int : braces' = n  OBVIOUS
  <2>. QED BY <2>1 DEF AbBraces
<1>. QED BY <1>1, <1>2, <1>3, <1>4 DEF AbPart

LEMMA OtherStep == ASSUME AbHere, Written, OtherLines, Reading' PROVE AbPart'
<1>1. /\ client \in AbFormats /\ braces \in Int /\ pc = "ab_unused" /\ UNCHANGED braces
      /\ client \in Formats /\ blocks \in Int /\ GotByte \in Int
      /\ IF ab.handled THEN AtEnd ELSE AtStart /\ GotByte \in Others
      /\ blocks = braces
  BY DEF OtherLines, AbHere, AbPart, AbSound, AbBraces, EOF, Keep, outVars
<1>2. ~Unused  BY <1>1, Ranges, StartRanges
<1>3. CASE ab.handled \/ GotByte = COMMENT
  <2>1. UNCHANGED <<client, role, GotByte, blocks, braces, ab>> /\ pc' = "ab_comment"
    BY <1>1, <1>2, <1>3 DEF OtherLines, ioVars, KeepTo, Goto, Locals
  <2>2. AtEnd \/ (role = Plain("start") /\ GotByte = COMMENT /\ client # "vis")
    BY <1>1, <1>3 DEF AtStart, Others
  <2>3. AtEnd' \/ (role' = Plain("start") /\ GotByte' = COMMENT /\ client' # "vis")
    BY <2>1, <2>2 DEF AtEnd, AtEol
  <2>. QED BY <1>1, <2>1, <2>3, CommentsBegin
<1>4. CASE ~ab.handled /\ GotByte # COMMENT
  <2>0. role = Plain("start") /\ client # "vis" /\ GotByte \in 0..31 \cup {SPACE}
    BY <1>1, <1>4 DEF AtStart, Others
  <2>1. CASE GotByte = 0
    <3>1. pc' = "ab_comment" /\ IO_get_byte
      BY <1>2, <1>4, <2>1 DEF OtherLines, ReadTo, Goto, SPACE
    <3>2. AtEol' /\ client' = client /\ blocks' = blocks  BY <1>1, <2>0, <2>1, <3>1, TextRead
    <3>3. AtEnd'  BY <3>2 DEF AtEnd
    <3>. QED BY <1>1, <3>1, <3>2, <3>3, CommentsBegin
  <2>2. CASE GotByte = SPACE
    <3>1. pc' = "ab_args" /\ IO_get_byte /\ ab' = Argument
      BY <1>2, <1>4, <2>2 DEF OtherLines, ReadTo, Goto, SPACE, WithAb
    <3>2. AfterStart(client, GotByte) = VabArgument(client)  BY <1>1, <2>0, <2>2, StartCases
    <3>3. AtArgument' /\ client' = client /\ blocks' = blocks
      BY <1>1, <2>0, <3>1, <3>2, ArgumentRead
    <3>4. ab'.ret = "ab_comment"  BY <3>1 DEF Argument, AbHere, AbTypeOK
    <3>. QED BY <1>1, <3>1, <3>3, <3>4, ArgumentsBegin
  <2>3. CASE GotByte \in 1..31
    <3>1. pipe_name([ab EXCEPT !.nret = "ab_comment"])
      BY <1>2, <1>4, <2>3 DEF OtherLines, SPACE
    <3>2. pc' = "ab_name" /\ (IO_get_byte \/ UNCHANGED ioVars) /\ ab'.nret = "ab_comment"
      BY <3>1 DEF pipe_name, ReadTo, KeepTo, Goto, WithAb, AbHere, AbTypeOK
    <3>3. CASE IO_get_byte
      <4>1. AfterStart(client, GotByte) = VabName  BY <1>1, <2>0, <2>3, StartCases
      <4>2. AtName' /\ client' = client /\ blocks' = blocks
        BY <1>1, <2>0, <3>3, <4>1, NameRead
      <4>. QED BY <1>1, <3>2, <4>2, NamesBegin
    <3>4. CASE UNCHANGED ioVars
      <4>1. UNCHANGED <<client, role, GotByte, blocks, braces>>  BY <1>1, <3>4 DEF ioVars
      <4>. QED BY <1>1, <2>0, <2>3, <3>2, <4>1, NamesBegin
    <3>. QED BY <3>2, <3>3, <3>4
  <2>. QED BY <2>0, <2>1, <2>2, <2>3
<1>. QED BY <1>3, <1>4

LEMMA NameStep == ASSUME AbHere, pipe_global_name, Reading' PROVE AbPart'
<1>1. /\ client \in AbFormats /\ braces \in Int /\ pc = "ab_name" /\ UNCHANGED <<braces, ab>>
      /\ client \in Formats /\ blocks \in Int /\ GotByte \in Int
      /\ IF ab.nret = "ab_args" THEN AtArgument
         ELSE AtName \/ (role = Plain("start") /\ GotByte \in 1..31 /\ client # "vis")
      /\ blocks = braces
      /\ ab.nret = "ab_args" /\ ab.ret \in {"ab_pseudo", "ab_unused"} => ab.handled
      /\ ab.nret \in {"ab_args", "ab_comment"}
  BY DEF pipe_global_name, AbHere, AbPart, AbSound, AbBraces, AbReturns, AbTypeOK, EOF, Keep,
         outVars, Locals
<1>2. CASE NameByte
  <2>1. pc' = "ab_name" /\ IO_get_byte  BY <1>2 DEF pipe_global_name, ReadTo, Goto
  <2>2. CASE ab.nret = "ab_args"
    <3>1. role = Plain("arg")
      <4>1. \A f \in NumberCodes(client) : f > 127
        BY <1>1 DEF NumberCodes, AbFormats
      <4>. QED BY <1>1, <1>2, <2>2, <4>1 DEF NameByte, Digits, AtArgument, AtEnd, AtEol,
               AB_ENDOFLINE, COMMENT, QUOTE
    <3>2. AtArgument' /\ client' = client /\ blocks' = blocks
      BY <1>1, <2>1, <3>1, ArgumentRead DEF Continues
    <3>. QED BY <1>1, <2>1, <2>2, <3>2, NamesBegin
  <2>3. CASE ab.nret # "ab_args"
    <3>1. ~AtEnd  BY <1>2 DEF NameByte, Digits, AtEnd, AtEol, AB_ENDOFLINE, COMMENT
    <3>2. \/ role = Plain("name")
          \/ role = Plain("start") /\ AfterStart(client, GotByte) = VabName
      BY <1>1, <2>3, <3>1, StartCases DEF AtName
    <3>3. AtName' /\ client' = client /\ blocks' = blocks  BY <1>1, <2>1, <3>2, NameRead
    <3>. QED BY <1>1, <2>1, <2>3, <3>3, NamesBegin
  <2>. QED BY <2>2, <2>3
<1>3. CASE ~NameByte
  <2>1. UNCHANGED <<client, role, GotByte, blocks, braces, ab>> /\ pc' = ab.nret
    BY <1>1, <1>3 DEF pipe_global_name, ioVars, KeepTo, Goto
  <2>2. CASE ab.nret = "ab_args"
    <3>1. AtArgument'  BY <1>1, <2>1, <2>2 DEF AtArgument, AtEnd, AtEol
    <3>. QED BY <1>1, <2>1, <2>2, <3>1, ArgumentsBegin
  <2>3. CASE ab.nret # "ab_args"
    <3>1. AtEnd  BY <1>1, <1>3, <2>3 DEF AtName, NameByte
    <3>2. AtEnd'  BY <2>1, <3>1 DEF AtEnd, AtEol
    <3>. QED BY <1>1, <2>1, <2>3, <3>2, CommentsBegin
  <2>. QED BY <2>2, <2>3
<1>. QED BY <1>2, <1>3

LEMMA StringsBegin ==
  ASSUME pc' = "ab_quoted", client' \in AbFormats, AtString', blocks' = braces',
         braces' \in Int, ab'.ret \in {"ab_pseudo", "ab_unused"} => ab'.handled
  PROVE  AbPart'
<1>1. HeadSound'  BY DEF HeadSound
<1>2. AbSound'  BY DEF AbSound, AtString
<1>3. AbReturns'  BY DEF AbReturns
<1>4. AbBraces'
  <2>1. PICK n \in Int : braces' = n  OBVIOUS
  <2>. QED BY <2>1 DEF AbBraces
<1>. QED BY <1>1, <1>2, <1>3, <1>4 DEF AbPart

LEMMA QuotedStep == ASSUME AbHere, parse_quoted, Reading' PROVE AbPart'
<1>1. /\ client \in AbFormats /\ braces \in Int /\ pc = "ab_quoted" /\ UNCHANGED <<braces, ab>>
      /\ client \in Formats /\ blocks \in Int /\ GotByte \in Int
      /\ AtString /\ blocks = braces
      /\ ab.ret \in {"ab_pseudo", "ab_unused"} => ab.handled
  BY DEF parse_quoted, AbHere, AbPart, AbSound, AbBraces, AbReturns, EOF, Keep,
         outVars, Locals, AtString
<1>. USE DEF ReadTo, KeepTo, Goto
<1>2. CASE GotByte = QUOTE
  <2>1. pc' = "ab_args" /\ IO_get_byte  BY <1>2 DEF parse_quoted, AB_ENDOFLINE, QUOTE
  <2>2. role = Plain("arg")  BY <1>1, <1>2 DEF AtString, AtEol, AB_ENDOFLINE, QUOTE
  <2>3. AtArgument' /\ client' = client /\ blocks' = blocks
    BY <1>1, <2>1, <2>2, ArgumentRead DEF Continues
  <2>. QED BY <1>1, <2>1, <2>3, ArgumentsBegin
<1>3. CASE GotByte = AB_ENDOFLINE
  <2>1. UNCHANGED <<client, role, GotByte, blocks>> /\ pc' = "ab_args"
    BY <1>3 DEF parse_quoted, ioVars, AB_ENDOFLINE, QUOTE
  <2>2. AtEol  BY <1>1, <1>3 DEF AtString, AB_ENDOFLINE, QUOTE
  <2>3. AtArgument'  BY <2>1, <2>2 DEF AtArgument, AtEnd, AtEol
  <2>. QED BY <1>1, <2>1, <2>3, ArgumentsBegin
<1>4. CASE GotByte \notin {QUOTE, AB_ENDOFLINE}
  <2>1. pc' = "ab_quoted" /\ IO_get_byte  BY <1>4 DEF parse_quoted
  <2>2. role = Plain("quote")  BY <1>1, <1>4 DEF AtString, AtEol
  <2>3. AtString' /\ client' = client /\ blocks' = blocks  BY <1>1, <2>1, <2>2, StringRead
  <2>. QED BY <1>1, <2>1, <2>3, StringsBegin
<1>. QED BY <1>2, <1>3, <1>4

LEMMA NumbersBegin ==
  ASSUME pc' = "ab_number", client' \in AbFormats, role' = Role("data", ab'.need - 1, 0),
         blocks' = braces', braces' \in Int,
         ab'.ret \in {"ab_pseudo", "ab_unused"} => ab'.handled
  PROVE  AbPart'
<1>1. HeadSound'  BY DEF HeadSound
<1>2. AbSound'  BY DEF AbSound
<1>3. AbReturns'  BY DEF AbReturns
<1>4. AbBraces'
  <2>1. PICK n \in Int : braces' = n  OBVIOUS
  <2>. QED BY <2>1 DEF AbBraces
<1>. QED BY <1>1, <1>2, <1>3, <1>4 DEF AbPart

LEMMA NumberStep == ASSUME AbHere, parse_number, Reading' PROVE AbPart'
<1>1. /\ client \in AbFormats /\ braces \in Int /\ pc = "ab_number" /\ UNCHANGED braces
      /\ client \in Formats /\ blocks \in Int /\ GotByte \in Int
      /\ role = Role("data", ab.need - 1, 0) /\ blocks = braces
      /\ ab.ret \in {"ab_pseudo", "ab_unused"} => ab.handled
      /\ ab.need \in 1..3
      /\ ab' = [ab EXCEPT !.need = @ - 1]
  BY DEF parse_number, AbHere, AbPart, AbSound, AbBraces, AbReturns, EOF, Keep,
         outVars, AbTypeOK, WithAb
<1>2. ab'.need = ab.need - 1 /\ ab'.ret = ab.ret /\ ab'.handled = ab.handled
  BY <1>1 DEF AbHere, AbTypeOK
<1>. USE DEF ReadTo, KeepTo, Goto
<1>3. CASE ab.need > 1
  <2>1. pc' = "ab_number" /\ IO_get_byte  BY <1>3 DEF parse_number
  <2>. DEFINE n == ab.need - 1
  <2>2. n \in Nat /\ n > 0 /\ role = Role("data", n, 0)  BY <1>1, <1>3
  <2>3. role' = Role("data", n - 1, 0) /\ client' = client /\ blocks' = blocks
    BY <1>1, <2>1, <2>2, NumberRead
  <2>4. role' = Role("data", ab'.need - 1, 0)  BY <1>2, <2>3
  <2>. HIDE DEF n
  <2>. QED BY <1>1, <1>2, <2>1, <2>3, <2>4, NumbersBegin
<1>4. CASE ~(ab.need > 1)
  <2>1. pc' = "ab_args" /\ IO_get_byte  BY <1>4 DEF parse_number
  <2>2. role = Role("data", 0, 0)
    <3>1. ab.need - 1 = 0  BY <1>1, <1>4
    <3>. QED BY <1>1, <3>1
  <2>3. AtArgument' /\ client' = client /\ blocks' = blocks
    BY <1>1, <2>1, <2>2, RoleFields, ArgumentRead DEF Continues
  <2>. QED BY <1>1, <1>2, <2>1, <2>3, ArgumentsBegin
<1>. QED BY <1>3, <1>4

\* The first byte of a packed number gives its size.
LEMMA Sizes ==
  ASSUME NEW f \in NumberCodes(client)
  PROVE  /\ client = "ab3" => Ab3Size(f) = NumberSize(client, f)
         /\ client = "f8ab" => F8abSize(f) = NumberSize(client, f)
         /\ client = "vis" => FALSE
<1>1. CASE client = "ab3"
  BY <1>1 DEF NumberCodes, Ab3Size, NumberSize
<1>2. CASE client = "f8ab"  BY <1>2 DEF NumberCodes, F8abSize, NumberSize
<1>3. CASE client = "vis"  BY <1>3 DEF NumberCodes
<1>. QED BY <1>1, <1>2, <1>3

LEMMA ByteBits == \A b \in 0..255 : HasBit(b, 128) <=> b >= 128
BY DEF HasBit

LEMMA EndBegins ==
  ASSUME pc' \in {"ab_pseudo", "ab_unused"}, client' \in AbFormats, AtEnd',
         blocks' = braces', braces' \in Int, ab'.handled
  PROVE  AbPart'
<1>1. HeadSound'  BY DEF HeadSound
<1>2. AbSound'  BY DEF AbSound
<1>3. AbReturns'  BY DEF AbReturns
<1>4. AbBraces'
  <2>1. PICK n \in Int : braces' = n  OBVIOUS
  <2>. QED BY <2>1 DEF AbBraces
<1>. QED BY <1>1, <1>2, <1>3, <1>4 DEF AbPart

LEMMA ArgumentStep == ASSUME AbHere, parse_unspecified, Reading' PROVE AbPart'
<1>1. /\ client \in AbFormats /\ braces \in Int /\ pc = "ab_args" /\ UNCHANGED braces
      /\ client \in Formats /\ blocks \in Int /\ GotByte \in {EOF} \cup 0..255
      /\ AtArgument /\ blocks = braces
      /\ ab.ret \in {"ab_pseudo", "ab_unused"} => ab.handled
      /\ ab.ret \in {"ab_pseudo", "ab_unused", "ab_comment"}
  BY DEF parse_unspecified, AbHere, AbPart, AbSound, AbBraces, AbReturns, AbTypeOK
<1>2. GotByte \in 0..255
  BY <1>1 DEF AtArgument, AtEnd, AtEol, NumberCodes, AbFormats, EOF, QUOTE, COMMENT, AB_ENDOFLINE
<1>3. \A f \in NumberCodes(client) : f > 127  BY <1>1 DEF NumberCodes, AbFormats
<1>. USE DEF ReadTo, KeepTo, Goto, Locals, WithAb
<1>4. CASE GotByte \in {AB_ENDOFLINE, COMMENT}
  <2>1. UNCHANGED <<client, role, GotByte, blocks, ab>> /\ pc' = ab.ret
    BY <1>2, <1>4, ByteBits DEF parse_unspecified, ioVars, AB_ENDOFLINE, COMMENT, QUOTE
  <2>2. AtEnd
    BY <1>1, <1>3, <1>4 DEF AtArgument, AB_ENDOFLINE, COMMENT, QUOTE
  <2>3. AtEnd'  BY <2>1, <2>2 DEF AtEnd, AtEol
  <2>4. CASE ab.ret = "ab_comment"  BY <1>1, <2>1, <2>3, <2>4, CommentsBegin
  <2>5. CASE ab.ret # "ab_comment"  BY <1>1, <2>1, <2>3, <2>5, EndBegins
  <2>. QED BY <2>4, <2>5
<1>5. CASE GotByte \in 128..254
  <2>1. GotByte \in NumberCodes(client) \ {AB_ENDOFLINE} /\ role = Role("num", NumberSize(client, GotByte), 0)
    BY <1>1, <1>5 DEF AtArgument, AtEnd, AtEol, AB_ENDOFLINE, COMMENT, QUOTE
  <2>2. number_parser
    BY <1>2, <1>5, ByteBits DEF parse_unspecified, AB_ENDOFLINE, COMMENT, QUOTE
  <2>. DEFINE size == NumberSize(client, GotByte)
  <2>3. client # "vis" /\ size = IF client = "ab3" THEN Ab3Size(GotByte) ELSE F8abSize(GotByte)
    BY <1>1, <2>1, Sizes DEF AbFormats
  <2>4. size \in 0..3
    BY <1>1, <1>5, <2>3, NumberSizes
  <2>5. /\ IO_get_byte /\ pc' = IF size = 0 THEN "ab_args" ELSE "ab_number"
        /\ ab' = [ab EXCEPT !.need = size]
    BY <2>2, <2>3 DEF number_parser
  <2>6. role = Role("num", size, 0)  BY <2>1
  <2>. HIDE DEF size
  <2>7. ab'.need = size /\ ab'.ret = ab.ret /\ ab'.handled = ab.handled
    BY <2>5 DEF AbHere, AbTypeOK
  <2>8. CASE size = 0
    <3>1. AtArgument' /\ client' = client /\ blocks' = blocks
      BY <1>1, <2>5, <2>6, <2>8, RoleFields, ArgumentRead DEF Continues
    <3>. QED BY <1>1, <2>5, <2>7, <2>8, <3>1, ArgumentsBegin
  <2>9. CASE size # 0
    <3>1. size \in Nat /\ size > 0  BY <2>4, <2>9
    <3>2. role' = Role("data", size - 1, 0) /\ client' = client /\ blocks' = blocks
      BY <1>1, <2>5, <2>6, <3>1, NumberRead
    <3>3. role' = Role("data", ab'.need - 1, 0)  BY <2>7, <3>2
    <3>. QED BY <1>1, <2>5, <2>7, <2>9, <3>2, <3>3, NumbersBegin
  <2>. QED BY <2>8, <2>9
<1>6. CASE GotByte \in 0..31
  <2>1. pipe_name([ab EXCEPT !.nret = "ab_args"])
    BY <1>2, <1>6, ByteBits DEF parse_unspecified, AB_ENDOFLINE, COMMENT, QUOTE
  <2>2. /\ pc' = "ab_name" /\ (IO_get_byte \/ UNCHANGED ioVars)
        /\ ab' = [ab EXCEPT !.nret = "ab_args"]
    BY <2>1 DEF pipe_name
  <2>3. ab'.nret = "ab_args" /\ ab'.ret = ab.ret /\ ab'.handled = ab.handled
    BY <2>2 DEF AbHere, AbTypeOK
  <2>4. CASE IO_get_byte
    <3>1. role = Plain("arg")
      BY <1>1, <1>3, <1>6 DEF AtArgument, AtEnd, AtEol, AB_ENDOFLINE, COMMENT, QUOTE
    <3>2. AtArgument' /\ client' = client /\ blocks' = blocks
      BY <1>1, <2>4, <3>1, ArgumentRead DEF Continues
    <3>. QED BY <1>1, <2>2, <2>3, <3>2, NamesBegin
  <2>5. CASE UNCHANGED ioVars
    <3>1. UNCHANGED <<client, role, GotByte, blocks, braces>>  BY <1>1, <2>5 DEF ioVars
    <3>2. AtArgument'  BY <1>1, <3>1 DEF AtArgument, AtEnd, AtEol
    <3>. QED BY <1>1, <2>2, <2>3, <3>1, <3>2, NamesBegin
  <2>. QED BY <2>2, <2>4, <2>5
<1>7. CASE GotByte = QUOTE
  <2>1. pc' = "ab_quoted" /\ IO_get_byte /\ UNCHANGED ab
    BY <1>2, <1>7, ByteBits DEF parse_unspecified, AB_ENDOFLINE, COMMENT, QUOTE
  <2>2. role = Plain("quote")
    BY <1>1, <1>3, <1>7 DEF AtArgument, AtEnd, AtEol, AB_ENDOFLINE, COMMENT, QUOTE
  <2>3. AtString' /\ client' = client /\ blocks' = blocks  BY <1>1, <2>1, <2>2, StringRead
  <2>. QED BY <1>1, <2>1, <2>3, StringsBegin
<1>8. CASE GotByte \in 32..127 \ {QUOTE, COMMENT}
  <2>1. pc' = "ab_args" /\ IO_get_byte /\ UNCHANGED ab
    BY <1>2, <1>8, ByteBits DEF parse_unspecified, AB_ENDOFLINE, COMMENT, QUOTE
  <2>2. role = Plain("arg")
    BY <1>1, <1>3, <1>8 DEF AtArgument, AtEnd, AtEol, AB_ENDOFLINE, COMMENT, QUOTE
  <2>3. AtArgument' /\ client' = client /\ blocks' = blocks
    BY <1>1, <2>1, <2>2, ArgumentRead DEF Continues
  <2>. QED BY <1>1, <2>1, <2>3, ArgumentsBegin
<1>. QED BY <1>2, <1>4, <1>5, <1>6, <1>7, <1>8 DEF AB_ENDOFLINE

LEMMA CommentStep == ASSUME AbHere, LateComment, Reading' PROVE AbPart'
<1>1. /\ client \in AbFormats /\ braces \in Int /\ UNCHANGED <<braces, ab>>
      /\ client \in Formats /\ blocks \in Int /\ GotByte \in Int
      /\ pc \in {"ab_comment", "ab_ctext"} /\ blocks = braces
  BY DEF LateComment, AbHere, AbPart, AbBraces, EOF, Keep, outVars, Locals
<1>. USE DEF ReadTo, KeepTo, Goto, AbPart, HeadSound, AbSound, AbReturns, AbBraces
<1>2. CASE pc = "ab_comment"
  <2>1. AtEnd \/ (role = Plain("start") /\ GotByte = COMMENT /\ client # "vis")
    BY <1>2 DEF AbHere
  <2>2. CASE GotByte = COMMENT
    <3>1. pc' = "ab_ctext" /\ IO_get_byte  BY <1>2, <2>2 DEF LateComment
    <3>2. role = Plain("text") \/ (role = Plain("start") /\ client # "vis")
      BY <2>1, <2>2 DEF AtEnd, AtEol, AB_ENDOFLINE, COMMENT
    <3>3. AtText' /\ client' = client /\ blocks' = blocks  BY <1>1, <2>2, <3>1, <3>2, TextRead
    <3>. QED BY <1>1, <3>1, <3>3 DEF AtText
  <2>3. CASE GotByte # COMMENT
    <3>1. pc' = "ab_eol" /\ UNCHANGED <<client, role, GotByte, blocks>>
      BY <1>2, <2>3 DEF LateComment, ioVars
    <3>2. AtEol'  BY <2>1, <2>3, <3>1 DEF AtEnd, AtEol
    <3>. QED BY <1>1, <3>1, <3>2
  <2>. QED BY <2>2, <2>3
<1>3. CASE pc = "ab_ctext"
  <2>1. AtText  BY <1>3 DEF AbHere, AtText
  <2>2. CASE GotByte = AB_ENDOFLINE
    <3>1. pc' = "ab_eol" /\ UNCHANGED <<client, role, GotByte, blocks>>
      BY <1>3, <2>2 DEF LateComment, ioVars
    <3>2. AtEol'  BY <2>1, <2>2, <3>1 DEF AtText, AtEol, AB_ENDOFLINE
    <3>. QED BY <1>1, <3>1, <3>2
  <2>3. CASE GotByte # AB_ENDOFLINE
    <3>1. pc' = "ab_ctext" /\ IO_get_byte  BY <1>3, <2>3 DEF LateComment
    <3>2. role = Plain("text")  BY <2>1, <2>3 DEF AtText, AtEol
    <3>3. AtText' /\ client' = client /\ blocks' = blocks  BY <1>1, <3>1, <3>2, TextRead
    <3>. QED BY <1>1, <3>1, <3>3 DEF AtText
  <2>. QED BY <2>2, <2>3
<1>. QED BY <1>1, <1>2, <1>3

LEMMA EndStep == ASSUME AbHere, EndOfLine, Reading' PROVE AbPart'
<1>1. /\ client \in AbFormats /\ braces \in Int /\ UNCHANGED <<braces, ab>>
      /\ blocks \in Int /\ pc = "ab_eol" /\ blocks = braces /\ AtEol
  BY DEF EndOfLine, AbHere, AbPart, AbSound, AbBraces, Keep, outVars, Locals
<1>2. pc' = "ab_line" /\ IO_get_byte /\ role = Plain("eol")
  BY <1>1 DEF EndOfLine, AtEol, ReadTo, Goto
<1>3. /\ IF client = "vis" THEN role' = Plain("length") ELSE AtStart'
      /\ client' = client
      /\ blocks' = blocks + Change(client, role', GotByte')
  BY <1>1, <1>2, LineRead
<1>. QED BY <1>1, <1>2, <1>3, LineBegins

LEMMA AbPartKept == ASSUME AbHere, Written, AbNext, Reading' PROVE AbPart'
BY AbHeadStep, AbLineStep, MnemoStep, ModeStep, PseudoStep, OtherStep, NameStep, QuotedStep,
   NumberStep, ArgumentStep, CommentStep, EndStep DEF AbNext

---------------------------------------------------------------------------
(* A step of the converter for Professional Ass.                           *)

ProfHere ==
  /\ client = "prof" /\ client \in Formats /\ ~IO_reached_eof
  /\ HeadSound /\ ProfSound /\ ProfTypeOK /\ ProfState
  /\ blocks \in Int

LEMMA ProfRead ==
  ASSUME IO_get_byte, Reading', client = "prof", role.is \in {"len", "indent", "char", "len2"}
  PROVE  Taken(AfterProf(role, GotByte)) /\ client' = client
<1>1. role.is \notin {"raw", "header"} /\ client \notin AbFormats \cup BasicFormats
  BY DEF AbFormats, BasicFormats
<1>. QED BY <1>1, SoundRead, ReadOne, SuccessorsOf

\* Characters, or the second length, are left to come as the role counts them.
LEMMA CharactersRead ==
  ASSUME IO_get_byte, Reading', client = "prof", NEW is \in {"indent", "char"}, NEW n \in Int,
         NEW length, role = Role(is, n, length)
  PROVE  /\ n > 0 => role' = Role("char", n - 1, length)
         /\ ~(n > 0) => role' = Plain("len2")
<1>1. role.is = is /\ role.left = n /\ role.len = length  BY RoleFields
<1>2. Taken(AfterProf(role, GotByte))  BY <1>1, ProfRead
<1>3. AfterProf(role, GotByte) =
        IF n > 0 THEN {As(Role("char", n - 1, length), 0..255)} ELSE {As(Plain("len2"), {length})}
  BY <1>1 DEF AfterProf
<1>. QED BY <1>2, <1>3 DEF Taken, As

LEMMA ProfStepSound == ASSUME ProfHere, ProfNext, Reading' PROVE HeadSound' /\ ProfSound'
<1>1. /\ client = "prof" /\ client \in Formats /\ HeadSound /\ ProfSound /\ blocks \in Int
      /\ ProfTypeOK /\ ProfState
  BY DEF ProfHere
<1>. USE DEF ReadTo, Goto
<1>2. CASE pc = "body"
  <2>1. AtHeader(2) /\ IO_get_byte /\ pc' = "prof_len"
    BY <1>1, <1>2 DEF ProfNext, ProfLine, ProfIndent, ProfChar, ProfLength2, HeadSound
  <2>2. <<1, 8>> \in Headers(client) /\ role = Role("header", 2, 2)
    BY <1>1, <2>1 DEF AtHeader, Headers, AbFormats
  <2>3. Taken(FirstLine(client))
    <3>. DEFINE h == <<1, 8>>
    <3>1. h \in Headers(client) /\ 2 \in 0..Len(h) /\ Len(h) = 2  BY <2>2
    <3>. HIDE DEF h
    <3>. QED BY <1>1, <2>1, <2>2, <3>1, HeaderRead
  <2>4. FirstLine(client) = {As(Plain("len"), 3..255)}
    BY <1>1 DEF FirstLine, AbFormats, BasicFormats
  <2>. QED BY <2>1, <2>3, <2>4 DEF Taken, As, HeadSound, ProfSound
<1>3. CASE pc = "prof_len"
  <2>1. role = Plain("len") /\ GotByte \in 3..255  BY <1>1, <1>3 DEF ProfSound
  <2>2. IO_get_byte /\ pc' = "prof_indent" /\ pa' = NewLine(GotByte)
    BY <1>3, <2>1 DEF ProfNext, ProfLine, ProfIndent, ProfChar, ProfLength2
  <2>3. pa'.length1 = GotByte  BY <2>2 DEF NewLine
  <2>4. Taken(AfterProf(role, GotByte))  BY <1>1, <2>1, <2>2, PlainFields, ProfRead
  <2>5. AfterProf(role, GotByte) = {As(Role("indent", GotByte - 3, GotByte), 0..255)}
    BY <2>1, PlainFields DEF AfterProf
  <2>6. role' = Role("indent", GotByte - 3, GotByte)  BY <2>4, <2>5 DEF Taken, As
  <2>. QED BY <2>2, <2>3, <2>6 DEF HeadSound, ProfSound
<1>4. CASE pc = "prof_indent"
  <2>1. /\ role = Role("indent", pa.length1 - 3, pa.length1) /\ pa = NewLine(pa.length1)
        /\ pa.length1 \in 0..255
    BY <1>1, <1>4 DEF ProfSound, ProfState, ProfTypeOK
  <2>2. /\ IO_get_byte /\ pa' = pa
        /\ pc' = IF pa.length1 > 3 THEN "prof_char" ELSE "prof_len2"
    BY <1>4 DEF ProfNext, ProfLine, ProfIndent, ProfChar, ProfLength2
  <2>3. pa.ii = 0  BY <2>1 DEF NewLine
  <2>. DEFINE n == pa.length1 - 3
  <2>4. n \in Int /\ (n > 0 <=> pa.length1 > 3) /\ n - 1 = pa.length1 - 4 - pa.ii
    BY <2>1, <2>3
  <2>5. role = Role("indent", n, pa.length1)  BY <2>1
  <2>. HIDE DEF n
  <2>6. /\ n > 0 => role' = Role("char", n - 1, pa.length1)
        /\ ~(n > 0) => role' = Plain("len2")
    BY <1>1, <2>2, <2>4, <2>5, CharactersRead
  <2>7. CASE n > 0
    <3>1. role' = Role("char", pa'.length1 - 4 - pa'.ii, pa'.length1) /\ pc' = "prof_char"
      BY <2>2, <2>4, <2>6, <2>7
    <3>. QED BY <3>1 DEF HeadSound, ProfSound
  <2>8. CASE ~(n > 0)
    <3>1. role'.is = "len2" /\ pc' = "prof_len2"
      BY <2>2, <2>4, <2>6, <2>8, PlainFields
    <3>. QED BY <3>1 DEF HeadSound, ProfSound
  <2>. QED BY <2>7, <2>8
<1>5. CASE pc = "prof_char"
  <2>. DEFINE more == pa.ii + 1 < pa.length1 - 3
  <2>1. /\ role = Role("char", pa.length1 - 4 - pa.ii, pa.length1)
        /\ pa.length1 \in 0..255 /\ pa.ii \in 0..252
    BY <1>1, <1>5 DEF ProfSound, ProfTypeOK
  <2>2. /\ IO_get_byte /\ pa'.length1 = pa.length1 /\ pa'.ii = pa.ii + 1
        /\ pc' = IF more THEN "prof_char" ELSE "prof_len2"
    BY <1>1, <1>5 DEF ProfNext, ProfLine, ProfIndent, ProfChar, ProfLength2, ProfTypeOK
  <2>. DEFINE n == pa.length1 - 4 - pa.ii
  <2>4. n \in Int /\ (n > 0 <=> more) /\ n - 1 = pa.length1 - 4 - (pa.ii + 1)
    <3>. DEFINE length == pa.length1  ii == pa.ii
    <3>1. length \in Int /\ ii \in Int  BY <2>1
    <3>. HIDE DEF length, ii
    <3>2. /\ length - 4 - ii > 0 <=> ii + 1 < length - 3
          /\ length - 4 - ii \in Int
          /\ length - 4 - ii - 1 = length - 4 - (ii + 1)
      BY <3>1
    <3>. QED BY <3>2 DEF length, ii
  <2>5. role = Role("char", n, pa.length1)  BY <2>1
  <2>. HIDE DEF n, more
  <2>6. /\ n > 0 => role' = Role("char", n - 1, pa.length1)
        /\ ~(n > 0) => role' = Plain("len2")
    BY <1>1, <2>2, <2>4, <2>5, CharactersRead
  <2>7. CASE n > 0
    <3>1. role' = Role("char", pa'.length1 - 4 - pa'.ii, pa'.length1) /\ pc' = "prof_char"
      BY <2>2, <2>4, <2>6, <2>7
    <3>. QED BY <3>1 DEF HeadSound, ProfSound
  <2>8. CASE ~(n > 0)
    <3>1. role'.is = "len2" /\ pc' = "prof_len2"
      BY <2>2, <2>4, <2>6, <2>8, PlainFields
    <3>. QED BY <3>1 DEF HeadSound, ProfSound
  <2>. QED BY <2>7, <2>8
<1>6. CASE pc = "prof_len2"
  <2>1. role.is = "len2"  BY <1>1, <1>6 DEF ProfSound
  <2>2. IO_get_byte /\ pc' = "prof_len"
    BY <1>6 DEF ProfNext, ProfLine, ProfIndent, ProfChar, ProfLength2
  <2>3. Taken(AfterProf(role, GotByte))  BY <1>1, <2>1, <2>2, ProfRead
  <2>4. AfterProf(role, GotByte) = {As(Plain("len"), 3..255)}  BY <2>1 DEF AfterProf
  <2>. QED BY <2>2, <2>3, <2>4 DEF Taken, As, HeadSound, ProfSound
<1>. QED BY <1>2, <1>3, <1>4, <1>5, <1>6 DEF ProfNext, ProfLine, ProfIndent, ProfChar, ProfLength2

---------------------------------------------------------------------------
(* Hypra-Ass and Giga-Ass: the byte after each kind of byte.               *)

LEMMA BasicRead ==
  ASSUME IO_get_byte, Reading', client \in BasicFormats, role.is \notin {"raw", "header"}
  PROVE  /\ Taken(AfterBasic(client, role, GotByte)) /\ GotByte' \in FileBytes[client]
         /\ client' = client /\ blocks' = blocks + Change(client, role', GotByte')
BY SoundRead, ReadOne, SuccessorsOf

LEMMA OnlyOpcodesChange ==
  ASSUME NEW fmt \in BasicFormats, NEW r, NEW b, r.is \notin {"token", "po"}
  PROVE  Change(fmt, r, b) = 0
BY DEF Change, Opens, Closes, BasicFormats, AbFormats

\* Where the arguments begin, or go on with d parentheses open.
InArguments(r, d) ==
  \/ r = Role("arg", d, 0)
  \/ d = 0 /\ (r = Plain("token") \/ r = Role("op", 0, 0) \/ \E x : r = Role("po", 0, x))

LEMMA AfterArguments ==
  ASSUME NEW fmt, NEW r, NEW b, NEW d \in Nat, InArguments(r, d)
  PROVE  r.is \notin {"raw", "header"} /\ AfterBasic(fmt, r, b) = BasicArgument(d)
<1>1. CASE r = Role("arg", d, 0)
  <2>1. r.is = "arg" /\ r.left = d  BY <1>1, RoleFields
  <2>. QED BY <2>1 DEF AfterBasic
<1>2. CASE d = 0 /\ r = Plain("token")
  <2>1. r.is = "token" /\ r.left = d  BY <1>2, PlainFields
  <2>. QED BY <2>1 DEF AfterBasic
<1>3. CASE d = 0 /\ r = Role("op", 0, 0)
  <2>1. r.is = "op" /\ r.left = 0  BY <1>3, RoleFields
  <2>2. ~(r.left > 0)  BY <2>1
  <2>. QED BY <1>3, <2>1, <2>2 DEF AfterBasic
<1>4. CASE d = 0 /\ \E x : r = Role("po", 0, x)
  <2>1. r.is = "po" /\ r.left = 0  BY <1>4, RoleFields
  <2>2. ~(r.left > 0)  BY <2>1
  <2>. QED BY <1>4, <2>1, <2>2 DEF AfterBasic
<1>. QED BY <1>1, <1>2, <1>3, <1>4 DEF InArguments

LEMMA OperandTaken ==
  ASSUME NEW d \in Nat, Depth' = d, Taken(BasicOperand(d))
  PROVE  AtOperand' /\ role'.is \in {"arg", "quote"}
<1>1. PICK m \in BasicOperand(d) : role' = m.role /\ GotByte' \in m.bytes  BY DEF Taken
<1>2. \/ role' = Role("arg", d, 0) /\ GotByte' \in Letters \cup {61}
      \/ role' = Role("arg", d + 1, 0) /\ GotByte' = OPENING
      \/ role' = Role("quote", d, 0) /\ GotByte' = QUOTE
  BY <1>1 DEF BasicOperand, As
<1>. QED BY <1>2, RoleFields DEF AtOperand

LEMMA ArgumentTaken ==
  ASSUME NEW d \in Nat, Depth' = d, Taken(BasicArgument(d))
  PROVE  AtBasic' /\ role'.is \in {"arg", "quote", "bang", "text", "eol"}
<1>1. PICK m \in BasicArgument(d) : role' = m.role /\ GotByte' \in m.bytes  BY DEF Taken
<1>2. CASE m \in BasicOperand(d)
  <2>1. Taken(BasicOperand(d))  BY <1>1, <1>2 DEF Taken
  <2>. QED BY <2>1, OperandTaken DEF AtBasic
<1>3. CASE m = As(Role("arg", d, 0), {SPACE, DOT})
  BY <1>1, <1>3, RoleFields DEF As, AtBasic
<1>4. CASE m = As(Role("bang", d, 0), {33})
  BY <1>1, <1>4, RoleFields DEF As, AtBasic, BANG
<1>5. CASE d = 0 /\ m \in BasicEnd
  <2>1. AtRest'  BY <1>1, <1>5 DEF As, BasicEnd, AtRest, AtZero
  <2>2. role'.is \in {"text", "eol"}  BY <1>1, <1>5, PlainFields DEF As, BasicEnd
  <2>. QED BY <1>5, <2>1, <2>2 DEF AtBasic
<1>6. CASE d # 0 /\ m = As(Role("arg", d - 1, 0), {CLOSING})
  <2>1. d > 0  BY <1>6
  <2>. QED BY <1>1, <1>6, <2>1, RoleFields DEF As, AtBasic
<1>. QED BY <1>1, <1>2, <1>3, <1>4, <1>5, <1>6 DEF BasicArgument

LEMMA BasicArgumentRead ==
  ASSUME IO_get_byte, Reading', client \in BasicFormats, blocks \in Int, NEW d \in Nat,
         Depth' = d, InArguments(role, d)
  PROVE  AtBasic' /\ client' = client /\ blocks' = blocks
<1>1. Taken(BasicArgument(d))  BY AfterArguments, BasicRead
<1>2. AtBasic' /\ role'.is \notin {"token", "po"}  BY <1>1, ArgumentTaken
<1>3. Change(client, role', GotByte') = 0  BY <1>2, OnlyOpcodesChange
<1>. QED BY <1>2, <1>3, AfterArguments, BasicRead

\* Link and number of a line.  Nothing follows the link of zero that ends the
\* program.
LEMMA LinkRead ==
  ASSUME IO_get_byte, Reading', client \in BasicFormats, blocks \in Int,
         role.is \in {"eol", "link", "link2", "number", "end"}
  PROVE  /\ role.is = "eol" => role' = Plain("link")
         /\ role.is = "link" => role' \in {Plain("link2"), Plain("end")}
         /\ role.is = "link2" => role' = Plain("number")
         /\ role.is = "number" => role' = Plain("number2")
         /\ role.is # "end"
         /\ client' = client /\ blocks' = blocks
<1>1. Taken(AfterBasic(client, role, GotByte))  BY BasicRead
<1>2. /\ role.is = "eol" => role' = Plain("link")
      /\ role.is = "link" => role' \in {Plain("link2"), Plain("end")}
      /\ role.is = "link2" => role' = Plain("number")
      /\ role.is = "number" => role' = Plain("number2")
      /\ role.is # "end"
  BY <1>1 DEF Taken, AfterBasic, As
<1>3. role'.is \in {"link", "link2", "end", "number", "number2"}  BY <1>2, PlainFields
<1>4. Change(client, role', GotByte') = 0  BY <1>3, OnlyOpcodesChange
<1>. QED BY <1>2, <1>4, BasicRead

\* The byte after a line's number.
LEMMA FirstRead ==
  ASSUME IO_get_byte, Reading', Written, client \in BasicFormats, client \in Formats,
         role = Plain("number2")
  PROVE  /\ AtRest' \/ AtSpace' \/ AtLetter' \/ AtToken'
         /\ client' = client /\ blocks' = blocks + Change(client, role', GotByte')
<1>1. Taken(AfterBasic(client, role, GotByte)) /\ GotByte' \in FileBytes[client] /\ client' = client
  BY PlainFields, BasicRead
<1>2. AfterBasic(client, role, GotByte) =
        BasicSpace(client) \cup {As(Plain("name"), Letters)}
          \cup (IF client = "giga" THEN {As(Plain("token"), 160..255)} ELSE {})
  BY PlainFields DEF AfterBasic
<1>3. client = "giga" => GotByte' # 174  BY <1>1 DEF Written
<1>. QED BY <1>1, <1>2, <1>3, PlainFields, BasicRead
         DEF Taken, As, BasicSpace, BasicEnd, AtRest, AtZero, AtSpace, AtLetter, AtToken

\* The byte after a letter of a label.
LEMMA LabelRead ==
  ASSUME IO_get_byte, Reading', client \in BasicFormats, blocks \in Int, role = Plain("name")
  PROVE  /\ AtRest' \/ AtSpace' \/ AtLetter'
         /\ client' = client /\ blocks' = blocks
<1>1. Taken(AfterBasic(client, role, GotByte)) /\ client' = client  BY PlainFields, BasicRead
<1>2. AfterBasic(client, role, GotByte) = BasicSpace(client) \cup {As(Plain("name"), Letters)}
  BY PlainFields DEF AfterBasic
<1>3. AtRest' \/ AtSpace' \/ AtLetter'
  BY <1>1, <1>2 DEF Taken, As, BasicSpace, BasicEnd, AtRest, AtZero, AtSpace, AtLetter
<1>4. role'.is \in {"text", "eol", "space", "name"}
  BY <1>3, PlainFields DEF AtRest, AtZero, AtSpace, AtLetter
<1>5. Change(client, role', GotByte') = 0  BY <1>4, OnlyOpcodesChange
<1>. QED BY <1>1, <1>3, <1>5, PlainFields, BasicRead

\* The byte after a space before the opcode.
LEMMA SpaceRead ==
  ASSUME IO_get_byte, Reading', Written, client \in BasicFormats, client \in Formats,
         role = Plain("space")
  PROVE  /\ AtRest' \/ AtSpace' \/ AtOpcode'
         /\ client' = client /\ blocks' = blocks + Change(client, role', GotByte')
<1>1. Taken(AfterBasic(client, role, GotByte)) /\ GotByte' \in FileBytes[client] /\ client' = client
  BY PlainFields, BasicRead
<1>2. AfterBasic(client, role, GotByte) = BasicSpace(client) \cup BasicOpcode(client)
  BY PlainFields DEF AfterBasic
<1>3. client = "giga" => GotByte' # 174  BY <1>1 DEF Written
<1>4. PICK m \in BasicSpace(client) \cup BasicOpcode(client) :
        role' = m.role /\ GotByte' \in m.bytes
  BY <1>1, <1>2 DEF Taken
<1>5. CASE m \in BasicSpace(client)
  BY <1>1, <1>4, <1>5, PlainFields, BasicRead
     DEF As, BasicSpace, BasicEnd, AtRest, AtZero, AtSpace
<1>6. CASE m \in BasicOpcode(client) /\ client = "giga"
  <2>1. \/ role' = Plain("token") /\ GotByte' \in 160..255
        \/ role' = Plain("arg") /\ GotByte' \in Letters
    BY <1>4, <1>6 DEF As, BasicOpcode, Plain
  <2>2. AtOpcode'  BY <1>1, <1>3, <1>6, <2>1 DEF AtOpcode, AtToken
  <2>. QED BY <2>2, PlainFields, BasicRead
<1>7. CASE m \in BasicOpcode(client) /\ client # "giga"
  <2>1. client = "hypra"  BY <1>7 DEF BasicFormats
  <2>2. AtOpcode'  BY <1>1, <1>4, <1>7, <2>1 DEF As, BasicOpcode, AtOpcode
  <2>. QED BY <2>2, PlainFields, BasicRead
<1>. QED BY <1>4, <1>5, <1>6, <1>7

\* The letters of an opcode.
LEMMA LettersRead ==
  ASSUME IO_get_byte, Reading', client \in BasicFormats, blocks \in Int,
         NEW n \in Nat, n > 0, NEW x,
         role = Role("op", n, 0) \/ role = Role("po", n, x)
  PROVE  /\ role = Role("op", n, 0) => /\ role' = Role("op", n - 1, 0) /\ GotByte' \in Letters
                                       /\ blocks' = blocks
         /\ role = Role("po", n, x) => /\ role' = Role("po", n - 1, GotByte)
                                       /\ GotByte' \in Letters \cup {DOT}
         /\ client' = client /\ blocks' = blocks + Change(client, role', GotByte')
<1>1. role.is \in {"op", "po"} /\ role.left = n  BY RoleFields
<1>2. Taken(AfterBasic(client, role, GotByte)) /\ client' = client
      /\ blocks' = blocks + Change(client, role', GotByte')
  BY <1>1, BasicRead
<1>3. CASE role = Role("op", n, 0)
  <2>1. role.is = "op"  BY <1>3, RoleFields
  <2>2. AfterBasic(client, role, GotByte) = {As(Role("op", n - 1, 0), Letters)}
    BY <1>1, <2>1 DEF AfterBasic
  <2>3. role' = Role("op", n - 1, 0) /\ GotByte' \in Letters  BY <1>2, <2>2 DEF Taken, As
  <2>4. role'.is = "op"  BY <2>3, RoleFields
  <2>5. Change(client, role', GotByte') = 0  BY <2>4, OnlyOpcodesChange
  <2>6. role # Role("po", n, x)  BY <2>1, RoleFields
  <2>. QED BY <1>2, <2>3, <2>5, <2>6
<1>4. CASE role = Role("po", n, x)
  <2>1. role.is = "po"  BY <1>4, RoleFields
  <2>2. AfterBasic(client, role, GotByte) = {As(Role("po", n - 1, GotByte), Letters \cup {DOT})}
    BY <1>1, <2>1 DEF AfterBasic
  <2>3. role' = Role("po", n - 1, GotByte) /\ GotByte' \in Letters \cup {DOT}
    BY <1>2, <2>2 DEF Taken, As
  <2>6. role # Role("op", n, 0)  BY <2>1, RoleFields
  <2>. QED BY <1>2, <2>3, <2>6
<1>. QED BY <1>3, <1>4

\* An operator, and the operand that follows it.
LEMMA OperatorRead ==
  ASSUME IO_get_byte, Reading', client \in BasicFormats, blocks \in Int, NEW d \in Nat,
         Depth' = d, NEW is \in {"bang", "middle", "bang2"}, role = Role(is, d, 0)
  PROVE  /\ is = "bang" => role' = Role("middle", d, 0) /\ GotByte' \in Middles
         /\ is = "middle" => role' = Role("bang2", d, 0) /\ GotByte' = BANG
         /\ is = "bang2" => AtOperand'
         /\ client' = client /\ blocks' = blocks
<1>1. role.is = is /\ role.left = d  BY RoleFields
<1>2. Taken(AfterBasic(client, role, GotByte)) /\ client' = client
      /\ blocks' = blocks + Change(client, role', GotByte')
  BY <1>1, BasicRead
<1>3. CASE is = "bang"
  <2>1. AfterBasic(client, role, GotByte) = {As(Role("middle", d, 0), Middles)}
    BY <1>1, <1>3 DEF AfterBasic
  <2>2. role' = Role("middle", d, 0) /\ GotByte' \in Middles  BY <1>2, <2>1 DEF Taken, As
  <2>3. role'.is = "middle"  BY <2>2, RoleFields
  <2>. QED BY <1>2, <1>3, <2>2, <2>3, OnlyOpcodesChange
<1>4. CASE is = "middle"
  <2>1. AfterBasic(client, role, GotByte) = {As(Role("bang2", d, 0), {33})}
    BY <1>1, <1>4 DEF AfterBasic
  <2>2. role' = Role("bang2", d, 0) /\ GotByte' = BANG  BY <1>2, <2>1 DEF Taken, As, BANG
  <2>3. role'.is = "bang2"  BY <2>2, RoleFields
  <2>. QED BY <1>2, <1>4, <2>2, <2>3, OnlyOpcodesChange
<1>5. CASE is = "bang2"
  <2>1. AfterBasic(client, role, GotByte) = BasicOperand(d)  BY <1>1, <1>5 DEF AfterBasic
  <2>2. AtOperand' /\ role'.is \notin {"token", "po"}  BY <1>2, <2>1, OperandTaken
  <2>. QED BY <1>2, <1>5, <2>2, OnlyOpcodesChange
<1>. QED BY <1>3, <1>4, <1>5

AtQuoted ==
  \/ role = Role("quote", Depth, 0) /\ GotByte \notin {0, QUOTE}
  \/ role = Role("arg", Depth, 0) /\ GotByte = QUOTE
  \/ Depth = 0 /\ AtZero
LEMMA QuoteRead ==
  ASSUME IO_get_byte, Reading', client \in BasicFormats, blocks \in Int, NEW d \in Nat,
         Depth' = d, role = Role("quote", d, 0)
  PROVE  AtQuoted' /\ client' = client /\ blocks' = blocks
<1>1. role.is = "quote" /\ role.left = d  BY RoleFields
<1>2. Taken(AfterBasic(client, role, GotByte)) /\ client' = client
      /\ blocks' = blocks + Change(client, role', GotByte')
  BY <1>1, BasicRead
<1>3. AfterBasic(client, role, GotByte) =
        {As(role, 1..255 \ {QUOTE}), As(Role("arg", d, 0), {QUOTE})}
          \cup (IF d = 0 THEN {As(Plain("eol"), {0})} ELSE {})
  BY <1>1 DEF AfterBasic
<1>4. \/ role' = Role("quote", d, 0) /\ GotByte' \in 1..255 \ {QUOTE}
      \/ role' = Role("arg", d, 0) /\ GotByte' = QUOTE
      \/ d = 0 /\ role' = Plain("eol") /\ GotByte' = 0
  BY <1>2, <1>3 DEF Taken, As
<1>5. AtQuoted'  BY <1>4 DEF AtQuoted, AtZero
<1>6. role'.is \in {"quote", "arg", "eol"}  BY <1>4, RoleFields, PlainFields
<1>7. Change(client, role', GotByte') = 0  BY <1>6, OnlyOpcodesChange
<1>. QED BY <1>2, <1>5, <1>7

AtRemark == AtZero \/ (role = Plain("text") /\ GotByte # 0)
LEMMA RemarkRead ==
  ASSUME IO_get_byte, Reading', client \in BasicFormats, blocks \in Int, role = Plain("text")
  PROVE  AtRemark' /\ client' = client /\ blocks' = blocks
<1>1. role.is = "text"  BY PlainFields
<1>2. Taken(AfterBasic(client, role, GotByte)) /\ client' = client
      /\ blocks' = blocks + Change(client, role', GotByte')
  BY <1>1, BasicRead
<1>3. AfterBasic(client, role, GotByte) = {As(role, 1..255), As(Plain("eol"), {0})}
  BY <1>1 DEF AfterBasic
<1>4. AtRemark'  BY <1>2, <1>3 DEF Taken, As, AtRemark, AtZero
<1>5. role'.is \in {"text", "eol"}  BY <1>4, PlainFields DEF AtRemark, AtZero
<1>6. Change(client, role', GotByte') = 0  BY <1>5, OnlyOpcodesChange
<1>. QED BY <1>2, <1>4, <1>6

---------------------------------------------------------------------------
(* A step of the converters for Hypra-Ass and Giga-Ass.                    *)

GhPart == HeadSound /\ GhSound /\ GhParens /\ GhBraces

GhHere ==
  /\ client \in BasicFormats /\ client \in Formats /\ ~IO_reached_eof
  /\ GhPart /\ GhTypeOK
  /\ blocks \in Int /\ braces \in Int /\ GotByte \in {EOF} \cup 0..255
  /\ pc = "gh_head" => gh.left > 0

\* A line begins.
LEMMA GhLineStep == ASSUME GhHere, GhLine, Reading' PROVE GhPart'
<1>1. /\ client \in BasicFormats /\ client \in Formats /\ blocks \in Int /\ braces \in Int
      /\ UNCHANGED braces /\ IO_get_byte /\ pc' = "gh_head" /\ pc \in {"body", "gh_line"}
      /\ gh' = [GhFresh EXCEPT !.left = 4]
  BY DEF GhHere, GhLine, Keep, outVars, ReadTo, Goto, WithGh
<1>2. blocks = braces  BY <1>1 DEF GhHere, GhPart, GhBraces, InArgument
<1>3. gh'.left = 4 /\ gh'.paren = 0 /\ gh'.flags = {}  BY <1>1 DEF GhFresh
<1>4. role' = Plain("link") /\ client' = client /\ blocks' = blocks
  <2>1. CASE pc = "body"
    <3>1. AtHeader(2)  BY <2>1 DEF GhHere, GhPart, HeadSound
    <3>. DEFINE h == <<1, 8>>
    <3>2. h \in Headers(client) /\ role = Role("header", 2, 2)
      BY <1>1, <3>1 DEF AtHeader, Headers, AbFormats, BasicFormats
    <3>3. 2 \in 0..Len(h) /\ Len(h) = 2  OBVIOUS
    <3>. HIDE DEF h
    <3>4. /\ Taken(FirstLine(client)) /\ client' = client
          /\ blocks' = blocks + Change(client, role', GotByte')
      BY <1>1, <3>2, <3>3, HeaderRead
    <3>5. FirstLine(client) = {As(Plain("link"), 0..255)}
      BY <1>1 DEF FirstLine, AbFormats, BasicFormats
    <3>6. role' = Plain("link")  BY <3>4, <3>5 DEF Taken, As
    <3>7. role'.is = "link"  BY <3>6, PlainFields
    <3>8. Change(client, role', GotByte') = 0  BY <1>1, <3>7, OnlyOpcodesChange
    <3>. QED BY <1>1, <3>4, <3>6, <3>8
  <2>2. CASE pc = "gh_line"
    <3>1. role = Plain("eol")  BY <2>2 DEF GhHere, GhPart, GhSound, AtZero
    <3>. QED BY <1>1, <3>1, PlainFields, LinkRead
  <2>. QED BY <1>1, <2>1, <2>2
<1>. QED BY <1>1, <1>2, <1>3, <1>4
         DEF GhPart, HeadSound, GhSound, GhParens, GhBraces, Heads, InArgument, Depth

\* Up to the opcode an argument's flags are clear, and the output is level with
\* the blocks but for an opcode that was just read.
Clear(label) ==
  /\ gh.flags = {} /\ gh.paren = 0
  /\ blocks = braces + IF label \in {"gh_first", "gh_spaces", "gh_opcode"}
                       THEN Change(client, role, GotByte) ELSE 0

LEMMA BeforeOpcode ==
  ASSUME pc \in {"gh_head", "gh_first", "gh_label", "gh_spaces", "gh_opcode"}, GhHere
  PROVE  Clear(pc)
BY DEF GhHere, GhPart, GhParens, GhBraces, InArgument, Clear

LEMMA OpcodeComes ==
  ASSUME Clear(pc)',
         \/ /\ pc' = "gh_head"
            /\ role' = Plain(Heads[gh'.left]) \/ (gh'.left = 3 /\ role' = Plain("end"))
         \/ pc' = "gh_first" /\ (AtRest' \/ AtSpace' \/ AtLetter' \/ AtToken')
         \/ pc' = "gh_label" /\ (AtRest' \/ AtSpace' \/ AtLetter')
         \/ pc' = "gh_spaces" /\ (AtRest' \/ AtSpace' \/ AtOpcode')
         \/ pc' = "gh_opcode" /\ AtOpcode'
  PROVE  GhPart'
<1>1. HeadSound'  BY DEF HeadSound
<1>2. GhSound'  BY DEF GhSound
<1>3. GhParens'  BY DEF GhParens, Clear, Depth
<1>4. GhBraces'  BY DEF GhBraces, Clear, InArgument
<1>. QED BY <1>1, <1>2, <1>3, <1>4 DEF GhPart

LEMMA GhHeadStep == ASSUME GhHere, Written, GhHead, Reading' PROVE GhPart'
<1>1. /\ client \in BasicFormats /\ client \in Formats /\ blocks \in Int /\ braces \in Int
      /\ UNCHANGED braces /\ IO_get_byte /\ pc = "gh_head" /\ gh.left \in 1..4
      /\ pc' = IF gh.left > 1 THEN "gh_head" ELSE "gh_first"
      /\ gh' = [gh EXCEPT !.left = @ - 1] /\ GhTypeOK
      /\ role = Plain(Heads[gh.left]) \/ (gh.left = 3 /\ role = Plain("end"))
  BY DEF GhHere, GhHead, Keep, outVars, ReadTo, Goto, WithGh, GhTypeOK, GhPart, GhSound
<1>2. gh.flags = {} /\ gh.paren = 0 /\ blocks = braces  BY <1>1, BeforeOpcode DEF Clear
<1>3. gh'.left = gh.left - 1 /\ gh'.flags = {} /\ gh'.paren = 0  BY <1>1, <1>2 DEF GhTypeOK
<1>4. CASE gh.left = 1
  <2>1. role = Plain("number2") /\ pc' = "gh_first"  BY <1>1, <1>4 DEF Heads
  <2>2. /\ AtRest' \/ AtSpace' \/ AtLetter' \/ AtToken'
        /\ client' = client /\ blocks' = blocks + Change(client, role', GotByte')
    BY <1>1, <2>1, FirstRead
  <2>3. Clear(pc)'  BY <1>1, <1>2, <1>3, <2>1, <2>2 DEF Clear
  <2>. QED BY <2>1, <2>2, <2>3, OpcodeComes
<1>5. CASE gh.left > 1
  <2>1. role.is = Heads[gh.left] \/ (gh.left = 3 /\ role.is = "end")  BY <1>1, PlainFields
  <2>2. gh.left \in {2, 3, 4}  BY <1>1, <1>5
  <2>3. \/ gh.left = 4 /\ role.is = "link"
        \/ gh.left = 3 /\ role.is \in {"link2", "end"}
        \/ gh.left = 2 /\ role.is = "number"
    BY <2>1, <2>2 DEF Heads
  <2>4. /\ gh.left = 4 => role' \in {Plain("link2"), Plain("end")}
        /\ gh.left = 3 => role' = Plain("number")
        /\ gh.left = 2 => role' = Plain("number2")
        /\ client' = client /\ blocks' = blocks
    BY <1>1, <2>3, LinkRead
  <2>5. role' = Plain(Heads[gh'.left]) \/ (gh'.left = 3 /\ role' = Plain("end"))
    <3>1. CASE gh.left = 4  BY <1>3, <2>4, <3>1 DEF Heads
    <3>2. CASE gh.left = 3  BY <1>3, <2>4, <3>2 DEF Heads
    <3>3. CASE gh.left = 2  BY <1>3, <2>4, <3>3 DEF Heads
    <3>. QED BY <2>2, <3>1, <3>2, <3>3
  <2>6. pc' = "gh_head"  BY <1>1, <1>5
  <2>7. Clear(pc)'  BY <1>1, <1>2, <1>3, <2>4, <2>6 DEF Clear
  <2>. QED BY <2>5, <2>6, <2>7, OpcodeComes
<1>. QED BY <1>1, <1>4, <1>5

\* Only an opcode changes a block.
LEMMA NoOpcode ==
  ASSUME client \in BasicFormats, AtRest \/ AtSpace \/ AtLetter
  PROVE  Change(client, role, GotByte) = 0
BY PlainFields, OnlyOpcodesChange DEF AtRest, AtZero, AtSpace, AtLetter

LEMMA LabelStep ==
  ASSUME GhHere, GhFirst \/ GigaHypra_label_definition, Reading'
  PROVE  GhPart'
<1>1. /\ client \in BasicFormats /\ client \in Formats /\ blocks \in Int /\ braces \in Int
      /\ UNCHANGED <<braces, gh>> /\ pc \in {"gh_first", "gh_label"}
  BY DEF GhHere, GhFirst, GigaHypra_label_definition, Keep, outVars, GhLocals
<1>2. Clear(pc)  BY <1>1, BeforeOpcode
<1>3. \/ AtRest \/ AtSpace \/ AtLetter
      \/ pc = "gh_first" /\ AtToken
  BY <1>1 DEF GhHere, GhPart, GhSound
<1>. USE DEF ReadTo, KeepTo, Goto
<1>4. CASE AtLetter
  <2>1. IO_get_byte /\ pc' = "gh_label" /\ role = Plain("name")
    BY <1>1, <1>4 DEF AtLetter, Letters, GhFirst, GigaHypra_label_definition, EndOfWord, SPACE, COMMENT
  <2>2. /\ AtRest' \/ AtSpace' \/ AtLetter'
        /\ client' = client /\ blocks' = blocks
    BY <1>1, <2>1, LabelRead
  <2>3. Change(client, role, GotByte) = 0  BY <1>1, <1>4, NoOpcode
  <2>4. blocks = braces  BY <1>1, <1>2, <2>3 DEF Clear
  <2>5. Clear(pc)'  BY <1>1, <1>2, <2>1, <2>2, <2>4 DEF Clear
  <2>. QED BY <2>1, <2>2, <2>5, OpcodeComes
<1>5. CASE ~AtLetter
  <2>0. AtToken => GotByte > 127 /\ client = "giga"  BY DEF AtToken
  <2>1. UNCHANGED <<client, role, GotByte, blocks>> /\ pc' = "gh_spaces"
    BY <1>1, <1>3, <1>5, <2>0
       DEF AtRest, AtZero, AtSpace, GhFirst, GigaHypra_label_definition, EndOfWord, ioVars
  <2>2. AtRest' \/ AtSpace' \/ AtOpcode'
    BY <1>3, <1>5, <2>1 DEF AtRest, AtZero, AtSpace, AtOpcode, AtToken
  <2>3. pc = "gh_label" => Change(client, role, GotByte) = 0  BY <1>1, <1>3, <1>5, NoOpcode
  <2>4. Clear(pc)'  BY <1>1, <1>2, <2>1, <2>3 DEF Clear
  <2>. QED BY <2>1, <2>2, <2>4, OpcodeComes
<1>. QED BY <1>4, <1>5

LEMMA SpacesStep == ASSUME GhHere, Written, GhSpaces, Reading' PROVE GhPart'
<1>1. /\ client \in BasicFormats /\ client \in Formats /\ blocks \in Int /\ braces \in Int
      /\ UNCHANGED <<braces, gh>> /\ pc = "gh_spaces"
      /\ AtRest \/ AtSpace \/ AtOpcode
  BY DEF GhHere, GhSpaces, Keep, outVars, GhLocals, GhPart, GhSound
<1>2. Clear(pc)  BY <1>1, BeforeOpcode
<1>. USE DEF ReadTo, KeepTo, Goto
<1>3. CASE AtSpace
  <2>1. IO_get_byte /\ pc' = "gh_spaces" /\ role = Plain("space")
    BY <1>1, <1>3 DEF AtSpace, GhSpaces, EndOfArgument, SPACE, COMMENT
  <2>2. /\ AtRest' \/ AtSpace' \/ AtOpcode'
        /\ client' = client /\ blocks' = blocks + Change(client, role', GotByte')
    BY <1>1, <2>1, SpaceRead
  <2>3. blocks = braces
    <3>1. Change(client, role, GotByte) = 0  BY <1>1, <1>3, NoOpcode
    <3>. QED BY <1>1, <1>2, <3>1 DEF Clear
  <2>4. Clear(pc)'  BY <1>1, <1>2, <2>1, <2>2, <2>3 DEF Clear
  <2>. QED BY <2>1, <2>2, <2>4, OpcodeComes
<1>4. CASE AtRest
  <2>1. UNCHANGED <<client, role, GotByte, blocks>> /\ pc' = "gh_comment"
    BY <1>1, <1>4 DEF AtRest, AtZero, GhSpaces, EndOfArgument, SPACE, COMMENT, ioVars
  <2>2. AtRest'  BY <1>4, <2>1 DEF AtRest, AtZero
  <2>3. blocks = braces
    <3>1. Change(client, role, GotByte) = 0  BY <1>1, <1>4, NoOpcode
    <3>. QED BY <1>1, <1>2, <3>1 DEF Clear
  <2>. QED BY <1>1, <1>2, <2>1, <2>2, <2>3
           DEF Clear, GhPart, HeadSound, GhSound, GhParens, GhBraces, InArgument, Depth
<1>5. CASE AtOpcode
  <2>1. UNCHANGED <<client, role, GotByte, blocks>> /\ pc' = "gh_opcode"
    BY <1>1, <1>5 DEF AtOpcode, AtToken, Letters, GhSpaces, EndOfArgument, SPACE, COMMENT, DOT, ioVars
  <2>2. AtOpcode'  BY <1>5, <2>1 DEF AtOpcode, AtToken
  <2>3. Clear(pc)'  BY <1>1, <1>2, <2>1 DEF Clear
  <2>. QED BY <2>1, <2>2, <2>3, OpcodeComes
<1>. QED BY <1>1, <1>3, <1>4, <1>5

LEMMA RemarkStep == ASSUME GhHere, GigaHypra_comment, Reading' PROVE GhPart'
<1>1. /\ client \in BasicFormats /\ blocks \in Int /\ braces \in Int
      /\ UNCHANGED <<braces, gh>> /\ pc \in {"gh_comment", "gh_text"} /\ blocks = braces
      /\ Depth = 0
      /\ pc = "gh_comment" => AtRest
      /\ pc = "gh_text" => AtRemark
      /\ GhParens /\ gh \in [left : 0..4, first : 0..255, paren : Int,
          flags : SUBSET {FLAG_ADD_LEFT_BRACE, FLAG_SKIP_OPENING, FLAG_SKIP_CLOSING}]
  BY DEF GhHere, GigaHypra_comment, Keep, outVars, GhLocals, GhPart, GhSound, GhBraces,
         InArgument, AtRemark, GhTypeOK
<1>2. UNCHANGED Depth  BY <1>1 DEF Depth
<1>. USE DEF ReadTo, KeepTo, Goto
<1>3. ASSUME GotByte = 0
      PROVE GhPart'
  <2>1. AtZero /\ UNCHANGED <<client, role, GotByte, blocks>> /\ pc' = "gh_line"
    BY <1>1, <1>3 DEF GigaHypra_comment, AtRest, AtRemark, AtZero, COMMENT, ioVars
  <2>2. AtZero'  BY <2>1 DEF AtZero
  <2>. QED BY <1>1, <1>2, <2>1, <2>2
           DEF GhPart, HeadSound, GhSound, GhParens, GhBraces, InArgument
<1>4. ASSUME GotByte # 0
      PROVE GhPart'
  <2>1. role = Plain("text") /\ IO_get_byte /\ pc' = "gh_text"
    BY <1>1, <1>4 DEF GigaHypra_comment, AtRest, AtRemark, AtZero, COMMENT
  <2>2. AtRemark' /\ client' = client /\ blocks' = blocks  BY <1>1, <2>1, RemarkRead
  <2>. QED BY <1>1, <1>2, <2>1, <2>2
           DEF GhPart, HeadSound, GhSound, GhParens, GhBraces, InArgument, AtRemark
<1>. QED BY <1>3, <1>4

\* In an argument the brace that its flags announce is owed.
Owing == blocks = braces + IF FLAG_ADD_LEFT_BRACE \in gh.flags THEN 1 ELSE 0

LEMMA InArgumentPart ==
  ASSUME GhParens', Owing',
         \/ pc' = "gh_args" /\ AtBasic'
         \/ pc' = "gh_char" /\ AtOperand'
         \/ pc' = "gh_bang1" /\ role' = Role("middle", Depth', 0) /\ GotByte' \in Middles
         \/ pc' = "gh_bang2" /\ role' = Role("bang2", Depth', 0) /\ GotByte' = BANG
         \/ pc' = "gh_quoted" /\ AtQuoted'
  PROVE  GhPart'
<1>1. HeadSound'  BY DEF HeadSound
<1>2. GhSound'  BY DEF GhSound, AtQuoted
<1>3. GhBraces'  BY DEF GhBraces, Owing, InArgument
<1>. QED BY <1>1, <1>2, <1>3 DEF GhPart

LEMMA TokenStep == ASSUME GhHere, process_tokenized, Reading' PROVE GhPart'
<1>1. /\ client = "giga" /\ client \in BasicFormats /\ blocks \in Int /\ braces \in Int
      /\ pc = "gh_opcode" /\ AtOpcode /\ GhTypeOK
  BY DEF GhHere, process_tokenized, GhPart, GhSound
<1>2. gh.flags = {} /\ gh.paren = 0 /\ blocks = braces + Change(client, role, GotByte)
  BY <1>1, BeforeOpcode DEF Clear
<1>. USE DEF ReadTo, KeepTo, Goto
<1>3. CASE GotByte < FIRST_TOKEN
  <2>1. UNCHANGED <<client, role, GotByte, blocks, braces, gh>> /\ pc' = "gh_args"
    BY <1>1, <1>3 DEF process_tokenized, ioVars, GhLocals
  <2>2. role = Plain("arg") /\ GotByte \in Letters
    BY <1>1, <1>3 DEF AtOpcode, AtToken, FIRST_TOKEN
  <2>3. Change(client, role, GotByte) = 0  BY <1>1, <2>2, PlainFields, OnlyOpcodesChange
  <2>4. Depth' = 0 /\ AtBasic'
    BY <1>2, <2>1, <2>2 DEF Depth, AtBasic, AtOperand, Plain
  <2>5. GhParens' /\ Owing'  BY <1>1, <1>2, <2>1, <2>3, <2>4 DEF GhParens, Owing
  <2>. QED BY <2>1, <2>4, <2>5, InArgumentPart
<1>4. CASE ~(GotByte < FIRST_TOKEN)
  <2>1. role = Plain("token") /\ GotByte \in 160..255 \ {174}
    BY <1>1, <1>4 DEF AtOpcode, AtToken, Letters, FIRST_TOKEN, DOT
  <2>2. /\ IO_get_byte /\ pc' = "gh_args" /\ gh' = [gh EXCEPT !.flags = TokenFlags]
        /\ braces' = IF GotByte \in {162, 176} THEN braces - 1 ELSE braces
    BY <1>1, <1>4 DEF process_tokenized, WithGh
  <2>3. Change(client, role, GotByte) =
          IF GotByte = 161 THEN 1 ELSE IF GotByte \in {162, 176} THEN -1 ELSE 0
    BY <1>1, <2>1, PlainFields DEF Change, Opens, Closes, AbFormats
  <2>4. gh'.paren = 0 /\ gh'.flags = TokenFlags  BY <1>1, <1>2, <2>2 DEF GhTypeOK
  <2>5. Depth' = 0 /\ GhParens'
    BY <2>2, <2>4 DEF Depth, GhParens, TokenFlags, FLAG_ADD_LEFT_BRACE, FLAG_SKIP_OPENING, FLAG_SKIP_CLOSING
  <2>6. AtBasic' /\ client' = client /\ blocks' = blocks
    BY <1>1, <2>1, <2>2, <2>5, BasicArgumentRead DEF InArguments
  <2>7. Owing'
    <3>1. FLAG_ADD_LEFT_BRACE \in gh'.flags <=> GotByte = 161  BY <2>4 DEF TokenFlags
    <3>. QED BY <1>1, <1>2, <2>2, <2>3, <2>6, <3>1 DEF Owing
  <2>. QED BY <2>2, <2>5, <2>6, <2>7, InArgumentPart
<1>. QED BY <1>3, <1>4

LEMMA RealStep == ASSUME GhHere, real_opcode, Reading' PROVE GhPart'
<1>1. /\ client = "hypra" \/ pc = "gh_op"
      /\ client \in BasicFormats /\ blocks \in Int /\ braces \in Int /\ UNCHANGED braces
      /\ pc = "gh_opcode" => AtOpcode /\ GotByte # DOT
      /\ pc = "gh_op" => IF gh.left = 0 THEN AtBasic
                          ELSE role = Role("op", gh.left - 1, 0) /\ GotByte \in Letters
      /\ GhTypeOK
      /\ pc \in {"gh_opcode", "gh_op"}
  BY DEF GhHere, real_opcode, GhPart, GhSound, Keep, outVars
<1>2. gh.flags = {} /\ gh.paren = 0  BY <1>1 DEF GhHere, GhPart, GhParens
<1>. USE DEF ReadTo, KeepTo, Goto
<1>. DEFINE InOp == /\ pc' = "gh_op" /\ gh'.flags = {} /\ gh'.paren = 0 /\ blocks' = braces'
                    /\ IF gh'.left = 0 THEN AtBasic'
                       ELSE role' = Role("op", gh'.left - 1, 0) /\ GotByte' \in Letters
<1>3. ASSUME InOp PROVE GhPart'
  <2>1. PICK n \in Int : braces' = n  BY <1>1
  <2>. QED BY <1>3, <2>1 DEF GhPart, HeadSound, GhSound, GhParens, GhBraces, InArgument, Depth
<1>4. CASE pc = "gh_opcode"
  <2>1. role = Role("op", 2, 0) /\ GotByte \in Letters
    BY <1>1, <1>4 DEF AtOpcode, AtToken
  <2>2. IO_get_byte /\ pc' = "gh_op" /\ gh' = [gh EXCEPT !.left = 2]
    BY <1>1, <1>4 DEF real_opcode, WithGh
  <2>3. gh'.left = 2 /\ gh'.flags = {} /\ gh'.paren = 0  BY <1>1, <1>2, <2>2 DEF GhTypeOK
  <2>4. role.is = "op"  BY <2>1, RoleFields
  <2>5. blocks = braces
    <3>1. Change(client, role, GotByte) = 0  BY <1>1, <2>4, OnlyOpcodesChange
    <3>. QED BY <1>1, <1>4, <3>1, BeforeOpcode DEF Clear
  <2>6. role' = Role("op", 2 - 1, 0) /\ GotByte' \in Letters /\ blocks' = blocks
    <3>. DEFINE n == 2
    <3>1. n \in Nat /\ n > 0 /\ role = Role("op", n, 0)  BY <2>1
    <3>. HIDE DEF n
    <3>2. role' = Role("op", n - 1, 0) /\ GotByte' \in Letters /\ blocks' = blocks
      BY <1>1, <2>2, <3>1, LettersRead
    <3>. QED BY <3>2 DEF n
  <2>. QED BY <1>1, <1>3, <2>2, <2>3, <2>5, <2>6
<1>5. CASE pc = "gh_op" /\ gh.left = 0
  <2>1. UNCHANGED <<client, role, GotByte, blocks, braces, gh>> /\ pc' = "gh_args"
    BY <1>1, <1>5 DEF real_opcode, ioVars, GhLocals
  <2>2. AtBasic'  BY <1>1, <1>5, <2>1 DEF AtBasic, AtOperand, AtRest, AtZero, Depth
  <2>3. blocks = braces  BY <1>5 DEF GhHere, GhPart, GhBraces, InArgument
  <2>4. GhParens' /\ Owing'  BY <1>1, <1>2, <2>1, <2>3 DEF GhParens, Owing, Depth
  <2>. QED BY <2>1, <2>2, <2>4, InArgumentPart
<1>6. CASE pc = "gh_op" /\ gh.left # 0
  <2>. DEFINE n == gh.left - 1
  <2>1. n \in Nat /\ gh.left \in Nat /\ gh.left = n + 1  BY <1>1, <1>6 DEF GhTypeOK
  <2>2. role = Role("op", n, 0) /\ GotByte \in Letters  BY <1>1, <1>6
  <2>3. IO_get_byte /\ pc' = "gh_op" /\ gh' = [gh EXCEPT !.left = @ - 1]
    BY <1>1, <1>6, <2>2 DEF real_opcode, WithGh, EndOfWord, Letters, SPACE, COMMENT
  <2>4. gh'.left = n /\ gh'.flags = {} /\ gh'.paren = 0  BY <1>1, <1>2, <2>3 DEF GhTypeOK
  <2>5. blocks = braces  BY <1>6 DEF GhHere, GhPart, GhBraces, InArgument
  <2>. HIDE DEF n
  <2>6. CASE n > 0
    <3>1. role' = Role("op", n - 1, 0) /\ GotByte' \in Letters /\ blocks' = blocks
      BY <1>1, <2>1, <2>2, <2>3, <2>6, LettersRead
    <3>. QED BY <1>1, <1>3, <2>3, <2>4, <2>5, <2>6, <3>1
  <2>7. CASE ~(n > 0)
    <3>1. n = 0  BY <2>1, <2>7
    <3>2. Depth' = 0 /\ InArguments(role, 0)  BY <2>2, <2>4, <3>1 DEF Depth, InArguments
    <3>3. AtBasic' /\ blocks' = blocks  BY <1>1, <2>3, <3>2, BasicArgumentRead
    <3>. QED BY <1>1, <1>3, <2>3, <2>4, <2>5, <3>1, <3>3
  <2>. QED BY <2>6, <2>7
<1>. QED BY <1>1, <1>4, <1>5, <1>6

LEMMA PseudoOpcodeStep == ASSUME GhHere, process_pseudo_opcode, Reading' PROVE GhPart'
<1>1. /\ client \in BasicFormats /\ blocks \in Int /\ braces \in Int
      /\ client = "hypra"
      /\ pc = "gh_opcode" => AtOpcode /\ GotByte = DOT
      /\ pc = "gh_po1" => role = Role("po", 1, DOT) /\ GotByte \in Letters \cup {DOT}
      /\ pc = "gh_po2" => role = Role("po", 0, gh.first) /\ GotByte \in Letters \cup {DOT}
      /\ GhTypeOK
      /\ pc \in {"gh_opcode", "gh_po1", "gh_po2"}
  BY DEF GhHere, process_pseudo_opcode, GhPart, GhSound
<1>2. gh.flags = {} /\ gh.paren = 0  BY <1>1 DEF GhHere, GhPart, GhParens
<1>0. GotByte \in Letters \cup {DOT} => ~EndOfWord /\ GotByte # EOF
  BY DEF Letters, DOT, EndOfWord, SPACE, COMMENT, EOF
<1>. USE DEF ReadTo, KeepTo, Goto
<1>3. CASE pc = "gh_opcode"
  <2>1. role = Role("po", 2, 0)  BY <1>1, <1>3 DEF AtOpcode, AtToken, Letters, DOT
  <2>2. IO_get_byte /\ pc' = "gh_po1" /\ UNCHANGED <<gh, braces>>
    BY <1>1, <1>3 DEF process_pseudo_opcode, GhLocals
  <2>3. blocks = braces
    <3>1. Change(client, role, GotByte) = 0
      <4>1. role.left = 2  BY <2>1, RoleFields
      <4>. QED BY <1>1, <1>3, <4>1 DEF Change, Opens, Closes, AbFormats
    <3>. QED BY <1>1, <1>3, <3>1, BeforeOpcode DEF Clear
  <2>4. /\ role' = Role("po", 1, GotByte) /\ GotByte' \in Letters \cup {DOT} /\ client' = client
        /\ blocks' = blocks + Change(client, role', GotByte')
    <3>. DEFINE n == 2
    <3>1. n \in Nat /\ n > 0 /\ role = Role("po", n, 0) /\ n - 1 = 1  BY <2>1
    <3>. HIDE DEF n
    <3>. QED BY <1>1, <2>2, <3>1, LettersRead
  <2>5. blocks' = braces'
    <3>1. role'.left = 1  BY <2>4, RoleFields
    <3>2. Change(client, role', GotByte') = 0
      BY <1>1, <1>3, <3>1 DEF Change, Opens, Closes, AbFormats
    <3>. QED BY <1>1, <2>2, <2>3, <2>4, <3>2
  <2>6. role' = Role("po", 1, DOT)  BY <1>1, <1>3, <2>4
  <2>7. braces' \in Int /\ gh'.flags = {} /\ gh'.paren = 0  BY <1>1, <1>2, <2>2
  <2>8. PICK n \in Int : braces' = n  BY <2>7
  <2>. QED BY <1>1, <2>2, <2>4, <2>5, <2>6, <2>7, <2>8
           DEF GhPart, HeadSound, GhSound, GhParens, GhBraces, InArgument, Depth
<1>4. CASE pc = "gh_po1"
  <2>1. /\ IO_get_byte /\ pc' = "gh_po2" /\ UNCHANGED braces
        /\ gh' = [gh EXCEPT !.first = GotByte]
    BY <1>0, <1>1, <1>4 DEF process_pseudo_opcode, WithGh
  <2>2. gh'.first = GotByte /\ gh'.flags = {} /\ gh'.paren = 0  BY <1>1, <1>2, <2>1 DEF GhTypeOK
  <2>3. blocks = braces  BY <1>1, <1>4 DEF GhHere, GhPart, GhBraces, InArgument
  <2>4. /\ role' = Role("po", 0, GotByte) /\ GotByte' \in Letters \cup {DOT} /\ client' = client
        /\ blocks' = blocks + Change(client, role', GotByte')
    <3>. DEFINE n == 1
    <3>1. n \in Nat /\ n > 0 /\ role = Role("po", n, DOT) /\ n - 1 = 0  BY <1>1, <1>4
    <3>. HIDE DEF n
    <3>. QED BY <1>1, <2>1, <3>1, LettersRead
  <2>5. role' = Role("po", 0, gh'.first) /\ blocks' = braces' + Change(client', role', GotByte')
    BY <2>1, <2>2, <2>3, <2>4
  <2>. QED BY <1>1, <2>1, <2>2, <2>4, <2>5
           DEF GhPart, HeadSound, GhSound, GhParens, GhBraces, InArgument, Depth
<1>5. CASE pc = "gh_po2"
  <2>1. /\ IO_get_byte /\ pc' = "gh_args"
        /\ gh' = [GhFresh EXCEPT !.flags = PseudoFlags(gh.first, GotByte)]
        /\ braces' = IF <<gh.first, GotByte>> \in {<<82, 84>>, <<69, 73>>}
                     THEN braces - 1 ELSE braces
    BY <1>0, <1>1, <1>5 DEF process_pseudo_opcode, WithGh
  <2>2. gh'.flags = PseudoFlags(gh.first, GotByte) /\ gh'.paren = 0  BY <2>1 DEF GhFresh
  <2>3. Depth' = 0 /\ GhParens'
    BY <2>1, <2>2 DEF Depth, GhParens, PseudoFlags, FLAG_ADD_LEFT_BRACE, FLAG_SKIP_OPENING, FLAG_SKIP_CLOSING
  <2>4. AtBasic' /\ client' = client /\ blocks' = blocks
    BY <1>1, <1>5, <2>1, <2>3, BasicArgumentRead DEF InArguments
  <2>. DEFINE code == <<gh.first, GotByte>>
              change == IF code \in {<<77, 65>>, <<73, 70>>} THEN 1
                        ELSE IF code \in {<<82, 84>>, <<69, 73>>} THEN -1 ELSE 0
  <2>5. FLAG_ADD_LEFT_BRACE \in gh'.flags <=> code \in {<<77, 65>>, <<73, 70>>}
    BY <2>2 DEF PseudoFlags, FLAG_ADD_LEFT_BRACE, FLAG_SKIP_OPENING
  <2>6. blocks = braces + Change(client, role, GotByte)
    BY <1>5 DEF GhHere, GhPart, GhBraces, InArgument
  <2>7. role.is = "po" /\ role.left = 0 /\ role.len = gh.first  BY <1>1, <1>5, RoleFields
  <2>8. Change(client, role, GotByte) = change
    BY <1>1, <2>7 DEF Change, Opens, Closes, AbFormats
  <2>9. code \in {<<77, 65>>, <<73, 70>>} => code \notin {<<82, 84>>, <<69, 73>>}  OBVIOUS
  <2>. HIDE DEF code
  <2>10. Owing'  BY <1>1, <2>1, <2>4, <2>5, <2>6, <2>8, <2>9 DEF Owing, code
  <2>. QED BY <2>1, <2>3, <2>4, <2>10, InArgumentPart
<1>. QED BY <1>1, <1>3, <1>4, <1>5

\* Where an argument is read, the parentheses of the file are those of the
\* locals.
LEMMA InArgumentHere ==
  ASSUME GhHere, pc \in InArgument
  PROVE  /\ client \in BasicFormats /\ blocks \in Int /\ braces \in Int
         /\ GhTypeOK /\ GhParens /\ Owing /\ Depth \in Nat /\ gh.paren \in Nat
         /\ Depth = gh.paren + IF FLAG_SKIP_CLOSING \in gh.flags THEN 1 ELSE 0
         /\ pc = "gh_args" => AtBasic
         /\ pc = "gh_char" => AtOperand
         /\ pc = "gh_bang1" => role = Role("middle", Depth, 0) /\ GotByte \in Middles
         /\ pc = "gh_bang2" => role = Role("bang2", Depth, 0) /\ GotByte = BANG
         /\ pc = "gh_quoted" => AtQuoted
<1>1. /\ client \in BasicFormats /\ blocks \in Int /\ braces \in Int
      /\ GhTypeOK /\ GhParens /\ Owing
  BY DEF GhHere, GhPart, GhBraces, Owing
<1>2. gh.paren \in Nat  BY <1>1 DEF GhTypeOK, GhParens
<1>3. Depth \in Nat  BY <1>2 DEF Depth
<1>. QED BY <1>1, <1>2, <1>3 DEF GhHere, GhPart, GhSound, Depth, AtQuoted

LEMMA ArgumentEndStep == ASSUME GhHere, ArgumentEnds, Reading' PROVE GhPart'
<1>1. pc = "gh_args" /\ GotByte \in {COMMENT, 0} /\ UNCHANGED gh
  BY DEF ArgumentEnds, EndOfArgument, GhLocals
<1>2. /\ client \in BasicFormats /\ blocks \in Int /\ braces \in Int
      /\ GhTypeOK /\ GhParens /\ Owing /\ AtBasic
  BY <1>1, InArgumentHere DEF InArgument
<1>3. Depth = 0 /\ AtRest
  BY <1>1, <1>2 DEF AtBasic, AtOperand, Letters, OPENING, QUOTE, SPACE, DOT, BANG, CLOSING, COMMENT
<1>4. /\ pc' = "gh_comment" /\ UNCHANGED <<client, role, GotByte, blocks>>
      /\ braces' = IF FLAG_ADD_LEFT_BRACE \in gh.flags THEN braces + 1 ELSE braces
  BY <1>1 DEF ArgumentEnds, KeepTo, Goto, ioVars
<1>5. Depth' = 0 /\ AtRest' /\ GhParens'
  BY <1>1, <1>2, <1>3, <1>4 DEF Depth, AtRest, AtZero, GhParens
<1>6. blocks' = braces' /\ braces' \in Int  BY <1>2, <1>4 DEF Owing
<1>7. PICK n \in Int : braces' = n  BY <1>6
<1>. QED BY <1>4, <1>5, <1>6, <1>7 DEF GhPart, HeadSound, GhSound, GhBraces, InArgument

LEMMA OperatorStep == ASSUME GhHere, GigaHypra_operator, Reading' PROVE GhPart'
<1>1. /\ pc \in {"gh_args", "gh_bang1", "gh_bang2"} /\ UNCHANGED <<gh, braces>>
      /\ pc = "gh_args" => GotByte = BANG
  BY DEF GigaHypra_operator, GhLocals
<1>2. /\ client \in BasicFormats /\ blocks \in Int /\ braces \in Int
      /\ GhTypeOK /\ GhParens /\ Owing /\ Depth \in Nat
      /\ pc = "gh_args" => AtBasic
      /\ pc = "gh_bang1" => role = Role("middle", Depth, 0) /\ GotByte \in Middles
      /\ pc = "gh_bang2" => role = Role("bang2", Depth, 0) /\ GotByte = BANG
  BY <1>1, InArgumentHere DEF InArgument
<1>3. Depth' = Depth  BY <1>1 DEF Depth
<1>4. GhParens'
  BY <1>1, <1>2, <1>3 DEF GigaHypra_operator, GhParens, ReadTo, KeepTo, Goto
<1>. USE DEF ReadTo, KeepTo, Goto
<1>. DEFINE d == Depth
<1>5. d \in Nat /\ Depth' = d  BY <1>2, <1>3
<1>6. CASE pc = "gh_args"
  <2>1. role = Role("bang", d, 0)
    BY <1>1, <1>2, <1>6 DEF AtBasic, AtOperand, AtRest, AtZero, Letters, OPENING, QUOTE, SPACE, DOT,
       BANG, CLOSING, COMMENT
  <2>2. IO_get_byte /\ pc' = "gh_bang1"  BY <1>6 DEF GigaHypra_operator
  <2>. HIDE DEF d
  <2>3. role' = Role("middle", d, 0) /\ GotByte' \in Middles /\ client' = client /\ blocks' = blocks
    BY <1>2, <1>5, <2>1, <2>2, OperatorRead
  <2>4. Owing'  BY <1>1, <1>2, <2>3 DEF Owing
  <2>. QED BY <1>4, <1>5, <2>2, <2>3, <2>4, InArgumentPart
<1>7. CASE pc = "gh_bang1"
  <2>1. role = Role("middle", d, 0) /\ GotByte \in Middles  BY <1>2, <1>7
  <2>2. IO_get_byte /\ pc' = "gh_bang2"
    BY <1>7, <2>1 DEF GigaHypra_operator, Middles, EndOfArgument, COMMENT
  <2>. HIDE DEF d
  <2>3. role' = Role("bang2", d, 0) /\ GotByte' = BANG /\ client' = client /\ blocks' = blocks
    BY <1>2, <1>5, <2>1, <2>2, OperatorRead
  <2>4. Owing'  BY <1>1, <1>2, <2>3 DEF Owing
  <2>. QED BY <1>4, <1>5, <2>2, <2>3, <2>4, InArgumentPart
<1>8. CASE pc = "gh_bang2"
  <2>1. role = Role("bang2", d, 0) /\ GotByte = BANG  BY <1>2, <1>8
  <2>2. IO_get_byte /\ pc' = "gh_char"  BY <1>8, <2>1 DEF GigaHypra_operator
  <2>. HIDE DEF d
  <2>3. AtOperand' /\ client' = client /\ blocks' = blocks
    BY <1>2, <1>5, <2>1, <2>2, OperatorRead
  <2>4. Owing'  BY <1>1, <1>2, <2>3 DEF Owing
  <2>. QED BY <1>4, <1>5, <2>2, <2>3, <2>4, InArgumentPart
<1>. QED BY <1>1, <1>6, <1>7, <1>8

\* What Parenthesis does is what the file does, whichever local keeps it.
LEMMA ParenthesisDepth ==
  ASSUME GhTypeOK, GhParens, gh' = Parenthesis,
         GotByte = CLOSING => Depth > 0
  PROVE  /\ Depth' = IF GotByte = OPENING THEN Depth + 1
                     ELSE IF GotByte = CLOSING THEN Depth - 1 ELSE Depth
         /\ gh'.paren >= 0
         /\ FLAG_SKIP_OPENING \in gh'.flags => Depth' = 0
         /\ FLAG_ADD_LEFT_BRACE \in gh'.flags <=> FLAG_ADD_LEFT_BRACE \in gh.flags
         /\ gh'.paren \in Int
<1>. DEFINE skip == FLAG_SKIP_CLOSING \in gh.flags /\ gh.paren = 0
<1>. USE DEF FLAG_SKIP_CLOSING, FLAG_SKIP_OPENING, FLAG_ADD_LEFT_BRACE, OPENING, CLOSING
<1>1. /\ gh.paren \in Int /\ gh.paren >= 0
      /\ FLAG_SKIP_OPENING \in gh.flags => gh.paren = 0 /\ FLAG_SKIP_CLOSING \notin gh.flags
  BY DEF GhTypeOK, GhParens, Depth
<1>2. CASE GotByte = OPENING /\ FLAG_SKIP_OPENING \in gh.flags
  <2>1. gh' = [gh EXCEPT !.flags = (gh.flags \ {FLAG_SKIP_OPENING}) \cup {FLAG_SKIP_CLOSING}]
    BY <1>2 DEF Parenthesis
  <2>2. /\ gh'.flags = (gh.flags \ {FLAG_SKIP_OPENING}) \cup {FLAG_SKIP_CLOSING}
        /\ gh'.paren = gh.paren
    BY <2>1 DEF GhTypeOK
  <2>. QED BY <1>1, <1>2, <2>2 DEF Depth
<1>3. CASE GotByte = OPENING /\ FLAG_SKIP_OPENING \notin gh.flags
  <2>1. gh' = [gh EXCEPT !.paren = gh.paren + 1]  BY <1>3 DEF Parenthesis
  <2>2. gh'.flags = gh.flags /\ gh'.paren = gh.paren + 1  BY <2>1 DEF GhTypeOK
  <2>. QED BY <1>1, <1>3, <2>2 DEF Depth
<1>4. CASE GotByte = CLOSING /\ skip
  <2>1. gh' = [gh EXCEPT !.flags = gh.flags \ {FLAG_SKIP_CLOSING}]  BY <1>4 DEF Parenthesis
  <2>2. gh'.flags = gh.flags \ {FLAG_SKIP_CLOSING} /\ gh'.paren = gh.paren  BY <2>1 DEF GhTypeOK
  <2>. QED BY <1>1, <1>4, <2>2 DEF Depth
<1>5. CASE GotByte = CLOSING /\ ~skip
  <2>1. gh' = [gh EXCEPT !.paren = gh.paren - 1]  BY <1>5 DEF Parenthesis
  <2>2. gh'.flags = gh.flags /\ gh'.paren = gh.paren - 1  BY <2>1 DEF GhTypeOK
  <2>3. Depth > 0  BY <1>5
  <2>4. gh.paren > 0  BY <1>1, <1>5, <2>3 DEF Depth
  <2>5. FLAG_SKIP_OPENING \notin gh.flags  BY <1>1, <2>4
  <2>. QED BY <1>1, <1>5, <2>2, <2>4, <2>5 DEF Depth
<1>6. CASE GotByte # OPENING /\ GotByte # CLOSING
  <2>1. gh' = gh  BY <1>6 DEF Parenthesis
  <2>. QED BY <1>1, <1>6, <2>1 DEF Depth, GhParens
<1>. QED BY <1>2, <1>3, <1>4, <1>5, <1>6

LEMMA CharacterStep == ASSUME GhHere, GigaHypra_argument, Reading' PROVE GhPart'
<1>1. /\ pc \in {"gh_args", "gh_char"} /\ gh' = Parenthesis /\ UNCHANGED braces /\ IO_get_byte
      /\ pc = "gh_args" => GotByte \notin {COMMENT, 0, BANG}
      /\ pc' = IF GotByte = QUOTE THEN "gh_quoted" ELSE "gh_args"
  BY DEF GigaHypra_argument, WithGh, EndOfArgument, ReadTo, Goto
<1>2. /\ client \in BasicFormats /\ blocks \in Int /\ braces \in Int
      /\ GhTypeOK /\ GhParens /\ Owing /\ Depth \in Nat
      /\ pc = "gh_args" => AtBasic
      /\ pc = "gh_char" => AtOperand
  BY <1>1, InArgumentHere DEF InArgument
<1>3. \/ role = Role("arg", Depth, 0) /\ GotByte \notin {OPENING, CLOSING, QUOTE}
      \/ role = Role("arg", Depth + 1, 0) /\ GotByte = OPENING
      \/ role = Role("quote", Depth, 0) /\ GotByte = QUOTE
      \/ Depth > 0 /\ role = Role("arg", Depth - 1, 0) /\ GotByte = CLOSING
  BY <1>1, <1>2 DEF AtBasic, AtOperand, AtRest, AtZero, Letters, OPENING, CLOSING, QUOTE, SPACE, DOT
<1>4. /\ Depth' = IF GotByte = OPENING THEN Depth + 1
                  ELSE IF GotByte = CLOSING THEN Depth - 1 ELSE Depth
      /\ gh'.paren >= 0
      /\ FLAG_SKIP_OPENING \in gh'.flags => Depth' = 0
      /\ FLAG_ADD_LEFT_BRACE \in gh'.flags <=> FLAG_ADD_LEFT_BRACE \in gh.flags
  BY <1>1, <1>2, <1>3, ParenthesisDepth DEF OPENING, CLOSING, QUOTE
<1>5. GhParens'  BY <1>1, <1>4 DEF GhParens
<1>. DEFINE d == IF GotByte = OPENING THEN Depth + 1
                 ELSE IF GotByte = CLOSING THEN Depth - 1 ELSE Depth
<1>6. d \in Nat /\ Depth' = d  BY <1>2, <1>3, <1>4 DEF OPENING, CLOSING, QUOTE
<1>7. CASE GotByte = QUOTE
  <2>1. role = Role("quote", d, 0)
    BY <1>3, <1>7 DEF OPENING, CLOSING, QUOTE
  <2>. HIDE DEF d
  <2>2. AtQuoted' /\ client' = client /\ blocks' = blocks
    BY <1>1, <1>2, <1>6, <2>1, QuoteRead
  <2>3. Owing'  BY <1>1, <1>2, <1>4, <2>2 DEF Owing
  <2>. QED BY <1>1, <1>5, <1>7, <2>2, <2>3, InArgumentPart
<1>8. CASE GotByte # QUOTE
  <2>1. role = Role("arg", d, 0)
    BY <1>3, <1>8 DEF OPENING, CLOSING, QUOTE
  <2>. HIDE DEF d
  <2>2. AtBasic' /\ client' = client /\ blocks' = blocks
    BY <1>1, <1>2, <1>6, <2>1, BasicArgumentRead DEF InArguments
  <2>3. Owing'  BY <1>1, <1>2, <1>4, <2>2 DEF Owing
  <2>. QED BY <1>1, <1>5, <1>8, <2>2, <2>3, InArgumentPart
<1>. QED BY <1>7, <1>8

LEMMA StringStep == ASSUME GhHere, GhQuoted, Reading' PROVE GhPart'
<1>1. pc = "gh_quoted" /\ UNCHANGED <<gh, braces>>  BY DEF GhQuoted, GhLocals
<1>2. /\ client \in BasicFormats /\ blocks \in Int /\ braces \in Int
      /\ GhTypeOK /\ GhParens /\ Owing /\ Depth \in Nat /\ AtQuoted
  BY <1>1, InArgumentHere DEF InArgument
<1>. DEFINE d == Depth
<1>3. d \in Nat /\ Depth' = d  BY <1>1, <1>2 DEF Depth
<1>4. pc' \in {"gh_args", "gh_quoted"}  BY DEF GhQuoted, ReadTo, KeepTo, Goto
<1>5. GhParens'  BY <1>1, <1>2, <1>3, <1>4 DEF GhParens
<1>. USE DEF ReadTo, KeepTo, Goto
<1>6. CASE GotByte = 0
  <2>1. pc' = "gh_args" /\ UNCHANGED <<client, role, GotByte, blocks>>
    BY <1>6 DEF GhQuoted, ioVars, QUOTE
  <2>2. Depth = 0 /\ AtZero  BY <1>2, <1>6 DEF AtQuoted, QUOTE
  <2>3. AtBasic'  BY <1>3, <2>1, <2>2 DEF AtBasic, AtRest, AtZero
  <2>4. Owing'  BY <1>1, <1>2, <2>1 DEF Owing
  <2>. QED BY <1>5, <2>1, <2>3, <2>4, InArgumentPart
<1>7. CASE GotByte = QUOTE
  <2>1. pc' = "gh_args" /\ IO_get_byte  BY <1>7 DEF GhQuoted, QUOTE
  <2>2. role = Role("arg", d, 0)  BY <1>2, <1>7 DEF AtQuoted, AtZero, QUOTE
  <2>. HIDE DEF d
  <2>3. AtBasic' /\ client' = client /\ blocks' = blocks
    BY <1>2, <1>3, <2>1, <2>2, BasicArgumentRead DEF InArguments
  <2>4. Owing'  BY <1>1, <1>2, <2>3 DEF Owing
  <2>. QED BY <1>5, <2>1, <2>3, <2>4, InArgumentPart
<1>8. CASE GotByte \notin {0, QUOTE}
  <2>1. pc' = "gh_quoted" /\ IO_get_byte  BY <1>8 DEF GhQuoted
  <2>2. role = Role("quote", d, 0)  BY <1>2, <1>8 DEF AtQuoted, AtZero
  <2>. HIDE DEF d
  <2>3. AtQuoted' /\ client' = client /\ blocks' = blocks
    BY <1>2, <1>3, <2>1, <2>2, QuoteRead
  <2>4. Owing'  BY <1>1, <1>2, <2>3 DEF Owing
  <2>. QED BY <1>5, <2>1, <2>3, <2>4, InArgumentPart
<1>. QED BY <1>6, <1>7, <1>8

LEMMA GhPartKept == ASSUME GhHere, Written, GhNext, Reading' PROVE GhPart'
BY GhLineStep, GhHeadStep, LabelStep, SpacesStep, RemarkStep, TokenStep, RealStep,
   PseudoOpcodeStep, ArgumentEndStep, OperatorStep, CharacterStep, StringStep DEF GhNext

---------------------------------------------------------------------------
(* The invariant.                                                          *)

\* The end of the file stays where it is, and its padding.
LEMMA PaddingRead ==
  ASSUME IO_get_byte \/ UNCHANGED ioVars, IO_reached_eof => GotByte \in {EOF, 0},
         padding_value = 0
  PROVE  /\ IO_reached_eof' => GotByte' \in {EOF, 0}
         /\ padding_value' = 0 /\ sound' = sound /\ client' = client
BY DEF IO_get_byte, NextByte, EndOfFile, ioVars

\* A string of Hypra-Ass or Giga-Ass is opened and closed by a quote, or closed
\* by a line's end; at the end of the file no quote is ever seen.
LEMMA QuotesKept == ASSUME Inv, SoundInv, sound, GhNext PROVE GhQuotes'
<1>1. client \in BasicFormats /\ (IO_get_byte \/ UNCHANGED ioVars) /\ quoted \in BOOLEAN
  BY GhSteps DEF GhStep, Inv, TypeOK, IoTypeOK
<1>2. /\ quoted <=> pc = "gh_quoted"
      /\ IO_reached_eof => GotByte \in {EOF, 0}
      /\ padding_value = 0
  BY <1>1 DEF SoundInv, GhQuotes
<1>3. /\ IO_reached_eof' => GotByte' \in {EOF, 0}
      /\ padding_value' = 0 /\ client' = client
  BY <1>1, <1>2, PaddingRead
<1>. SUFFICES quoted' <=> pc' = "gh_quoted"  BY <1>3 DEF GhQuotes
<1>. USE <1>1, <1>2 DEF Keep, outVars, ReadTo, KeepTo, Goto
<1>4. CASE GhLine \/ GhHead \/ GhFirst \/ GigaHypra_label_definition \/ GhSpaces \/ GigaHypra_comment
  BY <1>4 DEF GhLine, GhHead, GhFirst, GigaHypra_label_definition, GhSpaces, GigaHypra_comment
<1>5. CASE process_tokenized \/ real_opcode \/ process_pseudo_opcode \/ ArgumentEnds
  BY <1>5 DEF process_tokenized, real_opcode, process_pseudo_opcode, ArgumentEnds
<1>6. CASE GigaHypra_operator
  <2>1. pc = "gh_bang1" => GotByte # QUOTE
    BY DEF SoundInv, Reading, GhSound, Middles, QUOTE, EOF
  <2>. QED BY <1>6, <2>1 DEF GigaHypra_operator
<1>7. CASE GigaHypra_argument  BY <1>7 DEF GigaHypra_argument
<1>8. CASE GhQuoted  BY <1>8 DEF GhQuoted, QUOTE
<1>. QED BY <1>4, <1>5, <1>6, <1>7, <1>8 DEF GhNext

\* What is left to show of a step of a converter.
Parts ==
  /\ HeadSound /\ AbSound /\ GhSound /\ ProfSound
  /\ client \in AbFormats => AbReturns /\ AbBraces
  /\ client \in BasicFormats => GhParens /\ GhBraces

LEMMA HeaderKept ==
  ASSUME Inv, SoundInv, Reading, IO_process_load_address, UNCHANGED LocalVars, Reading'
  PROVE  Parts'
<1>1. /\ pc \in {"load_low", "load_high"} /\ IO_get_byte
      /\ pc' = IF pc = "load_low" THEN "load_high" ELSE "body"
      /\ UNCHANGED <<braces, gh>>
  BY DEF IO_process_load_address, LoadLow, LoadHigh, ReadTo, Goto, Keep, outVars, LocalVars
<1>2. client \in Formats /\ blocks \in Int /\ braces \in Int
  BY <1>1, Clients DEF Inv, TypeOK, IoTypeOK
<1>3. HeadSound /\ (client \in BasicFormats => GhParens /\ GhBraces)
      /\ (client \in AbFormats => AbBraces)
  BY DEF SoundInv
<1>4. HeadSound' /\ client' = client /\ blocks' = blocks
  <2>1. CASE pc = "load_low"
    <3>1. role = Role("header", 0, 0)  BY <1>3, <2>1 DEF HeadSound, Plain
    <3>2. /\ client \in AbFormats => <<0, 8, AB_ENDOFLINE>> \in Headers(client)
          /\ client \notin AbFormats => <<1, 8>> \in Headers(client)
      BY DEF Headers
    <3>3. PICK h \in Headers(client) : Len(h) > 0
      <4>. DEFINE short == <<1, 8>>
                  long == <<0, 8, AB_ENDOFLINE>>
      <4>1. Len(long) > 0 /\ Len(short) > 0  OBVIOUS
      <4>2. long \in Headers(client) \/ short \in Headers(client)  BY <3>2
      <4>. HIDE DEF short, long
      <4>. QED BY <4>1, <4>2
    <3>. DEFINE place == 0
    <3>4. /\ place \in 0..Len(h) /\ place < Len(h)
          /\ role = Role("header", place, IF place = 0 THEN 0 ELSE Len(h))
      <4>1. Len(h) \in Nat  BY DEF Headers
      <4>. QED BY <3>1, <3>3, <4>1
    <3>5. place + 1 = 1  OBVIOUS
    <3>. HIDE DEF place
    <3>6. client' = client /\ AtHeader(place + 1)' /\ blocks' = blocks
      BY <1>1, <1>2, <3>4, HeaderRead
    <3>. QED BY <1>1, <2>1, <3>5, <3>6 DEF HeadSound
  <2>2. CASE pc = "load_high"
    <3>1. PICK h \in Headers(client) :
            1 \in 1..Len(h) /\ role = Role("header", 1, Len(h)) /\ GotByte = h[1]
      BY <1>3, <2>2 DEF HeadSound, AtHeader
    <3>. DEFINE place == 1
    <3>2. Len(h) \in {2, 3, 5}  BY DEF Headers
    <3>3. /\ place \in 0..Len(h) /\ place < Len(h)
          /\ role = Role("header", place, IF place = 0 THEN 0 ELSE Len(h))
      BY <3>1, <3>2
    <3>4. place + 1 = 2  OBVIOUS
    <3>. HIDE DEF place
    <3>5. client' = client /\ AtHeader(place + 1)' /\ blocks' = blocks
      BY <1>1, <1>2, <3>3, HeaderRead
    <3>. QED BY <1>1, <2>2, <3>4, <3>5 DEF HeadSound
  <2>. QED BY <1>1, <2>1, <2>2
<1>5. AbSound' /\ GhSound' /\ ProfSound' /\ AbReturns'
  BY <1>1 DEF AbSound, GhSound, ProfSound, AbReturns
<1>6. client \in AbFormats => AbBraces'
  BY <1>1, <1>2, <1>3, <1>4 DEF AbBraces
<1>7. client \in BasicFormats => GhParens' /\ GhBraces'
  BY <1>1, <1>2, <1>3, <1>4 DEF GhParens, GhBraces, InArgument, Depth
<1>. QED BY <1>4, <1>5, <1>6, <1>7 DEF Parts

LEMMA ConvertSound == ASSUME Inv, SoundInv, Written, Reading, Convert, Reading' PROVE Parts'
<1>1. /\ TypeOK /\ blocks \in Int /\ braces \in Int /\ GotByte \in {EOF} \cup 0..255
      /\ AbTypeOK /\ GhTypeOK /\ ProfTypeOK /\ ProfState
      /\ pc = "ab_number" => ab.need > 0
      /\ pc = "gh_head" => gh.left > 0
  BY DEF Inv, TypeOK, IoTypeOK, AbState, GhState
<1>2. /\ HeadSound /\ AbSound /\ GhSound /\ ProfSound /\ client \in Formats \ {"object"}
      /\ client \in AbFormats => AbReturns /\ AbBraces
      /\ client \in BasicFormats => GhParens /\ GhBraces
      /\ ~IO_reached_eof /\ sound
  BY DEF SoundInv, Reading
<1>3. CASE IO_process_load_address /\ UNCHANGED LocalVars  BY <1>3, HeaderKept
<1>4. CASE AbNext
  <2>1. AbStep  BY <1>4, AbSteps
  <2>2. client' = client /\ client \in AbFormats /\ client \notin BasicFormats
    BY <2>1, SoundRead DEF AbStep, ioVars, AbFormats, BasicFormats
  <2>3. AbPart'  BY <1>1, <1>2, <1>4, <2>2, AbPartKept DEF AbHere, AbPart
  <2>4. GhSound' /\ ProfSound'
    BY <2>1 DEF AbStep, AbLabels, GhSound, ProfSound
  <2>. QED BY <2>2, <2>3, <2>4 DEF Parts, AbPart
<1>5. CASE GhNext
  <2>1. GhStep  BY <1>5, GhSteps
  <2>2. client' = client /\ client \in BasicFormats /\ client \notin AbFormats
    BY <2>1, SoundRead DEF GhStep, ioVars, AbFormats, BasicFormats
  <2>3. GhPart'  BY <1>1, <1>2, <1>5, <2>2, GhPartKept DEF GhHere, GhPart
  <2>4. AbSound' /\ ProfSound'
    BY <2>1 DEF GhStep, GhLabels, AbSound, ProfSound
  <2>. QED BY <2>2, <2>3, <2>4 DEF Parts, GhPart
<1>6. CASE ProfNext
  <2>1. ProfStep  BY <1>6, ProfSteps
  <2>2. client' = client /\ client = "prof" /\ client \notin AbFormats \cup BasicFormats
    BY <2>1, SoundRead DEF ProfStep, ioVars, AbFormats, BasicFormats
  <2>3. HeadSound' /\ ProfSound'  BY <1>1, <1>2, <1>6, <2>2, ProfStepSound DEF ProfHere
  <2>4. AbSound' /\ GhSound'
    BY <2>1 DEF ProfStep, ProfLabels, AbSound, GhSound
  <2>. QED BY <2>2, <2>3, <2>4 DEF Parts
<1>7. CASE ObjNext  BY <1>2, <1>7, ObjSteps DEF ObjStep
<1>. QED BY <1>3, <1>4, <1>5, <1>6, <1>7 DEF Convert

LEMMA InitSound == Init => SoundInv
BY DEF Init, IoInit, GhInit, SoundInv, GhQuotes, Reading

LEMMA StillSound == ASSUME SoundInv, UNCHANGED vars PROVE SoundInv'
<1>. USE DEF vars, ioVars, outVars
<1>1. /\ UNCHANGED <<client, GotByte, IO_reached_eof, padding_value, sound, role, blocks>>
      /\ UNCHANGED <<pc, braces, quoted, ab, gh, pa>>
  OBVIOUS
<1>2. GhQuotes'  BY <1>1 DEF SoundInv, GhQuotes
<1>3. ASSUME Reading' PROVE Parts'
  <2>1. Parts /\ Reading  BY <1>1, <1>3 DEF SoundInv, Reading, Parts
  <2>2. HeadSound'  BY <1>1, <2>1 DEF Parts, HeadSound, AtHeader
  <2>3. AbSound'
    BY <1>1, <2>1 DEF Parts, AbSound, AtStart, Others, AtEnd, AtEol, AtArgument, AtName
  <2>4. GhSound'
    BY <1>1, <2>1 DEF Parts, GhSound, AtZero, AtRest, AtSpace, AtLetter, AtToken, AtOpcode,
       AtOperand, AtBasic, Depth
  <2>5. ProfSound'  BY <1>1, <2>1 DEF Parts, ProfSound
  <2>6. client' \in AbFormats => AbReturns' /\ AbBraces'
    BY <1>1, <2>1 DEF Parts, AbReturns, AbBraces
  <2>7. client' \in BasicFormats => GhParens' /\ GhBraces'
    BY <1>1, <2>1 DEF Parts, GhParens, GhBraces, Depth
  <2>. QED BY <2>2, <2>3, <2>4, <2>5, <2>6, <2>7 DEF Parts
<1>. QED BY <1>1, <1>2, <1>3 DEF SoundInv, Parts

LEMMA StepSound == ASSUME Inv, SoundInv, Written, [Next]_vars PROVE SoundInv'
<1>1. CASE UNCHANGED vars  BY <1>1, StillSound
<1>2. CASE Leave
  <2>1. ~sound' /\ pc' = "exited"
    BY <1>2 DEF Leave, ioVars, Goto, SoundInv
  <2>. QED BY <2>1 DEF SoundInv, GhQuotes, Reading
<1>3. CASE version_main
  <2>1. /\ ~IO_reached_eof' /\ blocks' = 0 /\ braces' = 0 /\ ~quoted' /\ gh' = GhFresh
        /\ pc' \in {"load_low", "obj_low"} /\ client' \in Formats
        /\ padding_value' = IO_set_input_padding(client')
        /\ sound' => pc' = "load_low" /\ client' # "object" /\ role' = Plain("header")
    BY <1>3 DEF version_main, SoundInv, Goto, outVars, LocalVars
  <2>2. GhQuotes'
    BY <2>1 DEF GhQuotes, IO_set_input_padding, AbFormats, BasicFormats
  <2>3. gh'.flags = {} /\ gh'.paren = 0  BY <2>1 DEF GhFresh
  <2>4. ASSUME sound' PROVE Parts'
    BY <2>1, <2>3, <2>4 DEF Parts, HeadSound, AbSound, GhSound, ProfSound, AbReturns, AbBraces,
       GhParens, GhBraces, InArgument, Depth
  <2>. QED BY <2>1, <2>2, <2>4 DEF SoundInv, Reading, Parts
<1>4. CASE Finish
  <2>1. /\ pc = "done" /\ pc' = "exited"
        /\ UNCHANGED <<client, GotByte, IO_reached_eof, padding_value, sound, quoted>>
    BY <1>4 DEF Finish, Goto, ioVars, outVars
  <2>2. ~Reading'  BY <2>1 DEF SoundInv, Reading, HeadSound
  <2>. QED BY <2>1, <2>2 DEF SoundInv, GhQuotes
<1>5. CASE Convert
  <2>. DEFINE Kind == \/ IO_process_load_address /\ UNCHANGED LocalVars
                      \/ AbNext \/ GhNext \/ ProfNext \/ ObjNext
  <2>1. Kind  BY <1>5 DEF Convert
  <2>2. /\ IO_get_byte \/ UNCHANGED ioVars
        /\ pc' # "main"
    <3>1. CASE IO_process_load_address
      BY <3>1 DEF IO_process_load_address, LoadLow, LoadHigh, ReadTo, Goto
    <3>2. CASE AbNext  BY <3>2, AbSteps DEF AbStep, AbLabels
    <3>3. CASE GhNext  BY <3>3, GhSteps DEF GhStep, GhLabels
    <3>4. CASE ProfNext  BY <3>4, ProfSteps DEF ProfStep, ProfLabels
    <3>5. CASE ObjNext  BY <3>5, ObjSteps DEF ObjStep, ObjLabels
    <3>. QED BY <2>1, <3>1, <3>2, <3>3, <3>4, <3>5
  <2>3. client' = client /\ sound' = sound  BY <2>2 DEF IO_get_byte, ioVars
  <2>4. Reading' => Reading  BY <2>2, SoundRead DEF Reading, ioVars
  <2>5. GhQuotes'
    <3>1. SUFFICES ASSUME sound, client \in BasicFormats PROVE GhQuotes'
      BY <2>3 DEF GhQuotes
    <3>2. CASE GhNext  BY <3>1, <3>2, QuotesKept
    <3>3. CASE IO_process_load_address
      <4>1. pc \in {"load_low", "load_high"} /\ pc' \in {"load_high", "body"} /\ UNCHANGED quoted
        BY <3>3 DEF IO_process_load_address, LoadLow, LoadHigh, ReadTo, Goto, Keep, outVars
      <4>. QED BY <2>2, <2>3, <3>1, <4>1, PaddingRead DEF SoundInv, GhQuotes
    <3>4. CASE AbNext  BY <3>1, <3>4, AbSteps DEF AbStep, AbFormats, BasicFormats
    <3>5. CASE ProfNext  BY <3>1, <3>5, ProfSteps DEF ProfStep, BasicFormats
    <3>6. CASE ObjNext  BY <3>1, <3>6, ObjSteps DEF ObjStep, BasicFormats
    <3>. QED BY <2>1, <3>2, <3>3, <3>4, <3>5, <3>6
  <2>6. Reading' => Parts'  BY <1>5, <2>4, ConvertSound
  <2>. QED BY <2>2, <2>3, <2>5, <2>6 DEF SoundInv, Parts
<1>6. CASE Exited  BY <1>6, StillSound DEF Exited
<1>. QED BY <1>1, <1>2, <1>3, <1>4, <1>5, <1>6 DEF Next, Main

---------------------------------------------------------------------------
(* The theorems.                                                           *)

\* The invariant: at every label, what the last byte read stands for, and how
\* many blocks and parentheses of the source are open.
LEMMA SoundHolds == ASSUME Written PROVE Spec => [](Inv /\ SoundInv)
<1>1. Init => Inv /\ SoundInv  BY InitInv, InitSound
<1>2. Inv /\ SoundInv /\ [Next]_vars => (Inv /\ SoundInv)'  BY StepInv, StepSound
<1>. QED BY <1>1, <1>2, PTL DEF Spec

\* What an argument, a comment or a string of each converter is read as.
TextRoles == {"arg", "quote", "text", "eol", "num", "name", "bang", "middle", "bang2"}

LEMMA Places ==
  /\ AtArgument => role.is \in TextRoles
  /\ AtName => role.is \in TextRoles
  /\ AtStart => role.is = "start"
  /\ AtEnd => role.is \in TextRoles
  /\ AtBasic => role.is \in TextRoles
  /\ AtOperand => role.is \in TextRoles
<1>1. role = Plain("text") \/ role = Plain("arg") \/ role = Plain("quote") \/ role = Plain("eol")
        \/ role = Plain("name") => role.is \in TextRoles
  BY PlainFields DEF TextRoles
<1>2. AtStart => role.is = "start"  BY PlainFields DEF AtStart
<1>3. AtEnd => role.is \in TextRoles  BY <1>1 DEF AtEnd, AtEol
<1>4. AtArgument => role.is \in TextRoles
  BY <1>1, <1>3, RoleFields DEF AtArgument, TextRoles
<1>5. AtName => role.is \in TextRoles  BY <1>1, <1>3 DEF AtName
<1>6. AtOperand => role.is \in TextRoles  BY RoleFields DEF AtOperand, TextRoles
<1>7. AtRest => role.is \in TextRoles  BY <1>1 DEF AtRest, AtZero
<1>8. AtBasic => role.is \in TextRoles  BY <1>6, <1>7, RoleFields DEF AtBasic, TextRoles
<1>. QED BY <1>2, <1>3, <1>4, <1>5, <1>6, <1>8

LEMMA InStep == Inv /\ SoundInv => LinesInStep
<1>. SUFFICES ASSUME Inv, SoundInv, Reading PROVE LinesInStep  BY DEF LinesInStep, Reading
<1>1. TypeOK /\ HeadSound /\ AbSound /\ GhSound /\ ProfSound /\ client \in Formats \ {"object"}
  BY DEF Inv, SoundInv, Reading
<1>2. /\ pc \in AbLabels \ {"body"} => client \in AbFormats
      /\ pc \in GhLabels => client \in BasicFormats
      /\ pc \notin ObjLabels
      /\ pc \in {"load_low", "load_high", "body"} \cup AbLabels \cup GhLabels \cup ProfLabels
  <2>1. pc \in Labels /\ pc \notin {"main", "done", "exited"}  BY <1>1 DEF TypeOK, HeadSound
  <2>2. pc \in ObjLabels => client = "object"  BY <1>1, Clients
  <2>. QED BY <1>1, <2>1, <2>2, Clients DEF Labels, MainLabels
<1>3. pc \in {"ab_args", "ab_quoted"} => role.is \in TextRoles
  BY <1>1, Places, PlainFields DEF AbSound, TextRoles, AtEol
<1>4. pc \in {"gh_args", "gh_char", "gh_quoted", "gh_text"} => role.is \in TextRoles
  BY <1>1, Places, RoleFields, PlainFields DEF GhSound, TextRoles, AtZero
<1>5. pc = "ab_line" => role.is = IF client = "vis" THEN "length" ELSE "start"
  BY <1>1, Places, PlainFields DEF AbSound
<1>6. pc = "ab_mode" => role.is = "mode"  BY <1>1, PlainFields DEF AbSound
<1>7. pc = "ab_number" => role.is = "data"  BY <1>1, RoleFields DEF AbSound
<1>8. pc = "gh_line" => role.is \in {"eol", "end"}  BY <1>1, PlainFields DEF GhSound, AtZero
<1>9. /\ pc = "prof_len" => role.is = "len"
      /\ pc = "prof_char" => role.is = "char"
      /\ pc = "prof_len2" => role.is = "len2"
  BY <1>1, PlainFields, RoleFields DEF ProfSound
<1>10. pc # "ab_number" => role.is # "data"
  <2>1. CASE pc \in {"load_low", "load_high", "body", "ab_head", "ab_head4", "ab_head5"}
    BY <1>1, <2>1, RoleFields, PlainFields DEF HeadSound, AtHeader
  <2>2. CASE pc \in AbLabels \ {"body", "ab_head", "ab_head4", "ab_head5", "ab_number"}
    <3>1. \/ role = Plain("length") \/ role = Plain("mode") \/ role = Plain("start")
          \/ role = Plain("text") \/ role.is \in TextRoles \/ role.is = "start"
      BY <1>1, <1>3, <2>2, Places, PlainFields DEF AbSound, AbLabels, AtEol, TextRoles
    <3>. QED BY <3>1, PlainFields DEF TextRoles
  <2>3. CASE pc \in {"gh_line", "gh_head"}
    <3>1. pc = "gh_head" => gh.left \in 1..4  BY <1>1 DEF Inv, GhState, TypeOK, GhTypeOK
    <3>2. \A n \in 1..4 : Heads[n] # "data"  BY DEF Heads
    <3>. QED BY <1>1, <2>3, <3>1, <3>2, PlainFields DEF GhSound, AtZero
  <2>4. CASE pc \in {"gh_first", "gh_label", "gh_spaces", "gh_opcode", "gh_op", "gh_po1", "gh_po2"}
    <3>1. \/ AtRest \/ AtSpace \/ AtLetter \/ AtToken \/ AtOpcode \/ AtBasic
          \/ role.is \in {"op", "po"}
      BY <1>1, <2>4, RoleFields DEF GhSound
    <3>. QED BY <3>1, Places, RoleFields, PlainFields
         DEF AtRest, AtZero, AtSpace, AtLetter, AtToken, AtOpcode, TextRoles
  <2>5. CASE pc \in InArgument \cup {"gh_comment", "gh_text"}
    <3>1. role.is \in TextRoles
      BY <1>1, <1>4, <2>5, RoleFields, PlainFields DEF GhSound, InArgument, AtRest, AtZero, TextRoles
    <3>. QED BY <3>1 DEF TextRoles
  <2>6. CASE pc \in ProfLabels  BY <1>1, <2>6, RoleFields, PlainFields DEF ProfSound, ProfLabels
  <2>. QED BY <1>2, <2>1, <2>2, <2>3, <2>4, <2>5, <2>6 DEF AbLabels, GhLabels, InArgument
<1>. QED
  BY <1>3, <1>4, <1>5, <1>6, <1>7, <1>8, <1>9, <1>10 DEF LinesInStep, TextRoles

LEMMA Closed == Inv /\ SoundInv => PairsClosed
<1>. SUFFICES ASSUME Inv, SoundInv PROVE PairsClosed  OBVIOUS
<1>. DEFINE anyEnd == {"ab_comment", "ab_ctext", "ab_eol", "ab_line", "ab_number"}
<1>1. /\ TypeOK /\ braces \in Int /\ GhQuotes
      /\ client \notin BasicFormats /\ quoted => pc = "ab_quoted"
      /\ pc \in AbLabels \ {"body"} => client \in AbFormats
      /\ pc \in GhLabels => client \in BasicFormats
  BY Clients DEF Inv, TypeOK, IoTypeOK, AbState, SoundInv
<1>2. pc \in anyEnd => ~quoted
  BY <1>1 DEF AbLabels, AbFormats, BasicFormats
<1>3. ASSUME sound, pc \in {"gh_comment", "gh_text"}
      PROVE  ~quoted /\ (~IO_reached_eof => gh.paren = 0 /\ FLAG_SKIP_CLOSING \notin gh.flags)
  <2>1. client \in BasicFormats  BY <1>1, <1>3 DEF GhLabels
  <2>2. ~quoted  BY <1>1, <1>3, <2>1 DEF GhQuotes
  <2>3. ASSUME ~IO_reached_eof PROVE gh.paren = 0 /\ FLAG_SKIP_CLOSING \notin gh.flags
    <3>1. Depth = 0 /\ gh.paren >= 0  BY <1>3, <2>1, <2>3 DEF SoundInv, Reading, GhSound, GhParens
    <3>2. gh.paren \in Int  BY <1>1 DEF TypeOK, GhTypeOK
    <3>. QED BY <3>1, <3>2 DEF Depth
  <2>. QED BY <2>2, <2>3
<1>4. ASSUME sound, ~IO_reached_eof, pc \in {"ab_eol", "gh_line"} PROVE braces = blocks
  <2>1. pc = "ab_eol" => AbBraces  BY <1>1, <1>4 DEF SoundInv, Reading, AbLabels
  <2>2. pc = "gh_line" => GhBraces  BY <1>1, <1>4 DEF SoundInv, Reading, GhLabels
  <2>3. CASE pc = "ab_eol"
    <3>1. blocks = braces + 0  BY <2>1, <2>3 DEF AbBraces
    <3>. QED BY <1>1, <3>1
  <2>4. CASE pc = "gh_line"
    <3>1. blocks = braces + 0  BY <2>2, <2>4 DEF GhBraces, InArgument
    <3>. QED BY <1>1, <3>1
  <2>. QED BY <1>4, <2>3, <2>4
<1>. QED BY <1>2, <1>3, <1>4 DEF PairsClosed

\* In every sound file of the text formats each converter's loop over lines
\* begins where a line does, and takes no byte of a head, of a packed number or
\* of an addressing mode for text, nor text for one (GotByte of io.c is all
\* that its functions hand on).
THEOREM SoundFilesStayInStep == ASSUME Written PROVE Spec => []LinesInStep
<1>. QED BY SoundHolds, InStep, PTL

\* Strings are closed before a comment and at the end of a line, parentheses
\* left out come in pairs, and the output's braces are the source's blocks
\* (ab.c:278, gighyp.c), in sound files of every length and every nesting.
THEOREM SoundFilesClosePairs == ASSUME Written PROVE Spec => []PairsClosed
<1>. QED BY SoundHolds, Closed, PTL
============================================================================
