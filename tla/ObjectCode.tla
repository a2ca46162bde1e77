---------------------------- MODULE ObjectCode ----------------------------
(***************************************************************************)
(* The disassembler (obj.c): each line is labelled with the address that   *)
(* the lengths of all instructions before it add up to.                    *)
(***************************************************************************)
EXTENDS ToacmeIO

VARIABLE oc  \* pc of obj.c, load (what it began with), the handler at work
             \* (am) and the bytes this has yet to read (left)

ObjLabels == {"obj_low", "obj_high", "obj_pc", "obj_op", "obj_am"}

(***************************************************************************)
(* The handlers, by the bytes they read and what they have pc advance by.  *)
(***************************************************************************)
am_implied == [reads |-> 0, adds |-> 1]
\* am_immediate, am_absolute8, am_abs_x8, am_abs_y8, am_indirect_x,
\* am_indirect_y, am_relative
am_byte == [reads |-> 1, adds |-> 2]
\* am_absolute16, am_abs_x16, am_abs_y16, am_indirect16.
\* Mutant: the handler counts its operand only.
Bugam_word == [reads |-> 2, adds |-> 2]
am_word == [reads |-> 2, adds |-> 3]

\* addressing_mode_of_code: 32 columns of eight codes, and the exceptions.
WordCodes ==
  {c \in 0..255 : \/ c % 32 \in {12, 13, 14, 15, 25, 27, 29, 30, 31}
                  \/ c \in {32, 188}} \ {12, 155, 159, 187}
ByteCodes ==
  ({c \in 0..255 : c % 32 \in {1, 3, 5, 6, 7, 9, 16, 17, 19, 21, 22, 23}} \ {137, 147})
    \cup {36, 75, 107, 132, 148, 160, 162, 164, 180, 192, 196, 203, 224, 228}
addressing_mode_of_code(code) ==
  CASE code \in WordCodes -> am_word [] code \in ByteCodes -> am_byte [] OTHER -> am_implied

ObjTypeOK == oc \in [pc : Int, load : Int, left : 0..2, adds : 1..3]
ObjInit == oc = [pc |-> 0, load |-> 0, left |-> 0, adds |-> 1]

\* IO_get_le16 for the load address: the low byte, or all ones at the end
\* of the file, and the high byte.
ObjLoad ==
  \/ pc = "obj_low" /\ ReadTo("obj_high") /\ UNCHANGED oc
  \/ pc = "obj_high" /\ ReadTo("obj_pc") /\ oc' = [oc EXCEPT !.load = GotByte]
  \/ /\ pc = "obj_pc"
     /\ ReadTo("obj_op")
     /\ LET address == IF oc.load = EOF THEN EOF ELSE oc.load + 256 * GotByte
        IN  oc' = [oc EXCEPT !.pc = address, !.load = address]

\* obj_main: an instruction and its label; the next byte is read.
ObjCode ==
  /\ pc = "obj_op"
  /\ IF IO_reached_eof THEN KeepTo("done") /\ UNCHANGED oc
     ELSE LET am == addressing_mode_of_code(GotByte)
              done == am.reads = 0
          IN  /\ ReadTo(IF done THEN "obj_op" ELSE "obj_am")
              /\ oc' = [oc EXCEPT !.pc = IF done THEN @ + am.adds ELSE @,
                                  !.left = am.reads, !.adds = am.adds]

\* The handler reads its operands before pc is advanced.
ObjOperand ==
  /\ pc = "obj_am"
  /\ LET done == oc.left = 1
     IN  /\ ReadTo(IF done THEN "obj_op" ELSE "obj_am")
         /\ oc' = [oc EXCEPT !.pc = IF done THEN @ + oc.adds ELSE @, !.left = @ - 1]

ObjNext == Keep /\ (ObjLoad \/ ObjCode \/ ObjOperand)
===========================================================================
