----------------------------- MODULE ToacmeIO -----------------------------
(***************************************************************************)
(* toacme's input (io.c): one byte of lookahead in GotByte, the end of the *)
(* file as EOF once and as padding ever after.  The file is not chosen     *)
(* beforehand: each read takes one of the bytes that may come next, or the *)
(* end.  A file is either `sound', what SourceFiles describes, or any      *)
(* sequence of bytes at all.                                               *)
(*                                                                         *)
(* What the converter prints is kept as far as properties need it.  The    *)
(* steps of the program are labelled in pc; a step ends with a call of     *)
(* IO_get_byte or with a jump to the next label.                           *)
(***************************************************************************)
EXTENDS SourceFiles

CONSTANTS
  Formats,     \* format ids in use
  RawFormats,  \* those whose files may hold anything
  MaxBytes,    \* bound: format id -> bytes of a file; one that is longer is cut
  MaxBlocks    \* bound: nesting of the blocks in a file

ASSUME ToacmeAssumption ==
  /\ Formats \subseteq AbFormats \cup BasicFormats \cup {"prof", "object"}
  /\ RawFormats \subseteq Formats
  /\ MaxBytes \in [Formats -> Nat]
  /\ MaxBlocks \in Nat
  /\ FileBytes \in [Formats -> SUBSET (0..255)]

VARIABLES
  pc,              \* what the program does next
  client,          \* the format id: client_main of version.c
  GotByte,
  IO_reached_eof,
  padding_value,
  taken,           \* bytes read from the file
  sound,           \* the file is what its format demands
  role,            \* of the last byte read in the file
  blocks,          \* blocks of the source that are open
  braces,          \* braces the output has open
  quoted           \* the output is inside a string

ioVars == <<client, GotByte, IO_reached_eof, padding_value, taken, sound, role, blocks>>
outVars == <<braces, quoted>>
Keep == UNCHANGED outVars

IoTypeOK ==
  /\ client \in Formats \cup {"none"}
  /\ GotByte \in {EOF} \cup 0..255
  /\ IO_reached_eof \in BOOLEAN
  /\ padding_value \in {0, AB_ENDOFLINE}
  /\ taken \in Nat
  /\ sound \in BOOLEAN
  /\ blocks \in 0..MaxBlocks
  /\ braces \in Int
  /\ quoted \in BOOLEAN

IoInit ==
  /\ client = "none"
  /\ GotByte = 0
  /\ IO_reached_eof = FALSE
  /\ padding_value = 0
  /\ taken = 0
  /\ sound = FALSE
  /\ role = Plain("raw")
  /\ blocks = 0
  /\ braces = 0
  /\ quoted = FALSE

\* The next byte of the file, in the role that the format gives it.
NextByte ==
  /\ taken < MaxBytes[client]
  /\ \E n \in After(client, role, GotByte) : \E b \in n.bytes :
       LET change == IF Opens(client, n.role, b) THEN 1
                     ELSE IF Closes(client, n.role, b) THEN -1 ELSE 0
       IN  /\ blocks + change \in 0..MaxBlocks
           /\ GotByte' = b
           /\ role' = n.role
           /\ blocks' = blocks + change
  /\ taken' = taken + 1
  /\ UNCHANGED IO_reached_eof

\* getc answers EOF where the file ends, whole or cut.
EndOfFile ==
  /\ MayEnd(role) \/ taken = MaxBytes[client]
  /\ GotByte' = EOF
  /\ IO_reached_eof' = TRUE
  /\ UNCHANGED <<taken, role, blocks>>

IO_get_byte ==
  /\ UNCHANGED <<client, padding_value, sound>>
  /\ IF IO_reached_eof
     THEN GotByte' = padding_value /\ UNCHANGED <<IO_reached_eof, taken, role, blocks>>
     ELSE NextByte \/ EndOfFile

Goto(label) == pc' = label

\* One byte is read, control is at label.
ReadTo(label) == IO_get_byte /\ Goto(label)
\* Control moves on with the byte that was read.
KeepTo(label) == UNCHANGED ioVars /\ Goto(label)

\* IO_get_le16 for the load address, which is printed and forgotten.
LoadLow == pc = "load_low" /\ ReadTo("load_high") /\ Keep
LoadHigh == pc = "load_high" /\ ReadTo("body") /\ Keep
IO_process_load_address == LoadLow \/ LoadHigh
==========================================================================
