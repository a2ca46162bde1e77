---------------------------- MODULE FileStream ----------------------------
(***************************************************************************)
(* What the interpreter is promised about the files it reads: every file   *)
(* source delivers the bytes of its file in order, each once, from the     *)
(* first, whatever other sources are read between two of them, and reports *)
(* its end only at its end.                                                *)
(***************************************************************************)
EXTENDS Integers

CONSTANTS
  Handles,  \* kernel file handles
  MaxLen,   \* bound: length of a file
  Faults    \* those whose reads the card may fail

VARIABLES
  opn,   \* files being read
  len,   \* length of the file behind each handle
  rd,    \* bytes of it delivered so far
  last   \* what the last step delivered: <<h, k>> for byte k of h,
         \* <<h>> for the end of h, <<>> for nothing

vars == <<opn, len, rd, last>>

TypeOK ==
  /\ opn \subseteq Handles
  /\ len \in [Handles -> 0..MaxLen]
  /\ rd \in [Handles -> 0..MaxLen]
  /\ last \in {<<>>} \cup (Handles \X (0..MaxLen)) \cup {<<h>> : h \in Handles}

Init ==
  /\ opn = {}
  /\ len = [h \in Handles |-> 0]
  /\ rd = [h \in Handles |-> 0]
  /\ last = <<>>

Open(h, n) ==
  /\ h \notin opn
  /\ opn' = opn \cup {h}
  /\ len' = [len EXCEPT ![h] = n]
  /\ rd' = [rd EXCEPT ![h] = 0]
  /\ last' = <<>>

Deliver(h) ==
  /\ h \in opn
  /\ rd[h] < len[h]
  /\ last' = <<h, rd[h]>>
  /\ rd' = [rd EXCEPT ![h] = @ + 1]
  /\ UNCHANGED <<opn, len>>

\* The end; a read the card failed looks like it.
End(h) ==
  /\ h \in opn
  /\ rd[h] = len[h] \/ h \in Faults
  /\ last' = <<h>>
  /\ UNCHANGED <<opn, len, rd>>

\* CLOSE-SOURCE: the rest of the file is passed over.
SkipRest(h) ==
  /\ h \in opn
  /\ rd' = [rd EXCEPT ![h] = len[h]]
  /\ last' = <<>>
  /\ UNCHANGED <<opn, len>>

\* The files in H are closed: at their end, by an error, by QUIT.
Close(H) ==
  /\ opn' = opn \ H
  /\ len' = [h \in Handles |-> IF h \in H THEN 0 ELSE len[h]]
  /\ rd' = [h \in Handles |-> IF h \in H THEN 0 ELSE rd[h]]
  /\ last' = <<>>

Next ==
  \/ \E h \in Handles :
       \/ \E n \in 0..MaxLen : Open(h, n)
       \/ Deliver(h)
       \/ End(h)
       \/ SkipRest(h)
  \/ \E H \in SUBSET Handles : Close(H)

Spec == Init /\ [][Next]_vars
===========================================================================
