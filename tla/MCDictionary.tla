--------------------------- MODULE MCDictionary ---------------------------
(***************************************************************************)
(* Instances of Dictionary for TLC, with the machine's own numbers: the    *)
(* headers start at $feff and the program begins a few definitions below.  *)
(***************************************************************************)
EXTENDS Dictionary

MCTop == 65536 + 65279

\* Room in bank 1 for one `:` with little before it.  Three pieces bring
\* HERE near LATEST, and the next word a line with less than a page left; a
\* later `:` goes to bank 2, from where an allotment reaches the end of bank 4.
MCStart == MCTop - 1024
MCNames == {1, 31}
MCPieces == {215}
MCAllots == {195000}

MCShort == {3}
MCNone == {}
==========================================================================
