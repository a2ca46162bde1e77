------------------------------ MODULE MCToacme ------------------------------
(* One byte of each kind the converters tell apart.                        *)
EXTENDS Toacme

MCFormats == {"ab3", "f8ab", "vis", "hypra", "giga", "prof", "object"}

\* Hypra-Ass needs two lines for a block; the others fewer bytes.
MCMaxBytes == [fmt \in MCFormats |-> IF fmt \in BasicFormats THEN 20 ELSE 11]

\* Without codes 168..199 for ab3, which ab3_conf takes for no mnemonics, and
\* without Giga-Ass's conditionals, whose brace is closed but never opened.
MCFileBytes ==
  [ab3 |-> {0, 1, 8, 30, 32, 34, 46, 49, 59, 65, 129, 144, 146, 149, 200, 205, 206, 207, 214, 255},
   f8ab |-> {0, 1, 3, 8, 16, 30, 32, 34, 46, 59, 128, 129, 139, 140, 143, 220, 225, 226, 227, 238, 255},
   vis |-> {0, 1, 8, 34, 46, 59, 72, 77, 78, 79, 255},
   hypra |-> {0, 1, 8, 32, 33, 34, 40, 41, 46, 59, 61, 65, 69, 70, 73, 77, 82, 84},
   giga |-> {0, 1, 8, 32, 33, 34, 40, 41, 59, 61, 65, 161, 162, 168, 192},
   prof |-> {0, 1, 3, 5, 7, 8, 32, 43, 129, 171},
   object |-> {0, 1, 32, 96, 169, 255}]
=============================================================================
