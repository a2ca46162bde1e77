--------------------------- MODULE MCReadAhead ---------------------------
(***************************************************************************)
(* Instances of ReadAhead for TLC: fills of 3 bytes stand for 128, so a    *)
(* file of 5 takes two fills and is left with bytes unread at either.      *)
(***************************************************************************)
EXTENDS ReadAhead

MCHandles == {1, 2}
MCFaults == {2}
==========================================================================
