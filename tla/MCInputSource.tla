-------------------------- MODULE MCInputSource --------------------------
(***************************************************************************)
(* Instances of InputSource for TLC.  The scale keeps the proportions of   *)
(* the code: a region of 8 for 512 bytes, a ceiling of 7 for $1c0 and      *)
(* lines of up to 4 for 255; or half of that, where two lines still fill   *)
(* the region and the second begins below the ceiling.                     *)
(***************************************************************************)
EXTENDS InputSource

MCLineLens == {0, 4}
MCHalfLines == {0, 2}
MCEvalLens == {2}
MCTwoHandles == {1, 2}
MCShortLines == {1}
==========================================================================
