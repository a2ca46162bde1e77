------------------------------ MODULE MCBreak ------------------------------
(***************************************************************************)
(* Instances of Break for TLC: the places besides the ordinary ones where  *)
(* the break key is pressed.                                               *)
(***************************************************************************)
EXTENDS Break

InHandler == {"handler"}
===========================================================================
