------------------------------- MODULE MCFirq -------------------------------
(***************************************************************************)
(* Instances of Background for TLC: where interrupts land, a ring of four  *)
(* bytes whose counters wrap around after eight, two voices.               *)
(***************************************************************************)
EXTENDS Background

MCSlots == {0, 1}
Elsewhere == {}
InPopped == {"popped"}

AllPrograms == {"words", "ring", "voices"}
OnlyWords == {"words"}

\* An attack of two ticks and an end; a jump to the peak that holds until
\* ENV-RELEASE; one that is released at once and holds until ENV-STOP.
MCShapes ==
  {[peak |-> 2, astep |-> 1, sus |-> 1, rstep |-> 1],
   [peak |-> 1, astep |-> 0, sus |-> 255, rstep |-> 1],
   [peak |-> 2, astep |-> 0, sus |-> 0, rstep |-> 0]}
============================================================================
