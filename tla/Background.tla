------------------------------ MODULE Background ------------------------------
(***************************************************************************)
(* Programs with a Forth interrupt handler behind them: words that any     *)
(* handler interrupts, a ring buffer shared with one, envelopes that one   *)
(* advances.  A behaviour is of one of these programs.                     *)
(***************************************************************************)
EXTENDS Firq, Ring, Envelopes

CONSTANT Programs  \* some of "words", "ring", "voices"

ASSUME BackgroundAssumption == Programs \subseteq {"words", "ring", "voices"}

VARIABLE running  \* the program

all == <<vars, ring, env, running>>

BackgroundInit ==
  /\ running \in Programs
  /\ Init /\ (running # "words" => x = 0)
  /\ RingInit /\ (running # "ring" => producer = "program")
  /\ EnvInit /\ (running # "voices" => \A v \in Voices : port <= v)

Interrupted == running = "words" /\ Next /\ UNCHANGED <<ring, env>>
Shares == running = "ring" /\ RingNext /\ UNCHANGED <<vars, env>>
Plays == running = "voices" /\ Playing /\ UNCHANGED <<vars, ring>>
Ticks == running = "voices" /\ ENV_TICK /\ UNCHANGED <<vars, ring>>

BackgroundNext == (Interrupted \/ Shares \/ Plays \/ Ticks) /\ UNCHANGED running

\* A word that was begun goes on; VSYNC comes with every frame, and an
\* interrupt that a few instructions hold up comes after them.
Fairness == WF_all(envPc # "idle" /\ Plays /\ UNCHANGED running) /\ SF_all(Ticks /\ UNCHANGED running)

BackgroundSpec == BackgroundInit /\ [][BackgroundNext]_all /\ Fairness

\* The stack pointer and the tables of interrupts, counters of rings and
\* bytes of envelopes keep their ranges under every interleaving.
BackgroundTypeOK == TypeOK /\ RingTypeOK /\ EnvTypeOK
=============================================================================
