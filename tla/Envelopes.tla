------------------------------ MODULE Envelopes ------------------------------
(***************************************************************************)
(* The envelopes of forth/mod/advsnd.fs: a program starts, releases and    *)
(* stops voices; ENV-TICK, "typically armed on the VSYNC callback", comes  *)
(* between any two of its steps and runs as a whole.                       *)
(***************************************************************************)
EXTENDS Integers

CONSTANTS
  Voices,      \* some of 0..15
  Shapes,      \* the envelopes started: [peak, astep, sus, rstep]
  EnvWindows   \* where else a tick may come, see below

Hold == 255    \* the sustain that lasts

(***************************************************************************)
(* "stage": a voice in release is started without an attack, its volume is *)
(* set and its stage not yet; "volume": its volume has been read and not   *)
(* been written to the PSG; "port": VERA's address port has been set and   *)
(* not been used.                                                          *)
(***************************************************************************)
ASSUME EnvAssumption ==
  /\ Voices \subseteq 0..15
  /\ Shapes \subseteq [peak : 0..63, astep : 0..255, sus : 0..255, rstep : 0..255]
  /\ EnvWindows \subseteq {"stage", "volume", "port"}

VARIABLES
  stg,            \* of each voice 0 idle, 1 attack, 2 sustain, 3 release
  vol, pk,        \* its volume and the peak
  ast, rst,       \* its steps
  sus, sct,       \* its sustain, and what is left of that
  psg,            \* its register: [pan, vol]
  port,           \* VERA's address port: the voice whose register it is at
  envPc, voice,   \* what the program does, to which voice (-1: none)
  shape,          \* the envelope it starts
  got             \* what it has of the register to write

voices == <<stg, vol, pk, ast, rst, sus, sct>>
env == <<voices, psg, port, envPc, voice, shape, got>>

NoShape == [peak |-> 0, astep |-> 0, sus |-> 0, rstep |-> 0]
Silent(v) == [pan |-> v, vol |-> 0]

EnvInit ==
  /\ stg = [v \in Voices |-> 0] /\ vol = stg /\ pk = stg
  /\ ast = stg /\ rst = stg /\ sus = stg /\ sct = stg
  /\ psg = [v \in Voices |-> Silent(v)]
  /\ port \in Voices
  /\ envPc = "idle" /\ voice = -1
  /\ shape = NoShape /\ got = Silent(0)

---------------------------------------------------------------------------
(* The program.                                                            *)

\* The stores of env-start, in their order.
ENV_START ==
  /\ envPc = "idle"
  /\ voice' \in Voices /\ shape' \in Shapes
  /\ envPc' = "rst"
  /\ UNCHANGED <<voices, psg, port, got>>

From(a, b) == envPc = a /\ envPc' = b
Other == <<psg, port, voice, shape, got>>

StartStores ==
  /\ \/ /\ From("rst", "sus") /\ rst' = [rst EXCEPT ![voice] = shape.rstep]
        /\ UNCHANGED <<stg, vol, pk, ast, sus, sct>>
     \/ /\ From("sus", "sct") /\ sus' = [sus EXCEPT ![voice] = shape.sus]
        /\ UNCHANGED <<stg, vol, pk, ast, rst, sct>>
     \/ /\ From("sct", "ast") /\ sct' = [sct EXCEPT ![voice] = shape.sus]
        /\ UNCHANGED <<stg, vol, pk, ast, rst, sus>>
     \/ /\ From("ast", "pk") /\ ast' = [ast EXCEPT ![voice] = shape.astep]
        /\ UNCHANGED <<stg, vol, pk, rst, sus, sct>>
     \/ /\ From("pk", "vol") /\ pk' = [pk EXCEPT ![voice] = shape.peak]
        /\ UNCHANGED <<stg, vol, ast, rst, sus, sct>>
     \/ /\ From("vol", "stg")
        /\ vol' = [vol EXCEPT ![voice] = IF shape.astep = 0 THEN pk[voice] ELSE 0]
        /\ UNCHANGED <<stg, pk, ast, rst, sus, sct>>
     \/ /\ From("stg", "peek")
        /\ stg' = [stg EXCEPT ![voice] = IF shape.astep = 0 THEN 2 ELSE 1]
        /\ UNCHANGED <<vol, pk, ast, rst, sus, sct>>
  /\ UNCHANGED Other

\* The stage is read, then written.
ENV_RELEASE ==
  /\ \/ /\ envPc = "idle" /\ voice' \in Voices /\ stg[voice'] # 0
        /\ envPc' = "release" /\ UNCHANGED voices
     \/ /\ From("release", "idle") /\ voice' = -1
        /\ stg' = [stg EXCEPT ![voice] = 3]
        /\ UNCHANGED <<vol, pk, ast, rst, sus, sct>>
  /\ UNCHANGED <<psg, port, shape, got>>

ENV_STOP ==
  /\ \/ /\ envPc = "idle" /\ voice' \in Voices /\ envPc' = "stop"
        /\ stg' = [stg EXCEPT ![voice'] = 0]
        /\ UNCHANGED <<vol, pk, ast, rst, sus, sct>>
     \/ /\ From("stop", "peek") /\ UNCHANGED voice
        /\ vol' = [vol EXCEPT ![voice] = 0]
        /\ UNCHANGED <<stg, pk, ast, rst, sus, sct>>
  /\ UNCHANGED <<psg, port, shape, got>>

\* (envw): VPEEK and VPOKE set the port and use it.
envw ==
  /\ \/ From("peek", "pan") /\ port' = voice /\ UNCHANGED <<psg, got, voice, shape>>
     \/ /\ From("pan", "mix") /\ got' = [got EXCEPT !.pan = psg[port].pan]
        /\ UNCHANGED <<psg, port, voice, shape>>
     \/ /\ From("mix", "poke") /\ got' = [got EXCEPT !.vol = vol[voice]]
        /\ UNCHANGED <<psg, port, voice, shape>>
     \/ From("poke", "data") /\ port' = voice /\ UNCHANGED <<psg, got, voice, shape>>
     \/ /\ From("data", "idle") /\ psg' = [psg EXCEPT ![port] = got]
        /\ voice' = -1 /\ shape' = NoShape /\ got' = Silent(0)
        /\ UNCHANGED port
  /\ UNCHANGED voices

---------------------------------------------------------------------------
(* ENV-TICK.                                                               *)

Least(a, b) == IF a < b THEN a ELSE b

\* Mutant: the peak ends the attack, but does not clamp it.
BugAttacked(v) ==
  LET up == vol[v] + ast[v]
  IN  IF up >= pk[v] THEN [stg |-> 2, vol |-> up, sct |-> sus[v]]
      ELSE [stg |-> 1, vol |-> up, sct |-> sct[v]]

Attacked(v) ==
  LET up == Least(vol[v] + ast[v], pk[v])
  IN  IF up = pk[v] THEN [stg |-> 2, vol |-> up, sct |-> sus[v]]
      ELSE [stg |-> 1, vol |-> up, sct |-> sct[v]]

\* Mutant: the end of the sustain passes unnoticed.
BugSustained(v) ==
  [stg |-> 2, vol |-> vol[v],
   sct |-> IF sus[v] = Hold \/ sct[v] = 0 THEN sct[v] ELSE sct[v] - 1]

Sustained(v) ==
  [stg |-> IF sus[v] # Hold /\ sct[v] = 0 THEN 3 ELSE 2, vol |-> vol[v],
   sct |-> IF sus[v] = Hold \/ sct[v] = 0 THEN sct[v] ELSE sct[v] - 1]

Released(v) ==
  LET down == IF vol[v] > rst[v] THEN vol[v] - rst[v] ELSE 0
  IN  [stg |-> IF rst[v] # 0 /\ down = 0 THEN 0 ELSE 3, vol |-> down, sct |-> sct[v]]

Ticked(v) ==
  CASE stg[v] = 1 -> Attacked(v)
    [] stg[v] = 2 -> Sustained(v)
    [] stg[v] = 3 /\ rst[v] # 0 -> Released(v)
    [] OTHER -> [stg |-> stg[v], vol |-> vol[v], sct |-> sct[v]]

\* The voices whose register is written, the last of which the port is left at.
Written == {v \in Voices : stg[v] = 1 \/ (stg[v] = 3 /\ rst[v] # 0)}

InEnvWindow(w) ==
  \/ w = "stage" /\ envPc = "stg" /\ shape.astep = 0 /\ stg[voice] = 3
  \/ w = "volume" /\ envPc \in {"poke", "data"}
  \/ w = "port" /\ envPc \in {"pan", "data"}

MayTick == \A w \in {"stage", "volume", "port"} : InEnvWindow(w) => w \in EnvWindows

ENV_TICK ==
  /\ MayTick
  /\ stg' = [v \in Voices |-> Ticked(v).stg]
  /\ vol' = [v \in Voices |-> Ticked(v).vol]
  /\ sct' = [v \in Voices |-> Ticked(v).sct]
  /\ psg' = [v \in Voices |-> IF v \in Written THEN [psg[v] EXCEPT !.vol = vol'[v]] ELSE psg[v]]
  /\ IF Written = {} THEN port' = port
     ELSE port' \in Written /\ \A v \in Written : v <= port'
  /\ UNCHANGED <<pk, ast, rst, sus, envPc, voice, shape, got>>

Playing == ENV_START \/ StartStores \/ ENV_RELEASE \/ ENV_STOP \/ envw

EnvNext == Playing \/ ENV_TICK

---------------------------------------------------------------------------
(* Properties.                                                             *)

EnvTypeOK ==
  /\ stg \in [Voices -> 0..3]
  /\ vol \in [Voices -> 0..63] /\ pk \in [Voices -> 0..63]
  /\ ast \in [Voices -> 0..255] /\ rst \in [Voices -> 0..255]
  /\ sus \in [Voices -> 0..255] /\ sct \in [Voices -> 0..255]
  /\ psg \in [Voices -> [pan : Voices, vol : 0..63]]
  /\ port \in Voices
  /\ envPc \in {"idle", "rst", "sus", "sct", "ast", "pk", "vol", "stg", "release", "stop",
                "peek", "pan", "mix", "poke", "data"}
  /\ voice \in Voices \cup {-1} /\ (envPc = "idle" => voice = -1)
  /\ shape \in Shapes \cup {NoShape} /\ got \in [pan : 0..15, vol : 0..63]

\* What is heard of a voice is its envelope, and the pan it was given, unless
\* the program is at that voice (advsnd.fs:21-64): no more than the peak, the
\* peak in sustain, nothing when idle.  A tick may land between any two stores
\* of ENV-START, of a voice that is silent or sounds.
VoicesRight ==
  \A v \in Voices \ {voice} :
    /\ psg[v] = [pan |-> v, vol |-> vol[v]]
    /\ vol[v] <= pk[v]
    /\ stg[v] = 2 => vol[v] = pk[v]
    /\ stg[v] = 0 => vol[v] = 0

\* A voice with an end to its sustain and to its release falls silent, if it
\* is left alone.
VoicesEnd ==
  \A v \in Voices : (voice # v /\ sus[v] # Hold /\ rst[v] # 0) ~> (voice = v \/ stg[v] = 0)
=============================================================================
