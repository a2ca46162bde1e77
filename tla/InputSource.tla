--------------------------- MODULE InputSource ---------------------------
(***************************************************************************)
(* The input sources of the Forth: the keyboard, nested INCLUDED files and *)
(* EVALUATEd strings, the save stack they are suspended on, the regions of *)
(* the terminal input buffer their lines occupy, the kernel file handles   *)
(* they hold, and the CATCH frames an error unwinds through               *)
(* (asm/io.asm, asm/interpreter.asm, asm/fs.asm, asm/exception.asm).       *)
(*                                                                         *)
(* One line of a source is interpreted word by word.  A word may do        *)
(* anything the actions below offer; what it computes is left out, and so  *)
(* are the characters of a line: a line is its place and its length.       *)
(* TIB addresses are offsets from TIB, and addresses from TibSize on are   *)
(* the program space that follows it ($801).                               *)
(***************************************************************************)
EXTENDS Integers, Sequences, FiniteSets

CONSTANTS
  TibSize,       \* bytes of the TIB region: $600-$7ff
  Ceiling,       \* INCLUDED refuses to load lines from here on: $1c0
  ConsoleLimit,  \* longest keyboard line: $58
  LineLens,      \* lengths of the lines files deliver
  EvalLens,      \* lengths of the strings handed to EVALUATE
  MaxDepth,      \* levels of SAVE_INPUT_STACK: 15
  MaxCatch,      \* bound: CATCH frames of user words at one time
  Handles        \* file handles the kernel hands out

ASSUME InputAssumption ==
  /\ TibSize \in Nat
  /\ Ceiling \in Nat
  /\ Ceiling <= TibSize
  /\ ConsoleLimit \in Nat
  /\ LineLens \subseteq Nat
  /\ EvalLens \subseteq Nat
  /\ MaxDepth \in Nat
  /\ MaxCatch \in Nat
  /\ Handles \subseteq 1..8

VARIABLES
  pc,        \* what the interpreter is doing
  cur,       \* the current source: the globals PUSH_INPUT_SOURCE saves
  save,      \* SAVE_INPUT_STACK, bottom first
  handlers,  \* the chain of CATCH frames HANDLER heads, oldest first
  open,      \* handles open in the kernel
  held,      \* those of them a user program opened with fs-open
  under      \* SAVE_INPUT_STACK_DEPTH has gone below zero

vars == <<pc, cur, save, handlers, open, held, under>>

Console == 0
Eval == -1

Sources == [in : Nat, id : {Console, Eval} \cup Handles, ptr : Nat, size : Nat,
            eptr : Nat, esize : Nat, top : Nat]

(***************************************************************************)
(* A CATCH frame: CATCH called by interpret_and_close ("source") or by a   *)
(* word ("catch").  level and at are what was current when CATCH ran; the  *)
(* code does not keep them, properties compare with them.                  *)
(***************************************************************************)
Frames == [kind : {"source", "catch"}, level : Nat, at : Sources]

Frame(kind, level, at) == [kind |-> kind, level |-> level, at |-> at]

TopKind == IF handlers = <<>> THEN "none" ELSE handlers[Len(handlers)].kind

PopSeq(s) == SubSeq(s, 1, Len(s) - 1)

UserCatches == {k \in DOMAIN handlers : handlers[k].kind = "catch"}

\* The globals as quit_reset leaves them; the EVALUATE pointers keep what
\* they held, which no source 0 reads.
Reset(c) == [c EXCEPT !.in = 0, !.id = Console, !.ptr = 0, !.size = 0, !.top = 0]

BootSource == [in |-> 0, id |-> Console, ptr |-> 0, size |-> 0,
               eptr |-> 0, esize |-> 0, top |-> 0]

\* COLD has run quit_reset and is about to INCLUDE "base": nothing catches.
Init ==
  /\ pc = "boot"
  /\ cur = BootSource
  /\ save = <<>>
  /\ handlers = <<>>
  /\ open = {}
  /\ held = {}
  /\ under = FALSE

---------------------------------------------------------------------------
(* QUIT: quit_reset, an empty return stack, and the keyboard interpreter.  *)

\* Mutant: the save stack's depth is not reset.
BugQuitKeepsDepth ==
  /\ pc = "quit"
  /\ cur' = Reset(cur)
  /\ save' = save
  /\ under' = under
  /\ open' = open \ (1..8)
  /\ held' = {}
  /\ handlers' = <<Frame("source", 0, Reset(cur))>>
  /\ pc' = "refill"

QUIT ==
  /\ pc = "quit"
  /\ cur' = Reset(cur)
  /\ save' = <<>>
  /\ under' = FALSE
  /\ open' = open \ (1..8)
  /\ held' = {}
  /\ handlers' = <<Frame("source", 0, Reset(cur))>>
  /\ pc' = "refill"

---------------------------------------------------------------------------
(* REFILL, by interpret_loop (pc = "refill") or as a word (pc =            *)
(* "interpret", which `(` uses to go on over several lines).               *)

Refilling == pc \in {"refill", "interpret"}

\* The console path stores the line at TIB, wherever TIB_PTR points.
RefillConsole(n) ==
  /\ Refilling
  /\ cur.id = Console
  /\ cur' = [cur EXCEPT !.in = 0, !.size = n, !.top = cur.ptr + n]
  /\ pc' = "interpret"
  /\ UNCHANGED <<save, handlers, open, held, under>>

RefillFile(n) ==
  /\ Refilling
  /\ cur.id > 0
  /\ cur' = [cur EXCEPT !.in = 0, !.size = n, !.top = cur.ptr + n]
  /\ pc' = "interpret"
  /\ UNCHANGED <<save, handlers, open, held, under>>

\* Mutant: a CR is consumed at the end of the string too.
BugRefillEval(n) ==
  /\ Refilling
  /\ cur.id = Eval
  /\ cur.esize > 0
  /\ n <= cur.esize
  /\ cur' = [cur EXCEPT !.in = 0, !.ptr = cur.eptr, !.size = n,
                        !.eptr = cur.eptr + n + 1, !.esize = cur.esize - (n + 1)]
  /\ pc' = "interpret"
  /\ UNCHANGED <<save, handlers, open, held, under>>

\* n characters up to a CR, which is consumed, or up to the string's end.
RefillEval(n) ==
  /\ Refilling
  /\ cur.id = Eval
  /\ cur.esize > 0
  /\ n <= cur.esize
  /\ LET used == IF n = cur.esize THEN n ELSE n + 1
     IN  cur' = [cur EXCEPT !.in = 0, !.ptr = cur.eptr, !.size = n,
                            !.eptr = cur.eptr + used, !.esize = cur.esize - used]
  /\ pc' = "interpret"
  /\ UNCHANGED <<save, handlers, open, held, under>>

\* End of the file or of the string; the keyboard never ends.
Exhausted == cur.id > 0 \/ (cur.id = Eval /\ cur.esize = 0)

\* The word REFILL returns false to the word that called it.
RefillFails ==
  /\ pc = "interpret"
  /\ Exhausted
  /\ cur' = [cur EXCEPT !.in = 0, !.size = 0]
  /\ UNCHANGED <<pc, save, handlers, open, held, under>>
---------------------------------------------------------------------------
(* Leaving a source: CLOSE_INPUT_SOURCE and its POP_INPUT_SOURCE.          *)

\* With nothing saved, POP reads past SAVE_INPUT_STACK: any words come back.
PopInputSource ==
  IF save # <<>>
  THEN /\ cur' = save[Len(save)]
       /\ save' = PopSeq(save)
       /\ under' = under
  ELSE /\ \E i \in {Console, Eval} \cup Handles :
             cur' = [cur EXCEPT !.id = i, !.ptr = TibSize]
       /\ save' = save
       /\ under' = TRUE

\* Mutant: the handle is read after the parent's state is back.
BugCloseAfterPop ==
  /\ PopInputSource
  /\ open' = IF cur'.id > 0 THEN open \ {cur'.id} ELSE open

CLOSE_INPUT_SOURCE ==
  /\ open' = IF cur.id > 0 THEN open \ {cur.id} ELSE open
  /\ PopInputSource

\* REFILL said no: CATCH returns 0, the source is closed, 0 THROW does
\* nothing and INCLUDED or EVALUATE returns to the word that called it.
\* Whatever called INCLUDED with no CATCH frame below is the boot: QUIT.
SourceEnds ==
  /\ pc = "refill"
  /\ Exhausted
  /\ TopKind = "source"
  /\ handlers' = PopSeq(handlers)
  /\ CLOSE_INPUT_SOURCE
  /\ pc' = IF Len(handlers) = 1 THEN "quit" ELSE "interpret"
  /\ UNCHANGED held

---------------------------------------------------------------------------
(* INCLUDED and EVALUATE suspend the current source.                       *)

Interpreting == pc \in {"interpret", "boot"}

\* push_input_stack throws -8 before it stores anything.
StackFull ==
  /\ Interpreting
  /\ Len(save) = MaxDepth
  /\ pc' = "unwind"
  /\ UNCHANGED <<cur, save, handlers, open, held, under>>

\* No room for another line, or FS_OPEN refused: PUSH is undone, then THROW.
IncludeRefused ==
  /\ Interpreting
  /\ Len(save) < MaxDepth
  /\ pc' = "unwind"
  /\ UNCHANGED <<cur, save, handlers, open, held, under>>

\* Mutant: the slot is derived from TIB_PTR, which under EVALUATE points
\* into the string; out of the TIB it starts over at the base.
BugIncludedAtTibPtr(h) ==
  /\ Interpreting
  /\ Len(save) < MaxDepth
  /\ h \notin open
  /\ save' = Append(save, cur)
  /\ cur' = [cur EXCEPT !.ptr = IF cur.ptr < TibSize THEN cur.ptr + cur.size ELSE 0,
                        !.id = h]
  /\ open' = open \cup {h}
  /\ handlers' = Append(handlers, Frame("source", Len(save) + 1, cur))
  /\ pc' = "refill"
  /\ UNCHANGED <<held, under>>

INCLUDED(h) ==
  /\ Interpreting
  /\ Len(save) < MaxDepth
  /\ cur.top < Ceiling
  /\ h \notin open
  /\ save' = Append(save, cur)
  /\ cur' = [cur EXCEPT !.ptr = cur.top, !.id = h]
  /\ open' = open \cup {h}
  /\ handlers' = Append(handlers, Frame("source", Len(save) + 1, cur))
  /\ pc' = "refill"
  /\ UNCHANGED <<held, under>>

\* The string lies in a line that is still live, below TIB_TOP, or out of
\* the TIB altogether: a parsed S" or text in the dictionary.
EVALUATE(p, n) ==
  /\ pc = "interpret"
  /\ Len(save) < MaxDepth
  /\ p + n <= cur.top \/ p >= TibSize
  /\ save' = Append(save, cur)
  /\ cur' = [cur EXCEPT !.eptr = p, !.esize = n, !.id = Eval]
  /\ handlers' = Append(handlers, Frame("source", Len(save) + 1, cur))
  /\ pc' = "refill"
  /\ UNCHANGED <<open, held, under>>

---------------------------------------------------------------------------
(* The interpreter loop and the words it runs.                             *)

\* PARSE_NAME, or a parsing word, takes part of the line.
ParseWord ==
  /\ pc = "interpret"
  /\ \E i \in (cur.in + 1)..cur.size : cur' = [cur EXCEPT !.in = i]
  /\ UNCHANGED <<pc, save, handlers, open, held, under>>

\* interpret_tib is through with the line.  A word still running inside a
\* CATCH of its own has not come back to it yet.
LineDone ==
  /\ pc = "interpret"
  /\ TopKind = "source"
  /\ cur.in = cur.size
  /\ pc' = "refill"
  /\ UNCHANGED <<cur, save, handlers, open, held, under>>

FsOpen(h) ==
  /\ pc = "interpret"
  /\ h \notin open
  /\ open' = open \cup {h}
  /\ held' = held \cup {h}
  /\ UNCHANGED <<pc, cur, save, handlers, under>>

FsClose(h) ==
  /\ pc = "interpret"
  /\ h \in held
  /\ open' = open \ {h}
  /\ held' = held \ {h}
  /\ UNCHANGED <<pc, cur, save, handlers, under>>

CATCH ==
  /\ pc = "interpret"
  /\ Cardinality(UserCatches) < MaxCatch
  /\ handlers' = Append(handlers, Frame("catch", Len(save), cur))
  /\ UNCHANGED <<pc, cur, save, open, held, under>>

\* The caught word returned: the previous handler is current again.
CatchReturns ==
  /\ pc = "interpret"
  /\ TopKind = "catch"
  /\ handlers' = PopSeq(handlers)
  /\ UNCHANGED <<pc, cur, save, open, held, under>>

\* The word QUIT, from anywhere.
QuitWord ==
  /\ pc = "interpret"
  /\ pc' = "quit"
  /\ UNCHANGED <<cur, save, handlers, open, held, under>>

---------------------------------------------------------------------------
(* THROW with a code other than 0: by a word, by the checks of             *)
(* interpret_tib, by an undefined name, or by a break that lands while a   *)
(* word runs or a line is read.                                            *)

Throw ==
  /\ pc \in {"interpret", "refill"}
  /\ pc' = "unwind"
  /\ UNCHANGED <<cur, save, handlers, open, held, under>>

\* Mutant: an error leaves the source current.
BugUnwindKeepsSource ==
  /\ pc = "unwind"
  /\ TopKind = "source"
  /\ handlers' = PopSeq(handlers)
  /\ UNCHANGED <<pc, cur, save, open, held, under>>

\* Mutant: THROW does not make the previous handler current.
BugUnwindKeepsHandler ==
  /\ pc = "unwind"
  /\ TopKind = "source"
  /\ handlers' = handlers
  /\ CLOSE_INPUT_SOURCE
  /\ UNCHANGED <<pc, held>>

\* The frame of interpret_and_close: it closes its source and rethrows.
UnwindSource ==
  /\ pc = "unwind"
  /\ TopKind = "source"
  /\ handlers' = PopSeq(handlers)
  /\ CLOSE_INPUT_SOURCE
  /\ UNCHANGED <<pc, held>>

\* The frame of a word's CATCH: the code goes to that word.
UnwindCatch ==
  /\ pc = "unwind"
  /\ TopKind = "catch"
  /\ handlers' = PopSeq(handlers)
  /\ pc' = "interpret"
  /\ UNCHANGED <<cur, save, open, held, under>>

\* No handler left: the error is printed and QUIT takes over.
Uncaught ==
  /\ pc = "unwind"
  /\ TopKind = "none"
  /\ pc' = "quit"
  /\ UNCHANGED <<cur, save, handlers, open, held, under>>

---------------------------------------------------------------------------

Refill ==
  \/ \E n \in 0..ConsoleLimit : RefillConsole(n)
  \/ \E n \in LineLens : RefillFile(n)
  \/ \E n \in 0..cur.esize : RefillEval(n)
  \/ RefillFails

Nest ==
  \/ StackFull
  \/ IncludeRefused
  \/ \E h \in Handles : INCLUDED(h)
  \/ \E p \in 0..TibSize, n \in EvalLens : EVALUATE(p, n)

RunWord ==
  \/ ParseWord
  \/ LineDone
  \/ \E h \in Handles : FsOpen(h) \/ FsClose(h)
  \/ CATCH
  \/ CatchReturns
  \/ QuitWord
  \/ Throw

Unwind == UnwindSource \/ UnwindCatch \/ Uncaught

Next == QUIT \/ Refill \/ SourceEnds \/ Nest \/ RunWord \/ Unwind

Spec == Init /\ [][Next]_vars

(***************************************************************************)
(* One processor runs this code and never stops: an error that has begun  *)
(* to unwind goes on, and so does QUIT.                                    *)
(***************************************************************************)
FairSpec == Spec /\ WF_vars(Unwind) /\ WF_vars(QUIT)

---------------------------------------------------------------------------
(* Properties.                                                             *)

TypeOK ==
  /\ pc \in {"boot", "quit", "refill", "interpret", "unwind"}
  /\ cur \in Sources
  /\ save \in Seq(Sources)
  /\ Len(save) <= MaxDepth
  /\ handlers \in Seq(Frames)
  /\ open \subseteq Handles
  /\ held \subseteq Handles
  /\ under \in BOOLEAN

\* The suspended sources, oldest first, and above them the current one.
Level(i) == IF i <= Len(save) THEN save[i] ELSE cur

Levels == 1..(Len(save) + 1)

(***************************************************************************)
(* A file's lines are loaded above every line a suspended source still     *)
(* owns: the rest of a half interpreted line, and of a half interpreted    *)
(* EVALUATE string that lies in the TIB, cannot be overwritten by the      *)
(* file it includes (asm/fs.asm:301-310, asm/io.asm:278-284).              *)
(***************************************************************************)
LiveLinesDisjoint ==
  \A j \in Levels : Level(j).id > 0 =>
    \A i \in 1..(j - 1) :
      /\ Level(i).ptr < TibSize => Level(i).ptr + Level(i).size <= Level(j).ptr
      /\ (Level(i).id = Eval /\ Level(i).eptr < TibSize)
           => Level(i).eptr + Level(i).esize <= Level(j).ptr

(***************************************************************************)
(* Whatever errors were thrown and caught, the handles open in the kernel  *)
(* are those of the active file sources, one each, and those a program     *)
(* opened itself: nothing leaks and nothing is closed under its reader.    *)
(***************************************************************************)
HandlesBalance ==
  ~under =>
    LET files == {i \in Levels : Level(i).id > 0}
    IN  /\ open = held \cup {Level(i).id : i \in files}
        /\ \A i \in files : Level(i).id \notin held
        /\ \A i, j \in files : Level(i).id = Level(j).id => i = j

(***************************************************************************)
(* pop_input_stack has no underflow check.  The outermost source's close   *)
(* does underflow it; nothing catches that error any more, and QUIT is all *)
(* that can follow (asm/io.asm:346-352, asm/interpreter.asm:161-173).      *)
(***************************************************************************)
UnderflowMeansQuit ==
  under => handlers = <<>> /\ save = <<>> /\ pc \in {"unwind", "quit"}

(***************************************************************************)
(* Whatever is left comes back as it was.  A word's CATCH gets the input   *)
(* source it was called in, however many sources were opened below it and  *)
(* however it ended; the end of a source, normal or by an error, gives its *)
(* parent back as INCLUDED or EVALUATE found it: line, offset, TIB space.  *)
(***************************************************************************)
SourceComesBack ==
  [][ pc # "quit" /\ Len(handlers') < Len(handlers)
      => LET f == handlers[Len(handlers)]
         IN  /\ TopKind = "catch" =>
                  /\ Len(save') = f.level
                  /\ cur'.id = f.at.id
                  /\ cur'.id # Eval => cur'.ptr = f.at.ptr
             /\ TopKind = "source" /\ save # <<>> =>
                  /\ Len(save') = f.level - 1
                  /\ cur' = f.at ]_vars

(***************************************************************************)
(* An error always ends at a program's CATCH or at a fresh prompt: the     *)
(* level by level rethrow cannot go round.                                 *)
(***************************************************************************)
UnwindEnds == pc = "unwind" ~> pc \in {"refill", "interpret"}

(***************************************************************************)
(* "Overflow is loud: past this ceiling a 255-byte line could leave the    *)
(* region" (asm/fs.asm:307-308): below it no line leaves the TIB region.   *)
(***************************************************************************)
LinesStayInTib ==
  pc = "interpret" =>
    \A i \in Levels : Level(i).id > 0 => Level(i).ptr + Level(i).size <= TibSize

---------------------------------------------------------------------------
(* What the safety invariants rest on: each is inductive with TypeOK.      *)

(***************************************************************************)
(* The chain of CATCH frames mirrors the save stack: a source's frame is   *)
(* one level above the frame below it, a word's CATCH on the same level,   *)
(* and the newest frame is on the level of the current source.             *)
(***************************************************************************)
FramesMatchLevels ==
  /\ pc = "boot" => handlers = <<>> /\ save = <<>> /\ cur.id = Console
  /\ pc \in {"interpret", "refill"} => handlers # <<>>
  /\ pc = "refill" => TopKind = "source"
  /\ handlers # <<>> => /\ handlers[1].kind = "source"
                        /\ handlers[Len(handlers)].level = Len(save)
  /\ \A k \in 2..Len(handlers) :
       handlers[k - 1].level = IF handlers[k].kind = "source"
                               THEN handlers[k].level - 1
                               ELSE handlers[k].level
  /\ UnderflowMeansQuit

\* The line of s, and what is left of its string, end below its TIB_TOP, or
\* are not in the TIB.
Below(s) ==
  /\ s.ptr + s.size <= s.top \/ (s.id = Eval /\ s.ptr >= TibSize)
  /\ s.id = Eval => s.eptr + s.esize <= s.top \/ s.eptr >= TibSize

\* t, nested somewhere in s, leaves everything below the TIB_TOP of s alone.
Above(s, t) ==
  /\ t.id # Console
  /\ s.top <= t.top
  /\ t.id > 0 => s.top <= t.ptr

\* INCLUDED leaves the parent's TIB_SIZE behind with the new TIB_PTR, but
\* nothing is interpreted until REFILL replaces it or the source is closed.
LineSettled ==
  \/ pc = "interpret"
  \/ pc \in {"boot", "refill"} /\ cur.id <= 0
  \/ pc = "unwind" /\ TopKind = "catch"

TibStacked ==
  /\ \A i \in 1..Len(save) : Below(save[i]) /\ Above(save[i], cur)
  /\ \A j \in 1..Len(save) : \A i \in 1..(j - 1) : Above(save[i], save[j])
  /\ LineSettled => Below(cur)

==========================================================================
