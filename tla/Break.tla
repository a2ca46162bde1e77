------------------------------- MODULE Break -------------------------------
(***************************************************************************)
(* The break key and what it unwinds: CATCH and THROW on the CPU stack,    *)
(* QUIT, the key that REFILL waits for at the prompt and the one KEY waits *)
(* for, the BRK and NMI handlers (asm/exception.asm, asm/interpreter.asm,  *)
(* asm/io.asm, asm/x816.asm).                                              *)
(*                                                                         *)
(* An NMI is asynchronous: it is taken between any two steps of the        *)
(* program, of the kernel and of an interrupt handler.  The steps of CATCH *)
(* and THROW are those at which the return stack or HANDLER changes.       *)
(* Stack positions count cells; a position above sp holds what was popped  *)
(* until something is pushed there, and an interrupt pushes its frame.     *)
(***************************************************************************)
EXTENDS Integers, Sequences, SequencesExt

CONSTANTS
  MaxCatch,    \* bound: CATCHes inside one another
  MaxDepth,    \* bound: cells on the data stack
  MaxPresses,  \* bound: presses of the break key
  Windows      \* where else the key may be pressed, see below

(***************************************************************************)
(* "unlinked": between the R> that takes the previous handler off the      *)
(* return stack and the ! that stores it, in CATCH and in THROW;           *)
(* "wait": in kern_getc around the kernel's poll, or in a handler then;    *)
(* "handler": in a Forth word run from an interrupt.                       *)
(***************************************************************************)
AllWindows == {"unlinked", "wait", "handler"}

ASSUME BreakAssumption ==
  /\ MaxCatch \in Nat \ {0}
  /\ MaxDepth \in Nat
  /\ MaxPresses \in Nat
  /\ Windows \subseteq AllWindows

VARIABLES
  pc,       \* what the program is doing
  mem,      \* the cells of the return stack that CATCH owns
  sp,       \* the CPU stack pointer
  handler,  \* _EXCEPTION_HANDLER
  held,     \* the previous handler, between R> and !
  depth,    \* cells on the data stack: X
  code,     \* the exception under way, and its origin
  pending,  \* nmi_pending
  fromKey,  \* brk_from_key
  cursor,   \* the console cursor is armed
  inirq,    \* an interrupt handler is running
  presses,  \* history: presses of the key
  aborts,   \* history: aborts they led to
  said,     \* history: the last exception reported, and the word printed for it
  catches   \* history: the CATCHes in progress, as [at, depth]

program == <<mem, sp, handler, held, depth, code, catches>>
flags == <<pending, fromKey, cursor, inirq>>
history == <<presses, aborts, said>>
vars == <<pc, program, flags, history>>

MaxSp == 2 * MaxCatch + 2

Junk == <<"junk", 0>>
Lost == -1          \* what a junk cell means as a handler

None == <<"none", "none">>
Codes == {None} \cup ({"-28", "other"} \X {"key", "opcode", "program"})

Init ==
  /\ pc = "quit"
  /\ mem = [i \in 1..MaxSp |-> Junk]
  /\ sp = 0
  /\ handler = 0
  /\ held = 0
  /\ depth = 0
  /\ code = None
  /\ pending = FALSE
  /\ fromKey = FALSE
  /\ cursor = FALSE
  /\ inirq = FALSE
  /\ presses = 0
  /\ aborts = 0
  /\ said = None
  /\ catches = <<>>

Push(c) == mem' = [mem EXCEPT ![sp + 1] = c] /\ sp' = sp + 1

\* What is popped does not outlive the next call or interrupt.
Popped == mem' = [mem EXCEPT ![sp] = Junk] /\ sp' = sp - 1

---------------------------------------------------------------------------
(* CATCH: >R the data stack pointer, >R the previous handler, and the      *)
(* stack pointer is the new one.                                           *)

CatchSavesX ==
  /\ pc \in {"quit", "run"} /\ Len(catches) < MaxCatch
  /\ Push(<<"x", depth>>)
  /\ pc' = "savedX"
  /\ UNCHANGED <<handler, held, depth, code, catches, flags, history>>

CatchSavesHandler ==
  /\ pc = "savedX"
  /\ Push(<<"prev", handler>>)
  /\ pc' = "savedPrev"
  /\ UNCHANGED <<handler, held, depth, code, catches, flags, history>>

CatchSetsHandler ==
  /\ pc = "savedPrev"
  /\ handler' = sp
  /\ catches' = Append(catches, [at |-> sp, depth |-> depth])
  /\ pc' = "run"
  /\ UNCHANGED <<mem, sp, held, depth, code, flags, history>>

\* The word returns to CATCH.  QUIT's own never does: interpret_loop runs
\* until something is thrown.
CatchReturns ==
  /\ pc = "run" /\ Len(catches) > 1
  /\ held' = mem[sp][2]
  /\ Popped
  /\ pc' = "returned"
  /\ UNCHANGED <<handler, depth, code, catches, flags, history>>

\* Mutant: the previous handler is thrown away.
BugCatchRestores ==
  /\ pc = "returned"
  /\ catches' = Front(catches)
  /\ pc' = "restored"
  /\ UNCHANGED <<mem, sp, handler, held, depth, code, flags, history>>

CatchRestores ==
  /\ pc = "returned"
  /\ handler' = held
  /\ catches' = Front(catches)
  /\ pc' = "restored"
  /\ UNCHANGED <<mem, sp, held, depth, code, flags, history>>

CatchEnds ==
  /\ pc = "restored"
  /\ Popped
  /\ pc' = "run"
  /\ UNCHANGED <<handler, held, depth, code, catches, flags, history>>

(* THROW: back to the frame the handler points to.                         *)

\* The first steps, for a code c thrown with x cells on the data stack.
Unwind(c, x) ==
  /\ code' = c
  /\ depth' = x
  /\ IF handler = 0
     THEN pc' = "uncaught" /\ UNCHANGED sp
     ELSE pc' = "unwound" /\ sp' = handler
  /\ UNCHANGED <<handler, held, catches>>

THROW(n) ==
  /\ pc = "run"
  /\ Unwind(<<n, "program">>, depth)
  /\ UNCHANGED <<mem, flags, history>>

ThrowTakesHandler ==
  /\ pc = "unwound"
  /\ held' = IF mem[sp][1] = "prev" THEN mem[sp][2] ELSE Lost
  /\ Popped
  /\ pc' = "taken"
  /\ UNCHANGED <<handler, depth, code, catches, flags, history>>

ThrowRestores ==
  /\ pc = "taken"
  /\ handler' = held
  /\ catches' = Front(catches)
  /\ pc' = "linked"
  /\ UNCHANGED <<mem, sp, held, depth, code, flags, history>>

ThrowArrives ==
  /\ pc = "linked"
  /\ depth' = mem[sp][2]
  /\ Popped
  /\ pc' = "received"
  /\ UNCHANGED <<handler, held, code, catches, flags, history>>

\* CATCH has returned a code: the program goes on, or throws it again, as
\* INCLUDED does, and as QUIT's interpret_and_close must.
Recover ==
  /\ pc = "received" /\ catches # <<>>
  /\ pc' = "run"
  /\ code' = None
  /\ UNCHANGED <<mem, sp, handler, held, depth, catches, flags, history>>

Rethrow ==
  /\ pc = "received"
  /\ Unwind(code, depth)
  /\ UNCHANGED <<mem, flags, history>>

(* No handler: the report, and QUIT.                                       *)

Word == IF code[1] # "-28" THEN "other" ELSE IF fromKey THEN "break" ELSE "brk"

Report ==
  /\ pc = "uncaught"
  /\ said' = <<Word, code[2]>>
  /\ pc' = "printing"
  /\ UNCHANGED <<program, flags, presses, aborts>>

\* Mutant: the CPU stack is not emptied.
BugQUIT ==
  /\ pc = "printing"
  /\ handler' = 0
  /\ fromKey' = FALSE
  /\ depth' = 0
  /\ code' = None
  /\ catches' = <<>>
  /\ pc' = "quit"
  /\ UNCHANGED <<mem, sp, held, pending, cursor, inirq, history>>

\* quit_reset, then the return stack is emptied.
QUIT ==
  /\ pc = "printing"
  /\ handler' = 0
  /\ fromKey' = FALSE
  /\ sp' = 0
  /\ depth' = 0
  /\ code' = None
  /\ catches' = <<>>
  /\ pc' = "quit"
  /\ UNCHANGED <<mem, held, pending, cursor, inirq, history>>

(* Words that push and drop, and calls of the kernel.                      *)

Compute ==
  /\ pc = "run"
  /\ \E d \in {depth - 1, depth + 1} \cap (0..MaxDepth) : depth' = d
  /\ UNCHANGED <<pc, mem, sp, handler, held, code, catches, flags, history>>

CallKernel ==
  /\ pc = "run"
  /\ pc' = "kernel"
  /\ UNCHANGED <<program, flags, history>>

KernelReturns ==
  /\ pc = "kernel"
  /\ pc' = "run"
  /\ UNCHANGED <<program, flags, history>>

(* The console's REFILL: kern_getc for each key of the line.               *)

kern_getc ==
  /\ pc = "run"
  /\ cursor' = TRUE
  /\ pc' = "poll"
  /\ UNCHANGED <<program, pending, fromKey, inirq, history>>

\* Mutant: the parked request is not consumed.
BugPollAborts ==
  /\ pc = "poll" /\ pending
  /\ fromKey' = TRUE
  /\ pc' = "broken"
  /\ UNCHANGED <<program, pending, cursor, inirq, history>>

PollAborts ==
  /\ pc = "poll" /\ pending
  /\ pending' = FALSE
  /\ fromKey' = TRUE
  /\ pc' = "broken"
  /\ UNCHANGED <<program, cursor, inirq, history>>

BrokenKey ==
  /\ pc = "broken"
  /\ cursor' = FALSE
  /\ aborts' = aborts + 1
  /\ Unwind(<<"-28", "key">>, depth)
  /\ UNCHANGED <<mem, pending, fromKey, inirq, presses, said>>

\* Mutant: only an empty keyboard is looked at.
BugPoll ==
  /\ pc = "poll"
  /\ pc' = "getkey"
  /\ UNCHANGED <<program, flags, history>>

Poll ==
  /\ pc = "poll" /\ ~pending
  /\ pc' = "getkey"
  /\ UNCHANGED <<program, flags, history>>

\* No key, or one without a character.
NoKey ==
  /\ pc = "getkey"
  /\ pc' = "poll"
  /\ UNCHANGED <<program, flags, history>>

KeyTaken ==
  /\ pc = "getkey"
  /\ cursor' = FALSE
  /\ pc' = "run"
  /\ UNCHANGED <<program, pending, fromKey, inirq, history>>

(* The words KEY and KEY?: kern_getin asks the kernel's keyboard, without  *)
(* a cursor and without a look at nmi_pending; only KEY asks again.        *)

KEY ==
  /\ pc = "run"
  /\ pc' = "key"
  /\ UNCHANGED <<program, flags, history>>

kern_getin ==
  /\ pc = "key"
  /\ pc' = "getin"
  /\ UNCHANGED <<program, flags, history>>

GetinReturns ==
  /\ pc = "getin"
  /\ pc' \in {"key", "run"}
  /\ UNCHANGED <<program, flags, history>>

(* brk_abort, from a BRK opcode or from an NMI.                            *)

\* Mutant: the depth is taken from the empty stack.
BugSavedDepth == 0

\* `lda 5, s` with S at the handler: the cell under the previous handler.
SavedDepth == IF handler > 0 THEN mem[handler - 1][2] ELSE 0

BrkAbort(origin) == Unwind(<<"-28", origin>>, SavedDepth) /\ pending' = FALSE

\* Mutant: the flag keeps what the last key press left in it.
BugBRK ==
  /\ pc = "run"
  /\ BrkAbort("opcode")
  /\ UNCHANGED <<mem, fromKey, cursor, inirq, history>>

BRK ==
  /\ pc = "run"
  /\ fromKey' = FALSE
  /\ BrkAbort("opcode")
  /\ UNCHANGED <<mem, cursor, inirq, history>>

\* An interrupt frame is several cells above sp.
Framed == [i \in 1..MaxSp |-> IF i > sp THEN Junk ELSE mem[i]]

InKernel == pc \in {"kernel", "getkey", "getin", "printing"}
InWindow(w) ==
  \/ w = "unlinked" /\ pc \in {"returned", "taken"}
  \/ w = "wait" /\ pc \in {"poll", "getkey", "broken"}

\* The interrupted bank is one of 1 to 4.
InForth == inirq \/ ~InKernel

MayLand ==
  /\ inirq => "handler" \in Windows
  /\ \A w \in {"unlinked", "wait"} : InWindow(w) => w \in Windows

NmiAborts ==
  /\ presses < MaxPresses /\ InForth /\ MayLand
  /\ presses' = presses + 1
  /\ aborts' = aborts + 1
  /\ mem' = Framed
  /\ fromKey' = TRUE
  /\ inirq' = FALSE
  /\ BrkAbort("key")
  /\ UNCHANGED <<cursor, said>>

NmiParks ==
  /\ presses < MaxPresses /\ ~InForth
  /\ presses' = presses + 1
  /\ pending' = TRUE
  /\ UNCHANGED <<pc, program, fromKey, cursor, inirq, aborts, said>>

(* A Forth word behind an interrupt: it runs where it landed.              *)

IrqEnters ==
  /\ ~inirq
  /\ inirq' = TRUE
  /\ mem' = Framed
  /\ UNCHANGED <<pc, sp, handler, held, depth, code, catches, pending, fromKey, cursor, history>>

IrqLeaves ==
  /\ inirq
  /\ inirq' = FALSE
  /\ UNCHANGED <<pc, program, pending, fromKey, cursor, history>>

---------------------------------------------------------------------------

Catch ==
  CatchSavesX \/ CatchSavesHandler \/ CatchSetsHandler \/ CatchReturns \/ CatchRestores \/ CatchEnds

Throw ==
  \/ \E n \in {"-28", "other"} : THROW(n)
  \/ ThrowTakesHandler \/ ThrowRestores \/ ThrowArrives
  \/ Recover \/ Rethrow \/ Report \/ QUIT

Prompt == kern_getc \/ PollAborts \/ BrokenKey \/ Poll \/ NoKey \/ KeyTaken

Keyboard == KEY \/ kern_getin \/ GetinReturns

Program == ~inirq /\ (Catch \/ Throw \/ Prompt \/ Keyboard \/ BRK \/ Compute \/ CallKernel \/ KernelReturns)

Next == Program \/ NmiAborts \/ NmiParks \/ IrqEnters \/ IrqLeaves

(***************************************************************************)
(* The processor does not stop, interrupt handlers are short and there is  *)
(* time between two interrupts.  Nothing obliges the key to be pressed.    *)
(***************************************************************************)
Spec == Init /\ [][Next]_vars /\ SF_vars(Program) /\ WF_vars(IrqLeaves)

---------------------------------------------------------------------------
(* Properties.                                                             *)

Places == {"quit", "savedX", "savedPrev", "run", "returned", "restored", "unwound", "taken",
           "linked", "received", "uncaught", "printing", "kernel", "poll", "broken", "getkey",
           "key", "getin"}

Cells == {Junk} \cup ({"x"} \X (0..MaxDepth)) \cup ({"prev"} \X (-1..MaxSp))

TypeOK ==
  /\ pc \in Places
  /\ mem \in [1..MaxSp -> Cells]
  /\ sp \in 0..MaxSp
  /\ handler \in -1..MaxSp /\ held \in -1..MaxSp
  /\ depth \in 0..MaxDepth
  /\ code \in Codes
  /\ pending \in BOOLEAN /\ fromKey \in BOOLEAN /\ cursor \in BOOLEAN /\ inirq \in BOOLEAN
  /\ presses \in 0..MaxPresses /\ aborts \in Nat
  /\ said \in {None} \cup ({"break", "brk", "other"} \X {"key", "opcode", "program"})
  /\ catches \in Seq([at : 1..MaxSp, depth : 0..MaxDepth])

\* Where the chain of handlers is between two links.
Linked == pc \notin {"returned", "taken"}

(***************************************************************************)
(* HANDLER and the cells it leads to are the CATCHes in progress, with the *)
(* depths they found, whatever is interrupted and however it is abandoned: *)
(* the key aborts Forth code "back to the interpreter with -28 (a CATCH in *)
(* flight receives it)" (help/helpdoc/CONTROL.TXT:55-56).                  *)
(***************************************************************************)
HandlersAreCatches ==
  LET top == Len(catches)
  IN  Linked =>
        /\ handler = IF top = 0 THEN 0 ELSE catches[top].at
        /\ handler <= sp
        /\ \A i \in 1..top :
             /\ mem[catches[i].at] = <<"prev", IF i = 1 THEN 0 ELSE catches[i - 1].at>>
             /\ mem[catches[i].at - 1] = <<"x", catches[i].depth>>

(***************************************************************************)
(* "so one press never delivers twice" (asm/x816.asm:117-118).             *)
(***************************************************************************)
OnePressOneAbort ==
  aborts + (IF pending \/ pc = "broken" THEN 1 ELSE 0) <= presses

(***************************************************************************)
(* An uncaught -28 is reported as what it was: "break" for the key, "brk"  *)
(* for a BRK opcode (asm/x816.asm:124-130).  A break leaves no cursor      *)
(* behind, which "lives EXACTLY inside this wait: on before the first      *)
(* poll, off once a key is taken (or the wait aborts)" (141-143).          *)
(***************************************************************************)
BreakReported ==
  /\ said[2] = "key" => said[1] = "break"
  /\ said[2] = "opcode" => said[1] = "brk"
  /\ cursor => pc \in {"poll", "getkey", "broken"}

(***************************************************************************)
(* A break restarts the data stack at the depth of the CATCH that receives *)
(* it, so that nothing the abort or a nested interrupt pushes overwrites   *)
(* the cells that CATCH keeps (asm/interpreter.asm:115-128).               *)
(***************************************************************************)
BelowLiveData ==
  [][(NmiAborts \/ BRK) /\ Linked /\ catches # <<>> => depth' = Last(catches).depth]_vars

(***************************************************************************)
(* A request parked while the kernel ran is answered as long as the        *)
(* program keeps coming back to the prompt's wait for a key, whatever      *)
(* aborts, CATCHes and handlers come between: it is "parked and delivered  *)
(* as the same -28 ... so at the prompt it prints the abort and returns a  *)
(* fresh prompt" (help/helpdoc/CONTROL.TXT:58-60).  The text left out,     *)
(* "the next time KEY polls", is not so: the word KEY never looks at the   *)
(* request, and a program that keeps asking with it alone is given none.   *)
(***************************************************************************)
ParkedIsDelivered == ([]<>(pc = "poll")) => (pending ~> ~pending)

===========================================================================
