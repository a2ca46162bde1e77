-------------------------------- MODULE Firq --------------------------------
(***************************************************************************)
(* Forth words behind interrupts (asm/firq.asm; IRQ, LINE-IRQ and          *)
(* SPRCOL-IRQ of forth/base.fs), on the data stack they land on.           *)
(*                                                                         *)
(* The interrupted program runs words of the kinds that differ in what     *)
(* they keep where: @ and EXECUTE hold a pointer in W, 0BRANCH reads a     *)
(* cell it has popped, PICK and every call of the kernel borrow X, the     *)
(* data stack pointer, and IRQ arms a slot.  An interrupt comes between    *)
(* any two instructions; the program stands still until it returns.        *)
(***************************************************************************)
EXTENDS Integers, Sequences, FiniteSets

CONSTANTS
  Slots,         \* interrupt sources: 0 VSYNC, 1 line, 2 sprites, 3 audio
  MaxDepth,      \* bound: cells of the program
  HandlerCells,  \* bound: cells a handler leaves on the stack
  Windows        \* where else an interrupt may land, see below

(***************************************************************************)
(* "popped": before a cell above the stack pointer is read; "borrowed":    *)
(* while X is not the data stack pointer; "arming": between the two stores *)
(* of an xt.                                                               *)
(***************************************************************************)
ASSUME FirqAssumption ==
  /\ Slots \subseteq 0..3 /\ Slots # {}
  /\ MaxDepth \in Nat /\ HandlerCells \in Nat \ {0}
  /\ Windows \subseteq {"popped", "borrowed", "arming"}

VARIABLES
  x,       \* X: cells on the data stack
  cells,   \* the data stack, the cells above x included
  w, w3,   \* the working pointers W and W3
  acc,     \* A, or what is pushed on the CPU stack
  word,    \* the word the program is in
  step,    \* its next instruction
  result,  \* where the word went: a branch taken, an xt jumped to
  expect,  \* what the word leaves when nothing interrupts it
  job,     \* the slot and xt an IRQ in progress arms
  xt,      \* firq_xt: low and high word of each slot's xt
  ien,     \* VERA's interrupt enables
  vector,  \* the kernel's handler of each slot
  ktmp,    \* KTMP, KTMP2: the handler staged for kern_irq_set
  saved,   \* firq_w
  frame,   \* the dispatcher's frame: the interrupted X, or none
  ran      \* history: the last xt an interrupt executed

stack == <<x, cells>>
regs == <<w, w3, acc>>
program == <<word, step, result, expect, job>>
irq == <<xt, ien, vector, ktmp>>
handler == <<saved, frame, ran>>
vars == <<stack, regs, program, irq, handler>>

Vals == {0, 2}
Mem(v) == 2 - v                \* what @ finds at v
AllCells == 1..(MaxDepth + HandlerCells + 1)

Zero == <<0, 0>>
Armed == <<1, 1>>
None == -1
NoResult == 9

NoExpect == [depth |-> None, top |-> <<>>, result |-> NoResult]
NoJob == [slot |-> None, xt |-> Zero]

Init ==
  /\ x \in 0..MaxDepth
  /\ cells \in {c \in [AllCells -> Vals] : \A i \in AllCells : i > x => c[i] = 0}
  /\ w = 0 /\ w3 = 0 /\ acc = 0
  /\ word = "none" /\ step = 0
  /\ result = NoResult
  /\ expect = NoExpect
  /\ job = NoJob
  /\ xt = [s \in Slots |-> Zero]
  /\ ien = {0} \cap Slots      \* the kernel counts frames
  /\ vector = [s \in Slots |-> None]
  /\ ktmp = None
  /\ saved = Zero
  /\ frame = None
  /\ ran = Armed

---------------------------------------------------------------------------
(* The words of the program.                                               *)

Idle == word = "none"

Stack == [i \in 1..x |-> cells[i]]

\* A word begins; d, c and r are what its definition says it leaves.
Begin(name, d, c, r) ==
  /\ Idle
  /\ word' = name /\ step' = 1
  /\ expect' = [depth |-> d, top |-> c, result |-> r]
  /\ UNCHANGED <<stack, regs, result, irq, handler>>

Words ==
  \/ /\ x > 0 /\ UNCHANGED job
     /\ \/ Begin("@", x, [Stack EXCEPT ![x] = Mem(cells[x])], NoResult)
        \/ Begin("execute", x - 1, SubSeq(Stack, 1, x - 1), cells[x])
        \/ Begin("0branch", x - 1, SubSeq(Stack, 1, x - 1), cells[x])
        \/ x > cells[x] + 1 /\ Begin("pick", x, [Stack EXCEPT ![x] = cells[x - 1 - cells[x]]], NoResult)
  \/ Begin("kernel", x, Stack, NoResult) /\ UNCHANGED job
  \/ \E s \in Slots, n \in {Zero, Armed} :
       Begin("irq", x, Stack, NoResult) /\ job' = [slot |-> s, xt |-> n]

\* The program is at instruction n of a word; m is the next one.
At(name, n) == word = name /\ step = n
Goto(m) == step' = m /\ UNCHANGED <<word, expect, job, handler>>

Fetch ==
  \/ /\ At("@", 1) /\ w' = cells[x]
     /\ Goto(2) /\ UNCHANGED <<stack, w3, acc, result, irq>>
  \/ /\ At("@", 2) /\ cells' = [cells EXCEPT ![x] = Mem(w)]
     /\ Goto(0) /\ UNCHANGED <<x, regs, result, irq>>

EXECUTE ==
  \/ /\ At("execute", 1) /\ w' = cells[x]
     /\ Goto(2) /\ UNCHANGED <<stack, w3, acc, result, irq>>
  \/ /\ At("execute", 2) /\ x' = x - 1
     /\ Goto(3) /\ UNCHANGED <<cells, regs, result, irq>>
  \/ /\ At("execute", 3) /\ result' = w
     /\ Goto(0) /\ UNCHANGED <<stack, regs, irq>>

ZBRANCH ==
  \/ /\ At("0branch", 1) /\ x' = x - 1
     /\ Goto(2) /\ UNCHANGED <<cells, regs, result, irq>>
  \/ /\ At("0branch", 2) /\ result' = cells[x + 1]
     /\ Goto(0) /\ UNCHANGED <<stack, regs, irq>>

Pick ==
  \/ /\ At("pick", 1) /\ w3' = x
     /\ Goto(2) /\ UNCHANGED <<stack, w, acc, result, irq>>
  \/ /\ At("pick", 2) /\ w' = cells[x]
     /\ Goto(3) /\ UNCHANGED <<stack, w3, acc, result, irq>>
  \/ /\ At("pick", 3) /\ x' = x - w
     /\ Goto(4) /\ UNCHANGED <<cells, regs, result, irq>>
  \/ /\ At("pick", 4) /\ acc' = cells[x - 1]
     /\ Goto(5) /\ UNCHANGED <<stack, w, w3, result, irq>>
  \/ /\ At("pick", 5) /\ x' = w3
     /\ Goto(6) /\ UNCHANGED <<cells, regs, result, irq>>
  \/ /\ At("pick", 6) /\ cells' = [cells EXCEPT ![x] = acc]
     /\ Goto(0) /\ UNCHANGED <<x, regs, result, irq>>

\* phx, rep #$30, a kernel entry that uses X as it likes, plx.
Kernel ==
  \/ /\ At("kernel", 1) /\ acc' = x
     /\ x' \in 0..MaxDepth
     /\ Goto(2) /\ UNCHANGED <<cells, w, w3, result, irq>>
  \/ /\ At("kernel", 2) /\ x' = acc
     /\ Goto(0) /\ UNCHANGED <<cells, regs, result, irq>>

(* IRQ: the enable is read, changed and written, then (irq!).              *)

\* The audio interrupt has no enable that stays.
Enableable == Slots \ {3}

Enables == IF job.xt # Zero THEN ien \cup {job.slot} ELSE ien \ {job.slot}

\* No word writes the enables while the program does, so read and write
\* are one step.
SetEnable ==
  /\ At("irq", 1)
  /\ ien' = IF job.slot \in Enableable THEN Enables ELSE ien
  /\ Goto(2) /\ UNCHANGED <<stack, regs, result, xt, vector, ktmp>>

\* firq_entries.
Entry(s) == s

FIRQ_SET ==
  \/ /\ At("irq", 2) /\ w3' = job.slot
     /\ Goto(3) /\ UNCHANGED <<stack, w, acc, result, irq>>
  \/ /\ At("irq", 3) /\ xt' = [xt EXCEPT ![w3] = <<job.xt[1], @[2]>>]
     /\ Goto(4) /\ UNCHANGED <<stack, regs, result, ien, vector, ktmp>>
  \/ /\ At("irq", 4) /\ xt' = [xt EXCEPT ![w3] = <<@[1], job.xt[2]>>]
     /\ Goto(5) /\ UNCHANGED <<stack, regs, result, ien, vector, ktmp>>
  \/ /\ At("irq", 5) /\ ktmp' = Entry(w3)
     /\ Goto(6) /\ UNCHANGED <<stack, regs, result, xt, ien, vector>>
  \/ /\ At("irq", 6)
     /\ vector' = [vector EXCEPT ![w3] = ktmp]
     /\ ktmp' = vector[w3]
     /\ Goto(0) /\ UNCHANGED <<stack, regs, result, xt, ien>>

Done == ~Idle /\ step = 0

\* What is above x, in W, W3 and A is dead once a word is over.
End ==
  /\ Done
  /\ word' = "none" /\ result' = NoResult /\ expect' = NoExpect /\ job' = NoJob
  /\ cells' = [i \in AllCells |-> IF i > x THEN 0 ELSE cells[i]]
  /\ w' = 0 /\ w3' = 0 /\ acc' = 0
  /\ UNCHANGED <<x, step, irq, handler>>

---------------------------------------------------------------------------
(* The interrupt.                                                          *)

InWindow(v) ==
  \/ v = "popped" /\ At("0branch", 2)
  \/ v = "borrowed" /\ (At("pick", 4) \/ At("pick", 5) \/ At("kernel", 2))
  \/ v = "arming" /\ At("irq", 4)

MayLand == \A v \in {"popped", "borrowed", "arming"} : InWindow(v) => v \in Windows

\* Mutant: a disarmed slot is executed like another.
Bugfirq_enter(s) ==
  /\ saved' = <<w, w3>>
  /\ frame' = x
  /\ ran' = xt[s]
  /\ \E v \in Vals : cells' = [cells EXCEPT ![x + 1] = v] /\ w' = v

\* W and W3 are saved, X is the interrupted one; the xt is pushed on the
\* stack and EXECUTE takes it off again, through W.  A disarmed slot is
\* left as it is found.
firq_enter(s) ==
  /\ xt[s] # Zero
  /\ saved' = <<w, w3>>
  /\ frame' = x
  /\ ran' = xt[s]
  /\ \E v \in Vals : cells' = [cells EXCEPT ![x + 1] = v] /\ w' = v

Interrupt(s) ==
  /\ frame = None /\ s \in ien /\ vector[s] # None
  /\ MayLand
  /\ firq_enter(vector[s])
  /\ UNCHANGED <<x, w3, acc, program, irq>>

\* The handler's own words: they push, drop and use the working pointers.
HandlerPush ==
  /\ frame # None /\ x < frame + HandlerCells
  /\ \E v \in Vals : cells' = [cells EXCEPT ![x + 1] = v]
  /\ x' = x + 1
  /\ UNCHANGED <<regs, program, irq, handler>>

HandlerComputes ==
  /\ frame # None
  /\ w' \in Vals /\ w3' \in Vals
  /\ UNCHANGED <<stack, acc, program, irq, handler>>

\* Mutant: the handler's X is left as it is.
BugLeavesX ==
  /\ frame # None
  /\ w' = saved[1] /\ w3' = saved[2]
  /\ saved' = Zero /\ frame' = None
  /\ UNCHANGED <<stack, acc, program, irq, ran>>

\* Mutant: W3 comes back, W does not.
Bugfirq_done ==
  /\ frame # None
  /\ w3' = saved[2] /\ x' = frame
  /\ saved' = Zero /\ frame' = None
  /\ UNCHANGED <<cells, w, acc, program, irq, ran>>

\* W and W3 come back from firq_w, and X from the dispatcher's frame.
firq_done ==
  /\ frame # None
  /\ w' = saved[1] /\ w3' = saved[2] /\ x' = frame
  /\ saved' = Zero /\ frame' = None
  /\ UNCHANGED <<cells, acc, program, irq, ran>>

---------------------------------------------------------------------------

Step == Fetch \/ EXECUTE \/ ZBRANCH \/ Pick \/ Kernel \/ SetEnable \/ FIRQ_SET

Program == frame = None /\ (Words \/ Step \/ End)

Handler == HandlerPush \/ HandlerComputes \/ firq_done

Next == Program \/ (\E s \in Slots : Interrupt(s)) \/ Handler

Spec == Init /\ [][Next]_vars

---------------------------------------------------------------------------
(* Properties.                                                             *)

XtParts == {0, 1} \X {0, 1}

TypeOK ==
  /\ x \in 0..(MaxDepth + HandlerCells)
  /\ cells \in [AllCells -> Vals]
  /\ w \in Vals /\ w3 \in 0..(MaxDepth + 3) /\ acc \in 0..MaxDepth + 2
  /\ word \in {"none", "@", "execute", "0branch", "pick", "kernel", "irq"}
  /\ step \in 0..6
  /\ result \in Vals \cup {NoResult}
  /\ expect.depth \in 0..MaxDepth \cup {None}
  /\ job \in [slot : Slots \cup {None}, xt : {Zero, Armed}]
  /\ xt \in [Slots -> XtParts]
  /\ ien \subseteq Slots
  /\ vector \in [Slots -> Slots \cup {None}] /\ ktmp \in Slots \cup {None}
  /\ frame \in 0..MaxDepth \cup {None}
  /\ ran \in XtParts

(***************************************************************************)
(* "the interrupted code comes out with exactly the answer it would have   *)
(* had with no interrupt at all" (test/testirq.fs:8-9): a word that is     *)
(* over left the stack and went where its definition says.                 *)
(***************************************************************************)
Transparent ==
  Done /\ frame = None => /\ x = expect.depth
                          /\ Stack = expect.top
                          /\ result = expect.result

(***************************************************************************)
(* What an interrupt executes is an xt that was armed, in both its words:  *)
(* "Zero means disarmed, and zero is safe to mean that - nothing can       *)
(* execute at $00:0000" (asm/firq.asm:54-56).  The kernel calls each slot  *)
(* at its own trampoline (65-78, 165-185).  Between words an armed slot's  *)
(* source is enabled and leads there: "a source that is not ENABLED never  *)
(* interrupts" (forth/base.fs:929-933).                                    *)
(***************************************************************************)
HandlersReached ==
  /\ ran = Armed
  /\ \A s \in Slots : vector[s] \in {s, None}
  /\ Idle => \A s \in Enableable : xt[s] = Armed => s \in ien /\ vector[s] = s

============================================================================
