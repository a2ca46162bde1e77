----------------------------- MODULE BreakProofs -----------------------------
(***************************************************************************)
(* For any number of CATCHes inside one another, presses of the key and    *)
(* interrupts: the chain of handlers is that of the CATCHes in progress,   *)
(* a press aborts once, and what is reported is what happened.             *)
(***************************************************************************)
EXTENDS Break, SequenceTheorems, TLAPS

USE BreakAssumption

Top == Len(catches)

\* A CATCH owns two cells, so the stack is as deep as there are CATCHes, and
\* the cells that a step in progress has pushed, or has yet to pop.
SpIs ==
  /\ pc = "quit" => Top = 0 /\ sp = 0
  /\ pc = "savedX" => Top < MaxCatch /\ sp = 2 * Top + 1
  /\ pc = "savedPrev" => Top < MaxCatch /\ sp = 2 * Top + 2
  /\ pc \in {"run", "kernel", "poll", "broken", "getkey", "key", "getin", "unwound"}
       => Top > 0 /\ sp = 2 * Top
  /\ pc = "returned" => Top > 1 /\ sp = 2 * Top - 1
  /\ pc = "taken" => Top > 0 /\ sp = 2 * Top - 1
  /\ pc = "restored" => Top > 0 /\ sp = 2 * Top + 1
  /\ pc = "linked" => Top < MaxCatch /\ sp = 2 * Top + 1
  /\ pc = "received" => sp = 2 * Top
  /\ pc \in {"uncaught", "printing"} => Top = 0

\* The cells of CATCH number i, but for the link that a step has taken.
FrameOf(i) ==
  /\ catches[i].at = 2 * i
  /\ mem[2 * i - 1] = <<"x", catches[i].depth>>
  /\ Linked \/ i < Top => mem[2 * i] = <<"prev", 2 * (i - 1)>>

\* The cells pushed for a CATCH that has not begun, or popped by its end.
InHand ==
  /\ pc \in {"savedX", "savedPrev"} => mem[2 * Top + 1] = <<"x", depth>>
  /\ pc = "savedPrev" => mem[2 * Top + 2] = <<"prev", handler>>
  /\ pc \in {"returned", "taken"} => held = 2 * (Top - 1)
  /\ pc = "linked" => mem[sp] \in {"x"} \X (0..MaxDepth)

Frames ==
  /\ Top \in 0..MaxCatch
  /\ handler = 2 * Top
  /\ \A i \in 1..Top : FrameOf(i)

\* A code is under way while it unwinds; the flag says what raised it.
Unwinding == {"unwound", "taken", "linked", "received", "uncaught", "printing"}

Told ==
  /\ pc \notin Unwinding <=> code = None
  /\ code[2] = "key" => code[1] = "-28" /\ fromKey
  /\ code[2] = "opcode" => code[1] = "-28" /\ ~fromKey
  /\ pc = "broken" => ~pending /\ fromKey
  /\ said[2] = "key" => said[1] = "break"
  /\ said[2] = "opcode" => said[1] = "brk"

FlagsOK ==
  /\ pending \in BOOLEAN /\ fromKey \in BOOLEAN /\ cursor \in BOOLEAN /\ inirq \in BOOLEAN
  /\ presses \in 0..MaxPresses /\ aborts \in Nat
  /\ said \in {None} \cup ({"break", "brk", "other"} \X {"key", "opcode", "program"})

ChainInv == TypeOK /\ Frames /\ SpIs /\ InHand

BreakInv == ChainInv /\ Told /\ OnePressOneAbort

LEMMA BreakInitInv == Init => BreakInv
<1>. SUFFICES ASSUME Init PROVE BreakInv  OBVIOUS
<1>1. Top = 0 /\ 0 \in 0..MaxSp  BY DEF Init, Top, MaxSp
<1>2. None \in Codes  BY DEF Codes
<1>3. mem \in [1..MaxSp -> Cells]
  <2>1. Junk \in Cells  BY DEF Cells
  <2>. QED BY <2>1 DEF Init
<1>4. TypeOK
  <2>1. <<>> \in Seq([at : 1..MaxSp, depth : 0..MaxDepth])  OBVIOUS
  <2>2. -1 \in Int /\ 0 \in -1..MaxSp /\ 0 \in 0..MaxPresses /\ 0 \in 0..MaxDepth  BY <1>1
  <2>. QED BY <1>1, <1>2, <1>3, <2>1, <2>2 DEF Init, TypeOK, Places
<1>5. Frames /\ SpIs /\ InHand  BY <1>1 DEF Init, Frames, SpIs, InHand
<1>6. Told  BY DEF Init, Told, None, Unwinding
<1>7. OnePressOneAbort  BY DEF Init, OnePressOneAbort
<1>. QED BY <1>4, <1>5, <1>6, <1>7 DEF BreakInv, ChainInv

\* The facts about numbers that every step needs.
LEMMA Bounds ==
  ASSUME ChainInv
  PROVE  /\ Top \in 0..MaxCatch /\ handler = 2 * Top /\ MaxSp = 2 * MaxCatch + 2
         /\ sp \in 0..MaxSp /\ depth \in 0..MaxDepth /\ mem \in [1..MaxSp -> Cells]
         /\ catches \in Seq([at : 1..MaxSp, depth : 0..MaxDepth])
         /\ Linked => 2 * Top <= sp
         /\ ~Linked => sp = 2 * Top - 1
         /\ Junk \in Cells
BY DEF ChainInv, TypeOK, Frames, SpIs, MaxSp, Linked, Places, Cells

LEMMA CatchIs ==
  ASSUME catches \in Seq([at : 1..MaxSp, depth : 0..MaxDepth]), Top > 0
  PROVE  catches[Top].depth \in 0..MaxDepth
<1>. DEFINE E == [at : 1..MaxSp, depth : 0..MaxDepth]
<1>1. catches \in Seq(E)  OBVIOUS
<1>2. catches[Top] \in E
  <2>. HIDE DEF E
  <2>1. Len(catches) \in Nat /\ Len(catches) > 0  BY <1>1 DEF Top
  <2>. QED BY <1>1, <2>1 DEF Top
<1>. QED BY <1>2

\* What changes above the frames changes none of them.
LEMMA FramesKept ==
  ASSUME ChainInv, catches' = catches, handler' = handler,
         \A j \in 1..(2 * Top - 1) : mem'[j] = mem[j],
         Linked' => Linked /\ (Top > 0 => mem'[2 * Top] = mem[2 * Top])
  PROVE  Frames' /\ Top' = Top
<1>1. Top' = Top /\ Top \in 0..MaxCatch  BY DEF Top, ChainInv, Frames
<1>2. Frames  BY DEF ChainInv
<1>3. \A i \in 1..Top : FrameOf(i)'
  <2>. TAKE i \in 1..Top
  <2>1. FrameOf(i)  BY <1>2 DEF Frames
  <2>2. 2 * i - 1 \in 1..(2 * Top - 1)  BY <1>1
  <2>3. mem'[2 * i - 1] = mem[2 * i - 1]  BY <2>2
  <2>4. i < Top => mem'[2 * i] = mem[2 * i]
    <3>1. i < Top => 2 * i \in 1..(2 * Top - 1)  BY <1>1
    <3>. QED BY <3>1
  <2>5. Linked' => mem'[2 * i] = mem[2 * i]
    <3>1. i = Top \/ i < Top  BY <1>1
    <3>. QED BY <1>1, <2>4, <3>1
  <2>. QED BY <1>1, <2>1, <2>3, <2>4, <2>5 DEF FrameOf
<1>. QED BY <1>1, <1>2, <1>3 DEF Frames

\* The last CATCH ends, and the link it held is the handler.
LEMMA FramesLess ==
  ASSUME ChainInv, Top > 0, catches' = Front(catches), handler' = 2 * (Top - 1),
         mem' = mem
  PROVE  Frames' /\ Top' = Top - 1 /\ catches' \in Seq([at : 1..MaxSp, depth : 0..MaxDepth])
<1>. DEFINE E == [at : 1..MaxSp, depth : 0..MaxDepth]
<1>1. catches \in Seq(E) /\ Top \in 0..MaxCatch /\ Frames  BY Bounds DEF ChainInv
<1>2. catches' = SubSeq(catches, 1, Len(catches) - 1)  BY DEF Front
<1>. HIDE DEF E
<1>3. /\ catches' \in Seq(E) /\ Len(catches') = Len(catches) - 1
      /\ \A i \in 1..(Len(catches) - 1) : catches'[i] = catches[i]
  <2>. DEFINE n == Len(catches) - 1
  <2>1. n \in Nat /\ \A i \in 1..n : catches[i] \in E  BY <1>1 DEF Top
  <2>. HIDE DEF n
  <2>2. Len(catches) = n + 1 /\ n <= Len(catches)  BY <2>1, <1>1 DEF n
  <2>3. SubSeq(catches, 1, n) \in Seq(E)  BY <1>1, <2>1, <2>2
  <2>4. Len(SubSeq(catches, 1, n)) = n  BY <1>1, <2>1, <2>2
  <2>5. \A i \in 1..n : SubSeq(catches, 1, n)[i] = catches[i]  BY <1>1, <2>1, <2>2
  <2>. QED BY <1>2, <2>3, <2>4, <2>5 DEF n
<1>4. Top' = Top - 1 /\ \A i \in 1..(Top - 1) : catches'[i] = catches[i]
  BY <1>3 DEF Top
<1>5. \A i \in 1..(Top - 1) : FrameOf(i)'
  <2>. TAKE i \in 1..(Top - 1)
  <2>1. i \in 1..Top /\ i < Top  BY <1>1
  <2>2. FrameOf(i)  BY <1>1, <2>1 DEF Frames
  <2>. QED BY <1>4, <2>1, <2>2 DEF FrameOf
<1>6. catches' \in Seq([at : 1..MaxSp, depth : 0..MaxDepth])  BY <1>3 DEF E
<1>7. Top' \in 0..MaxCatch  BY <1>1, <1>4
<1>8. Frames'  BY <1>4, <1>5, <1>7 DEF Frames
<1>. QED BY <1>4, <1>6, <1>8

\* A step keeps its types if it keeps those of what it writes.
LEMMA Types ==
  ASSUME pc' \in Places, mem' \in [1..MaxSp -> Cells], sp' \in 0..MaxSp,
         handler' \in -1..MaxSp, held' \in -1..MaxSp, depth' \in 0..MaxDepth,
         code' \in Codes, FlagsOK',
         catches' \in Seq([at : 1..MaxSp, depth : 0..MaxDepth])
  PROVE  TypeOK'
BY DEF TypeOK, FlagsOK

\* Wherever the chain is whole, an unwinding finds the frame that the handler
\* points to, whatever has been pushed above it.
LEMMA UnwindStep ==
  ASSUME ChainInv, Linked, NEW c \in Codes, NEW d \in 0..MaxDepth, Unwind(c, d), FlagsOK',
         mem' \in [1..MaxSp -> Cells], \A j \in 1..sp : mem'[j] = mem[j]
  PROVE  ChainInv'
<1>1. /\ Top \in 0..MaxCatch /\ handler = 2 * Top /\ 2 * Top <= sp /\ sp \in 0..MaxSp
      /\ catches \in Seq([at : 1..MaxSp, depth : 0..MaxDepth]) /\ held \in -1..MaxSp
      /\ handler \in -1..MaxSp /\ MaxSp = 2 * MaxCatch + 2
  BY Bounds DEF ChainInv, TypeOK
<1>2. /\ code' = c /\ depth' = d /\ handler' = handler /\ held' = held /\ catches' = catches
      /\ handler = 0 => pc' = "uncaught" /\ sp' = sp
      /\ handler # 0 => pc' = "unwound" /\ sp' = handler
  BY DEF Unwind
<1>3. Frames' /\ Top' = Top
  <2>1. \A j \in 1..(2 * Top - 1) : mem'[j] = mem[j]  BY <1>1
  <2>2. Top > 0 => mem'[2 * Top] = mem[2 * Top]  BY <1>1
  <2>. QED BY <1>2, <2>1, <2>2, FramesKept
<1>4. SpIs' /\ InHand'  BY <1>1, <1>2, <1>3 DEF SpIs, InHand
<1>5. TypeOK'  BY <1>1, <1>2, Types DEF Places
<1>. QED BY <1>3, <1>4, <1>5 DEF ChainInv

\* A step that leaves CATCH's cells alone.
LEMMA QuietStep ==
  ASSUME ChainInv, UNCHANGED <<mem, sp, handler, held, catches>>, depth' \in 0..MaxDepth,
         code' \in Codes, FlagsOK', pc' \in Places, Linked,
         Top' = Top => SpIs' /\ InHand'
  PROVE  ChainInv'
<1>1. Frames' /\ Top' = Top  BY FramesKept
<1>2. /\ mem \in [1..MaxSp -> Cells] /\ sp \in 0..MaxSp /\ handler \in -1..MaxSp
      /\ held \in -1..MaxSp /\ catches \in Seq([at : 1..MaxSp, depth : 0..MaxDepth])
  BY DEF ChainInv, TypeOK
<1>3. TypeOK'  BY <1>2, Types
<1>. QED BY <1>1, <1>3 DEF ChainInv

\* Popped and pushed cells are above the frames.
LEMMA PopStep ==
  ASSUME ChainInv, Popped, sp > 0, UNCHANGED <<handler, catches>>, Linked, sp >= 2 * Top,
         Linked' => sp > 2 * Top
  PROVE  /\ Frames' /\ Top' = Top /\ mem' \in [1..MaxSp -> Cells] /\ sp' = sp - 1
         /\ sp' \in 0..MaxSp /\ \A j \in 1..(sp - 1) : mem'[j] = mem[j]
<1>1. mem' = [mem EXCEPT ![sp] = Junk] /\ sp' = sp - 1  BY DEF Popped
<1>2. /\ mem \in [1..MaxSp -> Cells] /\ sp \in 1..MaxSp /\ Top \in 0..MaxCatch
      /\ Junk \in Cells /\ MaxSp = 2 * MaxCatch + 2
  BY Bounds
<1>3. mem' \in [1..MaxSp -> Cells] /\ \A j \in 1..(sp - 1) : mem'[j] = mem[j]
  BY <1>1, <1>2
<1>4. \A j \in 1..(2 * Top - 1) : mem'[j] = mem[j]  BY <1>2, <1>3
<1>5. Linked' /\ Top > 0 => mem'[2 * Top] = mem[2 * Top]
  <2>1. Linked' /\ Top > 0 => 2 * Top \in 1..(sp - 1)  BY <1>2
  <2>. QED BY <1>3, <2>1
<1>6. Frames' /\ Top' = Top  BY <1>4, <1>5, FramesKept
<1>. QED BY <1>1, <1>2, <1>3, <1>6

LEMMA PushStep ==
  ASSUME ChainInv, NEW c \in Cells, Push(c), UNCHANGED <<handler, catches>>, Linked,
         sp < MaxSp
  PROVE  /\ Frames' /\ Top' = Top /\ mem' \in [1..MaxSp -> Cells] /\ sp' = sp + 1
         /\ sp' \in 0..MaxSp /\ mem'[sp + 1] = c /\ \A j \in 1..sp : mem'[j] = mem[j]
<1>1. mem' = [mem EXCEPT ![sp + 1] = c] /\ sp' = sp + 1  BY DEF Push
<1>2. /\ mem \in [1..MaxSp -> Cells] /\ sp \in 0..MaxSp /\ Top \in 0..MaxCatch
      /\ 2 * Top <= sp /\ MaxSp = 2 * MaxCatch + 2
  BY Bounds
<1>3. /\ mem' \in [1..MaxSp -> Cells] /\ mem'[sp + 1] = c /\ \A j \in 1..sp : mem'[j] = mem[j]
  BY <1>1, <1>2
<1>4. \A j \in 1..(2 * Top) : mem'[j] = mem[j]  BY <1>2, <1>3
<1>5. (\A j \in 1..(2 * Top - 1) : mem'[j] = mem[j]) /\ (Top > 0 => mem'[2 * Top] = mem[2 * Top])
  BY <1>2, <1>4
<1>6. Frames' /\ Top' = Top  BY <1>5, FramesKept
<1>. QED BY <1>1, <1>2, <1>3, <1>6

Flagged == <<pending, fromKey, cursor, inirq, presses, aborts, said>>

LEMMA CatchStep ==
  ASSUME ChainInv, Catch
  PROVE  ChainInv'
<1>1. /\ Top \in 0..MaxCatch /\ handler = 2 * Top /\ MaxSp = 2 * MaxCatch + 2
      /\ sp \in 0..MaxSp /\ depth \in 0..MaxDepth /\ mem \in [1..MaxSp -> Cells]
      /\ catches \in Seq([at : 1..MaxSp, depth : 0..MaxDepth])
      /\ handler \in -1..MaxSp /\ held \in -1..MaxSp /\ code \in Codes
      /\ pc \in Places /\ SpIs /\ InHand /\ Frames /\ FlagsOK
  BY Bounds DEF ChainInv, TypeOK, FlagsOK
<1>2. /\ depth' = depth /\ code' = code /\ UNCHANGED Flagged
      /\ FlagsOK'
  <2>1. UNCHANGED Flagged
    BY DEF Catch, CatchSavesX, CatchSavesHandler, CatchSetsHandler, CatchReturns,
           CatchRestores, CatchEnds, Flagged, flags, history
  <2>2. depth' = depth /\ code' = code
    BY DEF Catch, CatchSavesX, CatchSavesHandler, CatchSetsHandler, CatchReturns,
           CatchRestores, CatchEnds
  <2>. QED BY <1>1, <2>1, <2>2 DEF Flagged, FlagsOK
<1>3. CASE CatchSavesX
  <2>1. /\ pc \in {"quit", "run"} /\ pc' = "savedX" /\ Top < MaxCatch /\ sp = 2 * Top
        /\ Push(<<"x", depth>>) /\ UNCHANGED <<handler, held, catches>>
    BY <1>1, <1>3 DEF CatchSavesX, SpIs, Top
  <2>2. <<"x", depth>> \in Cells /\ Linked /\ sp < MaxSp  BY <1>1, <2>1 DEF Cells, Linked
  <2>3. /\ Frames' /\ Top' = Top /\ mem' \in [1..MaxSp -> Cells] /\ sp' = sp + 1
        /\ sp' \in 0..MaxSp /\ mem'[sp + 1] = <<"x", depth>>
    BY <2>1, <2>2, PushStep
  <2>4. SpIs' /\ InHand'  BY <1>1, <1>2, <2>1, <2>3 DEF SpIs, InHand
  <2>5. TypeOK'  BY <1>1, <1>2, <2>1, <2>3, Types DEF Places
  <2>. QED BY <2>3, <2>4, <2>5 DEF ChainInv
<1>4. CASE CatchSavesHandler
  <2>1. /\ pc = "savedX" /\ pc' = "savedPrev" /\ Top < MaxCatch /\ sp = 2 * Top + 1
        /\ mem[sp] = <<"x", depth>>
        /\ Push(<<"prev", handler>>) /\ UNCHANGED <<handler, held, catches>>
    BY <1>1, <1>4 DEF CatchSavesHandler, SpIs, InHand
  <2>2. <<"prev", handler>> \in Cells /\ Linked /\ sp < MaxSp  BY <1>1, <2>1 DEF Cells, Linked
  <2>3. /\ Frames' /\ Top' = Top /\ mem' \in [1..MaxSp -> Cells] /\ sp' = sp + 1
        /\ sp' \in 0..MaxSp /\ mem'[sp + 1] = <<"prev", handler>>
        /\ \A j \in 1..sp : mem'[j] = mem[j]
    BY <2>1, <2>2, PushStep
  <2>4. mem'[sp] = <<"x", depth>>  BY <1>1, <2>1, <2>3
  <2>5. SpIs' /\ InHand'  BY <1>1, <1>2, <2>1, <2>3, <2>4 DEF SpIs, InHand
  <2>6. TypeOK'  BY <1>1, <1>2, <2>1, <2>3, Types DEF Places
  <2>. QED BY <2>3, <2>5, <2>6 DEF ChainInv
<1>5. CASE CatchSetsHandler
  <2>1. /\ pc = "savedPrev" /\ pc' = "run" /\ Top < MaxCatch /\ sp = 2 * Top + 2 /\ handler' = sp
        /\ mem[2 * Top + 1] = <<"x", depth>> /\ mem[2 * Top + 2] = <<"prev", handler>>
        /\ catches' = Append(catches, [at |-> sp, depth |-> depth])
        /\ mem' = mem /\ sp' = sp /\ held' = held
    BY <1>1, <1>5 DEF CatchSetsHandler, SpIs, InHand
  <2>. DEFINE E == [at : 1..MaxSp, depth : 0..MaxDepth]
  <2>. DEFINE e == [at |-> sp, depth |-> depth]
  <2>2. e \in E /\ e.at = sp /\ e.depth = depth  BY <1>1, <2>1
  <2>3. /\ catches' \in Seq(E) /\ Len(catches') = Len(catches) + 1
        /\ \A i \in 1..Len(catches) : catches'[i] = catches[i]
        /\ catches'[Len(catches) + 1] = e
    <3>1. catches \in Seq(E) /\ catches' = Append(catches, e)  BY <1>1, <2>1
    <3>. HIDE DEF E, e
    <3>. QED BY <2>2, <3>1, AppendProperties
  <2>4. /\ Top' = Top + 1 /\ catches'[Top + 1].at = sp /\ catches'[Top + 1].depth = depth
        /\ \A i \in 1..Top : catches'[i] = catches[i]
    BY <2>2, <2>3 DEF Top
  <2>5. \A i \in 1..(Top + 1) : FrameOf(i)'
    <3>. TAKE i \in 1..(Top + 1)
    <3>1. CASE i = Top + 1
      <4>1. 2 * i = sp /\ 2 * i - 1 = 2 * Top + 1 /\ 2 * (i - 1) = handler  BY <1>1, <2>1, <3>1
      <4>. QED BY <2>1, <2>4, <3>1, <4>1 DEF FrameOf
    <3>2. CASE i # Top + 1
      <4>1. i \in 1..Top  BY <1>1, <3>2
      <4>2. FrameOf(i) /\ Linked  BY <1>1, <2>1, <4>1 DEF Frames, Linked
      <4>. QED BY <2>1, <2>4, <4>1, <4>2 DEF FrameOf
    <3>. QED BY <3>1, <3>2
  <2>6. Frames'  BY <1>1, <2>1, <2>4, <2>5 DEF Frames
  <2>7. SpIs' /\ InHand'  BY <1>1, <2>1, <2>4 DEF SpIs, InHand
  <2>8. TypeOK'  BY <1>1, <1>2, <2>1, <2>3, Types DEF Places
  <2>. QED BY <2>6, <2>7, <2>8 DEF ChainInv
<1>6. CASE CatchReturns
  <2>1. /\ pc = "run" /\ pc' = "returned" /\ Top > 1 /\ sp = 2 * Top /\ held' = mem[sp][2]
        /\ Popped /\ UNCHANGED <<handler, catches>>
    BY <1>1, <1>6 DEF CatchReturns, SpIs, Top
  <2>2. held' = 2 * (Top - 1)
    <3>1. FrameOf(Top) /\ Linked  BY <1>1, <2>1 DEF Frames, Linked
    <3>2. mem[sp] = <<"prev", 2 * (Top - 1)>>  BY <2>1, <3>1 DEF FrameOf
    <3>. QED BY <2>1, <3>2
  <2>3. /\ Frames' /\ Top' = Top /\ mem' \in [1..MaxSp -> Cells] /\ sp' = sp - 1
        /\ sp' \in 0..MaxSp
    BY <1>1, <2>1, PopStep DEF Linked
  <2>4. SpIs' /\ InHand'  BY <1>1, <2>1, <2>2, <2>3 DEF SpIs, InHand
  <2>5. held' \in -1..MaxSp  BY <1>1, <2>1, <2>2
  <2>6. TypeOK'  BY <1>1, <1>2, <2>1, <2>3, <2>5, Types DEF Places
  <2>. QED BY <2>3, <2>4, <2>6 DEF ChainInv
<1>7. CASE CatchRestores
  <2>1. /\ pc = "returned" /\ pc' = "restored" /\ Top > 1 /\ sp = 2 * Top - 1
        /\ held = 2 * (Top - 1) /\ handler' = held /\ catches' = Front(catches)
        /\ mem' = mem /\ sp' = sp /\ held' = held
    BY <1>1, <1>7 DEF CatchRestores, SpIs, InHand
  <2>2. Frames' /\ Top' = Top - 1 /\ catches' \in Seq([at : 1..MaxSp, depth : 0..MaxDepth])
    BY <1>1, <2>1, FramesLess
  <2>3. SpIs' /\ InHand'  BY <1>1, <2>1, <2>2 DEF SpIs, InHand
  <2>4. TypeOK'  BY <1>1, <1>2, <2>1, <2>2, Types DEF Places
  <2>. QED BY <2>2, <2>3, <2>4 DEF ChainInv
<1>8. CASE CatchEnds
  <2>1. /\ pc = "restored" /\ pc' = "run" /\ Top > 0 /\ sp = 2 * Top + 1
        /\ Popped /\ UNCHANGED <<handler, held, catches>>
    BY <1>1, <1>8 DEF CatchEnds, SpIs
  <2>2. /\ Frames' /\ Top' = Top /\ mem' \in [1..MaxSp -> Cells] /\ sp' = sp - 1
        /\ sp' \in 0..MaxSp
    BY <1>1, <2>1, PopStep DEF Linked
  <2>3. SpIs' /\ InHand'  BY <1>1, <2>1, <2>2 DEF SpIs, InHand
  <2>4. TypeOK'  BY <1>1, <1>2, <2>1, <2>2, Types DEF Places
  <2>. QED BY <2>2, <2>3, <2>4 DEF ChainInv
<1>. QED BY <1>3, <1>4, <1>5, <1>6, <1>7, <1>8 DEF Catch

LEMMA ThrowStep ==
  ASSUME ChainInv, Told, Throw
  PROVE  ChainInv'
<1>1. /\ Top \in 0..MaxCatch /\ handler = 2 * Top /\ MaxSp = 2 * MaxCatch + 2
      /\ sp \in 0..MaxSp /\ depth \in 0..MaxDepth /\ mem \in [1..MaxSp -> Cells]
      /\ catches \in Seq([at : 1..MaxSp, depth : 0..MaxDepth])
      /\ handler \in -1..MaxSp /\ held \in -1..MaxSp /\ code \in Codes
      /\ pc \in Places /\ SpIs /\ InHand /\ Frames /\ FlagsOK
  BY Bounds DEF ChainInv, TypeOK, FlagsOK
<1>2. CASE \E n \in {"-28", "other"} : THROW(n)
  <2>1. PICK n \in {"-28", "other"} : THROW(n)  BY <1>2
  <2>2. /\ pc = "run" /\ Unwind(<<n, "program">>, depth) /\ mem' = mem /\ UNCHANGED Flagged
    BY <2>1 DEF THROW, Flagged, flags, history
  <2>3. <<n, "program">> \in Codes /\ Linked /\ FlagsOK'
    BY <1>1, <2>2 DEF Codes, Linked, FlagsOK, Flagged
  <2>. QED BY <1>1, <2>2, <2>3, UnwindStep
<1>3. CASE ThrowTakesHandler
  <2>1. /\ pc = "unwound" /\ pc' = "taken" /\ Top > 0 /\ sp = 2 * Top
        /\ held' = IF mem[sp][1] = "prev" THEN mem[sp][2] ELSE Lost
        /\ Popped /\ UNCHANGED <<handler, depth, code, catches>> /\ UNCHANGED Flagged
    BY <1>1, <1>3 DEF ThrowTakesHandler, SpIs, Flagged, flags, history
  <2>2. held' = 2 * (Top - 1)
    <3>1. FrameOf(Top) /\ Linked  BY <1>1, <2>1 DEF Frames, Linked
    <3>2. mem[sp] = <<"prev", 2 * (Top - 1)>>  BY <2>1, <3>1 DEF FrameOf
    <3>. QED BY <2>1, <3>2
  <2>3. /\ Frames' /\ Top' = Top /\ mem' \in [1..MaxSp -> Cells] /\ sp' = sp - 1
        /\ sp' \in 0..MaxSp
    BY <1>1, <2>1, PopStep DEF Linked
  <2>4. SpIs' /\ InHand'  BY <1>1, <2>1, <2>2, <2>3 DEF SpIs, InHand
  <2>5. held' \in -1..MaxSp  BY <1>1, <2>1, <2>2
  <2>6. FlagsOK'  BY <1>1, <2>1 DEF FlagsOK, Flagged
  <2>7. TypeOK'  BY <1>1, <2>1, <2>3, <2>5, <2>6, Types DEF Places
  <2>. QED BY <2>3, <2>4, <2>7 DEF ChainInv
<1>4. CASE ThrowRestores
  <2>1. /\ pc = "taken" /\ pc' = "linked" /\ Top > 0 /\ sp = 2 * Top - 1
        /\ held = 2 * (Top - 1) /\ handler' = held /\ catches' = Front(catches)
        /\ mem' = mem /\ sp' = sp /\ held' = held /\ depth' = depth /\ code' = code
        /\ UNCHANGED Flagged
    BY <1>1, <1>4 DEF ThrowRestores, SpIs, InHand, Flagged, flags, history
  <2>2. Frames' /\ Top' = Top - 1 /\ catches' \in Seq([at : 1..MaxSp, depth : 0..MaxDepth])
    BY <1>1, <2>1, FramesLess
  <2>3. mem'[sp'] \in {"x"} \X (0..MaxDepth)
    <3>1. mem[sp] = <<"x", catches[Top].depth>>  BY <1>1, <2>1 DEF Frames, FrameOf
    <3>2. catches[Top].depth \in 0..MaxDepth  BY <1>1, <2>1, CatchIs
    <3>. QED BY <2>1, <3>1, <3>2
  <2>4. SpIs' /\ InHand'  BY <1>1, <2>1, <2>2, <2>3 DEF SpIs, InHand
  <2>5. FlagsOK'  BY <1>1, <2>1 DEF FlagsOK, Flagged
  <2>6. TypeOK'  BY <1>1, <2>1, <2>2, <2>5, Types DEF Places
  <2>. QED BY <2>2, <2>4, <2>6 DEF ChainInv
<1>5. CASE ThrowArrives
  <2>1. /\ pc = "linked" /\ pc' = "received" /\ sp = 2 * Top + 1 /\ depth' = mem[sp][2]
        /\ Popped /\ UNCHANGED <<handler, held, code, catches>> /\ UNCHANGED Flagged
    BY <1>1, <1>5 DEF ThrowArrives, SpIs, Flagged, flags, history
  <2>2. depth' \in 0..MaxDepth  BY <1>1, <2>1 DEF InHand
  <2>3. /\ Frames' /\ Top' = Top /\ mem' \in [1..MaxSp -> Cells] /\ sp' = sp - 1
        /\ sp' \in 0..MaxSp
    BY <1>1, <2>1, PopStep DEF Linked
  <2>4. SpIs' /\ InHand'  BY <1>1, <2>1, <2>3 DEF SpIs, InHand
  <2>5. FlagsOK'  BY <1>1, <2>1 DEF FlagsOK, Flagged
  <2>6. TypeOK'  BY <1>1, <2>1, <2>2, <2>3, <2>5, Types DEF Places
  <2>. QED BY <2>3, <2>4, <2>6 DEF ChainInv
<1>6. CASE Recover
  <2>1. /\ pc = "received" /\ pc' = "run" /\ catches # <<>> /\ sp = 2 * Top /\ code' = None
        /\ UNCHANGED <<mem, sp, handler, held, depth, catches>> /\ UNCHANGED Flagged
    BY <1>1, <1>6 DEF Recover, SpIs, Flagged, flags, history
  <2>2. Top > 0 /\ None \in Codes /\ Linked /\ FlagsOK'
    BY <1>1, <2>1 DEF Top, Codes, Linked, FlagsOK, Flagged
  <2>3. Top' = Top => SpIs' /\ InHand'  BY <1>1, <2>1, <2>2 DEF SpIs, InHand
  <2>. QED BY <1>1, <2>1, <2>2, <2>3, QuietStep DEF Places
<1>7. CASE Rethrow
  <2>1. /\ pc = "received" /\ Unwind(code, depth) /\ mem' = mem /\ UNCHANGED Flagged
    BY <1>7 DEF Rethrow, Flagged, flags, history
  <2>2. Linked /\ FlagsOK'  BY <1>1, <2>1 DEF Linked, FlagsOK, Flagged
  <2>. QED BY <1>1, <2>1, <2>2, UnwindStep
<1>8. CASE Report
  <2>1. /\ pc = "uncaught" /\ pc' = "printing" /\ said' = <<Word, code[2]>>
        /\ UNCHANGED <<mem, sp, handler, held, depth, code, catches>>
        /\ UNCHANGED <<pending, fromKey, cursor, inirq, presses, aborts>>
    BY <1>8 DEF Report, program, flags
  <2>2. said' \in {None} \cup ({"break", "brk", "other"} \X {"key", "opcode", "program"})
    <3>1. code[2] \in {"key", "opcode", "program"} \/ code = None  BY <1>1 DEF Codes
    <3>2. Word \in {"break", "brk", "other"}  BY DEF Word
    <3>3. code # None  BY <2>1 DEF Told, Unwinding
    <3>. QED BY <2>1, <3>1, <3>2, <3>3
  <2>3. FlagsOK' /\ Linked  BY <1>1, <2>1, <2>2 DEF FlagsOK, Linked
  <2>4. Top' = Top => SpIs' /\ InHand'  BY <1>1, <2>1 DEF SpIs, InHand
  <2>. QED BY <1>1, <2>1, <2>3, <2>4, QuietStep DEF Places
<1>9. CASE QUIT
  <2>1. /\ pc' = "quit" /\ handler' = 0 /\ sp' = 0 /\ depth' = 0 /\ code' = None /\ catches' = <<>>
        /\ mem' = mem /\ held' = held /\ fromKey' = FALSE
        /\ UNCHANGED <<pending, cursor, inirq, presses, aborts, said>>
    BY <1>9 DEF QUIT, history
  <2>2. Top' = 0  BY <2>1 DEF Top
  <2>3. Frames' /\ SpIs' /\ InHand'  BY <1>1, <2>1, <2>2 DEF Frames, SpIs, InHand
  <2>4. FlagsOK'  BY <1>1, <2>1 DEF FlagsOK
  <2>5. catches' \in Seq([at : 1..MaxSp, depth : 0..MaxDepth])  BY <2>1
  <2>6. 0 \in 0..MaxSp /\ 0 \in -1..MaxSp /\ 0 \in 0..MaxDepth /\ None \in Codes
    BY <1>1 DEF Codes
  <2>7. TypeOK'  BY <1>1, <2>1, <2>4, <2>5, <2>6, Types DEF Places
  <2>. QED BY <2>3, <2>7 DEF ChainInv
<1>. QED BY <1>2, <1>3, <1>4, <1>5, <1>6, <1>7, <1>8, <1>9 DEF Throw

\* Waiting for a key, and words that are no part of CATCH.
LEMMA RestStep ==
  ASSUME ChainInv, Prompt \/ Keyboard \/ Compute \/ CallKernel \/ KernelReturns
  PROVE  ChainInv'
<1>1. /\ Top \in 0..MaxCatch /\ handler = 2 * Top /\ MaxSp = 2 * MaxCatch + 2
      /\ sp \in 0..MaxSp /\ depth \in 0..MaxDepth /\ mem \in [1..MaxSp -> Cells]
      /\ code \in Codes /\ pc \in Places /\ SpIs /\ FlagsOK
  BY Bounds DEF ChainInv, TypeOK, FlagsOK
<1>2. CASE BrokenKey
  <2>1. /\ pc = "broken" /\ Unwind(<<"-28", "key">>, depth) /\ mem' = mem
        /\ cursor' = FALSE /\ aborts' = aborts + 1
        /\ UNCHANGED <<pending, fromKey, inirq, presses, said>>
    BY <1>2 DEF BrokenKey
  <2>2. <<"-28", "key">> \in Codes /\ Linked  BY <2>1 DEF Codes, Linked
  <2>3. FlagsOK'
    <3>1. aborts \in Nat /\ aborts' \in Nat  BY <1>1, <2>1 DEF FlagsOK
    <3>. QED BY <1>1, <2>1, <3>1 DEF FlagsOK
  <2>. QED BY <1>1, <2>1, <2>2, <2>3, UnwindStep
<1>3. CASE kern_getc \/ PollAborts \/ Poll \/ NoKey \/ KeyTaken \/ Keyboard \/ CallKernel \/ KernelReturns
  <2>1. /\ pc \in {"run", "poll", "getkey", "key", "getin", "kernel"}
        /\ pc' \in {"run", "poll", "getkey", "key", "getin", "kernel", "broken"}
        /\ UNCHANGED <<mem, sp, handler, held, depth, code, catches>>
    BY <1>3 DEF kern_getc, PollAborts, Poll, NoKey, KeyTaken, Keyboard, KEY, kern_getin, GetinReturns,
                CallKernel, KernelReturns, program
  <2>2. FlagsOK'
    BY <1>1, <1>3 DEF kern_getc, PollAborts, Poll, NoKey, KeyTaken, Keyboard, KEY, kern_getin,
                      GetinReturns, CallKernel, KernelReturns, FlagsOK, flags, history
  <2>3. Linked /\ pc' \in Places  BY <2>1 DEF Linked, Places
  <2>4. Top' = Top => SpIs' /\ InHand'  BY <1>1, <2>1 DEF SpIs, InHand
  <2>. QED BY <1>1, <2>1, <2>2, <2>3, <2>4, QuietStep
<1>4. CASE Compute
  <2>1. /\ pc = "run" /\ pc' = "run" /\ depth' \in 0..MaxDepth /\ UNCHANGED Flagged
        /\ UNCHANGED <<mem, sp, handler, held, code, catches>>
    BY <1>4 DEF Compute, Flagged, flags, history
  <2>2. Linked /\ FlagsOK'  BY <1>1, <2>1 DEF Linked, FlagsOK, Flagged
  <2>3. Top' = Top => SpIs' /\ InHand'  BY <1>1, <2>1 DEF SpIs, InHand
  <2>. QED BY <1>1, <2>1, <2>2, <2>3, QuietStep DEF Places
<1>. QED BY <1>2, <1>3, <1>4 DEF Prompt

\* The depth at which an abort restarts the data stack.
LEMMA SavedDepthIs ==
  ASSUME ChainInv, Linked
  PROVE  /\ SavedDepth \in 0..MaxDepth
         /\ Top > 0 => SavedDepth = catches[Top].depth
<1>1. /\ Top \in 0..MaxCatch /\ handler = 2 * Top /\ Frames
      /\ catches \in Seq([at : 1..MaxSp, depth : 0..MaxDepth])
  BY Bounds DEF ChainInv
<1>2. CASE Top = 0  BY <1>1, <1>2 DEF SavedDepth
<1>3. CASE Top > 0
  <2>1. mem[handler - 1] = <<"x", catches[Top].depth>>
    <3>1. FrameOf(Top)  BY <1>1, <1>3 DEF Frames
    <3>. QED BY <1>1, <3>1 DEF FrameOf
  <2>3. catches[Top].depth \in 0..MaxDepth  BY <1>1, <1>3, CatchIs
  <2>4. SavedDepth = catches[Top].depth  BY <1>1, <1>3, <2>1 DEF SavedDepth
  <2>. QED BY <2>3, <2>4
<1>. QED BY <1>1, <1>2, <1>3

\* Interrupts, the key's among them, at any step but those between two links.
LEMMA InterruptedStep ==
  ASSUME ChainInv, "unlinked" \notin Windows,
         BRK \/ NmiAborts \/ NmiParks \/ IrqEnters \/ IrqLeaves
  PROVE  ChainInv'
<1>1. /\ Top \in 0..MaxCatch /\ handler = 2 * Top /\ MaxSp = 2 * MaxCatch + 2
      /\ sp \in 0..MaxSp /\ depth \in 0..MaxDepth /\ mem \in [1..MaxSp -> Cells]
      /\ catches \in Seq([at : 1..MaxSp, depth : 0..MaxDepth])
      /\ handler \in -1..MaxSp /\ held \in -1..MaxSp /\ code \in Codes
      /\ pc \in Places /\ SpIs /\ InHand /\ FlagsOK
      /\ (Linked => 2 * Top <= sp) /\ (~Linked => sp = 2 * Top - 1) /\ Junk \in Cells
  BY Bounds DEF ChainInv, TypeOK, FlagsOK
<1>2. Framed \in [1..MaxSp -> Cells] /\ \A j \in 1..sp : Framed[j] = mem[j]
  BY <1>1 DEF Framed
<1>3. CASE BRK
  <2>1. /\ pc = "run" /\ Unwind(<<"-28", "opcode">>, SavedDepth) /\ mem' = mem
        /\ fromKey' = FALSE /\ pending' = FALSE /\ UNCHANGED <<cursor, inirq, presses, aborts, said>>
    BY <1>3 DEF BRK, BrkAbort, history
  <2>2. <<"-28", "opcode">> \in Codes /\ Linked /\ FlagsOK'
    BY <1>1, <2>1 DEF Codes, Linked, FlagsOK
  <2>. QED BY <1>1, <2>1, <2>2, UnwindStep, SavedDepthIs
<1>4. CASE NmiAborts
  <2>1. /\ Unwind(<<"-28", "key">>, SavedDepth) /\ mem' = Framed /\ presses < MaxPresses
        /\ presses' = presses + 1 /\ aborts' = aborts + 1
        /\ fromKey' = TRUE /\ pending' = FALSE /\ inirq' = FALSE /\ UNCHANGED <<cursor, said>>
        /\ Linked
    BY <1>4 DEF NmiAborts, BrkAbort, MayLand, InWindow, Linked
  <2>2. <<"-28", "key">> \in Codes  BY DEF Codes
  <2>3. FlagsOK'
    <3>1. aborts' \in Nat /\ presses' \in 0..MaxPresses  BY <1>1, <2>1 DEF FlagsOK
    <3>. QED BY <1>1, <2>1, <3>1 DEF FlagsOK
  <2>. QED BY <1>2, <2>1, <2>2, <2>3, UnwindStep, SavedDepthIs
<1>5. CASE IrqEnters
  <2>1. /\ inirq' = TRUE /\ mem' = Framed
        /\ UNCHANGED <<pc, sp, handler, held, depth, code, catches, pending, fromKey, cursor>>
        /\ UNCHANGED <<presses, aborts, said>>
    BY <1>5 DEF IrqEnters, history
  <2>2. \A j \in 1..(2 * Top - 1) : mem'[j] = mem[j]  BY <1>1, <1>2, <2>1
  <2>3. Linked' => Linked /\ (Top > 0 => mem'[2 * Top] = mem[2 * Top])
    BY <1>1, <1>2, <2>1 DEF Linked
  <2>4. Frames' /\ Top' = Top  BY <2>1, <2>2, <2>3, FramesKept
  <2>5. SpIs'  BY <1>1, <2>1, <2>4 DEF SpIs
  <2>6. sp > 0 => mem'[sp] = mem[sp] /\ (sp > 1 => mem'[sp - 1] = mem[sp - 1])
    BY <1>1, <1>2, <2>1
  <2>7. InHand'
    <3>1. pc = "savedX" => mem'[2 * Top + 1] = mem[2 * Top + 1]  BY <1>1, <2>6 DEF SpIs
    <3>2. pc = "savedPrev" => /\ mem'[2 * Top + 1] = mem[2 * Top + 1]
                              /\ mem'[2 * Top + 2] = mem[2 * Top + 2]
      <4>. SUFFICES ASSUME pc = "savedPrev"
                    PROVE  /\ mem'[2 * Top + 1] = mem[2 * Top + 1]
                           /\ mem'[2 * Top + 2] = mem[2 * Top + 2]
        OBVIOUS
      <4>1. sp = 2 * Top + 2 /\ sp - 1 = 2 * Top + 1 /\ sp > 1  BY <1>1 DEF SpIs
      <4>2. mem'[sp] = mem[sp] /\ mem'[sp - 1] = mem[sp - 1]  BY <1>1, <2>6, <4>1
      <4>. QED BY <4>1, <4>2, Zenon
    <3>3. pc = "linked" => mem'[sp] = mem[sp]  BY <1>1, <2>6 DEF SpIs
    <3>. QED BY <1>1, <2>1, <2>4, <3>1, <3>2, <3>3 DEF InHand
  <2>8. FlagsOK'  BY <1>1, <2>1 DEF FlagsOK
  <2>9. TypeOK'  BY <1>1, <1>2, <2>1, <2>8, Types
  <2>. QED BY <2>4, <2>5, <2>7, <2>9 DEF ChainInv
<1>6. CASE NmiParks \/ IrqLeaves
  <2>1. UNCHANGED <<pc, mem, sp, handler, held, depth, code, catches>>
    BY <1>6 DEF NmiParks, IrqLeaves, program
  <2>2. FlagsOK'
    <3>1. presses' \in 0..MaxPresses
      BY <1>1, <1>6 DEF NmiParks, IrqLeaves, FlagsOK, history
    <3>2. UNCHANGED <<fromKey, cursor, aborts, said>> /\ pending' \in BOOLEAN /\ inirq' \in BOOLEAN
      BY <1>1, <1>6 DEF NmiParks, IrqLeaves, FlagsOK, history
    <3>. QED BY <1>1, <3>1, <3>2 DEF FlagsOK
  <2>3. TypeOK'  BY <1>1, <2>1, <2>2, Types
  <2>4. Top' = Top /\ Linked' = Linked  BY <2>1 DEF Top, Linked
  <2>5. Frames'  BY <2>1, <2>4 DEF ChainInv, Frames, FrameOf
  <2>6. SpIs' /\ InHand'  BY <2>1, <2>4 DEF ChainInv, SpIs, InHand
  <2>. QED BY <2>3, <2>5, <2>6 DEF ChainInv
<1>. QED BY <1>3, <1>4, <1>5, <1>6

\* A press leads to one abort, and the flag says whether it was the key.
LEMMA ToldStep ==
  ASSUME BreakInv, Next
  PROVE  Told' /\ OnePressOneAbort'
<1>1. /\ Told /\ OnePressOneAbort /\ presses \in Nat /\ aborts \in Nat /\ pending \in BOOLEAN
      /\ code \in Codes /\ pc \in Places
  BY DEF BreakInv, ChainInv, TypeOK
<1>2. ASSUME NEW c \in Codes \ {None}, NEW d, Unwind(c, d)
      PROVE  code' = c /\ c # None /\ pc' \in Unwinding /\ pc' # "broken"
  BY <1>2 DEF Unwind, Unwinding
<1>3. CASE Catch
  <2>1. /\ pc \notin Unwinding /\ pc' \notin Unwinding /\ pc # "broken" /\ pc' # "broken"
        /\ code' = code /\ UNCHANGED Flagged
    BY <1>3 DEF Catch, CatchSavesX, CatchSavesHandler, CatchSetsHandler, CatchReturns,
                CatchRestores, CatchEnds, Flagged, flags, history, Unwinding
  <2>. QED BY <1>1, <2>1 DEF Told, OnePressOneAbort, Flagged
<1>4. CASE Throw
  <2>1. ASSUME NEW n \in {"-28", "other"}, THROW(n)
        PROVE  Told' /\ OnePressOneAbort'
    <3>1. Unwind(<<n, "program">>, depth) /\ UNCHANGED Flagged /\ pc = "run"
      BY <2>1 DEF THROW, Flagged, flags, history
    <3>2. <<n, "program">> \in Codes \ {None}  BY DEF Codes, None
    <3>3. code' = <<n, "program">> /\ code' # None /\ pc' \in Unwinding /\ pc' # "broken"
      BY <1>2, <3>1, <3>2
    <3>. QED BY <1>1, <3>1, <3>3 DEF Told, OnePressOneAbort, Flagged
  <2>2. CASE ThrowTakesHandler \/ ThrowRestores \/ ThrowArrives
    <3>1. /\ pc \in Unwinding /\ pc' \in Unwinding /\ pc # "broken" /\ pc' # "broken"
          /\ code' = code /\ UNCHANGED Flagged
      BY <2>2 DEF ThrowTakesHandler, ThrowRestores, ThrowArrives, Flagged, flags, history, Unwinding
    <3>. QED BY <1>1, <3>1 DEF Told, OnePressOneAbort, Flagged
  <2>3. CASE Recover
    <3>1. pc = "received" /\ pc' = "run" /\ code' = None /\ UNCHANGED Flagged
      BY <2>3 DEF Recover, Flagged, flags, history
    <3>. QED BY <1>1, <3>1 DEF Told, OnePressOneAbort, Flagged, Unwinding, None
  <2>4. CASE Rethrow
    <3>1. pc = "received" /\ Unwind(code, depth) /\ UNCHANGED Flagged
      BY <2>4 DEF Rethrow, Flagged, flags, history
    <3>2. code \in Codes \ {None}  BY <1>1, <3>1 DEF Told, Unwinding
    <3>3. code' = code /\ pc' \in Unwinding /\ pc' # "broken"  BY <1>2, <3>1, <3>2
    <3>. QED BY <1>1, <3>1, <3>2, <3>3 DEF Told, OnePressOneAbort, Flagged
  <2>5. CASE Report
    <3>1. /\ pc = "uncaught" /\ pc' = "printing" /\ code' = code /\ said' = <<Word, code[2]>>
          /\ UNCHANGED <<pending, fromKey, cursor, inirq, presses, aborts>>
      BY <2>5 DEF Report, program, flags
    <3>2. code[2] = "key" => Word = "break"  BY <1>1 DEF Told, Word
    <3>3. code[2] = "opcode" => Word = "brk"  BY <1>1 DEF Told, Word
    <3>. QED BY <1>1, <3>1, <3>2, <3>3 DEF Told, OnePressOneAbort, Unwinding
  <2>6. CASE QUIT
    <3>1. /\ pc = "printing" /\ pc' = "quit" /\ code' = None /\ fromKey' = FALSE
          /\ UNCHANGED <<pending, cursor, inirq, presses, aborts, said>>
      BY <2>6 DEF QUIT, history
    <3>. QED BY <1>1, <3>1 DEF Told, OnePressOneAbort, Unwinding, None
  <2>. QED BY <1>4, <2>1, <2>2, <2>3, <2>4, <2>5, <2>6 DEF Throw
<1>5. CASE BrokenKey
  <2>1. /\ pc = "broken" /\ Unwind(<<"-28", "key">>, depth) /\ aborts' = aborts + 1
        /\ UNCHANGED <<pending, fromKey, inirq, presses, said>>
    BY <1>5 DEF BrokenKey
  <2>2. <<"-28", "key">> \in Codes \ {None}  BY DEF Codes, None
  <2>3. code' = <<"-28", "key">> /\ code' # None /\ pc' \in Unwinding /\ pc' # "broken"
    BY <1>2, <2>1, <2>2
  <2>4. fromKey  BY <1>1, <2>1 DEF Told
  <2>5. Told'  BY <1>1, <2>1, <2>3, <2>4 DEF Told
  <2>6. OnePressOneAbort'  BY <1>1, <2>1, <2>3 DEF OnePressOneAbort, Told
  <2>. QED BY <2>5, <2>6
<1>6. CASE PollAborts
  <2>1. /\ pc = "poll" /\ pending /\ pc' = "broken" /\ ~pending' /\ fromKey' = TRUE /\ code' = code
        /\ UNCHANGED <<cursor, inirq, presses, aborts, said>>
    BY <1>6 DEF PollAborts, program, history
  <2>. QED BY <1>1, <2>1 DEF Told, OnePressOneAbort, Unwinding, None
<1>7. CASE kern_getc \/ Poll \/ NoKey \/ KeyTaken \/ Keyboard \/ Compute \/ CallKernel \/ KernelReturns
  <2>1. /\ pc \notin Unwinding \cup {"broken"} /\ pc' \notin Unwinding \cup {"broken"} /\ code' = code
        /\ UNCHANGED <<pending, fromKey, inirq, presses, aborts, said>>
    BY <1>7 DEF kern_getc, Poll, NoKey, KeyTaken, Keyboard, KEY, kern_getin, GetinReturns, Compute,
                CallKernel, KernelReturns, program, flags, history, Unwinding
  <2>. QED BY <1>1, <2>1 DEF Told, OnePressOneAbort
<1>8. CASE BRK
  <2>1. /\ pc = "run" /\ Unwind(<<"-28", "opcode">>, SavedDepth) /\ fromKey' = FALSE
        /\ pending' = FALSE /\ UNCHANGED <<presses, aborts, said>>
    BY <1>8 DEF BRK, BrkAbort, history
  <2>2. <<"-28", "opcode">> \in Codes \ {None}  BY DEF Codes, None
  <2>3. code' = <<"-28", "opcode">> /\ code' # None /\ pc' \in Unwinding /\ pc' # "broken"
    BY <1>2, <2>1, <2>2
  <2>. QED BY <1>1, <2>1, <2>3 DEF Told, OnePressOneAbort
<1>9. CASE NmiAborts
  <2>1. /\ Unwind(<<"-28", "key">>, SavedDepth) /\ fromKey' = TRUE /\ pending' = FALSE
        /\ presses' = presses + 1 /\ aborts' = aborts + 1 /\ said' = said
    BY <1>9 DEF NmiAborts, BrkAbort
  <2>2. <<"-28", "key">> \in Codes \ {None}  BY DEF Codes, None
  <2>3. code' = <<"-28", "key">> /\ code' # None /\ pc' \in Unwinding /\ pc' # "broken"
    BY <1>2, <2>1, <2>2
  <2>. QED BY <1>1, <2>1, <2>3 DEF Told, OnePressOneAbort
<1>10. CASE NmiParks
  <2>1. /\ pc \in {"kernel", "getkey", "getin", "printing"} /\ pc' = pc /\ code' = code /\ pending' = TRUE
        /\ presses' = presses + 1 /\ UNCHANGED <<fromKey, aborts, said>>
    BY <1>10 DEF NmiParks, InForth, InKernel, program
  <2>. QED BY <1>1, <2>1 DEF Told, OnePressOneAbort
<1>11. CASE IrqEnters \/ IrqLeaves
  <2>1. /\ pc' = pc /\ code' = code /\ UNCHANGED <<pending, fromKey, presses, aborts, said>>
    BY <1>11 DEF IrqEnters, IrqLeaves, program, history
  <2>. QED BY <1>1, <2>1 DEF Told, OnePressOneAbort
<1>. QED BY <1>3, <1>4, <1>5, <1>6, <1>7, <1>8, <1>9, <1>10, <1>11 DEF Next, Program, Prompt

LEMMA BreakStep ==
  ASSUME "unlinked" \notin Windows, BreakInv, [Next]_vars
  PROVE  BreakInv'
<1>1. CASE UNCHANGED vars
  <2>1. /\ pc' = pc /\ mem' = mem /\ sp' = sp /\ handler' = handler /\ held' = held /\ depth' = depth
        /\ code' = code /\ catches' = catches /\ pending' = pending /\ fromKey' = fromKey
        /\ cursor' = cursor /\ inirq' = inirq /\ presses' = presses /\ aborts' = aborts /\ said' = said
    BY <1>1 DEF vars, program, flags, history
  <2>2. TypeOK'  BY <2>1 DEF BreakInv, ChainInv, TypeOK
  <2>3. Frames' /\ SpIs' /\ InHand'
    BY <2>1 DEF BreakInv, ChainInv, Frames, FrameOf, SpIs, InHand, Top, Linked
  <2>4. Told' /\ OnePressOneAbort'  BY <2>1 DEF BreakInv, Told, OnePressOneAbort
  <2>. QED BY <2>2, <2>3, <2>4 DEF BreakInv, ChainInv
<1>2. CASE Next
  <2>1. ChainInv'
    BY <1>2, CatchStep, ThrowStep, RestStep, InterruptedStep DEF BreakInv, Next, Program
  <2>2. Told' /\ OnePressOneAbort'  BY <1>2, ToldStep
  <2>. QED BY <2>1, <2>2 DEF BreakInv
<1>. QED BY <1>1, <1>2

LEMMA BreakAlways ==
  ASSUME "unlinked" \notin Windows
  PROVE  Spec => []BreakInv
BY BreakInitInv, BreakStep, PTL DEF Spec

---------------------------------------------------------------------------

\* The stacks, the flags and what is reported keep their types.
THEOREM TypeCorrect ==
  ASSUME "unlinked" \notin Windows
  PROVE  Spec => []TypeOK
<1>1. BreakInv => TypeOK  BY DEF BreakInv, ChainInv
<1>. QED BY <1>1, BreakAlways, PTL

\* Wherever the key or an interrupt comes, HANDLER leads through the frames of
\* the CATCHes in progress; but between two links.
THEOREM HandlersAreTheCatches ==
  ASSUME "unlinked" \notin Windows
  PROVE  Spec => []HandlersAreCatches
<1>1. BreakInv => HandlersAreCatches
  <2>. SUFFICES ASSUME BreakInv, Linked
                PROVE  /\ handler = IF Top = 0 THEN 0 ELSE catches[Top].at
                       /\ handler <= sp
                       /\ \A i \in 1..Top :
                            /\ mem[catches[i].at] = <<"prev", IF i = 1 THEN 0 ELSE catches[i - 1].at>>
                            /\ mem[catches[i].at - 1] = <<"x", catches[i].depth>>
    BY DEF HandlersAreCatches, Top
  <2>1. /\ Top \in 0..MaxCatch /\ handler = 2 * Top /\ 2 * Top <= sp /\ \A i \in 1..Top : FrameOf(i)
    BY Bounds DEF BreakInv, ChainInv, Frames
  <2>2. \A i \in 1..Top : catches[i].at = 2 * i  BY <2>1 DEF FrameOf
  <2>3. handler = IF Top = 0 THEN 0 ELSE catches[Top].at  BY <2>1, <2>2
  <2>4. \A i \in 1..Top :
          /\ mem[catches[i].at] = <<"prev", IF i = 1 THEN 0 ELSE catches[i - 1].at>>
          /\ mem[catches[i].at - 1] = <<"x", catches[i].depth>>
    <3>. TAKE i \in 1..Top
    <3>1. /\ catches[i].at = 2 * i /\ mem[2 * i - 1] = <<"x", catches[i].depth>>
          /\ mem[2 * i] = <<"prev", 2 * (i - 1)>>
      BY <2>1 DEF FrameOf
    <3>2. 2 * (i - 1) = IF i = 1 THEN 0 ELSE catches[i - 1].at
      <4>1. i # 1 => i - 1 \in 1..Top  BY <2>1
      <4>2. i # 1 => catches[i - 1].at = 2 * (i - 1)  BY <2>2, <4>1
      <4>. QED BY <4>2
    <3>. QED BY <3>1, <3>2
  <2>. QED BY <2>1, <2>3, <2>4
<1>. QED BY <1>1, BreakAlways, PTL

\* No press of the key is delivered twice, however many come and whenever.
THEOREM OnePressAbortsOnce ==
  ASSUME "unlinked" \notin Windows
  PROVE  Spec => []OnePressOneAbort
<1>1. BreakInv => OnePressOneAbort  BY DEF BreakInv
<1>. QED BY <1>1, BreakAlways, PTL

\* The word reported tells the key from a BRK, and no abort leaves the cursor on;
\* but during the prompt's wait for a key.
THEOREM BreaksReported ==
  ASSUME "unlinked" \notin Windows, "wait" \notin Windows
  PROVE  Spec => []BreakReported
<1>. DEFINE Waits == cursor => pc \in {"poll", "getkey", "broken"}
<1>1. Init => Waits  BY DEF Init
<1>2. Waits /\ [Next]_vars => Waits'
  <2>. SUFFICES ASSUME Waits, [Next]_vars PROVE Waits'  OBVIOUS
  <2>1. CASE Catch
    BY <2>1 DEF Catch, CatchSavesX, CatchSavesHandler, CatchSetsHandler, CatchReturns,
                CatchRestores, CatchEnds, flags
  <2>2. CASE Throw \/ BRK \/ Compute \/ CallKernel \/ KernelReturns
    BY <2>2 DEF Throw, THROW, ThrowTakesHandler, ThrowRestores, ThrowArrives, Recover, Rethrow,
                Report, QUIT, BRK, Compute, CallKernel, KernelReturns, flags
  <2>3. CASE Prompt \/ Keyboard
    BY <2>3 DEF Prompt, kern_getc, PollAborts, BrokenKey, Poll, NoKey, KeyTaken, Keyboard, KEY,
                kern_getin, GetinReturns, flags
  <2>4. CASE NmiAborts
    BY <2>4 DEF NmiAborts, MayLand, InWindow
  <2>5. CASE NmiParks \/ IrqEnters \/ IrqLeaves \/ UNCHANGED vars
    BY <2>5 DEF NmiParks, IrqEnters, IrqLeaves, vars, flags
  <2>. QED BY <2>1, <2>2, <2>3, <2>4, <2>5 DEF Next, Program
<1>3. BreakInv /\ Waits => BreakReported  BY DEF BreakInv, Told, BreakReported
<1>. HIDE DEF Waits
<1>. QED BY <1>1, <1>2, <1>3, BreakAlways, PTL DEF Spec

\* An abort restarts the data stack at the depth of the CATCH that receives it.
THEOREM AbortsBelowLiveData ==
  ASSUME "unlinked" \notin Windows
  PROVE  Spec => BelowLiveData
<1>1. BreakInv /\ [Next]_vars
        => [(NmiAborts \/ BRK) /\ Linked /\ catches # <<>> => depth' = Last(catches).depth]_vars
  <2>. SUFFICES ASSUME BreakInv, NmiAborts \/ BRK, Linked, catches # <<>>
                PROVE  depth' = Last(catches).depth
    OBVIOUS
  <2>1. depth' = SavedDepth  BY DEF NmiAborts, BRK, BrkAbort, Unwind
  <2>2. Top > 0 /\ catches \in Seq([at : 1..MaxSp, depth : 0..MaxDepth])
    BY Bounds DEF BreakInv, Top
  <2>3. SavedDepth = catches[Top].depth  BY <2>2, SavedDepthIs DEF BreakInv
  <2>. QED BY <2>1, <2>3 DEF Last, Top
<1>. QED BY <1>1, BreakAlways, PTL DEF Spec, BelowLiveData
=============================================================================
