------------------------- MODULE ReadAheadProofs -------------------------
(***************************************************************************)
(* For every number of files, lengths, fill size and nesting depth: the    *)
(* read-ahead cache never shows.  The induction needs three facts at once, *)
(* because flushing keeps the kernel's position in range only if the cache *)
(* is the current file's, and that only if no two sources share a handle.  *)
(***************************************************************************)
EXTENDS ReadAhead, SequenceTheorems, TLAPS

USE ReadAheadAssumption

Inv == TypeOK /\ SourcesOpen /\ CacheIsCurrent

\* What stands in the way of reading the current source.
LEMMA CurrentFacts ==
  ASSUME TypeOK, SourcesOpen
  PROVE  /\ Current \in {Console, Eval} \cup Handles
         /\ Current > 0 => Current \in Handles /\ Current \in opn
         /\ Current \in Handles => Current > 0
         /\ Unread \in Nat
<1>1. Len(srcs) \in DOMAIN srcs /\ Current \in {Console, Eval} \cup Handles
  BY DEF TypeOK, Current
<1>2. Current > 0 => Current \in opn
  BY <1>1 DEF SourcesOpen, Current
<1>3. Unread \in Nat
  BY DEF TypeOK, Unread
<1>. HIDE DEF Current
<1>4. Current \in Handles => Current > 0
  OBVIOUS
<1>5. Current > 0 => Current \in Handles
  BY <1>1 DEF Console, Eval
<1>. QED
  BY <1>1, <1>2, <1>3, <1>4, <1>5

\* Pushing a source makes it current and leaves those below where they are.
LEMMA PushFacts ==
  ASSUME TypeOK, NEW s \in {Console, Eval} \cup Handles, Len(srcs) <= MaxDepth,
         srcs' = Append(srcs, s)
  PROVE  /\ srcs' \in Seq({Console, Eval} \cup Handles)
         /\ Len(srcs') \in 1..(MaxDepth + 1)
         /\ Current' = s
         /\ Len(srcs') = Len(srcs) + 1
         /\ srcs'[Len(srcs) + 1] = s
         /\ \A i \in 1..Len(srcs) : srcs'[i] = srcs[i]
BY AppendProperties DEF TypeOK, Current

\* Leaving one removes exactly it.
LEMMA PopFacts ==
  ASSUME TypeOK, Len(srcs) > 1, srcs' = SubSeq(srcs, 1, Len(srcs) - 1)
  PROVE  /\ srcs' \in Seq({Console, Eval} \cup Handles)
         /\ Len(srcs') \in 1..(MaxDepth + 1)
         /\ Current' = srcs[Len(srcs) - 1]
         /\ Len(srcs') = Len(srcs) - 1
         /\ \A i \in 1..Len(srcs') : srcs'[i] = srcs[i]
BY SubSeqProperties DEF TypeOK, Current

LEMMA InitInv == Init => Inv
BY EmptySeq DEF Init, Inv, TypeOK, SourcesOpen, CacheIsCurrent, Current, Unread,
                Console, Eval, Bytes

\* A flush leaves every file where its reader is, and nothing cached.
LEMMA FlushFacts ==
  ASSUME Inv, Flush
  PROVE  /\ cache' = <<>> /\ cpos' = 0
         /\ kpos' = Delivered
         /\ kpos' \in [Handles -> 0..MaxLen]
         /\ \A h \in Handles : kpos'[h] <= kpos[h]
<1>1. /\ Unread \in Nat
      /\ Current > 0 => Current \in Handles /\ Unread <= kpos[Current]
      /\ Current \in Handles => Current > 0
  BY CurrentFacts DEF Inv, CacheIsCurrent
<1>2. kpos \in [Handles -> 0..MaxLen]
  BY DEF Inv, TypeOK
<1>. HIDE DEF Current, Unread
<1>3. CASE Current > 0
  <2>1. kpos' = [kpos EXCEPT ![Current] = @ - Unread]
    BY <1>3 DEF Flush
  <2>2. kpos' \in [Handles -> 0..MaxLen]
    <3>1. kpos[Current] \in 0..MaxLen
      BY <1>1, <1>2, <1>3
    <3>2. kpos[Current] - Unread \in 0..MaxLen
      BY <1>1, <1>3, <3>1
    <3>. QED BY <1>1, <1>2, <1>3, <2>1, <3>2
  <2>3. \A h \in Handles :
          /\ kpos'[h] = kpos[h] - (IF h = Current THEN Unread ELSE 0)
          /\ kpos'[h] <= kpos[h]
    BY <1>1, <1>2, <1>3, <2>1
  <2>4. kpos' = Delivered
    BY <2>2, <2>3 DEF Delivered
  <2>. QED BY <2>2, <2>3, <2>4 DEF Flush, Dropped
<1>4. CASE ~(Current > 0)
  <2>1. kpos' = kpos /\ \A h \in Handles : h # Current
    BY <1>1, <1>4 DEF Flush
  <2>2. \A h \in Handles : kpos'[h] = kpos[h] - (IF h = Current THEN Unread ELSE 0)
    BY <1>2, <2>1
  <2>3. kpos' = Delivered
    BY <1>2, <2>1, <2>2 DEF Delivered
  <2>4. \A h \in Handles : kpos'[h] <= kpos[h]
    BY <1>2, <2>1
  <2>5. cache' = <<>> /\ cpos' = 0
    BY DEF Flush, Dropped
  <2>. QED BY <1>2, <2>1, <2>3, <2>4, <2>5
<1>. QED BY <1>3, <1>4

\* An empty cache is anybody's.
LEMMA EmptyCacheCurrent ==
  ASSUME cache' = <<>>, cpos' = 0, kpos' \in [Handles -> 0..MaxLen],
         Current' > 0 => Current' \in Handles
  PROVE  CacheIsCurrent'
<1>1. Len(cache') = 0 /\ Unread' = 0
  BY DEF Unread
<1>2. \A i : i \notin (cpos' + 1)..Len(cache')
  BY <1>1
<1>3. Current' > 0 => kpos'[Current'] \in Nat
  OBVIOUS
<1>. HIDE DEF Current, Unread
<1>. QED BY <1>1, <1>2, <1>3 DEF CacheIsCurrent

\* The cache's part of the type invariant, when it is emptied.
LEMMA EmptyCacheType ==
  ASSUME cache' = <<>>, cpos' = 0
  PROVE  (/\ cache \in Seq(Bytes)
          /\ Len(cache) <= CacheSize
          /\ cpos \in 0..Len(cache))'
BY EmptySeq

---------------------------------------------------------------------------
(* Each kind of step keeps the invariant.                                  *)

LEMMA ServeStep == Inv /\ ServeByte => Inv'
<1>. SUFFICES ASSUME Inv, ServeByte PROVE Inv'
  OBVIOUS
<1>1. cpos + 1 \in 1..Len(cache) /\ cache[cpos + 1] \in Bytes
  BY DEF Inv, TypeOK, ServeByte
<1>2. TypeOK'
  BY <1>1 DEF Inv, TypeOK, ServeByte
<1>3. SourcesOpen'
  BY DEF Inv, SourcesOpen, ServeByte
<1>4. CacheIsCurrent'
  <2>1. Current' = Current /\ Unread' = Unread - 1 /\ Unread \in Nat
    BY <1>1, CurrentFacts DEF Inv, ServeByte, Current, Unread, TypeOK
  <2>2. /\ Current > 0 /\ Current \in Handles
        /\ Unread <= kpos[Current]
        /\ \A i \in (cpos + 1)..Len(cache) :
             cache[i] = <<Current, kpos[Current] - Len(cache) + i - 1>>
    BY CurrentFacts DEF Inv, CacheIsCurrent, ServeByte
  <2>3. kpos[Current] \in Nat /\ cpos \in Nat /\ Len(cache) \in Nat
    BY <2>2 DEF Inv, TypeOK
  <2>. HIDE DEF Current, Unread
  <2>. QED BY <2>1, <2>2, <2>3 DEF CacheIsCurrent, ServeByte
<1>. QED BY <1>2, <1>3, <1>4 DEF Inv

\* A flush leaves every file's position within the file.
LEMMA FlushBounds ==
  ASSUME Inv, Flush, NEW h \in Handles
  PROVE  /\ kpos'[h] <= len[h]
         /\ h \notin opn => kpos'[h] = 0 /\ len[h] = 0
<1>1. kpos'[h] \in Nat /\ kpos'[h] <= kpos[h]
  BY FlushFacts
<1>2. /\ kpos[h] <= len[h]
      /\ h \notin opn => kpos[h] = 0 /\ len[h] = 0
  BY DEF Inv, SourcesOpen
<1>3. kpos[h] \in Nat /\ len[h] \in Nat
  BY DEF Inv, TypeOK
<1>. QED BY <1>1, <1>2, <1>3

LEMMA FillStep == ASSUME Inv, NEW n \in 1..CacheSize, FillByte(n) PROVE Inv'
<1>1. Current \in Handles /\ Current' = Current
  BY CurrentFacts DEF Inv, FillByte, Current
<1>2. /\ kpos \in [Handles -> 0..MaxLen] /\ len \in [Handles -> 0..MaxLen]
      /\ kpos[Current] + n <= len[Current]
      /\ kpos[Current] \in 0..MaxLen
      /\ kpos' = [kpos EXCEPT ![Current] = @ + n]
      /\ len' = len /\ opn' = opn /\ srcs' = srcs
      /\ cpos' = 1
  BY <1>1 DEF Inv, TypeOK, FillByte
<1>. DEFINE b == [i \in 1..n |-> <<Current, kpos[Current] + i - 1>>]
<1>3. cache' = b /\ b \in Seq(Bytes) /\ Len(b) = n
  <2>1. \A i \in 1..n : <<Current, kpos[Current] + i - 1>> \in Bytes
    BY <1>1, <1>2 DEF Bytes
  <2>. QED BY <2>1 DEF FillByte
<1>4. kpos' \in [Handles -> 0..MaxLen]
  BY <1>1, <1>2
<1>5. TypeOK'
  <2>1. last' \in Bytes
    BY <1>1, <1>2 DEF FillByte, Bytes
  <2>2. /\ cache' \in Seq(Bytes)
        /\ Len(cache') <= CacheSize
        /\ cpos' \in 0..Len(cache')
    <3>. HIDE DEF b
    <3>. QED BY <1>2, <1>3
  <2>. QED BY <1>2, <1>4, <2>1, <2>2 DEF Inv, TypeOK
<1>6. SourcesOpen'
  <2>1. Current \in opn
    BY <1>1, CurrentFacts DEF Inv
  <2>. QED BY <1>1, <1>2, <2>1 DEF Inv, SourcesOpen
<1>7. CacheIsCurrent'
  BY <1>1, <1>2, <1>3 DEF CacheIsCurrent, Unread
<1>. QED BY <1>5, <1>6, <1>7 DEF Inv

LEMMA EndsStep == Inv /\ FileEnds => Inv'
<1>. SUFFICES ASSUME Inv, FileEnds PROVE Inv'
  OBVIOUS
<1>1. Current \in Handles /\ Current' = Current
  BY CurrentFacts DEF Inv, FileEnds, Current
<1>2. TypeOK'
  BY <1>1, EmptyCacheType DEF Inv, TypeOK, FileEnds, Dropped
<1>3. SourcesOpen'
  BY DEF Inv, SourcesOpen, FileEnds
<1>4. CacheIsCurrent'
  BY <1>1, EmptyCacheCurrent DEF Inv, TypeOK, FileEnds, Dropped
<1>. QED BY <1>2, <1>3, <1>4 DEF Inv

LEMMA CloseStep == Inv /\ CLOSE_INPUT_SOURCE => Inv'
<1>. SUFFICES ASSUME Inv, CLOSE_INPUT_SOURCE PROVE Inv'
  OBVIOUS
<1>1. /\ srcs' \in Seq({Console, Eval} \cup Handles)
      /\ Len(srcs') \in 1..(MaxDepth + 1)
      /\ Current' = srcs[Len(srcs) - 1]
      /\ Len(srcs') = Len(srcs) - 1
      /\ \A i \in 1..Len(srcs') : srcs'[i] = srcs[i]
  BY PopFacts DEF Inv, CLOSE_INPUT_SOURCE
<1>2. TypeOK'
  <2>. HIDE DEF Current
  <2>1. /\ len' \in [Handles -> 0..MaxLen]
        /\ kpos' \in [Handles -> 0..MaxLen]
    BY DEF Inv, TypeOK, CLOSE_INPUT_SOURCE, Forget
  <2>2. opn' \subseteq Handles /\ last' = <<>>
    BY DEF Inv, TypeOK, CLOSE_INPUT_SOURCE, Forget
  <2>. QED BY <1>1, <2>1, <2>2, EmptyCacheType DEF TypeOK, CLOSE_INPUT_SOURCE, Dropped
<1>3. SourcesOpen'
  <2>1. \A i \in 1..Len(srcs') : srcs[i] > 0 => srcs[i] # Current
    BY <1>1 DEF Inv, TypeOK, SourcesOpen, Current
  <2>. QED BY <1>1, <2>1 DEF Inv, TypeOK, SourcesOpen, CLOSE_INPUT_SOURCE, Forget
<1>4. CacheIsCurrent'
  <2>1. Current' > 0 => Current' \in Handles
    BY <1>1, Len(srcs) - 1 \in 1..Len(srcs) DEF Inv, TypeOK, CLOSE_INPUT_SOURCE, Console, Eval
  <2>. QED BY <1>2, <2>1, EmptyCacheCurrent DEF TypeOK, CLOSE_INPUT_SOURCE, Dropped
<1>. QED BY <1>2, <1>3, <1>4 DEF Inv

LEMMA QuitStep == Inv /\ QUIT => Inv'
<1>. SUFFICES ASSUME Inv, QUIT PROVE Inv'
  OBVIOUS
<1>1. Current' = Console
  BY DEF QUIT, Current
<1>2. TypeOK'
  BY DEF Inv, TypeOK, QUIT, Forget
<1>3. SourcesOpen'
  BY DEF Inv, TypeOK, SourcesOpen, QUIT, Forget, Console
<1>4. CacheIsCurrent'
  BY <1>1 DEF CacheIsCurrent, Console
<1>. QED BY <1>2, <1>3, <1>4 DEF Inv

LEMMA IncludedStep ==
  ASSUME Inv, NEW h \in Handles, NEW n \in 0..MaxLen, INCLUDED(h, n)
  PROVE  Inv'
<1>. USE FlushFacts DEF INCLUDED, Push
<1>1. /\ srcs' \in Seq({Console, Eval} \cup Handles)
      /\ Len(srcs') \in 1..(MaxDepth + 1)
      /\ Current' = h
      /\ Len(srcs') = Len(srcs) + 1
      /\ srcs'[Len(srcs) + 1] = h
      /\ \A i \in 1..Len(srcs) : srcs'[i] = srcs[i]
  BY PushFacts DEF Inv
<1>2. TypeOK'
  BY <1>1, EmptyCacheType DEF Inv, TypeOK
<1>3. SourcesOpen'
  <2>1. h > 0 /\ kpos[h] = 0
    BY DEF Inv, SourcesOpen
  <2>2. \A i \in 1..Len(srcs) : srcs[i] > 0 => srcs[i] # h
    BY DEF Inv, TypeOK, SourcesOpen
  <2>3. \A i \in 1..Len(srcs') : i \in 1..Len(srcs) \/ i = Len(srcs) + 1
    BY <1>1 DEF Inv, TypeOK
  <2>4. \A i, j \in DOMAIN srcs' : srcs'[i] > 0 /\ srcs'[i] = srcs'[j] => i = j
    BY <1>1, <2>2, <2>3 DEF Inv, TypeOK, SourcesOpen
  <2>5. \A i \in DOMAIN srcs' : srcs'[i] > 0 => srcs'[i] \in opn'
    BY <1>1, <2>3 DEF Inv, TypeOK, SourcesOpen
  <2>6. \A k \in Handles :
          kpos'[k] <= len'[k] /\ (k \notin opn' => kpos'[k] = 0 /\ len'[k] = 0)
    BY <2>1 DEF Inv, TypeOK, SourcesOpen
  <2>. QED BY <2>4, <2>5, <2>6 DEF SourcesOpen
<1>4. CacheIsCurrent'
  BY <1>1, EmptyCacheCurrent
<1>. QED BY <1>2, <1>3, <1>4 DEF Inv

LEMMA FailsStep == Inv /\ IncludeFails => Inv'
<1>. SUFFICES ASSUME Inv, IncludeFails PROVE Inv'
  OBVIOUS
<1>. USE FlushFacts DEF IncludeFails
<1>1. Current' = Current /\ (Current > 0 => Current \in Handles)
  BY CurrentFacts DEF Inv, Current
<1>2. TypeOK'
  BY EmptyCacheType DEF Inv, TypeOK
<1>3. SourcesOpen'
  <2>1. \A h \in Handles :
          kpos'[h] <= len'[h] /\ (h \notin opn' => kpos'[h] = 0 /\ len'[h] = 0)
    BY FlushBounds
  <2>. QED BY <2>1 DEF Inv, SourcesOpen
<1>4. CacheIsCurrent'
  BY <1>1, EmptyCacheCurrent
<1>. QED BY <1>2, <1>3, <1>4 DEF Inv

LEMMA EvaluateStep == Inv /\ EVALUATE => Inv'
<1>. SUFFICES ASSUME Inv, EVALUATE PROVE Inv'
  OBVIOUS
<1>. USE FlushFacts DEF EVALUATE, Push
<1>1. /\ srcs' \in Seq({Console, Eval} \cup Handles)
      /\ Len(srcs') \in 1..(MaxDepth + 1)
      /\ Current' = Eval
      /\ Len(srcs') = Len(srcs) + 1
      /\ srcs'[Len(srcs) + 1] = Eval
      /\ \A i \in 1..Len(srcs) : srcs'[i] = srcs[i]
  BY PushFacts DEF Inv
<1>2. TypeOK'
  BY <1>1, EmptyCacheType DEF Inv, TypeOK
<1>3. SourcesOpen'
  <2>1. \A i \in 1..Len(srcs') : i \in 1..Len(srcs) \/ i = Len(srcs) + 1
    BY <1>1 DEF Inv, TypeOK
  <2>2. \A i \in DOMAIN srcs' : srcs'[i] > 0 => i \in 1..Len(srcs)
    BY <1>1, <2>1 DEF Eval
  <2>3. \A i \in DOMAIN srcs' : srcs'[i] > 0 => srcs'[i] \in opn'
    BY <1>1, <2>2 DEF Inv, TypeOK, SourcesOpen
  <2>4. \A i, j \in DOMAIN srcs' : srcs'[i] > 0 /\ srcs'[i] = srcs'[j] => i = j
    <3>. SUFFICES ASSUME NEW i \in DOMAIN srcs', NEW j \in DOMAIN srcs',
                         srcs'[i] > 0, srcs'[i] = srcs'[j]
                  PROVE  i = j
      OBVIOUS
    <3>1. i \in 1..Len(srcs) /\ j \in 1..Len(srcs)
      BY <2>2
    <3>. QED BY <1>1, <3>1 DEF Inv, TypeOK, SourcesOpen
  <2>5. \A h \in Handles :
          kpos'[h] <= len'[h] /\ (h \notin opn' => kpos'[h] = 0 /\ len'[h] = 0)
    BY FlushBounds
  <2>. QED BY <2>3, <2>4, <2>5 DEF SourcesOpen
<1>4. CacheIsCurrent'
  BY <1>1, EmptyCacheCurrent DEF Eval
<1>. QED BY <1>2, <1>3, <1>4 DEF Inv

LEMMA CloseSourceStep == Inv /\ CloseSource => Inv'
<1>. SUFFICES ASSUME Inv, CloseSource PROVE Inv'
  OBVIOUS
<1>1. Current \in Handles /\ Current \in opn /\ Current' = Current
  BY CurrentFacts DEF Inv, CloseSource, Current
<1>2. kpos' = [kpos EXCEPT ![Current] = len[Current]]
  BY DEF CloseSource
<1>3. TypeOK'
  BY <1>1, <1>2, EmptyCacheType DEF Inv, TypeOK, CloseSource, Dropped
<1>4. SourcesOpen'
  BY <1>1, <1>2 DEF Inv, TypeOK, SourcesOpen, CloseSource
<1>5. CacheIsCurrent'
  BY <1>1, <1>3, EmptyCacheCurrent DEF TypeOK, CloseSource, Dropped
<1>. QED BY <1>3, <1>4, <1>5 DEF Inv

LEMMA StutterStep == Inv /\ UNCHANGED vars => Inv'
BY DEF Inv, TypeOK, SourcesOpen, CacheIsCurrent, Current, Unread, vars

LEMMA InvStep == Inv /\ [Next]_vars => Inv'
BY ServeStep, FillStep, EndsStep, CloseStep, QuitStep, IncludedStep, FailsStep,
   EvaluateStep, CloseSourceStep, StutterStep DEF Next, Read, Switch

LEMMA Invariance == Spec => []Inv
BY InitInv, InvStep, PTL DEF Spec

(***************************************************************************)
(* Handles, positions and the cache keep their types, the kernel's         *)
(* positions never run negative or past an end of file.                    *)
(***************************************************************************)
THEOREM TypeCorrect == Spec => []TypeOK
BY Invariance, PTL DEF Inv

(***************************************************************************)
(* The unread part of the cache is always the current file's.              *)
(***************************************************************************)
THEOREM CacheNeverStale == Spec => []CacheIsCurrent
BY Invariance, PTL DEF Inv

---------------------------------------------------------------------------
(* The refinement.                                                         *)

\* The same facts with what each file has delivered.
LEMMA DeliveredFacts ==
  ASSUME Inv
  PROVE  /\ Delivered \in [Handles -> Int]
         /\ \A h \in Handles : h # Current => Delivered[h] = kpos[h]
         /\ Current > 0 => Delivered[Current] = kpos[Current] - Unread
<1>1. /\ Unread \in Nat
      /\ Current > 0 => Current \in Handles
      /\ kpos \in [Handles -> 0..MaxLen]
  BY CurrentFacts DEF Inv, TypeOK
<1>. HIDE DEF Current, Unread
<1>. QED BY <1>1 DEF Delivered

\* With an empty cache a file has delivered what the kernel has passed.
LEMMA DeliveredEmpty ==
  ASSUME cache' = <<>>, cpos' = 0, kpos' \in [Handles -> 0..MaxLen]
  PROVE  Delivered' = kpos'
<1>1. Unread' = 0
  BY DEF Unread
<1>2. Delivered' = [h \in Handles |-> kpos'[h] - (IF h = Current' THEN Unread' ELSE 0)]
  BY DEF Delivered
<1>. HIDE DEF Delivered, Current, Unread
<1>. QED BY <1>1, <1>2

LEMMA InitRefines == Init => FS!Init
BY DEF Init, FS!Init, Delivered, Unread, Current

LEMMA ServeRefines == ASSUME Inv, ServeByte PROVE FS!Deliver(Current)
<1>1. /\ Current \in Handles /\ Current \in opn
      /\ Current' = Current
      /\ kpos \in [Handles -> 0..MaxLen]
      /\ kpos[Current] <= len[Current]
      /\ kpos' = kpos
  BY CurrentFacts DEF Inv, TypeOK, SourcesOpen, ServeByte, Current
<1>2. cpos + 1 \in (cpos + 1)..Len(cache) /\ Unread \in Nat /\ Unread > 0
      /\ Unread' = Unread - 1 /\ cpos \in Nat /\ Len(cache) \in Nat
      /\ Unread = Len(cache) - cpos
  BY DEF Inv, TypeOK, ServeByte, Unread
<1>3. cache[cpos + 1] = <<Current, kpos[Current] - Len(cache) + (cpos + 1) - 1>>
  BY <1>2 DEF Inv, CacheIsCurrent, ServeByte
<1>4. Delivered[Current] = kpos[Current] - Unread
  BY DeliveredFacts DEF ServeByte
<1>5. last' = <<Current, Delivered[Current]>>
  <2>1. kpos[Current] - Len(cache) + (cpos + 1) - 1 = kpos[Current] - Unread
    BY <1>1, <1>2
  <2>. QED BY <1>3, <1>4, <2>1 DEF ServeByte
<1>6. Delivered' = [Delivered EXCEPT ![Current] = @ + 1]
  <2>. HIDE DEF Current, Unread
  <2>1. \A h \in Handles :
          kpos'[h] - (IF h = Current' THEN Unread' ELSE 0) =
          IF h = Current THEN Delivered[h] + 1 ELSE Delivered[h]
    BY <1>1, <1>2, DeliveredFacts
  <2>2. Delivered' = [h \in Handles |-> kpos'[h] - (IF h = Current' THEN Unread' ELSE 0)]
    BY DEF Delivered
  <2>3. Delivered \in [Handles -> Int]
    BY DeliveredFacts
  <2>. HIDE DEF Delivered
  <2>. QED BY <2>1, <2>2, <2>3
<1>7. Delivered[Current] < len[Current] /\ len' = len /\ opn' = opn
  BY <1>1, <1>2, <1>4 DEF Inv, TypeOK, ServeByte
<1>. QED BY <1>1, <1>5, <1>6, <1>7 DEF FS!Deliver

LEMMA FillRefines ==
  ASSUME Inv, NEW n \in 1..CacheSize, FillByte(n)
  PROVE  FS!Deliver(Current)
<1>1. /\ Current \in Handles /\ Current \in opn
      /\ Current' = Current
      /\ kpos \in [Handles -> 0..MaxLen]
      /\ kpos[Current] \in Nat
      /\ len[Current] \in Nat
      /\ kpos[Current] + n <= len[Current]
      /\ kpos' = [kpos EXCEPT ![Current] = @ + n]
      /\ len' = len /\ opn' = opn
      /\ last' = <<Current, kpos[Current]>>
  <2>1. Current \in Handles /\ Current \in opn /\ Current' = Current
    BY CurrentFacts DEF Inv, FillByte, Current
  <2>2. /\ kpos \in [Handles -> 0..MaxLen]
        /\ len \in [Handles -> 0..MaxLen]
    BY DEF Inv, TypeOK
  <2>3. kpos[Current] \in Nat /\ len[Current] \in Nat
    BY <2>1, <2>2
  <2>4. kpos[Current] + n <= len[Current]
    BY <2>3 DEF FillByte
  <2>. QED BY <2>1, <2>2, <2>3, <2>4 DEF FillByte
<1>2. Unread = 0 /\ Unread' = n - 1
  <2>1. Len(cache') = n
    BY DEF FillByte
  <2>. QED BY <2>1 DEF Inv, TypeOK, FillByte, Unread
<1>3. Delivered[Current] = kpos[Current]
  BY <1>1, <1>2, DeliveredFacts DEF FillByte
<1>4. Delivered' = [Delivered EXCEPT ![Current] = @ + 1]
  <2>. HIDE DEF Current, Unread
  <2>1. \A h \in Handles :
          kpos'[h] - (IF h = Current' THEN Unread' ELSE 0) =
          IF h = Current THEN Delivered[h] + 1 ELSE Delivered[h]
    BY <1>1, <1>2, DeliveredFacts
  <2>2. Delivered' = [h \in Handles |-> kpos'[h] - (IF h = Current' THEN Unread' ELSE 0)]
    BY DEF Delivered
  <2>3. Delivered \in [Handles -> Int]
    BY DeliveredFacts
  <2>. HIDE DEF Delivered
  <2>. QED BY <2>1, <2>2, <2>3
<1>. QED BY <1>1, <1>3, <1>4 DEF FS!Deliver

LEMMA EndsRefines == ASSUME Inv, FileEnds PROVE FS!End(Current)
<1>1. /\ Current \in Handles /\ Current \in opn
      /\ kpos \in [Handles -> 0..MaxLen] /\ kpos' = kpos
      /\ cache' = <<>> /\ cpos' = 0
  BY CurrentFacts DEF Inv, TypeOK, FileEnds, Dropped
<1>2. Unread = 0
  BY DEF Inv, TypeOK, FileEnds, Unread
<1>3. Delivered = kpos
  <2>. HIDE DEF Current, Unread
  <2>. QED BY <1>1, <1>2 DEF Delivered
<1>4. Delivered' = kpos'
  BY <1>1, DeliveredEmpty
<1>. QED BY <1>1, <1>3, <1>4 DEF FS!End, FileEnds

LEMMA CloseRefines == ASSUME Inv, CLOSE_INPUT_SOURCE PROVE FS!Close({Current})
<1>1. /\ kpos' \in [Handles -> 0..MaxLen] /\ cache' = <<>> /\ cpos' = 0
  BY CloseStep DEF Inv, TypeOK, CLOSE_INPUT_SOURCE, Dropped
<1>2. Delivered' = kpos'
  BY <1>1, DeliveredEmpty
<1>3. kpos' = [h \in Handles |-> IF h \in {Current} THEN 0 ELSE Delivered[h]]
  <2>1. kpos' = [h \in Handles |-> IF h = Current THEN 0 ELSE kpos[h]]
    BY DEF CLOSE_INPUT_SOURCE
  <2>. HIDE DEF Current, Delivered
  <2>. QED BY <2>1, DeliveredFacts
<1>. QED BY <1>2, <1>3 DEF FS!Close, CLOSE_INPUT_SOURCE, Forget

LEMMA QuitRefines == ASSUME Inv, QUIT PROVE FS!Close(Handles)
<1>1. Current' = Console /\ kpos' = [h \in Handles |-> 0]
  BY DEF QUIT, Current
<1>2. \A h \in Handles : h # Current'
  BY <1>1 DEF Console
<1>3. Delivered' = [h \in Handles |-> kpos'[h] - (IF h = Current' THEN Unread' ELSE 0)]
  BY DEF Delivered
<1>4. Delivered' = [h \in Handles |-> 0]
  <2>. HIDE DEF Delivered, Current, Unread
  <2>. QED BY <1>1, <1>2, <1>3
<1>5. Delivered' = [h \in Handles |-> IF h \in Handles THEN 0 ELSE Delivered[h]]
  <2>. HIDE DEF Delivered
  <2>. QED BY <1>4
<1>. QED BY <1>5 DEF FS!Close, QUIT, Forget

LEMMA IncludedRefines ==
  ASSUME Inv, NEW h \in Handles, NEW n \in 0..MaxLen, INCLUDED(h, n)
  PROVE  FS!Open(h, n)
<1>1. Delivered' = kpos' /\ kpos' = Delivered
  BY FlushFacts, DeliveredEmpty DEF INCLUDED, Push
<1>2. h # Current /\ kpos[h] = 0
  BY CurrentFacts DEF Inv, SourcesOpen, INCLUDED
<1>3. Delivered[h] = 0 /\ Delivered \in [Handles -> Int]
  BY <1>2, DeliveredFacts
<1>4. Delivered' = [Delivered EXCEPT ![h] = 0]
  <2>. HIDE DEF Delivered
  <2>. QED BY <1>1, <1>3
<1>. QED BY <1>4 DEF FS!Open, INCLUDED, Push

\* Sources that come and go without touching a file.
LEMMA SwitchRefines == Inv /\ (IncludeFails \/ EVALUATE) => FS!Close({})
<1>. SUFFICES ASSUME Inv, IncludeFails \/ EVALUATE PROVE FS!Close({})
  OBVIOUS
<1>1. Delivered' = kpos' /\ kpos' = Delivered
  BY FlushFacts, DeliveredEmpty DEF IncludeFails, EVALUATE, Push
<1>2. Delivered' = [h \in Handles |-> IF h \in {} THEN 0 ELSE Delivered[h]]
  BY <1>1, DeliveredFacts
<1>3. len' = [h \in Handles |-> IF h \in {} THEN 0 ELSE len[h]]
  BY DEF Inv, TypeOK, IncludeFails, EVALUATE
<1>. QED BY <1>2, <1>3 DEF FS!Close, IncludeFails, EVALUATE, Push

LEMMA CloseSourceRefines == ASSUME Inv, CloseSource PROVE FS!SkipRest(Current)
<1>1. /\ Current \in Handles /\ Current \in opn
      /\ kpos' = [kpos EXCEPT ![Current] = len[Current]]
      /\ kpos \in [Handles -> 0..MaxLen]
  BY CurrentFacts DEF Inv, TypeOK, CloseSource
<1>2. Delivered' = kpos'
  BY CloseSourceStep, DeliveredEmpty DEF Inv, TypeOK, CloseSource, Dropped
<1>3. kpos' = [Delivered EXCEPT ![Current] = len[Current]]
  <2>. HIDE DEF Current, Delivered
  <2>. QED BY <1>1, DeliveredFacts
<1>. QED BY <1>1, <1>2, <1>3 DEF FS!SkipRest, CloseSource

LEMMA StepRefines == Inv /\ [Next]_vars => [FS!Next]_(FS!vars)
<1>. SUFFICES ASSUME Inv, [Next]_vars PROVE [FS!Next]_(FS!vars)
  OBVIOUS
<1>1. CASE ServeByte
  <2>1. Current \in Handles
    BY <1>1, CurrentFacts DEF Inv, ServeByte
  <2>. QED BY <1>1, <2>1, ServeRefines DEF FS!Next
<1>2. CASE \E n \in 1..CacheSize : FillByte(n)
  <2>1. Current \in Handles
    BY <1>2, CurrentFacts DEF Inv, FillByte
  <2>. QED BY <1>2, <2>1, FillRefines DEF FS!Next
<1>3. CASE FileEnds
  <2>1. Current \in Handles
    BY <1>3, CurrentFacts DEF Inv, FileEnds
  <2>. QED BY <1>3, <2>1, EndsRefines DEF FS!Next
<1>4. CASE CLOSE_INPUT_SOURCE
  <2>1. FS!Close({Current} \cap Handles)
    <3>1. FS!Close({Current})
      BY <1>4, CloseRefines
    <3>2. opn \subseteq Handles
      BY DEF Inv, TypeOK
    <3>. HIDE DEF Current, Delivered
    <3>. QED BY <3>1, <3>2 DEF FS!Close
  <2>. QED BY <2>1, {Current} \cap Handles \in SUBSET Handles DEF FS!Next
<1>5. CASE QUIT
  BY <1>5, QuitRefines, Handles \in SUBSET Handles DEF FS!Next
<1>6. CASE \E h \in Handles, n \in 0..MaxLen : INCLUDED(h, n)
  BY <1>6, IncludedRefines DEF FS!Next
<1>7. CASE IncludeFails \/ EVALUATE
  BY <1>7, SwitchRefines, {} \in SUBSET Handles DEF FS!Next
<1>8. CASE CloseSource
  <2>1. Current \in Handles
    BY <1>8, CurrentFacts DEF Inv, CloseSource
  <2>. QED BY <1>8, <2>1, CloseSourceRefines DEF FS!Next
<1>9. CASE UNCHANGED vars
  BY <1>9 DEF vars, FS!vars, Delivered, Current, Unread
<1>. QED
  BY <1>1, <1>2, <1>3, <1>4, <1>5, <1>6, <1>7, <1>8, <1>9 DEF Next, Read, Switch

(***************************************************************************)
(* Every behaviour of the cached reader is one of the reader that takes    *)
(* each byte straight from the kernel.                                     *)
(***************************************************************************)
THEOREM CacheInvisible == Spec => FilesReadInOrder
BY Invariance, InitRefines, StepRefines, PTL DEF Spec, FilesReadInOrder, FS!Spec
==========================================================================
