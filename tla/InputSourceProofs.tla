------------------------ MODULE InputSourceProofs ------------------------
(***************************************************************************)
(* Proofs about InputSource, for every size of the buffers and every set   *)
(* of handles.                                                             *)
(***************************************************************************)
EXTENDS InputSource, SequenceTheorems, TLAPS

(***************************************************************************)
(* Dropping the last element, which is how frames leave the save stack and *)
(* the handler chain.                                                      *)
(***************************************************************************)
LEMMA PopSeqFacts ==
  ASSUME NEW S, NEW s \in Seq(S), s # <<>>
  PROVE  /\ PopSeq(s) \in Seq(S)
         /\ Len(PopSeq(s)) = Len(s) - 1
         /\ \A i \in 1..(Len(s) - 1) : PopSeq(s)[i] = s[i]
         /\ Len(s) \in Nat \ {0}
         /\ s[Len(s)] \in S
<1>1. Len(s) \in Nat \ {0}
  OBVIOUS
<1>2. s[Len(s)] \in S
  BY <1>1
<1>3. \A i \in 1..(Len(s) - 1) : s[i] \in S
  BY <1>1
<1> DEFINE n == Len(s) - 1
<1>4. n \in Int /\ 1 \in Int /\ \A i \in 1..n : s[i] \in S
  BY <1>1, <1>3
<1>5. /\ SubSeq(s, 1, n) \in Seq(S)
      /\ Len(SubSeq(s, 1, n)) = IF 1 <= n THEN n - 1 + 1 ELSE 0
      /\ \A i \in 1..(n - 1 + 1) : SubSeq(s, 1, n)[i] = s[1 + i - 1]
  <2> HIDE DEF n
  <2> QED
    BY <1>4, SubSeqProperties
<1>6. n - 1 + 1 = n /\ \A i \in 1..n : 1 + i - 1 = i
  BY <1>1
<1>7. PopSeq(s) = SubSeq(s, 1, n)
  BY DEF PopSeq
<1>8. Len(SubSeq(s, 1, n)) = n
  <2>1. n \in Nat
    BY <1>1
  <2> HIDE DEF n
  <2>2. (IF 1 <= n THEN n - 1 + 1 ELSE 0) = n
    BY <2>1
  <2> QED
    BY <1>5, <2>2
<1> QED
  BY <1>1, <1>2, <1>5, <1>6, <1>7, <1>8

LEMMA AppendFacts ==
  ASSUME NEW S, NEW s \in Seq(S), NEW e \in S
  PROVE  /\ Append(s, e) \in Seq(S)
         /\ Len(Append(s, e)) = Len(s) + 1
         /\ \A i \in 1..Len(s) : Append(s, e)[i] = s[i]
         /\ Append(s, e)[Len(s) + 1] = e
  OBVIOUS

LEMMA TypeInit == Init => TypeOK
<1> SUFFICES ASSUME Init PROVE TypeOK
  OBVIOUS
<1>1. BootSource \in Sources
  BY DEF BootSource, Sources, Console
<1>2. save \in Seq(Sources) /\ handlers \in Seq(Frames)
  BY EmptySeq, Zenon DEF Init
<1>3. Len(save) <= MaxDepth
  BY InputAssumption DEF Init
<1>4. cur \in Sources
  BY <1>1 DEF Init
<1>5. pc \in {"boot", "quit", "refill", "interpret", "unwind"}
  BY DEF Init
<1>6. open \subseteq Handles /\ held \subseteq Handles /\ under \in BOOLEAN
  BY DEF Init
<1> QED
  BY <1>2, <1>3, <1>4, <1>5, <1>6 DEF TypeOK

(***************************************************************************)
(* Closing the current source leaves every variable it touches typed.      *)
(***************************************************************************)
LEMMA CloseTyped ==
  ASSUME TypeOK, CLOSE_INPUT_SOURCE
  PROVE  /\ cur' \in Sources
         /\ save' \in Seq(Sources)
         /\ Len(save') <= MaxDepth
         /\ open' \subseteq Handles
         /\ under' \in BOOLEAN
<1> USE InputAssumption DEF TypeOK
<1>1. open' \subseteq Handles
  BY DEF CLOSE_INPUT_SOURCE
<1>2. CASE save # <<>>
  <2>1. /\ cur' = save[Len(save)]
        /\ save' = PopSeq(save)
        /\ under' = under
    BY <1>2 DEF CLOSE_INPUT_SOURCE, PopInputSource
  <2> QED
    BY <1>1, <1>2, <2>1, PopSeqFacts
<1>3. CASE save = <<>>
  <2>1. PICK i \in {Console, Eval} \cup Handles :
          /\ cur' = [cur EXCEPT !.id = i, !.ptr = TibSize]
          /\ save' = save
          /\ under' = TRUE
    BY <1>3 DEF CLOSE_INPUT_SOURCE, PopInputSource
  <2>2. cur' \in Sources
    BY <2>1 DEF Sources
  <2> QED
    BY <1>1, <2>1, <2>2
<1> QED
  BY <1>2, <1>3

LEMMA TypeStep == TypeOK /\ [Next]_vars => TypeOK'
<1> SUFFICES ASSUME TypeOK, [Next]_vars
             PROVE  TypeOK'
  OBVIOUS
<1> USE InputAssumption
<1>0. /\ cur.in \in Nat /\ cur.ptr \in Nat /\ cur.size \in Nat
      /\ cur.eptr \in Nat /\ cur.esize \in Nat /\ cur.top \in Nat
      /\ cur.id \in {Console, Eval} \cup Handles
  BY DEF TypeOK, Sources
<1>1. CASE QUIT
  <2>1. Reset(cur) \in Sources
    BY DEF TypeOK, Reset, Sources, Console
  <2>2. Frame("source", 0, Reset(cur)) \in Frames
    BY <2>1 DEF Frame, Frames
  <2>3. <<Frame("source", 0, Reset(cur))>> \in Seq(Frames)
    BY <2>2
  <2>4. save' \in Seq(Sources)
    BY <1>1, EmptySeq, Zenon DEF QUIT
  <2>5. handlers' \in Seq(Frames)
    BY <1>1, <2>3, Zenon DEF QUIT
  <2>6. Len(save') <= MaxDepth
    BY <1>1 DEF QUIT
  <2>7. cur' \in Sources
    BY <1>1, <2>1 DEF QUIT
  <2>8. /\ pc' \in {"boot", "quit", "refill", "interpret", "unwind"}
        /\ open' \subseteq Handles /\ held' \subseteq Handles /\ under' \in BOOLEAN
    BY <1>1 DEF QUIT, TypeOK
  <2> QED
    BY <2>4, <2>5, <2>6, <2>7, <2>8 DEF TypeOK
<1>2. ASSUME NEW n \in 0..ConsoleLimit, RefillConsole(n) PROVE TypeOK'
  <2>1. n \in Nat /\ cur.ptr + n \in Nat
    BY <1>0, <1>2
  <2>2. cur' \in Sources
    BY <1>2, <2>1 DEF RefillConsole, TypeOK, Sources
  <2> QED
    BY <1>2, <2>2 DEF RefillConsole, TypeOK
<1>3. ASSUME NEW n \in LineLens, RefillFile(n) PROVE TypeOK'
  <2>1. n \in Nat /\ cur.ptr + n \in Nat
    BY <1>0, <1>3
  <2>2. cur' \in Sources
    BY <1>3, <2>1 DEF RefillFile, TypeOK, Sources
  <2> QED
    BY <1>3, <2>2 DEF RefillFile, TypeOK
<1>4. ASSUME NEW n \in 0..cur.esize, RefillEval(n) PROVE TypeOK'
  <2> DEFINE used == IF n = cur.esize THEN n ELSE n + 1
  <2>1. used \in Nat /\ used <= cur.esize
    BY <1>0, <1>4 DEF RefillEval
  <2>2. cur' = [cur EXCEPT !.in = 0, !.ptr = cur.eptr, !.size = n,
                           !.eptr = cur.eptr + used, !.esize = cur.esize - used]
    BY <1>4 DEF RefillEval
  <2>3. n \in Nat /\ cur.eptr + used \in Nat /\ cur.esize - used \in Nat
    BY <1>0, <1>4, <2>1
  <2> HIDE DEF used
  <2>4. cur' \in Sources
    BY <1>0, <2>2, <2>3 DEF TypeOK, Sources
  <2> QED
    BY <1>4, <2>4 DEF RefillEval, TypeOK
<1>5. CASE RefillFails
  <2>1. cur' \in Sources
    BY <1>5 DEF RefillFails, TypeOK, Sources
  <2> QED
    BY <1>5, <2>1 DEF RefillFails, TypeOK
<1>6. CASE SourceEnds
  <2>1. handlers # <<>>
    BY <1>6 DEF SourceEnds, TopKind
  <2> QED
    BY <1>6, <2>1, CloseTyped, PopSeqFacts DEF SourceEnds, TypeOK
<1>7. CASE StackFull \/ IncludeRefused \/ LineDone \/ QuitWord \/ Throw \/ Uncaught
  BY <1>7 DEF StackFull, IncludeRefused, LineDone, QuitWord, Throw, Uncaught, TypeOK
<1>8. ASSUME NEW h \in Handles, INCLUDED(h) PROVE TypeOK'
  <2>1. cur' \in Sources
    BY <1>0, <1>8 DEF INCLUDED, TypeOK, Sources
  <2>2. Frame("source", Len(save) + 1, cur) \in Frames
    BY DEF TypeOK, Frame, Frames
  <2> QED
    BY <1>8, <2>1, <2>2 DEF INCLUDED, TypeOK
<1>9. ASSUME NEW p \in 0..TibSize, NEW n \in EvalLens, EVALUATE(p, n) PROVE TypeOK'
  <2>1. p \in Nat /\ n \in Nat
    BY <1>9
  <2>3. cur' \in Sources
    BY <1>9, <2>1 DEF EVALUATE, TypeOK, Sources
  <2>2. Frame("source", Len(save) + 1, cur) \in Frames
    BY DEF TypeOK, Frame, Frames
  <2> QED
    BY <1>9, <2>3, <2>2 DEF EVALUATE, TypeOK
<1>10. CASE ParseWord
  <2>0. PICK i \in (cur.in + 1)..cur.size : cur' = [cur EXCEPT !.in = i]
    BY <1>10 DEF ParseWord
  <2>2. i \in Nat
    BY <1>0
  <2>1. cur' \in Sources
    BY <2>0, <2>2 DEF TypeOK, Sources
  <2> QED
    BY <1>10, <2>1 DEF ParseWord, TypeOK
<1>11. ASSUME NEW h \in Handles, FsOpen(h) \/ FsClose(h) PROVE TypeOK'
  BY <1>11 DEF FsOpen, FsClose, TypeOK
<1>12. CASE CATCH
  <2>1. Frame("catch", Len(save), cur) \in Frames
    BY DEF TypeOK, Frame, Frames
  <2> QED
    BY <1>12, <2>1 DEF CATCH, TypeOK
<1>13. CASE CatchReturns \/ UnwindCatch
  <2>1. handlers # <<>>
    BY <1>13 DEF CatchReturns, UnwindCatch, TopKind
  <2> QED
    BY <1>13, <2>1, PopSeqFacts DEF CatchReturns, UnwindCatch, TypeOK
<1>14. CASE UnwindSource
  <2>1. handlers # <<>>
    BY <1>14 DEF UnwindSource, TopKind
  <2> QED
    BY <1>14, <2>1, CloseTyped, PopSeqFacts DEF UnwindSource, TypeOK
<1>15. CASE UNCHANGED vars
  BY <1>15 DEF vars, TypeOK
<1> QED
  BY <1>1, <1>2, <1>3, <1>4, <1>5, <1>6, <1>7, <1>8, <1>9, <1>10, <1>11,
     <1>12, <1>13, <1>14, <1>15
  DEF Next, Refill, Nest, RunWord, Unwind

(***************************************************************************)
(* Type correctness: in particular the characters left of an EVALUATE      *)
(* string never go below zero, and the save stack keeps within its levels. *)
(***************************************************************************)
THEOREM TypeCorrect == Spec => []TypeOK
  BY TypeInit, TypeStep, PTL DEF Spec
---------------------------------------------------------------------------
(* The chain of CATCH frames.                                              *)

(***************************************************************************)
(* A source's frame leaves the chain together with its level.              *)
(***************************************************************************)
LEMMA CloseMatchesLevels ==
  ASSUME TypeOK, FramesMatchLevels, TopKind = "source",
         handlers' = PopSeq(handlers), CLOSE_INPUT_SOURCE
  PROVE  /\ handlers' # <<>> => /\ save # <<>>
                                /\ handlers'[1].kind = "source"
                                /\ handlers'[Len(handlers')].level = Len(save')
         /\ \A k \in 2..Len(handlers') :
              handlers'[k - 1].level = IF handlers'[k].kind = "source"
                                       THEN handlers'[k].level - 1
                                       ELSE handlers'[k].level
         /\ Len(handlers') = Len(handlers) - 1
         /\ under' => handlers' = <<>> /\ save' = <<>>
<1>1. handlers # <<>> /\ handlers \in Seq(Frames) /\ save \in Seq(Sources)
  BY DEF TopKind, TypeOK
<1> DEFINE m == Len(handlers)
<1>2. /\ handlers' \in Seq(Frames)
      /\ Len(handlers') = m - 1
      /\ \A i \in 1..(m - 1) : handlers'[i] = handlers[i]
      /\ m \in Nat \ {0}
  BY <1>1, PopSeqFacts
<1>3. /\ handlers[m].kind = "source" /\ handlers[m].level = Len(save)
      /\ handlers[1].kind = "source"
  BY <1>1 DEF TopKind, FramesMatchLevels
<1>4. ~under
  BY <1>1 DEF FramesMatchLevels, UnderflowMeansQuit
<1>5. \A k \in 2..Len(handlers') :
        handlers'[k - 1].level = IF handlers'[k].kind = "source"
                                 THEN handlers'[k].level - 1
                                 ELSE handlers'[k].level
  <2> SUFFICES ASSUME NEW k \in 2..Len(handlers')
               PROVE handlers'[k - 1].level = IF handlers'[k].kind = "source"
                                              THEN handlers'[k].level - 1
                                              ELSE handlers'[k].level
    OBVIOUS
  <2>1. handlers'[k] = handlers[k] /\ handlers'[k - 1] = handlers[k - 1] /\ k \in 2..m
    BY <1>2
  <2> QED
    BY <2>1 DEF FramesMatchLevels
<1>6. CASE m = 1
  <2>1. handlers' = <<>>
    BY <1>2, <1>6, EmptySeq
  <2>2. under' => save' = <<>>
    BY <1>4 DEF CLOSE_INPUT_SOURCE, PopInputSource
  <2> QED
    BY <1>2, <1>5, <2>1, <2>2
<1>7. CASE m # 1
  <2>1. m \in 2..m /\ m - 1 \in 1..(m - 1) /\ 1 \in 1..(m - 1)
    BY <1>2, <1>7
  <2>2. handlers[m - 1].level = handlers[m].level - 1
    BY <1>3, <2>1 DEF FramesMatchLevels
  <2>3. handlers[m - 1] \in Frames
    BY <1>1, <2>1
  <2>4. handlers[m - 1].level \in Nat
    BY <2>3 DEF Frames
  <2>5. Len(save) \in Nat /\ Len(save) - 1 \in Nat
    BY <1>1, <1>3, <2>2, <2>4
  <2>6. save # <<>>
    BY <2>5, <1>1, EmptySeq
  <2>7. /\ save' = PopSeq(save) /\ under' = under
    BY <2>6 DEF CLOSE_INPUT_SOURCE, PopInputSource
  <2>8. Len(save') = Len(save) - 1
    BY <1>1, <2>6, <2>7, PopSeqFacts
  <2>9. handlers'[1] = handlers[1] /\ handlers'[Len(handlers')] = handlers[m - 1]
    BY <1>2, <2>1
  <2> QED
    BY <1>2, <1>3, <1>4, <1>5, <2>2, <2>6, <2>7, <2>8, <2>9
<1> QED
  BY <1>6, <1>7

LEMMA FramesStep ==
  TypeOK /\ FramesMatchLevels /\ [Next]_vars => FramesMatchLevels'
<1> SUFFICES ASSUME TypeOK, FramesMatchLevels, [Next]_vars
             PROVE  FramesMatchLevels'
  OBVIOUS
<1> USE DEF UnderflowMeansQuit
<1>1. CASE QUIT
  <2>1. handlers' = <<Frame("source", 0, Reset(cur))>> /\ save' = <<>>
    BY <1>1 DEF QUIT
  <2>2. handlers' # <<>> /\ Len(handlers') = 1 /\ Len(save') = 0
    BY <2>1
  <2>3. handlers'[1].kind = "source" /\ handlers'[1].level = 0
    BY <2>1 DEF Frame
  <2>4. 2..Len(handlers') = {}
    BY <2>2
  <2>5. pc' = "refill" /\ under' = FALSE
    BY <1>1 DEF QUIT
  <2>6. TopKind' = "source"
    BY <2>2, <2>3 DEF TopKind
  <2> QED
    BY <2>2, <2>3, <2>4, <2>5, <2>6 DEF FramesMatchLevels
<1>2. CASE Refill
  <2>1. /\ pc \in {"refill", "interpret"} /\ pc' = "interpret"
        /\ UNCHANGED <<save, handlers, under>>
    BY <1>2 DEF Refill, RefillConsole, RefillFile, RefillEval, RefillFails, Refilling
  <2> QED
    BY <2>1 DEF FramesMatchLevels, TopKind
<1>3. CASE SourceEnds
  <2>1. /\ TopKind = "source" /\ handlers' = PopSeq(handlers) /\ CLOSE_INPUT_SOURCE
        /\ pc' = IF Len(handlers) = 1 THEN "quit" ELSE "interpret"
    BY <1>3 DEF SourceEnds
  <2>2. Len(handlers') = Len(handlers) - 1 /\ handlers # <<>>
    BY <2>1, CloseMatchesLevels DEF TopKind
  <2>3. Len(handlers) \in Nat /\ handlers' \in Seq(Frames)
    BY <2>1, <2>2, PopSeqFacts DEF TypeOK
  <2>4. pc' # "quit" => handlers' # <<>>
    BY <2>1, <2>2, <2>3, EmptySeq
  <2> QED
    BY <2>1, <2>4, CloseMatchesLevels DEF FramesMatchLevels
<1>4. CASE StackFull \/ IncludeRefused \/ LineDone \/ QuitWord \/ Throw \/ Uncaught
  <2>1. UNCHANGED <<save, handlers, under, cur>> /\ TopKind' = TopKind /\ pc' # "boot"
    BY <1>4 DEF StackFull, IncludeRefused, LineDone, QuitWord, Throw, Uncaught, TopKind
  <2>2. /\ pc' = "refill" => TopKind = "source" /\ handlers # <<>>
        /\ pc' # "interpret"
    BY <1>4 DEF StackFull, IncludeRefused, LineDone, QuitWord, Throw, Uncaught,
                TopKind
  <2>3. under => pc' \in {"unwind", "quit"}
    BY <1>4 DEF StackFull, IncludeRefused, LineDone, QuitWord, Throw, Uncaught,
                FramesMatchLevels, Interpreting
  <2> QED
    BY <2>1, <2>2, <2>3 DEF FramesMatchLevels
<1>5. CASE (\E h \in Handles : INCLUDED(h))
           \/ (\E p \in 0..TibSize, n \in EvalLens : EVALUATE(p, n))
  <2> DEFINE f == Frame("source", Len(save) + 1, cur)
  <2>1. /\ save' = Append(save, cur) /\ handlers' = Append(handlers, f)
        /\ pc' = "refill" /\ under' = under /\ pc \in {"interpret", "boot"}
    BY <1>5 DEF INCLUDED, EVALUATE, Interpreting
  <2>2. f \in Frames /\ f.kind = "source" /\ f.level = Len(save) + 1
    BY DEF Frame, Frames, TypeOK
  <2> HIDE DEF f
  <2>3. /\ handlers' \in Seq(Frames) /\ handlers' # <<>>
        /\ Len(handlers') = Len(handlers) + 1
        /\ \A i \in 1..Len(handlers) : handlers'[i] = handlers[i]
        /\ handlers'[Len(handlers) + 1] = f
        /\ Len(handlers) \in Nat
    BY <2>1, <2>2, AppendProperties DEF TypeOK
  <2>4. Len(save') = Len(save) + 1
    BY <2>1, AppendProperties DEF TypeOK
  <2>5. handlers'[1].kind = "source"
    BY <2>2, <2>3 DEF FramesMatchLevels, TypeOK
  <2>6. TopKind' = "source"
    BY <2>2, <2>3 DEF TopKind
  <2>7. handlers = <<>> \/ handlers[Len(handlers)].level = Len(save)
    BY DEF FramesMatchLevels
  <2>8. ASSUME NEW k \in 2..Len(handlers')
        PROVE  handlers'[k - 1].level = IF handlers'[k].kind = "source"
                                        THEN handlers'[k].level - 1
                                        ELSE handlers'[k].level
    <3>1. CASE k \in 2..Len(handlers)
      BY <2>3, <3>1 DEF FramesMatchLevels
    <3>2. CASE k = Len(handlers) + 1
      <4>1. handlers # <<>> /\ Len(handlers) \in 1..Len(handlers) /\ k - 1 = Len(handlers)
        BY <2>3, <2>8, <3>2
      <4>2. handlers'[k - 1].level = Len(save) /\ handlers'[k] = f
        BY <2>3, <2>7, <3>2, <4>1
      <4>3. Len(save) \in Nat
        BY DEF TypeOK
      <4> QED
        BY <2>2, <4>2, <4>3
    <3> QED
      BY <2>3, <3>1, <3>2
  <2>9. ~under
    BY <2>1 DEF FramesMatchLevels
  <2> QED
    BY <2>1, <2>2, <2>3, <2>4, <2>5, <2>6, <2>8, <2>9 DEF FramesMatchLevels
<1>6. CASE ParseWord \/ \E h \in Handles : FsOpen(h) \/ FsClose(h)
  <2>1. pc = "interpret" /\ UNCHANGED <<pc, save, handlers, under>>
    BY <1>6 DEF ParseWord, FsOpen, FsClose
  <2> QED
    BY <2>1 DEF FramesMatchLevels, TopKind
<1>7. CASE CATCH
  <2> DEFINE f == Frame("catch", Len(save), cur)
  <2>1. /\ handlers' = Append(handlers, f) /\ pc = "interpret"
        /\ UNCHANGED <<pc, cur, save, under>>
    BY <1>7 DEF CATCH
  <2>2. f \in Frames /\ f.kind = "catch" /\ f.level = Len(save)
    BY DEF Frame, Frames, TypeOK
  <2> HIDE DEF f
  <2>3. /\ handlers' \in Seq(Frames) /\ handlers' # <<>> /\ handlers # <<>>
        /\ Len(handlers') = Len(handlers) + 1
        /\ \A i \in 1..Len(handlers) : handlers'[i] = handlers[i]
        /\ handlers'[Len(handlers) + 1] = f
        /\ Len(handlers) \in Nat \ {0}
    BY <2>1, <2>2, AppendProperties DEF TypeOK, FramesMatchLevels
  <2>4. handlers'[1].kind = "source" /\ handlers[Len(handlers)].level = Len(save)
    BY <2>3 DEF FramesMatchLevels
  <2>5. ASSUME NEW k \in 2..Len(handlers')
        PROVE  handlers'[k - 1].level = IF handlers'[k].kind = "source"
                                        THEN handlers'[k].level - 1
                                        ELSE handlers'[k].level
    <3>1. CASE k \in 2..Len(handlers)
      BY <2>3, <3>1 DEF FramesMatchLevels
    <3>2. CASE k = Len(handlers) + 1
      BY <2>2, <2>3, <2>4, <3>2
    <3> QED
      BY <2>3, <3>1, <3>2
  <2> QED
    BY <2>1, <2>2, <2>3, <2>4, <2>5 DEF FramesMatchLevels
<1>8. CASE CatchReturns \/ UnwindCatch
  <2> DEFINE m == Len(handlers)
  <2>1. /\ TopKind = "catch" /\ handlers' = PopSeq(handlers) /\ pc' = "interpret"
        /\ UNCHANGED <<save, under>>
    BY <1>8 DEF CatchReturns, UnwindCatch
  <2>2. /\ handlers # <<>> /\ handlers[m].kind = "catch"
    BY <2>1 DEF TopKind
  <2>3. /\ handlers' \in Seq(Frames) /\ Len(handlers') = m - 1
        /\ \A i \in 1..(m - 1) : handlers'[i] = handlers[i]
        /\ m \in Nat \ {0}
    BY <2>1, <2>2, PopSeqFacts DEF TypeOK
  <2>4. handlers[1].kind = "source" /\ handlers[m].level = Len(save)
    BY <2>2 DEF FramesMatchLevels
  <2>5. m # 1
    BY <2>2, <2>4
  <2>6. m \in 2..m /\ m - 1 \in 1..(m - 1) /\ 1 \in 1..(m - 1) /\ Len(handlers') # 0
    BY <2>3, <2>5
  <2>7. handlers[m - 1].level = handlers[m].level
    BY <2>2, <2>6 DEF FramesMatchLevels
  <2>8. /\ handlers' # <<>> /\ handlers'[1].kind = "source"
        /\ handlers'[Len(handlers')].level = Len(save')
    BY <2>1, <2>3, <2>4, <2>6, <2>7
  <2>9. ASSUME NEW k \in 2..Len(handlers')
        PROVE  handlers'[k - 1].level = IF handlers'[k].kind = "source"
                                        THEN handlers'[k].level - 1
                                        ELSE handlers'[k].level
    <3>1. handlers'[k] = handlers[k] /\ handlers'[k - 1] = handlers[k - 1] /\ k \in 2..m
      BY <2>3
    <3> QED
      BY <3>1 DEF FramesMatchLevels
  <2>10. ~under
    BY <2>2 DEF FramesMatchLevels
  <2> QED
    BY <2>1, <2>8, <2>9, <2>10 DEF FramesMatchLevels
<1>9. CASE UnwindSource
  <2>1. /\ TopKind = "source" /\ handlers' = PopSeq(handlers) /\ CLOSE_INPUT_SOURCE
        /\ pc' = "unwind"
    BY <1>9 DEF UnwindSource
  <2> QED
    BY <2>1, CloseMatchesLevels DEF FramesMatchLevels
<1>10. CASE UNCHANGED vars
  BY <1>10 DEF vars, FramesMatchLevels, TopKind
<1> QED
  BY <1>1, <1>2, <1>3, <1>4, <1>5, <1>6, <1>7, <1>8, <1>9, <1>10
  DEF Next, Nest, RunWord, Unwind

LEMMA FramesInit == Init => FramesMatchLevels
  BY DEF Init, FramesMatchLevels, UnderflowMeansQuit, TopKind, BootSource

(***************************************************************************)
(* The unchecked pop of the save stack underflows only where QUIT is all   *)
(* that can follow, at every nesting depth and with any CATCHes in use.    *)
(***************************************************************************)
THEOREM UnderflowHarmless == Spec => []UnderflowMeansQuit
<1>1. FramesMatchLevels => UnderflowMeansQuit
  BY DEF FramesMatchLevels
<1> QED
  BY <1>1, FramesInit, FramesStep, TypeCorrect, PTL DEF Spec
---------------------------------------------------------------------------
(* The lines stacked in the TIB.                                           *)

LEMMA TibInit == Init => TibStacked
<1> SUFFICES ASSUME Init PROVE TibStacked
  OBVIOUS
<1>1. Len(save) = 0 /\ 1..Len(save) = {}
  BY DEF Init
<1>2. Below(cur)
  BY DEF Init, BootSource, Below, Console, Eval
<1> QED
  BY <1>1, <1>2 DEF TibStacked

\* The fields of a source are numbers, and its id says which kind it is.
LEMMA SourceFields ==
  ASSUME NEW s \in Sources
  PROVE  /\ s.ptr \in Nat /\ s.size \in Nat /\ s.top \in Nat
         /\ s.eptr \in Nat /\ s.esize \in Nat /\ s.id \in Int
         /\ s.id > 0 => s.id # Eval /\ s.id # Console
<1>1. s.id = 0 \/ s.id = -1 \/ s.id \in 1..8
  BY InputAssumption DEF Sources, Console, Eval
<1> QED
  BY <1>1 DEF Sources, Console, Eval

\* A step that leaves the save stack alone only has to keep cur above it.
LEMMA TibSame ==
  ASSUME TibStacked, save' = save,
         \A i \in 1..Len(save) : Above(save[i], cur'),
         LineSettled' => Below(cur')
  PROVE  TibStacked'
  BY DEF TibStacked

\* Suspending a settled source: what was current joins those below.
LEMMA TibPush ==
  ASSUME TypeOK, TibStacked, save' = Append(save, cur), cur' \in Sources,
         Below(cur), Above(cur, cur'), LineSettled' => Below(cur')
  PROVE  TibStacked'
<1> DEFINE m == Len(save)
<1>1. /\ m \in Nat /\ Len(save') = m + 1
      /\ \A i \in 1..m : save'[i] = save[i]
      /\ save'[m + 1] = cur
      /\ cur \in Sources
      /\ \A i \in 1..m : save[i] \in Sources
  BY AppendProperties DEF TypeOK
<1>2. ASSUME NEW i \in 1..m
      PROVE  Above(save[i], cur')
  <2>1. Above(save[i], cur) /\ save[i] \in Sources
    BY <1>1, <1>2 DEF TibStacked
  <2> QED
    BY <1>1, <2>1, SourceFields DEF Above
<1>3. ASSUME NEW i \in 1..Len(save')
      PROVE  Below(save'[i]) /\ Above(save'[i], cur')
  <2>1. CASE i = m + 1
    BY <1>1, <2>1
  <2>2. CASE i \in 1..m
    BY <1>1, <1>2, <2>2 DEF TibStacked
  <2> QED
    BY <1>1, <2>1, <2>2
<1>4. ASSUME NEW j \in 1..Len(save'), NEW i \in 1..(j - 1)
      PROVE  Above(save'[i], save'[j])
  <2>1. i \in 1..m /\ save'[i] = save[i]
    BY <1>1
  <2>2. CASE j = m + 1
    BY <1>1, <2>1, <2>2 DEF TibStacked
  <2>3. CASE j \in 1..m
    BY <1>1, <2>1, <2>3 DEF TibStacked
  <2> QED
    BY <1>1, <2>2, <2>3
<1> QED
  BY <1>3, <1>4 DEF TibStacked

\* Going back to the parent.
LEMMA TibPop ==
  ASSUME TypeOK, TibStacked, save # <<>>,
         save' = PopSeq(save), cur' = save[Len(save)]
  PROVE  TibStacked'
<1> DEFINE m == Len(save)
<1>1. /\ Len(save') = m - 1 /\ m \in Nat \ {0}
      /\ \A i \in 1..(m - 1) : save'[i] = save[i]
  BY PopSeqFacts DEF TypeOK
<1>2. ASSUME NEW i \in 1..(m - 1)
      PROVE  Below(save'[i]) /\ Above(save'[i], cur')
  BY <1>1 DEF TibStacked
<1>3. ASSUME NEW j \in 1..(m - 1), NEW i \in 1..(j - 1)
      PROVE  Above(save'[i], save'[j])
  <2>1. i \in 1..(m - 1) /\ j \in 1..m
    BY <1>1
  <2> QED
    BY <1>1, <2>1 DEF TibStacked
<1>4. Below(cur')
  BY <1>1 DEF TibStacked
<1> QED
  BY <1>1, <1>2, <1>3, <1>4 DEF TibStacked

\* The close of a source, whether it ended or an error left it.
LEMMA TibClose ==
  ASSUME TypeOK, FramesMatchLevels, TibStacked, TopKind = "source",
         handlers' = PopSeq(handlers), CLOSE_INPUT_SOURCE, pc' # "boot", pc' # "refill",
         pc' = "interpret" => handlers' # <<>>
  PROVE  TibStacked'
<1>1. CASE save # <<>>
  <2>1. save' = PopSeq(save) /\ cur' = save[Len(save)]
    BY <1>1 DEF CLOSE_INPUT_SOURCE, PopInputSource
  <2> QED
    BY <1>1, <2>1, TibPop
<1>2. CASE save = <<>>
  <2>1. handlers' = <<>> /\ save' = <<>>
    BY <1>2, CloseMatchesLevels DEF CLOSE_INPUT_SOURCE, PopInputSource
  <2>2. TopKind' = "none" /\ Len(save') = 0
    BY <2>1 DEF TopKind
  <2>3. ~LineSettled'
    BY <2>1, <2>2 DEF LineSettled
  <2> QED
    BY <2>2, <2>3 DEF TibStacked
<1> QED
  BY <1>1, <1>2

LEMMA TibStep ==
  TypeOK /\ FramesMatchLevels /\ TibStacked /\ [Next]_vars => TibStacked'
<1> SUFFICES ASSUME TypeOK, FramesMatchLevels, TibStacked, [Next]_vars
             PROVE  TibStacked'
  OBVIOUS
<1> USE InputAssumption
<1>0. cur \in Sources /\ cur' \in Sources /\ \A i \in 1..Len(save) : save[i] \in Sources
  BY TypeStep DEF TypeOK
<1>1. CASE QUIT
  <2>1. save' = <<>> /\ cur' = Reset(cur) /\ pc' = "refill"
    BY <1>1 DEF QUIT
  <2>2. 1..Len(save') = {}
    BY <2>1
  <2>3. cur'.ptr = 0 /\ cur'.size = 0 /\ cur'.top = 0 /\ cur'.id = Console
    BY <1>0, <2>1 DEF Reset, Sources
  <2>4. Below(cur')
    BY <2>3 DEF Below, Console, Eval
  <2> QED
    BY <2>2, <2>4 DEF TibStacked
<1>2. ASSUME NEW n \in Nat, RefillConsole(n) \/ RefillFile(n)
      PROVE  TibStacked'
  <2>1. /\ save' = save /\ n \in Nat
        /\ cur' = [cur EXCEPT !.in = 0, !.size = n, !.top = cur.ptr + n]
        /\ cur.id = Console \/ cur.id > 0
    BY <1>2 DEF RefillConsole, RefillFile
  <2>2. /\ cur'.ptr = cur.ptr /\ cur'.id = cur.id
        /\ cur'.size = n /\ cur'.top = cur.ptr + n
    BY <1>0, <2>1 DEF Sources
  <2>3. Below(cur')
    BY <1>0, <2>1, <2>2, SourceFields DEF Below, Console, Eval
  <2>4. ASSUME NEW i \in 1..Len(save)
        PROVE  Above(save[i], cur')
    <3>1. Above(save[i], cur) /\ save[i] \in Sources
      BY <1>0 DEF TibStacked
    <3> QED
      BY <1>0, <2>1, <2>2, <3>1, SourceFields DEF Above
  <2> QED
    BY <2>1, <2>3, <2>4, TibSame
<1>3. ASSUME NEW n \in 0..cur.esize, RefillEval(n) PROVE TibStacked'
  <2> DEFINE used == IF n = cur.esize THEN n ELSE n + 1
  <2>1. used \in Nat /\ n \in Nat /\ n <= used /\ used <= cur.esize
    BY <1>0, <1>3, SourceFields DEF RefillEval
  <2>2. /\ cur' = [cur EXCEPT !.in = 0, !.ptr = cur.eptr, !.size = n,
                              !.eptr = cur.eptr + used, !.esize = cur.esize - used]
        /\ save' = save /\ cur.id = Eval /\ pc \in {"refill", "interpret"}
    BY <1>3 DEF RefillEval, Refilling
  <2> HIDE DEF used
  <2>3. /\ cur'.ptr = cur.eptr /\ cur'.size = n /\ cur'.id = Eval
        /\ cur'.eptr = cur.eptr + used /\ cur'.esize = cur.esize - used
        /\ cur'.top = cur.top
    BY <1>0, <2>2 DEF Sources
  <2>4. Below(cur)
    BY <2>2 DEF TibStacked, LineSettled, Eval
  <2>5. Below(cur')
    BY <1>0, <2>1, <2>2, <2>3, <2>4, SourceFields DEF Below
  <2>6. ASSUME NEW i \in 1..Len(save)
        PROVE  Above(save[i], cur')
    BY <2>2, <2>3 DEF TibStacked, Above, Eval, Console
  <2> QED
    BY <2>2, <2>5, <2>6, TibSame
<1>4. CASE RefillFails \/ ParseWord
  <2>1. /\ save' = save /\ pc = "interpret"
        /\ cur'.ptr = cur.ptr /\ cur'.id = cur.id /\ cur'.top = cur.top
        /\ cur'.eptr = cur.eptr /\ cur'.esize = cur.esize
        /\ cur'.size = cur.size \/ cur'.size = 0
    BY <1>0, <1>4 DEF RefillFails, ParseWord, Sources
  <2>2. Below(cur)
    BY <2>1 DEF TibStacked, LineSettled
  <2>3. Below(cur')
    BY <1>0, <2>1, <2>2, SourceFields DEF Below
  <2>4. ASSUME NEW i \in 1..Len(save)
        PROVE  Above(save[i], cur')
    BY <2>1 DEF TibStacked, Above
  <2> QED
    BY <2>1, <2>3, <2>4, TibSame
<1>5. CASE SourceEnds
  <2>1. /\ TopKind = "source" /\ handlers' = PopSeq(handlers) /\ CLOSE_INPUT_SOURCE
        /\ pc' # "boot" /\ pc' # "refill"
    BY <1>5 DEF SourceEnds
  <2>2. pc' = "interpret" => handlers' # <<>>
    BY FramesStep DEF FramesMatchLevels
  <2> QED
    BY <2>1, <2>2, TibClose
<1>6. CASE UnwindSource
  <2>1. /\ TopKind = "source" /\ handlers' = PopSeq(handlers) /\ CLOSE_INPUT_SOURCE
        /\ pc' = "unwind"
    BY <1>6 DEF UnwindSource
  <2> QED
    BY <2>1, TibClose
<1>7. ASSUME NEW h \in Handles, INCLUDED(h) PROVE TibStacked'
  <2>1. /\ save' = Append(save, cur) /\ cur' = [cur EXCEPT !.ptr = cur.top, !.id = h]
        /\ pc \in {"interpret", "boot"} /\ pc' = "refill"
    BY <1>7 DEF INCLUDED, Interpreting
  <2>0. h \in 1..8
    BY <1>7
  <2>a. h > 0
    BY <2>0
  <2>b. cur'.ptr = cur.top /\ cur'.top = cur.top /\ cur'.id = h
    BY <1>0, <2>1 DEF Sources
  <2>2. cur'.ptr = cur.top /\ cur'.top = cur.top /\ cur'.id = h /\ h > 0
    BY <2>a, <2>b
  <2>3. LineSettled
    BY <2>1 DEF LineSettled, FramesMatchLevels, Console
  <2>4. ~LineSettled'
    BY <2>1, <2>2 DEF LineSettled
  <2>5. Above(cur, cur')
    BY <1>0, <2>2, SourceFields DEF Above, Console
  <2> QED
    BY <1>0, <2>1, <2>3, <2>4, <2>5, TibPush DEF TibStacked
<1>8. ASSUME NEW p \in 0..TibSize, NEW n \in EvalLens, EVALUATE(p, n) PROVE TibStacked'
  <2>1. /\ save' = Append(save, cur)
        /\ cur' = [cur EXCEPT !.eptr = p, !.esize = n, !.id = Eval]
        /\ pc = "interpret"
        /\ p + n <= cur.top \/ p >= TibSize
    BY <1>8 DEF EVALUATE
  <2>2. /\ cur'.ptr = cur.ptr /\ cur'.size = cur.size /\ cur'.top = cur.top
        /\ cur'.eptr = p /\ cur'.esize = n /\ cur'.id = Eval
    BY <1>0, <2>1 DEF Sources
  <2>3. Below(cur)
    BY <2>1 DEF TibStacked, LineSettled
  <2>4. Below(cur')
    BY <1>0, <2>1, <2>2, <2>3, SourceFields DEF Below
  <2>5. Above(cur, cur')
    BY <1>0, <2>2, SourceFields DEF Above, Console, Eval
  <2> QED
    BY <1>0, <2>1, <2>3, <2>4, <2>5, TibPush
<1>9. CASE LineDone \/ Throw \/ StackFull \/ IncludeRefused \/ QuitWord \/ Uncaught
           \/ CATCH \/ CatchReturns \/ UnwindCatch
           \/ (\E h \in Handles : FsOpen(h) \/ FsClose(h)) \/ UNCHANGED vars
  <2>1. save' = save /\ cur' = cur
    BY <1>9 DEF LineDone, Throw, StackFull, IncludeRefused, QuitWord, Uncaught, CATCH,
                CatchReturns, UnwindCatch, FsOpen, FsClose, vars
  <2>2. LineSettled' => LineSettled
    BY <1>9 DEF LineDone, Throw, StackFull, IncludeRefused, QuitWord, Uncaught, CATCH,
                CatchReturns, UnwindCatch, FsOpen, FsClose, vars, LineSettled,
                FramesMatchLevels, TopKind, Interpreting
  <2> QED
    BY <2>1, <2>2 DEF TibStacked
<1>10. CASE (\E n \in 0..ConsoleLimit : RefillConsole(n))
            \/ \E n \in LineLens : RefillFile(n)
  <2>1. 0..ConsoleLimit \subseteq Nat /\ LineLens \subseteq Nat
    OBVIOUS
  <2> QED
    BY <1>2, <1>10, <2>1
<1> QED
  BY <1>1, <1>3, <1>4, <1>5, <1>6, <1>7, <1>8, <1>9, <1>10
  DEF Next, Refill, Nest, RunWord, Unwind

(***************************************************************************)
(* No file overwrites a line, or the rest of a string, that a suspended    *)
(* source still has to interpret, for any nesting of files and EVALUATEs.  *)
(***************************************************************************)
LEMMA TibStackedDisjoint == TypeOK /\ TibStacked => LiveLinesDisjoint
<1> SUFFICES ASSUME TypeOK, TibStacked, NEW j \in Levels, Level(j).id > 0,
                    NEW i \in 1..(j - 1)
             PROVE  /\ Level(i).ptr < TibSize
                        => Level(i).ptr + Level(i).size <= Level(j).ptr
                    /\ (Level(i).id = Eval /\ Level(i).eptr < TibSize)
                        => Level(i).eptr + Level(i).esize <= Level(j).ptr
  BY DEF LiveLinesDisjoint
<1>1. Len(save) \in Nat /\ i \in 1..Len(save) /\ Level(i) = save[i]
  BY DEF Levels, Level, TypeOK
<1>2. Level(i) \in Sources /\ Level(j) \in Sources
  BY <1>1 DEF TypeOK, Levels, Level
<1>3. Below(Level(i))
  BY <1>1 DEF TibStacked
<1>4. Above(Level(i), Level(j))
  <2>1. CASE j \in 1..Len(save)
    BY <1>1, <2>1 DEF TibStacked, Level
  <2>2. CASE j = Len(save) + 1
    BY <1>1, <2>2 DEF TibStacked, Level
  <2> QED
    BY <1>1, <2>1, <2>2 DEF Levels
<1>5. Level(i).top <= Level(j).ptr
  BY <1>4 DEF Above
<1> QED
  BY <1>2, <1>3, <1>5, InputAssumption, SourceFields DEF Below

THEOREM SuspendedLinesSafe == Spec => []LiveLinesDisjoint
  BY TypeInit, TypeStep, FramesInit, FramesStep, TibInit, TibStep,
     TibStackedDisjoint, PTL DEF Spec
---------------------------------------------------------------------------
(* Levels under a push and a pop.                                          *)

LEMMA LevelsPushed ==
  ASSUME TypeOK, save' = Append(save, cur)
  PROVE  /\ Len(save) \in Nat /\ Len(save') = Len(save) + 1
         /\ \A i \in 1..(Len(save) + 1) : Level(i)' = Level(i)
         /\ \A i : i = Len(save) + 2 => Level(i)' = cur'
<1>1. /\ Len(save) \in Nat /\ Len(save') = Len(save) + 1
      /\ \A i \in 1..Len(save) : save'[i] = save[i]
      /\ save'[Len(save) + 1] = cur
  BY AppendProperties DEF TypeOK
<1> QED
  BY <1>1 DEF Level

LEMMA LevelsPopped ==
  ASSUME TypeOK, save # <<>>, save' = PopSeq(save), cur' = save[Len(save)]
  PROVE  /\ Len(save) \in Nat \ {0} /\ Len(save') = Len(save) - 1
         /\ \A i \in 1..Len(save) : Level(i)' = Level(i)
         /\ Level(Len(save) + 1) = cur
<1>1. /\ Len(save) \in Nat \ {0} /\ Len(save') = Len(save) - 1
      /\ \A i \in 1..(Len(save) - 1) : save'[i] = save[i]
  BY PopSeqFacts DEF TypeOK
<1> QED
  BY <1>1 DEF Level

LEMMA LevelTyped ==
  ASSUME TypeOK, NEW i \in Levels
  PROVE  /\ Len(save) \in Nat /\ i \in 1..(Len(save) + 1)
         /\ Level(i) \in Sources
         /\ Level(i).id \in Int
         /\ Level(i).id > 0 => Level(i).id \in Handles
<1>1. Len(save) \in Nat /\ i \in 1..(Len(save) + 1)
  BY DEF TypeOK, Levels
<1>2. Level(i) \in Sources
  BY <1>1 DEF TypeOK, Level
<1>3. Level(i).id = 0 \/ Level(i).id = -1 \/ Level(i).id \in Handles
  BY <1>2 DEF Sources, Console, Eval
<1>4. \A h \in Handles : h \in Int
  BY InputAssumption
<1> QED
  BY <1>1, <1>2, <1>3, <1>4
---------------------------------------------------------------------------
(* The handles.                                                            *)

\* HandlesBalance, handle by handle: one owner each.
Accounted ==
  /\ held \subseteq open
  /\ \A h \in open \ held : \E i \in Levels : Level(i).id > 0 /\ Level(i).id = h
  /\ \A i \in Levels : Level(i).id > 0 => Level(i).id \in open \ held
  /\ \A i, j \in Levels : Level(i).id > 0 /\ Level(i).id = Level(j).id => i = j

LEMMA AccountedBalances == Accounted => HandlesBalance
  BY DEF Accounted, HandlesBalance

\* A step that moves neither a level's handle nor a handle moves nothing.
LEMMA AccountedSame ==
  ASSUME TypeOK, Accounted, save' = save, cur'.id = cur.id,
         open' = open, held' = held
  PROVE  Accounted'
<1>1. Levels' = Levels /\ \A i \in Levels : Level(i)'.id = Level(i).id
  BY DEF Levels, Level
<1> QED
  BY <1>1 DEF Accounted

LEMMA AccountedPush ==
  ASSUME TypeOK, Accounted, save' = Append(save, cur), held' = held,
         \/ cur'.id = Eval /\ open' = open
         \/ cur'.id > 0 /\ cur'.id \notin open /\ open' = open \cup {cur'.id}
  PROVE  Accounted'
<1>0. PICK new : new = Len(save) + 2
  OBVIOUS
<1>1. /\ Levels \subseteq Levels' /\ new \in Levels' /\ new \notin Levels
      /\ \A i \in Levels' : i \in Levels \/ i = new
      /\ \A i \in Levels : Level(i)' = Level(i)
      /\ Level(new)' = cur'
  BY <1>0, LevelsPushed DEF Levels
<1>2. CASE cur'.id = Eval /\ open' = open
  <2>1. ~(cur'.id > 0)
    BY <1>2 DEF Eval
  <2> QED
    BY <1>1, <1>2, <2>1 DEF Accounted
<1>3. CASE cur'.id > 0 /\ cur'.id \notin open /\ open' = open \cup {cur'.id}
  <2>1. held' \subseteq open' /\ cur'.id \in open' \ held'
    BY <1>3 DEF Accounted
  <2>2. \A h \in open' \ held' : \E i \in Levels' : Level(i)'.id > 0 /\ Level(i)'.id = h
    BY <1>1, <1>3 DEF Accounted
  <2>3. \A i \in Levels' : Level(i)'.id > 0 => Level(i)'.id \in open' \ held'
    BY <1>1, <1>3, <2>1 DEF Accounted
  <2>4. \A i, j \in Levels' : Level(i)'.id > 0 /\ Level(i)'.id = Level(j)'.id => i = j
    BY <1>1, <1>3 DEF Accounted
  <2> QED
    BY <2>1, <2>2, <2>3, <2>4 DEF Accounted
<1> QED
  BY <1>2, <1>3

LEMMA AccountedClose ==
  ASSUME TypeOK, Accounted, CLOSE_INPUT_SOURCE, save # <<>>, held' = held
  PROVE  Accounted'
<1> DEFINE last == Len(save) + 1
<1>0. /\ save' = PopSeq(save) /\ cur' = save[Len(save)]
      /\ open' = IF cur.id > 0 THEN open \ {cur.id} ELSE open
  BY DEF CLOSE_INPUT_SOURCE, PopInputSource
<1>1. /\ Levels = Levels' \cup {last} /\ last \notin Levels'
      /\ \A i \in Levels' : Level(i)' = Level(i)
      /\ Level(last) = cur
  BY <1>0, LevelsPopped DEF Levels
<1> HIDE DEF last
<1>2. CASE cur.id > 0
  <2>1. cur.id \in open \ held /\ open' = open \ {cur.id}
    BY <1>0, <1>1, <1>2 DEF Accounted
  <2>2. \A i \in Levels' : Level(i)'.id > 0 => Level(i)'.id # cur.id
    BY <1>1, <1>2 DEF Accounted
  <2>3. \A h \in open' \ held' : \E i \in Levels' : Level(i)'.id > 0 /\ Level(i)'.id = h
    <3> SUFFICES ASSUME NEW h \in open' \ held'
                 PROVE  \E i \in Levels' : Level(i)'.id > 0 /\ Level(i)'.id = h
      OBVIOUS
    <3>1. PICK i \in Levels : Level(i).id > 0 /\ Level(i).id = h
      BY <2>1 DEF Accounted
    <3>2. i # last
      BY <1>1, <2>1, <3>1
    <3> QED
      BY <1>1, <3>1, <3>2
  <2> QED
    BY <1>1, <2>1, <2>2, <2>3 DEF Accounted
<1>3. CASE ~(cur.id > 0)
  BY <1>0, <1>1, <1>3 DEF Accounted
<1> QED
  BY <1>2, <1>3

\* The close that underflows leaves `under` behind.
LEMMA AccountedLeaves ==
  ASSUME TypeOK, ~under => Accounted, CLOSE_INPUT_SOURCE, held' = held
  PROVE  ~under' => Accounted'
<1>1. CASE save = <<>>
  BY <1>1 DEF CLOSE_INPUT_SOURCE, PopInputSource
<1>2. CASE save # <<>>
  <2>1. under' = under
    BY <1>2 DEF CLOSE_INPUT_SOURCE, PopInputSource
  <2> QED
    BY <1>2, <2>1, AccountedClose
<1> QED
  BY <1>1, <1>2

LEMMA HandlesInit == Init => Accounted
<1> SUFFICES ASSUME Init PROVE Accounted
  OBVIOUS
<1>1. Len(save) = 0 /\ cur.id = 0 /\ open = {} /\ held = {}
  BY DEF Init, BootSource, Console
<1>2. \A i \in Levels : i = 1 /\ Level(i).id = 0
  BY <1>1 DEF Levels, Level
<1> QED
  BY <1>1, <1>2 DEF Accounted

LEMMA HandlesStep ==
  TypeOK /\ (~under => Accounted) /\ [Next]_vars => (~under' => Accounted')
<1> SUFFICES ASSUME TypeOK, ~under => Accounted, [Next]_vars
             PROVE  ~under' => Accounted'
  OBVIOUS
<1> USE InputAssumption
<1>0. cur \in Sources
  BY DEF TypeOK
<1>1. CASE QUIT
  <2>1. Len(save') = 0 /\ cur'.id = 0 /\ open' = {} /\ held' = {}
    BY <1>0, <1>1 DEF QUIT, Reset, Sources, Console, TypeOK
  <2>2. \A i \in Levels' : i = 1 /\ Level(i)'.id = 0
    BY <2>1 DEF Levels, Level
  <2> QED
    BY <2>1, <2>2 DEF Accounted
<1>2. CASE SourceEnds \/ UnwindSource
  BY <1>2, AccountedLeaves DEF SourceEnds, UnwindSource
<1>3. ASSUME NEW h \in Handles, INCLUDED(h) PROVE ~under' => Accounted'
  <2>1. /\ save' = Append(save, cur) /\ held' = held /\ under' = under
        /\ h \notin open /\ open' = open \cup {h}
        /\ cur' = [cur EXCEPT !.ptr = cur.top, !.id = h]
    BY <1>3 DEF INCLUDED
  <2>0. h \in 1..8
    BY <1>3
  <2>2. cur'.id = h /\ h > 0
    BY <1>0, <2>0, <2>1 DEF Sources
  <2> QED
    BY <2>1, <2>2, AccountedPush
<1>4. ASSUME NEW p \in 0..TibSize, NEW n \in EvalLens, EVALUATE(p, n)
      PROVE  ~under' => Accounted'
  <2>1. /\ save' = Append(save, cur) /\ held' = held /\ under' = under /\ open' = open
        /\ cur' = [cur EXCEPT !.eptr = p, !.esize = n, !.id = Eval]
    BY <1>4 DEF EVALUATE
  <2>2. cur'.id = Eval
    BY <1>0, <2>1 DEF Sources
  <2> QED
    BY <2>1, <2>2, AccountedPush
<1>5. ASSUME NEW h \in Handles, FsOpen(h) \/ FsClose(h) PROVE ~under' => Accounted'
  <2>1. /\ save' = save /\ cur' = cur /\ under' = under
        /\ \/ h \notin open /\ open' = open \cup {h} /\ held' = held \cup {h}
           \/ h \in held /\ open' = open \ {h} /\ held' = held \ {h}
    BY <1>5 DEF FsOpen, FsClose
  <2>2. Levels' = Levels /\ \A i \in Levels : Level(i)' = Level(i)
    BY <2>1 DEF Levels, Level
  <2> QED
    BY <2>1, <2>2 DEF Accounted
<1>6. CASE Refill
  <2>1. save' = save /\ open' = open /\ held' = held /\ under' = under
    BY <1>6 DEF Refill, RefillConsole, RefillFile, RefillEval, RefillFails
  <2>2. cur'.id = cur.id
    BY <1>0, <1>6 DEF Refill, RefillConsole, RefillFile, RefillEval, RefillFails, Sources
  <2> QED
    BY <2>1, <2>2, AccountedSame
<1>7. CASE StackFull \/ IncludeRefused \/ ParseWord \/ LineDone \/ CATCH \/ CatchReturns
           \/ QuitWord \/ Throw \/ UnwindCatch \/ Uncaught \/ UNCHANGED vars
  <2>1. save' = save /\ open' = open /\ held' = held /\ under' = under
    BY <1>7 DEF StackFull, IncludeRefused, ParseWord, LineDone, CATCH, CatchReturns,
                QuitWord, Throw, UnwindCatch, Uncaught, vars
  <2>2. cur'.id = cur.id
    BY <1>0, <1>7 DEF StackFull, IncludeRefused, ParseWord, LineDone, CATCH, CatchReturns,
                      QuitWord, Throw, UnwindCatch, Uncaught, vars, Sources
  <2> QED
    BY <2>1, <2>2, AccountedSame
<1> QED
  BY <1>1, <1>2, <1>3, <1>4, <1>5, <1>6, <1>7 DEF Next, Nest, RunWord, Unwind

(***************************************************************************)
(* No error, caught anywhere, leaks a handle or closes one under its       *)
(* reader, for any number of handles and any nesting.                      *)
(***************************************************************************)
THEOREM HandlesNeverLeak == Spec => []HandlesBalance
<1>1. (~under => Accounted) => HandlesBalance
  BY AccountedBalances DEF HandlesBalance
<1>2. Init => (~under => Accounted)
  BY HandlesInit
<1>3. TypeOK /\ (~under => Accounted) /\ [Next]_vars => (~under => Accounted)'
  BY HandlesStep
<1> QED
  BY <1>1, <1>2, <1>3, TypeCorrect, PTL DEF Spec
---------------------------------------------------------------------------
(* What comes back.                                                        *)

\* What frame f was told when it was made is still so of its level: a
\* source's parent is suspended as it was, a word's source is where it was,
\* but for the line of a string, which moves along it.
Remembers(f) ==
  /\ f.kind = "source" /\ f.level > 0 => save[f.level] = f.at
  /\ f.kind = "catch" =>
       /\ Level(f.level + 1).id = f.at.id
       /\ f.at.id # Eval => Level(f.level + 1).ptr = f.at.ptr

\* Below a source's frame are the frames of the levels below its own.
FramesRemember ==
  /\ \A k \in 1..Len(handlers) : handlers[k].level <= Len(save) /\ Remembers(handlers[k])
  /\ \A j \in 1..Len(handlers) : \A k \in 1..(j - 1) :
       handlers[j].kind = "source" => handlers[k].level < handlers[j].level

LEMMA FrameTyped ==
  ASSUME TypeOK, NEW k \in 1..Len(handlers)
  PROVE  handlers[k] \in Frames /\ handlers[k].level \in Nat /\ handlers[k].at \in Sources
<1>1. handlers[k] \in Frames
  BY DEF TypeOK
<1> QED
  BY <1>1 DEF Frames

\* The same levels, but for the line of a string that is interpreted.
LEMMA RememberSame ==
  ASSUME TypeOK, NEW f \in Frames, f.level <= Len(save), Remembers(f),
         save' = save, cur'.id = cur.id, cur.id # Eval => cur'.ptr = cur.ptr
  PROVE  Remembers(f)'
<1>1. f.level \in Nat /\ Len(save) \in Nat
  BY DEF Frames, TypeOK
<1>2. \A i \in Nat : /\ Level(i)'.id = Level(i).id
                     /\ Level(i).id # Eval => Level(i)'.ptr = Level(i).ptr
  BY DEF Level
<1>3. f.level + 1 \in Nat
  BY <1>1
<1> QED
  BY <1>2, <1>3 DEF Remembers

LEMMA RememberPush ==
  ASSUME TypeOK, NEW f \in Frames, f.level <= Len(save), Remembers(f),
         save' = Append(save, cur)
  PROVE  Remembers(f)'
<1>1. f.level \in Nat /\ Len(save) \in Nat
  BY DEF Frames, TypeOK
<1>2. /\ \A i \in 1..(Len(save) + 1) : Level(i)' = Level(i)
      /\ \A i \in 1..Len(save) : save'[i] = save[i]
  BY LevelsPushed, AppendProperties DEF TypeOK
<1>3. f.level + 1 \in 1..(Len(save) + 1)
  BY <1>1
<1>4. f.level > 0 => f.level \in 1..Len(save)
  BY <1>1
<1> QED
  BY <1>2, <1>3, <1>4 DEF Remembers

LEMMA RememberPop ==
  ASSUME TypeOK, NEW f \in Frames, f.level < Len(save), Remembers(f),
         save # <<>>, save' = PopSeq(save), cur' = save[Len(save)]
  PROVE  Remembers(f)'
<1>1. f.level \in Nat /\ Len(save) \in Nat
  BY DEF Frames, TypeOK
<1>2. /\ \A i \in 1..Len(save) : Level(i)' = Level(i)
      /\ \A i \in 1..(Len(save) - 1) : save'[i] = save[i]
  BY LevelsPopped, PopSeqFacts DEF TypeOK
<1>3. f.level + 1 \in 1..Len(save)
  BY <1>1
<1>4. f.level > 0 => f.level \in 1..(Len(save) - 1)
  BY <1>1
<1> QED
  BY <1>2, <1>3, <1>4 DEF Remembers

\* A frame more: that of a source one level up, or of a CATCH on this one.
LEMMA RememberMore ==
  ASSUME TypeOK, FramesRemember, NEW f \in Frames,
         handlers' = Append(handlers, f), Len(save') \in Nat, Len(save) <= Len(save'),
         f.level = Len(save'), f.kind = "source" => Len(save) < Len(save'),
         Remembers(f)',
         \A k \in 1..Len(handlers) : Remembers(handlers[k])'
  PROVE  FramesRemember'
<1> DEFINE m == Len(handlers)
<1>1. /\ m \in Nat /\ Len(handlers') = m + 1
      /\ \A k \in 1..m : handlers'[k] = handlers[k]
      /\ \A k : k = m + 1 => handlers'[k] = f
      /\ Len(save) \in Nat
  BY AppendFacts DEF TypeOK
<1>2. ASSUME NEW k \in 1..Len(handlers')
      PROVE  handlers'[k].level <= Len(save') /\ Remembers(handlers[k])'
  <2>1. CASE k \in 1..m
    <3>1. handlers[k].level <= Len(save) /\ handlers[k].level \in Nat
      BY <2>1, FrameTyped DEF FramesRemember
    <3>2. handlers'[k] = handlers[k]
      BY <1>1, <2>1
    <3>3. Remembers(handlers[k])'
      BY <2>1
    <3> QED
      BY <1>1, <3>1, <3>2, <3>3
  <2>2. CASE k = m + 1
    <3>1. handlers'[k] = f
      BY <1>1, <2>2
    <3> QED
      BY <3>1 DEF Remembers
  <2> QED
    BY <1>1, <2>1, <2>2
<1>3. ASSUME NEW j \in 1..Len(handlers'), NEW k \in 1..(j - 1), handlers'[j].kind = "source"
      PROVE  handlers'[k].level < handlers'[j].level
  <2>1. k \in 1..m /\ handlers'[k] = handlers[k]
    BY <1>1
  <2>2. CASE j \in 1..m
    BY <1>1, <1>3, <2>1, <2>2 DEF FramesRemember
  <2>3. CASE j = m + 1
    <3>1. handlers[k].level <= Len(save) /\ handlers[k].level \in Nat
      BY <2>1, FrameTyped DEF FramesRemember
    <3>2. handlers'[j] = f
      BY <1>1, <2>3
    <3> QED
      BY <1>1, <1>3, <2>1, <3>1, <3>2
  <2> QED
    BY <1>1, <2>2, <2>3
<1> QED
  BY <1>2, <1>3 DEF FramesRemember

\* The same frames, or all but the last.
LEMMA RememberRest ==
  ASSUME TypeOK, FramesRemember, NEW n \in Nat, n <= Len(handlers),
         handlers' \in Seq(Frames), Len(handlers') = n,
         \A k \in 1..n : handlers'[k] = handlers[k],
         \A k \in 1..n : handlers[k].level <= Len(save'),
         \A f \in Frames : (\E k \in 1..n : f = handlers[k]) => Remembers(f)'
  PROVE  FramesRemember'
<1>0. Len(handlers) \in Nat
  BY DEF TypeOK
<1>1. ASSUME NEW k \in 1..Len(handlers')
      PROVE  handlers'[k].level <= Len(save') /\ Remembers(handlers[k])'
  <2>1. PICK f \in Frames : f = handlers[k]
    BY <1>0, FrameTyped
  <2>2. Remembers(f)' /\ f = handlers'[k]
    BY <2>1
  <2>3. Remembers(handlers[k])'
    BY <2>2 DEF Remembers
  <2> QED
    BY <2>3
<1>2. ASSUME NEW j \in 1..Len(handlers'), NEW k \in 1..(j - 1), handlers'[j].kind = "source"
      PROVE  handlers'[k].level < handlers'[j].level
  <2>1. j \in 1..Len(handlers) /\ j \in 1..n /\ k \in 1..n
    BY <1>0
  <2> QED
    BY <1>2, <2>1 DEF FramesRemember
<1> QED
  BY <1>1, <1>2 DEF FramesRemember

\* A source is closed: by its end, or by an error that goes on.
LEMMA RememberClose ==
  ASSUME TypeOK, FramesMatchLevels, FramesRemember, TopKind = "source",
         handlers' = PopSeq(handlers), CLOSE_INPUT_SOURCE
  PROVE  FramesRemember'
<1> DEFINE m == Len(handlers)
<1>1. /\ handlers # <<>> /\ handlers[m].kind = "source"
      /\ handlers[m].level = Len(save)
  BY DEF TopKind, FramesMatchLevels
<1>2. /\ handlers' \in Seq(Frames) /\ Len(handlers') = m - 1
      /\ \A k \in 1..(m - 1) : handlers'[k] = handlers[k]
      /\ m \in Nat \ {0}
  BY <1>1, PopSeqFacts DEF TypeOK
<1>3. CASE save = <<>>
  <2>1. handlers' = <<>>
    BY <1>3, CloseMatchesLevels
  <2>2. 1..Len(handlers') = {}
    BY <2>1
  <2> QED
    BY <2>2 DEF FramesRemember
<1>4. CASE save # <<>>
  <2>1. save' = PopSeq(save) /\ cur' = save[Len(save)]
    BY <1>4 DEF CLOSE_INPUT_SOURCE, PopInputSource
  <2>2. Len(save) \in Nat \ {0} /\ Len(save') = Len(save) - 1
    BY <1>4, <2>1, LevelsPopped
  <2>3. ASSUME NEW k \in 1..(m - 1)
        PROVE  /\ handlers[k] \in Frames /\ handlers[k].level \in Nat
               /\ handlers[k].level < Len(save) /\ Remembers(handlers[k])
    <3>1. k \in 1..m /\ m \in 1..m
      BY <1>2
    <3> QED
      BY <1>1, <3>1, FrameTyped DEF FramesRemember
  <2>4. \A k \in 1..(m - 1) : handlers[k].level <= Len(save')
    BY <2>2, <2>3
  <2>5. ASSUME NEW f \in Frames, \E k \in 1..(m - 1) : f = handlers[k]
        PROVE  Remembers(f)'
    <3>1. f.level < Len(save) /\ Remembers(f)
      BY <2>3, <2>5
    <3> QED
      BY <1>4, <2>1, <3>1, RememberPop
  <2>6. m - 1 \in Nat /\ m - 1 <= m
    BY <1>2
  <2> QED
    BY <1>2, <2>4, <2>5, <2>6, RememberRest
<1> QED
  BY <1>3, <1>4

\* Nothing suspended is touched, and no frame is added.
LEMMA RememberKept ==
  ASSUME TypeOK, FramesRemember, save' = save, cur'.id = cur.id,
         cur.id # Eval => cur'.ptr = cur.ptr,
         handlers' = handlers \/ (handlers # <<>> /\ handlers' = PopSeq(handlers))
  PROVE  FramesRemember'
<1> DEFINE n == Len(handlers)
<1>1. n \in Nat
  BY DEF TypeOK
<1>2. ASSUME NEW k \in 1..n
      PROVE  /\ handlers[k] \in Frames /\ handlers[k].level <= Len(save)
             /\ Remembers(handlers[k])
  BY FrameTyped DEF FramesRemember
<1>3. ASSUME NEW f \in Frames, \E k \in 1..n : f = handlers[k]
      PROVE  Remembers(f)'
  <2>1. f.level <= Len(save) /\ Remembers(f)
    BY <1>2, <1>3
  <2> QED
    BY <2>1, RememberSame
<1>4. CASE handlers' = handlers
  <2>1. handlers' \in Seq(Frames) /\ Len(handlers') = n
    BY <1>4 DEF TypeOK
  <2>2. \A k \in 1..n : handlers[k].level <= Len(save')
    BY <1>2
  <2> QED
    BY <1>1, <1>3, <1>4, <2>1, <2>2, RememberRest
<1>5. CASE handlers # <<>> /\ handlers' = PopSeq(handlers)
  <2>1. /\ handlers' \in Seq(Frames) /\ Len(handlers') = n - 1
        /\ \A k \in 1..(n - 1) : handlers'[k] = handlers[k]
        /\ n \in Nat \ {0}
    BY <1>5, PopSeqFacts DEF TypeOK
  <2>2. n - 1 \in Nat /\ n - 1 <= n /\ \A k \in 1..(n - 1) : k \in 1..n
    BY <2>1
  <2>3. \A k \in 1..(n - 1) : handlers[k].level <= Len(save')
    BY <1>2, <2>2
  <2>4. \A f \in Frames : (\E k \in 1..(n - 1) : f = handlers[k]) => Remembers(f)'
    BY <1>3, <2>2
  <2> QED
    BY <2>1, <2>2, <2>3, <2>4, RememberRest
<1> QED
  BY <1>4, <1>5

\* INCLUDED and EVALUATE.
LEMMA RememberNest ==
  ASSUME TypeOK, FramesRemember, save' = Append(save, cur),
         handlers' = Append(handlers, Frame("source", Len(save) + 1, cur))
  PROVE  FramesRemember'
<1>1. PICK f : f = Frame("source", Len(save) + 1, cur)
  OBVIOUS
<1>2. /\ Len(save) \in Nat /\ Len(save') = Len(save) + 1
      /\ \A i : i = Len(save) + 1 => save'[i] = cur
      /\ cur \in Sources
  BY AppendFacts DEF TypeOK
<1>3. f \in Frames /\ f.kind = "source" /\ f.level = Len(save) + 1 /\ f.at = cur
  BY <1>1, <1>2 DEF Frame, Frames
<1>4. Remembers(f)'
  BY <1>2, <1>3 DEF Remembers
<1>5. \A k \in 1..Len(handlers) : handlers'[k] = handlers[k]
  BY <1>1, <1>3, AppendFacts DEF TypeOK
<1>6. ASSUME NEW k \in 1..Len(handlers)
      PROVE  Remembers(handlers[k])'
  <2>1. handlers[k] \in Frames /\ handlers[k].level <= Len(save) /\ Remembers(handlers[k])
    BY FrameTyped DEF FramesRemember
  <2>2. PICK g \in Frames : g = handlers[k]
    BY <2>1
  <2>3. Remembers(g)'
    BY <2>1, <2>2, RememberPush
  <2>4. g = handlers'[k]
    BY <1>5, <2>2
  <2> QED
    BY <2>3, <2>4 DEF Remembers
<1> QED
  BY <1>1, <1>2, <1>3, <1>4, <1>6, RememberMore

LEMMA RememberCatch ==
  ASSUME TypeOK, FramesRemember, CATCH
  PROVE  FramesRemember'
<1>1. PICK f : f = Frame("catch", Len(save), cur)
  OBVIOUS
<1>2. /\ handlers' = Append(handlers, f) /\ save' = save /\ cur' = cur
      /\ Len(save) \in Nat /\ cur \in Sources
  BY <1>1 DEF CATCH, TypeOK
<1>3. f \in Frames /\ f.kind = "catch" /\ f.level = Len(save) /\ f.at = cur
  BY <1>1, <1>2 DEF Frame, Frames
<1>4. Remembers(f)'
  <2>1. \A i : i = Len(save) + 1 => Level(i)' = cur
    BY <1>2 DEF Level
  <2> QED
    BY <1>3, <2>1 DEF Remembers
<1>5. \A k \in 1..Len(handlers) : handlers'[k] = handlers[k]
  BY <1>2, <1>3, AppendFacts DEF TypeOK
<1>6. ASSUME NEW k \in 1..Len(handlers)
      PROVE  Remembers(handlers[k])'
  <2>1. handlers[k] \in Frames /\ handlers[k].level <= Len(save) /\ Remembers(handlers[k])
    BY FrameTyped DEF FramesRemember
  <2>2. PICK g \in Frames : g = handlers[k]
    BY <2>1
  <2>3. Remembers(g)'
    BY <1>2, <2>1, <2>2, RememberSame
  <2>4. g = handlers'[k]
    BY <1>5, <2>2
  <2> QED
    BY <2>3, <2>4 DEF Remembers
<1> QED
  BY <1>2, <1>3, <1>4, <1>6, RememberMore

LEMMA RememberInit == Init => FramesRemember
<1> SUFFICES ASSUME Init PROVE FramesRemember
  OBVIOUS
<1>1. 1..Len(handlers) = {}
  BY DEF Init
<1> QED
  BY <1>1 DEF FramesRemember

LEMMA RememberStep ==
  TypeOK /\ FramesMatchLevels /\ FramesRemember /\ [Next]_vars => FramesRemember'
<1> SUFFICES ASSUME TypeOK, FramesMatchLevels, FramesRemember, [Next]_vars
             PROVE  FramesRemember'
  OBVIOUS
<1>0. cur \in Sources
  BY DEF TypeOK
<1>1. CASE QUIT
  <2>1. handlers' = <<Frame("source", 0, Reset(cur))>> /\ save' = <<>>
    BY <1>1 DEF QUIT
  <2>2. /\ 1..Len(handlers') = {1} /\ 1..(1 - 1) = {} /\ Len(save') = 0
        /\ handlers'[1].kind = "source" /\ handlers'[1].level = 0
    BY <2>1 DEF Frame
  <2>3. Remembers(handlers[1])'
    BY <2>2 DEF Remembers
  <2> QED
    BY <2>2, <2>3 DEF FramesRemember
<1>2. CASE Refill
  <2>1. save' = save /\ handlers' = handlers
    BY <1>2 DEF Refill, RefillConsole, RefillFile, RefillEval, RefillFails
  <2>2. cur'.id = cur.id /\ (cur.id # Eval => cur'.ptr = cur.ptr)
    BY <1>0, <1>2 DEF Refill, RefillConsole, RefillFile, RefillEval, RefillFails, Sources
  <2> QED
    BY <2>1, <2>2, RememberKept
<1>3. CASE SourceEnds \/ UnwindSource
  BY <1>3, RememberClose DEF SourceEnds, UnwindSource
<1>4. CASE \/ \E h \in Handles : INCLUDED(h)
           \/ \E p \in 0..TibSize, n \in EvalLens : EVALUATE(p, n)
  BY <1>4, RememberNest DEF INCLUDED, EVALUATE
<1>5. CASE CATCH
  BY <1>5, RememberCatch
<1>6. CASE StackFull \/ IncludeRefused \/ ParseWord \/ LineDone \/ QuitWord \/ Throw
           \/ Uncaught \/ (\E h \in Handles : FsOpen(h) \/ FsClose(h)) \/ UNCHANGED vars
  <2>1. save' = save /\ handlers' = handlers
    BY <1>6 DEF StackFull, IncludeRefused, ParseWord, LineDone, QuitWord, Throw,
                Uncaught, FsOpen, FsClose, vars
  <2>2. cur'.id = cur.id /\ cur'.ptr = cur.ptr
    BY <1>0, <1>6 DEF StackFull, IncludeRefused, ParseWord, LineDone, QuitWord, Throw,
                      Uncaught, FsOpen, FsClose, vars, Sources
  <2> QED
    BY <2>1, <2>2, RememberKept
<1>7. CASE CatchReturns \/ UnwindCatch
  <2>1. /\ save' = save /\ cur' = cur
        /\ handlers # <<>> /\ handlers' = PopSeq(handlers)
    BY <1>7 DEF CatchReturns, UnwindCatch, TopKind
  <2> QED
    BY <2>1, RememberKept
<1> QED
  BY <1>1, <1>2, <1>3, <1>4, <1>5, <1>6, <1>7 DEF Next, Nest, RunWord, Unwind

\* Only QUIT, a return and a rethrow shorten the chain.
LEMMA WhatShortens ==
  ASSUME TypeOK, [Next]_vars, pc # "quit", Len(handlers') < Len(handlers)
  PROVE  \/ SourceEnds \/ UnwindSource \/ CatchReturns \/ UnwindCatch
<1>1. ~QUIT
  BY DEF QUIT
<1>2. Len(handlers) \in Nat
  BY DEF TypeOK
<1>3. ASSUME NEW f \in Frames, handlers' = Append(handlers, f) PROVE FALSE
  BY <1>2, <1>3, AppendFacts DEF TypeOK
<1>4. /\ Frame("source", Len(save) + 1, cur) \in Frames
      /\ Frame("catch", Len(save), cur) \in Frames
  BY DEF TypeOK, Frame, Frames
<1>5. /\ ~CATCH
      /\ \A h \in Handles : ~INCLUDED(h)
      /\ \A p \in 0..TibSize, n \in EvalLens : ~EVALUATE(p, n)
  BY <1>3, <1>4 DEF CATCH, INCLUDED, EVALUATE
<1>6. handlers' # handlers
  BY <1>2
<1>7. /\ ~Refill /\ ~StackFull /\ ~IncludeRefused /\ ~ParseWord /\ ~LineDone
      /\ ~QuitWord /\ ~Throw /\ ~Uncaught /\ ~UNCHANGED vars
      /\ \A h \in Handles : ~FsOpen(h) /\ ~FsClose(h)
  BY <1>6 DEF Refill, RefillConsole, RefillFile, RefillEval, RefillFails, StackFull,
              IncludeRefused, ParseWord, LineDone, QuitWord, Throw, Uncaught, FsOpen,
              FsClose, vars
<1> QED
  BY <1>1, <1>5, <1>7 DEF Next, Nest, RunWord, Unwind

(***************************************************************************)
(* Whoever catches finds the input source it was called in, and a parent   *)
(* comes back as INCLUDED or EVALUATE found it, at any nesting depth and   *)
(* however many errors were thrown and caught on the way.                  *)
(***************************************************************************)
THEOREM SourcesComeBack == Spec => SourceComesBack
<1> DEFINE f == handlers[Len(handlers)]
           Back == /\ TopKind = "catch" =>
                        /\ Len(save') = f.level
                        /\ cur'.id = f.at.id
                        /\ cur'.id # Eval => cur'.ptr = f.at.ptr
                   /\ TopKind = "source" /\ save # <<>> =>
                        /\ Len(save') = f.level - 1
                        /\ cur' = f.at
<1>1. TypeOK /\ FramesMatchLevels /\ FramesRemember /\ [Next]_vars
      => [pc # "quit" /\ Len(handlers') < Len(handlers) => Back]_vars
  <2> SUFFICES ASSUME TypeOK, FramesMatchLevels, FramesRemember, [Next]_vars,
                      pc # "quit", Len(handlers') < Len(handlers)
               PROVE  Back
    OBVIOUS
  <2>1. SourceEnds \/ UnwindSource \/ CatchReturns \/ UnwindCatch
    BY WhatShortens
  <2>2. /\ handlers # <<>> /\ Len(handlers) \in 1..Len(handlers) /\ Len(save) \in Nat
        /\ f.level = Len(save) /\ Remembers(f)
    <3>1. handlers # <<>>
      BY <2>1 DEF SourceEnds, UnwindSource, CatchReturns, UnwindCatch, TopKind
    <3>2. Len(handlers) \in 1..Len(handlers) /\ Len(save) \in Nat
      BY <3>1, PopSeqFacts DEF TypeOK
    <3> QED
      BY <3>1, <3>2 DEF FramesMatchLevels, FramesRemember
  <2>3. CASE SourceEnds \/ UnwindSource
    <3>1. TopKind = "source" /\ f.kind = "source" /\ CLOSE_INPUT_SOURCE
      BY <2>3 DEF SourceEnds, UnwindSource, TopKind
    <3>2. ASSUME save # <<>> PROVE Len(save') = f.level - 1 /\ cur' = f.at
      <4>1. save' = PopSeq(save) /\ cur' = save[Len(save)]
        BY <3>1, <3>2 DEF CLOSE_INPUT_SOURCE, PopInputSource
      <4>2. Len(save) > 0 /\ Len(save') = Len(save) - 1
        BY <3>2, <4>1, LevelsPopped
      <4> QED
        BY <2>2, <3>1, <4>1, <4>2 DEF Remembers
    <3> QED
      BY <3>1, <3>2
  <2>4. CASE CatchReturns \/ UnwindCatch
    <3>1. TopKind = "catch" /\ f.kind = "catch" /\ save' = save /\ cur' = cur
      BY <2>4 DEF CatchReturns, UnwindCatch, TopKind
    <3>2. Level(f.level + 1) = cur
      BY <2>2 DEF Level
    <3> QED
      BY <2>2, <3>1, <3>2 DEF Remembers
  <2> QED
    BY <2>1, <2>3, <2>4
<1>2. Spec => [](TypeOK /\ FramesMatchLevels /\ FramesRemember)
  BY TypeInit, TypeStep, FramesInit, FramesStep, RememberInit, RememberStep, PTL DEF Spec
<1> QED
  BY <1>1, <1>2, PTL DEF Spec, SourceComesBack

(***************************************************************************)
(* What UnwindEnds takes besides fairness: while an error unwinds every    *)
(* step drops a frame, for good, or leaves the unwinding; that is at the   *)
(* CATCH of a word, which is given the levels it was called with, or, with *)
(* no frame left, at QUIT, whose step is to a fresh prompt: the boot has   *)
(* no CATCH below it (asm/interpreter.asm:161-209, asm/exception.asm).     *)
(***************************************************************************)
UnwindShrinks ==
  /\ [][pc = "unwind" =>
          \/ pc' = "unwind" /\ Len(handlers) \in Nat \ {0} /\ Len(handlers') = Len(handlers) - 1
          \/ pc' = "interpret" /\ TopKind = "catch" /\ handlers' = PopSeq(handlers)
               /\ Len(save) = handlers[Len(handlers)].level
          \/ pc' = "quit" /\ handlers = <<>> /\ UNCHANGED <<cur, save, open>>]_vars
  /\ [][pc = "quit" => pc' = "refill" /\ Len(handlers') = 1 /\ cur'.id = Console]_vars

(***************************************************************************)
(* The rethrows come to an end at any depth of sources and of CATCHes.     *)
(***************************************************************************)
THEOREM ErrorsComeDown == Spec => UnwindShrinks
<1> DEFINE Down == \/ pc' = "unwind" /\ Len(handlers) \in Nat \ {0}
                        /\ Len(handlers') = Len(handlers) - 1
                   \/ pc' = "interpret" /\ TopKind = "catch" /\ handlers' = PopSeq(handlers)
                        /\ Len(save) = handlers[Len(handlers)].level
                   \/ pc' = "quit" /\ handlers = <<>> /\ UNCHANGED <<cur, save, open>>
<1>1. TypeOK /\ FramesMatchLevels /\ [Next]_vars => [pc = "unwind" => Down]_vars
  <2> SUFFICES ASSUME TypeOK, FramesMatchLevels, Next, pc = "unwind"
               PROVE  Down
    OBVIOUS
  <2>1. Unwind
    BY DEF Next, QUIT, Refill, RefillConsole, RefillFile, RefillEval, RefillFails, Refilling,
           SourceEnds, Nest, StackFull, IncludeRefused, INCLUDED, EVALUATE, Interpreting,
           RunWord, ParseWord, LineDone, FsOpen, FsClose, CATCH, CatchReturns, QuitWord, Throw
  <2>2. ASSUME handlers # <<>>
        PROVE  Len(handlers) \in Nat \ {0} /\ Len(PopSeq(handlers)) = Len(handlers) - 1
    BY <2>2, PopSeqFacts DEF TypeOK
  <2>3. CASE UnwindSource
    <3>1. handlers # <<>> /\ handlers' = PopSeq(handlers) /\ pc' = pc
      BY <2>3 DEF UnwindSource, TopKind
    <3> QED
      BY <2>2, <3>1
  <2>4. CASE UnwindCatch
    <3>1. /\ handlers # <<>> /\ TopKind = "catch" /\ handlers' = PopSeq(handlers)
          /\ pc' = "interpret"
      BY <2>4 DEF UnwindCatch, TopKind
    <3>2. Len(save) = handlers[Len(handlers)].level
      BY <2>2, <3>1 DEF FramesMatchLevels
    <3> QED
      BY <3>1, <3>2
  <2>5. CASE Uncaught
    <3>1. handlers = <<>>
      <4>1. ASSUME handlers # <<>> PROVE handlers[Len(handlers)].kind \in {"source", "catch"}
        <5>1. handlers[Len(handlers)] \in Frames
          BY <4>1, PopSeqFacts DEF TypeOK
        <5> QED
          BY <5>1 DEF Frames
      <4> QED
        BY <2>5, <4>1 DEF Uncaught, TopKind
    <3> QED
      BY <2>5, <3>1 DEF Uncaught
  <2> QED
    BY <2>1, <2>3, <2>4, <2>5 DEF Unwind
<1>2. TypeOK /\ [Next]_vars
      => [pc = "quit" => pc' = "refill" /\ Len(handlers') = 1 /\ cur'.id = Console]_vars
  <2> SUFFICES ASSUME TypeOK, Next, pc = "quit"
               PROVE  pc' = "refill" /\ Len(handlers') = 1 /\ cur'.id = Console
    OBVIOUS
  <2>1. QUIT
    BY DEF Next, Unwind, UnwindSource, UnwindCatch, Uncaught, Refill, RefillConsole, RefillFile,
           RefillEval, RefillFails, Refilling, SourceEnds, Nest, StackFull, IncludeRefused,
           INCLUDED, EVALUATE, Interpreting, RunWord, ParseWord, LineDone, FsOpen, FsClose,
           CATCH, CatchReturns, QuitWord, Throw
  <2>2. "id" \in DOMAIN cur
    BY DEF TypeOK, Sources
  <2> QED
    BY <2>1, <2>2 DEF QUIT, Reset
<1>3. Spec => [](TypeOK /\ FramesMatchLevels)
  BY TypeInit, TypeStep, FramesInit, FramesStep, PTL DEF Spec
<1> QED
  BY <1>1, <1>2, <1>3, PTL DEF Spec, UnwindShrinks
==========================================================================
