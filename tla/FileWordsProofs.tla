-------------------------- MODULE FileWordsProofs --------------------------
(***************************************************************************)
(* For any files, handles and depth of nesting, whatever calls fail but    *)
(* the reading of a directory: every open handle has one owner; and, with  *)
(* assumptions of their own on what fails or how lines are written, an ior *)
(* of 0 is true, a saved file is there, a line survives what it includes.  *)
(***************************************************************************)
EXTENDS FileWords, SequenceTheorems, TLAPS

\* DIR and LS keep their handle when FS_DIRNEXT fails (base.fs:790).
DirsRead == <<"dir", "next">> \notin Faults

Inv == TypeOK /\ HandlesOwned

USE FileWordsAssumption

Open == {h \in Handles : pool[h] # Closed} \cup dirs

Distinct == \A i, j \in DOMAIN frames : frames[i].handle = frames[j].handle => i = j

\* What the table of words says, row by row.
LEMMA WordFacts ==
  ASSUME NEW w \in DOMAIN Words
  PROVE  /\ Len(Words[w].calls) \in 0..2
         /\ Words[w].loops => Len(Words[w].calls) = 1
         /\ ~Words[w].closes => w = "dir"
         /\ w = "dir" => Len(Words[w].calls) = 1 /\ Words[w].calls[1] = "next"
         /\ w = "include_file" => Len(Words[w].calls) = 1 /\ Words[w].loops
         /\ Words[w].opens \in {"reading", "created"} => w \notin {"dir", "include_file"}
<1>1. DOMAIN Words = {"file_status", "bload", "bsave", "vload", "vsave", "save_image",
                      "help", "include_file", "dir"}
  BY DEF Words
<1>2. /\ Words["file_status"] = fileStatus /\ Words["bload"] = bload
      /\ Words["bsave"] = bsave /\ Words["vload"] = vload /\ Words["vsave"] = vsave
      /\ Words["save_image"] = SAVE_IMAGE /\ Words["help"] = help
      /\ Words["include_file"] = includeFile /\ Words["dir"] = dir
  BY DEF Words
<1>3. CASE w = "file_status"  BY <1>2, <1>3 DEF fileStatus, Word
<1>4. CASE w = "bload"        BY <1>2, <1>4 DEF bload, Word
<1>5. CASE w = "bsave"        BY <1>2, <1>5 DEF bsave, Word
<1>6. CASE w = "vload"        BY <1>2, <1>6 DEF vload, Word
<1>7. CASE w = "vsave"        BY <1>2, <1>7 DEF vsave, Word
<1>8. CASE w = "save_image"   BY <1>2, <1>8 DEF SAVE_IMAGE, Word
<1>9. CASE w = "help"         BY <1>2, <1>9 DEF help, Word
<1>10. CASE w = "include_file"  BY <1>2, <1>10 DEF includeFile, Word
<1>11. CASE w = "dir"         BY <1>2, <1>11 DEF dir, Word
<1>. QED BY <1>1, <1>3, <1>4, <1>5, <1>6, <1>7, <1>8, <1>9, <1>10, <1>11

LEMMA WordNames == {"dir", "include_file"} \subseteq DOMAIN Words
BY DEF Words

---------------------------------------------------------------------------
(* What happens to the stack of words.                                     *)

LEMMA TopFacts ==
  ASSUME TypeOK, frames # <<>>
  PROVE  /\ Len(frames) \in DOMAIN frames /\ Len(frames) \in Nat \ {0}
         /\ DOMAIN frames = 1..Len(frames)
         /\ Top \in Frames /\ Top.word \in DOMAIN Words /\ Top.handle \in Handles \cup Dirs
         /\ Top.handle \in Held(frames)
         /\ Top.word = "dir" <=> Top.handle \in Dirs
         /\ Top.at \in Nat /\ Top.at <= Len(Words[Top.word].calls) + 1
         /\ Top.line \in 0..MaxLines
         /\ Top.at = 0 => Top.word = "include_file"
         /\ Top.word = "include_file" => Len(frames) <= MaxDepth
<1>1. frames \in Seq(Frames) /\ Len(frames) \in DOMAIN frames /\ Len(frames) \in Nat \ {0}
      /\ DOMAIN frames = 1..Len(frames)
  BY DEF TypeOK
<1>2. Top \in Frames
  BY <1>1 DEF Top
<1>3. Top.word \in DOMAIN Words /\ Top.handle \in Handles \cup Dirs /\ Top.at \in Nat
      /\ Top.line \in 0..MaxLines
  BY <1>2 DEF Frames
<1>4. Top.handle \in Held(frames)
  BY <1>1 DEF Held, Top
<1>. QED BY <1>1, <1>2, <1>3, <1>4 DEF TypeOK, FramesOK, Top

\* The word at the top goes on; below it nothing changes.
LEMMA TopChanges ==
  ASSUME Inv, frames # <<>>, NEW g \in Frames,
         frames' = [frames EXCEPT ![Len(frames)] = g],
         g.word = Top.word, g.handle = Top.handle,
         g.at <= Len(Words[Top.word].calls) + 1,
         g.at = 0 => Top.word = "include_file"
  PROVE  frames' \in Seq(Frames) /\ FramesOK' /\ Held(frames') = Held(frames) /\ Distinct'
<1>. DEFINE n == Len(frames)
<1>1. frames \in Seq(Frames) /\ n \in DOMAIN frames /\ DOMAIN frames = 1..n /\ n \in Nat
  BY TopFacts DEF Inv, TypeOK
<1>2. /\ frames' \in Seq(Frames) /\ Len(frames') = n /\ DOMAIN frames' = 1..n
      /\ frames'[n] = g /\ \A i \in 1..n : i # n => frames'[i] = frames[i]
  BY <1>1
<1>3. \A i \in 1..n : frames'[i].word = frames[i].word /\ frames'[i].handle = frames[i].handle
  BY <1>1, <1>2 DEF Top
<1>4. FramesOK'
  <2>. SUFFICES ASSUME NEW i \in 1..n
                PROVE  /\ frames'[i].at <= Len(Words[frames'[i].word].calls) + 1
                       /\ frames'[i].at = 0 => frames'[i].word = "include_file"
                       /\ frames'[i].word = "include_file" => i <= MaxDepth
                       /\ frames'[i].word = "dir" <=> frames'[i].handle \in Dirs
                       /\ i < n => frames'[i].at = 0
    BY <1>2 DEF FramesOK
  <2>1. CASE i = n
    <3>1. frames'[i] = g /\ frames'[i].word = Top.word /\ frames'[i].handle = Top.handle
      BY <1>2, <2>1, Zenon
    <3>3. ~(i < n)
      BY <1>1, <2>1
    <3>2. /\ Top.word = "dir" <=> Top.handle \in Dirs
          /\ Top.word = "include_file" => n <= MaxDepth
      BY TopFacts DEF Inv
    <3>. QED BY <2>1, <3>1, <3>2, <3>3
  <2>2. CASE i # n
    BY <1>1, <1>2, <2>2 DEF Inv, TypeOK, FramesOK
  <2>. QED BY <2>1, <2>2
<1>5. Held(frames') = Held(frames)
  <2>1. Held(frames') = {frames'[i].handle : i \in 1..n}
    BY <1>2 DEF Held
  <2>2. Held(frames) = {frames[i].handle : i \in 1..n}
    BY <1>1 DEF Held
  <2>3. ASSUME NEW h PROVE h \in Held(frames') <=> h \in Held(frames)
    <3>1. h \in Held(frames') <=> \E i \in 1..n : h = frames'[i].handle
      BY <2>1
    <3>2. h \in Held(frames) <=> \E i \in 1..n : h = frames[i].handle
      BY <2>2
    <3>. QED BY <1>3, <3>1, <3>2, Zenon
  <2>. QED BY <2>3, Zenon
<1>6. Distinct'
  BY <1>1, <1>2, <1>3 DEF Distinct, Inv, HandlesOwned
<1>. QED BY <1>2, <1>4, <1>5, <1>6

\* Words above the n-th end.
LEMMA Popped ==
  ASSUME Inv, NEW n \in 0..Len(frames), frames' = SubSeq(frames, 1, n)
  PROVE  /\ frames' \in Seq(Frames) /\ FramesOK' /\ Distinct'
         /\ Held(frames') = {frames[i].handle : i \in 1..n}
<1>1. frames \in Seq(Frames) /\ DOMAIN frames = 1..Len(frames) /\ Len(frames) \in Nat
  BY DEF Inv, TypeOK
<1>2. /\ frames' \in Seq(Frames) /\ Len(frames') = n
      /\ \A i \in 1..n : frames'[i] = frames[i]
  BY <1>1, SubSeqProperties
<1>3. DOMAIN frames' = 1..n /\ n \in Nat /\ n <= Len(frames)
  BY <1>1, <1>2
<1>4. FramesOK'
  BY <1>1, <1>2, <1>3 DEF Inv, TypeOK, FramesOK
<1>5. Distinct'
  BY <1>1, <1>2, <1>3 DEF Distinct, Inv, HandlesOwned
<1>6. Held(frames') = {frames[i].handle : i \in 1..n}
  BY <1>2, <1>3 DEF Held
<1>. QED BY <1>2, <1>4, <1>5, <1>6
\* A word begins over the line that is interpreted.
LEMMA Pushed ==
  ASSUME Inv, NEW w \in DOMAIN Words, NEW h \in Handles \cup Dirs,
         NEW f \in Files \cup {NoFile}, NEW more \in BOOLEAN,
         Push(w, h, f, more), h \notin Held(frames), w = "dir" <=> h \in Dirs,
         w = "include_file" => Len(frames) < MaxDepth
  PROVE  /\ frames' \in Seq(Frames) /\ FramesOK' /\ Distinct'
         /\ Held(frames') = Held(frames) \cup {h}
<1>. DEFINE n == Len(frames)
            F == Frame(w, h, f)
            old == IF frames = <<>> THEN <<>> ELSE [frames EXCEPT ![n].more = more]
<1>1. frames \in Seq(Frames) /\ DOMAIN frames = 1..n /\ n \in Nat
  BY DEF Inv, TypeOK
<1>2. /\ F \in Frames /\ F.word = w /\ F.handle = h /\ F.at = 1
  BY DEF Frame, Frames
<1>3. /\ old \in Seq(Frames) /\ Len(old) = n
      /\ \A i \in 1..n : /\ old[i].word = frames[i].word /\ old[i].handle = frames[i].handle
                         /\ old[i].at = frames[i].at
  <2>1. CASE frames = <<>>
    BY <2>1
  <2>2. CASE frames # <<>>
    <3>1. DOMAIN old = 1..n /\ \A i \in 1..n : old[i] =
             IF i = n THEN [frames[n] EXCEPT !.more = more] ELSE frames[i]
      BY <1>1, <2>2
    <3>2. \A i \in 1..n : frames[i] \in Frames
      BY <1>1
    <3>3. \A i \in 1..n : /\ old[i] \in Frames
                          /\ old[i].word = frames[i].word /\ old[i].handle = frames[i].handle
                          /\ old[i].at = frames[i].at
      BY <3>1, <3>2 DEF Frames
    <3>4. old = [i \in 1..n |-> old[i]]
      BY <1>1, <2>2
    <3>. QED BY <1>1, <3>1, <3>3, <3>4
  <2>. QED BY <2>1, <2>2
<1>4. frames' = Append(old, F)
  BY DEF Push
<1>. HIDE DEF old, F
<1>5. /\ frames' \in Seq(Frames) /\ Len(frames') = n + 1 /\ DOMAIN frames' = 1..n+1
      /\ frames'[n + 1] = F /\ \A i \in 1..n : frames'[i] = old[i]
  BY <1>1, <1>2, <1>3, <1>4, AppendProperties
<1>6. \A i \in 1..n : /\ frames'[i].word = frames[i].word
                      /\ frames'[i].handle = frames[i].handle
                      /\ frames'[i].at = frames[i].at
  BY <1>3, <1>5
<1>7. \A i \in 1..n : frames[i].at = 0
  <2>1. \A i \in 1..n : i < n => frames[i].at = 0
    BY <1>1 DEF Inv, TypeOK, FramesOK
  <2>2. n # 0 => frames[n].at = 0
    BY <1>1, EmptySeq DEF Push, Interpreting, Top
  <2>. QED BY <1>1, <2>1, <2>2
<1>8. FramesOK'
  <2>. SUFFICES ASSUME NEW i \in 1..n+1
                PROVE  /\ frames'[i].at <= Len(Words[frames'[i].word].calls) + 1
                       /\ frames'[i].at = 0 => frames'[i].word = "include_file"
                       /\ frames'[i].word = "include_file" => i <= MaxDepth
                       /\ frames'[i].word = "dir" <=> frames'[i].handle \in Dirs
                       /\ i < n + 1 => frames'[i].at = 0
    BY <1>5 DEF FramesOK
  <2>1. CASE i = n + 1
    <3>1. frames'[i].word = w /\ frames'[i].handle = h /\ frames'[i].at = 1
      BY <1>2, <1>5, <2>1
    <3>2. 1 <= Len(Words[w].calls) + 1 /\ ~(i < n + 1)
      BY <1>1, <2>1, WordFacts
    <3>3. w = "include_file" => i <= MaxDepth
      BY <1>1, <2>1
    <3>. QED BY <3>1, <3>2, <3>3
  <2>2. CASE i # n + 1
    <3>1. i \in 1..n
      BY <1>1, <2>2
    <3>. QED BY <1>1, <1>6, <1>7, <3>1 DEF Inv, TypeOK, FramesOK
  <2>. QED BY <2>1, <2>2
<1>9. Held(frames') = Held(frames) \cup {h}
  <2>1. Held(frames') = {frames'[i].handle : i \in 1..n+1}
    BY <1>5 DEF Held
  <2>2. Held(frames) = {frames[i].handle : i \in 1..n}
    BY <1>1 DEF Held
  <2>3. \A i \in 1..n+1 : i \in 1..n \/ i = n + 1
    BY <1>1
  <2>4. \A i \in 1..n : i \in 1..n+1
    BY <1>1
  <2>5. n + 1 \in 1..n+1
    BY <1>1
  <2>. QED BY <1>2, <1>5, <1>6, <2>1, <2>2, <2>3, <2>4, <2>5
<1>10. Distinct'
  <2>1. \A i \in 1..n : frames[i].handle # h
    BY <1>1 DEF Held
  <2>2. \A i, j \in 1..n : frames[i].handle = frames[j].handle => i = j
    BY <1>1 DEF Inv, HandlesOwned
  <2>3. \A i \in 1..n+1 : i \in 1..n \/ i = n + 1
    BY <1>1
  <2>. QED BY <1>2, <1>5, <1>6, <2>1, <2>2, <2>3 DEF Distinct
<1>. QED BY <1>5, <1>8, <1>9, <1>10

\* Ending the word at the top takes its handle from those held.
LEMMA HeldBelow ==
  ASSUME Inv, frames # <<>>, frames' = Below
  PROVE  /\ frames' \in Seq(Frames) /\ FramesOK' /\ Distinct'
         /\ Held(frames') = Held(frames) \ {Top.handle}
<1>. DEFINE n == Len(frames)
<1>1. n \in Nat /\ n # 0 /\ DOMAIN frames = 1..n /\ n - 1 \in 0..n
  BY TopFacts DEF Inv
<1>2. /\ frames' \in Seq(Frames) /\ FramesOK' /\ Distinct'
      /\ Held(frames') = {frames[i].handle : i \in 1..n-1}
  BY <1>1, Popped DEF Below
<1>3. Held(frames) = {frames[i].handle : i \in 1..n}
  BY <1>1 DEF Held
<1>4. \A i \in 1..n : i \in 1..n-1 <=> i # n
  <2>1. \A m \in Nat : \A i \in 1..m : i \in 1..m-1 <=> i # m
    OBVIOUS
  <2>. QED BY <1>1, <2>1
<1>5. \A i \in 1..n-1 : i \in 1..n
  BY <1>1
<1>6. \A i \in 1..n : frames[i].handle = frames[n].handle => i = n
  <2>1. \A i, j \in 1..n : frames[i].handle = frames[j].handle => i = j
    BY <1>1 DEF Inv, HandlesOwned
  <2>2. n \in 1..n
    BY <1>1
  <2>. QED BY <2>1, <2>2
<1>7. ASSUME NEW h
      PROVE  h \in {frames[i].handle : i \in 1..n-1}
               <=> h \in {frames[i].handle : i \in 1..n} /\ h # Top.handle
  BY <1>4, <1>5, <1>6 DEF Top
<1>. QED BY <1>2, <1>3, <1>7

---------------------------------------------------------------------------
(* What the kernel's calls do to the pool.                                 *)

OpenFiles == {h \in Handles : pool[h] # Closed}

Cards == [Files -> {"old", "part", "new", "none"}]

Pools == [Handles -> {Closed} \cup
                     [file : Files, state : {"reading", "created", "written"}]]

LEMMA Opened ==
  ASSUME Inv, NEW f \in Files, NEW h \in Handles, NEW state \in {"reading", "created"},
         FsOpen(f, state, h)
  PROVE  /\ card' \in Cards /\ pool' \in Pools /\ ktmp' \in {0, 1}
         /\ OpenFiles' = OpenFiles \cup {h} /\ h \notin OpenFiles
<1>1. card' \in Cards
  BY DEF Inv, TypeOK, FsOpen, Cards
<1>2. [file |-> f, state |-> state] # Closed
  BY DEF Closed
<1>3. pool' \in Pools /\ pool' = [pool EXCEPT ![h] = [file |-> f, state |-> state]]
  BY DEF Inv, TypeOK, FsOpen, Pools
<1>4. OpenFiles' = OpenFiles \cup {h}
  BY <1>2, <1>3 DEF OpenFiles, Inv, TypeOK
<1>5. h \notin OpenFiles /\ ktmp' \in {0, 1}
  BY DEF FsOpen, OpenFiles
<1>. QED BY <1>1, <1>3, <1>4, <1>5

LEMMA Shut ==
  ASSUME Inv, NEW h \in Handles, NEW failed \in BOOLEAN, FsClose(h, failed)
  PROVE  /\ card' \in Cards /\ pool' \in Pools /\ ktmp' \in {0, 1}
         /\ OpenFiles' = OpenFiles \ {h}
<1>1. card' \in Cards /\ ktmp' \in {0, 1}
  BY DEF Inv, TypeOK, FsClose, Cards
<1>2. pool' \in Pools /\ pool' = [pool EXCEPT ![h] = Closed]
  BY DEF Inv, TypeOK, FsClose, Pools
<1>3. OpenFiles' = OpenFiles \ {h}
  BY <1>2 DEF OpenFiles, Inv, TypeOK
<1>. QED BY <1>1, <1>2, <1>3

LEMMA Written ==
  ASSUME Inv, NEW h \in OpenFiles, pool' = [pool EXCEPT ![h].state = "written"]
  PROVE  pool' \in Pools /\ OpenFiles' = OpenFiles
<1>1. h \in Handles /\ pool[h] \in [file : Files, state : {"reading", "created", "written"}]
  BY DEF OpenFiles, Inv, TypeOK
<1>2. [pool[h] EXCEPT !.state = "written"] \in
         [file : Files, state : {"reading", "created", "written"}]
  BY <1>1
<1>3. [pool[h] EXCEPT !.state = "written"] # Closed
  BY <1>2 DEF Closed
<1>4. pool' = [pool EXCEPT ![h] = [pool[h] EXCEPT !.state = "written"]] /\ pool \in Pools
  BY DEF Inv, TypeOK, Pools
<1>. QED BY <1>1, <1>2, <1>3, <1>4 DEF Pools, OpenFiles
---------------------------------------------------------------------------
(* The accounts: what is open is somebody's, once.                         *)

Accounts ==
  /\ OpenFiles \cup dirs = mine \cup Held(frames) \cup lost
  /\ mine \cap (Held(frames) \cup lost) = {}
  /\ Held(frames) \cap lost = {}

LEMMA Owned == HandlesOwned <=> Accounts /\ Distinct
BY DEF HandlesOwned, Accounts, Distinct, OpenFiles

LEMMA OwnedNext == HandlesOwned' <=> Accounts' /\ Distinct'
BY DEF HandlesOwned, Accounts, Distinct, OpenFiles

\* A handle held is open, and a file's handle is no directory's.
LEMMA HeldOpen ==
  ASSUME Inv
  PROVE  /\ Held(frames) \subseteq OpenFiles \cup dirs
         /\ OpenFiles \cap dirs = {} /\ OpenFiles \subseteq Handles /\ dirs \subseteq Dirs
BY Owned DEF Inv, Accounts, OpenFiles, TypeOK

LEMMA StepBegin ==
  ASSUME Inv, NEW w \in DOMAIN Words, NEW f \in Files, NEW h \in Handles,
         NEW more \in BOOLEAN, Begin(w, f, h, more)
  PROVE  Inv'
<1>1. w \notin {"dir", "include_file"} /\ h \notin Dirs
  BY WordFacts DEF Begin
<1>2. Words[w].opens \in {"reading", "created"} /\ FsOpen(f, Words[w].opens, h)
  BY DEF Begin
<1>3. /\ card' \in Cards /\ pool' \in Pools /\ ktmp' \in {0, 1}
      /\ OpenFiles' = OpenFiles \cup {h} /\ h \notin OpenFiles
  BY <1>2, Opened
<1>4. h \notin OpenFiles \cup dirs /\ h \notin Held(frames)
  BY <1>1, <1>3, HeldOpen
<1>5. /\ frames' \in Seq(Frames) /\ FramesOK' /\ Distinct'
      /\ Held(frames') = Held(frames) \cup {h}
  BY <1>1, <1>4, Pushed DEF Begin
<1>6. dirs' = dirs /\ mine' = mine /\ lost' = lost
  BY DEF Begin
<1>7. TypeOK'
  BY <1>3, <1>5, <1>6 DEF Inv, TypeOK, Cards, Pools
<1>8. Accounts'
  BY <1>3, <1>4, <1>5, <1>6, Owned DEF Inv, Accounts
<1>. QED BY <1>5, <1>7, <1>8, OwnedNext DEF Inv

LEMMA StepDirBegins ==
  ASSUME Inv, NEW d \in Dirs, NEW more \in BOOLEAN, DirBegins(d, more)
  PROVE  Inv'
<1>1. d \notin OpenFiles \cup dirs /\ d \notin Held(frames)
  BY HeldOpen DEF DirBegins
<1>2. Push("dir", d, NoFile, more) /\ "dir" \in DOMAIN Words
  BY WordNames DEF DirBegins
<1>3. /\ frames' \in Seq(Frames) /\ FramesOK' /\ Distinct'
      /\ Held(frames') = Held(frames) \cup {d}
  BY <1>1, <1>2, Pushed
<1>4. /\ dirs' = dirs \cup {d} /\ ktmp' = 1
      /\ card' = card /\ pool' = pool /\ mine' = mine /\ lost' = lost
  BY DEF DirBegins
<1>5. TypeOK'
  BY <1>3, <1>4 DEF Inv, TypeOK
<1>6. OpenFiles' = OpenFiles
  BY <1>4 DEF OpenFiles
<1>7. Accounts'
  BY <1>1, <1>3, <1>4, <1>6, Owned DEF Inv, Accounts
<1>. QED BY <1>3, <1>5, <1>7, OwnedNext DEF Inv

LEMMA StepIncludeFile ==
  ASSUME Inv, NEW h \in Handles, NEW more \in BOOLEAN, IncludeFile(h, more)
  PROVE  Inv'
<1>1. /\ h \in mine /\ pool[h].state = "reading" /\ Len(frames) < MaxDepth
      /\ Push("include_file", h, pool[h].file, more)
  BY DEF IncludeFile
<1>2. h \notin Held(frames) /\ h \notin Dirs
  BY <1>1, Owned DEF Inv, Accounts
<1>3. pool[h].file \in Files
  BY <1>1 DEF Inv, TypeOK, Closed
<1>4. "include_file" \in DOMAIN Words /\ pool[h].file \in Files \cup {NoFile}
  BY <1>3, WordNames
<1>5. /\ frames' \in Seq(Frames) /\ FramesOK' /\ Distinct'
      /\ Held(frames') = Held(frames) \cup {h}
  BY <1>1, <1>2, <1>4, Pushed
<1>6. /\ mine' = mine \ {h}
      /\ card' = card /\ pool' = pool /\ dirs' = dirs /\ ktmp' = ktmp /\ lost' = lost
  BY DEF IncludeFile
<1>7. TypeOK'
  BY <1>5, <1>6 DEF Inv, TypeOK
<1>8. OpenFiles' = OpenFiles
  BY <1>6 DEF OpenFiles
<1>9. Accounts'
  BY <1>1, <1>5, <1>6, <1>8, Owned DEF Inv, Accounts
<1>. QED BY <1>5, <1>7, <1>9, OwnedNext DEF Inv

---------------------------------------------------------------------------
(* The calls of a word that runs.                                          *)

LEMMA GoesOnKeeps ==
  ASSUME Inv, frames # <<>>, NEW at \in Nat \ {0}, at <= Closing,
         NEW ior \in {0, 1}, NEW failed \in BOOLEAN, GoesOn(at, ior, failed)
  PROVE  frames' \in Seq(Frames) /\ FramesOK' /\ Held(frames') = Held(frames) /\ Distinct'
<1>. DEFINE g == [Top EXCEPT !.at = at, !.ior = ior, !.bad = @ \/ failed]
<1>1. Top \in Frames
  BY TopFacts DEF Inv
<1>2. g \in Frames /\ g.word = Top.word /\ g.handle = Top.handle /\ g.at = at
  BY <1>1 DEF Frames
<1>3. frames' = [frames EXCEPT ![Len(frames)] = g]
  BY DEF GoesOn, Top
<1>. QED BY <1>2, <1>3, TopChanges DEF Closing, Step

LEMMA AgainKeeps ==
  ASSUME Inv, frames # <<>>, Calling, Again
  PROVE  frames' \in Seq(Frames) /\ FramesOK' /\ Held(frames') = Held(frames) /\ Distinct'
<1>. DEFINE a == IF Top.word = "include_file" THEN 0 ELSE Top.at
            m == Top.word = "include_file"
            g == [Top EXCEPT !.line = Top.line + 1, !.at = a, !.more = m]
<1>1. /\ Top \in Frames /\ Top.line \in 0..MaxLines /\ Top.line < MaxLines /\ Top.at \in Nat
      /\ Top.at <= Len(Words[Top.word].calls) + 1 /\ Top.word \in DOMAIN Words
  BY TopFacts DEF Inv, Again
<1>2. Top.line + 1 \in 0..MaxLines
  BY <1>1
<1>3. a \in Nat /\ m \in BOOLEAN /\ a <= Len(Words[Top.word].calls) + 1
  BY <1>1, WordFacts
<1>4. a = 0 => Top.word = "include_file"
  BY <1>1, TopFacts DEF Inv
<1>. HIDE DEF a, m
<1>5. g \in Frames /\ g.word = Top.word /\ g.handle = Top.handle /\ g.at = a
  BY <1>1, <1>2, <1>3 DEF Frames
<1>6. frames' = [frames EXCEPT ![Len(frames)] = g]
  BY DEF Again, Top, a, m
<1>. QED BY <1>3, <1>4, <1>5, <1>6, TopChanges
\* The frames may have moved; nothing else that the accounts speak of has.
LEMMA SameHandles ==
  ASSUME Inv, ktmp' \in {0, 1}, pool' \in Pools, OpenFiles' = OpenFiles,
         card' = card, dirs' = dirs, mine' = mine, lost' = lost,
         frames' \in Seq(Frames), FramesOK', Held(frames') = Held(frames), Distinct'
  PROVE  Inv'
<1>1. TypeOK'
  BY DEF Inv, TypeOK, Pools
<1>2. Accounts'
  BY Owned DEF Inv, Accounts
<1>. QED BY <1>1, <1>2, OwnedNext DEF Inv

LEMMA StepCallSucceeds ==
  ASSUME Inv, CallSucceeds
  PROVE  Inv'
<1>1. frames # <<>> /\ Calling /\ UNCHANGED <<card, dirs, mine, lost>>
  BY DEF CallSucceeds
<1>2. /\ Top.word \in DOMAIN Words /\ Top.at \in Nat /\ Top.handle \in Held(frames)
      /\ Top.at <= Len(Step.calls) /\ Len(Step.calls) \in Nat
  BY <1>1, TopFacts, WordFacts DEF Inv, Calling, Step
<1>3. ktmp' \in {0, 1}
  BY DEF CallSucceeds, Inv, TypeOK
<1>4. frames' \in Seq(Frames) /\ FramesOK' /\ Held(frames') = Held(frames) /\ Distinct'
  <2>1. CASE Again
    BY <1>1, <2>1, AgainKeeps
  <2>2. CASE GoesOn(IF Step.loops THEN Closing ELSE Top.at + 1, 0, FALSE)
    <3>. DEFINE at == IF Step.loops THEN Closing ELSE Top.at + 1
    <3>1. at \in Nat \ {0} /\ at <= Closing
      BY <1>2 DEF Closing
    <3>. QED BY <1>1, <2>2, <3>1, GoesOnKeeps
  <2>. QED BY <2>1, <2>2 DEF CallSucceeds
<1>5. pool' \in Pools /\ OpenFiles' = OpenFiles
  <2>1. CASE pool' = pool
    BY <2>1 DEF Inv, TypeOK, Pools, OpenFiles
  <2>2. CASE pool' = [pool EXCEPT ![Top.handle].state = "written"]
    <3>1. CASE Top.handle \in OpenFiles
      BY <2>2, <3>1, Written
    <3>2. CASE Top.handle \notin OpenFiles
      <4>1. Top.handle \notin Handles
        BY <1>2, <3>2, HeldOpen DEF Inv, TypeOK
      <4>2. pool' = pool
        BY <2>2, <4>1 DEF Inv, TypeOK
      <4>. QED BY <2>1, <4>2
    <3>. QED BY <3>1, <3>2
  <2>. QED BY <2>1, <2>2 DEF CallSucceeds
<1>. QED BY <1>1, <1>3, <1>4, <1>5, SameHandles

LEMMA StepCallFails ==
  ASSUME DirsRead, Inv, CallFails
  PROVE  Inv'
<1>1. /\ frames # <<>> /\ Calling /\ <<Top.word, Call>> \in Faults
      /\ UNCHANGED <<card, pool, dirs, mine, lost>>
  BY DEF CallFails
<1>2. /\ Top.word \in DOMAIN Words /\ Top.at \in Nat
      /\ Top.at \in 1..Len(Step.calls) /\ Len(Step.calls) \in Nat
  BY <1>1, TopFacts, WordFacts DEF Inv, Calling, Step
<1>3. ktmp \in {0, 1} /\ ktmp' \in {0, 1}
  BY DEF CallFails, Inv, TypeOK
<1>4. Step.closes
  <2>. SUFFICES ASSUME ~Step.closes PROVE FALSE
    OBVIOUS
  <2>1. Top.word = "dir" /\ Len(Step.calls) = 1 /\ Step.calls[1] = "next"
    BY <1>2, WordFacts DEF Step
  <2>2. Top.at = 1
    BY <1>2, <2>1
  <2>3. Call = "next"
    BY <2>1, <2>2 DEF Call
  <2>. QED BY <1>1, <2>1, <2>3 DEF DirsRead
<1>5. frames' \in Seq(Frames) /\ FramesOK' /\ Held(frames') = Held(frames) /\ Distinct'
  <2>1. CASE Again
    BY <1>1, <2>1, AgainKeeps
  <2>2. CASE \E ior \in {0, 1} : GoesOn(Closing, ior, TRUE)
    <3>1. Closing \in Nat \ {0} /\ Closing <= Closing
      BY <1>2 DEF Closing
    <3>. QED BY <1>1, <2>2, <3>1, GoesOnKeeps
  <2>3. (IF Call = "read" THEN ktmp ELSE 1) \in {0, 1}
    BY <1>3
  <2>. QED BY <1>4, <2>1, <2>2, <2>3 DEF CallFails
<1>6. pool' \in Pools /\ OpenFiles' = OpenFiles
  BY <1>1 DEF Inv, TypeOK, Pools, OpenFiles
<1>. QED BY <1>1, <1>3, <1>5, <1>6, SameHandles

LEMMA StepLineEnds ==
  ASSUME Inv, LineEnds
  PROVE  Inv'
<1>. DEFINE g == [Top EXCEPT !.at = 1]
<1>1. /\ frames # <<>> /\ UNCHANGED <<card, pool, dirs, mine, lost>> /\ ktmp' \in {0, 1}
      /\ frames' = [frames EXCEPT ![Len(frames)].at = 1]
  BY DEF LineEnds
<1>2. Top \in Frames /\ Len(frames) \in DOMAIN frames /\ Top.word \in DOMAIN Words
  BY <1>1, TopFacts DEF Inv
<1>3. g \in Frames /\ g.word = Top.word /\ g.handle = Top.handle /\ g.at = 1
  BY <1>2 DEF Frames
<1>4. frames' = [frames EXCEPT ![Len(frames)] = g]
  BY <1>1, <1>2 DEF Top
<1>. HIDE DEF g
<1>5. g.at <= Len(Words[Top.word].calls) + 1 /\ (g.at = 0 => Top.word = "include_file")
  BY <1>2, <1>3, WordFacts
<1>6. frames' \in Seq(Frames) /\ FramesOK' /\ Held(frames') = Held(frames) /\ Distinct'
  BY <1>1, <1>3, <1>4, <1>5, TopChanges
<1>7. pool' \in Pools /\ OpenFiles' = OpenFiles
  BY <1>1 DEF Inv, TypeOK, Pools, OpenFiles
<1>. QED BY <1>1, <1>6, <1>7, SameHandles

LEMMA StepWordCloses ==
  ASSUME Inv, NEW failed \in BOOLEAN, WordCloses(failed)
  PROVE  Inv'
<1>1. frames # <<>> /\ frames' = Below /\ UNCHANGED <<mine, lost>>
  BY DEF WordCloses
<1>2. Top.handle \in Held(frames) /\ Top.handle \in Handles \cup Dirs
  BY <1>1, TopFacts DEF Inv
<1>3. /\ frames' \in Seq(Frames) /\ FramesOK' /\ Distinct'
      /\ Held(frames') = Held(frames) \ {Top.handle}
  BY <1>1, HeldBelow
<1>4. /\ card' \in Cards /\ pool' \in Pools /\ ktmp' \in {0, 1} /\ dirs' \subseteq Dirs
      /\ OpenFiles' \cup dirs' = (OpenFiles \cup dirs) \ {Top.handle}
  <2>1. CASE Top.handle \in Dirs
    <3>1. dirs' = dirs \ {Top.handle} /\ ktmp' \in {0, 1} /\ UNCHANGED <<pool, card>>
      BY <2>1 DEF WordCloses
    <3>2. OpenFiles' = OpenFiles /\ Top.handle \notin OpenFiles
      BY <2>1, <3>1, HeldOpen DEF OpenFiles
    <3>. QED BY <3>1, <3>2 DEF Inv, TypeOK, Cards, Pools
  <2>2. CASE Top.handle \notin Dirs
    <3>1. FsClose(Top.handle, failed) /\ dirs' = dirs
      BY <2>2 DEF WordCloses
    <3>2. Top.handle \in Handles /\ Top.handle \notin dirs
      BY <1>2, <2>2, HeldOpen
    <3>3. /\ card' \in Cards /\ pool' \in Pools /\ ktmp' \in {0, 1}
          /\ OpenFiles' = OpenFiles \ {Top.handle}
      BY <3>1, <3>2, Shut
    <3>. QED BY <3>1, <3>2, <3>3, HeldOpen
  <2>. QED BY <2>1, <2>2
<1>5. TypeOK'
  BY <1>1, <1>3, <1>4 DEF Inv, TypeOK, Cards, Pools
<1>6. Accounts'
  BY <1>1, <1>2, <1>3, <1>4, Owned DEF Inv, Accounts
<1>. QED BY <1>3, <1>5, <1>6, OwnedNext DEF Inv
---------------------------------------------------------------------------
(* Exceptions, QUIT and the program's own calls.                           *)

\* What follows the n-th element of a sequence.
LEMMA EndOfSeq ==
  ASSUME NEW S, NEW s \in Seq(S), NEW n \in Nat, n < Len(s)
  PROVE  LET e == SubSeq(s, n + 1, Len(s))
         IN  /\ Len(e) = Len(s) - n /\ DOMAIN e = 1..Len(s)-n
             /\ \A i \in 1..Len(s)-n : e[i] = s[n + i]
<1>. DEFINE m == Len(s)
            e == SubSeq(s, n + 1, m)
<1>1. m \in Nat /\ n < m /\ DOMAIN s = 1..m /\ n + 1 \in Int /\ m \in Int
  OBVIOUS
<1>2. \A i \in n+1..m : s[i] \in S
  BY <1>1
<1>3. /\ e \in Seq(S) /\ Len(e) = IF n+1 <= m THEN m-(n+1)+1 ELSE 0
      /\ \A i \in 1..m-(n+1)+1 : e[i] = s[(n+1) + i - 1]
  BY <1>1, <1>2, SubSeqProperties
<1>4. n + 1 <= m /\ m - (n+1) + 1 = m - n
  BY <1>1
<1>5. \A i \in 1..m-n : (n+1) + i - 1 = n + i
  BY <1>1
<1>. HIDE DEF m, e
<1>6. Len(e) = m - n /\ DOMAIN e = 1..m-n
  BY <1>3, <1>4
<1>7. \A i \in 1..m-n : e[i] = s[n + i]
  BY <1>3, <1>4, <1>5
<1>. QED BY <1>6, <1>7 DEF m, e

LEMMA StepCaught ==
  ASSUME Inv, NEW n \in Nat, Caught(n)
  PROVE  Inv'
<1>. DEFINE m == Len(frames)
            above == SubSeq(frames, n + 1, m)
<1>1. /\ n < m /\ frames' = SubSeq(frames, 1, n) /\ lost' = lost \cup Held(above)
      /\ ktmp' \in {0, 1} /\ UNCHANGED <<card, pool, dirs, mine>>
  BY DEF Caught
<1>2. frames \in Seq(Frames) /\ m \in Nat /\ DOMAIN frames = 1..m /\ n \in 0..m
  BY <1>1 DEF Inv, TypeOK
<1>3. /\ frames' \in Seq(Frames) /\ FramesOK' /\ Distinct'
      /\ Held(frames') = {frames[i].handle : i \in 1..n}
  BY <1>1, <1>2, Popped
<1>4. Held(above) = {frames[i].handle : i \in n+1..m}
  <2>1. /\ Len(above) = m - n /\ DOMAIN above = 1..m-n
        /\ \A i \in 1..m-n : above[i] = frames[n + i]
    BY <1>1, <1>2, EndOfSeq
  <2>2. Held(above) = {above[i].handle : i \in 1..m-n}
    BY <2>1 DEF Held
  <2>3. \A j \in n+1..m : j - n \in 1..m-n /\ j = n + (j - n)
    BY <1>2
  <2>4. \A i \in 1..m-n : n + i \in n+1..m
    BY <1>2
  <2>5. ASSUME NEW i \in 1..m-n
        PROVE  above[i].handle \in {frames[j].handle : j \in n+1..m}
    BY <2>1, <2>4
  <2>6. ASSUME NEW j \in n+1..m
        PROVE  frames[j].handle \in {above[i].handle : i \in 1..m-n}
    BY <2>1, <2>3
  <2>. QED BY <2>2, <2>5, <2>6
<1>5. Held(frames) = {frames[i].handle : i \in 1..m}
  BY <1>2 DEF Held
<1>6. Held(frames) = Held(frames') \cup Held(above)
  <2>1. \A i \in 1..m : i \in 1..n \/ i \in n+1..m
    BY <1>2
  <2>2. /\ \A i \in 1..n : i \in 1..m
        /\ \A i \in n+1..m : i \in 1..m
    BY <1>2
  <2>. QED BY <1>3, <1>4, <1>5, <2>1, <2>2
<1>7. Held(frames') \cap Held(above) = {}
  <2>1. \A i \in 1..n : \A j \in n+1..m : i \in 1..m /\ j \in 1..m /\ i # j
    BY <1>2
  <2>2. \A i, j \in 1..m : frames[i].handle = frames[j].handle => i = j
    BY <1>2 DEF Inv, HandlesOwned
  <2>. QED BY <1>3, <1>4, <2>1, <2>2
<1>8. TypeOK'
  BY <1>1, <1>3 DEF Inv, TypeOK
<1>9. OpenFiles' = OpenFiles
  BY <1>1 DEF OpenFiles
<1>. HIDE DEF above
<1>10. Accounts'
  BY <1>1, <1>6, <1>7, <1>9, Owned DEF Inv, Accounts
<1>. QED BY <1>3, <1>8, <1>10, OwnedNext DEF Inv

LEMMA StepQUIT ==
  ASSUME Inv, QUIT
  PROVE  Inv'
<1>1. /\ frames' = <<>> /\ mine' = {} /\ lost' = dirs /\ dirs' = dirs /\ ktmp' \in {0, 1}
      /\ pool' = [h \in Handles |-> Closed]
  BY DEF QUIT
<1>2. card' \in Cards
  BY DEF QUIT, Inv, TypeOK, Cards
<1>3. pool' \in Pools /\ OpenFiles' = {}
  BY <1>1 DEF Pools, OpenFiles
<1>4. frames' \in Seq(Frames) /\ FramesOK' /\ Distinct' /\ Held(frames') = {}
  BY <1>1 DEF FramesOK, Distinct, Held
<1>5. TypeOK'
  BY <1>1, <1>2, <1>3, <1>4 DEF Inv, TypeOK, Cards, Pools
<1>6. Accounts'
  BY <1>1, <1>3, <1>4 DEF Accounts
<1>. QED BY <1>4, <1>5, <1>6, OwnedNext DEF Inv

\* No word begins or ends: the stack of words stays as it is.
LEMMA SameFrames ==
  ASSUME Inv, frames' = frames
  PROVE  /\ frames' \in Seq(Frames) /\ FramesOK' /\ Distinct'
         /\ Held(frames') = Held(frames)
BY Owned DEF Inv, TypeOK, FramesOK, Distinct

\* The pool and the card are typed, and the handles open are whose they were.
LEMMA ProgramKeeps ==
  ASSUME Inv, frames' = frames, lost' = lost, card' \in Cards, pool' \in Pools,
         ktmp' \in {0, 1}, dirs' \subseteq Dirs,
         \/ (OpenFiles \cup dirs)' = OpenFiles \cup dirs /\ mine' = mine
         \/ \E h \in (Handles \cup Dirs) \ (OpenFiles \cup dirs) :
              (OpenFiles \cup dirs)' = OpenFiles \cup dirs \cup {h} /\ mine' = mine \cup {h}
         \/ \E h \in mine :
              (OpenFiles \cup dirs)' = (OpenFiles \cup dirs) \ {h} /\ mine' = mine \ {h}
  PROVE  Inv'
<1>1. /\ frames' \in Seq(Frames) /\ FramesOK' /\ Distinct'
      /\ Held(frames') = Held(frames)
  BY SameFrames
<1>2. mine \subseteq Handles \cup Dirs /\ Accounts
  BY Owned DEF Inv, TypeOK
<1>3. TypeOK'
  BY <1>1, <1>2 DEF TypeOK, Cards, Pools
<1>4. Accounts'
  <2>1. CASE (OpenFiles \cup dirs)' = OpenFiles \cup dirs /\ mine' = mine
    BY <1>1, <1>2, <2>1 DEF Accounts
  <2>2. ASSUME NEW h \in (Handles \cup Dirs) \ (OpenFiles \cup dirs),
               (OpenFiles \cup dirs)' = OpenFiles \cup dirs \cup {h}, mine' = mine \cup {h}
        PROVE  Accounts'
    BY <1>1, <1>2, <2>2 DEF Accounts
  <2>3. ASSUME NEW h \in mine,
               (OpenFiles \cup dirs)' = (OpenFiles \cup dirs) \ {h}, mine' = mine \ {h}
        PROVE  Accounts'
    BY <1>1, <1>2, <2>3 DEF Accounts
  <2>. QED BY <2>1, <2>2, <2>3
<1>. QED BY <1>1, <1>3, <1>4, OwnedNext DEF Inv
LEMMA StepProgram ==
  ASSUME Inv, Program
  PROVE  Inv'
<1>. DEFINE all == OpenFiles \cup dirs
<1>1. /\ card \in Cards /\ pool \in Pools /\ dirs \subseteq Dirs /\ mine \subseteq all
      /\ mine \subseteq Handles \cup Dirs
  BY Owned DEF Inv, TypeOK, Cards, Pools, Accounts
<1>2. ASSUME NEW f \in Files, NEW h \in Handles, NEW state \in {"reading", "created"},
             FsOpen(f, state, h), mine' = mine \cup {h},
             dirs' = dirs, frames' = frames, lost' = lost
      PROVE  Inv'
  <2>1. /\ card' \in Cards /\ pool' \in Pools /\ ktmp' \in {0, 1}
        /\ OpenFiles' = OpenFiles \cup {h} /\ h \notin OpenFiles
    BY <1>2, Opened
  <2>2. h \notin dirs
    BY HeldOpen
  <2>3. all' = all \cup {h} /\ h \in (Handles \cup Dirs) \ all
    BY <1>2, <2>1, <2>2
  <2>. QED BY <1>1, <1>2, <2>1, <2>3, ProgramKeeps
<1>3. ASSUME pool' \in Pools, OpenFiles' = OpenFiles, card' \in Cards, ktmp' \in {0, 1},
             dirs' = dirs, mine' = mine, frames' = frames, lost' = lost
      PROVE  Inv'
  BY <1>1, <1>3, ProgramKeeps
<1>4. ASSUME NEW f \in Files, NEW h \in Handles, NEW fam \in {"r/o", "w/o", "r/w"},
             OPEN_FILE(f, fam, h)
      PROVE  Inv'
  BY <1>2, <1>4 DEF OPEN_FILE
<1>5. ASSUME NEW f \in Files, NEW h \in Handles, CREATE_FILE(f, h)
      PROVE  Inv'
  BY <1>2, <1>5 DEF CREATE_FILE
<1>6. ASSUME NEW h \in Handles, WRITE_FILE(h)
      PROVE  Inv'
  <2>1. h \in OpenFiles
    BY <1>1, <1>6 DEF WRITE_FILE, OpenFiles, Closed
  <2>2. pool' \in Pools /\ OpenFiles' = OpenFiles
    BY <1>6, <2>1, Written DEF WRITE_FILE
  <2>. QED BY <1>1, <1>3, <1>6, <2>2 DEF WRITE_FILE
<1>7. ASSUME NEW h \in Handles, NEW failed \in BOOLEAN, READ_FILE(h, failed)
      PROVE  Inv'
  BY <1>1, <1>3, <1>7 DEF READ_FILE, Inv, TypeOK, OpenFiles
<1>8. ASSUME NEW h \in Handles, NEW failed \in BOOLEAN, CLOSE_FILE(h, failed)
      PROVE  Inv'
  <2>1. /\ h \in mine /\ mine' = mine \ {h} /\ FsClose(h, failed)
        /\ dirs' = dirs /\ frames' = frames /\ lost' = lost
    BY <1>8 DEF CLOSE_FILE
  <2>2. /\ card' \in Cards /\ pool' \in Pools /\ ktmp' \in {0, 1}
        /\ OpenFiles' = OpenFiles \ {h}
    BY <2>1, Shut
  <2>3. all' = all \ {h}
    BY <2>1, <2>2, HeldOpen
  <2>. QED BY <1>1, <2>1, <2>2, <2>3, ProgramKeeps
<1>9. ASSUME NEW f \in Files, DELETE_FILE(f)
      PROVE  Inv'
  BY <1>1, <1>3, <1>9 DEF DELETE_FILE, OpenFiles, Cards
<1>10. ASSUME NEW f \in Files, NEW g \in Files, RENAME_FILE(f, g)
       PROVE  Inv'
  <2>1. card' \in Cards
    BY <1>1, <1>10 DEF RENAME_FILE, Cards
  <2>. QED BY <1>1, <1>3, <1>10, <2>1 DEF RENAME_FILE, OpenFiles
<1>11. ASSUME NEW d \in Dirs, DIR_OPEN(d)
       PROVE  Inv'
  <2>1. /\ d \notin dirs /\ dirs' = dirs \cup {d} /\ mine' = mine \cup {d} /\ ktmp' = 1
        /\ UNCHANGED <<card, pool, frames, lost>>
    BY <1>11 DEF DIR_OPEN
  <2>2. OpenFiles' = OpenFiles /\ d \notin OpenFiles
    BY <2>1, HeldOpen DEF OpenFiles
  <2>3. all' = all \cup {d} /\ d \in (Handles \cup Dirs) \ all
    BY <2>1, <2>2
  <2>. QED BY <1>1, <2>1, <2>3, ProgramKeeps
<1>12. ASSUME NEW d \in Dirs, DIR_CLOSE(d)
       PROVE  Inv'
  <2>1. /\ d \in mine /\ dirs' = dirs \ {d} /\ mine' = mine \ {d} /\ ktmp' \in {0, 1}
        /\ UNCHANGED <<card, pool, frames, lost>>
    BY <1>12 DEF DIR_CLOSE
  <2>2. OpenFiles' = OpenFiles /\ d \notin OpenFiles
    BY <2>1, HeldOpen DEF OpenFiles
  <2>3. all' = all \ {d}
    BY <2>1, <2>2
  <2>. QED BY <1>1, <2>1, <2>3, ProgramKeeps
<1>13. ASSUME OtherCalls PROVE Inv'
  BY <1>1, <1>3, <1>13 DEF OtherCalls, OpenFiles
<1>. QED
  BY <1>4, <1>5, <1>6, <1>7, <1>8, <1>9, <1>10, <1>11, <1>12, <1>13 DEF Program

LEMMA StepBeginFails ==
  ASSUME Inv, NEW w \in DOMAIN Words, NEW f \in Files, BeginFails(w, f)
  PROVE  Inv'
<1>1. ktmp' \in {0, 1} /\ UNCHANGED <<card, pool, dirs, mine, frames, lost>>
  BY DEF BeginFails, Inv, TypeOK
<1>2. pool' \in Pools /\ OpenFiles' = OpenFiles
  BY <1>1 DEF Inv, TypeOK, Pools, OpenFiles
<1>3. /\ frames' \in Seq(Frames) /\ FramesOK' /\ Distinct'
      /\ Held(frames') = Held(frames)
  BY <1>1, SameFrames
<1>. QED BY <1>1, <1>2, <1>3, SameHandles

LEMMA StepWordRuns ==
  ASSUME DirsRead, Inv, WordRuns
  PROVE  Inv'
BY StepBeginFails, StepBegin, StepDirBegins, StepIncludeFile, StepCallSucceeds,
   StepCallFails, StepWordCloses, StepLineEnds DEF WordRuns

LEMMA StepEnds ==
  ASSUME Inv, Ends
  PROVE  Inv'
<1>1. ASSUME NEW n \in 0..MaxDepth, Caught(n) PROVE Inv'
  <2>1. n \in Nat
    OBVIOUS
  <2>. QED BY <1>1, <2>1, StepCaught
<1>. QED BY <1>1, StepQUIT DEF Ends

---------------------------------------------------------------------------

LEMMA InitOK == Init => Inv
<1>. SUFFICES ASSUME Init PROVE Inv
  OBVIOUS
<1>1. frames = <<>> /\ mine = {} /\ lost = {} /\ dirs = {} /\ Held(frames) = {}
  BY DEF Init, Held
<1>2. TypeOK
  BY <1>1 DEF Init, TypeOK, FramesOK
<1>3. OpenFiles = {} /\ Distinct
  BY <1>1 DEF Init, OpenFiles, Distinct
<1>. QED BY <1>1, <1>2, <1>3, Owned DEF Inv, Accounts

LEMMA NextOK == DirsRead /\ Inv /\ [Next]_vars => Inv'
<1>. SUFFICES ASSUME DirsRead, Inv, [Next]_vars PROVE Inv'
  OBVIOUS
<1>1. CASE UNCHANGED vars
  BY <1>1 DEF vars, Inv, TypeOK, FramesOK, HandlesOwned
<1>2. CASE Next
  BY <1>2, StepProgram, StepWordRuns, StepEnds DEF Next
<1>. QED BY <1>1, <1>2

LEMMA Invariant == DirsRead => (Spec => []Inv)
<1>. SUFFICES ASSUME DirsRead PROVE Spec => []Inv
  OBVIOUS
<1>1. Inv /\ [Next]_vars => Inv'
  BY NextOK
<1>. QED BY <1>1, InitOK, PTL DEF Spec

(***************************************************************************)
(* The words and the kernel's tables stay what they are said to be: a word *)
(* with others above it is an INCLUDE-FILE that interprets its line, DIR   *)
(* and no other word holds a directory (base.fs:695-720, 776-830).         *)
(***************************************************************************)
THEOREM TypeCorrect == DirsRead => (Spec => []TypeOK)
BY Invariant, PTL DEF Inv

(***************************************************************************)
(* If FS_DIRNEXT does not fail, no word that ends by itself keeps a        *)
(* handle, whichever of its other calls failed: every open handle is the   *)
(* program's, one running word's, or was lost to an exception.             *)
(***************************************************************************)
THEOREM EveryHandleOwned == DirsRead => (Spec => []HandlesOwned)
BY Invariant, PTL DEF Inv

---------------------------------------------------------------------------
(* How a step moves the words in progress.                                 *)

\* The words that save, and write all they save before they close.
Saving == {"bsave", "vsave", "save_image"}

LEMMA SavingFacts ==
  ASSUME NEW w \in DOMAIN Words
  PROVE  /\ w \in Saving => /\ Len(Words[w].calls) = 1 /\ Words[w].opens = "created"
                            /\ w \notin {"dir", "include_file", "help"}
         /\ w \notin Saving => \A i \in 1..Len(Words[w].calls) : Words[w].calls[i] # "write"
         /\ w \in Saving => Words[w].calls[1] = "write"
         /\ w = "save_image" => Words[w].answers = "all"
         /\ Answers(w) => w \in Saving \/ w \in Readers
         /\ Answers(w) => Words[w].closes /\ w \notin LineReaders
         /\ w \in LineReaders => Words[w].closes
<1>1. DOMAIN Words = {"file_status", "bload", "bsave", "vload", "vsave", "save_image",
                      "help", "include_file", "dir"}
  BY DEF Words
<1>2. /\ Words["file_status"] = fileStatus /\ Words["bload"] = bload
      /\ Words["bsave"] = bsave /\ Words["vload"] = vload /\ Words["vsave"] = vsave
      /\ Words["save_image"] = SAVE_IMAGE /\ Words["help"] = help
      /\ Words["include_file"] = includeFile /\ Words["dir"] = dir
  BY DEF Words
<1>. USE DEF Saving, LineReaders, Readers, Answers, Word
<1>3. CASE w = "file_status"  BY <1>2, <1>3 DEF fileStatus
<1>4. CASE w = "bload"        BY <1>2, <1>4 DEF bload
<1>5. CASE w = "bsave"        BY <1>2, <1>5 DEF bsave
<1>6. CASE w = "vload"        BY <1>2, <1>6 DEF vload
<1>7. CASE w = "vsave"        BY <1>2, <1>7 DEF vsave
<1>8. CASE w = "save_image"   BY <1>2, <1>8 DEF SAVE_IMAGE
<1>9. CASE w = "help"         BY <1>2, <1>9 DEF help
<1>10. CASE w = "include_file"  BY <1>2, <1>10 DEF includeFile
<1>11. CASE w = "dir"         BY <1>2, <1>11 DEF dir
<1>. QED BY <1>1, <1>3, <1>4, <1>5, <1>6, <1>7, <1>8, <1>9, <1>10, <1>11

LEMMA ReplaceTop ==
  ASSUME Inv, frames # <<>>, NEW g, frames' = [frames EXCEPT ![Len(frames)] = g]
  PROVE  /\ DOMAIN frames' = 1..Len(frames) /\ Len(frames) \in Nat \ {0}
         /\ frames'[Len(frames)] = g
         /\ \A i \in 1..Len(frames) : i # Len(frames) => frames'[i] = frames[i]
BY TopFacts DEF Inv, TypeOK

LEMMA CutOff ==
  ASSUME Inv, NEW n \in 0..Len(frames), frames' = SubSeq(frames, 1, n)
  PROVE  /\ DOMAIN frames' = 1..n
         /\ \A i \in 1..n : i \in DOMAIN frames /\ frames'[i] = frames[i]
<1>1. frames \in Seq(Frames) /\ DOMAIN frames = 1..Len(frames) /\ Len(frames) \in Nat
  BY DEF Inv, TypeOK
<1>2. /\ frames' \in Seq(Frames) /\ Len(frames') = n
      /\ \A i \in 1..n : frames'[i] = frames[i]
  BY <1>1, SubSeqProperties
<1>. QED BY <1>1, <1>2

LEMMA PutOn ==
  ASSUME Inv, NEW w \in DOMAIN Words, NEW h \in Handles \cup Dirs,
         NEW f \in Files \cup {NoFile}, NEW more \in BOOLEAN, Push(w, h, f, more)
  PROVE  LET n == Len(frames)
         IN  /\ n \in Nat /\ DOMAIN frames = 1..n /\ DOMAIN frames' = 1..n+1
             /\ frames'[n + 1] = Frame(w, h, f)
             /\ \A i \in 1..n : i # n => frames'[i] = frames[i]
             /\ n # 0 => /\ frames'[n] = [frames[n] EXCEPT !.more = more]
                         /\ frames[n] \in Frames
                         /\ frames[n].at = 0 /\ frames[n].more
<1>. DEFINE n == Len(frames)
            F == Frame(w, h, f)
            old == IF frames = <<>> THEN <<>> ELSE [frames EXCEPT ![n].more = more]
<1>1. frames \in Seq(Frames) /\ DOMAIN frames = 1..n /\ n \in Nat
  BY DEF Inv, TypeOK
<1>2. F \in Frames
  BY DEF Frame, Frames
<1>3. /\ old \in Seq(Frames) /\ Len(old) = n
      /\ \A i \in 1..n : old[i] = IF i = n THEN [frames[n] EXCEPT !.more = more] ELSE frames[i]
  <2>1. CASE frames = <<>>
    BY <2>1
  <2>2. CASE frames # <<>>
    <3>1. DOMAIN old = 1..n /\ \A i \in 1..n : old[i] =
             IF i = n THEN [frames[n] EXCEPT !.more = more] ELSE frames[i]
      BY <1>1, <2>2
    <3>2. \A i \in 1..n : frames[i] \in Frames
      BY <1>1
    <3>3. \A i \in 1..n : old[i] \in Frames
      BY <3>1, <3>2 DEF Frames
    <3>4. old = [i \in 1..n |-> old[i]]
      BY <1>1, <2>2
    <3>. QED BY <1>1, <3>1, <3>3, <3>4
  <2>. QED BY <2>1, <2>2
<1>4. frames' = Append(old, F)
  BY DEF Push
<1>. HIDE DEF old, F
<1>5. /\ DOMAIN frames' = 1..n+1
      /\ frames'[n + 1] = F /\ \A i \in 1..n : frames'[i] = old[i]
  BY <1>1, <1>2, <1>3, <1>4, AppendProperties
<1>6. n # 0 => n \in 1..n /\ frames[n] \in Frames /\ frames[n].at = 0 /\ frames[n].more
  BY <1>1, EmptySeq DEF Push, Interpreting, Top
<1>. QED BY <1>1, <1>3, <1>5, <1>6 DEF F

\* The i-th word is the one it was, as far as its answer and its file go.
Same(i) ==
  /\ i \in DOMAIN frames
  /\ frames'[i].word = frames[i].word /\ frames'[i].handle = frames[i].handle
  /\ frames'[i].file = frames[i].file /\ frames'[i].at = frames[i].at
  /\ frames'[i].ior = frames[i].ior /\ frames'[i].bad = frames[i].bad

\* It has just begun, on a file it opened or was given.
Begun(i) ==
  /\ frames'[i].at = 1 /\ ~frames'[i].bad
  /\ frames'[i].handle \in Handles => pool'[frames'[i].handle].file = frames'[i].file
  /\ frames'[i].word \in Saving => frames'[i].file \in asked'

\* It is at the top and a call of it returned, or its line ended.
WentOn(i) ==
  /\ frames # <<>> /\ i = Len(frames)
  /\ CallSucceeds \/ CallFails \/ LineEnds

LEMMA PushMoves ==
  ASSUME Inv, NEW w \in DOMAIN Words, NEW h \in Handles \cup Dirs,
         NEW f \in Files \cup {NoFile}, NEW more \in BOOLEAN, Push(w, h, f, more),
         h \in Handles => pool'[h].file = f, w \in Saving => f \in asked',
         NEW i \in DOMAIN frames'
  PROVE  Same(i) \/ Begun(i)
<1>. DEFINE n == Len(frames)
<1>1. /\ n \in Nat /\ DOMAIN frames = 1..n /\ DOMAIN frames' = 1..n+1
      /\ frames'[n + 1] = Frame(w, h, f)
      /\ \A j \in 1..n : j # n => frames'[j] = frames[j]
      /\ n # 0 => /\ frames'[n] = [frames[n] EXCEPT !.more = more]
                  /\ frames[n] \in Frames
  BY PutOn
<1>. HIDE DEF n
<1>2. CASE i = n + 1
  <2>1. /\ frames'[i].at = 1 /\ ~frames'[i].bad /\ frames'[i].word = w
        /\ frames'[i].handle = h /\ frames'[i].file = f
    BY <1>1, <1>2 DEF Frame
  <2>. QED BY <2>1 DEF Begun
<1>3. CASE i = n /\ n # 0
  <2>1. i \in 1..n /\ frames'[i] = [frames[i] EXCEPT !.more = more] /\ frames[i] \in Frames
    BY <1>1, <1>3
  <2>2. ASSUME NEW g \in Frames, NEW k, k = [g EXCEPT !.more = more]
        PROVE  /\ k.word = g.word /\ k.handle = g.handle /\ k.file = g.file
               /\ k.at = g.at /\ k.ior = g.ior /\ k.bad = g.bad
    BY <2>2 DEF Frames
  <2>. QED BY <1>1, <2>1, <2>2 DEF Same
<1>4. CASE i \in 1..n /\ i # n
  BY <1>1, <1>4 DEF Same
<1>. QED BY <1>1, <1>2, <1>3, <1>4

\* What a call that returned leaves of the word at the top.
LEMMA TopGoesOn ==
  ASSUME Inv, frames # <<>>, NEW at \in Nat, NEW ior \in {0, 1}, NEW failed \in BOOLEAN,
         GoesOn(at, ior, failed)
  PROVE  LET g == frames'[Len(frames)]
         IN  /\ g.word = Top.word /\ g.handle = Top.handle /\ g.file = Top.file
             /\ g.at = at /\ g.ior = ior /\ (g.bad <=> Top.bad \/ failed)
             /\ g.more = Top.more /\ g.line = Top.line
             /\ DOMAIN frames' = 1..Len(frames)
             /\ \A i \in 1..Len(frames) : i # Len(frames) => frames'[i] = frames[i]
<1>. DEFINE g == [Top EXCEPT !.at = at, !.ior = ior, !.bad = @ \/ failed]
<1>1. Top \in Frames
  BY TopFacts DEF Inv
<1>2. /\ g.word = Top.word /\ g.handle = Top.handle /\ g.file = Top.file
      /\ g.at = at /\ g.ior = ior /\ (g.bad <=> Top.bad \/ failed)
      /\ g.more = Top.more /\ g.line = Top.line
  BY <1>1 DEF Frames
<1>3. frames' = [frames EXCEPT ![Len(frames)] = g]
  BY DEF GoesOn, Top
<1>. HIDE DEF g
<1>. QED BY <1>2, <1>3, ReplaceTop

LEMMA TopAgain ==
  ASSUME Inv, frames # <<>>, Again
  PROVE  LET g == frames'[Len(frames)]
         IN  /\ g.word = Top.word /\ g.handle = Top.handle /\ g.file = Top.file
             /\ g.ior = Top.ior /\ (g.bad <=> Top.bad) /\ g.line = Top.line + 1
             /\ g.at = (IF Top.word = "include_file" THEN 0 ELSE Top.at)
             /\ g.more <=> Top.word = "include_file"
             /\ DOMAIN frames' = 1..Len(frames)
             /\ \A i \in 1..Len(frames) : i # Len(frames) => frames'[i] = frames[i]
<1>. DEFINE a == IF Top.word = "include_file" THEN 0 ELSE Top.at
            m == Top.word = "include_file"
            g == [Top EXCEPT !.line = Top.line + 1, !.at = a, !.more = m]
<1>1. Top \in Frames /\ m \in BOOLEAN
  BY TopFacts DEF Inv
<1>. HIDE DEF a, m
<1>2. /\ g.word = Top.word /\ g.handle = Top.handle /\ g.file = Top.file
      /\ g.ior = Top.ior /\ (g.bad <=> Top.bad) /\ g.line = Top.line + 1
      /\ g.at = a /\ (g.more <=> m)
  BY <1>1 DEF Frames
<1>3. frames' = [frames EXCEPT ![Len(frames)] = g]
  BY DEF Again, Top, a, m
<1>. HIDE DEF g
<1>. QED BY <1>2, <1>3, ReplaceTop DEF a, m

LEMMA TopLineEnds ==
  ASSUME Inv, LineEnds
  PROVE  LET g == frames'[Len(frames)]
         IN  /\ frames # <<>> /\ Top.word = "include_file" /\ Top.at = 0
             /\ g.word = Top.word /\ g.handle = Top.handle /\ g.file = Top.file
             /\ g.ior = Top.ior /\ (g.bad <=> Top.bad) /\ g.at = 1
             /\ g.more = Top.more /\ g.line = Top.line
             /\ DOMAIN frames' = 1..Len(frames)
             /\ \A i \in 1..Len(frames) : i # Len(frames) => frames'[i] = frames[i]
<1>. DEFINE g == [Top EXCEPT !.at = 1]
<1>1. frames # <<>> /\ frames' = [frames EXCEPT ![Len(frames)].at = 1]
      /\ Top.word = "include_file" /\ Top.at = 0
  BY DEF LineEnds
<1>2. Top \in Frames /\ Len(frames) \in DOMAIN frames
  BY <1>1, TopFacts DEF Inv
<1>3. /\ g.word = Top.word /\ g.handle = Top.handle /\ g.file = Top.file
      /\ g.ior = Top.ior /\ (g.bad <=> Top.bad) /\ g.at = 1
      /\ g.more = Top.more /\ g.line = Top.line
  BY <1>2 DEF Frames
<1>4. frames' = [frames EXCEPT ![Len(frames)] = g]
  BY <1>1, <1>2 DEF Top
<1>. HIDE DEF g
<1>. QED BY <1>1, <1>3, <1>4, ReplaceTop

LEMMA FramesMove ==
  ASSUME Inv, Next, NEW i \in DOMAIN frames'
  PROVE  Same(i) \/ Begun(i) \/ WentOn(i)
<1>. DEFINE n == Len(frames)
<1>1. DOMAIN frames = 1..n /\ n \in Nat
  BY DEF Inv, TypeOK
<1>2. ASSUME frames' = frames PROVE Same(i)
  BY <1>2 DEF Same
<1>3. ASSUME NEW m \in 0..n, frames' = SubSeq(frames, 1, m) PROVE Same(i)
  BY <1>3, CutOff DEF Same
<1>4. ASSUME frames # <<>>, frames' = Below PROVE Same(i)
  <2>1. n - 1 \in 0..n
    BY <1>4, TopFacts DEF Inv
  <2>. QED BY <1>3, <1>4, <2>1 DEF Below
<1>5. ASSUME CallSucceeds \/ CallFails \/ LineEnds, frames # <<>>,
             DOMAIN frames' = 1..n, \A j \in 1..n : j # n => frames'[j] = frames[j]
      PROVE  Same(i) \/ WentOn(i)
  BY <1>1, <1>5 DEF Same, WentOn
<1>6. CASE Program
  BY <1>2, <1>6 DEF Program, OPEN_FILE, CREATE_FILE, WRITE_FILE, READ_FILE, CLOSE_FILE,
     DELETE_FILE, RENAME_FILE, DIR_OPEN, DIR_CLOSE, OtherCalls
<1>7. CASE Ends
  <2>1. ASSUME QUIT PROVE FALSE
    BY <2>1 DEF QUIT
  <2>2. ASSUME NEW m \in 0..MaxDepth, Caught(m) PROVE Same(i)
    <3>1. m \in 0..n
      BY <1>1, <2>2 DEF Caught
    <3>. QED BY <1>3, <2>2, <3>1 DEF Caught
  <2>. QED BY <1>7, <2>1, <2>2 DEF Ends
<1>8. ASSUME NEW w \in DOMAIN Words, NEW f \in Files, NEW h \in Handles,
             NEW more \in BOOLEAN, Begin(w, f, h, more)
      PROVE  Same(i) \/ Begun(i)
  <2>1. pool'[h].file = f
    BY <1>8 DEF Begin, FsOpen, Inv, TypeOK
  <2>2. w \in Saving => f \in asked'
    BY <1>8, SavingFacts DEF Begin
  <2>. QED BY <1>8, <2>1, <2>2, PushMoves DEF Begin
<1>9. ASSUME NEW d \in Dirs, NEW more \in BOOLEAN, DirBegins(d, more)
      PROVE  Same(i) \/ Begun(i)
  <2>1. d \notin Handles /\ "dir" \in DOMAIN Words /\ "dir" \notin Saving
    BY WordNames DEF Saving
  <2>. QED BY <1>9, <2>1, PushMoves DEF DirBegins
<1>10. ASSUME NEW h \in Handles, NEW more \in BOOLEAN, IncludeFile(h, more)
       PROVE  Same(i) \/ Begun(i)
  <2>1. "include_file" \in DOMAIN Words /\ "include_file" \notin Saving
    BY WordNames DEF Saving
  <2>2. pool[h].file \in Files \cup {NoFile} /\ pool' = pool
    BY <1>10 DEF Inv, TypeOK, Closed, IncludeFile
  <2>. QED BY <1>10, <2>1, <2>2, PushMoves DEF IncludeFile
<1>11. CASE CallSucceeds
  <2>1. frames # <<>>
    BY <1>11 DEF CallSucceeds
  <2>2. CASE Again
    BY <1>5, <1>11, <2>1, <2>2, TopAgain
  <2>3. CASE GoesOn(IF Step.loops THEN Closing ELSE Top.at + 1, 0, FALSE)
    <3>1. (IF Step.loops THEN Closing ELSE Top.at + 1) \in Nat
      BY <2>1, TopFacts, WordFacts DEF Closing, Step, Inv
    <3>. QED BY <1>5, <1>11, <2>1, <2>3, <3>1, TopGoesOn
  <2>. QED BY <1>11, <2>2, <2>3 DEF CallSucceeds
<1>12. CASE CallFails
  <2>1. frames # <<>> /\ Closing \in Nat
    BY <1>12, TopFacts, WordFacts DEF Closing, Step, Inv, CallFails
  <2>2. CASE Again
    BY <1>5, <1>12, <2>1, <2>2, TopAgain
  <2>3. CASE \E ior \in {0, 1} : GoesOn(Closing, ior, TRUE)
    BY <1>5, <1>12, <2>1, <2>3, TopGoesOn
  <2>4. CASE frames' = Below
    BY <1>4, <2>1, <2>4
  <2>5. (IF Call = "read" THEN ktmp ELSE 1) \in {0, 1}
    BY DEF Inv, TypeOK
  <2>. QED BY <1>12, <2>2, <2>3, <2>4, <2>5 DEF CallFails
<1>13. CASE LineEnds
  BY <1>5, <1>13, TopLineEnds
<1>14. ASSUME NEW failed \in BOOLEAN, WordCloses(failed) PROVE Same(i)
  BY <1>4, <1>14 DEF WordCloses
<1>15. ASSUME NEW w \in DOMAIN Words, NEW f \in Files, BeginFails(w, f) PROVE Same(i)
  BY <1>2, <1>15 DEF BeginFails
<1>16. CASE WordRuns
  BY <1>8, <1>9, <1>10, <1>11, <1>12, <1>13, <1>14, <1>15, <1>16 DEF WordRuns
<1>. QED BY <1>6, <1>7, <1>16 DEF Next

\* The four ways on for the word at the top.
LEMMA AfterCall ==
  ASSUME Inv, NEW i \in DOMAIN frames', WentOn(i)
  PROVE  LET g == frames'[i]
         IN  /\ g.word = Top.word /\ g.handle = Top.handle /\ g.file = Top.file
             /\ \/ /\ CallSucceeds /\ pool' = pool
                   /\ g.ior = Top.ior /\ (g.bad <=> Top.bad)
                   /\ g.at = Top.at \/ Top.word = "include_file"
                \/ /\ CallSucceeds /\ g.ior = 0 /\ (g.bad <=> Top.bad)
                   /\ pool' = IF Call = "write"
                                THEN [pool EXCEPT ![Top.handle].state = "written"] ELSE pool
                \/ /\ CallFails /\ g.ior = (IF Call = "read" THEN ktmp ELSE 1)
                   /\ g.bad /\ g.at = Closing
                \/ Top.word \in LineReaders /\ pool' = pool
<1>. DEFINE n == Len(frames)
            g == frames'[i]
<1>1. frames # <<>> /\ i = n /\ (CallSucceeds \/ CallFails \/ LineEnds)
  BY DEF WentOn
<1>2. Top.word \in DOMAIN Words /\ Len(Step.calls) \in Nat /\ Top.at \in Nat
      /\ Closing \in Nat /\ n \in Nat
  BY <1>1, TopFacts, WordFacts DEF Inv, Step, Closing
<1>3. CASE CallSucceeds
  <2>1. CASE Again /\ pool' = pool
    BY <1>1, <1>3, <2>1, TopAgain
  <2>2. CASE /\ GoesOn(IF Step.loops THEN Closing ELSE Top.at + 1, 0, FALSE)
             /\ pool' = IF Call = "write" THEN [pool EXCEPT ![Top.handle].state = "written"]
                        ELSE pool
    <3>. DEFINE at == IF Step.loops THEN Closing ELSE Top.at + 1
    <3>1. at \in Nat
      BY <1>2
    <3>2. g.word = Top.word /\ g.handle = Top.handle /\ g.file = Top.file
          /\ g.ior = 0 /\ (g.bad <=> Top.bad)
      BY <1>1, <2>2, <3>1, TopGoesOn
    <3>. QED BY <1>3, <2>2, <3>2
  <2>. QED BY <1>3, <2>1, <2>2 DEF CallSucceeds
<1>4. CASE CallFails
  <2>. DEFINE v == IF Call = "read" THEN ktmp ELSE 1
  <2>1. v \in {0, 1} /\ pool' = pool
    BY <1>4 DEF Inv, TypeOK, CallFails
  <2>2. CASE GoesOn(Closing, v, TRUE)
    BY <1>1, <1>2, <1>4, <2>1, <2>2, TopGoesOn
  <2>3. CASE Top.word \in LineReaders /\ Again
    BY <1>1, <2>1, <2>3, TopAgain
  <2>4. frames' # Below
    <3>1. ASSUME frames' = Below PROVE FALSE
      <4>1. n - 1 \in 0..n /\ frames' = SubSeq(frames, 1, n - 1)
        BY <1>1, <3>1, TopFacts DEF Inv, Below
      <4>2. DOMAIN frames' = 1..n-1
        BY <4>1, CutOff
      <4>. QED BY <1>1, <1>2, <4>2
    <3>. QED BY <3>1
  <2>. QED BY <1>4, <2>2, <2>3, <2>4 DEF CallFails
<1>5. CASE LineEnds
  <2>1. pool' = pool /\ Top.word \in LineReaders
    BY <1>5 DEF LineEnds, LineReaders
  <2>. QED BY <1>1, <1>5, <2>1, TopLineEnds
<1>. QED BY <1>1, <1>3, <1>4, <1>5

---------------------------------------------------------------------------
(* An answer of 0.                                                         *)

\* The reads whose ior is an answer succeed: a failed one answers with KTMP.
Told ==
  /\ \A w \in DOMAIN Words : Answers(w) => <<w, "read">> \notin Faults
  /\ <<"read_file", "read">> \notin Faults

\* The words that do not look at what their close says: it must not fail.
Flushed == <<"bsave", "close">> \notin Faults /\ <<"vsave", "close">> \notin Faults

\* After a call that failed a word only closes, with an ior that says so.
Tells(g) ==
  Answers(g.word) /\ g.bad => g.ior = 1 /\ g.at = Len(Words[g.word].calls) + 1

TellInv == IorTells /\ \A i \in DOMAIN frames : Tells(frames[i])

LEMMA WentOnTells ==
  ASSUME Told, Inv, \A i \in DOMAIN frames : Tells(frames[i]),
         NEW i \in DOMAIN frames', WentOn(i)
  PROVE  Tells(frames'[i])
<1>. DEFINE g == frames'[i]
<1>1. frames # <<>> /\ Tells(Top)
  BY TopFacts DEF WentOn, Inv, Top
<1>2. Top.word \in DOMAIN Words /\ Len(Step.calls) \in Nat
  BY <1>1, TopFacts, WordFacts DEF Inv, Step
<1>. SUFFICES ASSUME Answers(g.word), g.bad
              PROVE  g.ior = 1 /\ g.at = Closing
  BY AfterCall DEF Tells, Closing, Step
<1>3. g.word = Top.word /\ Top.word \notin LineReaders /\ <<Top.word, "read">> \notin Faults
      /\ Top.word # "include_file"
  BY <1>2, AfterCall, SavingFacts DEF Told, LineReaders
<1>4. CASE CallSucceeds /\ (g.bad <=> Top.bad)
  BY <1>1, <1>2, <1>3, <1>4 DEF Tells, CallSucceeds, Calling, Step
<1>5. CASE CallFails /\ g.ior = (IF Call = "read" THEN ktmp ELSE 1) /\ g.at = Closing
  BY <1>3, <1>5 DEF CallFails
<1>. QED BY <1>3, <1>4, <1>5, AfterCall

LEMMA TellNext == Told /\ Flushed /\ Inv /\ TellInv /\ [Next]_vars => TellInv'
<1>. SUFFICES ASSUME Told, Flushed, Inv, TellInv, [Next]_vars PROVE TellInv'
  OBVIOUS
<1>1. CASE UNCHANGED vars
  BY <1>1 DEF vars, TellInv, IorTells, Tells
<1>2. CASE Next
  <2>1. ASSUME NEW i \in DOMAIN frames' PROVE Tells(frames'[i])
    <3>1. CASE Same(i)
      BY <3>1 DEF Same, TellInv, Tells
    <3>2. CASE Begun(i)
      BY <3>2 DEF Begun, Tells
    <3>3. CASE WentOn(i)
      BY <3>3, WentOnTells DEF TellInv
    <3>. QED BY <1>2, <3>1, <3>2, <3>3, FramesMove
  <2>2. IorTells'
    <3>1. CASE out' = out
      BY <3>1 DEF TellInv, IorTells
    <3>2. ASSUME NEW h \in Handles, NEW failed \in BOOLEAN, READ_FILE(h, failed)
          PROVE  IorTells'
      BY <3>2 DEF READ_FILE, Answer, IorTells, Told
    <3>3. ASSUME NEW w \in DOMAIN Words, NEW f \in Files, BeginFails(w, f)
          PROVE  IorTells'
      BY <3>1, <3>3 DEF BeginFails, Answer, IorTells
    <3>4. ASSUME NEW failed \in BOOLEAN, WordCloses(failed)
          PROVE  IorTells'
      <4>1. Tells(Top)
        BY <3>4, TopFacts DEF WordCloses, TellInv, Inv, Top
      <4>2. Top.word \in DOMAIN Words
        BY <3>4, TopFacts DEF WordCloses, Inv
      <4>3. failed /\ Answers(Top.word) => Step.answers = "all" \/ Top.word \in Readers
        BY <3>4, <4>2, SavingFacts DEF WordCloses, Flushed, Saving, Step
      <4>. QED BY <3>1, <3>4, <4>1, <4>3 DEF WordCloses, Answer, IorTells, Tells
    <3>5. CASE Program
      BY <3>1, <3>2, <3>5 DEF Program, OPEN_FILE, CREATE_FILE, WRITE_FILE, CLOSE_FILE,
         DELETE_FILE, RENAME_FILE, DIR_OPEN, DIR_CLOSE, OtherCalls
    <3>6. CASE WordRuns
      BY <3>1, <3>3, <3>4, <3>6 DEF WordRuns, Begin, DirBegins, IncludeFile, CallSucceeds,
         CallFails, LineEnds
    <3>7. CASE Ends
      BY <3>1, <3>7 DEF Ends, QUIT, Caught
    <3>. QED BY <1>2, <3>5, <3>6, <3>7 DEF Next
  <2>. QED BY <2>1, <2>2 DEF TellInv
<1>. QED BY <1>1, <1>2

(***************************************************************************)
(* An ior of 0 means that no call failed but the close of a file that was  *)
(* only read, for every file word that does not take its ior from a failed *)
(* read (CallFails; file.asm:221-269) and does not drop that of a failed   *)
(* close of a file it wrote (base.fs:1204, 1233), whatever other calls of  *)
(* however many words fail.                                                *)
(***************************************************************************)
THEOREM IorIsTrue == DirsRead /\ Told /\ Flushed => (Spec => []IorTells)
<1>. SUFFICES ASSUME DirsRead, Told, Flushed PROVE Spec => []IorTells
  OBVIOUS
<1>1. Init => TellInv
  BY DEF Init, TellInv, IorTells, Answer
<1>2. Inv /\ TellInv /\ [Next]_vars => TellInv'
  BY TellNext
<1>3. TellInv => IorTells
  BY DEF TellInv
<1>. QED BY <1>1, <1>2, <1>3, Invariant, PTL DEF Spec

---------------------------------------------------------------------------
(* The line that is interpreted.                                           *)

\* INCLUDE-FILE over an INCLUDE-FILE leaves it nothing of its line.
Lasting ==
  \A i \in DOMAIN frames :
    i + 1 \in DOMAIN frames /\ frames[i + 1].word = "include_file" => ~frames[i].more

LineInv == LineIntact /\ Lasting

LEMMA PushKeepsLine ==
  ASSUME "nested" \notin Habits, Inv, LineInv,
         NEW w \in DOMAIN Words, NEW h \in Handles \cup Dirs,
         NEW f \in Files \cup {NoFile}, NEW more \in BOOLEAN,
         Push(w, h, f, more), ifbuf' = ifbuf,
         w = "include_file" /\ frames # <<>> => ~more
  PROVE  LineInv'
<1>. DEFINE n == Len(frames)
<1>1. /\ n \in Nat /\ DOMAIN frames = 1..n /\ DOMAIN frames' = 1..n+1
      /\ frames'[n + 1] = Frame(w, h, f)
      /\ \A j \in 1..n : j # n => frames'[j] = frames[j]
      /\ n # 0 => /\ frames'[n] = [frames[n] EXCEPT !.more = more]
                  /\ frames[n] \in Frames /\ frames[n].more
  BY PutOn
<1>2. n # 0 => frames # <<>>
  OBVIOUS
<1>. HIDE DEF n
<1>3. /\ frames'[n + 1].at = 1 /\ frames'[n + 1].word = w
      /\ n # 0 => /\ frames'[n].word = frames[n].word /\ frames'[n].handle = frames[n].handle
                  /\ frames'[n].at = frames[n].at /\ frames'[n].line = frames[n].line
                  /\ frames'[n].more = more
  <2>1. ASSUME NEW g \in Frames, NEW k, k = [g EXCEPT !.more = more]
        PROVE  /\ k.word = g.word /\ k.handle = g.handle /\ k.at = g.at /\ k.line = g.line
               /\ k.more = more
    BY <2>1 DEF Frames
  <2>. QED BY <1>1, <2>1 DEF Frame
<1>4. LineIntact'
  <2>. SUFFICES ASSUME NEW i \in 1..n+1,
                       frames'[i].word = "include_file", frames'[i].at = 0, frames'[i].more
                PROVE  ifbuf = <<frames'[i].handle, frames'[i].line>>
    BY <1>1 DEF LineIntact
  <2>1. i \in 1..n
    BY <1>1, <1>3
  <2>. QED BY <1>1, <1>3, <2>1 DEF LineInv, LineIntact
<1>5. Lasting'
  <2>. SUFFICES ASSUME NEW i \in 1..n+1, i + 1 \in 1..n+1,
                       frames'[i + 1].word = "include_file"
                PROVE  ~frames'[i].more
    BY <1>1 DEF Lasting
  <2>1. CASE i = n
    BY <1>1, <1>2, <1>3, <2>1
  <2>2. CASE i # n
    <3>1. i \in 1..n /\ i + 1 \in 1..n
      BY <1>1, <2>2
    <3>2. frames'[i] = frames[i] /\ frames[i + 1].word = "include_file"
      BY <1>1, <1>3, <2>2, <3>1
    <3>. QED BY <1>1, <3>1, <3>2 DEF LineInv, Lasting
  <2>. QED BY <2>1, <2>2
<1>. QED BY <1>4, <1>5 DEF LineInv

LEMMA TopKeepsLine ==
  ASSUME Inv, LineInv, frames # <<>>,
         LET n == Len(frames)
         IN  /\ frames'[n].word = Top.word /\ frames'[n].handle = Top.handle
             /\ DOMAIN frames' = 1..n
             /\ \A i \in 1..n : i # n => frames'[i] = frames[i]
             /\ \/ /\ ifbuf' = ifbuf
                   /\ frames'[n].at # 0 \/ Top.word # "include_file"
                \/ Top.word = "include_file" /\ ifbuf' = <<Top.handle, frames'[n].line>>
  PROVE  LineInv'
<1>. DEFINE n == Len(frames)
<1>1. n \in Nat \ {0} /\ DOMAIN frames = 1..n /\ DOMAIN frames' = 1..n
      /\ \A i \in 1..n : i # n => frames'[i] = frames[i]
      /\ frames'[n].word = frames[n].word /\ frames'[n].handle = frames[n].handle
  BY TopFacts DEF Inv, Top
<1>. HIDE DEF n
<1>2. Lasting'
  <2>. SUFFICES ASSUME NEW i \in 1..n, i + 1 \in 1..n, frames'[i + 1].word = "include_file"
                PROVE  ~frames'[i].more
    BY <1>1 DEF Lasting
  <2>1. i # n
    BY <1>1
  <2>2. frames'[i] = frames[i] /\ frames[i + 1].word = "include_file"
    BY <1>1, <2>1
  <2>. QED BY <1>1, <2>2 DEF LineInv, Lasting
<1>3. LineIntact'
  <2>. SUFFICES ASSUME NEW i \in 1..n,
                       frames'[i].word = "include_file", frames'[i].at = 0, frames'[i].more
                PROVE  ifbuf' = <<frames'[i].handle, frames'[i].line>>
    BY <1>1 DEF LineIntact
  <2>1. CASE i = n
    BY <1>1, <2>1 DEF Top, n
  <2>2. CASE i # n /\ ifbuf' = ifbuf
    BY <1>1, <2>2 DEF LineInv, LineIntact
  <2>3. CASE i # n /\ Top.word = "include_file"
    <3>1. i + 1 \in 1..n /\ i < n
      BY <1>1, <2>3
    <3>2. i + 1 < n => frames[i + 1].at = 0
      BY <1>1, <3>1 DEF Inv, TypeOK, FramesOK, n
    <3>3. frames[i + 1].word = "include_file"
      <4>1. CASE i + 1 < n
        BY <1>1, <3>1, <3>2, <4>1 DEF Inv, TypeOK, FramesOK, n
      <4>2. CASE i + 1 = n
        BY <2>3, <4>2 DEF Top, n
      <4>. QED BY <1>1, <3>1, <4>1, <4>2
    <3>4. ~frames[i].more
      BY <1>1, <3>1, <3>3 DEF LineInv, Lasting
    <3>. QED BY <1>1, <2>3, <3>4
  <2>. QED BY <2>1, <2>2, <2>3 DEF n
<1>. QED BY <1>2, <1>3 DEF LineInv

LEMMA LineNext == "nested" \notin Habits /\ Inv /\ LineInv /\ [Next]_vars => LineInv'
<1>. SUFFICES ASSUME "nested" \notin Habits, Inv, LineInv, [Next]_vars PROVE LineInv'
  OBVIOUS
<1>. DEFINE n == Len(frames)
<1>0. n \in Nat /\ DOMAIN frames = 1..n
  BY DEF Inv, TypeOK
<1>1. ASSUME frames' = frames, ifbuf' = ifbuf PROVE LineInv'
  BY <1>1 DEF LineInv, LineIntact, Lasting
<1>2. ASSUME NEW m \in 0..n, frames' = SubSeq(frames, 1, m), ifbuf' = ifbuf PROVE LineInv'
  <2>1. /\ DOMAIN frames' = 1..m
        /\ \A i \in 1..m : i \in DOMAIN frames /\ frames'[i] = frames[i]
    BY <1>2, CutOff
  <2>. QED BY <1>2, <2>1 DEF LineInv, LineIntact, Lasting
<1>3. ASSUME frames # <<>>, frames' = Below, ifbuf' = ifbuf PROVE LineInv'
  <2>1. n - 1 \in 0..n
    BY <1>3, TopFacts DEF Inv
  <2>. QED BY <1>2, <1>3, <2>1 DEF Below
<1>4. ASSUME frames # <<>>, Again PROVE LineInv'
  <2>1. ifbuf' = IF Top.word = "include_file" THEN <<Top.handle, Top.line + 1>> ELSE ifbuf
    BY <1>4 DEF Again, FillsIfbuf
  <2>. QED BY <1>4, <2>1, TopAgain, TopKeepsLine
<1>5. ASSUME frames # <<>>, NEW at \in Nat \ {0}, NEW ior \in {0, 1},
             NEW failed \in BOOLEAN, GoesOn(at, ior, failed)
      PROVE  LineInv'
  <2>1. ifbuf' = ifbuf
    BY <1>5 DEF GoesOn
  <2>. QED BY <1>5, <2>1, TopGoesOn, TopKeepsLine
<1>6. CASE UNCHANGED vars
  BY <1>1, <1>6 DEF vars
<1>7. CASE Program
  BY <1>1, <1>7 DEF Program, OPEN_FILE, CREATE_FILE, WRITE_FILE, READ_FILE, CLOSE_FILE,
     DELETE_FILE, RENAME_FILE, DIR_OPEN, DIR_CLOSE, OtherCalls
<1>8. CASE Ends
  <2>1. CASE QUIT
    BY <2>1 DEF QUIT, LineInv, LineIntact, Lasting
  <2>2. ASSUME NEW m \in 0..MaxDepth, Caught(m) PROVE LineInv'
    <3>1. m \in 0..n
      BY <1>0, <2>2 DEF Caught
    <3>. QED BY <1>2, <2>2, <3>1 DEF Caught
  <2>. QED BY <1>8, <2>1, <2>2 DEF Ends
<1>9. ASSUME NEW w \in DOMAIN Words, NEW f \in Files, NEW h \in Handles,
             NEW more \in BOOLEAN, Begin(w, f, h, more)
      PROVE  LineInv'
  <2>1. w # "include_file"
    BY <1>9, WordFacts DEF Begin
  <2>. QED BY <1>9, <2>1, PushKeepsLine DEF Begin
<1>10. ASSUME NEW d \in Dirs, NEW more \in BOOLEAN, DirBegins(d, more)
       PROVE  LineInv'
  BY <1>10, PushKeepsLine, WordNames DEF DirBegins
<1>11. ASSUME NEW h \in Handles, NEW more \in BOOLEAN, IncludeFile(h, more)
       PROVE  LineInv'
  <2>1. pool[h].file \in Files \cup {NoFile}
    BY DEF Inv, TypeOK, Closed
  <2>. QED BY <1>11, <2>1, PushKeepsLine, WordNames DEF IncludeFile
<1>12. CASE CallSucceeds
  <2>1. frames # <<>>
    BY <1>12 DEF CallSucceeds
  <2>2. (IF Step.loops THEN Closing ELSE Top.at + 1) \in Nat \ {0}
    BY <2>1, TopFacts, WordFacts DEF Closing, Step, Inv
  <2>. QED BY <1>4, <1>5, <1>12, <2>1, <2>2 DEF CallSucceeds
<1>13. CASE CallFails
  <2>1. frames # <<>> /\ Closing \in Nat \ {0}
    BY <1>13, TopFacts, WordFacts DEF Closing, Step, Inv, CallFails
  <2>2. (IF Call = "read" THEN ktmp ELSE 1) \in {0, 1}
    BY DEF Inv, TypeOK
  <2>. QED BY <1>3, <1>4, <1>5, <1>13, <2>1, <2>2 DEF CallFails
<1>14. ASSUME NEW failed \in BOOLEAN, WordCloses(failed) PROVE LineInv'
  BY <1>3, <1>14 DEF WordCloses
<1>15. CASE LineEnds
  BY <1>15, TopLineEnds, TopKeepsLine DEF LineEnds
<1>16. ASSUME NEW w \in DOMAIN Words, NEW f \in Files, BeginFails(w, f) PROVE LineInv'
  BY <1>1, <1>16 DEF BeginFails
<1>17. CASE WordRuns
  BY <1>9, <1>10, <1>11, <1>12, <1>13, <1>14, <1>15, <1>16, <1>17 DEF WordRuns
<1>. QED BY <1>6, <1>7, <1>8, <1>17 DEF Next

(***************************************************************************)
(* However INCLUDE-FILEs nest, each as the last word of its line (or at    *)
(* the prompt), and whatever HELP, CATCH and failing reads come between:   *)
(* while words of a line are to be interpreted, (if-buf) holds that line   *)
(* (base.fs:695-720).                                                      *)
(***************************************************************************)
THEOREM LinesSurvive == DirsRead /\ "nested" \notin Habits => (Spec => []LineIntact)
<1>. SUFFICES ASSUME DirsRead, "nested" \notin Habits PROVE Spec => []LineIntact
  OBVIOUS
<1>1. Init => LineInv
  BY DEF Init, LineInv, LineIntact, Lasting
<1>2. Inv /\ LineInv /\ [Next]_vars => LineInv'
  BY LineNext
<1>3. LineInv => LineIntact
  BY DEF LineInv
<1>. QED BY <1>1, <1>2, <1>3, Invariant, PTL DEF Spec

---------------------------------------------------------------------------
(* What the card holds.                                                    *)

\* Only a file somebody asked for is behind a handle that can write.
Asked ==
  /\ \A f \in Files \ asked : card[f] = "old"
  /\ \A h \in Handles : pool[h].state \in {"created", "written"} => pool[h].file \in asked

\* A word's handle is its file's, and has its data once the writing went well.
Keeps(g) ==
  /\ g.handle \in Handles => pool[g.handle].file = g.file
  /\ g.word \in Saving =>
       /\ g.file \in asked
       /\ g.at = Len(Words[g.word].calls) + 1 /\ g.ior = 0 => pool[g.handle].state = "written"

CardInv == Asked /\ \A i \in DOMAIN frames : Keeps(frames[i])

\* What is behind the handle of a word that goes on.
LEMMA PoolKeeps ==
  ASSUME Inv, Next, NEW h \in Held(frames) \cap Held(frames'), h \in Handles
  PROVE  /\ pool'[h].file = pool[h].file
         /\ pool[h].state = "written" => pool'[h].state = "written"
<1>1. pool \in Pools /\ pool[h] # Closed /\ h \notin mine
  BY HeldOpen, Owned DEF Inv, TypeOK, Pools, OpenFiles, Accounts
<1>2. ASSUME pool'[h] = pool[h]
      PROVE  /\ pool'[h].file = pool[h].file
             /\ pool[h].state = "written" => pool'[h].state = "written"
  BY <1>2
<1>3. ASSUME NEW f, NEW state, NEW k \in Handles, FsOpen(f, state, k)
      PROVE  pool'[h] = pool[h]
  BY <1>1, <1>3 DEF FsOpen, Pools
<1>4. ASSUME NEW k \in Handles \ {h}, NEW failed, FsClose(k, failed)
      PROVE  pool'[h] = pool[h]
  BY <1>1, <1>4 DEF FsClose, Pools
<1>5. ASSUME NEW k \in Handles, pool' = [pool EXCEPT ![k].state = "written"]
      PROVE  /\ pool'[h].file = pool[h].file
             /\ pool[h].state = "written" => pool'[h].state = "written"
  <2>1. CASE k = h
    <3>1. pool[h] \in [file : Files, state : {"reading", "created", "written"}]
      BY <1>1 DEF Pools
    <3>2. pool'[h] = [pool[h] EXCEPT !.state = "written"]
      BY <1>1, <1>5, <2>1 DEF Pools
    <3>. QED BY <3>1, <3>2
  <2>2. CASE k # h
    BY <1>1, <1>5, <2>2 DEF Pools
  <2>. QED BY <2>1, <2>2
<1>6. CASE Program
  <2>1. ASSUME NEW k \in Handles, WRITE_FILE(k)
        PROVE  pool'[h] = pool[h]
    <3>1. k # h /\ pool' = [pool EXCEPT ![k].state = "written"]
      BY <1>1, <2>1 DEF WRITE_FILE
    <3>. QED BY <1>1, <3>1 DEF Pools
  <2>2. ASSUME NEW k \in Handles, NEW failed \in BOOLEAN, CLOSE_FILE(k, failed)
        PROVE  pool'[h] = pool[h]
    <3>1. k # h /\ FsClose(k, failed)
      BY <1>1, <2>2 DEF CLOSE_FILE
    <3>. QED BY <1>4, <3>1
  <2>3. ASSUME NEW f \in Files, NEW k \in Handles, NEW fam, OPEN_FILE(f, fam, k)
        PROVE  pool'[h] = pool[h]
    BY <1>3, <2>3 DEF OPEN_FILE
  <2>4. ASSUME NEW f \in Files, NEW k \in Handles, CREATE_FILE(f, k)
        PROVE  pool'[h] = pool[h]
    BY <1>3, <2>4 DEF CREATE_FILE
  <2>5. CASE pool' = pool
    BY <2>5
  <2>. QED BY <1>2, <1>6, <2>1, <2>2, <2>3, <2>4, <2>5 DEF Program, READ_FILE,
          DELETE_FILE, RENAME_FILE, DIR_OPEN, DIR_CLOSE, OtherCalls
<1>7. CASE Ends
  <2>1. ASSUME QUIT PROVE FALSE
    BY <2>1 DEF QUIT, Held
  <2>. QED BY <1>2, <1>7, <2>1 DEF Ends, Caught
<1>8. ASSUME NEW w \in DOMAIN Words, NEW f \in Files, NEW k \in Handles,
             NEW more \in BOOLEAN, Begin(w, f, k, more)
      PROVE  pool'[h] = pool[h]
  BY <1>3, <1>8 DEF Begin
<1>9. ASSUME NEW failed \in BOOLEAN, WordCloses(failed)
      PROVE  pool'[h] = pool[h]
  <2>1. Top.handle # h
    BY <1>9, HeldBelow DEF WordCloses
  <2>2. CASE Top.handle \in Dirs
    BY <1>9, <2>2 DEF WordCloses
  <2>3. CASE Top.handle \notin Dirs
    <3>1. Top.handle \in Handles \ {h}
      BY <1>9, <2>1, <2>3, TopFacts DEF WordCloses, Inv
    <3>. QED BY <1>4, <1>9, <2>3, <3>1 DEF WordCloses
  <2>. QED BY <2>2, <2>3
<1>10. CASE CallSucceeds
  <2>1. CASE pool' = pool
    BY <2>1
  <2>2. CASE pool' = [pool EXCEPT ![Top.handle].state = "written"]
    <3>1. CASE Top.handle \in Handles
      BY <1>5, <2>2, <3>1
    <3>2. CASE Top.handle \notin Handles
      <4>1. pool' = pool
        BY <1>1, <2>2, <3>2 DEF Pools
      <4>. QED BY <4>1
    <3>. QED BY <3>1, <3>2
  <2>. QED BY <1>10, <2>1, <2>2 DEF CallSucceeds
<1>11. CASE WordRuns
  <2>1. CASE pool' = pool
    BY <2>1
  <2>. QED BY <1>2, <1>8, <1>9, <1>10, <1>11, <2>1 DEF WordRuns, BeginFails, DirBegins,
          IncludeFile, CallFails, LineEnds
<1>. QED BY <1>6, <1>7, <1>11 DEF Next

LEMMA AskedGrows ==
  ASSUME Next
  PROVE  asked \subseteq asked'
<1>1. Program => asked \subseteq asked'
  BY DEF Program, OPEN_FILE, CREATE_FILE, WRITE_FILE, READ_FILE, CLOSE_FILE, DELETE_FILE,
     RENAME_FILE, DIR_OPEN, DIR_CLOSE, OtherCalls
<1>2. WordRuns => asked \subseteq asked'
  BY DEF WordRuns, Begin, BeginFails, DirBegins, IncludeFile, CallSucceeds, CallFails,
     WordCloses, LineEnds
<1>3. Ends => asked \subseteq asked'
  BY DEF Ends, QUIT, Caught
<1>. QED BY <1>1, <1>2, <1>3 DEF Next

LEMMA TopKeeps ==
  ASSUME Inv, CardInv, frames # <<>>
  PROVE  /\ Keeps(Top)
         /\ Top.word \in Saving => /\ Top.handle \in Handles /\ Top.handle \notin Dirs
                                   /\ pool[Top.handle].file = Top.file
                                   /\ pool[Top.handle].file \in Files
<1>1. /\ Top.handle \in Held(frames) /\ Top.handle \in Handles \cup Dirs
      /\ Top.word \in DOMAIN Words
      /\ Top.word = "dir" <=> Top.handle \in Dirs
      /\ Len(frames) \in DOMAIN frames
  BY TopFacts DEF Inv
<1>2. Keeps(Top)
  BY <1>1 DEF CardInv, Top
<1>3. ASSUME Top.word \in Saving
      PROVE  /\ Top.handle \in Handles /\ Top.handle \notin Dirs
             /\ pool[Top.handle].file \in Files
  <2>1. Top.handle \in Handles /\ Top.handle \notin Dirs
    BY <1>1, <1>3, SavingFacts
  <2>2. pool[Top.handle] # Closed
    BY <1>1, <2>1, HeldOpen DEF OpenFiles
  <2>. QED BY <2>1, <2>2 DEF Inv, TypeOK
<1>. QED BY <1>2, <1>3 DEF Keeps

LEMMA AskedNext ==
  ASSUME Inv, CardInv, Next
  PROVE  Asked'
<1>1. /\ card \in Cards /\ pool \in Pools /\ Asked /\ asked \subseteq asked'
      /\ \A h \in Handles : pool[h] # Closed => pool[h].file \in Files
  BY AskedGrows DEF Inv, TypeOK, Cards, Pools, CardInv
<1>2. ASSUME NEW f \in Files, NEW state \in {"reading", "created"}, NEW h \in Handles,
             FsOpen(f, state, h), state = "created" => f \in asked'
      PROVE  Asked'
  <2>1. \A k \in Handles : pool'[k] = IF k = h THEN [file |-> f, state |-> state] ELSE pool[k]
    BY <1>1, <1>2 DEF FsOpen, Pools
  <2>2. \A g \in Files : card'[g] = card[g] \/ g \in asked'
    BY <1>1, <1>2 DEF FsOpen, Cards
  <2>. QED BY <1>1, <1>2, <2>1, <2>2 DEF Asked
<1>3. ASSUME NEW h \in Handles, NEW failed, FsClose(h, failed)
      PROVE  Asked'
  <2>1. \A k \in Handles : pool'[k] = IF k = h THEN Closed ELSE pool[k]
    BY <1>1, <1>3 DEF FsClose, Pools
  <2>2. \A g \in Files : card'[g] = card[g] \/ g \in asked
    BY <1>1, <1>3 DEF FsClose, Cards, Asked
  <2>. QED BY <1>1, <2>1, <2>2 DEF Asked, Closed
<1>4. ASSUME NEW h \in Handles, pool' = [pool EXCEPT ![h].state = "written"],
             pool[h] # Closed, pool[h].file \in asked, card' = card
      PROVE  Asked'
  <2>1. pool[h] \in [file : Files, state : {"reading", "created", "written"}]
    BY <1>1, <1>4 DEF Pools
  <2>2. \A k \in Handles : pool'[k] = IF k = h THEN [pool[h] EXCEPT !.state = "written"]
                                              ELSE pool[k]
    BY <1>1, <1>4 DEF Pools
  <2>3. pool'[h].file = pool[h].file
    BY <2>1, <2>2
  <2>. QED BY <1>1, <1>4, <2>2, <2>3 DEF Asked
<1>5. ASSUME pool' = pool, \A f \in Files : card'[f] = card[f] \/ f \in asked'
      PROVE  Asked'
  BY <1>1, <1>5 DEF Asked
<1>6. CASE Program
  <2>1. ASSUME NEW f \in Files, NEW h \in Handles, NEW fam, OPEN_FILE(f, fam, h)
        PROVE  Asked'
    BY <1>2, <2>1 DEF OPEN_FILE
  <2>2. ASSUME NEW f \in Files, NEW h \in Handles, CREATE_FILE(f, h)
        PROVE  Asked'
    BY <1>2, <2>2 DEF CREATE_FILE
  <2>3. ASSUME NEW h \in Handles, WRITE_FILE(h)
        PROVE  Asked'
    BY <1>1, <1>4, <2>3 DEF WRITE_FILE, Asked, Closed
  <2>4. ASSUME NEW h \in Handles, NEW failed \in BOOLEAN, CLOSE_FILE(h, failed)
        PROVE  Asked'
    BY <1>3, <2>4 DEF CLOSE_FILE
  <2>5. ASSUME NEW f \in Files, DELETE_FILE(f)
        PROVE  Asked'
    <3>1. \A g \in Files : card'[g] = card[g] \/ g \in asked'
      BY <1>1, <2>5 DEF DELETE_FILE, Cards
    <3>. QED BY <1>5, <2>5, <3>1 DEF DELETE_FILE
  <2>6. ASSUME NEW f \in Files, NEW g \in Files, RENAME_FILE(f, g)
        PROVE  Asked'
    <3>1. \A k \in Files : card'[k] = card[k] \/ k \in asked'
      BY <1>1, <2>6 DEF RENAME_FILE, Cards
    <3>. QED BY <1>5, <2>6, <3>1 DEF RENAME_FILE
  <2>7. CASE UNCHANGED <<pool, card>>
    BY <1>5, <2>7
  <2>. QED BY <1>6, <2>1, <2>2, <2>3, <2>4, <2>5, <2>6, <2>7 DEF Program, READ_FILE,
          DIR_OPEN, DIR_CLOSE, OtherCalls
<1>7. CASE Ends
  <2>1. CASE QUIT
    <3>1. \A h \in Handles : pool'[h].state = "closed"
      BY <2>1 DEF QUIT, Closed
    <3>2. \A f \in Files : card'[f] = card[f] \/ f \in asked
      <4>. SUFFICES ASSUME NEW f \in Files, card'[f] # card[f] PROVE f \in asked
        OBVIOUS
      <4>1. PICK h \in Handles : pool[h] = [file |-> f, state |-> "written"]
        BY <2>1 DEF QUIT
      <4>. QED BY <1>1, <4>1 DEF Asked
    <3>. QED BY <1>1, <3>1, <3>2 DEF Asked
  <2>. QED BY <1>5, <1>7, <2>1 DEF Ends, Caught
<1>8. ASSUME NEW w \in DOMAIN Words, NEW f \in Files, NEW h \in Handles,
             NEW more \in BOOLEAN, Begin(w, f, h, more)
      PROVE  Asked'
  BY <1>2, <1>8 DEF Begin
<1>9. ASSUME NEW failed \in BOOLEAN, WordCloses(failed)
      PROVE  Asked'
  <2>1. CASE Top.handle \in Dirs
    BY <1>5, <1>9, <2>1 DEF WordCloses
  <2>2. CASE Top.handle \notin Dirs
    <3>1. Top.handle \in Handles
      BY <1>9, <2>2, TopFacts DEF WordCloses, Inv
    <3>. QED BY <1>3, <1>9, <2>2, <3>1 DEF WordCloses
  <2>. QED BY <2>1, <2>2
<1>10. CASE CallSucceeds
  <2>1. card' = card /\ frames # <<>>
    BY <1>10 DEF CallSucceeds
  <2>2. CASE pool' = pool
    BY <1>5, <2>1, <2>2
  <2>3. CASE Call = "write" /\ pool' = [pool EXCEPT ![Top.handle].state = "written"]
    <3>1. Top.word \in Saving
      BY <1>10, <2>1, <2>3, TopFacts, SavingFacts DEF CallSucceeds, Calling, Call, Step, Inv
    <3>2. /\ Top.handle \in Handles /\ pool[Top.handle].file \in asked
      BY <2>1, <3>1, TopKeeps DEF Keeps
    <3>3. pool[Top.handle] # Closed
      BY <2>1, <3>2, TopFacts, HeldOpen DEF Inv, OpenFiles, TypeOK
    <3>. QED BY <1>4, <2>1, <2>3, <3>2, <3>3
  <2>. QED BY <1>10, <2>2, <2>3 DEF CallSucceeds
<1>11. CASE WordRuns
  <2>1. CASE UNCHANGED <<pool, card>>
    BY <1>5, <2>1
  <2>. QED BY <1>8, <1>9, <1>10, <1>11, <2>1 DEF WordRuns, BeginFails, DirBegins,
          IncludeFile, CallFails, LineEnds
<1>. QED BY <1>6, <1>7, <1>11 DEF Next

LEMMA WentOnKeeps ==
  ASSUME Inv, CardInv, Next, NEW i \in DOMAIN frames', WentOn(i), Top.word \in Saving,
         frames'[i].at = Len(Step.calls) + 1, frames'[i].ior = 0
  PROVE  pool'[Top.handle].state = "written"
<1>. DEFINE g == frames'[i]
<1>1. frames # <<>> /\ Top.word \in DOMAIN Words
  BY TopFacts DEF WentOn, Inv
<1>2. /\ Len(Step.calls) = 1 /\ Step.calls[1] = "write"
      /\ Top.word \notin LineReaders /\ Top.word # "include_file"
  BY <1>1, SavingFacts DEF Step, LineReaders
<1>3. Keeps(Top) /\ Top.handle \in Handles
  BY <1>1, TopKeeps
<1>4. CASE pool' = pool /\ g.ior = Top.ior /\ g.at = Top.at
  BY <1>3, <1>4 DEF Keeps, Step
<1>5. ASSUME CallSucceeds \/ CallFails PROVE Call = "write"
  <2>1. Top.at \in 1..Len(Step.calls)
    BY <1>5 DEF CallSucceeds, CallFails, Calling
  <2>2. \A k : k \in 1..1 => k = 1
    OBVIOUS
  <2>3. Top.at = 1
    BY <1>2, <2>1, <2>2
  <2>. QED BY <1>2, <2>3 DEF Call
<1>6. CASE /\ CallSucceeds
           /\ pool' = IF Call = "write" THEN [pool EXCEPT ![Top.handle].state = "written"]
                      ELSE pool
  <2>1. pool' = [pool EXCEPT ![Top.handle].state = "written"] /\ pool \in Pools
    BY <1>5, <1>6 DEF Inv, TypeOK, Pools
  <2>2. pool[Top.handle] # Closed
    BY <1>1, <1>3, TopFacts, HeldOpen DEF Inv, OpenFiles, TypeOK
  <2>3. pool[Top.handle] \in [file : Files, state : {"reading", "created", "written"}]
    BY <1>3, <2>1, <2>2 DEF Pools
  <2>4. pool'[Top.handle] = [pool[Top.handle] EXCEPT !.state = "written"]
    BY <1>3, <2>1 DEF Pools
  <2>. QED BY <2>3, <2>4
<1>7. CASE CallFails /\ g.ior = (IF Call = "read" THEN ktmp ELSE 1)
  BY <1>5, <1>7
<1>. QED BY <1>2, <1>4, <1>6, <1>7, AfterCall

LEMMA CardNext == DirsRead /\ Inv /\ CardInv /\ [Next]_vars => CardInv'
<1>. SUFFICES ASSUME DirsRead, Inv, CardInv, [Next]_vars PROVE CardInv'
  OBVIOUS
<1>1. CASE UNCHANGED vars
  BY <1>1 DEF vars, CardInv, Asked, Keeps
<1>2. CASE Next
  <2>1. ASSUME NEW i \in DOMAIN frames'
        PROVE  LET g == frames'[i]
               IN  /\ g.handle \in Handles => pool'[g.handle].file = g.file
                   /\ g.word \in Saving =>
                        /\ g.file \in asked'
                        /\ g.at = Len(Words[g.word].calls) + 1 /\ g.ior = 0
                             => pool'[g.handle].state = "written"
    <3>. DEFINE g == frames'[i]
    <3>1. /\ g.word \in DOMAIN Words /\ g.handle \in Held(frames')
          /\ g.word \in Saving => g.handle \in Handles
      <4>1. Inv'
        BY <1>2, NextOK
      <4>2. g \in Frames /\ (g.word = "dir" <=> g.handle \in Dirs)
        BY <4>1 DEF Inv, TypeOK, FramesOK
      <4>. QED BY <4>2 DEF Frames, Saving, Held
    <3>2. asked \subseteq asked'
      BY <1>2, AskedGrows
    <3>3. CASE Same(i)
      <4>1. g.handle \in Held(frames) /\ Keeps(frames[i])
        BY <3>3 DEF Same, Held, CardInv
      <4>2. g.handle \in Handles =>
              /\ pool'[g.handle].file = pool[g.handle].file
              /\ pool[g.handle].state = "written" => pool'[g.handle].state = "written"
        BY <1>2, <3>1, <4>1, PoolKeeps
      <4>. QED BY <3>1, <3>2, <3>3, <4>1, <4>2 DEF Same, Keeps
    <3>4. CASE Begun(i)
      <4>1. g.word \in Saving => Len(Words[g.word].calls) = 1
        <5>1. \A w \in DOMAIN Words : w \in Saving => Len(Words[w].calls) = 1
          BY SavingFacts
        <5>. QED BY <3>1, <5>1, Zenon
      <4>2. /\ g.at = 1 /\ (g.handle \in Handles => pool'[g.handle].file = g.file)
            /\ (g.word \in Saving => g.file \in asked')
        BY <3>4 DEF Begun
      <4>3. g.word \in Saving => g.at # Len(Words[g.word].calls) + 1
        <5>1. \A k : k = 1 => 1 # k + 1
          OBVIOUS
        <5>. QED BY <4>1, <4>2, <5>1, Zenon
      <4>. QED BY <4>2, <4>3
    <3>5. CASE WentOn(i)
      <4>1. frames # <<>> /\ g.word = Top.word /\ g.handle = Top.handle /\ g.file = Top.file
        BY <3>5, AfterCall DEF WentOn
      <4>2. Top.handle \in Held(frames) /\ Keeps(Top)
        BY <4>1, TopFacts, TopKeeps DEF Inv
      <4>3. g.handle \in Handles => pool'[g.handle].file = g.file
        BY <1>2, <3>1, <4>1, <4>2, PoolKeeps DEF Keeps
      <4>. QED BY <1>2, <3>2, <3>5, <4>1, <4>2, <4>3, WentOnKeeps DEF Keeps, Step
    <3>. QED BY <1>2, <3>3, <3>4, <3>5, FramesMove
  <2>. QED BY <1>2, <2>1, AskedNext DEF CardInv, Keeps
<1>. QED BY <1>1, <1>2

LEMMA SavedIsThere ==
  ASSUME Flushed, Inv, CardInv, NEW failed \in BOOLEAN, WordCloses(failed),
         out' # out, out'.word \in Saving, out'.ior = 0
  PROVE  card'[out'.file] = "new"
<1>1. frames # <<>> /\ Top.at = Closing /\ (failed => <<Top.word, "close">> \in Faults)
      /\ out' = Answer(Top.word, Top.file,
              IF failed /\ Top.ior = 0 /\ Step.answers = "all" THEN 1 ELSE Top.ior,
              Top.bad, failed)
  BY DEF WordCloses
<1>2. /\ Top.word \in Saving /\ Top.word \in DOMAIN Words
      /\ Top.ior = 0 /\ ~(failed /\ Step.answers = "all") /\ out'.file = Top.file
  BY <1>1, TopFacts DEF Answer, Inv
<1>3. /\ Keeps(Top) /\ Top.handle \notin Dirs /\ Top.handle \in Handles
      /\ pool[Top.handle].file = Top.file /\ pool[Top.handle].file \in Files
  BY <1>1, <1>2, TopKeeps
<1>4. ~failed
  BY <1>1, <1>2, SavingFacts DEF Saving, Flushed, Step
<1>5. pool[Top.handle].state = "written"
  BY <1>1, <1>2, <1>3 DEF Keeps, Closing, Step
<1>6. card' = [card EXCEPT ![pool[Top.handle].file] = "new"]
  BY <1>3, <1>4, <1>5 DEF WordCloses, FsClose
<1>. QED BY <1>2, <1>3, <1>6 DEF Inv, TypeOK

LEMMA CardStep ==
  ASSUME DirsRead, Flushed, Inv, CardInv, Next
  PROVE  /\ \A f \in Files \ asked' : card'[f] = "old"
         /\ out' # out /\ out'.word \in Saving /\ out'.ior = 0 => card'[out'.file] = "new"
<1>1. \A f \in Files \ asked' : card'[f] = "old"
  BY AskedNext DEF Asked
<1>2. ASSUME out' # out, out'.word \in Saving, out'.ior = 0
      PROVE  card'[out'.file] = "new"
  <2>1. ASSUME NEW h \in Handles, NEW failed \in BOOLEAN, READ_FILE(h, failed) PROVE FALSE
    BY <1>2, <2>1 DEF READ_FILE, Answer, Saving
  <2>2. ASSUME NEW w \in DOMAIN Words, NEW f \in Files, BeginFails(w, f) PROVE FALSE
    BY <1>2, <2>2 DEF BeginFails, Answer
  <2>3. ~Program
    BY <1>2, <2>1 DEF Program, OPEN_FILE, CREATE_FILE, WRITE_FILE, CLOSE_FILE,
       DELETE_FILE, RENAME_FILE, DIR_OPEN, DIR_CLOSE, OtherCalls
  <2>4. ~Ends
    BY <1>2 DEF Ends, QUIT, Caught
  <2>5. \E failed \in BOOLEAN : WordCloses(failed)
    BY <1>2, <2>2, <2>3, <2>4 DEF Next, WordRuns, Begin, DirBegins, IncludeFile,
       CallSucceeds, CallFails, LineEnds
  <2>. QED BY <1>2, <2>5, SavedIsThere
<1>. QED BY <1>1, <1>2

(***************************************************************************)
(* A saving word that answers 0 left the whole file on the card, if the    *)
(* close cannot fail where its answer is dropped; and what nobody asked to *)
(* create, delete or rename is as it was (base.fs:1200, fs.asm:214).       *)
(***************************************************************************)
THEOREM CardKeepsFaith == DirsRead /\ Flushed => (Spec => CardIsAsTold)
<1>. SUFFICES ASSUME DirsRead, Flushed PROVE Spec => CardIsAsTold
  OBVIOUS
<1>1. Init => CardInv
  BY DEF Init, CardInv, Asked, Closed
<1>2. Inv /\ CardInv /\ [Next]_vars => CardInv'
  BY CardNext
<1>3. Inv /\ CardInv /\ [Next]_vars =>
        [ /\ \A f \in Files \ asked' : card'[f] = "old"
          /\ out' # out /\ out'.word \in {"bsave", "vsave", "save_image"} /\ out'.ior = 0
               => card'[out'.file] = "new" ]_vars
  BY CardStep DEF Saving
<1>. QED BY <1>1, <1>2, <1>3, Invariant, PTL DEF Spec, CardIsAsTold
===========================================================================
