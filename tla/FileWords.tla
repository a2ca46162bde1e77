----------------------------- MODULE FileWords -----------------------------
(***************************************************************************)
(* The words that use files on the program's behalf (forth/base.fs over    *)
(* asm/file.asm, and SAVE-IMAGE of asm/fs.asm): each takes a handle from   *)
(* the kernel's pool, makes its calls, any of which may fail, gives the    *)
(* handle back and answers with an ior.  The file words proper (OPEN-FILE  *)
(* and the rest) leave the handle with the program.                        *)
(*                                                                         *)
(* INCLUDE-FILE interprets between its calls, so words nest; an exception  *)
(* or the break key may end all of them between any two calls.             *)
(***************************************************************************)
EXTENDS Integers, Sequences

CONSTANTS
  Files,     \* names on the card
  NoFile,    \* not a name
  Handles,   \* the kernel's file handles: 1..5
  Dirs,      \* its directory handles, a pool of two from 129 up
  MaxDepth,  \* bound: INCLUDE-FILEs in progress
  MaxLines,  \* bound: lines of a file
  Faults,    \* pairs <<word, call>>: the calls that may fail
  Habits     \* "nested": INCLUDE-FILE need not be the last word of its line

ASSUME FileWordsAssumption ==
  /\ NoFile \notin Files
  /\ Handles \cap Dirs = {}
  /\ MaxDepth \in Nat \ {0}
  /\ MaxLines \in Nat

VARIABLES
  card,    \* what is behind each name
  pool,    \* the open files: name and state
  dirs,    \* the open directory handles
  mine,    \* handles the program got from OPEN-FILE, CREATE-FILE, DIR-OPEN
  frames,  \* the words in progress
  ifbuf,   \* (if-buf): the frame and line it was last filled for
  ktmp,    \* KTMP, zero or not
  out,     \* the last word that answered
  asked,   \* names the program asked to create, delete or rename
  lost     \* handles of words that an exception or QUIT ended

vars == <<card, pool, dirs, mine, frames, ifbuf, ktmp, out, asked, lost>>

(* A word: the calls it makes of the file it opened, once or until the     *)
(* data ends; whether a failed call still leads to the close; what its     *)
(* answer is drawn from.                                                   *)

Word(opens, calls, loops, closes, answers) ==
  [opens |-> opens, calls |-> calls, loops |-> loops, closes |-> closes, answers |-> answers]

fileStatus == Word("reading", <<>>, FALSE, TRUE, "calls")
bload == Word("reading", <<"size", "read">>, FALSE, TRUE, "calls")
bsave == Word("created", <<"write">>, FALSE, TRUE, "calls")
vload == Word("reading", <<"read">>, TRUE, TRUE, "calls")
\* Mutant: the exit after a failed write forgets the close.
Bugvsave == Word("created", <<"write">>, TRUE, FALSE, "calls")
vsave == Word("created", <<"write">>, TRUE, TRUE, "calls")
\* Mutant: attempted, not checked.
BugSAVE_IMAGE == Word("created", <<"write">>, FALSE, TRUE, "calls")
SAVE_IMAGE == Word("created", <<"write">>, FALSE, TRUE, "all")
help == Word("reading", <<"read">>, TRUE, TRUE, "nothing")
includeFile == Word("held", <<"read">>, TRUE, TRUE, "nothing")
dir == Word("dir", <<"next">>, TRUE, FALSE, "nothing")

Words ==
  [file_status |-> fileStatus, bload |-> bload, bsave |-> bsave, vload |-> vload,
   vsave |-> vsave, save_image |-> SAVE_IMAGE, help |-> help,
   include_file |-> includeFile, dir |-> dir]

LineReaders == {"help", "include_file"}

\* Mutant: HELP reads its page into the buffer INCLUDE-FILE interprets.
BugFillsIfbuf(w) == w \in LineReaders

\* INCLUDE-FILE's lines go to (if-buf), the others have buffers of their own.
FillsIfbuf(w) == w = "include_file"

Answers(w) == Words[w].answers # "nothing"

Closed == [file |-> NoFile, state |-> "closed"]

Top == frames[Len(frames)]
Step == Words[Top.word]
Closing == Len(Step.calls) + 1
Below == SubSeq(frames, 1, Len(frames) - 1)

\* A line is interpreted, the prompt's or one of INCLUDE-FILE's.
Interpreting == frames # <<>> => Top.at = 0 /\ Top.more

NotOpen(f) == \A h \in Handles : pool[h].file # f

\* bad: a call before the close failed; unclosed: the close did.
Answer(w, f, ior, bad, unclosed) ==
  [word |-> w, file |-> f, ior |-> ior, bad |-> bad, unclosed |-> unclosed]

Init ==
  /\ card = [f \in Files |-> "old"]
  /\ pool = [h \in Handles |-> Closed]
  /\ dirs = {}
  /\ mine = {}
  /\ frames = <<>>
  /\ ifbuf = <<>>
  /\ ktmp \in {0, 1}
  /\ out = Answer("none", NoFile, 0, FALSE, FALSE)
  /\ asked = {}
  /\ lost = {}

---------------------------------------------------------------------------
(* The kernel's calls.                                                     *)

\* FS_OPEN: for reading the file must exist; created, it is there, empty.
FsOpen(f, state, h) ==
  /\ pool[h] = Closed
  /\ IF state = "created" THEN NotOpen(f) ELSE card[f] # "none"
  /\ pool' = [pool EXCEPT ![h] = [file |-> f, state |-> state]]
  /\ card' = IF state = "created" THEN [card EXCEPT ![f] = "part"] ELSE card
  /\ ktmp' = 1

CannotOpen(w, f, state) ==
  \/ <<w, "open">> \in Faults
  \/ \A h \in Handles : pool[h] # Closed
  \/ state = "reading" /\ card[f] = "none"

\* Mutant: the name is let go of, the handle's state is not.
BugFsClose(h, failed) ==
  /\ pool' = [pool EXCEPT ![h].file = NoFile]
  /\ card' = card
  /\ ktmp' \in {0, 1}

\* FS_CLOSE writes the directory entry: what was written counts from here.
FsClose(h, failed) ==
  /\ pool' = [pool EXCEPT ![h] = Closed]
  /\ card' = IF pool[h].state = "written" /\ ~failed
               THEN [card EXCEPT ![pool[h].file] = "new"] ELSE card
  /\ ktmp' \in {0, 1}

---------------------------------------------------------------------------
(* A word of the table runs.                                               *)

Frame(w, h, f) ==
  [word |-> w, handle |-> h, file |-> f, at |-> 1, line |-> 0, more |-> FALSE,
   ior |-> 0, bad |-> FALSE]

\* The word is pushed; the line it stands in goes on after it or does not.
Push(w, h, f, more) ==
  /\ Interpreting
  /\ frames' = Append(IF frames = <<>> THEN <<>>
                      ELSE [frames EXCEPT ![Len(frames)].more = more], Frame(w, h, f))

Begin(w, f, h, more) ==
  /\ Words[w].opens \in {"reading", "created"}
  /\ Push(w, h, f, more)
  /\ FsOpen(f, Words[w].opens, h)
  /\ asked' = IF Words[w].opens = "created" THEN asked \cup {f} ELSE asked
  /\ UNCHANGED <<dirs, mine, ifbuf, out, lost>>

\* No handle, no file, or SAVE-IMAGE's refusal of an image too big to run.
BeginFails(w, f) ==
  /\ Interpreting
  /\ Words[w].opens \in {"reading", "created"}
  /\ CannotOpen(w, f, Words[w].opens) \/ w = "save_image"
  /\ out' = IF Answers(w) THEN Answer(w, f, 1, FALSE, FALSE) ELSE out
  /\ ktmp' \in IF w = "save_image" THEN {ktmp, 1} ELSE {1}
  /\ UNCHANGED <<card, pool, dirs, mine, frames, ifbuf, asked, lost>>

DirBegins(d, more) ==
  /\ d \notin dirs
  /\ Push("dir", d, NoFile, more)
  /\ dirs' = dirs \cup {d}
  /\ ktmp' = 1
  /\ UNCHANGED <<card, pool, mine, ifbuf, out, asked, lost>>

\* ( fileid -- ): the handle becomes INCLUDE-FILE's to close.
IncludeFile(h, more) ==
  /\ Len(frames) < MaxDepth
  /\ h \in mine /\ pool[h].state = "reading"
  /\ more /\ frames # <<>> => "nested" \in Habits
  /\ Push("include_file", h, pool[h].file, more)
  /\ mine' = mine \ {h}
  /\ UNCHANGED <<card, pool, dirs, ifbuf, ktmp, out, asked, lost>>

Call == Step.calls[Top.at]

Calling == Top.at \in 1..Len(Step.calls)

\* More data to come: the loop goes on, INCLUDE-FILE by way of its line.
Again ==
  /\ Step.loops /\ Top.line < MaxLines
  /\ frames' = [frames EXCEPT ![Len(frames)] =
       [Top EXCEPT !.line = @ + 1,
                   !.at = IF Top.word = "include_file" THEN 0 ELSE @,
                   !.more = Top.word = "include_file"]]
  /\ ifbuf' = IF FillsIfbuf(Top.word) THEN <<Top.handle, Top.line + 1>> ELSE ifbuf

\* Mutant: the ior left is that of the close, not of the call that failed.
BugGoesOn(at, ior, failed) ==
  /\ frames' = [frames EXCEPT ![Len(frames)] =
       [Top EXCEPT !.at = at, !.ior = 0, !.bad = @ \/ failed]]
  /\ ifbuf' = ifbuf

\* The word goes on to its next call or to the close.
GoesOn(at, ior, failed) ==
  /\ frames' = [frames EXCEPT ![Len(frames)] =
       [Top EXCEPT !.at = at, !.ior = ior, !.bad = @ \/ failed]]
  /\ ifbuf' = ifbuf

CallSucceeds ==
  /\ frames # <<>> /\ Calling
  /\ \/ Again /\ pool' = pool
     \/ /\ GoesOn(IF Step.loops THEN Closing ELSE Top.at + 1, 0, FALSE)
        /\ pool' = IF Call = "write" THEN [pool EXCEPT ![Top.handle].state = "written"]
                   ELSE pool
  /\ ktmp' \in IF Call = "read" THEN {ktmp} ELSE {0, 1}
  /\ UNCHANGED <<card, dirs, mine, out, asked, lost>>

\* A failed fs-read answers with what KTMP held before; if that is 0 it is
\* taken for a read of nothing, which ends a line or the file.
CallFails ==
  /\ frames # <<>> /\ Calling
  /\ <<Top.word, Call>> \in Faults
  /\ LET ior == IF Call = "read" THEN ktmp ELSE 1
     IN  \/ Step.closes /\ GoesOn(Closing, ior, TRUE)
         \/ Top.word \in LineReaders /\ ior = 0 /\ Again
         \/ ~Step.closes /\ frames' = Below /\ ifbuf' = ifbuf
  /\ ktmp' = IF Call = "read" THEN ktmp ELSE 1
  /\ UNCHANGED <<card, pool, dirs, mine, out, asked, lost>>

\* The handle goes back; only SAVE-IMAGE looks at what the close says.
WordCloses(failed) ==
  /\ frames # <<>> /\ Top.at = Closing
  /\ failed => <<Top.word, "close">> \in Faults
  /\ frames' = Below
  /\ IF Top.handle \in Dirs
       THEN dirs' = dirs \ {Top.handle} /\ ktmp' \in {0, 1} /\ UNCHANGED <<pool, card>>
       ELSE FsClose(Top.handle, failed) /\ dirs' = dirs
  /\ out' =
       IF ~Answers(Top.word) THEN out
       ELSE Answer(Top.word, Top.file,
              IF failed /\ Top.ior = 0 /\ Step.answers = "all" THEN 1 ELSE Top.ior,
              Top.bad, failed)
  /\ UNCHANGED <<mine, ifbuf, asked, lost>>

\* The line of INCLUDE-FILE is done, perhaps before a word of it ran.
LineEnds ==
  /\ frames # <<>> /\ Top.word = "include_file" /\ Top.at = 0
  /\ frames' = [frames EXCEPT ![Len(frames)].at = 1]
  /\ ktmp' \in {0, 1}
  /\ UNCHANGED <<card, pool, dirs, mine, ifbuf, out, asked, lost>>

---------------------------------------------------------------------------
(* An error or the break key ends words between any two calls.  Nothing    *)
(* gives their handles back but QUIT, which closes all file handles.       *)

Held(fs) == {fs[i].handle : i \in DOMAIN fs}

\* A CATCH in a line that is interpreted, or in the program, receives it.
Caught(n) ==
  /\ n < Len(frames)
  /\ frames' = SubSeq(frames, 1, n)
  /\ lost' = lost \cup Held(SubSeq(frames, n + 1, Len(frames)))
  /\ ktmp' \in {0, 1}
  /\ UNCHANGED <<card, pool, dirs, mine, ifbuf, out, asked>>

QUIT ==
  /\ frames' = <<>>
  /\ pool' = [h \in Handles |-> Closed]
  /\ card' = [f \in Files |->
       IF \E h \in Handles : pool[h] = [file |-> f, state |-> "written"]
         THEN "new" ELSE card[f]]
  /\ mine' = {}
  /\ lost' = dirs
  /\ ktmp' \in {0, 1}
  /\ UNCHANGED <<dirs, ifbuf, out, asked>>

---------------------------------------------------------------------------
(* The program's own file words.                                           *)

\* W/O and R/W are refused: the kernel's only other mode truncates.
OPEN_FILE(f, fam, h) ==
  /\ Interpreting
  /\ fam = "r/o"
  /\ FsOpen(f, "reading", h)
  /\ mine' = mine \cup {h}
  /\ UNCHANGED <<dirs, frames, ifbuf, out, asked, lost>>

CREATE_FILE(f, h) ==
  /\ Interpreting
  /\ FsOpen(f, "created", h)
  /\ mine' = mine \cup {h}
  /\ asked' = asked \cup {f}
  /\ UNCHANGED <<dirs, frames, ifbuf, out, lost>>

\* READ-FILE is fs-read itself: see CallFails.
READ_FILE(h, failed) ==
  /\ Interpreting
  /\ h \in mine /\ pool[h].state = "reading"
  /\ failed => <<"read_file", "read">> \in Faults
  /\ out' = Answer("read_file", pool[h].file, IF failed THEN ktmp ELSE 0, failed, FALSE)
  /\ UNCHANGED <<card, pool, dirs, mine, frames, ifbuf, ktmp, asked, lost>>

WRITE_FILE(h) ==
  /\ Interpreting
  /\ h \in mine /\ pool[h].state = "created"
  /\ pool' = [pool EXCEPT ![h].state = "written"]
  /\ ktmp' \in {0, 1}
  /\ UNCHANGED <<card, dirs, mine, frames, ifbuf, out, asked, lost>>

CLOSE_FILE(h, failed) ==
  /\ Interpreting
  /\ h \in mine \cap Handles
  /\ FsClose(h, failed)
  /\ mine' = mine \ {h}
  /\ UNCHANGED <<dirs, frames, ifbuf, out, asked, lost>>

DELETE_FILE(f) ==
  /\ Interpreting /\ NotOpen(f)
  /\ card' = [card EXCEPT ![f] = "none"]
  /\ asked' = asked \cup {f}
  /\ ktmp' \in {0, 1}
  /\ UNCHANGED <<pool, dirs, mine, frames, ifbuf, out, lost>>

\* The kernel refuses a name that exists (KERR_EXISTS).
RENAME_FILE(f, g) ==
  /\ Interpreting /\ NotOpen(f) /\ card[g] = "none" /\ card[f] # "none"
  /\ card' = [card EXCEPT ![f] = "none", ![g] = card[f]]
  /\ asked' = asked \cup {f, g}
  /\ ktmp' \in {0, 1}
  /\ UNCHANGED <<pool, dirs, mine, frames, ifbuf, out, lost>>

\* Sizes and positions, like the console words, leave their result in KTMP.
OtherCalls ==
  /\ Interpreting
  /\ ktmp' \in {0, 1}
  /\ UNCHANGED <<card, pool, dirs, mine, frames, ifbuf, out, asked, lost>>

DIR_OPEN(d) ==
  /\ Interpreting /\ d \notin dirs
  /\ dirs' = dirs \cup {d}
  /\ mine' = mine \cup {d}
  /\ ktmp' = 1
  /\ UNCHANGED <<card, pool, frames, ifbuf, out, asked, lost>>

DIR_CLOSE(d) ==
  /\ Interpreting /\ d \in mine \cap Dirs
  /\ dirs' = dirs \ {d}
  /\ mine' = mine \ {d}
  /\ ktmp' \in {0, 1}
  /\ UNCHANGED <<card, pool, frames, ifbuf, out, asked, lost>>

---------------------------------------------------------------------------

Program ==
  \/ \E f \in Files, h \in Handles :
       (\E fam \in {"r/o", "w/o", "r/w"} : OPEN_FILE(f, fam, h)) \/ CREATE_FILE(f, h)
  \/ \E h \in Handles : WRITE_FILE(h)
  \/ \E h \in Handles, failed \in BOOLEAN : READ_FILE(h, failed) \/ CLOSE_FILE(h, failed)
  \/ \E f \in Files : DELETE_FILE(f) \/ \E g \in Files : RENAME_FILE(f, g)
  \/ \E d \in Dirs : DIR_OPEN(d) \/ DIR_CLOSE(d)
  \/ OtherCalls

WordRuns ==
  \/ \E w \in DOMAIN Words, f \in Files :
       BeginFails(w, f) \/ \E h \in Handles, more \in BOOLEAN : Begin(w, f, h, more)
  \/ \E more \in BOOLEAN :
       (\E d \in Dirs : DirBegins(d, more)) \/ \E h \in Handles : IncludeFile(h, more)
  \/ CallSucceeds \/ CallFails
  \/ \E failed \in BOOLEAN : WordCloses(failed)
  \/ LineEnds

Ends == QUIT \/ \E n \in 0..MaxDepth : Caught(n)

Next == Program \/ WordRuns \/ Ends

Spec == Init /\ [][Next]_vars

---------------------------------------------------------------------------
(* Properties.                                                             *)

Frames ==
  [word : DOMAIN Words, handle : Handles \cup Dirs, file : Files \cup {NoFile},
   at : Nat, line : 0..MaxLines, more : BOOLEAN, ior : {0, 1}, bad : BOOLEAN]

\* A word with others above it is an INCLUDE-FILE that interprets its line.
FramesOK ==
  \A i \in DOMAIN frames :
    /\ frames[i].at <= Len(Words[frames[i].word].calls) + 1
    /\ frames[i].at = 0 => frames[i].word = "include_file"
    /\ frames[i].word = "include_file" => i <= MaxDepth
    /\ frames[i].word = "dir" <=> frames[i].handle \in Dirs
    /\ i < Len(frames) => frames[i].at = 0

TypeOK ==
  /\ card \in [Files -> {"old", "part", "new", "none"}]
  /\ pool \in [Handles -> {Closed} \cup
                          [file : Files, state : {"reading", "created", "written"}]]
  /\ dirs \subseteq Dirs
  /\ mine \subseteq Handles \cup Dirs
  /\ frames \in Seq(Frames)
  /\ FramesOK
  /\ ktmp \in {0, 1}

(***************************************************************************)
(* Every handle open in the kernel is accounted for: it is the program's,  *)
(* or exactly one running word's, or was lost to an exception - no word    *)
(* that ends by itself, however its calls failed, keeps one.               *)
(***************************************************************************)
HandlesOwned ==
  /\ {h \in Handles : pool[h] # Closed} \cup dirs = mine \cup Held(frames) \cup lost
  /\ mine \cap (Held(frames) \cup lost) = {}
  /\ Held(frames) \cap lost = {}
  /\ \A i, j \in DOMAIN frames : frames[i].handle = frames[j].handle => i = j

(***************************************************************************)
(* The card holds what the program was told.  "CLOSE-FILE is the sync      *)
(* point": a saving word that answers 0 left all of the file there; and a  *)
(* name nobody created, deleted or renamed keeps its contents, OPEN-FILE   *)
(* never destroys them.                                                    *)
(***************************************************************************)
CardIsAsTold ==
  [][ /\ \A f \in Files \ asked' : card'[f] = "old"
      /\ out' # out /\ out'.word \in {"bsave", "vsave", "save_image"} /\ out'.ior = 0
           => card'[out'.file] = "new" ]_vars

\* A failing close loses nothing of a file that was only read.
Readers == {w \in DOMAIN Words : Words[w].opens = "reading"}

(***************************************************************************)
(* "ior is the kernel's own error number, 0 on success": a word that       *)
(* answers 0 made no call of which the kernel said that it failed, but for *)
(* the close of a file it has only read, whose ior FILE-STATUS, BLOAD and  *)
(* VLOAD drop (forth/base.fs:668, 1198, 1219).                             *)
(***************************************************************************)
IorTells == out.ior = 0 => ~out.bad /\ (out.unclosed => out.word \in Readers)

(***************************************************************************)
(* While words of a line of INCLUDE-FILE are still to be interpreted,      *)
(* (if-buf) holds that line.                                               *)
(***************************************************************************)
LineIntact ==
  \A i \in DOMAIN frames :
    frames[i].word = "include_file" /\ frames[i].at = 0 /\ frames[i].more =>
      ifbuf = <<frames[i].handle, frames[i].line>>
===========================================================================
