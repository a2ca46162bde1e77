# X816 durexForth: a TLA+ model

X816 durexForth is a Forth for the 65816 (`asm/*.asm`, `forth/*.fs`).  One
processor runs one program; what makes it hard is what comes between its steps
(the break key, interrupts), what is nested (files, strings, CATCHes), what is
shared (one terminal input buffer, one read-ahead cache, one data stack, one
dictionary) and errors that leave all of it half done.  The repository also has
toacme (`acme/contrib/toacme/src/*.c`), the converter of other assemblers'
sources to the one durexForth is built with: a reader of files that nothing
vouches for, one byte of lookahead passed from function to function.  The modules here model
that control at the granularity of the code.  TLC checks small instances and
TLAPS proves the theorems listed below for every value of the constants.

## The system

| Part | State | Operations | Talks to | What must hold |
|---|---|---|---|---|
| Input sources (`io.asm`, `fs.asm`, `interpreter.asm`) | `SOURCE_ID`, `TIB_PTR/TOP/SIZE`, `>IN`, `SAVE_INPUT_STACK` (15 levels), kernel file handles | `REFILL`, `INCLUDED`, `EVALUATE`, `PUSH/POP_INPUT_SOURCE`, `CLOSE_INPUT_SOURCE`, `QUIT` | exceptions unwind it, the read-ahead cache feeds it | a suspended source's line survives; handles balance; a CATCH gets its source back |
| Source read-ahead (`fs.asm`) | `fs_cache`, `fs_ccnt`, `fs_cpos`, the kernel's file positions | `fs_getbyte`, `fs_flush`, `kern_fs_fill`, `kern_fs_seekback` | called by `REFILL`, `INCLUDED` and the closing of a source | every file is read in order although all share one cache |
| Dictionary (`compiler.asm`, `interpreter.asm`, `base.fs`, `wordlist.fs`, `extras.fs`) | headers growing down from `$feff`, `HERE` growing up through banks 1 to 4, `LATEST`, `PENDING_LATEST` | `:` `;` `CREATE` `ALLOT` `,` `SYNONYM` `MARKER` `HIDE` `FORGET` `FIND` | the interpreter checks room at line ends, errors abandon definitions | the search finds what was defined, nothing is compiled over it |
| Exceptions and break (`exception.asm`, `interpreter.asm`, `x816.asm`) | `HANDLER` and the frames on the CPU stack, `nmi_pending`, `brk_from_key`, the cursor | `CATCH`, `THROW`, `QUIT`, the waits of the prompt and of `KEY`, the BRK and NMI handlers | NMIs land between any two instructions | the handler chain is the CATCHes in progress; one press, one abort |
| Forth interrupts (`firq.asm`, `base.fs`) | `firq_xt`, `firq_w`, VERA's enables, the kernel's vectors | `IRQ`, `LINE-IRQ`, `SPRCOL-IRQ`, `AFLOW-IRQ`, `(irq!)`, the dispatcher's calls | runs on the stack of whatever it interrupts | the interrupted word ends as it would have |
| Control structure compiler (`control.asm`, `doloop.fs`, `labels.fs`) | branch operands, leave stack, label tables | `IF` `BEGIN` `DO` `LEAVE` `CASE` | compiles through the dictionary | branches are resolved to the places they name; loops end at the crossing |
| File words (`file.asm`, `base.fs`, `require.fs`) | kernel handle pools, `fs_name`, shared buffers | `OPEN-FILE` ... `RENAME-FILE`, directories, `INCLUDE-FILE`, `REQUIRE`, `BLOAD`, image saving | the kernel | an ior is the kernel's verdict; handles are given back on every path |
| Numbers (`math.asm`, `format.asm`, `interpreter.asm`, `base.fs`) | `BASE`, the hold area | multiplication, division, `#`, `READ_NUMBER`, dotted doubles, dates | the interpreter reads numbers, `.` prints them | answers are exact or refused; what is printed reads back |
| Ring buffers, envelopes (`advanced.fs`, `advsnd.fs`) | head and tail; per voice a stage, a volume and its envelope, VERA's port | `>RING` `RING>`, `ENV-START` `ENV-RELEASE` `ENV-STOP` `ENV-TICK` | a handler of a Forth interrupt puts, takes or ticks between any two steps | no lost byte, no stuck voice, no wrong volume |
| toacme (`main.c`, `version.c`, `io.c`, `ab.c` with `vis.c`, `ab3.c`, `f8ab.c`, `gighyp.c` with `hypra.c`, `giga.c`, `prof.c`, `obj.c`) | `GotByte`, `IO_reached_eof`, `padding_value`, the two streams, each converter's locals | `IO_get_byte` and the functions over it | the files of seven assemblers | what is taken for a line is one; what is opened is closed; it ends, whatever the file holds |
| Graphics, sound, floats, assembler tools | registers and tables | | | not modelled, see below |

Components, sources and modules are listed one by one in `PROJECT.json`, with
the hazards each is exposed to at the line where it bites.

## Modules

**InputSource** (`MCInputSource`, `InputSourceProofs`).  `cur` is the set of
globals `PUSH_INPUT_SOURCE` saves, `save` the stack, `handlers` the chain of
CATCH frames (of a source, from `interpret_and_close`, or of a word), `open`
the kernel's handles.  `RefillConsole/File/Eval`, `INCLUDED`, `EVALUATE`,
`SourceEnds`, `CLOSE_INPUT_SOURCE`, `QUIT`, `CATCH`, `Throw` and the unwinding
steps are the handlers of the code.  A line is its place and length in the TIB.

**FileStream**, **ReadAhead** (`MCReadAhead`, `ReadAheadProofs`).  FileStream is
the promise: a stream per file.  ReadAhead has the one cache, the kernel's
positions and the flush by a backward seek, and refines FileStream with
`rd[h]` read off the kernel position less what is unread in the cache.  Two
facts of the kernel are assumed: a seek back inside what was just read is not
refused, and a read of a file not at its end returns 1 to `CacheSize` bytes.
A read may fail at any time on the handles of `Faults`.

**Dictionary** (`MCDictionary`, `DictionaryProofs`).  Headers and code are at
their machine addresses; names are lengths, code is extents.  `vocab` is the
list of words whose header has been put into the search order; memory (`heads`,
`latest`) has to agree with it.  `struck` collects the words whose code, or the
built-in words' code, a header was written over.  `Throw` abandons a definition,
`LineEnds` is `interpret_tib`'s check, and `left` what a line may still add in
bank 1 before the next one.  SYNONYM makes its header first: `SynonymOfNothing`
is the one whose old name is not found, which stays in the search order.
`Habits` names what the documented use of the words leaves out: names above 31
characters, a `:NONAME` or a `;` after an abandoned definition, hiding a word
older than a live marker, FORGET of a SYNONYM, adding more than `LineBytes` in
bank 1 or running past a bank's end, and going on with definitions from banks 2
to 4 when the next header would land on bank 1's code ("crowd").  Each breaks an
invariant when it is allowed ("crowd" takes a fourth definition), and
`PROJECT.json` lists it as a hazard.  `LineBytes` is the one bound of these that
ordinary text can exceed: a line of one-letter words compiles up to 508 bytes.

**Break** (`MCBreak`, `BreakProofs`).  `mem` and `sp` are the cells CATCH owns on the CPU
stack, `pc` the steps of CATCH, THROW and QUIT at which the chain or a flag
changes, and those of the two waits for a key: REFILL's at the prompt
(`kern_getc`), which has the cursor and gives out a parked break, and that of
KEY (`kern_getin`), which has neither.  `NmiAborts` and `NmiParks` come between
any two of them.  An interrupt frame overwrites what is above `sp`.  `Windows` opens three places
where the key does harm: between R> and ! of the previous handler
("unlinked"), around the poll of kern_getc ("wait"), inside a Forth interrupt handler
("handler").

**Firq** (`MCFirq`).  The program runs one of six words, chosen for where each
keeps its values (W, W3, A, above the stack pointer, X borrowed, the interrupt
tables); `expect` is what the word's definition says it leaves.  An interrupt
may come between any two of their instructions; the handler pushes, drops and
computes in W and W3.  `Windows`: before a popped cell is read ("popped"), while
X is not the stack pointer ("borrowed"), between the two stores of an xt
("arming").

**Fifo**, **Ring**, **Envelopes**, **Background** (`MCFirq`, `BackgroundProofs`).
Fifo is what a ring promises.  Ring is `>RING` and `RING>` in the program, each
in two steps (the count, then the byte), and the same words as a whole in a
handler; one of the two puts, the other takes, with `ring#` kept below the
capacity as `advanced.fs:71` asks.  It refines Fifo with `Queue`: a byte is in
the queue from its storing to its fetching, so that a byte in flight belongs to
it although `head` and `tail` say otherwise.  Envelopes has the stores of
`env-start` one by one, the reads and writes of `(envw)` with VERA's port, and
`ENV_TICK` as a whole: interrupts do not nest.  Background composes them with
Firq: a behaviour is of one program (`running`), and a handler comes between its
steps.  Where a tick or a take breaks something is a window: the byte that is
counted and not stored ("unstored"), a voice in release restarted without an
attack between its volume and its stage ("stage"), the volume or the port read
before the tick and written after it ("volume", "port").  `ENV-TICK` leaves the
port at the last voice it wrote; `firq.asm:45` tells handlers to save it,
`advsnd.fs:15` arms this one as it is.

**FileWords** (`MCFileWords`, `FileWordsProofs`).  The words that open a file
for the program (`FILE-STATUS`, `BLOAD`, `BSAVE`, `VLOAD`, `VSAVE` and the
layer, sprite and palette words over them, `SAVE-IMAGE`, `HELP`, `DIR`, `LS`,
`INCLUDE-FILE`) differ in a table: what they open, the calls they make, whether
the data makes them loop, whether a failed call leads to the close, what the
answer is drawn from.  `frames` are those in progress, `pool` and `dirs` the
kernel's handles, `mine` the program's, `lost` those of words an exception
ended.  `card` tells the file as it was ("old"), a directory entry without all
data ("part"), what was asked to be written ("new") and no file.  `ktmp` is the
cell from which a failed FS-READ takes its answer.  `out` keeps apart a failed
call and a failed close: the ior of the latter may be dropped when the file was
only read.  `Faults` names the calls
that may fail.  Of the kernel it is assumed that a failed close frees the
handle all the same, that a failed create destroys nothing, that RENAME refuses
a name that exists and that programs do not create, delete or rename a file
they have open; of VSAVE, a length above 0; of programs, that they start afresh
after QUIT, which closes their files.  The handles INCLUDED takes from the same
pool are InputSource's.

**Arithmetic**, **Numerals** (`MCNumerals`, `ArithmeticProofs`).  Arithmetic is
the loops of UM* and UM/MOD, a turn a step, on cells of `Bits` bits, and the
signed words that dress their operands and answers; `given` and `asked` keep
what a loop and a word were called with.  Numerals divides by BASE to print,
multiplies by it to read, through the same steps.  A digit is its value; the
prefixes, the sign, the dot and the quote are the other characters.  BASE is at
least 2 (below, `#S` never ends) and fits a byte, which is all `READ_NUMBER`
compares; words are shorter than 256 characters, which it counts in a byte.

**SourceFiles**, **ToacmeIO**, **AssBlaster**, **GigaHypra**, **ProfAss**,
**ObjectCode**, **Toacme** (`MCToacme`, `ToacmeProofs`).
SourceFiles is
external: what the formats are, by the comments of toacme that describe them
(codes of a line, addressing modes, packed numbers, headers) and the layout of
BASIC programs.  Each byte has a role; `After` tells which may follow.  ToacmeIO is
`io.c`: a read takes one of the bytes that may come next, so TLC meets every
file; `sound` files follow `After`, others hold any bytes, and either may be
cut anywhere.  The other modules are the converters, a step from one
`IO_get_byte` to the next; of the output they keep the braces and strings that
are open.  Toacme is `main` and `version_main`.  `blocks` counts the macros and
conditionals that are open in the source.

## Runs

| Run | Shows | Bounds |
|---|---|---|
| `input_sources` | suspended lines are disjoint, handles balance, the pop of an empty stack is always followed by QUIT, CATCH and the end of a source give the parent back, an error ends at a CATCH or the prompt | region of 4 for 512, ceiling 3, lines of 0 or 2, strings of 1, one handle, two levels, two CATCHes: lines collide or leave the region at these proportions already at the second level |
| `tib_overflow` | two nested files with long lines leave the region, below the ceiling | as above |
| `read_ahead` | the cache is current; FileStream is implemented | fills of 3, files up to 5, two files, four levels: two fills, a partial one, and a flush in each |
| `dictionary` | the search order; no code and no header over the code of words that are found; definitions in one bank | three definitions, names of 1 and 31, pieces of 215 bytes, an ALLOT that can reach the end of bank 4, 1 KB left in bank 1 at the machine's addresses: three pieces come within a page of the headers, and the next `:` goes to bank 2 |
| `dict_stale_xt` | the word whose `:` changes the bank has an xt in the old bank | |
| `break` | the handler chain, one abort per press, the word printed, the cursor, the depth, delivery of a parked request | two CATCHes, two presses, one cell |
| `firq` | words end as if not interrupted; what runs was armed; the ring is a queue; other voices sound right at every tick, and fall silent | two slots, four cells, one cell of the handler; a ring of four with counters below 8: they wrap around while it is full; two voices with three envelopes: with and without attack, sustain that ends, holds, and release that holds |
| `firq_branch` | an interrupt in 0BRANCH decides the branch | |
| `file_words` | handles have one owner, files change when asked to, an ior of 0 means done and on the card, INCLUDE-FILE's line stays | two names, two file handles and one directory handle, two INCLUDE-FILEs, files of one line or piece; every call fails but those excluded below |
| `numbers` | loops and signed words give the exact answer or throw; printed numbers read back; a word is a number if a cell holds it, and BASE survives | cells of three bits with every operand and sign, bases 2, 3 and 7, words up to three characters, four of digits: a product of two digits and a sum of two cells overflow |
| `toacme` | lines, numbers, modes and text of a sound file are taken for what they are; strings, parentheses and braces pair up; labels of a disassembly are addresses; columns and reverse markers of Professional Ass stay; every conversion ends | all formats; of each the bytes its code tells apart; 11 bytes (20 for BASIC, which has a head of five and needs two lines for a block): two lines, every size of number, every header; one block deep |
| `file_read_ior` | BLOAD answers 0 though its read failed | the read of BLOAD only |

A violation run checks a sentence of the repository against the code; the
finding in `PROJECT.json` quotes it.  Every property of a passing run has a
mutant: the operator named `Bug...` beside the action it replaces.

With "unlinked" among the windows of `break`, `HandlersAreCatches` fails: the
abort's own interrupt frame overwrites the cell from which THROW restores
HANDLER.  The passing runs of Break and Background leave windows out, and of Dictionary habits.
They say what holds elsewhere; the windows are where it does not.  In Firq
that is not a small exception: "popped" is every IF, "borrowed" every kernel
call.

Three things are excluded from `file_words`, and listed as hazards: FS-DIRNEXT
failing (DIR and LS leave by EXIT and keep the handle, `base.fs:790`), the close
of BSAVE and VSAVE failing (its ior is dropped, and with it `IorTells` and
`CardIsAsTold` fail), and words after an
INCLUDE-FILE on its line (the inner file's lines take the shared `(if-buf)`).
Two handles are enough for one to be taken while another is given back and for
the pool to be empty; an operation that keeps a handle shows with one.

Two kinds of file are excluded from `toacme`'s sound ones, and listed as
hazards: AssBlaster 3 files with codes from $a8 to $c7, which the comment of
`ab.c:21` calls mnemonics and `ab3_conf` (`ab3.c:92`) does not, so that their
addressing mode is read as text; and Giga-Ass conditionals, whose `.IF` opens
no brace (`giga.c:35`).  `ConversionEnds` excepts `VisHangs`: VisAss's number
parser (`vis.c:12`) consumes nothing, so a file that is cut in an argument, or
has a byte above 127 there, turns `parse_unspecified` (`ab.c:312`) for ever.
Read and not part of the model: the end of the file where an addressing mode is
due makes it -1, which the bound test of `parse_mnemo` (`ab.c:366`) admits as an
index; `GigaHypra_operator` at the end of a line leaves the zero to be printed
and passed (`gighyp.c:89`), which only a file that breaks its format can show.

**Fairness.**  `ConversionEnds` assumes that the converter goes on: one process,
reading and writing files.  `UnwindEnds` assumes that an error under way and QUIT go on: one
processor runs this code.  `ParkedIsDelivered` assumes that the program goes on
even with interrupts coming (strong fairness, because each interrupt disables
it for a while) and that interrupt handlers end.  `VoicesEnd` assumes that a
word that was begun goes on, and that ticks come: VSYNC comes with every frame,
and the windows, which hold one up for a few instructions, are open in between
(strong fairness of `Ticks`).  It does not assume that the program starts
another voice or leaves this one alone, which the property has as its other
outcome.  None assumes anything of
the key, of files or of the user; that the program comes back to the prompt
for a key is the premise of `ParkedIsDelivered`.

**Said of the program and not so**, met on the way and not given a run of its
own.  The word KEY does not deliver a parked break
(`help/helpdoc/CONTROL.TXT:59-60`): it polls `kern_getin` (`io.asm:82`,
`x816.asm:194`), which never looks at `nmi_pending`; the next prompt does.  In
banks 2 to 4 `bank_headroom` does not look after the headers, which go on
growing down in bank 1 (`interpreter.asm:237-239`): there it compares HERE with
the end of its own bank only (`compiler.asm:214-217`).  SYNONYM does not keep an
xt of another bank than HERE's (`help/helpdoc/DEFINING.TXT:21`,
`base.fs:219`), and one that fails has made a word.  A `;` typed after an
abandoned definition makes that findable, for all that PENDING_LATEST was to
hide it (`compiler.asm:133-147`).

## Proofs

All leaves are checked by SMT, Zenon or PTL; no constant is bounded.

* `InputSourceProofs`: `TypeCorrect`; `UnderflowHarmless`, from
  `FramesMatchLevels` (frames of sources and of words mirror the save stack:
  without the level of every frame one cannot see that the only pop of an empty
  stack is that of the outermost source, which nothing catches);
  `SuspendedLinesSafe`, from `TibStacked` (each suspended source's line ends
  below its `TIB_TOP`, and whatever is nested in it starts there);
  `HandlesNeverLeak`, from `Accounted` (every handle has one owner: a level or
  the program); `SourcesComeBack`, from `FramesRemember` (the level a frame was
  made on is still as it was then, and the frames below a source's belong to
  lower levels, so that a close takes away no level another frame remembers);
  `ErrorsComeDown`: while an error unwinds every step drops a frame or leaves for
  a word's CATCH or, with no frame left, for QUIT (`UnwindShrinks`), whatever the
  depth: all that `UnwindEnds` takes but that the steps are made.
* `ReadAheadProofs`: `TypeCorrect`; `CacheNeverStale`; `CacheInvisible`, the
  refinement of FileStream.  The invariant says where in the sources stack the
  cache's handle may be: only the current source has unread bytes in it.
* `DictionaryProofs`: `SearchOrderKept` and `TypeCorrect`, for programs with no
  habits but "forgetalias" and "crowd" (assumption `Careful`).  `Inv` adds to `SearchOrder`
  that headers are packed (`Stacked`), that every header belongs to a known
  definition (`Known`), where a pending one may lie (`Pending`), that markers
  remember the end of a prefix of `vocab` (`Marked`), and that in bank 1 what the
  line may still add fits below the headers (`Roomed`): the page found at the end
  of the line before.  HIDE, which moves every newer header, is why the packing
  must be in the invariant.
  `CodeStaysInPlace`, for programs with no habit at all, adds `Place` (the code
  of a newer word begins where the older ones end, so that FORGET and a marker
  set HERE to the end of the words that stay), `AtHere` (the definition that
  grows ends at HERE and began in a bank with room) and `Begun` (all of it lies
  after the built-in words), from which no header strikes code.

* `FileWordsProofs`: `TypeCorrect`, `EveryHandleOwned`, provided FS-DIRNEXT does
  not fail (`DirsRead`).  The two are one induction: a write marks the pool's
  entry of the handle at the top of `frames`, and that it is an open one is in
  the accounts; that the accounts survive the end of a word needs that DIR, and
  only DIR, holds a directory (`FramesOK`).  On these rest `IorIsTrue` (assumption
  `Told`: the reads whose ior is the answer do not fail, and `Flushed`; after a
  failed call a word only closes, `Tells`), `LinesSurvive` (no INCLUDE-FILE before the end of
  its line; `Lasting`: one over another leaves it nothing to interpret) and
  `CardKeepsFaith` (assumption `Flushed`: BSAVE's and VSAVE's close does not fail;
  `Keeps`: a word's handle is its file's and has its data once the write went
  well, `Asked`: only a name somebody asked for is behind a handle that writes).
  `FramesMove` says once, for all of them, what a step does to each word.

* `ArithmeticProofs`: `CellsOnly`, `Exact`, `RightAnswers`, for cells of every
  width.  In
  UM/MOD's loop the low cell holds the unused bits of the dividend above the
  quotient so far, and dividend = (quotient * divisor + high cell) * 2^left +
  unused bits (`DivideState`); in UM*'s the product so far stands above what is
  left of the accumulator's old contents (`MultiplyState`).  The turns are
  lemmas of plain arithmetic.  `RightAnswers` adds `Asks`: what a loop was given
  is what the word's operands say (`Divides`, `Multiplies`), also in UD/MOD's
  second division.  `FlooredRight` shows that the divisor added to a negative
  high cell adds B to the quotient, which is the same cell; `SymmetricRight` and
  `ProductRight` do the same for signs put back.  Each says too that a dividend
  with an answer never reaches the exception.
  Of the conversions, for cells of every width, every BASE from 2 on and words
  of any length (in the code below 256): `NumeralsCompute` (they implement `ArithSpec`, so all of the
  above is about them too), `NumeralTypes`, `NumeralsRead`, `PrintedComesBack`.
  `NInv` adds to `Asks` what is asked of UM* and UD/MOD while a conversion waits
  (`Asking`); while printing, that the digits held, begun at what is left of the
  number, still come to the number (`Printing`); while reading, that `acc` is
  the value of the digits before `at`, times BASE once it has multiplied
  (`Reading`); and how the reading ended (`Ended`): as the numeral's cell, or as
  what (dnum) makes of the word.  A reading refused half way is right because
  further digits make no number smaller (`DigitsFit`); a dotted double is right
  because UD* and M+ carry exactly as long as the value fits (`DoubleRight`);
  `TakenApart` shows that a text is a numeral in at most one way, the one in
  which READ_NUMBER takes it apart.  Values of digits are recursive functions:
  `Induction` goes over the digits.  It is proved here from the
  well-foundedness of < (`WFMin`, which takes a set where the library's
  induction theorems take an operator), and `Recursion` and `StagesUnique` say
  that such a function exists and is the only one.

* `BreakProofs`: the five safety properties of Break, without the window
  "unlinked", and `BreakReported` without "wait" either.  As a CATCH owns two cells,
  `SpIs` can say at each step how far `sp` is from twice their number, and
  `FrameOf` where each keeps its depth and its link; the link of the innermost
  one is in `held` between the two steps that take and store it (`InHand`).
  What an interrupt's frame overwrites is above `sp`, hence above the chain,
  except there: `FramesKept` is where the window would be needed.  `Told` says
  that `brk_from_key` belongs to the exception under way.

* `BackgroundProofs`, of the program that shares a ring: `RingImplementsFifo`,
  for rings of every size and counters of every width that it divides, without
  the window "unstored".  `Place` says that
  the stretch from the oldest byte to the newest (`Stored`) is at most the
  ring, one less while a byte is counted and not stored, and that it may be all
  of the ring while the oldest is being fetched: the handler may then fill the
  place that `ring#` counts as free.  `Appended` and `Dropped` turn stretches of
  the ring into sequences; they rest on `OtherPlaces` (counts less than a ring
  apart have places of their own) and `WrapsAround`.
  Of the program that plays voices: `VoicesSoundRight`, without `EnvWindows`.
  `EnvInv` splits what a voice sounds like from how its bytes agree (`Heard`,
  `Loud`) and says what is left of either at each step for the one voice the
  program is at (`AtVoice`): from the store of the peak on, and inside `(envw)`,
  only one of them holds.  `Lowered` and `TickOf` are the tick of one voice.
  `SoundsFade` is what `VoicesEnd` takes but for the ticks to come: of a voice
  left alone each tick leaves fewer (`TicksLeft`, 384 at most).  It needs
  `RiseInv`: an attack with a step of 0, which no tick would end, is possible
  only between two stores of ENV-START, which makes it a sustain.
  Of the program of words: `WordsTransparent`, `HandlersAlwaysReached`, without
  `Windows`, and the ranges of all three, `BackgroundTypes`.  `Transparent` says
  nothing while a word runs or is interrupted, so `FirqInv` says, at each
  instruction of each word, what is still to come of its result, in terms of X,
  W and W3 as the word will find them again (`Depth`, `TrueW`, `TrueW3`: the
  registers, or the dispatcher's frame and firq_w).  `WordKept` is the heart: it
  holds through whatever leaves these and the cells below Depth alone, which is
  all that an interrupt, a handler's words and the return do.  `TablesInv` leaves
  out the slot an IRQ is at; `IrqInv` says how far that one is.

* `ToacmeProofs`: `TypeCorrect`, `LabelsRight`, `ColumnsRight`, `StringsRight`,
  for any bytes and any length of file.  `Inv` says what the locals of each
  converter are worth at each label: for the disassembler, by how much `pc` is
  behind while a handler reads (`ObjState`); for a Professional Ass line, that
  a column is owed exactly while the `+` is not made up for (`ProfState`); that
  a string is open only in `parse_quoted` (`AbState`).
  `SoundFilesStayInStep` and `SoundFilesClosePairs`, for sound files of any
  length, bytes and nesting, without the two kinds of file that the
  run excludes, too (assumption `Written`).  Neither property is inductive: that
  a line begins at `ab_line` depends on every byte before it.  `SoundInv` says at
  each label in which role GotByte was read and of which codes it can be
  (`AbSound`, `GhSound`, `ProfSound`, `HeadSound`), how deep the parentheses are
  (`GhParens`), and by how much the open blocks are ahead of the braces put out
  (`AbBraces`, `GhBraces`): one while a line's code, or the argument it opens a
  brace after, is still being read.  The lemmas `...Read` say what `After` lets
  follow a byte; `...Step` and `...Sound` take the functions one by one.

Assumptions on constants are those of the modules' ASSUMEs, `Careful`,
`DirsRead`, `Written`, `Told` and `Flushed` of FileWordsProofs, that `Habits` is
empty in CodeStaysInPlace and without "nested" in LinesSurvive, that
`RingWindows`, `EnvWindows` and `Windows` are empty in the theorems of
BackgroundProofs they concern, and what `Windows` of Break excludes.

Only model-checked: liveness (`UnwindEnds`, `ParkedIsDelivered`,
`ConversionEnds`, `VoicesEnd`).  Fairness and ENABLED are out of the prover's
reach, as are modules with RECURSIVE operators (there is none here).  Of
`UnwindEnds` and `VoicesEnd` it is proved, by `ErrorsComeDown` and `SoundsFade`,
that a natural number falls at every step they wait for.  Every
invariant and every refinement that a run checks is a theorem, too.

## Not modelled

Graphics, sprite, tile and palette words, FM and ADPCM (register writes, pixel
and table loops), floating point, assembler and disassembler tables, sources
that are neither assembled nor loaded (`PROJECT.json` lists them), text and
formatting.  The kernel is external: what is modelled of it is what the code
relies on.  Forth handlers that themselves arm, disarm or call the kernel, lines
above 255 bytes, and addresses of EVALUATEd strings are left for the plan.  Of
toacme, the tables (mnemonics, character sets, strings of ACME's syntax), the
comparison of file names and the failing of writes, which nothing tests.

Hazards known and not covered, beyond those in `PROJECT.json`: a Forth handler
that arms, disarms or divides changes KTMP or the operands kept in code
(`firq.asm:179`, `math.asm:237`); the key pressed in a handler abandons the kernel's
dispatcher (`interpreter.asm:62`); `0 IRQ` stops the frame count SLEEP waits for
(`base.fs:959`); a line above 255 bytes wraps REFILL's index (`io.asm:205`); +LOOP's
crossing test (`doloop.fs:71`); RESTORE-INPUT trusts a specification whose source
may be gone (`base.fs:721`).

## Plan

In order; each item names its abstract specification and the theorem meant.

1. **Requires**: REQUIRE, `(includes)`, MARKER and FORGET (MARKER restores the
   list, FORGET does not: it dangles); READ-LINE's bytes; the pool shared by
   FileWords and InputSource.
2. **ControlFlow**: IF/BEGIN/DO/CASE compile to branch operands and the leave
   stack; abstract: the structured program.  DO...+LOOP's crossing test against
   its definition at 2^w.
3. PCM streaming (`advsnd.fs`): a refill from the AFLOW interrupt that disarms
   itself, beside Ring and Envelopes.
4. **Calendar**: `civil>days` and back, `M*/`, against reference definitions
   over bounded inputs.
5. **InputSource**: SAVE-INPUT/RESTORE-INPUT, lines above 255 bytes.
6. **Parsing**: PARSE, WORD, INTERPRET's dispatch.
