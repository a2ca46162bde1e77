---------------------------- MODULE Dictionary ----------------------------
(***************************************************************************)
(* The dictionary: headers grow down from the top of bank 1, code and data *)
(* grow up from HERE through banks 1 to 4 (asm/compiler.asm,               *)
(* asm/interpreter.asm; MARKER, :NONAME, SYNONYM, HIDE and FORGET from     *)
(* forth/base.fs, forth/wordlist.fs and forth/mod/extras.fs).              *)
(*                                                                         *)
(* Addresses and sizes are the machine's.  A header is the place, the name *)
(* length and the word it belongs to; a name is its length.  Code is an    *)
(* extent of flat addresses.  Two history variables record what the memory *)
(* has to agree with: vocab, the words that can be expected to be found,   *)
(* and struck, the words whose code a header was written over.             *)
(***************************************************************************)
EXTENDS Integers, Sequences

CONSTANTS
  Top,       \* LATEST as assembled: the header of the newest built-in word
  Start,     \* HERE when this program begins, flat, in bank 1
  NameLens,  \* lengths of the names programs define
  Pieces,    \* bytes one compiling word or `,` adds
  Allots,    \* bytes ALLOT reserves
  MaxWords,  \* bound: definitions
  MaxBody,   \* bound: bytes of one definition
  LineBytes, \* bytes of headers and code one line adds in bank 1
  Habits     \* what programs are allowed to do, see below

(***************************************************************************)
(* "overrun": add more than LineBytes in bank 1 before a line has ended,   *)
(* go on there after an overflow error, ALLOT what does not leave a page,  *)
(* or, but for a colon definition of up to 1 KB, go past the end of a      *)
(* bank; "longname": name a word with more than 31 characters;             *)
(* "semicolon": end a definition that an error has ended; "noname": start  *)
(* a :NONAME after such a definition; "crowd": from a higher bank, go on   *)
(* defining when the next header no longer fits above the code in bank 1;  *)
(* "hideold": HIDE a word older than a live marker; "forgetalias": FORGET  *)
(* a SYNONYM.                                                              *)
(***************************************************************************)
AllHabits == {"overrun", "longname", "semicolon", "noname", "crowd", "hideold", "forgetalias"}

BankSize == 65536

ASSUME DictionaryAssumption ==
  /\ Top \in BankSize..(2 * BankSize - 7)
  /\ Start \in BankSize..Top
  /\ NameLens \subseteq 1..255
  /\ Pieces \subseteq Nat
  /\ Allots \subseteq Nat
  /\ MaxWords \in Nat
  /\ MaxBody \in Nat
  /\ LineBytes \in 0..221     \* a page, less the longest header
  /\ Habits \subseteq AllHabits

VARIABLES
  here,       \* HERE_BANK and HERE_PTR
  latest,     \* LATEST_PTR, with the bank
  pending,    \* PENDING_LATEST, with the bank; 0 for none
  compiling,  \* STATE
  heads,      \* the headers in memory
  defs,       \* every definition started, oldest first
  marks,      \* the markers made
  left,       \* bytes that may be added in bank 1 before the line ends
  vocab,      \* history: headers of the words to be found, oldest first
  struck      \* history: words whose code a header was written over

vars == <<here, latest, pending, compiling, heads, defs, marks, left, vocab, struck>>

Bank(a) == a \div BankSize
Ptr(a) == a % BankSize

Size(n) == n + 4              \* length byte, name, three bytes of xt
Stride(n) == (n % 32) + 4     \* what FIND_NAME steps over: STRLEN_MASK

Built == [id |-> 0, at |-> Top, n |-> 3]

\* Mutant: only pointers that have crossed are an overflow.
BugClash == Bank(here) = 1 /\ latest < here

\* interpret_tib compares HERE with LATEST while HERE is in bank 1, and
\* throws when a page is not left.
Clash == Bank(here) = 1 /\ latest - here < 256

Room == IF Clash THEN 0 ELSE LineBytes

Init ==
  /\ here = Start
  /\ latest = Top
  /\ pending = 0
  /\ compiling = FALSE
  /\ heads = {Built}
  /\ defs = <<>>
  /\ marks = {}
  /\ left = Room
  /\ vocab = <<Built>>
  /\ struck = {}

Visible == {vocab[i].id : i \in DOMAIN vocab}

\* Two extents share a byte.
Overlap(lo1, hi1, lo2, hi2) == lo1 < hi1 /\ lo2 < hi2 /\ lo1 < hi2 /\ lo2 < hi1

---------------------------------------------------------------------------
(* HEADER: an entry below LATEST, with HERE as its xt; k bytes compiled    *)
(* right after it by the defining word.                                    *)

Entry(n) == [id |-> Len(defs) + 1, at |-> latest - Size(n), n |-> n]

Survive(H, lo, hi) == {h \in H : ~Overlap(h.at, h.at + Size(h.n), lo, hi)}

\* The words whose code a header of this size would be written over: a word
\* has the code of its definition, the built-in words all below Start.
Code(d) == IF d = 0 THEN [lo |-> BankSize, hi |-> Start, xt |-> BankSize] ELSE defs[d]

Struck(n) == {d \in Visible : Overlap(Entry(n).at, latest, Code(d).lo, Code(d).hi)}

\* In bank 1, headers and code use up what the line may add.
Spend(k) ==
  IF Bank(here) = 1
  THEN /\ k <= left \/ "overrun" \in Habits
       /\ left' = IF k <= left THEN left - k ELSE 0
  ELSE left' = LineBytes

\* Above it, code stays in its bank.
Within(k) == "overrun" \in Habits \/ Bank(here) = 1 \/ Ptr(here) + k < BankSize

WriteHeader(n, k) ==
  /\ heads' = Survive(Survive(heads, Entry(n).at, latest) \cup {Entry(n)}, here, here + k)
  /\ struck' = struck \cup Struck(n)
  /\ Spend(Size(n) + k)

\* Headers are taken to stay in bank 1, above its first byte.
CanDefine(n, k) ==
  /\ ~compiling
  /\ Len(defs) < MaxWords
  /\ Entry(n).at > BankSize
  /\ n <= 31 \/ "longname" \in Habits
  /\ Within(k)
  /\ Bank(here) = 1 \/ Struck(n) = {} \/ "crowd" \in Habits

\* HERE_PTR is 16 bits wide and wraps within its bank.
HereAfter(k) == Bank(here) * BankSize + Ptr(here + k)

Def(kind, n, xt, lo, k) ==
  [kind |-> kind, at |-> latest - Size(n), n |-> n, xt |-> xt, lo |-> lo, hi |-> lo + k]

(* `:` and `;`                                                             *)

\* bank_headroom: less than 1 KB up to the headers, or to the end of a
\* higher bank, and HERE goes to the next bank.
Roomy ==
  IF Bank(here) = 1 THEN latest - here >= 1024 ELSE Ptr(here) < 64512

NextBank == (Bank(here) + 1) * BankSize

\* Mutant: no limit at bank 4.
BugCOLON(n) ==
  /\ CanDefine(n, 0)
  /\ WriteHeader(n, 0)
  /\ pending' = latest - Size(n)
  /\ here' = IF Roomy THEN here ELSE NextBank
  /\ defs' = Append(defs, Def("colon", n, here, here', 0))
  /\ compiling' = TRUE
  /\ UNCHANGED <<latest, marks, vocab>>

COLON(n) ==
  /\ CanDefine(n, 0)
  /\ WriteHeader(n, 0)
  /\ pending' = latest - Size(n)
  /\ Roomy \/ Bank(here) < 4
  /\ here' = IF Roomy THEN here ELSE NextBank
  /\ defs' = Append(defs, Def("colon", n, here, here', 0))
  /\ compiling' = TRUE
  /\ UNCHANGED <<latest, marks, vocab>>

\* No bank left: -8 out of `:`, with the header written and pending.
ColonRefused(n) ==
  /\ CanDefine(n, 0)
  /\ WriteHeader(n, 0)
  /\ pending' = latest - Size(n)
  /\ ~Roomy /\ Bank(here) >= 4
  /\ defs' = Append(defs, Def("colon", n, here, here, 0))
  /\ UNCHANGED <<here, latest, compiling, marks, vocab>>

\* :NONAME has no header, and no headroom check either.
NONAME ==
  /\ ~compiling /\ Len(defs) < MaxWords
  /\ pending = 0 \/ "noname" \in Habits
  /\ defs' = Append(defs, Def("noname", 0, here, here, 0))
  /\ compiling' = TRUE
  /\ UNCHANGED <<here, latest, pending, heads, marks, left, vocab, struck>>

Newest == defs[Len(defs)]

EntryOf(d) == [id |-> d, at |-> defs[d].at, n |-> defs[d].n]

\* `;` asks no STATE: it takes into the dictionary whatever header is pending,
\* even one that an error left.  The rtl counts as a byte of the definition.
SEMICOLON ==
  /\ compiling \/ pending = 0 \/ "semicolon" \in Habits
  /\ latest' = IF pending # 0 THEN pending ELSE latest
  /\ pending' = 0
  /\ compiling' = FALSE
  /\ vocab' = IF compiling /\ Newest.kind = "colon"
               THEN Append(vocab, EntryOf(Len(defs)))
               ELSE vocab
  /\ UNCHANGED <<here, heads, defs, marks, left, struck>>

(* The comma family and ALLOT: bytes for the newest definition.            *)

Owned == defs # <<>> /\ (compiling \/ Len(defs) \in Visible)

ShortColon(k) ==
  compiling /\ Newest.kind = "colon" /\ Newest.hi - Newest.lo + k <= 1024 /\ Bank(here) > 1

Extend(k) == defs' = [defs EXCEPT ![Len(defs)].hi = here + k]

COMMA(k) ==
  /\ Owned
  /\ Newest.hi - Newest.lo + k <= MaxBody
  /\ ShortColon(k) \/ Within(k)
  /\ Spend(k)
  /\ heads' = Survive(heads, here, here + k)
  /\ here' = HereAfter(k)
  /\ Extend(k)
  /\ UNCHANGED <<latest, pending, compiling, marks, vocab, struck>>

\* `here + to here`: a flat address, from which bank and pointer follow.
ALLOT(k) ==
  /\ Owned /\ ~compiling
  /\ Newest.hi - Newest.lo <= MaxBody
  /\ here' = here + k
  /\ \/ "overrun" \in Habits
     \/ Bank(here) = 1 /\ here + k + 256 <= latest
     \/ Bank(here) > 1 /\ Bank(here + k) <= 4
  /\ Extend(k)
  /\ UNCHANGED <<latest, pending, compiling, heads, marks, left, vocab, struck>>

(* Words that make words, which FIND meets from then on.                   *)

Made(def) ==
  /\ latest' = latest - Size(def.n)
  /\ defs' = Append(defs, def)
  /\ vocab' = Append(vocab, Entry(def.n))
  /\ UNCHANGED <<pending, compiling>>

\* CREATE, VALUE, VARIABLE, CODE: HEADER and the code or data that follow.
CREATE(n, k) ==
  /\ CanDefine(n, k)
  /\ WriteHeader(n, k)
  /\ here' = HereAfter(k)
  /\ Made(Def("made", n, here, here, k))
  /\ UNCHANGED marks

\* SYNONYM: a header, and then the low 16 bits of the xt of the word in
\* place i.
SYNONYM(n, i) ==
  /\ CanDefine(n, 0)
  /\ WriteHeader(n, 0)
  /\ LET old == Code(vocab[i].id).xt
     IN  Made(Def("alias", n, Bank(here) * BankSize + Ptr(old), here, 0))
  /\ UNCHANGED <<here, marks>>

\* The header is there before the old name is looked up.  When that is not
\* found, or is the new name, it stays, with HERE as its xt.
SynonymOfNothing(n) ==
  /\ CanDefine(n, 0)
  /\ WriteHeader(n, 0)
  /\ Made(Def("stub", n, here, here, 0))
  /\ UNCHANGED <<here, marks>>

\* MARKER: a CREATEd word holding HERE and LATEST from before it, its
\* (includes) list and FAR-HERE in four cells.
MARKER(n) ==
  /\ CanDefine(n, 23)
  /\ WriteHeader(n, 23)
  /\ here' = HereAfter(23)
  /\ Made(Def("marker", n, here, here, 23))
  /\ marks' = marks \cup {[id |-> Len(defs) + 1, here |-> here, latest |-> latest]}

(* Words that forget words.                                                *)

\* The words older than the one in place i.
Older(i) == SubSeq(vocab, 1, i - 1)

Retreat(i, h, l) ==
  /\ here' = h
  /\ latest' = l
  /\ vocab' = Older(i)
  /\ left' = Room'

RunMarker(m, i) ==
  /\ ~compiling
  /\ vocab[i].id = m.id
  /\ Retreat(i, m.here, m.latest)
  /\ UNCHANGED <<pending, compiling, heads, defs, marks, struck>>

\* FORGET takes HERE from the word's xt and LATEST from past its header.
FORGET(i) ==
  /\ ~compiling
  /\ LET d == defs[vocab[i].id]
     IN  /\ d.kind # "alias" \/ "forgetalias" \in Habits
         /\ Retreat(i, d.xt, vocab[i].at + Stride(vocab[i].n))
  /\ UNCHANGED <<pending, compiling, heads, defs, marks, struck>>

Up(h, k) == [h EXCEPT !.at = @ + k]

\* HIDE moves the newer headers up over the hidden one.
Hide(i) ==
  /\ ~compiling
  /\ "hideold" \in Habits \/ \A j \in (i + 1)..Len(vocab) : defs[vocab[j].id].kind # "marker"
  /\ LET e == vocab[i]
         k == Stride(e.n)
         moved == {h \in heads : h.at >= latest /\ h.at + Size(h.n) <= e.at}
     IN  /\ heads' = Survive(heads, latest + k, e.at + k) \cup {Up(h, k) : h \in moved}
         /\ latest' = latest + k
         /\ vocab' = [j \in 1..(Len(vocab) - 1) |->
                        IF j < i THEN vocab[j] ELSE Up(vocab[j + 1], k)]
  /\ UNCHANGED <<here, pending, compiling, defs, marks, left, struck>>

(* The end of a line, and errors.                                          *)

\* The next line may add as much again, unless this one ended in the error.
LineEnds ==
  /\ compiling' = (compiling /\ ~Clash)
  /\ left' = Room
  /\ UNCHANGED <<here, latest, pending, heads, defs, marks, vocab, struck>>

\* Mutant: an error takes the unfinished word into the dictionary.
BugThrow ==
  /\ compiling
  /\ compiling' = FALSE
  /\ latest' = IF pending # 0 THEN pending ELSE latest
  /\ UNCHANGED <<here, pending, heads, defs, marks, left, vocab, struck>>

\* Any error inside a definition: QUIT leaves compile state, and nothing
\* else of the definition.
Throw ==
  /\ compiling
  /\ compiling' = FALSE
  /\ UNCHANGED <<here, latest, pending, heads, defs, marks, left, vocab, struck>>

---------------------------------------------------------------------------

Define ==
  \/ \E n \in NameLens :
       \/ COLON(n)
       \/ ColonRefused(n)
       \/ \E k \in Pieces : CREATE(n, k)
       \/ MARKER(n)
       \/ \E i \in DOMAIN vocab : SYNONYM(n, i)
       \/ SynonymOfNothing(n)
  \/ NONAME
  \/ SEMICOLON
  \/ \E k \in Pieces : COMMA(k)
  \/ \E k \in Allots : ALLOT(k)

Undefine ==
  \E i \in 2..Len(vocab) :
    \/ \E m \in marks : RunMarker(m, i)
    \/ FORGET(i)
    \/ Hide(i)

Next == Define \/ Undefine \/ LineEnds \/ Throw

Spec == Init /\ [][Next]_vars

---------------------------------------------------------------------------
(* Properties.                                                             *)

Headers == [id : Nat, at : Int, n : 0..255]

Addresses == {a \in Nat : Bank(a) \in 1..4}

Kinds == {"colon", "noname", "made", "alias", "stub", "marker"}

Definitions == [kind : Kinds, at : Int,
                n : 0..255, xt : Addresses, lo : Addresses, hi : Nat]

TypeOK ==
  /\ here \in Addresses
  /\ latest \in Int
  /\ pending \in Int
  /\ compiling \in BOOLEAN
  /\ heads \subseteq Headers
  /\ defs \in Seq(Definitions)
  /\ marks \subseteq [id : Nat, here : Addresses, latest : Int]
  /\ left \in 0..LineBytes
  /\ vocab \in Seq(Headers)
  /\ struck \subseteq Nat

(***************************************************************************)
(* FIND_NAME's walk from LATEST meets the words the programmer can expect  *)
(* to find, newest first, and nothing else: a word being compiled is not   *)
(* among them, a colon definition that failed never will be, forgotten and *)
(* hidden ones are gone (asm/interpreter.asm:498-529).  A SYNONYM that     *)
(* failed is to be expected: its header is in the list before it fails.    *)
(***************************************************************************)
SearchOrder ==
  /\ latest = vocab[Len(vocab)].at
  /\ \A i \in DOMAIN vocab : vocab[i] \in heads
  /\ \A i \in 2..Len(vocab) : vocab[i].at + Stride(vocab[i].n) = vocab[i - 1].at

(***************************************************************************)
(* Code and data of the words that can be found lie below HERE: no code    *)
(* compiled later is written over them.                                    *)
(***************************************************************************)
CodeBelowHere == \A d \in Visible : Code(d).hi <= here

(***************************************************************************)
(* Nor is a header, also one of a definition that failed later: in bank 1  *)
(* because a page was left when the line began, and from the higher banks  *)
(* only where the program sees to it ("crowd").                            *)
(***************************************************************************)
CodeSpared == Visible \cap struck = {}

(***************************************************************************)
(* "definitions never straddle; 1 KB max per definition"                   *)
(* (doc/STAGEC.md:41-43): a colon definition above bank 1 that keeps to    *)
(* the documented size is in one bank.                                     *)
(***************************************************************************)
NeverStraddles ==
  \A d \in DOMAIN defs :
    LET f == defs[d]
    IN  f.kind = "colon" /\ Bank(f.lo) > 1 /\ f.hi - f.lo <= 1024
          => f.hi <= (Bank(f.lo) + 1) * BankSize

\* However banks fill up and words are forgotten, the code of words that can
\* be found stays where it can run: neither code nor headers are written over
\* it, and it does not run across the end of a bank, where the program counter
\* wraps around (asm/compiler.asm:198-225, asm/interpreter.asm:235-249).
CodeInPlace == CodeBelowHere /\ CodeSpared /\ NeverStraddles

(***************************************************************************)
(* HEADER records where the word begins: FIND's xt is the address the      *)
(* definition is compiled at (asm/compiler.asm:284-294, 191-194).          *)
(***************************************************************************)
XtIsCode ==
  \A i \in 2..Len(vocab) :
    LET d == defs[vocab[i].id] IN d.kind = "colon" => d.xt = d.lo

==========================================================================
