---------------------------- MODULE ReadAhead ----------------------------
(***************************************************************************)
(* The one read-ahead cache all file sources share (asm/fs.asm).  A fill   *)
(* takes several bytes from the kernel at once, so while a file is read    *)
(* the kernel's position is ahead of the interpreter's.  The cache is      *)
(* handed back (fs_flush seeks backwards) when another source becomes      *)
(* current, and thrown away when its file is closed.                       *)
(*                                                                         *)
(* A byte is the pair of its handle and its offset: the content of files   *)
(* plays no part, where each byte comes from is everything.                *)
(***************************************************************************)
EXTENDS Integers, Sequences

CONSTANTS
  Handles,    \* kernel file handles
  MaxLen,     \* bound: length of a file
  CacheSize,  \* bytes a fill asks for: 128
  MaxDepth,   \* levels of SAVE_INPUT_STACK
  Faults      \* those whose reads the card may fail

ASSUME ReadAheadAssumption ==
  /\ Handles \subseteq 1..8
  /\ MaxLen \in Nat
  /\ CacheSize \in Nat \ {0}
  /\ MaxDepth \in Nat
  /\ Faults \subseteq Handles

VARIABLES
  srcs,   \* SOURCE_ID of the suspended sources and, last, of the current one
  opn,    \* handles open in the kernel
  len,    \* length of the file behind each handle
  kpos,   \* the kernel's position in it
  cache,  \* the filled part of fs_cache; its length is fs_ccnt
  cpos,   \* fs_cpos: bytes of it consumed
  last    \* what the last step delivered, as in FileStream

vars == <<srcs, opn, len, kpos, cache, cpos, last>>

Console == 0
Eval == -1

Current == srcs[Len(srcs)]

Unread == Len(cache) - cpos

Bytes == Handles \X (0..MaxLen)

Init ==
  /\ srcs = <<Console>>
  /\ opn = {}
  /\ len = [h \in Handles |-> 0]
  /\ kpos = [h \in Handles |-> 0]
  /\ cache = <<>>
  /\ cpos = 0
  /\ last = <<>>

---------------------------------------------------------------------------

Dropped == cache' = <<>> /\ cpos' = 0

\* Mutant: the cache is emptied, the kernel's position stays ahead.
BugFlush == Dropped /\ kpos' = kpos

\* fs_flush: unread bytes of the current file are seeked back over; under
\* the keyboard or a string the cache is only dropped.
Flush ==
  /\ Dropped
  /\ kpos' = IF Current > 0 THEN [kpos EXCEPT ![Current] = @ - Unread] ELSE kpos

(* fs_getbyte, which REFILL calls for every character of a line.           *)

ServeByte ==
  /\ Current > 0
  /\ cpos < Len(cache)
  /\ last' = cache[cpos + 1]
  /\ cpos' = cpos + 1
  /\ UNCHANGED <<srcs, opn, len, kpos, cache>>

\* The cache is used up: n more bytes arrive, the first is served.
FillByte(n) ==
  /\ Current > 0
  /\ cpos = Len(cache)
  /\ n <= len[Current] - kpos[Current]
  /\ cache' = [i \in 1..n |-> <<Current, kpos[Current] + i - 1>>]
  /\ cpos' = 1
  /\ kpos' = [kpos EXCEPT ![Current] = @ + n]
  /\ last' = <<Current, kpos[Current]>>
  /\ UNCHANGED <<srcs, opn, len>>

\* Mutant: the count is zeroed, the offset of the next byte is not.
BugFillEnds ==
  /\ Current > 0
  /\ cpos = Len(cache)
  /\ kpos[Current] = len[Current] \/ Current \in Faults
  /\ cache' = <<>>
  /\ last' = <<Current>>
  /\ UNCHANGED <<srcs, opn, len, kpos, cpos>>

\* Nothing arrives: the end, or a failed read, which kern_fs_fill reports
\* the same way.
FileEnds ==
  /\ Current > 0
  /\ cpos = Len(cache)
  /\ kpos[Current] = len[Current] \/ Current \in Faults
  /\ Dropped
  /\ last' = <<Current>>
  /\ UNCHANGED <<srcs, opn, len, kpos>>

---------------------------------------------------------------------------
(* Sources come and go.                                                    *)

Forget(H) ==
  /\ opn' = opn \ H
  /\ len' = [h \in Handles |-> IF h \in H THEN 0 ELSE len[h]]

\* Mutant: the bytes of the closed file stay in the cache.
BugCloseKeepsCache ==
  /\ Len(srcs) > 1
  /\ srcs' = SubSeq(srcs, 1, Len(srcs) - 1)
  /\ Forget({Current})
  /\ kpos' = [h \in Handles |-> IF h = Current THEN 0 ELSE kpos[h]]
  /\ UNCHANGED <<cache, cpos>>
  /\ last' = <<>>

\* The source ended or an error unwinds it: the cache is discarded, the
\* handle closed, the parent current again.
CLOSE_INPUT_SOURCE ==
  /\ Len(srcs) > 1
  /\ srcs' = SubSeq(srcs, 1, Len(srcs) - 1)
  /\ Forget({Current})
  /\ kpos' = [h \in Handles |-> IF h = Current THEN 0 ELSE kpos[h]]
  /\ Dropped
  /\ last' = <<>>

\* quit_reset closes every handle and leaves the cache as it is.
QUIT ==
  /\ srcs' = <<Console>>
  /\ Forget(Handles)
  /\ kpos' = [h \in Handles |-> 0]
  /\ last' = <<>>
  /\ UNCHANGED <<cache, cpos>>

Push(source) ==
  /\ Len(srcs) <= MaxDepth
  /\ Flush
  /\ srcs' = Append(srcs, source)
  /\ last' = <<>>

\* The kernel puts a freshly opened file at its first byte.
INCLUDED(h, n) ==
  /\ h \notin opn
  /\ Push(h)
  /\ opn' = opn \cup {h}
  /\ len' = [len EXCEPT ![h] = n]

\* No such file, or no room for its lines: PUSH has flushed, POP undoes it.
IncludeFails ==
  /\ Len(srcs) <= MaxDepth
  /\ Flush
  /\ last' = <<>>
  /\ UNCHANGED <<srcs, opn, len>>

EVALUATE ==
  /\ Push(Eval)
  /\ UNCHANGED <<opn, len>>

\* CLOSE-SOURCE: (fs-flush), then the file is positioned at its end.
CloseSource ==
  /\ Current > 0
  /\ Dropped
  /\ kpos' = [kpos EXCEPT ![Current] = len[Current]]
  /\ last' = <<>>
  /\ UNCHANGED <<srcs, opn, len>>

---------------------------------------------------------------------------

Read ==
  \/ ServeByte
  \/ \E n \in 1..CacheSize : FillByte(n)
  \/ FileEnds

Switch ==
  \/ CLOSE_INPUT_SOURCE
  \/ QUIT
  \/ \E h \in Handles, n \in 0..MaxLen : INCLUDED(h, n)
  \/ IncludeFails
  \/ EVALUATE
  \/ CloseSource

Next == Read \/ Switch

Spec == Init /\ [][Next]_vars

---------------------------------------------------------------------------
(* Properties.                                                             *)

TypeOK ==
  /\ srcs \in Seq({Console, Eval} \cup Handles)
  /\ Len(srcs) \in 1..(MaxDepth + 1)
  /\ opn \subseteq Handles
  /\ len \in [Handles -> 0..MaxLen]
  /\ kpos \in [Handles -> 0..MaxLen]
  /\ cache \in Seq(Bytes)
  /\ Len(cache) <= CacheSize
  /\ cpos \in 0..Len(cache)
  /\ last \in {<<>>} \cup Bytes \cup {<<h>> : h \in Handles}

(***************************************************************************)
(* "bytes cached for one file are either seeked back or thrown away before *)
(* another file can read" (asm/fs.asm:68-72): whatever was abandoned in it *)
(* before, the unread part of the cache is what the current file has just  *)
(* before the kernel's position in it.                                     *)
(***************************************************************************)
CacheIsCurrent ==
  Current > 0 =>
    /\ Unread <= kpos[Current]
    /\ \A i \in (cpos + 1)..Len(cache) :
         cache[i] = <<Current, kpos[Current] - Len(cache) + i - 1>>

\* Every file source has a handle of its own, open until it is left.
SourcesOpen ==
  /\ \A i \in DOMAIN srcs : srcs[i] > 0 => srcs[i] \in opn
  /\ \A i, j \in DOMAIN srcs : srcs[i] > 0 /\ srcs[i] = srcs[j] => i = j
  /\ \A h \in Handles : kpos[h] <= len[h] /\ (h \notin opn => kpos[h] = 0 /\ len[h] = 0)

(***************************************************************************)
(* The cache is invisible: each file is read as if alone, straight from    *)
(* the kernel.  What a file has delivered is the kernel's position less    *)
(* what the cache still holds of it.                                       *)
(***************************************************************************)
Delivered == [h \in Handles |-> kpos[h] - (IF h = Current THEN Unread ELSE 0)]

FS == INSTANCE FileStream WITH rd <- Delivered

FilesReadInOrder == FS!Spec

==========================================================================
