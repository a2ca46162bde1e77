-------------------------------- MODULE Ring --------------------------------
(***************************************************************************)
(* A ring buffer (forth/mod/advanced.fs) between the program and a handler *)
(* of a Forth interrupt: the one puts, the other takes.  >RING and RING>   *)
(* count first and move the byte then; a handler runs as a whole between   *)
(* two steps of the program.                                               *)
(***************************************************************************)
EXTENDS Integers, Sequences

CONSTANTS
  RingSize,     \* the capacity, a power of two
  Counters,     \* a counter's values are 0..Counters-1 (2^32 in the code)
  RingBytes,    \* the bytes put
  RingWindows   \* "unstored": the handler takes a byte not stored yet

ASSUME RingAssumption ==
  /\ RingSize \in Nat \ {0} /\ Counters \in Nat \ {0} /\ Counters % RingSize = 0
  /\ RingSize < Counters
  /\ RingBytes \subseteq 0..255
  /\ RingWindows \subseteq {"unstored"}

VARIABLES
  head, tail,  \* bytes ever put, ever taken
  bytes,       \* the bytes of the ring
  producer,    \* who puts
  ringPc,      \* where the program is
  slot,        \* the count it has taken from head or tail
  byte,        \* what it puts
  taken        \* the byte taken last

ring == <<head, tail, bytes, producer, ringPc, slot, byte, taken>>

RingInit ==
  /\ head = 0 /\ tail = 0
  /\ bytes = [i \in 0..RingSize-1 |-> 0]
  /\ producer \in {"program", "handler"}
  /\ ringPc = "idle" /\ slot = 0 /\ byte = 0
  /\ taken = -1

RingCount == (head - tail) % Counters

\* "keep ring# below the capacity yourself".
Room == RingCount + 1 < RingSize

\* Mutant: the mask is one bit short.
BugRingAt(count) == count % (RingSize \div 2)
RingAt(count) == count % RingSize

Counted(count) == (count + 1) % Counters

---------------------------------------------------------------------------
(* The program.                                                            *)

\* >ring: head is incremented, the old one stays on the stack.
PutBegins ==
  /\ ringPc = "idle" /\ producer = "program" /\ Room
  /\ slot' = head /\ head' = Counted(head)
  /\ byte' \in RingBytes
  /\ ringPc' = "store"
  /\ UNCHANGED <<tail, bytes, producer, taken>>

PutStores ==
  /\ ringPc = "store"
  /\ bytes' = [bytes EXCEPT ![RingAt(slot)] = byte]
  /\ ringPc' = "idle" /\ slot' = 0 /\ byte' = 0
  /\ UNCHANGED <<head, tail, producer, taken>>

\* Mutant: the count is taken after it has been incremented.
BugTakeBegins ==
  /\ ringPc = "idle" /\ producer = "handler" /\ RingCount > 0
  /\ slot' = Counted(tail) /\ tail' = Counted(tail)
  /\ ringPc' = "fetch"
  /\ UNCHANGED <<head, bytes, producer, byte, taken>>

\* ring>
TakeBegins ==
  /\ ringPc = "idle" /\ producer = "handler" /\ RingCount > 0
  /\ slot' = tail /\ tail' = Counted(tail)
  /\ ringPc' = "fetch"
  /\ UNCHANGED <<head, bytes, producer, byte, taken>>

TakeFetches ==
  /\ ringPc = "fetch"
  /\ taken' = bytes[RingAt(slot)]
  /\ ringPc' = "idle" /\ slot' = 0
  /\ UNCHANGED <<head, tail, bytes, producer, byte>>

---------------------------------------------------------------------------
(* The handler.                                                            *)

HandlerPuts ==
  /\ producer = "handler" /\ Room
  /\ \E b \in RingBytes : bytes' = [bytes EXCEPT ![RingAt(head)] = b]
  /\ head' = Counted(head)
  /\ UNCHANGED <<tail, producer, ringPc, slot, byte, taken>>

\* The byte it would take may be the one the program has counted already.
Unstored == ringPc = "store" /\ RingCount = 1

HandlerTakes ==
  /\ producer = "program" /\ RingCount > 0
  /\ Unstored => "unstored" \in RingWindows
  /\ taken' = bytes[RingAt(tail)]
  /\ tail' = Counted(tail)
  /\ UNCHANGED <<head, bytes, producer, ringPc, slot, byte>>

RingNext ==
  PutBegins \/ PutStores \/ TakeBegins \/ TakeFetches \/ HandlerPuts \/ HandlerTakes

---------------------------------------------------------------------------
(* Properties.                                                             *)

RingTypeOK ==
  /\ head \in 0..Counters-1 /\ tail \in 0..Counters-1 /\ slot \in 0..Counters-1
  /\ bytes \in [0..RingSize-1 -> 0..255]
  /\ producer \in {"program", "handler"}
  /\ ringPc \in {"idle", "store", "fetch"}
  /\ byte \in 0..255 /\ taken \in -1..255

\* A byte is in the queue from its storing to its fetching.
Oldest == IF ringPc = "fetch" THEN slot ELSE tail
Newest == IF ringPc = "store" THEN slot ELSE head
Stretch(old, new, b) == [i \in 1..((new - old) % Counters) |-> b[RingAt(old + i - 1)]]
Queue == Stretch(Oldest, Newest, bytes)

F == INSTANCE Fifo WITH QueueBytes <- RingBytes, queue <- Queue, last <- taken

\* Nothing that an interrupt puts or takes between the counting and the
\* moving of a byte (advanced.fs:78-83) loses a byte, doubles one or changes
\* their order, when the counters have wrapped around and when the ring is as
\* full as may be.
RingIsFifo == F!FifoSpec
=============================================================================
