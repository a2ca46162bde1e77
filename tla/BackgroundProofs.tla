--------------------------- MODULE BackgroundProofs ---------------------------
(***************************************************************************)
(* Rings, envelopes and words with a handler behind the program: for rings *)
(* of any size, any voices and envelopes, stacks of any depth.             *)
(***************************************************************************)
EXTENDS Background, SequenceTheorems, TLAPS

USE RingAssumption

Count == 0..Counters-1

---------------------------------------------------------------------------
(* Rings: counting modulo Counters, and modulo the size.                   *)

LEMMA OneQuotient ==
  ASSUME NEW m \in Nat \ {0}, NEW q \in Int, NEW r \in 0..m-1, NEW p \in Int, NEW t \in 0..m-1,
         m * q + r = m * p + t
  PROVE  r = t
<1>. DEFINE d == q - p
<1>1. d \in Int /\ m * d = t - r
  OBVIOUS
<1>2. CASE d >= 1
  <2>1. m * d >= m  BY <1>2, <1>1
  <2>. QED BY <1>1, <2>1
<1>3. CASE d <= -1
  <2>1. m * d <= -m  BY <1>3, <1>1
  <2>. QED BY <1>1, <2>1
<1>. QED BY <1>1, <1>2, <1>3

LEMMA Differences ==
  ASSUME NEW a \in Count, NEW b \in Count
  PROVE  ((a - b) % Counters) = IF a >= b THEN a - b ELSE a - b + Counters
<1>. DEFINE d == a - b
            r == d % Counters
            q == d \div Counters
            t == IF a >= b THEN d ELSE d + Counters
            p == IF a >= b THEN 0 ELSE -1
<1>1. d \in Int /\ d > -Counters /\ d < Counters /\ (a >= b <=> d >= 0)  BY DEF Count
<1>2. q \in Int /\ r \in 0..Counters-1 /\ d = Counters * q + r  BY <1>1
<1>3. p \in Int /\ t \in 0..Counters-1 /\ d = Counters * p + t  BY <1>1
<1>. HIDE DEF d, r, q, t, p
<1>4. r = t  BY <1>2, <1>3, OneQuotient
<1>. QED BY <1>4 DEF r, t, d

LEMMA CountedIs ==
  ASSUME NEW a \in Count
  PROVE  Counted(a) = IF a + 1 = Counters THEN 0 ELSE a + 1
BY DEF Counted, Count

LEMMA Divided ==
  ASSUME NEW a \in Nat
  PROVE  \E q \in Nat : a = RingSize * q + RingAt(a) /\ RingAt(a) \in 0..RingSize-1
<1>. WITNESS a \div RingSize \in Nat
<1>. QED BY DEF RingAt

LEMMA WrapsAround ==
  ASSUME NEW a \in Nat
  PROVE  RingAt(a + Counters) = RingAt(a)
<1>1. PICK k \in Nat : Counters = RingSize * k
  OBVIOUS
<1>2. PICK q \in Nat : a = RingSize * q + RingAt(a) /\ RingAt(a) \in 0..RingSize-1
  BY Divided
<1>3. PICK p \in Nat : a + Counters = RingSize * p + RingAt(a + Counters)
                         /\ RingAt(a + Counters) \in 0..RingSize-1
  <2>1. a + Counters \in Nat  OBVIOUS
  <2>. QED BY <2>1, Divided
<1>4. a + Counters = RingSize * (q + k) + RingAt(a)  BY <1>1, <1>2
<1>5. q + k \in Int /\ p \in Int  OBVIOUS
<1>6. RingSize * (q + k) + RingAt(a) = RingSize * p + RingAt(a + Counters)  BY <1>3, <1>4
<1>. QED BY <1>2, <1>3, <1>5, <1>6, OneQuotient

LEMMA OtherPlaces ==
  ASSUME NEW a \in Nat, NEW b \in Nat, a < b, b < a + RingSize
  PROVE  RingAt(a) # RingAt(b)
<1>1. PICK q \in Nat : a = RingSize * q + RingAt(a) /\ RingAt(a) \in 0..RingSize-1
  BY Divided
<1>2. PICK p \in Nat : b = RingSize * p + RingAt(b) /\ RingAt(b) \in 0..RingSize-1
  BY Divided
<1>3. SUFFICES ASSUME RingAt(a) = RingAt(b) PROVE FALSE  OBVIOUS
<1>. DEFINE d == p - q
<1>4. d \in Int /\ RingSize * d = b - a  BY <1>1, <1>2, <1>3
<1>5. d >= 1 => RingSize * d >= RingSize  BY <1>4
<1>6. d <= 0 => RingSize * d <= 0  BY <1>4
<1>. QED BY <1>4, <1>5, <1>6

---------------------------------------------------------------------------
(* Stretches of the ring as sequences.                                     *)

RingOfBytes == [0..RingSize-1 -> 0..255]

LEMMA StretchIs ==
  ASSUME NEW o \in Count, NEW n \in Count, NEW b \in RingOfBytes
  PROVE  LET len == (n - o) % Counters
         IN  /\ len \in Count
             /\ Stretch(o, n, b) \in Seq(0..255)
             /\ Len(Stretch(o, n, b)) = len
             /\ \A i \in 1..len : Stretch(o, n, b)[i] = b[RingAt(o + i - 1)]
<1>. DEFINE len == (n - o) % Counters
<1>1. len \in Count  BY Differences DEF Count
<1>2. \A i \in 1..len : b[RingAt(o + i - 1)] \in 0..255
  <2>. TAKE i \in 1..len
  <2>1. o + i - 1 \in Nat  BY <1>1 DEF Count
  <2>2. RingAt(o + i - 1) \in 0..RingSize-1  BY <2>1, Divided
  <2>. QED BY <2>2 DEF RingOfBytes
<1>. HIDE DEF len
<1>3. Stretch(o, n, b) = [i \in 1..len |-> b[RingAt(o + i - 1)]]  BY DEF Stretch, len
<1>4. len \in Nat  BY <1>1 DEF Count
<1>5. [i \in 1..len |-> b[RingAt(o + i - 1)]] \in Seq(0..255)
  <2>. DEFINE g(i) == b[RingAt(o + i - 1)]
  <2>1. \A i \in 1..len : g(i) \in 0..255  BY <1>2
  <2>. HIDE DEF g
  <2>2. [i \in 1..len |-> g(i)] \in [1..len -> 0..255]  BY <2>1
  <2>3. [i \in 1..len |-> g(i)] \in Seq(0..255)  BY <1>4, <2>2
  <2>. QED BY <2>3 DEF g
<1>6. Len([i \in 1..len |-> b[RingAt(o + i - 1)]]) = len
  <2>. DEFINE g(i) == b[RingAt(o + i - 1)]
  <2>. HIDE DEF g
  <2>1. Len([i \in 1..len |-> g(i)]) = len  BY <1>4
  <2>. QED BY <2>1 DEF g
<1>7. \A i \in 1..len : Stretch(o, n, b)[i] = b[RingAt(o + i - 1)]  BY <1>3
<1>. QED BY <1>1, <1>3, <1>5, <1>6, <1>7 DEF len

\* The place of the newest count, from the oldest.
LEMMA PlaceOf ==
  ASSUME NEW o \in Count, NEW n \in Count
  PROVE  RingAt(o + ((n - o) % Counters)) = RingAt(n)
<1>. DEFINE len == (n - o) % Counters
<1>3. len = IF n >= o THEN n - o ELSE n - o + Counters  BY Differences
<1>4. o \in Nat /\ n \in Nat  BY DEF Count
<1>. HIDE DEF len
<1>1. CASE n >= o
  <2>1. o + len = n  BY <1>1, <1>3, <1>4
  <2>. QED BY <2>1 DEF len
<1>2. CASE n < o
  <2>1. o + len = n + Counters  BY <1>2, <1>3, <1>4
  <2>2. RingAt(o + len) = RingAt(n)  BY <1>4, <2>1, WrapsAround
  <2>. QED BY <2>2 DEF len
<1>. QED BY <1>1, <1>2, <1>4

\* The oldest byte goes.
LEMMA Dropped ==
  ASSUME NEW o \in Count, NEW n \in Count, NEW b \in RingOfBytes, (n - o) % Counters > 0
  PROVE  /\ Stretch(o, n, b) # <<>> /\ Head(Stretch(o, n, b)) = b[RingAt(o)]
         /\ Stretch(Counted(o), n, b) = Tail(Stretch(o, n, b))
         /\ (n - Counted(o)) % Counters = ((n - o) % Counters) - 1
<1>. DEFINE len == (n - o) % Counters
            next == Counted(o)
            s == Stretch(o, n, b)
            t == Stretch(next, n, b)
<1>1. next \in Count /\ next = IF o + 1 = Counters THEN 0 ELSE o + 1  BY CountedIs DEF Count
<1>2. (n - next) % Counters = len - 1
  <2>1. len = IF n >= o THEN n - o ELSE n - o + Counters  BY Differences
  <2>2. (n - next) % Counters = IF n >= next THEN n - next ELSE n - next + Counters
    BY <1>1, Differences
  <2>. HIDE DEF len, next
  <2>3. len > 0  BY DEF len
  <2>. QED BY <1>1, <2>1, <2>2, <2>3 DEF Count
<1>3. /\ len \in Count /\ s \in Seq(0..255) /\ Len(s) = len
      /\ \A i \in 1..len : s[i] = b[RingAt(o + i - 1)]
  BY StretchIs
<1>4. /\ t \in Seq(0..255) /\ Len(t) = len - 1
      /\ \A i \in 1..len-1 : t[i] = b[RingAt(next + i - 1)]
  BY <1>1, <1>2, StretchIs
<1>5. \A i \in Nat \ {0} : RingAt(next + i - 1) = RingAt(o + (i + 1) - 1)
  <2>. TAKE i \in Nat \ {0}
  <2>1. CASE o + 1 = Counters
    <3>1. next + i - 1 = i - 1 /\ o + (i + 1) - 1 = (i - 1) + Counters /\ i - 1 \in Nat
      BY <1>1, <2>1 DEF Count
    <3>. QED BY <3>1, WrapsAround
  <2>2. CASE o + 1 # Counters
    <3>1. next + i - 1 = o + (i + 1) - 1  BY <1>1, <2>2 DEF Count
    <3>. QED BY <3>1
  <2>. QED BY <2>1, <2>2
<1>6. len > 0 /\ o + 1 - 1 = o  BY DEF Count
<1>. HIDE DEF len, next, s, t
<1>7. s # <<>> /\ Head(s) = b[RingAt(o)]
  <2>1. s[1] = b[RingAt(o)]  BY <1>3, <1>6 DEF Count
  <2>. QED BY <1>3, <1>6, <2>1
<1>8. t = Tail(s)
  <2>1. Tail(s) \in Seq(0..255) /\ Len(Tail(s)) = len - 1  BY <1>3, <1>6
  <2>2. \A i \in 1..len-1 : t[i] = Tail(s)[i]
    <3>. TAKE i \in 1..len-1
    <3>1. Tail(s)[i] = s[i + 1] /\ i + 1 \in 1..len /\ i \in Nat \ {0}
      BY <1>3, <1>6 DEF Count
    <3>2. t[i] = b[RingAt(next + i - 1)] /\ s[i + 1] = b[RingAt(o + (i + 1) - 1)]
      BY <1>3, <1>4, <3>1
    <3>3. RingAt(next + i - 1) = RingAt(o + (i + 1) - 1)  BY <1>5, <3>1
    <3>. QED BY <3>1, <3>2, <3>3
  <2>3. Len(t) = Len(Tail(s)) /\ \A i \in 1..Len(t) : t[i] = Tail(s)[i]  BY <1>4, <2>1, <2>2
  <2>. QED BY <1>4, <2>1, <2>3, SeqEqual
<1>. QED BY <1>2, <1>7, <1>8 DEF len, next, s, t

\* A byte is put at the newest place.
LEMMA Appended ==
  ASSUME NEW o \in Count, NEW n \in Count, NEW b \in RingOfBytes, NEW c \in 0..255,
         (n - o) % Counters < RingSize
  PROVE  LET put == [b EXCEPT ![RingAt(n)] = c]
         IN  /\ Stretch(o, Counted(n), put) = Append(Stretch(o, n, b), c)
             /\ (Counted(n) - o) % Counters = ((n - o) % Counters) + 1
             /\ put \in RingOfBytes
<1>. DEFINE len == (n - o) % Counters
            next == Counted(n)
            put == [b EXCEPT ![RingAt(n)] = c]
            s == Stretch(o, n, b)
            t == Stretch(o, next, put)
<1>1. next \in Count /\ next = IF n + 1 = Counters THEN 0 ELSE n + 1  BY CountedIs DEF Count
<1>2. (next - o) % Counters = len + 1
  <2>1. len = IF n >= o THEN n - o ELSE n - o + Counters  BY Differences
  <2>2. (next - o) % Counters = IF next >= o THEN next - o ELSE next - o + Counters
    BY <1>1, Differences
  <2>3. len < RingSize  OBVIOUS
  <2>. HIDE DEF len, next
  <2>. QED BY <1>1, <2>1, <2>2, <2>3 DEF Count
<1>3. n \in Nat /\ RingAt(n) \in 0..RingSize-1
  <2>1. n \in Nat  BY DEF Count
  <2>. QED BY <2>1, Divided
<1>4. put \in RingOfBytes /\ put[RingAt(n)] = c /\ \A p \in 0..RingSize-1 : p # RingAt(n) => put[p] = b[p]
  BY <1>3 DEF RingOfBytes
<1>5. /\ len \in Count /\ s \in Seq(0..255) /\ Len(s) = len
      /\ \A i \in 1..len : s[i] = b[RingAt(o + i - 1)]
  BY StretchIs
<1>6. /\ t \in Seq(0..255) /\ Len(t) = len + 1
      /\ \A i \in 1..len+1 : t[i] = put[RingAt(o + i - 1)]
  <2>. HIDE DEF put, next, len
  <2>1. next \in Count /\ put \in RingOfBytes  BY <1>1, <1>4
  <2>. QED BY <1>2, <2>1, StretchIs
<1>7. RingAt(o + ((n - o) % Counters)) = RingAt(n)  BY PlaceOf
<1>8. (n - o) % Counters < RingSize  OBVIOUS
<1>12. RingAt(o + len) = RingAt(n) /\ len < RingSize  BY <1>7, <1>8 DEF len
<1>. HIDE DEF len, next, put, s, t
<1>9. \A i \in 1..len : t[i] = s[i]
  <2>. TAKE i \in 1..len
  <2>1. /\ o + i - 1 \in Nat /\ o + len \in Nat
        /\ o + i - 1 < o + len /\ o + len < (o + i - 1) + RingSize
    BY <1>5, <1>12 DEF Count
  <2>2. RingAt(o + i - 1) # RingAt(n)  BY <1>12, <2>1, OtherPlaces
  <2>3. RingAt(o + i - 1) \in 0..RingSize-1  BY <2>1, Divided
  <2>4. i \in 1..len+1  BY <1>5 DEF Count
  <2>. QED BY <1>4, <1>5, <1>6, <2>2, <2>3, <2>4
<1>10. t[len + 1] = c
  <2>1. len + 1 \in 1..len+1 /\ o + (len + 1) - 1 = o + len  BY <1>5 DEF Count
  <2>. QED BY <1>4, <1>6, <1>12, <2>1
<1>11. t = Append(s, c)
  <2>1. /\ Append(s, c) \in Seq(0..255) /\ Len(Append(s, c)) = len + 1
        /\ \A i \in 1..len : Append(s, c)[i] = s[i]
        /\ Append(s, c)[len + 1] = c
    BY <1>5 DEF Count
  <2>2. \A i \in 1..len+1 : t[i] = Append(s, c)[i]
    <3>. TAKE i \in 1..len+1
    <3>1. i \in 1..len \/ i = len + 1  BY <1>5 DEF Count
    <3>. QED BY <1>9, <1>10, <2>1, <3>1
  <2>3. Len(t) = Len(Append(s, c)) /\ \A i \in 1..Len(t) : t[i] = Append(s, c)[i]
    BY <1>6, <2>1, <2>2
  <2>. QED BY <1>6, <2>1, <2>3, SeqEqual
<1>. QED BY <1>2, <1>4, <1>11 DEF len, next, put, s, t

\* What counting does to the count.
LEMMA OneMore ==
  ASSUME NEW o \in Count, NEW n \in Count, (n - o) % Counters < RingSize
  PROVE  /\ Counted(n) \in Count
         /\ (Counted(n) - o) % Counters = ((n - o) % Counters) + 1
<1>1. Counted(n) \in Count  BY CountedIs DEF Count
<1>2. PICK b : b \in RingOfBytes
  <2>. WITNESS [i \in 0..RingSize-1 |-> 0]
  <2>. QED BY DEF RingOfBytes
<1>3. (Counted(n) - o) % Counters = ((n - o) % Counters) + 1
  <2>1. 0 \in 0..255  OBVIOUS
  <2>. QED BY <1>2, <2>1, Appended
<1>. QED BY <1>1, <1>3

LEMMA OneLess ==
  ASSUME NEW o \in Count, NEW n \in Count, (n - o) % Counters > 0
  PROVE  /\ Counted(o) \in Count
         /\ (n - Counted(o)) % Counters = ((n - o) % Counters) - 1
<1>1. Counted(o) \in Count  BY CountedIs DEF Count
<1>2. PICK b : b \in RingOfBytes
  <2>. WITNESS [i \in 0..RingSize-1 |-> 0]
  <2>. QED BY DEF RingOfBytes
<1>. QED BY <1>1, <1>2, Dropped

---------------------------------------------------------------------------
(* The invariant: the bytes of the queue have a place each, and the byte   *)
(* that the program has counted and not moved is the next or the oldest.   *)

Stored == (Newest - Oldest) % Counters

Place ==
  /\ ringPc = "idle" => Stored <= RingSize - 1
  /\ ringPc = "store" => /\ producer = "program" /\ head = Counted(slot)
                         /\ Stored <= RingSize - 2 /\ byte \in RingBytes
  /\ ringPc = "fetch" => /\ producer = "handler" /\ tail = Counted(slot)
                         /\ Stored > 0 /\ Stored <= RingSize

RingInv == RingTypeOK /\ Place

\* The queue, where the program is.
LEMMA InThe ==
  /\ ringPc = "idle" => /\ Queue = Stretch(tail, head, bytes)
                        /\ Stored = (head - tail) % Counters
  /\ ringPc = "store" => /\ Queue = Stretch(tail, slot, bytes)
                         /\ Stored = (slot - tail) % Counters
  /\ ringPc = "fetch" => /\ Queue = Stretch(slot, head, bytes)
                         /\ Stored = (head - slot) % Counters
BY DEF Queue, Stored, Oldest, Newest

\* The same after a step.
LEMMA InTheNext ==
  /\ ringPc' = "idle" => /\ Queue' = Stretch(tail', head', bytes')
                         /\ Stored' = (head' - tail') % Counters
  /\ ringPc' = "store" => /\ Queue' = Stretch(tail', slot', bytes')
                          /\ Stored' = (slot' - tail') % Counters
  /\ ringPc' = "fetch" => /\ Queue' = Stretch(slot', head', bytes')
                          /\ Stored' = (head' - slot') % Counters
BY DEF Queue, Stored, Oldest, Newest, Stretch, RingAt

Typed ==
  /\ head \in Count /\ tail \in Count /\ slot \in Count /\ bytes \in RingOfBytes
  /\ byte \in 0..255 /\ taken \in -1..255

LEMMA TypedIs == RingTypeOK => Typed
BY DEF RingTypeOK, Typed, Count, RingOfBytes

LEMMA InitInv == RingInit => RingInv
<1>. SUFFICES ASSUME RingInit PROVE RingInv  OBVIOUS
<1>1. RingTypeOK
  <2>1. 0 \in 0..Counters-1 /\ 0 \in 0..255 /\ -1 \in -1..255  OBVIOUS
  <2>2. bytes \in [0..RingSize-1 -> 0..255]  BY <2>1 DEF RingInit
  <2>. QED BY <2>1, <2>2 DEF RingInit, RingTypeOK
<1>2. Stored = 0
  <2>1. 0 \in Count  BY DEF Count
  <2>2. (0 - 0) % Counters = 0  BY <2>1, Differences
  <2>. QED BY <2>2, InThe DEF RingInit
<1>3. Place  BY <1>2 DEF RingInit, Place
<1>. QED BY <1>1, <1>3 DEF RingInv

LEMMA PutBeginsStep ==
  ASSUME RingInv, PutBegins
  PROVE  RingInv' /\ Queue' = Queue /\ taken' = taken
<1>1. Typed  BY TypedIs DEF RingInv
<1>2. Counted(head) \in Count  BY <1>1, CountedIs DEF Typed, Count
<1>3. RingTypeOK'  BY <1>1, <1>2 DEF Typed, RingInv, RingTypeOK, PutBegins, Count
<1>4. Queue' = Queue /\ Stored' = Stored
  BY InThe, InTheNext DEF PutBegins
<1>5. Stored = RingCount  BY InThe DEF PutBegins, RingCount
<1>6. Stored \in Int /\ Stored <= RingSize - 2
  <2>1. RingCount \in Count  BY <1>1, Differences DEF RingCount, Typed, Count
  <2>. QED BY <1>5, <2>1 DEF PutBegins, Room, Count
<1>7. Place'  BY <1>4, <1>6 DEF Place, PutBegins
<1>. QED BY <1>3, <1>4, <1>7 DEF RingInv, PutBegins

LEMMA PutStoresStep ==
  ASSUME RingInv, PutStores
  PROVE  RingInv' /\ F!Put
<1>1. Typed /\ Place /\ ringPc = "store"  BY TypedIs DEF RingInv, PutStores
<1>2. /\ Queue = Stretch(tail, slot, bytes) /\ Stored = (slot - tail) % Counters
      /\ head = Counted(slot) /\ Stored <= RingSize - 2 /\ byte \in RingBytes
  BY <1>1, InThe DEF Place
<1>3. /\ Queue' = Stretch(tail, Counted(slot), bytes')
      /\ Stored' = (Counted(slot) - tail) % Counters
  BY <1>2, InTheNext DEF PutStores
<1>4. Stored \in Int /\ Stored < RingSize
  <2>1. (slot - tail) % Counters \in Count  BY <1>1, Differences DEF Typed, Count
  <2>. QED BY <1>2, <2>1 DEF Count
<1>5. /\ Queue' = Append(Queue, byte) /\ Stored' = Stored + 1
      /\ bytes' \in RingOfBytes
  <2>1. /\ tail \in Count /\ slot \in Count /\ bytes \in RingOfBytes /\ byte \in 0..255
        /\ (slot - tail) % Counters < RingSize
    BY <1>1, <1>2, <1>4 DEF Typed
  <2>. DEFINE put == [bytes EXCEPT ![RingAt(slot)] = byte]
  <2>2. /\ Stretch(tail, Counted(slot), put) = Append(Stretch(tail, slot, bytes), byte)
        /\ (Counted(slot) - tail) % Counters = ((slot - tail) % Counters) + 1
        /\ put \in RingOfBytes
    BY <2>1, Appended
  <2>3. bytes' = put  BY DEF PutStores
  <2>. HIDE DEF put
  <2>. QED BY <1>2, <1>3, <2>2, <2>3
<1>6. RingTypeOK'
  <2>1. 0 \in 0..Counters-1 /\ 0 \in 0..255  OBVIOUS
  <2>. QED BY <1>5, <2>1 DEF RingInv, RingTypeOK, PutStores, RingOfBytes
<1>7. Place'  BY <1>2, <1>4, <1>5 DEF Place, PutStores
<1>8. F!Put  BY <1>2, <1>5 DEF F!Put, PutStores
<1>. QED BY <1>6, <1>7, <1>8 DEF RingInv

LEMMA TakeBeginsStep ==
  ASSUME RingInv, TakeBegins
  PROVE  RingInv' /\ Queue' = Queue /\ taken' = taken
<1>1. Typed  BY TypedIs DEF RingInv
<1>2. Counted(tail) \in Count  BY <1>1, CountedIs DEF Typed, Count
<1>3. RingTypeOK'  BY <1>1, <1>2 DEF Typed, RingInv, RingTypeOK, TakeBegins, Count
<1>4. Queue' = Queue /\ Stored' = Stored
  BY InThe, InTheNext DEF TakeBegins
<1>5. Stored = RingCount  BY InThe DEF TakeBegins, RingCount
<1>6. Stored \in Int /\ Stored > 0 /\ Stored <= RingSize
  <2>1. RingCount \in Count  BY <1>1, Differences DEF RingCount, Typed, Count
  <2>2. Stored <= RingSize - 1  BY DEF RingInv, Place, TakeBegins
  <2>. QED BY <1>5, <2>1, <2>2 DEF TakeBegins, Count
<1>7. Place'  BY <1>4, <1>6 DEF Place, TakeBegins
<1>. QED BY <1>3, <1>4, <1>7 DEF RingInv, TakeBegins

LEMMA TakeFetchesStep ==
  ASSUME RingInv, TakeFetches
  PROVE  RingInv' /\ F!Take
<1>1. Typed /\ Place /\ ringPc = "fetch"  BY TypedIs DEF RingInv, TakeFetches
<1>2. /\ Queue = Stretch(slot, head, bytes) /\ Stored = (head - slot) % Counters
      /\ tail = Counted(slot) /\ Stored > 0 /\ Stored <= RingSize
  BY <1>1, InThe DEF Place
<1>3. Queue' = Stretch(Counted(slot), head, bytes) /\ Stored' = (head - Counted(slot)) % Counters
  BY <1>2, InTheNext DEF TakeFetches
<1>4. /\ Queue # <<>> /\ Head(Queue) = bytes[RingAt(slot)]
      /\ Queue' = Tail(Queue) /\ Stored' = Stored - 1
  BY <1>1, <1>2, <1>3, Dropped DEF Typed
<1>5. Stored \in Int
  <2>1. (head - slot) % Counters \in Count  BY <1>1, Differences DEF Typed, Count
  <2>. QED BY <1>2, <2>1 DEF Count
<1>6. taken' \in -1..255
  <2>1. slot \in Nat  BY <1>1 DEF Typed, Count
  <2>2. RingAt(slot) \in 0..RingSize-1  BY <2>1, Divided
  <2>3. bytes[RingAt(slot)] \in 0..255  BY <1>1, <2>2 DEF Typed, RingOfBytes
  <2>. QED BY <2>3 DEF TakeFetches
<1>7. RingTypeOK'
  <2>1. 0 \in 0..Counters-1  OBVIOUS
  <2>. QED BY <1>6, <2>1 DEF RingInv, RingTypeOK, TakeFetches
<1>8. Place'  BY <1>2, <1>4, <1>5 DEF Place, TakeFetches
<1>9. F!Take  BY <1>4 DEF F!Take, TakeFetches
<1>. QED BY <1>7, <1>8, <1>9 DEF RingInv

LEMMA HandlerPutsStep ==
  ASSUME RingInv, HandlerPuts
  PROVE  RingInv' /\ F!Put
<1>1. Typed /\ Place  BY TypedIs DEF RingInv
<1>2. ringPc = "idle" \/ ringPc = "fetch"
  BY <1>1 DEF RingInv, RingTypeOK, Place, HandlerPuts
<1>. DEFINE o == Oldest
<1>3. o \in Count  BY <1>1 DEF Typed, Oldest
<1>4. Queue = Stretch(o, head, bytes) /\ Stored = (head - o) % Counters
  BY <1>2, InThe DEF Oldest
<1>5. /\ Queue' = Stretch(o, Counted(head), bytes')
      /\ Stored' = (Counted(head) - o) % Counters
  BY <1>2, InTheNext DEF HandlerPuts, Oldest
<1>6. PICK b \in RingBytes : bytes' = [bytes EXCEPT ![RingAt(head)] = b]
  BY DEF HandlerPuts
<1>. HIDE DEF o
<1>7. RingCount \in Int /\ RingCount <= RingSize - 2
  <2>1. RingCount \in Count  BY <1>1, Differences DEF RingCount, Typed, Count
  <2>. QED BY <2>1 DEF HandlerPuts, Room, Count
<1>8. Stored \in Int /\ Stored <= RingSize - 1 /\ (ringPc = "idle" => Stored <= RingSize - 2)
  <2>1. CASE ringPc = "idle"
    <3>1. Stored = RingCount  BY <2>1, InThe DEF RingCount
    <3>. QED BY <1>7, <3>1
  <2>2. CASE ringPc = "fetch"
    <3>1. Stored = (head - slot) % Counters /\ tail = Counted(slot) /\ Stored > 0
      BY <1>1, <2>2, InThe DEF Place
    <3>2. (head - Counted(slot)) % Counters = Stored - 1
      BY <1>1, <3>1, OneLess DEF Typed
    <3>3. RingCount = Stored - 1  BY <3>1, <3>2 DEF RingCount
    <3>4. Stored \in Int
      <4>1. (head - slot) % Counters \in Count  BY <1>1, Differences DEF Typed, Count
      <4>. QED BY <3>1, <4>1 DEF Count
    <3>. QED BY <1>7, <2>2, <3>3, <3>4
  <2>. QED BY <1>2, <2>1, <2>2
<1>9. /\ Queue' = Append(Queue, b) /\ Stored' = Stored + 1
      /\ bytes' \in RingOfBytes
  <2>1. /\ head \in Count /\ bytes \in RingOfBytes /\ b \in 0..255
        /\ (head - o) % Counters < RingSize
    BY <1>1, <1>4, <1>8 DEF Typed
  <2>. DEFINE put == [bytes EXCEPT ![RingAt(head)] = b]
  <2>2. /\ Stretch(o, Counted(head), put) = Append(Stretch(o, head, bytes), b)
        /\ (Counted(head) - o) % Counters = ((head - o) % Counters) + 1
        /\ put \in RingOfBytes
    BY <1>3, <2>1, Appended
  <2>3. bytes' = put  BY <1>6
  <2>. HIDE DEF put
  <2>. QED BY <1>4, <1>5, <2>2, <2>3
<1>10. RingTypeOK'
  <2>1. Counted(head) \in 0..Counters-1  BY <1>1, CountedIs DEF Typed, Count
  <2>. QED BY <1>9, <2>1 DEF RingInv, RingTypeOK, HandlerPuts, RingOfBytes
<1>11. Place'
  <2>1. Stored > 0 => Stored' > 0  BY <1>8, <1>9
  <2>2. ringPc = "idle" => Stored' <= RingSize - 1  BY <1>8, <1>9
  <2>3. Stored' <= RingSize  BY <1>8, <1>9
  <2>. QED BY <1>1, <1>2, <2>1, <2>2, <2>3 DEF Place, HandlerPuts
<1>12. F!Put  BY <1>9 DEF F!Put, HandlerPuts
<1>. QED BY <1>10, <1>11, <1>12 DEF RingInv

LEMMA HandlerTakesStep ==
  ASSUME RingWindows = {}, RingInv, HandlerTakes
  PROVE  RingInv' /\ F!Take
<1>1. Typed /\ Place  BY TypedIs DEF RingInv
<1>2. ringPc = "idle" \/ ringPc = "store"
  BY <1>1 DEF RingInv, RingTypeOK, Place, HandlerTakes
<1>. DEFINE n == Newest
<1>3. n \in Count  BY <1>1 DEF Typed, Newest
<1>4. Queue = Stretch(tail, n, bytes) /\ Stored = (n - tail) % Counters
  BY <1>2, InThe DEF Newest
<1>5. /\ Queue' = Stretch(Counted(tail), n, bytes)
      /\ Stored' = (n - Counted(tail)) % Counters
  BY <1>2, InTheNext DEF HandlerTakes, Newest
<1>. HIDE DEF n
<1>6. Stored \in Int
  <2>1. (n - tail) % Counters \in Count  BY <1>1, <1>3, Differences DEF Typed, Count
  <2>. QED BY <1>4, <2>1 DEF Count
<1>7. Stored > 0
  <2>1. CASE ringPc = "idle"
    <3>1. Stored = RingCount  BY <2>1, InThe DEF RingCount
    <3>. QED BY <3>1 DEF HandlerTakes
  <2>2. CASE ringPc = "store"
    <3>1. Stored = (slot - tail) % Counters /\ head = Counted(slot) /\ Stored < RingSize
      <4>1. Stored = (slot - tail) % Counters /\ head = Counted(slot) /\ Stored <= RingSize - 2
        BY <1>1, <2>2, InThe DEF Place
      <4>. QED BY <1>6, <4>1
    <3>2. (Counted(slot) - tail) % Counters = Stored + 1
      BY <1>1, <3>1, OneMore DEF Typed
    <3>3. RingCount = Stored + 1  BY <3>1, <3>2 DEF RingCount
    <3>4. RingCount > 0 /\ RingCount # 1  BY <2>2 DEF HandlerTakes, Unstored
    <3>. QED BY <1>6, <3>3, <3>4
  <2>. QED BY <1>2, <2>1, <2>2
<1>8. /\ Queue # <<>> /\ Head(Queue) = bytes[RingAt(tail)]
      /\ Queue' = Tail(Queue) /\ Stored' = Stored - 1
  BY <1>1, <1>3, <1>4, <1>5, <1>7, Dropped DEF Typed
<1>9. RingTypeOK'
  <2>1. Counted(tail) \in 0..Counters-1  BY <1>1, CountedIs DEF Typed, Count
  <2>2. tail \in Nat  BY <1>1 DEF Typed, Count
  <2>3. RingAt(tail) \in 0..RingSize-1  BY <2>2, Divided
  <2>4. bytes[RingAt(tail)] \in 0..255  BY <1>1, <2>3 DEF Typed, RingOfBytes
  <2>. QED BY <2>1, <2>4 DEF RingInv, RingTypeOK, HandlerTakes
<1>10. Place'
  <2>1. ringPc = "idle" => Stored' <= RingSize - 1  BY <1>1, <1>6, <1>8 DEF Place
  <2>2. ringPc = "store" => Stored' <= RingSize - 2  BY <1>1, <1>6, <1>8 DEF Place
  <2>. QED BY <1>1, <1>2, <2>1, <2>2 DEF Place, HandlerTakes
<1>11. F!Take  BY <1>8 DEF F!Take, HandlerTakes
<1>. QED BY <1>9, <1>10, <1>11 DEF RingInv

---------------------------------------------------------------------------
(* The theorem.                                                            *)

LEMMA RingStep ==
  ASSUME RingWindows = {}, RingInv, [RingNext]_ring
  PROVE  RingInv' /\ [F!Put \/ F!Take]_<<Queue, taken>>
<1>1. CASE PutBegins  BY <1>1, PutBeginsStep
<1>2. CASE PutStores  BY <1>2, PutStoresStep
<1>3. CASE TakeBegins  BY <1>3, TakeBeginsStep
<1>4. CASE TakeFetches  BY <1>4, TakeFetchesStep
<1>5. CASE HandlerPuts  BY <1>5, HandlerPutsStep
<1>6. CASE HandlerTakes  BY <1>6, HandlerTakesStep
<1>7. CASE UNCHANGED ring
  <2>1. RingInv'
    BY <1>7 DEF ring, RingInv, RingTypeOK, Place, Stored, Newest, Oldest
  <2>2. Queue' = Queue /\ taken' = taken
    BY <1>7 DEF ring, Queue, Stretch, Newest, Oldest, RingAt
  <2>. QED BY <2>1, <2>2
<1>. QED BY <1>1, <1>2, <1>3, <1>4, <1>5, <1>6, <1>7 DEF RingNext

\* Whatever a handler puts or takes between the steps of >RING and RING>, for
\* every size of the ring and every width of its counters, the bytes come out
\* once and in their order; but for the window in which a byte is counted and
\* not stored yet.
THEOREM RingImplementsFifo ==
  ASSUME RingWindows = {}
  PROVE  BackgroundSpec => RingIsFifo
<1>1. RingInit => RingInv /\ F!FifoInit
  <2>. SUFFICES ASSUME RingInit PROVE RingInv /\ F!FifoInit  OBVIOUS
  <2>1. Queue = <<>>
    <3>1. 0 \in Count  BY DEF Count
    <3>2. (0 - 0) % Counters = 0  BY <3>1, Differences
    <3>3. Queue = Stretch(0, 0, bytes)  BY InThe DEF RingInit
    <3>4. bytes \in RingOfBytes  BY InitInv DEF RingInv, RingTypeOK, RingOfBytes
    <3>5. Queue \in Seq(0..255) /\ Len(Queue) = 0  BY <3>1, <3>2, <3>3, <3>4, StretchIs
    <3>. QED BY <3>5
  <2>. QED BY <2>1, InitInv DEF RingInit, F!FifoInit
<1>2. RingInv /\ [RingNext]_ring => RingInv' /\ [F!Put \/ F!Take]_<<Queue, taken>>
  BY RingStep
<1>3. BackgroundInit => RingInit  BY DEF BackgroundInit
<1>4. [BackgroundNext]_all => [RingNext]_ring
  BY DEF BackgroundNext, Interrupted, Shares, Plays, Ticks, all
<1>. QED BY <1>1, <1>2, <1>3, <1>4, PTL DEF BackgroundSpec, RingIsFifo, F!FifoSpec
---------------------------------------------------------------------------
(* Voices: what holds of one the program is not at, and what is left of    *)
(* that at each step of the program's.                                     *)

HIDE RingAssumption

Heard(v) == psg[v] = [pan |-> v, vol |-> vol[v]]

Loud(v) ==
  /\ vol[v] <= pk[v]
  /\ stg[v] = 2 => vol[v] = pk[v]
  /\ stg[v] = 0 => vol[v] = 0

\* Before its peak is stored, and before ENV-RELEASE stores the stage.
Untouched == {"rst", "sus", "sct", "ast", "pk", "release"}

\* In (envw).
Writing == {"peek", "pan", "mix", "poke", "data"}

AtVoice ==
  /\ envPc \in Untouched => Heard(voice) /\ Loud(voice)
  /\ envPc = "stg" => vol[voice] <= pk[voice] /\ (shape.astep = 0 => vol[voice] = pk[voice])
  /\ envPc = "stop" => stg[voice] = 0
  /\ envPc \in Writing => Loud(voice)
  /\ envPc \in {"pan", "data"} => port = voice
  /\ envPc \in {"mix", "poke", "data"} => got.pan = voice
  /\ envPc \in {"poke", "data"} => got.vol = vol[voice]

EnvInv ==
  /\ EnvTypeOK
  /\ envPc # "idle" => voice \in Voices
  /\ \A v \in Voices : psg[v].pan = v
  /\ \A v \in Voices \ {voice} : Heard(v) /\ Loud(v)
  /\ AtVoice

LEMMA VoicesAre == Voices \subseteq Int /\ -1 \notin Voices /\ \A v \in Voices : v \in 0..15
BY EnvAssumption

LEMMA ShapesAre ==
  ASSUME NEW s \in Shapes \cup {NoShape}
  PROVE  s.peak \in 0..63 /\ s.astep \in 0..255 /\ s.sus \in 0..255 /\ s.rstep \in 0..255
<1>1. CASE s \in Shapes  BY <1>1, EnvAssumption
<1>2. CASE s = NoShape  BY <1>2 DEF NoShape
<1>. QED BY <1>1, <1>2

LEMMA EnvInitInv == EnvInit => EnvInv
<1>. SUFFICES ASSUME EnvInit PROVE EnvInv  OBVIOUS
<1>1. EnvTypeOK
  BY VoicesAre DEF EnvInit, EnvTypeOK, Silent, NoShape
<1>2. \A v \in Voices : Heard(v) /\ Loud(v) /\ psg[v].pan = v
  BY DEF EnvInit, Heard, Loud, Silent
<1>3. AtVoice  BY DEF EnvInit, AtVoice, Untouched, Writing
<1>. QED BY <1>1, <1>2, <1>3 DEF EnvInv, EnvInit

LEMMA Leasts ==
  ASSUME NEW d \in Nat, NEW c \in 0..63
  PROVE  /\ Least(d, c) \in 0..63 /\ Least(d, c) <= c
         /\ d >= c => Least(d, c) = c
BY DEF Least

LEMMA Lowered ==
  ASSUME NEW a \in 0..63, NEW b \in 0..255
  PROVE  /\ (IF a > b THEN a - b ELSE 0) \in 0..63
         /\ (IF a > b THEN a - b ELSE 0) <= a
OBVIOUS

\* What a tick does to one voice.
LEMMA TickOf ==
  ASSUME EnvInv, ENV_TICK, NEW v \in Voices
  PROVE  /\ stg'[v] \in 0..3 /\ vol'[v] \in 0..63 /\ sct'[v] \in 0..255
         /\ \/ psg'[v] = [psg[v] EXCEPT !.vol = vol'[v]]
            \/ psg'[v] = psg[v] /\ vol'[v] = vol[v]
         /\ vol[v] <= pk[v] => vol'[v] <= pk[v]
         /\ Loud(v) => vol'[v] <= pk[v] /\ (stg'[v] = 2 => vol'[v] = pk[v]) /\ (stg'[v] = 0 => vol'[v] = 0)
         /\ vol[v] = pk[v] /\ stg[v] # 3 => vol'[v] = pk[v]
         /\ stg[v] = 0 => stg'[v] = 0
<1>1. /\ stg[v] \in 0..3 /\ vol[v] \in 0..63 /\ pk[v] \in 0..63 /\ ast[v] \in 0..255
      /\ rst[v] \in 0..255 /\ sus[v] \in 0..255 /\ sct[v] \in 0..255
  BY DEF EnvInv, EnvTypeOK
<1>2. stg'[v] = Ticked(v).stg /\ vol'[v] = Ticked(v).vol /\ sct'[v] = Ticked(v).sct
  BY DEF ENV_TICK
<1>3. psg'[v] = IF v \in Written THEN [psg[v] EXCEPT !.vol = vol'[v]] ELSE psg[v]
  BY DEF ENV_TICK
<1>4. CASE stg[v] = 1
  <2>1. Ticked(v) = Attacked(v)  BY <1>4 DEF Ticked
  <2>2. v \in Written  BY <1>4 DEF Written
  <2>. DEFINE up == Least(vol[v] + ast[v], pk[v])
  <2>3. /\ up \in 0..63 /\ up <= pk[v]
        /\ vol[v] = pk[v] => up = pk[v]
    <3>. DEFINE d == vol[v] + ast[v]
    <3>1. d \in Nat /\ (vol[v] = pk[v] => d >= pk[v])
      <4>1. \A a \in 0..63, b \in 0..255 : a + b \in Nat /\ a + b >= a
        OBVIOUS
      <4>2. d \in Nat /\ d >= vol[v]  BY <1>1, <4>1
      <4>. HIDE DEF d
      <4>. QED BY <4>2
    <3>. HIDE DEF d
    <3>2. /\ Least(d, pk[v]) \in 0..63 /\ Least(d, pk[v]) <= pk[v]
          /\ d >= pk[v] => Least(d, pk[v]) = pk[v]
      BY <1>1, <3>1, Leasts
    <3>. QED BY <3>1, <3>2 DEF d
  <2>. HIDE DEF up
  <2>4. /\ vol'[v] = up
        /\ \/ stg'[v] = 2 /\ up = pk[v] /\ sct'[v] = sus[v]
           \/ stg'[v] = 1 /\ sct'[v] = sct[v]
    BY <1>2, <2>1 DEF Attacked, up
  <2>5. psg'[v] = [psg[v] EXCEPT !.vol = vol'[v]]  BY <1>3, <2>2
  <2>. QED BY <1>1, <1>4, <2>3, <2>4, <2>5
<1>5. CASE stg[v] = 2
  <2>1. Ticked(v) = Sustained(v)  BY <1>5 DEF Ticked
  <2>2. v \notin Written  BY <1>5 DEF Written
  <2>. QED BY <1>1, <1>2, <1>3, <1>5, <2>1, <2>2 DEF Sustained, Loud, Hold
<1>6. CASE stg[v] = 3 /\ rst[v] # 0
  <2>1. Ticked(v) = Released(v)  BY <1>6 DEF Ticked
  <2>2. v \in Written  BY <1>6 DEF Written
  <2>. DEFINE down == IF vol[v] > rst[v] THEN vol[v] - rst[v] ELSE 0
  <2>3. down \in 0..63 /\ down <= vol[v]  BY <1>1, Lowered
  <2>. HIDE DEF down
  <2>4. /\ vol'[v] = down /\ sct'[v] = sct[v]
        /\ (stg'[v] = 0 /\ down = 0) \/ stg'[v] = 3
    BY <1>2, <1>6, <2>1 DEF Released, down
  <2>5. psg'[v] = [psg[v] EXCEPT !.vol = vol'[v]]  BY <1>3, <2>2
  <2>6. vol[v] <= pk[v] => down <= pk[v]  BY <1>1, <2>3
  <2>. QED BY <1>1, <1>6, <2>3, <2>4, <2>5, <2>6 DEF Loud
<1>7. CASE stg[v] = 0 \/ (stg[v] = 3 /\ rst[v] = 0)
  <2>1. Ticked(v) = [stg |-> stg[v], vol |-> vol[v], sct |-> sct[v]]  BY <1>7 DEF Ticked
  <2>2. v \notin Written  BY <1>7 DEF Written
  <2>. QED BY <1>1, <1>2, <1>3, <1>7, <2>1, <2>2 DEF Loud
<1>. QED BY <1>1, <1>4, <1>5, <1>6, <1>7

LEMMA TickStep ==
  ASSUME EnvWindows = {}, EnvInv, ENV_TICK
  PROVE  EnvInv'
<1>1. /\ envPc' = envPc /\ voice' = voice /\ shape' = shape /\ got' = got
      /\ pk' = pk /\ ast' = ast /\ rst' = rst /\ sus' = sus
  BY DEF ENV_TICK
<1>2. /\ envPc \notin {"poke", "data", "pan"}
      /\ ~(envPc = "stg" /\ shape.astep = 0 /\ stg[voice] = 3)
  BY DEF ENV_TICK, MayTick, InEnvWindow
<1>3. /\ stg' \in [Voices -> 0..3] /\ vol' \in [Voices -> 0..63] /\ sct' \in [Voices -> 0..255]
  <2>1. /\ stg' = [v \in Voices |-> Ticked(v).stg] /\ vol' = [v \in Voices |-> Ticked(v).vol]
        /\ sct' = [v \in Voices |-> Ticked(v).sct]
    BY DEF ENV_TICK
  <2>2. \A v \in Voices : Ticked(v).stg \in 0..3 /\ Ticked(v).vol \in 0..63 /\ Ticked(v).sct \in 0..255
    <3>. TAKE v \in Voices
    <3>1. /\ stg'[v] \in 0..3 /\ vol'[v] \in 0..63 /\ sct'[v] \in 0..255
          /\ stg[v] = 0 => stg'[v] = 0
      BY TickOf, Zenon
    <3>2. /\ stg'[v] = Ticked(v).stg /\ vol'[v] = Ticked(v).vol
          /\ sct'[v] = Ticked(v).sct
      BY <2>1
    <3>. QED BY <3>1, <3>2
  <2>. QED BY <2>1, <2>2
<1>4. \A v \in Voices : psg[v] \in [pan : Voices, vol : 0..63] /\ psg[v].pan = v
  BY DEF EnvInv, EnvTypeOK
<1>5. \A v \in Voices : psg'[v] \in [pan : Voices, vol : 0..63] /\ psg'[v].pan = v
  <2>. TAKE v \in Voices
  <2>1. psg'[v] = [psg[v] EXCEPT !.vol = vol'[v]] \/ psg'[v] = psg[v]  BY TickOf
  <2>. QED BY <1>3, <1>4, <2>1
<1>6. psg' \in [Voices -> [pan : Voices, vol : 0..63]]
  <2>1. psg' = [v \in Voices |-> psg'[v]]  BY DEF ENV_TICK
  <2>. QED BY <1>5, <2>1
<1>7. port' \in Voices
  <2>1. port \in Voices  BY DEF EnvInv, EnvTypeOK
  <2>2. Written \subseteq Voices  BY DEF Written
  <2>. QED BY <2>1, <2>2 DEF ENV_TICK
<1>8. EnvTypeOK'
  BY <1>1, <1>3, <1>6, <1>7 DEF EnvInv, EnvTypeOK
<1>9. ASSUME NEW v \in Voices, Heard(v) PROVE Heard(v)'
  <2>1. psg[v] = [pan |-> v, vol |-> vol[v]]  BY <1>9 DEF Heard
  <2>2. \/ psg'[v] = [psg[v] EXCEPT !.vol = vol'[v]]
        \/ psg'[v] = psg[v] /\ vol'[v] = vol[v]
    BY TickOf
  <2>. QED BY <2>1, <2>2 DEF Heard
<1>10. ASSUME NEW v \in Voices, Loud(v) PROVE Loud(v)'
  BY <1>1, <1>10, TickOf DEF Loud
<1>11. \A v \in Voices \ {voice} : Heard(v)' /\ Loud(v)'
  BY <1>9, <1>10 DEF EnvInv
<1>12. AtVoice'
  <2>1. envPc # "idle" => voice \in Voices  BY DEF EnvInv
  <2>2. ASSUME envPc \in Untouched PROVE (\A v \in {voice} : Heard(v)' /\ Loud(v)')
    <3>1. voice \in Voices /\ Heard(voice) /\ Loud(voice)
      BY <2>1, <2>2 DEF EnvInv, AtVoice, Untouched
    <3>. QED BY <1>9, <1>10, <3>1
  <2>3. envPc = "stg" => vol'[voice] <= pk[voice] /\ (shape.astep = 0 => vol'[voice] = pk[voice])
    BY <1>2, <2>1, TickOf DEF EnvInv, AtVoice
  <2>4. envPc = "stop" => stg'[voice] = 0
    BY <2>1, TickOf DEF EnvInv, AtVoice
  <2>5. ASSUME envPc \in Writing PROVE (\A v \in {voice} : Loud(v)')
    <3>1. voice \in Voices /\ Loud(voice)
      BY <2>1, <2>5 DEF EnvInv, AtVoice, Writing
    <3>. QED BY <1>10, <3>1
  <2>6. envPc = "mix" => got.pan = voice  BY DEF EnvInv, AtVoice
  <2>. QED BY <1>1, <1>2, <2>2, <2>3, <2>4, <2>5, <2>6 DEF AtVoice, Heard, Loud
<1>. QED BY <1>1, <1>5, <1>8, <1>11, <1>12 DEF EnvInv, Heard, Loud

LEMMA StartStep ==
  ASSUME EnvInv, ENV_START
  PROVE  EnvInv'
<1>1. /\ envPc' = "rst" /\ voice' \in Voices /\ shape' \in Shapes
      /\ psg' = psg /\ port' = port /\ got' = got /\ stg' = stg /\ vol' = vol /\ pk' = pk
      /\ ast' = ast /\ rst' = rst /\ sus' = sus /\ sct' = sct
  BY DEF ENV_START, voices
<1>2. \A v \in Voices : Heard(v) /\ Loud(v)
  BY VoicesAre DEF EnvInv, EnvTypeOK, ENV_START
<1>3. \A v \in Voices : Heard(v)' /\ Loud(v)'
  BY <1>1, <1>2 DEF Heard, Loud
<1>4. EnvTypeOK'  BY <1>1 DEF EnvInv, EnvTypeOK
<1>5. AtVoice'
  <2>1. \A v \in {voice'} : Heard(v)' /\ Loud(v)'  BY <1>1, <1>3
  <2>. QED BY <1>1, <2>1 DEF AtVoice, Untouched, Writing, Heard, Loud
<1>. QED BY <1>1, <1>3, <1>4, <1>5 DEF EnvInv, Heard, Loud

LEMMA StoresStep ==
  ASSUME EnvInv, StartStores
  PROVE  EnvInv'
<1>1. /\ psg' = psg /\ port' = port /\ voice' = voice /\ shape' = shape /\ got' = got
  BY DEF StartStores, Other
<1>2. /\ envPc # "idle" /\ voice \in Voices
      /\ shape.peak \in 0..63 /\ shape.astep \in 0..255 /\ shape.sus \in 0..255
      /\ shape.rstep \in 0..255
  BY ShapesAre DEF StartStores, From, EnvInv, EnvTypeOK
<1>3. \A v \in Voices : /\ stg[v] \in 0..3 /\ vol[v] \in 0..63 /\ pk[v] \in 0..63
  BY DEF EnvInv, EnvTypeOK
<1>4. ASSUME \A v \in Voices \ {voice} : stg'[v] = stg[v] /\ vol'[v] = vol[v] /\ pk'[v] = pk[v]
      PROVE  \A v \in Voices \ {voice} : Heard(v)' /\ Loud(v)'
  BY <1>1, <1>4 DEF EnvInv, Heard, Loud
<1>5. ASSUME envPc \in Untouched, stg' = stg, vol' = vol, pk' = pk
      PROVE  \A v \in Voices : Heard(v)' /\ Loud(v)'
  <2>1. \A v \in Voices : Heard(v) /\ Loud(v)
    BY <1>5 DEF EnvInv, AtVoice
  <2>. QED BY <1>1, <1>5, <2>1 DEF Heard, Loud
<1>6. ASSUME envPc \in {"rst", "sus", "sct", "ast"}, envPc' \in {"sus", "sct", "ast", "pk"},
             stg' = stg, vol' = vol, pk' = pk, EnvTypeOK'
      PROVE  EnvInv'
  <2>1. \A v \in Voices : Heard(v)' /\ Loud(v)'  BY <1>5, <1>6 DEF Untouched
  <2>2. \A v \in {voice'} : Heard(v)' /\ Loud(v)'  BY <1>1, <1>2, <2>1
  <2>3. AtVoice'  BY <1>6, <2>2 DEF AtVoice, Untouched, Writing, Heard, Loud
  <2>. QED BY <1>1, <1>2, <1>6, <2>1, <2>3 DEF EnvInv, Heard, Loud
<1>7. CASE /\ From("rst", "sus") /\ rst' = [rst EXCEPT ![voice] = shape.rstep]
           /\ UNCHANGED <<stg, vol, pk, ast, sus, sct>>
  <2>1. EnvTypeOK'  BY <1>1, <1>2, <1>7 DEF EnvInv, EnvTypeOK, From
  <2>. QED BY <1>6, <1>7, <2>1 DEF From
<1>8. CASE /\ From("sus", "sct") /\ sus' = [sus EXCEPT ![voice] = shape.sus]
           /\ UNCHANGED <<stg, vol, pk, ast, rst, sct>>
  <2>1. EnvTypeOK'  BY <1>1, <1>2, <1>8 DEF EnvInv, EnvTypeOK, From
  <2>. QED BY <1>6, <1>8, <2>1 DEF From
<1>9. CASE /\ From("sct", "ast") /\ sct' = [sct EXCEPT ![voice] = shape.sus]
           /\ UNCHANGED <<stg, vol, pk, ast, rst, sus>>
  <2>1. EnvTypeOK'  BY <1>1, <1>2, <1>9 DEF EnvInv, EnvTypeOK, From
  <2>. QED BY <1>6, <1>9, <2>1 DEF From
<1>10. CASE /\ From("ast", "pk") /\ ast' = [ast EXCEPT ![voice] = shape.astep]
            /\ UNCHANGED <<stg, vol, pk, rst, sus, sct>>
  <2>1. EnvTypeOK'  BY <1>1, <1>2, <1>10 DEF EnvInv, EnvTypeOK, From
  <2>. QED BY <1>6, <1>10, <2>1 DEF From
<1>11. CASE /\ From("pk", "vol") /\ pk' = [pk EXCEPT ![voice] = shape.peak]
            /\ UNCHANGED <<stg, vol, ast, rst, sus, sct>>
  <2>1. EnvTypeOK'  BY <1>1, <1>2, <1>11 DEF EnvInv, EnvTypeOK, From
  <2>2. \A v \in Voices \ {voice} : pk'[v] = pk[v]
    BY <1>2, <1>11 DEF EnvInv, EnvTypeOK
  <2>3. \A v \in Voices \ {voice} : Heard(v)' /\ Loud(v)'  BY <1>4, <1>11, <2>2
  <2>4. AtVoice'  BY <1>11 DEF AtVoice, From, Untouched, Writing
  <2>. QED BY <1>1, <1>2, <2>1, <2>3, <2>4 DEF EnvInv, Heard, Loud
<1>12. CASE /\ From("vol", "stg")
            /\ vol' = [vol EXCEPT ![voice] = IF shape.astep = 0 THEN pk[voice] ELSE 0]
            /\ UNCHANGED <<stg, pk, ast, rst, sus, sct>>
  <2>1. (IF shape.astep = 0 THEN pk[voice] ELSE 0) \in 0..63  BY <1>2, <1>3
  <2>2. EnvTypeOK'  BY <1>1, <1>2, <1>12, <2>1 DEF EnvInv, EnvTypeOK, From
  <2>3. /\ \A v \in Voices \ {voice} : vol'[v] = vol[v]
        /\ vol'[voice] = IF shape.astep = 0 THEN pk[voice] ELSE 0
    BY <1>2, <1>12 DEF EnvInv, EnvTypeOK
  <2>4. \A v \in Voices \ {voice} : Heard(v)' /\ Loud(v)'  BY <1>4, <1>12, <2>3
  <2>5. AtVoice'
    <3>1. vol'[voice] <= pk[voice]  BY <1>2, <1>3, <2>3
    <3>. QED BY <1>1, <1>12, <2>3, <3>1 DEF AtVoice, From, Untouched, Writing
  <2>. QED BY <1>1, <1>2, <2>2, <2>4, <2>5 DEF EnvInv, Heard, Loud
<1>13. CASE /\ From("stg", "peek")
            /\ stg' = [stg EXCEPT ![voice] = IF shape.astep = 0 THEN 2 ELSE 1]
            /\ UNCHANGED <<vol, pk, ast, rst, sus, sct>>
  <2>1. EnvTypeOK'  BY <1>1, <1>2, <1>13 DEF EnvInv, EnvTypeOK, From
  <2>2. /\ \A v \in Voices \ {voice} : stg'[v] = stg[v]
        /\ stg'[voice] = IF shape.astep = 0 THEN 2 ELSE 1
    BY <1>2, <1>13 DEF EnvInv, EnvTypeOK
  <2>3. \A v \in Voices \ {voice} : Heard(v)' /\ Loud(v)'  BY <1>4, <1>13, <2>2
  <2>4. AtVoice'
    <3>1. vol[voice] <= pk[voice] /\ (shape.astep = 0 => vol[voice] = pk[voice])
      BY <1>13 DEF EnvInv, AtVoice, From
    <3>. QED BY <1>1, <1>13, <2>2, <3>1 DEF AtVoice, From, Untouched, Writing, Loud
  <2>. QED BY <1>1, <1>2, <2>1, <2>3, <2>4 DEF EnvInv, Heard, Loud
<1>. QED BY <1>7, <1>8, <1>9, <1>10, <1>11, <1>12, <1>13 DEF StartStores

LEMMA ReleaseStep ==
  ASSUME EnvInv, ENV_RELEASE
  PROVE  EnvInv'
<1>1. /\ psg' = psg /\ port' = port /\ shape' = shape /\ got' = got
      /\ vol' = vol /\ pk' = pk /\ ast' = ast /\ rst' = rst /\ sus' = sus /\ sct' = sct
  BY DEF ENV_RELEASE, voices
<1>2. CASE envPc = "idle" /\ voice' \in Voices /\ envPc' = "release" /\ UNCHANGED voices
  <2>1. \A v \in Voices : Heard(v) /\ Loud(v)
    BY <1>2, VoicesAre DEF EnvInv, EnvTypeOK
  <2>2. \A v \in Voices : Heard(v)' /\ Loud(v)'
    BY <1>1, <1>2, <2>1 DEF Heard, Loud, voices
  <2>3. EnvTypeOK'  BY <1>1, <1>2 DEF EnvInv, EnvTypeOK, voices
  <2>4. \A v \in {voice'} : Heard(v)' /\ Loud(v)'  BY <1>2, <2>2
  <2>5. AtVoice'  BY <1>2, <2>4 DEF AtVoice, Untouched, Writing, Heard, Loud
  <2>. QED BY <1>1, <1>2, <2>2, <2>3, <2>5 DEF EnvInv, Heard, Loud
<1>3. CASE From("release", "idle") /\ voice' = -1 /\ stg' = [stg EXCEPT ![voice] = 3]
  <2>1. voice \in Voices /\ stg \in [Voices -> 0..3]  BY <1>3 DEF EnvInv, EnvTypeOK, From
  <2>2. stg'[voice] = 3 /\ \A v \in Voices \ {voice} : stg'[v] = stg[v]  BY <1>3, <2>1
  <2>3. \A v \in Voices : Heard(v) /\ Loud(v)
    BY <1>3 DEF EnvInv, AtVoice, From, Untouched
  <2>4. \A v \in Voices : Heard(v)' /\ Loud(v)'
    BY <1>1, <2>2, <2>3 DEF Heard, Loud
  <2>5. EnvTypeOK'  BY <1>1, <1>3, <2>1 DEF EnvInv, EnvTypeOK, From
  <2>6. AtVoice'  BY <1>3 DEF AtVoice, From, Untouched, Writing
  <2>. QED BY <1>1, <1>3, <2>4, <2>5, <2>6 DEF EnvInv, Heard, Loud, From
<1>. QED BY <1>2, <1>3 DEF ENV_RELEASE

LEMMA StopStep ==
  ASSUME EnvInv, ENV_STOP
  PROVE  EnvInv'
<1>1. /\ psg' = psg /\ port' = port /\ shape' = shape /\ got' = got
      /\ pk' = pk /\ ast' = ast /\ rst' = rst /\ sus' = sus /\ sct' = sct
  BY DEF ENV_STOP
<1>2. CASE /\ envPc = "idle" /\ voice' \in Voices /\ envPc' = "stop"
           /\ stg' = [stg EXCEPT ![voice'] = 0] /\ vol' = vol
  <2>1. \A v \in Voices : Heard(v) /\ Loud(v)
    BY <1>2, VoicesAre DEF EnvInv, EnvTypeOK
  <2>2. stg'[voice'] = 0 /\ \A v \in Voices \ {voice'} : stg'[v] = stg[v]
    BY <1>2 DEF EnvInv, EnvTypeOK
  <2>3. \A v \in Voices \ {voice'} : Heard(v)' /\ Loud(v)'
    BY <1>1, <1>2, <2>1, <2>2 DEF Heard, Loud
  <2>4. EnvTypeOK'  BY <1>1, <1>2 DEF EnvInv, EnvTypeOK
  <2>5. AtVoice'  BY <1>2, <2>2 DEF AtVoice, Untouched, Writing
  <2>. QED BY <1>1, <1>2, <2>3, <2>4, <2>5 DEF EnvInv, Heard, Loud
<1>3. CASE /\ From("stop", "peek") /\ voice' = voice
           /\ vol' = [vol EXCEPT ![voice] = 0] /\ stg' = stg
  <2>1. /\ voice \in Voices /\ vol \in [Voices -> 0..63] /\ stg[voice] = 0
        /\ pk[voice] \in 0..63
    BY <1>3 DEF EnvInv, EnvTypeOK, From, AtVoice
  <2>2. vol'[voice] = 0 /\ \A v \in Voices \ {voice} : vol'[v] = vol[v]  BY <1>3, <2>1
  <2>3. \A v \in Voices \ {voice} : Heard(v)' /\ Loud(v)'
    BY <1>1, <1>3, <2>2 DEF EnvInv, Heard, Loud
  <2>4. EnvTypeOK'
    <3>1. vol' \in [Voices -> 0..63]  BY <1>3, <2>1
    <3>. QED BY <1>1, <1>3, <2>1, <3>1 DEF EnvInv, EnvTypeOK, From
  <2>5. AtVoice'
    <3>1. vol'[voice] <= pk[voice]  BY <2>1, <2>2
    <3>. QED BY <1>1, <1>3, <2>1, <2>2, <3>1 DEF AtVoice, From, Untouched, Writing, Loud
  <2>. QED BY <1>1, <1>3, <2>1, <2>3, <2>4, <2>5 DEF EnvInv, Heard, Loud
<1>. QED BY <1>2, <1>3 DEF ENV_STOP

LEMMA WriteStep ==
  ASSUME EnvInv, envw
  PROVE  EnvInv'
<1>1. /\ stg' = stg /\ vol' = vol /\ pk' = pk /\ ast' = ast /\ rst' = rst
      /\ sus' = sus /\ sct' = sct
  BY DEF envw, voices
<1>2. envPc \in Writing /\ voice \in Voices /\ voice # -1 /\ Loud(voice)
  BY VoicesAre DEF envw, From, Writing, EnvInv, AtVoice
<1>3. psg \in [Voices -> [pan : Voices, vol : 0..63]] /\ vol[voice] \in 0..63
      /\ got \in [pan : 0..15, vol : 0..63] /\ port \in Voices /\ voice \in 0..15
  BY <1>2, VoicesAre DEF EnvInv, EnvTypeOK
<1>4. ASSUME psg' = psg, voice' = voice, shape' = shape, envPc' \in Writing \ {"peek"},
             port' \in Voices, got' \in [pan : 0..15, vol : 0..63],
             envPc' \in {"pan", "data"} => port' = voice,
             envPc' \in {"mix", "poke", "data"} => got'.pan = voice,
             envPc' \in {"poke", "data"} => got'.vol = vol[voice]
      PROVE  EnvInv'
  <2>1. EnvTypeOK'  BY <1>1, <1>2, <1>4 DEF EnvInv, EnvTypeOK, Writing
  <2>2. AtVoice'  BY <1>1, <1>2, <1>4 DEF AtVoice, Untouched, Writing, Loud
  <2>. QED BY <1>1, <1>2, <1>4, <2>1, <2>2 DEF EnvInv, Heard, Loud
<1>5. CASE From("peek", "pan") /\ port' = voice /\ UNCHANGED <<psg, got, voice, shape>>
  BY <1>2, <1>3, <1>4, <1>5 DEF From, Writing
<1>6. CASE /\ From("pan", "mix") /\ got' = [got EXCEPT !.pan = psg[port].pan]
           /\ UNCHANGED <<psg, port, voice, shape>>
  <2>1. psg[port].pan = voice  BY <1>2, <1>6 DEF EnvInv, AtVoice, From
  <2>2. got' \in [pan : 0..15, vol : 0..63] /\ got'.pan = voice  BY <1>3, <1>6, <2>1
  <2>. QED BY <1>3, <1>4, <1>6, <2>2 DEF From, Writing
<1>7. CASE /\ From("mix", "poke") /\ got' = [got EXCEPT !.vol = vol[voice]]
           /\ UNCHANGED <<psg, port, voice, shape>>
  <2>1. got.pan = voice  BY <1>7 DEF EnvInv, AtVoice, From
  <2>2. got' \in [pan : 0..15, vol : 0..63] /\ got'.pan = voice /\ got'.vol = vol[voice]
    BY <1>3, <1>7, <2>1
  <2>. QED BY <1>3, <1>4, <1>7, <2>2 DEF From, Writing
<1>8. CASE From("poke", "data") /\ port' = voice /\ UNCHANGED <<psg, got, voice, shape>>
  <2>1. got.pan = voice /\ got.vol = vol[voice]  BY <1>8 DEF EnvInv, AtVoice, From
  <2>. QED BY <1>2, <1>3, <1>4, <1>8, <2>1 DEF From, Writing
<1>9. CASE /\ From("data", "idle") /\ psg' = [psg EXCEPT ![port] = got]
           /\ voice' = -1 /\ shape' = NoShape /\ got' = Silent(0) /\ port' = port
  <2>1. port = voice /\ got.pan = voice /\ got.vol = vol[voice]
    BY <1>9 DEF EnvInv, AtVoice, From
  <2>2. got = [pan |-> voice, vol |-> vol[voice]]  BY <1>3, <2>1
  <2>3. /\ psg'[voice] = [pan |-> voice, vol |-> vol[voice]]
        /\ \A v \in Voices \ {voice} : psg'[v] = psg[v]
    BY <1>2, <1>3, <1>9, <2>1, <2>2
  <2>4. psg' \in [Voices -> [pan : Voices, vol : 0..63]]
    <3>1. got \in [pan : Voices, vol : 0..63]  BY <1>2, <1>3, <2>2
    <3>. QED BY <1>3, <1>9, <3>1
  <2>5. \A v \in Voices : Heard(v)' /\ Loud(v)' /\ psg'[v].pan = v
    BY <1>1, <1>2, <2>3 DEF EnvInv, Heard, Loud
  <2>6. got' \in [pan : 0..15, vol : 0..63]  BY <1>9 DEF Silent
  <2>7. EnvTypeOK'  BY <1>1, <1>3, <1>9, <2>4, <2>6 DEF EnvInv, EnvTypeOK, From
  <2>8. AtVoice'  BY <1>9 DEF AtVoice, From, Untouched, Writing
  <2>. QED BY <1>9, <2>5, <2>7, <2>8 DEF EnvInv, From, Heard, Loud
<1>. QED BY <1>5, <1>6, <1>7, <1>8, <1>9 DEF envw

LEMMA EnvStep ==
  ASSUME EnvWindows = {}, EnvInv, [EnvNext]_env
  PROVE  EnvInv'
<1>1. CASE UNCHANGED env
  BY <1>1 DEF env, voices, EnvInv, EnvTypeOK, AtVoice, Heard, Loud
<1>. QED BY <1>1, TickStep, StartStep, StoresStep, ReleaseStep, StopStep, WriteStep
     DEF EnvNext, Playing

\* At whatever step of the program ticks come, any number of them, the voices
\* the program is not at sound as their envelopes say, whatever the envelopes;
\* but for the windows in which the program works on what a tick changes.
THEOREM VoicesSoundRight ==
  ASSUME EnvWindows = {}
  PROVE  BackgroundSpec => []VoicesRight
<1>1. BackgroundInit => EnvInv  BY EnvInitInv DEF BackgroundInit
<1>2. EnvInv /\ [BackgroundNext]_all => EnvInv'
  <2>. SUFFICES ASSUME EnvInv, [BackgroundNext]_all PROVE EnvInv'  OBVIOUS
  <2>1. [EnvNext]_env
    BY DEF BackgroundNext, Interrupted, Shares, Plays, Ticks, EnvNext, all
  <2>. QED BY <2>1, EnvStep
<1>3. EnvInv => VoicesRight  BY DEF EnvInv, VoicesRight, Heard, Loud
<1>. QED BY <1>1, <1>2, <1>3, PTL DEF BackgroundSpec

---------------------------------------------------------------------------
(* Voices that end: how many ticks a voice has left, at most, and that an  *)
(* attack goes on only with a step.                                        *)

\* The sustain is over at a tick that finds its counter at 0, the release at
\* one that finds nothing to lower.
TicksLeft(v) ==
  CASE stg[v] = 0 -> 0
    [] stg[v] = 3 -> vol[v] + 1
    [] stg[v] = 2 -> sct[v] + 65
    [] stg[v] = 1 -> 64 - vol[v] + sus[v] + 65

Rises(v) == stg[v] = 1 => ast[v] # 0

\* Between the store of its step and that of its stage a voice may be in an
\* attack that the new step, 0, would never end.
RiseInv ==
  /\ \A v \in Voices \ {voice} : Rises(v)
  /\ envPc \notin {"idle", "pk", "vol", "stg"} => Rises(voice)
  /\ envPc \in {"pk", "vol", "stg"} => ast[voice] = shape.astep

LEMMA RiseInit == EnvInit => RiseInv
BY DEF EnvInit, RiseInv, Rises

\* What a tick does to the stages.
LEMMA TickStages ==
  ASSUME ENV_TICK, NEW v \in Voices
  PROVE  stg'[v] = 1 => stg[v] = 1
<1>1. stg'[v] = Ticked(v).stg  BY DEF ENV_TICK
<1>2. CASE stg[v] = 2
  <2>1. Ticked(v) = Sustained(v)  BY <1>2 DEF Ticked
  <2>. QED BY <1>1, <2>1 DEF Sustained
<1>3. CASE stg[v] = 3 /\ rst[v] # 0
  <2>1. Ticked(v) = Released(v)  BY <1>3 DEF Ticked
  <2>. QED BY <1>1, <2>1 DEF Released
<1>4. CASE stg[v] \notin {1, 2} /\ ~(stg[v] = 3 /\ rst[v] # 0)
  <2>1. Ticked(v) = [stg |-> stg[v], vol |-> vol[v], sct |-> sct[v]]  BY <1>4 DEF Ticked
  <2>. QED BY <1>1, <2>1
<1>. QED BY <1>2, <1>3, <1>4

LEMMA RiseStep ==
  ASSUME EnvInv, RiseInv, [EnvNext]_env
  PROVE  RiseInv'
<1>1. /\ stg \in [Voices -> 0..3] /\ ast \in [Voices -> 0..255]
      /\ envPc # "idle" => voice \in Voices /\ voice # -1
      /\ envPc = "idle" => voice = -1
  BY VoicesAre DEF EnvInv, EnvTypeOK
<1>2. ASSUME stg' = stg, ast' = ast, voice' = voice, shape' = shape,
             \/ envPc \in {"rst", "sus", "sct"} /\ envPc' \in {"sus", "sct", "ast"}
             \/ envPc \in {"pk", "vol"} /\ envPc' \in {"vol", "stg"}
             \/ envPc \in Writing \cup {"stop"} /\ envPc' \in Writing
      PROVE  RiseInv'
  BY <1>2 DEF RiseInv, Rises, Writing
<1>3. CASE ENV_START
  <2>1. \A v \in Voices : Rises(v)  BY <1>1, <1>3, VoicesAre DEF ENV_START, RiseInv
  <2>2. /\ stg' = stg /\ ast' = ast /\ envPc' = "rst" /\ voice' \in Voices
    BY <1>3 DEF ENV_START, voices
  <2>3. \A v \in Voices : Rises(v)'  BY <2>1, <2>2 DEF Rises
  <2>4. \A v \in {voice'} : Rises(v)'  BY <2>2, <2>3
  <2>. QED BY <2>2, <2>3, <2>4 DEF RiseInv, Rises
<1>4. CASE StartStores
  <2>1. voice' = voice /\ shape' = shape  BY <1>4 DEF StartStores, Other
  <2>2. CASE /\ From("ast", "pk") /\ ast' = [ast EXCEPT ![voice] = shape.astep]
             /\ stg' = stg
    BY <1>1, <2>1, <2>2 DEF From, RiseInv, Rises
  <2>3. CASE /\ From("stg", "peek")
             /\ stg' = [stg EXCEPT ![voice] = IF shape.astep = 0 THEN 2 ELSE 1]
             /\ ast' = ast
    BY <1>1, <2>1, <2>3 DEF From, RiseInv, Rises
  <2>4. CASE stg' = stg /\ ast' = ast /\ \/ From("rst", "sus") \/ From("sus", "sct")
                                         \/ From("sct", "ast") \/ From("pk", "vol")
                                         \/ From("vol", "stg")
    BY <1>2, <2>1, <2>4 DEF From
  <2>. QED BY <1>4, <2>2, <2>3, <2>4 DEF StartStores
<1>5. CASE ENV_RELEASE
  <2>1. CASE envPc = "idle" /\ voice' \in Voices /\ envPc' = "release" /\ UNCHANGED voices
    <3>1. \A v \in Voices : Rises(v)  BY <1>1, <2>1, VoicesAre DEF RiseInv
    <3>2. \A v \in Voices : Rises(v)'  BY <2>1, <3>1 DEF Rises, voices
    <3>3. \A v \in {voice'} : Rises(v)'  BY <2>1, <3>2
    <3>. QED BY <2>1, <3>2, <3>3 DEF RiseInv, Rises
  <2>2. CASE From("release", "idle") /\ stg' = [stg EXCEPT ![voice] = 3] /\ ast' = ast
    BY <1>1, <2>2 DEF From, RiseInv, Rises
  <2>. QED BY <1>5, <2>1, <2>2 DEF ENV_RELEASE
<1>6. CASE ENV_STOP
  <2>1. CASE /\ envPc = "idle" /\ voice' \in Voices /\ envPc' = "stop"
             /\ stg' = [stg EXCEPT ![voice'] = 0] /\ ast' = ast
    <3>1. \A v \in Voices : Rises(v)  BY <1>1, <2>1, VoicesAre DEF RiseInv
    <3>2. \A v \in Voices : stg'[v] = IF v = voice' THEN 0 ELSE stg[v]  BY <1>1, <2>1
    <3>3. \A v \in Voices : Rises(v)'  BY <2>1, <3>1, <3>2 DEF Rises
    <3>4. \A v \in {voice'} : Rises(v)'  BY <2>1, <3>3
    <3>. QED BY <2>1, <3>3, <3>4 DEF RiseInv, Rises
  <2>2. CASE From("stop", "peek") /\ voice' = voice /\ stg' = stg /\ ast' = ast
    BY <1>6, <1>2, <2>2 DEF From, Writing, ENV_STOP
  <2>. QED BY <1>6, <2>1, <2>2 DEF ENV_STOP
<1>7. CASE envw
  <2>1. stg' = stg /\ ast' = ast  BY <1>7 DEF envw, voices
  <2>2. CASE From("data", "idle") /\ voice' = -1
    BY <1>1, <2>1, <2>2 DEF From, RiseInv, Rises
  <2>3. CASE voice' = voice /\ shape' = shape /\ \/ From("peek", "pan") \/ From("pan", "mix")
                                                 \/ From("mix", "poke") \/ From("poke", "data")
    BY <1>2, <2>1, <2>3 DEF From, Writing
  <2>. QED BY <1>7, <2>2, <2>3 DEF envw
<1>8. CASE ENV_TICK
  <2>1. envPc' = envPc /\ voice' = voice /\ shape' = shape /\ ast' = ast
    BY <1>8 DEF ENV_TICK
  <2>2. \A v \in Voices : Rises(v) => Rises(v)'
    BY <1>8, <2>1, TickStages DEF Rises
  <2>3. ASSUME envPc \notin {"idle", "pk", "vol", "stg"} PROVE \A v \in {voice'} : Rises(v)'
    <3>1. voice \in Voices /\ Rises(voice)  BY <1>1, <2>3 DEF RiseInv
    <3>. QED BY <2>1, <2>2, <3>1
  <2>4. \A v \in Voices \ {voice} : Rises(v)'  BY <2>2 DEF RiseInv
  <2>. QED BY <2>1, <2>3, <2>4 DEF RiseInv, Rises
<1>9. CASE UNCHANGED env
  BY <1>9 DEF env, voices, RiseInv, Rises
<1>. QED BY <1>3, <1>4, <1>5, <1>6, <1>7, <1>8, <1>9 DEF EnvNext, Playing

\* A tick brings a voice nearer to its end.
LEMMA TickFades ==
  ASSUME EnvInv, ENV_TICK, NEW v \in Voices, Loud(v), Rises(v), sus[v] # Hold, rst[v] # 0,
         stg[v] # 0
  PROVE  TicksLeft(v)' < TicksLeft(v)
<1>1. /\ stg[v] \in 1..3 /\ vol[v] \in 0..63 /\ pk[v] \in 0..63 /\ ast[v] \in 0..255
      /\ rst[v] \in 1..255 /\ sus[v] \in 0..255 /\ sct[v] \in 0..255
  <2>1. stg[v] \in 0..3 /\ rst[v] \in 0..255  BY DEF EnvInv, EnvTypeOK
  <2>2. stg[v] \in 1..3 /\ rst[v] \in 1..255  BY <2>1
  <2>. QED BY <2>2 DEF EnvInv, EnvTypeOK
<1>2. stg'[v] = Ticked(v).stg /\ vol'[v] = Ticked(v).vol /\ sct'[v] = Ticked(v).sct
  BY DEF ENV_TICK
<1>3. sus'[v] = sus[v]  BY DEF ENV_TICK
<1>4. TicksLeft(v)' = CASE stg'[v] = 0 -> 0
                        [] stg'[v] = 3 -> vol'[v] + 1
                        [] stg'[v] = 2 -> sct'[v] + 65
                        [] stg'[v] = 1 -> 64 - vol'[v] + sus'[v] + 65
  BY DEF TicksLeft
<1>5. CASE stg[v] = 1
  <2>1. Ticked(v) = Attacked(v) /\ ast[v] # 0 /\ vol[v] <= pk[v]
    BY <1>5 DEF Ticked, Rises, Loud
  <2>. DEFINE up == Least(vol[v] + ast[v], pk[v])
  <2>2. up \in 0..63 /\ (up = pk[v] \/ up > vol[v])
    <3>1. \A a, c \in 0..63, b \in 1..255 :
            a <= c => Least(a + b, c) \in 0..63 /\ (Least(a + b, c) = c \/ Least(a + b, c) > a)
      BY DEF Least
    <3>2. ast[v] \in 1..255  BY <1>1, <2>1
    <3>. QED BY <1>1, <2>1, <3>1, <3>2
  <2>. HIDE DEF up
  <2>3. /\ vol'[v] = up
        /\ \/ stg'[v] = 2 /\ up = pk[v] /\ sct'[v] = sus[v]
           \/ stg'[v] = 1 /\ up # pk[v]
    BY <1>2, <2>1 DEF Attacked, up
  <2>4. TicksLeft(v) = 64 - vol[v] + sus[v] + 65  BY <1>5 DEF TicksLeft
  <2>5. CASE stg'[v] = 2
    <3>1. TicksLeft(v)' = sus[v] + 65  BY <1>4, <2>3, <2>5
    <3>2. \A a \in 0..63, b \in 0..255 : b + 65 < 64 - a + b + 65  OBVIOUS
    <3>. QED BY <1>1, <2>4, <3>1, <3>2
  <2>6. CASE stg'[v] = 1
    <3>1. TicksLeft(v)' = 64 - up + sus[v] + 65 /\ up > vol[v]
      BY <1>3, <1>4, <2>2, <2>3, <2>6
    <3>2. \A a, c \in 0..63, b \in 0..255 : c > a => 64 - c + b + 65 < 64 - a + b + 65
      OBVIOUS
    <3>. QED BY <1>1, <2>2, <2>4, <3>1, <3>2
  <2>. QED BY <2>3, <2>5, <2>6
<1>6. CASE stg[v] = 2
  <2>1. Ticked(v) = Sustained(v)  BY <1>6 DEF Ticked
  <2>2. /\ vol'[v] = vol[v]
        /\ \/ stg'[v] = 3 /\ sct[v] = 0
           \/ stg'[v] = 2 /\ sct[v] # 0 /\ sct'[v] = sct[v] - 1
    BY <1>2, <2>1 DEF Sustained
  <2>3. TicksLeft(v) = sct[v] + 65  BY <1>6 DEF TicksLeft
  <2>4. CASE stg'[v] = 3
    <3>1. TicksLeft(v)' = vol[v] + 1  BY <1>4, <2>2, <2>4
    <3>2. \A a \in 0..63, b \in 0..255 : a + 1 < b + 65  OBVIOUS
    <3>. QED BY <1>1, <2>3, <3>1, <3>2
  <2>5. CASE stg'[v] = 2
    <3>1. TicksLeft(v)' = sct[v] - 1 + 65  BY <1>4, <2>2, <2>5
    <3>. QED BY <1>1, <2>3, <3>1
  <2>. QED BY <2>2, <2>4, <2>5
<1>7. CASE stg[v] = 3
  <2>1. Ticked(v) = Released(v)  BY <1>7 DEF Ticked
  <2>. DEFINE down == IF vol[v] > rst[v] THEN vol[v] - rst[v] ELSE 0
  <2>2. down \in 0..63 /\ (down = 0 \/ down < vol[v])
    <3>1. \A a \in 0..63, b \in 1..255 :
            LET c == IF a > b THEN a - b ELSE 0 IN c \in 0..63 /\ (c = 0 \/ c < a)
      OBVIOUS
    <3>. QED BY <1>1, <3>1
  <2>. HIDE DEF down
  <2>3. vol'[v] = down /\ stg'[v] = IF down = 0 THEN 0 ELSE 3
    BY <1>2, <2>1 DEF Released, down
  <2>4. TicksLeft(v) = vol[v] + 1  BY <1>7 DEF TicksLeft
  <2>5. CASE down = 0
    <3>1. TicksLeft(v)' = 0  BY <1>4, <2>3, <2>5
    <3>. QED BY <1>1, <2>4, <3>1
  <2>6. CASE down # 0
    <3>1. TicksLeft(v)' = down + 1  BY <1>4, <2>3, <2>6
    <3>. QED BY <1>1, <2>2, <2>4, <2>6, <3>1
  <2>. QED BY <2>5, <2>6
<1>. QED BY <1>1, <1>5, <1>6, <1>7

\* The bound: an attack of 64, a sustain of 255 and a release of 65 ticks.
LEMMA TicksBounded ==
  ASSUME EnvInv, NEW v \in Voices
  PROVE  TicksLeft(v) \in 0..384 /\ (TicksLeft(v) = 0 <=> stg[v] = 0)
<1>1. stg[v] \in 0..3 /\ vol[v] \in 0..63 /\ sus[v] \in 0..255 /\ sct[v] \in 0..255
  BY DEF EnvInv, EnvTypeOK
<1>2. CASE stg[v] = 0
  <2>1. TicksLeft(v) = 0  BY <1>2 DEF TicksLeft
  <2>. QED BY <1>2, <2>1
<1>3. CASE stg[v] = 1
  <2>1. TicksLeft(v) = 64 - vol[v] + sus[v] + 65  BY <1>3 DEF TicksLeft
  <2>. DEFINE a == vol[v]  b == sus[v]
  <2>2. a \in 0..63 /\ b \in 0..255 /\ TicksLeft(v) = 64 - a + b + 65  BY <1>1, <2>1
  <2>. HIDE DEF a, b
  <2>3. TicksLeft(v) \in 1..384  BY <2>2
  <2>. QED BY <1>3, <2>3
<1>4. CASE stg[v] = 2  BY <1>1, <1>4 DEF TicksLeft
<1>5. CASE stg[v] = 3  BY <1>1, <1>5 DEF TicksLeft
<1>. QED BY <1>1, <1>2, <1>3, <1>4, <1>5

\* The program does not prolong a voice that it is not at.
LEMMA ProgramFades ==
  ASSUME EnvInv, [Playing]_env, NEW v \in Voices, voice # v
  PROVE  TicksLeft(v)' = TicksLeft(v) \/ TicksLeft(v)' = 0
<1>1. /\ stg \in [Voices -> 0..3] /\ vol \in [Voices -> 0..63] /\ sct \in [Voices -> 0..255]
      /\ sus \in [Voices -> 0..255] /\ (envPc # "idle" => voice \in Voices)
  BY DEF EnvInv, EnvTypeOK
<1>2. ASSUME stg'[v] = stg[v], vol'[v] = vol[v], sct'[v] = sct[v], sus'[v] = sus[v]
      PROVE  TicksLeft(v)' = TicksLeft(v)
  BY <1>2 DEF TicksLeft
<1>3. CASE ENV_START \/ envw \/ UNCHANGED env
  BY <1>2, <1>3 DEF ENV_START, envw, env, voices
<1>4. CASE StartStores
  <2>1. voice \in Voices  BY <1>1, <1>4 DEF StartStores, From
  <2>. QED BY <1>1, <1>2, <1>4, <2>1 DEF StartStores
<1>5. CASE ENV_RELEASE
  <2>1. voice \in Voices \/ UNCHANGED voices  BY <1>1, <1>5 DEF ENV_RELEASE, From
  <2>. QED BY <1>1, <1>2, <1>5, <2>1 DEF ENV_RELEASE, voices
<1>6. CASE ENV_STOP
  <2>1. CASE envPc = "idle" /\ voice' \in Voices /\ stg' = [stg EXCEPT ![voice'] = 0]
             /\ UNCHANGED <<vol, sct, sus>>
    <3>1. CASE voice' = v
      <4>1. stg'[v] = 0  BY <1>1, <2>1, <3>1
      <4>. QED BY <4>1 DEF TicksLeft
    <3>2. CASE voice' # v
      <4>1. stg'[v] = stg[v]  BY <1>1, <2>1, <3>2
      <4>. QED BY <1>2, <2>1, <4>1
    <3>. QED BY <3>1, <3>2
  <2>2. CASE From("stop", "peek") /\ vol' = [vol EXCEPT ![voice] = 0] /\ UNCHANGED <<stg, sct, sus>>
    <3>1. vol'[v] = vol[v]  BY <1>1, <2>2 DEF From
    <3>. QED BY <1>2, <2>2, <3>1
  <2>. QED BY <1>6, <2>1, <2>2 DEF ENV_STOP
<1>. QED BY <1>3, <1>4, <1>5, <1>6 DEF Playing

\* What VoicesEnd takes besides fairness: of a voice with an end to its sustain
\* and to its release that the program is not at, every tick that finds it
\* sounding leaves fewer ticks to come, of 384 at most, and nothing the program
\* does to other voices makes them more (advsnd.fs:21-64).
VoicesFade ==
  /\ [](\A v \in Voices : TicksLeft(v) \in 0..384 /\ (TicksLeft(v) = 0 <=> stg[v] = 0))
  /\ [][\A v \in Voices : voice # v /\ sus[v] # Hold /\ rst[v] # 0 =>
          /\ TicksLeft(v)' <= TicksLeft(v)
          /\ Ticks /\ stg[v] # 0 => TicksLeft(v)' < TicksLeft(v)]_all

\* Whatever envelopes are started, released and stopped, and wherever in that
\* the ticks come, but for the windows: a voice left alone fades.
THEOREM SoundsFade ==
  ASSUME EnvWindows = {}
  PROVE  BackgroundSpec => VoicesFade
<1>1. BackgroundInit => EnvInv /\ RiseInv  BY EnvInitInv, RiseInit DEF BackgroundInit
<1>2. [BackgroundNext]_all => [EnvNext]_env /\ (Ticks \/ [Playing]_env)
  BY DEF BackgroundNext, Interrupted, Shares, Plays, Ticks, EnvNext, all
<1>3. EnvInv /\ RiseInv /\ [BackgroundNext]_all => EnvInv' /\ RiseInv'
  BY <1>2, EnvStep, RiseStep
<1>4. EnvInv => \A v \in Voices : TicksLeft(v) \in 0..384 /\ (TicksLeft(v) = 0 <=> stg[v] = 0)
  BY TicksBounded
<1>5. EnvInv' => (\A v \in Voices : TicksLeft(v) \in 0..384 /\ (TicksLeft(v) = 0 <=> stg[v] = 0))'
  BY <1>4, PTL
<1>6. EnvInv /\ RiseInv /\ [BackgroundNext]_all
        => \A v \in Voices : voice # v /\ sus[v] # Hold /\ rst[v] # 0 =>
             /\ TicksLeft(v)' <= TicksLeft(v)
             /\ Ticks /\ stg[v] # 0 => TicksLeft(v)' < TicksLeft(v)
  <2>. SUFFICES ASSUME EnvInv, EnvInv', RiseInv, Ticks \/ [Playing]_env,
                       NEW v \in Voices, voice # v, sus[v] # Hold, rst[v] # 0
                PROVE  /\ TicksLeft(v)' <= TicksLeft(v)
                       /\ Ticks /\ stg[v] # 0 => TicksLeft(v)' < TicksLeft(v)
    BY <1>2, <1>3
  <2>1. TicksLeft(v) \in 0..384 /\ (TicksLeft(v) = 0 <=> stg[v] = 0)  BY TicksBounded
  <2>2. Loud(v) /\ Rises(v)
    <3>1. EnvInv => Loud(v)  BY DEF EnvInv
    <3>2. RiseInv => Rises(v)  BY DEF RiseInv
    <3>. QED BY <3>1, <3>2
  <2>3. TicksLeft(v)' \in 0..384 /\ (TicksLeft(v)' = 0 <=> stg'[v] = 0)  BY <1>5
  <2>4. ASSUME Ticks, stg[v] # 0 PROVE TicksLeft(v)' < TicksLeft(v)
    BY <2>2, <2>4, TickFades DEF Ticks
  <2>5. ASSUME Ticks, stg[v] = 0 PROVE TicksLeft(v)' = 0
    <3>1. stg'[v] = 0  BY <2>5, TickOf DEF Ticks
    <3>. QED BY <2>3, <3>1
  <2>6. ASSUME [Playing]_env PROVE TicksLeft(v)' <= TicksLeft(v)
    <3>1. TicksLeft(v)' = TicksLeft(v) \/ TicksLeft(v)' = 0  BY <2>6, ProgramFades
    <3>. HIDE DEF TicksLeft
    <3>. QED BY <2>1, <2>3, <3>1
  <2>. HIDE DEF TicksLeft
  <2>7. ASSUME Ticks PROVE TicksLeft(v)' <= TicksLeft(v)
    <3>1. CASE stg[v] = 0  BY <2>1, <2>5, <2>7, <3>1
    <3>2. CASE stg[v] # 0
      <4>1. TicksLeft(v)' < TicksLeft(v)  BY <2>4, <2>7, <3>2
      <4>2. \A a, b \in 0..384 : a < b => a <= b  OBVIOUS
      <4>3. TicksLeft(v) \in 0..384 /\ TicksLeft(v)' \in 0..384  BY <2>1, <2>3
      <4>. QED BY <4>1, <4>2, <4>3, Zenon
    <3>. QED BY <3>1, <3>2
  <2>. QED BY <2>4, <2>6, <2>7
<1>. QED BY <1>1, <1>3, <1>4, <1>6, PTL DEF BackgroundSpec, VoicesFade

---------------------------------------------------------------------------
(* Words: the stack and the working pointers of the interrupted program,   *)
(* while a handler runs, too.                                              *)

USE FirqAssumption

Depth == IF frame = None THEN x ELSE frame
TrueW == IF frame = None THEN w ELSE saved[1]
TrueW3 == IF frame = None THEN w3 ELSE saved[2]

\* The n cells at the bottom are those the word is to leave.
Left(n) == \A i \in 1..n : expect.top[i] = cells[i]

FetchInv ==
  /\ step \in 0..2
  /\ step # 0 => /\ Depth > 0 /\ expect.depth = Depth /\ result = expect.result
                 /\ Left(expect.depth - 1) /\ expect.top[Depth] = Mem(cells[Depth])
  /\ step = 2 => TrueW = cells[Depth]

ExecuteInv ==
  /\ step \in 0..3
  /\ step # 0 => Left(expect.depth)
  /\ step \in {1, 2} => Depth > 0 /\ expect.depth = Depth - 1 /\ expect.result = cells[Depth]
  /\ step \in {2, 3} => TrueW = expect.result
  /\ step = 3 => expect.depth = Depth

BranchInv ==
  /\ step \in 0..2
  /\ step # 0 => Left(expect.depth)
  /\ step = 1 => Depth > 0 /\ expect.depth = Depth - 1 /\ expect.result = cells[Depth]
  /\ step = 2 => frame = None /\ x = expect.depth /\ cells[x + 1] = expect.result

PickInv ==
  /\ step \in 0..6
  /\ step # 0 => result = expect.result /\ expect.depth > 0 /\ Left(expect.depth - 1)
  /\ step \in 1..3 => /\ Depth = expect.depth /\ Depth > cells[Depth] + 1
                      /\ expect.top[Depth] = cells[Depth - 1 - cells[Depth]]
  /\ step \in 2..5 => TrueW3 = expect.depth
  /\ step = 3 => TrueW = cells[Depth]
  /\ step \in {4, 5} => frame = None
  /\ step = 4 => x > 1 /\ expect.top[expect.depth] = cells[x - 1]
  /\ step \in {5, 6} => acc = expect.top[expect.depth]
  /\ step = 6 => Depth = expect.depth

KernelInv ==
  /\ step \in 0..2
  /\ step # 0 => result = expect.result /\ Left(expect.depth)
  /\ step = 1 => Depth = expect.depth
  /\ step = 2 => frame = None /\ acc = expect.depth

IrqInv ==
  /\ Depth = expect.depth /\ Left(expect.depth) /\ result = expect.result
  /\ job.slot \in Slots
  /\ step # 1 /\ job.slot \in Enableable => (job.slot \in ien <=> job.xt # Zero)
  /\ step \in 3..6 => TrueW3 = job.slot
  /\ step = 4 => frame = None /\ xt[job.slot][1] = job.xt[1]
  /\ step \in {5, 6, 0} => xt[job.slot] = job.xt
  /\ step = 6 => ktmp = job.slot
  /\ step = 0 => vector[job.slot] = job.slot

WordInv ==
  /\ word = "none" => step = 0 /\ result = NoResult /\ job = NoJob
  /\ word \notin {"none", "irq"} => job = NoJob
  /\ word # "none" => /\ expect.top \in Seq(Vals) /\ Len(expect.top) = expect.depth
                      /\ expect.depth \in 0..MaxDepth
  /\ Done => Depth = expect.depth /\ Left(expect.depth) /\ result = expect.result
  /\ word = "@" => FetchInv
  /\ word = "execute" => ExecuteInv
  /\ word = "0branch" => BranchInv
  /\ word = "pick" => PickInv
  /\ word = "kernel" => KernelInv
  /\ word = "irq" => IrqInv

TablesInv ==
  /\ \A s \in Slots : xt[s] \in {Zero, Armed} \/ (At("irq", 4) /\ s = job.slot)
  /\ \A s \in Slots : vector[s] \in {s, None}
  /\ \A s \in Enableable \ {job.slot} : xt[s] = Armed => s \in ien /\ vector[s] = s
  /\ ran = Armed

HandlerInv ==
  /\ frame = None => x <= MaxDepth
  /\ frame # None => /\ frame <= x /\ x <= frame + HandlerCells
                     /\ saved[1] \in Vals /\ saved[2] \in 0..(MaxDepth + 3)

FirqInv == TypeOK /\ HandlerInv /\ WordInv /\ TablesInv

LEMMA FirqInitInv == Init => FirqInv
<1>. SUFFICES ASSUME Init PROVE FirqInv  OBVIOUS
<1>1. TypeOK
  <2>1. expect.depth = None  BY DEF Init, NoExpect
  <2>2. job \in [slot : Slots \cup {None}, xt : {Zero, Armed}]  BY DEF Init, NoJob
  <2>3. xt \in [Slots -> XtParts] /\ ran \in XtParts  BY DEF Init, XtParts, Zero, Armed
  <2>4. x \in 0..(MaxDepth + HandlerCells)  BY DEF Init
  <2>5. cells \in [AllCells -> Vals]  BY DEF Init
  <2>. QED BY <2>1, <2>2, <2>3, <2>4, <2>5 DEF Init, TypeOK, Vals, NoResult, None
<1>2. HandlerInv  BY DEF Init, HandlerInv
<1>3. WordInv  BY DEF Init, WordInv, Done, Idle
<1>4. TablesInv  BY DEF Init, TablesInv, Zero, Armed, Enableable
<1>. QED BY <1>1, <1>2, <1>3, <1>4 DEF FirqInv

\* What a handler may change changes nothing for the word, but in the windows.
LEMMA WordKept ==
  ASSUME FirqInv, Depth' = Depth, TrueW' = TrueW, TrueW3' = TrueW3,
         \A i \in 1..Depth : cells'[i] = cells[i],
         UNCHANGED <<acc, program, irq>>,
         ~At("0branch", 2), ~At("pick", 4), ~At("pick", 5), ~At("kernel", 2), ~At("irq", 4)
  PROVE  WordInv'
<1>1. /\ acc' = acc /\ word' = word /\ step' = step /\ result' = result /\ expect' = expect
      /\ job' = job /\ xt' = xt /\ ien' = ien /\ vector' = vector /\ ktmp' = ktmp
  BY DEF program, irq
<1>2. Depth \in 0..MaxDepth  BY DEF FirqInv, TypeOK, HandlerInv, Depth
<1>3. ASSUME NEW n \in Int, n <= Depth, Left(n)
      PROVE  \A i \in 1..n : expect'.top[i] = cells'[i]
  BY <1>1, <1>2, <1>3 DEF Left
<1>4. WordInv /\ TypeOK  BY DEF FirqInv
<1>5. Done' => Depth' = expect'.depth /\ Left(expect.depth)' /\ result' = expect'.result
  <2>. SUFFICES ASSUME Done PROVE Left(expect.depth)' /\ Depth = expect.depth /\ result = expect.result
    BY <1>1 DEF Done, Idle
  <2>1. Depth = expect.depth /\ Left(Depth) /\ result = expect.result  BY <1>4 DEF WordInv
  <2>. QED BY <1>1, <1>2, <1>3, <2>1 DEF Left
<1>6. CASE word = "none"
  BY <1>1, <1>4, <1>5, <1>6 DEF WordInv, Done, Idle, Left
<1>7. CASE word = "@"
  <2>1. FetchInv'
    BY <1>1, <1>2, <1>3, <1>4, <1>7 DEF WordInv, FetchInv, Left
  <2>. QED BY <1>1, <1>4, <1>5, <1>7, <2>1 DEF WordInv
<1>8. CASE word = "execute"
  <2>1. ExecuteInv'
    BY <1>1, <1>2, <1>3, <1>4, <1>8 DEF WordInv, ExecuteInv, Left
  <2>. QED BY <1>1, <1>4, <1>5, <1>8, <2>1 DEF WordInv
<1>9. CASE word = "0branch"
  <2>1. BranchInv'
    BY <1>1, <1>2, <1>3, <1>4, <1>9 DEF WordInv, BranchInv, Left, At
  <2>. QED BY <1>1, <1>4, <1>5, <1>9, <2>1 DEF WordInv
<1>10. CASE word = "pick"
  <2>1. PickInv  BY <1>4, <1>10 DEF WordInv
  <2>2. step # 0 => Left(expect.depth - 1)'
    <3>. SUFFICES ASSUME step # 0 PROVE Left(expect.depth - 1)'  OBVIOUS
    <3>1. Left(expect.depth - 1) /\ expect.depth \in 0..MaxDepth
      BY <1>4, <1>10, <2>1 DEF PickInv, WordInv
    <3>2. expect.depth <= Depth
      BY <1>2, <1>10, <2>1 DEF PickInv, At
    <3>3. expect.depth - 1 \in Int /\ expect.depth - 1 <= Depth  BY <1>2, <3>1, <3>2
    <3>. QED BY <1>1, <1>3, <3>1, <3>3 DEF Left
  <2>3. step \in 1..3 => /\ cells'[Depth] = cells[Depth]
                         /\ cells'[Depth - 1 - cells[Depth]] = cells[Depth - 1 - cells[Depth]]
    <3>. SUFFICES ASSUME step \in 1..3 PROVE /\ cells'[Depth] = cells[Depth]
                         /\ cells'[Depth - 1 - cells[Depth]] = cells[Depth - 1 - cells[Depth]]
      OBVIOUS
    <3>1. Depth > 0 /\ Depth > cells[Depth] + 1
      BY <2>1 DEF PickInv
    <3>2. Depth \in AllCells  BY <1>2, <3>1 DEF AllCells
    <3>3. cells[Depth] \in Vals  BY <1>4, <3>2 DEF TypeOK
    <3>4. Depth - 1 - cells[Depth] \in 1..Depth  BY <1>2, <3>1, <3>3 DEF Vals
    <3>. QED BY <1>2, <3>1, <3>4
  <2>4. PickInv'
    BY <1>1, <1>10, <2>1, <2>2, <2>3 DEF PickInv, At
  <2>. QED BY <1>1, <1>4, <1>5, <1>10, <2>4 DEF WordInv
<1>11. CASE word = "kernel"
  <2>1. KernelInv'
    BY <1>1, <1>2, <1>3, <1>4, <1>11 DEF WordInv, KernelInv, Left, At
  <2>. QED BY <1>1, <1>4, <1>5, <1>11, <2>1 DEF WordInv
<1>12. CASE word = "irq"
  <2>1. IrqInv'
    BY <1>1, <1>2, <1>3, <1>4, <1>12 DEF WordInv, IrqInv, Left, At
  <2>. QED BY <1>1, <1>4, <1>5, <1>12, <2>1 DEF WordInv
<1>. QED BY <1>4, <1>6, <1>7, <1>8, <1>9, <1>10, <1>11, <1>12 DEF TypeOK

\* A word other than IRQ leaves the tables alone.
LEMMA OtherWords ==
  ASSUME FirqInv, frame = None, word # "irq", word' = word,
         UNCHANGED <<expect, job, irq, handler>>,
         x' \in 0..MaxDepth, cells' \in [AllCells -> Vals], w' \in Vals,
         w3' \in 0..(MaxDepth + 3), acc' \in 0..(MaxDepth + 2), step' \in 0..6,
         result' \in Vals \cup {NoResult}, WordInv'
  PROVE  FirqInv'
<1>1. /\ expect' = expect /\ job' = job /\ xt' = xt /\ ien' = ien /\ vector' = vector
      /\ ktmp' = ktmp /\ saved' = saved /\ frame' = frame /\ ran' = ran
  BY DEF irq, handler
<1>2. TypeOK'
  <2>1. x' \in 0..(MaxDepth + HandlerCells)  OBVIOUS
  <2>. QED BY <1>1, <2>1 DEF FirqInv, TypeOK
<1>3. HandlerInv'  BY <1>1 DEF HandlerInv
<1>4. TablesInv'  BY <1>1 DEF FirqInv, TablesInv, At
<1>. QED BY <1>2, <1>3, <1>4 DEF FirqInv

\* What a handler does is outside of the windows.
LEMMA NoneBorrowed ==
  ASSUME FirqInv, frame # None
  PROVE  /\ ~At("0branch", 2) /\ ~At("pick", 4) /\ ~At("pick", 5) /\ ~At("kernel", 2)
         /\ ~At("irq", 4)
BY DEF FirqInv, WordInv, BranchInv, PickInv, KernelInv, IrqInv, At

\* In a handler the tables keep what they have.
LEMMA TablesKept ==
  ASSUME FirqInv, UNCHANGED <<program, irq>>, ran' = Armed
  PROVE  TablesInv'
BY DEF FirqInv, TablesInv, program, irq, At

LEMMA InterruptStep ==
  ASSUME Windows = {}, FirqInv, NEW s \in Slots, Interrupt(s)
  PROVE  FirqInv'
<1>1. /\ frame = None /\ vector[s] # None /\ x' = x /\ w3' = w3 /\ acc' = acc
      /\ UNCHANGED <<program, irq>>
  BY DEF Interrupt
<1>2. /\ ~At("0branch", 2) /\ ~At("pick", 4) /\ ~At("pick", 5) /\ ~At("kernel", 2)
      /\ ~At("irq", 4)
  BY DEF Interrupt, MayLand, InWindow
<1>3. vector[s] = s  BY <1>1 DEF FirqInv, TablesInv
<1>4. /\ xt[s] # Zero /\ saved' = <<w, w3>> /\ frame' = x /\ ran' = xt[s]
  BY <1>3 DEF Interrupt, firq_enter
<1>5. PICK v \in Vals : cells' = [cells EXCEPT ![x + 1] = v] /\ w' = v
  BY <1>3 DEF Interrupt, firq_enter
<1>6. ran' = Armed  BY <1>2, <1>4 DEF FirqInv, TablesInv
<1>7. /\ x \in 0..MaxDepth /\ x # None /\ w \in Vals /\ w3 \in 0..(MaxDepth + 3)
  BY <1>1 DEF FirqInv, TypeOK, HandlerInv, None
<1>8. cells' \in [AllCells -> Vals]  BY <1>5 DEF FirqInv, TypeOK
<1>9. TypeOK'
  BY <1>1, <1>4, <1>5, <1>6, <1>7, <1>8 DEF FirqInv, TypeOK, program, irq, XtParts, Armed
<1>10. HandlerInv'  BY <1>1, <1>4, <1>7 DEF HandlerInv
<1>11. /\ Depth = x /\ TrueW = w /\ TrueW3 = w3
       /\ Depth' = x /\ TrueW' = w /\ TrueW3' = w3
  BY <1>1, <1>4, <1>7 DEF Depth, TrueW, TrueW3
<1>12. \A i \in 1..Depth : cells'[i] = cells[i]
  BY <1>5, <1>7, <1>11 DEF FirqInv, TypeOK, AllCells
<1>13. WordInv'  BY <1>1, <1>2, <1>11, <1>12, WordKept
<1>14. TablesInv'  BY <1>1, <1>6, TablesKept
<1>. QED BY <1>9, <1>10, <1>13, <1>14 DEF FirqInv

LEMMA HandlerStep ==
  ASSUME FirqInv, Handler
  PROVE  FirqInv'
<1>1. /\ frame # None /\ acc' = acc /\ ran' = ran /\ UNCHANGED <<program, irq>>
  BY DEF Handler, HandlerPush, HandlerComputes, firq_done, regs, handler
<1>2. /\ ~At("0branch", 2) /\ ~At("pick", 4) /\ ~At("pick", 5) /\ ~At("kernel", 2)
      /\ ~At("irq", 4)
  BY <1>1, NoneBorrowed
<1>3. TablesInv'  BY <1>1, TablesKept DEF FirqInv, TablesInv
<1>4. /\ frame \in 0..MaxDepth /\ x \in 0..(MaxDepth + HandlerCells)
      /\ frame <= x /\ x <= frame + HandlerCells
      /\ saved[1] \in Vals /\ saved[2] \in 0..(MaxDepth + 3) /\ cells \in [AllCells -> Vals]
      /\ w \in Vals /\ w3 \in 0..(MaxDepth + 3)
  BY <1>1 DEF FirqInv, TypeOK, HandlerInv
<1>5. Depth = frame /\ TrueW = saved[1] /\ TrueW3 = saved[2]
  BY <1>1 DEF Depth, TrueW, TrueW3
<1>6. CASE HandlerPush
  <2>1. PICK v \in Vals : cells' = [cells EXCEPT ![x + 1] = v]  BY <1>6 DEF HandlerPush
  <2>2. x' = x + 1 /\ x < frame + HandlerCells /\ w' = w /\ w3' = w3 /\ saved' = saved /\ frame' = frame
    BY <1>6 DEF HandlerPush, regs, handler
  <2>3. x' \in 0..(MaxDepth + HandlerCells) /\ frame <= x' /\ x' <= frame + HandlerCells
    BY <1>4, <2>2
  <2>4. cells' \in [AllCells -> Vals]  BY <1>4, <2>1
  <2>5. TypeOK'  BY <1>1, <2>2, <2>3, <2>4 DEF FirqInv, TypeOK, program, irq
  <2>6. HandlerInv'  BY <1>1, <1>4, <2>2, <2>3 DEF HandlerInv
  <2>7. \A i \in 1..Depth : cells'[i] = cells[i]
    BY <1>4, <1>5, <2>1 DEF AllCells
  <2>8. Depth' = Depth /\ TrueW' = TrueW /\ TrueW3' = TrueW3
    BY <1>1, <2>2 DEF Depth, TrueW, TrueW3
  <2>9. WordInv'  BY <1>1, <1>2, <2>7, <2>8, WordKept
  <2>. QED BY <1>3, <2>5, <2>6, <2>9 DEF FirqInv
<1>7. CASE HandlerComputes
  <2>1. w' \in Vals /\ w3' \in Vals /\ x' = x /\ cells' = cells /\ saved' = saved /\ frame' = frame
    BY <1>7 DEF HandlerComputes, stack, handler
  <2>2. w3' \in 0..(MaxDepth + 3)  BY <2>1 DEF Vals
  <2>3. TypeOK'  BY <1>1, <2>1, <2>2 DEF FirqInv, TypeOK, program, irq
  <2>4. HandlerInv'  BY <1>1, <1>4, <2>1 DEF HandlerInv
  <2>5. Depth' = Depth /\ TrueW' = TrueW /\ TrueW3' = TrueW3
    BY <1>1, <2>1 DEF Depth, TrueW, TrueW3
  <2>6. WordInv'  BY <1>1, <1>2, <2>1, <2>5, WordKept
  <2>. QED BY <1>3, <2>3, <2>4, <2>6 DEF FirqInv
<1>8. CASE firq_done
  <2>1. w' = saved[1] /\ w3' = saved[2] /\ x' = frame /\ frame' = None /\ cells' = cells
    BY <1>8 DEF firq_done
  <2>2. x' \in 0..(MaxDepth + HandlerCells) /\ x' <= MaxDepth  BY <1>4, <2>1
  <2>3. TypeOK'  BY <1>1, <1>4, <2>1, <2>2 DEF FirqInv, TypeOK, program, irq
  <2>4. HandlerInv'  BY <2>1, <2>2 DEF HandlerInv
  <2>5. Depth' = Depth /\ TrueW' = TrueW /\ TrueW3' = TrueW3
    BY <1>5, <2>1 DEF Depth, TrueW, TrueW3
  <2>6. WordInv'  BY <1>1, <1>2, <2>1, <2>5, WordKept
  <2>. QED BY <1>3, <2>3, <2>4, <2>6 DEF FirqInv
<1>. QED BY <1>6, <1>7, <1>8 DEF Handler

\* Outside of a handler the program has what is its own.
LEMMA Plain ==
  ASSUME FirqInv, frame = None, UNCHANGED handler
  PROVE  /\ Depth = x /\ TrueW = w /\ TrueW3 = w3
         /\ Depth' = x' /\ TrueW' = w' /\ TrueW3' = w3'
         /\ x \in 0..MaxDepth /\ cells \in [AllCells -> Vals] /\ w \in Vals
         /\ w3 \in 0..(MaxDepth + 3) /\ acc \in 0..(MaxDepth + 2)
         /\ step \in 0..6 /\ result \in Vals \cup {NoResult}
         /\ WordInv /\ 1..MaxDepth \subseteq AllCells
BY DEF FirqInv, TypeOK, HandlerInv, Depth, TrueW, TrueW3, handler, AllCells

LEMMA FetchStep ==
  ASSUME FirqInv, frame = None, Fetch
  PROVE  FirqInv'
<1>1. /\ word = "@" /\ word' = word /\ UNCHANGED <<expect, job, handler>>
      /\ x' = x /\ w3' = w3 /\ acc' = acc /\ result' = result /\ UNCHANGED irq
  BY DEF Fetch, At, Goto, stack, regs
<1>2. /\ Depth = x /\ TrueW = w /\ TrueW3 = w3
      /\ Depth' = x' /\ TrueW' = w' /\ TrueW3' = w3'
      /\ x \in 0..MaxDepth /\ cells \in [AllCells -> Vals] /\ w \in Vals
      /\ w3 \in 0..(MaxDepth + 3) /\ acc \in 0..(MaxDepth + 2)
      /\ result \in Vals \cup {NoResult} /\ WordInv /\ 1..MaxDepth \subseteq AllCells
  BY <1>1, Plain
<1>3. FetchInv /\ expect.depth \in 0..MaxDepth  BY <1>1, <1>2 DEF WordInv
<1>4. step # 0  BY DEF Fetch, At
<1>5. x \in AllCells /\ expect.depth = x /\ Left(x - 1) /\ expect.top[x] = Mem(cells[x])
      /\ result = expect.result
  BY <1>2, <1>3, <1>4 DEF FetchInv
<1>6. CASE At("@", 1) /\ w' = cells[x] /\ step' = 2 /\ cells' = cells
  <2>1. w' \in Vals  BY <1>2, <1>5, <1>6
  <2>2. expect'.depth = Depth' /\ Depth' > 0 /\ result' = expect'.result /\ TrueW' = cells'[Depth']
    BY <1>1, <1>2, <1>3, <1>4, <1>5, <1>6 DEF FetchInv
  <2>3. Left(expect.depth - 1)' /\ expect'.top[Depth'] = Mem(cells'[Depth'])
    <3>1. expect' = expect /\ cells' = cells /\ Depth' = x /\ expect.depth = x
      BY <1>1, <1>2, <1>5, <1>6
    <3>. QED BY <1>5, <3>1 DEF Left, Mem
  <2>4. FetchInv'  BY <1>6, <2>2, <2>3 DEF FetchInv
  <2>5. WordInv'  BY <1>1, <1>2, <1>6, <2>4 DEF WordInv, Done
  <2>. QED BY <1>1, <1>2, <1>6, <2>1, <2>5, OtherWords
<1>7. CASE At("@", 2) /\ cells' = [cells EXCEPT ![x] = Mem(w)] /\ step' = 0 /\ w' = w
  <2>1. w = cells[x]  BY <1>2, <1>3, <1>7 DEF FetchInv, At
  <2>2. Mem(w) \in Vals  BY <1>2 DEF Mem, Vals
  <2>3. cells' \in [AllCells -> Vals]  BY <1>2, <1>7, <2>2
  <2>4. \A j \in 1..x : expect.top[j] = cells'[j]
    <3>. TAKE j \in 1..x
    <3>1. j \in AllCells  BY <1>2
    <3>2. CASE j = x  BY <1>2, <1>5, <1>7, <2>1, <3>1, <3>2
    <3>3. CASE j # x
      <4>1. j \in 1..(x - 1)  BY <1>2, <3>3
      <4>. QED BY <1>2, <1>5, <1>7, <3>1, <3>3, <4>1 DEF Left
    <3>. QED BY <3>2, <3>3
  <2>5. FetchInv'  BY <1>7 DEF FetchInv
  <2>6. WordInv'  BY <1>1, <1>2, <1>5, <1>7, <2>4, <2>5 DEF WordInv, Done, Idle, Left
  <2>. QED BY <1>1, <1>2, <1>7, <2>3, <2>6, OtherWords
<1>. QED BY <1>6, <1>7 DEF Fetch, Goto, regs, stack

LEMMA ExecuteStep ==
  ASSUME FirqInv, frame = None, EXECUTE
  PROVE  FirqInv'
<1>1. /\ word = "execute" /\ word' = word /\ UNCHANGED <<expect, job, handler>>
      /\ cells' = cells /\ w3' = w3 /\ acc' = acc /\ UNCHANGED irq
  BY DEF EXECUTE, At, Goto, stack, regs
<1>2. /\ Depth = x /\ TrueW = w /\ TrueW3 = w3
      /\ Depth' = x' /\ TrueW' = w' /\ TrueW3' = w3'
      /\ x \in 0..MaxDepth /\ cells \in [AllCells -> Vals] /\ w \in Vals
      /\ w3 \in 0..(MaxDepth + 3) /\ acc \in 0..(MaxDepth + 2)
      /\ result \in Vals \cup {NoResult} /\ WordInv /\ 1..MaxDepth \subseteq AllCells
  BY <1>1, Plain
<1>3. ExecuteInv /\ expect.depth \in 0..MaxDepth  BY <1>1, <1>2 DEF WordInv
<1>4. CASE At("execute", 1) /\ w' = cells[x] /\ step' = 2 /\ x' = x /\ result' = result
  <2>1. x \in 1..MaxDepth  BY <1>2, <1>3, <1>4 DEF ExecuteInv, At
  <2>2. w' \in Vals  BY <1>2, <1>4, <2>1
  <2>3. ExecuteInv'  BY <1>1, <1>2, <1>3, <1>4 DEF ExecuteInv, At, Left
  <2>4. WordInv'  BY <1>1, <1>2, <1>4, <2>3 DEF WordInv, Done
  <2>. QED BY <1>1, <1>2, <1>4, <2>2, <2>4, OtherWords
<1>5. CASE At("execute", 2) /\ x' = x - 1 /\ step' = 3 /\ w' = w /\ result' = result
  <2>1. x \in 1..MaxDepth  BY <1>2, <1>3, <1>5 DEF ExecuteInv, At
  <2>2. x' \in 0..MaxDepth  BY <1>5, <2>1
  <2>3. ExecuteInv'  BY <1>1, <1>2, <1>3, <1>5 DEF ExecuteInv, At, Left
  <2>4. WordInv'  BY <1>1, <1>2, <1>5, <2>3 DEF WordInv, Done
  <2>. QED BY <1>1, <1>2, <1>5, <2>2, <2>4, OtherWords
<1>6. CASE At("execute", 3) /\ result' = w /\ step' = 0 /\ x' = x /\ w' = w
  <2>1. ExecuteInv'  BY <1>6 DEF ExecuteInv
  <2>2. result' = expect.result /\ expect.depth = x /\ Left(x)
    BY <1>2, <1>3, <1>6 DEF ExecuteInv, At
  <2>3. WordInv'  BY <1>1, <1>2, <1>6, <2>1, <2>2 DEF WordInv, Done, Idle, Left
  <2>. QED BY <1>1, <1>2, <1>6, <2>3, OtherWords
<1>. QED BY <1>4, <1>5, <1>6 DEF EXECUTE, Goto, regs, stack

LEMMA BranchStep ==
  ASSUME FirqInv, frame = None, ZBRANCH
  PROVE  FirqInv'
<1>1. /\ word = "0branch" /\ word' = word /\ UNCHANGED <<expect, job, handler>>
      /\ cells' = cells /\ w' = w /\ w3' = w3 /\ acc' = acc /\ UNCHANGED irq
  BY DEF ZBRANCH, At, Goto, stack, regs
<1>2. /\ Depth = x /\ Depth' = x' /\ frame' = None
      /\ x \in 0..MaxDepth /\ cells \in [AllCells -> Vals] /\ w \in Vals
      /\ w3 \in 0..(MaxDepth + 3) /\ acc \in 0..(MaxDepth + 2)
      /\ result \in Vals \cup {NoResult} /\ WordInv /\ 1..MaxDepth \subseteq AllCells
  BY <1>1, Plain DEF handler
<1>3. BranchInv /\ expect.depth \in 0..MaxDepth  BY <1>1, <1>2 DEF WordInv
<1>4. CASE At("0branch", 1) /\ x' = x - 1 /\ step' = 2 /\ result' = result
  <2>1. x \in 1..MaxDepth /\ x - 1 = expect.depth /\ expect.result = cells[x]
        /\ Left(expect.depth)
    BY <1>2, <1>3, <1>4 DEF BranchInv, At
  <2>2. x' \in 0..MaxDepth /\ x' + 1 = x  BY <1>4, <2>1
  <2>3. BranchInv'  BY <1>1, <1>2, <1>4, <2>1, <2>2 DEF BranchInv, Left
  <2>4. WordInv'  BY <1>1, <1>2, <1>4, <2>3 DEF WordInv, Done
  <2>. QED BY <1>1, <1>2, <1>4, <2>2, <2>4, OtherWords
<1>5. CASE At("0branch", 2) /\ result' = cells[x + 1] /\ step' = 0 /\ x' = x
  <2>1. x = expect.depth /\ cells[x + 1] = expect.result /\ Left(x)
    BY <1>2, <1>3, <1>5 DEF BranchInv, At
  <2>2. x + 1 \in AllCells  BY <1>2 DEF AllCells
  <2>3. result' \in Vals  BY <1>2, <1>5, <2>2
  <2>4. BranchInv'  BY <1>5 DEF BranchInv
  <2>5. WordInv'  BY <1>1, <1>2, <1>5, <2>1, <2>4 DEF WordInv, Done, Idle, Left
  <2>. QED BY <1>1, <1>2, <1>5, <2>3, <2>5, OtherWords
<1>. QED BY <1>4, <1>5 DEF ZBRANCH, Goto, regs, stack

LEMMA KernelStep ==
  ASSUME FirqInv, frame = None, Kernel
  PROVE  FirqInv'
<1>1. /\ word = "kernel" /\ word' = word /\ UNCHANGED <<expect, job, handler>>
      /\ cells' = cells /\ w' = w /\ w3' = w3 /\ result' = result /\ UNCHANGED irq
  BY DEF Kernel, At, Goto, stack, regs
<1>2. /\ Depth = x /\ Depth' = x' /\ frame' = None
      /\ x \in 0..MaxDepth /\ cells \in [AllCells -> Vals] /\ w \in Vals
      /\ w3 \in 0..(MaxDepth + 3) /\ acc \in 0..(MaxDepth + 2)
      /\ result \in Vals \cup {NoResult} /\ WordInv
  BY <1>1, Plain DEF handler
<1>3. KernelInv /\ expect.depth \in 0..MaxDepth  BY <1>1, <1>2 DEF WordInv
<1>4. CASE At("kernel", 1) /\ acc' = x /\ x' \in 0..MaxDepth /\ step' = 2
  <2>1. acc' \in 0..(MaxDepth + 2)  BY <1>2, <1>4
  <2>2. KernelInv'  BY <1>1, <1>2, <1>3, <1>4 DEF KernelInv, At, Left
  <2>3. WordInv'  BY <1>1, <1>2, <1>4, <2>2 DEF WordInv, Done
  <2>. QED BY <1>1, <1>2, <1>4, <2>1, <2>3, OtherWords
<1>5. CASE At("kernel", 2) /\ x' = acc /\ step' = 0 /\ acc' = acc
  <2>1. acc = expect.depth /\ Left(expect.depth) /\ result = expect.result
    BY <1>3, <1>5 DEF KernelInv, At
  <2>2. KernelInv'  BY <1>5 DEF KernelInv
  <2>3. WordInv'  BY <1>1, <1>2, <1>5, <2>1, <2>2 DEF WordInv, Done, Idle, Left
  <2>. QED BY <1>1, <1>2, <1>3, <1>5, <2>1, <2>3, OtherWords
<1>. QED BY <1>4, <1>5 DEF Kernel, Goto, regs, stack

LEMMA PickStep ==
  ASSUME FirqInv, frame = None, Pick
  PROVE  FirqInv'
<1>1. /\ word = "pick" /\ word' = word /\ UNCHANGED <<expect, job, handler>>
      /\ result' = result /\ UNCHANGED irq
  BY DEF Pick, At, Goto, stack, regs
<1>2. /\ Depth = x /\ TrueW = w /\ TrueW3 = w3 /\ frame' = None
      /\ Depth' = x' /\ TrueW' = w' /\ TrueW3' = w3'
      /\ x \in 0..MaxDepth /\ cells \in [AllCells -> Vals] /\ w \in Vals
      /\ w3 \in 0..(MaxDepth + 3) /\ acc \in 0..(MaxDepth + 2)
      /\ result \in Vals \cup {NoResult} /\ WordInv /\ 1..MaxDepth \subseteq AllCells
  BY <1>1, Plain DEF handler
<1>3. /\ PickInv /\ expect.depth \in 0..MaxDepth
      /\ expect.top \in Seq(Vals) /\ Len(expect.top) = expect.depth
  BY <1>1, <1>2 DEF WordInv
<1>4. step # 0  BY DEF Pick, At
<1>5. /\ result = expect.result /\ expect.depth \in 1..MaxDepth /\ Left(expect.depth - 1)
      /\ expect.top[expect.depth] \in Vals
  BY <1>3, <1>4 DEF PickInv
<1>6. step' # 0 /\ PickInv' => WordInv'
  BY <1>1, <1>2 DEF WordInv, Done
<1>7. cells' = cells => Left(expect.depth - 1)'  BY <1>1, <1>5 DEF Left
<1>8. step \in 1..3 => /\ x = expect.depth /\ x > cells[x] + 1 /\ cells[x] \in Vals
                       /\ expect.top[x] = cells[x - 1 - cells[x]]
  BY <1>2, <1>3, <1>5 DEF PickInv
<1>9. CASE At("pick", 1) /\ w3' = x /\ step' = 2 /\ x' = x /\ cells' = cells /\ w' = w /\ acc' = acc
  <2>1. PickInv'  BY <1>1, <1>2, <1>5, <1>7, <1>8, <1>9 DEF PickInv, At
  <2>. QED BY <1>1, <1>2, <1>6, <1>9, <2>1, OtherWords
<1>10. CASE At("pick", 2) /\ w' = cells[x] /\ step' = 3 /\ x' = x /\ cells' = cells /\ w3' = w3 /\ acc' = acc
  <2>1. w3 = expect.depth  BY <1>2, <1>3, <1>10 DEF PickInv, At
  <2>2. PickInv'  BY <1>1, <1>2, <1>5, <1>7, <1>8, <1>10, <2>1 DEF PickInv, At
  <2>3. w' \in Vals  BY <1>8, <1>10 DEF At
  <2>. QED BY <1>1, <1>2, <1>6, <1>10, <2>2, <2>3, OtherWords
<1>11. CASE At("pick", 3) /\ x' = x - w /\ step' = 4 /\ cells' = cells /\ w' = w /\ w3' = w3 /\ acc' = acc
  <2>1. w3 = expect.depth /\ w = cells[x] /\ x = expect.depth /\ x > w + 1
        /\ expect.top[x] = cells[x - 1 - w]
    BY <1>2, <1>3, <1>8, <1>11 DEF PickInv, At
  <2>2. x' \in 0..MaxDepth /\ x' > 1 /\ x' - 1 = x - 1 - w  BY <1>2, <1>11, <2>1 DEF Vals
  <2>3. PickInv'  BY <1>1, <1>2, <1>5, <1>7, <1>11, <2>1, <2>2 DEF PickInv
  <2>. QED BY <1>1, <1>2, <1>6, <1>11, <2>2, <2>3, OtherWords
<1>12. CASE At("pick", 4) /\ acc' = cells[x - 1] /\ step' = 5 /\ x' = x /\ cells' = cells /\ w' = w /\ w3' = w3
  <2>1. w3 = expect.depth /\ acc' = expect.top[expect.depth]
    BY <1>2, <1>3, <1>12 DEF PickInv, At
  <2>2. acc' \in 0..(MaxDepth + 2)  BY <1>5, <2>1, FirqAssumption DEF Vals
  <2>3. PickInv'  BY <1>1, <1>2, <1>5, <1>7, <1>12, <2>1 DEF PickInv
  <2>. QED BY <1>1, <1>2, <1>6, <1>12, <2>2, <2>3, OtherWords
<1>13. CASE At("pick", 5) /\ x' = w3 /\ step' = 6 /\ cells' = cells /\ w' = w /\ w3' = w3 /\ acc' = acc
  <2>1. w3 = expect.depth /\ acc = expect.top[expect.depth]
    BY <1>2, <1>3, <1>13 DEF PickInv, At
  <2>2. PickInv'  BY <1>1, <1>2, <1>5, <1>7, <1>13, <2>1 DEF PickInv
  <2>. QED BY <1>1, <1>2, <1>3, <1>6, <1>13, <2>1, <2>2, OtherWords
<1>14. CASE At("pick", 6) /\ cells' = [cells EXCEPT ![x] = acc] /\ step' = 0 /\ x' = x /\ w' = w /\ w3' = w3 /\ acc' = acc
  <2>1. x = expect.depth /\ acc = expect.top[x]
    BY <1>2, <1>3, <1>14 DEF PickInv, At
  <2>2. cells' \in [AllCells -> Vals]  BY <1>2, <1>5, <1>14, <2>1
  <2>3. \A j \in 1..x : expect.top[j] = cells'[j]
    <3>. TAKE j \in 1..x
    <3>1. j \in AllCells  BY <1>2
    <3>2. CASE j = x  BY <1>2, <1>14, <2>1, <3>1, <3>2
    <3>3. CASE j # x
      <4>1. j \in 1..(x - 1)  BY <1>2, <3>3
      <4>. QED BY <1>2, <1>5, <1>14, <2>1, <3>1, <3>3, <4>1 DEF Left
    <3>. QED BY <3>2, <3>3
  <2>4. PickInv'  BY <1>14 DEF PickInv
  <2>5. WordInv'  BY <1>1, <1>2, <1>5, <1>14, <2>1, <2>3, <2>4 DEF WordInv, Done, Idle, Left
  <2>. QED BY <1>1, <1>2, <1>14, <2>2, <2>5, OtherWords
<1>. QED BY <1>9, <1>10, <1>11, <1>12, <1>13, <1>14 DEF Pick, Goto, regs, stack

\* IRQ leaves the stack as it is and every other slot alone.
LEMMA ArmingStep ==
  ASSUME FirqInv, frame = None, SetEnable \/ FIRQ_SET
  PROVE  FirqInv'
<1>1. /\ word = "irq" /\ word' = word /\ UNCHANGED <<expect, job, handler>>
      /\ x' = x /\ cells' = cells /\ w' = w /\ acc' = acc /\ result' = result
  BY DEF SetEnable, FIRQ_SET, At, Goto, stack, regs
<1>2. /\ Depth = x /\ TrueW = w /\ TrueW3 = w3 /\ frame' = None /\ saved' = saved /\ ran' = ran
      /\ Depth' = x' /\ TrueW' = w' /\ TrueW3' = w3'
      /\ x \in 0..MaxDepth /\ w3 \in 0..(MaxDepth + 3) /\ WordInv
  BY <1>1, Plain DEF handler
<1>3. IrqInv /\ TypeOK /\ TablesInv /\ HandlerInv  BY <1>1, <1>2 DEF FirqInv, WordInv
<1>4. /\ job.slot \in Slots /\ job.xt \in {Zero, Armed} /\ job' = job
      /\ job.slot \in 0..(MaxDepth + 3)
  <2>1. job \in [slot : Slots \cup {None}, xt : {Zero, Armed}] /\ job.slot \in Slots
    BY <1>3 DEF IrqInv, TypeOK
  <2>2. job.slot \in 0..3  BY <2>1
  <2>3. job.slot \in 0..(MaxDepth + 3)  BY <2>2
  <2>4. job.xt \in {Zero, Armed}
    <3>1. PICK a \in Slots \cup {None}, b \in {Zero, Armed} : job = [slot |-> a, xt |-> b]  BY <2>1
    <3>. QED BY <3>1
  <2>. QED BY <1>1, <2>1, <2>3, <2>4
<1>5. ASSUME IrqInv', TablesInv', step' \in 0..6, w3' \in 0..(MaxDepth + 3), xt' \in [Slots -> XtParts],
             ien' \subseteq Slots, vector' \in [Slots -> Slots \cup {None}],
             ktmp' \in Slots \cup {None}
      PROVE  FirqInv'
  <2>1. TypeOK'  BY <1>1, <1>2, <1>3, <1>5 DEF TypeOK
  <2>2. HandlerInv'  BY <1>1, <1>2 DEF HandlerInv
  <2>3. WordInv'  BY <1>1, <1>2, <1>5 DEF WordInv, IrqInv
  <2>. QED BY <1>5, <2>1, <2>2, <2>3 DEF FirqInv
<1>6. Depth' = expect'.depth /\ Left(expect.depth)' /\ result' = expect'.result
  BY <1>1, <1>2, <1>3 DEF IrqInv, Left
<1>7. CASE SetEnable
  <2>1. step = 1 /\ step' = 2 /\ w3' = w3 /\ xt' = xt /\ vector' = vector /\ ktmp' = ktmp
        /\ ien' = IF job.slot \in Enableable THEN Enables ELSE ien
    BY <1>7 DEF SetEnable, At, Goto, regs
  <2>2. IrqInv'  BY <1>1, <1>3, <1>4, <1>6, <2>1 DEF IrqInv, Enables
  <2>3. TablesInv'  BY <1>1, <1>2, <1>3, <1>4, <2>1 DEF TablesInv, At, Enables
  <2>4. ien' \subseteq Slots  BY <1>3, <1>4, <2>1 DEF TypeOK, Enables
  <2>. QED BY <1>2, <1>3, <1>5, <2>1, <2>2, <2>3, <2>4 DEF TypeOK
<1>8. CASE step = 2 /\ w3' = job.slot /\ step' = 3 /\ UNCHANGED irq
  <2>1. xt' = xt /\ ien' = ien /\ vector' = vector /\ ktmp' = ktmp  BY <1>8 DEF irq
  <2>2. IrqInv'  BY <1>1, <1>2, <1>3, <1>4, <1>6, <1>8, <2>1 DEF IrqInv
  <2>3. TablesInv'  BY <1>1, <1>2, <1>3, <1>4, <1>8, <2>1 DEF TablesInv, At
  <2>. QED BY <1>3, <1>4, <1>5, <1>8, <2>1, <2>2, <2>3 DEF TypeOK
<1>9. CASE /\ step = 3 /\ xt' = [xt EXCEPT ![w3] = <<job.xt[1], @[2]>>]
           /\ step' = 4 /\ UNCHANGED <<w3, ien, vector, ktmp>>
  <2>1. w3 = job.slot /\ xt[w3] \in XtParts  BY <1>2, <1>3, <1>4, <1>9 DEF IrqInv, TypeOK
  <2>2. <<job.xt[1], xt[w3][2]>> \in XtParts  BY <1>4, <2>1 DEF XtParts, Zero, Armed
  <2>3. /\ xt' \in [Slots -> XtParts] /\ xt'[job.slot] = <<job.xt[1], xt[w3][2]>>
        /\ \A s \in Slots \ {job.slot} : xt'[s] = xt[s]
    BY <1>3, <1>4, <1>9, <2>1, <2>2 DEF TypeOK
  <2>4. xt'[job.slot][1] = job.xt[1]  BY <2>3
  <2>5. IrqInv'  BY <1>1, <1>2, <1>3, <1>4, <1>6, <1>9, <2>4 DEF IrqInv
  <2>6. TablesInv'  BY <1>1, <1>2, <1>3, <1>4, <1>9, <2>3 DEF TablesInv, At, Enableable
  <2>. QED BY <1>2, <1>3, <1>5, <1>9, <2>3, <2>5, <2>6 DEF TypeOK
<1>10. CASE /\ step = 4 /\ xt' = [xt EXCEPT ![w3] = <<@[1], job.xt[2]>>]
            /\ step' = 5 /\ UNCHANGED <<w3, ien, vector, ktmp>>
  <2>1. w3 = job.slot /\ xt[job.slot][1] = job.xt[1]  BY <1>2, <1>3, <1>4, <1>10 DEF IrqInv
  <2>2. <<xt[w3][1], job.xt[2]>> = job.xt /\ job.xt \in XtParts
    BY <1>4, <2>1 DEF XtParts, Zero, Armed
  <2>3. /\ xt' \in [Slots -> XtParts] /\ xt'[job.slot] = job.xt
        /\ \A s \in Slots \ {job.slot} : xt'[s] = xt[s]
    BY <1>3, <1>4, <1>10, <2>1, <2>2 DEF TypeOK
  <2>4. IrqInv'  BY <1>1, <1>2, <1>3, <1>4, <1>6, <1>10, <2>1, <2>3 DEF IrqInv
  <2>5. TablesInv'  BY <1>1, <1>2, <1>3, <1>4, <1>10, <2>3 DEF TablesInv, At, Enableable
  <2>. QED BY <1>2, <1>3, <1>5, <1>10, <2>3, <2>4, <2>5 DEF TypeOK
<1>11. CASE /\ step = 5 /\ ktmp' = Entry(w3)
            /\ step' = 6 /\ UNCHANGED <<w3, xt, ien, vector>>
  <2>1. w3 = job.slot /\ ktmp' = job.slot  BY <1>2, <1>3, <1>11 DEF IrqInv, Entry
  <2>2. IrqInv'  BY <1>1, <1>2, <1>3, <1>4, <1>6, <1>11, <2>1 DEF IrqInv
  <2>3. TablesInv'  BY <1>1, <1>2, <1>3, <1>4, <1>11 DEF TablesInv, At
  <2>. QED BY <1>2, <1>3, <1>4, <1>5, <1>11, <2>1, <2>2, <2>3 DEF TypeOK
<1>12. CASE /\ step = 6 /\ vector' = [vector EXCEPT ![w3] = ktmp] /\ ktmp' = vector[w3]
            /\ step' = 0 /\ UNCHANGED <<w3, xt, ien>>
  <2>1. w3 = job.slot /\ ktmp = job.slot  BY <1>2, <1>3, <1>12 DEF IrqInv
  <2>2. /\ vector' \in [Slots -> Slots \cup {None}] /\ ktmp' \in Slots \cup {None}
        /\ vector'[job.slot] = job.slot /\ \A s \in Slots \ {job.slot} : vector'[s] = vector[s]
    BY <1>3, <1>4, <1>12, <2>1 DEF TypeOK
  <2>3. IrqInv'  BY <1>1, <1>2, <1>3, <1>4, <1>6, <1>12, <2>2 DEF IrqInv
  <2>4. TablesInv'  BY <1>1, <1>2, <1>3, <1>4, <1>12, <2>2 DEF TablesInv, At, Enableable
  <2>. QED BY <1>2, <1>3, <1>5, <1>12, <2>2, <2>3, <2>4 DEF TypeOK
<1>. QED BY <1>7, <1>8, <1>9, <1>10, <1>11, <1>12 DEF FIRQ_SET, At, Goto, regs

\* The cells of the program as a sequence.
LEMMA StackIs ==
  ASSUME x \in 0..MaxDepth, cells \in [AllCells -> Vals]
  PROVE  /\ Stack \in Seq(Vals) /\ Len(Stack) = x
         /\ \A i \in 1..x : Stack[i] = cells[i] /\ cells[i] \in Vals
         /\ \A v \in Vals : x > 0 =>
              /\ [Stack EXCEPT ![x] = v] \in Seq(Vals) /\ Len([Stack EXCEPT ![x] = v]) = x
              /\ [Stack EXCEPT ![x] = v][x] = v
              /\ \A i \in 1..(x - 1) : [Stack EXCEPT ![x] = v][i] = cells[i]
         /\ x > 0 => /\ SubSeq(Stack, 1, x - 1) \in Seq(Vals)
                     /\ Len(SubSeq(Stack, 1, x - 1)) = x - 1
                     /\ \A i \in 1..(x - 1) : SubSeq(Stack, 1, x - 1)[i] = cells[i]
<1>1. 1..x \subseteq AllCells  BY DEF AllCells
<1>2. Stack \in [1..x -> Vals]  BY <1>1 DEF Stack
<1>3. Stack \in Seq(Vals) /\ Len(Stack) = x  BY <1>2
<1>4. \A i \in 1..x : Stack[i] = cells[i] /\ cells[i] \in Vals  BY <1>1 DEF Stack
<1>5. ASSUME NEW v \in Vals, x > 0
      PROVE  /\ [Stack EXCEPT ![x] = v] \in Seq(Vals) /\ Len([Stack EXCEPT ![x] = v]) = x
             /\ [Stack EXCEPT ![x] = v][x] = v
             /\ \A i \in 1..(x - 1) : [Stack EXCEPT ![x] = v][i] = cells[i]
  <2>. DEFINE put == [Stack EXCEPT ![x] = v]
  <2>1. put \in [1..x -> Vals]  BY <1>2, <1>5
  <2>2. put[x] = v /\ \A i \in 1..(x - 1) : put[i] = cells[i]  BY <1>2, <1>4, <1>5
  <2>3. put \in Seq(Vals) /\ Len(put) = x
    <3>. HIDE DEF put
    <3>. QED BY <2>1
  <2>. QED BY <2>2, <2>3
<1>6. ASSUME x > 0
      PROVE  /\ SubSeq(Stack, 1, x - 1) \in Seq(Vals)
             /\ Len(SubSeq(Stack, 1, x - 1)) = x - 1
             /\ \A i \in 1..(x - 1) : SubSeq(Stack, 1, x - 1)[i] = cells[i]
  BY <1>3, <1>4, <1>6
<1>. QED BY <1>3, <1>4, <1>5, <1>6

\* What is to be shown of a word that begins.
LEMMA Begins ==
  ASSUME FirqInv, frame = None, NEW name \in {"@", "execute", "0branch", "pick", "kernel", "irq"},
         NEW d \in 0..MaxDepth, NEW c \in Seq(Vals), Len(c) = d, NEW r,
         Begin(name, d, c, r), job' \in [slot : Slots \cup {None}, xt : {Zero, Armed}],
         name # "irq" => job' = NoJob,
         name = "@" => FetchInv', name = "execute" => ExecuteInv', name = "0branch" => BranchInv',
         name = "pick" => PickInv', name = "kernel" => KernelInv', name = "irq" => IrqInv'
  PROVE  FirqInv'
<1>1. /\ word = "none" /\ word' = name /\ step' = 1 /\ expect' = [depth |-> d, top |-> c, result |-> r]
      /\ x' = x /\ cells' = cells /\ w' = w /\ w3' = w3 /\ acc' = acc /\ result' = result
      /\ xt' = xt /\ ien' = ien /\ vector' = vector /\ ktmp' = ktmp
      /\ saved' = saved /\ frame' = frame /\ ran' = ran
  BY DEF Begin, Idle, stack, regs, irq, handler
<1>2. expect'.depth = d /\ expect'.top = c  BY <1>1
<1>3. TypeOK'  BY <1>1, <1>2 DEF FirqInv, TypeOK
<1>4. HandlerInv'  BY <1>1 DEF FirqInv, HandlerInv
<1>5. WordInv'  BY <1>1, <1>2 DEF WordInv, Done
<1>6. job.slot \notin Enableable /\ step = 0
  BY <1>1 DEF FirqInv, WordInv, NoJob, Enableable, None
<1>7. TablesInv'  BY <1>1, <1>6 DEF FirqInv, TablesInv, At
<1>. QED BY <1>3, <1>4, <1>5, <1>7 DEF FirqInv

LEMMA WordsStep ==
  ASSUME FirqInv, frame = None, Words
  PROVE  FirqInv'
<1>1. /\ word = "none" /\ step' = 1 /\ x' = x /\ cells' = cells /\ result' = result
      /\ frame' = None /\ xt' = xt /\ UNCHANGED handler
  BY DEF Words, Begin, Idle, stack, regs, irq, handler
<1>2. /\ Depth = x /\ Depth' = x /\ x \in 0..MaxDepth /\ cells \in [AllCells -> Vals]
      /\ WordInv /\ 1..MaxDepth \subseteq AllCells
  BY <1>1, Plain
<1>3. result = NoResult /\ job = NoJob  BY <1>1, <1>2 DEF WordInv
<1>4. NoJob \in [slot : Slots \cup {None}, xt : {Zero, Armed}]  BY DEF NoJob
<1>5. x > 0 => cells[x] \in Vals  BY <1>2, StackIs
<1>. HIDE DEF Stack
<1>6. ASSUME x > 0, job' = job, Begin("@", x, [Stack EXCEPT ![x] = Mem(cells[x])], NoResult)
      PROVE  FirqInv'
  <2>. DEFINE c == [Stack EXCEPT ![x] = Mem(cells[x])]
  <2>1. Mem(cells[x]) \in Vals  BY <1>5, <1>6 DEF Mem, Vals
  <2>2. /\ c \in Seq(Vals) /\ Len(c) = x /\ c[x] = Mem(cells[x])
        /\ \A i \in 1..(x - 1) : c[i] = cells[i]
    BY <1>2, <1>6, <2>1, StackIs
  <2>. HIDE DEF c
  <2>3. expect' = [depth |-> x, top |-> c, result |-> NoResult]  BY <1>6 DEF Begin, c
  <2>4. FetchInv'
    <3>1. expect'.depth = x /\ expect'.top = c /\ expect'.result = NoResult  BY <2>3
    <3>2. Left(expect.depth - 1)'  BY <1>1, <2>2, <3>1 DEF Left
    <3>3. expect'.top[Depth'] = Mem(cells'[Depth'])  BY <1>1, <1>2, <2>2, <3>1 DEF Mem
    <3>. QED BY <1>1, <1>2, <1>3, <1>6, <3>1, <3>2, <3>3 DEF FetchInv
  <2>5. Begin("@", x, c, NoResult)  BY <1>6 DEF c
  <2>. QED BY <1>2, <1>3, <1>4, <1>6, <2>2, <2>4, <2>5, Begins
<1>7. ASSUME x > 0, job' = job,
             \/ Begin("execute", x - 1, SubSeq(Stack, 1, x - 1), cells[x])
             \/ Begin("0branch", x - 1, SubSeq(Stack, 1, x - 1), cells[x])
      PROVE  FirqInv'
  <2>. DEFINE c == SubSeq(Stack, 1, x - 1)
  <2>2. /\ c \in Seq(Vals) /\ Len(c) = x - 1
        /\ \A i \in 1..(x - 1) : c[i] = cells[i]
    BY <1>2, <1>7, StackIs
  <2>. HIDE DEF c
  <2>3. expect' = [depth |-> x - 1, top |-> c, result |-> cells[x]]  BY <1>7 DEF Begin, c
  <2>4. expect'.depth = x - 1 /\ expect'.top = c /\ expect'.result = cells[x]  BY <2>3
  <2>5. Left(expect.depth)'  BY <1>1, <2>2, <2>4 DEF Left
  <2>6. ExecuteInv' /\ BranchInv'
    BY <1>1, <1>2, <1>7, <2>4, <2>5 DEF ExecuteInv, BranchInv
  <2>7. x - 1 \in 0..MaxDepth  BY <1>2, <1>7
  <2>8. Begin("execute", x - 1, c, cells[x]) \/ Begin("0branch", x - 1, c, cells[x])
    BY <1>7 DEF c
  <2>. QED BY <1>3, <1>4, <1>7, <2>2, <2>6, <2>7, <2>8, Begins
<1>8. ASSUME x > cells[x] + 1, x > 0, job' = job,
             Begin("pick", x, [Stack EXCEPT ![x] = cells[x - 1 - cells[x]]], NoResult)
      PROVE  FirqInv'
  <2>. DEFINE v == cells[x - 1 - cells[x]]
  <2>. DEFINE c == [Stack EXCEPT ![x] = v]
  <2>1. v \in Vals
    <3>1. x - 1 - cells[x] \in 1..MaxDepth  BY <1>2, <1>5, <1>8 DEF Vals
    <3>. QED BY <1>2, <3>1
  <2>2. /\ c \in Seq(Vals) /\ Len(c) = x /\ c[x] = v
        /\ \A i \in 1..(x - 1) : c[i] = cells[i]
    <3>. HIDE DEF v
    <3>. QED BY <1>2, <1>8, <2>1, StackIs
  <2>. HIDE DEF c
  <2>3. expect' = [depth |-> x, top |-> c, result |-> NoResult]  BY <1>8 DEF Begin, c
  <2>4. PickInv'
    <3>1. expect'.depth = x /\ expect'.top = c /\ expect'.result = NoResult  BY <2>3
    <3>2. Left(expect.depth - 1)'  BY <1>1, <2>2, <3>1 DEF Left
    <3>3. expect'.top[Depth'] = cells'[Depth' - 1 - cells'[Depth']]
      BY <1>1, <1>2, <2>2, <3>1
    <3>. QED BY <1>1, <1>2, <1>3, <1>8, <3>1, <3>2, <3>3 DEF PickInv
  <2>5. Begin("pick", x, c, NoResult)  BY <1>8 DEF c
  <2>. QED BY <1>2, <1>3, <1>4, <1>8, <2>2, <2>4, <2>5, Begins
<1>9. ASSUME Begin("kernel", x, Stack, NoResult), job' = job
      PROVE  FirqInv'
  <2>1. expect'.depth = x /\ expect'.top = Stack /\ expect'.result = NoResult
    BY <1>9 DEF Begin
  <2>2. Left(expect.depth)'  BY <1>1, <1>2, <2>1, StackIs DEF Left
  <2>3. KernelInv'  BY <1>1, <1>2, <1>3, <2>1, <2>2 DEF KernelInv
  <2>. QED BY <1>2, <1>3, <1>4, <1>9, <2>3, Begins, StackIs
<1>10. ASSUME NEW s \in Slots, NEW n \in {Zero, Armed},
              Begin("irq", x, Stack, NoResult), job' = [slot |-> s, xt |-> n]
       PROVE  FirqInv'
  <2>1. expect'.depth = x /\ expect'.top = Stack /\ expect'.result = NoResult
    BY <1>10 DEF Begin
  <2>2. Left(expect.depth)'  BY <1>1, <1>2, <2>1, StackIs DEF Left
  <2>3. IrqInv'  BY <1>1, <1>2, <1>3, <1>10, <2>1, <2>2 DEF IrqInv
  <2>. QED BY <1>2, <1>10, <2>3, Begins, StackIs
<1>. QED BY <1>6, <1>7, <1>8, <1>9, <1>10 DEF Words

\* With the word's end the slot it armed is like the others.
LEMMA EndStep ==
  ASSUME FirqInv, frame = None, End
  PROVE  FirqInv'
<1>1. /\ Done /\ step = 0 /\ word' = "none" /\ result' = NoResult /\ expect' = NoExpect
      /\ job' = NoJob /\ cells' = [i \in AllCells |-> IF i > x THEN 0 ELSE cells[i]]
      /\ w' = 0 /\ w3' = 0 /\ acc' = 0 /\ x' = x /\ step' = 0
      /\ xt' = xt /\ ien' = ien /\ vector' = vector /\ ktmp' = ktmp
      /\ saved' = saved /\ frame' = frame /\ ran' = ran
  BY DEF End, Done, irq, handler
<1>2. cells \in [AllCells -> Vals] /\ WordInv /\ TablesInv  BY DEF FirqInv, TypeOK
<1>3. TypeOK'
  <2>1. cells' \in [AllCells -> Vals]  BY <1>1, <1>2 DEF Vals
  <2>2. expect'.depth = None /\ job' \in [slot : Slots \cup {None}, xt : {Zero, Armed}]
    BY <1>1 DEF NoExpect, NoJob
  <2>3. w' \in Vals /\ w3' \in 0..(MaxDepth + 3) /\ acc' \in 0..(MaxDepth + 2)
    BY <1>1 DEF Vals
  <2>. QED BY <1>1, <2>1, <2>2, <2>3 DEF FirqInv, TypeOK
<1>4. HandlerInv'  BY <1>1 DEF FirqInv, HandlerInv
<1>5. WordInv'  BY <1>1 DEF WordInv, Done, Idle
<1>6. \A s \in Slots : xt[s] \in {Zero, Armed}  BY <1>1, <1>2 DEF TablesInv, At
<1>7. \A s \in Enableable : xt[s] = Armed => s \in ien /\ vector[s] = s
  <2>. TAKE s \in Enableable
  <2>1. CASE s # job.slot  BY <1>2, <2>1 DEF TablesInv
  <2>2. CASE s = job.slot
    <3>1. word = "irq"
      BY <1>1, <1>2, <2>2 DEF WordInv, Done, Idle, NoJob, Enableable, None
    <3>2. IrqInv  BY <1>2, <3>1 DEF WordInv
    <3>. QED BY <1>1, <2>2, <3>2 DEF IrqInv, Zero, Armed
  <2>. QED BY <2>1, <2>2
<1>8. TablesInv'  BY <1>1, <1>2, <1>6, <1>7 DEF TablesInv, At
<1>. QED BY <1>3, <1>4, <1>5, <1>8 DEF FirqInv

LEMMA FirqStep ==
  ASSUME Windows = {}, FirqInv, [Next]_vars
  PROVE  FirqInv'
<1>1. CASE UNCHANGED vars
  <2>1. /\ x' = x /\ cells' = cells /\ w' = w /\ w3' = w3 /\ acc' = acc
        /\ word' = word /\ step' = step /\ result' = result /\ expect' = expect /\ job' = job
        /\ xt' = xt /\ ien' = ien /\ vector' = vector /\ ktmp' = ktmp
        /\ saved' = saved /\ frame' = frame /\ ran' = ran
    BY <1>1 DEF vars, stack, regs, program, irq, handler
  <2>2. TypeOK' /\ HandlerInv' /\ TablesInv'
    BY <2>1 DEF FirqInv, TypeOK, HandlerInv, TablesInv, At
  <2>3. Depth' = Depth /\ TrueW' = TrueW /\ TrueW3' = TrueW3
        /\ \A n : Left(n)' <=> Left(n)
    BY <2>1 DEF Depth, TrueW, TrueW3, Left
  <2>4. WordInv'
    BY <2>1, <2>3 DEF FirqInv, WordInv, FetchInv, ExecuteInv, BranchInv, PickInv, KernelInv,
                      IrqInv, Done, Idle
  <2>. QED BY <2>2, <2>4 DEF FirqInv
<1>2. CASE Program
  BY <1>2, WordsStep, EndStep, FetchStep, ExecuteStep, BranchStep, PickStep, KernelStep, ArmingStep
     DEF Program, Step
<1>. QED BY <1>1, <1>2, InterruptStep, HandlerStep DEF Next

LEMMA FirqAlways ==
  ASSUME Windows = {}
  PROVE  BackgroundSpec => []FirqInv
<1>1. BackgroundInit => FirqInv  BY FirqInitInv DEF BackgroundInit
<1>2. FirqInv /\ [BackgroundNext]_all => FirqInv'
  <2>. SUFFICES ASSUME FirqInv, [BackgroundNext]_all PROVE FirqInv'  OBVIOUS
  <2>1. [Next]_vars  BY DEF BackgroundNext, Interrupted, Shares, Plays, Ticks, all
  <2>. QED BY <2>1, FirqStep
<1>. QED BY <1>1, <1>2, PTL DEF BackgroundSpec

\* Whatever interrupts come between the instructions of a word, it leaves the
\* stack and goes where it would have without them; but for the windows.
THEOREM WordsTransparent ==
  ASSUME Windows = {}
  PROVE  BackgroundSpec => []Transparent
<1>1. FirqInv => Transparent
  <2>. SUFFICES ASSUME FirqInv, Done, frame = None
                PROVE  x = expect.depth /\ Stack = expect.top /\ result = expect.result
    BY DEF Transparent
  <2>1. /\ WordInv /\ Depth = x /\ x \in 0..MaxDepth /\ cells \in [AllCells -> Vals]
    BY DEF FirqInv, TypeOK, HandlerInv, Depth
  <2>2. /\ x = expect.depth /\ Left(x) /\ result = expect.result
        /\ expect.top \in Seq(Vals) /\ Len(expect.top) = x
    BY <2>1 DEF WordInv, Done, Idle
  <2>3. Stack \in Seq(Vals) /\ Len(Stack) = x /\ \A i \in 1..x : Stack[i] = cells[i]
    BY <2>1, StackIs
  <2>4. \A i \in 1..Len(Stack) : Stack[i] = expect.top[i]  BY <2>2, <2>3 DEF Left
  <2>5. Stack = expect.top
    <3>1. \A a, b \in Seq(Vals) : Len(a) = Len(b) /\ (\A i \in 1..Len(a) : a[i] = b[i]) => a = b
      BY SeqEqual
    <3>. QED BY <2>2, <2>3, <2>4, <3>1
  <2>. QED BY <2>2, <2>5
<1>. QED BY <1>1, FirqAlways, PTL

\* An interrupt executes only what was armed, each slot at its own trampoline,
\* and what is armed is enabled and leads there; but for the windows.
THEOREM HandlersAlwaysReached ==
  ASSUME Windows = {}
  PROVE  BackgroundSpec => []HandlersReached
<1>1. FirqInv => HandlersReached
  <2>. SUFFICES ASSUME FirqInv PROVE HandlersReached  OBVIOUS
  <2>1. Idle => job.slot \notin Enableable
    BY DEF FirqInv, WordInv, Idle, NoJob, Enableable, None
  <2>. QED BY <2>1 DEF FirqInv, TablesInv, HandlersReached
<1>. QED BY <1>1, FirqAlways, PTL

\* The ranges hold in every program, but for the windows.
THEOREM BackgroundTypes ==
  ASSUME Windows = {}, RingWindows = {}, EnvWindows = {}
  PROVE  BackgroundSpec => []BackgroundTypeOK
<1>1. BackgroundInit => RingInv /\ EnvInv  BY InitInv, EnvInitInv DEF BackgroundInit
<1>2. RingInv /\ EnvInv /\ [BackgroundNext]_all => RingInv' /\ EnvInv'
  <2>. SUFFICES ASSUME RingInv, EnvInv, [BackgroundNext]_all PROVE RingInv' /\ EnvInv'  OBVIOUS
  <2>1. [RingNext]_ring /\ [EnvNext]_env
    BY DEF BackgroundNext, Interrupted, Shares, Plays, Ticks, EnvNext, all
  <2>. QED BY <2>1, EnvStep, RingStep
<1>3. FirqInv /\ RingInv /\ EnvInv => BackgroundTypeOK
  BY DEF BackgroundTypeOK, FirqInv, RingInv, EnvInv
<1>. QED BY <1>1, <1>2, <1>3, FirqAlways, PTL DEF BackgroundSpec
=============================================================================
