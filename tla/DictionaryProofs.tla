------------------------- MODULE DictionaryProofs -------------------------
(***************************************************************************)
(* For every number of words, sizes and addresses: programs without the    *)
(* habits that break it (all but "forgetalias" and "crowd") always find    *)
(* the words they should.  The search order is inductive together with     *)
(* where a pending header lies, what the markers keep, and the room that   *)
(* the end of the last line found.  Without those two habits either, the   *)
(* code of the words is in its place.                                      *)
(***************************************************************************)
EXTENDS Dictionary, SequenceTheorems, TLAPS

USE DictionaryAssumption

Careful == Habits \subseteq {"forgetalias", "crowd"}

\* Words, oldest first, lie strictly one below the other, under names the
\* search can step over.
Stacked ==
  /\ Len(vocab) >= 1 /\ vocab[1] = Built
  /\ \A i \in DOMAIN vocab : vocab[i].n \in 1..31
  /\ \A i, j \in DOMAIN vocab :
       i < j => vocab[j].at + Size(vocab[j].n) <= vocab[i].at

\* Each word to be found is one of the definitions, and no two are the same.
Known ==
  /\ \A i \in 2..Len(vocab) : vocab[i].id \in DOMAIN defs
  /\ \A i, j \in DOMAIN vocab : vocab[i].id = vocab[j].id => i = j

\* The header a definition in progress will be found by.
Pending ==
  compiling =>
    /\ defs # <<>>
    /\ Newest.kind \in {"colon", "noname"}
    /\ Newest.kind = "noname" => pending = 0
    /\ Newest.kind = "colon" =>
         /\ pending = Newest.at /\ pending > 0
         /\ Newest.n \in 1..31
         /\ Newest.at + Size(Newest.n) = latest
         /\ EntryOf(Len(defs)) \in heads
         /\ \A i \in DOMAIN vocab : vocab[i].id # Len(defs)

\* A marker that can be run keeps the header before its own.
Marked ==
  \A m \in marks :
    /\ m.id \in DOMAIN defs
    /\ defs[m.id].kind = "marker"
    /\ \A i \in 2..Len(vocab) : vocab[i].id = m.id => vocab[i - 1].at = m.latest

\* Below this, code may still be added in bank 1.
Ceiling == IF compiling /\ pending # 0 THEN pending ELSE latest

Roomed == Bank(here) = 1 => left = 0 \/ left <= Ceiling - here

Order == SearchOrder /\ Stacked /\ Known /\ vocab \in Seq(Headers)

Core == TypeOK /\ Order /\ Pending /\ Marked

Inv == TypeOK /\ SearchOrder /\ Stacked /\ Known /\ Pending /\ Marked /\ Roomed

---------------------------------------------------------------------------

\* Code above bank 1 starts above every header.
LEMMA HighCode ==
  ASSUME here \in Addresses, Bank(here) # 1
  PROVE  here >= 2 * BankSize
BY DEF Addresses, Bank, BankSize

Banks == 1..4

Offsets == 0..(BankSize - 1)

LEMMA InBank ==
  ASSUME NEW b \in Banks, NEW p \in Offsets
  PROVE  b * BankSize + p \in Addresses /\ Bank(b * BankSize + p) = b
<1>1. b \in Int /\ p \in 0..65535
  BY DEF Banks, Offsets, BankSize
<1>2. (b * 65536 + p) \div 65536 = b
  BY <1>1
<1>3. b * 65536 + p \in Nat
  BY <1>1 DEF Banks
<1>. QED BY <1>2, <1>3 DEF Addresses, Bank, BankSize, Banks

LEMMA SameBank ==
  ASSUME here \in Addresses, NEW k \in Nat
  PROVE  HereAfter(k) \in Addresses /\ Bank(HereAfter(k)) = Bank(here)
<1>1. here \in Nat /\ Bank(here) \in Banks
  BY DEF Addresses, Banks
<1>2. Ptr(here + k) \in Offsets
  BY <1>1 DEF Ptr, BankSize, Offsets
<1>3. /\ Bank(here) * BankSize + Ptr(here + k) \in Addresses
      /\ Bank(Bank(here) * BankSize + Ptr(here + k)) = Bank(here)
  BY <1>1, <1>2, InBank, Zenon
<1>. QED BY <1>3 DEF HereAfter

\* Headers not hit by a write are still there.
LEMMA SurviveFacts ==
  ASSUME NEW H, NEW h \in H, NEW lo, NEW hi, ~Overlap(h.at, h.at + Size(h.n), lo, hi)
  PROVE  h \in Survive(H, lo, hi)
BY DEF Survive

LEMMA SurviveSubset ==
  ASSUME NEW H, NEW lo, NEW hi PROVE Survive(H, lo, hi) \subseteq H
BY DEF Survive

LEMMA Below ==
  ASSUME NEW a \in Int, NEW n \in 0..255, NEW c \in Int, a + Size(n) <= c
  PROVE  a <= c
BY DEF Size

\* Every word to be found lies at or above LATEST and below the end of bank 1.
LEMMA Above ==
  ASSUME Inv, NEW i \in DOMAIN vocab
  PROVE  /\ vocab[i] \in Headers
         /\ vocab[i].at >= latest
         /\ vocab[i].at + Size(vocab[i].n) <= 2 * BankSize
<1>1. vocab \in Seq(Headers) /\ Len(vocab) \in DOMAIN vocab /\ 1 \in DOMAIN vocab
  BY DEF Inv, TypeOK, Stacked
<1>2. vocab[i] \in Headers /\ i \in 1..Len(vocab)
  BY <1>1
<1>3. vocab[i].at >= latest
  <2>1. CASE i = Len(vocab)
    BY <1>2, <2>1 DEF Inv, SearchOrder, Headers
  <2>2. CASE i < Len(vocab)
    <3>1. vocab[Len(vocab)].at + Size(vocab[Len(vocab)].n) <= vocab[i].at
      BY <1>1, <2>2 DEF Inv, Stacked
    <3>2. vocab[Len(vocab)].at \in Int /\ vocab[Len(vocab)].n \in 0..255 /\ vocab[i].at \in Int
      <4>1. vocab[Len(vocab)] \in Headers
        BY <1>1
      <4>. QED BY <4>1, <1>2 DEF Headers
    <3>3. latest = vocab[Len(vocab)].at
      BY DEF Inv, SearchOrder
    <3>4. \A a, b, n : a \in Int /\ b \in Int /\ n \in 0..255 /\ b + (n + 4) <= a => a >= b
      OBVIOUS
    <3>. QED BY <3>1, <3>2, <3>3, <3>4, Zenon DEF Size
  <2>. QED BY <1>2, <2>1, <2>2
<1>4. vocab[i].at + Size(vocab[i].n) <= 2 * BankSize
  <2>1. vocab[1].at = Top /\ vocab[1].n = 3
    BY DEF Inv, Stacked, Built
  <2>2. CASE i = 1
    <3>1. Top + 7 <= 2 * BankSize
      BY DEF BankSize
    <3>. QED BY <2>1, <2>2, <3>1 DEF Size
  <2>3. CASE i > 1
    <3>1. vocab[i].at + Size(vocab[i].n) <= vocab[1].at
      BY <1>1, <1>2, <2>3 DEF Inv, Stacked
    <3>2. vocab[i].at \in Int /\ vocab[i].n \in 0..255
      BY <1>2 DEF Headers
    <3>3. Top <= 2 * BankSize /\ Top \in Int
      BY DEF BankSize
    <3>4. \A a : a <= Top /\ a \in Int => a <= 2 * BankSize
      BY <3>3 DEF BankSize
    <3>5. vocab[i].at + Size(vocab[i].n) \in Int
      BY <3>2 DEF Size
    <3>. QED BY <2>1, <3>1, <3>4, <3>5, Zenon
  <2>. QED BY <1>2, <2>2, <2>3
<1>. QED BY <1>2, <1>3, <1>4

LEMMA LatestLow ==
  ASSUME Inv
  PROVE  latest \in Int /\ latest < 2 * BankSize
<1>1. Len(vocab) \in DOMAIN vocab /\ latest \in Int
  BY DEF Inv, TypeOK, Stacked
<1>2. vocab[Len(vocab)] \in Headers
      /\ vocab[Len(vocab)].at + Size(vocab[Len(vocab)].n) <= 2 * BankSize
  BY <1>1, Above
<1>3. vocab[Len(vocab)].at = latest /\ vocab[Len(vocab)].n \in 0..255
  BY <1>2 DEF Inv, SearchOrder, Headers
<1>4. latest + (vocab[Len(vocab)].n + 4) <= 131072
  BY <1>2, <1>3 DEF Size, BankSize
<1>5. \A a, n : a \in Int /\ n \in 0..255 /\ a + (n + 4) <= 131072 => a < 131072
  OBVIOUS
<1>6. latest < 131072
  <2>. DEFINE n == vocab[Len(vocab)].n
  <2>1. latest \in Int /\ n \in 0..255 /\ latest + (n + 4) <= 131072
    BY <1>1, <1>3, <1>4
  <2>. HIDE DEF n
  <2>. QED BY <2>1
<1>7. 2 * BankSize = 131072
  BY DEF BankSize
<1>. QED BY <1>1, <1>6, <1>7

\* An address is its bank and its place in it.
LEMMA Flat ==
  ASSUME NEW a \in Nat
  PROVE  /\ a = Bank(a) * 65536 + Ptr(a)
         /\ Bank(a) \in Nat /\ Ptr(a) \in Nat /\ Ptr(a) < 65536
BY DEF Bank, Ptr, BankSize

LEMMA NoWrap ==
  ASSUME here \in Addresses, NEW k \in Nat, Ptr(here) + k < BankSize
  PROVE  HereAfter(k) = here + k /\ Bank(here + k) = Bank(here)
<1>1. here \in Nat
  BY DEF Addresses
<1>2. ASSUME NEW a \in Nat, (a % 65536) + k < 65536
      PROVE  /\ (a \div 65536) * 65536 + ((a + k) % 65536) = a + k
             /\ (a + k) \div 65536 = a \div 65536
  BY <1>2
<1>. QED BY <1>1, <1>2 DEF HereAfter, Bank, Ptr, BankSize

\* Nor does code that stays below the headers.
LEMMA PageNoWrap ==
  ASSUME Inv, NEW k \in Nat, Bank(here) = 1, here + k <= latest
  PROVE  Ptr(here) + k < BankSize
<1>1. here \in Nat /\ here \in Addresses
  BY DEF Inv, TypeOK, Addresses
<1>2. \A a \in Nat : a \div 65536 = 1 => a = 65536 + (a % 65536) /\ (a % 65536) \in Int
  OBVIOUS
<1>3. here = 65536 + Ptr(here) /\ Ptr(here) \in Int
  BY <1>1, <1>2 DEF Bank, Ptr, BankSize
<1>4. latest \in Int /\ latest < 131072
  BY LatestLow DEF BankSize
<1>5. \A h, p \in Int : h = 65536 + p /\ h + k <= latest => p + k < 65536
  BY <1>4
<1>6. Ptr(here) + k < 65536
  BY <1>1, <1>3, <1>5
<1>. QED BY <1>6 DEF BankSize

\* A short name is stepped over exactly.
LEMMA StrideIsSize ==
  ASSUME NEW n \in 1..31
  PROVE  Stride(n) = Size(n) /\ Size(n) \in 5..35
BY DEF Stride, Size

---------------------------------------------------------------------------
(* A header and the bytes after it: the headers in use survive.            *)

LEMMA NoneHit ==
  ASSUME NEW a \in Int, NEW b \in Int, NEW c \in Int
  PROVE  ~Overlap(a, b, c, c + 0)
BY DEF Overlap

LEMMA NotHit ==
  ASSUME NEW a \in Int, NEW b \in Int, NEW c \in Int, NEW d \in Int, b <= c \/ d <= a
  PROVE  ~Overlap(a, b, c, d)
BY DEF Overlap

\* What a line adds in bank 1 fits.
LEMMA InPage ==
  ASSUME Inv, Careful, NEW k \in Nat, Spend(k), Bank(here) = 1
  PROVE  /\ left' = left - k /\ left' \in 0..LineBytes
         /\ k = 0 \/ (here + k <= Ceiling /\ left' <= Ceiling - (here + k))
<1>1. k <= left /\ left' = left - k
  BY DEF Spend, Careful
<1>2. left \in 0..LineBytes /\ LineBytes \in 0..221 /\ (left = 0 \/ left <= Ceiling - here)
  BY DEF Inv, TypeOK, Roomed
<1>3. here \in Int /\ Ceiling \in Int
  BY DEF Inv, TypeOK, Addresses, Ceiling
<1>. QED BY <1>1, <1>2, <1>3

LEMMA HeaderWritten ==
  ASSUME Inv, Careful, NEW n \in NameLens, NEW k \in Nat,
         CanDefine(n, k), WriteHeader(n, k)
  PROVE  /\ n \in 1..31
         /\ Entry(n) \in Headers /\ Entry(n).id = Len(defs) + 1 /\ Entry(n).n = n
         /\ Entry(n).at + Size(n) = latest /\ Entry(n).at > BankSize
         /\ heads' \subseteq Headers
         /\ Entry(n) \in heads'
         /\ \A i \in DOMAIN vocab : vocab[i] \in heads'
         /\ left' \in 0..LineBytes /\ struck' \subseteq Nat
         /\ Bank(here) = 1 => /\ here + k <= Entry(n).at
                              /\ left' <= Entry(n).at - (here + k)
<1>1. n \in 1..31 /\ Entry(n).at > BankSize
  <2>1. n \in 1..255
    BY DEF DictionaryAssumption
  <2>2. n <= 31
    BY DEF CanDefine, Careful
  <2>. QED BY <2>1, <2>2 DEF CanDefine
<1>2. latest \in Int /\ heads \subseteq Headers /\ here \in Addresses
  BY DEF Inv, TypeOK
<1>3. Len(defs) \in Nat
  BY DEF Inv, TypeOK
<1>4. Entry(n) \in Headers /\ Entry(n).id = Len(defs) + 1 /\ Entry(n).n = n
      /\ Entry(n).at = latest - Size(n)
  BY <1>1, <1>2, <1>3 DEF Entry, Headers, Size
<1>5. Entry(n).at + Size(n) = latest
  BY <1>1, <1>2, <1>4 DEF Size
<1>6. heads' \subseteq Headers
  BY <1>2, <1>4 DEF WriteHeader, Survive
<1>8. here \in Nat /\ here + k \in Int
  BY <1>2 DEF Addresses
<1>7. ASSUME Bank(here) = 1
      PROVE  /\ left' \in 0..LineBytes /\ here + k <= Entry(n).at
             /\ left' <= Entry(n).at - (here + k)
  <2>1. Size(n) + k \in Nat /\ Size(n) + k # 0 /\ Size(n) \in Nat
    BY <1>1 DEF Size
  <2>2. Spend(Size(n) + k)
    BY DEF WriteHeader
  <2>3. /\ left' \in 0..LineBytes
        /\ here + (Size(n) + k) <= Ceiling /\ left' <= Ceiling - (here + (Size(n) + k))
    BY <1>7, <2>1, <2>2, InPage
  <2>4. Ceiling = latest
    BY DEF Ceiling, CanDefine
  <2>. QED BY <1>2, <1>4, <1>8, <2>1, <2>3, <2>4
<1>9. here + k <= Entry(n).at \/ here >= 2 * BankSize
  BY <1>2, <1>7, HighCode
<1>13. left' \in 0..LineBytes
  <2>1. CASE Bank(here) # 1
    BY <2>1 DEF WriteHeader, Spend
  <2>. QED BY <1>7, <2>1
<1>14. struck' \subseteq Nat
  <2>1. Visible \subseteq Nat
    BY Above DEF Visible, Headers
  <2>. QED BY <2>1 DEF WriteHeader, Struck, Inv, TypeOK
<1>10. ~Overlap(Entry(n).at, Entry(n).at + Size(Entry(n).n), here, here + k)
  <2>1. latest <= 2 * BankSize
    <3>1. Len(vocab) \in DOMAIN vocab
      BY DEF Inv, TypeOK, Stacked
    <3>2. vocab[Len(vocab)].at + Size(vocab[Len(vocab)].n) <= 2 * BankSize
           /\ vocab[Len(vocab)] \in Headers
      BY <3>1, Above
    <3>3. latest = vocab[Len(vocab)].at
      BY DEF Inv, SearchOrder
    <3>4. vocab[Len(vocab)].n \in 0..255
      BY <3>2 DEF Headers
    <3>5. 2 * BankSize \in Int
      BY DEF BankSize
    <3>. QED BY <1>2, <3>2, <3>3, <3>4, <3>5, Below
  <2>2. Entry(n).at \in Int /\ here \in Int /\ latest \in Int
    BY <1>2, <1>4, <1>8 DEF Headers
  <2>3. here + k <= Entry(n).at \/ latest <= here
    BY <1>9, <2>1, <2>2 DEF BankSize
  <2>. QED BY <1>4, <1>5, <1>8, <2>2, <2>3, NotHit
<1>11. Entry(n) \in heads'
  BY <1>10 DEF WriteHeader, Survive
<1>12. ASSUME NEW i \in DOMAIN vocab
       PROVE  vocab[i] \in heads'
  <2>1. vocab[i] \in heads
    BY DEF Inv, SearchOrder
  <2>2. /\ vocab[i] \in Headers /\ vocab[i].at >= latest
        /\ vocab[i].at + Size(vocab[i].n) <= 2 * BankSize
    BY Above
  <2>3. vocab[i].at \in Int /\ vocab[i].n \in 0..255
    BY <2>2 DEF Headers
  <2>4. vocab[i].at + Size(vocab[i].n) \in Int
    BY <2>3 DEF Size
  <2>5. Entry(n).at \in Int /\ Entry(n).at <= latest
    BY <1>1, <1>2, <1>4, <1>5 DEF Headers, Size
  <2>6. ~Overlap(vocab[i].at, vocab[i].at + Size(vocab[i].n), Entry(n).at, latest)
    BY <1>2, <2>2, <2>3, <2>4, <2>5, NotHit
  <2>7. here + k <= vocab[i].at \/ vocab[i].at + Size(vocab[i].n) <= here
    BY <1>2, <1>8, <1>9, <2>2, <2>3, <2>4, <2>5 DEF BankSize
  <2>8. ~Overlap(vocab[i].at, vocab[i].at + Size(vocab[i].n), here, here + k)
    BY <1>8, <2>3, <2>4, <2>7, NotHit
  <2>. QED BY <2>1, <2>6, <2>8 DEF WriteHeader, Survive
<1>. QED BY <1>1, <1>4, <1>5, <1>6, <1>7, <1>11, <1>12, <1>13, <1>14

---------------------------------------------------------------------------
(* What a step does to the search order: nothing, one word more, some less. *)

LEMMA SameWords ==
  ASSUME Inv, vocab' = vocab, latest' = latest,
         \A i \in DOMAIN vocab : vocab[i] \in heads',
         Len(defs') \in Nat, DOMAIN defs' = 1..Len(defs'), Len(defs) <= Len(defs')
  PROVE  Order'
<1>1. vocab \in Seq(Headers) /\ DOMAIN defs = 1..Len(defs) /\ Len(defs) \in Nat
  BY DEF Inv, TypeOK
<1>2. DOMAIN defs \subseteq DOMAIN defs'
  BY <1>1
<1>3. SearchOrder'
  BY DEF Inv, SearchOrder
<1>4. Stacked'
  BY DEF Inv, Stacked
<1>5. Known'
  BY <1>2 DEF Inv, Known
<1>. QED BY <1>1, <1>3, <1>4, <1>5 DEF Order

LEMMA OneMore ==
  ASSUME Inv, NEW e \in Headers,
         e.n \in 1..31, e.at + Size(e.n) = latest,
         vocab' = Append(vocab, e), latest' = e.at,
         e \in heads', \A i \in DOMAIN vocab : vocab[i] \in heads',
         Len(defs') \in Nat, DOMAIN defs' = 1..Len(defs'), Len(defs) <= Len(defs'),
         e.id \in DOMAIN defs', \A i \in DOMAIN vocab : vocab[i].id # e.id
  PROVE  Order'
<1>1. /\ vocab \in Seq(Headers) /\ DOMAIN defs = 1..Len(defs) /\ Len(defs) \in Nat
      /\ DOMAIN vocab = 1..Len(vocab) /\ Len(vocab) \in Nat /\ Len(vocab) >= 1
  BY DEF Inv, TypeOK, Stacked
<1>2. /\ vocab' \in Seq(Headers) /\ Len(vocab') = Len(vocab) + 1
      /\ DOMAIN vocab' = 1..(Len(vocab) + 1)
      /\ vocab'[Len(vocab) + 1] = e
      /\ \A i \in DOMAIN vocab : vocab'[i] = vocab[i]
  BY <1>1, AppendProperties
<1>3. \A i \in DOMAIN vocab' : i \in DOMAIN vocab \/ i = Len(vocab) + 1
  BY <1>1, <1>2
<1>4. DOMAIN defs \subseteq DOMAIN defs'
  BY <1>1
<1>5. SearchOrder'
  <2>1. latest' = vocab'[Len(vocab')].at
    BY <1>2
  <2>2. \A i \in DOMAIN vocab' : vocab'[i] \in heads'
    BY <1>2, <1>3
  <2>3. ASSUME NEW i \in 2..Len(vocab')
        PROVE  vocab'[i].at + Stride(vocab'[i].n) = vocab'[i - 1].at
    <3>1. CASE i = Len(vocab) + 1
      <4>1. vocab'[i - 1] = vocab[Len(vocab)]
        BY <1>1, <1>2, <3>1
      <4>2. Stride(e.n) = Size(e.n)
        BY StrideIsSize
      <4>. QED BY <1>2, <3>1, <4>1, <4>2 DEF Inv, SearchOrder
    <3>2. CASE i # Len(vocab) + 1
      <4>1. i \in 2..Len(vocab) /\ i \in DOMAIN vocab /\ i - 1 \in DOMAIN vocab
        BY <1>1, <1>2, <3>2
      <4>. QED BY <1>2, <4>1 DEF Inv, SearchOrder
    <3>. QED BY <3>1, <3>2
  <2>. QED BY <2>1, <2>2, <2>3 DEF SearchOrder
<1>6. Stacked'
  <2>1. Len(vocab') >= 1 /\ vocab'[1] = Built
    BY <1>1, <1>2 DEF Inv, Stacked
  <2>2. ASSUME NEW i \in DOMAIN vocab' PROVE vocab'[i].n \in 1..31
    <3>1. CASE i \in DOMAIN vocab
      BY <1>2, <3>1 DEF Inv, Stacked
    <3>2. CASE i \notin DOMAIN vocab
      BY <1>1, <1>2, <3>2
    <3>. QED BY <3>1, <3>2
  <2>3. ASSUME NEW i \in DOMAIN vocab', NEW j \in DOMAIN vocab', i < j
        PROVE  vocab'[j].at + Size(vocab'[j].n) <= vocab'[i].at
    <3>1. CASE j = Len(vocab) + 1
      <4>1. i \in DOMAIN vocab
        BY <1>1, <1>2, <2>3, <3>1
      <4>2. vocab[i].at >= latest /\ vocab[i] \in Headers
        BY <4>1, Above
      <4>. QED BY <1>2, <3>1, <4>1, <4>2 DEF Headers, Inv, TypeOK
    <3>2. CASE j # Len(vocab) + 1
      <4>1. i \in DOMAIN vocab /\ j \in DOMAIN vocab
        BY <1>1, <1>2, <2>3, <3>2
      <4>. QED BY <1>2, <2>3, <4>1 DEF Inv, Stacked
    <3>. QED BY <3>1, <3>2
  <2>. QED BY <2>1, <2>2, <2>3 DEF Stacked
<1>7. Known'
  <2>1. ASSUME NEW i \in 2..Len(vocab')
        PROVE  vocab'[i].id \in DOMAIN defs'
    <3>1. CASE i = Len(vocab) + 1
      BY <1>2, <3>1
    <3>2. CASE i # Len(vocab) + 1
      <4>1. i \in 2..Len(vocab) /\ i \in DOMAIN vocab
        BY <1>1, <1>2, <3>2
      <4>. QED BY <1>2, <1>4, <4>1 DEF Inv, Known
    <3>. QED BY <3>1, <3>2
  <2>2. \A i, j \in DOMAIN vocab' : vocab'[i].id = vocab'[j].id => i = j
    BY <1>2, <1>3 DEF Inv, Known
  <2>. QED BY <2>1, <2>2 DEF Known
<1>. QED BY <1>2, <1>5, <1>6, <1>7 DEF Order

LEMMA SomeLess ==
  ASSUME Inv, NEW i \in 2..Len(vocab),
         vocab' = Older(i), latest' = vocab[i - 1].at, heads' = heads, defs' = defs
  PROVE  /\ Order'
         /\ Len(vocab') = i - 1
         /\ \A j \in 1..(i - 1) : vocab'[j] = vocab[j]
<1>1. /\ vocab \in Seq(Headers) /\ DOMAIN vocab = 1..Len(vocab) /\ Len(vocab) \in Nat
  BY DEF Inv, TypeOK
<1>2. i - 1 \in Nat /\ 1 \in Nat /\ \A j \in 1..(i - 1) : vocab[j] \in Headers /\ j \in DOMAIN vocab
  BY <1>1
<1>3. /\ Older(i) \in Seq(Headers) /\ Len(Older(i)) = i - 1
      /\ \A j \in 1..(i - 1) : Older(i)[j] = vocab[1 + j - 1]
  BY <1>1, <1>2, SubSeqProperties DEF Older
<1>4. /\ vocab' \in Seq(Headers) /\ Len(vocab') = i - 1 /\ DOMAIN vocab' = 1..(i - 1)
      /\ \A j \in 1..(i - 1) : vocab'[j] = vocab[j]
  BY <1>2, <1>3
<1>5. SearchOrder'
  <2>1. latest' = vocab'[Len(vocab')].at
    BY <1>2, <1>4
  <2>2. \A j \in DOMAIN vocab' : vocab'[j] \in heads'
    BY <1>2, <1>4 DEF Inv, SearchOrder
  <2>3. ASSUME NEW j \in 2..Len(vocab')
        PROVE  vocab'[j].at + Stride(vocab'[j].n) = vocab'[j - 1].at
    <3>1. j \in 1..(i - 1) /\ j - 1 \in 1..(i - 1) /\ j \in 2..Len(vocab)
      BY <1>1, <1>4
    <3>. QED BY <1>4, <3>1 DEF Inv, SearchOrder
  <2>. QED BY <2>1, <2>2, <2>3 DEF SearchOrder
<1>6. Stacked'
  <2>1. Len(vocab') >= 1 /\ vocab'[1] = Built
    BY <1>1, <1>4 DEF Inv, Stacked
  <2>2. \A j \in DOMAIN vocab' : vocab'[j].n \in 1..31
    BY <1>2, <1>4 DEF Inv, Stacked
  <2>3. ASSUME NEW j \in DOMAIN vocab', NEW l \in DOMAIN vocab', j < l
        PROVE  vocab'[l].at + Size(vocab'[l].n) <= vocab'[j].at
    <3>1. j \in DOMAIN vocab /\ l \in DOMAIN vocab /\ vocab'[j] = vocab[j] /\ vocab'[l] = vocab[l]
      BY <1>2, <1>4
    <3>. QED BY <2>3, <3>1 DEF Inv, Stacked
  <2>. QED BY <2>1, <2>2, <2>3 DEF Stacked
<1>7. Known'
  <2>1. \A j \in 2..Len(vocab') : j \in 2..Len(vocab) /\ j \in 1..(i - 1)
    BY <1>1, <1>4
  <2>. QED BY <1>2, <1>4, <2>1 DEF Inv, Known
<1>. QED BY <1>4, <1>5, <1>6, <1>7 DEF Order

LEMMA NewDef ==
  ASSUME Inv, NEW def \in Definitions, defs' = Append(defs, def)
  PROVE  /\ defs' \in Seq(Definitions)
         /\ Len(defs') = Len(defs) + 1 /\ Len(defs) \in Nat
         /\ DOMAIN defs' = 1..(Len(defs) + 1) /\ DOMAIN defs = 1..Len(defs)
         /\ defs'[Len(defs) + 1] = def /\ Newest' = def
         /\ \A d \in DOMAIN defs : d \in DOMAIN defs' /\ defs'[d] = defs[d]
<1>1. defs \in Seq(Definitions) /\ DOMAIN defs = 1..Len(defs) /\ Len(defs) \in Nat
  BY DEF Inv, TypeOK
<1>2. /\ defs' \in Seq(Definitions)
      /\ Len(defs') = Len(defs) + 1
      /\ DOMAIN defs' = 1..(Len(defs) + 1)
      /\ defs'[Len(defs) + 1] = def
      /\ \A d \in 1..Len(defs) : defs'[d] = defs[d]
  BY <1>1, AppendProperties
<1>3. Newest' = def
  BY <1>2 DEF Newest
<1>4. \A d \in 1..Len(defs) : d \in 1..(Len(defs) + 1)
  BY <1>1
<1>. QED BY <1>1, <1>2, <1>3, <1>4

LEMMA DefType ==
  ASSUME Inv, NEW kind \in Kinds, NEW n \in 0..255,
         NEW xt \in Addresses, NEW lo \in Addresses, NEW k \in Nat
  PROVE  Def(kind, n, xt, lo, k) \in Definitions
<1>1. latest - Size(n) \in Int
  BY DEF Inv, TypeOK, Size
<1>2. lo + k \in Nat
  BY DEF Addresses
<1>. QED BY <1>1, <1>2 DEF Def, Definitions

LEMMA MarksKept ==
  ASSUME Inv, marks' = marks,
         \A d \in DOMAIN defs : d \in DOMAIN defs' /\ defs'[d].kind = defs[d].kind,
         \A i \in 2..Len(vocab'), m \in marks :
            vocab'[i].id = m.id =>
              i \in 2..Len(vocab) /\ vocab[i].id = m.id /\ vocab'[i - 1].at = vocab[i - 1].at
  PROVE  Marked'
BY DEF Inv, Marked

\* Ids of words and markers are those of definitions, so a new one is unlike them.
LEMMA FreshId ==
  ASSUME Inv
  PROVE  /\ \A i \in DOMAIN vocab : vocab[i].id # Len(defs) + 1
         /\ \A m \in marks : m.id # Len(defs) + 1
<1>1. /\ DOMAIN defs = 1..Len(defs) /\ Len(defs) \in Nat
      /\ DOMAIN vocab = 1..Len(vocab) /\ Len(vocab) \in Nat
  BY DEF Inv, TypeOK
<1>2. ASSUME NEW i \in DOMAIN vocab
      PROVE  vocab[i].id # Len(defs) + 1
  <2>1. CASE i = 1
    <3>1. vocab[1].id = 0
      BY DEF Inv, Stacked, Built
    <3>. QED BY <1>1, <2>1, <3>1
  <2>2. CASE i # 1
    <3>1. i \in 2..Len(vocab)
      BY <1>1, <2>2
    <3>2. vocab[i].id \in DOMAIN defs
      BY <3>1 DEF Inv, Known
    <3>. QED BY <1>1, <3>2
  <2>. QED BY <2>1, <2>2
<1>3. ASSUME NEW m \in marks
      PROVE  m.id # Len(defs) + 1
  <2>1. m.id \in DOMAIN defs
    BY DEF Inv, Marked
  <2>. QED BY <1>1, <2>1
<1>. QED BY <1>2, <1>3

---------------------------------------------------------------------------
(* Words being compiled.                                                   *)

LEMMA StepCOLON ==
  ASSUME Inv, Careful, NEW n \in NameLens, COLON(n)
  PROVE  Core'
<1>1. CanDefine(n, 0) /\ WriteHeader(n, 0) /\ 0 \in Nat
  BY DEF COLON
<1>2. /\ n \in 1..31
      /\ Entry(n) \in Headers /\ Entry(n).id = Len(defs) + 1 /\ Entry(n).n = n
      /\ Entry(n).at + Size(n) = latest /\ Entry(n).at > BankSize
      /\ heads' \subseteq Headers
      /\ Entry(n) \in heads'
      /\ \A i \in DOMAIN vocab : vocab[i] \in heads'
      /\ left' \in 0..LineBytes /\ struck' \subseteq Nat
  BY <1>1, HeaderWritten
<1>3. here \in Addresses /\ here' \in Addresses
  <2>1. here \in Addresses
    BY DEF Inv, TypeOK
  <2>2. CASE Roomy
    BY <2>1, <2>2 DEF COLON
  <2>3. CASE ~Roomy
    <3>1. here' = NextBank /\ Bank(here) < 4
      BY <2>3 DEF COLON
    <3>2. Bank(here) \in 1..4
      BY <2>1 DEF Addresses
    <3>3. Bank(here) + 1 \in Banks
      BY <3>1, <3>2 DEF Banks
    <3>4. 0 \in Offsets
      BY DEF Offsets, BankSize
    <3>5. (Bank(here) + 1) * BankSize + 0 \in Addresses
      BY <3>3, <3>4, InBank
    <3>6. (Bank(here) + 1) * BankSize + 0 = (Bank(here) + 1) * BankSize
      BY <3>2 DEF BankSize
    <3>. QED BY <2>1, <3>1, <3>5, <3>6 DEF NextBank
  <2>. QED BY <2>1, <2>2, <2>3
<1>. DEFINE def == Def("colon", n, here, here', 0)
<1>4. def \in Definitions
  <2>1. n \in 0..255
    BY <1>2
  <2>. QED BY <1>1, <1>3, <2>1, DefType DEF Kinds
<1>5. defs' = Append(defs, def)
  BY DEF COLON
<1>6. def.kind = "colon" /\ def.at = Entry(n).at /\ def.n = n
  BY DEF Def, Entry
<1>. HIDE DEF def
<1>7. /\ defs' \in Seq(Definitions)
      /\ Len(defs') = Len(defs) + 1 /\ Len(defs) \in Nat
      /\ DOMAIN defs' = 1..(Len(defs) + 1) /\ DOMAIN defs = 1..Len(defs)
      /\ defs'[Len(defs) + 1] = def /\ Newest' = def
      /\ \A d \in DOMAIN defs : d \in DOMAIN defs' /\ defs'[d] = defs[d]
  BY <1>4, <1>5, NewDef
<1>8. /\ latest' = latest /\ vocab' = vocab /\ marks' = marks /\ compiling' = TRUE
      /\ pending' = Entry(n).at
  BY DEF COLON, Entry
<1>9. TypeOK'
  BY <1>2, <1>3, <1>7, <1>8 DEF Inv, TypeOK, Headers
<1>10. Order'
  <2>1. Len(defs') \in Nat /\ DOMAIN defs' = 1..Len(defs') /\ Len(defs) <= Len(defs')
    BY <1>7
  <2>. QED BY <1>2, <1>8, <2>1, SameWords
<1>11. Pending'
  <2>1. defs' # <<>>
    BY <1>7, EmptySeq
  <2>2. pending' > 0
    BY <1>2, <1>8 DEF BankSize, Headers
  <2>3. EntryOf(Len(defs))' = Entry(n)
    BY <1>6, <1>7 DEF EntryOf, Entry
  <2>4. \A i \in DOMAIN vocab : vocab[i].id # Len(defs) + 1
    BY FreshId
  <2>. QED BY <1>2, <1>6, <1>7, <1>8, <2>1, <2>2, <2>3, <2>4 DEF Pending
<1>12. Marked'
  <2>1. \A d \in DOMAIN defs : d \in DOMAIN defs' /\ defs'[d].kind = defs[d].kind
    BY <1>7
  <2>. QED BY <1>8, <2>1, MarksKept
<1>. QED BY <1>9, <1>10, <1>11, <1>12 DEF Core

LEMMA StepColonRefused ==
  ASSUME Inv, Careful, NEW n \in NameLens, ColonRefused(n)
  PROVE  Core'
<1>1. CanDefine(n, 0) /\ WriteHeader(n, 0) /\ 0 \in Nat
  BY DEF ColonRefused
<1>2. /\ n \in 1..31
      /\ Entry(n) \in Headers /\ Entry(n).id = Len(defs) + 1 /\ Entry(n).n = n
      /\ Entry(n).at + Size(n) = latest /\ Entry(n).at > BankSize
      /\ heads' \subseteq Headers
      /\ Entry(n) \in heads'
      /\ \A i \in DOMAIN vocab : vocab[i] \in heads'
      /\ left' \in 0..LineBytes /\ struck' \subseteq Nat
  BY <1>1, HeaderWritten
<1>. DEFINE def == Def("colon", n, here, here, 0)
<1>3. def \in Definitions
  <2>1. n \in 0..255 /\ here \in Addresses
    BY <1>2 DEF Inv, TypeOK
  <2>. QED BY <1>1, <2>1, DefType DEF Kinds
<1>4. defs' = Append(defs, def)
  BY DEF ColonRefused
<1>. HIDE DEF def
<1>5. /\ defs' \in Seq(Definitions)
      /\ Len(defs') = Len(defs) + 1 /\ Len(defs) \in Nat
      /\ DOMAIN defs' = 1..(Len(defs) + 1)
      /\ \A d \in DOMAIN defs : d \in DOMAIN defs' /\ defs'[d] = defs[d]
  BY <1>3, <1>4, NewDef
<1>6. /\ here' = here /\ latest' = latest /\ vocab' = vocab /\ marks' = marks
      /\ compiling' = FALSE /\ pending' = Entry(n).at
  BY DEF ColonRefused, CanDefine, Entry, Inv, TypeOK
<1>7. TypeOK'
  BY <1>2, <1>5, <1>6 DEF Inv, TypeOK, Headers
<1>8. Order'
  <2>1. Len(defs') \in Nat /\ DOMAIN defs' = 1..Len(defs') /\ Len(defs) <= Len(defs')
    BY <1>5
  <2>. QED BY <1>2, <1>6, <2>1, SameWords
<1>9. Pending'
  BY <1>6 DEF Pending
<1>10. Marked'
  <2>1. \A d \in DOMAIN defs : d \in DOMAIN defs' /\ defs'[d].kind = defs[d].kind
    BY <1>5
  <2>. QED BY <1>6, <2>1, MarksKept
<1>. QED BY <1>7, <1>8, <1>9, <1>10 DEF Core

LEMMA StepNONAME ==
  ASSUME Inv, Careful, NONAME
  PROVE  Core'
<1>. DEFINE def == Def("noname", 0, here, here, 0)
<1>1. def \in Definitions
  BY DefType DEF Inv, TypeOK, Kinds
<1>2. defs' = Append(defs, def)
  BY DEF NONAME
<1>3. def.kind = "noname"
  BY DEF Def
<1>. HIDE DEF def
<1>4. /\ defs' \in Seq(Definitions)
      /\ Len(defs') = Len(defs) + 1 /\ Len(defs) \in Nat
      /\ DOMAIN defs' = 1..(Len(defs) + 1) /\ Newest' = def
      /\ \A d \in DOMAIN defs : d \in DOMAIN defs' /\ defs'[d] = defs[d]
  BY <1>1, <1>2, NewDef
<1>5. /\ here' = here /\ latest' = latest /\ vocab' = vocab /\ marks' = marks
      /\ heads' = heads /\ compiling' = TRUE /\ pending' = pending
      /\ left' = left /\ struck' = struck
      /\ pending = 0
  BY DEF NONAME, Careful
<1>6. TypeOK'
  BY <1>4, <1>5 DEF Inv, TypeOK
<1>7. Order'
  <2>1. Len(defs') \in Nat /\ DOMAIN defs' = 1..Len(defs') /\ Len(defs) <= Len(defs')
    BY <1>4
  <2>2. \A i \in DOMAIN vocab : vocab[i] \in heads'
    BY <1>5 DEF Inv, SearchOrder
  <2>. QED BY <1>5, <2>1, <2>2, SameWords
<1>8. Pending'
  <2>1. defs' # <<>>
    BY <1>4, EmptySeq
  <2>. QED BY <1>3, <1>4, <1>5, <2>1 DEF Pending
<1>9. Marked'
  <2>1. \A d \in DOMAIN defs : d \in DOMAIN defs' /\ defs'[d].kind = defs[d].kind
    BY <1>4
  <2>. QED BY <1>5, <2>1, MarksKept
<1>. QED BY <1>6, <1>7, <1>8, <1>9 DEF Core

LEMMA StepSEMICOLON ==
  ASSUME Inv, Careful, SEMICOLON
  PROVE  Core'
<1>1. /\ pending' = 0 /\ compiling' = FALSE
      /\ here' = here /\ heads' = heads /\ defs' = defs /\ marks' = marks
      /\ left' = left /\ struck' = struck
      /\ compiling \/ pending = 0
  BY DEF SEMICOLON, Careful
<1>8. latest' = IF pending # 0 THEN pending ELSE latest
  BY DEF SEMICOLON
<1>9. pending' \in Int /\ compiling' \in BOOLEAN
  <2>1. pending' \in Int
    BY DEF SEMICOLON
  <2>2. compiling' \in BOOLEAN
    BY <1>1, Zenon
  <2>. QED BY <2>1, <2>2
<1>2. Pending'
  BY <1>1 DEF Pending
<1>3. /\ defs \in Seq(Definitions) /\ Len(defs) \in Nat /\ DOMAIN defs = 1..Len(defs)
      /\ compiling => Len(defs) \in DOMAIN defs
  BY EmptySeq DEF Inv, TypeOK, Pending
<1>4. \A i \in DOMAIN vocab : vocab[i] \in heads
  BY DEF Inv, SearchOrder
<1>5. \A d \in DOMAIN defs : d \in DOMAIN defs' /\ defs'[d].kind = defs[d].kind
  BY <1>1
<1>6. CASE ~(compiling /\ Newest.kind = "colon")
  <2>1. vocab' = vocab
    BY <1>6 DEF SEMICOLON
  <2>2. latest' = latest
    <3>1. pending = 0
      BY <1>1, <1>6 DEF Inv, Pending
    <3>. QED BY <1>8, <3>1
  <2>3. Order'
    BY <1>1, <1>3, <1>4, <2>1, <2>2, SameWords
  <2>4. Marked'
    BY <1>1, <1>5, <2>1, MarksKept
  <2>5. TypeOK'
    <3>1. pending' \in Int /\ compiling' \in BOOLEAN
      BY <1>9
    <3>. QED BY <1>1, <2>1, <2>2, <3>1 DEF Inv, TypeOK
  <2>. QED BY <1>2, <2>3, <2>4, <2>5 DEF Core
<1>7. CASE compiling /\ Newest.kind = "colon"
  <2>. DEFINE e == EntryOf(Len(defs))
  <2>1. /\ pending = Newest.at /\ pending > 0 /\ Newest.n \in 1..31
        /\ Newest.at + Size(Newest.n) = latest /\ e \in heads
        /\ \A i \in DOMAIN vocab : vocab[i].id # Len(defs)
    BY <1>7 DEF Inv, Pending
  <2>2. e.id = Len(defs) /\ e.at = Newest.at /\ e.n = Newest.n
    BY DEF EntryOf, Newest
  <2>3. vocab' = Append(vocab, e)
    BY <1>7 DEF SEMICOLON
  <2>4. latest' = e.at
    BY <1>8, <2>1, <2>2 DEF Inv, TypeOK
  <2>5. e \in Headers
    BY <2>1 DEF Inv, TypeOK
  <2>. HIDE DEF e
  <2>6. Order'
    <3>1. e.n \in 1..31 /\ e.at + Size(e.n) = latest /\ e \in heads'
      BY <1>1, <2>1, <2>2
    <3>2. \A i \in DOMAIN vocab : vocab[i] \in heads' /\ vocab[i].id # e.id
      BY <1>1, <1>4, <2>1, <2>2
    <3>3. /\ Len(defs') \in Nat /\ DOMAIN defs' = 1..Len(defs') /\ Len(defs) <= Len(defs')
          /\ e.id \in DOMAIN defs'
      BY <1>1, <1>3, <1>7, <2>2
    <3>. QED BY <2>3, <2>4, <2>5, <3>1, <3>2, <3>3, OneMore
  <2>7. Marked'
    <3>1. /\ vocab \in Seq(Headers) /\ Len(vocab) \in Nat /\ Len(vocab) >= 1
          /\ DOMAIN vocab = 1..Len(vocab)
      BY DEF Inv, TypeOK, Stacked
    <3>2. /\ Len(vocab') = Len(vocab) + 1
          /\ vocab'[Len(vocab) + 1] = e
          /\ \A i \in 1..Len(vocab) : vocab'[i] = vocab[i]
      BY <2>3, <2>5, <3>1, AppendProperties
    <3>3. ASSUME NEW i \in 2..Len(vocab'), NEW m \in marks, vocab'[i].id = m.id
          PROVE  i \in 2..Len(vocab) /\ vocab[i].id = m.id /\ vocab'[i - 1].at = vocab[i - 1].at
      <4>1. m.id # Len(defs)
        <5>1. defs[m.id].kind = "marker"
          BY DEF Inv, Marked
        <5>. QED BY <1>7, <5>1 DEF Newest
      <4>2. i # Len(vocab) + 1
        BY <2>2, <3>2, <3>3, <4>1
      <4>3. i \in 1..Len(vocab) /\ i - 1 \in 1..Len(vocab) /\ i \in 2..Len(vocab)
        BY <3>1, <3>2, <4>2
      <4>. QED BY <3>2, <3>3, <4>3
    <3>. QED BY <1>1, <1>5, <3>3, MarksKept
  <2>8. TypeOK'
    <3>1. vocab' \in Seq(Headers) /\ latest' \in Int
      BY <2>4, <2>5, <2>6 DEF Order, Headers
    <3>2. pending' \in Int /\ compiling' \in BOOLEAN
      BY <1>9
    <3>. QED BY <1>1, <3>1, <3>2 DEF Inv, TypeOK
  <2>. QED BY <1>2, <2>6, <2>7, <2>8 DEF Core
<1>. QED BY <1>6, <1>7

LEMMA Extended ==
  ASSUME Inv, NEW k \in Nat, defs # <<>>, Extend(k)
  PROVE  /\ defs' \in Seq(Definitions) /\ defs' # <<>>
         /\ Len(defs') = Len(defs) /\ Len(defs) \in Nat /\ DOMAIN defs' = DOMAIN defs
         /\ DOMAIN defs = 1..Len(defs) /\ Len(defs) \in DOMAIN defs
         /\ \A d \in DOMAIN defs :
              defs'[d].kind = defs[d].kind /\ defs'[d].at = defs[d].at /\ defs'[d].n = defs[d].n
<1>1. /\ defs \in Seq(Definitions) /\ Len(defs) \in Nat /\ DOMAIN defs = 1..Len(defs)
      /\ Len(defs) \in DOMAIN defs
  BY EmptySeq DEF Inv, TypeOK
<1>2. here + k \in Nat
  BY DEF Inv, TypeOK, Addresses
<1>. DEFINE new == [defs[Len(defs)] EXCEPT !.hi = here + k]
<1>3. new \in Definitions /\ new.kind = defs[Len(defs)].kind /\ new.at = defs[Len(defs)].at
      /\ new.n = defs[Len(defs)].n
  <2>1. defs[Len(defs)] \in Definitions
    BY <1>1
  <2>. QED BY <1>2, <2>1 DEF Definitions
<1>4. defs' = [defs EXCEPT ![Len(defs)] = new]
  BY DEF Extend
<1>. HIDE DEF new
<1>5. defs' \in Seq(Definitions) /\ Len(defs') = Len(defs) /\ DOMAIN defs' = DOMAIN defs
  BY <1>1, <1>3, <1>4
<1>6. defs' # <<>>
  BY <1>1, <1>5, EmptySeq
<1>7. \A d \in DOMAIN defs : defs'[d] = IF d = Len(defs) THEN new ELSE defs[d]
  BY <1>1, <1>4
<1>. QED BY <1>1, <1>3, <1>5, <1>6, <1>7

\* What a word in progress needs is the same after its code has grown.
LEMMA PendingKept ==
  ASSUME Inv, defs # <<>> => defs' # <<>>, Len(defs') = Len(defs), Len(defs) \in Nat,
         \A d \in DOMAIN defs :
              defs'[d].kind = defs[d].kind /\ defs'[d].at = defs[d].at /\ defs'[d].n = defs[d].n,
         DOMAIN defs = 1..Len(defs), defs # <<>> => Len(defs) \in DOMAIN defs,
         compiling' => compiling, pending' = pending, latest' = latest, vocab' = vocab,
         compiling /\ Newest.kind = "colon" => EntryOf(Len(defs)) \in heads'
  PROVE  Pending'
<1>. SUFFICES ASSUME compiling' PROVE Pending'
  BY DEF Pending
<1>1. compiling /\ defs # <<>> /\ defs' # <<>> /\ Len(defs) \in DOMAIN defs
  BY DEF Inv, Pending
<1>2. Newest'.kind = Newest.kind /\ Newest'.at = Newest.at /\ Newest'.n = Newest.n
  BY <1>1 DEF Newest
<1>3. EntryOf(Len(defs))' = EntryOf(Len(defs))
  BY <1>1 DEF EntryOf
<1>. QED BY <1>1, <1>2, <1>3 DEF Inv, Pending

LEMMA CeilingLow ==
  ASSUME Inv
  PROVE  Ceiling \in Int /\ Ceiling <= latest /\ latest - Ceiling <= 35
<1>1. latest \in Int /\ pending \in Int
  BY DEF Inv, TypeOK
<1>2. CASE compiling /\ pending # 0
  <2>1. pending = Newest.at /\ Newest.at + Size(Newest.n) = latest /\ Newest.n \in 1..31
    BY <1>2 DEF Inv, Pending
  <2>2. Size(Newest.n) \in 5..35
    BY <2>1, StrideIsSize
  <2>. QED BY <1>1, <1>2, <2>1, <2>2 DEF Ceiling
<1>. QED BY <1>1, <1>2 DEF Ceiling

LEMMA StepCOMMA ==
  ASSUME Inv, Careful, NEW k \in Nat, COMMA(k)
  PROVE  Core'
<1>1. defs # <<>> /\ Extend(k) /\ Spend(k)
  BY DEF COMMA, Owned
<1>2. /\ defs' \in Seq(Definitions) /\ defs' # <<>>
      /\ Len(defs') = Len(defs) /\ Len(defs) \in Nat /\ DOMAIN defs' = DOMAIN defs
      /\ DOMAIN defs = 1..Len(defs) /\ Len(defs) \in DOMAIN defs
      /\ \A d \in DOMAIN defs :
           defs'[d].kind = defs[d].kind /\ defs'[d].at = defs[d].at /\ defs'[d].n = defs[d].n
  BY <1>1, Extended
<1>3. /\ heads' = Survive(heads, here, here + k) /\ here' = HereAfter(k)
      /\ latest' = latest /\ pending' = pending /\ compiling' = compiling /\ vocab' = vocab
      /\ marks' = marks /\ struck' = struck
  BY DEF COMMA
<1>4. here \in Addresses /\ here \in Int /\ here + k \in Int /\ latest \in Int /\ pending \in Int
  BY DEF Inv, TypeOK, Addresses
<1>5. k = 0 \/ here + k <= Ceiling \/ here >= 2 * BankSize
  BY <1>1, <1>4, InPage, HighCode
<1>6. Ceiling \in Int /\ Ceiling <= latest
  BY CeilingLow
<1>13. left' \in 0..LineBytes
  <2>1. CASE Bank(here) # 1
    BY <1>1, <2>1 DEF Spend
  <2>. QED BY <1>1, <2>1, InPage
<1>7. ASSUME NEW i \in DOMAIN vocab
      PROVE  vocab[i] \in heads'
  <2>1. vocab[i] \in heads
    BY DEF Inv, SearchOrder
  <2>2. /\ vocab[i] \in Headers /\ vocab[i].at >= latest
        /\ vocab[i].at + Size(vocab[i].n) <= 2 * BankSize
    BY Above
  <2>3. vocab[i].at \in Int /\ vocab[i].n \in 0..255
    BY <2>2 DEF Headers
  <2>4. vocab[i].at + Size(vocab[i].n) \in Int
    BY <2>3 DEF Size
  <2>5. k = 0 \/ here + k <= vocab[i].at \/ vocab[i].at + Size(vocab[i].n) <= here
    BY <1>4, <1>5, <1>6, <2>2, <2>3, <2>4 DEF BankSize
  <2>6. ~Overlap(vocab[i].at, vocab[i].at + Size(vocab[i].n), here, here + k)
    BY <1>4, <2>3, <2>4, <2>5, NotHit, NoneHit
  <2>. QED BY <1>3, <2>1, <2>6 DEF Survive
<1>8. ASSUME compiling, Newest.kind = "colon"
      PROVE  EntryOf(Len(defs)) \in heads'
  <2>. DEFINE e == EntryOf(Len(defs))
  <2>1. /\ pending = Newest.at /\ pending > 0 /\ Newest.n \in 1..31
        /\ Newest.at + Size(Newest.n) = latest /\ e \in heads
    BY <1>8 DEF Inv, Pending
  <2>2. e.at = Newest.at /\ e.n = Newest.n
    BY DEF EntryOf, Newest
  <2>. HIDE DEF e
  <2>3. latest <= 2 * BankSize
    <3>1. Len(vocab) \in DOMAIN vocab
      BY DEF Inv, TypeOK, Stacked
    <3>2. vocab[Len(vocab)].at + Size(vocab[Len(vocab)].n) <= 2 * BankSize
           /\ vocab[Len(vocab)] \in Headers
      BY <3>1, Above
    <3>3. latest = vocab[Len(vocab)].at
      BY DEF Inv, SearchOrder
    <3>4. vocab[Len(vocab)].n \in 0..255
      BY <3>2 DEF Headers
    <3>5. 2 * BankSize \in Int
      BY DEF BankSize
    <3>. QED BY <1>4, <3>2, <3>3, <3>4, <3>5, Below
  <2>5. Ceiling = pending
    BY <1>4, <1>8, <2>1 DEF Ceiling
  <2>6. k = 0 \/ here + k <= e.at \/ e.at + Size(e.n) <= here
    BY <1>4, <1>5, <2>1, <2>2, <2>3, <2>5 DEF BankSize
  <2>7. e.at \in Int /\ e.at + Size(e.n) \in Int
    BY <1>4, <2>1, <2>2
  <2>8. ~Overlap(e.at, e.at + Size(e.n), here, here + k)
    BY <1>4, <2>6, <2>7, NotHit, NoneHit
  <2>9. e \in heads'
    BY <1>3, <2>1, <2>8 DEF Survive
  <2>. QED BY <2>9 DEF e
<1>9. TypeOK'
  <2>1. here' \in Addresses
    BY <1>3, <1>4, SameBank
  <2>2. heads' \subseteq Headers
    BY <1>3 DEF Survive, Inv, TypeOK
  <2>. QED BY <1>2, <1>3, <1>13, <2>1, <2>2 DEF Inv, TypeOK
<1>10. Order'
  <2>1. Len(defs') \in Nat /\ DOMAIN defs' = 1..Len(defs') /\ Len(defs) <= Len(defs')
    BY <1>2
  <2>. QED BY <1>3, <1>7, <2>1, SameWords
<1>11. Pending'
  BY <1>1, <1>2, <1>3, <1>8, PendingKept
<1>12. Marked'
  <2>1. \A d \in DOMAIN defs : d \in DOMAIN defs' /\ defs'[d].kind = defs[d].kind
    BY <1>2
  <2>. QED BY <1>3, <2>1, MarksKept
<1>. QED BY <1>9, <1>10, <1>11, <1>12 DEF Core

LEMMA StepALLOT ==
  ASSUME Inv, Careful, NEW k \in Nat, ALLOT(k)
  PROVE  Core'
<1>1. defs # <<>> /\ Extend(k)
  BY DEF ALLOT, Owned
<1>2. /\ defs' \in Seq(Definitions) /\ defs' # <<>>
      /\ Len(defs') = Len(defs) /\ Len(defs) \in Nat /\ DOMAIN defs' = DOMAIN defs
      /\ DOMAIN defs = 1..Len(defs) /\ Len(defs) \in DOMAIN defs
      /\ \A d \in DOMAIN defs :
           defs'[d].kind = defs[d].kind /\ defs'[d].at = defs[d].at /\ defs'[d].n = defs[d].n
  BY <1>1, Extended
<1>3. /\ heads' = heads /\ here' = here + k
      /\ latest' = latest /\ pending' = pending /\ compiling' = compiling /\ vocab' = vocab
      /\ marks' = marks /\ left' = left /\ struck' = struck
  BY DEF ALLOT
<1>9. Bank(here') <= 4
  <2>1. CASE Bank(here) = 1
    <3>1. here + k <= latest /\ here \in Nat
      BY <2>1 DEF ALLOT, Careful, Inv, TypeOK, Addresses
    <3>2. Ptr(here) + k < BankSize
      BY <2>1, <3>1, PageNoWrap
    <3>3. Bank(here + k) = Bank(here)
      BY <3>2, NoWrap DEF Inv, TypeOK
    <3>. QED BY <1>3, <2>1, <3>3
  <2>2. CASE Bank(here) # 1
    BY <1>3, <2>2 DEF ALLOT, Careful
  <2>. QED BY <2>1, <2>2
<1>4. here' \in Addresses
  <2>1. here \in Nat /\ Bank(here) \in 1..4
    BY DEF Inv, TypeOK, Addresses
  <2>2. here' \in Nat /\ here' >= here
    BY <1>3, <2>1
  <2>3. here >= 65536
    BY <2>1 DEF Bank, BankSize
  <2>4. Bank(here') >= 1 /\ Bank(here') \in Int
    <3>. DEFINE h == here'
    <3>1. h \in Nat /\ h >= 65536
      BY <2>1, <2>2, <2>3
    <3>. HIDE DEF h
    <3>2. Bank(h) >= 1 /\ Bank(h) \in Int
      BY <3>1 DEF Bank, BankSize
    <3>. QED BY <3>2 DEF h
  <2>5. Bank(here') \in 1..4
    <3>. DEFINE b == Bank(here')
    <3>1. b >= 1 /\ b \in Int /\ b <= 4
      BY <1>9, <2>4
    <3>. HIDE DEF b
    <3>2. b \in 1..4
      BY <3>1
    <3>. QED BY <3>2 DEF b
  <2>. QED BY <2>2, <2>5 DEF Addresses
<1>5. TypeOK'
  BY <1>2, <1>3, <1>4 DEF Inv, TypeOK
<1>6. Order'
  <2>1. Len(defs') \in Nat /\ DOMAIN defs' = 1..Len(defs') /\ Len(defs) <= Len(defs')
    BY <1>2
  <2>2. \A i \in DOMAIN vocab : vocab[i] \in heads'
    BY <1>3 DEF Inv, SearchOrder
  <2>. QED BY <1>3, <2>1, <2>2, SameWords
<1>7. Pending'
  BY <1>3 DEF ALLOT, Pending
<1>8. Marked'
  <2>1. \A d \in DOMAIN defs : d \in DOMAIN defs' /\ defs'[d].kind = defs[d].kind
    BY <1>2
  <2>. QED BY <1>3, <2>1, MarksKept
<1>. QED BY <1>5, <1>6, <1>7, <1>8 DEF Core

---------------------------------------------------------------------------
(* Words made at once, and words forgotten.                                *)

\* Code, the built-in words' too, has numbers for its ends.
LEMMA CodeKnown ==
  ASSUME Inv, NEW i \in DOMAIN vocab
  PROVE  /\ Code(vocab[i].id).lo \in Nat /\ Code(vocab[i].id).hi \in Nat
         /\ Code(vocab[i].id).xt \in Nat
<1>1. CASE vocab[i].id = 0
  <2>1. Start \in Nat /\ BankSize \in Nat
    BY DEF DictionaryAssumption, BankSize
  <2>. QED BY <1>1, <2>1 DEF Code
<1>2. CASE vocab[i].id # 0
  <2>1. i # 1 /\ i \in 1..Len(vocab) /\ Len(vocab) \in Nat
    BY <1>2 DEF Inv, TypeOK, Stacked, Built
  <2>2. i \in 2..Len(vocab)
    BY <2>1
  <2>3. defs[vocab[i].id] \in Definitions
    BY <2>2 DEF Inv, TypeOK, Known
  <2>. QED BY <1>2, <2>3 DEF Code, Definitions, Addresses
<1>. QED BY <1>1, <1>2

LEMMA StepMade ==
  ASSUME Inv, Careful, NEW n \in NameLens, NEW k \in Nat,
         CanDefine(n, k), WriteHeader(n, k),
         NEW def \in Definitions, def.n = n, Made(def),
         here' \in Addresses,
         \/ marks' = marks
         \/ /\ def.kind = "marker"
            /\ marks' = marks \cup {[id |-> Len(defs) + 1, here |-> here, latest |-> latest]}
  PROVE  Core'
<1>1. /\ n \in 1..31
      /\ Entry(n) \in Headers /\ Entry(n).id = Len(defs) + 1 /\ Entry(n).n = n
      /\ Entry(n).at + Size(n) = latest /\ Entry(n).at > BankSize
      /\ heads' \subseteq Headers
      /\ Entry(n) \in heads'
      /\ \A i \in DOMAIN vocab : vocab[i] \in heads'
      /\ left' \in 0..LineBytes /\ struck' \subseteq Nat
  BY HeaderWritten
<1>. DEFINE e == Entry(n)
<1>2. /\ latest' = e.at /\ defs' = Append(defs, def) /\ vocab' = Append(vocab, e)
      /\ pending' = pending /\ compiling' = compiling
  BY DEF Made, Entry
<1>3. /\ defs' \in Seq(Definitions)
      /\ Len(defs') = Len(defs) + 1 /\ Len(defs) \in Nat
      /\ DOMAIN defs' = 1..(Len(defs) + 1) /\ DOMAIN defs = 1..Len(defs)
      /\ defs'[Len(defs) + 1] = def
      /\ \A d \in DOMAIN defs : d \in DOMAIN defs' /\ defs'[d] = defs[d]
  BY <1>2, NewDef
<1>4. e \in Headers /\ e.id = Len(defs) + 1
  BY <1>1
<1>5. /\ \A i \in DOMAIN vocab : vocab[i].id # Len(defs) + 1
      /\ \A m \in marks : m.id # Len(defs) + 1
  BY FreshId
<1>6. Order'
  <2>1. e.n \in 1..31 /\ e.at + Size(e.n) = latest /\ e \in heads'
    BY <1>1
  <2>2. /\ Len(defs') \in Nat /\ DOMAIN defs' = 1..Len(defs') /\ Len(defs) <= Len(defs')
        /\ e.id \in DOMAIN defs'
    BY <1>3, <1>4
  <2>3. \A i \in DOMAIN vocab : vocab[i].id # e.id
    BY <1>4, <1>5
  <2>. HIDE DEF e
  <2>. QED BY <1>1, <1>2, <1>4, <2>1, <2>2, <2>3, OneMore
<1>. HIDE DEF e
<1>7. Pending'
  <2>1. compiling' = FALSE
    BY <1>2 DEF CanDefine, Inv, TypeOK
  <2>. QED BY <2>1 DEF Pending
<1>8. TypeOK'
  <2>1. marks' \subseteq [id : Nat, here : Addresses, latest : Int]
    BY <1>3 DEF Inv, TypeOK
  <2>2. latest' \in Int /\ vocab' \in Seq(Headers)
    BY <1>2, <1>4, <1>6 DEF Order, Headers
  <2>. QED BY <1>1, <1>2, <1>3, <2>1, <2>2 DEF Inv, TypeOK
<1>9. Marked'
  <2>1. /\ vocab \in Seq(Headers) /\ Len(vocab) \in Nat /\ Len(vocab) >= 1
        /\ DOMAIN vocab = 1..Len(vocab)
    BY DEF Inv, TypeOK, Stacked
  <2>2. /\ Len(vocab') = Len(vocab) + 1
        /\ vocab'[Len(vocab) + 1] = e
        /\ \A i \in 1..Len(vocab) : vocab'[i] = vocab[i]
    BY <1>2, <1>4, <2>1, AppendProperties
  <2>3. ASSUME NEW m \in marks
        PROVE  /\ m.id \in DOMAIN defs' /\ defs'[m.id].kind = "marker"
               /\ \A i \in 2..Len(vocab') : vocab'[i].id = m.id => vocab'[i - 1].at = m.latest
    <3>1. m.id \in DOMAIN defs /\ defs[m.id].kind = "marker"
      BY DEF Inv, Marked
    <3>2. ASSUME NEW i \in 2..Len(vocab'), vocab'[i].id = m.id
          PROVE  vocab'[i - 1].at = m.latest
      <4>1. i # Len(vocab) + 1
        BY <1>4, <1>5, <2>2, <3>2
      <4>2. i \in 1..Len(vocab) /\ i - 1 \in 1..Len(vocab) /\ i \in 2..Len(vocab)
        BY <2>1, <2>2, <4>1
      <4>. QED BY <2>2, <3>2, <4>2 DEF Inv, Marked
    <3>. QED BY <1>3, <3>1, <3>2
  <2>4. ASSUME NEW m \in marks', m \notin marks
        PROVE  /\ m.id \in DOMAIN defs' /\ defs'[m.id].kind = "marker"
               /\ \A i \in 2..Len(vocab') : vocab'[i].id = m.id => vocab'[i - 1].at = m.latest
    <3>1. def.kind = "marker" /\ m.id = Len(defs) + 1 /\ m.latest = latest
      BY <2>4
    <3>2. m.id \in DOMAIN defs' /\ defs'[m.id].kind = "marker"
      BY <1>3, <3>1
    <3>3. ASSUME NEW i \in 2..Len(vocab'), vocab'[i].id = m.id
          PROVE  vocab'[i - 1].at = m.latest
      <4>1. i \notin 1..Len(vocab)
        BY <1>5, <2>1, <2>2, <3>1, <3>3
      <4>2. i - 1 = Len(vocab) /\ i - 1 \in 1..Len(vocab)
        BY <2>1, <2>2, <4>1
      <4>3. vocab'[i - 1] = vocab[Len(vocab)]
        BY <2>2, <4>2
      <4>. QED BY <3>1, <4>3 DEF Inv, SearchOrder
    <3>. QED BY <3>2, <3>3
  <2>. QED BY <2>3, <2>4 DEF Marked
<1>. QED BY <1>6, <1>7, <1>8, <1>9 DEF Core

LEMMA StepCREATE ==
  ASSUME Inv, Careful, NEW n \in NameLens, NEW k \in Nat, CREATE(n, k)
  PROVE  Core'
<1>1. here \in Addresses /\ here' \in Addresses
  BY SameBank DEF CREATE, Inv, TypeOK
<1>2. CanDefine(n, k) /\ WriteHeader(n, k) /\ marks' = marks /\ Made(Def("made", n, here, here, k))
  BY DEF CREATE
<1>3. n \in 0..255
  BY DEF DictionaryAssumption
<1>4. Def("made", n, here, here, k) \in Definitions
  BY <1>1, <1>3, DefType DEF Kinds
<1>5. Def("made", n, here, here, k).n = n
  BY DEF Def
<1>. QED BY <1>1, <1>2, <1>4, <1>5, StepMade

LEMMA StepMARKER ==
  ASSUME Inv, Careful, NEW n \in NameLens, MARKER(n)
  PROVE  Core'
<1>1. here \in Addresses /\ here' \in Addresses /\ 23 \in Nat
  BY SameBank DEF MARKER, Inv, TypeOK
<1>2. /\ CanDefine(n, 23) /\ WriteHeader(n, 23) /\ Made(Def("marker", n, here, here, 23))
      /\ marks' = marks \cup {[id |-> Len(defs) + 1, here |-> here, latest |-> latest]}
  BY DEF MARKER
<1>3. n \in 0..255
  BY DEF DictionaryAssumption
<1>4. Def("marker", n, here, here, 23) \in Definitions
  BY <1>1, <1>3, DefType DEF Kinds
<1>5. Def("marker", n, here, here, 23).n = n /\ Def("marker", n, here, here, 23).kind = "marker"
  BY DEF Def
<1>. QED BY <1>1, <1>2, <1>4, <1>5, StepMade

\* An alias has the offset of the old word's xt, in the bank of HERE.
LEMMA AliasAddress ==
  ASSUME Inv, NEW i \in DOMAIN vocab
  PROVE  Bank(here) * BankSize + Ptr(Code(vocab[i].id).xt) \in Addresses
<1>1. Bank(here) \in Banks
  BY DEF Addresses, Banks, Inv, TypeOK
<1>2. Code(vocab[i].id).xt \in Nat
  BY CodeKnown
<1>3. Ptr(Code(vocab[i].id).xt) \in Offsets
  <2>1. \A x \in Nat : Ptr(x) \in Offsets
    BY DEF Ptr, BankSize, Offsets
  <2>. QED BY <1>2, <2>1, Zenon
<1>. QED BY <1>1, <1>3, InBank

LEMMA StepSYNONYM ==
  ASSUME Inv, Careful, NEW n \in NameLens, NEW i \in DOMAIN vocab, SYNONYM(n, i)
  PROVE  Core'
<1>1. here \in Addresses /\ here' \in Addresses /\ 0 \in Nat
  BY DEF SYNONYM, Inv, TypeOK
<1>. DEFINE xt == Bank(here) * BankSize + Ptr(Code(vocab[i].id).xt)
<1>2. /\ CanDefine(n, 0) /\ WriteHeader(n, 0) /\ Made(Def("alias", n, xt, here, 0))
      /\ marks' = marks
  BY DEF SYNONYM
<1>3. n \in 0..255
  BY DEF DictionaryAssumption
<1>4. xt \in Addresses
  BY AliasAddress
<1>. HIDE DEF xt
<1>5. Def("alias", n, xt, here, 0) \in Definitions
  BY <1>1, <1>3, <1>4, DefType DEF Kinds
<1>6. Def("alias", n, xt, here, 0).n = n
  BY DEF Def
<1>. QED BY <1>1, <1>2, <1>5, <1>6, StepMade

LEMMA StepStub ==
  ASSUME Inv, Careful, NEW n \in NameLens, SynonymOfNothing(n)
  PROVE  Core'
<1>1. here \in Addresses /\ here' \in Addresses /\ 0 \in Nat
  BY DEF SynonymOfNothing, Inv, TypeOK
<1>2. /\ CanDefine(n, 0) /\ WriteHeader(n, 0) /\ Made(Def("stub", n, here, here, 0))
      /\ marks' = marks
  BY DEF SynonymOfNothing
<1>3. n \in 0..255
  BY DEF DictionaryAssumption
<1>4. Def("stub", n, here, here, 0) \in Definitions
  BY <1>1, <1>3, DefType DEF Kinds
<1>5. Def("stub", n, here, here, 0).n = n
  BY DEF Def
<1>. QED BY <1>1, <1>2, <1>4, <1>5, StepMade

LEMMA StepLess ==
  ASSUME Inv, NEW i \in 2..Len(vocab),
         vocab' = Older(i), latest' = vocab[i - 1].at, heads' = heads, defs' = defs,
         marks' = marks, pending' = pending, struck' = struck, left' = Room',
         ~compiling', compiling' = compiling, here' \in Addresses
  PROVE  Core'
<1>1. /\ Order' /\ Len(vocab') = i - 1
      /\ \A j \in 1..(i - 1) : vocab'[j] = vocab[j]
  BY SomeLess
<1>2. vocab[i - 1] \in Headers
  <2>1. vocab \in Seq(Headers) /\ i - 1 \in 1..Len(vocab)
    BY DEF Inv, TypeOK
  <2>. QED BY <2>1
<1>3. TypeOK'
  <2>1. left' \in 0..LineBytes
    BY DEF Room
  <2>2. /\ here' \in Addresses /\ latest' \in Int /\ pending' \in Int /\ compiling' \in BOOLEAN
        /\ heads' \subseteq Headers /\ defs' \in Seq(Definitions) /\ vocab' \in Seq(Headers)
        /\ marks' \subseteq [id : Nat, here : Addresses, latest : Int] /\ struck' \subseteq Nat
    BY <1>1, <1>2 DEF Order, Inv, TypeOK, Headers
  <2>. QED BY <2>1, <2>2 DEF TypeOK
<1>4. Pending'
  BY DEF Pending
<1>5. Marked'
  <2>1. \A d \in DOMAIN defs : d \in DOMAIN defs' /\ defs'[d].kind = defs[d].kind
    OBVIOUS
  <2>2. ASSUME NEW j \in 2..Len(vocab'), NEW m \in marks, vocab'[j].id = m.id
        PROVE  j \in 2..Len(vocab) /\ vocab[j].id = m.id /\ vocab'[j - 1].at = vocab[j - 1].at
    <3>1. Len(vocab) \in Nat
      BY DEF Inv, TypeOK
    <3>2. j \in 2..Len(vocab) /\ j \in 1..(i - 1) /\ j - 1 \in 1..(i - 1)
      BY <1>1, <3>1
    <3>. QED BY <1>1, <2>2, <3>2
  <2>. QED BY <2>1, <2>2, MarksKept
<1>. QED BY <1>1, <1>3, <1>4, <1>5 DEF Core

LEMMA StepRunMarker ==
  ASSUME Inv, NEW i \in 2..Len(vocab), NEW m \in marks, RunMarker(m, i)
  PROVE  Core'
<1>1. m.latest = vocab[i - 1].at
  BY DEF RunMarker, Inv, Marked
<1>2. m.here \in Addresses
  BY DEF Inv, TypeOK
<1>3. /\ vocab' = Older(i) /\ latest' = m.latest /\ heads' = heads /\ defs' = defs
      /\ marks' = marks /\ pending' = pending /\ struck' = struck /\ left' = Room'
      /\ ~compiling' /\ compiling' = compiling /\ here' = m.here
  BY DEF RunMarker, Retreat
<1>. QED BY <1>1, <1>2, <1>3, StepLess

LEMMA StepFORGET ==
  ASSUME Inv, NEW i \in 2..Len(vocab), FORGET(i)
  PROVE  Core'
<1>1. vocab[i].at + Stride(vocab[i].n) = vocab[i - 1].at
  BY DEF Inv, SearchOrder
<1>2. defs[vocab[i].id].xt \in Addresses
  <2>1. vocab[i].id \in DOMAIN defs
    BY DEF Inv, Known
  <2>2. defs[vocab[i].id] \in Definitions
    BY <2>1 DEF Inv, TypeOK
  <2>. QED BY <2>2 DEF Definitions
<1>3. /\ vocab' = Older(i) /\ latest' = vocab[i].at + Stride(vocab[i].n)
      /\ heads' = heads /\ defs' = defs
      /\ marks' = marks /\ pending' = pending /\ struck' = struck /\ left' = Room'
      /\ ~compiling' /\ compiling' = compiling
      /\ here' = defs[vocab[i].id].xt
  BY DEF FORGET, Retreat
<1>. QED BY <1>1, <1>2, <1>3, StepLess

LEMMA Moved ==
  ASSUME NEW h \in Headers, NEW k \in Int
  PROVE  Up(h, k) \in Headers /\ Up(h, k).at = h.at + k /\ Up(h, k).n = h.n /\ Up(h, k).id = h.id
BY DEF Headers, Up

\* Distances stay what they are when both ends, or the lower one, move up.
LEMMA Shifted ==
  ASSUME NEW a \in Int, NEW b \in Int, NEW s \in Int, NEW k \in Int, a + s = b
  PROVE  (a + k) + s = b + k
OBVIOUS

\* Headers newer than the hidden one move up over it, the others stay.
LEMMA StepHide ==
  ASSUME Inv, Careful, NEW i \in 2..Len(vocab), Hide(i)
  PROVE  Core'
<1>. DEFINE e == vocab[i]
            k == Stride(e.n)
            moved == {h \in heads : h.at >= latest /\ h.at + Size(h.n) <= e.at}
            last == Len(vocab) - 1
<1>1. /\ vocab \in Seq(Headers) /\ DOMAIN vocab = 1..Len(vocab) /\ Len(vocab) \in Nat
      /\ i \in DOMAIN vocab /\ last \in Nat /\ heads \subseteq Headers /\ latest \in Int
      /\ Len(vocab) \in DOMAIN vocab
  BY DEF Inv, TypeOK
<1>2. k \in 5..35 /\ k = Size(e.n)
  <2>1. e.n \in 1..31
    BY <1>1 DEF Inv, Stacked
  <2>. QED BY <2>1, StrideIsSize
<1>3. /\ heads' = Survive(heads, latest + k, e.at + k) \cup {Up(h, k) : h \in moved}
      /\ latest' = latest + k
      /\ vocab' = [j \in 1..last |-> IF j < i THEN vocab[j] ELSE Up(vocab[j + 1], k)]
  BY DEF Hide
<1>4. /\ ~compiling /\ here' = here /\ pending' = pending
      /\ compiling' = compiling /\ defs' = defs /\ marks' = marks
      /\ left' = left /\ struck' = struck
  BY DEF Hide
<1>5. \A j \in (i + 1)..Len(vocab) : defs[vocab[j].id].kind # "marker"
  BY DEF Hide, Careful
<1>. HIDE DEF k, last, moved, e
<1>6. ASSUME NEW h \in Headers
      PROVE  Up(h, k) \in Headers /\ Up(h, k).at = h.at + k /\ Up(h, k).n = h.n /\ Up(h, k).id = h.id
  <2>1. k \in Int
    BY <1>2
  <2>. QED BY <2>1, Moved
<1>7. /\ \A j \in 1..last : j \in DOMAIN vocab /\ j + 1 \in DOMAIN vocab
      /\ \A j \in 1..last : vocab[j] \in Headers /\ vocab[j + 1] \in Headers
      /\ \A j \in 1..last : j - 1 \in 1..last \/ j = 1
      /\ Len(vocab) = last + 1 /\ i \in 2..(last + 1)
  BY <1>1 DEF last
<1>8. ASSUME NEW j \in 1..last
      PROVE  /\ j < i => vocab'[j] = vocab[j]
             /\ ~(j < i) => /\ vocab'[j].at = vocab[j + 1].at + k
                            /\ vocab'[j].n = vocab[j + 1].n /\ vocab'[j].id = vocab[j + 1].id
             /\ vocab'[j] \in Headers
  BY <1>3, <1>6, <1>7
<1>9. vocab' \in Seq(Headers) /\ Len(vocab') = last /\ DOMAIN vocab' = 1..last
  <2>1. vocab' \in [1..last -> Headers]
    BY <1>3, <1>8
  <2>. QED BY <1>1, <2>1
<1>10. /\ \A j \in DOMAIN vocab : vocab[j].at \in Int /\ vocab[j].n \in 1..31
  <2>1. \A j \in DOMAIN vocab : vocab[j] \in Headers
    BY <1>1
  <2>. QED BY <2>1 DEF Headers, Inv, Stacked
<1>11. e = vocab[i]
  BY DEF e
<1>12. latest = vocab[last + 1].at
  BY <1>7 DEF Inv, SearchOrder
<1>13. \A j \in 2..(last + 1) : vocab[j].at + Size(vocab[j].n) = vocab[j - 1].at
  <2>1. ASSUME NEW j \in 2..(last + 1)
        PROVE  vocab[j].at + Size(vocab[j].n) = vocab[j - 1].at
    <3>1. j \in DOMAIN vocab /\ j \in 2..Len(vocab)
      BY <1>1, <1>7
    <3>2. Stride(vocab[j].n) = Size(vocab[j].n)
      BY <1>10, <3>1, StrideIsSize
    <3>3. vocab[j].at + Stride(vocab[j].n) = vocab[j - 1].at
      BY <3>1 DEF Inv, SearchOrder
    <3>. QED BY <3>2, <3>3
  <2>. QED BY <2>1
<1>14. \A j, l \in DOMAIN vocab : j < l => vocab[l].at + Size(vocab[l].n) <= vocab[j].at
  BY DEF Inv, Stacked
<1>15. \A n \in 1..31 : Size(n) \in Int
  BY DEF Size
<1>25. k \in Int /\ e.at \in Int /\ vocab[i].at \in Int /\ e.at + k \in Int /\ latest + k \in Int
  <2>1. k \in Int
    BY <1>2
  <2>2. vocab[i].at \in Int
    BY <1>1, <1>10
  <2>. QED BY <1>1, <1>11, <2>1, <2>2
<1>26. \A j \in DOMAIN vocab :
         vocab[j].at \in Int /\ Size(vocab[j].n) \in Int /\ vocab[j].at + Size(vocab[j].n) \in Int
  <2>1. ASSUME NEW j \in DOMAIN vocab
        PROVE  vocab[j].at \in Int /\ Size(vocab[j].n) \in Int
    <3>1. vocab[j].at \in Int /\ vocab[j].n \in 1..31
      BY <1>10
    <3>. QED BY <1>15, <3>1, Zenon
  <2>. QED BY <2>1
<1>16. ASSUME NEW j \in 1..last
       PROVE  vocab'[j] \in heads'
  <2>1. CASE j < i
    <3>1. j \in DOMAIN vocab /\ vocab[j] \in heads /\ vocab'[j] = vocab[j]
      BY <1>7, <1>8, <2>1 DEF Inv, SearchOrder
    <3>2. e.at + k <= vocab[j].at
      BY <1>1, <1>2, <1>11, <1>14, <2>1, <3>1
    <3>3. vocab[j].at \in Int /\ vocab[j].at + Size(vocab[j].n) \in Int
          /\ e.at + k \in Int /\ latest + k \in Int
      BY <1>25, <1>26, <3>1
    <3>4. ~Overlap(vocab[j].at, vocab[j].at + Size(vocab[j].n), latest + k, e.at + k)
      BY <3>2, <3>3, NotHit
    <3>. QED BY <1>3, <3>1, <3>4 DEF Survive
  <2>2. CASE ~(j < i)
    <3>1. j + 1 \in DOMAIN vocab /\ vocab[j + 1] \in heads /\ vocab'[j] = Up(vocab[j + 1], k)
      BY <1>3, <1>7, <2>2 DEF Inv, SearchOrder
    <3>2. vocab[j + 1].at >= latest
      BY <3>1, Above
    <3>3. vocab[j + 1].at + Size(vocab[j + 1].n) <= e.at
      BY <1>1, <1>7, <1>11, <1>14, <2>2, <3>1
    <3>4. vocab[j + 1] \in moved
      BY <3>1, <3>2, <3>3 DEF moved
    <3>. QED BY <1>3, <3>1, <3>4
  <2>. QED BY <2>1, <2>2
<1>17. \A j \in 1..last : vocab'[j].n \in 1..31
  <2>1. ASSUME NEW j \in 1..last
        PROVE  vocab'[j].n = vocab[j].n \/ vocab'[j].n = vocab[j + 1].n
    BY <1>8
  <2>2. \A j \in 1..last : vocab[j].n \in 1..31 /\ vocab[j + 1].n \in 1..31
    BY <1>7, <1>10
  <2>. QED BY <2>1, <2>2
<1>18. SearchOrder'
  <2>1. latest' = vocab'[Len(vocab')].at
    <3>1. last \in 1..last
      BY <1>1, <1>7
    <3>2. CASE i = last + 1
      <4>1. vocab'[last] = vocab[last]
        BY <1>1, <1>8, <3>1, <3>2
      <4>2. vocab[i].at + k = vocab[i - 1].at /\ i - 1 = last
        BY <1>1, <1>2, <1>7, <1>11, <1>13, <3>2
      <4>. QED BY <1>3, <1>9, <1>12, <3>2, <4>1, <4>2
    <3>3. CASE i # last + 1
      <4>1. ~(last < i)
        BY <1>1, <1>7, <3>3
      <4>. QED BY <1>3, <1>8, <1>9, <1>12, <3>1, <4>1
    <3>. QED BY <3>2, <3>3
  <2>2. \A j \in DOMAIN vocab' : vocab'[j] \in heads'
    BY <1>9, <1>16
  <2>3. ASSUME NEW j \in 2..Len(vocab')
        PROVE  vocab'[j].at + Stride(vocab'[j].n) = vocab'[j - 1].at
    <3>1. j \in 1..last /\ j - 1 \in 1..last /\ j \in 2..(last + 1) /\ j + 1 \in 2..(last + 1)
      BY <1>1, <1>9
    <3>2. Stride(vocab'[j].n) = Size(vocab'[j].n)
      BY <1>17, <3>1, StrideIsSize
    <3>3. CASE j < i
      <4>1. j - 1 < i
        BY <1>7, <3>1, <3>3
      <4>. QED BY <1>8, <1>13, <3>1, <3>2, <3>3, <4>1
    <3>4. CASE j = i
      <4>1. vocab'[j].at = vocab[j + 1].at + k /\ vocab'[j].n = vocab[j + 1].n
            /\ vocab'[j - 1] = vocab[j - 1]
        BY <1>7, <1>8, <3>1, <3>4
      <4>2. vocab[j + 1].at + Size(vocab[j + 1].n) = vocab[j].at
        BY <1>7, <1>13, <3>1
      <4>3. vocab[j].at + k = vocab[j - 1].at
        BY <1>2, <1>11, <1>13, <3>1, <3>4
      <4>4. vocab[j + 1].at \in Int /\ Size(vocab[j + 1].n) \in Int /\ vocab[j].at \in Int /\ k \in Int
        BY <1>7, <1>25, <1>26, <3>1
      <4>5. (vocab[j + 1].at + k) + Size(vocab[j + 1].n) = vocab[j].at + k
        BY <4>2, <4>4, Shifted
      <4>6. vocab'[j].at + Size(vocab'[j].n) = vocab[j].at + k
        BY <4>1, <4>5
      <4>. QED BY <3>2, <4>1, <4>3, <4>6
    <3>5. CASE j > i
      <4>1. ~(j < i) /\ ~(j - 1 < i) /\ (j - 1) + 1 = j
        BY <1>7, <3>1, <3>5
      <4>2. /\ vocab'[j].at = vocab[j + 1].at + k /\ vocab'[j].n = vocab[j + 1].n
            /\ vocab'[j - 1].at = vocab[j].at + k
        BY <1>8, <3>1, <4>1
      <4>3. vocab[j + 1].at + Size(vocab[j + 1].n) = vocab[j].at
        BY <1>7, <1>13, <3>1
      <4>4. vocab[j + 1].at \in Int /\ Size(vocab[j + 1].n) \in Int /\ vocab[j].at \in Int /\ k \in Int
        BY <1>7, <1>25, <1>26, <3>1
      <4>5. (vocab[j + 1].at + k) + Size(vocab[j + 1].n) = vocab[j].at + k
        BY <4>3, <4>4, Shifted
      <4>6. vocab'[j].at + Size(vocab'[j].n) = vocab[j].at + k
        BY <4>2, <4>5
      <4>. QED BY <3>2, <4>2, <4>6
    <3>. QED BY <1>7, <3>1, <3>3, <3>4, <3>5
  <2>. QED BY <2>1, <2>2, <2>3 DEF SearchOrder
<1>19. Stacked'
  <2>1. Len(vocab') >= 1 /\ vocab'[1] = Built
    <3>1. 1 \in 1..last /\ 1 < i /\ last >= 1
      BY <1>1, <1>7
    <3>. QED BY <1>8, <1>9, <3>1 DEF Inv, Stacked
  <2>2. \A j \in DOMAIN vocab' : vocab'[j].n \in 1..31
    BY <1>9, <1>17
  <2>3. ASSUME NEW j \in 1..last, NEW l \in 1..last, j < l
        PROVE  vocab'[l].at + Size(vocab'[l].n) <= vocab'[j].at
    <3>1. /\ j \in DOMAIN vocab /\ l \in DOMAIN vocab /\ j + 1 \in DOMAIN vocab
          /\ l + 1 \in DOMAIN vocab /\ j + 1 < l + 1
      BY <1>7, <2>3
    <3>2. CASE l < i
      <4>1. vocab'[l] = vocab[l] /\ vocab'[j] = vocab[j]
        <5>1. j < i
          BY <1>7, <2>3, <3>2
        <5>. QED BY <1>8, <3>2, <5>1
      <4>. QED BY <1>14, <2>3, <3>1, <4>1
    <3>3. CASE ~(l < i) /\ j < i
      <4>1. /\ vocab'[l].at = vocab[l + 1].at + k /\ vocab'[l].n = vocab[l + 1].n
            /\ vocab'[j] = vocab[j]
        BY <1>8, <3>3
      <4>2. i < l + 1
        BY <1>7, <3>3
      <4>3. /\ vocab[l + 1].at + Size(vocab[l + 1].n) <= vocab[i].at
            /\ vocab[i].at + k <= vocab[j].at
        BY <1>1, <1>2, <1>11, <1>14, <3>1, <3>3, <4>2
      <4>4. /\ vocab[l + 1].at \in Int /\ Size(vocab[l + 1].n) \in Int /\ vocab[i].at \in Int
            /\ k \in Int /\ vocab[j].at \in Int
        BY <1>25, <1>26, <3>1
      <4>5. (vocab[l + 1].at + k) + Size(vocab[l + 1].n) <= vocab[j].at
        <5>1. \A a, b, t, d \in Int : a + t <= b => (a + d) + t <= b + d
          OBVIOUS
        <5>2. (vocab[l + 1].at + k) + Size(vocab[l + 1].n) <= vocab[i].at + k
          BY <4>3, <4>4, <5>1, Zenon
        <5>3. \A a, b, c \in Int : a <= b /\ b <= c => a <= c
          OBVIOUS
        <5>4. (vocab[l + 1].at + k) + Size(vocab[l + 1].n) \in Int /\ vocab[i].at + k \in Int
          <6>1. \A a, b \in Int : a + b \in Int
            OBVIOUS
          <6>2. vocab[l + 1].at + k \in Int /\ vocab[i].at + k \in Int
            BY <4>4, <6>1, Zenon
          <6>. QED BY <4>4, <6>1, <6>2, Zenon
        <5>. QED BY <4>3, <4>4, <5>2, <5>3, <5>4, Zenon
      <4>. QED BY <4>1, <4>5
    <3>4. CASE ~(l < i) /\ ~(j < i)
      <4>1. /\ vocab'[l].at = vocab[l + 1].at + k /\ vocab'[l].n = vocab[l + 1].n
            /\ vocab'[j].at = vocab[j + 1].at + k
        BY <1>8, <3>4
      <4>2. vocab[l + 1].at + Size(vocab[l + 1].n) <= vocab[j + 1].at
        BY <1>14, <3>1
      <4>3. /\ vocab[l + 1].at \in Int /\ Size(vocab[l + 1].n) \in Int
            /\ k \in Int /\ vocab[j + 1].at \in Int
        BY <1>25, <1>26, <3>1
      <4>4. (vocab[l + 1].at + k) + Size(vocab[l + 1].n) <= vocab[j + 1].at + k
        <5>1. \A a, b, t, d \in Int : a + t <= b => (a + d) + t <= b + d
          OBVIOUS
        <5>. QED BY <4>2, <4>3, <5>1, Zenon
      <4>. QED BY <4>1, <4>4
    <3>. QED BY <3>2, <3>3, <3>4
  <2>. QED BY <1>9, <2>1, <2>2, <2>3 DEF Stacked
<1>20. \A j \in 1..last : /\ j < i => vocab'[j].id = vocab[j].id
                          /\ ~(j < i) => vocab'[j].id = vocab[j + 1].id
  BY <1>8
<1>21. Known'
  <2>1. ASSUME NEW j \in 2..Len(vocab')
        PROVE  vocab'[j].id \in DOMAIN defs'
    <3>1. j \in 1..last /\ j \in 2..Len(vocab) /\ j + 1 \in 2..Len(vocab)
      BY <1>1, <1>7, <1>9
    <3>. QED BY <1>4, <1>20, <3>1 DEF Inv, Known
  <2>2. ASSUME NEW j \in 1..last, NEW l \in 1..last, vocab'[j].id = vocab'[l].id
        PROVE  j = l
    <3>1. /\ j \in DOMAIN vocab /\ l \in DOMAIN vocab /\ j + 1 \in DOMAIN vocab
          /\ l + 1 \in DOMAIN vocab
      BY <1>7
    <3>2. \A a, b \in DOMAIN vocab : vocab[a].id = vocab[b].id => a = b
      BY DEF Inv, Known
    <3>3. CASE j < i /\ l < i
      BY <1>20, <2>2, <3>1, <3>2, <3>3
    <3>4. CASE j < i /\ ~(l < i)
      <4>1. j = l + 1
        BY <1>20, <2>2, <3>1, <3>2, <3>4
      <4>. QED BY <1>7, <3>4, <4>1
    <3>5. CASE ~(j < i) /\ l < i
      <4>1. j + 1 = l
        BY <1>20, <2>2, <3>1, <3>2, <3>5
      <4>. QED BY <1>7, <3>5, <4>1
    <3>6. CASE ~(j < i) /\ ~(l < i)
      <4>1. j + 1 = l + 1
        BY <1>20, <2>2, <3>1, <3>2, <3>6
      <4>. QED BY <4>1
    <3>. QED BY <3>3, <3>4, <3>5, <3>6
  <2>. QED BY <1>9, <2>1, <2>2 DEF Known
<1>22. Pending'
  BY <1>4 DEF Pending
<1>23. Marked'
  <2>1. \A d \in DOMAIN defs : d \in DOMAIN defs' /\ defs'[d].kind = defs[d].kind
    BY <1>4
  <2>2. ASSUME NEW j \in 2..Len(vocab'), NEW m \in marks, vocab'[j].id = m.id
        PROVE  j \in 2..Len(vocab) /\ vocab[j].id = m.id /\ vocab'[j - 1].at = vocab[j - 1].at
    <3>1. j \in 1..last /\ j - 1 \in 1..last /\ j \in 2..Len(vocab)
      BY <1>1, <1>7, <1>9
    <3>2. CASE j < i
      <4>1. j - 1 < i
        BY <1>7, <3>1, <3>2
      <4>. QED BY <1>8, <1>20, <2>2, <3>1, <3>2, <4>1
    <3>3. CASE ~(j < i)
      <4>1. vocab[j + 1].id = m.id /\ j + 1 \in (i + 1)..Len(vocab)
        BY <1>7, <1>20, <2>2, <3>1, <3>3
      <4>2. defs[m.id].kind = "marker"
        BY DEF Inv, Marked
      <4>. QED BY <1>5, <4>1, <4>2
    <3>. QED BY <3>2, <3>3
  <2>. QED BY <1>4, <2>1, <2>2, MarksKept
<1>24. TypeOK'
  <2>1. heads' \subseteq Headers
    <3>1. moved \subseteq Headers
      BY <1>1 DEF moved
    <3>2. Survive(heads, latest + k, e.at + k) \subseteq Headers
      BY <1>1 DEF Survive
    <3>. QED BY <1>3, <1>6, <3>1, <3>2
  <2>2. latest' \in Int
    BY <1>3, <1>25
  <2>. QED BY <1>4, <1>9, <2>1, <2>2 DEF Inv, TypeOK
<1>. QED BY <1>9, <1>18, <1>19, <1>21, <1>22, <1>23, <1>24 DEF Core, Order

LEMMA StepQuiet ==
  ASSUME Inv,
         \/ LineEnds
         \/ Throw
         \/ UNCHANGED vars
  PROVE  Core'
<1>1. /\ heads' = heads /\ defs' = defs /\ vocab' = vocab /\ marks' = marks
      /\ here' = here /\ latest' = latest /\ pending' = pending /\ struck' = struck
  BY DEF LineEnds, Throw, vars
<1>2. (compiling' => compiling) /\ compiling' \in BOOLEAN
  <2>1. compiling \in BOOLEAN
    BY DEF Inv, TypeOK
  <2>2. CASE LineEnds
    <3>1. compiling' = (compiling /\ ~Clash)
      BY <2>2 DEF LineEnds
    <3>. QED BY <3>1, Zenon
  <2>3. CASE Throw
    BY <2>3, Zenon DEF Throw
  <2>4. CASE UNCHANGED vars
    BY <2>1, <2>4, Zenon DEF vars
  <2>. QED BY <2>2, <2>3, <2>4
<1>7. left' \in 0..LineBytes
  <2>1. Room \in 0..LineBytes
    BY DEF Room
  <2>2. left' = left \/ left' = Room
    BY DEF LineEnds, Throw, vars
  <2>. QED BY <2>1, <2>2 DEF Inv, TypeOK
<1>3. TypeOK'
  BY <1>1, <1>2, <1>7 DEF Inv, TypeOK
<1>4. Order'
  BY <1>1 DEF Inv, TypeOK, SearchOrder, Stacked, Known, Order
<1>5. Marked'
  BY <1>1 DEF Inv, Marked
<1>6. Pending'
  BY <1>1, <1>2 DEF Inv, Pending, Newest, EntryOf
<1>. QED BY <1>3, <1>4, <1>5, <1>6 DEF Core

---------------------------------------------------------------------------
(* The room that the end of the last line found is kept until the next.    *)

LEMMA RoomMade ==
  ASSUME Inv, Careful, NEW n \in NameLens, NEW k \in Nat, NEW def,
         CanDefine(n, k), WriteHeader(n, k), Made(def), def.n = n,
         here' = HereAfter(k) \/ (k = 0 /\ here' = here)
  PROVE  Roomed'
<1>1. here \in Addresses /\ here \in Nat /\ latest \in Int
  BY DEF Inv, TypeOK, Addresses
<1>2. ~compiling' /\ latest' = Entry(n).at
  BY DEF CanDefine, Made, Entry
<1>3. Ceiling' = Entry(n).at
  BY <1>2 DEF Ceiling
<1>. SUFFICES ASSUME Bank(here') = 1 PROVE left' <= Ceiling' - here'
  BY DEF Roomed
<1>4. Bank(here) = 1
  BY <1>1, SameBank
<1>5. /\ n \in 1..31 /\ Entry(n).at + Size(n) = latest /\ Entry(n) \in Headers
      /\ here + k <= Entry(n).at /\ left' <= Entry(n).at - (here + k)
  BY <1>4, HeaderWritten
<1>6. here + k <= latest
  BY <1>1, <1>5 DEF Size, Headers
<1>7. here' = here + k
  BY <1>1, <1>4, <1>6, PageNoWrap, NoWrap
<1>. QED BY <1>3, <1>5, <1>7

LEMMA RoomCOLON ==
  ASSUME Inv, Careful, NEW n \in NameLens, COLON(n) \/ ColonRefused(n)
  PROVE  Roomed'
<1>1. here \in Addresses /\ here \in Nat /\ Bank(here) \in 1..4
  BY DEF Inv, TypeOK, Addresses
<1>2. CanDefine(n, 0) /\ WriteHeader(n, 0) /\ 0 \in Nat /\ pending' = Entry(n).at
  BY DEF COLON, ColonRefused, Entry
<1>3. CASE COLON(n) /\ Roomy
  <2>1. here' = here /\ compiling'
    BY <1>3 DEF COLON
  <2>2. ASSUME Bank(here) = 1
        PROVE  left' <= Entry(n).at - (here + 0)
    BY <1>2, <2>2, HeaderWritten
  <2>3. Entry(n).at > BankSize /\ Entry(n) \in Headers
    BY <1>2, HeaderWritten
  <2>4. Ceiling' = Entry(n).at
    <3>1. Entry(n).at # 0
      BY <2>3 DEF Headers, BankSize
    <3>. QED BY <1>2, <2>1, <3>1 DEF Ceiling
  <2>. QED BY <1>1, <2>1, <2>2, <2>4 DEF Roomed
<1>4. CASE COLON(n) /\ ~Roomy
  <2>1. here' = (Bank(here) + 1) * BankSize
    BY <1>4 DEF COLON, NextBank
  <2>2. Bank(here') # 1
    BY <1>1, <2>1 DEF Bank, BankSize
  <2>. QED BY <2>2 DEF Roomed
<1>5. CASE ColonRefused(n)
  BY <1>1, <1>5 DEF ColonRefused, Roomed
<1>. QED BY <1>3, <1>4, <1>5

LEMMA RoomSame ==
  ASSUME Inv, here' = here, left' = left, Ceiling' \in Int, Ceiling <= Ceiling'
  PROVE  Roomed'
<1>1. here \in Int /\ left \in Int /\ Ceiling \in Int
  BY CeilingLow DEF Inv, TypeOK, Addresses
<1>2. Bank(here) = 1 => left = 0 \/ left <= Ceiling - here
  BY DEF Inv, Roomed
<1>3. \A c \in Int : left <= Ceiling - here /\ Ceiling <= c => left <= c - here
  BY <1>1
<1>. QED BY <1>2, <1>3, Zenon DEF Roomed

LEMMA RoomCOMMA ==
  ASSUME Inv, Careful, NEW k \in Nat, COMMA(k)
  PROVE  Roomed'
<1>1. here \in Addresses /\ here \in Nat /\ latest \in Int
  BY DEF Inv, TypeOK, Addresses
<1>2. here' = HereAfter(k) /\ Spend(k) /\ Ceiling' = Ceiling
  BY DEF COMMA, Ceiling
<1>. SUFFICES ASSUME Bank(here') = 1 PROVE Roomed'
  BY DEF Roomed
<1>3. Bank(here) = 1
  BY <1>1, <1>2, SameBank
<1>4. /\ left' = left - k
      /\ k = 0 \/ (here + k <= Ceiling /\ left' <= Ceiling - (here + k))
  BY <1>2, <1>3, InPage
<1>5. Ceiling \in Int /\ Ceiling <= latest
  BY CeilingLow
<1>6. CASE k = 0
  <2>1. here + k <= here + 0 /\ Ptr(here) + k < BankSize
    BY <1>1, <1>6 DEF Ptr, BankSize
  <2>2. here' = here
    BY <1>1, <1>2, <1>6, <2>1, NoWrap
  <2>3. left' = left
    BY <1>4, <1>6 DEF Inv, TypeOK
  <2>. QED BY <1>2, <1>5, <2>2, <2>3, RoomSame
<1>7. CASE k # 0
  <2>1. here + k <= latest
    BY <1>1, <1>4, <1>5, <1>7
  <2>2. here' = here + k
    BY <1>1, <1>2, <1>3, <2>1, PageNoWrap, NoWrap
  <2>. QED BY <1>2, <1>4, <1>7, <2>2 DEF Roomed
<1>. QED BY <1>6, <1>7

LEMMA RoomALLOT ==
  ASSUME Inv, Careful, NEW k \in Nat, ALLOT(k)
  PROVE  Roomed'
<1>1. here \in Nat /\ latest \in Int /\ left \in 0..LineBytes /\ LineBytes \in 0..221
  BY DEF Inv, TypeOK, Addresses, DictionaryAssumption
<1>2. /\ here' = here + k /\ left' = left /\ Ceiling' = latest
      /\ \/ Bank(here) = 1 /\ here + k + 256 <= latest
         \/ Bank(here) > 1
  BY DEF ALLOT, Careful, Ceiling
<1>3. CASE Bank(here) = 1
  BY <1>1, <1>2, <1>3 DEF Roomed
<1>4. CASE Bank(here) > 1
  <2>1. Bank(here + k) > 1
    BY <1>1, <1>4 DEF Bank, BankSize
  <2>. QED BY <1>2, <2>1 DEF Roomed
<1>. QED BY <1>2, <1>3, <1>4

LEMMA RoomSEMICOLON ==
  ASSUME Inv, Careful, SEMICOLON
  PROVE  Roomed'
<1>1. compiling \/ pending = 0
  BY DEF SEMICOLON, Careful
<1>2. Ceiling' = Ceiling
  BY <1>1 DEF SEMICOLON, Ceiling
<1>3. Ceiling \in Int
  BY CeilingLow
<1>. QED BY <1>2, <1>3, RoomSame DEF SEMICOLON

LEMMA RoomNONAME ==
  ASSUME Inv, Careful, NONAME
  PROVE  Roomed'
<1>1. pending = 0
  BY DEF NONAME, Careful
<1>2. Ceiling' = Ceiling
  BY <1>1 DEF NONAME, Ceiling
<1>3. Ceiling \in Int
  BY CeilingLow
<1>. QED BY <1>2, <1>3, RoomSame DEF NONAME

LEMMA RoomLess ==
  ASSUME Core', left' = Room', ~compiling'
  PROVE  Roomed'
<1>1. here' \in Int /\ latest' \in Int
  BY DEF Core, TypeOK, Addresses
<1>2. \A a, h \in Int : ~(a - h < 256) => LineBytes <= a - h
  <2>. DEFINE l == LineBytes
  <2>1. l \in 0..221
    BY DEF DictionaryAssumption
  <2>. HIDE DEF l
  <2>2. \A a, h \in Int : ~(a - h < 256) => l <= a - h
    BY <2>1
  <2>. QED BY <2>2 DEF l
<1>3. Ceiling' = latest'
  BY DEF Ceiling
<1>4. CASE Bank(here') = 1 /\ ~(latest' - here' < 256)
  <2>1. left' = LineBytes
    BY <1>4, Zenon DEF Room, Clash
  <2>2. LineBytes <= latest' - here'
    BY <1>1, <1>2, <1>4, Zenon
  <2>. QED BY <1>3, <2>1, <2>2, Zenon DEF Roomed
<1>5. CASE Bank(here') = 1 /\ latest' - here' < 256
  BY <1>5, Zenon DEF Room, Clash, Roomed
<1>6. CASE Bank(here') # 1
  BY <1>6, Zenon DEF Roomed
<1>. QED BY <1>4, <1>5, <1>6, Zenon

LEMMA RoomHide ==
  ASSUME Inv, NEW i \in 2..Len(vocab), Hide(i)
  PROVE  Roomed'
<1>1. here' = here /\ left' = left /\ Ceiling' = latest + Stride(vocab[i].n)
  BY DEF Hide, Ceiling
<1>2. i \in DOMAIN vocab
  BY DEF Inv, TypeOK
<1>3. Stride(vocab[i].n) \in 5..35
  <2>1. vocab[i].n \in 1..31
    BY <1>2 DEF Inv, Stacked
  <2>. QED BY <2>1, StrideIsSize
<1>4. latest \in Int /\ Ceiling \in Int /\ Ceiling <= latest
  BY CeilingLow DEF Inv, TypeOK
<1>. DEFINE k == Stride(vocab[i].n)
<1>5. k \in 5..35 /\ Ceiling' = latest + k
  BY <1>1, <1>3
<1>. HIDE DEF k
<1>6. Ceiling' \in Int /\ Ceiling <= Ceiling'
  BY <1>4, <1>5
<1>. QED BY <1>1, <1>6, RoomSame

LEMMA RoomQuiet ==
  ASSUME Inv,
         \/ LineEnds
         \/ Throw
         \/ UNCHANGED vars
  PROVE  Roomed'
<1>1. /\ here \in Int /\ latest \in Int /\ LineBytes \in 0..221
      /\ Ceiling \in Int /\ Ceiling <= latest /\ latest - Ceiling <= 35
  BY CeilingLow DEF Inv, TypeOK, Addresses, DictionaryAssumption
<1>2. CASE LineEnds
  <2>1. here' = here /\ left' = Room /\ (Ceiling' = Ceiling \/ Ceiling' = latest)
    BY <1>2 DEF LineEnds, Ceiling
  <2>. QED BY <1>1, <2>1 DEF Roomed, Room, Clash
<1>3. CASE Throw
  <2>1. here' = here /\ left' = left /\ Ceiling' = latest
    BY <1>3 DEF Throw, Ceiling
  <2>. QED BY <1>1, <2>1, RoomSame
<1>4. CASE UNCHANGED vars
  <2>1. here' = here /\ left' = left /\ Ceiling' = Ceiling
    BY <1>4 DEF vars, Ceiling
  <2>. QED BY <1>1, <2>1, RoomSame
<1>. QED BY <1>2, <1>3, <1>4

---------------------------------------------------------------------------

LEMMA Starts ==
  ASSUME Init
  PROVE  Inv
<1>1. Built \in Headers /\ Built.n = 3 /\ Built.at = Top
  <2>1. Top \in Int
    BY DEF DictionaryAssumption, BankSize
  <2>. QED BY <2>1 DEF Built, Headers
<1>2. /\ vocab = <<Built>> /\ heads = {Built} /\ defs = <<>> /\ marks = {}
      /\ latest = Top /\ pending = 0 /\ compiling = FALSE /\ here = Start
      /\ left = Room /\ struck = {}
  BY DEF Init
<1>3. Len(vocab) = 1 /\ DOMAIN vocab = {1} /\ vocab[1] = Built
  BY <1>2
<1>4. here \in Addresses
  <2>1. Start \in Nat /\ 65536 <= Start /\ Start <= 131071
    <3>1. Top \in Int /\ Top <= 131065
      BY DEF BankSize
    <3>2. Start \in Int /\ 65536 <= Start /\ Start <= Top
      BY DEF BankSize
    <3>. QED BY <3>1, <3>2
  <2>2. Start \div 65536 = 1
    BY <2>1
  <2>. QED BY <1>2, <2>1, <2>2 DEF Addresses, Bank, BankSize
<1>5. TypeOK
  <2>1. vocab \in Seq(Headers) /\ defs \in Seq(Definitions)
    BY <1>1, <1>2
  <2>2. latest \in Int
    BY <1>1, <1>2 DEF Headers
  <2>3. heads \subseteq Headers /\ pending \in Int
        /\ marks \subseteq [id : Nat, here : Addresses, latest : Int]
    BY <1>1, <1>2
  <2>4. compiling \in BOOLEAN
    BY <1>2, Zenon
  <2>5. left \in 0..LineBytes /\ struck \subseteq Nat
    BY <1>2 DEF Room
  <2>. QED BY <1>4, <2>1, <2>2, <2>3, <2>4, <2>5 DEF TypeOK
<1>6. SearchOrder
  BY <1>1, <1>2, <1>3 DEF SearchOrder
<1>7. Stacked
  BY <1>1, <1>3 DEF Stacked
<1>8. Known
  BY <1>3 DEF Known
<1>9. Pending /\ Marked
  BY <1>2 DEF Pending, Marked
<1>10. Roomed
  <2>1. latest \in Int /\ here \in Int /\ Ceiling = latest
    BY <1>2, <1>5 DEF TypeOK, Addresses, Ceiling
  <2>2. LineBytes \in 0..221
    BY DEF DictionaryAssumption
  <2>. QED BY <1>2, <2>1, <2>2 DEF Roomed, Room, Clash
<1>. QED BY <1>5, <1>6, <1>7, <1>8, <1>9, <1>10 DEF Inv

LEMMA Continues ==
  ASSUME Inv, Careful, [Next]_vars
  PROVE  Inv'
<1>0. /\ Pieces \subseteq Nat /\ Allots \subseteq Nat /\ 0 \in Nat /\ 23 \in Nat
      /\ Core' /\ Roomed' => Inv'
  BY DEF DictionaryAssumption, Core, Order, Inv
<1>1. CASE Define
  <2>1. CASE \E n \in NameLens : COLON(n)
    BY <1>0, <2>1, StepCOLON, RoomCOLON
  <2>2. CASE \E n \in NameLens : ColonRefused(n)
    BY <1>0, <2>2, StepColonRefused, RoomCOLON
  <2>3. CASE \E n \in NameLens, k \in Pieces : CREATE(n, k)
    <3>1. PICK n \in NameLens, k \in Pieces : CREATE(n, k)
      BY <2>3
    <3>2. /\ k \in Nat /\ CanDefine(n, k) /\ WriteHeader(n, k) /\ here' = HereAfter(k)
          /\ Made(Def("made", n, here, here, k)) /\ Def("made", n, here, here, k).n = n
      BY <1>0, <3>1 DEF CREATE, Def
    <3>. QED BY <1>0, <3>1, <3>2, StepCREATE, RoomMade
  <2>4. CASE \E n \in NameLens : MARKER(n)
    <3>1. PICK n \in NameLens : MARKER(n)
      BY <2>4
    <3>2. /\ CanDefine(n, 23) /\ WriteHeader(n, 23) /\ here' = HereAfter(23)
          /\ Made(Def("marker", n, here, here, 23)) /\ Def("marker", n, here, here, 23).n = n
      BY <3>1 DEF MARKER, Def
    <3>. QED BY <1>0, <3>1, <3>2, StepMARKER, RoomMade
  <2>5. CASE \E n \in NameLens, i \in DOMAIN vocab : SYNONYM(n, i)
    <3>1. PICK n \in NameLens, i \in DOMAIN vocab : SYNONYM(n, i)
      BY <2>5
    <3>2. PICK xt : /\ CanDefine(n, 0) /\ WriteHeader(n, 0) /\ here' = here
                    /\ Made(Def("alias", n, xt, here, 0))
      BY <3>1 DEF SYNONYM
    <3>3. Def("alias", n, xt, here, 0).n = n
      BY DEF Def
    <3>. QED BY <1>0, <3>1, <3>2, <3>3, StepSYNONYM, RoomMade
  <2>6. CASE \E n \in NameLens : SynonymOfNothing(n)
    <3>1. PICK n \in NameLens : SynonymOfNothing(n)
      BY <2>6
    <3>2. /\ CanDefine(n, 0) /\ WriteHeader(n, 0) /\ here' = here
          /\ Made(Def("stub", n, here, here, 0)) /\ Def("stub", n, here, here, 0).n = n
      BY <3>1 DEF SynonymOfNothing, Def
    <3>. QED BY <1>0, <3>1, <3>2, StepStub, RoomMade
  <2>7. CASE NONAME
    BY <1>0, <2>7, StepNONAME, RoomNONAME
  <2>8. CASE SEMICOLON
    BY <1>0, <2>8, StepSEMICOLON, RoomSEMICOLON
  <2>9. CASE \E k \in Pieces : COMMA(k)
    BY <1>0, <2>9, StepCOMMA, RoomCOMMA
  <2>10. CASE \E k \in Allots : ALLOT(k)
    BY <1>0, <2>10, StepALLOT, RoomALLOT
  <2>. QED BY <1>1, <2>1, <2>2, <2>3, <2>4, <2>5, <2>6, <2>7, <2>8, <2>9, <2>10 DEF Define
<1>2. CASE Undefine
  <2>1. PICK i \in 2..Len(vocab) : (\E m \in marks : RunMarker(m, i)) \/ FORGET(i) \/ Hide(i)
    BY <1>2 DEF Undefine
  <2>2. CASE (\E m \in marks : RunMarker(m, i)) \/ FORGET(i)
    <3>1. Core'
      BY <2>2, StepRunMarker, StepFORGET
    <3>2. left' = Room' /\ ~compiling'
      BY <2>2 DEF RunMarker, FORGET, Retreat
    <3>. QED BY <1>0, <3>1, <3>2, RoomLess
  <2>3. CASE Hide(i)
    BY <1>0, <2>3, StepHide, RoomHide
  <2>. QED BY <2>1, <2>2, <2>3
<1>3. CASE LineEnds \/ Throw \/ UNCHANGED vars
  BY <1>0, <1>3, StepQuiet, RoomQuiet
<1>. QED BY <1>1, <1>2, <1>3 DEF Next

(***************************************************************************)
(* At every size of dictionary, what FIND_NAME walks is the list of words  *)
(* whose header the program put into the search order and has not taken    *)
(* out again (a SYNONYM of nothing among them), whatever was abandoned,    *)
(* hidden, moved or reset in between: for programs that use only the       *)
(* habits "forgetalias" and "crowd".  `;` after an error is the habit      *)
(* "semicolon", and breaks this.                                           *)
(***************************************************************************)
THEOREM SearchOrderKept ==
  ASSUME Careful
  PROVE  Spec => []SearchOrder
<1>1. Init => Inv
  BY Starts
<1>2. Inv /\ [Next]_vars => Inv'
  BY Continues
<1>3. Inv => SearchOrder
  BY DEF Inv
<1>. QED BY <1>1, <1>2, <1>3, PTL DEF Spec

(***************************************************************************)
(* HERE never leaves banks 1 to 4, and every xt and definition is in them. *)
(***************************************************************************)
THEOREM TypeCorrect ==
  ASSUME Careful
  PROVE  Spec => []TypeOK
<1>1. Init => Inv
  BY Starts
<1>2. Inv /\ [Next]_vars => Inv'
  BY Continues
<1>3. Inv => TypeOK
  BY DEF Inv
<1>. QED BY <1>1, <1>2, <1>3, PTL DEF Spec
---------------------------------------------------------------------------
(* Where code lies, for programs that keep to the documented use.          *)

Words == {vocab[i].id : i \in 2..Len(vocab)}

\* The code of a newer word begins where older words end, so that forgetting
\* it, or running its marker, takes HERE back to the end of those that stay;
\* an alias has no code.
Place ==
  /\ \A i, j \in 2..Len(vocab) : i < j => vocab[i].id < vocab[j].id
  /\ \A w \in Words : defs[w].hi <= here
  /\ \A v, w \in Words : v < w /\ defs[w].kind # "alias" => defs[v].hi <= defs[w].xt
  /\ \A m \in marks : m.here = defs[m.id].xt

\* Where a bank is too full for another definition: 1 KB below its end.
Brim == 64512

\* The definition that still grows ends at HERE, and began where a short
\* one has room.
Growing == compiling \/ Len(defs) \in Words

AtHere ==
  /\ Growing => /\ here = Newest.hi
                /\ Newest.kind = "colon" /\ Bank(Newest.lo) > 1 => Ptr(Newest.lo) < Brim
  /\ compiling => /\ Len(defs) \notin Words
                  /\ Bank(here) = Bank(Newest.lo)
                  /\ \A w \in Words : defs[w].hi <= Newest.xt

\* All of it lies after the built-in words.
Begun ==
  /\ Start <= here
  /\ \A d \in DOMAIN defs : defs[d].kind # "alias" => Start <= defs[d].xt

PlaceInv == Inv /\ Place /\ AtHere /\ NeverStraddles /\ Begun /\ struck = {}

LEMMA BegunAppend ==
  ASSUME PlaceInv, NEW def \in Definitions, defs' = Append(defs, def),
         def.kind # "alias" => def.xt = here, here' \in Nat, here <= here'
  PROVE  Begun'
<1>1. Inv /\ Begun /\ here \in Nat /\ Start \in Int
  BY DEF PlaceInv, Inv, TypeOK, Addresses, DictionaryAssumption, BankSize
<1>2. /\ DOMAIN defs' = 1..(Len(defs) + 1) /\ DOMAIN defs = 1..Len(defs) /\ Len(defs) \in Nat
      /\ defs'[Len(defs) + 1] = def
      /\ \A d \in DOMAIN defs : defs'[d] = defs[d]
  BY <1>1, NewDef
<1>3. Start <= here'
  BY <1>1 DEF Begun
<1>4. ASSUME NEW d \in DOMAIN defs', defs'[d].kind # "alias" PROVE Start <= defs'[d].xt
  <2>1. CASE d = Len(defs) + 1
    BY <1>1, <1>2, <1>4, <2>1 DEF Begun
  <2>2. CASE d # Len(defs) + 1
    <3>1. d \in DOMAIN defs
      BY <1>2, <2>2
    <3>. QED BY <1>1, <1>2, <1>4, <3>1 DEF Begun
  <2>. QED BY <2>1, <2>2
<1>. QED BY <1>3, <1>4 DEF Begun

LEMMA Numbers ==
  ASSUME PlaceInv
  PROVE  Begun /\ here \in Nat /\ Start \in Int
<1>1. Start \in Int
  BY DEF DictionaryAssumption, BankSize
<1>. QED BY <1>1 DEF PlaceInv, Inv, TypeOK, Addresses

LEMMA BegunSame ==
  ASSUME PlaceInv, here' \in Nat, here <= here' \/ Start <= here',
         DOMAIN defs' = DOMAIN defs,
         \A d \in DOMAIN defs : defs'[d].kind = defs[d].kind /\ defs'[d].xt = defs[d].xt
  PROVE  Begun'
<1>1. Begun /\ here \in Nat /\ Start \in Int
  BY Numbers
<1>2. Start <= here'
  BY <1>1 DEF Begun
<1>3. \A d \in DOMAIN defs' : defs'[d].kind # "alias" => Start <= defs'[d].xt
  BY <1>1 DEF Begun
<1>. QED BY <1>2, <1>3 DEF Begun

\* A short definition that began where there was room does not wrap.
LEMMA ShortNoWrap ==
  ASSUME PlaceInv, NEW k \in Nat, ShortColon(k)
  PROVE  Ptr(here) + k < BankSize
<1>1. /\ compiling /\ Newest.kind = "colon" /\ Newest.hi - Newest.lo + k <= 1024
      /\ Bank(here) > 1
  BY DEF ShortColon
<1>2. here = Newest.hi /\ Bank(here) = Bank(Newest.lo) /\ Ptr(Newest.lo) < Brim
  BY <1>1 DEF PlaceInv, AtHere, Growing
<1>3. here \in Nat /\ Newest.lo \in Nat
  <2>1. Newest \in Definitions
    BY <1>1, EmptySeq DEF PlaceInv, Inv, TypeOK, Pending, Newest
  <2>. QED BY <2>1 DEF Definitions, Addresses, PlaceInv, Inv, TypeOK
<1>. DEFINE b == Bank(here)
            p == Ptr(here)
            q == Ptr(Newest.lo)
<1>4. here = b * 65536 + p /\ b \in Nat /\ p \in Nat
  BY <1>3, SMT DEF Bank, Ptr, BankSize
<1>5. Newest.lo = b * 65536 + q /\ q \in Nat
  <2>1. Newest.lo = Bank(Newest.lo) * 65536 + q /\ q \in Nat
    BY <1>3, SMT DEF Bank, Ptr, BankSize
  <2>. QED BY <1>2, <2>1, SMT
<1>6. here - Newest.lo + k <= 1024 /\ q < Brim
  BY <1>1, <1>2, <1>3, SMT
<1>. HIDE DEF b, p, q
<1>7. p + k < 65536
  BY <1>3, <1>4, <1>5, <1>6, SMT DEF Brim
<1>. QED BY <1>7, SMT DEF BankSize, p

\* Words are definitions; the newest one's is the last.
LEMMA WordsKnown ==
  ASSUME Inv
  PROVE  /\ DOMAIN defs = 1..Len(defs) /\ Len(defs) \in Nat /\ Len(vocab) \in Nat
         /\ \A w \in Words : w \in 1..Len(defs)
         /\ \A d \in 1..Len(defs) :
              /\ defs[d] \in Definitions
              /\ defs[d].hi \in Nat /\ defs[d].lo \in Nat /\ defs[d].xt \in Nat
         /\ here \in Nat
<1>1. DOMAIN defs = 1..Len(defs) /\ Len(defs) \in Nat /\ Len(vocab) \in Nat
  BY DEF Inv, TypeOK
<1>2. \A w \in Words : w \in 1..Len(defs)
  BY <1>1 DEF Inv, Known, Words
<1>3. \A d \in 1..Len(defs) : defs[d] \in Definitions
  BY <1>1 DEF Inv, TypeOK
<1>. QED BY <1>1, <1>2, <1>3 DEF Definitions, Addresses, Inv, TypeOK

\* A definition that keeps to the size ends in its bank if it began with room.
LEMMA InItsBank ==
  ASSUME NEW lo \in Nat, NEW hi \in Nat, hi - lo <= 1024, Ptr(lo) < Brim
  PROVE  hi <= (Bank(lo) + 1) * BankSize
<1>. DEFINE b == Bank(lo)
            p == Ptr(lo)
<1>1. lo = b * 65536 + p /\ b \in Nat /\ p \in Nat
  BY SMT DEF Bank, Ptr, BankSize
<1>2. p < 64512
  BY DEF Brim
<1>. HIDE DEF p
<1>3. hi <= b * 65536 + 65536
  <2>. HIDE DEF b
  <2>. QED BY <1>1, <1>2, SMT
<1>. QED BY <1>1, <1>3, SMT DEF BankSize

LEMMA OwnedGrows ==
  ASSUME Inv, Owned
  PROVE  Growing /\ defs # <<>>
<1>1. defs # <<>> /\ (compiling \/ Len(defs) \in Visible)
  BY DEF Owned
<1>2. ASSUME Len(defs) \in Visible PROVE Len(defs) \in Words
  <2>1. PICK i \in DOMAIN vocab : vocab[i].id = Len(defs)
    BY <1>2 DEF Visible
  <2>2. Len(defs) > 0 /\ DOMAIN vocab = 1..Len(vocab) /\ Len(vocab) \in Nat
    BY <1>1, EmptySeq, SMT DEF Inv, TypeOK
  <2>3. i # 1
    BY <2>1, <2>2, SMT DEF Inv, Stacked, Built
  <2>4. i \in 2..Len(vocab)
    BY <2>2, <2>3, SMT
  <2>. QED BY <2>1, <2>4 DEF Words
<1>. QED BY <1>1, <1>2 DEF Growing

LEMMA ExtendedCode ==
  ASSUME Inv, NEW k \in Nat, defs # <<>>, Extend(k)
  PROVE  /\ Len(defs') = Len(defs)
         /\ \A d \in 1..Len(defs) :
              /\ defs'[d].kind = defs[d].kind
              /\ defs'[d].xt = defs[d].xt /\ defs'[d].lo = defs[d].lo
              /\ defs'[d].hi = IF d = Len(defs) THEN here + k ELSE defs[d].hi
         /\ Len(defs) \in 1..Len(defs)
<1>1. /\ Len(defs') = Len(defs) /\ Len(defs) \in 1..Len(defs) /\ DOMAIN defs = 1..Len(defs)
  BY Extended
<1>2. defs[Len(defs)] \in Definitions
  BY <1>1, WordsKnown
<1>. DEFINE new == [defs[Len(defs)] EXCEPT !.hi = here + k]
<1>3. /\ new.kind = defs[Len(defs)].kind /\ new.xt = defs[Len(defs)].xt
      /\ new.lo = defs[Len(defs)].lo /\ new.hi = here + k
  BY <1>2 DEF Definitions
<1>4. defs' = [defs EXCEPT ![Len(defs)] = new]
  BY DEF Extend
<1>. HIDE DEF new
<1>5. \A d \in 1..Len(defs) : defs'[d] = IF d = Len(defs) THEN new ELSE defs[d]
  BY <1>1, <1>4
<1>. QED BY <1>1, <1>3, <1>5

\* The newest definition grows.
LEMMA PlaceGrows ==
  ASSUME PlaceInv, NEW k \in Nat, Owned, Extend(k), here' = here + k,
         compiling => Bank(here') = Bank(here),
         compiling' = compiling, vocab' = vocab, marks' = marks
  PROVE  Place' /\ AtHere' /\ NeverStraddles' /\ Begun'
<1>. DEFINE last == Len(defs)
<1>1. Inv /\ Place /\ AtHere /\ NeverStraddles
  BY DEF PlaceInv
<1>2. Growing /\ defs # <<>>
  BY <1>1, OwnedGrows
<1>3. /\ Len(defs') = last /\ last \in 1..last
      /\ \A d \in 1..last :
              /\ defs'[d].kind = defs[d].kind
              /\ defs'[d].xt = defs[d].xt /\ defs'[d].lo = defs[d].lo
              /\ defs'[d].hi = IF d = last THEN here + k ELSE defs[d].hi
  BY <1>1, <1>2, ExtendedCode
<1>4. /\ DOMAIN defs = 1..last /\ last \in Nat /\ here \in Nat
      /\ \A w \in Words : w \in 1..last
      /\ \A d \in 1..last : defs[d].hi \in Nat /\ defs[d].lo \in Nat /\ defs[d].xt \in Nat
  BY <1>1, WordsKnown
<1>5. Words' = Words
  BY DEF Words
<1>6. Newest = defs[last] /\ Newest' = defs'[last]
  BY <1>3 DEF Newest
<1>7. here = Newest.hi /\ (Newest.kind = "colon" /\ Bank(Newest.lo) > 1 => Ptr(Newest.lo) < Brim)
  BY <1>1, <1>2 DEF AtHere
<1>8. Place'
  <2>1. \A i, j \in 2..Len(vocab') : i < j => vocab'[i].id < vocab'[j].id
    BY <1>1 DEF Place
  <2>2. ASSUME NEW w \in Words PROVE defs'[w].hi <= here'
    <3>1. w \in 1..last /\ defs[w].hi <= here /\ defs[w].hi \in Nat
      BY <1>1, <1>4 DEF Place
    <3>2. here' \in Nat /\ here <= here'
      BY <1>4
    <3>3. CASE w = last
      <4>1. defs'[w].hi = here'
        BY <1>3, <3>1, <3>3, Zenon
      <4>. QED BY <3>2, <4>1
    <3>4. CASE w # last
      <4>1. defs'[w].hi = defs[w].hi
        BY <1>3, <3>1, <3>4, Zenon
      <4>2. defs[w].hi <= here'
        BY <1>4, <3>1, <3>2
      <4>. QED BY <4>1, <4>2, Zenon
    <3>. QED BY <3>3, <3>4
  <2>3. ASSUME NEW v \in Words, NEW w \in Words, v < w, defs'[w].kind # "alias"
        PROVE  defs'[v].hi <= defs'[w].xt
    <3>1. v \in 1..last /\ w \in 1..last
      BY <1>4
    <3>2. v # last
      BY <1>4, <2>3, <3>1, SMT
    <3>3. defs'[v].hi = defs[v].hi /\ defs'[w].xt = defs[w].xt /\ defs'[w].kind = defs[w].kind
      BY <1>3, <3>1, <3>2
    <3>4. defs[v].hi <= defs[w].xt
      BY <1>1, <2>3, <3>3 DEF Place
    <3>. QED BY <3>3, <3>4, Zenon
  <2>4. ASSUME NEW m \in marks PROVE m.here = defs'[m.id].xt
    <3>1. m.id \in 1..last /\ m.here = defs[m.id].xt
      BY <1>1, <1>4 DEF Place, Inv, Marked
    <3>. QED BY <1>3, <3>1
  <2>. QED BY <1>5, <2>1, <2>2, <2>3, <2>4 DEF Place
<1>9. AtHere'
  <2>1. /\ here' = Newest'.hi /\ Newest'.lo = Newest.lo /\ Newest'.kind = Newest.kind
        /\ Newest'.xt = Newest.xt
    BY <1>3, <1>6
  <2>2. ASSUME compiling
        PROVE  /\ last \notin Words /\ Bank(here') = Bank(Newest.lo)
               /\ \A w \in Words : defs'[w].hi <= Newest.xt
    <3>1. /\ last \notin Words /\ Bank(here) = Bank(Newest.lo)
          /\ \A w \in Words : defs[w].hi <= Newest.xt
      BY <1>1, <2>2 DEF AtHere
    <3>2. \A w \in Words : defs'[w].hi = defs[w].hi
      BY <1>3, <1>4, <3>1
    <3>3. \A w \in Words : defs'[w].hi <= Newest.xt
      BY <3>1, <3>2, Zenon
    <3>. QED BY <2>2, <3>1, <3>3
  <2>3. ASSUME compiling'
        PROVE  /\ Len(defs') \notin Words' /\ Bank(here') = Bank(Newest'.lo)
               /\ \A w \in Words' : defs'[w].hi <= Newest'.xt
    BY <1>3, <1>5, <2>1, <2>2, <2>3, Zenon
  <2>4. /\ here' = Newest'.hi
        /\ Newest'.kind = "colon" /\ Bank(Newest'.lo) > 1 => Ptr(Newest'.lo) < Brim
    BY <1>7, <2>1
  <2>. QED BY <2>3, <2>4, SMT DEF AtHere
<1>10. NeverStraddles'
  <2>. SUFFICES ASSUME NEW d \in DOMAIN defs', defs'[d].kind = "colon", Bank(defs'[d].lo) > 1,
                       defs'[d].hi - defs'[d].lo <= 1024
                PROVE  defs'[d].hi <= (Bank(defs'[d].lo) + 1) * BankSize
    BY DEF NeverStraddles
  <2>1. d \in 1..last
    BY <1>1, <1>2, Extended
  <2>2. CASE d = last
    <3>1. /\ defs'[d].lo = Newest.lo /\ Newest.lo \in Nat
          /\ defs'[d].hi = here + k /\ here + k \in Nat
      BY <1>3, <1>4, <1>6, <2>1, <2>2
    <3>2. Ptr(defs'[d].lo) < Brim
      BY <1>3, <1>6, <1>7, <2>2, <3>1
    <3>. QED BY <3>1, <3>2, InItsBank
  <2>3. CASE d # last
    <3>1. defs'[d].lo = defs[d].lo /\ defs'[d].hi = defs[d].hi /\ defs'[d].kind = defs[d].kind
      BY <1>3, <2>1, <2>3
    <3>2. d \in DOMAIN defs
      BY <1>4, <2>1
    <3>. QED BY <1>1, <3>1, <3>2, SMT DEF NeverStraddles
  <2>. QED BY <2>2, <2>3
<1>11. Begun'
  <2>1. DOMAIN defs' = DOMAIN defs /\ here' \in Nat /\ here <= here'
    BY <1>1, <1>2, <1>4, Extended
  <2>. QED BY <1>3, <1>4, <2>1, BegunSame
<1>. QED BY <1>8, <1>9, <1>10, <1>11

LEMMA PlaceCOMMA ==
  ASSUME PlaceInv, Habits = {}, NEW k \in Nat, COMMA(k)
  PROVE  Place' /\ AtHere' /\ NeverStraddles' /\ Begun'
<1>1. /\ Owned /\ Extend(k) /\ here' = HereAfter(k) /\ Spend(k)
      /\ compiling' = compiling /\ vocab' = vocab /\ marks' = marks
      /\ ShortColon(k) \/ Within(k)
  BY DEF COMMA
<1>2. Inv /\ here \in Addresses /\ here \in Nat /\ latest \in Int
  BY DEF PlaceInv, Inv, TypeOK, Addresses
<1>3. Ptr(here) + k < BankSize
  <2>1. CASE Bank(here) = 1
    <3>1. k = 0 \/ here + k <= Ceiling
      BY <1>1, <1>2, <2>1, InPage DEF Careful
    <3>2. Ceiling \in Int /\ Ceiling <= latest
      BY <1>2, CeilingLow
    <3>3. CASE k = 0
      BY <1>2, <3>3 DEF Ptr, BankSize
    <3>4. CASE k # 0
      <4>1. here + k <= latest
        BY <1>2, <3>1, <3>2, <3>4
      <4>. QED BY <1>2, <2>1, <4>1, PageNoWrap
    <3>. QED BY <3>3, <3>4
  <2>2. CASE Bank(here) # 1 /\ Within(k)
    BY <2>2 DEF Within
  <2>3. CASE ShortColon(k)
    BY <2>3, ShortNoWrap
  <2>. QED BY <1>1, <2>1, <2>2, <2>3
<1>4. here' = here + k /\ Bank(here') = Bank(here)
  <2>1. HereAfter(k) = here + k /\ Bank(here + k) = Bank(here)
    BY <1>2, <1>3, NoWrap
  <2>. QED BY <1>1, <2>1, Zenon
<1>. QED BY <1>1, <1>4, PlaceGrows

LEMMA PlaceALLOT ==
  ASSUME PlaceInv, NEW k \in Nat, ALLOT(k)
  PROVE  Place' /\ AtHere' /\ NeverStraddles' /\ Begun'
<1>1. /\ Owned /\ ~compiling /\ Extend(k) /\ here' = here + k
      /\ compiling' = compiling /\ vocab' = vocab /\ marks' = marks
  BY DEF ALLOT
<1>. QED BY <1>1, PlaceGrows

---------------------------------------------------------------------------
(* Definitions that begin.                                                 *)

LEMMA AppendStraddles ==
  ASSUME PlaceInv, NEW def \in Definitions, defs' = Append(defs, def),
         def.kind = "colon" => def.hi = def.lo
  PROVE  NeverStraddles'
<1>1. Inv /\ NeverStraddles
  BY DEF PlaceInv
<1>2. /\ Len(defs) \in Nat /\ DOMAIN defs' = 1..(Len(defs) + 1) /\ DOMAIN defs = 1..Len(defs)
      /\ defs'[Len(defs) + 1] = def
      /\ \A d \in DOMAIN defs : d \in DOMAIN defs' /\ defs'[d] = defs[d]
  BY <1>1, NewDef
<1>. SUFFICES ASSUME NEW d \in DOMAIN defs', defs'[d].kind = "colon", Bank(defs'[d].lo) > 1,
                     defs'[d].hi - defs'[d].lo <= 1024
              PROVE  defs'[d].hi <= (Bank(defs'[d].lo) + 1) * BankSize
  BY DEF NeverStraddles
<1>3. CASE d = Len(defs) + 1
  <2>1. def.lo \in Nat /\ defs'[d] = def /\ def.hi = def.lo
    BY <1>2, <1>3 DEF Definitions, Addresses
  <2>2. def.lo <= (Bank(def.lo) + 1) * BankSize
    BY <2>1, SMT DEF Bank, BankSize
  <2>. QED BY <2>1, <2>2, Zenon
<1>4. CASE d # Len(defs) + 1
  <2>1. d \in DOMAIN defs /\ defs'[d] = defs[d]
    BY <1>2, <1>4, SMT
  <2>. QED BY <1>1, <2>1, SMT DEF NeverStraddles
<1>. QED BY <1>3, <1>4

\* Nothing is to be found yet.
LEMMA PlaceBegins ==
  ASSUME PlaceInv, NEW def \in Definitions, defs' = Append(defs, def),
         vocab' = vocab, marks' = marks, here' \in Nat, here <= here', ~compiling,
         compiling' => /\ def.hi = here' /\ def.xt = here /\ Bank(here') = Bank(def.lo)
                       /\ def.kind = "colon" /\ Bank(def.lo) > 1 => Ptr(def.lo) < Brim
  PROVE  Place' /\ AtHere'
<1>. DEFINE last == Len(defs)
<1>1. Inv /\ Place
  BY DEF PlaceInv
<1>2. /\ last \in Nat /\ Len(defs') = last + 1 /\ DOMAIN defs = 1..last /\ Newest' = def
      /\ \A d \in 1..last : defs'[d] = defs[d]
  BY <1>1, NewDef
<1>3. /\ \A w \in Words : w \in 1..last
      /\ \A d \in 1..last : defs[d].hi \in Nat
      /\ here \in Nat
  BY <1>1, WordsKnown
<1>4. Words' = Words
  BY DEF Words
<1>5. ASSUME NEW w \in Words
      PROVE  w \in 1..last /\ defs'[w] = defs[w] /\ defs[w].hi <= here /\ defs[w].hi <= here'
  <2>1. w \in 1..last /\ defs[w].hi <= here
    BY <1>1, <1>3 DEF Place
  <2>. QED BY <1>2, <1>3, <2>1, SMT
<1>6. Place'
  <2>1. \A m \in marks : m.here = defs'[m.id].xt
    BY <1>1, <1>2 DEF Place, Inv, Marked
  <2>2. \A i, j \in 2..Len(vocab') : i < j => vocab'[i].id < vocab'[j].id
    BY <1>1 DEF Place
  <2>3. \A w \in Words' : defs'[w].hi <= here'
    BY <1>4, <1>5
  <2>4. ASSUME NEW v \in Words, NEW w \in Words, v < w, defs'[w].kind # "alias"
        PROVE  defs'[v].hi <= defs'[w].xt
    <3>1. defs'[v] = defs[v] /\ defs'[w] = defs[w]
      BY <1>5
    <3>. QED BY <1>1, <2>4, <3>1 DEF Place
  <2>. QED BY <1>4, <2>1, <2>2, <2>3, <2>4, Zenon DEF Place
<1>7. AtHere'
  <2>1. last + 1 \notin Words
    BY <1>2, <1>3, SMT
  <2>2. ~compiling' => ~Growing'
    BY <1>2, <1>4, <2>1, SMT DEF Growing
  <2>3. compiling' => \A w \in Words' : defs'[w].hi <= Newest'.xt
    BY <1>2, <1>4, <1>5, SMT
  <2>4. CASE compiling'
    <3>1. here' = Newest'.hi
      BY <1>2, <2>4
    <3>2. Newest'.kind = "colon" /\ Bank(Newest'.lo) > 1 => Ptr(Newest'.lo) < Brim
      BY <1>2, <2>4
    <3>3. Len(defs') \notin Words' /\ Bank(here') = Bank(Newest'.lo)
      BY <1>2, <1>4, <2>1, <2>4
    <3>. QED BY <2>3, <2>4, <3>1, <3>2, <3>3, Zenon DEF AtHere
  <2>5. CASE ~compiling'
    BY <2>2, <2>5 DEF AtHere
  <2>. QED BY <2>4, <2>5
<1>. QED BY <1>6, <1>7

LEMMA PlaceCOLON ==
  ASSUME PlaceInv, NEW n \in NameLens, COLON(n), Inv'
  PROVE  Place' /\ AtHere' /\ NeverStraddles' /\ Begun'
<1>1. /\ defs' = Append(defs, Def("colon", n, here, here', 0))
      /\ vocab' = vocab /\ marks' = marks /\ ~compiling
      /\ here' = IF Roomy THEN here ELSE NextBank
  BY DEF COLON, CanDefine
<1>2. Inv /\ here \in Addresses /\ here' \in Addresses
  BY DEF PlaceInv, Inv, TypeOK
<1>3. here \in Nat /\ here' \in Nat
  BY <1>2 DEF Addresses
<1>4. here <= here' /\ (Bank(here') > 1 => Ptr(here') < Brim)
  <2>1. CASE Roomy
    BY <1>1, <1>3, <2>1, SMT DEF Roomy, Brim
  <2>2. CASE ~Roomy
    <3>1. here' = (Bank(here) + 1) * BankSize
      BY <1>1, <2>2 DEF NextBank
    <3>2. here <= here' /\ Ptr(here') = 0
      BY <1>3, <3>1, SMT DEF Bank, Ptr, BankSize
    <3>. QED BY <3>2, SMT DEF Brim
  <2>. QED BY <2>1, <2>2
<1>. DEFINE def == Def("colon", n, here, here', 0)
<1>5. n \in 0..255
  BY DEF DictionaryAssumption
<1>6. def \in Definitions
  BY <1>2, <1>5, DefType DEF Kinds
<1>7. def.kind = "colon" /\ def.hi = here' + 0 /\ def.lo = here' /\ def.xt = here
  BY DEF Def
<1>8. def.hi = here'
  BY <1>3, <1>7
<1>9. defs' = Append(defs, def)
  BY <1>1
<1>. HIDE DEF def
<1>10. NeverStraddles'
  BY <1>6, <1>7, <1>8, <1>9, AppendStraddles
<1>11. Place' /\ AtHere'
  BY <1>1, <1>3, <1>4, <1>6, <1>7, <1>8, <1>9, PlaceBegins
<1>12. Begun'
  BY <1>3, <1>4, <1>6, <1>7, <1>9, BegunAppend
<1>. QED BY <1>10, <1>11, <1>12

LEMMA PlaceColonRefused ==
  ASSUME PlaceInv, NEW n \in NameLens, ColonRefused(n)
  PROVE  Place' /\ AtHere' /\ NeverStraddles' /\ Begun'
<1>1. /\ defs' = Append(defs, Def("colon", n, here, here, 0))
      /\ vocab' = vocab /\ marks' = marks /\ here' = here /\ ~compiling /\ compiling' = compiling
  BY DEF ColonRefused, CanDefine
<1>2. Inv /\ here \in Addresses /\ here \in Nat
  BY DEF PlaceInv, Inv, TypeOK, Addresses
<1>. DEFINE def == Def("colon", n, here, here, 0)
<1>3. n \in 0..255
  BY DEF DictionaryAssumption
<1>4. def \in Definitions
  BY <1>2, <1>3, DefType DEF Kinds
<1>5. def.hi = here + 0 /\ def.lo = here /\ def.xt = here
  BY DEF Def
<1>6. def.hi = def.lo
  BY <1>2, <1>5
<1>7. defs' = Append(defs, def)
  BY <1>1
<1>. HIDE DEF def
<1>8. NeverStraddles'
  BY <1>4, <1>6, <1>7, AppendStraddles
<1>9. Place' /\ AtHere'
  BY <1>1, <1>2, <1>4, <1>7, PlaceBegins
<1>10. Begun'
  <2>1. here' \in Nat /\ here <= here'
    BY <1>1, <1>2
  <2>. QED BY <1>4, <1>5, <1>7, <2>1, BegunAppend
<1>. QED BY <1>8, <1>9, <1>10

LEMMA PlaceNONAME ==
  ASSUME PlaceInv, NONAME
  PROVE  Place' /\ AtHere' /\ NeverStraddles' /\ Begun'
<1>1. /\ defs' = Append(defs, Def("noname", 0, here, here, 0))
      /\ vocab' = vocab /\ marks' = marks /\ here' = here /\ ~compiling
  BY DEF NONAME
<1>2. Inv /\ here \in Addresses /\ here \in Nat
  BY DEF PlaceInv, Inv, TypeOK, Addresses
<1>. DEFINE def == Def("noname", 0, here, here, 0)
<1>3. def \in Definitions
  BY <1>2, DefType DEF Kinds
<1>4. def.kind = "noname" /\ def.hi = here + 0 /\ def.lo = here /\ def.xt = here
  BY DEF Def
<1>5. def.hi = here
  BY <1>2, <1>4
<1>6. defs' = Append(defs, def)
  BY <1>1
<1>. HIDE DEF def
<1>7. NeverStraddles'
  BY <1>3, <1>4, <1>6, AppendStraddles
<1>8. Place' /\ AtHere'
  BY <1>1, <1>2, <1>3, <1>4, <1>5, <1>6, PlaceBegins
<1>9. Begun'
  <2>1. here' \in Nat /\ here <= here'
    BY <1>1, <1>2
  <2>. QED BY <1>3, <1>4, <1>6, <2>1, BegunAppend
<1>. QED BY <1>7, <1>8, <1>9

LEMMA PlaceSEMICOLON ==
  ASSUME PlaceInv, SEMICOLON
  PROVE  Place' /\ AtHere' /\ NeverStraddles' /\ Begun'
<1>. DEFINE last == Len(defs)
            e == EntryOf(last)
<1>1. Inv /\ Place /\ AtHere /\ NeverStraddles
  BY DEF PlaceInv
<1>0. /\ compiling' = FALSE /\ defs' = defs /\ marks' = marks /\ here' = here
      /\ vocab' = IF compiling /\ Newest.kind = "colon" THEN Append(vocab, e) ELSE vocab
  BY DEF SEMICOLON
<1>3. NeverStraddles'
  BY <1>0, <1>1 DEF NeverStraddles
<1>9. Begun'
  <2>1. here' \in Nat /\ here <= here'
    BY <1>0, <1>1 DEF Inv, TypeOK, Addresses
  <2>. QED BY <1>0, <2>1, BegunSame
<1>8. ASSUME ~compiling PROVE Place' /\ AtHere' /\ NeverStraddles'
  <2>1. vocab' = vocab /\ Words' = Words
    BY <1>0, <1>8 DEF Words
  <2>2. Place'
    BY <1>0, <1>1, <2>1 DEF Place
  <2>3. AtHere'
    BY <1>0, <1>1, <2>1 DEF AtHere, Growing, Newest
  <2>. QED BY <1>3, <2>2, <2>3
<1>. SUFFICES ASSUME compiling PROVE Place' /\ AtHere' /\ NeverStraddles'
  BY <1>8, <1>9
<1>2. /\ compiling /\ compiling' = FALSE /\ defs' = defs /\ marks' = marks /\ here' = here
      /\ vocab' = IF Newest.kind = "colon" THEN Append(vocab, e) ELSE vocab
  BY <1>0
<1>4. /\ here = Newest.hi
      /\ Newest.kind = "colon" /\ Bank(Newest.lo) > 1 => Ptr(Newest.lo) < Brim
      /\ last \notin Words /\ \A w \in Words : defs[w].hi <= Newest.xt
  BY <1>1, <1>2 DEF AtHere, Growing
<1>5. /\ last \in Nat /\ Len(vocab) \in Nat
      /\ \A w \in Words : w \in 1..last
      /\ vocab \in Seq(Headers) /\ Len(vocab) >= 1 /\ here \in Nat
  BY <1>1, WordsKnown DEF Inv, TypeOK, Stacked
<1>6. CASE Newest.kind = "colon"
  <2>1. e \in Headers /\ e.id = last
    BY <1>1, <1>2, <1>6 DEF Inv, Pending, TypeOK, EntryOf
  <2>2. vocab' = Append(vocab, e)
    BY <1>2, <1>6
  <2>. HIDE DEF e
  <2>3. /\ Len(vocab') = Len(vocab) + 1
        /\ vocab'[Len(vocab) + 1] = e
        /\ \A i \in 1..Len(vocab) : vocab'[i] = vocab[i]
    BY <1>5, <2>1, <2>2, AppendProperties
  <2>4. \A i \in 2..Len(vocab') :
          \/ i \in 2..Len(vocab) /\ vocab'[i].id = vocab[i].id
          \/ i = Len(vocab) + 1 /\ vocab'[i].id = last
    BY <1>5, <2>1, <2>3
  <2>5. Words' = Words \cup {last}
    <3>1. Len(vocab) + 1 \in 2..Len(vocab') /\ vocab'[Len(vocab) + 1].id = last
      BY <1>5, <2>1, <2>3
    <3>2. \A i \in 2..Len(vocab) : i \in 2..Len(vocab') /\ vocab'[i].id = vocab[i].id
      BY <1>5, <2>3
    <3>. QED BY <2>4, <3>1, <3>2 DEF Words
  <2>6. \A w \in Words : w < last
    BY <1>4, <1>5, SMT
  <2>7. \A i, j \in 2..Len(vocab') : i < j => vocab'[i].id < vocab'[j].id
    <3>. SUFFICES ASSUME NEW i \in 2..Len(vocab'), NEW j \in 2..Len(vocab'), i < j
                  PROVE  vocab'[i].id < vocab'[j].id
      OBVIOUS
    <3>1. i \in 2..Len(vocab) /\ vocab'[i].id = vocab[i].id
      BY <1>5, <2>3, <2>4, SMT
    <3>2. CASE j \in 2..Len(vocab) /\ vocab'[j].id = vocab[j].id
      BY <1>1, <3>1, <3>2 DEF Place
    <3>3. CASE vocab'[j].id = last
      BY <2>6, <3>1, <3>3 DEF Words
    <3>. QED BY <2>4, <3>2, <3>3
  <2>8. \A w \in Words' : defs'[w].hi <= here'
    <3>1. here <= here
      BY <1>5
    <3>. QED BY <1>1, <1>2, <1>4, <2>5, <3>1 DEF Place, Newest
  <2>9. ASSUME NEW v \in Words', NEW w \in Words', v < w, defs'[w].kind # "alias"
        PROVE  defs'[v].hi <= defs'[w].xt
    <3>1. v \in Words
      BY <1>5, <2>5, <2>6, <2>9, SMT
    <3>2. CASE w = last
      BY <1>2, <1>4, <3>1, <3>2 DEF Newest
    <3>3. CASE w \in Words
      BY <1>1, <1>2, <2>9, <3>1, <3>3 DEF Place
    <3>. QED BY <2>5, <3>2, <3>3
  <2>10. Place'
    <3>1. \A m \in marks' : m.here = defs'[m.id].xt
      BY <1>1, <1>2 DEF Place
    <3>. QED BY <2>7, <2>8, <2>9, <3>1, Zenon DEF Place
  <2>11. AtHere'
    BY <1>2, <1>4 DEF AtHere, Newest
  <2>. QED BY <1>3, <2>10, <2>11
<1>7. CASE Newest.kind # "colon"
  <2>1. vocab' = vocab /\ Words' = Words
    BY <1>2, <1>7 DEF Words
  <2>2. Place'
    BY <1>1, <1>2, <2>1 DEF Place
  <2>3. AtHere'
    BY <1>2, <1>4, <2>1 DEF AtHere, Growing
  <2>. QED BY <1>3, <2>2, <2>3
<1>. QED BY <1>6, <1>7

---------------------------------------------------------------------------
(* Words made at once.                                                     *)

LEMMA PlaceMade ==
  ASSUME PlaceInv, Inv', NEW n \in NameLens, NEW def \in Definitions, Made(def), def.n = n,
         ~compiling, def.kind # "colon", def.hi = here', here <= here',
         def.kind # "alias" => def.xt = here,
         \/ marks' = marks
         \/ /\ def.xt = here
            /\ marks' = marks \cup {[id |-> Len(defs) + 1, here |-> here, latest |-> latest]}
  PROVE  Place' /\ AtHere' /\ NeverStraddles' /\ Begun'
<1>. DEFINE last == Len(defs)
            e == Entry(n)
<1>1. Inv /\ Place
  BY DEF PlaceInv
<1>2. /\ defs' = Append(defs, def) /\ vocab' = Append(vocab, e) /\ compiling' = compiling
  BY DEF Made
<1>3. NeverStraddles'
  BY <1>2, AppendStraddles
<1>4. /\ last \in Nat /\ Len(defs') = last + 1 /\ DOMAIN defs = 1..last /\ Newest' = def
      /\ defs'[last + 1] = def
      /\ \A d \in 1..last : defs'[d] = defs[d]
  BY <1>1, <1>2, NewDef
<1>5. /\ Len(vocab) \in Nat
      /\ \A w \in Words : w \in 1..last
      /\ \A d \in 1..last : defs[d].hi \in Nat
      /\ vocab \in Seq(Headers) /\ Len(vocab) >= 1 /\ here \in Nat
  BY <1>1, WordsKnown DEF Inv, TypeOK, Stacked
<1>0. PICK new : new = last + 1
  OBVIOUS
<1>6. e.id = new
  BY <1>0 DEF Entry
<1>7. e \in Headers
  <2>1. n \in 0..255 /\ latest - Size(n) \in Int
    BY <1>1 DEF DictionaryAssumption, Inv, TypeOK, Size
  <2>. QED BY <1>4, <2>1 DEF Entry, Headers
<1>. HIDE DEF e
<1>8. /\ Len(vocab') = Len(vocab) + 1
      /\ vocab'[Len(vocab) + 1] = e
      /\ \A i \in 1..Len(vocab) : vocab'[i] = vocab[i]
  BY <1>2, <1>5, <1>7, AppendProperties
<1>9. \A i \in 2..Len(vocab') :
        \/ i \in 2..Len(vocab) /\ vocab'[i].id = vocab[i].id
        \/ i = Len(vocab) + 1 /\ vocab'[i].id = new
  BY <1>5, <1>6, <1>8
<1>10. Words' = Words \cup {new}
  <2>1. Len(vocab) + 1 \in 2..Len(vocab') /\ vocab'[Len(vocab) + 1].id = new
    BY <1>5, <1>6, <1>8
  <2>2. \A i \in 2..Len(vocab) : i \in 2..Len(vocab') /\ vocab'[i].id = vocab[i].id
    BY <1>5, <1>8
  <2>. QED BY <1>9, <2>1, <2>2, Zenon DEF Words
<1>11. ASSUME NEW w \in Words
       PROVE  w < new /\ defs'[w] = defs[w] /\ defs[w].hi <= here /\ defs[w].hi <= here'
  <2>1. w \in 1..last /\ defs[w].hi <= here
    BY <1>1, <1>5 DEF Place
  <2>2. here' \in Nat
    BY DEF Inv, TypeOK, Addresses
  <2>. QED BY <1>0, <1>4, <1>5, <2>1, <2>2, SMT
<1>12. \A i, j \in 2..Len(vocab') : i < j => vocab'[i].id < vocab'[j].id
  <2>. SUFFICES ASSUME NEW i \in 2..Len(vocab'), NEW j \in 2..Len(vocab'), i < j
                PROVE  vocab'[i].id < vocab'[j].id
    OBVIOUS
  <2>1. i \in 2..Len(vocab) /\ vocab'[i].id = vocab[i].id
    BY <1>5, <1>8, <1>9, SMT
  <2>2. CASE j \in 2..Len(vocab) /\ vocab'[j].id = vocab[j].id
    BY <1>1, <2>1, <2>2 DEF Place
  <2>3. CASE vocab'[j].id = new
    BY <1>11, <2>1, <2>3 DEF Words
  <2>. QED BY <1>9, <2>2, <2>3
<1>13. \A w \in Words' : defs'[w].hi <= here'
  <2>1. here' <= here'
    BY DEF Inv, TypeOK, Addresses
  <2>. QED BY <1>0, <1>4, <1>10, <1>11, <2>1
<1>14. ASSUME NEW v \in Words', NEW w \in Words', v < w, defs'[w].kind # "alias"
       PROVE  defs'[v].hi <= defs'[w].xt
  <2>1. v \in Words
    BY <1>0, <1>4, <1>5, <1>10, <1>11, <1>14, SMT
  <2>2. CASE w = new
    BY <1>0, <1>4, <1>11, <1>14, <2>1, <2>2
  <2>3. CASE w \in Words
    BY <1>1, <1>11, <1>14, <2>1, <2>3 DEF Place
  <2>. QED BY <1>10, <2>2, <2>3
<1>15. ASSUME NEW m \in marks' PROVE m.here = defs'[m.id].xt
  <2>1. CASE m \in marks
    BY <1>1, <1>4, <2>1 DEF Place, Inv, Marked
  <2>2. CASE m \notin marks
    BY <1>4, <1>15, <2>2
  <2>. QED BY <2>1, <2>2
<1>16. Place'
  BY <1>12, <1>13, <1>14, <1>15, Zenon DEF Place
<1>17. AtHere'
  <2>1. compiling' = FALSE
    BY <1>1, <1>2 DEF Inv, TypeOK
  <2>. QED BY <1>4, <2>1 DEF AtHere
<1>18. Begun'
  <2>1. here' \in Nat
    BY DEF Inv, TypeOK, Addresses
  <2>. QED BY <1>2, <2>1, BegunAppend
<1>. QED BY <1>3, <1>16, <1>17, <1>18

LEMMA PlaceCREATE ==
  ASSUME PlaceInv, Inv', Habits = {}, NEW n \in NameLens, NEW k \in Nat,
         CanDefine(n, k), WriteHeader(n, k), here' = HereAfter(k),
         NEW kind \in {"made", "marker"}, Made(Def(kind, n, here, here, k)),
         \/ marks' = marks
         \/ marks' = marks \cup {[id |-> Len(defs) + 1, here |-> here, latest |-> latest]}
  PROVE  Place' /\ AtHere' /\ NeverStraddles' /\ Begun'
<1>1. Inv /\ here \in Addresses /\ here \in Nat /\ n \in 1..255 /\ latest \in Int
  BY DEF PlaceInv, Inv, TypeOK, Addresses, DictionaryAssumption
<1>3. Ptr(here) + k < BankSize
  <2>1. CASE Bank(here) = 1
    <3>1. here + k <= Entry(n).at
      BY <1>1, <2>1, HeaderWritten DEF Careful
    <3>2. Entry(n).at \in Int /\ Entry(n).at <= latest
      BY <1>1 DEF Entry, Size
    <3>3. here + k <= latest
      BY <1>1, <3>1, <3>2
    <3>. QED BY <1>1, <2>1, <3>3, PageNoWrap
  <2>2. CASE Bank(here) # 1
    BY <2>2 DEF CanDefine, Within
  <2>. QED BY <2>1, <2>2
<1>4. here' = here + k
  BY <1>1, <1>3, NoWrap
<1>. DEFINE def == Def(kind, n, here, here, k)
<1>5. def \in Definitions
  <2>1. n \in 0..255 /\ kind \in Kinds
    BY <1>1 DEF Kinds
  <2>. QED BY <1>1, <2>1, DefType DEF Kinds
<1>6. def.n = n /\ def.kind = kind /\ def.hi = here + k /\ def.xt = here
  BY DEF Def
<1>7. Made(def)
  OBVIOUS
<1>. HIDE DEF def
<1>8. def.kind # "colon" /\ def.kind # "alias" /\ def.hi = here' /\ here <= here'
  BY <1>1, <1>4, <1>6
<1>9. ~compiling
  BY DEF CanDefine
<1>. QED BY <1>5, <1>6, <1>7, <1>8, <1>9, PlaceMade

LEMMA PlaceSYNONYM ==
  ASSUME PlaceInv, Inv', NEW n \in NameLens, NEW xt \in Addresses, NEW kind \in {"alias", "stub"},
         ~compiling, here' = here, marks' = marks,
         kind = "stub" => xt = here, Made(Def(kind, n, xt, here, 0))
  PROVE  Place' /\ AtHere' /\ NeverStraddles' /\ Begun'
<1>. DEFINE def == Def(kind, n, xt, here, 0)
<1>1. Inv /\ here \in Addresses /\ here \in Nat /\ n \in 0..255 /\ kind \in Kinds
  BY DEF PlaceInv, Inv, TypeOK, Addresses, DictionaryAssumption, Kinds
<1>2. Made(def)
  OBVIOUS
<1>4. def \in Definitions
  BY <1>1, DefType
<1>5. def.n = n /\ def.kind = kind /\ def.hi = here + 0 /\ def.xt = xt
  BY DEF Def
<1>. HIDE DEF def
<1>6. /\ def.hi = here' /\ here <= here' /\ def.kind # "colon"
      /\ def.kind # "alias" => def.xt = here
  BY <1>1, <1>5
<1>. QED BY <1>2, <1>4, <1>5, <1>6, PlaceMade

---------------------------------------------------------------------------
(* Words forgotten or hidden, and errors.                                  *)

\* FORGET and a marker take HERE back to where the word's code began: those
\* that stay end below.
LEMMA PlaceLess ==
  ASSUME PlaceInv, NEW i \in 2..Len(vocab),
         vocab' = Older(i), defs' = defs, marks' = marks, ~compiling',
         defs[vocab[i].id].kind # "alias", here' = defs[vocab[i].id].xt
  PROVE  Place' /\ AtHere' /\ NeverStraddles' /\ Begun'
<1>. DEFINE id == vocab[i].id
<1>1. Inv /\ Place /\ NeverStraddles
  BY DEF PlaceInv
<1>2. /\ Len(vocab) \in Nat /\ Len(defs) \in Nat /\ id \in Words
      /\ \A w \in Words : w \in 1..Len(defs)
  BY <1>1, WordsKnown DEF Words
<1>3. Len(vocab') = i - 1 /\ \A j \in 1..(i - 1) : vocab'[j] = vocab[j]
  <2>1. vocab \in Seq(Headers) /\ i \in 1..Len(vocab)
    BY <1>1, <1>2 DEF Inv, TypeOK
  <2>. QED BY <2>1, SMT DEF Older
<1>4. ASSUME NEW j \in 2..Len(vocab')
      PROVE  j \in 2..Len(vocab) /\ vocab'[j] = vocab[j] /\ vocab[j].id < id
  <2>1. j \in 2..Len(vocab) /\ j < i /\ j \in 1..(i - 1)
    BY <1>2, <1>3, SMT
  <2>. QED BY <1>1, <1>3, <2>1 DEF Place
<1>5. ASSUME NEW w \in Words' PROVE w \in Words /\ w < id
  BY <1>4 DEF Words
<1>6. Len(defs) \notin Words'
  BY <1>2, <1>5, SMT
<1>7. Place'
  <2>1. \A a, b \in 2..Len(vocab') : a < b => vocab'[a].id < vocab'[b].id
    BY <1>1, <1>4 DEF Place
  <2>2. \A w \in Words' : defs'[w].hi <= here'
    BY <1>1, <1>2, <1>5 DEF Place
  <2>3. \A v, w \in Words' : v < w /\ defs'[w].kind # "alias" => defs'[v].hi <= defs'[w].xt
    BY <1>1, <1>5 DEF Place
  <2>4. \A m \in marks' : m.here = defs'[m.id].xt
    BY <1>1 DEF Place
  <2>. QED BY <2>1, <2>2, <2>3, <2>4, Zenon DEF Place
<1>8. AtHere'
  BY <1>6 DEF AtHere, Growing
<1>9. NeverStraddles'
  BY <1>1 DEF NeverStraddles
<1>10. Begun'
  <2>1. id \in DOMAIN defs
    BY <1>1 DEF Inv, Known
  <2>2. defs[id] \in Definitions
    BY <1>1, <2>1 DEF Inv, TypeOK
  <2>3. here' \in Nat /\ Start <= here'
    BY <2>1, <2>2 DEF PlaceInv, Begun, Definitions, Addresses
  <2>. QED BY <2>3, BegunSame
<1>. QED BY <1>7, <1>8, <1>9, <1>10

LEMMA PlaceRunMarker ==
  ASSUME PlaceInv, NEW i \in 2..Len(vocab), NEW m \in marks, RunMarker(m, i)
  PROVE  Place' /\ AtHere' /\ NeverStraddles' /\ Begun'
<1>1. /\ vocab[i].id = m.id /\ here' = m.here /\ vocab' = Older(i)
      /\ defs' = defs /\ marks' = marks /\ ~compiling'
  BY DEF RunMarker, Retreat
<1>2. defs[m.id].kind = "marker" /\ m.here = defs[m.id].xt
  BY DEF PlaceInv, Inv, Marked, Place
<1>3. defs[vocab[i].id].kind # "alias" /\ here' = defs[vocab[i].id].xt
  BY <1>1, <1>2
<1>. QED BY <1>1, <1>3, PlaceLess

LEMMA PlaceFORGET ==
  ASSUME PlaceInv, Habits = {}, NEW i \in 2..Len(vocab), FORGET(i)
  PROVE  Place' /\ AtHere' /\ NeverStraddles' /\ Begun'
<1>1. /\ defs[vocab[i].id].kind # "alias" /\ here' = defs[vocab[i].id].xt
      /\ vocab' = Older(i) /\ defs' = defs /\ marks' = marks /\ ~compiling'
  BY DEF FORGET, Retreat
<1>. QED BY <1>1, PlaceLess

LEMMA PlaceHide ==
  ASSUME PlaceInv, NEW i \in 2..Len(vocab), Hide(i)
  PROVE  Place' /\ AtHere' /\ NeverStraddles' /\ Begun'
<1>. DEFINE at(j) == IF j < i THEN j ELSE j + 1
            k == Stride(vocab[i].n)
<1>1. Inv /\ Place /\ AtHere /\ NeverStraddles
  BY DEF PlaceInv
<1>2. /\ vocab' = [j \in 1..(Len(vocab) - 1) |->
                        IF j < i THEN vocab[j] ELSE Up(vocab[j + 1], k)]
      /\ here' = here /\ defs' = defs /\ marks' = marks /\ ~compiling /\ ~compiling'
  BY DEF Hide
<1>. HIDE DEF k
<1>3. Len(vocab) \in Nat /\ i \in 2..Len(vocab) /\ Len(vocab) - 1 \in Nat
  BY <1>1, WordsKnown
<1>4. Len(vocab') = Len(vocab) - 1
  BY <1>2, <1>3
<1>5. ASSUME NEW j \in 2..Len(vocab')
      PROVE  at(j) \in 2..Len(vocab) /\ vocab'[j].id = vocab[at(j)].id
  <2>1. j \in 1..(Len(vocab) - 1) /\ at(j) \in 2..Len(vocab)
    BY <1>3, <1>4, SMT
  <2>2. \A h : Up(h, k).id = h.id
    BY DEF Up
  <2>. QED BY <1>2, <2>1, <2>2
<1>6. \A a, b \in 2..Len(vocab') : a < b => at(a) < at(b)
  BY <1>3, <1>4, SMT
<1>. HIDE DEF at
<1>7. \A a, b \in 2..Len(vocab') : a < b => vocab'[a].id < vocab'[b].id
  BY <1>1, <1>5, <1>6 DEF Place
<1>8. Words' \subseteq Words
  BY <1>5 DEF Words
<1>9. Place'
  <2>1. \A w \in Words' : defs'[w].hi <= here'
    BY <1>1, <1>2, <1>8 DEF Place
  <2>2. \A v, w \in Words' : v < w /\ defs'[w].kind # "alias" => defs'[v].hi <= defs'[w].xt
    BY <1>1, <1>2, <1>8 DEF Place
  <2>3. \A m \in marks' : m.here = defs'[m.id].xt
    BY <1>1, <1>2 DEF Place
  <2>. QED BY <1>7, <2>1, <2>2, <2>3, Zenon DEF Place
<1>10. AtHere'
  BY <1>1, <1>2, <1>8 DEF AtHere, Growing, Newest
<1>11. NeverStraddles'
  BY <1>1, <1>2 DEF NeverStraddles
<1>12. Begun'
  <2>1. here' \in Nat /\ here <= here'
    BY <1>1, <1>2 DEF Inv, TypeOK, Addresses
  <2>. QED BY <1>2, <2>1, BegunSame
<1>. QED BY <1>9, <1>10, <1>11, <1>12

LEMMA PlaceQuiet ==
  ASSUME PlaceInv,
         \/ LineEnds
         \/ Throw
         \/ UNCHANGED vars
  PROVE  Place' /\ AtHere' /\ NeverStraddles' /\ Begun'
<1>1. /\ defs' = defs /\ vocab' = vocab /\ marks' = marks /\ here' = here
  BY DEF LineEnds, Throw, vars
<1>2. compiling' => compiling
  <2>1. CASE LineEnds
    BY <2>1, Zenon DEF LineEnds
  <2>2. CASE Throw
    BY <2>2 DEF Throw
  <2>3. CASE UNCHANGED vars
    BY <2>3, Zenon DEF vars
  <2>. QED BY <2>1, <2>2, <2>3
<1>3. Place /\ AtHere /\ NeverStraddles
  BY DEF PlaceInv
<1>4. Words' = Words
  BY <1>1 DEF Words
<1>5. Place' /\ NeverStraddles'
  BY <1>1, <1>3, <1>4 DEF Place, NeverStraddles
<1>6. AtHere'
  BY <1>1, <1>2, <1>3, <1>4 DEF AtHere, Growing, Newest
<1>7. Begun'
  <2>1. here' \in Nat /\ here <= here'
    BY <1>1 DEF PlaceInv, Inv, TypeOK, Addresses
  <2>. QED BY <1>1, <2>1, BegunSame
<1>. QED BY <1>5, <1>6, <1>7

---------------------------------------------------------------------------
(* No header is written over the code of a word.                           *)

LEMMA CodeLow ==
  ASSUME PlaceInv, NEW d \in Visible
  PROVE  Code(d).lo \in Nat /\ Code(d).hi \in Nat /\ Code(d).hi <= here
<1>1. PICK i \in DOMAIN vocab : vocab[i].id = d
  BY DEF Visible
<1>2. Inv /\ Place /\ Begun
  BY DEF PlaceInv
<1>3. Code(d).lo \in Nat /\ Code(d).hi \in Nat
  BY <1>1, <1>2, CodeKnown
<1>4. CASE d = 0
  BY <1>2, <1>3, <1>4 DEF Begun, Code
<1>5. CASE d # 0
  <2>1. i # 1 /\ i \in 1..Len(vocab) /\ Len(vocab) \in Nat
    BY <1>1, <1>2, <1>5 DEF Inv, TypeOK, Stacked, Built
  <2>2. i \in 2..Len(vocab)
    BY <2>1
  <2>3. d \in Words
    BY <1>1, <2>2 DEF Words
  <2>. QED BY <1>2, <1>3, <1>5, <2>3 DEF Place, Code
<1>. QED BY <1>3, <1>4, <1>5

LEMMA UnStruck ==
  ASSUME PlaceInv, Habits = {}, NEW n \in NameLens, NEW k \in Nat,
         CanDefine(n, k), WriteHeader(n, k)
  PROVE  struck' = {}
<1>1. Inv /\ struck = {} /\ latest \in Int /\ here \in Int
  BY DEF PlaceInv, Inv, TypeOK, Addresses
<1>2. CASE Bank(here) # 1
  BY <1>1, <1>2 DEF CanDefine, WriteHeader
<1>3. CASE Bank(here) = 1
  <2>1. here + k <= Entry(n).at /\ Entry(n) \in Headers
    BY <1>1, <1>3, HeaderWritten DEF Careful
  <2>2. here <= Entry(n).at /\ Entry(n).at \in Int
    BY <1>1, <2>1 DEF Headers
  <2>3. ASSUME NEW d \in Visible
        PROVE  ~Overlap(Entry(n).at, latest, Code(d).lo, Code(d).hi)
    <3>1. Code(d).lo \in Nat /\ Code(d).hi \in Nat /\ Code(d).hi <= Entry(n).at
      BY <1>1, <2>2, CodeLow
    <3>. QED BY <1>1, <2>2, <3>1, NotHit
  <2>4. Struck(n) = {}
    BY <2>3 DEF Struck
  <2>. QED BY <1>1, <2>4 DEF WriteHeader
<1>. QED BY <1>2, <1>3

LEMMA StruckNever ==
  ASSUME PlaceInv, Habits = {}, [Next]_vars
  PROVE  struck' = {}
<1>0. struck = {} /\ Pieces \subseteq Nat /\ 0 \in Nat /\ 23 \in Nat
  BY DEF PlaceInv, DictionaryAssumption
<1>1. ASSUME NEW n \in NameLens, COLON(n) \/ ColonRefused(n) \/ SynonymOfNothing(n)
      PROVE  struck' = {}
  <2>1. CanDefine(n, 0) /\ WriteHeader(n, 0)
    BY <1>1 DEF COLON, ColonRefused, SynonymOfNothing
  <2>. QED BY <1>0, <2>1, UnStruck
<1>2. ASSUME NEW n \in NameLens, NEW i \in DOMAIN vocab, SYNONYM(n, i)
      PROVE  struck' = {}
  <2>1. CanDefine(n, 0) /\ WriteHeader(n, 0)
    BY <1>2 DEF SYNONYM
  <2>. QED BY <1>0, <2>1, UnStruck
<1>3. ASSUME NEW n \in NameLens, NEW k \in Pieces, CREATE(n, k)
      PROVE  struck' = {}
  BY <1>0, <1>3, UnStruck DEF CREATE
<1>4. ASSUME NEW n \in NameLens, MARKER(n)
      PROVE  struck' = {}
  <2>1. CanDefine(n, 23) /\ WriteHeader(n, 23)
    BY <1>4 DEF MARKER
  <2>. QED BY <1>0, <2>1, UnStruck
<1>5. CASE NONAME \/ SEMICOLON \/ LineEnds \/ Throw \/ UNCHANGED vars
  BY <1>0, <1>5 DEF NONAME, SEMICOLON, LineEnds, Throw, vars
<1>6. CASE (\E k \in Pieces : COMMA(k)) \/ (\E k \in Allots : ALLOT(k))
  BY <1>0, <1>6 DEF COMMA, ALLOT
<1>7. CASE Undefine
  BY <1>0, <1>7 DEF Undefine, RunMarker, FORGET, Hide
<1>. QED BY <1>1, <1>2, <1>3, <1>4, <1>5, <1>6, <1>7 DEF Next, Define

---------------------------------------------------------------------------

LEMMA PlaceStarts == Init => PlaceInv
<1>. SUFFICES ASSUME Init PROVE PlaceInv
  OBVIOUS
<1>1. Inv
  BY Starts
<1>2. /\ defs = <<>> /\ compiling = FALSE /\ marks = {} /\ Len(vocab) = 1
      /\ here = Start /\ struck = {}
  BY DEF Init
<1>3. 2..Len(vocab) = {} /\ DOMAIN defs = {}
  BY <1>2
<1>4. Words = {}
  BY <1>3 DEF Words
<1>5. Begun
  BY <1>1, <1>2, <1>3 DEF Begun, Inv, TypeOK, Addresses
<1>. QED BY <1>1, <1>2, <1>3, <1>4, <1>5 DEF PlaceInv, Place, AtHere, Growing, NeverStraddles

LEMMA PlaceContinues ==
  ASSUME PlaceInv, Habits = {}, [Next]_vars
  PROVE  PlaceInv'
<1>0. /\ Pieces \subseteq Nat /\ Allots \subseteq Nat /\ Careful /\ 23 \in Nat
      /\ Inv /\ here \in Addresses
  BY DEF DictionaryAssumption, Careful, PlaceInv, Inv, TypeOK
<1>1. Inv' /\ struck' = {}
  BY <1>0, Continues, StruckNever
<1>. SUFFICES Place' /\ AtHere' /\ NeverStraddles' /\ Begun'
  BY <1>1 DEF PlaceInv
<1>2. CASE Define
  <2>1. CASE \E n \in NameLens : COLON(n)
    BY <1>1, <2>1, PlaceCOLON
  <2>2. CASE \E n \in NameLens : ColonRefused(n)
    BY <1>1, <2>2, PlaceColonRefused
  <2>3. CASE \E n \in NameLens, k \in Pieces : CREATE(n, k)
    <3>1. PICK n \in NameLens, k \in Pieces : CREATE(n, k)
      BY <2>3
    <3>2. k \in Nat /\ CanDefine(n, k) /\ WriteHeader(n, k) /\ here' = HereAfter(k)
          /\ marks' = marks /\ Made(Def("made", n, here, here, k))
      BY <1>0, <3>1 DEF CREATE
    <3>. QED BY <1>1, <3>2, PlaceCREATE
  <2>4. CASE \E n \in NameLens : MARKER(n)
    <3>1. PICK n \in NameLens : MARKER(n)
      BY <2>4
    <3>2. /\ CanDefine(n, 23) /\ WriteHeader(n, 23) /\ here' = HereAfter(23)
          /\ Made(Def("marker", n, here, here, 23))
          /\ marks' = marks \cup {[id |-> Len(defs) + 1, here |-> here, latest |-> latest]}
      BY <3>1 DEF MARKER
    <3>. QED BY <1>0, <1>1, <3>2, PlaceCREATE
  <2>5. CASE \E n \in NameLens, i \in DOMAIN vocab : SYNONYM(n, i)
    <3>1. PICK n \in NameLens, i \in DOMAIN vocab : SYNONYM(n, i)
      BY <2>5
    <3>. DEFINE xt == Bank(here) * BankSize + Ptr(Code(vocab[i].id).xt)
    <3>2. /\ ~compiling /\ here' = here /\ marks' = marks
          /\ Made(Def("alias", n, xt, here, 0))
      BY <3>1 DEF SYNONYM, CanDefine
    <3>3. xt \in Addresses
      BY <1>0, AliasAddress
    <3>. HIDE DEF xt
    <3>. QED BY <1>1, <3>2, <3>3, PlaceSYNONYM
  <2>6. CASE \E n \in NameLens : SynonymOfNothing(n)
    <3>1. PICK n \in NameLens : SynonymOfNothing(n)
      BY <2>6
    <3>2. /\ ~compiling /\ here' = here /\ marks' = marks
          /\ Made(Def("stub", n, here, here, 0))
      BY <3>1 DEF SynonymOfNothing, CanDefine
    <3>. QED BY <1>0, <1>1, <3>2, PlaceSYNONYM
  <2>7. CASE NONAME
    BY <1>1, <2>7, PlaceNONAME
  <2>8. CASE SEMICOLON
    BY <1>1, <2>8, PlaceSEMICOLON
  <2>9. CASE \E k \in Pieces : COMMA(k)
    BY <1>0, <1>1, <2>9, PlaceCOMMA
  <2>10. CASE \E k \in Allots : ALLOT(k)
    BY <1>0, <1>1, <2>10, PlaceALLOT
  <2>. QED BY <1>2, <2>1, <2>2, <2>3, <2>4, <2>5, <2>6, <2>7, <2>8, <2>9, <2>10 DEF Define
<1>3. CASE Undefine
  BY <1>1, <1>3, PlaceRunMarker, PlaceFORGET, PlaceHide DEF Undefine
<1>4. CASE LineEnds \/ Throw \/ UNCHANGED vars
  BY <1>1, <1>4, PlaceQuiet
<1>. QED BY <1>2, <1>3, <1>4 DEF Next

(***************************************************************************)
(* The code of words that can be found is never written over, by code or   *)
(* by headers, and a short definition never runs across the end of a bank, *)
(* however banks fill up and words are forgotten, hidden, abandoned or     *)
(* taken back by markers, in programs without the habits.  That a page was *)
(* left when a line of at most LineBytes began is what keeps headers and   *)
(* code apart in bank 1; in the higher banks the program has to ("crowd"). *)
(***************************************************************************)
THEOREM CodeStaysInPlace ==
  ASSUME Habits = {}
  PROVE  Spec => []CodeInPlace
<1>1. Init => PlaceInv
  BY PlaceStarts
<1>2. PlaceInv /\ [Next]_vars => PlaceInv'
  BY PlaceContinues
<1>3. PlaceInv => CodeInPlace
  BY CodeLow DEF PlaceInv, CodeInPlace, CodeBelowHere, CodeSpared
<1>. QED BY <1>1, <1>2, <1>3, PTL DEF Spec
===========================================================================
