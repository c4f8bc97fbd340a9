-------------------------- MODULE PoolHeap_proofs --------------------------
(***************************************************************************)
(* The allocator keeps its free list and the chunks it issued in order and *)
(* apart and loses few bytes, none of its assertions fails, and it is an   *)
(* Allocator, whatever the size of the pool and the calls.                 *)
(***************************************************************************)
EXTENDS PoolHeap, WellFoundedInduction, SequenceTheorems, FiniteSetTheorems, TLAPS

----------------------------------------------------------------------------
\* Lists, an element at a time.

\* The sequence s is the list with e put in at i.
HasInserted(s, S, list, i, e) ==
  /\ s \in Seq(S) /\ Len(s) = Len(list) + 1
  /\ \A j \in 1 .. Len(list) + 1 :
       s[j] = IF j < i THEN list[j] ELSE IF j = i THEN e ELSE list[j - 1]

\* InsertAt, by its elements.
LEMMA InsertIs ==
  ASSUME NEW S, NEW list \in Seq(S), NEW i \in 1 .. Len(list), NEW e \in S
  PROVE  HasInserted(InsertAt(list, i, e), S, list, i, e)
<1> DEFINE a == SubSeq(list, 1, i - 1)
           b == SubSeq(list, i, Len(list))
           s == InsertAt(list, i, e)
<1>0. Len(list) \in Nat
  OBVIOUS
<1>1. a \in Seq(S) /\ Len(a) = i - 1 /\ \A j \in 1 .. i - 1 : a[j] = list[j]
  BY <1>0, SubSeqProperties
<1>2. b \in Seq(S) /\ Len(b) = Len(list) - i + 1
      /\ \A j \in 1 .. Len(list) - i + 1 : b[j] = list[i + j - 1]
  BY <1>0, SubSeqProperties
<1>3. <<e>> \in Seq(S) /\ Len(<<e>>) = 1 /\ <<e>>[1] = e
  OBVIOUS
<1>4. s = (a \o <<e>>) \o b
  BY DEF InsertAt
<1> HIDE DEF a, b, s
<1> DEFINE c == a \o <<e>>
<1>5. c \in Seq(S) /\ Len(c) = i /\ (\A j \in 1 .. i - 1 : c[j] = list[j]) /\ c[i] = e
  BY <1>1, <1>3
<1> HIDE DEF c
<1>6. s = c \o b
  BY <1>4 DEF c
<1>7. s \in Seq(S) /\ Len(s) = Len(list) + 1
  <2>1. s \in Seq(S) /\ Len(s) = Len(c) + Len(b)
    BY <1>2, <1>5, <1>6, ConcatProperties
  <2> QED
    BY <1>0, <1>2, <1>5, <2>1
<1>8. ASSUME NEW j \in 1 .. Len(list) + 1
      PROVE  s[j] = IF j < i THEN list[j] ELSE IF j = i THEN e ELSE list[j - 1]
  <2>1. CASE j =< i
    BY <1>0, <1>2, <1>5, <1>6, <2>1
  <2>2. CASE j > i
    <3>1. s[j] = b[j - i]
      BY <1>0, <1>2, <1>5, <1>6, <2>2
    <3>2. b[j - i] = list[i + (j - i) - 1]
      BY <1>0, <1>2, <2>2
    <3> QED
      BY <2>2, <3>1, <3>2
  <2> QED
    BY <2>1, <2>2
<1> QED
  BY <1>7, <1>8 DEF s, HasInserted

\* RemoveAt, by its elements.
LEMMA RemoveIs ==
  ASSUME NEW S, NEW list \in Seq(S), NEW i \in 1 .. Len(list)
  PROVE  LET s == RemoveAt(list, i)
         IN  /\ s \in Seq(S) /\ Len(s) = Len(list) - 1
             /\ \A j \in 1 .. Len(list) - 1 : s[j] = list[IF j < i THEN j ELSE j + 1]
<1> DEFINE a == SubSeq(list, 1, i - 1)
           b == SubSeq(list, i + 1, Len(list))
           s == RemoveAt(list, i)
<1>0. Len(list) \in Nat
  OBVIOUS
<1>1. a \in Seq(S) /\ Len(a) = i - 1 /\ \A j \in 1 .. i - 1 : a[j] = list[j]
  BY <1>0, SubSeqProperties
<1>2. b \in Seq(S) /\ Len(b) = Len(list) - i
      /\ \A j \in 1 .. Len(list) - i : b[j] = list[i + j]
  BY <1>0, SubSeqProperties
<1>4. s = a \o b
  BY DEF RemoveAt
<1> HIDE DEF a, b, s
<1>7. s \in Seq(S) /\ Len(s) = Len(list) - 1
  BY <1>0, <1>1, <1>2, <1>4
<1>8. ASSUME NEW j \in 1 .. Len(list) - 1
      PROVE  s[j] = list[IF j < i THEN j ELSE j + 1]
  <2>1. CASE j < i
    BY <1>0, <1>1, <1>2, <1>4, <2>1
  <2>2. CASE j >= i
    <3>1. s[j] = b[j - i + 1]
      BY <1>0, <1>1, <1>2, <1>4, <2>2
    <3>2. b[j - i + 1] = list[i + (j - i + 1)]
      BY <1>0, <1>2, <2>2
    <3> QED
      BY <2>2, <3>1, <3>2
  <2> QED
    BY <2>1, <2>2
<1> QED
  BY <1>7, <1>8 DEF s

\* The first of some indices: what list_search() stops at.
LEMMA MinIsLeast ==
  ASSUME NEW S, S \subseteq Nat, S # {}
  PROVE  Min(S) \in S /\ \A y \in S : Min(S) =< y
<1>1. PICK x \in S : \A y \in S : ~(<<y, x>> \in OpToRel(<, Nat))
  BY NatLessThanWellFounded, WFMin
<1>2. \A y \in S : x =< y
  <2> SUFFICES ASSUME NEW y \in S PROVE ~(y < x)
    OBVIOUS
  <2>1. y < x => <<y, x>> \in OpToRel(<, Nat)
    BY DEF OpToRel
  <2> QED
    BY <1>1, <2>1
<1>3. \E m \in S : \A y \in S : m =< y
  BY <1>2
<1> QED
  BY <1>3, Zenon DEF Min

----------------------------------------------------------------------------
\* Chunks and the places they take.

Clear(c, d) == End(c) <= d.addr \/ End(d) <= c.addr

\* A chunk as it may be.
Proper ==
  {c \in Chunk : /\ c.addr % 16 = 0 /\ c.size % 16 = 0
                 /\ Pool - Header <= c.addr /\ End(c) <= Pool + PoolSize}

\* A free list as it should be.
Orderly(list) ==
  /\ list \in Seq(Proper)
  /\ \A i, j \in DOMAIN list : i < j => End(list[i]) <= list[j].addr

ClearOf(list, c) == \A i \in DOMAIN list : Clear(list[i], c)

\* c is (part of) a chunk of the list.
PartOf(list, c) == \E i \in DOMAIN list : list[i].addr <= c.addr /\ End(c) <= End(list[i])

\* The byte at x is one of the chunk c; one of a chunk of the list.
Covers(c, x) == c.addr <= x /\ x < End(c)
FreeAt(list, x) == \E i \in DOMAIN list : Covers(list[i], x)

\* A chunk of the pool in numbers.
LEMMA ProperIs ==
  ASSUME NEW c \in Proper
  PROVE  /\ c \in Chunk /\ c.addr \in Nat /\ c.size \in Nat
         /\ End(c) \in Nat /\ End(c) = c.addr + 16 + c.size /\ c.addr < End(c)
         /\ Pool - 16 <= c.addr /\ End(c) <= Pool + PoolSize
         /\ c.addr % 16 = 0 /\ c.size % 16 = 0
  BY DEF Proper, Chunk, End, Header

\* What is clear of a list is clear of every part of its chunks.
LEMMA PartsClear ==
  ASSUME NEW list \in Seq(Proper), NEW c \in Chunk, NEW d \in Chunk,
         PartOf(list, c), ClearOf(list, d)
  PROVE  Clear(c, d)
<1>1. PICK i \in DOMAIN list : list[i].addr <= c.addr /\ End(c) <= End(list[i])
  BY DEF PartOf
<1>2. list[i].addr \in Nat /\ End(list[i]) \in Nat
  BY ProperIs
<1>3. c.addr \in Nat /\ End(c) \in Nat /\ d.addr \in Nat /\ End(d) \in Nat
  BY DEF Chunk, End, Header
<1>4. Clear(list[i], d)
  BY DEF ClearOf
<1> QED
  BY <1>1, <1>2, <1>3, <1>4 DEF Clear

\* A chunk that is clear of the list goes where its address puts it.
LEMMA InsertedInOrder ==
  ASSUME NEW list, Orderly(list), NEW c \in Proper, ClearOf(list, c)
  PROVE  LET s == InsertInAddressOrder(list, c)
         IN  /\ Orderly(s) /\ DOMAIN s = 1 .. Len(list) + 1
             /\ \A d \in Chunk : ClearOf(list, d) /\ Clear(c, d) => ClearOf(s, d)
             /\ \E at \in DOMAIN s :
                  /\ s[at] = c
                  /\ \A i \in DOMAIN list : i < at <=> list[i].addr < c.addr
             /\ \A i \in DOMAIN list : \E j \in DOMAIN s : s[j] = list[i]
             /\ \A j \in DOMAIN s : s[j] = c \/ \E i \in DOMAIN list : s[j] = list[i]
<1> DEFINE n == Len(list)
           I == {i \in 1 .. n : list[i].addr >= c.addr}
           at == IF I # {} THEN Min(I) ELSE n + 1
           s == InsertInAddressOrder(list, c)
<1>0. list \in Seq(Proper) /\ n \in Nat /\ DOMAIN list = 1 .. n
  BY DEF Orderly
<1>1. /\ s \in Seq(Proper) /\ DOMAIN s = 1 .. n + 1 /\ at \in 1 .. n + 1
      /\ \A j \in 1 .. n + 1 :
           s[j] = IF j < at THEN list[j] ELSE IF j = at THEN c ELSE list[j - 1]
      /\ \A j \in 1 .. n : j < at <=> list[j].addr < c.addr
  <2>0. \A j \in 1 .. n : list[j] \in Proper /\ list[j].addr \in Nat /\ list[j].size \in Nat
    BY <1>0 DEF Proper, Chunk
  <2>1. CASE I = {}
    <3>1. s = Append(list, c) /\ at = n + 1
      BY <2>1 DEF InsertInAddressOrder, SelectInSeq
    <3>2. \A j \in 1 .. n : list[j].addr < c.addr
      BY <2>0, <2>1 DEF Proper, Chunk
    <3> HIDE DEF s, at, I
    <3>3. s \in Seq(Proper) /\ DOMAIN s = 1 .. n + 1 /\ at \in 1 .. n + 1
      BY <1>0, <3>1
    <3>4. ASSUME NEW j \in 1 .. n + 1
          PROVE  s[j] = IF j < at THEN list[j] ELSE IF j = at THEN c ELSE list[j - 1]
      BY <1>0, <3>1
    <3>5. \A j \in 1 .. n : j < at <=> list[j].addr < c.addr
      BY <1>0, <3>1, <3>2
    <3> QED
      BY <3>3, <3>4, <3>5
  <2>2. CASE I # {}
    <3>1. at = Min(I) /\ at \in I /\ \A j \in I : at <= j
      <4>1. I \subseteq Nat /\ at = Min(I)
        BY <1>0, <2>2
      <4> HIDE DEF I, at
      <4> QED
        BY <2>2, <4>1, MinIsLeast
    <3> HIDE DEF at
    <3>2. at \in 1 .. n
      BY <3>1
    <3>3. s = InsertAt(list, at, c)
      BY <2>2, <3>1, <3>2 DEF InsertInAddressOrder, SelectInSeq
    <3>4. /\ s \in Seq(Proper) /\ Len(s) = n + 1
          /\ \A j \in 1 .. n + 1 :
               s[j] = IF j < at THEN list[j] ELSE IF j = at THEN c ELSE list[j - 1]
      <4>1. at \in 1 .. Len(list) /\ list \in Seq(Proper) /\ c \in Proper
        BY <1>0, <3>2
      <4> HIDE DEF I, s
      <4>2. HasInserted(InsertAt(list, at, c), Proper, list, at, c)
        BY <4>1, InsertIs
      <4> QED
        BY <3>3, <4>2 DEF HasInserted
    <3>5. ASSUME NEW j \in 1 .. n PROVE j < at <=> list[j].addr < c.addr
      <4>1. CASE j < at
        <5>1. j \notin I
          <6>1. j \in Nat /\ at \in Nat /\ ~(at <= j)
            BY <3>2, <4>1
          <6> HIDE DEF I
          <6> QED
            BY <3>1, <6>1
        <5> QED
          BY <2>0, <4>1, <5>1, ProperIs
      <4>2. CASE j = at
        BY <2>0, <3>1, <4>2 DEF Proper, Chunk
      <4>3. CASE j > at
        <5>1. End(list[at]) <= list[j].addr /\ list[at].addr >= c.addr
          BY <1>0, <3>1, <3>2, <4>3 DEF Orderly
        <5>2. list[at] \in Proper /\ list[j] \in Proper /\ j \in Nat /\ at \in Nat
          BY <2>0, <3>2
        <5>3. /\ list[at].addr \in Nat /\ list[j].addr \in Nat /\ c.addr \in Nat
              /\ End(list[at]) \in Nat /\ list[at].addr < End(list[at])
          BY <5>2, ProperIs
        <5> QED
          BY <4>3, <5>1, <5>2, <5>3
      <4> QED
        BY <3>2, <4>1, <4>2, <4>3
    <3> QED
      BY <1>0, <3>2, <3>4, <3>5
  <2> QED
    BY <2>1, <2>2
<1> HIDE DEF at, s, I
<1>2. ASSUME NEW j \in 1 .. n
      PROVE  /\ list[j] \in Proper
             /\ j < at => End(list[j]) <= c.addr
             /\ j >= at => End(c) <= list[j].addr
  <2>1. list[j] \in Proper /\ Clear(list[j], c)
    BY <1>0 DEF ClearOf
  <2>2. /\ list[j].addr \in Nat /\ End(list[j]) \in Nat /\ list[j].addr < End(list[j])
        /\ c.addr \in Nat /\ End(c) \in Nat /\ c.addr < End(c)
    BY <2>1, ProperIs
  <2>3. j \in Nat /\ at \in Nat /\ (j < at <=> list[j].addr < c.addr)
    BY <1>1
  <2> QED
    BY <2>1, <2>2, <2>3 DEF Clear
<1>3. ASSUME NEW i \in 1 .. n + 1, NEW j \in 1 .. n + 1, i < j
      PROVE  End(s[i]) <= s[j].addr
  <2> USE <1>0, <1>1
  <2>0. i \in Nat /\ j \in Nat /\ at \in Nat
    OBVIOUS
  <2>1. CASE j < at
    BY <1>3, <2>1 DEF Orderly
  <2>2. CASE j = at
    <3>1. i \in 1 .. n /\ i < at /\ s[i] = list[i] /\ s[j] = c
      BY <1>3, <2>0, <2>2
    <3> QED
      BY <1>2, <3>1
  <2>3. CASE j > at /\ i < at
    BY <1>0, <1>1, <1>3, <2>3 DEF Orderly
  <2>4. CASE j > at /\ i = at
    BY <1>1, <1>2, <1>3, <2>4
  <2>5. CASE j > at /\ i > at
    <3>1. /\ i - 1 \in 1 .. n /\ j - 1 \in 1 .. n /\ i - 1 < j - 1
          /\ s[i] = list[i - 1] /\ s[j] = list[j - 1]
      BY <1>3, <2>0, <2>5
    <3> QED
      BY <3>1 DEF Orderly
  <2> QED
    BY <1>1, <2>1, <2>2, <2>3, <2>4, <2>5
<1>4. Orderly(s)
  BY <1>1, <1>3 DEF Orderly
<1>5. s[at] = c /\ at \in DOMAIN s
  BY <1>1
<1>6. \A i \in 1 .. n : \E j \in 1 .. n + 1 : s[j] = list[i]
  <2> SUFFICES ASSUME NEW i \in 1 .. n PROVE \E j \in 1 .. n + 1 : s[j] = list[i]
    OBVIOUS
  <2>1. CASE i < at
    BY <1>1, <2>1
  <2>2. CASE i >= at
    <3>1. i + 1 \in 1 .. n + 1 /\ s[i + 1] = list[i]
      BY <1>1, <2>2
    <3> QED
      BY <3>1
  <2> QED
    BY <1>1, <2>1, <2>2
<1>7. \A j \in 1 .. n + 1 : s[j] = c \/ \E i \in 1 .. n : s[j] = list[i]
  <2> SUFFICES ASSUME NEW j \in 1 .. n + 1, j # at PROVE \E i \in 1 .. n : s[j] = list[i]
    BY <1>5
  <2>1. CASE j < at
    BY <1>1, <2>1
  <2>2. CASE j > at
    <3>1. j - 1 \in 1 .. n /\ s[j] = list[j - 1]
      BY <1>1, <2>2
    <3> QED
      BY <3>1
  <2> QED
    BY <1>1, <2>1, <2>2
<1>8. \A d \in Chunk : ClearOf(list, d) /\ Clear(c, d) => ClearOf(s, d)
  BY <1>0, <1>1, <1>7 DEF ClearOf
<1> QED
  BY <1>0, <1>1, <1>4, <1>5, <1>6, <1>7, <1>8 DEF s

\* A byte is not in two chunks that are clear of each other.
LEMMA ClearBytes ==
  ASSUME NEW list \in Seq(Proper), NEW c \in Proper, ClearOf(list, c), NEW x \in Int
  PROVE  ~(FreeAt(list, x) /\ Covers(c, x))
<1> SUFFICES ASSUME NEW i \in DOMAIN list, Covers(list[i], x), Covers(c, x) PROVE FALSE
  BY DEF FreeAt
<1>1. list[i] \in Proper /\ Clear(list[i], c)
  BY DEF ClearOf
<1>2. /\ list[i].addr \in Nat /\ End(list[i]) \in Nat
      /\ c.addr \in Nat /\ End(c) \in Nat
  BY <1>1, ProperIs
<1> QED
  BY <1>1, <1>2 DEF Clear, Covers

\* A list with a chunk put in has its own bytes and the chunk's.
LEMMA InsertedBytes ==
  ASSUME NEW list, Orderly(list), NEW c \in Proper, ClearOf(list, c), NEW x
  PROVE  FreeAt(InsertInAddressOrder(list, c), x) <=> FreeAt(list, x) \/ Covers(c, x)
<1> DEFINE s == InsertInAddressOrder(list, c)
<1>1. /\ \E at \in DOMAIN s : s[at] = c
      /\ \A i \in DOMAIN list : \E j \in DOMAIN s : s[j] = list[i]
      /\ \A j \in DOMAIN s : s[j] = c \/ \E i \in DOMAIN list : s[j] = list[i]
  BY InsertedInOrder
<1> HIDE DEF s
<1>2. FreeAt(s, x) <=> FreeAt(list, x) \/ Covers(c, x)
  BY <1>1 DEF FreeAt
<1> QED
  BY <1>2 DEF s

\* A list stays in order when a chunk is taken out, and is clear of it.
LEMMA RemovedInOrder ==
  ASSUME NEW list, Orderly(list), NEW i \in DOMAIN list
  PROVE  LET s == RemoveAt(list, i)
         IN  /\ Orderly(s)
             /\ ClearOf(s, list[i])
             /\ \A j \in DOMAIN s : \E k \in DOMAIN list : k # i /\ s[j] = list[k]
             /\ \A k \in DOMAIN list \ {i} : \E j \in DOMAIN s : s[j] = list[k]
<1> DEFINE n == Len(list)
           s == RemoveAt(list, i)
           old(j) == IF j < i THEN j ELSE j + 1
<1>0. list \in Seq(Proper) /\ n \in Nat /\ DOMAIN list = 1 .. n /\ i \in Nat
  BY DEF Orderly
<1>1. /\ s \in Seq(Proper) /\ DOMAIN s = 1 .. n - 1
      /\ \A j \in 1 .. n - 1 : s[j] = list[old(j)]
  <2>1. s \in Seq(Proper) /\ Len(s) = n - 1 /\ \A j \in 1 .. n - 1 : s[j] = list[old(j)]
    BY <1>0, RemoveIs
  <2> HIDE DEF s
  <2> QED
    BY <1>0, <2>1
<1> HIDE DEF s
<1>2. \A j \in 1 .. n - 1 : old(j) \in 1 .. n /\ old(j) # i
  BY <1>0
<1>3. ASSUME NEW j \in 1 .. n - 1, NEW k \in 1 .. n - 1, j < k
      PROVE  End(s[j]) <= s[k].addr
  <2>1. old(j) < old(k)
    BY <1>0, <1>3
  <2> HIDE DEF old
  <2> QED
    BY <1>0, <1>1, <1>2, <2>1 DEF Orderly
<1>4. ASSUME NEW j \in 1 .. n - 1 PROVE Clear(s[j], list[i])
  <2>1. old(j) < i \/ i < old(j)
    BY <1>0
  <2> HIDE DEF old
  <2> QED
    BY <1>0, <1>1, <1>2, <2>1 DEF Orderly, Clear
<1>5. ASSUME NEW k \in DOMAIN list \ {i} PROVE \E j \in 1 .. n - 1 : s[j] = list[k]
  <2> DEFINE j == IF k < i THEN k ELSE k - 1
  <2>1. j \in 1 .. n - 1 /\ old(j) = k
    BY <1>0
  <2> HIDE DEF j, old
  <2> QED
    BY <1>1, <2>1
<1> QED
  BY <1>0, <1>1, <1>2, <1>3, <1>4, <1>5 DEF Orderly, ClearOf, s

\* The bytes of a list are those of one chunk and those of the others.
LEMMA RemovedBytes ==
  ASSUME NEW list, Orderly(list), NEW i \in DOMAIN list, NEW x
  PROVE  FreeAt(list, x) <=> FreeAt(RemoveAt(list, i), x) \/ Covers(list[i], x)
<1> DEFINE s == RemoveAt(list, i)
<1>1. /\ \A j \in DOMAIN s : \E k \in DOMAIN list : s[j] = list[k]
      /\ \A k \in DOMAIN list \ {i} : \E j \in DOMAIN s : s[j] = list[k]
  BY RemovedInOrder
<1> HIDE DEF s
<1>2. FreeAt(list, x) <=> FreeAt(s, x) \/ Covers(list[i], x)
  BY <1>1 DEF FreeAt
<1> QED
  BY <1>2 DEF s

\* A chunk that changes its size and stays clear of the others.
LEMMA ReplacedInOrder ==
  ASSUME NEW list, Orderly(list), NEW i \in DOMAIN list,
         NEW c \in Proper, c.addr = list[i].addr,
         \A j \in DOMAIN list \ {i} : Clear(list[j], c)
  PROVE  LET s == ReplaceAt(list, i, c)
         IN  /\ Orderly(s) /\ DOMAIN s = DOMAIN list
             /\ \A j \in DOMAIN s : s[j] = IF j = i THEN c ELSE list[j]
<1> DEFINE n == Len(list)
           s == ReplaceAt(list, i, c)
<1>0. list \in Seq(Proper) /\ n \in Nat /\ DOMAIN list = 1 .. n /\ i \in 1 .. n
  BY DEF Orderly
<1>1. /\ s \in Seq(Proper) /\ DOMAIN s = 1 .. n
      /\ \A j \in 1 .. n : s[j] = IF j = i THEN c ELSE list[j]
  <2>1. s \in Seq(Proper) /\ Len(s) = n /\ \A j \in 1 .. n : s[j] = IF j = i THEN c ELSE list[j]
    BY <1>0 DEF ReplaceAt
  <2> HIDE DEF s
  <2> QED
    BY <1>0, <2>1
<1> HIDE DEF s
<1>2. ASSUME NEW j \in 1 .. n, NEW k \in 1 .. n, j < k
      PROVE  End(s[j]) <= s[k].addr
  <2>1. /\ list[j] \in Proper /\ list[k] \in Proper /\ End(list[j]) <= list[k].addr
        /\ j \in Nat /\ k \in Nat
    BY <1>0, <1>2 DEF Orderly
  <2>2. /\ list[j].addr \in Nat /\ End(list[j]) \in Nat /\ list[j].addr < End(list[j])
        /\ list[k].addr \in Nat /\ End(list[k]) \in Nat /\ list[k].addr < End(list[k])
        /\ c.addr \in Nat /\ End(c) \in Nat /\ c.addr < End(c)
    BY <2>1, ProperIs
  <2>3. CASE j = i
    <3>1. Clear(list[k], c) /\ s[j] = c /\ s[k] = list[k]
      BY <1>0, <1>1, <1>2, <2>1, <2>3
    <3> QED
      BY <2>1, <2>2, <2>3, <3>1 DEF Clear
  <2>4. CASE k = i
    BY <1>1, <1>2, <2>1, <2>4
  <2>5. CASE j # i /\ k # i
    BY <1>1, <2>1, <2>5
  <2> QED
    BY <2>3, <2>4, <2>5
<1> QED
  BY <1>0, <1>1, <1>2 DEF Orderly, s

----------------------------------------------------------------------------
\* Rounding up.

\* A multiple leaves nothing.
LEMMA MultipleMod ==
  ASSUME NEW a \in Nat \ {0}, NEW q \in Int
  PROVE  (a * q) % a = 0
<1> DEFINE x == a * q
           r == x % a
<1>0. x \in Int
  OBVIOUS
<1>1. x \in Int /\ r \in 0 .. a - 1 /\ \E e \in Int : x = a * e + r
  <2> HIDE DEF x
  <2>1. x = a * (x \div a) + (x % a) /\ x \div a \in Int /\ x % a \in 0 .. a - 1
    BY <1>0
  <2> QED
    BY <1>0, <2>1
<1> HIDE DEF r
<1>2. PICK d \in Int : x = a * d + r
  BY <1>1
<1>3. a * (q - d) = r /\ q - d \in Int
  BY <1>1, <1>2
<1>4. q - d >= 1 => a * (q - d) >= a
  BY <1>3
<1>5. q - d <= -1 => a * (q - d) <= -a
  BY <1>3
<1>6. q - d = 0 => r = 0
  BY <1>3
<1>7. r = 0
  BY <1>1, <1>3, <1>4, <1>5, <1>6
<1> QED
  BY <1>7 DEF r

\* RoundUp, in numbers.
LEMMA RoundUpIs ==
  ASSUME NEW a \in Nat \ {0}, NEW n \in Nat
  PROVE  LET r == RoundUp(n, a)
         IN  /\ r \in Nat /\ n <= r /\ r < n + a /\ r % a = 0
             /\ a % 16 = 0 => r % 16 = 0
<1> DEFINE r == RoundUp(n, a)
<1>1. \E q \in Nat : r = a * q /\ n <= r /\ r < n + a
  <2> DEFINE d == n \div a
             m == n % a
  <2>1. d \in Nat /\ m \in 0 .. a - 1 /\ n = a * d + m
    OBVIOUS
  <2>2. r = IF m = 0 THEN n ELSE a * (1 + d)
    BY DEF RoundUp
  <2> HIDE DEF d, m, r
  <2>3. a * (1 + d) = a * d + a /\ a * d \in Nat
    BY <2>1
  <2>4. CASE m = 0
    BY <2>1, <2>2, <2>3, <2>4
  <2>5. CASE m # 0
    BY <2>1, <2>2, <2>3, <2>5
  <2> QED
    BY <2>4, <2>5
<1> HIDE DEF r
<1>2. PICK q \in Nat : r = a * q /\ n <= r /\ r < n + a
  BY <1>1
<1>3. r \in Nat /\ r % a = 0
  BY <1>2, MultipleMod
<1>4. ASSUME a % 16 = 0 PROVE r % 16 = 0
  <2>1. a = 16 * (a \div 16) /\ a \div 16 \in Nat
    BY <1>4
  <2> DEFINE k == a \div 16
  <2>2. k \in Nat /\ a = 16 * k
    BY <2>1
  <2> HIDE DEF k
  <2>3. r = 16 * (k * q) /\ k * q \in Int
    BY <1>2, <2>2
  <2> DEFINE x == k * q
  <2> HIDE DEF x
  <2>4. r = 16 * x /\ x \in Int
    BY <2>3 DEF x
  <2> QED
    BY <2>4, MultipleMod
<1> QED
  BY <1>2, <1>3, <1>4 DEF r

----------------------------------------------------------------------------
\* The calls on the free list.

\* The assertions of print_state() hold of an orderly list that keeps out of the
\* hole.
LEMMA OrderlyIsSane ==
  ASSUME NEW list, Orderly(list), NEW hole \in Nat, NEW n \in Nat,
         NEW expected, expected \subseteq Addrs(list),
         \A i \in DOMAIN list : list[i].addr \notin hole .. hole + n - 1,
         n = 0 \/ hole + n <= Pool + PoolSize
  PROVE  Sane(list, hole, n, expected)
<1> USE PoolAssumption
<1> DEFINE all == Append(list, EndMark)
<1>1. ASSUME NEW c \in Range(all)
      PROVE  c = EndMark \/ \E i \in DOMAIN list : c = list[i]
  <2>1. PICK k \in DOMAIN all : c = all[k]
    BY DEF Range
  <2>2. list \in Seq(Proper) /\ Len(list) \in Nat /\ DOMAIN list = 1 .. Len(list)
    BY DEF Orderly
  <2>3. DOMAIN all = 1 .. Len(list) + 1 /\ all[Len(list) + 1] = EndMark
        /\ \A i \in 1 .. Len(list) : all[i] = list[i]
    BY <2>2
  <2> HIDE DEF all
  <2>4. k = Len(list) + 1 \/ k \in DOMAIN list
    BY <2>1, <2>2, <2>3
  <2> QED
    BY <2>1, <2>2, <2>3, <2>4
<1>2. ASSUME NEW i \in DOMAIN list
      PROVE  /\ list[i].addr \notin hole .. hole + n - 1
             /\ list[i].size <= PoolSize
             /\ Pool - Header <= list[i].addr /\ list[i].addr <= Pool + PoolSize
  <2>1. list[i] \in Proper
    BY DEF Orderly
  <2> QED
    BY <2>1, ProperIs DEF Header
<1>3. /\ EndMark.addr \notin hole .. hole + n - 1
      /\ EndMark.size <= PoolSize
      /\ Pool - Header <= EndMark.addr /\ EndMark.addr <= Pool + PoolSize
  BY DEF EndMark, Header
<1> HIDE DEF all
<1>4. \A c \in Range(all) :
        /\ c.addr \notin hole .. hole + n - 1
        /\ c.size <= PoolSize
        /\ Pool - Header <= c.addr /\ c.addr <= Pool + PoolSize
  BY <1>1, <1>2, <1>3
<1> QED
  BY <1>4 DEF Sane, all

\* A successful call gives a chunk that was free, or part of one that was; what
\* else is free afterwards was free before.
Given(r, size) == [addr |-> HeaderOf(r.ptr), size |-> RoundUp(size, 16)]

\* What was free and is neither free nor given afterwards: nothing, or 16 bytes.
Spills(list, r, size) ==
  \E at \in Int, k \in {0, Header} : \A x \in Int :
    LET spilt == x \in at .. at + k - 1
        used == FreeAt(r.free, x) \/ Covers(Given(r, size), x)
    IN  (FreeAt(list, x) <=> used \/ spilt) /\ ~(spilt /\ used)

Issues(list, r, size) ==
  /\ Given(r, size) \in Proper /\ size <= RoundUp(size, 16) /\ r.ptr \in Nat
  /\ PartOf(list, Given(r, size))
  /\ Orderly(r.free) /\ ClearOf(r.free, Given(r, size))
  /\ \A j \in DOMAIN r.free : PartOf(list, r.free[j])
  /\ Spills(list, r, size)

\* Carving a chunk gives the start of it and leaves the rest.
LEMMA AllocatesPart ==
  ASSUME NEW list, Orderly(list), NEW i \in DOMAIN list,
         NEW size \in Nat, size <= list[i].size
  PROVE  LET r == AllocateAt(list, i, size)
         IN  r.sane /\ Issues(list, r, size) /\ r.ptr = list[i].addr + 16
<1> DEFINE c == list[i]
           n == RoundUp(size, 16)
           others == RemoveAt(list, i)
           carve == c.size - n > Header
           rest == Rest(c, n)
           after == IF carve THEN InsertInAddressOrder(others, rest) ELSE others
           r == AllocateAt(list, i, size)
           got == [addr |-> c.addr, size |-> n]
<1>1. /\ r.ptr = c.addr + 16 /\ r.free = after
      /\ r.sane = Sane(after, c.addr, n + 16, IF carve THEN {rest.addr} ELSE {})
  BY DEF AllocateAt, Header
<1>2. list \in Seq(Proper) /\ c \in Proper
  BY DEF Orderly
<1>3. /\ c.addr \in Nat /\ c.size \in Nat /\ End(c) = c.addr + 16 + c.size
      /\ c.addr % 16 = 0 /\ c.size % 16 = 0
      /\ Pool - 16 <= c.addr /\ End(c) <= Pool + PoolSize
  BY <1>2, ProperIs
<1>4. n \in Nat /\ size <= n /\ n < size + 16 /\ n % 16 = 0
  BY RoundUpIs
<1> HIDE DEF n
<1>5. n <= c.size
  BY <1>3, <1>4
<1> HIDE DEF c, r
<1>6. got \in Proper /\ End(got) = c.addr + 16 + n
  BY <1>3, <1>4, <1>5, PoolAssumption DEF Proper, Chunk, End, Header
<1>7. carve => /\ rest \in Proper /\ rest.addr = c.addr + 16 + n
               /\ End(rest) = End(c)
  BY <1>3, <1>4, <1>5, PoolAssumption DEF Proper, Chunk, End, Header, Rest
<1>8. /\ Orderly(others) /\ ClearOf(others, c)
      /\ \A j \in DOMAIN others : \E k \in DOMAIN list : others[j] = list[k]
  BY RemovedInOrder DEF c
<1> HIDE DEF others, rest, got
<1>9. ASSUME NEW d \in Chunk, c.addr <= d.addr, End(d) <= End(c)
      PROVE  ClearOf(others, d)
  <2>1. ASSUME NEW j \in DOMAIN others PROVE Clear(others[j], d)
    <3>1. others[j] \in Proper /\ Clear(others[j], c)
      BY <1>8 DEF Orderly, ClearOf
    <3>2. others[j].addr \in Nat /\ End(others[j]) \in Nat
      BY <3>1, ProperIs
    <3>3. d.addr \in Nat /\ End(d) \in Nat
      BY DEF Chunk, End, Header
    <3> QED
      BY <1>3, <1>9, <3>1, <3>2, <3>3 DEF Clear
  <2> QED
    BY <2>1 DEF ClearOf
<1>10. ClearOf(others, got)
  BY <1>3, <1>4, <1>5, <1>6, <1>9, ProperIs DEF got
<1>11. PartOf(list, got)
  BY <1>3, <1>4, <1>5, <1>6 DEF PartOf, got, c
<1>12. /\ Orderly(after) /\ ClearOf(after, got)
       /\ \A j \in DOMAIN after : PartOf(list, after[j])
       /\ (IF carve THEN {rest.addr} ELSE {}) \subseteq Addrs(after)
  <2>1. ASSUME NEW j \in DOMAIN others PROVE PartOf(list, others[j])
    <3>1. PICK k \in DOMAIN list : others[j] = list[k]
      BY <1>8
    <3>2. list[k].addr \in Nat /\ End(list[k]) \in Nat
      BY <1>2, ProperIs
    <3> QED
      BY <3>1, <3>2 DEF PartOf
  <2>2. CASE ~carve
    BY <1>8, <1>10, <2>1, <2>2
  <2>3. CASE carve
    <3>1. ClearOf(others, rest) /\ rest \in Proper
      BY <1>3, <1>4, <1>7, <1>9, <2>3, ProperIs
    <3>2. Clear(rest, got)
      BY <1>6, <1>7, <2>3, <1>3, <1>4 DEF Clear, got
    <3>3. PartOf(list, rest)
      BY <1>3, <1>4, <1>7, <2>3 DEF PartOf, c
    <3>4. after = InsertInAddressOrder(others, rest)
      BY <2>3
    <3> HIDE DEF after
    <3>5. /\ Orderly(after)
          /\ \A d \in Chunk : ClearOf(others, d) /\ Clear(rest, d) => ClearOf(after, d)
          /\ \E at \in DOMAIN after : after[at] = rest
          /\ \A j \in DOMAIN after : after[j] = rest \/ \E k \in DOMAIN others : after[j] = others[k]
      BY <1>8, <3>1, <3>4, InsertedInOrder
    <3>6. ClearOf(after, got)
      BY <1>6, <1>10, <3>2, <3>5, ProperIs
    <3>7. \A j \in DOMAIN after : PartOf(list, after[j])
      BY <2>1, <3>3, <3>5
    <3>8. rest.addr \in Addrs(after)
      BY <3>5 DEF Addrs
    <3> QED
      BY <2>3, <3>5, <3>6, <3>7, <3>8
  <2> QED
    BY <2>2, <2>3
<1> DEFINE k == IF carve THEN 0 ELSE c.size - n
           spilt(x) == x \in End(got) .. End(got) + k - 1
<1>13. k \in {0, 16} /\ End(got) \in Int
  <2>1. (c.size - n) % 16 = 0 /\ c.size - n \in Nat
    BY <1>3, <1>4, <1>5
  <2> QED
    BY <1>3, <1>4, <1>6, <2>1 DEF Header
<1>14. ASSUME NEW x \in Int
       PROVE  /\ FreeAt(list, x) <=> FreeAt(after, x) \/ Covers(got, x) \/ spilt(x)
              /\ ~(spilt(x) /\ (FreeAt(after, x) \/ Covers(got, x)))
  <2>1. FreeAt(list, x) <=> FreeAt(others, x) \/ Covers(c, x)
    BY RemovedBytes DEF c, others
  <2>2. ~(FreeAt(others, x) /\ Covers(c, x))
    BY <1>2, <1>8, ClearBytes DEF Orderly
  <2>3. Covers(got, x) <=> c.addr <= x /\ x < c.addr + 16 + n
    BY <1>6 DEF Covers, got
  <2>4. Covers(c, x) <=> c.addr <= x /\ x < c.addr + 16 + c.size
    BY <1>3 DEF Covers
  <2>5. CASE ~carve
    <3>1. after = others /\ (spilt(x) <=> c.addr + 16 + n <= x /\ x < c.addr + 16 + c.size)
      BY <1>3, <1>4, <1>5, <1>6, <2>5
    <3>2. Covers(c, x) <=> Covers(got, x) \/ spilt(x)
      BY <1>3, <1>4, <1>5, <2>3, <2>4, <3>1
    <3>3. ~(Covers(got, x) /\ spilt(x))
      BY <1>3, <1>4, <1>5, <2>3, <3>1
    <3> HIDE DEF after, spilt
    <3> QED
      BY <2>1, <2>2, <3>1, <3>2, <3>3
  <2>6. CASE carve
    <3>1. after = InsertInAddressOrder(others, rest) /\ ~spilt(x)
      BY <1>13, <2>6
    <3>2. rest \in Proper /\ ClearOf(others, rest)
      BY <1>3, <1>4, <1>7, <1>9, <2>6, ProperIs
    <3>3. FreeAt(after, x) <=> FreeAt(others, x) \/ Covers(rest, x)
      BY <1>8, <3>1, <3>2, InsertedBytes
    <3>4. Covers(rest, x) <=> c.addr + 16 + n <= x /\ x < c.addr + 16 + c.size
      BY <1>3, <1>7, <2>6 DEF Covers
    <3>5. Covers(c, x) <=> Covers(got, x) \/ Covers(rest, x)
      BY <1>3, <1>4, <1>5, <2>3, <2>4, <3>4
    <3> HIDE DEF after, spilt
    <3> QED
      BY <2>1, <3>1, <3>3, <3>5
  <2> QED
    BY <2>5, <2>6
<1> HIDE DEF after, k
<1>15. r.sane
  <2>1. \A j \in DOMAIN after : after[j].addr \notin c.addr .. c.addr + (n + 16) - 1
    <3> SUFFICES ASSUME NEW j \in DOMAIN after
                 PROVE  after[j].addr \notin c.addr .. c.addr + (n + 16) - 1
      OBVIOUS
    <3>1. after[j] \in Proper /\ Clear(after[j], got)
      BY <1>12 DEF Orderly, ClearOf
    <3>2. after[j].addr \in Nat /\ End(after[j]) \in Nat /\ after[j].addr < End(after[j])
      BY <3>1, ProperIs
    <3>3. End(after[j]) <= c.addr \/ c.addr + 16 + n <= after[j].addr
      BY <1>6, <3>1 DEF Clear, got
    <3> QED
      BY <1>3, <1>4, <3>2, <3>3
  <2>2. c.addr + (n + 16) <= Pool + PoolSize /\ n + 16 \in Nat
    BY <1>3, <1>4, <1>5, PoolAssumption
  <2> QED
    BY <1>1, <1>3, <1>12, <2>1, <2>2, OrderlyIsSane
<1>16. Given(r, size) = got /\ r.ptr \in Nat
  BY <1>1, <1>3 DEF Given, HeaderOf, Header, got, n
<1>17. Spills(list, r, size)
  <2> DEFINE used(x) == FreeAt(r.free, x) \/ Covers(Given(r, size), x)
  <2>1. \A x \in Int : /\ FreeAt(list, x) <=> used(x) \/ spilt(x)
                      /\ ~(spilt(x) /\ used(x))
    BY <1>1, <1>16, <1>14
  <2> QED
    BY <1>13, <2>1 DEF Spills, Header
<1> QED
  BY <1>1, <1>4, <1>6, <1>11, <1>12, <1>15, <1>16, <1>17 DEF Issues, r, c, n

\* malloc() fails and changes nothing, or issues a chunk.
Succeeds(list, r, size) == r.ptr # NULL /\ Issues(list, r, size)
FailsClean(list, r) == r.ptr = NULL /\ r.free = list

\* malloc() gives a chunk of the size asked for, or none.
LEMMA MallocIssues ==
  ASSUME NEW list, Orderly(list), NEW size \in Nat
  PROVE  LET r == Malloced(list, size)
         IN  r.sane /\ (FailsClean(list, r) \/ Succeeds(list, r, size))
<1> DEFINE I == {k \in 1 .. Len(list) : size <= list[k].size}
           i == IF I # {} THEN Min(I) ELSE 0
           r == Malloced(list, size)
<1>1. r = IF i = 0 THEN Nothing(list) ELSE AllocateAt(list, i, size)
  BY DEF Malloced, SelectInSeq
<1>2. i # 0 => i \in DOMAIN list /\ size <= list[i].size
  <2>1. I # {} => Min(I) \in I
    BY MinIsLeast
  <2>2. DOMAIN list = 1 .. Len(list)
    BY DEF Orderly
  <2> QED
    BY <2>1, <2>2
<1> HIDE DEF i, r
<1>3. CASE i = 0
  BY <1>1, <1>3 DEF Nothing, FailsClean, r
<1>4. CASE i # 0
  <2>1. /\ r.sane /\ Issues(list, r, size) /\ r.ptr = list[i].addr + 16
    BY <1>1, <1>2, <1>4, AllocatesPart
  <2>2. list[i].addr \in Nat
    BY <1>2, <1>4, ProperIs DEF Orderly
  <2> QED
    BY <2>1, <2>2 DEF Succeeds, NULL, r
<1> QED
  BY <1>3, <1>4

\* What free() puts back is the chunk, by itself or as the end of the free chunk
\* before it; its assertions hold, and the bytes it puts back are the chunk's.
LEMMA FreeKeepsOrder ==
  ASSUME NEW list, Orderly(list), NEW h, NEW n,
         [addr |-> h, size |-> n] \in Proper, ClearOf(list, [addr |-> h, size |-> n])
  PROVE  LET r == Freed(list, h, n)
         IN  /\ r.sane /\ Orderly(r.free)
             /\ \A d \in Proper :
                  ClearOf(list, d) /\ Clear([addr |-> h, size |-> n], d) => ClearOf(r.free, d)
             /\ \A x \in Int :
                  FreeAt(r.free, x) <=> FreeAt(list, x) \/ Covers([addr |-> h, size |-> n], x)
<1> USE PoolAssumption
<1> DEFINE c == [addr |-> h, size |-> n]
           I == {k \in 1 .. Len(list) : Neighbour(list[k], h)}
           i == IF I # {} THEN Min(I) ELSE 0
           r == Freed(list, h, n)
           following == i # 0 /\ End(c) = list[i].addr
           preceding == i # 0 /\ ~following
           after ==
             IF following
             THEN InsertInAddressOrder(RemoveAt(list, i), Joined(c, list[i].size))
             ELSE IF preceding
             THEN ReplaceAt(list, i, Joined(list[i], n))
             ELSE InsertInAddressOrder(list, c)
           expected == IF preceding THEN list[i].addr ELSE h
<1>1. r.free = after /\ r.sane = Sane(after, h, 0, {expected})
  BY DEF Freed, SelectInSeq
<1>2. i # 0 => i \in DOMAIN list /\ Neighbour(list[i], h)
  <2>0. I \subseteq Nat /\ I \subseteq DOMAIN list
    BY DEF Orderly
  <2>1. I # {} => Min(I) \in I
    <3> HIDE DEF I
    <3> QED
      BY <2>0, MinIsLeast
  <2> QED
    BY <2>0, <2>1
<1>3. /\ h \in Nat /\ n \in Nat /\ End(c) = h + 16 + n /\ c \in Proper /\ c.addr = h
      /\ h % 16 = 0 /\ n % 16 = 0 /\ Pool - 16 <= h /\ End(c) <= Pool + PoolSize
  <2>1. c \in Proper /\ c.addr = h /\ c.size = n
    OBVIOUS
  <2> HIDE DEF c
  <2> QED
    BY <2>1, ProperIs
<1>4. ClearOf(list, c)
  OBVIOUS
<1> HIDE DEF I, i, r, c
<1>5. i # 0 => End(list[i]) = h /\ ~following
  <2> SUFFICES ASSUME i # 0 PROVE End(list[i]) = h /\ End(c) # list[i].addr
    OBVIOUS
  <2>1. list[i] \in Proper /\ Clear(list[i], c)
    BY <1>2, <1>4 DEF Orderly, ClearOf
  <2>2. End(list[i]) = h \/ h = list[i].addr
    BY <1>2, <1>3 DEF Neighbour, MetaSizeOnceReset
  <2>3. list[i].addr \in Nat /\ End(list[i]) \in Nat /\ list[i].addr < End(list[i])
    BY <2>1, ProperIs
  <2> QED
    BY <1>3, <2>1, <2>2, <2>3 DEF Clear
<1>6. /\ Orderly(after) /\ expected \in Addrs(after)
      /\ \A d \in Proper : ClearOf(list, d) /\ Clear(c, d) => ClearOf(after, d)
      /\ \A x \in Int : FreeAt(after, x) <=> FreeAt(list, x) \/ Covers(c, x)
  <2>1. CASE i = 0
    <3>1. after = InsertInAddressOrder(list, c) /\ expected = h
      BY <2>1
    <3> HIDE DEF after
    <3>2. /\ Orderly(after)
          /\ \A d \in Chunk : ClearOf(list, d) /\ Clear(c, d) => ClearOf(after, d)
          /\ \E at \in DOMAIN after : after[at] = c
      BY <1>3, <1>4, <3>1, InsertedInOrder
    <3>3. \A x \in Int : FreeAt(after, x) <=> FreeAt(list, x) \/ Covers(c, x)
      BY <1>3, <1>4, <3>1, InsertedBytes
    <3> QED
      BY <1>3, <3>1, <3>2, <3>3, ProperIs DEF Addrs
  <2>2. CASE i # 0
    <3> DEFINE e == list[i]
               J == Joined(e, n)
    <3>1. after = ReplaceAt(list, i, J) /\ expected = e.addr
      BY <1>5, <2>2
    <3> HIDE DEF after, expected
    <3>2. /\ e \in Proper /\ e.addr \in Nat /\ e.size \in Nat /\ e.size % 16 = 0
          /\ e.addr % 16 = 0 /\ Pool - 16 <= e.addr /\ End(e) = e.addr + 16 + e.size
          /\ End(e) = h /\ i \in DOMAIN list
      BY <1>2, <1>5, <2>2, ProperIs DEF Orderly
    <3> HIDE DEF e
    <3>3. /\ J.addr = e.addr /\ J \in Proper /\ End(J) = End(c)
      <4>1. J = [addr |-> e.addr, size |-> e.size + 16 + n]
        BY <3>2 DEF Joined, Header, Proper, Chunk
      <4>2. End(J) = End(c) /\ J.addr = e.addr /\ J.size = e.size + 16 + n
        BY <1>3, <3>2, <4>1 DEF End, Header
      <4>3. (e.size + 16 + n) % 16 = 0 /\ e.size + 16 + n \in Nat
        BY <1>3, <3>2
      <4> QED
        BY <1>3, <3>2, <4>1, <4>2, <4>3 DEF Proper, Chunk, Header
    <3> HIDE DEF J
    <3>4. ASSUME NEW d \in Proper, Clear(e, d), Clear(c, d)
          PROVE  Clear(J, d) /\ Clear(d, J)
      <4>1. d.addr \in Nat /\ End(d) \in Nat /\ d.addr < End(d)
        BY ProperIs
      <4> QED
        BY <1>3, <3>2, <3>3, <3>4, <4>1 DEF Clear
    <3>5. ASSUME NEW j \in DOMAIN list \ {i}
          PROVE  Clear(list[j], J)
      <4>1. list \in Seq(Proper) /\ list[j] \in Proper /\ i \in Int /\ j \in Int
        BY <3>2 DEF Orderly
      <4>2. Clear(e, list[j])
        BY <3>2, <4>1 DEF Orderly, Clear, e
      <4>3. Clear(c, list[j])
        BY <1>4 DEF ClearOf, Clear
      <4> QED
        BY <3>4, <4>1, <4>2, <4>3
    <3>6. /\ Orderly(after) /\ DOMAIN after = DOMAIN list
          /\ \A j \in DOMAIN after : after[j] = IF j = i THEN J ELSE list[j]
      BY <3>1, <3>2, <3>3, <3>5, ReplacedInOrder DEF e
    <3>7. expected \in Addrs(after)
      BY <3>1, <3>2, <3>3, <3>6 DEF Addrs
    <3>8. \A d \in Proper : ClearOf(list, d) /\ Clear(c, d) => ClearOf(after, d)
      BY <3>2, <3>4, <3>6 DEF ClearOf, e
    <3>9. ASSUME NEW x \in Int
          PROVE  FreeAt(after, x) <=> FreeAt(list, x) \/ Covers(c, x)
      <4>1. Covers(J, x) <=> Covers(e, x) \/ Covers(c, x)
        BY <1>3, <3>2, <3>3 DEF Covers
      <4>2. FreeAt(list, x) <=> Covers(e, x) \/ \E j \in DOMAIN list \ {i} : Covers(list[j], x)
        BY <3>2 DEF FreeAt, e
      <4>3. FreeAt(after, x) <=> Covers(J, x) \/ \E j \in DOMAIN list \ {i} : Covers(list[j], x)
        BY <3>2, <3>6 DEF FreeAt
      <4> QED
        BY <4>1, <4>2, <4>3
    <3> QED
      BY <3>6, <3>7, <3>8, <3>9
  <2> QED
    BY <2>1, <2>2
<1> HIDE DEF after, expected
<1>7. r.sane
  BY <1>1, <1>3, <1>6, OrderlyIsSane
<1> QED
  BY <1>1, <1>6, <1>7 DEF r, c

\* Multiples of 16.
LEMMA SixteenSum ==
  ASSUME NEW a \in Nat, NEW b \in Nat, a % 16 = 0, b % 16 = 0
  PROVE  (a + b) % 16 = 0 /\ (b <= a => (a - b) % 16 = 0)
  OBVIOUS

\* From the start of its payload to the alignment: posix_memalign(3) takes powers
\* of two only, and every chunk starts at a multiple of 16.
LEMMA PaddingIs ==
  ASSUME NEW c \in Proper, NEW alignment \in Alignments \cup {PageSize}, NEW align,
         align = IF alignment < 16 THEN 16 ELSE alignment,
         NEW pad, pad = AlignedPayload(c, align) - (c.addr + Header)
  PROVE  /\ pad \in Nat /\ pad % 16 = 0 /\ (pad <= alignment - 16 \/ pad = 0)
         /\ AlignedPayload(c, align) = c.addr + 16 + pad
         /\ AlignedPayload(c, align) % alignment = 0
<1>1. /\ align \in Nat \ {0} /\ align % 16 = 0 /\ alignment \in Nat \ {0}
      /\ alignment >= 16 => align = alignment
      /\ alignment < 16 => align = 16 /\ 16 % alignment = 0
  <2>1. /\ alignment \in Nat \ {0}
        /\ IF alignment > 16 THEN alignment % 16 = 0 ELSE 16 % alignment = 0
    BY AlignmentsAssumption DEF Header
  <2>2. CASE alignment < 16
    BY <2>1, <2>2
  <2>3. CASE alignment = 16
    BY <2>3
  <2>4. CASE alignment > 16
    BY <2>1, <2>4
  <2> QED
    BY <2>1, <2>2, <2>3, <2>4
<1>2. c.addr \in Nat /\ c.addr % 16 = 0
  BY ProperIs
<1> DEFINE p == c.addr + 16
           a == AlignedPayload(c, align)
<1>3. p \in Nat /\ p % 16 = 0 /\ a = RoundUp(p, align) /\ pad = a - p
  BY <1>2 DEF AlignedPayload, Header
<1> HIDE DEF p, a
<1>4. a \in Nat /\ p <= a /\ a < p + align /\ a % align = 0 /\ a % 16 = 0
  BY <1>1, <1>3, RoundUpIs
<1>5. pad \in Nat /\ a = p + pad /\ pad < align
  BY <1>1, <1>3, <1>4
<1>6. pad % 16 = 0
  BY <1>3, <1>4, SixteenSum
<1>7. pad <= align - 16
  BY <1>1, <1>5, <1>6
<1>8. a % alignment = 0
  <2>1. CASE alignment >= 16
    BY <1>1, <1>4, <2>1
  <2>2. CASE alignment < 16
    <3>1. alignment \in {1, 2, 4, 8}
      BY <1>1, <2>2
    <3> QED
      BY <1>4, <3>1
  <2> QED
    BY <1>1, <2>1, <2>2
<1> QED
  BY <1>1, <1>5, <1>6, <1>7, <1>8 DEF p, a

\* posix_memalign() splits a chunk in two, which have the bytes of the one.
LEMMA SplitInOrder ==
  ASSUME NEW list, Orderly(list), NEW i \in DOMAIN list,
         NEW pad \in Nat \ {0}, pad % 16 = 0, pad <= list[i].size
  PROVE  LET first == [list[i] EXCEPT !.size = pad - Header]
             second == [addr |-> list[i].addr + pad, size |-> list[i].size - pad]
             split == InsertInAddressOrder(ReplaceAt(list, i, first), second)
         IN  /\ Orderly(split) /\ i + 1 \in DOMAIN split /\ split[i + 1] = second
             /\ \A d \in Proper : PartOf(split, d) => PartOf(list, d)
             /\ \A x \in Int : FreeAt(split, x) <=> FreeAt(list, x)
<1> DEFINE c == list[i]
           first == [c EXCEPT !.size = pad - Header]
           second == [addr |-> c.addr + pad, size |-> c.size - pad]
           held == ReplaceAt(list, i, first)
           split == InsertInAddressOrder(held, second)
<1>1. list \in Seq(Proper) /\ DOMAIN list = 1 .. Len(list) /\ Len(list) \in Nat
      /\ c \in Proper /\ i \in 1 .. Len(list) /\ pad <= c.size
  BY DEF Orderly
<1> HIDE DEF c
<1>2. /\ c \in Proper /\ c.addr \in Nat /\ c.size \in Nat /\ End(c) = c.addr + 16 + c.size
      /\ c.addr % 16 = 0 /\ c.size % 16 = 0 /\ End(c) \in Nat
      /\ Pool - 16 <= c.addr /\ End(c) <= Pool + PoolSize
  BY <1>1, ProperIs
<1>3. /\ first \in Proper /\ first.addr = c.addr /\ End(first) = c.addr + pad
      /\ second \in Proper /\ second.addr = c.addr + pad /\ End(second) = End(c)
  <2>1. first = [addr |-> c.addr, size |-> pad - 16] /\ pad - 16 \in Nat /\ (pad - 16) % 16 = 0
    BY <1>2 DEF Proper, Chunk, Header
  <2>2. /\ c.size - pad \in Nat /\ (c.size - pad) % 16 = 0
        /\ c.addr + pad \in Nat /\ (c.addr + pad) % 16 = 0
    <3>1. (c.addr + pad) % 16 = 0
      BY <1>2, SixteenSum
    <3>2. (c.size - pad) % 16 = 0
      BY <1>1, <1>2, SixteenSum
    <3>3. c.size - pad \in Nat /\ c.addr + pad \in Nat
      BY <1>1, <1>2
    <3> QED
      BY <3>1, <3>2, <3>3
  <2>3. first \in Chunk /\ first.addr = c.addr /\ first.size = pad - 16
    BY <1>2, <2>1 DEF Chunk
  <2>4. second \in Chunk /\ second.addr = c.addr + pad /\ second.size = c.size - pad
    BY <2>2 DEF Chunk
  <2> HIDE DEF first, second
  <2>5. End(first) = c.addr + pad /\ End(second) = End(c)
    BY <1>2, <2>3, <2>4 DEF End, Header
  <2>6. c.addr + pad <= End(c)
    BY <1>1, <1>2
  <2>7. first \in Proper
    BY <1>2, <2>1, <2>3, <2>5, <2>6, PoolAssumption DEF Proper, Header
  <2>8. second \in Proper
    BY <1>2, <2>2, <2>4, <2>5, <2>6, PoolAssumption DEF Proper, Header
  <2> QED
    BY <2>3, <2>4, <2>5, <2>7, <2>8
<1>4. c.addr + pad <= End(c) - 16
  BY <1>1, <1>2
<1> HIDE DEF first, second
<1>5. ASSUME NEW j \in DOMAIN list \ {i}
      PROVE  Clear(list[j], first) /\ Clear(list[j], second)
  <2>1. list[j] \in Proper /\ Clear(list[j], c)
    <3>1. i < j \/ j < i
      BY <1>1
    <3> QED
      BY <1>1, <3>1 DEF Orderly, Clear, c
  <2>2. list[j].addr \in Nat /\ End(list[j]) \in Nat
    BY <2>1, ProperIs
  <2> QED
    BY <1>2, <1>3, <1>4, <2>1, <2>2 DEF Clear
<1>6. /\ Orderly(held) /\ DOMAIN held = DOMAIN list
      /\ \A j \in DOMAIN held : held[j] = IF j = i THEN first ELSE list[j]
  <2>1. \A j \in DOMAIN list \ {i} : Clear(list[j], first)
    BY <1>5
  <2>2. first.addr = list[i].addr
    BY <1>3 DEF c
  <2> QED
    BY <1>3, <2>1, <2>2, ReplacedInOrder
<1> HIDE DEF held
<1>7. ClearOf(held, second)
  <2>1. Clear(first, second)
    BY <1>2, <1>3 DEF Clear
  <2> QED
    BY <1>5, <1>6, <2>1 DEF ClearOf
<1>8. /\ held \in Seq(Proper) /\ DOMAIN held = 1 .. Len(held) /\ Len(held) = Len(list)
  <2>1. held \in Seq(Proper)
    BY <1>6 DEF Orderly
  <2> QED
    BY <1>1, <1>6, <2>1
<1>9. /\ Orderly(split) /\ DOMAIN split = 1 .. Len(held) + 1
      /\ \A j \in DOMAIN split : split[j] = second \/ \E k \in DOMAIN held : split[j] = held[k]
      /\ \E at \in DOMAIN split :
           /\ split[at] = second
           /\ \A k \in DOMAIN held : k < at <=> held[k].addr < second.addr
  BY <1>3, <1>6, <1>7, InsertedInOrder
<1>10. ASSUME NEW x \in Int PROVE FreeAt(split, x) <=> FreeAt(list, x)
  <2>1. Covers(c, x) <=> Covers(first, x) \/ Covers(second, x)
    BY <1>2, <1>3, <1>4 DEF Covers
  <2>2. FreeAt(list, x) <=> Covers(c, x) \/ \E j \in DOMAIN list \ {i} : Covers(list[j], x)
    BY DEF FreeAt, c
  <2>3. FreeAt(held, x) <=> Covers(first, x) \/ \E j \in DOMAIN list \ {i} : Covers(list[j], x)
    BY <1>6 DEF FreeAt
  <2>4. FreeAt(split, x) <=> FreeAt(held, x) \/ Covers(second, x)
    BY <1>3, <1>6, <1>7, InsertedBytes
  <2> QED
    BY <2>1, <2>2, <2>3, <2>4
<1> HIDE DEF split
<1>11. i + 1 \in DOMAIN split /\ split[i + 1] = second
  <2>1. PICK at \in DOMAIN split :
          /\ split[at] = second
          /\ \A k \in DOMAIN held : k < at <=> held[k].addr < second.addr
    BY <1>9
  <2>2. i < at
    <3>1. held[i].addr = c.addr /\ i \in DOMAIN held
      BY <1>1, <1>3, <1>6
    <3> QED
      BY <1>2, <1>3, <2>1, <3>1
  <2>3. ~(i + 1 < at)
    <3>1. SUFFICES ASSUME i + 1 \in DOMAIN held PROVE ~(held[i + 1].addr < second.addr)
      BY <1>1, <1>8, <1>9, <2>1
    <3>2. held[i + 1] = list[i + 1] /\ i + 1 \in DOMAIN list /\ i < i + 1
      BY <1>1, <1>6, <3>1
    <3>3. End(c) <= list[i + 1].addr /\ list[i + 1] \in Proper
      BY <1>1, <3>2 DEF Orderly, c
    <3>4. list[i + 1].addr \in Nat
      BY <3>3, ProperIs
    <3> HIDE DEF c
    <3> QED
      BY <1>2, <1>3, <1>4, <3>2, <3>3, <3>4
  <2>4. at = i + 1
    BY <1>1, <1>8, <1>9, <2>1, <2>2, <2>3
  <2> QED
    BY <2>1, <2>4
<1>12. ASSUME NEW d \in Proper, PartOf(split, d) PROVE PartOf(list, d)
  <2>1. PICK j \in DOMAIN split : split[j].addr <= d.addr /\ End(d) <= End(split[j])
    BY <1>12 DEF PartOf
  <2>2. split[j] = second \/ split[j] = first \/ \E k \in DOMAIN list : split[j] = list[k]
    BY <1>6, <1>9
  <2>3. CASE split[j] = second \/ split[j] = first
    <3>1. d.addr \in Nat /\ End(d) \in Nat
      BY ProperIs
    <3>2. c.addr <= d.addr /\ End(d) <= End(c)
      BY <1>2, <1>3, <1>4, <2>1, <2>3, <3>1
    <3> QED
      BY <3>2 DEF PartOf, c
  <2>4. CASE \E k \in DOMAIN list : split[j] = list[k]
    BY <2>1, <2>4 DEF PartOf
  <2> QED
    BY <2>2, <2>3, <2>4
<1> QED
  BY <1>9, <1>11, <1>12, <1>10 DEF c, first, second, held, split

\* posix_memalign() issues an aligned chunk or fails; it stops at an assertion
\* only if the sum of size and padding wraps around.
LEMMA MemalignIssues ==
  ASSUME NEW list, Orderly(list), NEW size \in 0 .. Word - 1,
         NEW alignment \in Alignments \cup {PageSize}
  PROVE  LET r == Memaligned(list, alignment, size)
         IN  /\ r.sane => \/ FailsClean(list, r)
                          \/ Succeeds(list, r, size) /\ r.ptr % alignment = 0
             /\ size + alignment <= Word => r.sane
<1> DEFINE align == IF alignment < 16 THEN 16 ELSE alignment
           Padding(d) == AlignedPayload(d, align) - (d.addr + Header)
           I == {k \in 1 .. Len(list) : (Padding(list[k]) + size) % Word <= list[k].size}
           i == IF I # {} THEN Min(I) ELSE 0
           c == list[i]
           pad == Padding(c)
           first == [c EXCEPT !.size = pad - Header]
           second == [addr |-> c.addr + pad, size |-> c.size - pad]
           split == InsertInAddressOrder(ReplaceAt(list, i, first), second)
           r == Memaligned(list, alignment, size)
<1>1. r = IF i = 0 THEN Nothing(list)
          ELSE IF c.size < size \/ pad \in 1 .. Header - 1 THEN Failed(list)
          ELSE IF pad = 0 THEN AllocateAt(list, i, size)
          ELSE AllocateAt(split, i + 1, size)
  BY DEF Memaligned, SelectInSeq
<1>2. i # 0 => i \in DOMAIN list /\ (pad + size) % Word <= c.size
  <2>0. I \subseteq Nat /\ I \subseteq DOMAIN list
    BY DEF Orderly
  <2>1. I # {} => Min(I) \in I
    <3> HIDE DEF I
    <3> QED
      BY <2>0, MinIsLeast
  <2> HIDE DEF Padding
  <2> QED
    BY <2>0, <2>1
<1> SUFFICES /\ r.sane => \/ FailsClean(list, r)
                          \/ Succeeds(list, r, size) /\ r.ptr % alignment = 0
             /\ size + alignment <= Word => r.sane
  OBVIOUS
<1> HIDE DEF r
<1>3. CASE i = 0
  BY <1>1, <1>3 DEF Nothing, FailsClean
<1>4. CASE i # 0
  <2> HIDE DEF i, I
  <2>1. /\ i \in DOMAIN list /\ c \in Proper /\ c.addr \in Nat /\ c.size \in Nat
        /\ Pool - 16 <= c.addr /\ End(c) = c.addr + 16 + c.size /\ End(c) <= Pool + PoolSize
    BY <1>2, <1>4, ProperIs DEF Orderly
  <2> HIDE DEF c
  <2>2. /\ pad \in Nat /\ pad % 16 = 0 /\ (pad <= alignment - 16 \/ pad = 0)
        /\ AlignedPayload(c, align) = c.addr + 16 + pad
        /\ AlignedPayload(c, align) % alignment = 0
    BY <2>1, PaddingIs
  <2>3. /\ (c.addr + 16 + pad) % alignment = 0 /\ c.addr + 16 + pad \in Nat
    BY <2>1, <2>2
  <2> HIDE DEF align, pad, Padding
  <2>4. /\ alignment \in Nat /\ alignment + Pool + PoolSize <= Word
        /\ Word \in Nat /\ Pool \in Nat /\ PoolSize \in Nat /\ Word > Pool + PoolSize
        /\ size \in Nat /\ size < Word
    BY AlignmentsAssumption, WordAssumption, PoolAssumption
  <2>5. pad + size < Word => (pad + size) % Word = pad + size
    BY <2>2, <2>4
  <2>6. ~(pad \in 1 .. Header - 1)
    BY <2>2 DEF Header
  <2>7. size + alignment <= Word => size <= c.size
    <3> SUFFICES ASSUME size + alignment <= Word PROVE size <= c.size
      OBVIOUS
    <3>1. pad + size < Word
      BY <2>2, <2>4
    <3>2. pad + size <= c.size
      BY <1>2, <1>4, <2>5, <3>1
    <3> QED
      BY <2>1, <2>2, <2>4, <3>2
  <2>8. CASE c.size < size
    BY <1>1, <1>4, <2>1, <2>4, <2>7, <2>8 DEF Failed
  <2>9. CASE ~(c.size < size)
    <3>1. size <= c.size /\ pad + size <= c.size
      BY <1>2, <1>4, <2>1, <2>2, <2>4, <2>5, <2>9
    <3>2. CASE pad = 0
      <4>1. r = AllocateAt(list, i, size)
        BY <1>1, <1>4, <2>6, <2>9, <3>2
      <4>2. r.sane /\ Issues(list, r, size) /\ r.ptr = c.addr + 16
        BY <2>1, <2>4, <3>1, <4>1, AllocatesPart DEF c
      <4> QED
        BY <2>1, <2>3, <3>2, <4>2 DEF Succeeds, NULL
    <3>3. CASE pad # 0
      <4>1. r = AllocateAt(split, i + 1, size)
        BY <1>1, <1>4, <2>6, <2>9, <3>3
      <4>2. pad \in Nat \ {0} /\ pad <= c.size
        BY <2>1, <2>2, <2>4, <3>1, <3>3
      <4>3. /\ Orderly(split) /\ i + 1 \in DOMAIN split /\ split[i + 1] = second
            /\ \A d \in Proper : PartOf(split, d) => PartOf(list, d)
            /\ \A x \in Int : FreeAt(split, x) <=> FreeAt(list, x)
        BY <2>1, <2>2, <4>2, SplitInOrder DEF c
      <4> HIDE DEF split
      <4>4. size <= split[i + 1].size /\ split[i + 1].addr = c.addr + pad
        BY <2>1, <2>2, <2>4, <3>1, <4>3
      <4>5. r.sane /\ Issues(split, r, size) /\ r.ptr = c.addr + pad + 16
        BY <2>4, <4>1, <4>3, <4>4, AllocatesPart
      <4>6. Spills(list, r, size)
        BY <4>3, <4>5 DEF Issues, Spills
      <4>7. Issues(list, r, size)
        BY <4>3, <4>5, <4>6 DEF Issues, Orderly
      <4>8. r.ptr = c.addr + 16 + pad
        BY <2>1, <2>2, <4>5
      <4> QED
        BY <2>1, <2>2, <2>3, <4>5, <4>7, <4>8 DEF Succeeds, NULL
    <3> QED
      BY <3>2, <3>3
  <2> QED
    BY <2>8, <2>9
<1> QED
  BY <1>3, <1>4

----------------------------------------------------------------------------
\* The inductive invariant.

\* The issued chunks are as chunks may be, apart from one another and from what
\* is free: without this free() could not keep the list in order.
Held(blocks, p) == [addr |-> HeaderOf(p), size |-> blocks[p].size]

ApartFrom(list, blocks) ==
  \A p \in DOMAIN blocks :
    /\ p \in Nat /\ blocks[p] \in [size : Nat, asked : Nat, align : Nat]
    /\ Held(blocks, p) \in Proper
    /\ ClearOf(list, Held(blocks, p))
    /\ \A q \in DOMAIN blocks \ {p} : Clear(Held(blocks, q), Held(blocks, p))

IInv == Orderly(free) /\ ApartFrom(free, live)

\* The chunks after a call that gave one.
LEMMA AllocationKeepsApart ==
  ASSUME IInv, NEW r, NEW size \in Nat, NEW asked \in Nat, NEW align \in Nat,
         Succeeds(free, r, size)
  PROVE  LET b == Blocks({}, r, size, asked, align)
         IN  /\ r.ptr \notin DOMAIN live /\ DOMAIN b = DOMAIN live \cup {r.ptr}
             /\ b[r.ptr] = [size |-> RoundUp(size, 16), asked |-> asked, align |-> align]
             /\ \A p \in DOMAIN live : b[p] = live[p]
             /\ ApartFrom(r.free, b)
<1> DEFINE b == Blocks({}, r, size, asked, align)
           got == Given(r, size)
<1> USE DEF IInv
<1>1. /\ r.ptr \in Nat /\ r.ptr # NULL /\ got \in Proper /\ Orderly(r.free) /\ ClearOf(r.free, got)
      /\ PartOf(free, got) /\ \A j \in DOMAIN r.free : PartOf(free, r.free[j])
      /\ free \in Seq(Proper) /\ r.free \in Seq(Proper)
  BY DEF Succeeds, Issues, Orderly
<1>2. ASSUME NEW p \in DOMAIN live
      PROVE  /\ Clear(got, Held(live, p)) /\ Clear(Held(live, p), got)
             /\ ClearOf(r.free, Held(live, p)) /\ p # r.ptr
  <2>1. Held(live, p) \in Proper /\ ClearOf(free, Held(live, p))
    BY DEF ApartFrom
  <2>2. Clear(got, Held(live, p))
    BY <1>1, <2>1, PartsClear, ProperIs
  <2>3. ClearOf(r.free, Held(live, p))
    <3>1. ASSUME NEW j \in DOMAIN r.free PROVE Clear(r.free[j], Held(live, p))
      <4>1. r.free[j] \in Proper
        BY <1>1
      <4> QED
        BY <1>1, <2>1, <4>1, PartsClear, ProperIs
    <3> QED
      BY <3>1 DEF ClearOf
  <2>4. p # r.ptr
    <3>1. Held(live, p).addr = HeaderOf(p) /\ got.addr = HeaderOf(r.ptr)
      BY DEF Held, Given
    <3>2. Held(live, p).addr # got.addr
      <4>1. /\ Held(live, p).addr \in Nat /\ End(Held(live, p)) \in Nat
            /\ Held(live, p).addr < End(Held(live, p))
        BY <2>1, ProperIs
      <4>2. got.addr \in Nat /\ End(got) \in Nat /\ got.addr < End(got)
        BY <1>1, ProperIs
      <4> HIDE DEF got
      <4> QED
        BY <2>2, <4>1, <4>2 DEF Clear
    <3> QED
      BY <3>1, <3>2
  <2> QED
    BY <2>2, <2>3, <2>4 DEF Clear
<1>3. /\ DOMAIN b = DOMAIN live \cup {r.ptr}
      /\ b[r.ptr] = [size |-> RoundUp(size, 16), asked |-> asked, align |-> align]
      /\ \A p \in DOMAIN live : b[p] = live[p]
  BY <1>1, <1>2 DEF Blocks
<1> HIDE DEF b
<1>4. Held(b, r.ptr) = got /\ \A p \in DOMAIN live : Held(b, p) = Held(live, p)
  BY <1>3 DEF Held, Given
<1>5. b[r.ptr] \in [size : Nat, asked : Nat, align : Nat]
  <2>1. RoundUp(size, 16) \in Nat
    BY RoundUpIs
  <2> QED
    BY <1>3, <2>1
<1> HIDE DEF got
<1>6. ApartFrom(r.free, b)
  <2>1. ASSUME NEW p \in DOMAIN b
        PROVE  /\ p \in Nat /\ b[p] \in [size : Nat, asked : Nat, align : Nat]
               /\ Held(b, p) \in Proper /\ ClearOf(r.free, Held(b, p))
    BY <1>1, <1>2, <1>3, <1>4, <1>5 DEF ApartFrom
  <2>2. ASSUME NEW p \in DOMAIN b, NEW q \in DOMAIN b \ {p}
        PROVE  Clear(Held(b, q), Held(b, p))
    <3>1. CASE p = r.ptr
      BY <1>2, <1>3, <1>4, <3>1
    <3>2. CASE q = r.ptr
      BY <1>2, <1>3, <1>4, <3>2
    <3>3. CASE p # r.ptr /\ q # r.ptr
      BY <1>3, <1>4, <3>3 DEF ApartFrom
    <3> QED
      BY <3>1, <3>2, <3>3
  <2> QED
    BY <2>1, <2>2 DEF ApartFrom
<1> QED
  BY <1>2, <1>1, <1>3, <1>6 DEF b

\* The chunks after free().
LEMMA FreeKeepsApart ==
  ASSUME NEW list, NEW b, Orderly(list), ApartFrom(list, b), NEW p \in DOMAIN b,
         NEW c, DOMAIN c = DOMAIN b \ {p}, \A q \in DOMAIN c : c[q] = b[q]
  PROVE  LET r == Freed(list, HeaderOf(p), b[p].size)
         IN  /\ r.sane /\ Orderly(r.free) /\ ApartFrom(r.free, c)
             /\ \A x \in Int : FreeAt(r.free, x) <=> FreeAt(list, x) \/ Covers(Held(b, p), x)
<1> DEFINE r == Freed(list, HeaderOf(p), b[p].size)
<1>1. Held(b, p) \in Proper /\ ClearOf(list, Held(b, p))
  BY DEF ApartFrom
<1>2. /\ r.sane /\ Orderly(r.free)
      /\ \A d \in Proper : ClearOf(list, d) /\ Clear(Held(b, p), d) => ClearOf(r.free, d)
      /\ \A x \in Int : FreeAt(r.free, x) <=> FreeAt(list, x) \/ Covers(Held(b, p), x)
  BY <1>1, FreeKeepsOrder DEF Held
<1> HIDE DEF r
<1>3. \A q \in DOMAIN c : q \in DOMAIN b /\ q # p /\ Held(c, q) = Held(b, q)
  BY DEF Held
<1>4. ApartFrom(r.free, c)
  <2>1. ASSUME NEW q \in DOMAIN c
        PROVE  /\ q \in Nat /\ c[q] \in [size : Nat, asked : Nat, align : Nat]
               /\ Held(c, q) \in Proper /\ ClearOf(r.free, Held(c, q))
    <3>1. Held(b, q) \in Proper /\ ClearOf(list, Held(b, q)) /\ Clear(Held(b, p), Held(b, q))
      BY <1>3 DEF ApartFrom
    <3> QED
      BY <1>2, <1>3, <3>1 DEF ApartFrom
  <2>2. ASSUME NEW q \in DOMAIN c, NEW o \in DOMAIN c \ {q}
        PROVE  Clear(Held(c, o), Held(c, q))
    BY <1>3 DEF ApartFrom
  <2> QED
    BY <2>1, <2>2 DEF ApartFrom
<1> QED
  BY <1>2, <1>4 DEF r

----------------------------------------------------------------------------
\* What the calls do, for callers that keep within the address space and for
\* others.

\* No size that a call computes from what it is asked for wraps around.
RequestsFit ==
  /\ \A size, nmemb \in Sizes : size * nmemb < Word
  /\ \A size \in Sizes, a \in Alignments \cup {PageSize} : size + a <= Word
  /\ \A size \in Sizes : RoundUp(size, PageSize) + PageSize <= Word

Aborts == UNCHANGED <<free, live>> /\ last'.call = "abort" /\ ~RequestsFit

Rejects(call) ==
  /\ last' = [call |-> call, at |-> NULL] /\ free' = free
  /\ DOMAIN live' = DOMAIN live /\ \A p \in DOMAIN live : live'[p] = live[p]

Grants(r, size, asked, align) ==
  /\ size \in Nat /\ asked \in Nat /\ align \in Nat \ {0}
  /\ Succeeds(free, r, size) /\ r.ptr % align = 0
  /\ RequestsFit => asked <= RoundUp(size, 16)
  /\ last' = [call |-> "malloc", at |-> r.ptr]
  /\ free' = r.free /\ live' = Blocks({}, r, size, asked, align)

\* A chunk that was issued, in numbers.
LEMMA BlockIs ==
  ASSUME NEW list, NEW b, ApartFrom(list, b), NEW p \in DOMAIN b
  PROVE  /\ p \in Nat /\ b[p].size \in Nat /\ p % 16 = 0 /\ p # NULL
         /\ Pool <= p /\ p + b[p].size <= Pool + PoolSize
         /\ \A q \in DOMAIN b \ {p} : q + b[q].size <= p - 16 \/ p + b[p].size <= q - 16
<1>1. ASSUME NEW q \in DOMAIN b
      PROVE  /\ Held(b, q) \in Proper /\ q \in Nat /\ b[q].size \in Nat
             /\ Held(b, q).addr = q - 16 /\ End(Held(b, q)) = q + b[q].size
  <2>1. Held(b, q) \in Proper /\ q \in Nat /\ b[q].size \in Nat
    BY DEF ApartFrom
  <2> QED
    BY <2>1 DEF Held, HeaderOf, End, Header
<1>2. p - 16 \in Nat /\ (p - 16) % 16 = 0 /\ Pool - 16 <= p - 16 /\ p + b[p].size <= Pool + PoolSize
  BY <1>1, ProperIs
<1>3. p % 16 = 0
  BY <1>1, <1>2
<1>4. \A q \in DOMAIN b \ {p} : q + b[q].size <= p - 16 \/ p + b[p].size <= q - 16
  BY <1>1 DEF ApartFrom, Clear
<1> QED
  BY <1>1, <1>2, <1>3, <1>4, PoolAssumption DEF NULL, Header

\* A call that fails issues nothing.
LEMMA NothingBlocked ==
  ASSUME IInv, NEW r, r.ptr = NULL, NEW size, NEW asked, NEW align
  PROVE  LET b == Blocks({}, r, size, asked, align)
         IN  DOMAIN b = DOMAIN live /\ \A p \in DOMAIN live : b[p] = live[p]
  BY BlockIs DEF Blocks, IInv

\* malloc() and calloc(): what they take is at a multiple of 16.
LEMMA MallocEffect ==
  ASSUME IInv, NEW size \in Nat, NEW asked \in Nat,
         RequestsFit => asked <= size,
         Return("malloc", Malloced(free, size).ptr, Malloced(free, size),
                Blocks({}, Malloced(free, size), size, asked, 16))
  PROVE  Rejects("malloc") \/ \E r : Grants(r, size, asked, 16)
<1> DEFINE r == Malloced(free, size)
<1>1. r.sane /\ (FailsClean(free, r) \/ Succeeds(free, r, size))
  BY MallocIssues DEF IInv
<1> HIDE DEF r
<1>2. /\ last' = [call |-> "malloc", at |-> r.ptr] /\ free' = r.free
      /\ live' = Blocks({}, r, size, asked, 16)
  BY <1>1 DEF Return, r
<1>3. CASE FailsClean(free, r)
  BY <1>2, <1>3, NothingBlocked DEF FailsClean, Rejects
<1>4. CASE Succeeds(free, r, size)
  <2>1. size <= RoundUp(size, 16) /\ RoundUp(size, 16) \in Nat
    BY RoundUpIs
  <2>2. r.ptr % 16 = 0
    <3>1. r.ptr \in Nat /\ (r.ptr - 16) % 16 = 0
      BY <1>4, ProperIs DEF Succeeds, Issues, Given, HeaderOf, Header
    <3> QED
      BY <3>1
  <2>3. RequestsFit => asked <= RoundUp(size, 16)
    BY <2>1
  <2> QED
    BY <1>2, <1>4, <2>2, <2>3 DEF Grants
<1> QED
  BY <1>1, <1>3, <1>4

\* posix_memalign() and pvalloc().
LEMMA MemalignEffect ==
  ASSUME IInv, NEW size \in 0 .. Word - 1, NEW asked \in Nat,
         NEW alignment \in Alignments \cup {PageSize},
         RequestsFit => asked <= size /\ size + alignment <= Word,
         Return("malloc", Memaligned(free, alignment, size).ptr, Memaligned(free, alignment, size),
                Blocks({}, Memaligned(free, alignment, size), size, asked, alignment))
  PROVE  Aborts \/ Rejects("malloc") \/ \E r : Grants(r, size, asked, alignment)
<1> DEFINE r == Memaligned(free, alignment, size)
<1>1. /\ r.sane => FailsClean(free, r) \/ (Succeeds(free, r, size) /\ r.ptr % alignment = 0)
      /\ size + alignment <= Word => r.sane
  BY MemalignIssues DEF IInv
<1> HIDE DEF r
<1>2. /\ free' = IF r.sane THEN r.free ELSE free
      /\ live' = IF r.sane THEN Blocks({}, r, size, asked, alignment) ELSE live
      /\ last' = [call |-> IF r.sane THEN "malloc" ELSE "abort", at |-> r.ptr]
  BY DEF Return, r
<1>3. CASE ~r.sane
  BY <1>1, <1>2, <1>3 DEF Aborts
<1>4. CASE r.sane /\ FailsClean(free, r)
  BY <1>2, <1>4, NothingBlocked DEF FailsClean, Rejects
<1>5. CASE r.sane /\ Succeeds(free, r, size)
  <2>1. size \in Nat /\ alignment \in Nat \ {0}
    BY WordAssumption, AlignmentsAssumption
  <2>2. RequestsFit => asked <= RoundUp(size, 16)
    BY <2>1, RoundUpIs
  <2>3. r.ptr % alignment = 0
    <3>1. r.ptr # NULL
      BY <1>5 DEF Succeeds
    <3> QED
      BY <1>1, <1>5, <3>1 DEF FailsClean
  <2> QED
    BY <1>2, <1>5, <2>1, <2>2, <2>3 DEF Grants
<1> QED
  BY <1>1, <1>3, <1>4, <1>5

\* malloc(), calloc(), posix_memalign() and pvalloc().
LEMMA AllocationEffect ==
  ASSUME IInv, Allocation
  PROVE  \/ Aborts \/ Rejects("malloc")
         \/ \E r, size, asked, align : Grants(r, size, asked, align)
<1>1. /\ Word \in Nat \ {0} /\ PageSize \in Nat \ {0}
      /\ \A size \in Sizes : size \in Nat /\ size \in 0 .. Word - 1
  BY WordAssumption, SizesAssumption, AlignmentsAssumption, PoolAssumption DEF Header
<1>2. ASSUME NEW size \in Sizes, Malloc(size)
      PROVE  Rejects("malloc") \/ \E r : Grants(r, size, size, 16)
  BY <1>1, <1>2, MallocEffect DEF Malloc
<1>3. ASSUME NEW size \in Sizes, NEW nmemb \in Sizes, Calloc(size, nmemb)
      PROVE  \E n : Rejects("malloc") \/ \E r : Grants(r, n, size * nmemb, 16)
  <2> DEFINE k == size * nmemb
             n == k % Word
  <2>1. k \in Nat
    BY <1>1
  <2>2. RequestsFit => k < Word
    BY DEF RequestsFit
  <2>3. Return("malloc", Malloced(free, n).ptr, Malloced(free, n),
               Blocks({}, Malloced(free, n), n, k, 16))
    BY <1>3 DEF Calloc
  <2> HIDE DEF k
  <2>4. n \in Nat /\ (k < Word => k <= n)
    BY <1>1, <2>1
  <2> HIDE DEF n
  <2>5. Rejects("malloc") \/ \E r : Grants(r, n, k, 16)
    BY <2>1, <2>2, <2>3, <2>4, MallocEffect
  <2> QED
    BY <2>5 DEF k
<1>4. ASSUME NEW size \in Sizes, NEW a \in Alignments \cup {PageSize}, PosixMemalign(a, size)
      PROVE  Aborts \/ Rejects("malloc") \/ \E r : Grants(r, size, size, a)
  <2>1. RequestsFit => size + a <= Word
    BY DEF RequestsFit
  <2> QED
    BY <1>1, <1>4, <2>1, MemalignEffect DEF PosixMemalign
<1>5. ASSUME NEW size \in Sizes, Pvalloc(size)
      PROVE  \E n : Aborts \/ Rejects("malloc") \/ \E r : Grants(r, n, size, PageSize)
  <2> DEFINE k == RoundUp(size, PageSize)
             n == k % Word
  <2>1. k \in Nat /\ size <= k
    BY <1>1, RoundUpIs
  <2>2. RequestsFit => k + PageSize <= Word
    BY DEF RequestsFit
  <2>3. Return("malloc", Memaligned(free, PageSize, n).ptr, Memaligned(free, PageSize, n),
               Blocks({}, Memaligned(free, PageSize, n), n, size, PageSize))
    BY <1>5 DEF Pvalloc
  <2> HIDE DEF k
  <2>4. n \in 0 .. Word - 1 /\ (k < Word => n = k)
    BY <1>1, <2>1
  <2> HIDE DEF n
  <2>5. RequestsFit => size <= n /\ n + PageSize <= Word
    BY <1>1, <2>1, <2>2, <2>4
  <2> QED
    BY <1>1, <2>3, <2>4, <2>5, MemalignEffect
<1> QED
  BY <1>2, <1>3, <1>4, <1>5 DEF Allocation

\* free() and the realloc() of a block that is large enough.
Frees(p) ==
  /\ IInv' /\ last' = [call |-> "free", at |-> p]
  /\ DOMAIN live' = DOMAIN live \ {p} /\ \A q \in DOMAIN live' : live'[q] = live[q]
  /\ \A x \in Int : FreeAt(free', x) <=> FreeAt(free, x) \/ Covers(Held(live, p), x)

Keeps(p) ==
  /\ IInv' /\ last' = [call |-> "realloc", at |-> p] /\ free' = free
  /\ DOMAIN live' = DOMAIN live /\ live'[p].size = live[p].size
  /\ live'[p].asked <= live[p].size /\ live'[p].align = 16
  /\ \A q \in DOMAIN live \ {p} : live'[q] = live[q]

\* The block at p has moved to q; r is how malloc() left it between.
Moves(p, q, r, size) ==
  /\ IInv' /\ last' = [call |-> "realloc", at |-> q] /\ q \notin DOMAIN live
  /\ DOMAIN live' = (DOMAIN live \ {p}) \cup {q}
  /\ live[p].size <= live'[q].size
  /\ live'[q].asked <= live'[q].size /\ live'[q].align = 16
  /\ \A o \in DOMAIN live \ {p} : live'[o] = live[o]
  /\ Spills(free, r, size) /\ Given(r, size) = Held(live', q)
  /\ \A x \in Int : FreeAt(free', x) <=> FreeAt(r.free, x) \/ Covers(Held(live, p), x)

\* free().
LEMMA FreeEffect ==
  ASSUME IInv, NEW p \in DOMAIN live, Free(p)
  PROVE  Frees(p)
<1> DEFINE r == Freed(free, HeaderOf(p), live[p].size)
           c == Blocks({p}, r, 0, 0, 0)
<1>1. r.ptr = NULL
  BY DEF Freed
<1>2. DOMAIN c = DOMAIN live \ {p} /\ \A q \in DOMAIN c : c[q] = live[q]
  BY <1>1, BlockIs DEF Blocks, IInv
<1> HIDE DEF c
<1>3. /\ r.sane /\ Orderly(r.free) /\ ApartFrom(r.free, c)
      /\ \A x \in Int : FreeAt(r.free, x) <=> FreeAt(free, x) \/ Covers(Held(live, p), x)
  BY <1>2, FreeKeepsApart DEF IInv
<1> HIDE DEF r
<1>4. free' = r.free /\ live' = c /\ last' = [call |-> "free", at |-> p]
  BY <1>3 DEF Free, Return, r, c
<1> QED
  BY <1>2, <1>3, <1>4 DEF Frees, IInv

\* realloc() of what is large enough.
LEMMA InPlaceEffect ==
  ASSUME IInv, NEW p \in DOMAIN live, NEW size \in Nat, ReallocInPlace(p, size)
  PROVE  Keeps(p)
<1>1. /\ DOMAIN live' = DOMAIN live /\ \A q \in DOMAIN live \ {p} : live'[q] = live[q]
      /\ live'[p] = [live[p] EXCEPT !.asked = size, !.align = 16]
      /\ free' = free /\ last' = [call |-> "realloc", at |-> p] /\ live[p].size >= size
  BY DEF ReallocInPlace
<1>2. live[p] \in [size : Nat, asked : Nat, align : Nat]
  BY DEF IInv, ApartFrom
<1>3. /\ live'[p] \in [size : Nat, asked : Nat, align : Nat]
      /\ live'[p].size = live[p].size /\ live'[p].asked = size /\ live'[p].align = 16
  <2>1. \A v \in [size : Nat, asked : Nat, align : Nat] :
          LET e == [v EXCEPT !.asked = size, !.align = 16]
          IN  /\ e \in [size : Nat, asked : Nat, align : Nat]
              /\ e.size = v.size /\ e.asked = size /\ e.align = 16
    OBVIOUS
  <2> QED
    BY <1>1, <1>2, <2>1
<1>4. \A q \in DOMAIN live : Held(live', q) = Held(live, q)
  BY <1>1, <1>3 DEF Held
<1>5. ApartFrom(free, live')
  BY <1>1, <1>3, <1>4 DEF IInv, ApartFrom
<1> QED
  BY <1>1, <1>2, <1>3, <1>5 DEF Keeps, IInv

\* realloc() to another place, or to none.
LEMMA MoveEffect ==
  ASSUME IInv, NEW p \in DOMAIN live, NEW size \in Nat, ReallocMoves(p, size)
  PROVE  Rejects("realloc") \/ \E q, r : Moves(p, q, r, size)
<1> DEFINE r == Malloced(free, size)
           g == Freed(r.free, HeaderOf(p), live[p].size)
           f == IF r.ptr = NULL THEN r ELSE g
           gone == IF r.ptr = NULL THEN {} ELSE {p}
           sum == [f EXCEPT !.sane = r.sane /\ @]
           c == Blocks(gone, r, size, size, 16)
<1>1. r.sane /\ (FailsClean(free, r) \/ Succeeds(free, r, size))
  BY MallocIssues DEF IInv
<1>2. live[p].size < size /\ Return("realloc", r.ptr, sum, c)
  BY DEF ReallocMoves
<1>3. DOMAIN r = {"ptr", "free", "sane"} /\ DOMAIN g = {"ptr", "free", "sane"}
  <2>1. DOMAIN r = {"ptr", "free", "sane"}
    BY DEF Malloced, Nothing, AllocateAt
  <2>2. DOMAIN g = {"ptr", "free", "sane"}
    BY DEF Freed
  <2> QED
    BY <2>1, <2>2
<1> HIDE DEF r, g, c
<1>4. sum.free = f.free /\ (sum.sane <=> f.sane)
  <2>1. DOMAIN f = {"ptr", "free", "sane"}
    BY <1>3
  <2> HIDE DEF f
  <2>2. sum.free = f.free /\ sum.sane = (r.sane /\ f.sane)
    BY <2>1
  <2> QED
    BY <1>1, <2>2
<1> HIDE DEF sum
<1>5. CASE r.ptr = NULL
  <2>1. f = r /\ gone = {} /\ r.free = free
    BY <1>1, <1>5 DEF FailsClean, Succeeds
  <2>2. free' = free /\ live' = c /\ last' = [call |-> "realloc", at |-> NULL]
    BY <1>1, <1>2, <1>4, <1>5, <2>1 DEF Return
  <2> QED
    BY <1>5, <2>1, <2>2, NothingBlocked DEF Rejects, c
<1>6. CASE r.ptr # NULL
  <2> DEFINE b == Blocks({}, r, size, size, 16)
  <2>1. Succeeds(free, r, size) /\ f = g /\ gone = {p}
    BY <1>1, <1>6 DEF FailsClean
  <2>2. /\ r.ptr \notin DOMAIN live /\ DOMAIN b = DOMAIN live \cup {r.ptr}
        /\ b[r.ptr] = [size |-> RoundUp(size, 16), asked |-> size, align |-> 16]
        /\ \A o \in DOMAIN live : b[o] = live[o]
        /\ ApartFrom(r.free, b)
    BY <2>1, AllocationKeepsApart
  <2>3. /\ DOMAIN c = (DOMAIN live \ {p}) \cup {r.ptr}
        /\ \A o \in DOMAIN c : c[o] = b[o]
    BY <1>6, <2>1, <2>2 DEF Blocks, c
  <2> HIDE DEF b
  <2>4. /\ g.sane /\ Orderly(g.free) /\ ApartFrom(g.free, c)
        /\ \A x \in Int : FreeAt(g.free, x) <=> FreeAt(r.free, x) \/ Covers(Held(live, p), x)
    <3>1. p \in DOMAIN b /\ b[p].size = live[p].size /\ DOMAIN c = DOMAIN b \ {p}
      BY <2>2, <2>3
    <3>2. Orderly(r.free)
      BY <2>1 DEF Succeeds, Issues
    <3>3. Held(b, p) = Held(live, p)
      BY <3>1 DEF Held
    <3> QED
      BY <2>2, <2>3, <3>1, <3>2, <3>3, FreeKeepsApart DEF g
  <2>5. free' = g.free /\ live' = c /\ last' = [call |-> "realloc", at |-> r.ptr]
    BY <1>2, <1>4, <2>1, <2>4 DEF Return
  <2>6. size <= RoundUp(size, 16) /\ RoundUp(size, 16) \in Nat /\ live[p].size \in Nat
    BY RoundUpIs, BlockIs DEF IInv
  <2>7. /\ live'[r.ptr].size = RoundUp(size, 16) /\ live'[r.ptr].asked = size
        /\ live'[r.ptr].align = 16
    BY <2>2, <2>3, <2>5
  <2>8. Spills(free, r, size) /\ Given(r, size) = Held(live', r.ptr)
    BY <2>1, <2>7 DEF Succeeds, Issues, Given, Held
  <2>9. Moves(p, r.ptr, r, size)
    BY <1>2, <2>2, <2>3, <2>4, <2>5, <2>6, <2>7, <2>8 DEF Moves, IInv
  <2> QED
    BY <2>9
<1> QED
  BY <1>5, <1>6

\* What any step does.
LEMMA NextEffect ==
  ASSUME IInv, Next
  PROVE  \/ Aborts \/ Rejects("malloc") \/ Rejects("realloc")
         \/ \E r, size, asked, align : Grants(r, size, asked, align)
         \/ \E p \in DOMAIN live :
              Frees(p) \/ Keeps(p) \/ \E q, r, size : Moves(p, q, r, size)
<1>1. \A size \in Sizes : size \in Nat
  BY SizesAssumption, WordAssumption
<1> QED
  BY <1>1, AllocationEffect, FreeEffect, InPlaceEffect, MoveEffect DEF Next

\* What a call that gives a chunk does to the others: nothing.
LEMMA GrantEffect ==
  ASSUME IInv, NEW r, NEW size, NEW asked, NEW align, Grants(r, size, asked, align)
  PROVE  /\ IInv' /\ r.ptr \notin DOMAIN live /\ DOMAIN live' = DOMAIN live \cup {r.ptr}
         /\ live'[r.ptr] = [size |-> RoundUp(size, 16), asked |-> asked, align |-> align]
         /\ \A p \in DOMAIN live : live'[p] = live[p]
<1> DEFINE b == Blocks({}, r, size, asked, align)
<1>1. size \in Nat /\ asked \in Nat /\ align \in Nat /\ Succeeds(free, r, size)
  BY DEF Grants
<1>2. /\ r.ptr \notin DOMAIN live /\ DOMAIN b = DOMAIN live \cup {r.ptr}
      /\ b[r.ptr] = [size |-> RoundUp(size, 16), asked |-> asked, align |-> align]
      /\ \A p \in DOMAIN live : b[p] = live[p]
      /\ ApartFrom(r.free, b)
  BY <1>1, AllocationKeepsApart
<1>3. free' = r.free /\ live' = b
  BY DEF Grants
<1> HIDE DEF b
<1>4. IInv'
  BY <1>1, <1>2, <1>3 DEF Succeeds, Issues, IInv
<1> QED
  BY <1>2, <1>3, <1>4

\* The pool is one chunk to begin with.
LEMMA InitIInv == Init => IInv
<1> SUFFICES ASSUME Init PROVE IInv
  OBVIOUS
<1>1. free = <<Space>> /\ DOMAIN live = {}
  BY DEF Init
<1>2. Space \in Proper
  BY PoolAssumption DEF Space, Proper, Chunk, End, Header
<1>3. Orderly(free)
  BY <1>1, <1>2 DEF Orderly
<1> QED
  BY <1>1, <1>3 DEF IInv, ApartFrom

\* Every call keeps free and issued chunks in order and apart.
LEMMA NextIInv == IInv /\ [Next]_vars => IInv'
<1> SUFFICES ASSUME IInv, [Next]_vars PROVE IInv'
  OBVIOUS
<1>1. CASE UNCHANGED vars
  BY <1>1 DEF vars, IInv
<1>2. ASSUME NEW call, Rejects(call) PROVE IInv'
  <2>1. /\ free' = free /\ DOMAIN live' = DOMAIN live
        /\ \A p \in DOMAIN live : live'[p] = live[p] /\ Held(live', p) = Held(live, p)
    BY <1>2 DEF Rejects, Held
  <2> QED
    BY <2>1 DEF IInv, ApartFrom
<1>3. ASSUME NEW r, NEW size, NEW asked, NEW align, Grants(r, size, asked, align) PROVE IInv'
  BY <1>3, GrantEffect
<1>4. CASE Aborts
  BY <1>4 DEF Aborts, IInv
<1>5. CASE Next
  BY <1>2, <1>3, <1>4, <1>5, NextEffect DEF Frees, Keeps, Moves
<1> QED
  BY <1>1, <1>5

----------------------------------------------------------------------------
\* What follows for the callers.

\* The free list stays well formed and in address order ("Ordering by address
\* allows coalescing", malloc.c:7), for any pool and any calls.
THEOREM List_Sound == Spec => []ListSound
<1>1. IInv => ListSound
  <2> SUFFICES ASSUME IInv PROVE ListSound
    OBVIOUS
  <2>1. /\ free \in Seq(Proper) /\ ListInOrder
        /\ \A i \in DOMAIN free : free[i] \in Proper
    BY DEF IInv, Orderly, ListInOrder
  <2>2. /\ free \in Seq(Chunk)
        /\ \A i \in DOMAIN free : free[i].addr % 16 = 0 /\ free[i].size % 16 = 0
    BY <2>1, ProperIs DEF Proper
  <2>3. \A p \in DOMAIN live :
          /\ live[p] \in [size : Nat, asked : Nat, align : Nat] /\ live[p].size % 16 = 0
    BY ProperIs DEF IInv, ApartFrom, Held
  <2> QED
    BY <2>1, <2>2, <2>3 DEF ListSound, TypeOK
<1> QED
  BY <1>1, InitIInv, NextIInv, PTL DEF Spec

\* Chunks apart in their headers are apart in their payloads.
LEMMA IInvIssuedApart == IInv => IssuedApart
<1> SUFFICES ASSUME IInv, NEW p \in DOMAIN live
             PROVE  LET h == HeaderOf(p)
                        end == p + live[p].size
                    IN  /\ Pool - Header <= h /\ end <= Pool + PoolSize
                        /\ \A i \in DOMAIN free : End(free[i]) <= h \/ end <= free[i].addr
                        /\ \A q \in DOMAIN live \ {p} :
                             q + live[q].size <= h \/ end <= HeaderOf(q)
  BY DEF IssuedApart
<1>1. /\ p \in Nat /\ Pool <= p /\ p + live[p].size <= Pool + PoolSize
      /\ \A q \in DOMAIN live \ {p} : q + live[q].size <= p - 16 \/ p + live[p].size <= q - 16
  BY BlockIs DEF IInv
<1>2. ClearOf(free, Held(live, p)) /\ live[p].size \in Nat
  BY DEF IInv, ApartFrom
<1>3. Held(live, p).addr = p - 16 /\ End(Held(live, p)) = p + live[p].size
  BY <1>1, <1>2 DEF Held, HeaderOf, End, Header
<1>4. \A i \in DOMAIN free : End(free[i]) <= p - 16 \/ p + live[p].size <= free[i].addr
  BY <1>2, <1>3 DEF ClearOf, Clear
<1> QED
  BY <1>1, <1>4, PoolAssumption DEF HeaderOf, Header

\* What callers hold lies in the pool and apart, and is as large and as aligned as
\* they asked (malloc.c:4), if no size that they ask for wraps around.
THEOREM Blocks_Sound ==
  ASSUME RequestsFit
  PROVE  Spec => []BlocksSound
<1>1. Init => AsAsked
  BY DEF Init, AsAsked
<1>2. IInv /\ AsAsked /\ [Next]_vars => AsAsked'
  <2> SUFFICES ASSUME IInv, AsAsked, [Next]_vars PROVE AsAsked'
    OBVIOUS
  <2>0. IInv'
    BY NextIInv
  <2>1. CASE UNCHANGED vars \/ Aborts
    BY <2>1 DEF vars, Aborts, AsAsked
  <2>2. ASSUME NEW call, Rejects(call) PROVE AsAsked'
    BY <2>2 DEF Rejects, AsAsked
  <2>3. ASSUME NEW r, NEW size, NEW asked, NEW align, Grants(r, size, asked, align)
        PROVE  AsAsked'
    <3>1. /\ size \in Nat /\ asked \in Nat /\ align \in Nat /\ Succeeds(free, r, size)
          /\ asked <= RoundUp(size, 16) /\ r.ptr % align = 0
      BY <2>3 DEF Grants
    <3>2. /\ DOMAIN live' = DOMAIN live \cup {r.ptr} /\ \A p \in DOMAIN live : live'[p] = live[p]
          /\ live'[r.ptr] = [size |-> RoundUp(size, 16), asked |-> asked, align |-> align]
      BY <2>3, GrantEffect
    <3>3. r.ptr % 16 = 0
      BY <3>1, ProperIs DEF Succeeds, Issues, Given, HeaderOf, Header
    <3>4. /\ live'[r.ptr].asked <= live'[r.ptr].size
          /\ r.ptr % live'[r.ptr].align = 0 /\ r.ptr % 16 = 0
      BY <3>1, <3>2, <3>3
    <3> QED
      BY <3>2, <3>4 DEF AsAsked
  <2>4. ASSUME NEW p \in DOMAIN live, Frees(p) PROVE AsAsked'
    BY <2>4 DEF Frees, AsAsked
  <2>5. ASSUME NEW p \in DOMAIN live, Keeps(p) PROVE AsAsked'
    <3>1. p % 16 = 0
      BY BlockIs DEF IInv
    <3> QED
      BY <2>5, <3>1 DEF Keeps, AsAsked
  <2>6. ASSUME NEW p \in DOMAIN live, NEW q, NEW r, NEW size, Moves(p, q, r, size)
        PROVE  AsAsked'
    <3>1. ApartFrom(free', live') /\ q \in DOMAIN live'
      BY <2>0, <2>6 DEF Moves, IInv
    <3>2. q % 16 = 0
      BY <3>1, BlockIs
    <3> QED
      BY <2>6, <3>2 DEF Moves, AsAsked
  <2> QED
    BY <2>1, <2>2, <2>3, <2>4, <2>5, <2>6, NextEffect
<1>3. IInv /\ AsAsked => BlocksSound
  BY IInvIssuedApart DEF BlocksSound
<1> QED
  BY <1>1, <1>2, <1>3, InitIInv, NextIInv, PTL DEF Spec

\* None of the allocator's assertions fails, if no size that callers ask for wraps
\* around.
THEOREM No_AssertionFails ==
  ASSUME RequestsFit
  PROVE  Spec => []NoAssertionFails
<1>1. Init => NoAssertionFails
  BY DEF Init, NoAssertionFails
<1>2. IInv /\ NoAssertionFails /\ [Next]_vars => NoAssertionFails'
  <2> SUFFICES ASSUME IInv, NoAssertionFails, [Next]_vars PROVE NoAssertionFails'
    OBVIOUS
  <2>1. CASE UNCHANGED vars
    BY <2>1 DEF vars, NoAssertionFails
  <2>2. CASE Next
    <3>1. last'.call \in {"malloc", "realloc", "free"}
      <4>1. ASSUME NEW call, Rejects(call) PROVE last'.call = call
        BY <4>1 DEF Rejects
      <4>2. ASSUME NEW r, NEW size, NEW asked, NEW align, Grants(r, size, asked, align)
            PROVE  last'.call = "malloc"
        BY <4>2 DEF Grants
      <4>3. ASSUME NEW p, Frees(p) PROVE last'.call = "free"
        BY <4>3 DEF Frees
      <4>4. ASSUME NEW p, Keeps(p) PROVE last'.call = "realloc"
        BY <4>4 DEF Keeps
      <4>5. ASSUME NEW p, NEW q, NEW r, NEW size, Moves(p, q, r, size) PROVE last'.call = "realloc"
        BY <4>5 DEF Moves
      <4> QED
        BY <2>2, <4>1, <4>2, <4>3, <4>4, <4>5, NextEffect DEF Aborts
    <3> QED
      BY <3>1 DEF NoAssertionFails
  <2> QED
    BY <2>1, <2>2
<1> QED
  BY <1>1, <1>2, InitIInv, NextIInv, PTL DEF Spec

\* To its callers it is an Allocator: step by step, what one call does to the free
\* list and the headers is what some call of an allocator does to the blocks.
THEOREM Implements_Allocator ==
  ASSUME RequestsFit
  PROVE  Spec => ImplementsAllocator
<1> DEFINE blocks == [p \in DOMAIN live |-> live[p].size]
<1>1. Init => A!Init
  BY DEF Init, A!Init
<1>2. IInv /\ [Next]_vars => [A!Next]_(A!vars)
  <2> SUFFICES ASSUME IInv, [Next]_vars PROVE [A!Next]_(A!vars)
    OBVIOUS
  <2>0. IInv'
    BY NextIInv
  <2>1. CASE UNCHANGED vars
    BY <2>1 DEF vars, A!vars
  <2>2. A!WellPlaced(blocks')
    <3> SUFFICES ASSUME NEW p \in DOMAIN live'
                 PROVE  /\ Pool <= p /\ p + live'[p].size <= Pool + PoolSize
                        /\ \A q \in DOMAIN live' \ {p} :
                             A!Apart(p, live'[p].size, q, live'[q].size)
      BY DEF A!WellPlaced
    <3>1. ApartFrom(free', live')
      BY <2>0 DEF IInv
    <3>2. \A q \in DOMAIN live' : q \in Nat /\ live'[q].size \in Nat
      BY <3>1, BlockIs
    <3>3. /\ Pool <= p /\ p + live'[p].size <= Pool + PoolSize
          /\ \A q \in DOMAIN live' \ {p} :
               q + live'[q].size <= p - 16 \/ p + live'[p].size <= q - 16
      BY <3>1, BlockIs
    <3> QED
      BY <3>2, <3>3 DEF A!Apart
  <2>3. ASSUME NEW call \in {"malloc", "realloc"}, Rejects(call) PROVE A!Next
    <3>1. blocks' = blocks
      BY <2>3 DEF Rejects
    <3>2. A!Fail(call)
      BY <2>3, <3>1 DEF Rejects, A!Fail
    <3> QED
      BY <3>2 DEF A!Next
  <2>4. ASSUME NEW r, NEW size, NEW asked, NEW align, Grants(r, size, asked, align)
        PROVE  A!Next
    <3>1. /\ r.ptr \notin DOMAIN live /\ DOMAIN live' = DOMAIN live \cup {r.ptr}
          /\ \A p \in DOMAIN live : live'[p] = live[p]
          /\ last' = [call |-> "malloc", at |-> r.ptr]
      BY <2>4, GrantEffect DEF Grants
    <3>2. A!Allocate(r.ptr) /\ r.ptr \in DOMAIN blocks'
      BY <2>2, <3>1 DEF A!Allocate, A!Keeps
    <3> QED
      BY <3>2 DEF A!Next
  <2>5. ASSUME NEW p \in DOMAIN live, Frees(p) PROVE A!Next
    <3>1. A!Release(p) /\ p \in DOMAIN blocks
      BY <2>5 DEF Frees, A!Release, A!Keeps
    <3> QED
      BY <3>1 DEF A!Next
  <2>6. ASSUME NEW p \in DOMAIN live, Keeps(p) PROVE A!Next
    <3>1. live[p].size \in Nat
      BY BlockIs DEF IInv
    <3>2. /\ blocks'[p] = blocks[p] /\ blocks[p] \in Nat
          /\ p \in DOMAIN blocks /\ p \in DOMAIN blocks'
      BY <2>6, <3>1 DEF Keeps
    <3>3. /\ last' = [call |-> "realloc", at |-> p]
          /\ DOMAIN blocks' = (DOMAIN blocks \ {p}) \cup {p}
          /\ A!Keeps(blocks, blocks', DOMAIN blocks \ {p})
      BY <2>6 DEF Keeps, A!Keeps
    <3> HIDE DEF blocks
    <3>4. A!Resize(p, p) /\ p \in DOMAIN blocks /\ p \in DOMAIN blocks'
      <4>1. blocks'[p] >= blocks[p]
        BY <3>2
      <4> QED
        BY <2>2, <3>2, <3>3, <4>1 DEF A!Resize, blocks
    <3> QED
      BY <3>4 DEF A!Next, blocks
  <2>7. ASSUME NEW p \in DOMAIN live, NEW q, NEW r, NEW size, Moves(p, q, r, size) PROVE A!Next
    <3>1. A!Resize(p, q) /\ p \in DOMAIN blocks /\ q \in DOMAIN blocks'
      BY <2>2, <2>7 DEF Moves, A!Resize, A!Keeps
    <3> QED
      BY <3>1 DEF A!Next
  <2> QED
    BY <2>1, <2>3, <2>4, <2>5, <2>6, <2>7, NextEffect DEF Aborts
<1> QED
  BY <1>1, <1>2, InitIInv, NextIInv, PTL DEF Spec, ImplementsAllocator, A!Spec

----------------------------------------------------------------------------
\* The bytes that are in no chunk.

\* The byte at x is in a chunk, free or issued.
IssuedAt(blocks, x) == \E p \in DOMAIN blocks : Covers(Held(blocks, p), x)
Taken(list, blocks, x) == FreeAt(list, x) \/ IssuedAt(blocks, x)

\* A step loses the k bytes at `at' and no others.
Loses(at, k) ==
  \A x \in Int :
    LET spilt == x \in at .. at + k - 1
    IN  /\ Taken(free, live, x) <=> Taken(free', live', x) \/ spilt
        /\ ~(spilt /\ Taken(free', live', x))

\* Lost, byte by byte.
LEMMA LostIs ==
  ASSUME NEW list, Orderly(list), NEW blocks, ApartFrom(list, blocks), NEW x
  PROVE  /\ (\E c \in Range(list) : x \in c.addr .. End(c) - 1)
              <=> x \in Int /\ FreeAt(list, x)
         /\ (\E p \in DOMAIN blocks : x \in HeaderOf(p) .. p + blocks[p].size - 1)
              <=> x \in Int /\ IssuedAt(blocks, x)
<1>1. ASSUME NEW i \in DOMAIN list
      PROVE  x \in list[i].addr .. End(list[i]) - 1 <=> x \in Int /\ Covers(list[i], x)
  <2>1. list[i].addr \in Nat /\ End(list[i]) \in Nat
    BY ProperIs DEF Orderly
  <2> QED
    BY <2>1 DEF Covers
<1>2. (\E c \in Range(list) : x \in c.addr .. End(c) - 1) <=> x \in Int /\ FreeAt(list, x)
  BY <1>1 DEF Range, FreeAt
<1>3. ASSUME NEW p \in DOMAIN blocks
      PROVE  x \in HeaderOf(p) .. p + blocks[p].size - 1
               <=> x \in Int /\ Covers(Held(blocks, p), x)
  <2>1. p \in Nat /\ blocks[p].size \in Nat
    BY BlockIs
  <2> QED
    BY <2>1 DEF Covers, Held, HeaderOf, End, Header
<1> QED
  BY <1>2, <1>3 DEF IssuedAt

\* No byte is both free and issued.
LEMMA FreeNotIssued ==
  ASSUME IInv, NEW x \in Int
  PROVE  ~(FreeAt(free, x) /\ IssuedAt(live, x))
  BY ClearBytes DEF IInv, Orderly, ApartFrom, IssuedAt

\* A chunk that is given and, when realloc() moves, one that is put back.
LEMMA SpillsLost ==
  ASSUME IInv, NEW r, NEW size, Spills(free, r, size),
         NEW gone, gone \subseteq DOMAIN live, NEW q, DOMAIN live' = (DOMAIN live \ gone) \cup {q},
         Held(live', q) = Given(r, size),
         q \notin DOMAIN live, \A p \in DOMAIN live \ gone : live'[p] = live[p],
         \A x \in Int : FreeAt(free', x) <=>
           FreeAt(r.free, x) \/ \E p \in gone : Covers(Held(live, p), x)
  PROVE  \E at \in Int, k \in {0, Header} : Loses(at, k)
<1>1. PICK at \in Int, k \in {0, Header} : \A x \in Int :
        LET spilt == x \in at .. at + k - 1
            used == FreeAt(r.free, x) \/ Covers(Given(r, size), x)
        IN  (FreeAt(free, x) <=> used \/ spilt) /\ ~(spilt /\ used)
  BY DEF Spills
<1>2. ASSUME NEW x \in Int
      PROVE  LET spilt == x \in at .. at + k - 1
             IN  /\ Taken(free, live, x) <=> Taken(free', live', x) \/ spilt
                 /\ ~(spilt /\ Taken(free', live', x))
  <2> DEFINE spilt == x \in at .. at + k - 1
             given == Covers(Given(r, size), x)
             back == \E p \in gone : Covers(Held(live, p), x)
             others == \E p \in DOMAIN live \ gone : Covers(Held(live, p), x)
  <2>1. (FreeAt(free, x) <=> FreeAt(r.free, x) \/ given \/ spilt)
        /\ ~(spilt /\ (FreeAt(r.free, x) \/ given))
    BY <1>1
  <2>2. IssuedAt(live, x) <=> back \/ others
    BY DEF IssuedAt
  <2>3. \A p \in DOMAIN live \ gone : Held(live', p) = Held(live, p)
    BY DEF Held
  <2>4. IssuedAt(live', x) <=> given \/ others
    BY <2>3 DEF IssuedAt
  <2>5. ~(FreeAt(free, x) /\ IssuedAt(live, x))
    BY FreeNotIssued
  <2>6. FreeAt(free', x) <=> FreeAt(r.free, x) \/ back
    OBVIOUS
  <2> HIDE DEF spilt, given, back, others
  <2>7. /\ Taken(free, live, x) <=> Taken(free', live', x) \/ spilt
        /\ ~(spilt /\ Taken(free', live', x))
    BY <2>1, <2>2, <2>4, <2>5, <2>6 DEF Taken
  <2> QED
    BY <2>7 DEF spilt
<1> QED
  BY <1>2 DEF Loses

\* No step loses more than what is not worth carving off, and free() nothing.
LEMMA NextLoses ==
  ASSUME IInv, Next
  PROVE  \E at \in Int, k \in {0, Header} :
           Loses(at, k) /\ (last'.call = "free" => k = 0)
<1>0. ASSUME \A x \in Int : Taken(free', live', x) <=> Taken(free, live, x)
      PROVE  \E at \in Int, k \in {0, Header} : Loses(at, k) /\ k = 0
  BY <1>0 DEF Loses
<1>1. CASE Aborts
  BY <1>0, <1>1 DEF Aborts, Taken
<1>2. ASSUME NEW call, Rejects(call)
      PROVE  \A x \in Int : Taken(free', live', x) <=> Taken(free, live, x)
  <2>1. free' = free /\ DOMAIN live' = DOMAIN live
        /\ \A p \in DOMAIN live : Held(live', p) = Held(live, p)
    BY <1>2 DEF Rejects, Held
  <2> QED
    BY <2>1 DEF Taken, IssuedAt
<1>3. ASSUME NEW r, NEW size, NEW asked, NEW align, Grants(r, size, asked, align)
      PROVE  (\E at \in Int, k \in {0, Header} : Loses(at, k)) /\ last'.call = "malloc"
  <2>1. /\ r.ptr \notin DOMAIN live /\ DOMAIN live' = DOMAIN live \cup {r.ptr}
        /\ live'[r.ptr] = [size |-> RoundUp(size, 16), asked |-> asked, align |-> align]
        /\ \A p \in DOMAIN live : live'[p] = live[p]
    BY <1>3, GrantEffect
  <2>2. Spills(free, r, size) /\ free' = r.free /\ last'.call = "malloc"
    BY <1>3 DEF Grants, Succeeds, Issues
  <2>3. Held(live', r.ptr) = Given(r, size)
    BY <2>1 DEF Held, Given
  <2> DEFINE gone == {}
  <2>4. /\ gone \subseteq DOMAIN live /\ DOMAIN live' = (DOMAIN live \ gone) \cup {r.ptr}
        /\ \A p \in DOMAIN live \ gone : live'[p] = live[p]
        /\ \A x \in Int : FreeAt(free', x) <=>
             FreeAt(r.free, x) \/ \E p \in gone : Covers(Held(live, p), x)
    BY <2>1, <2>2
  <2> HIDE DEF gone
  <2> QED
    BY <2>1, <2>2, <2>3, <2>4, SpillsLost
<1>4. ASSUME NEW p \in DOMAIN live, Frees(p)
      PROVE  \A x \in Int : Taken(free', live', x) <=> Taken(free, live, x)
  <2> TAKE x \in Int
  <2>1. FreeAt(free', x) <=> FreeAt(free, x) \/ Covers(Held(live, p), x)
    BY <1>4 DEF Frees
  <2>2. DOMAIN live' = DOMAIN live \ {p} /\ \A q \in DOMAIN live' : Held(live', q) = Held(live, q)
    BY <1>4 DEF Frees, Held
  <2>3. IssuedAt(live, x) <=> IssuedAt(live', x) \/ Covers(Held(live, p), x)
    BY <2>2 DEF IssuedAt
  <2> QED
    BY <2>1, <2>3 DEF Taken
<1>5. ASSUME NEW p \in DOMAIN live, Keeps(p)
      PROVE  \A x \in Int : Taken(free', live', x) <=> Taken(free, live, x)
  <2>1. free' = free /\ DOMAIN live' = DOMAIN live
        /\ \A q \in DOMAIN live : Held(live', q) = Held(live, q)
    BY <1>5 DEF Keeps, Held
  <2> QED
    BY <2>1 DEF Taken, IssuedAt
<1>6. ASSUME NEW p \in DOMAIN live, NEW q, NEW r, NEW size, Moves(p, q, r, size)
      PROVE  (\E at \in Int, k \in {0, Header} : Loses(at, k)) /\ last'.call = "realloc"
  <2> DEFINE gone == {p}
  <2>1. /\ gone \subseteq DOMAIN live /\ DOMAIN live' = (DOMAIN live \ gone) \cup {q}
        /\ q \notin DOMAIN live /\ \A o \in DOMAIN live \ gone : live'[o] = live[o]
        /\ Spills(free, r, size) /\ Held(live', q) = Given(r, size)
        /\ \A x \in Int : FreeAt(free', x) <=>
             FreeAt(r.free, x) \/ \E o \in gone : Covers(Held(live, o), x)
        /\ last'.call = "realloc"
    BY <1>6 DEF Moves
  <2> HIDE DEF gone
  <2> QED
    BY <2>1, SpillsLost
<1> QED
  BY <1>0, <1>1, <1>2, <1>3, <1>4, <1>5, <1>6, NextEffect

\* Whatever the pool and the calls, sizes that wrap around among them: no call
\* loses more than the 16 bytes that are not worth carving off (malloc.c:192),
\* free() loses none, and what is lost is never seen again.
THEOREM Few_BytesLost == Spec => FewBytesLost
<1>1. ASSUME IInv, [Next]_vars
      PROVE  [/\ Lost \subseteq Lost' /\ Cardinality(Lost' \ Lost) \in {0, Header}
              /\ last'.call = "free" => Lost' = Lost]_vars
  <2> SUFFICES ASSUME Next
               PROVE  /\ Lost \subseteq Lost' /\ Cardinality(Lost' \ Lost) \in {0, Header}
                      /\ last'.call = "free" => Lost' = Lost
    BY <1>1
  <2>0. IInv'
    BY <1>1, NextIInv
  <2>1. PICK at \in Int, k \in {0, Header} :
          Loses(at, k) /\ (last'.call = "free" => k = 0)
    BY <1>1, NextLoses
  <2> DEFINE pool == Pool - Header .. Pool + PoolSize - 1
             spilt == at .. at + k - 1
  <2>2. \A x : x \in Lost <=> x \in pool /\ ~Taken(free, live, x)
    <3> SUFFICES ASSUME NEW x PROVE x \in Lost <=> x \in pool /\ ~Taken(free, live, x)
      OBVIOUS
    <3> DEFINE inFree == {c.addr .. End(c) - 1 : c \in Range(free)}
               inLive == {HeaderOf(p) .. p + live[p].size - 1 : p \in DOMAIN live}
    <3>1. x \in UNION inFree <=> \E c \in Range(free) : x \in c.addr .. End(c) - 1
      OBVIOUS
    <3>2. x \in UNION inLive <=> \E p \in DOMAIN live : x \in HeaderOf(p) .. p + live[p].size - 1
      OBVIOUS
    <3>3. Lost = pool \ UNION (inFree \cup inLive)
      BY DEF Lost
    <3>4. /\ (\E c \in Range(free) : x \in c.addr .. End(c) - 1) <=> x \in Int /\ FreeAt(free, x)
          /\ (\E p \in DOMAIN live : x \in HeaderOf(p) .. p + live[p].size - 1)
               <=> x \in Int /\ IssuedAt(live, x)
      BY <1>1, LostIs DEF IInv
    <3>5. x \in pool => x \in Int
      OBVIOUS
    <3> HIDE DEF pool, inFree, inLive
    <3> QED
      BY <3>4, <3>5, <3>1, <3>2, <3>3 DEF Taken
  <2>3. \A x : x \in Lost' <=> x \in pool /\ ~Taken(free', live', x)
    <3> SUFFICES ASSUME NEW x PROVE x \in Lost' <=> x \in pool /\ ~Taken(free', live', x)
      OBVIOUS
    <3> DEFINE inFree == {c.addr .. End(c) - 1 : c \in Range(free')}
               inLive == {HeaderOf(p) .. p + live'[p].size - 1 : p \in DOMAIN live'}
    <3>1. x \in UNION inFree <=> \E c \in Range(free') : x \in c.addr .. End(c) - 1
      OBVIOUS
    <3>2. x \in UNION inLive <=> \E p \in DOMAIN live' : x \in HeaderOf(p) .. p + live'[p].size - 1
      OBVIOUS
    <3>3. Lost' = pool \ UNION (inFree \cup inLive)
      BY DEF Lost
    <3>4. /\ (\E c \in Range(free') : x \in c.addr .. End(c) - 1) <=> x \in Int /\ FreeAt(free', x)
          /\ (\E p \in DOMAIN live' : x \in HeaderOf(p) .. p + live'[p].size - 1)
               <=> x \in Int /\ IssuedAt(live', x)
      BY <2>0, LostIs DEF IInv
    <3>5. x \in pool => x \in Int
      OBVIOUS
    <3> HIDE DEF pool, inFree, inLive
    <3> QED
      BY <3>4, <3>5, <3>1, <3>2, <3>3 DEF Taken
  <2>4. ASSUME NEW x \in spilt
        PROVE  x \in pool /\ Taken(free, live, x) /\ ~Taken(free', live', x)
    <3>1. x \in Int /\ Taken(free, live, x) /\ ~Taken(free', live', x)
      BY <2>1 DEF Loses
    <3>2. x \in pool
      <4>1. CASE FreeAt(free, x)
        <5>1. PICK i \in DOMAIN free : Covers(free[i], x)
          BY <4>1 DEF FreeAt
        <5>2. free[i] \in Proper
          BY <1>1 DEF IInv, Orderly
        <5> QED
          BY <3>1, <5>1, <5>2, ProperIs, PoolAssumption DEF Covers, Header
      <4>2. CASE IssuedAt(live, x)
        <5>1. PICK p \in DOMAIN live : Covers(Held(live, p), x)
          BY <4>2 DEF IssuedAt
        <5>2. Held(live, p) \in Proper
          BY <1>1 DEF IInv, ApartFrom
        <5> QED
          BY <3>1, <5>1, <5>2, ProperIs, PoolAssumption DEF Covers, Header
      <4> QED
        BY <3>1, <4>1, <4>2 DEF Taken
    <3> QED
      BY <3>1, <3>2
  <2>5. \A x \in pool : Taken(free, live, x) <=> Taken(free', live', x) \/ x \in spilt
    BY <2>1 DEF Loses
  <2> HIDE DEF pool, spilt
  <2>6. Lost \subseteq Lost' /\ Lost' \ Lost = spilt
    BY <2>2, <2>3, <2>4, <2>5
  <2>7. Cardinality(spilt) = k
    <3>1. at + k - 1 \in Int /\ k \in {0, 16}
      BY DEF Header
    <3> QED
      BY <3>1, FS_Interval DEF spilt
  <2>8. k = 0 => Lost' = Lost
    <3>1. k = 0 => spilt = {}
      BY DEF spilt
    <3> QED
      BY <2>6, <3>1
  <2> QED
    BY <2>1, <2>6, <2>7, <2>8
<1> QED
  BY <1>1, InitIInv, NextIInv, PTL DEF Spec, FewBytesLost
=============================================================================
