------------------------------ MODULE PoolHeap ------------------------------
(***************************************************************************)
(* The first-fit allocator of the heap segment (malloc.c, pool.c), called  *)
(* by one thread at a time: HeapMutex is about what several do.            *)
(*                                                                         *)
(* A chunk is a 16-byte header and the bytes after it.  Addresses are in   *)
(* bytes.  The free list is the sequence of chunks from head.next up to    *)
(* &tail.  A list_search() is SelectInSeq: 0 stands for &tail.             *)
(***************************************************************************)
EXTENDS Integers, SequencesExt

CONSTANTS
  Pool,        \* the address of pool[]
  PoolSize,    \* POOL_SIZE
  PageSize,    \* PAGE_SIZE
  Word,        \* 2 to the width of size_t, where sizes wrap around
  Sizes,       \* the sizes that callers ask for
  Alignments   \* and the alignments

Header == 16   \* sizeof (struct free_chunk) = sizeof (struct meta_info)
NULL == 0

ASSUME PoolAssumption ==
  /\ Pool \in Nat /\ Pool % Header = 0 /\ Pool > Header
  /\ PoolSize \in Nat \ {0} /\ PoolSize % Header = 0
ASSUME WordAssumption == Word \in Nat /\ Word % Header = 0 /\ Word > Pool + PoolSize
ASSUME SizesAssumption == Sizes \subseteq 0 .. Word - 1
\* Powers of two, as posix_memalign(3) wants them; that is, no more than half of
\* the address space, and the pool is in the other half.
ASSUME AlignmentsAssumption ==
  \A a \in Alignments \cup {PageSize} :
     /\ a \in Nat \ {0} /\ a + Pool + PoolSize <= Word
     /\ IF a > Header THEN a % Header = 0 ELSE Header % a = 0

VARIABLES
  free,   \* the free list
  live,   \* live[p]: the chunk issued with its payload at p: the size in its
          \*   header, and the size and alignment its holder is entitled to
  last    \* the last call, and the chunk it gave (or NULL) or took

vars == <<free, live, last>>

\* pool.c: one chunk, `space', whose payload is pool[]; &tail comes after it.
Space == [addr |-> Pool - Header, size |-> PoolSize]
EndMark == [addr |-> Pool + PoolSize, size |-> 0]

Init ==
  /\ free = <<Space>>
  /\ live = [p \in {} |-> NULL]
  /\ last = [call |-> "none", at |-> NULL]

End(c) == c.addr + Header + c.size
HeaderOf(p) == p - Header
Addrs(list) == {list[i].addr : i \in DOMAIN list}

----------------------------------------------------------------------------
\* Plausible slips, each in the place of the operator named after it.

InsertAtBeginning(list, c) == <<c>> \o list       \* InsertInAddressOrder

RestWithoutHeader(c, n) ==                                        \* Rest
  [addr |-> c.addr + n, size |-> c.size - n - Header]

JoinedWithoutHeader(c, n) == [c EXCEPT !.size = @ + n]          \* Joined

JoinedWithBothHeaders(c, n) ==                                  \* Joined
  [c EXCEPT !.size = @ + 2 * Header + n]

----------------------------------------------------------------------------
RoundUp(n, a) == IF n % a = 0 THEN n ELSE a * (1 + n \div a)

InsertInAddressOrder(list, c) ==
  LET right == SelectInSeq(list, LAMBDA d : d.addr >= c.addr)
  IN  IF right = 0 THEN Append(list, c) ELSE InsertAt(list, right, c)

\* The assertions of print_state(): no chunk of the list starts in the n
\* bytes at `hole', an expected one is there, and each lies in the pool.
Sane(list, hole, n, expected) ==
  /\ \A c \in Range(Append(list, EndMark)) :
       /\ c.addr \notin hole .. hole + n - 1
       /\ c.size <= PoolSize
       /\ Pool - Header <= c.addr /\ c.addr <= Pool + PoolSize
  /\ expected \subseteq Addrs(list)

\* What is left of the free chunk c beyond its first n payload bytes.
Rest(c, n) == [addr |-> c.addr + Header + n, size |-> c.size - n - Header]

\* The result of a call on the free list: the payload address given to the
\* caller, the list it leaves, and whether its assertions hold.
Nothing(list) == [ptr |-> NULL, free |-> list, sane |-> TRUE]
Failed(list) == [ptr |-> NULL, free |-> list, sane |-> FALSE]

\* allocate_at(): the chunk leaves the list; what it does not need goes back
\* to it, unless that is no more than a header.
AllocateAt(list, i, size) ==
  LET c == list[i]
      n == RoundUp(size, 16)
      others == RemoveAt(list, i)
      carve == c.size - n > Header
      after == IF carve THEN InsertInAddressOrder(others, Rest(c, n)) ELSE others
  IN  [ptr |-> c.addr + Header,
       free |-> after,
       sane |-> Sane(after, c.addr, n + Header,
                     IF carve THEN {Rest(c, n).addr} ELSE {})]

Malloced(list, size) ==
  LET i == SelectInSeq(list, LAMBDA c : size <= c.size)
  IN  IF i = 0 THEN Nothing(list) ELSE AllocateAt(list, i, size)

AlignedPayload(c, align) == RoundUp(c.addr + Header, align)

\* posix_memalign(): first fit again, counting the bytes up to the alignment
\* (a sum that wraps around); a chunk that does not start aligned is split
\* and its second part is the one to issue.
Memaligned(list, alignment, size) ==
  LET align == IF alignment < 16 THEN 16 ELSE alignment
      Padding(c) == AlignedPayload(c, align) - (c.addr + Header)
      i == SelectInSeq(list, LAMBDA c : (Padding(c) + size) % Word <= c.size)
      pad == Padding(list[i])
      first == [list[i] EXCEPT !.size = pad - Header]
      second == [addr |-> list[i].addr + pad, size |-> list[i].size - pad]
  IN  IF i = 0 THEN Nothing(list)
      ELSE IF list[i].size < size \/ pad \in 1 .. Header - 1 THEN Failed(list)
      ELSE IF pad = 0 THEN AllocateAt(list, i, size)
      ELSE AllocateAt(InsertInAddressOrder(ReplaceAt(list, i, first), second),
                      i + 1, size)

\* free() resets the header of the chunk before it looks for a neighbour: by
\* then the size field of a meta_info, at offset 0, overlays the `next' of a
\* free_chunk, which is NULL.
MetaSizeOnceReset == 0

Neighbour(c, h) == End(c) = h \/ h + MetaSizeOnceReset = c.addr

Joined(c, n) == [c EXCEPT !.size = @ + Header + n]

\* free() of the chunk of n bytes whose header is at h.
Freed(list, h, n) ==
  LET i == SelectInSeq(list, LAMBDA c : Neighbour(c, h))
      chunk == [addr |-> h, size |-> n]
      following == i # 0 /\ End(chunk) = list[i].addr
      preceding == i # 0 /\ ~following
      after ==
        IF following
        THEN InsertInAddressOrder(RemoveAt(list, i), Joined(chunk, list[i].size))
        ELSE IF preceding
        THEN ReplaceAt(list, i, Joined(list[i], n))
        ELSE InsertInAddressOrder(list, chunk)
      expected == IF preceding THEN list[i].addr ELSE h
  IN  [ptr |-> NULL, free |-> after, sane |-> Sane(after, h, 0, {expected})]

----------------------------------------------------------------------------
Running == last.call # "abort"

\* A call that came to its end, or stopped at an assertion.
Return(call, at, r, blocks) ==
  /\ free' = IF r.sane THEN r.free ELSE free
  /\ live' = IF r.sane THEN blocks ELSE live
  /\ last' = [call |-> IF r.sane THEN call ELSE "abort", at |-> at]

\* The blocks of `live' without those in gone and, if r gave one, with r's.
Blocks(gone, r, size, asked, align) ==
  [p \in (DOMAIN live \ gone) \cup ({r.ptr} \ {NULL}) |->
     IF p = r.ptr THEN [size |-> RoundUp(size, 16), asked |-> asked, align |-> align]
                  ELSE live[p]]

\* A plausible slip: realloc() frees the old block even if it got no new one.
ReallocLosesOld(p, size) ==
  /\ Running
  /\ live[p].size < size
  /\ LET r == Malloced(free, size)
         f == Freed(r.free, HeaderOf(p), live[p].size)
     IN  Return("realloc", r.ptr, [f EXCEPT !.sane = r.sane /\ @],
                Blocks({p}, r, size, size, 16))

Malloc(size) ==
  LET r == Malloced(free, size)
  IN  /\ Running
      /\ Return("malloc", r.ptr, r, Blocks({}, r, size, size, 16))

Calloc(size, nmemb) ==
  LET n == (size * nmemb) % Word
      r == Malloced(free, n)
  IN  /\ Running
      /\ Return("malloc", r.ptr, r, Blocks({}, r, n, size * nmemb, 16))

\* posix_memalign(), and through it memalign(), aligned_alloc() and valloc().
PosixMemalign(alignment, size) ==
  LET r == Memaligned(free, alignment, size)
  IN  /\ Running
      /\ Return("malloc", r.ptr, r, Blocks({}, r, size, size, alignment))

Pvalloc(size) ==
  LET n == RoundUp(size, PageSize) % Word
      r == Memaligned(free, PageSize, n)
  IN  /\ Running
      /\ Return("malloc", r.ptr, r, Blocks({}, r, n, size, PageSize))

\* free(NULL) returns at once and is no step.
Free(p) ==
  LET r == Freed(free, HeaderOf(p), live[p].size)
  IN  /\ Running
      /\ Return("free", p, r, Blocks({p}, r, 0, 0, 0))

\* realloc(NULL, size) is malloc(size).  A block that is large enough stays
\* as it is; otherwise a new one is taken, and then the old one freed.
ReallocInPlace(p, size) ==
  /\ Running
  /\ live[p].size >= size
  /\ live' = [live EXCEPT ![p].asked = size, ![p].align = 16]
  /\ last' = [call |-> "realloc", at |-> p]
  /\ UNCHANGED free

ReallocMoves(p, size) ==
  /\ Running
  /\ live[p].size < size
  /\ LET r == Malloced(free, size)
         f == IF r.ptr = NULL THEN r ELSE Freed(r.free, HeaderOf(p), live[p].size)
         gone == IF r.ptr = NULL THEN {} ELSE {p}
     IN  Return("realloc", r.ptr, [f EXCEPT !.sane = r.sane /\ @],
                Blocks(gone, r, size, size, 16))

Allocation ==
  \/ \E size \in Sizes : Malloc(size) \/ Pvalloc(size)
  \/ \E size, nmemb \in Sizes : Calloc(size, nmemb)
  \/ \E size \in Sizes, a \in Alignments \cup {PageSize} : PosixMemalign(a, size)

Next ==
  \/ Allocation
  \/ \E p \in DOMAIN live : Free(p)
  \/ \E p \in DOMAIN live, size \in Sizes :
       ReallocInPlace(p, size) \/ ReallocMoves(p, size)

Spec == Init /\ [][Next]_vars

----------------------------------------------------------------------------
Chunk == [addr : Nat, size : Nat]

TypeOK ==
  /\ free \in Seq(Chunk)
  /\ \A i \in DOMAIN free : free[i].addr % 16 = 0 /\ free[i].size % 16 = 0
  /\ \A p \in DOMAIN live :
       /\ live[p] \in [size : Nat, asked : Nat, align : Nat]
       /\ live[p].size % 16 = 0

\* The free list stays in address order and its chunks apart from one another
\* ("Ordering by address allows coalescing", malloc.c:7), although chunks
\* are carved, split, joined and put back in every order.
ListInOrder ==
  \A i, j \in DOMAIN free : i < j => End(free[i]) <= free[j].addr

\* The allocator's data are well formed and its list is in order.
ListSound == TypeOK /\ ListInOrder

\* Every issued chunk, header included, lies in the pool and apart from every
\* other and from everything on the free list.
IssuedApart ==
  \A p \in DOMAIN live :
    LET h == HeaderOf(p)
        end == p + live[p].size
    IN  /\ Pool - Header <= h /\ end <= Pool + PoolSize
        /\ \A i \in DOMAIN free : End(free[i]) <= h \/ end <= free[i].addr
        /\ \A q \in DOMAIN live \ {p} :
             q + live[q].size <= h \/ end <= HeaderOf(q)

\* A caller gets at least the bytes it asked for, at the alignment it asked
\* for and at a multiple of 16 in any case (malloc.c:4).
AsAsked ==
  \A p \in DOMAIN live :
    /\ live[p].asked <= live[p].size
    /\ p % live[p].align = 0 /\ p % 16 = 0

\* What callers hold: blocks of their own, of the size they asked for.
BlocksSound == IssuedApart /\ AsAsked

\* Bytes of the pool that are in no chunk any more, free or issued.
Lost ==
  LET spans == {c.addr .. End(c) - 1 : c \in Range(free)}
                 \cup {HeaderOf(p) .. p + live[p].size - 1 : p \in DOMAIN live}
  IN  (Pool - Header .. Pool + PoolSize - 1) \ UNION spans

\* No call loses more than the 16 bytes it is not worth carving off
\* (malloc.c:192), free() loses none, and what is lost is never seen again.
FewBytesLost ==
  [][/\ Lost \subseteq Lost' /\ Cardinality(Lost' \ Lost) \in {0, Header}
     /\ last'.call = "free" => Lost' = Lost]_vars

\* No assertion of the allocator fails: not those of print_state() on the
\* list, nor those of posix_memalign() on the chunk it splits.
NoAssertionFails == last.call # "abort"

\* To its callers it is an allocator: they never share a byte, and what one
\* holds no call for another takes away or shortens; realloc() keeps the old
\* block until it has a new one.
A == INSTANCE Allocator WITH
       Low <- Pool, High <- Pool + PoolSize,
       blocks <- [p \in DOMAIN live |-> live[p].size]
ImplementsAllocator == A!Spec
=============================================================================
