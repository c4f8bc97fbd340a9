----------------------------- MODULE Allocator -----------------------------
(***************************************************************************)
(* What a memory allocator promises its callers, whatever its policy: the  *)
(* blocks they hold lie inside the arena, apart from one another, and stay *)
(* where and as long as they are until their holder gives them up; a call  *)
(* that fails changes nothing.  PoolHeap is shown to implement it.         *)
(***************************************************************************)
EXTENDS Integers

CONSTANTS
  Low,    \* the lowest address a block may occupy
  High,   \* the address after the highest
  NULL    \* what a call that fails gives

VARIABLES
  blocks,  \* blocks[p]: how many bytes the caller that was given p may use
  last     \* the last call, and the block it gave or took

\* Blocks p and q, of m and n bytes, have no byte and not even their address
\* in common.
Apart(p, m, q, n) == p # q /\ (p + m <= q \/ q + n <= p)

WellPlaced(b) ==
  \A p \in DOMAIN b :
    /\ Low <= p /\ p + b[p] <= High
    /\ \A q \in DOMAIN b \ {p} : Apart(p, b[p], q, b[q])

Keeps(b, c, P) == \A p \in P : b[p] = c[p]

Init ==
  /\ DOMAIN blocks = {}
  /\ last = [call |-> "none", at |-> NULL]

Allocate(p) ==
  /\ p \notin DOMAIN blocks
  /\ last' = [call |-> "malloc", at |-> p]
  /\ DOMAIN blocks' = DOMAIN blocks \cup {p}
  /\ Keeps(blocks, blocks', DOMAIN blocks)
  /\ WellPlaced(blocks')

Release(p) ==
  /\ last' = [call |-> "free", at |-> p]
  /\ DOMAIN blocks' = DOMAIN blocks \ {p}
  /\ Keeps(blocks, blocks', DOMAIN blocks')

\* realloc() of p gives q: p itself, or a place that no other block has.
Resize(p, q) ==
  /\ last' = [call |-> "realloc", at |-> q]
  /\ DOMAIN blocks' = (DOMAIN blocks \ {p}) \cup {q}
  /\ Keeps(blocks, blocks', DOMAIN blocks \ {p})
  /\ blocks'[q] >= blocks[p]
  /\ WellPlaced(blocks')

Fail(call) ==
  /\ last' = [call |-> call, at |-> NULL]
  /\ UNCHANGED blocks

Next ==
  \/ \E p \in DOMAIN blocks' : Allocate(p)
  \/ \E p \in DOMAIN blocks : Release(p)
  \/ \E p \in DOMAIN blocks, q \in DOMAIN blocks' : Resize(p, q)
  \/ \E call \in {"malloc", "realloc"} : Fail(call)

vars == <<blocks, last>>

Spec == Init /\ [][Next]_vars
=============================================================================
