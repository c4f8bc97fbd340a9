----------------------------- MODULE HeapMutex -----------------------------
(***************************************************************************)
(* The lock around the heap-segment allocator (malloc.c), as mutex.c, the  *)
(* distilled model of it in the same directory, runs it: every thread      *)
(* enters and leaves the critical section a few times and returns.         *)
(*                                                                         *)
(*   enter_cr:  int oldval = 0;  while (CAS(&locked, oldval, 1));          *)
(*   exit_cr:   locked = 0;                                                *)
(*                                                                         *)
(* The compare-and-exchange is the strong one: it is true when it stored   *)
(* the new value, and when it is false it has put what it found in oldval. *)
(***************************************************************************)
EXTENDS Naturals

CONSTANTS
  Threads,   \* the threads that use the heap
  Rounds     \* how often each enters the critical section: twice in mutex.c

ASSUME RoundsAssumption == Rounds \in Nat

VARIABLES
  locked,    \* the _Atomic(int)
  oldval,    \* oldval[t]: the local variable of enter_cr in thread t
  pc,        \* pc[t]: where thread t is
  left       \* left[t]: how many rounds thread t has left

vars == <<locked, oldval, pc, left>>

Init ==
  /\ locked = 0
  /\ oldval = [t \in Threads |-> 0]
  /\ pc = [t \in Threads |-> "outside"]
  /\ left = [t \in Threads |-> Rounds]

----------------------------------------------------------------------------
\* Plausible slips, for showing that the properties can fail.
ExitCrStale(t) ==
  /\ pc[t] = "inside"
  /\ locked' = oldval[t]
  /\ pc' = [pc EXCEPT ![t] = "outside"]
  /\ UNCHANGED <<oldval, left>>

CasStoresZero(t) ==
  /\ pc[t] = "entering"
  /\ locked = oldval[t]
  /\ locked' = 0
  /\ UNCHANGED <<oldval, pc, left>>

----------------------------------------------------------------------------
\* enter_cr() is called.
EnterCr(t) ==
  /\ pc[t] = "outside"
  /\ left[t] > 0
  /\ left' = [left EXCEPT ![t] = @ - 1]
  /\ oldval' = [oldval EXCEPT ![t] = 0]
  /\ pc' = [pc EXCEPT ![t] = "entering"]
  /\ UNCHANGED locked

\* The exchange takes place: the condition of the while is true, so the
\* thread tries again.
CasSucceeds(t) ==
  /\ pc[t] = "entering"
  /\ locked = oldval[t]
  /\ locked' = 1
  /\ UNCHANGED <<oldval, pc, left>>

\* The exchange does not take place: the loop ends and enter_cr() returns.
CasFails(t) ==
  /\ pc[t] = "entering"
  /\ locked # oldval[t]
  /\ oldval' = [oldval EXCEPT ![t] = locked]
  /\ pc' = [pc EXCEPT ![t] = "inside"]
  /\ UNCHANGED <<locked, left>>

ExitCr(t) ==
  /\ pc[t] = "inside"
  /\ locked' = 0
  /\ pc' = [pc EXCEPT ![t] = "outside"]
  /\ UNCHANGED <<oldval, left>>

Step(t) == EnterCr(t) \/ CasSucceeds(t) \/ CasFails(t) \/ ExitCr(t)

Next == \E t \in Threads : Step(t)

\* Every thread is scheduled again and again.
Spec == Init /\ [][Next]_vars
FairSpec == Spec /\ \A t \in Threads : WF_vars(Step(t))

----------------------------------------------------------------------------
TypeOK ==
  /\ locked \in {0, 1}
  /\ oldval \in [Threads -> {0, 1}]
  /\ pc \in [Threads -> {"outside", "entering", "inside"}]
  /\ left \in [Threads -> 0 .. Rounds]

\* The lock is never left set: when no thread is in enter_cr() or past it, it
\* is free, in whatever order the threads set and cleared it.  (A lock left
\* set by a thread that has gone would be taken for somebody else's.)
LockNotLeftHeld ==
  locked = 1 => \E t \in Threads : pc[t] # "outside"

\* No thread is kept out for ever: each gets through all its rounds, although
\* the exit of another can make its exchange succeed, and it loop, again.
AllGetThrough ==
  \A t \in Threads : <>[](pc[t] = "outside" /\ left[t] = 0)

\* What the header of malloc.c calls "a big lock" and allocate_at() relies on
\* ("must already be in CR on entry"): one thread at a time is in the
\* critical section.  The code does not give it: the loop goes on while the
\* exchange succeeds and ends when it finds the lock taken.
MutualExclusion ==
  \A s, t \in Threads : pc[s] = "inside" /\ pc[t] = "inside" => s = t
=============================================================================
