-------------------------- MODULE HeapMutex_proofs --------------------------
(***************************************************************************)
(* The heap lock is never left set, for any number of threads and rounds.  *)
(***************************************************************************)
EXTENDS HeapMutex, TLAPS

IInv == TypeOK /\ LockNotLeftHeld

\* The lock is free to begin with.
LEMMA InitIInv == Init => IInv
  BY RoundsAssumption DEF Init, IInv, TypeOK, LockNotLeftHeld

\* One step per action: the thread that sets the lock is in enter_cr() and
\* only its own exit_cr(), which clears the lock, takes it outside again.
LEMMA NextIInv == IInv /\ [Next]_vars => IInv'
<1> SUFFICES ASSUME IInv, [Next]_vars
             PROVE  IInv'
  OBVIOUS
<1> USE RoundsAssumption DEF IInv
<1>1. ASSUME NEW t \in Threads, EnterCr(t)
      PROVE  IInv'
  <2>1. TypeOK'
    BY <1>1 DEF EnterCr, TypeOK
  <2>2. LockNotLeftHeld'
    BY <1>1 DEF EnterCr, TypeOK, LockNotLeftHeld
  <2> QED
    BY <2>1, <2>2
<1>2. ASSUME NEW t \in Threads, CasSucceeds(t)
      PROVE  IInv'
  <2>1. TypeOK'
    BY <1>2 DEF CasSucceeds, TypeOK
  <2>2. pc'[t] = "entering"
    BY <1>2 DEF CasSucceeds
  <2>3. LockNotLeftHeld'
    BY <2>2 DEF LockNotLeftHeld
  <2> QED
    BY <2>1, <2>3
<1>3. ASSUME NEW t \in Threads, CasFails(t)
      PROVE  IInv'
  <2>1. TypeOK'
    BY <1>3 DEF CasFails, TypeOK
  <2>2. pc'[t] = "inside"
    BY <1>3 DEF CasFails, TypeOK
  <2>3. LockNotLeftHeld'
    BY <2>2 DEF LockNotLeftHeld
  <2> QED
    BY <2>1, <2>3
<1>4. ASSUME NEW t \in Threads, ExitCr(t)
      PROVE  IInv'
  <2>1. TypeOK'
    BY <1>4 DEF ExitCr, TypeOK
  <2>2. locked' = 0
    BY <1>4 DEF ExitCr
  <2>3. LockNotLeftHeld'
    BY <2>2 DEF LockNotLeftHeld
  <2> QED
    BY <2>1, <2>3
<1>5. CASE UNCHANGED vars
  BY <1>5 DEF vars, TypeOK, LockNotLeftHeld
<1> QED
  BY <1>1, <1>2, <1>3, <1>4, <1>5 DEF Next, Step

\* The lock of malloc.c is free whenever no thread is in enter_cr() or past
\* it, whatever the number of threads and of rounds.
THEOREM Lock_NotLeftHeld == Spec => []LockNotLeftHeld
<1>1. IInv => LockNotLeftHeld
  BY DEF IInv
<1> QED
  BY <1>1, InitIInv, NextIInv, PTL DEF Spec
=============================================================================
