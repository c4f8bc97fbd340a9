------------------------- MODULE RestartSelf_proofs -------------------------
(***************************************************************************)
(* The safety properties of the self-restart protocol hold for every list  *)
(* of criteria that keeps FixContract.                                     *)
(***************************************************************************)
EXTENDS RestartSelf, FiniteSetTheorems, TLAPS

\* Every criterion before the one to evaluate is content with the job.
PassedContent == \A d \in Criteria : d < at => ~Needs(d, job)

\* A criterion whose guard is set is content: its fix-up satisfied it and
\* no later fix-up has spoilt that.  This is what keeps abort() out of reach.
GuardedContent ==
  status # "failed" => \A d \in guards : ~Needs(d, job)

\* Each restart has left a guard of its own.
RestartsAreGuards == restarts + (IF status = "failed" THEN 1 ELSE 0)
                       = Cardinality(guards)

IInv ==
  /\ TypeOK
  /\ NeverAborts
  /\ PassedContent
  /\ GuardedContent
  /\ RestartsAreGuards

\* A set of guards is finite, and no larger than the list of criteria.
LEMMA GuardsFinite ==
  ASSUME TypeOK
  PROVE  IsFiniteSet(guards) /\ Cardinality(guards) <= NumCriteria
<1>1. IsFiniteSet(Criteria) /\ Cardinality(Criteria) = NumCriteria
  BY NumCriteriaAssumption, FS_Interval DEF Criteria
<1>2. guards \subseteq Criteria
  BY DEF TypeOK
<1> QED
  BY <1>1, <1>2, FS_Subset

\* Types, of every state: TypeOK is inductive by itself.
THEOREM TypeCorrect == Spec => []TypeOK
<1>1. Init => TypeOK
  BY NumCriteriaAssumption, InitialJobAssumption DEF Init, TypeOK
<1>2. TypeOK /\ [Next]_vars => TypeOK'
  <2> SUFFICES ASSUME TypeOK, [Next]_vars PROVE TypeOK'
    OBVIOUS
  <2> USE NumCriteriaAssumption DEF TypeOK, Criteria
  <2>1. CASE Continue
    BY <2>1 DEF Continue
  <2>2. CASE Trigger
    <3>1. CASE at \in guards
      BY <2>2, <3>1 DEF Trigger, AbortOnGuard
    <3>2. CASE at \notin guards
      <4>1. Reexec /\ at \in Criteria
        BY <2>2, <3>2 DEF Trigger
      <4> QED
        BY <4>1 DEF Reexec
    <3> QED
      BY <3>1, <3>2
  <2>3. CASE ExecFails
    BY <2>3 DEF ExecFails
  <2>4. CASE UNCHANGED vars
    BY <2>4 DEF vars
  <2> QED
    BY <2>1, <2>2, <2>3, <2>4 DEF Next
<1> QED
  BY <1>1, <1>2, PTL DEF Spec

\* To begin with no guard is set and nothing evaluated.
LEMMA IInvInit == Init => IInv
<1> SUFFICES ASSUME Init PROVE IInv
  OBVIOUS
<1>1. TypeOK
  BY NumCriteriaAssumption, InitialJobAssumption DEF Init, TypeOK
<1>2. PassedContent
  BY NumCriteriaAssumption DEF Init, PassedContent, Criteria
<1>3. RestartsAreGuards
  BY FS_EmptySet DEF Init, RestartsAreGuards
<1> QED
  BY <1>1, <1>2, <1>3 DEF Init, IInv, NeverAborts, GuardedContent

\* A guard that is added to the environment was not there before.
LEMMA OneGuardMore ==
  ASSUME TypeOK, at \notin guards
  PROVE  Cardinality(guards \cup {at}) = Cardinality(guards) + 1
BY GuardsFinite, FS_AddElement

\* A restart keeps the invariant by the contract of the fix-ups.
LEMMA IInvStep == IInv /\ [Next]_vars => IInv'
<1> SUFFICES ASSUME IInv, [Next]_vars PROVE IInv'
  OBVIOUS
<1> USE NumCriteriaAssumption DEF IInv
<1>1. CASE Continue
  <2>1. TypeOK' /\ NeverAborts'
    BY <1>1 DEF Continue, TypeOK, Criteria, NeverAborts
  <2>2. PassedContent'
    BY <1>1 DEF Continue, PassedContent, TypeOK, Criteria
  <2>3. GuardedContent' /\ RestartsAreGuards'
    BY <1>1 DEF Continue, GuardedContent, RestartsAreGuards
  <2> QED
    BY <2>1, <2>2, <2>3
<1>2. CASE Trigger
  <2>1. at \in Criteria /\ job \in Job /\ Needs(at, job) /\ status = "running"
    BY <1>2 DEF Trigger, TypeOK
  <2>2. at \notin guards
    BY <2>1 DEF GuardedContent
  <2>3. Reexec
    BY <1>2, <2>2 DEF Trigger
  <2>4. TypeOK' /\ NeverAborts'
    BY <2>1, <2>3 DEF Reexec, TypeOK, Criteria, NeverAborts
  <2>5. PassedContent'
    BY <2>3 DEF Reexec, PassedContent, Criteria
  <2>6. GuardedContent'
    BY <2>1, <2>3, FixContract DEF Reexec, GuardedContent, TypeOK
  <2>7. RestartsAreGuards'
    BY <2>1, <2>2, <2>3, OneGuardMore
    DEF Reexec, RestartsAreGuards, TypeOK
  <2> QED
    BY <2>4, <2>5, <2>6, <2>7
<1>3. CASE ExecFails
  <2>1. TypeOK' /\ NeverAborts'
    BY <1>3 DEF ExecFails, TypeOK, Criteria, NeverAborts
  <2>2. PassedContent'
    BY <1>3 DEF ExecFails, PassedContent
  <2>3. RestartsAreGuards'
    BY <1>3, OneGuardMore DEF ExecFails, RestartsAreGuards, TypeOK
  <2> QED
    BY <1>3, <2>1, <2>2, <2>3 DEF ExecFails, GuardedContent
<1>4. CASE UNCHANGED vars
  BY <1>4 DEF vars, TypeOK, NeverAborts, PassedContent, GuardedContent,
              RestartsAreGuards
<1> QED
  BY <1>1, <1>2, <1>3, <1>4 DEF Next

\* The invariant that carries the argument: every evaluated and every guarded
\* criterion is content, and there have been as many restarts as guards.
THEOREM Inductive == Spec => []IInv
BY IInvInit, IInvStep, PTL DEF Spec

\* The abort() of the constructor of restart_if is unreachable.
THEOREM Abort_Unreachable == Spec => []NeverAborts
<1>1. IInv => NeverAborts
  BY DEF IInv
<1> QED
  BY <1>1, Inductive, PTL

\* A constructed plugin has a job that satisfies all its criteria.
THEOREM Constructed_Satisfied == Spec => []ConstructedIsSatisfied
<1>1. IInv => ConstructedIsSatisfied
  BY NumCriteriaAssumption
  DEF IInv, PassedContent, ConstructedIsSatisfied, Constructed, Criteria
<1> QED
  BY <1>1, Inductive, PTL

\* The linker re-executes itself at most once per criterion.
THEOREM Restarts_Bounded == Spec => []RestartsBounded
<1>1. IInv => RestartsBounded
  <2> SUFFICES ASSUME IInv PROVE RestartsBounded
    OBVIOUS
  <2>1. Cardinality(guards) \in Nat /\ Cardinality(guards) <= NumCriteria
    BY GuardsFinite, FS_CardinalityType DEF IInv
  <2> QED
    BY <2>1, NumCriteriaAssumption
    DEF IInv, RestartsAreGuards, RestartsBounded, TypeOK
<1> QED
  BY <1>1, Inductive, PTL
=============================================================================
