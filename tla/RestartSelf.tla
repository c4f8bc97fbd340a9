---------------------------- MODULE RestartSelf ----------------------------
(***************************************************************************)
(* The self-restart protocol of a linker plugin (restart-self.hh).  The    *)
(* plugin's constructor evaluates a fixed list of RESTART_IF criteria.     *)
(* A criterion that does not like the link job puts a guard for itself in  *)
(* the environment and re-executes the linker with a fixed-up job, so the  *)
(* constructor runs again from the first criterion.  A criterion that      *)
(* does not like the job although its guard is set calls abort().          *)
(*                                                                         *)
(* This module is what any plugin built on restart-self.hh promises;       *)
(* XwrapPlugin is shown to implement it with its three criteria.           *)
(***************************************************************************)
EXTENDS Naturals, FiniteSets

CONSTANTS
  NumCriteria,     \* how many RESTART_IFs the constructor evaluates
  Job,             \* the link jobs a process image can be started with
  InitialJob,      \* those the user can start
  Needs(_, _),     \* Needs(c, job): criterion c asks for a restart
  Fixes(_, _, _)   \* Fixes(c, job, new): new is a job criterion c may ask for

Criteria == 1 .. NumCriteria

ASSUME NumCriteriaAssumption == NumCriteria \in Nat
ASSUME InitialJobAssumption == InitialJob \subseteq Job
ASSUME NeedsAssumption ==
  \A c \in Criteria, job \in Job : Needs(c, job) \in BOOLEAN

\* What restart-self.hh asks of a restart_criterion -- the fixed-up job must
\* not need that restart again -- and what a list of several criteria needs
\* besides: no fix-up spoils a job for another criterion.
ASSUME FixContract ==
  \A c \in Criteria : \A job, new \in Job :
     Needs(c, job) /\ Fixes(c, job, new) =>
        /\ ~Needs(c, new)
        /\ \A d \in Criteria : ~Needs(d, job) => ~Needs(d, new)

VARIABLES
  at,        \* the criterion to evaluate next; NumCriteria + 1: constructed
  job,       \* the link job of the current process image
  guards,    \* the criteria whose guard is in the environment
  restarts,  \* how often the linker has re-executed itself
  status     \* "running", "aborted" (logic error) or "failed" (execve failed)

vars == <<at, job, guards, restarts, status>>

Constructed == at = NumCriteria + 1

Init ==
  /\ at = 1
  /\ job \in InitialJob
  /\ guards = {}
  /\ restarts = 0
  /\ status = "running"

----------------------------------------------------------------------------
\* Plausible slips in the constructor, for showing that the properties of
\* this module can fail.
ContinueRegardless ==
  /\ status = "running" /\ at \in Criteria
  /\ at' = at + 1
  /\ UNCHANGED <<job, guards, restarts, status>>

ContinueToLast ==
  /\ status = "running" /\ at \in Criteria /\ at < NumCriteria
  /\ ~Needs(at, job)
  /\ at' = at + 1
  /\ UNCHANGED <<job, guards, restarts, status>>

ReexecOldJob ==
  /\ guards' = guards \cup {at}
  /\ restarts' = restarts + 1
  /\ at' = 1
  /\ UNCHANGED <<job, status>>

ReexecOldJobUnguarded ==
  /\ restarts' = restarts + 1
  /\ at' = 1
  /\ UNCHANGED <<job, guards, status>>

----------------------------------------------------------------------------
\* The criterion is content: the constructor goes on.
Continue ==
  /\ status = "running"
  /\ at \in Criteria
  /\ ~Needs(at, job)
  /\ at' = at + 1
  /\ UNCHANGED <<job, guards, restarts, status>>

\* What the process does about a criterion that asks for a restart.
AbortOnGuard ==
  /\ status' = "aborted"
  /\ UNCHANGED <<at, job, guards, restarts>>

Reexec ==
  /\ guards' = guards \cup {at}
  /\ job' \in Job
  /\ Fixes(at, job, job')
  /\ restarts' = restarts + 1
  /\ at' = 1
  /\ UNCHANGED status

Trigger ==
  /\ status = "running"
  /\ at \in Criteria
  /\ Needs(at, job)
  /\ IF at \in guards THEN AbortOnGuard ELSE Reexec

\* execve() returns: err() ends the process, with the guard already set in
\* its environment and its own job as it was.
ExecFails ==
  /\ status = "running"
  /\ at \in Criteria
  /\ Needs(at, job)
  /\ at \notin guards
  /\ guards' = guards \cup {at}
  /\ status' = "failed"
  /\ UNCHANGED <<at, job, restarts>>

Next == Continue \/ Trigger \/ ExecFails

\* The one thread of the linker process runs until it has loaded the plugin.
Spec == Init /\ [][Next]_vars
FairSpec == Spec /\ WF_vars(Next)

----------------------------------------------------------------------------
TypeOK ==
  /\ at \in 1 .. NumCriteria + 1
  /\ job \in Job
  /\ guards \subseteq Criteria
  /\ restarts \in Nat
  /\ status \in {"running", "aborted", "failed"}

\* The abort() that the code calls "a pure logic error... should not happen"
\* (restart-self.hh:145) is unreachable.
NeverAborts == status # "aborted"

\* A plugin whose constructor has run to its end has a job that none of its
\* criteria objects to, although each looked at it in a different state and
\* later ones rewrote it.
ConstructedIsSatisfied ==
  Constructed => \A c \in Criteria : ~Needs(c, job)

\* The linker re-executes itself at most once per criterion.
RestartsBounded == restarts <= NumCriteria

\* Loading the plugin ends: constructed, or stopped by a failed execve().
LoadingEnds == <>(Constructed \/ status # "running")
=============================================================================
