------------------------- MODULE TaskLifecycleProofs -------------------------
(***************************************************************************)
(* The retry budget of the task state machine, for any set of tasks and    *)
(* every max_retry.                                                        *)
(***************************************************************************)
EXTENDS TaskLifecycle, TLAPS

\* No task has failed yet, and each has an attempt.
LEMMA InitInv ==
    ASSUME MaxRetry \in Nat \ {0}, Init
    PROVE  Inv
BY DEF Init, Inv, TypeOK, RetryIInv, Statuses

\* One status change keeps the budget: only a failure of a RUNNING task, which has
\* an attempt left, raises retry_count, and only a replay reopens DEAD.
LEMMA NextInv ==
    ASSUME MaxRetry \in Nat \ {0}, Inv, Next
    PROVE  Inv'
<1> PICK t \in Tasks :
        \/ Commit(t) \/ Run(t) \/ Succeed(t) \/ Suspend(t) \/ Fail(t) \/ Exhaust(t)
        \/ Recover(t) \/ Reopen(t) \/ CloseAgain(t)
  BY DEF Next
<1> USE DEF Inv, TypeOK, RetryIInv, Statuses
<1>1. CASE Reopen(t)
  <2>1. /\ row' = [row EXCEPT ![t].status = "FAILED"]
        /\ reopened' = [reopened EXCEPT ![t] = @ + 1]
    BY <1>1 DEF Reopen
  <2> QED
    BY <2>1
<1>2. CASE Fail(t)
  BY <1>2 DEF Fail, Move
<1>3. CASE Exhaust(t)
  BY <1>3 DEF Exhaust, Move
<1>4. CASE Run(t) \/ Succeed(t) \/ Suspend(t) \/ Recover(t) \/ CloseAgain(t)
  <2>1. PICK to \in Statuses :
           /\ row' = [row EXCEPT ![t] = [status |-> to, retry |-> @.retry + 0]]
           /\ reopened' = reopened
           /\ row[t].status \notin {"SUCCESS", "DEAD"}
    BY <1>4 DEF Run, Succeed, Suspend, Recover, CloseAgain, Move
  <2> QED
    BY <2>1
<1>5. CASE Commit(t)
  BY <1>5 DEF Commit
<1> QED
  BY <1>1, <1>2, <1>3, <1>4, <1>5

\* A task never fails more often than max_retry plus the number of its replays.
THEOREM LifecycleBudget ==
    ASSUME MaxRetry \in Nat \ {0}
    PROVE  Spec => []RetryBudget
<1>1. Init => Inv
  BY InitInv
<1>2. Inv /\ [Next]_<<row, reopened>> => Inv'
  <2> SUFFICES ASSUME Inv, [Next]_<<row, reopened>> PROVE Inv'
    OBVIOUS
  <2>1. CASE Next
    BY <2>1, NextInv
  <2>2. CASE UNCHANGED <<row, reopened>>
    BY <2>2 DEF Inv, TypeOK, RetryIInv
  <2> QED
    BY <2>1, <2>2
<1>3. Inv => RetryBudget
  BY DEF Inv, RetryIInv, RetryBudget
<1> QED
  BY <1>1, <1>2, <1>3, PTL DEF Spec
=============================================================================
