---------------------------- MODULE TaskLifecycle ----------------------------
(***************************************************************************)
(* What the asynchronous pipeline promises about a row of async_tasks: the *)
(* state machine of docs/async-reliability-state-machine.md with the retry *)
(* budget of task/repository_state.go.  Queues, loops, crashes and time    *)
(* are not part of it; TaskPipeline is shown to implement it.              *)
(***************************************************************************)
EXTENDS Integers

CONSTANTS Tasks, MaxRetry

VARIABLES
    row,       \* status and retry_count of each task
    reopened   \* how often the replay endpoint has reopened each task

Statuses == {"ABSENT", "PENDING", "RUNNING", "SUCCESS", "FAILED", "SUSPENDED", "DEAD"}

Init ==
    /\ row = [t \in Tasks |-> [status |-> "ABSENT", retry |-> 0]]
    /\ reopened = [t \in Tasks |-> 0]

\* The status of t goes from one of a set to another, retry_count by d.
Move(t, from, to, d) ==
    /\ row[t].status \in from
    /\ row' = [row EXCEPT ![t] = [status |-> to, retry |-> @.retry + d]]
    /\ UNCHANGED reopened

\* The INSERT of CreateTx.
Commit(t) ==
    /\ row[t].status = "ABSENT"
    /\ row' = [row EXCEPT ![t] = [status |-> "PENDING", retry |-> 0]]
    /\ UNCHANGED reopened

Run(t) == Move(t, {"PENDING", "FAILED"}, "RUNNING", 0)
Succeed(t) == Move(t, {"RUNNING"}, "SUCCESS", 0)
Suspend(t) == Move(t, {"RUNNING"}, "SUSPENDED", 0)
Fail(t) == row[t].retry + 1 < MaxRetry /\ Move(t, {"RUNNING"}, "FAILED", 1)
Exhaust(t) == row[t].retry + 1 >= MaxRetry /\ Move(t, {"RUNNING"}, "DEAD", 1)

\* The compensator takes a stale or suspended task over.
Recover(t) == Move(t, {"RUNNING", "SUSPENDED"}, "FAILED", 0)

\* The replay endpoint, and its fallback when the task is not in the DLQ.
Reopen(t) ==
    /\ row[t].status \in {"DEAD", "FAILED"}
    /\ row' = [row EXCEPT ![t].status = "FAILED"]
    /\ reopened' = [reopened EXCEPT ![t] = @ + 1]

CloseAgain(t) == Move(t, {"FAILED"}, "DEAD", 0)

Next ==
    \E t \in Tasks :
        \/ Commit(t) \/ Run(t) \/ Succeed(t) \/ Suspend(t) \/ Fail(t) \/ Exhaust(t)
        \/ Recover(t) \/ Reopen(t) \/ CloseAgain(t)

Spec == Init /\ [][Next]_<<row, reopened>>

-----------------------------------------------------------------------------
\* Type of the rows: retry_count never goes below zero.
TypeOK ==
    /\ row \in [Tasks -> [status : Statuses, retry : Nat]]
    /\ reopened \in [Tasks -> Nat]

\* A task fails at most max_retry times, and once more for every time it was
\* reopened, whatever was recovered, duplicated or replayed in between.
RetryBudget == \A t \in Tasks : row[t].retry <= MaxRetry + reopened[t]

\* The inductive form: a task that can still be run has an attempt left.
RetryIInv ==
    \A t \in Tasks :
        /\ row[t].retry <= MaxRetry + reopened[t]
        /\ row[t].status \in {"ABSENT", "PENDING", "RUNNING", "SUSPENDED", "FAILED"}
              => row[t].retry < MaxRetry + reopened[t]

Inv == TypeOK /\ RetryIInv
=============================================================================
