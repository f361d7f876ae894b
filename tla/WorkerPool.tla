----------------------------- MODULE WorkerPool -----------------------------
(***************************************************************************)
(* pool.Pool: callers of Submit, a buffered channel, worker goroutines and *)
(* one call of Close.  A step is one critical section or one channel       *)
(* operation.  The label "send" of a caller stands for the select, blocked *)
(* or not yet reached.  Every Submit passes a task of its own, never nil.  *)
(***************************************************************************)
EXTENDS Integers, Sequences, FiniteSets

CONSTANTS
    Jobs,         \* calls of Submit, and the task each of them passes
    PoolWorkers,  \* goroutines started by New
    Buffer,       \* as passed to WithBuffer
    NoJob

ASSUME PoolAssumption ==
    /\ IsFiniteSet(Jobs) /\ {NoJob, "exited"} \intersect Jobs = {} /\ NoJob # "exited"
    /\ PoolWorkers # {}
    /\ Buffer \in Int

VARIABLES
    sub,       \* where each call of Submit is, or what it returned
    queue,     \* the channel
    isClosed,  \* closed, and the channel is closed
    slot,      \* what each worker does: NoJob, a job or "exited"
    ran,       \* history: how often a job was run to its end
    returned   \* Close has returned

poolVars == <<sub, queue, isClosed, slot, ran, returned>>

capacity == IF Buffer > 0 THEN Buffer ELSE 1024

PoolInit ==
    /\ sub = [j \in Jobs |-> "new"]
    /\ queue = <<>>
    /\ isClosed = FALSE /\ returned = FALSE
    /\ slot = [w \in PoolWorkers |-> NoJob]
    /\ ran = [j \in Jobs |-> 0]

SubmitAt(j, l) == sub' = [sub EXCEPT ![j] = l]

\* The test of closed, under the lock.
SubmitCheck(j) ==
    /\ sub[j] = "new"
    /\ SubmitAt(j, IF isClosed THEN "refused" ELSE "send")
    /\ UNCHANGED <<queue, isClosed, slot, ran, returned>>

\* The send of the select.  On a closed channel it panics.
Send(j) ==
    /\ sub[j] = "send"
    /\ \/ /\ isClosed
          /\ SubmitAt(j, "panicked")
          /\ UNCHANGED queue
       \/ /\ ~isClosed /\ Len(queue) < capacity
          /\ SubmitAt(j, "accepted")
          /\ queue' = Append(queue, j)
    /\ UNCHANGED <<isClosed, slot, ran, returned>>

\* Mutant of Cancel: the context is looked at after the send.
CancelAfterSend(j) ==
    /\ sub[j] = "send" /\ ~isClosed /\ Len(queue) < capacity
    /\ SubmitAt(j, "cancelled")
    /\ queue' = Append(queue, j)
    /\ UNCHANGED <<isClosed, slot, ran, returned>>

\* The caller's context ends first.
Cancel(j) ==
    /\ sub[j] = "send"
    /\ SubmitAt(j, "cancelled")
    /\ UNCHANGED <<queue, isClosed, slot, ran, returned>>

WorkerTake(w) ==
    /\ slot[w] = NoJob /\ queue # <<>>
    /\ slot' = [slot EXCEPT ![w] = Head(queue)]
    /\ queue' = Tail(queue)
    /\ UNCHANGED <<sub, isClosed, ran, returned>>

\* The task returns; what it returns is dropped.
WorkerDone(w) ==
    /\ slot[w] \in Jobs
    /\ ran' = [ran EXCEPT ![slot[w]] = @ + 1]
    /\ slot' = [slot EXCEPT ![w] = NoJob]
    /\ UNCHANGED <<sub, queue, isClosed, returned>>

\* Mutant of WorkerExit: a worker that sees the pool closed leaves at once.
WorkerExitEarly(w) ==
    /\ slot[w] = NoJob /\ isClosed
    /\ slot' = [slot EXCEPT ![w] = "exited"]
    /\ UNCHANGED <<sub, queue, isClosed, ran, returned>>

\* The range over the channel ends when it is closed and empty.
WorkerExit(w) ==
    /\ slot[w] = NoJob /\ isClosed /\ queue = <<>>
    /\ slot' = [slot EXCEPT ![w] = "exited"]
    /\ UNCHANGED <<sub, queue, isClosed, ran, returned>>

CloseStart ==
    /\ ~isClosed
    /\ isClosed' = TRUE
    /\ UNCHANGED <<sub, queue, slot, ran, returned>>

\* wg.Wait returns.
CloseReturn ==
    /\ isClosed /\ ~returned
    /\ \A w \in PoolWorkers : slot[w] = "exited"
    /\ returned' = TRUE
    /\ UNCHANGED <<sub, queue, isClosed, slot, ran>>

Submit(j) == SubmitCheck(j) \/ Send(j) \/ Cancel(j)

PoolWorker(w) == WorkerTake(w) \/ WorkerDone(w) \/ WorkerExit(w)

PoolNext ==
    \/ \E j \in Jobs : Submit(j)
    \/ \E w \in PoolWorkers : PoolWorker(w)
    \/ CloseStart \/ CloseReturn

PoolSpec == PoolInit /\ [][PoolNext]_poolVars

-----------------------------------------------------------------------------
PoolTypeOK ==
    /\ sub \in [Jobs -> {"new", "send", "accepted", "refused", "cancelled", "panicked"}]
    /\ queue \in Seq(Jobs) /\ Len(queue) <= capacity
    /\ isClosed \in BOOLEAN /\ returned \in BOOLEAN
    /\ slot \in [PoolWorkers -> Jobs \union {NoJob, "exited"}]
    /\ ran \in [Jobs -> Nat]

\* The places where a job is: in the channel, with a worker, done.
Copies(j) ==
    {<<"queue", i>> : i \in {k \in 1 .. Len(queue) : queue[k] = j}}
    \union {<<"worker", w>> : w \in {v \in PoolWorkers : slot[v] = j}}
    \union {<<"done", n>> : n \in 1 .. ran[j]}

\* A job whose Submit returned nil is in exactly one place and so runs exactly once;
\* one whose Submit was refused, cancelled or panicked never runs.
JobsConserved ==
    \A j \in Jobs : Cardinality(Copies(j)) = IF sub[j] = "accepted" THEN 1 ELSE 0

\* When Close has returned, every job that was ever accepted has run: neither a
\* caller between its check and its send nor a full channel leaves one behind.
CloseDrains == returned => \A j \in Jobs : sub[j] = "accepted" => ran[j] = 1
=============================================================================
