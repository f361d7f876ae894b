---------------------------- MODULE TaskPipeline ----------------------------
(***************************************************************************)
(* The asynchronous half of the Quan service: tasks and their outbox       *)
(* events in MySQL, the ready list, retry set and dead-letter list in      *)
(* Redis, and the loops that move work between them: outbox relays         *)
(* (outbox/relay.go), consumer workers and the retry scheduler             *)
(* (task/consumer.go, task/queue.go), the compensator                      *)
(* (task/compensator.go) and manual replays (task/service.go).             *)
(*                                                                         *)
(* One step is one SQL statement, one transaction or one Redis command;    *)
(* the loops interleave between them.  A call may fail before it is        *)
(* executed, or be executed and lose its answer; a Redis command may be    *)
(* sent again by the client when its answer is lost (the default of three  *)
(* retries is left in place, pkg/redis/client.go); any loop may crash and  *)
(* restart with its local state gone, and Redis may restart empty.  Each   *)
(* of these costs one of MaxFaults.                                        *)
(*                                                                         *)
(* Time.  A delay is FUTURE until the clock makes it DUE.  A row's old     *)
(* flag says that its updated_at lies before the stale timeout.            *)
(* Batches are never full: the batch sizes are 100 or more.                *)
(***************************************************************************)
EXTENDS Integers, Sequences, FiniteSets

CONSTANTS
    Tasks, Relays, Workers, Schedulers, Compensators, Replayers,
    NoTask,
    MaxRetry,     \* async_tasks.max_retry
    MaxReady,     \* bound on the length of the ready list
    MaxFaults,    \* bound on failed calls, lost answers, crashes and stalls
    MaxReplays    \* bound on calls of the replay endpoint that find a given task

ASSUME PipelineAssumption ==
    /\ NoTask \notin Tasks
    /\ MaxRetry \in Nat \ {0}
    /\ MaxReady \in Nat \ {0}
    /\ MaxFaults \in Nat
    /\ MaxReplays \in Nat

VARIABLES
    task,      \* async_tasks: status, retry_count, next_retry_at, age of updated_at
    event,     \* outbox_events of the task: status, is next_retry_at due, age
    ready,     \* Redis list of task ids
    zset,      \* Redis sorted set of retries: score of a task id, or NONE
    dlq,       \* Redis list of dead letters: how often a task id is in it
    relay, worker, sched, comp, replay,   \* local state of the loops and calls
    faults,
    replays,   \* calls of the replay endpoint that found the task
    dropped,   \* history: tasks whose id was lost with a process or with Redis
    taken,     \* history: how often a task was recovered while a worker was still at it
    resent     \* history: letters of a task pushed again, since the answer was lost

vars == <<task, event, ready, zset, dlq, relay, worker, sched, comp, replay,
          faults, replays, dropped, taken, resent>>

TaskStatus == {"ABSENT", "PENDING", "RUNNING", "SUCCESS", "FAILED", "SUSPENDED", "DEAD"}
EventStatus == {"ABSENT", "PENDING", "DISPATCHING", "PUBLISHED"}
When == {"NONE", "FUTURE", "DUE"}

Idle == [pc |-> "idle", task |-> NoTask]
IdleLoop == [pc |-> "idle", todo |-> {}, task |-> NoTask]
IdleComp == [pc |-> "idle", cand |-> {}, stale |-> {}]

\* A row just written: every UPDATE sets updated_at to now.
Row(status, retry, next) ==
    [status |-> status, retry |-> retry, next |-> next, old |-> FALSE]

EventRow(status, due) == [status |-> status, due |-> due, old |-> FALSE]

Fault == faults < MaxFaults /\ faults' = faults + 1

\* RPUSH of t to the ready list.
PublishReady(t) ==
    /\ Len(ready) < MaxReady
    /\ ready' = Append(ready, t)

-----------------------------------------------------------------------------
Init ==
    /\ task = [t \in Tasks |-> Row("ABSENT", 0, "NONE")]
    /\ event = [t \in Tasks |-> EventRow("ABSENT", FALSE)]
    /\ ready = <<>>
    /\ zset = [t \in Tasks |-> "NONE"]
    /\ dlq = [t \in Tasks |-> 0]
    /\ relay = [x \in Relays |-> IdleLoop]
    /\ worker = [w \in Workers |-> Idle]
    /\ sched = [s \in Schedulers |-> IdleLoop]
    /\ comp = [c \in Compensators |-> IdleComp]
    /\ replay = [p \in Replayers |-> Idle]
    /\ faults = 0 /\ dropped = {}
    /\ replays = [t \in Tasks |-> 0]
    /\ taken = [t \in Tasks |-> 0]
    /\ resent = [t \in Tasks |-> 0]

\* A claim transaction or CreateTask commits the task with its event.
Create(t) ==
    /\ task[t].status = "ABSENT"
    /\ task' = [task EXCEPT ![t] = Row("PENDING", 0, "NONE")]
    /\ event' = [event EXCEPT ![t] = EventRow("PENDING", TRUE)]
    /\ UNCHANGED <<ready, zset, dlq, relay, worker, sched, comp, replay, faults, replays,
                   dropped, taken, resent>>

\* --- outbox relay --------------------------------------------------------

RelayAt(x, l, t) ==
    relay' = [relay EXCEPT ![x] = [pc |-> l, todo |-> @.todo, task |-> t]]

StaleDispatching(t) == event[t].status = "DISPATCHING" /\ event[t].old
Dispatchable(t) == event[t].status = "PENDING" /\ event[t].due

\* RecoverStaleDispatching, at the top of every round.  If it fails the round goes
\* on, as if no event had been stale yet.  A round that finds nothing to do changes
\* nothing and is left out, here and in the other polling loops.
RelayRecover(x) ==
    /\ relay[x].pc = "idle"
    /\ \E t \in Tasks : StaleDispatching(t) \/ Dispatchable(t)
    /\ event' = [t \in Tasks |-> IF StaleDispatching(t) THEN EventRow("PENDING", event[t].due)
                               ELSE event[t]]
    /\ RelayAt(x, "list", NoTask)
    /\ UNCHANGED <<task, ready, zset, dlq, worker, sched, comp, replay, faults, replays,
                   dropped, taken, resent>>

\* ListDispatchable.
RelayList(x) ==
    /\ relay[x].pc = "list"
    /\ LET todo == {t \in Tasks : Dispatchable(t)}
       IN relay' = [relay EXCEPT ![x] =
                      [pc |-> IF todo = {} THEN "idle" ELSE "claim", todo |-> todo,
                       task |-> NoTask]]
    /\ UNCHANGED <<task, event, ready, zset, dlq, worker, sched, comp, replay, faults, replays,
                   dropped, taken, resent>>

\* The event t of the batch is dealt with.
NextEvent(x, t) ==
    relay' = [relay EXCEPT ![x] =
                [pc |-> IF relay[x].todo = {t} THEN "idle" ELSE "claim",
                 todo |-> relay[x].todo \ {t}, task |-> NoTask]]

\* Mutant of TryMarkDispatching: the event counts as published before it is.
TryMarkDispatchingEarly(x) ==
    /\ relay[x].pc = "claim"
    /\ \E t \in relay[x].todo :
          IF event[t].status = "PENDING"
          THEN /\ event' = [event EXCEPT ![t] = EventRow("PUBLISHED", @.due)]
               /\ RelayAt(x, "publish", t)
          ELSE event' = event /\ NextEvent(x, t)
    /\ UNCHANGED <<task, ready, zset, dlq, worker, sched, comp, replay, faults, replays,
                   dropped, taken, resent>>

\* TryMarkDispatching, a compare-and-set on PENDING.
TryMarkDispatching(x) ==
    /\ relay[x].pc = "claim"
    /\ \E t \in relay[x].todo :
          IF event[t].status = "PENDING"
          THEN /\ event' = [event EXCEPT ![t] = EventRow("DISPATCHING", @.due)]
               /\ RelayAt(x, "publish", t)
          ELSE event' = event /\ NextEvent(x, t)
    /\ UNCHANGED <<task, ready, zset, dlq, worker, sched, comp, replay, faults, replays,
                   dropped, taken, resent>>

\* PublishReady succeeds, then MarkPublished is due.
RelayPublish(x) ==
    /\ relay[x].pc = "publish"
    /\ PublishReady(relay[x].task)
    /\ RelayAt(x, "confirm", relay[x].task)
    /\ UNCHANGED <<task, event, zset, dlq, worker, sched, comp, replay, faults, replays,
                   dropped, taken, resent>>

\* PublishReady returns an error, executed or not; MarkRetry is due.
RelayPublishError(x) ==
    /\ relay[x].pc = "publish" /\ Fault
    /\ PublishReady(relay[x].task) \/ ready' = ready
    /\ RelayAt(x, "retry", relay[x].task)
    /\ UNCHANGED <<task, event, zset, dlq, worker, sched, comp, replay, replays,
                   dropped, taken, resent>>

\* The answer of the RPUSH is lost and the Redis client sends the command again, up to
\* MaxRetries times and with a pause before each: executed, and still to be done.  The
\* other Resend actions are the same for the commands of the other loops.
RelayResend(x) ==
    /\ relay[x].pc = "publish" /\ Fault
    /\ PublishReady(relay[x].task)
    /\ UNCHANGED <<task, event, zset, dlq, relay, worker, sched, comp, replay, replays,
                   dropped, taken, resent>>

\* MarkPublished and MarkRetry, each only from DISPATCHING.
MarkPublished(x) ==
    /\ relay[x].pc = "confirm"
    /\ LET t == relay[x].task
       IN /\ event' = IF event[t].status = "DISPATCHING"
                      THEN [event EXCEPT ![t] = EventRow("PUBLISHED", @.due)] ELSE event
          /\ NextEvent(x, t)
    /\ UNCHANGED <<task, ready, zset, dlq, worker, sched, comp, replay, faults, replays,
                   dropped, taken, resent>>

MarkRetry(x) ==
    /\ relay[x].pc = "retry"
    /\ LET t == relay[x].task
       IN /\ event' = IF event[t].status = "DISPATCHING"
                      THEN [event EXCEPT ![t] = EventRow("PENDING", FALSE)] ELSE event
          /\ NextEvent(x, t)
    /\ UNCHANGED <<task, ready, zset, dlq, worker, sched, comp, replay, faults, replays,
                   dropped, taken, resent>>

\* MarkPublished or MarkRetry fails: the event stays DISPATCHING until it is stale.
MarkEventError(x) ==
    /\ relay[x].pc \in {"confirm", "retry"} /\ Fault
    /\ NextEvent(x, relay[x].task)
    /\ UNCHANGED <<task, event, ready, zset, dlq, worker, sched, comp, replay, replays,
                   dropped, taken, resent>>

\* The relay crashes and restarts, or a query of it fails and ends the round.
RelayCrash(x) ==
    /\ relay[x].pc # "idle" /\ Fault
    /\ relay' = [relay EXCEPT ![x] = IdleLoop]
    /\ UNCHANGED <<task, event, ready, zset, dlq, worker, sched, comp, replay, replays,
                   dropped, taken, resent>>

\* --- consumer worker -----------------------------------------------------

Free(w) == worker' = [worker EXCEPT ![w] = Idle]
At(w, l) == worker' = [worker EXCEPT ![w] = [pc |-> l, task |-> @.task]]

\* Mutant of PopReady: a timeout of BLPOP is taken for a task.
PopReadyTimeoutIgnored(w) ==
    /\ worker[w].pc = "idle"
    /\ worker' = [worker EXCEPT ![w] =
                     [pc |-> "popped", task |-> IF ready = <<>> THEN NoTask ELSE Head(ready)]]
    /\ ready' = IF ready = <<>> THEN ready ELSE Tail(ready)
    /\ UNCHANGED <<task, event, zset, dlq, relay, sched, comp, replay, faults, replays,
                   dropped, taken, resent>>

\* BLPOP removes the id before anything is recorded about it.
PopReady(w) ==
    /\ worker[w].pc = "idle" /\ ready # <<>>
    /\ worker' = [worker EXCEPT ![w] = [pc |-> "popped", task |-> Head(ready)]]
    /\ ready' = Tail(ready)
    /\ UNCHANGED <<task, event, zset, dlq, relay, sched, comp, replay, faults, replays,
                   dropped, taken, resent>>

\* Mutant of TryMarkRunning: no test of the status.
TryMarkRunningBlind(w) ==
    /\ worker[w].pc = "popped"
    /\ LET t == worker[w].task
       IN task' = [task EXCEPT ![t] = Row("RUNNING", @.retry, @.next)] /\ At(w, "handle")
    /\ UNCHANGED <<event, ready, zset, dlq, relay, sched, comp, replay, faults, replays,
                   dropped, taken, resent>>

\* Mutant of TryMarkRunning: a run that has gone stale is taken over without the compensator.
TryMarkRunningStale(w) ==
    /\ worker[w].pc = "popped"
    /\ LET t == worker[w].task
       IN IF task[t].status \in {"PENDING", "FAILED"} \/ task[t].old
          THEN /\ task' = [task EXCEPT ![t] = Row("RUNNING", @.retry, @.next)]
               /\ At(w, "handle")
          ELSE task' = task /\ Free(w)
    /\ UNCHANGED <<event, ready, zset, dlq, relay, sched, comp, replay, faults, replays,
                   dropped, taken, resent>>

\* TryMarkRunning, a compare-and-set on PENDING or FAILED.
TryMarkRunning(w) ==
    /\ worker[w].pc = "popped"
    /\ LET t == worker[w].task
       IN IF task[t].status \in {"PENDING", "FAILED"}
          THEN /\ task' = [task EXCEPT ![t] = Row("RUNNING", @.retry, @.next)]
               /\ At(w, "handle")
          ELSE task' = task /\ Free(w)
    /\ UNCHANGED <<event, ready, zset, dlq, relay, sched, comp, replay, faults, replays,
                   dropped, taken, resent>>

\* The update goes through but the read of the row after it fails, or the answer
\* is lost: the row is RUNNING and nobody runs it.
TryMarkRunningLost(w) ==
    /\ worker[w].pc = "popped" /\ Fault
    /\ LET t == worker[w].task
       IN /\ task[t].status \in {"PENDING", "FAILED"}
          /\ task' = [task EXCEPT ![t] = Row("RUNNING", @.retry, @.next)]
    /\ Free(w)
    /\ UNCHANGED <<event, ready, zset, dlq, relay, sched, comp, replay, replays,
                   dropped, taken, resent>>

\* registry.Handle returns nil, or an error.
Handle(w) ==
    /\ worker[w].pc = "handle"
    /\ At(w, "succ") \/ At(w, "fail")
    /\ UNCHANGED <<task, event, ready, zset, dlq, relay, sched, comp, replay, faults, replays,
                   dropped, taken, resent>>

\* The UPDATE of MarkSuccess and of MarkSuspended, each only from RUNNING.
SetSuccess(t) ==
    task' = IF task[t].status = "RUNNING"
            THEN [task EXCEPT ![t] = Row("SUCCESS", @.retry, "NONE")] ELSE task

SetSuspended(t) ==
    task' = IF task[t].status = "RUNNING"
            THEN [task EXCEPT ![t] = Row("SUSPENDED", @.retry, "NONE")] ELSE task

MarkSuccess(w) ==
    /\ worker[w].pc = "succ"
    /\ SetSuccess(worker[w].task)
    /\ Free(w)
    /\ UNCHANGED <<event, ready, zset, dlq, relay, sched, comp, replay, faults, replays,
                   dropped, taken, resent>>

\* MarkSuccess fails, applied or not: the fallback is MarkSuspended.
MarkSuccessError(w) ==
    /\ worker[w].pc = "succ" /\ Fault
    /\ SetSuccess(worker[w].task) \/ task' = task
    /\ At(w, "suspend")
    /\ UNCHANGED <<event, ready, zset, dlq, relay, sched, comp, replay, replays,
                   dropped, taken, resent>>

MarkSuspended(w) ==
    /\ worker[w].pc = "suspend"
    /\ SetSuspended(worker[w].task)
    /\ Free(w)
    /\ UNCHANGED <<event, ready, zset, dlq, relay, sched, comp, replay, faults, replays,
                   dropped, taken, resent>>

\* Mutants of FailedRow: one attempt too many; the status not looked at.
FailedRowLate(row) ==
    IF row.status # "RUNNING" THEN row
    ELSE IF row.retry + 1 > MaxRetry THEN Row("DEAD", row.retry + 1, "NONE")
    ELSE Row("FAILED", row.retry + 1, "FUTURE")

FailedRowBlind(row) ==
    IF row.retry + 1 >= MaxRetry THEN Row("DEAD", row.retry + 1, "NONE")
    ELSE Row("FAILED", row.retry + 1, "FUTURE")

\* What the transaction of MarkFailed makes of a row.
FailedRow(row) ==
    IF row.status # "RUNNING" THEN row
    ELSE IF row.retry + 1 >= MaxRetry THEN Row("DEAD", row.retry + 1, "NONE")
    ELSE Row("FAILED", row.retry + 1, "FUTURE")

\* Mutant of MarkFailed: the worker goes by the row it finds, not by what it did to it.
MarkFailedGoesByRow(w) ==
    /\ worker[w].pc = "fail"
    /\ LET t == worker[w].task
           new == FailedRow(task[t])
       IN /\ task' = [task EXCEPT ![t] = new]
          /\ IF new.status = "DEAD" THEN At(w, "dlq")
             ELSE IF new.status = "FAILED" THEN At(w, "schedule") ELSE Free(w)
    /\ UNCHANGED <<event, ready, zset, dlq, relay, sched, comp, replay, faults, replays,
                   dropped, taken, resent>>

MarkFailed(w) ==
    /\ worker[w].pc = "fail"
    /\ LET t == worker[w].task
           new == FailedRow(task[t])
       IN /\ task' = [task EXCEPT ![t] = new]
          /\ IF task[t].status # "RUNNING" THEN Free(w)
             ELSE At(w, IF new.status = "DEAD" THEN "dlq" ELSE "schedule")
    /\ UNCHANGED <<event, ready, zset, dlq, relay, sched, comp, replay, faults, replays,
                   dropped, taken, resent>>

\* MarkFailed returns an error, committed or not: the worker gives up.
MarkFailedError(w) ==
    /\ worker[w].pc = "fail" /\ Fault
    /\ LET t == worker[w].task
       IN task' = [task EXCEPT ![t] = FailedRow(@)] \/ task' = task
    /\ Free(w)
    /\ UNCHANGED <<event, ready, zset, dlq, relay, sched, comp, replay, replays,
                   dropped, taken, resent>>

PushDLQ(w) ==
    /\ worker[w].pc = "dlq"
    /\ dlq' = [dlq EXCEPT ![worker[w].task] = @ + 1]
    /\ Free(w)
    /\ UNCHANGED <<task, event, ready, zset, relay, sched, comp, replay, faults, replays,
                   dropped, taken, resent>>

\* ScheduleRetry at the time MarkFailed has stored.
ScheduleRetry(w) ==
    /\ worker[w].pc = "schedule"
    /\ zset' = [zset EXCEPT ![worker[w].task] = "FUTURE"]
    /\ Free(w)
    /\ UNCHANGED <<task, event, ready, dlq, relay, sched, comp, replay, faults, replays,
                   dropped, taken, resent>>

\* PushDLQ and ScheduleRetry: a second RPUSH is a second letter, a second ZADD may come
\* after the scheduler has taken the first one's member.
WorkerResend(w) ==
    /\ Fault
    /\ LET t == worker[w].task
       IN \/ /\ worker[w].pc = "dlq"
             /\ dlq' = [dlq EXCEPT ![t] = @ + 1]
             /\ resent' = [resent EXCEPT ![t] = @ + 1]
             /\ zset' = zset
          \/ /\ worker[w].pc = "schedule"
             /\ zset' = [zset EXCEPT ![t] = "FUTURE"]
             /\ UNCHANGED <<dlq, resent>>
    /\ UNCHANGED <<task, event, ready, relay, worker, sched, comp, replay, replays,
                   dropped, taken>>

\* The worker crashes and restarts, or a call of it fails that it does not
\* handle (TryMarkRunning, MarkSuspended, PushDLQ, ScheduleRetry): it forgets
\* its task.  Between BLPOP and TryMarkRunning this drops the id.
WorkerCrash(w) ==
    /\ worker[w].pc # "idle" /\ Fault
    /\ dropped' = IF worker[w].pc = "popped" THEN dropped \union {worker[w].task} ELSE dropped
    /\ Free(w)
    /\ UNCHANGED <<task, event, ready, zset, dlq, relay, sched, comp, replay, replays,
                   taken, resent>>

\* --- retry scheduler: MoveDueRetryToReady --------------------------------

SchedAt(s, l, todo, t) == sched' = [sched EXCEPT ![s] = [pc |-> l, todo |-> todo, task |-> t]]

\* ZRANGEBYSCORE.
SchedList(s) ==
    /\ sched[s].pc = "idle"
    /\ LET due == {t \in Tasks : zset[t] = "DUE"}
       IN due # {} /\ SchedAt(s, "rem", due, NoTask)
    /\ UNCHANGED <<task, event, ready, zset, dlq, relay, worker, comp, replay, faults, replays,
                   dropped, taken, resent>>

NextDue(s, t) ==
    SchedAt(s, IF sched[s].todo = {t} THEN "idle" ELSE "rem", sched[s].todo \ {t}, NoTask)

\* ZREM: whoever removes the member pushes it, whatever its score is by now.
SchedRem(s) ==
    /\ sched[s].pc = "rem"
    /\ \E t \in sched[s].todo :
          IF zset[t] # "NONE"
          THEN zset' = [zset EXCEPT ![t] = "NONE"] /\ SchedAt(s, "push", sched[s].todo, t)
          ELSE zset' = zset /\ NextDue(s, t)
    /\ UNCHANGED <<task, event, ready, dlq, relay, worker, comp, replay, faults, replays,
                   dropped, taken, resent>>

SchedPush(s) ==
    /\ sched[s].pc = "push"
    /\ PublishReady(sched[s].task)
    /\ NextDue(s, sched[s].task)
    /\ UNCHANGED <<task, event, zset, dlq, relay, worker, comp, replay, faults, replays,
                   dropped, taken, resent>>

\* RPUSH returns an error, executed or not: the member is put back and the round
\* ends.
SchedPushError(s) ==
    /\ sched[s].pc = "push" /\ Fault
    /\ PublishReady(sched[s].task) \/ ready' = ready
    /\ SchedAt(s, "restore", sched[s].todo, sched[s].task)
    /\ UNCHANGED <<task, event, zset, dlq, relay, worker, comp, replay, replays,
                   dropped, taken, resent>>

SchedRestore(s) ==
    /\ sched[s].pc = "restore"
    /\ zset' = [zset EXCEPT ![sched[s].task] = "DUE"]
    /\ sched' = [sched EXCEPT ![s] = IdleLoop]
    /\ UNCHANGED <<task, event, ready, dlq, relay, worker, comp, replay, faults, replays,
                   dropped, taken, resent>>

\* The second ZREM finds the member gone, so nobody pushes it.
SchedResend(s) ==
    /\ Fault
    /\ \/ /\ sched[s].pc = "rem"
          /\ \E t \in sched[s].todo : zset' = [zset EXCEPT ![t] = "NONE"]
          /\ ready' = ready
       \/ /\ sched[s].pc = "push"
          /\ PublishReady(sched[s].task)
          /\ zset' = zset
       \/ /\ sched[s].pc = "restore"
          /\ zset' = [zset EXCEPT ![sched[s].task] = "DUE"]
          /\ ready' = ready
    /\ UNCHANGED <<task, event, dlq, relay, worker, sched, comp, replay, replays,
                   dropped, taken, resent>>

\* A crash, or an error of ZREM or of the restoring ZADD.  Redis commands that
\* were executed stay executed.
SchedCrash(s) ==
    /\ sched[s].pc # "idle" /\ Fault
    /\ sched' = [sched EXCEPT ![s] = IdleLoop]
    /\ UNCHANGED <<task, event, ready, zset, dlq, relay, worker, comp, replay, replays,
                   dropped, taken, resent>>

\* --- compensator: compensateOnce -----------------------------------------

\* Workers that hold t as theirs to run.
Holders(t) ==
    {w \in Workers : worker[w].task = t
                     /\ worker[w].pc \in {"handle", "succ", "fail", "suspend"}}

CompAt(c, l, cand, stale) == comp' = [comp EXCEPT ![c] = [pc |-> l, cand |-> cand, stale |-> stale]]

\* Mutant of DueFailed: recovered tasks are left to the retry set alone.
DueFailedNever(t) == FALSE

\* ListDueFailedForCompensation, ListSuspendedForCompensation,
\* ListStaleRunningForCompensation: three queries, one after the other.
DueFailed(t) == task[t].status = "FAILED" /\ task[t].next = "DUE"
StaleSuspended(t) == task[t].status = "SUSPENDED" /\ task[t].old
StaleRunning(t) == task[t].status = "RUNNING" /\ task[t].old

CompListDue(c) ==
    /\ comp[c].pc = "idle"
    /\ \E t \in Tasks : DueFailed(t) \/ StaleSuspended(t) \/ StaleRunning(t)
    /\ CompAt(c, "suspended", {t \in Tasks : DueFailed(t)}, {})
    /\ UNCHANGED <<task, event, ready, zset, dlq, relay, worker, sched, replay, faults, replays,
                   dropped, taken, resent>>

CompListSuspended(c) ==
    /\ comp[c].pc = "suspended"
    /\ CompAt(c, "running", comp[c].cand, {t \in Tasks : StaleSuspended(t)})
    /\ UNCHANGED <<task, event, ready, zset, dlq, relay, worker, sched, replay, faults, replays,
                   dropped, taken, resent>>

CompListRunning(c) ==
    /\ comp[c].pc = "running"
    /\ LET stale == comp[c].stale \union {t \in Tasks : StaleRunning(t)}
       IN IF comp[c].cand \union stale = {} THEN comp' = [comp EXCEPT ![c] = IdleComp]
          ELSE CompAt(c, "recover", comp[c].cand, stale)
    /\ UNCHANGED <<task, event, ready, zset, dlq, relay, worker, sched, replay, faults, replays,
                   dropped, taken, resent>>

\* Mutant of MarkRecovered: next_retry_at is cleared.
MarkRecoveredNoTime(c) ==
    /\ comp[c].pc = "recover"
    /\ \E t \in comp[c].stale :
          IF task[t].status \in {"RUNNING", "SUSPENDED"}
          THEN /\ task' = [task EXCEPT ![t] = Row("FAILED", @.retry, "NONE")]
               /\ taken' = IF Holders(t) = {} THEN taken ELSE [taken EXCEPT ![t] = @ + 1]
               /\ CompAt(c, "recover", comp[c].cand \union {t}, comp[c].stale \ {t})
          ELSE /\ UNCHANGED <<task, taken>>
               /\ CompAt(c, "recover", comp[c].cand, comp[c].stale \ {t})
    /\ UNCHANGED <<event, ready, zset, dlq, relay, worker, sched, replay, faults, replays,
                   dropped, resent>>

\* MarkRecoveredForRetry looks at the status only: not at updated_at again, and
\* it leaves retry_count alone.
MarkRecovered(c) ==
    /\ comp[c].pc = "recover"
    /\ \E t \in comp[c].stale :
          IF task[t].status \in {"RUNNING", "SUSPENDED"}
          THEN /\ task' = [task EXCEPT ![t] = Row("FAILED", @.retry, "DUE")]
               /\ taken' = IF Holders(t) = {} THEN taken ELSE [taken EXCEPT ![t] = @ + 1]
               /\ CompAt(c, "recover", comp[c].cand \union {t}, comp[c].stale \ {t})
          ELSE /\ UNCHANGED <<task, taken>>
               /\ CompAt(c, "recover", comp[c].cand, comp[c].stale \ {t})
    /\ UNCHANGED <<event, ready, zset, dlq, relay, worker, sched, replay, faults, replays,
                   dropped, resent>>

\* ScheduleRetry at now for every candidate.
CompSchedule(c) ==
    /\ comp[c].pc = "recover" /\ comp[c].stale = {}
    /\ \E t \in comp[c].cand :
          /\ zset' = [zset EXCEPT ![t] = "DUE"]
          /\ IF comp[c].cand = {t} THEN comp' = [comp EXCEPT ![c] = IdleComp]
             ELSE CompAt(c, "recover", comp[c].cand \ {t}, comp[c].stale)
    /\ UNCHANGED <<task, event, ready, dlq, relay, worker, sched, replay, faults, replays,
                   dropped, taken, resent>>

CompResend(c) ==
    /\ comp[c].pc = "recover" /\ comp[c].stale = {} /\ Fault
    /\ \E t \in comp[c].cand : zset' = [zset EXCEPT ![t] = "DUE"]
    /\ UNCHANGED <<task, event, ready, dlq, relay, worker, sched, comp, replay, replays,
                   dropped, taken, resent>>

\* Nothing could be recovered.
CompDone(c) ==
    /\ comp[c].pc = "recover" /\ comp[c].stale = {} /\ comp[c].cand = {}
    /\ comp' = [comp EXCEPT ![c] = IdleComp]
    /\ UNCHANGED <<task, event, ready, zset, dlq, relay, worker, sched, replay, faults, replays,
                   dropped, taken, resent>>

\* A call for one candidate fails and the loop goes on without it.
CompSkip(c) ==
    /\ comp[c].pc = "recover" /\ Fault
    /\ \E t \in comp[c].stale \union comp[c].cand :
          CompAt(c, "recover", comp[c].cand \ {t}, comp[c].stale \ {t})
    /\ UNCHANGED <<task, event, ready, zset, dlq, relay, worker, sched, replay, replays,
                   dropped, taken, resent>>

\* A crash, or an error of one of the three queries.
CompCrash(c) ==
    /\ comp[c].pc # "idle" /\ Fault
    /\ comp' = [comp EXCEPT ![c] = IdleComp]
    /\ UNCHANGED <<task, event, ready, zset, dlq, relay, worker, sched, replay, replays,
                   dropped, taken, resent>>

\* --- manual replay: ReplayDLQTask ----------------------------------------

\* MarkReplayReady.  Any other status is answered with 404 or 409 and changes
\* nothing.
MarkReplayReady(p, t) ==
    /\ replay[p].pc = "idle" /\ replays[t] < MaxReplays
    /\ task[t].status \in {"DEAD", "FAILED"}
    /\ task' = [task EXCEPT ![t] = Row("FAILED", @.retry, "NONE")]
    /\ replay' = [replay EXCEPT ![p] = [pc |-> "move", task |-> t]]
    /\ replays' = [replays EXCEPT ![t] = @ + 1]
    /\ UNCHANGED <<event, ready, zset, dlq, relay, worker, sched, comp, faults,
                   dropped, taken, resent>>

\* ReplayFromDLQ: one script, LREM and RPUSH.
ReplayFromDLQ(p) ==
    /\ replay[p].pc = "move"
    /\ LET t == replay[p].task
       IN IF dlq[t] > 0
          THEN /\ dlq' = [dlq EXCEPT ![t] = @ - 1]
               /\ PublishReady(t)
               /\ replay' = [replay EXCEPT ![p] = Idle]
          ELSE /\ replay' = [replay EXCEPT ![p] = [pc |-> "restore", task |-> @.task]]
               /\ UNCHANGED <<dlq, ready>>
    /\ UNCHANGED <<task, event, zset, relay, worker, sched, comp, faults, replays,
                   dropped, taken, resent>>

\* The script returns an error, executed or not.
ReplayMoveError(p) ==
    /\ replay[p].pc = "move" /\ Fault
    /\ LET t == replay[p].task
       IN \/ dlq[t] > 0 /\ dlq' = [dlq EXCEPT ![t] = @ - 1] /\ PublishReady(t)
          \/ UNCHANGED <<dlq, ready>>
    /\ replay' = [replay EXCEPT ![p] = [pc |-> "restore", task |-> @.task]]
    /\ UNCHANGED <<task, event, zset, relay, worker, sched, comp, replays,
                   dropped, taken, resent>>

\* The second LREM takes another letter, or finds none and the replay counts as failed.
ReplayResend(p) ==
    /\ replay[p].pc = "move" /\ dlq[replay[p].task] > 0 /\ Fault
    /\ dlq' = [dlq EXCEPT ![replay[p].task] = @ - 1]
    /\ PublishReady(replay[p].task)
    /\ UNCHANGED <<task, event, zset, relay, worker, sched, comp, replay, replays,
                   dropped, taken, resent>>

\* RestoreDeadAfterReplayFailure: FAILED becomes DEAD, whoever made it FAILED.
RestoreDead(p) ==
    /\ replay[p].pc = "restore"
    /\ LET t == replay[p].task
       IN task' = IF task[t].status = "FAILED"
                  THEN [task EXCEPT ![t] = Row("DEAD", @.retry, @.next)] ELSE task
    /\ replay' = [replay EXCEPT ![p] = Idle]
    /\ UNCHANGED <<event, ready, zset, dlq, relay, worker, sched, comp, faults, replays,
                   dropped, taken, resent>>

\* The instance dies in the middle of a replay, or the restoring update fails.
ReplayCrash(p) ==
    /\ replay[p].pc # "idle" /\ Fault
    /\ replay' = [replay EXCEPT ![p] = Idle]
    /\ dropped' = dropped \union {replay[p].task}
    /\ UNCHANGED <<task, event, ready, zset, dlq, relay, worker, sched, comp, replays,
                   taken, resent>>

\* Redis restarts without its data.
RedisFlush ==
    /\ Fault
    /\ ready' = <<>>
    /\ zset' = [t \in Tasks |-> "NONE"]
    /\ dlq' = [t \in Tasks |-> 0]
    /\ dropped' = dropped \union {ready[i] : i \in 1 .. Len(ready)}
    /\ UNCHANGED <<task, event, relay, worker, sched, comp, replay, replays, taken, resent>>

\* --- time ----------------------------------------------------------------

\* updated_at of a SUSPENDED row, or of a RUNNING row nobody works on, passes the
\* stale timeout.
Age(t) ==
    /\ task[t].status \in {"RUNNING", "SUSPENDED"} /\ ~task[t].old
    /\ task[t].status = "RUNNING" => Holders(t) = {}
    /\ task' = [task EXCEPT ![t].old = TRUE]
    /\ UNCHANGED <<event, ready, zset, dlq, relay, worker, sched, comp, replay, faults, replays,
                   dropped, taken, resent>>

\* A worker takes longer than the stale timeout over a task.
Stall(t) ==
    /\ task[t].status = "RUNNING" /\ ~task[t].old /\ Holders(t) # {} /\ Fault
    /\ task' = [task EXCEPT ![t].old = TRUE]
    /\ UNCHANGED <<event, ready, zset, dlq, relay, worker, sched, comp, replay, replays,
                   dropped, taken, resent>>

\* A dispatch takes, or has been abandoned for, longer than its timeout.
EventAge(t) ==
    /\ event[t].status = "DISPATCHING" /\ ~event[t].old
    /\ event' = [event EXCEPT ![t].old = TRUE]
    /\ UNCHANGED <<task, ready, zset, dlq, relay, worker, sched, comp, replay, faults, replays,
                   dropped, taken, resent>>

\* Delays run out: an event's backoff, next_retry_at, a score of the retry set.
EventDue(t) ==
    /\ event[t].status = "PENDING" /\ ~event[t].due
    /\ event' = [event EXCEPT ![t].due = TRUE]
    /\ UNCHANGED <<task, ready, zset, dlq, relay, worker, sched, comp, replay, faults, replays,
                   dropped, taken, resent>>

TaskDue(t) ==
    /\ task[t].next = "FUTURE"
    /\ task' = [task EXCEPT ![t].next = "DUE"]
    /\ UNCHANGED <<event, ready, zset, dlq, relay, worker, sched, comp, replay, faults, replays,
                   dropped, taken, resent>>

RetryDue(t) ==
    /\ zset[t] = "FUTURE"
    /\ zset' = [zset EXCEPT ![t] = "DUE"]
    /\ UNCHANGED <<task, event, ready, dlq, relay, worker, sched, comp, replay, faults, replays,
                   dropped, taken, resent>>
-----------------------------------------------------------------------------
RelayNext(x) ==
    \/ RelayRecover(x) \/ RelayList(x) \/ TryMarkDispatching(x) \/ RelayPublish(x)
    \/ MarkPublished(x) \/ MarkRetry(x)

WorkerNext(w) ==
    \/ PopReady(w) \/ TryMarkRunning(w) \/ Handle(w) \/ MarkSuccess(w) \/ MarkSuspended(w)
    \/ MarkFailed(w) \/ PushDLQ(w) \/ ScheduleRetry(w)

SchedNext(s) == SchedList(s) \/ SchedRem(s) \/ SchedPush(s) \/ SchedRestore(s)

CompNext(c) ==
    \/ CompListDue(c) \/ CompListSuspended(c) \/ CompListRunning(c)
    \/ MarkRecovered(c) \/ CompSchedule(c) \/ CompDone(c)

ReplayNext(p) == ReplayFromDLQ(p) \/ RestoreDead(p)

\* The clock, as far as the pipeline reads it.
Tick(t) == Age(t) \/ EventAge(t) \/ EventDue(t) \/ TaskDue(t) \/ RetryDue(t)

\* Calls that fail or are sent twice, loops that crash, workers that are too slow, and
\* a Redis that forgets.
Failure ==
    \/ \E x \in Relays : \/ RelayPublishError(x) \/ RelayResend(x)
                          \/ MarkEventError(x) \/ RelayCrash(x)
    \/ \E w \in Workers : \/ TryMarkRunningLost(w) \/ MarkSuccessError(w)
                           \/ MarkFailedError(w) \/ WorkerResend(w) \/ WorkerCrash(w)
    \/ \E s \in Schedulers : SchedPushError(s) \/ SchedResend(s) \/ SchedCrash(s)
    \/ \E c \in Compensators : CompResend(c) \/ CompSkip(c) \/ CompCrash(c)
    \/ \E p \in Replayers : ReplayMoveError(p) \/ ReplayResend(p) \/ ReplayCrash(p)
    \/ \E t \in Tasks : Stall(t)
    \/ RedisFlush

Next ==
    \/ \E t \in Tasks : Create(t) \/ Tick(t)
    \/ \E x \in Relays : RelayNext(x)
    \/ \E w \in Workers : WorkerNext(w)
    \/ \E s \in Schedulers : SchedNext(s)
    \/ \E c \in Compensators : CompNext(c)
    \/ \E p \in Replayers : ReplayNext(p) \/ \E t \in Tasks : MarkReplayReady(p, t)
    \/ Failure

Spec == Init /\ [][Next]_vars

\* Every loop polls for ever and the clock runs.  Nothing makes a task appear, an
\* operator replay it, or a call fail.
Fairness ==
    /\ \A x \in Relays : WF_vars(RelayNext(x))
    /\ \A w \in Workers : WF_vars(WorkerNext(w))
    /\ \A s \in Schedulers : WF_vars(SchedNext(s))
    /\ \A c \in Compensators : WF_vars(CompNext(c))
    /\ \A p \in Replayers : WF_vars(ReplayNext(p))
    /\ \A t \in Tasks : /\ WF_vars(Age(t)) /\ WF_vars(EventAge(t)) /\ WF_vars(EventDue(t))
                       /\ WF_vars(TaskDue(t)) /\ WF_vars(RetryDue(t))

FairSpec == Spec /\ Fairness

-----------------------------------------------------------------------------
TaskOK ==
    task \in [Tasks -> [status : TaskStatus, retry : Nat, next : When, old : BOOLEAN]]

QueueOK ==
    /\ event \in [Tasks -> [status : EventStatus, due : BOOLEAN, old : BOOLEAN]]
    /\ ready \in Seq(Tasks)
    /\ zset \in [Tasks -> When]
    /\ dlq \in [Tasks -> Nat]

LoopOK ==
    /\ relay \in [Relays -> [pc : {"idle", "list", "claim", "publish", "confirm", "retry"},
                            todo : SUBSET Tasks, task : Tasks \union {NoTask}]]
    /\ \A x \in Relays : (relay[x].task = NoTask) <=> relay[x].pc \in {"idle", "list", "claim"}
    /\ worker \in [Workers -> [pc : {"idle", "popped", "handle", "succ", "suspend", "fail",
                                     "dlq", "schedule"},
                              task : Tasks \union {NoTask}]]
    /\ \A w \in Workers : (worker[w].task = NoTask) <=> (worker[w].pc = "idle")
    /\ sched \in [Schedulers -> [pc : {"idle", "rem", "push", "restore"},
                                todo : SUBSET Tasks, task : Tasks \union {NoTask}]]
    /\ \A s \in Schedulers : (sched[s].task = NoTask) <=> sched[s].pc \in {"idle", "rem"}
    /\ comp \in [Compensators -> [pc : {"idle", "suspended", "running", "recover"},
                                 cand : SUBSET Tasks, stale : SUBSET Tasks]]
    /\ replay \in [Replayers -> [pc : {"idle", "move", "restore"},
                                 task : Tasks \union {NoTask}]]
    /\ \A p \in Replayers : (replay[p].task = NoTask) <=> (replay[p].pc = "idle")

HistoryOK ==
    /\ replays \in [Tasks -> Nat]
    /\ taken \in [Tasks -> Nat]
    /\ resent \in [Tasks -> Nat]

CountersOK == faults \in Nat /\ dropped \subseteq Tasks /\ HistoryOK

\* Types of the rows, queues and loops; a loop holds a task exactly at the labels
\* between taking it over and being done with it.
TypeOK == TaskOK /\ QueueOK /\ LoopOK /\ CountersOK

\* Whatever the loops do to it, a row moves along the documented state machine and
\* spends its retry budget one failure at a time: a stale worker, a duplicate
\* delivery or a late recovery never reopens SUCCESS and never skips DEAD.
A == INSTANCE TaskLifecycle
       WITH row <- [t \in Tasks |-> [status |-> task[t].status, retry |-> task[t].retry]],
            reopened <- replays

ImplementsLifecycle == A!Spec

\* A task fails at most max_retry times, and once more for each of its own replays.
RetryBudget == A!RetryBudget

Popped(t) == \E w \in Workers : worker[w] = [pc |-> "popped", task |-> t]
Queued(t) == Popped(t) \/ \E i \in 1 .. Len(ready) : ready[i] = t
Replaying(t) == \E p \in Replayers : replay[p].task = t

\* Something will still bring t to a worker: its event, its id in a queue, or the
\* compensator, which looks for RUNNING, SUSPENDED and FAILED with a retry time.
Reachable(t) ==
    CASE task[t].status = "PENDING" -> event[t].status # "PUBLISHED" \/ Queued(t)
      [] task[t].status = "FAILED" -> task[t].next # "NONE" \/ Queued(t) \/ Replaying(t)
      [] OTHER -> TRUE

\* No failed, repeated or half-done call strands a task (relay.go, queue.go,
\* compensator.go), nor does a Redis that restarts empty, except for the ids that were in
\* the ready list, in a worker between pop and TryMarkRunning, or in a replay that died:
\* what waits for a retry is found again by its retry time in MySQL.
NoSilentLoss == \A t \in Tasks \ dropped : Reachable(t)

\* One worker at a time has the row's permission to run a task: TryMarkRunning keeps
\* duplicate deliveries apart.  Every other worker at it was declared dead by a compensator,
\* once for each, and its late write takes no permission from the next: a row that is not
\* RUNNING (or SUCCESS, of which the worker was not told) is in no other hands.
ExclusiveRun ==
    \A t \in Tasks :
        Cardinality(Holders(t))
            <= taken[t] + (IF task[t].status \in {"RUNNING", "SUCCESS"} THEN 1 ELSE 0)

\* The dead-letter list never holds a task more often than it has died and the Redis client
\* has repeated itself: once per replay that brought it back, once more while it is DEAD,
\* and once per repeated RPUSH.  A worker that comes late, a second holder or a replay whose
\* script was half done or done twice never leaves a letter too many.
DeadLetters ==
    \A t \in Tasks :
        dlq[t] <= replays[t] + resent[t] + (IF task[t].status = "DEAD" THEN 1 ELSE 0)

\* Every committed task is eventually done or dead, however often it is retried,
\* recovered or replayed.
Settles ==
    \A t \in Tasks : task[t].status # "ABSENT"
                     ~> (task[t].status \in {"SUCCESS", "DEAD"} \/ t \in dropped)

-----------------------------------------------------------------------------
\* docs/async-reliability-state-machine.md: "No critical async transition is only
\* implicit in application memory".
NothingOnlyInMemory == \A t \in Tasks : Reachable(t)

\* Same file: "`DEAD`: retries are exhausted".
DeadMeansExhausted == \A t \in Tasks : task[t].status = "DEAD" => task[t].retry >= MaxRetry

\* docs/async-failure-matrix.md: a DEAD task is recovered by the "Manual replay
\* endpoint", which needs it in the dead-letter list.
DeadIsReplayable ==
    \A t \in Tasks : task[t].status = "DEAD" =>
        dlq[t] > 0 \/ Replaying(t) \/ \E w \in Workers : worker[w] = [pc |-> "dlq", task |-> t]
=============================================================================
