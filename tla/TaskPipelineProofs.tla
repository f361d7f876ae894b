------------------------- MODULE TaskPipelineProofs -------------------------
(***************************************************************************)
(* Theorems about TaskPipeline for any number of tasks, relays, workers,   *)
(* replays and faults and every max_retry.                                 *)
(***************************************************************************)
EXTENDS TaskPipeline, FiniteSetTheorems, TLAPS

TaskRow == [status : TaskStatus, retry : Nat, next : When, old : BOOLEAN]
EventRows == [status : EventStatus, due : BOOLEAN, old : BOOLEAN]

\* A loop past its claiming step holds a task.
LEMMA TaskHeld ==
    ASSUME TypeOK
    PROVE  /\ \A x \in Relays : relay[x].pc \in {"publish", "confirm", "retry"}
                                  => relay[x].task \in Tasks
           /\ \A w \in Workers : worker[w].pc # "idle" => worker[w].task \in Tasks
           /\ \A s \in Schedulers : sched[s].pc \in {"push", "restore"}
                                      => sched[s].task \in Tasks
           /\ \A p \in Replayers : replay[p].pc # "idle" => replay[p].task \in Tasks
BY DEF TypeOK, LoopOK

\* RPUSH of a task id keeps the ready list a list of task ids.
LEMMA PublishType ==
    ASSUME TypeOK, NEW t \in Tasks, PublishReady(t)
    PROVE  ready' \in Seq(Tasks)
BY DEF TypeOK, QueueOK, PublishReady

\* Writing one row of async_tasks keeps the table well typed.
LEMMA TaskPut ==
    ASSUME TaskOK, NEW t \in Tasks, NEW r \in TaskRow, task' = [task EXCEPT ![t] = r]
    PROVE  TaskOK'
BY DEF TaskOK, TaskRow

\* A worker moves on, and the other loops stay where they are.
LEMMA WorkerPut ==
    ASSUME LoopOK, NEW w \in Workers,
           NEW l \in {"idle", "popped", "handle", "succ", "suspend", "fail", "dlq", "schedule"},
           NEW t \in Tasks \union {NoTask}, (t = NoTask) <=> (l = "idle"),
           worker' = [worker EXCEPT ![w] = [pc |-> l, task |-> t]],
           UNCHANGED <<relay, sched, comp, replay>>
    PROVE  LoopOK'
BY DEF LoopOK

\* A compensator moves on.
LEMMA CompPut ==
    ASSUME LoopOK, NEW c \in Compensators,
           NEW l \in {"idle", "suspended", "running", "recover"},
           NEW cand \in SUBSET Tasks, NEW stale \in SUBSET Tasks,
           comp' = [comp EXCEPT ![c] = [pc |-> l, cand |-> cand, stale |-> stale]],
           UNCHANGED <<relay, worker, sched, replay>>
    PROVE  LoopOK'
BY DEF LoopOK

\* A compensator ends its round.
LEMMA CompIdle ==
    ASSUME LoopOK, NEW c \in Compensators, comp' = [comp EXCEPT ![c] = IdleComp],
           UNCHANGED <<relay, worker, sched, replay>>
    PROVE  LoopOK'
BY DEF LoopOK, IdleComp

\* The clock changes one field of a row.
LEMMA RowFields ==
    /\ \A r \in TaskRow : /\ [r EXCEPT !.old = TRUE] \in TaskRow
                          /\ [r EXCEPT !.next = "DUE"] \in TaskRow
    /\ \A e \in EventRows : /\ [e EXCEPT !.old = TRUE] \in EventRows
                            /\ [e EXCEPT !.due = TRUE] \in EventRows
BY DEF TaskRow, EventRows, When

\* MarkFailed writes a row of the table.
LEMMA FailedRowType ==
    ASSUME NEW r \in TaskRow PROVE FailedRow(r) \in TaskRow
BY DEF FailedRow, Row, TaskRow, TaskStatus, When

\* The counts of history keep their type when nothing is counted.
LEMMA HistoryKept ==
    ASSUME HistoryOK, UNCHANGED <<replays, taken, resent>>
    PROVE  HistoryOK'
BY DEF HistoryOK

\* Every statement of a relay, failed or not, keeps the types.
LEMMA RelayType ==
    ASSUME TypeOK, NEW x \in Relays,
           \/ RelayRecover(x) \/ RelayList(x) \/ TryMarkDispatching(x)
           \/ RelayPublish(x) \/ RelayPublishError(x) \/ MarkPublished(x)
           \/ MarkRetry(x) \/ MarkEventError(x) \/ RelayCrash(x)
    PROVE  TypeOK'
<1>1. CASE RelayRecover(x)
  BY <1>1, PipelineAssumption, HistoryKept
     DEF RelayRecover, RelayAt, EventRow, EventStatus, TypeOK, TaskOK, QueueOK, LoopOK,
         CountersOK
<1>2. CASE RelayList(x)
  BY <1>2, PipelineAssumption, HistoryKept
     DEF RelayList, TypeOK, TaskOK, QueueOK, LoopOK, CountersOK
<1>3. CASE TryMarkDispatching(x)
  <2>1. PICK t \in relay[x].todo :
           IF event[t].status = "PENDING"
           THEN /\ event' = [event EXCEPT ![t] = EventRow("DISPATCHING", @.due)]
                /\ RelayAt(x, "publish", t)
           ELSE event' = event /\ NextEvent(x, t)
    BY <1>3 DEF TryMarkDispatching
  <2>2. t \in Tasks /\ relay[x].todo \subseteq Tasks
    BY DEF TypeOK, LoopOK
  <2>3. TaskOK' /\ CountersOK'
    BY <1>3, HistoryKept DEF TryMarkDispatching, TypeOK, TaskOK, CountersOK
  <2>4. UNCHANGED <<ready, zset, dlq, worker, sched, comp, replay>>
    BY <1>3 DEF TryMarkDispatching
  <2>5. CASE event[t].status = "PENDING"
    <3>1. /\ event' = [event EXCEPT ![t] = EventRow("DISPATCHING", event[t].due)]
          /\ relay' = [relay EXCEPT ![x] = [pc |-> "publish", todo |-> relay[x].todo,
                                            task |-> t]]
      BY <2>1, <2>5 DEF RelayAt
    <3>2. QueueOK'
      BY <2>2, <2>4, <3>1 DEF TypeOK, QueueOK, EventRow, EventStatus
    <3>3. LoopOK'
      BY <2>2, <2>4, <3>1, PipelineAssumption DEF TypeOK, LoopOK
    <3> QED
      BY <2>3, <3>2, <3>3 DEF TypeOK
  <2>6. CASE event[t].status # "PENDING"
    <3>1. event' = event /\ NextEvent(x, t)
      BY <2>1, <2>6
    <3>2. QueueOK'
      BY <2>4, <3>1 DEF TypeOK, QueueOK
    <3>3. LoopOK'
      BY <2>2, <2>4, <3>1, PipelineAssumption DEF TypeOK, LoopOK, NextEvent
    <3> QED
      BY <2>3, <3>2, <3>3 DEF TypeOK
  <2> QED
    BY <2>5, <2>6
<1>4. CASE RelayPublish(x)
  BY <1>4, PublishType, TaskHeld, HistoryKept
     DEF RelayPublish, RelayAt, TypeOK, TaskOK, QueueOK, LoopOK, CountersOK
<1>5. CASE RelayPublishError(x)
  <2>1. ready' \in Seq(Tasks)
    BY <1>5, TaskHeld, PublishType DEF RelayPublishError, TypeOK, QueueOK
  <2>2. TaskOK' /\ QueueOK' /\ CountersOK'
    BY <1>5, <2>1, HistoryKept DEF RelayPublishError, Fault, TypeOK, TaskOK, QueueOK, CountersOK
  <2>3. LoopOK'
    BY <1>5, TaskHeld DEF RelayPublishError, RelayAt, TypeOK, LoopOK
  <2> QED
    BY <2>2, <2>3 DEF TypeOK
<1>6. CASE MarkPublished(x)
  BY <1>6, TaskHeld, PipelineAssumption, HistoryKept
     DEF MarkPublished, EventRow, NextEvent, EventStatus, TypeOK, TaskOK, QueueOK, LoopOK,
         CountersOK
<1>7. CASE MarkRetry(x)
  BY <1>7, TaskHeld, PipelineAssumption, HistoryKept
     DEF MarkRetry, EventRow, NextEvent, EventStatus, TypeOK, TaskOK, QueueOK, LoopOK,
         CountersOK
<1>8. CASE MarkEventError(x)
  BY <1>8, TaskHeld, PipelineAssumption, HistoryKept
     DEF MarkEventError, Fault, NextEvent, TypeOK, TaskOK, QueueOK, LoopOK, CountersOK
<1>9. CASE RelayCrash(x)
  BY <1>9, PipelineAssumption, HistoryKept
     DEF RelayCrash, Fault, IdleLoop, TypeOK, TaskOK, QueueOK, LoopOK, CountersOK
<1> QED
  BY <1>1, <1>2, <1>3, <1>4, <1>5, <1>6, <1>7, <1>8, <1>9

\* Every step of a worker does.
LEMMA WorkerType ==
    ASSUME TypeOK, NEW w \in Workers,
           \/ PopReady(w) \/ TryMarkRunning(w) \/ TryMarkRunningLost(w) \/ Handle(w)
           \/ MarkSuccess(w) \/ MarkSuccessError(w) \/ MarkSuspended(w) \/ MarkFailed(w)
           \/ MarkFailedError(w) \/ PushDLQ(w) \/ ScheduleRetry(w) \/ WorkerCrash(w)
    PROVE  TypeOK'
<1>1. CASE PopReady(w)
  <2>1. Head(ready) \in Tasks /\ Tail(ready) \in Seq(Tasks)
    BY <1>1 DEF PopReady, TypeOK, QueueOK
  <2> QED
    BY <1>1, <2>1, PipelineAssumption, HistoryKept
       DEF PopReady, TypeOK, TaskOK, QueueOK, LoopOK, CountersOK
<1>2. CASE TryMarkRunning(w)
  <2>1. QueueOK' /\ CountersOK' /\ worker[w].task \in Tasks
    BY <1>2, TaskHeld, HistoryKept DEF TryMarkRunning, TypeOK, QueueOK, CountersOK
  <2>2. UNCHANGED <<relay, sched, comp, replay>>
    BY <1>2 DEF TryMarkRunning
  <2>3. CASE task[worker[w].task].status \in {"PENDING", "FAILED"}
    <3> DEFINE t == worker[w].task
    <3>1. /\ task' = [task EXCEPT ![t] = Row("RUNNING", task[t].retry, task[t].next)]
          /\ worker' = [worker EXCEPT ![w] = [pc |-> "handle", task |-> t]]
      BY <1>2, <2>3 DEF TryMarkRunning, At
    <3>2. TaskOK'
      BY <2>1, <3>1 DEF Row, TypeOK, TaskOK, TaskStatus
    <3>3. LoopOK'
      BY <2>1, <2>2, <3>1, PipelineAssumption DEF TypeOK, LoopOK
    <3> QED
      BY <2>1, <3>2, <3>3 DEF TypeOK
  <2>4. CASE task[worker[w].task].status \notin {"PENDING", "FAILED"}
    <3>1. task' = task /\ Free(w)
      BY <1>2, <2>4 DEF TryMarkRunning
    <3>2. TaskOK' /\ LoopOK'
      BY <2>2, <3>1 DEF Free, Idle, TypeOK, TaskOK, LoopOK
    <3> QED
      BY <2>1, <3>2 DEF TypeOK
  <2> QED
    BY <2>3, <2>4
<1>3. CASE TryMarkRunningLost(w)
  BY <1>3, TaskHeld, PipelineAssumption, HistoryKept
     DEF TryMarkRunningLost, Row, Fault, Free, Idle, TaskStatus, When, TypeOK, TaskOK,
         QueueOK, LoopOK, CountersOK
<1>4. CASE Handle(w)
  <2>1. PICK l \in {"succ", "fail"} : At(w, l)
    BY <1>4 DEF Handle
  <2> QED
    BY <1>4, <2>1, HistoryKept DEF Handle, At, TypeOK, TaskOK, QueueOK, LoopOK, CountersOK
<1>5. CASE MarkSuccess(w)
  BY <1>5, TaskHeld, PipelineAssumption, HistoryKept
     DEF MarkSuccess, Free, Idle, SetSuccess, Row, TaskStatus, When, TypeOK, TaskOK,
         QueueOK, LoopOK, CountersOK
<1>6. CASE MarkSuccessError(w)
  <2>1. QueueOK' /\ CountersOK' /\ LoopOK'
    BY <1>6, HistoryKept DEF MarkSuccessError, Fault, At, TypeOK, QueueOK, LoopOK, CountersOK
  <2>2. CASE SetSuccess(worker[w].task)
    BY <2>1, <2>2 DEF SetSuccess, Row, TypeOK, TaskOK, TaskStatus, When
  <2>3. CASE task' = task
    BY <2>1, <2>3 DEF TypeOK, TaskOK
  <2> QED
    BY <1>6, <2>2, <2>3 DEF MarkSuccessError
<1>7. CASE MarkSuspended(w)
  BY <1>7, TaskHeld, PipelineAssumption, HistoryKept
     DEF MarkSuspended, Free, Idle, SetSuspended, Row, TaskStatus, When, TypeOK, TaskOK,
         QueueOK, LoopOK, CountersOK
<1>8. CASE MarkFailed(w)
  <2> DEFINE t == worker[w].task
  <2>1. t \in Tasks /\ FailedRow(task[t]) \in TaskRow
    BY <1>8, TaskHeld, FailedRowType DEF MarkFailed, TypeOK, TaskOK, TaskRow
  <2>2. TaskOK'
    BY <1>8, <2>1, TaskPut DEF MarkFailed, TypeOK
  <2>3. QueueOK' /\ CountersOK'
    BY <1>8, HistoryKept DEF MarkFailed, TypeOK, QueueOK, CountersOK
  <2>4. Free(w) \/ At(w, "dlq") \/ At(w, "schedule")
    BY <1>8 DEF MarkFailed
  <2>5. PICK l \in {"idle", "dlq", "schedule"}, u \in Tasks \union {NoTask} :
           /\ (u = NoTask) <=> (l = "idle")
           /\ worker' = [worker EXCEPT ![w] = [pc |-> l, task |-> u]]
    <3>1. CASE Free(w)
      BY <3>1 DEF Free, Idle
    <3>2. CASE At(w, "dlq") \/ At(w, "schedule")
      BY <2>1, <3>2, PipelineAssumption DEF At
    <3> QED
      BY <2>4, <3>1, <3>2
  <2>6. LoopOK'
    <3>1. UNCHANGED <<relay, sched, comp, replay>>
      BY <1>8 DEF MarkFailed
    <3> QED
      BY <2>5, <3>1, WorkerPut DEF TypeOK
  <2> QED
    BY <2>2, <2>3, <2>6 DEF TypeOK
<1>9. CASE MarkFailedError(w)
  <2> DEFINE t == worker[w].task
  <2>1. t \in Tasks /\ FailedRow(task[t]) \in TaskRow
    BY <1>9, TaskHeld, FailedRowType DEF MarkFailedError, TypeOK, TaskOK, TaskRow
  <2>2. TaskOK'
    <3>1. CASE task' = [task EXCEPT ![t] = FailedRow(task[t])]
      BY <2>1, <3>1, TaskPut DEF TypeOK
    <3>2. CASE task' = task
      BY <3>2 DEF TypeOK, TaskOK
    <3> QED
      BY <1>9, <3>1, <3>2 DEF MarkFailedError
  <2> QED
    BY <1>9, <2>2, HistoryKept
       DEF MarkFailedError, Free, Idle, Fault, TypeOK, QueueOK, LoopOK, CountersOK
<1>10. CASE PushDLQ(w)
  BY <1>10, TaskHeld, PipelineAssumption, HistoryKept
     DEF PushDLQ, Free, Idle, TypeOK, TaskOK, QueueOK, LoopOK, CountersOK
<1>11. CASE ScheduleRetry(w)
  BY <1>11, TaskHeld, PipelineAssumption, HistoryKept
     DEF ScheduleRetry, Free, Idle, When, TypeOK, TaskOK, QueueOK, LoopOK, CountersOK
<1>12. CASE WorkerCrash(w)
  BY <1>12, TaskHeld, PipelineAssumption, HistoryKept
     DEF WorkerCrash, Fault, Free, Idle, TypeOK, TaskOK, QueueOK, LoopOK, CountersOK
<1> QED
  BY <1>1, <1>2, <1>3, <1>4, <1>5, <1>6, <1>7, <1>8, <1>9, <1>10, <1>11, <1>12

\* Every step of the retry scheduler does.
LEMMA SchedulerType ==
    ASSUME TypeOK, NEW s \in Schedulers,
           \/ SchedList(s) \/ SchedRem(s) \/ SchedPush(s) \/ SchedPushError(s)
           \/ SchedRestore(s) \/ SchedCrash(s)
    PROVE  TypeOK'
<1>1. CASE SchedList(s)
  BY <1>1, PipelineAssumption, HistoryKept
     DEF SchedList, SchedAt, TypeOK, TaskOK, QueueOK, LoopOK, CountersOK
<1>2. CASE SchedRem(s)
  <2>1. PICK t \in sched[s].todo :
           IF zset[t] # "NONE"
           THEN zset' = [zset EXCEPT ![t] = "NONE"] /\ SchedAt(s, "push", sched[s].todo, t)
           ELSE zset' = zset /\ NextDue(s, t)
    BY <1>2 DEF SchedRem
  <2>2. t \in Tasks
    BY DEF TypeOK, LoopOK
  <2>3. TaskOK' /\ CountersOK'
    BY <1>2, HistoryKept DEF SchedRem, TypeOK, TaskOK, CountersOK
  <2>4. QueueOK'
    BY <1>2, <2>1, <2>2 DEF SchedRem, TypeOK, QueueOK, When
  <2>5. UNCHANGED <<relay, worker, comp, replay>>
    BY <1>2 DEF SchedRem
  <2>6. CASE SchedAt(s, "push", sched[s].todo, t)
    BY <2>2, <2>3, <2>4, <2>5, <2>6, PipelineAssumption DEF SchedAt, TypeOK, LoopOK
  <2>7. CASE NextDue(s, t)
    BY <2>2, <2>3, <2>4, <2>5, <2>7, PipelineAssumption DEF NextDue, SchedAt, TypeOK, LoopOK
  <2> QED
    BY <2>1, <2>6, <2>7
<1>3. CASE SchedPush(s)
  BY <1>3, PublishType, TaskHeld, PipelineAssumption, HistoryKept
     DEF SchedPush, NextDue, SchedAt, TypeOK, TaskOK, QueueOK, LoopOK, CountersOK
<1>4. CASE SchedPushError(s)
  <2>1. ready' \in Seq(Tasks)
    BY <1>4, TaskHeld, PublishType DEF SchedPushError, TypeOK, QueueOK
  <2>2. TaskOK' /\ QueueOK' /\ CountersOK'
    BY <1>4, <2>1, HistoryKept DEF SchedPushError, Fault, TypeOK, TaskOK, QueueOK, CountersOK
  <2>3. LoopOK'
    BY <1>4, TaskHeld DEF SchedPushError, SchedAt, TypeOK, LoopOK
  <2> QED
    BY <2>2, <2>3 DEF TypeOK
<1>5. CASE SchedRestore(s)
  BY <1>5, TaskHeld, PipelineAssumption, HistoryKept
     DEF SchedRestore, IdleLoop, When, TypeOK, TaskOK, QueueOK, LoopOK, CountersOK
<1>6. CASE SchedCrash(s)
  BY <1>6, PipelineAssumption, HistoryKept
     DEF SchedCrash, Fault, IdleLoop, TypeOK, TaskOK, QueueOK, LoopOK, CountersOK
<1> QED
  BY <1>1, <1>2, <1>3, <1>4, <1>5, <1>6

\* Every step of the compensator does.
LEMMA CompensatorType ==
    ASSUME TypeOK, NEW c \in Compensators,
           \/ CompListDue(c) \/ CompListSuspended(c) \/ CompListRunning(c)
           \/ MarkRecovered(c) \/ CompSchedule(c) \/ CompDone(c) \/ CompSkip(c)
           \/ CompCrash(c)
    PROVE  TypeOK'
<1>1. CASE CompListDue(c)
  BY <1>1, HistoryKept
     DEF CompListDue, CompAt, TypeOK, TaskOK, QueueOK, LoopOK, CountersOK
<1>2. CASE CompListSuspended(c)
  BY <1>2, HistoryKept
     DEF CompListSuspended, CompAt, TypeOK, TaskOK, QueueOK, LoopOK, CountersOK
<1>3. CASE CompListRunning(c)
  <2>1. TaskOK' /\ QueueOK' /\ CountersOK'
    BY <1>3, HistoryKept DEF CompListRunning, TypeOK, TaskOK, QueueOK, CountersOK
  <2>2. UNCHANGED <<relay, worker, sched, replay>>
    BY <1>3 DEF CompListRunning
  <2>3. comp[c].cand \in SUBSET Tasks /\ comp[c].stale \in SUBSET Tasks
    BY DEF TypeOK, LoopOK
  <2> DEFINE stale == comp[c].stale \union {t \in Tasks : StaleRunning(t)}
  <2>4. comp' = [comp EXCEPT ![c] = IdleComp] \/ CompAt(c, "recover", comp[c].cand, stale)
    BY <1>3 DEF CompListRunning
  <2>5. stale \in SUBSET Tasks
    BY <2>3
  <2>6. LoopOK'
    BY <2>2, <2>3, <2>4, <2>5, CompIdle, CompPut DEF CompAt, TypeOK
  <2> QED
    BY <2>1, <2>6 DEF TypeOK
<1>4. CASE MarkRecovered(c)
  <2>1. PICK t \in comp[c].stale :
           /\ \/ task' = [task EXCEPT ![t] = Row("FAILED", task[t].retry, "DUE")]
              \/ task' = task
           /\ \/ CompAt(c, "recover", comp[c].cand \union {t}, comp[c].stale \ {t})
              \/ CompAt(c, "recover", comp[c].cand, comp[c].stale \ {t})
           /\ taken' = taken \/ taken' = [taken EXCEPT ![t] = taken[t] + 1]
    BY <1>4 DEF MarkRecovered
  <2>2. t \in Tasks
    BY DEF TypeOK, LoopOK
  <2>3. Row("FAILED", task[t].retry, "DUE") \in TaskRow
    BY <2>2 DEF Row, TaskRow, TypeOK, TaskOK, TaskStatus, When
  <2>4. TaskOK'
    BY <2>1, <2>2, <2>3, TaskPut DEF TypeOK, TaskOK
  <2>5. QueueOK' /\ CountersOK'
    <3>1. taken' \in [Tasks -> Nat]
      BY <2>1, <2>2 DEF TypeOK, CountersOK, HistoryOK
    <3> QED
      BY <1>4, <3>1 DEF MarkRecovered, TypeOK, QueueOK, CountersOK, HistoryOK
  <2>6. LoopOK'
    <3>1. /\ comp[c].cand \in SUBSET Tasks /\ comp[c].stale \ {t} \in SUBSET Tasks
          /\ comp[c].cand \union {t} \in SUBSET Tasks
      BY <2>2 DEF TypeOK, LoopOK
    <3>2. UNCHANGED <<relay, worker, sched, replay>>
      BY <1>4 DEF MarkRecovered
    <3>3. LoopOK
      BY DEF TypeOK
    <3> QED
      BY <2>1, <3>1, <3>2, <3>3, CompPut DEF CompAt
  <2> QED
    BY <2>4, <2>5, <2>6 DEF TypeOK
<1>5. CASE CompSchedule(c)
  <2>1. PICK t \in comp[c].cand :
           /\ zset' = [zset EXCEPT ![t] = "DUE"]
           /\ \/ comp' = [comp EXCEPT ![c] = IdleComp]
              \/ CompAt(c, "recover", comp[c].cand \ {t}, comp[c].stale)
    BY <1>5 DEF CompSchedule
  <2>2. comp[c].cand \in SUBSET Tasks /\ comp[c].stale \in SUBSET Tasks
    BY DEF TypeOK, LoopOK
  <2>3. TaskOK' /\ CountersOK'
    BY <1>5, HistoryKept DEF CompSchedule, TypeOK, TaskOK, CountersOK
  <2>4. QueueOK'
    BY <1>5, <2>1, <2>2 DEF CompSchedule, When, TypeOK, QueueOK
  <2>5. UNCHANGED <<relay, worker, sched, replay>>
    BY <1>5 DEF CompSchedule
  <2>6. LoopOK'
    <3>1. CASE comp' = [comp EXCEPT ![c] = IdleComp]
      BY <2>5, <3>1, CompIdle DEF TypeOK
    <3>2. CASE CompAt(c, "recover", comp[c].cand \ {t}, comp[c].stale)
      <4>1. comp[c].cand \ {t} \in SUBSET Tasks
        BY <2>2
      <4> QED
        BY <2>2, <2>5, <3>2, <4>1, CompPut DEF CompAt, TypeOK
    <3> QED
      BY <2>1, <3>1, <3>2
  <2> QED
    BY <2>3, <2>4, <2>6 DEF TypeOK
<1>6. CASE CompDone(c)
  BY <1>6, HistoryKept
     DEF CompDone, IdleComp, TypeOK, TaskOK, QueueOK, LoopOK, CountersOK
<1>7. CASE CompSkip(c)
  BY <1>7, HistoryKept
     DEF CompSkip, CompAt, Fault, TypeOK, TaskOK, QueueOK, LoopOK, CountersOK
<1>8. CASE CompCrash(c)
  BY <1>8, HistoryKept
     DEF CompCrash, Fault, IdleComp, TypeOK, TaskOK, QueueOK, LoopOK, CountersOK
<1> QED
  BY <1>1, <1>2, <1>3, <1>4, <1>5, <1>6, <1>7, <1>8

\* Every step of a manual replay does.
LEMMA MarkReplayReadyType ==
    ASSUME TypeOK, NEW p \in Replayers, NEW t \in Tasks, MarkReplayReady(p, t)
    PROVE  TypeOK'
<1>1. Row("FAILED", task[t].retry, "NONE") \in TaskRow
  BY DEF Row, TaskRow, TaskStatus, When, TypeOK, TaskOK
<1>2. TaskOK'
  BY <1>1, TaskPut DEF MarkReplayReady, TypeOK
<1>3. QueueOK' /\ LoopOK'
  BY PipelineAssumption DEF MarkReplayReady, TypeOK, QueueOK, LoopOK
<1>4. CountersOK'
  BY DEF MarkReplayReady, TypeOK, CountersOK, HistoryOK
<1> QED
  BY <1>2, <1>3, <1>4 DEF TypeOK

\* So does every later step of it.
LEMMA ReplayType ==
    ASSUME TypeOK, NEW p \in Replayers,
           ReplayFromDLQ(p) \/ ReplayMoveError(p) \/ RestoreDead(p) \/ ReplayCrash(p)
    PROVE  TypeOK'
<1>1. CASE ReplayFromDLQ(p)
  <2> DEFINE t == replay[p].task
  <2>1. t \in Tasks /\ TaskOK' /\ CountersOK'
    BY <1>1, TaskHeld, HistoryKept DEF ReplayFromDLQ, TypeOK, TaskOK, CountersOK
  <2>2. UNCHANGED <<event, zset, relay, worker, sched, comp>>
    BY <1>1 DEF ReplayFromDLQ
  <2>3. CASE dlq[t] > 0
    <3>1. /\ dlq' = [dlq EXCEPT ![t] = @ - 1]
          /\ PublishReady(t)
          /\ replay' = [replay EXCEPT ![p] = Idle]
      BY <1>1, <2>3 DEF ReplayFromDLQ
    <3>2. ready' \in Seq(Tasks)
      BY <2>1, <3>1, PublishType
    <3>3. QueueOK'
      BY <2>1, <2>2, <2>3, <3>1, <3>2 DEF TypeOK, QueueOK
    <3>4. LoopOK'
      BY <2>2, <3>1 DEF Idle, TypeOK, LoopOK
    <3> QED
      BY <2>1, <3>3, <3>4 DEF TypeOK
  <2>4. CASE ~(dlq[t] > 0)
    <3>1. /\ UNCHANGED <<dlq, ready>>
          /\ replay' = [replay EXCEPT ![p] = [pc |-> "restore", task |-> t]]
      BY <1>1, <2>4 DEF ReplayFromDLQ
    <3>2. QueueOK' /\ LoopOK'
      BY <2>1, <2>2, <3>1, PipelineAssumption DEF TypeOK, QueueOK, LoopOK
    <3> QED
      BY <2>1, <3>2 DEF TypeOK
  <2> QED
    BY <2>3, <2>4
<1>2. CASE ReplayMoveError(p)
  <2> DEFINE t == replay[p].task
  <2>1. t \in Tasks /\ TaskOK' /\ CountersOK'
    BY <1>2, TaskHeld, HistoryKept DEF ReplayMoveError, Fault, TypeOK, TaskOK, CountersOK
  <2>2. ready' \in Seq(Tasks) /\ dlq' \in [Tasks -> Nat]
    <3>1. CASE dlq[t] > 0 /\ dlq' = [dlq EXCEPT ![t] = @ - 1] /\ PublishReady(t)
      BY <2>1, <3>1, PublishType DEF TypeOK, QueueOK
    <3>2. CASE UNCHANGED <<dlq, ready>>
      BY <3>2 DEF TypeOK, QueueOK
    <3> QED
      BY <1>2, <3>1, <3>2 DEF ReplayMoveError
  <2> QED
    BY <1>2, <2>1, <2>2 DEF ReplayMoveError, TypeOK, QueueOK, LoopOK
<1>3. CASE RestoreDead(p)
  BY <1>3, TaskHeld, PipelineAssumption, HistoryKept
     DEF RestoreDead, Row, Idle, TaskStatus, When, TypeOK, TaskOK, QueueOK, LoopOK,
         CountersOK
<1>4. CASE ReplayCrash(p)
  BY <1>4, TaskHeld, PipelineAssumption, HistoryKept
     DEF ReplayCrash, Fault, Idle, TypeOK, TaskOK, QueueOK, LoopOK, CountersOK
<1> QED
  BY <1>1, <1>2, <1>3, <1>4

\* So do the creation of a task and the passing of time.
LEMMA TimeType ==
    ASSUME TypeOK, NEW t \in Tasks,
           \/ Create(t) \/ Age(t) \/ Stall(t) \/ EventAge(t) \/ EventDue(t)
           \/ TaskDue(t) \/ RetryDue(t)
    PROVE  TypeOK'
<1>1. CASE Create(t)
  BY <1>1, HistoryKept
     DEF Create, Row, EventRow, TaskStatus, When, EventStatus, TypeOK, TaskOK, QueueOK,
         LoopOK, CountersOK
<1>2. CASE Age(t)
  <2>1. TaskOK'
    BY <1>2, RowFields, TaskPut DEF Age, TypeOK, TaskOK, TaskRow
  <2> QED
    BY <1>2, <2>1, HistoryKept DEF Age, TypeOK, QueueOK, LoopOK, CountersOK
<1>3. CASE Stall(t)
  <2>1. TaskOK'
    BY <1>3, RowFields, TaskPut DEF Stall, TypeOK, TaskOK, TaskRow
  <2> QED
    BY <1>3, <2>1, HistoryKept DEF Stall, Fault, TypeOK, QueueOK, LoopOK, CountersOK
<1>4. CASE EventAge(t)
  <2>1. event' \in [Tasks -> EventRows]
    <3>1. event \in [Tasks -> EventRows]
      BY DEF TypeOK, QueueOK, EventRows
    <3>2. event' = [event EXCEPT ![t] = [event[t] EXCEPT !.old = TRUE]]
      BY <1>4 DEF EventAge
    <3> QED
      BY <3>1, <3>2, RowFields
  <2> QED
    BY <1>4, <2>1, HistoryKept DEF EventAge, EventRows, TypeOK, TaskOK, QueueOK, LoopOK, CountersOK
<1>5. CASE EventDue(t)
  <2>1. event' \in [Tasks -> EventRows]
    <3>1. event \in [Tasks -> EventRows]
      BY DEF TypeOK, QueueOK, EventRows
    <3>2. event' = [event EXCEPT ![t] = [event[t] EXCEPT !.due = TRUE]]
      BY <1>5 DEF EventDue
    <3> QED
      BY <3>1, <3>2, RowFields
  <2> QED
    BY <1>5, <2>1, HistoryKept DEF EventDue, EventRows, TypeOK, TaskOK, QueueOK, LoopOK, CountersOK
<1>6. CASE TaskDue(t)
  <2>1. TaskOK'
    BY <1>6, RowFields, TaskPut DEF TaskDue, TypeOK, TaskOK, TaskRow
  <2> QED
    BY <1>6, <2>1, HistoryKept DEF TaskDue, TypeOK, QueueOK, LoopOK, CountersOK
<1>7. CASE RetryDue(t)
  BY <1>7, HistoryKept
     DEF RetryDue, When, TypeOK, TaskOK, QueueOK, LoopOK, CountersOK
<1> QED
  BY <1>1, <1>2, <1>3, <1>4, <1>5, <1>6, <1>7

\* A Redis command that is executed and sent again, and a Redis that forgets.
RedisFaults ==
    \/ \E x \in Relays : RelayResend(x)
    \/ \E w \in Workers : WorkerResend(w)
    \/ \E s \in Schedulers : SchedResend(s)
    \/ \E c \in Compensators : CompResend(c)
    \/ \E p \in Replayers : ReplayResend(p)
    \/ RedisFlush

\* They touch neither MySQL nor the state of a loop.
LEMMA RedisKeeps ==
    ASSUME RedisFaults
    PROVE  /\ UNCHANGED <<task, event, relay, worker, sched, comp, replay, replays, taken>>
           /\ dropped \subseteq dropped'
BY DEF RedisFaults, RelayResend, WorkerResend, SchedResend, CompResend, ReplayResend, RedisFlush

\* What the queues are after one, and how many letters more there are than repeated.
LEMMA RedisQueues ==
    ASSUME TypeOK, RedisFaults
    PROVE  /\ ready' \in Seq(Tasks) /\ zset' \in [Tasks -> When] /\ dlq' \in [Tasks -> Nat]
           /\ dropped' \subseteq Tasks /\ faults' \in Nat /\ resent' \in [Tasks -> Nat]
           /\ \A t \in Tasks : dlq'[t] + resent[t] <= dlq[t] + resent'[t]
<1>0. /\ ready \in Seq(Tasks) /\ zset \in [Tasks -> When] /\ dlq \in [Tasks -> Nat]
      /\ dropped \subseteq Tasks /\ faults \in Nat /\ resent \in [Tasks -> Nat]
      /\ {"NONE", "FUTURE", "DUE"} \subseteq When
  BY DEF TypeOK, QueueOK, CountersOK, HistoryOK, When
<1>1. ASSUME NEW x \in Relays, RelayResend(x)
      PROVE  /\ ready' \in Seq(Tasks) /\ faults' = faults + 1
             /\ UNCHANGED <<zset, dlq, dropped, resent>>
  BY <1>1, PublishType, TaskHeld DEF RelayResend, Fault
<1>2. CASE \E w \in Workers : WorkerResend(w)
  <2>1. PICK w \in Workers : WorkerResend(w)
    BY <1>2
  <2>2. worker[w].task \in Tasks
    BY <2>1, TaskHeld DEF WorkerResend
  <2>3. UNCHANGED <<ready, dropped>> /\ faults' = faults + 1
    BY <2>1 DEF WorkerResend, Fault
  <2>4. CASE /\ dlq' = [dlq EXCEPT ![worker[w].task] = @ + 1]
             /\ resent' = [resent EXCEPT ![worker[w].task] = @ + 1]
             /\ zset' = zset
    BY <1>0, <2>2, <2>3, <2>4
  <2>5. CASE zset' = [zset EXCEPT ![worker[w].task] = "FUTURE"] /\ UNCHANGED <<dlq, resent>>
    BY <1>0, <2>2, <2>3, <2>5
  <2> QED
    BY <2>1, <2>4, <2>5 DEF WorkerResend
<1>3. ASSUME NEW s \in Schedulers, SchedResend(s)
      PROVE  /\ ready' \in Seq(Tasks) /\ zset' \in [Tasks -> When] /\ faults' = faults + 1
             /\ UNCHANGED <<dlq, dropped, resent>>
  <2>1. UNCHANGED <<dlq, dropped, resent>> /\ faults' = faults + 1
    BY <1>3 DEF SchedResend, Fault
  <2>2. \/ ready' = ready /\ \E t : zset' = [zset EXCEPT ![t] = "NONE"]
        \/ ready' = ready /\ zset' = [zset EXCEPT ![sched[s].task] = "DUE"]
        \/ sched[s].pc = "push" /\ PublishReady(sched[s].task) /\ zset' = zset
    BY <1>3 DEF SchedResend
  <2>3. CASE ready' = ready
    BY <1>0, <2>1, <2>2, <2>3
  <2>4. CASE sched[s].pc = "push" /\ PublishReady(sched[s].task) /\ zset' = zset
    BY <1>0, <2>1, <2>4, PublishType, TaskHeld
  <2> QED
    BY <2>2, <2>3, <2>4
<1>4. ASSUME NEW c \in Compensators, CompResend(c)
      PROVE  /\ zset' \in [Tasks -> When] /\ faults' = faults + 1
             /\ UNCHANGED <<ready, dlq, dropped, resent>>
  BY <1>0, <1>4 DEF CompResend, Fault
<1>5. CASE \E p \in Replayers : ReplayResend(p)
  <2>1. PICK p \in Replayers : ReplayResend(p)
    BY <1>5
  <2>2. replay[p].task \in Tasks /\ dlq[replay[p].task] > 0
    BY <2>1, TaskHeld DEF ReplayResend
  <2>3. /\ ready' \in Seq(Tasks) /\ faults' = faults + 1
        /\ UNCHANGED <<zset, dropped, resent>>
        /\ dlq' = [dlq EXCEPT ![replay[p].task] = @ - 1]
    BY <2>1, <2>2, PublishType DEF ReplayResend, Fault
  <2> QED
    BY <1>0, <2>2, <2>3
<1>6. CASE RedisFlush
  <2>1. /\ ready' = <<>> /\ zset' = [t \in Tasks |-> "NONE"] /\ dlq' = [t \in Tasks |-> 0]
        /\ dropped' = dropped \union {ready[i] : i \in 1 .. Len(ready)}
        /\ faults' = faults + 1 /\ resent' = resent
    BY <1>6 DEF RedisFlush, Fault
  <2>2. \A i \in 1 .. Len(ready) : ready[i] \in Tasks
    BY <1>0
  <2> QED
    BY <1>0, <2>1, <2>2
<1>7. \A t \in Tasks : dlq[t] + resent[t] <= dlq[t] + resent[t]
  BY <1>0
<1> QED
  BY <1>0, <1>1, <1>2, <1>3, <1>4, <1>5, <1>6, <1>7 DEF RedisFaults

\* So they keep the types.
LEMMA RedisType ==
    ASSUME TypeOK, RedisFaults
    PROVE  TypeOK'
BY RedisKeeps, RedisQueues DEF TypeOK, TaskOK, QueueOK, LoopOK, CountersOK, HistoryOK

\* The empty tables and queues are well typed.
LEMMA InitType == Init => TypeOK
BY PipelineAssumption
   DEF Init, TypeOK, TaskOK, QueueOK, LoopOK, CountersOK, HistoryOK, Row, EventRow, Idle,
       IdleLoop, IdleComp, TaskStatus, EventStatus, When

\* Every step of the pipeline keeps the types.
LEMMA NextType ==
    ASSUME TypeOK, Next
    PROVE  TypeOK'
<1>1. CASE \E t \in Tasks : Create(t) \/ Tick(t) \/ Stall(t)
  BY <1>1, TimeType DEF Tick
<1>2. CASE \E x \in Relays : \/ RelayNext(x)
                            \/ RelayPublishError(x) \/ MarkEventError(x) \/ RelayCrash(x)
  BY <1>2, RelayType DEF RelayNext
<1>3. CASE \E w \in Workers : \/ WorkerNext(w)
                             \/ TryMarkRunningLost(w) \/ MarkSuccessError(w)
                             \/ MarkFailedError(w) \/ WorkerCrash(w)
  BY <1>3, WorkerType DEF WorkerNext
<1>4. CASE \E s \in Schedulers : SchedNext(s) \/ SchedPushError(s) \/ SchedCrash(s)
  BY <1>4, SchedulerType DEF SchedNext
<1>5. CASE \E c \in Compensators : CompNext(c) \/ CompSkip(c) \/ CompCrash(c)
  BY <1>5, CompensatorType DEF CompNext
<1>6. CASE \E p \in Replayers : ReplayNext(p) \/ ReplayMoveError(p) \/ ReplayCrash(p)
  BY <1>6, ReplayType DEF ReplayNext
<1>7. CASE \E p \in Replayers : \E t \in Tasks : MarkReplayReady(p, t)
  BY <1>7, MarkReplayReadyType
<1>8. CASE RedisFaults
  BY <1>8, RedisType
<1> QED
  BY <1>1, <1>2, <1>3, <1>4, <1>5, <1>6, <1>7, <1>8 DEF Next, Failure, RedisFaults

\* Type correctness: in particular a loop holds a task id exactly while its program
\* counter says so, and the ready list holds task ids only.
THEOREM PipelineTypeCorrect == Spec => []TypeOK
<1>1. TypeOK /\ UNCHANGED vars => TypeOK'
  BY DEF vars, TypeOK, TaskOK, QueueOK, LoopOK, CountersOK, HistoryOK
<1>2. TypeOK /\ [Next]_vars => TypeOK'
  BY <1>1, NextType
<1> QED
  BY InitType, <1>2, PTL DEF Spec

-----------------------------------------------------------------------------
\* The view of async_tasks that TaskLifecycle has.
Rows == [t \in Tasks |-> [status |-> task[t].status, retry |-> task[t].retry]]

\* An UPDATE of one row is a move of the state machine.
LEMMA MoveRow ==
    ASSUME TypeOK, NEW t \in Tasks, NEW s, NEW to, NEW d \in Nat,
           task[t].status = s, replays' = replays,
           \E next : task' = [task EXCEPT ![t] = Row(to, task[t].retry + d, next)]
    PROVE  \A from : s \in from => A!Move(t, from, to, d)
<1> PICK next : task' = [task EXCEPT ![t] = Row(to, task[t].retry + d, next)]
  OBVIOUS
<1>1. task \in [Tasks -> TaskRow]
  BY DEF TypeOK, TaskOK, TaskRow
<1>2. /\ task'[t].status = to /\ task'[t].retry = task[t].retry + d
      /\ \A u \in Tasks \ {t} : task'[u] = task[u]
  BY <1>1 DEF Row
<1>3. Rows' = [Rows EXCEPT ![t] = [status |-> to, retry |-> @.retry + d]]
  BY <1>2 DEF Rows
<1>4. Rows[t].status = s
  BY DEF Rows
<1> QED
  BY <1>3, <1>4 DEF A!Move, Rows

\* An UPDATE that leaves retry_count alone.
LEMMA SetRow ==
    ASSUME TypeOK, NEW t \in Tasks, NEW to, replays' = replays,
           \E next : task' = [task EXCEPT ![t] = Row(to, task[t].retry, next)]
    PROVE  \A from : task[t].status \in from => A!Move(t, from, to, 0)
<1>1. task[t].retry + 0 = task[t].retry
  BY DEF TypeOK, TaskOK
<1>2. PICK s : task[t].status = s
  OBVIOUS
<1> QED
  BY <1>1, <1>2, MoveRow

\* What the two transactions of a worker on a RUNNING row do to the state machine.
LEMMA FinishRow ==
    ASSUME TypeOK, NEW t \in Tasks, replays' = replays,
           \/ SetSuccess(t) \/ SetSuspended(t)
           \/ task' = [task EXCEPT ![t] = FailedRow(task[t])]
    PROVE  task' = task \/ A!Succeed(t) \/ A!Suspend(t) \/ A!Fail(t) \/ A!Exhaust(t)
<1>1. CASE task[t].status # "RUNNING"
  BY <1>1 DEF SetSuccess, SetSuspended, FailedRow, TypeOK, TaskOK
<1>2. CASE task[t].status = "RUNNING" /\ SetSuccess(t)
  <2>1. task' = [task EXCEPT ![t] = Row("SUCCESS", task[t].retry, "NONE")]
    BY <1>2 DEF SetSuccess
  <2>2. A!Move(t, {"RUNNING"}, "SUCCESS", 0)
    BY <1>2, <2>1, SetRow
  <2> QED
    BY <2>2 DEF A!Succeed
<1>3. CASE task[t].status = "RUNNING" /\ SetSuspended(t)
  <2>1. task' = [task EXCEPT ![t] = Row("SUSPENDED", task[t].retry, "NONE")]
    BY <1>3 DEF SetSuspended
  <2>2. A!Move(t, {"RUNNING"}, "SUSPENDED", 0)
    BY <1>3, <2>1, SetRow
  <2> QED
    BY <2>2 DEF A!Suspend
<1>4. CASE task[t].status = "RUNNING" /\ task' = [task EXCEPT ![t] = FailedRow(task[t])]
  <2>1. task[t].retry \in Nat /\ Rows[t].retry = task[t].retry
    BY DEF Rows, TypeOK, TaskOK
  <2>2. CASE task[t].retry + 1 >= MaxRetry
    <3>1. A!Move(t, {"RUNNING"}, "DEAD", 1)
      <4>1. task' = [task EXCEPT ![t] = Row("DEAD", task[t].retry + 1, "NONE")]
        BY <1>4, <2>2 DEF FailedRow
      <4> QED
        BY <1>4, <4>1, MoveRow
    <3> QED
      BY <2>1, <2>2, <3>1 DEF A!Exhaust, Rows
  <2>3. CASE ~(task[t].retry + 1 >= MaxRetry)
    <3>1. A!Move(t, {"RUNNING"}, "FAILED", 1)
      <4>1. task' = [task EXCEPT ![t] = Row("FAILED", task[t].retry + 1, "FUTURE")]
        BY <1>4, <2>3 DEF FailedRow
      <4> QED
        BY <1>4, <4>1, MoveRow
    <3> QED
      BY <2>1, <2>3, <3>1, PipelineAssumption DEF A!Fail, Rows
  <2> QED
    BY <2>2, <2>3
<1> QED
  BY <1>1, <1>2, <1>3, <1>4

\* The steps that write async_tasks, one by one.
LEMMA RelayRows ==
    ASSUME NEW x \in Relays,
           \/ RelayNext(x) \/ RelayPublishError(x) \/ MarkEventError(x) \/ RelayCrash(x)
    PROVE  UNCHANGED <<task, replays>>
BY DEF RelayNext, RelayRecover, RelayList, TryMarkDispatching, RelayPublish, MarkPublished,
       MarkRetry, RelayPublishError, MarkEventError, RelayCrash

\* A worker only claims a retryable row and finishes a RUNNING one.
LEMMA WorkerRows ==
    ASSUME TypeOK, NEW w \in Workers,
           \/ WorkerNext(w) \/ TryMarkRunningLost(w) \/ MarkSuccessError(w)
           \/ MarkFailedError(w) \/ WorkerCrash(w)
    PROVE  A!Next \/ UNCHANGED <<task, replays>>
<1>0. PICK t : t = worker[w].task
  OBVIOUS
<1>1. replays' = replays
  BY DEF WorkerNext, PopReady, TryMarkRunning, Handle, MarkSuccess, MarkSuspended, MarkFailed,
         PushDLQ, ScheduleRetry, TryMarkRunningLost, MarkSuccessError, MarkFailedError, WorkerCrash
<1>2. CASE PopReady(w) \/ Handle(w) \/ PushDLQ(w) \/ ScheduleRetry(w) \/ WorkerCrash(w)
  BY <1>2 DEF PopReady, Handle, PushDLQ, ScheduleRetry, WorkerCrash
<1>3. CASE TryMarkRunning(w) \/ TryMarkRunningLost(w)
  <2>1. t \in Tasks
    BY <1>0, <1>3, TaskHeld DEF TryMarkRunning, TryMarkRunningLost
  <2>2. CASE task[t].status \in {"PENDING", "FAILED"}
    <3>1. task' = [task EXCEPT ![t] = Row("RUNNING", task[t].retry, task[t].next)]
      BY <1>0, <1>3, <2>2 DEF TryMarkRunning, TryMarkRunningLost
    <3>2. A!Run(t)
      BY <1>1, <2>1, <2>2, <3>1, SetRow DEF A!Run
    <3> QED
      BY <2>1, <3>2 DEF A!Next
  <2>3. CASE task[t].status \notin {"PENDING", "FAILED"}
    BY <1>0, <1>1, <1>3, <2>3 DEF TryMarkRunning, TryMarkRunningLost
  <2> QED
    BY <2>2, <2>3
<1>4. CASE \/ MarkSuccess(w) \/ MarkSuccessError(w) \/ MarkSuspended(w)
           \/ MarkFailed(w) \/ MarkFailedError(w)
  <2>1. t \in Tasks
    BY <1>0, <1>4, TaskHeld
       DEF MarkSuccess, MarkSuccessError, MarkSuspended, MarkFailed, MarkFailedError
  <2>2. \/ task' = task \/ SetSuccess(t) \/ SetSuspended(t)
        \/ task' = [task EXCEPT ![t] = FailedRow(task[t])]
    BY <1>0, <1>4 DEF MarkSuccess, MarkSuccessError, MarkSuspended, MarkFailed, MarkFailedError
  <2>3. task' = task \/ A!Succeed(t) \/ A!Suspend(t) \/ A!Fail(t) \/ A!Exhaust(t)
    BY <1>1, <2>1, <2>2, FinishRow
  <2> QED
    BY <1>1, <2>1, <2>3 DEF A!Next
<1> QED
  BY <1>2, <1>3, <1>4 DEF WorkerNext

\* The compensator only takes over RUNNING and SUSPENDED rows.
LEMMA CompensatorRows ==
    ASSUME TypeOK, NEW c \in Compensators, CompNext(c) \/ CompSkip(c) \/ CompCrash(c)
    PROVE  A!Next \/ UNCHANGED <<task, replays>>
<1>1. CASE MarkRecovered(c)
  <2>1. PICK t \in comp[c].stale :
           IF task[t].status \in {"RUNNING", "SUSPENDED"}
           THEN task' = [task EXCEPT ![t] = Row("FAILED", task[t].retry, "DUE")]
           ELSE task' = task
    BY <1>1 DEF MarkRecovered
  <2>2. t \in Tasks /\ replays' = replays
    BY <1>1 DEF MarkRecovered, TypeOK, LoopOK
  <2>3. CASE task[t].status \in {"RUNNING", "SUSPENDED"}
    <3>1. A!Recover(t)
      BY <2>1, <2>2, <2>3, SetRow DEF A!Recover
    <3> QED
      BY <2>2, <3>1 DEF A!Next
  <2> QED
    BY <2>1, <2>2, <2>3
<1>2. CASE \/ CompListDue(c) \/ CompListSuspended(c) \/ CompListRunning(c)
           \/ CompSchedule(c) \/ CompDone(c) \/ CompSkip(c) \/ CompCrash(c)
  BY <1>2 DEF CompListDue, CompListSuspended, CompListRunning, CompSchedule, CompDone,
              CompSkip, CompCrash
<1> QED
  BY <1>1, <1>2 DEF CompNext

\* A replay reopens DEAD or FAILED, and its fallback closes FAILED.
LEMMA ReopenRows ==
    ASSUME TypeOK, NEW p \in Replayers, NEW t \in Tasks, MarkReplayReady(p, t)
    PROVE  A!Reopen(t)
<1>1. task \in [Tasks -> TaskRow]
  BY DEF TypeOK, TaskOK, TaskRow
<1>2. /\ task[t].status \in {"DEAD", "FAILED"}
      /\ task' = [task EXCEPT ![t] = Row("FAILED", task[t].retry, "NONE")]
      /\ replays' = [replays EXCEPT ![t] = @ + 1]
  BY DEF MarkReplayReady
<1>3. Rows' = [Rows EXCEPT ![t].status = "FAILED"]
  BY <1>1, <1>2 DEF Row, Rows, TaskRow
<1>4. Rows[t].status \in {"DEAD", "FAILED"}
  BY <1>2 DEF Rows
<1> QED
  BY <1>2, <1>3, <1>4 DEF A!Reopen, Rows

\* The rest of a replay closes FAILED or leaves the table alone.
LEMMA ReplayRows ==
    ASSUME TypeOK, NEW p \in Replayers, ReplayNext(p) \/ ReplayMoveError(p) \/ ReplayCrash(p)
    PROVE  A!Next \/ UNCHANGED <<task, replays>>
<1>1. CASE RestoreDead(p)
  <2>0. PICK t : t = replay[p].task
    OBVIOUS
  <2>1. t \in Tasks /\ replays' = replays
    BY <1>1, <2>0, TaskHeld DEF RestoreDead
  <2>2. CASE task[t].status \in {"FAILED"}
    <3>1. task' = [task EXCEPT ![t] = Row("DEAD", task[t].retry, task[t].next)]
      BY <1>1, <2>0, <2>2 DEF RestoreDead
    <3>2. A!CloseAgain(t)
      BY <2>1, <2>2, <3>1, SetRow DEF A!CloseAgain
    <3> QED
      BY <2>1, <3>2 DEF A!Next
  <2>3. CASE task[t].status \notin {"FAILED"}
    BY <1>1, <2>0, <2>1, <2>3 DEF RestoreDead
  <2> QED
    BY <2>2, <2>3
<1>2. CASE ReplayFromDLQ(p) \/ ReplayMoveError(p) \/ ReplayCrash(p)
  BY <1>2 DEF ReplayFromDLQ, ReplayMoveError, ReplayCrash
<1> QED
  BY <1>1, <1>2 DEF ReplayNext

\* The passing of time changes no status and no retry_count; a commit adds a row.
LEMMA TimeRows ==
    ASSUME TypeOK, NEW t \in Tasks, Create(t) \/ Tick(t) \/ Stall(t)
    PROVE  A!Next \/ (Rows' = Rows /\ replays' = replays)
<1>1. task \in [Tasks -> TaskRow]
  BY DEF TypeOK, TaskOK, TaskRow
<1>2. CASE Create(t)
  <2>1. /\ task[t].status = "ABSENT" /\ replays' = replays
        /\ task' = [task EXCEPT ![t] = Row("PENDING", 0, "NONE")]
    BY <1>2 DEF Create
  <2>2. Rows' = [Rows EXCEPT ![t] = [status |-> "PENDING", retry |-> 0]]
    BY <1>1, <2>1 DEF Row, Rows
  <2>3. Rows[t].status = "ABSENT"
    BY <2>1 DEF Rows
  <2>4. A!Commit(t)
    BY <2>1, <2>2, <2>3 DEF A!Commit, Rows
  <2> QED
    BY <2>4 DEF A!Next
<1>3. CASE EventAge(t) \/ EventDue(t) \/ RetryDue(t)
  BY <1>3 DEF EventAge, EventDue, RetryDue, Rows
<1>4. CASE Age(t) \/ Stall(t) \/ TaskDue(t)
  <2>1. \/ task' = [task EXCEPT ![t] = [task[t] EXCEPT !.old = TRUE]]
        \/ task' = [task EXCEPT ![t] = [task[t] EXCEPT !.next = "DUE"]]
    BY <1>4 DEF Age, Stall, TaskDue
  <2>2. \A u \in Tasks : task'[u].status = task[u].status /\ task'[u].retry = task[u].retry
    BY <1>1, <2>1 DEF TaskRow
  <2>3. Rows' = Rows
    BY <2>2 DEF Rows
  <2> QED
    BY <1>4, <2>3 DEF Age, Stall, TaskDue
<1> QED
  BY <1>2, <1>3, <1>4 DEF Tick

\* Whatever relays, workers, scheduler, compensator and operators do, with calls that
\* fail or lose their answers and loops that crash, async_tasks follows the documented
\* state machine.
THEOREM PipelineImplementsLifecycle == Spec => ImplementsLifecycle
<1>1. Init => A!Init
  BY DEF Init, A!Init, Row
<1>2. TypeOK /\ [Next]_vars => [A!Next]_<<Rows, replays>>
  <2> SUFFICES ASSUME TypeOK, [Next]_vars
               PROVE  A!Next \/ (Rows' = Rows /\ replays' = replays)
    OBVIOUS
  <2>1. UNCHANGED <<task, replays>> => Rows' = Rows /\ replays' = replays
    BY DEF Rows
  <2>2. CASE UNCHANGED vars
    BY <2>1, <2>2 DEF vars
  <2>3. CASE \E t \in Tasks : Create(t) \/ Tick(t) \/ Stall(t)
    BY <2>3, TimeRows
  <2>4. CASE \E x \in Relays : \/ RelayNext(x) \/ RelayPublishError(x)
                              \/ MarkEventError(x) \/ RelayCrash(x)
    BY <2>1, <2>4, RelayRows
  <2>5. CASE \E w \in Workers : \/ WorkerNext(w) \/ TryMarkRunningLost(w)
                               \/ MarkSuccessError(w) \/ MarkFailedError(w) \/ WorkerCrash(w)
    BY <2>1, <2>5, WorkerRows
  <2>6. CASE \E s \in Schedulers : SchedNext(s) \/ SchedPushError(s) \/ SchedCrash(s)
    BY <2>1, <2>6
       DEF SchedNext, SchedList, SchedRem, SchedPush, SchedRestore, SchedPushError, SchedCrash
  <2>7. CASE \E c \in Compensators : CompNext(c) \/ CompSkip(c) \/ CompCrash(c)
    BY <2>1, <2>7, CompensatorRows
  <2>8. CASE \E p \in Replayers : ReplayNext(p) \/ ReplayMoveError(p) \/ ReplayCrash(p)
    BY <2>1, <2>8, ReplayRows
  <2>9. CASE \E p \in Replayers : \E t \in Tasks : MarkReplayReady(p, t)
    BY <2>9, ReopenRows DEF A!Next
  <2>10. CASE RedisFaults
    BY <2>1, <2>10, RedisKeeps
  <2> QED
    BY <2>2, <2>3, <2>4, <2>5, <2>6, <2>7, <2>8, <2>9, <2>10 DEF Next, Failure, RedisFaults
<1> QED
  BY <1>1, <1>2, PipelineTypeCorrect, PTL DEF Spec, ImplementsLifecycle, A!Spec, Rows

\* The theorem about the state machine, for the rows of this module.
B == INSTANCE TaskLifecycleProofs WITH row <- Rows, reopened <- replays

\* A task never fails more often than max_retry plus the number of its replays, however
\* often it was recovered, delivered twice or run by two workers.
THEOREM BudgetSafe == Spec => []RetryBudget
<1>1. B!Spec => []B!RetryBudget
  BY PipelineAssumption, B!LifecycleBudget
<1>2. A!Init => B!Init
  BY DEF A!Init, B!Init, Rows
<1>3. [A!Next]_<<Rows, replays>> => [B!Next]_<<Rows, replays>>
  BY DEF A!Next, B!Next, A!Commit, B!Commit, A!Run, B!Run, A!Succeed, B!Succeed,
         A!Suspend, B!Suspend, A!Fail, B!Fail, A!Exhaust, B!Exhaust, A!Recover, B!Recover,
         A!Reopen, B!Reopen, A!CloseAgain, B!CloseAgain, A!Move, B!Move, Rows
<1>4. B!RetryBudget => RetryBudget
  BY DEF B!RetryBudget, RetryBudget, A!RetryBudget, Rows
<1> QED
  BY <1>1, <1>2, <1>3, <1>4, PipelineImplementsLifecycle, PTL
     DEF ImplementsLifecycle, A!Spec, B!Spec, Rows

-----------------------------------------------------------------------------
\* Exclusive runs.

\* What a row permits: one run while it is RUNNING, or SUCCESS when only the answer of
\* MarkSuccess was lost.
Permit(t) == IF task[t].status \in {"RUNNING", "SUCCESS"} THEN 1 ELSE 0

\* The holders of a task are that one and those it has been taken from.  (Workers need
\* not be a finite set, but those at a task are one.)
RunIInv ==
    \A t \in Tasks :
        /\ IsFiniteSet(Holders(t))
        /\ Cardinality(Holders(t)) <= taken[t] + Permit(t)

HolderPcs == {"handle", "succ", "fail", "suspend"}

\* A worker that is or becomes no holder leaves the other holders in place.
LEMMA HoldersLeave ==
    ASSUME LoopOK, NEW w \in Workers, NEW r, r.pc \notin HolderPcs,
           worker' = [worker EXCEPT ![w] = r]
    PROVE  \A t \in Tasks : Holders(t)' = Holders(t) \ {w}
BY DEF LoopOK, Holders, HolderPcs

\* A worker that goes on with its task as a holder is the only change.
LEMMA HoldersStay ==
    ASSUME LoopOK, NEW w \in Workers, NEW l \in HolderPcs,
           worker' = [worker EXCEPT ![w] = [pc |-> l, task |-> worker[w].task]]
    PROVE  \A t \in Tasks : Holders(t)' = IF worker[w].task = t THEN Holders(t) \union {w}
                                          ELSE Holders(t)
BY DEF LoopOK, Holders, HolderPcs

\* The account of one task: nobody joins it and its permit stays, or a holder leaves it,
\* or one joins as the row becomes RUNNING.
LEMMA RunAccount ==
    ASSUME TypeOK, RunIInv, NEW t \in Tasks, taken'[t] = taken[t],
           \/ Holders(t)' = Holders(t) /\ Permit(t) <= Permit(t)'
           \/ \E w \in Holders(t) : Holders(t)' = Holders(t) \ {w}
           \/ Permit(t) < Permit(t)' /\ \E w : Holders(t)' = Holders(t) \union {w}
    PROVE  /\ IsFiniteSet(Holders(t)')
           /\ Cardinality(Holders(t)') <= taken'[t] + Permit(t)'
<1> DEFINE S == Holders(t)
           T == Holders(t)'
<1>0. /\ IsFiniteSet(S) /\ Cardinality(S) \in Nat /\ taken[t] \in Nat
      /\ Cardinality(S) <= taken[t] + Permit(t)
      /\ Permit(t) \in {0, 1} /\ Permit(t)' \in {0, 1}
  BY FS_CardinalityType DEF RunIInv, TypeOK, CountersOK, HistoryOK, Permit
<1> HIDE DEF S, T
<1>1. ASSUME T = S, Permit(t) <= Permit(t)'
      PROVE  IsFiniteSet(T) /\ Cardinality(T) <= taken[t] + Permit(t)'
  BY <1>0, <1>1
<1>2. ASSUME NEW w \in S, T = S \ {w}
      PROVE  IsFiniteSet(T) /\ Cardinality(T) <= taken[t] + Permit(t)'
  <2>1. IsFiniteSet(S \ {w}) /\ Cardinality(S \ {w}) = Cardinality(S) - 1
    BY <1>0, FS_RemoveElement
  <2> QED
    BY <1>0, <1>2, <2>1
<1>3. ASSUME Permit(t) < Permit(t)', NEW w, T = S \union {w}
      PROVE  IsFiniteSet(T) /\ Cardinality(T) <= taken[t] + Permit(t)'
  <2>0. IsFiniteSet(S) /\ Cardinality(S) \in Nat
    BY <1>0
  <2>1. /\ IsFiniteSet(S \union {w}) /\ Cardinality(S \union {w}) \in Nat
        /\ Cardinality(S \union {w}) <= Cardinality(S) + 1
    BY <2>0, FS_AddElement
  <2> QED
    BY <1>0, <1>3, <2>1
<1>4. \/ T = S /\ Permit(t) <= Permit(t)'
      \/ \E w \in S : T = S \ {w}
      \/ Permit(t) < Permit(t)' /\ \E w : T = S \union {w}
  BY DEF S, T
<1>5. IsFiniteSet(T) /\ Cardinality(T) <= taken[t] + Permit(t)'
  BY <1>1, <1>2, <1>3, <1>4, Zenon
<1> QED
  BY <1>5 DEF T

\* Every step of a worker keeps runs exclusive.
LEMMA WorkerRuns ==
    ASSUME TypeOK, RunIInv, NEW w \in Workers,
           \/ WorkerNext(w) \/ TryMarkRunningLost(w) \/ MarkSuccessError(w)
           \/ MarkFailedError(w) \/ WorkerCrash(w)
    PROVE  RunIInv'
<1>0. /\ LoopOK /\ task \in [Tasks -> TaskRow] /\ taken' = taken
      /\ Idle.pc \notin HolderPcs
  <2>1. taken' = taken
    BY DEF WorkerNext, PopReady, TryMarkRunning, Handle, MarkSuccess, MarkSuspended, MarkFailed,
       PushDLQ, ScheduleRetry, TryMarkRunningLost, MarkSuccessError, MarkFailedError, WorkerCrash
  <2> QED
    BY <2>1 DEF TypeOK, TaskOK, TaskRow, Idle, HolderPcs
<1>1. PICK u : u = worker[w].task
  OBVIOUS
<1> SUFFICES ASSUME NEW t \in Tasks
             PROVE  \/ Holders(t)' = Holders(t) /\ Permit(t) <= Permit(t)'
                    \/ \E v \in Holders(t) : Holders(t)' = Holders(t) \ {v}
                    \/ Permit(t) < Permit(t)' /\ \E v : Holders(t)' = Holders(t) \union {v}
  BY <1>0, RunAccount DEF RunIInv
<1>2. /\ task'[t].status = task[t].status => Permit(t) <= Permit(t)'
      /\ task'[t].status \in {"RUNNING", "SUCCESS"} => Permit(t) <= Permit(t)'
  BY DEF Permit
<1>3. ASSUME NEW r, r.pc \notin HolderPcs, worker' = [worker EXCEPT ![w] = r],
             w \in Holders(t) \/ Permit(t) <= Permit(t)'
      PROVE  \/ Holders(t)' = Holders(t) /\ Permit(t) <= Permit(t)'
             \/ \E v \in Holders(t) : Holders(t)' = Holders(t) \ {v}
  <2>1. Holders(t)' = Holders(t) \ {w}
    BY <1>0, <1>3, HoldersLeave
  <2> QED
    BY <1>3, <2>1
<1>4. CASE PopReady(w)
  <2>1. worker' = [worker EXCEPT ![w] = [pc |-> "popped", task |-> Head(ready)]] /\ task' = task
    BY <1>4 DEF PopReady
  <2>2. [pc |-> "popped", task |-> Head(ready)].pc \notin HolderPcs
    BY DEF HolderPcs
  <2> QED
    BY <1>2, <1>3, <2>1, <2>2
<1>5. CASE PushDLQ(w) \/ ScheduleRetry(w) \/ WorkerCrash(w)
  <2>1. worker' = [worker EXCEPT ![w] = Idle] /\ task' = task
    BY <1>5 DEF PushDLQ, ScheduleRetry, WorkerCrash, Free
  <2> QED
    BY <1>0, <1>2, <1>3, <2>1
<1>6. CASE TryMarkRunning(w)
  <2>1. u \in Tasks /\ worker[w].pc = "popped"
    BY <1>1, <1>6, TaskHeld DEF TryMarkRunning
  <2>2. CASE task[u].status \notin {"PENDING", "FAILED"}
    <3>1. worker' = [worker EXCEPT ![w] = Idle] /\ task' = task
      BY <1>1, <1>6, <2>2 DEF TryMarkRunning, Free
    <3> QED
      BY <1>0, <1>2, <1>3, <3>1
  <2>3. CASE task[u].status \in {"PENDING", "FAILED"}
    <3>1. /\ worker' = [worker EXCEPT ![w] = [pc |-> "handle", task |-> worker[w].task]]
          /\ task' = [task EXCEPT ![u] = Row("RUNNING", task[u].retry, task[u].next)]
      BY <1>1, <1>6, <2>3 DEF TryMarkRunning, At
    <3>2. Holders(t)' = IF u = t THEN Holders(t) \union {w} ELSE Holders(t)
      BY <1>0, <1>1, <3>1, HoldersStay DEF HolderPcs
    <3>3. CASE u = t
      <4>1. task'[t].status = "RUNNING"
        BY <1>0, <3>1, <3>3 DEF Row
      <4>2. Permit(t) < Permit(t)'
        BY <2>3, <3>3, <4>1 DEF Permit
      <4> QED
        BY <3>2, <3>3, <4>2
    <3>4. CASE u # t
      <4>1. task'[t] = task[t]
        BY <1>0, <3>1, <3>4
      <4> QED
        BY <1>2, <3>2, <3>4, <4>1
    <3> QED
      BY <3>3, <3>4
  <2> QED
    BY <2>2, <2>3
<1>7. CASE TryMarkRunningLost(w)
  <2>1. /\ worker' = [worker EXCEPT ![w] = Idle]
        /\ task' = [task EXCEPT ![u] = Row("RUNNING", task[u].retry, task[u].next)]
    BY <1>1, <1>7 DEF TryMarkRunningLost, Free
  <2>2. task'[t].status = "RUNNING" \/ task'[t] = task[t]
    BY <1>0, <2>1 DEF Row
  <2> QED
    BY <1>0, <1>2, <1>3, <2>1, <2>2
<1>8. CASE Handle(w)
  <2>1. PICK l \in {"succ", "fail"} : At(w, l)
    BY <1>8 DEF Handle
  <2>2. w \in Holders(u) /\ task' = task
    BY <1>1, <1>8 DEF Handle, Holders
  <2>3. Holders(t)' = IF u = t THEN Holders(t) \union {w} ELSE Holders(t)
    BY <1>0, <1>1, <2>1, HoldersStay DEF HolderPcs, At
  <2>4. Holders(t)' = Holders(t)
    BY <2>2, <2>3
  <2> QED
    BY <1>2, <2>2, <2>4
<1>9. CASE MarkSuccess(w) \/ MarkSuspended(w) \/ MarkFailed(w) \/ MarkFailedError(w)
  <2>1. w \in Holders(u) /\ u \in Tasks
    BY <1>1, <1>9, TaskHeld DEF MarkSuccess, MarkSuspended, MarkFailed, MarkFailedError, Holders
  <2>2. t # u => task'[t] = task[t]
    BY <1>0, <1>1, <1>9 DEF MarkSuccess, MarkSuspended, MarkFailed, MarkFailedError,
       SetSuccess, SetSuspended
  <2>3. PICK r : worker' = [worker EXCEPT ![w] = r] /\ r.pc \notin HolderPcs
    <3>1. CASE Free(w)
      BY <1>0, <3>1 DEF Free
    <3>2. ASSUME NEW l \in {"dlq", "schedule"}, At(w, l)
          PROVE  \E r : worker' = [worker EXCEPT ![w] = r] /\ r.pc \notin HolderPcs
      <4>1. worker' = [worker EXCEPT ![w] = [pc |-> l, task |-> worker[w].task]]
        BY <3>2 DEF At
      <4>2. [pc |-> l, task |-> worker[w].task].pc \notin HolderPcs
        BY DEF HolderPcs
      <4> QED
        BY <4>1, <4>2
    <3> QED
      BY <1>9, <3>1, <3>2 DEF MarkSuccess, MarkSuspended, MarkFailed, MarkFailedError
  <2> QED
    BY <1>2, <1>3, <2>1, <2>2, <2>3
<1>10. CASE MarkSuccessError(w)
  <2>1. w \in Holders(u) /\ u \in Tasks
    BY <1>1, <1>10, TaskHeld DEF MarkSuccessError, Holders
  <2>2. task'[t].status = task[t].status \/ task'[t].status = "SUCCESS"
    BY <1>0, <1>1, <1>10, <2>1 DEF MarkSuccessError, SetSuccess, Row
  <2>3. Holders(t)' = IF u = t THEN Holders(t) \union {w} ELSE Holders(t)
    BY <1>0, <1>1, <1>10, HoldersStay DEF HolderPcs, At, MarkSuccessError
  <2>4. Holders(t)' = Holders(t)
    BY <2>1, <2>3
  <2> QED
    BY <1>2, <2>2, <2>4
<1> QED
  BY <1>4, <1>5, <1>6, <1>7, <1>8, <1>9, <1>10 DEF WorkerNext

\* A step that is not a worker's takes a permit away only from a task that nobody holds,
\* or counts the holder among those the task was taken from.
LEMMA OtherRuns ==
    ASSUME TypeOK, TypeOK', RunIInv, worker' = worker,
           \A t \in Tasks :
              \/ taken'[t] = taken[t] /\ Permit(t) <= Permit(t)'
              \/ taken'[t] = taken[t] /\ Holders(t) = {}
              \/ taken'[t] = taken[t] + 1
    PROVE  RunIInv'
<1> SUFFICES ASSUME NEW t \in Tasks
             PROVE  /\ IsFiniteSet(Holders(t)')
                    /\ Cardinality(Holders(t)') <= taken'[t] + Permit(t)'
  BY DEF RunIInv
<1>1. Holders(t)' = Holders(t)
  BY DEF Holders
<1>2. /\ IsFiniteSet(Holders(t)) /\ Cardinality(Holders(t)) \in Nat
      /\ Cardinality(Holders(t)) <= taken[t] + Permit(t)
      /\ taken[t] \in Nat /\ taken'[t] \in Nat
      /\ Permit(t) \in {0, 1} /\ Permit(t)' \in {0, 1}
      /\ Holders(t) = {} => Cardinality(Holders(t)) = 0
  BY FS_CardinalityType, FS_EmptySet DEF RunIInv, TypeOK, CountersOK, HistoryOK, Permit
<1> QED
  BY <1>1, <1>2

\* Every step keeps runs exclusive.
LEMMA NextRuns ==
    ASSUME TypeOK, TypeOK', RunIInv, [Next]_vars
    PROVE  RunIInv'
<1>0. task \in [Tasks -> TaskRow] /\ taken \in [Tasks -> Nat]
  BY DEF TypeOK, TaskOK, TaskRow, CountersOK, HistoryOK
<1>1. ASSUME worker' = worker, taken' = taken,
             \A u \in Tasks : \/ task'[u].status = task[u].status
                              \/ task[u].status \notin {"RUNNING", "SUCCESS"}
      PROVE  RunIInv'
  <2>1. \A u \in Tasks : Permit(u) <= Permit(u)'
    BY <1>1 DEF Permit
  <2> QED
    BY <1>1, <2>1, OtherRuns
<1>2. CASE UNCHANGED vars
  BY <1>1, <1>2 DEF vars
<1>3. ASSUME NEW t \in Tasks, Create(t) PROVE RunIInv'
  <2>1. /\ worker' = worker /\ taken' = taken /\ task[t].status = "ABSENT"
        /\ task' = [task EXCEPT ![t] = Row("PENDING", 0, "NONE")]
    BY <1>3 DEF Create
  <2> QED
    BY <1>0, <1>1, <2>1
<1>4. ASSUME NEW t \in Tasks, Tick(t) \/ Stall(t) PROVE RunIInv'
  <2>1. /\ worker' = worker /\ taken' = taken
        /\ \/ task' = task
           \/ task' = [task EXCEPT ![t] = [task[t] EXCEPT !.old = TRUE]]
           \/ task' = [task EXCEPT ![t] = [task[t] EXCEPT !.next = "DUE"]]
    BY <1>4 DEF Tick, Age, EventAge, EventDue, TaskDue, RetryDue, Stall
  <2>2. \A u \in Tasks : task'[u].status = task[u].status
    BY <1>0, <2>1 DEF TaskRow
  <2> QED
    BY <1>1, <2>1, <2>2
<1>5. ASSUME NEW x \in Relays,
             RelayNext(x) \/ RelayPublishError(x) \/ MarkEventError(x) \/ RelayCrash(x)
      PROVE  RunIInv'
  <2>1. worker' = worker /\ taken' = taken /\ task' = task
    BY <1>5 DEF RelayNext, RelayRecover, RelayList, TryMarkDispatching, RelayPublish, MarkPublished,
       MarkRetry, RelayPublishError, MarkEventError, RelayCrash
  <2> QED
    BY <1>1, <2>1
<1>6. ASSUME NEW s \in Schedulers, SchedNext(s) \/ SchedPushError(s) \/ SchedCrash(s)
      PROVE  RunIInv'
  <2>1. worker' = worker /\ taken' = taken /\ task' = task
    BY <1>6 DEF SchedNext, SchedList, SchedRem, SchedPush, SchedRestore, SchedPushError, SchedCrash
  <2> QED
    BY <1>1, <2>1
<1>7. ASSUME NEW c \in Compensators, CompNext(c) \/ CompSkip(c) \/ CompCrash(c)
      PROVE  RunIInv'
  <2>1. CASE MarkRecovered(c)
    <3>1. PICK t \in comp[c].stale :
             IF task[t].status \in {"RUNNING", "SUSPENDED"}
             THEN /\ task' = [task EXCEPT ![t] = Row("FAILED", task[t].retry, "DUE")]
                  /\ taken' = IF Holders(t) = {} THEN taken ELSE [taken EXCEPT ![t] = @ + 1]
             ELSE UNCHANGED <<task, taken>>
      BY <2>1 DEF MarkRecovered
    <3>2. worker' = worker /\ t \in Tasks
      BY <2>1 DEF MarkRecovered, TypeOK, LoopOK
    <3>3. CASE UNCHANGED <<task, taken>>
      BY <1>1, <3>2, <3>3
    <3>4. CASE ~UNCHANGED <<task, taken>>
      <4>1. \A u \in Tasks \ {t} : task'[u] = task[u] /\ taken'[u] = taken[u]
        BY <1>0, <3>1, <3>4
      <4>2. \A u \in Tasks \ {t} : Permit(u) <= Permit(u)'
        BY <4>1 DEF Permit
      <4>3. \/ taken'[t] = taken[t] /\ Holders(t) = {}
            \/ taken'[t] = taken[t] + 1
        BY <1>0, <3>1, <3>2, <3>4
      <4> QED
        BY <3>2, <4>1, <4>2, <4>3, OtherRuns
    <3> QED
      BY <3>3, <3>4
  <2>2. CASE ~MarkRecovered(c)
    <3>1. worker' = worker /\ taken' = taken /\ task' = task
      BY <1>7, <2>2 DEF CompNext, CompListDue, CompListSuspended, CompListRunning, CompSchedule,
         CompDone, CompSkip, CompCrash
    <3> QED
      BY <1>1, <3>1
  <2> QED
    BY <2>1, <2>2
<1>8. ASSUME NEW p \in Replayers, NEW t \in Tasks, MarkReplayReady(p, t) PROVE RunIInv'
  <2>1. /\ worker' = worker /\ taken' = taken /\ task[t].status \in {"DEAD", "FAILED"}
        /\ task' = [task EXCEPT ![t] = Row("FAILED", task[t].retry, "NONE")]
    BY <1>8 DEF MarkReplayReady
  <2> QED
    BY <1>0, <1>1, <2>1
<1>9. ASSUME NEW p \in Replayers, ReplayNext(p) \/ ReplayMoveError(p) \/ ReplayCrash(p)
      PROVE  RunIInv'
  <2>1. worker' = worker /\ taken' = taken
    BY <1>9 DEF ReplayNext, ReplayFromDLQ, RestoreDead, ReplayMoveError, ReplayCrash
  <2>2. PICK t : t = replay[p].task
    OBVIOUS
  <2>3. \/ task' = task
        \/ /\ task[t].status = "FAILED"
           /\ task' = [task EXCEPT ![t] = Row("DEAD", task[t].retry, task[t].next)]
    BY <1>9, <2>2 DEF ReplayNext, ReplayFromDLQ, RestoreDead, ReplayMoveError, ReplayCrash
  <2> QED
    BY <1>0, <1>1, <2>1, <2>3
<1>10. CASE RedisFaults
  BY <1>1, <1>10, RedisKeeps
<1> QED
  BY <1>2, <1>3, <1>4, <1>5, <1>6, <1>7, <1>8, <1>9, <1>10, WorkerRuns
     DEF Next, Failure, RedisFaults

\* One worker at a time has the row's permission to run a task, and every other one at it
\* was declared dead by a compensator, however often the id is delivered and however many
\* workers, schedulers, relays and compensators there are.
THEOREM RunsAreExclusive == Spec => []ExclusiveRun
<1>1. Init => RunIInv
  <2> SUFFICES ASSUME Init, NEW t \in Tasks
               PROVE  /\ IsFiniteSet(Holders(t))
                      /\ Cardinality(Holders(t)) <= taken[t] + Permit(t)
    BY DEF RunIInv
  <2>1. Holders(t) = {}
    BY DEF Init, Holders, Idle
  <2> QED
    BY <2>1, FS_EmptySet DEF Init, Permit, Row
<1>2. TypeOK /\ TypeOK' /\ RunIInv /\ [Next]_vars => RunIInv'
  BY NextRuns
<1>3. RunIInv => ExclusiveRun
  BY DEF RunIInv, ExclusiveRun, Permit
<1> QED
  BY <1>1, <1>2, <1>3, PipelineTypeCorrect, PTL DEF Spec

-----------------------------------------------------------------------------
\* No silent loss.

\* Nothing is on its way for a task that does not exist, and an event is only confirmed
\* once the task has been queued or taken by a worker.
LossIInv ==
    /\ \A t \in Tasks : task[t].status = "ABSENT" =>
          event[t].status = "ABSENT" /\ \A x \in Relays : relay[x].task # t
    /\ \A x \in Relays :
          LET t == relay[x].task
          IN relay[x].pc = "confirm" /\ t \notin dropped /\ task[t].status = "PENDING" => Queued(t)
    /\ NoSilentLoss

Listed(t) == \E i \in 1 .. Len(ready) : ready[i] = t

\* RPUSH adds an id and keeps the others.
LEMMA PublishLists ==
    ASSUME TypeOK, NEW u \in Tasks, PublishReady(u)
    PROVE  Listed(u)' /\ \A t : Listed(t) => Listed(t)'
<1>1. ready \in Seq(Tasks) /\ ready' = Append(ready, u)
  BY DEF TypeOK, QueueOK, PublishReady
<1>2. /\ Len(ready') = Len(ready) + 1 /\ Len(ready) \in Nat
      /\ ready'[Len(ready) + 1] = u
      /\ \A i \in 1 .. Len(ready) : ready'[i] = ready[i]
  BY <1>1
<1> QED
  BY <1>2 DEF Listed

\* BLPOP removes the first id and keeps the others.
LEMMA PopLists ==
    ASSUME TypeOK, ready # <<>>, ready' = Tail(ready), NEW t, Listed(t)
    PROVE  t = Head(ready) \/ Listed(t)'
<1>1. ready \in Seq(Tasks) /\ Len(ready) \in Nat /\ Len(ready) > 0
  BY DEF TypeOK, QueueOK
<1>2. PICK i \in 1 .. Len(ready) : ready[i] = t
  BY DEF Listed
<1>3. CASE i = 1
  BY <1>1, <1>2, <1>3
<1>4. CASE i # 1
  <2>1. i - 1 \in 1 .. Len(Tail(ready)) /\ Tail(ready)[i - 1] = t
    BY <1>1, <1>2, <1>4
  <2> QED
    BY <2>1 DEF Listed
<1> QED
  BY <1>3, <1>4

\* What a step may do to the ready list when no worker pops it.
LEMMA ReadyGrows ==
    ASSUME TypeOK, [Next]_vars, \A w \in Workers : ~PopReady(w), NEW t
    PROVE  Listed(t) => Listed(t)' \/ t \in dropped'
<1>0. ready' = ready \/ (\E u \in Tasks : PublishReady(u)) \/ RedisFlush
  <2>1. CASE UNCHANGED vars
    BY <2>1 DEF vars
  <2>2. ASSUME NEW u \in Tasks, Create(u) \/ Tick(u) \/ Stall(u) PROVE ready' = ready
    BY <2>2 DEF Create, Tick, Age, EventAge, EventDue, TaskDue, RetryDue, Stall
  <2>3. ASSUME NEW x \in Relays,
               RelayNext(x) \/ RelayPublishError(x) \/ MarkEventError(x) \/ RelayCrash(x)
        PROVE  ready' = ready \/ \E u \in Tasks : PublishReady(u)
    BY <2>3, TaskHeld DEF RelayNext, RelayRecover, RelayList, TryMarkDispatching, RelayPublish,
       MarkPublished, MarkRetry, RelayPublishError, MarkEventError, RelayCrash
  <2>4. ASSUME NEW w \in Workers, WorkerNext(w) \/ TryMarkRunningLost(w) \/ MarkSuccessError(w)
                                  \/ MarkFailedError(w) \/ WorkerCrash(w)
        PROVE  ready' = ready
    BY <2>4 DEF WorkerNext, TryMarkRunning, Handle, MarkSuccess, MarkSuspended, MarkFailed,
       PushDLQ, ScheduleRetry, TryMarkRunningLost, MarkSuccessError, MarkFailedError, WorkerCrash
  <2>5. ASSUME NEW s \in Schedulers, SchedNext(s) \/ SchedPushError(s) \/ SchedCrash(s)
        PROVE  ready' = ready \/ \E u \in Tasks : PublishReady(u)
    BY <2>5, TaskHeld DEF SchedNext, SchedList, SchedRem, SchedPush, SchedRestore, SchedPushError,
       SchedCrash
  <2>6. ASSUME NEW c \in Compensators, CompNext(c) \/ CompSkip(c) \/ CompCrash(c)
        PROVE  ready' = ready
    BY <2>6 DEF CompNext, CompListDue, CompListSuspended, CompListRunning, MarkRecovered,
       CompSchedule, CompDone, CompSkip, CompCrash
  <2>7. ASSUME NEW p \in Replayers,
               ReplayNext(p) \/ ReplayMoveError(p) \/ ReplayCrash(p) \/ \E u \in Tasks : MarkReplayReady(p, u)
        PROVE  ready' = ready \/ \E u \in Tasks : PublishReady(u)
    BY <2>7, TaskHeld DEF ReplayNext, ReplayFromDLQ, RestoreDead, ReplayMoveError, ReplayCrash,
       MarkReplayReady
  <2>8. CASE RedisFaults
    BY <2>8, TaskHeld DEF RedisFaults, RelayResend, WorkerResend, SchedResend, CompResend,
       ReplayResend
  <2> QED
    BY <2>1, <2>2, <2>3, <2>4, <2>5, <2>6, <2>7, <2>8 DEF Next, Failure, RedisFaults
<1>1. CASE RedisFlush
  BY <1>1 DEF RedisFlush, Listed
<1> QED
  BY <1>0, <1>1, PublishLists DEF Listed

\* A worker's step.
WorkerSteps(w) ==
    \/ WorkerNext(w) \/ TryMarkRunningLost(w) \/ MarkSuccessError(w) \/ MarkFailedError(w)
    \/ WorkerCrash(w)

\* No other step moves a worker.
LEMMA WorkersMove ==
    ASSUME [Next]_vars
    PROVE  worker' = worker \/ \E w \in Workers : WorkerSteps(w)
<1>1. CASE UNCHANGED vars
  BY <1>1 DEF vars
<1>2. ASSUME NEW u \in Tasks, Create(u) \/ Tick(u) \/ Stall(u) PROVE worker' = worker
  BY <1>2 DEF Create, Tick, Age, EventAge, EventDue, TaskDue, RetryDue, Stall
<1>3. ASSUME NEW x \in Relays,
             RelayNext(x) \/ RelayPublishError(x) \/ MarkEventError(x) \/ RelayCrash(x)
      PROVE  worker' = worker
  BY <1>3 DEF RelayNext, RelayRecover, RelayList, TryMarkDispatching, RelayPublish,
     MarkPublished, MarkRetry, RelayPublishError, MarkEventError, RelayCrash
<1>4. ASSUME NEW s \in Schedulers, SchedNext(s) \/ SchedPushError(s) \/ SchedCrash(s)
      PROVE  worker' = worker
  BY <1>4 DEF SchedNext, SchedList, SchedRem, SchedPush, SchedRestore, SchedPushError, SchedCrash
<1>5. ASSUME NEW c \in Compensators, CompNext(c) \/ CompSkip(c) \/ CompCrash(c)
      PROVE  worker' = worker
  BY <1>5 DEF CompNext, CompListDue, CompListSuspended, CompListRunning, MarkRecovered,
     CompSchedule, CompDone, CompSkip, CompCrash
<1>6. ASSUME NEW p \in Replayers,
             ReplayNext(p) \/ ReplayMoveError(p) \/ ReplayCrash(p) \/ \E u \in Tasks : MarkReplayReady(p, u)
      PROVE  worker' = worker
  BY <1>6 DEF ReplayNext, ReplayFromDLQ, RestoreDead, ReplayMoveError, ReplayCrash, MarkReplayReady
<1> QED
  BY <1>1, <1>2, <1>3, <1>4, <1>5, <1>6, RedisKeeps DEF Next, Failure, WorkerSteps, RedisFaults

\* An id in the ready list or with a worker stays there until the worker has made the row
\* RUNNING, unless the worker drops it.
LEMMA QueuedStays ==
    ASSUME TypeOK, [Next]_vars, NEW t \in Tasks, Queued(t), t \notin dropped',
           task'[t].status \in {"PENDING", "FAILED"}
    PROVE  Queued(t)'
<1>0. /\ worker \in [Workers -> [pc : {"idle", "popped", "handle", "succ", "suspend", "fail",
                                       "dlq", "schedule"}, task : Tasks \union {NoTask}]]
      /\ task \in [Tasks -> TaskRow]
  BY DEF TypeOK, LoopOK, TaskOK, TaskRow
<1>1. ASSUME NEW w \in Workers, PopReady(w), Listed(t) PROVE Queued(t)'
  <2>1. CASE t = Head(ready)
    <3>1. worker'[w] = [pc |-> "popped", task |-> t]
      BY <1>0, <1>1, <2>1 DEF PopReady
    <3> QED
      BY <3>1 DEF Queued, Popped
  <2>2. CASE Listed(t)'
    BY <2>2 DEF Queued, Listed
  <2> QED
    BY <1>1, <2>1, <2>2, PopLists DEF PopReady
<1>2. CASE Listed(t)
  <2>1. CASE \E w \in Workers : PopReady(w)
    BY <1>1, <1>2, <2>1
  <2>2. CASE \A w \in Workers : ~PopReady(w)
    <3>1. Listed(t)'
      BY <1>2, <2>2, ReadyGrows
    <3> QED
      BY <3>1 DEF Queued, Listed
  <2> QED
    BY <2>1, <2>2
<1>3. ASSUME NEW v \in Workers, worker[v] = [pc |-> "popped", task |-> t] PROVE Queued(t)'
  <2>1. worker[v].pc = "popped" /\ worker[v].task = t
    BY <1>3
  <2>2. CASE worker'[v] = worker[v]
    BY <1>3, <2>2 DEF Queued, Popped
  <2>3. ASSUME NEW w \in Workers, WorkerSteps(w) PROVE Queued(t)'
    <3>1. CASE w # v
      <4>1. \E r : worker' = [worker EXCEPT ![w] = r]
        BY <2>3 DEF WorkerSteps, WorkerNext, PopReady, TryMarkRunning, Handle, MarkSuccess,
           MarkSuspended, MarkFailed, PushDLQ, ScheduleRetry, TryMarkRunningLost, MarkSuccessError,
           MarkFailedError, WorkerCrash, Free, At
      <4>2. worker'[v] = worker[v]
        BY <1>0, <3>1, <4>1
      <4> QED
        BY <2>2, <4>2
    <3>2. CASE w = v
      <4>1. TryMarkRunning(v) \/ TryMarkRunningLost(v) \/ WorkerCrash(v)
        BY <2>1, <2>3, <3>2 DEF WorkerSteps, WorkerNext, PopReady, Handle, MarkSuccess,
           MarkSuspended, MarkFailed, PushDLQ, ScheduleRetry, MarkSuccessError, MarkFailedError
      <4>2. ~WorkerCrash(v)
        BY <2>1 DEF WorkerCrash
      <4>3. CASE task[t].status \in {"PENDING", "FAILED"}
        <5>1. task' = [task EXCEPT ![t] = Row("RUNNING", task[t].retry, task[t].next)]
          BY <2>1, <4>1, <4>2, <4>3 DEF TryMarkRunning, TryMarkRunningLost
        <5>2. task'[t].status = "RUNNING"
          BY <1>0, <5>1 DEF Row
        <5> QED
          BY <5>2
      <4>4. CASE task[t].status \notin {"PENDING", "FAILED"}
        <5>1. task' = task
          BY <2>1, <4>1, <4>2, <4>4 DEF TryMarkRunning, TryMarkRunningLost
        <5> QED
          BY <4>4, <5>1
      <4> QED
        BY <4>3, <4>4
    <3> QED
      BY <3>1, <3>2
  <2> QED
    BY <2>2, <2>3, WorkersMove
<1> QED
  BY <1>2, <1>3 DEF Queued, Popped, Listed

\* How a step may change the row of a task: what a row without a retry time that is or
\* becomes FAILED owes to a replay.
RowWrite(t) ==
    \/ /\ task'[t].status = task[t].status
       /\ task'[t].next \in {task[t].next, "DUE"}
    \/ Create(t)
    \/ task'[t].status \in {"RUNNING", "SUCCESS", "SUSPENDED", "DEAD"}
    \/ task'[t].status = "FAILED" /\ task'[t].next # "NONE"
    \/ \E p \in Replayers : MarkReplayReady(p, t)

\* Every step writes rows that way.
LEMMA RowWrites ==
    ASSUME TypeOK, [Next]_vars, NEW t \in Tasks
    PROVE  RowWrite(t)
<1>0. task \in [Tasks -> TaskRow]
  BY DEF TypeOK, TaskOK, TaskRow
<1>1. ASSUME task' = task PROVE RowWrite(t)
  BY <1>1 DEF RowWrite
<1>2. ASSUME NEW u, NEW r, task' = [task EXCEPT ![u] = r],
             \/ r.status \in {"RUNNING", "SUCCESS", "SUSPENDED", "DEAD"}
             \/ r.status = "FAILED" /\ r.next # "NONE"
             \/ r.status = task[u].status /\ r.next \in {task[u].next, "DUE"}
      PROVE  RowWrite(t)
  <2>1. CASE u # t
    BY <1>0, <1>2, <2>1 DEF RowWrite
  <2>2. CASE u = t
    <3>1. task'[t] = r
      BY <1>0, <1>2, <2>2
    <3> QED
      BY <1>2, <2>2, <3>1 DEF RowWrite
  <2> QED
    BY <2>1, <2>2
<1>3. CASE UNCHANGED vars
  BY <1>1, <1>3 DEF vars
<1>4. ASSUME NEW u \in Tasks, Create(u) PROVE RowWrite(t)
  BY <1>0, <1>4 DEF RowWrite, Create
<1>5. ASSUME NEW u \in Tasks, Tick(u) \/ Stall(u) PROVE RowWrite(t)
  <2>1. \/ task' = task
        \/ task' = [task EXCEPT ![u] = [task[u] EXCEPT !.old = TRUE]]
        \/ task' = [task EXCEPT ![u] = [task[u] EXCEPT !.next = "DUE"]]
    BY <1>5 DEF Tick, Age, EventAge, EventDue, TaskDue, RetryDue, Stall
  <2>2. /\ [task[u] EXCEPT !.old = TRUE].status = task[u].status
        /\ [task[u] EXCEPT !.old = TRUE].next = task[u].next
        /\ [task[u] EXCEPT !.next = "DUE"].status = task[u].status
        /\ [task[u] EXCEPT !.next = "DUE"].next = "DUE"
    BY <1>0 DEF TaskRow
  <2> QED
    BY <1>1, <1>2, <2>1, <2>2
<1>6. ASSUME NEW x \in Relays,
             RelayNext(x) \/ RelayPublishError(x) \/ MarkEventError(x) \/ RelayCrash(x)
      PROVE  RowWrite(t)
  BY <1>1, <1>6 DEF RelayNext, RelayRecover, RelayList, TryMarkDispatching, RelayPublish,
     MarkPublished, MarkRetry, RelayPublishError, MarkEventError, RelayCrash
<1>7. ASSUME NEW w \in Workers, WorkerSteps(w) PROVE RowWrite(t)
  <2>1. PICK u : u = worker[w].task
    OBVIOUS
  <2>2. \/ task' = task
        \/ \E r : /\ task' = [task EXCEPT ![u] = r]
                  /\ r.status \in {"RUNNING", "SUCCESS", "SUSPENDED"}
        \/ task' = [task EXCEPT ![u] = FailedRow(task[u])]
    BY <1>7, <2>1 DEF WorkerSteps, WorkerNext, PopReady, TryMarkRunning, Handle, MarkSuccess,
       MarkSuspended, MarkFailed, PushDLQ, ScheduleRetry, TryMarkRunningLost, MarkSuccessError,
       MarkFailedError, WorkerCrash, SetSuccess, SetSuspended, Row
  <2>3. \/ FailedRow(task[u]) = task[u]
        \/ FailedRow(task[u]).status = "DEAD"
        \/ FailedRow(task[u]).status = "FAILED" /\ FailedRow(task[u]).next # "NONE"
    BY DEF FailedRow, Row
  <2> QED
    BY <1>1, <1>2, <2>2, <2>3
<1>8. ASSUME NEW s \in Schedulers, SchedNext(s) \/ SchedPushError(s) \/ SchedCrash(s)
      PROVE  RowWrite(t)
  BY <1>1, <1>8 DEF SchedNext, SchedList, SchedRem, SchedPush, SchedRestore, SchedPushError,
     SchedCrash
<1>9. ASSUME NEW c \in Compensators, CompNext(c) \/ CompSkip(c) \/ CompCrash(c)
      PROVE  RowWrite(t)
  <2>1. task' = task \/ \E u : task' = [task EXCEPT ![u] = Row("FAILED", task[u].retry, "DUE")]
    BY <1>9 DEF CompNext, CompListDue, CompListSuspended, CompListRunning, MarkRecovered,
       CompSchedule, CompDone, CompSkip, CompCrash
  <2>2. \A n : Row("FAILED", n, "DUE").status = "FAILED" /\ Row("FAILED", n, "DUE").next # "NONE"
    BY DEF Row
  <2> QED
    BY <1>1, <1>2, <2>1, <2>2
<1>10. ASSUME NEW p \in Replayers, ReplayNext(p) \/ ReplayMoveError(p) \/ ReplayCrash(p)
       PROVE  RowWrite(t)
  <2>1. task' = task \/ \E u : task' = [task EXCEPT ![u] = Row("DEAD", task[u].retry, task[u].next)]
    BY <1>10 DEF ReplayNext, ReplayFromDLQ, RestoreDead, ReplayMoveError, ReplayCrash
  <2>2. \A n, m : Row("DEAD", n, m).status = "DEAD"
    BY DEF Row
  <2> QED
    BY <1>1, <1>2, <2>1, <2>2
<1>11. ASSUME NEW p \in Replayers, NEW u \in Tasks, MarkReplayReady(p, u) PROVE RowWrite(t)
  <2>1. CASE u = t
    BY <1>11, <2>1 DEF RowWrite
  <2>2. CASE u # t
    BY <1>0, <1>11, <2>2 DEF RowWrite, MarkReplayReady
  <2> QED
    BY <2>1, <2>2
<1> QED
  BY <1>1, <1>3, <1>4, <1>5, <1>6, <1>7, <1>8, <1>9, <1>10, <1>11, RedisKeeps
     DEF Next, Failure, WorkerSteps, RedisFaults

\* How a step may change the outbox event of a task: only a relay that has published it
\* makes it PUBLISHED.
EventWrite(t) ==
    \/ event'[t].status = event[t].status
    \/ Create(t)
    \/ event[t].status # "ABSENT" /\ event'[t].status \in {"PENDING", "DISPATCHING"}
    \/ /\ event[t].status # "ABSENT" /\ event'[t].status = "PUBLISHED"
       /\ \E x \in Relays : relay[x].pc = "confirm" /\ relay[x].task = t

\* Every step writes events that way.
LEMMA EventWrites ==
    ASSUME TypeOK, [Next]_vars, NEW t \in Tasks
    PROVE  EventWrite(t)
<1>0. event \in [Tasks -> EventRows]
  BY DEF TypeOK, QueueOK, EventRows
<1>1. ASSUME event' = event PROVE EventWrite(t)
  BY <1>1 DEF EventWrite
<1>2. CASE UNCHANGED vars
  BY <1>1, <1>2 DEF vars
<1>3. ASSUME NEW u \in Tasks, Create(u) PROVE EventWrite(t)
  BY <1>0, <1>3 DEF EventWrite, Create
<1>4. ASSUME NEW u \in Tasks, Tick(u) \/ Stall(u) PROVE EventWrite(t)
  <2>1. \/ event' = event
        \/ event' = [event EXCEPT ![u] = [event[u] EXCEPT !.old = TRUE]]
        \/ event' = [event EXCEPT ![u] = [event[u] EXCEPT !.due = TRUE]]
    BY <1>4 DEF Tick, Age, EventAge, EventDue, TaskDue, RetryDue, Stall
  <2>2. /\ [event[u] EXCEPT !.old = TRUE].status = event[u].status
        /\ [event[u] EXCEPT !.due = TRUE].status = event[u].status
    BY <1>0 DEF EventRows
  <2>3. event'[t].status = event[t].status
    BY <1>0, <2>1, <2>2
  <2> QED
    BY <2>3 DEF EventWrite
<1>5. ASSUME NEW x \in Relays, RelayRecover(x) PROVE EventWrite(t)
  BY <1>5 DEF EventWrite, RelayRecover, EventRow, StaleDispatching
<1>6. ASSUME NEW x \in Relays, TryMarkDispatching(x) PROVE EventWrite(t)
  <2>1. \/ event' = event
        \/ \E u : /\ event[u].status = "PENDING"
                  /\ event' = [event EXCEPT ![u] = EventRow("DISPATCHING", event[u].due)]
    BY <1>6 DEF TryMarkDispatching
  <2> QED
    BY <1>0, <2>1 DEF EventWrite, EventRow
<1>7. ASSUME NEW x \in Relays, MarkPublished(x) PROVE EventWrite(t)
  <2>1. relay[x].pc = "confirm"
    BY <1>7 DEF MarkPublished
  <2>2. \/ event' = event
        \/ /\ event[relay[x].task].status = "DISPATCHING"
           /\ event' = [event EXCEPT ![relay[x].task] =
                          EventRow("PUBLISHED", event[relay[x].task].due)]
    BY <1>7 DEF MarkPublished
  <2>3. CASE relay[x].task = t
    BY <1>0, <2>1, <2>2, <2>3 DEF EventWrite, EventRow
  <2>4. CASE relay[x].task # t
    BY <1>0, <2>2, <2>4 DEF EventWrite
  <2> QED
    BY <2>3, <2>4
<1>8. ASSUME NEW x \in Relays, MarkRetry(x) PROVE EventWrite(t)
  <2>1. \/ event' = event
        \/ \E u : /\ event[u].status = "DISPATCHING"
                  /\ event' = [event EXCEPT ![u] = EventRow("PENDING", FALSE)]
    BY <1>8 DEF MarkRetry
  <2> QED
    BY <1>0, <2>1 DEF EventWrite, EventRow
<1>9. ASSUME NEW x \in Relays, \/ RelayList(x) \/ RelayPublish(x) \/ RelayPublishError(x)
                               \/ MarkEventError(x) \/ RelayCrash(x)
      PROVE  EventWrite(t)
  BY <1>1, <1>9 DEF RelayList, RelayPublish, RelayPublishError, MarkEventError, RelayCrash
<1>10. ASSUME NEW w \in Workers, WorkerSteps(w) PROVE EventWrite(t)
  BY <1>1, <1>10 DEF WorkerSteps, WorkerNext, PopReady, TryMarkRunning, Handle, MarkSuccess,
     MarkSuspended, MarkFailed, PushDLQ, ScheduleRetry, TryMarkRunningLost, MarkSuccessError,
     MarkFailedError, WorkerCrash
<1>11. ASSUME NEW s \in Schedulers, SchedNext(s) \/ SchedPushError(s) \/ SchedCrash(s)
       PROVE  EventWrite(t)
  BY <1>1, <1>11 DEF SchedNext, SchedList, SchedRem, SchedPush, SchedRestore, SchedPushError,
     SchedCrash
<1>12. ASSUME NEW c \in Compensators, CompNext(c) \/ CompSkip(c) \/ CompCrash(c)
       PROVE  EventWrite(t)
  BY <1>1, <1>12 DEF CompNext, CompListDue, CompListSuspended, CompListRunning, MarkRecovered,
     CompSchedule, CompDone, CompSkip, CompCrash
<1>13. ASSUME NEW p \in Replayers,
              ReplayNext(p) \/ ReplayMoveError(p) \/ ReplayCrash(p) \/ \E u \in Tasks : MarkReplayReady(p, u)
       PROVE  EventWrite(t)
  BY <1>1, <1>13 DEF ReplayNext, ReplayFromDLQ, RestoreDead, ReplayMoveError, ReplayCrash,
     MarkReplayReady
<1> QED
  BY <1>1, <1>2, <1>3, <1>4, <1>5, <1>6, <1>7, <1>8, <1>9, <1>10, <1>11, <1>12, <1>13,
     RedisKeeps DEF Next, Failure, WorkerSteps, RelayNext, RedisFaults

\* How a step may move a relay: it takes over a PENDING event and goes to confirm only
\* once the id is in the ready list.
RelayMove(x) ==
    \/ relay'[x] = relay[x]
    \/ relay'[x].task = NoTask
    \/ /\ relay'[x].pc = "publish" /\ relay'[x].task \in Tasks
       /\ event[relay'[x].task].status = "PENDING"
    \/ /\ relay'[x].pc = "confirm" /\ relay'[x].task = relay[x].task
       /\ \E i \in 1 .. Len(ready') : ready'[i] = relay[x].task
    \/ relay'[x].pc = "retry" /\ relay'[x].task = relay[x].task

\* Every step moves relays that way.
LEMMA RelayMoves ==
    ASSUME TypeOK, [Next]_vars, NEW x \in Relays
    PROVE  RelayMove(x)
<1>0. relay \in [Relays -> [pc : {"idle", "list", "claim", "publish", "confirm", "retry"},
                            todo : SUBSET Tasks, task : Tasks \union {NoTask}]]
  BY DEF TypeOK, LoopOK
<1>1. ASSUME relay' = relay PROVE RelayMove(x)
  BY <1>1 DEF RelayMove
<1>2. ASSUME NEW y, NEW r, relay' = [relay EXCEPT ![y] = r], y # x PROVE RelayMove(x)
  BY <1>0, <1>2 DEF RelayMove
<1>3. ASSUME NEW y \in Relays,
             \/ RelayRecover(y) \/ RelayList(y) \/ MarkPublished(y) \/ MarkRetry(y)
             \/ MarkEventError(y) \/ RelayCrash(y)
      PROVE  RelayMove(x)
  <2>1. PICK l, s : relay' = [relay EXCEPT ![y] = [pc |-> l, todo |-> s, task |-> NoTask]]
    BY <1>3 DEF RelayRecover, RelayList, MarkPublished, MarkRetry, MarkEventError, RelayCrash,
       RelayAt, NextEvent, IdleLoop
  <2> QED
    BY <1>0, <1>2, <2>1 DEF RelayMove
<1>4. ASSUME NEW y \in Relays, TryMarkDispatching(y) PROVE RelayMove(x)
  <2>1. PICK u \in relay[y].todo :
           \/ /\ event[u].status = "PENDING"
              /\ relay' = [relay EXCEPT ![y] = [pc |-> "publish", todo |-> relay[y].todo, task |-> u]]
           \/ NextEvent(y, u)
    BY <1>4 DEF TryMarkDispatching, RelayAt
  <2>2. u \in Tasks
    BY <1>0
  <2>3. CASE NextEvent(y, u)
    <3>1. PICK l, s : relay' = [relay EXCEPT ![y] = [pc |-> l, todo |-> s, task |-> NoTask]]
      BY <2>3 DEF NextEvent
    <3> QED
      BY <1>0, <1>2, <3>1 DEF RelayMove
  <2>4. CASE ~NextEvent(y, u)
    BY <1>0, <1>2, <2>1, <2>2, <2>4 DEF RelayMove
  <2> QED
    BY <2>3, <2>4
<1>5. ASSUME NEW y \in Relays, RelayPublish(y) PROVE RelayMove(x)
  <2>1. /\ relay' = [relay EXCEPT ![y] = [pc |-> "confirm", todo |-> relay[y].todo,
                                          task |-> relay[y].task]]
        /\ PublishReady(relay[y].task) /\ relay[y].task \in Tasks
    BY <1>5, TaskHeld DEF RelayPublish, RelayAt
  <2>2. \E i \in 1 .. Len(ready') : ready'[i] = relay[y].task
    BY <2>1, PublishLists DEF Listed
  <2> QED
    BY <1>0, <1>2, <2>1, <2>2 DEF RelayMove
<1>6. ASSUME NEW y \in Relays, RelayPublishError(y) PROVE RelayMove(x)
  <2>1. relay' = [relay EXCEPT ![y] = [pc |-> "retry", todo |-> relay[y].todo,
                                       task |-> relay[y].task]]
    BY <1>6 DEF RelayPublishError, RelayAt
  <2> QED
    BY <1>0, <1>2, <2>1 DEF RelayMove
<1>7. CASE UNCHANGED vars
  BY <1>1, <1>7 DEF vars
<1>8. ASSUME NEW u \in Tasks, Create(u) \/ Tick(u) \/ Stall(u) PROVE RelayMove(x)
  BY <1>1, <1>8 DEF Create, Tick, Age, EventAge, EventDue, TaskDue, RetryDue, Stall
<1>9. ASSUME NEW w \in Workers, WorkerSteps(w) PROVE RelayMove(x)
  BY <1>1, <1>9 DEF WorkerSteps, WorkerNext, PopReady, TryMarkRunning, Handle, MarkSuccess,
     MarkSuspended, MarkFailed, PushDLQ, ScheduleRetry, TryMarkRunningLost, MarkSuccessError,
     MarkFailedError, WorkerCrash
<1>10. ASSUME NEW s \in Schedulers, SchedNext(s) \/ SchedPushError(s) \/ SchedCrash(s)
       PROVE  RelayMove(x)
  BY <1>1, <1>10 DEF SchedNext, SchedList, SchedRem, SchedPush, SchedRestore, SchedPushError,
     SchedCrash
<1>11. ASSUME NEW c \in Compensators, CompNext(c) \/ CompSkip(c) \/ CompCrash(c)
       PROVE  RelayMove(x)
  BY <1>1, <1>11 DEF CompNext, CompListDue, CompListSuspended, CompListRunning, MarkRecovered,
     CompSchedule, CompDone, CompSkip, CompCrash
<1>12. ASSUME NEW p \in Replayers,
              ReplayNext(p) \/ ReplayMoveError(p) \/ ReplayCrash(p) \/ \E u \in Tasks : MarkReplayReady(p, u)
       PROVE  RelayMove(x)
  BY <1>1, <1>12 DEF ReplayNext, ReplayFromDLQ, RestoreDead, ReplayMoveError, ReplayCrash,
     MarkReplayReady
<1> QED
  BY <1>1, <1>3, <1>4, <1>5, <1>6, <1>7, <1>8, <1>9, <1>10, <1>11, <1>12, RedisKeeps
     DEF Next, Failure, WorkerSteps, RelayNext, RedisFaults

\* A replay's step.
ReplaySteps(p) ==
    \/ ReplayNext(p) \/ ReplayMoveError(p) \/ ReplayCrash(p) \/ \E u \in Tasks : MarkReplayReady(p, u)

\* No other step moves a replay; and what is dropped stays dropped.
LEMMA ReplaysMove ==
    ASSUME [Next]_vars
    PROVE  /\ replay' = replay \/ \E p \in Replayers : ReplaySteps(p)
           /\ dropped \subseteq dropped'
<1>1. CASE UNCHANGED vars
  BY <1>1 DEF vars
<1>2. ASSUME NEW u \in Tasks, Create(u) \/ Tick(u) \/ Stall(u)
      PROVE  replay' = replay /\ dropped' = dropped
  BY <1>2 DEF Create, Tick, Age, EventAge, EventDue, TaskDue, RetryDue, Stall
<1>3. ASSUME NEW x \in Relays,
             RelayNext(x) \/ RelayPublishError(x) \/ MarkEventError(x) \/ RelayCrash(x)
      PROVE  replay' = replay /\ dropped' = dropped
  BY <1>3 DEF RelayNext, RelayRecover, RelayList, TryMarkDispatching, RelayPublish,
     MarkPublished, MarkRetry, RelayPublishError, MarkEventError, RelayCrash
<1>4. ASSUME NEW w \in Workers, WorkerSteps(w)
      PROVE  replay' = replay /\ dropped \subseteq dropped'
  BY <1>4 DEF WorkerSteps, WorkerNext, PopReady, TryMarkRunning, Handle, MarkSuccess,
     MarkSuspended, MarkFailed, PushDLQ, ScheduleRetry, TryMarkRunningLost, MarkSuccessError,
     MarkFailedError, WorkerCrash
<1>5. ASSUME NEW s \in Schedulers, SchedNext(s) \/ SchedPushError(s) \/ SchedCrash(s)
      PROVE  replay' = replay /\ dropped' = dropped
  BY <1>5 DEF SchedNext, SchedList, SchedRem, SchedPush, SchedRestore, SchedPushError, SchedCrash
<1>6. ASSUME NEW c \in Compensators, CompNext(c) \/ CompSkip(c) \/ CompCrash(c)
      PROVE  replay' = replay /\ dropped' = dropped
  BY <1>6 DEF CompNext, CompListDue, CompListSuspended, CompListRunning, MarkRecovered,
     CompSchedule, CompDone, CompSkip, CompCrash
<1>7. ASSUME NEW p \in Replayers, ReplaySteps(p) PROVE dropped \subseteq dropped'
  BY <1>7 DEF ReplaySteps, ReplayNext, ReplayFromDLQ, RestoreDead, ReplayMoveError, ReplayCrash,
     MarkReplayReady
<1> QED
  BY <1>1, <1>2, <1>3, <1>4, <1>5, <1>6, <1>7, RedisKeeps
     DEF Next, Failure, WorkerSteps, ReplaySteps, RedisFaults

\* A replay under way ends by queueing the task or by making it DEAD again, unless it is
\* cut off.
LEMMA ReplayingStays ==
    ASSUME TypeOK, [Next]_vars, NEW t \in Tasks, Replaying(t), t \notin dropped',
           task'[t].status = "FAILED"
    PROVE  Replaying(t)' \/ Queued(t)'
<1>0. /\ replay \in [Replayers -> [pc : {"idle", "move", "restore"}, task : Tasks \union {NoTask}]]
      /\ task \in [Tasks -> TaskRow]
  BY DEF TypeOK, LoopOK, TaskOK, TaskRow
<1>1. PICK q \in Replayers : replay[q].task = t
  BY DEF Replaying
<1>2. replay[q].pc # "idle"
  BY <1>1, PipelineAssumption DEF TypeOK, LoopOK
<1>3. CASE replay'[q].task = t
  BY <1>3 DEF Replaying
<1>4. ASSUME NEW p \in Replayers, ReplaySteps(p), p # q PROVE replay'[q].task = t
  <2>1. \E r : replay' = [replay EXCEPT ![p] = r]
    BY <1>4 DEF ReplaySteps, ReplayNext, ReplayFromDLQ, RestoreDead, ReplayMoveError, ReplayCrash,
       MarkReplayReady
  <2> QED
    BY <1>0, <1>1, <1>4, <2>1
<1>5. CASE ReplayFromDLQ(q)
  <2>1. CASE dlq[t] > 0
    <3>1. PublishReady(t)
      BY <1>1, <1>5, <2>1 DEF ReplayFromDLQ
    <3> QED
      BY <3>1, PublishLists DEF Listed, Queued
  <2>2. CASE ~(dlq[t] > 0)
    <3>1. replay' = [replay EXCEPT ![q] = [pc |-> "restore", task |-> replay[q].task]]
      BY <1>1, <1>5, <2>2 DEF ReplayFromDLQ
    <3> QED
      BY <1>0, <1>1, <1>3, <3>1
  <2> QED
    BY <2>1, <2>2
<1>6. CASE ReplayMoveError(q)
  <2>1. replay' = [replay EXCEPT ![q] = [pc |-> "restore", task |-> replay[q].task]]
    BY <1>6 DEF ReplayMoveError
  <2> QED
    BY <1>0, <1>1, <1>3, <2>1
<1>7. ~RestoreDead(q)
  BY <1>0, <1>1 DEF RestoreDead, Row
<1>8. ~ReplayCrash(q)
  BY <1>1 DEF ReplayCrash
<1>9. ~\E u \in Tasks : MarkReplayReady(q, u)
  BY <1>2 DEF MarkReplayReady
<1>10. CASE replay' = replay
  BY <1>1, <1>3, <1>10
<1> QED
  BY <1>3, <1>4, <1>5, <1>6, <1>7, <1>8, <1>9, <1>10, ReplaysMove DEF ReplaySteps, ReplayNext

\* Every step keeps the invariant.
LEMMA NextLoss ==
    ASSUME TypeOK, TypeOK', LossIInv, [Next]_vars
    PROVE  LossIInv'
<1>0. /\ task \in [Tasks -> TaskRow] /\ event \in [Tasks -> EventRows]
      /\ dropped \subseteq dropped'
      /\ \A x \in Relays : /\ relay[x].pc = "confirm" => relay[x].task \in Tasks
                           /\ (relay'[x].task = NoTask) => relay'[x].pc # "confirm"
      /\ NoTask \notin Tasks
  BY ReplaysMove, TaskHeld, PipelineAssumption
     DEF TypeOK, TaskOK, QueueOK, LoopOK, TaskRow, EventRows
<1>1. ASSUME NEW t \in Tasks, task'[t].status = "PENDING"
      PROVE  Create(t) \/ task[t].status = "PENDING"
  <2>1. ~\E p \in Replayers : MarkReplayReady(p, t)
    BY <1>0, <1>1 DEF MarkReplayReady, Row
  <2> QED
    BY <1>1, <2>1, RowWrites DEF RowWrite
<1>2. ASSUME NEW t \in Tasks, Create(t)
      PROVE  /\ event'[t].status = "PENDING" /\ task'[t].status = "PENDING"
             /\ task[t].status = "ABSENT"
  BY <1>0, <1>2 DEF Create, EventRow, Row
<1>3. ASSUME NEW t \in Tasks, task'[t].status = "ABSENT"
      PROVE  event'[t].status = "ABSENT" /\ \A x \in Relays : relay'[x].task # t
  <2>1. ~\E p \in Replayers : MarkReplayReady(p, t)
    BY <1>0, <1>3 DEF MarkReplayReady, Row
  <2>2. ~Create(t)
    BY <1>2, <1>3
  <2>3. task[t].status = "ABSENT"
    BY <1>3, <2>1, <2>2, RowWrites DEF RowWrite
  <2>4. event[t].status = "ABSENT" /\ \A x \in Relays : relay[x].task # t
    BY <2>3 DEF LossIInv
  <2>5. event'[t].status = "ABSENT"
    BY <2>2, <2>4, EventWrites DEF EventWrite
  <2>6. ASSUME NEW x \in Relays PROVE relay'[x].task # t
    BY <1>0, <2>4, RelayMoves DEF RelayMove
  <2> QED
    BY <2>5, <2>6
<1>4. ASSUME NEW x \in Relays, NEW u \in Tasks, relay'[x].pc = "confirm", relay'[x].task = u,
             u \notin dropped', task'[u].status = "PENDING"
      PROVE  Queued(u)'
  <2>1. CASE relay'[x] = relay[x]
    <3>1. ~Create(u)
      BY <1>2, <1>4, <2>1 DEF LossIInv
    <3>2. task[u].status = "PENDING" /\ u \notin dropped
      BY <1>0, <1>1, <1>4, <3>1
    <3>3. Queued(u)
      BY <1>4, <2>1, <3>2 DEF LossIInv
    <3> QED
      BY <1>4, <3>3, QueuedStays
  <2>2. CASE relay'[x] # relay[x]
    <3>1. \E i \in 1 .. Len(ready') : ready'[i] = u
      BY <1>0, <1>4, <2>2, RelayMoves DEF RelayMove
    <3> QED
      BY <3>1 DEF Queued
  <2> QED
    BY <2>1, <2>2
<1>5. ASSUME NEW t \in Tasks, t \notin dropped', task'[t].status = "PENDING"
      PROVE  event'[t].status # "PUBLISHED" \/ Queued(t)'
  <2>1. CASE Create(t)
    BY <1>2, <2>1
  <2>2. CASE ~Create(t)
    <3>1. task[t].status = "PENDING" /\ t \notin dropped
      BY <1>0, <1>1, <1>5, <2>2
    <3>2. event[t].status # "PUBLISHED" \/ Queued(t)
      BY <3>1 DEF LossIInv, NoSilentLoss, Reachable
    <3>3. CASE Queued(t)
      BY <1>5, <3>3, QueuedStays
    <3>4. CASE event[t].status # "PUBLISHED" /\ event'[t].status = "PUBLISHED"
      <4>1. PICK x \in Relays : relay[x].pc = "confirm" /\ relay[x].task = t
        BY <2>2, <3>4, EventWrites DEF EventWrite
      <4>2. Queued(t)
        BY <3>1, <4>1 DEF LossIInv
      <4> QED
        BY <1>5, <4>2, QueuedStays
    <3> QED
      BY <3>2, <3>3, <3>4
  <2> QED
    BY <2>1, <2>2
<1>6. ASSUME NEW t \in Tasks, t \notin dropped', task'[t].status = "FAILED"
      PROVE  task'[t].next # "NONE" \/ Queued(t)' \/ Replaying(t)'
  <2>1. ~Create(t)
    BY <1>2, <1>6
  <2>2. CASE \E p \in Replayers : MarkReplayReady(p, t)
    <3>1. PICK p \in Replayers : replay' = [replay EXCEPT ![p] = [pc |-> "move", task |-> t]]
      BY <2>2 DEF MarkReplayReady
    <3> QED
      BY <3>1 DEF Replaying, TypeOK, LoopOK
  <2>3. CASE task[t].status = "FAILED" /\ task'[t].next \in {task[t].next, "DUE"}
    <3>1. task[t].next # "NONE" \/ Queued(t) \/ Replaying(t)
      BY <1>0, <1>6, <2>3 DEF LossIInv, NoSilentLoss, Reachable
    <3>2. CASE Queued(t)
      BY <1>6, <3>2, QueuedStays
    <3>3. CASE Replaying(t)
      BY <1>6, <3>3, ReplayingStays
    <3> QED
      BY <2>3, <3>1, <3>2, <3>3
  <2> QED
    BY <1>6, <2>1, <2>2, <2>3, RowWrites DEF RowWrite
<1>7. NoSilentLoss'
  <2> SUFFICES ASSUME NEW t \in Tasks, t \notin dropped' PROVE Reachable(t)'
    BY DEF NoSilentLoss
  <2> QED
    BY <1>5, <1>6 DEF Reachable
<1>8. \A x \in Relays : relay'[x].pc = "confirm" => relay'[x].task \in Tasks
  BY DEF TypeOK, LoopOK
<1>9. \A x \in Relays : relay'[x].pc = "confirm" /\ relay'[x].task \notin dropped'
                        /\ task'[relay'[x].task].status = "PENDING"
                          => \A u \in Tasks : u = relay'[x].task => Queued(u)'
  BY <1>4
<1> QED
  BY <1>3, <1>7, <1>8, <1>9 DEF LossIInv, Queued, Popped

\* No failed, repeated, lost or half-done call of any loop strands a task, whatever the
\* interleaving: until a worker's pop or a replay is cut off with its id, or Redis forgets
\* the ready list, the task's event, queued id, retry time or status still brings it to a
\* worker.
THEOREM NothingLost == Spec => []NoSilentLoss
<1>1. Init => LossIInv
  BY PipelineAssumption DEF Init, LossIInv, NoSilentLoss, Reachable, Row, EventRow, IdleLoop
<1>2. TypeOK /\ TypeOK' /\ LossIInv /\ [Next]_vars => LossIInv'
  BY NextLoss
<1>3. LossIInv => NoSilentLoss
  BY DEF LossIInv
<1> QED
  BY <1>1, <1>2, <1>3, PipelineTypeCorrect, PTL DEF Spec

-----------------------------------------------------------------------------
\* Dead letters.

\* Workers about to push t to the dead-letter list, and the death t has not died yet.
Carriers(t) == {w \in Workers : worker[w] = [pc |-> "dlq", task |-> t]}
Owed(t) == IF task[t].status = "DEAD" THEN 0 ELSE 1

\* Letters written, letters under way and the death still to come: one life to start with,
\* one per replay, and a letter per repeated push.
LetterIInv ==
    \A t \in Tasks :
        /\ IsFiniteSet(Carriers(t))
        /\ dlq[t] + Cardinality(Carriers(t)) + Owed(t) <= replays[t] + resent[t] + 1

\* Only a replay brings a task back from DEAD.
LEMMA DeadStays ==
    ASSUME TypeOK, [Next]_vars, NEW t \in Tasks, task[t].status = "DEAD"
    PROVE  task'[t].status = "DEAD" \/ replays'[t] = replays[t] + 1
<1>0. task \in [Tasks -> TaskRow] /\ replays \in [Tasks -> Nat]
  BY DEF TypeOK, TaskOK, TaskRow, CountersOK, HistoryOK
<1>1. ASSUME NEW u, NEW r, task' = [task EXCEPT ![u] = r],
             task[u].status # "DEAD" \/ r.status = "DEAD"
      PROVE  task'[t].status = "DEAD"
  BY <1>0, <1>1
<1>2. CASE UNCHANGED vars
  BY <1>2 DEF vars
<1>3. ASSUME NEW u \in Tasks, Create(u) \/ Tick(u) \/ Stall(u) PROVE task'[t].status = "DEAD"
  <2>1. \/ task' = task
        \/ \E r : task' = [task EXCEPT ![u] = r] /\ task[u].status # "DEAD"
        \/ task' = [task EXCEPT ![u] = [task[u] EXCEPT !.next = "DUE"]]
    BY <1>3 DEF Create, Tick, Age, EventAge, EventDue, TaskDue, RetryDue, Stall
  <2>2. [task[u] EXCEPT !.next = "DUE"].status = task[u].status
    BY <1>0 DEF TaskRow
  <2> QED
    BY <1>1, <2>1, <2>2
<1>4. ASSUME NEW x \in Relays,
             RelayNext(x) \/ RelayPublishError(x) \/ MarkEventError(x) \/ RelayCrash(x)
      PROVE  task' = task
  BY <1>4 DEF RelayNext, RelayRecover, RelayList, TryMarkDispatching, RelayPublish,
     MarkPublished, MarkRetry, RelayPublishError, MarkEventError, RelayCrash
<1>5. ASSUME NEW w \in Workers, WorkerSteps(w) PROVE task'[t].status = "DEAD"
  <2>1. PICK u : u = worker[w].task
    OBVIOUS
  <2>2. \/ task' = task
        \/ \E r : task' = [task EXCEPT ![u] = r] /\ task[u].status # "DEAD"
        \/ task' = [task EXCEPT ![u] = FailedRow(task[u])]
    BY <1>5, <2>1 DEF WorkerSteps, WorkerNext, PopReady, TryMarkRunning, Handle, MarkSuccess,
       MarkSuspended, MarkFailed, PushDLQ, ScheduleRetry, TryMarkRunningLost, MarkSuccessError,
       MarkFailedError, WorkerCrash, SetSuccess, SetSuspended
  <2>3. task[u].status = "DEAD" => FailedRow(task[u]).status = "DEAD"
    BY DEF FailedRow
  <2> QED
    BY <1>1, <2>2, <2>3
<1>6. ASSUME NEW s \in Schedulers, SchedNext(s) \/ SchedPushError(s) \/ SchedCrash(s)
      PROVE  task' = task
  BY <1>6 DEF SchedNext, SchedList, SchedRem, SchedPush, SchedRestore, SchedPushError, SchedCrash
<1>7. ASSUME NEW c \in Compensators, CompNext(c) \/ CompSkip(c) \/ CompCrash(c)
      PROVE  task'[t].status = "DEAD"
  <2>1. task' = task \/ \E u, r : task' = [task EXCEPT ![u] = r] /\ task[u].status # "DEAD"
    BY <1>7 DEF CompNext, CompListDue, CompListSuspended, CompListRunning, MarkRecovered,
       CompSchedule, CompDone, CompSkip, CompCrash
  <2> QED
    BY <1>1, <2>1
<1>8. ASSUME NEW p \in Replayers, ReplayNext(p) \/ ReplayMoveError(p) \/ ReplayCrash(p)
      PROVE  task'[t].status = "DEAD"
  <2>1. task' = task \/ \E u, r : task' = [task EXCEPT ![u] = r] /\ task[u].status # "DEAD"
    BY <1>8 DEF ReplayNext, ReplayFromDLQ, RestoreDead, ReplayMoveError, ReplayCrash
  <2> QED
    BY <1>1, <2>1
<1>9. ASSUME NEW p \in Replayers, NEW u \in Tasks, MarkReplayReady(p, u)
      PROVE  task'[t].status = "DEAD" \/ replays'[t] = replays[t] + 1
  <2>1. CASE u = t
    BY <1>0, <1>9, <2>1 DEF MarkReplayReady
  <2>2. CASE u # t
    BY <1>0, <1>9, <2>2 DEF MarkReplayReady
  <2> QED
    BY <2>1, <2>2
<1> QED
  BY <1>2, <1>3, <1>4, <1>5, <1>6, <1>7, <1>8, <1>9, RedisKeeps
     DEF Next, Failure, WorkerSteps, RedisFaults

\* Only workers and repeated pushes write letters; a replay takes one out.
LEMMA LettersOfWorkers ==
    ASSUME TypeOK, TypeOK', [Next]_vars, NEW t \in Tasks
    PROVE  /\ replays[t] <= replays'[t]
           /\ \/ dlq'[t] + resent[t] <= dlq[t] + resent'[t]
              \/ resent' = resent /\ \E w \in Workers : WorkerSteps(w)
<1>0. dlq \in [Tasks -> Nat] /\ replays \in [Tasks -> Nat] /\ resent \in [Tasks -> Nat]
  BY DEF TypeOK, QueueOK, CountersOK, HistoryOK
<1>1. CASE UNCHANGED vars
  BY <1>0, <1>1 DEF vars
<1>2. ASSUME NEW u \in Tasks, Create(u) \/ Tick(u) \/ Stall(u)
      PROVE  UNCHANGED <<dlq, replays, resent>>
  BY <1>2 DEF Create, Tick, Age, EventAge, EventDue, TaskDue, RetryDue, Stall
<1>3. ASSUME NEW x \in Relays,
             RelayNext(x) \/ RelayPublishError(x) \/ MarkEventError(x) \/ RelayCrash(x)
      PROVE  UNCHANGED <<dlq, replays, resent>>
  BY <1>3 DEF RelayNext, RelayRecover, RelayList, TryMarkDispatching, RelayPublish, MarkPublished,
     MarkRetry, RelayPublishError, MarkEventError, RelayCrash
<1>4. ASSUME NEW w \in Workers, WorkerSteps(w) PROVE UNCHANGED <<replays, resent>>
  BY <1>4 DEF WorkerSteps, WorkerNext, PopReady, TryMarkRunning, Handle, MarkSuccess,
     MarkSuspended, MarkFailed, PushDLQ, ScheduleRetry, TryMarkRunningLost, MarkSuccessError,
     MarkFailedError, WorkerCrash
<1>5. ASSUME NEW s \in Schedulers, SchedNext(s) \/ SchedPushError(s) \/ SchedCrash(s)
      PROVE  UNCHANGED <<dlq, replays, resent>>
  BY <1>5 DEF SchedNext, SchedList, SchedRem, SchedPush, SchedRestore, SchedPushError, SchedCrash
<1>6. ASSUME NEW c \in Compensators, CompNext(c) \/ CompSkip(c) \/ CompCrash(c)
      PROVE  UNCHANGED <<dlq, replays, resent>>
  BY <1>6 DEF CompNext, CompListDue, CompListSuspended, CompListRunning, MarkRecovered,
     CompSchedule, CompDone, CompSkip, CompCrash
<1>7. ASSUME NEW p \in Replayers, ReplayNext(p) \/ ReplayMoveError(p) \/ ReplayCrash(p)
      PROVE  dlq'[t] <= dlq[t] /\ UNCHANGED <<replays, resent>>
  <2>1. dlq' = dlq \/ \E u : dlq' = [dlq EXCEPT ![u] = dlq[u] - 1]
    BY <1>7 DEF ReplayNext, ReplayFromDLQ, RestoreDead, ReplayMoveError, ReplayCrash
  <2>2. dlq'[t] <= dlq[t]
    BY <1>0, <2>1
  <2> QED
    BY <1>7, <2>2 DEF ReplayNext, ReplayFromDLQ, RestoreDead, ReplayMoveError, ReplayCrash
<1>8. ASSUME NEW p \in Replayers, NEW u \in Tasks, MarkReplayReady(p, u)
      PROVE  UNCHANGED <<dlq, resent>> /\ replays[t] <= replays'[t]
  <2>1. UNCHANGED <<dlq, resent>> /\ replays' = [replays EXCEPT ![u] = @ + 1]
    BY <1>8 DEF MarkReplayReady
  <2> QED
    BY <1>0, <2>1
<1>9. CASE RedisFaults
  BY <1>0, <1>9, RedisKeeps, RedisQueues
<1>10. /\ UNCHANGED <<dlq, resent>> => dlq'[t] + resent[t] <= dlq[t] + resent'[t]
       /\ replays' = replays => replays[t] <= replays'[t]
       /\ dlq'[t] <= dlq[t] /\ resent' = resent
            => dlq'[t] + resent[t] <= dlq[t] + resent'[t]
  <2>1. dlq'[t] \in Int
    BY DEF TypeOK, QueueOK
  <2> QED
    BY <1>0, <2>1
<1> QED
  BY <1>1, <1>2, <1>3, <1>4, <1>5, <1>6, <1>7, <1>8, <1>9, <1>10
     DEF Next, Failure, WorkerSteps, RedisFaults

\* A worker's step sends a letter on its way as the row becomes DEAD, delivers one, or has
\* nothing to do with letters.
LEMMA WorkerLetters ==
    ASSUME TypeOK, NEW w \in Workers, WorkerSteps(w), NEW t \in Tasks
    PROVE  \/ /\ task[t].status = "RUNNING" /\ task'[t].status = "DEAD" /\ dlq' = dlq
              /\ Carriers(t)' \subseteq Carriers(t) \union {w}
           \/ /\ w \in Carriers(t) /\ Carriers(t)' = Carriers(t) \ {w}
              /\ dlq'[t] = dlq[t] + 1 /\ task' = task
           \/ Carriers(t)' \subseteq Carriers(t) /\ dlq'[t] = dlq[t]
<1>0. /\ worker \in [Workers -> [pc : {"idle", "popped", "handle", "succ", "suspend", "fail",
                                        "dlq", "schedule"},
                                 task : Tasks \union {NoTask}]]
      /\ task \in [Tasks -> TaskRow] /\ dlq \in [Tasks -> Nat]
      /\ Idle.pc # "dlq"
  BY DEF TypeOK, LoopOK, TaskOK, TaskRow, QueueOK, Idle
<1>1. ASSUME NEW r, worker' = [worker EXCEPT ![w] = r], r.pc # "dlq"
      PROVE  Carriers(t)' = Carriers(t) \ {w}
  <2>1. \A v \in Workers : worker'[v] = IF v = w THEN r ELSE worker[v]
    BY <1>0, <1>1
  <2> QED
    BY <1>1, <2>1 DEF Carriers
<1>2. CASE PushDLQ(w)
  <2>1. /\ worker' = [worker EXCEPT ![w] = Idle] /\ worker[w].pc = "dlq" /\ task' = task
        /\ dlq' = [dlq EXCEPT ![worker[w].task] = dlq[worker[w].task] + 1]
    BY <1>2 DEF PushDLQ, Free
  <2>2. Carriers(t)' = Carriers(t) \ {w}
    BY <1>0, <1>1, <2>1
  <2>3. CASE worker[w].task = t
    <3>1. worker[w] = [pc |-> "dlq", task |-> t]
      BY <1>0, <2>1, <2>3
    <3> QED
      BY <1>0, <2>1, <2>2, <2>3, <3>1 DEF Carriers
  <2>4. CASE worker[w].task # t
    BY <1>0, <2>1, <2>2, <2>4
  <2> QED
    BY <2>3, <2>4
<1>3. CASE MarkFailed(w)
  <2>1. PICK u \in Tasks : u = worker[w].task
    BY <1>3, TaskHeld DEF MarkFailed
  <2>2. dlq' = dlq /\ task' = [task EXCEPT ![u] = FailedRow(task[u])]
    BY <1>3, <2>1 DEF MarkFailed
  <2>3. CASE task[u].status = "RUNNING" /\ FailedRow(task[u]).status = "DEAD"
    <3>1. worker' = [worker EXCEPT ![w] = [pc |-> "dlq", task |-> u]]
      BY <1>3, <2>1, <2>3 DEF MarkFailed, At
    <3>2. \A v \in Workers : worker'[v] = IF v = w THEN [pc |-> "dlq", task |-> u] ELSE worker[v]
      BY <1>0, <3>1
    <3>3. CASE u = t
      BY <1>0, <2>2, <2>3, <3>2, <3>3 DEF Carriers
    <3>4. CASE u # t
      BY <2>2, <3>2, <3>4 DEF Carriers
    <3> QED
      BY <3>3, <3>4
  <2>4. CASE ~(task[u].status = "RUNNING" /\ FailedRow(task[u]).status = "DEAD")
    <3>1. PICK r : worker' = [worker EXCEPT ![w] = r] /\ r.pc # "dlq"
      <4>1. CASE Free(w)
        BY <1>0, <4>1 DEF Free
      <4>2. CASE At(w, "schedule")
        <5>1. [pc |-> "schedule", task |-> worker[w].task].pc # "dlq"
          OBVIOUS
        <5> QED
          BY <4>2, <5>1 DEF At
      <4> QED
        BY <1>3, <2>1, <2>4, <4>1, <4>2 DEF MarkFailed
    <3> QED
      BY <1>1, <2>2, <3>1
  <2> QED
    BY <2>3, <2>4
<1>4. CASE ~PushDLQ(w) /\ ~MarkFailed(w)
  <2>1. dlq' = dlq
    BY <1>4 DEF WorkerSteps, WorkerNext, PopReady, TryMarkRunning, Handle, MarkSuccess,
       MarkSuspended, ScheduleRetry, TryMarkRunningLost, MarkSuccessError, MarkFailedError,
       WorkerCrash
  <2>2. \/ \E u : worker' = [worker EXCEPT ![w] = [pc |-> "popped", task |-> u]]
        \/ Free(w)
        \/ \E l \in {"handle", "succ", "fail", "suspend"} : At(w, l)
    BY <1>4 DEF WorkerSteps, WorkerNext, PopReady, TryMarkRunning, Handle, MarkSuccess,
       MarkSuspended, ScheduleRetry, TryMarkRunningLost, MarkSuccessError, MarkFailedError,
       WorkerCrash
  <2>3. \E r : worker' = [worker EXCEPT ![w] = r] /\ r.pc # "dlq"
    <3>1. ASSUME NEW l \in {"popped", "handle", "succ", "fail", "suspend"}, NEW u
          PROVE  [pc |-> l, task |-> u].pc # "dlq"
      OBVIOUS
    <3>2. CASE Free(w)
      BY <1>0, <3>2 DEF Free
    <3>3. ASSUME NEW u, worker' = [worker EXCEPT ![w] = [pc |-> "popped", task |-> u]]
          PROVE  \E r : worker' = [worker EXCEPT ![w] = r] /\ r.pc # "dlq"
      BY <3>1, <3>3
    <3>4. ASSUME NEW l \in {"handle", "succ", "fail", "suspend"}, At(w, l)
          PROVE  \E r : worker' = [worker EXCEPT ![w] = r] /\ r.pc # "dlq"
      <4>1. worker' = [worker EXCEPT ![w] = [pc |-> l, task |-> worker[w].task]]
        BY <3>4 DEF At
      <4> QED
        BY <3>1, <4>1
    <3> QED
      BY <2>2, <3>2, <3>3, <3>4
  <2> QED
    BY <1>1, <2>1, <2>3
<1> QED
  BY <1>2, <1>3, <1>4

\* Every step keeps the account of letters.
LEMMA NextLetters ==
    ASSUME TypeOK, TypeOK', LetterIInv, [Next]_vars
    PROVE  LetterIInv'
<1> SUFFICES ASSUME NEW t \in Tasks
             PROVE  /\ IsFiniteSet(Carriers(t)')
                    /\ dlq'[t] + Cardinality(Carriers(t)') + Owed(t)' <= replays'[t] + resent'[t] + 1
  BY DEF LetterIInv
<1>0. /\ dlq[t] \in Nat /\ dlq'[t] \in Nat /\ replays[t] \in Nat /\ replays'[t] \in Nat
      /\ resent[t] \in Nat /\ resent'[t] \in Nat
      /\ Owed(t) \in {0, 1} /\ Owed(t)' \in {0, 1}
      /\ IsFiniteSet(Carriers(t)) /\ Cardinality(Carriers(t)) \in Nat
      /\ dlq[t] + Cardinality(Carriers(t)) + Owed(t) <= replays[t] + resent[t] + 1
  BY FS_CardinalityType DEF TypeOK, QueueOK, CountersOK, HistoryOK, Owed, LetterIInv
<1>1. replays[t] + Owed(t)' <= replays'[t] + Owed(t)
  <2>1. replays[t] <= replays'[t]
    BY LettersOfWorkers
  <2>2. CASE task[t].status = "DEAD"
    <3>1. Owed(t)' = 0 \/ replays'[t] = replays[t] + 1
      BY <2>2, DeadStays DEF Owed
    <3> QED
      BY <1>0, <2>1, <3>1
  <2>3. CASE task[t].status # "DEAD"
    <3>1. Owed(t) = 1
      BY <2>3 DEF Owed
    <3> QED
      BY <1>0, <2>1, <3>1
  <2> QED
    BY <2>2, <2>3
<1>2. ASSUME Carriers(t)' \subseteq Carriers(t), dlq'[t] + resent[t] <= dlq[t] + resent'[t]
      PROVE  /\ IsFiniteSet(Carriers(t)')
             /\ dlq'[t] + Cardinality(Carriers(t)') + Owed(t)' <= replays'[t] + resent'[t] + 1
  <2>1. /\ IsFiniteSet(Carriers(t)') /\ Cardinality(Carriers(t)') \in Nat
        /\ Cardinality(Carriers(t)') <= Cardinality(Carriers(t))
    BY <1>0, <1>2, FS_Subset, FS_CardinalityType
  <2> QED
    BY <1>0, <1>1, <1>2, <2>1
<1>3. ASSUME NEW w \in Workers, WorkerSteps(w), resent' = resent
      PROVE  /\ IsFiniteSet(Carriers(t)')
             /\ dlq'[t] + Cardinality(Carriers(t)') + Owed(t)' <= replays'[t] + resent'[t] + 1
  <2>0. replays[t] <= replays'[t]
    BY LettersOfWorkers
  <2>1. CASE /\ task[t].status = "RUNNING" /\ task'[t].status = "DEAD" /\ dlq' = dlq
             /\ Carriers(t)' \subseteq Carriers(t) \union {w}
    <3> DEFINE S == Carriers(t)
    <3>1. /\ IsFiniteSet(S \union {w}) /\ Cardinality(S \union {w}) \in Nat
          /\ Cardinality(S \union {w}) <= Cardinality(S) + 1
      <4> HIDE DEF S
      <4>1. IsFiniteSet(S) /\ Cardinality(S) \in Nat
        BY <1>0 DEF S
      <4> QED
        BY <4>1, FS_AddElement
    <3>2. /\ IsFiniteSet(Carriers(t)') /\ Cardinality(Carriers(t)') \in Nat
          /\ Cardinality(Carriers(t)') <= Cardinality(Carriers(t) \union {w})
      BY <2>1, <3>1, FS_Subset, FS_CardinalityType
    <3>3. Owed(t) = 1 /\ Owed(t)' = 0
      BY <2>1 DEF Owed
    <3> QED
      BY <1>0, <1>3, <2>0, <2>1, <3>1, <3>2, <3>3
  <2>2. CASE /\ w \in Carriers(t) /\ Carriers(t)' = Carriers(t) \ {w}
             /\ dlq'[t] = dlq[t] + 1 /\ task' = task
    <3>1. /\ IsFiniteSet(Carriers(t)')
          /\ Cardinality(Carriers(t)') = Cardinality(Carriers(t)) - 1
      BY <1>0, <2>2, FS_RemoveElement
    <3>2. Owed(t)' = Owed(t)
      BY <2>2 DEF Owed
    <3> QED
      BY <1>0, <1>3, <2>0, <2>2, <3>1, <3>2
  <2>3. CASE Carriers(t)' \subseteq Carriers(t) /\ dlq'[t] = dlq[t]
    BY <1>0, <1>2, <1>3, <2>3
  <2> QED
    BY <1>3, <2>1, <2>2, <2>3, WorkerLetters
<1>4. CASE dlq'[t] + resent[t] <= dlq[t] + resent'[t] /\ ~\E w \in Workers : WorkerSteps(w)
  <2>1. worker' = worker
    BY <1>4, WorkersMove
  <2>2. Carriers(t)' = Carriers(t)
    BY <2>1 DEF Carriers
  <2> QED
    BY <1>2, <1>4, <2>2
<1>5. ASSUME NEW w \in Workers, WorkerSteps(w) PROVE resent' = resent
  BY <1>5 DEF WorkerSteps, WorkerNext, PopReady, TryMarkRunning, Handle, MarkSuccess,
     MarkSuspended, MarkFailed, PushDLQ, ScheduleRetry, TryMarkRunningLost, MarkSuccessError,
     MarkFailedError, WorkerCrash
<1> QED
  BY <1>3, <1>4, <1>5, LettersOfWorkers

\* The dead-letter list holds a task at most once per death and once per RPUSH that the
\* Redis client has sent again, for any number of workers, replays and faults: MarkFailed
\* sends a letter only from RUNNING to DEAD, and only a replay leads out of DEAD.
THEOREM LettersCounted == Spec => []DeadLetters
<1>1. Init => LetterIInv
  <2> SUFFICES ASSUME Init, NEW t \in Tasks
               PROVE  /\ IsFiniteSet(Carriers(t))
                      /\ dlq[t] + Cardinality(Carriers(t)) + Owed(t)
                           <= replays[t] + resent[t] + 1
    BY DEF LetterIInv
  <2>1. Carriers(t) = {}
    BY DEF Init, Carriers, Idle
  <2> QED
    BY <2>1, FS_EmptySet DEF Init, Owed, Row
<1>2. TypeOK /\ TypeOK' /\ LetterIInv /\ [Next]_vars => LetterIInv'
  BY NextLetters
<1>3. TypeOK /\ LetterIInv => DeadLetters
  <2> SUFFICES ASSUME TypeOK, LetterIInv, NEW t \in Tasks
               PROVE  dlq[t] <= replays[t] + resent[t]
                                + (IF task[t].status = "DEAD" THEN 1 ELSE 0)
    BY DEF DeadLetters
  <2>1. /\ dlq[t] \in Nat /\ replays[t] \in Nat /\ resent[t] \in Nat
        /\ Cardinality(Carriers(t)) \in Nat
        /\ dlq[t] + Cardinality(Carriers(t)) + Owed(t) <= replays[t] + resent[t] + 1
    BY FS_CardinalityType DEF TypeOK, QueueOK, CountersOK, HistoryOK, LetterIInv
  <2> QED
    BY <2>1 DEF Owed
<1> QED
  BY <1>1, <1>2, <1>3, PipelineTypeCorrect, PTL DEF Spec
=============================================================================
