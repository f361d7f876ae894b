------------------------ MODULE ClaimDeliveryProofs ------------------------
(***************************************************************************)
(* The ledger and the pipeline on one database, for any number of tasks,   *)
(* claims, users, instances and faults: the pipeline half is the pipeline  *)
(* and keeps what is proved of it, the ledger half is the ledger, and a    *)
(* claim's task is never lost between them.                                *)
(***************************************************************************)
EXTENDS ClaimDelivery, TaskPipelineProofs

Absent(t) == task[t].status = "ABSENT"

\* The clock, the loops, replays and failures neither make the row of a task nor
\* unmake it.
LEMMA LoopsKeepRows ==
    ASSUME TypeOK, Loops, NEW t \in Tasks
    PROVE  Absent(t)' = Absent(t)
<1>0. task \in [Tasks -> TaskRow]
  BY DEF TypeOK, TaskOK, TaskRow
<1> DEFINE Goal == task'[t].status = "ABSENT" <=> task[t].status = "ABSENT"
<1>1. ASSUME NEW u, NEW r, task' = [task EXCEPT ![u] = r],
             r.status = "ABSENT" <=> task[u].status = "ABSENT"
      PROVE  Goal
  <2>1. CASE u = t
    BY <1>0, <1>1, <2>1
  <2>2. CASE u # t
    BY <1>0, <1>1, <2>2
  <2> QED
    BY <2>1, <2>2
<1>2. ASSUME task' = task PROVE Goal
  BY <1>2
<1>3. ASSUME NEW u \in Tasks, Tick(u) \/ Stall(u) PROVE Goal
  <2>1. \/ task' = task
        \/ task' = [task EXCEPT ![u] = [task[u] EXCEPT !.old = TRUE]]
        \/ task' = [task EXCEPT ![u] = [task[u] EXCEPT !.next = "DUE"]]
    BY <1>3 DEF Tick, Age, EventAge, EventDue, TaskDue, RetryDue, Stall
  <2>2. /\ [task[u] EXCEPT !.old = TRUE].status = task[u].status
        /\ [task[u] EXCEPT !.next = "DUE"].status = task[u].status
    BY <1>0 DEF TaskRow
  <2> HIDE DEF Goal
  <2> QED
    BY <1>1, <1>2, <2>1, <2>2
<1>4. ASSUME NEW x \in Relays,
             RelayNext(x) \/ RelayPublishError(x) \/ MarkEventError(x) \/ RelayCrash(x)
      PROVE  Goal
  <2>1. task' = task
    BY <1>4 DEF RelayNext, RelayRecover, RelayList, TryMarkDispatching, RelayPublish,
       MarkPublished, MarkRetry, RelayPublishError, MarkEventError, RelayCrash
  <2> QED
    BY <1>2, <2>1
<1>5. ASSUME NEW w \in Workers, WorkerSteps(w) PROVE Goal
  <2>1. PICK u : u = worker[w].task
    OBVIOUS
  <2>2. \/ task' = task
        \/ \E r : /\ task' = [task EXCEPT ![u] = r]
                  /\ r.status # "ABSENT" /\ task[u].status # "ABSENT"
        \/ task' = [task EXCEPT ![u] = FailedRow(task[u])]
    BY <1>5, <2>1 DEF WorkerSteps, WorkerNext, PopReady, TryMarkRunning, Handle, MarkSuccess,
       MarkSuspended, MarkFailed, PushDLQ, ScheduleRetry, TryMarkRunningLost, MarkSuccessError,
       MarkFailedError, WorkerCrash, SetSuccess, SetSuspended, Row
  <2>3. FailedRow(task[u]).status = "ABSENT" <=> task[u].status = "ABSENT"
    BY DEF FailedRow, Row
  <2> QED
    BY <1>1, <1>2, <2>2, <2>3
<1>6. ASSUME NEW s \in Schedulers, SchedNext(s) \/ SchedPushError(s) \/ SchedCrash(s)
      PROVE  Goal
  <2>1. task' = task
    BY <1>6 DEF SchedNext, SchedList, SchedRem, SchedPush, SchedRestore, SchedPushError,
       SchedCrash
  <2> QED
    BY <1>2, <2>1
<1>7. ASSUME NEW c \in Compensators, CompNext(c) \/ CompSkip(c) \/ CompCrash(c)
      PROVE  Goal
  <2>1. \/ task' = task
        \/ \E u, r : /\ task' = [task EXCEPT ![u] = r]
                     /\ r.status # "ABSENT" /\ task[u].status # "ABSENT"
    BY <1>7 DEF CompNext, CompListDue, CompListSuspended, CompListRunning, MarkRecovered,
       CompSchedule, CompDone, CompSkip, CompCrash, Row
  <2> QED
    BY <1>1, <1>2, <2>1
<1>8. ASSUME NEW p \in Replayers, ReplayNext(p) \/ ReplayMoveError(p) \/ ReplayCrash(p)
      PROVE  Goal
  <2>1. \/ task' = task
        \/ \E u, r : /\ task' = [task EXCEPT ![u] = r]
                     /\ r.status # "ABSENT" /\ task[u].status # "ABSENT"
    BY <1>8 DEF ReplayNext, ReplayFromDLQ, RestoreDead, ReplayMoveError, ReplayCrash, Row
  <2> QED
    BY <1>1, <1>2, <2>1
<1>9. ASSUME NEW p \in Replayers, NEW u \in Tasks, MarkReplayReady(p, u) PROVE Goal
  <2>1. /\ task' = [task EXCEPT ![u] = Row("FAILED", task[u].retry, "NONE")]
        /\ task[u].status # "ABSENT"
    BY <1>9 DEF MarkReplayReady
  <2>2. Row("FAILED", task[u].retry, "NONE").status # "ABSENT"
    BY DEF Row
  <2> QED
    BY <1>1, <2>1, <2>2
<1>10. ASSUME RedisFaults PROVE Goal
  BY <1>2, <1>10, RedisKeeps
<1>11. Goal
  <2> HIDE DEF Goal
  <2> QED
    BY <1>3, <1>4, <1>5, <1>6, <1>7, <1>8, <1>9, <1>10
       DEF Loops, Failure, WorkerSteps, RedisFaults
<1> QED
  BY <1>11 DEF Absent

\* Once a task and its event are there, they stay.
LEMMA RowsStay ==
    ASSUME TypeOK, [Next]_vars, NEW t \in Tasks, ~Absent(t), event[t].status # "ABSENT"
    PROVE  ~Absent(t)' /\ event'[t].status # "ABSENT"
<1>0. task \in [Tasks -> TaskRow] /\ event \in [Tasks -> EventRows]
  BY DEF TypeOK, TaskOK, TaskRow, QueueOK, EventRows
<1>1. ~Create(t)
  BY DEF Create, Absent
<1>2. ASSUME NEW p \in Replayers, MarkReplayReady(p, t) PROVE task'[t].status = "FAILED"
  BY <1>0, <1>2 DEF MarkReplayReady, Row
<1>3. task'[t].status # "ABSENT"
  BY <1>1, <1>2, RowWrites DEF RowWrite, Absent
<1>4. event'[t].status # "ABSENT"
  BY <1>1, EventWrites DEF EventWrite
<1> QED
  BY <1>3, <1>4 DEF Absent

-----------------------------------------------------------------------------
\* Every step of the whole is a step of the pipeline.
LEMMA DeliveryStep == [DeliveryNext]_deliveryVars => [Next]_vars
<1> SUFFICES ASSUME [DeliveryNext]_deliveryVars PROVE [Next]_vars
  OBVIOUS
<1>1. CASE UNCHANGED deliveryVars
  BY <1>1 DEF deliveryVars
<1>2. ASSUME NEW t \in ClaimIds, NEW u \in Users, NEW k \in Keys, Claim(t, u, k) PROVE Next
  BY <1>2, DeliveryAssumption DEF Claim, Next
<1>3. ASSUME NEW t \in Tasks \ ClaimIds, CreateTask(t) PROVE Next
  BY <1>3 DEF CreateTask, Next
<1>4. CASE Loops
  BY <1>4 DEF Loops, Next
<1> QED
  BY <1>1, <1>2, <1>3, <1>4 DEF DeliveryNext

\* Claims and API calls are nothing but creators of tasks to the pipeline, so all that is
\* proved of it holds here.
THEOREM PipelineHalf == DeliverySpec => Spec
BY DeliveryStep, PTL DEF DeliverySpec, DeliveryInit, Spec

\* The rows of every committed claim exist: the glue between the two halves.
Linked ==
    \A c \in claims : c.id \in ClaimIds /\ ~Absent(c.id) /\ event[c.id].status # "ABSENT"

\* A claim writes its rows in its own commit, and no step takes them away.
LEMMA LinkedStep ==
    ASSUME TypeOK, Linked, [DeliveryNext]_deliveryVars
    PROVE  Linked'
<1>0. [Next]_vars
  BY DeliveryStep
<1>1. ASSUME NEW c \in claims
      PROVE  c.id \in ClaimIds /\ ~Absent(c.id)' /\ event'[c.id].status # "ABSENT"
  <2>1. c.id \in ClaimIds /\ c.id \in Tasks /\ ~Absent(c.id) /\ event[c.id].status # "ABSENT"
    BY DeliveryAssumption DEF Linked
  <2> QED
    BY <1>0, <2>1, RowsStay
<1>2. CASE claims' = claims
  BY <1>1, <1>2 DEF Linked, Absent
<1>3. ASSUME NEW t \in ClaimIds, NEW u \in Users, NEW k \in Keys, Claim(t, u, k)
      PROVE  Linked'
  <2>1. claims' = claims \union {[id |-> t, user |-> u, key |-> k]} /\ Create(t) /\ t \in Tasks
    BY <1>3, DeliveryAssumption DEF Claim
  <2>2. task'[t].status # "ABSENT" /\ event'[t].status # "ABSENT"
    BY <2>1 DEF Create, Row, EventRow, TypeOK, TaskOK, QueueOK
  <2>3. [id |-> t, user |-> u, key |-> k].id = t
    OBVIOUS
  <2> QED
    BY <1>1, <2>1, <2>2, <2>3 DEF Linked, Absent
<1> QED
  BY <1>2, <1>3 DEF DeliveryNext, CreateTask, Loops, ledgerVars, deliveryVars

\* So they always do.
LEMMA AlwaysLinked == DeliverySpec => []Linked
<1>1. DeliveryInit => Linked
  BY DEF DeliveryInit, Linked
<1>2. DeliverySpec => []TypeOK
  BY PipelineHalf, PipelineTypeCorrect, PTL
<1>3. TypeOK /\ Linked /\ [DeliveryNext]_deliveryVars => Linked'
  BY LinkedStep
<1> QED
  BY <1>1, <1>2, <1>3, PTL DEF DeliverySpec

\* A committed claim is never without a task and an event, and unless a worker or a replay
\* was cut off with its id, or Redis forgot the ready list with it, something still brings
\* the task to a worker: claim, relay, queue, scheduler and compensator leave no gap
\* between them, whatever fails.
THEOREM ClaimsStayOnTheirWay == DeliverySpec => []EveryClaimOnItsWay
<1>1. Linked /\ NoSilentLoss => EveryClaimOnItsWay
  <2> SUFFICES ASSUME Linked, NoSilentLoss, NEW c \in claims
               PROVE  /\ task[c.id].status # "ABSENT" /\ event[c.id].status # "ABSENT"
                      /\ c.id \in dropped \/ Reachable(c.id)
    BY DEF EveryClaimOnItsWay
  <2>1. c.id \in Tasks /\ ~Absent(c.id) /\ event[c.id].status # "ABSENT"
    BY DeliveryAssumption DEF Linked
  <2> QED
    BY <2>1 DEF NoSilentLoss, Absent
<1> QED
  BY <1>1, AlwaysLinked, PipelineHalf, NothingLost, PTL

-----------------------------------------------------------------------------
\* The ledger module's cardinality is this module's.
LEMMA SameCardinality ==
    ASSUME NEW S PROVE L!Cardinality(S) = Cardinality(S)
BY Zenon DEF L!Cardinality, Cardinality

\* Creating a task adds its id, if it belongs to a claim, and no other.
LEMMA CreateNotices ==
    ASSUME TypeOK, NEW t \in Tasks, Create(t)
    PROVE  Notices' = IF t \in ClaimIds THEN Notices \union {t} ELSE Notices
<1>1. /\ task \in [Tasks -> TaskRow] /\ ClaimIds \subseteq Tasks
      /\ task' = [task EXCEPT ![t] = Row("PENDING", 0, "NONE")]
      /\ Row("PENDING", 0, "NONE").status # "ABSENT"
  BY DeliveryAssumption DEF TypeOK, TaskOK, TaskRow, Create, Row
<1>2. \A u \in ClaimIds : task'[u].status # "ABSENT" <=> (u = t \/ task[u].status # "ABSENT")
  BY <1>1
<1> QED
  BY <1>2 DEF Notices

\* A committed claim is one commit of the ledger, notice and all.
LEMMA ClaimRefines ==
    ASSUME TypeOK, Linked, NEW t \in ClaimIds, NEW u \in Users, NEW k \in Keys, Claim(t, u, k)
    PROVE  L!Commit(t, u, k)
<1>1. Create(t) /\ t \in Tasks /\ task[t].status = "ABSENT"
  BY DeliveryAssumption DEF Claim, Create
<1>2. t \notin L!Ids
  BY <1>1 DEF Linked, Absent, L!Ids
<1>3. Notices' = Notices \union {t}
  BY <1>1, CreateNotices
<1>4. L!Cardinality(L!ClaimsOf(u)) < Limit
  BY SameCardinality DEF Claim, L!ClaimsOf
<1> QED
  BY <1>2, <1>3, <1>4 DEF Claim, L!Commit

\* Claim path and pipeline together implement the ledger, its notices read off async_tasks:
\* no relay, worker, compensator, replay or API call adds, removes or reuses the task of a
\* claim.
THEOREM DeliveryImplementsLedger == DeliverySpec => DeliversLedger
<1>1. DeliveryInit => L!Init
  BY DeliveryAssumption DEF DeliveryInit, Init, Row, L!Init, Notices
<1>2. TypeOK /\ Linked /\ [DeliveryNext]_deliveryVars => [L!Next]_(L!vars)
  <2> SUFFICES ASSUME TypeOK, Linked, [DeliveryNext]_deliveryVars PROVE [L!Next]_(L!vars)
    OBVIOUS
  <2>1. CASE UNCHANGED deliveryVars
    BY <2>1 DEF deliveryVars, ledgerVars, vars, L!vars, Notices
  <2>2. ASSUME NEW t \in ClaimIds, NEW u \in Users, NEW k \in Keys, Claim(t, u, k)
        PROVE  L!Next
    BY <2>2, ClaimRefines DEF L!Next
  <2>3. ASSUME NEW t \in Tasks \ ClaimIds, CreateTask(t) PROVE UNCHANGED L!vars
    <3>1. Notices' = Notices
      BY <2>3, CreateNotices DEF CreateTask
    <3> QED
      BY <2>3, <3>1 DEF CreateTask, ledgerVars, L!vars
  <2>4. CASE Loops
    <3>1. \A t \in ClaimIds : task'[t].status # "ABSENT" <=> task[t].status # "ABSENT"
      BY <2>4, LoopsKeepRows, DeliveryAssumption DEF Absent
    <3>2. Notices' = Notices
      BY <3>1 DEF Notices
    <3> QED
      BY <2>4, <3>2 DEF Loops, ledgerVars, L!vars
  <2> QED
    BY <2>1, <2>2, <2>3, <2>4 DEF DeliveryNext
<1>3. DeliverySpec => []TypeOK
  BY PipelineHalf, PipelineTypeCorrect, PTL
<1> QED
  BY <1>1, <1>2, <1>3, AlwaysLinked, PTL DEF DeliverySpec, DeliversLedger, L!Spec
=============================================================================
