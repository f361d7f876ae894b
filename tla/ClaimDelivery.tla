--------------------------- MODULE ClaimDelivery ---------------------------
(***************************************************************************)
(* From the claim to its notice: the tables of the coupon ledger and the   *)
(* asynchronous pipeline on one database.  A claim transaction writes its  *)
(* claim row, the stock, the task and the outbox event in one commit       *)
(* (createTaskAndOutbox is its last call); POST /tasks commits a task and  *)
(* an event without a claim; everything else is the pipeline's.            *)
(*                                                                         *)
(* Of the claim path only the committing transaction is here, at any time *)
(* and in any state of the campaign: ClaimService is the rest of it, and   *)
(* implements the same ledger.  A claim id stands for the task with the    *)
(* biz id made from it, which nobody creates through the API.              *)
(***************************************************************************)
EXTENDS TaskPipeline

CONSTANTS
    Users, Keys,
    ClaimIds,     \* the tasks that belong to claims
    TotalStock, Limit

ASSUME DeliveryAssumption ==
    /\ ClaimIds \subseteq Tasks
    /\ TotalStock \in Nat
    /\ Limit \in Nat \ {0}

VARIABLES available, claims   \* as in CouponLedger

ledgerVars == <<available, claims>>
deliveryVars == <<vars, ledgerVars>>

\* The claims whose task row exists, read off async_tasks itself.
Notices == {t \in ClaimIds : task[t].status # "ABSENT"}

L == INSTANCE CouponLedger WITH notices <- Notices

-----------------------------------------------------------------------------
DeliveryInit == Init /\ available = TotalStock /\ claims = {}

\* Mutant of Claim: the task is left to a later transaction.
ClaimForgetsTask(t, u, k) ==
    /\ task[t].status = "ABSENT"
    /\ \A c \in claims : ~(c.user = u /\ c.key = k)
    /\ Cardinality({c \in claims : c.user = u}) < Limit
    /\ available > 0
    /\ available' = available - 1
    /\ claims' = claims \union {[id |-> t, user |-> u, key |-> k]}
    /\ UNCHANGED vars

\* PersistClaimAfterAdjudication or ClaimCoupon commits a new claim.
Claim(t, u, k) ==
    /\ \A c \in claims : ~(c.user = u /\ c.key = k)
    /\ Cardinality({c \in claims : c.user = u}) < Limit
    /\ available > 0
    /\ available' = available - 1
    /\ claims' = claims \union {[id |-> t, user |-> u, key |-> k]}
    /\ Create(t)

\* Service.CreateTask commits a task of another kind.
CreateTask(t) == Create(t) /\ UNCHANGED ledgerVars

\* The loops, replays, failures and the clock: nothing of them touches the ledger.
Loops ==
    /\ \/ \E t \in Tasks : Tick(t)
       \/ \E x \in Relays : RelayNext(x)
       \/ \E w \in Workers : WorkerNext(w)
       \/ \E s \in Schedulers : SchedNext(s)
       \/ \E c \in Compensators : CompNext(c)
       \/ \E p \in Replayers : ReplayNext(p) \/ \E t \in Tasks : MarkReplayReady(p, t)
       \/ Failure
    /\ UNCHANGED ledgerVars

DeliveryNext ==
    \/ \E t \in ClaimIds, u \in Users, k \in Keys : Claim(t, u, k)
    \/ \E t \in Tasks \ ClaimIds : CreateTask(t)
    \/ Loops

DeliverySpec == DeliveryInit /\ [][DeliveryNext]_deliveryVars

-----------------------------------------------------------------------------
\* The two halves together still keep the promise of the ledger, its notices taken to be
\* the task rows the pipeline works on: no loop, replay or API call adds, removes or
\* reuses the task of a claim, and no claim is without one.
DeliversLedger == L!Spec

\* Every committed claim has its task and its event, and as long as no process was cut
\* off with the id and Redis has not forgotten it, something still brings the task to a
\* worker.
EveryClaimOnItsWay ==
    \A c \in claims :
        /\ task[c.id].status # "ABSENT" /\ event[c.id].status # "ABSENT"
        /\ c.id \in dropped \/ Reachable(c.id)
=============================================================================
