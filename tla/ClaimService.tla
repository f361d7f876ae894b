---------------------------- MODULE ClaimService ----------------------------
(***************************************************************************)
(* The claim path of the Quan coupon service for one campaign:             *)
(* coupon.Service.Claim over the Redis adjudicator (decision.go) and the   *)
(* MySQL repository (repository_claim.go, repository_query.go), run        *)
(* concurrently by the handlers of any number of service instances.        *)
(*                                                                         *)
(* Granularity.  A Lua script and a MULTI block are one step: Redis runs   *)
(* them alone.  A claim transaction is one step: it takes the campaign     *)
(* row FOR UPDATE first, its snapshot is opened by the first plain SELECT  *)
(* after that lock, and every writer does the same.  Everything between    *)
(* two such calls interleaves.                                             *)
(*                                                                         *)
(* Identities.  The claim_id of an inserted row and the reservation id of  *)
(* an admission are named by the request that made them.  Idempotency      *)
(* keys are never empty: claimCoupon refuses such a request first.         *)
(***************************************************************************)
EXTENDS Integers, FiniteSets

CONSTANTS
    Users, Keys, Requests,
    NoReq,          \* "no claim id"
    TotalStock,     \* coupon_campaigns.total_stock
    PerUserLimit,   \* coupon_campaigns.per_user_limit, as stored
    Modes,          \* subset of BOOLEAN: deployments with (TRUE) or without Redis
    InitStatus,     \* campaign statuses to start from
    InitWindow,     \* positions of the clock to start from
    StatusMoves,    \* bound: pairs <<from, to>> of campaign statuses an operator may take
    ClockMoves,     \* bound: pairs <<from, to>> the clock may take
    MaxFaults,      \* bound on failed calls, client disconnects and crashes
    MaxFlushes      \* bound on losses of the whole Redis data set

\* decision.go: values not above zero mean one claim per user.
normalizePerUserLimit(limit) == IF limit <= 0 THEN 1 ELSE limit

Limit == normalizePerUserLimit(PerUserLimit)

MaxAttempts == 2

Statuses == {"MISSING", "DRAFT", "ACTIVE", "ENDED"}
Windows == {"before", "open", "after"}

ASSUME ClaimAssumption ==
    /\ NoReq \notin Requests
    /\ TotalStock \in Nat
    /\ PerUserLimit \in Int
    /\ Modes \subseteq BOOLEAN
    /\ InitStatus \subseteq Statuses
    /\ InitWindow \subseteq Windows
    /\ StatusMoves \subseteq Statuses \X Statuses
    /\ ClockMoves \subseteq Windows \X Windows
    /\ MaxFaults \in Nat
    /\ MaxFlushes \in Nat

VARIABLES
    adjudicator,  \* TRUE iff the Service was built with a Redis client
    \* MySQL
    status,       \* coupon_campaigns.status, or MISSING when there is no row
    available,    \* coupon_campaigns.available_stock
    claims,       \* rows of coupon_claims
    notices,      \* claim ids with an async_tasks and an outbox_events row
    \* Redis
    rstatus,      \* cached status in the meta hash; NONE when not hydrated
    rstock,       \* stock counter
    rcount,       \* user_count hash
    idem,         \* idempotency entry of a user and key
    \* one claim request
    pc, user, key,
    attempt,      \* iteration of the loop in Claim
    since,        \* clock position when the current attempt or transaction began
    snap,         \* campaign row read by LoadCampaign
    got,          \* claim id to answer with
    code,         \* answer, or the answer decided on
    gone,         \* the request context is cancelled: the client went away
    prior,        \* history: claim of this user and key committed at Begin
    \* environment
    window,       \* the clock, relative to start_at and end_at
    faults, flushes,
    expired,      \* history: some idempotency entry has expired
    lost          \* history: commits that were applied but reported as failed

dbVars == <<status, available, claims, notices>>
redisVars == <<rstatus, rstock, rcount, idem>>
whoVars == <<user, key, prior>>
reqVars == <<pc, attempt, since, snap, got, code>>
envVars == <<adjudicator, window, flushes, expired>>

vars == <<adjudicator, status, available, claims, notices,
          rstatus, rstock, rcount, idem,
          pc, user, key, attempt, since, snap, got, code, gone, prior,
          window, faults, flushes, expired, lost>>

L == INSTANCE CouponLedger WITH ClaimIds <- Requests

-----------------------------------------------------------------------------
NoEntry == [st |-> "none", id |-> NoReq]
Entry == [st : {"none", "PENDING", "SUCCESS"}, id : Requests \union {NoReq}]

Snapshot == [status : Statuses, stock : Nat]

Refusals == {"INACTIVE", "ALREADY_CLAIMED", "LIMIT_REACHED", "SOLD_OUT"}
Codes == Refusals \union
    {"none", "OK", "NOT_FOUND", "BUSY", "REDIS_ERROR", "DB_ERROR"}
Pcs == {"idle", "decide", "load", "hydrate", "wait", "fetch", "persist",
        "rollback", "finalize", "direct", "done", "dead"}

ClaimsFor(u, k) == {c \in claims : c.user = u /\ c.key = k}

ClaimId(u, k) ==
    IF ClaimsFor(u, k) = {} THEN NoReq ELSE (CHOOSE c \in ClaimsFor(u, k) : TRUE).id

LimitCode == IF Limit = 1 THEN "ALREADY_CLAIMED" ELSE "LIMIT_REACHED"

\* Positions the clock has had since the request last noted it: time.Now() is
\* read at some moment in between, before the script or the row lock.
NowSince(r) ==
    {since[r], window} \union (IF since[r] = "before" /\ window = "after"
                               THEN {"open"} ELSE {})

\* Mutants of Decision: no stock check; the campaign looked at before the key.
DecisionIgnoresStock(u, k, now) ==
    IF rstatus = "NONE" THEN "CAMPAIGN_MISS"
    ELSE IF idem[u][k].st = "SUCCESS" THEN "IDEM_HIT"
    ELSE IF idem[u][k].st = "PENDING" THEN "PENDING"
    ELSE IF rstatus # "ACTIVE" \/ now # "open" THEN "INACTIVE"
    ELSE IF rcount[u] >= Limit THEN LimitCode
    ELSE "ADMITTED"

DecisionLooksAtCampaignFirst(u, k, now) ==
    IF rstatus = "NONE" THEN "CAMPAIGN_MISS"
    ELSE IF rstatus # "ACTIVE" \/ now # "open" THEN "INACTIVE"
    ELSE IF idem[u][k].st = "SUCCESS" THEN "IDEM_HIT"
    ELSE IF idem[u][k].st = "PENDING" THEN "PENDING"
    ELSE IF rcount[u] >= Limit THEN LimitCode
    ELSE IF rstock <= 0 THEN "SOLD_OUT"
    ELSE "ADMITTED"

\* The Lua script of Decide, as far as its answer goes.  Its re-checks after
\* DECR and HINCRBY repeat tests the same atomic script has already made.
Decision(u, k, now) ==
    IF rstatus = "NONE" THEN "CAMPAIGN_MISS"
    ELSE IF idem[u][k].st = "SUCCESS" THEN "IDEM_HIT"
    ELSE IF idem[u][k].st = "PENDING" THEN "PENDING"
    ELSE IF rstatus # "ACTIVE" \/ now # "open" THEN "INACTIVE"
    ELSE IF rcount[u] >= Limit THEN LimitCode
    ELSE IF rstock <= 0 THEN "SOLD_OUT"
    ELSE "ADMITTED"

\* Mutants of PersistVerdict: it trusts Redis for the limit; it
\* deducts stock without the "available_stock > 0" of deductStock.
PersistTrustsRedisLimit(u, k, now) ==
    IF status = "MISSING" THEN "NOT_FOUND"
    ELSE IF status # "ACTIVE" \/ now # "open" THEN "INACTIVE"
    ELSE IF ClaimsFor(u, k) # {} THEN "REPLAY"
    ELSE IF available <= 0 THEN "SOLD_OUT"
    ELSE "COMMIT"

PersistTrustsRedisStock(u, k, now) ==
    IF status = "MISSING" THEN "NOT_FOUND"
    ELSE IF status # "ACTIVE" \/ now # "open" THEN "INACTIVE"
    ELSE IF ClaimsFor(u, k) # {} THEN "REPLAY"
    ELSE IF Cardinality(L!ClaimsOf(u)) >= Limit THEN LimitCode
    ELSE "COMMIT"

\* Verdict of the transaction of PersistClaimAfterAdjudication.
PersistVerdict(u, k, now) ==
    IF status = "MISSING" THEN "NOT_FOUND"
    ELSE IF status # "ACTIVE" \/ now # "open" THEN "INACTIVE"
    ELSE IF ClaimsFor(u, k) # {} THEN "REPLAY"
    ELSE IF Cardinality(L!ClaimsOf(u)) >= Limit THEN LimitCode
    ELSE IF available <= 0 THEN "SOLD_OUT"
    ELSE "COMMIT"

\* Verdict of the transaction of ClaimCoupon: here the stock is looked at
\* before the idempotency key.
DirectVerdict(u, k, now) ==
    IF status = "MISSING" THEN "NOT_FOUND"
    ELSE IF status # "ACTIVE" \/ now # "open" THEN "INACTIVE"
    ELSE IF available <= 0 THEN "SOLD_OUT"
    ELSE IF ClaimsFor(u, k) # {} THEN "REPLAY"
    ELSE IF Cardinality(L!ClaimsOf(u)) >= Limit THEN LimitCode
    ELSE "COMMIT"

\* The writes of a committing claim transaction: the claim row, the stock, the
\* async task and its outbox event.
InsertClaim(r) ==
    /\ available' = available - 1
    /\ claims' = claims \union {[id |-> r, user |-> user[r], key |-> key[r]]}
    /\ notices' = notices \union {r}
    /\ UNCHANGED status

\* What an admitting Decide script writes.
Reserve(r) ==
    /\ rstock' = rstock - 1
    /\ rcount' = [rcount EXCEPT ![user[r]] = @ + 1]
    /\ idem' = [idem EXCEPT ![user[r]][key[r]] = [st |-> "PENDING", id |-> r]]
    /\ UNCHANGED rstatus

Goto(r, l) == pc' = [pc EXCEPT ![r] = l]

\* The handler answers with c and is finished.
Answer(r, c) == Goto(r, "done") /\ code' = [code EXCEPT ![r] = c]

\* A call that reaches its server and is answered.
Works(r) == ~gone[r] /\ UNCHANGED <<gone, faults>>

\* A call that returns an error without having been executed.  With the
\* request context cancelled this is the only outcome.
Fails(r) ==
    /\ \/ gone[r] /\ faults' = faults
       \/ ~gone[r] /\ faults < MaxFaults /\ faults' = faults + 1
    /\ UNCHANGED gone

\* A call that is executed but whose answer is lost.
ReplyLost(r) ==
    /\ ~gone[r] /\ faults < MaxFaults
    /\ faults' = faults + 1
    /\ UNCHANGED gone

\* Mutant of NextAttempt: the loop is not bounded.
NextAttemptForever(r) ==
    /\ since' = [since EXCEPT ![r] = window]
    /\ Goto(r, "decide")
    /\ UNCHANGED <<attempt, snap, got, code>>

\* claimWithRedis returned done = false: the loop of Claim goes round again, or
\* ends with 429.
NextAttempt(r) ==
    IF attempt[r] < MaxAttempts
    THEN /\ attempt' = [attempt EXCEPT ![r] = @ + 1]
         /\ since' = [since EXCEPT ![r] = window]
         /\ Goto(r, "decide")
         /\ UNCHANGED <<snap, got, code>>
    ELSE Answer(r, "BUSY") /\ UNCHANGED <<attempt, since, snap, got>>

-----------------------------------------------------------------------------
Init ==
    /\ adjudicator \in Modes
    /\ status \in InitStatus
    /\ window \in InitWindow
    /\ available = TotalStock /\ claims = {} /\ notices = {}
    /\ rstatus = "NONE" /\ rstock = 0
    /\ rcount = [u \in Users |-> 0]
    /\ idem = [u \in Users |-> [k \in Keys |-> NoEntry]]
    /\ pc = [r \in Requests |-> "idle"]
    /\ user \in [Requests -> Users]
    /\ key \in [Requests -> Keys]
    /\ attempt = [r \in Requests |-> 1]
    /\ since = [r \in Requests |-> window]
    /\ snap = [r \in Requests |-> [status |-> "MISSING", stock |-> 0]]
    /\ got = [r \in Requests |-> NoReq]
    /\ code = [r \in Requests |-> "none"]
    /\ gone = [r \in Requests |-> FALSE]
    /\ prior = [r \in Requests |-> NoReq]
    /\ faults = 0 /\ flushes = 0 /\ expired = FALSE /\ lost = 0

\* claimCoupon passes a well-formed request on to Service.Claim.
Begin(r) ==
    /\ pc[r] = "idle"
    /\ Goto(r, IF adjudicator THEN "decide" ELSE "direct")
    /\ since' = [since EXCEPT ![r] = window]
    /\ prior' = [prior EXCEPT ![r] = ClaimId(user[r], key[r])]
    /\ UNCHANGED <<dbVars, redisVars, envVars, user, key, attempt, snap, got, code,
                   gone, faults, lost>>

\* --- claimWithRedis: Decide and the switch on its code -------------------

\* What Decide may answer, for a reading of the clock in the interval.
Decides(r, d) ==
    /\ pc[r] = "decide"
    /\ \E now \in NowSince(r) : d = Decision(user[r], key[r], now)

DecideMiss(r) ==
    /\ Decides(r, "CAMPAIGN_MISS") /\ Works(r)
    /\ Goto(r, "load")
    /\ UNCHANGED <<dbVars, redisVars, envVars, whoVars, attempt, since, snap, got, code, lost>>

DecideReplay(r) ==
    /\ Decides(r, "IDEM_HIT") /\ Works(r)
    /\ Goto(r, "fetch")
    /\ got' = [got EXCEPT ![r] = idem[user[r]][key[r]].id]
    /\ UNCHANGED <<dbVars, redisVars, envVars, whoVars, attempt, since, snap, code, lost>>

DecidePending(r) ==
    /\ Decides(r, "PENDING") /\ Works(r)
    /\ Goto(r, "wait")
    /\ UNCHANGED <<dbVars, redisVars, envVars, whoVars, attempt, since, snap, got, code, lost>>

DecideRefuse(r) ==
    /\ \E d \in Refusals : Decides(r, d) /\ Answer(r, d)
    /\ Works(r)
    /\ UNCHANGED <<dbVars, redisVars, envVars, whoVars, attempt, since, snap, got, lost>>

DecideAdmit(r) ==
    /\ Decides(r, "ADMITTED") /\ Works(r)
    /\ Reserve(r)
    /\ Goto(r, "persist")
    /\ since' = [since EXCEPT ![r] = window]
    /\ UNCHANGED <<dbVars, envVars, whoVars, attempt, snap, got, code, lost>>

DecideError(r) ==
    /\ pc[r] = "decide" /\ Fails(r)
    /\ Answer(r, "REDIS_ERROR")
    /\ UNCHANGED <<dbVars, redisVars, envVars, whoVars, attempt, since, snap, got, lost>>

\* The script admits, but the answer does not come back: the Redis client
\* either gives up, or resends the script under the same reservation id.
DecideAdmitLost(r) ==
    /\ Decides(r, "ADMITTED") /\ ReplyLost(r)
    /\ Reserve(r)
    /\ \/ Answer(r, "REDIS_ERROR")
       \/ Goto(r, "decide") /\ code' = code
    /\ UNCHANGED <<dbVars, envVars, whoVars, attempt, since, snap, got, lost>>

\* --- CAMPAIGN_MISS: LoadCampaign, then EnsureCampaign --------------------

LoadCampaign(r) ==
    /\ pc[r] = "load" /\ Works(r)
    /\ IF status = "MISSING"
       THEN Answer(r, "NOT_FOUND") /\ snap' = snap
       ELSE /\ Goto(r, "hydrate")
            /\ snap' = [snap EXCEPT ![r] = [status |-> status, stock |-> available]]
            /\ code' = code
    /\ UNCHANGED <<dbVars, redisVars, envVars, whoVars, attempt, since, got, lost>>

LoadError(r) ==
    /\ pc[r] = "load" /\ Fails(r)
    /\ Answer(r, "DB_ERROR")
    /\ UNCHANGED <<dbVars, redisVars, envVars, whoVars, attempt, since, snap, got, lost>>

\* Mutant of Hydrate: SET and HSET instead of SETNX and HSETNX.
HydrateOverwrites(r) ==
    /\ rstatus' = snap[r].status
    /\ rstock' = snap[r].stock
    /\ UNCHANGED <<rcount, idem>>

\* SETNX and HSETNX: only the first hydration writes.
Hydrate(r) ==
    /\ rstatus' = IF rstatus = "NONE" THEN snap[r].status ELSE rstatus
    /\ rstock' = IF rstatus = "NONE" THEN snap[r].stock ELSE rstock
    /\ UNCHANGED <<rcount, idem>>

EnsureCampaign(r) ==
    /\ pc[r] = "hydrate" /\ Works(r)
    /\ Hydrate(r)
    /\ NextAttempt(r)
    /\ UNCHANGED <<dbVars, envVars, whoVars, lost>>

EnsureError(r) ==
    /\ pc[r] = "hydrate"
    /\ \/ Fails(r) /\ UNCHANGED redisVars
       \/ ReplyLost(r) /\ Hydrate(r)
    /\ Answer(r, "REDIS_ERROR")
    /\ UNCHANGED <<dbVars, envVars, whoVars, attempt, since, snap, got, lost>>

\* --- PENDING: WaitResult -------------------------------------------------

WaitSuccess(r) ==
    /\ pc[r] = "wait" /\ Works(r)
    /\ idem[user[r]][key[r]].st = "SUCCESS"
    /\ Goto(r, "fetch")
    /\ got' = [got EXCEPT ![r] = idem[user[r]][key[r]].id]
    /\ UNCHANGED <<dbVars, redisVars, envVars, whoVars, attempt, since, snap, code, lost>>

\* The entry is gone, or the 400 ms are over while it is still PENDING: a poll
\* that finds PENDING changes nothing, so the deadline may pass at any time.
WaitGivesUp(r) ==
    /\ pc[r] = "wait" /\ UNCHANGED <<gone, faults>>
    /\ NextAttempt(r)
    /\ UNCHANGED <<dbVars, redisVars, envVars, whoVars, lost>>

WaitError(r) ==
    /\ pc[r] = "wait" /\ Fails(r)
    /\ Answer(r, "REDIS_ERROR")
    /\ UNCHANGED <<dbVars, redisVars, envVars, whoVars, attempt, since, snap, got, lost>>

\* FindClaimByID after IDEM_HIT or a finished wait.  The row is always there:
\* claims are never deleted and SUCCESS is written after the commit.
FetchClaim(r) ==
    /\ pc[r] = "fetch" /\ Works(r)
    /\ \E c \in claims : c.id = got[r]
    /\ Answer(r, "OK")
    /\ UNCHANGED <<dbVars, redisVars, envVars, whoVars, attempt, since, snap, got, lost>>

FetchError(r) ==
    /\ pc[r] = "fetch" /\ Fails(r)
    /\ Answer(r, "DB_ERROR")
    /\ UNCHANGED <<dbVars, redisVars, envVars, whoVars, attempt, since, snap, got, lost>>

\* --- ADMITTED: PersistClaimAfterAdjudication -----------------------------

Persists(r, v) ==
    /\ pc[r] = "persist"
    /\ \E now \in NowSince(r) : v = PersistVerdict(user[r], key[r], now)

PersistCommit(r) ==
    /\ Persists(r, "COMMIT") /\ Works(r)
    /\ InsertClaim(r)
    /\ got' = [got EXCEPT ![r] = r]
    /\ Goto(r, "finalize")
    /\ UNCHANGED <<redisVars, envVars, whoVars, attempt, since, snap, code, lost>>

\* Mutants of PersistReplay: the existing row is found but not copied to rec, which
\* is then empty, or still holds the id made up for a new claim.
PersistReplayKeepsNewId(r) ==
    /\ Persists(r, "REPLAY") /\ Works(r)
    /\ got' = [got EXCEPT ![r] = r]
    /\ Goto(r, "finalize")
    /\ UNCHANGED <<dbVars, redisVars, envVars, whoVars, attempt, since, snap, code, lost>>

PersistReplayDropsRow(r) ==
    /\ Persists(r, "REPLAY") /\ Works(r)
    /\ Goto(r, "finalize")
    /\ UNCHANGED <<dbVars, redisVars, envVars, whoVars, attempt, since, snap, got, code, lost>>

PersistReplay(r) ==
    /\ Persists(r, "REPLAY") /\ Works(r)
    /\ got' = [got EXCEPT ![r] = ClaimId(user[r], key[r])]
    /\ Goto(r, "finalize")
    /\ UNCHANGED <<dbVars, redisVars, envVars, whoVars, attempt, since, snap, code, lost>>

\* The transaction is rolled back with a business error.
PersistReject(r) ==
    /\ \E v \in Refusals \union {"NOT_FOUND"} :
          Persists(r, v) /\ code' = [code EXCEPT ![r] = v]
    /\ Works(r)
    /\ Goto(r, "rollback")
    /\ UNCHANGED <<dbVars, redisVars, envVars, whoVars, attempt, since, snap, got, lost>>

\* Some statement, or the commit, fails and nothing is applied.
PersistError(r) ==
    /\ pc[r] = "persist" /\ Fails(r)
    /\ code' = [code EXCEPT ![r] = "DB_ERROR"]
    /\ Goto(r, "rollback")
    /\ UNCHANGED <<dbVars, redisVars, envVars, whoVars, attempt, since, snap, got, lost>>

\* WithinTx gets an error from Commit although the server has committed.
PersistUnknown(r) ==
    /\ Persists(r, "COMMIT") /\ ReplyLost(r)
    /\ InsertClaim(r)
    /\ code' = [code EXCEPT ![r] = "DB_ERROR"]
    /\ lost' = lost + 1
    /\ Goto(r, "rollback")
    /\ UNCHANGED <<redisVars, envVars, whoVars, attempt, since, snap, got>>

\* Does the idempotency entry still hold this request's reservation?
Owns(r) == idem[user[r]][key[r]] = [st |-> "PENDING", id |-> r]

\* Mutants of Rollback: no test of the owner; the user counter forgotten.
RollbackBlind(r) ==
    /\ pc[r] = "rollback" /\ Works(r)
    /\ idem' = [idem EXCEPT ![user[r]][key[r]] = NoEntry]
    /\ rstock' = rstock + 1
    /\ rcount' = [rcount EXCEPT ![user[r]] = IF @ - 1 <= 0 THEN 0 ELSE @ - 1]
    /\ Answer(r, code[r])
    /\ UNCHANGED <<rstatus, dbVars, envVars, whoVars, attempt, since, snap, got, lost>>

RollbackKeepsCount(r) ==
    /\ pc[r] = "rollback" /\ Works(r)
    /\ IF Owns(r)
       THEN /\ idem' = [idem EXCEPT ![user[r]][key[r]] = NoEntry]
            /\ rstock' = rstock + 1
            /\ UNCHANGED <<rstatus, rcount>>
       ELSE UNCHANGED redisVars
    /\ Answer(r, code[r])
    /\ UNCHANGED <<dbVars, envVars, whoVars, attempt, since, snap, got, lost>>

\* Rollback, its error ignored, then the answer decided on.
Rollback(r) ==
    /\ pc[r] = "rollback" /\ Works(r)
    /\ IF Owns(r)
       THEN /\ idem' = [idem EXCEPT ![user[r]][key[r]] = NoEntry]
            /\ rstock' = rstock + 1
            /\ rcount' = [rcount EXCEPT ![user[r]] = IF @ - 1 <= 0 THEN 0 ELSE @ - 1]
            /\ UNCHANGED rstatus
       ELSE UNCHANGED redisVars
    /\ Answer(r, code[r])
    /\ UNCHANGED <<dbVars, envVars, whoVars, attempt, since, snap, got, lost>>

RollbackError(r) ==
    /\ pc[r] = "rollback" /\ Fails(r)
    /\ Answer(r, code[r])
    /\ UNCHANGED <<dbVars, redisVars, envVars, whoVars, attempt, since, snap, got, lost>>

\* Finalize; its error is only logged.
Finalize(r) ==
    /\ pc[r] = "finalize" /\ Works(r)
    /\ IF Owns(r)
       THEN /\ idem' = [idem EXCEPT ![user[r]][key[r]] = [st |-> "SUCCESS", id |-> got[r]]]
            /\ UNCHANGED <<rstatus, rstock, rcount>>
       ELSE UNCHANGED redisVars
    /\ Answer(r, "OK")
    /\ UNCHANGED <<dbVars, envVars, whoVars, attempt, since, snap, got, lost>>

FinalizeError(r) ==
    /\ pc[r] = "finalize" /\ Fails(r)
    /\ Answer(r, "OK")
    /\ UNCHANGED <<dbVars, redisVars, envVars, whoVars, attempt, since, snap, got, lost>>

\* --- claimWithoutRedis: ClaimCoupon --------------------------------------

Directs(r, v) ==
    /\ pc[r] = "direct"
    /\ \E now \in NowSince(r) : v = DirectVerdict(user[r], key[r], now)

DirectCommit(r) ==
    /\ Directs(r, "COMMIT") /\ Works(r)
    /\ InsertClaim(r)
    /\ got' = [got EXCEPT ![r] = r]
    /\ Answer(r, "OK")
    /\ UNCHANGED <<redisVars, envVars, whoVars, attempt, since, snap, lost>>

DirectReplay(r) ==
    /\ Directs(r, "REPLAY") /\ Works(r)
    /\ got' = [got EXCEPT ![r] = ClaimId(user[r], key[r])]
    /\ Answer(r, "OK")
    /\ UNCHANGED <<dbVars, redisVars, envVars, whoVars, attempt, since, snap, lost>>

DirectReject(r) ==
    /\ \E v \in Refusals \union {"NOT_FOUND"} : Directs(r, v) /\ Answer(r, v)
    /\ Works(r)
    /\ UNCHANGED <<dbVars, redisVars, envVars, whoVars, attempt, since, snap, got, lost>>

DirectError(r) ==
    /\ pc[r] = "direct" /\ Fails(r)
    /\ Answer(r, "DB_ERROR")
    /\ UNCHANGED <<dbVars, redisVars, envVars, whoVars, attempt, since, snap, got, lost>>

DirectUnknown(r) ==
    /\ Directs(r, "COMMIT") /\ ReplyLost(r)
    /\ InsertClaim(r)
    /\ lost' = lost + 1
    /\ Answer(r, "DB_ERROR")
    /\ UNCHANGED <<redisVars, envVars, whoVars, attempt, since, snap, got>>

\* --- environment ---------------------------------------------------------

Running(r) == pc[r] \notin {"idle", "done", "dead"}

\* The client closes the connection: net/http cancels the request context.
Disconnect(r) ==
    /\ Running(r) /\ ~gone[r] /\ faults < MaxFaults
    /\ gone' = [gone EXCEPT ![r] = TRUE]
    /\ faults' = faults + 1
    /\ UNCHANGED <<dbVars, redisVars, envVars, whoVars, reqVars, lost>>

\* The instance serving the request dies.
Die(r) ==
    /\ Running(r) /\ faults < MaxFaults
    /\ Goto(r, "dead")
    /\ faults' = faults + 1
    /\ UNCHANGED <<dbVars, redisVars, envVars, whoVars, attempt, since, snap, got, code,
                   gone, lost>>

\* The TTL of an idempotency entry runs out (30 s PENDING, 24 h SUCCESS).
Expire(u, k) ==
    /\ idem[u][k].st # "none"
    /\ idem' = [idem EXCEPT ![u][k] = NoEntry]
    /\ expired' = TRUE
    /\ UNCHANGED <<dbVars, rstatus, rstock, rcount, adjudicator, window, flushes,
                   whoVars, reqVars, gone, faults, lost>>

\* Redis loses its data set (restart without persistence, FLUSHALL).
RedisFlush ==
    /\ rstatus # "NONE" /\ flushes < MaxFlushes
    /\ rstatus' = "NONE" /\ rstock' = 0
    /\ rcount' = [u \in Users |-> 0]
    /\ idem' = [u \in Users |-> [k \in Keys |-> NoEntry]]
    /\ flushes' = flushes + 1
    /\ UNCHANGED <<dbVars, adjudicator, window, expired, whoVars, reqVars, gone, faults, lost>>

\* An operator creates, activates or ends the campaign.
SetStatus ==
    /\ \E m \in StatusMoves : m[1] = status /\ status' = m[2]
    /\ UNCHANGED <<available, claims, notices, redisVars, envVars, whoVars, reqVars,
                   gone, faults, lost>>

\* The clock passes start_at or end_at.
Tick ==
    /\ \E m \in ClockMoves : m[1] = window /\ window' = m[2]
    /\ UNCHANGED <<dbVars, redisVars, adjudicator, flushes, expired, whoVars, reqVars,
                   gone, faults, lost>>

-----------------------------------------------------------------------------
RedisStep(r) ==
    \/ DecideMiss(r) \/ DecideReplay(r) \/ DecidePending(r) \/ DecideRefuse(r)
    \/ DecideAdmit(r) \/ DecideError(r) \/ DecideAdmitLost(r)
    \/ LoadCampaign(r) \/ LoadError(r) \/ EnsureCampaign(r) \/ EnsureError(r)
    \/ WaitSuccess(r) \/ WaitGivesUp(r) \/ WaitError(r)
    \/ FetchClaim(r) \/ FetchError(r)
    \/ PersistCommit(r) \/ PersistReplay(r) \/ PersistReject(r) \/ PersistError(r)
    \/ PersistUnknown(r)
    \/ Rollback(r) \/ RollbackError(r) \/ Finalize(r) \/ FinalizeError(r)

DirectStep(r) ==
    \/ DirectCommit(r) \/ DirectReplay(r) \/ DirectReject(r) \/ DirectError(r)
    \/ DirectUnknown(r)

Environment ==
    \/ \E r \in Requests : Disconnect(r) \/ Die(r)
    \/ \E u \in Users, k \in Keys : Expire(u, k)
    \/ RedisFlush \/ SetStatus \/ Tick

Next ==
    \/ \E r \in Requests : Begin(r) \/ RedisStep(r) \/ DirectStep(r)
    \/ Environment

Spec == Init /\ [][Next]_vars

\* A running handler goroutine is scheduled: it does not wait for any other
\* request, only for calls that return or fail and for its own deadline.
FairSpec == Spec /\ \A r \in Requests : WF_vars(RedisStep(r) \/ DirectStep(r))

-----------------------------------------------------------------------------
\* Properties.

DbType ==
    /\ status \in Statuses /\ available \in Nat
    /\ claims \subseteq L!Claim /\ notices \subseteq Requests

RedisType ==
    /\ rstatus \in Statuses \union {"NONE"} /\ rstock \in Nat
    /\ rcount \in [Users -> Nat]
    /\ idem \in [Users -> [Keys -> Entry]]

RequestType ==
    /\ pc \in [Requests -> Pcs]
    /\ user \in [Requests -> Users] /\ key \in [Requests -> Keys]
    /\ attempt \in [Requests -> 1..MaxAttempts]
    /\ since \in [Requests -> Windows]
    /\ snap \in [Requests -> Snapshot]
    /\ got \in [Requests -> Requests \union {NoReq}]
    /\ code \in [Requests -> Codes]
    /\ gone \in [Requests -> BOOLEAN]
    /\ prior \in [Requests -> Requests \union {NoReq}]

EnvType ==
    /\ adjudicator \in BOOLEAN /\ window \in Windows
    /\ faults \in Nat /\ flushes \in Nat /\ expired \in BOOLEAN /\ lost \in Nat

\* Types of the variables; in particular no counter of MySQL or Redis ever goes
\* below zero.
TypeOK == DbType /\ RedisType /\ RequestType /\ EnvType

\* The claim path, with every race, fault, expiry and flush, does to MySQL only
\* what the abstract ledger allows: whole claims, one per key, within the limit,
\* while stock lasts.
ImplementsLedger == L!Spec

\* Stock conservation seen by MySQL, whatever Redis admitted: deductStock and the
\* inserted claims always add up.
NoOversell == L!NoOversell

\* Whatever Redis forgets, no user holds more claims than per_user_limit.
WithinLimit == L!WithinLimit

\* r has been admitted and its reservation is neither used up nor given back.
Reserving == {r \in Requests : pc[r] \in {"persist", "rollback"}}

\* A claim id promised to a client, or cached in Redis as SUCCESS, is a committed
\* claim of that same user and key: Finalize, the replay path and a Finalize after
\* an expired reservation never attach somebody else's claim.
AnswersAreLedgered ==
    /\ \A r \in Requests :
          code[r] = "OK" => [id |-> got[r], user |-> user[r], key |-> key[r]] \in claims
    /\ \A u \in Users, k \in Keys :
          idem[u][k].st = "SUCCESS" =>
              [id |-> idem[u][k].id, user |-> u, key |-> k] \in claims

\* Idempotency as clients see it: two requests of one user with one key that are both
\* answered OK were given the same claim, whichever path answered each: the commit, the
\* replay inside the transaction, the cached SUCCESS or the wait for another request.
SameKeySameClaim ==
    \A r, q \in Requests :
        code[r] = "OK" /\ code[q] = "OK" /\ user[r] = user[q] /\ key[r] = key[q] =>
            got[r] = got[q]

\* The inductive invariant behind AnswersAreLedgered and the refinement: a request
\* whose id is taken is past its transaction, and the id a request is about to
\* answer with is already a claim of its user and key.
LedgerIInv ==
    /\ TypeOK
    /\ IsFiniteSet(claims)
    /\ \A c \in claims : pc[c.id] \in {"rollback", "finalize", "done", "dead"}
    /\ \A r \in Requests :
          pc[r] \in {"fetch", "finalize"} =>
              [id |-> got[r], user |-> user[r], key |-> key[r]] \in claims
    /\ \A r \in Requests : code[r] = "OK" => pc[r] = "done"
    /\ AnswersAreLedgered

\* While Redis keeps its data, its stock counter plus the reservations in flight
\* never exceed what MySQL can still sell, and a user's counter never falls
\* behind the user's claims, except by commits that were reported as failed:
\* expiry, duplicate Rollback or Finalize, and crashes only make Redis stricter.
RedisNeverOveradmits ==
    adjudicator /\ rstatus # "NONE" /\ flushes = 0 =>
        /\ rstock + Cardinality(Reserving) <= available + lost
        /\ \A u \in Users :
              Cardinality(L!ClaimsOf(u)) + Cardinality({r \in Reserving : user[r] = u})
                  <= rcount[u] + lost

\* A user's live idempotency entries are covered by the user's counter, which
\* stays within the limit: Rollback never takes back an admission it did not make.
EntriesAreCounted ==
    \A u \in Users :
        /\ Cardinality({k \in Keys : idem[u][k].st # "none"}) <= rcount[u]
        /\ rcount[u] <= Limit

\* No call failed, no entry expired, Redis lost nothing.
Undisturbed == faults = 0 /\ ~expired /\ flushes = 0

\* Undisturbed, Redis is exact: stock and user counters differ from MySQL by the
\* reservations in flight and by nothing else, so drift comes from faults only.
RedisMirrorsLedger ==
    Undisturbed /\ adjudicator /\ rstatus # "NONE" =>
        /\ rstock + Cardinality(Reserving) = available
        /\ \A u \in Users :
              rcount[u] = Cardinality(L!ClaimsOf(u))
                          + Cardinality({r \in Reserving : user[r] = u})

\* Undisturbed and with Redis, a request whose user and key already have a claim
\* is answered with that claim, or told to try again: never refused, even when
\* the campaign is over or sold out by then.
ReplayIsStable ==
    \A r \in Requests :
        Undisturbed /\ adjudicator /\ pc[r] = "done" /\ prior[r] # NoReq =>
            code[r] = "BUSY" \/ (code[r] = "OK" /\ got[r] = prior[r])

\* Nobody has set Redis and MySQL apart: no data lost, no commit reported as failed.
Agreeing == adjudicator /\ flushes = 0 /\ lost = 0

\* An admission is a promise: while Redis and MySQL agree, MySQL never turns down for
\* stock or limit what the Decide script has let through, although entries may have
\* expired, replies got lost and instances died.  The second look at stock and limit in
\* PersistClaimAfterAdjudication is for the other cases.
AdmissionHolds ==
    Agreeing => \A r \in Requests :
        pc[r] = "rollback" => code[r] \notin {"SOLD_OUT", "ALREADY_CLAIMED", "LIMIT_REACHED"}

\* If r is being answered that there is no stock or no allowance left, that is so:
\* claims and reservations in flight have used it up.
RefusesForCause(r) ==
    Undisturbed' /\ adjudicator /\ pc[r] # "done" /\ pc'[r] = "done" =>
        /\ code'[r] = "SOLD_OUT" => available = Cardinality(Reserving)
        /\ code'[r] \in {"ALREADY_CLAIMED", "LIMIT_REACHED"} =>
              Limit = Cardinality(L!ClaimsOf(user[r]))
                      + Cardinality({q \in Reserving : user[q] = user[r]})

\* No false refusal: undisturbed and with Redis, a request is told SOLD_OUT only when
\* every unit is sold or reserved, and told of the limit only when its user's claims
\* and reservations have used it up.
RefusedForCause == [][\A r \in Requests : RefusesForCause(r)]_vars

\* Every claim request is answered, unless its instance dies: the PENDING wait
\* and the retry loop always end.
RequestEnds ==
    \A r \in Requests : Running(r) ~> pc[r] \in {"done", "dead"}

\* As documented: replaying a request that has already committed returns the same
\* claim.  A replay is never turned down for a business reason.
ReplayReturnsClaim ==
    \A r \in Requests :
        pc[r] = "done" /\ prior[r] # NoReq => code[r] \notin Refusals

\* As documented: when persistence fails, the Redis reservation is rolled back.
\* Once such a request has been answered and Redis did not fail, it holds none.
RolledBackOnPersistFailure ==
    \A r \in Requests :
        pc[r] = "done" /\ code[r] = "DB_ERROR" => ~Owns(r)
=============================================================================
