------------------------- MODULE ClaimServiceProofs -------------------------
(***************************************************************************)
(* Theorems about ClaimService for any number of users, keys, requests,    *)
(* faults and flushes, every stock and every stored per-user limit.        *)
(***************************************************************************)
EXTENDS ClaimService, FiniteSetTheorems, TLAPS

\* The normalised limit is a positive number.
LEMMA LimitType == Limit \in Nat /\ Limit >= 1
BY ClaimAssumption DEF Limit, normalizePerUserLimit

\* What an admitting script has seen: room for the user, stock, no entry.
LEMMA AdmittedMeans ==
    ASSUME TypeOK, NEW r \in Requests, Decides(r, "ADMITTED")
    PROVE  /\ pc[r] = "decide" /\ rstatus # "NONE"
           /\ rstock > 0 /\ rcount[user[r]] < Limit
           /\ idem[user[r]][key[r]].st = "none"
<1>1. /\ rstock \in Nat /\ rcount[user[r]] \in Nat
      /\ idem[user[r]][key[r]].st \in {"none", "PENDING", "SUCCESS"}
  BY DEF TypeOK, RedisType, RequestType, Entry
<1> QED
  BY <1>1, LimitType DEF Decides, Decision, LimitCode

\* What a committing transaction has seen under the row lock.
LEMMA CommitMeans ==
    ASSUME TypeOK, NEW r \in Requests,
           Persists(r, "COMMIT") \/ Directs(r, "COMMIT")
    PROVE  /\ pc[r] \in {"persist", "direct"}
           /\ ClaimsFor(user[r], key[r]) = {}
           /\ available > 0
           /\ ~(Cardinality(L!ClaimsOf(user[r])) >= Limit)
<1>1. available \in Nat
  BY DEF TypeOK, DbType
<1> QED
  BY <1>1 DEF Persists, Directs, PersistVerdict, DirectVerdict, LimitCode

\* A replaying transaction has found a row.
LEMMA ReplayMeans ==
    ASSUME NEW r \in Requests, Persists(r, "REPLAY") \/ Directs(r, "REPLAY")
    PROVE  ClaimsFor(user[r], key[r]) # {}
BY DEF Persists, Directs, PersistVerdict, DirectVerdict, LimitCode

\* The row found for a user and key is a claim of that user and key.
LEMMA ClaimIdMeans ==
    ASSUME TypeOK, NEW u \in Users, NEW k \in Keys
    PROVE  /\ ClaimId(u, k) \in Requests \union {NoReq}
           /\ ClaimsFor(u, k) # {} =>
                [id |-> ClaimId(u, k), user |-> u, key |-> k] \in claims
<1>1. CASE ClaimsFor(u, k) = {}
  BY <1>1 DEF ClaimId
<1>2. CASE ClaimsFor(u, k) # {}
  <2> DEFINE c == CHOOSE c \in ClaimsFor(u, k) : TRUE
  <2>1. c \in ClaimsFor(u, k)
    BY <1>2
  <2>2. c \in claims /\ c.user = u /\ c.key = k
    BY <2>1 DEF ClaimsFor
  <2>3. c \in [id : Requests, user : Users, key : Keys]
    BY <2>2 DEF TypeOK, DbType, L!Claim
  <2>4. c = [id |-> c.id, user |-> u, key |-> k]
    BY <2>2, <2>3
  <2>5. ClaimId(u, k) = c.id
    BY <1>2 DEF ClaimId
  <2> QED
    BY <2>2, <2>3, <2>4, <2>5
<1> QED
  BY <1>1, <1>2

\* A committed claim leaves MySQL well typed.
LEMMA InsertClaimType ==
    ASSUME TypeOK, NEW r \in Requests, available > 0, InsertClaim(r)
    PROVE  DbType'
BY DEF TypeOK, DbType, RequestType, InsertClaim, L!Claim

\* Writing one idempotency entry changes that entry only.
LEMMA IdemUpdate ==
    ASSUME TypeOK, NEW u \in Users, NEW k \in Keys, NEW e \in Entry,
           idem' = [idem EXCEPT ![u][k] = e]
    PROVE  /\ idem' \in [Users -> [Keys -> Entry]]
           /\ \A v \in Users, l \in Keys :
                 idem'[v][l] = IF v = u /\ l = k THEN e ELSE idem[v][l]
BY DEF TypeOK, RedisType

\* A reservation leaves Redis well typed.
LEMMA ReserveType ==
    ASSUME TypeOK, NEW r \in Requests, rstock > 0, Reserve(r)
    PROVE  RedisType'
<1>1. [st |-> "PENDING", id |-> r] \in Entry
  BY DEF Entry
<1> QED
  BY <1>1, IdemUpdate DEF TypeOK, RedisType, RequestType, Reserve

\* So does a hydration.
LEMMA HydrateType ==
    ASSUME TypeOK, NEW r \in Requests, Hydrate(r)
    PROVE  RedisType'
BY DEF TypeOK, RedisType, RequestType, Hydrate, Snapshot

\* Another attempt, or giving up, leaves the request well typed.
LEMMA NextAttemptType ==
    ASSUME TypeOK, NEW r \in Requests, NextAttempt(r), UNCHANGED <<whoVars, gone>>
    PROVE  RequestType'
<1> USE DEF TypeOK, RequestType, EnvType, Goto, Answer, MaxAttempts, whoVars, Pcs, Codes,
            Refusals
<1>1. CASE attempt[r] < MaxAttempts
  <2>1. attempt[r] + 1 \in 1..MaxAttempts
    BY <1>1
  <2> QED
    BY <1>1, <2>1 DEF NextAttempt
<1>2. CASE ~(attempt[r] < MaxAttempts)
  BY <1>2 DEF NextAttempt
<1> QED
  BY <1>1, <1>2

\* Every step of a request with Redis keeps the types.
LEMMA RedisStepType ==
    ASSUME TypeOK, NEW r \in Requests, RedisStep(r)
    PROVE  TypeOK'
<1> USE ClaimAssumption DEF TypeOK, dbVars, redisVars, whoVars, reqVars, envVars, Goto, Answer,
        Works, Fails, ReplyLost, Pcs, Codes, Refusals
<1> USE DEF DbType, RedisType, RequestType, EnvType
<1>1. CASE DecideMiss(r)
  BY <1>1 DEF DecideMiss
<1>2. CASE DecidePending(r)
  BY <1>2 DEF DecidePending
<1>3. CASE DecideRefuse(r)
  BY <1>3 DEF DecideRefuse
<1>4. CASE DecideError(r)
  BY <1>4 DEF DecideError
<1>5. CASE LoadError(r)
  BY <1>5 DEF LoadError
<1>6. CASE WaitError(r)
  BY <1>6 DEF WaitError
<1>7. CASE FetchClaim(r)
  BY <1>7 DEF FetchClaim
<1>8. CASE FetchError(r)
  BY <1>8 DEF FetchError
<1>9. CASE PersistReject(r)
  BY <1>9 DEF PersistReject
<1>10. CASE PersistError(r)
  BY <1>10 DEF PersistError
<1>11. CASE RollbackError(r)
  BY <1>11 DEF RollbackError
<1>12. CASE FinalizeError(r)
  BY <1>12 DEF FinalizeError
<1>13. CASE DecideReplay(r)
  <2>1. idem[user[r]][key[r]].id \in Requests \union {NoReq}
    BY DEF Entry
  <2> QED
    BY <1>13, <2>1 DEF DecideReplay
<1>14. CASE WaitSuccess(r)
  <2>1. idem[user[r]][key[r]].id \in Requests \union {NoReq}
    BY DEF Entry
  <2> QED
    BY <1>14, <2>1 DEF WaitSuccess
<1>15. CASE DecideAdmit(r)
  <2>1. RedisType'
    BY <1>15, AdmittedMeans, ReserveType DEF DecideAdmit
  <2> QED
    BY <1>15, <2>1 DEF DecideAdmit
<1>16. CASE DecideAdmitLost(r)
  <2>1. RedisType'
    BY <1>16, AdmittedMeans, ReserveType DEF DecideAdmitLost
  <2>2. pc' \in [Requests -> Pcs] /\ code' \in [Requests -> Codes]
    <3>1. CASE Answer(r, "REDIS_ERROR")
      BY <3>1
    <3>2. CASE Goto(r, "decide") /\ code' = code
      BY <3>2
    <3> QED
      BY <1>16, <3>1, <3>2 DEF DecideAdmitLost
  <2> HIDE DEF Goto, Answer, RedisType
  <2> QED
    BY <1>16, <2>1, <2>2 DEF DecideAdmitLost
<1>17. CASE LoadCampaign(r)
  <2>1. [status |-> status, stock |-> available] \in Snapshot
    BY DEF Snapshot
  <2>2. CASE status = "MISSING"
    BY <1>17, <2>2 DEF LoadCampaign
  <2>3. CASE status # "MISSING"
    <3>1. PICK s \in Snapshot : snap' = [snap EXCEPT ![r] = s]
      BY <1>17, <2>1, <2>3 DEF LoadCampaign
    <3>2. snap' \in [Requests -> Snapshot]
      BY <3>1
    <3>3. RequestType'
      BY <1>17, <2>3, <3>2 DEF LoadCampaign
    <3> QED
      BY <1>17, <2>3, <3>3 DEF LoadCampaign
  <2> QED
    BY <2>2, <2>3
<1>18. CASE EnsureCampaign(r)
  <2>1. RedisType' /\ RequestType'
    BY <1>18, HydrateType, NextAttemptType DEF EnsureCampaign
  <2> QED
    BY <1>18, <2>1 DEF EnsureCampaign
<1>19. CASE EnsureError(r)
  <2>1. RedisType'
    BY <1>19, HydrateType DEF EnsureError
  <2> QED
    BY <1>19, <2>1 DEF EnsureError
<1>20. CASE WaitGivesUp(r)
  <2>1. RequestType'
    BY <1>20, NextAttemptType DEF WaitGivesUp
  <2> QED
    BY <1>20, <2>1 DEF WaitGivesUp
<1>21. CASE PersistCommit(r)
  <2>1. DbType'
    BY <1>21, CommitMeans, InsertClaimType DEF PersistCommit
  <2> QED
    BY <1>21, <2>1 DEF PersistCommit
<1>22. CASE PersistReplay(r)
  <2>1. ClaimId(user[r], key[r]) \in Requests \union {NoReq}
    BY ClaimIdMeans
  <2> QED
    BY <1>22, <2>1 DEF PersistReplay
<1>23. CASE PersistUnknown(r)
  <2>1. DbType'
    BY <1>23, CommitMeans, InsertClaimType DEF PersistUnknown
  <2> QED
    BY <1>23, <2>1 DEF PersistUnknown
<1>24. CASE Rollback(r)
  <2>1. RedisType'
    <3>1. NoEntry \in Entry
      BY DEF NoEntry, Entry
    <3>2. CASE Owns(r)
      <4>1. idem' \in [Users -> [Keys -> Entry]]
        BY <1>24, <3>1, <3>2, IdemUpdate DEF Rollback
      <4>2. rcount' \in [Users -> Nat]
        BY <1>24, <3>2 DEF Rollback
      <4> QED
        BY <1>24, <3>2, <4>1, <4>2 DEF Rollback
    <3>3. CASE ~Owns(r)
      BY <1>24, <3>3 DEF Rollback
    <3> QED
      BY <3>2, <3>3
  <2> QED
    BY <1>24, <2>1 DEF Rollback
<1>25. CASE Finalize(r)
  <2>1. [st |-> "SUCCESS", id |-> got[r]] \in Entry
    BY DEF Entry
  <2>2. RedisType'
    <3>1. CASE Owns(r)
      <4>1. idem' \in [Users -> [Keys -> Entry]]
        BY <1>25, <2>1, <3>1, IdemUpdate DEF Finalize
      <4> QED
        BY <1>25, <3>1, <4>1 DEF Finalize
    <3>2. CASE ~Owns(r)
      BY <1>25, <3>2 DEF Finalize
    <3> QED
      BY <3>1, <3>2
  <2> QED
    BY <1>25, <2>2 DEF Finalize
<1> QED
  BY <1>1, <1>2, <1>3, <1>4, <1>5, <1>6, <1>7, <1>8, <1>9, <1>10, <1>11, <1>12,
     <1>13, <1>14, <1>15, <1>16, <1>17, <1>18, <1>19, <1>20, <1>21, <1>22, <1>23, <1>24,
     <1>25 DEF RedisStep

\* Every step of a request without Redis keeps the types.
LEMMA DirectStepType ==
    ASSUME TypeOK, NEW r \in Requests, DirectStep(r)
    PROVE  TypeOK'
<1> USE ClaimAssumption DEF TypeOK, dbVars, redisVars, whoVars, reqVars, envVars, Goto, Answer,
        Works, Fails, ReplyLost, Pcs, Codes, Refusals
<1> USE DEF DbType, RedisType, RequestType, EnvType
<1>1. CASE DirectCommit(r)
  <2>1. DbType'
    BY <1>1, CommitMeans, InsertClaimType DEF DirectCommit
  <2> QED
    BY <1>1, <2>1 DEF DirectCommit
<1>2. CASE DirectReplay(r)
  <2>1. ClaimId(user[r], key[r]) \in Requests \union {NoReq}
    BY ClaimIdMeans
  <2> QED
    BY <1>2, <2>1 DEF DirectReplay
<1>3. CASE DirectReject(r)
  BY <1>3 DEF DirectReject
<1>4. CASE DirectError(r)
  BY <1>4 DEF DirectError
<1>5. CASE DirectUnknown(r)
  <2>1. DbType'
    BY <1>5, CommitMeans, InsertClaimType DEF DirectUnknown
  <2> QED
    BY <1>5, <2>1 DEF DirectUnknown
<1> QED
  BY <1>1, <1>2, <1>3, <1>4, <1>5 DEF DirectStep

\* Starting a request keeps the types.
LEMMA BeginType ==
    ASSUME TypeOK, NEW r \in Requests, Begin(r)
    PROVE  TypeOK'
<1>1. ClaimId(user[r], key[r]) \in Requests \union {NoReq}
  BY ClaimIdMeans DEF TypeOK, RequestType
<1> QED
  BY <1>1 DEF TypeOK, DbType, RedisType, RequestType, EnvType, Begin, Goto, Pcs,
              dbVars, redisVars, envVars

\* Disconnects, crashes, expiries, flushes, operators and the clock keep the types.
LEMMA EnvironmentType ==
    ASSUME TypeOK, Environment
    PROVE  TypeOK'
<1> USE ClaimAssumption DEF TypeOK, DbType, RedisType, RequestType, EnvType,
        dbVars, redisVars, whoVars, reqVars, envVars
<1>1. NoEntry \in Entry
  BY DEF NoEntry, Entry
<1>2. ASSUME NEW r \in Requests, Disconnect(r) PROVE TypeOK'
  BY <1>2 DEF Disconnect
<1>3. ASSUME NEW r \in Requests, Die(r) PROVE TypeOK'
  BY <1>3 DEF Die, Goto, Pcs
<1>4. ASSUME NEW u \in Users, NEW k \in Keys, Expire(u, k) PROVE TypeOK'
  <2>1. idem' \in [Users -> [Keys -> Entry]]
    BY <1>1, <1>4, IdemUpdate DEF Expire
  <2> QED
    BY <1>4, <2>1 DEF Expire
<1>5. CASE RedisFlush
  <2>1. idem' \in [Users -> [Keys -> Entry]]
    BY <1>1, <1>5 DEF RedisFlush
  <2> QED
    BY <1>5, <2>1 DEF RedisFlush
<1>6. CASE SetStatus
  BY <1>6 DEF SetStatus
<1>7. CASE Tick
  BY <1>7 DEF Tick
<1> QED
  BY <1>2, <1>3, <1>4, <1>5, <1>6, <1>7 DEF Environment

\* Initial states are well typed.
LEMMA InitType ==
    ASSUME Init
    PROVE  TypeOK
<1> USE ClaimAssumption DEF Init
<1>1. DbType
  BY DEF DbType
<1>2. RedisType
  BY DEF RedisType, Entry, NoEntry
<1>3. RequestType
  <2>1. [status |-> "MISSING", stock |-> 0] \in Snapshot
    BY DEF Snapshot, Statuses
  <2>2. window \in Windows
    OBVIOUS
  <2> QED
    BY <2>1, <2>2 DEF RequestType, Pcs, Codes, MaxAttempts
<1>4. EnvType
  BY DEF EnvType
<1> QED
  BY <1>1, <1>2, <1>3, <1>4 DEF TypeOK

\* A stuttering step keeps the types.
LEMMA StutterType ==
    ASSUME TypeOK, UNCHANGED vars
    PROVE  TypeOK'
BY DEF vars, TypeOK, DbType, RedisType, RequestType, EnvType

\* Every step keeps the types.
LEMMA NextType ==
    ASSUME TypeOK, [Next]_vars
    PROVE  TypeOK'
BY BeginType, RedisStepType, DirectStepType, EnvironmentType, StutterType DEF Next

\* Types are invariant; in particular MySQL's and Redis' stock and Redis' user
\* counters never become negative, whatever expires, crashes or is flushed.
THEOREM TypeCorrect == Spec => []TypeOK
BY InitType, NextType, PTL DEF Spec

-----------------------------------------------------------------------------
\* The ledger.

\* The writes of a claim transaction only add the row of the request.
LEMMA InsertClaimGrows ==
    ASSUME TypeOK, IsFiniteSet(claims), NEW r \in Requests, InsertClaim(r)
    PROVE  /\ IsFiniteSet(claims')
           /\ claims \subseteq claims'
           /\ [id |-> r, user |-> user[r], key |-> key[r]] \in claims'
           /\ \A c \in claims' : c \in claims \/ c.id = r
BY FS_AddElement DEF InsertClaim

\* Every step of a request with Redis keeps the invariant of the answers.
LEMMA RedisStepLedger ==
    ASSUME LedgerIInv, NEW r \in Requests, RedisStep(r)
    PROVE  LedgerIInv'
<1> DEFINE Promise(q) == [id |-> got[q], user |-> user[q], key |-> key[q]]
<1>0. TypeOK /\ TypeOK'
  BY RedisStepType DEF LedgerIInv
<1>a. /\ pc \in [Requests -> Pcs] /\ code \in [Requests -> Codes]
      /\ got \in [Requests -> Requests \union {NoReq}]
      /\ \A c \in claims : c.id \in Requests
      /\ user[r] \in Users /\ key[r] \in Keys
  BY <1>0 DEF TypeOK, RequestType, DbType, L!Claim
<1> USE DEF dbVars, redisVars, whoVars, reqVars, envVars, Goto, Answer, AnswersAreLedgered
<1>1. CASE DecideError(r)
  BY <1>1, <1>0, <1>a DEF DecideError, LedgerIInv
<1>2. CASE LoadCampaign(r)
  BY <1>2, <1>0, <1>a DEF LoadCampaign, LedgerIInv
<1>3. CASE LoadError(r)
  BY <1>3, <1>0, <1>a DEF LoadError, LedgerIInv
<1>4. CASE WaitError(r)
  BY <1>4, <1>0, <1>a DEF WaitError, LedgerIInv
<1>5. CASE FetchClaim(r)
  BY <1>5, <1>0, <1>a DEF FetchClaim, LedgerIInv
<1>6. CASE FetchError(r)
  BY <1>6, <1>0, <1>a DEF FetchError, LedgerIInv
<1>7. CASE PersistError(r)
  BY <1>7, <1>0, <1>a DEF PersistError, LedgerIInv
<1>8. CASE RollbackError(r)
  BY <1>8, <1>0, <1>a DEF RollbackError, LedgerIInv
<1>9. CASE FinalizeError(r)
  BY <1>9, <1>0, <1>a DEF FinalizeError, LedgerIInv
<1>10. CASE DecideMiss(r)
  BY <1>10, <1>0, <1>a DEF DecideMiss, LedgerIInv, Refusals, Decides, Persists
<1>11. CASE DecidePending(r)
  BY <1>11, <1>0, <1>a DEF DecidePending, LedgerIInv, Refusals, Decides, Persists
<1>12. CASE DecideRefuse(r)
  BY <1>12, <1>0, <1>a DEF DecideRefuse, LedgerIInv, Refusals, Decides, Persists
<1>13. CASE PersistReject(r)
  BY <1>13, <1>0, <1>a DEF PersistReject, LedgerIInv, Refusals, Decides, Persists
<1>14. CASE DecideReplay(r)
  <2>1. idem[user[r]][key[r]].st = "SUCCESS"
    BY <1>14, <1>0, <1>a DEF DecideReplay, Decides, Decision, LimitCode
  <2>2. Promise(r)' \in claims
    BY <1>14, <1>a, <2>1 DEF DecideReplay, LedgerIInv
  <2> QED
    BY <1>14, <1>0, <1>a, <2>2 DEF DecideReplay, LedgerIInv, Decides
<1>15. CASE WaitSuccess(r)
  <2>1. idem[user[r]][key[r]].st = "SUCCESS"
    BY <1>15, <1>0, <1>a DEF WaitSuccess
  <2>2. Promise(r)' \in claims
    BY <1>15, <1>a, <2>1 DEF WaitSuccess, LedgerIInv
  <2> QED
    BY <1>15, <1>0, <1>a, <2>2 DEF WaitSuccess, LedgerIInv
<1>16. CASE DecideAdmit(r)
  <2>1. \A u \in Users, k \in Keys :
             idem'[u][k].st = "SUCCESS" => idem'[u][k] = idem[u][k]
    BY <1>16, <1>0, <1>a, IdemUpdate DEF DecideAdmit, Reserve, Entry
  <2> QED
    BY <1>16, <1>0, <1>a, <2>1 DEF DecideAdmit, LedgerIInv, Decides
<1>17. CASE DecideAdmitLost(r)
  <2>1. \A u \in Users, k \in Keys :
             idem'[u][k].st = "SUCCESS" => idem'[u][k] = idem[u][k]
    BY <1>17, <1>0, <1>a, IdemUpdate DEF DecideAdmitLost, Reserve, Entry
  <2> QED
    BY <1>17, <1>0, <1>a, <2>1 DEF DecideAdmitLost, LedgerIInv, Decides
<1>18. CASE EnsureCampaign(r)
  BY <1>18, <1>0, <1>a DEF EnsureCampaign, LedgerIInv, NextAttempt, Hydrate
<1>19. CASE EnsureError(r)
  BY <1>19, <1>0, <1>a DEF EnsureError, LedgerIInv, NextAttempt, Hydrate
<1>20. CASE WaitGivesUp(r)
  BY <1>20, <1>0, <1>a DEF WaitGivesUp, LedgerIInv, NextAttempt
<1>21. CASE PersistCommit(r)
  <2>1. pc[r] = "persist" /\ InsertClaim(r)
    BY <1>21 DEF PersistCommit, Persists
  <2>2. /\ IsFiniteSet(claims') /\ claims \subseteq claims'
        /\ [id |-> r, user |-> user[r], key |-> key[r]] \in claims'
        /\ \A c \in claims' : c \in claims \/ c.id = r
    BY <1>0, <2>1, InsertClaimGrows DEF LedgerIInv
  <2>3. \A c \in claims' : pc'[c.id] \in {"rollback", "finalize", "done", "dead"}
    BY <1>21, <1>a, <2>2 DEF PersistCommit, LedgerIInv
  <2>4. AnswersAreLedgered'
    BY <1>21, <1>a, <2>1, <2>2 DEF PersistCommit, LedgerIInv
  <2> QED
    BY <1>21, <1>0, <1>a, <2>1, <2>2, <2>3, <2>4 DEF PersistCommit, LedgerIInv
<1>22. CASE PersistUnknown(r)
  <2>1. pc[r] = "persist" /\ InsertClaim(r)
    BY <1>22 DEF PersistUnknown, Persists
  <2>2. /\ IsFiniteSet(claims') /\ claims \subseteq claims'
        /\ [id |-> r, user |-> user[r], key |-> key[r]] \in claims'
        /\ \A c \in claims' : c \in claims \/ c.id = r
    BY <1>0, <2>1, InsertClaimGrows DEF LedgerIInv
  <2>3. \A c \in claims' : pc'[c.id] \in {"rollback", "finalize", "done", "dead"}
    BY <1>22, <1>a, <2>2 DEF PersistUnknown, LedgerIInv
  <2>4. AnswersAreLedgered'
    BY <1>22, <1>a, <2>1, <2>2 DEF PersistUnknown, LedgerIInv
  <2> QED
    BY <1>22, <1>0, <1>a, <2>1, <2>2, <2>3, <2>4 DEF PersistUnknown, LedgerIInv
<1>23. CASE PersistReplay(r)
  <2>1. pc[r] = "persist"
    BY <1>23 DEF PersistReplay, Persists
  <2>2. Promise(r)' \in claims
    BY <1>23, <1>0, <1>a, ReplayMeans, ClaimIdMeans DEF PersistReplay
  <2> QED
    BY <1>23, <1>0, <1>a, <2>1, <2>2 DEF PersistReplay, LedgerIInv
<1>24. CASE Rollback(r)
  <2>1. \A u \in Users, k \in Keys :
             idem'[u][k].st = "SUCCESS" => idem'[u][k] = idem[u][k]
    BY <1>24, <1>0, <1>a, IdemUpdate DEF Rollback, NoEntry, Entry
  <2> QED
    BY <1>24, <1>0, <1>a, <2>1 DEF Rollback, LedgerIInv
<1>25. CASE Finalize(r)
  <2>1. Promise(r) \in claims
    BY <1>25 DEF Finalize, LedgerIInv
  <2>2. \A u \in Users, k \in Keys :
             idem'[u][k].st = "SUCCESS" =>
                 \/ idem'[u][k] = idem[u][k]
                 \/ u = user[r] /\ k = key[r] /\ idem'[u][k].id = got[r]
    BY <1>25, <1>0, <1>a, IdemUpdate DEF Finalize, Entry
  <2> QED
    BY <1>25, <1>0, <1>a, <2>1, <2>2 DEF Finalize, LedgerIInv
<1> QED
  BY <1>1, <1>2, <1>3, <1>4, <1>5, <1>6, <1>7, <1>8, <1>9, <1>10, <1>11, <1>12,
     <1>13, <1>14, <1>15, <1>16, <1>17, <1>18, <1>19, <1>20, <1>21, <1>22, <1>23, <1>24,
     <1>25 DEF RedisStep

\* Every step of a request without Redis keeps the invariant of the answers.
LEMMA DirectStepLedger ==
    ASSUME LedgerIInv, NEW r \in Requests, DirectStep(r)
    PROVE  LedgerIInv'
<1> DEFINE Promise(q) == [id |-> got[q], user |-> user[q], key |-> key[q]]
<1>0. TypeOK /\ TypeOK'
  BY DirectStepType DEF LedgerIInv
<1>a. /\ pc \in [Requests -> Pcs] /\ code \in [Requests -> Codes]
      /\ got \in [Requests -> Requests \union {NoReq}]
      /\ \A c \in claims : c.id \in Requests
      /\ user[r] \in Users /\ key[r] \in Keys
  BY <1>0 DEF TypeOK, RequestType, DbType, L!Claim
<1> USE DEF dbVars, redisVars, whoVars, reqVars, envVars, Goto, Answer, AnswersAreLedgered
<1>1. CASE DirectCommit(r)
  <2>1. pc[r] = "direct" /\ InsertClaim(r)
    BY <1>1 DEF DirectCommit, Directs
  <2>2. /\ IsFiniteSet(claims') /\ claims \subseteq claims'
        /\ [id |-> r, user |-> user[r], key |-> key[r]] \in claims'
        /\ \A c \in claims' : c \in claims \/ c.id = r
    BY <1>0, <2>1, InsertClaimGrows DEF LedgerIInv
  <2>3. \A c \in claims' : pc'[c.id] \in {"rollback", "finalize", "done", "dead"}
    BY <1>1, <1>a, <2>2 DEF DirectCommit, LedgerIInv
  <2>4. AnswersAreLedgered'
    BY <1>1, <1>a, <2>1, <2>2 DEF DirectCommit, LedgerIInv
  <2> QED
    BY <1>1, <1>0, <1>a, <2>1, <2>2, <2>3, <2>4 DEF DirectCommit, LedgerIInv
<1>2. CASE DirectUnknown(r)
  <2>1. pc[r] = "direct" /\ InsertClaim(r)
    BY <1>2 DEF DirectUnknown, Directs
  <2>2. /\ IsFiniteSet(claims') /\ claims \subseteq claims'
        /\ [id |-> r, user |-> user[r], key |-> key[r]] \in claims'
        /\ \A c \in claims' : c \in claims \/ c.id = r
    BY <1>0, <2>1, InsertClaimGrows DEF LedgerIInv
  <2>3. \A c \in claims' : pc'[c.id] \in {"rollback", "finalize", "done", "dead"}
    BY <1>2, <1>a, <2>2 DEF DirectUnknown, LedgerIInv
  <2>4. AnswersAreLedgered'
    BY <1>2, <1>a, <2>1, <2>2 DEF DirectUnknown, LedgerIInv
  <2> QED
    BY <1>2, <1>0, <1>a, <2>1, <2>2, <2>3, <2>4 DEF DirectUnknown, LedgerIInv
<1>3. CASE DirectReplay(r)
  <2>1. pc[r] = "direct"
    BY <1>3 DEF DirectReplay, Directs
  <2>2. Promise(r)' \in claims
    BY <1>3, <1>0, <1>a, ReplayMeans, ClaimIdMeans DEF DirectReplay
  <2> QED
    BY <1>3, <1>0, <1>a, <2>1, <2>2 DEF DirectReplay, LedgerIInv
<1>4. CASE DirectReject(r)
  BY <1>4, <1>0, <1>a DEF DirectReject, LedgerIInv, Refusals, Directs
<1>5. CASE DirectError(r)
  BY <1>5, <1>0, <1>a DEF DirectError, LedgerIInv
<1> QED
  BY <1>1, <1>2, <1>3, <1>4, <1>5 DEF DirectStep

\* Starting a request keeps the invariant of the answers.
LEMMA BeginLedger ==
    ASSUME LedgerIInv, NEW r \in Requests, Begin(r)
    PROVE  LedgerIInv'
<1>1. TypeOK /\ TypeOK'
  BY BeginType DEF LedgerIInv
<1>2. /\ pc \in [Requests -> Pcs]
      /\ \A c \in claims : c.id \in Requests
  BY <1>1 DEF TypeOK, RequestType, DbType, L!Claim
<1> QED
  BY <1>1, <1>2 DEF Begin, LedgerIInv, AnswersAreLedgered, Goto, dbVars, redisVars, envVars

\* So do faults, expiries, flushes, operators and the clock: what Redis forgets
\* was never the only copy.
LEMMA EnvironmentLedger ==
    ASSUME LedgerIInv, Environment
    PROVE  LedgerIInv'
<1>0. TypeOK /\ TypeOK'
  BY EnvironmentType DEF LedgerIInv
<1>a. /\ pc \in [Requests -> Pcs]
      /\ \A c \in claims : c.id \in Requests
  BY <1>0 DEF TypeOK, RequestType, DbType, L!Claim
<1> USE DEF dbVars, redisVars, whoVars, reqVars, envVars, AnswersAreLedgered
<1>1. ASSUME NEW r \in Requests, Disconnect(r) PROVE LedgerIInv'
  BY <1>0, <1>1 DEF Disconnect, LedgerIInv
<1>2. ASSUME NEW r \in Requests, Die(r) PROVE LedgerIInv'
  BY <1>0, <1>a, <1>2 DEF Die, Goto, Running, LedgerIInv
<1>3. ASSUME NEW u \in Users, NEW k \in Keys, Expire(u, k) PROVE LedgerIInv'
  <2>1. NoEntry \in Entry /\ NoEntry.st = "none"
    BY DEF NoEntry, Entry
  <2>2. \A v \in Users, l \in Keys :
            idem'[v][l].st = "SUCCESS" => idem'[v][l] = idem[v][l]
    BY <1>0, <1>3, <2>1, IdemUpdate DEF Expire
  <2> QED
    BY <1>0, <1>3, <2>2 DEF Expire, LedgerIInv
<1>4. CASE RedisFlush
  <2>1. \A v \in Users, l \in Keys : idem'[v][l].st # "SUCCESS"
    BY <1>4 DEF RedisFlush, NoEntry
  <2> QED
    BY <1>0, <1>4, <2>1 DEF RedisFlush, LedgerIInv
<1>5. CASE SetStatus
  BY <1>0, <1>5 DEF SetStatus, LedgerIInv
<1>6. CASE Tick
  BY <1>0, <1>6 DEF Tick, LedgerIInv
<1> QED
  BY <1>1, <1>2, <1>3, <1>4, <1>5, <1>6 DEF Environment

\* The inductive invariant holds initially.
LEMMA InitLedger ==
    ASSUME Init
    PROVE  LedgerIInv
<1>1. TypeOK
  BY InitType
<1>2. \A u \in Users, k \in Keys : idem[u][k].st = "none"
  BY DEF Init, NoEntry
<1> QED
  BY <1>1, <1>2, FS_EmptySet DEF Init, LedgerIInv, AnswersAreLedgered

\* Every step keeps the inductive invariant.
LEMMA NextLedger ==
    ASSUME LedgerIInv, [Next]_vars
    PROVE  LedgerIInv'
<1>1. CASE UNCHANGED vars
  <2>1. TypeOK'
    BY <1>1, StutterType DEF LedgerIInv
  <2> QED
    BY <1>1, <2>1 DEF vars, LedgerIInv, AnswersAreLedgered
<1>2. CASE Next
  BY <1>2, BeginLedger, RedisStepLedger, DirectStepLedger, EnvironmentLedger DEF Next
<1> QED
  BY <1>1, <1>2

\* The inductive invariant always holds.
LEMMA LedgerInvariance == Spec => []LedgerIInv
BY InitLedger, NextLedger, PTL DEF Spec

\* Every claim id answered with OK or cached as SUCCESS is a committed claim of
\* that user and key, for any number of concurrent requests, retries, expiries,
\* crashes and flushes of Redis.
THEOREM AnswersCorrect == Spec => []AnswersAreLedgered
<1>1. LedgerIInv => AnswersAreLedgered
  BY DEF LedgerIInv
<1> QED
  BY <1>1, LedgerInvariance, PTL

-----------------------------------------------------------------------------
\* Refinement.

\* A step writes MySQL's claim tables only in a committing transaction.
LEMMA RequestStepWrites ==
    ASSUME NEW r \in Requests, Begin(r) \/ RedisStep(r) \/ DirectStep(r)
    PROVE  \/ UNCHANGED <<available, claims, notices>>
           \/ InsertClaim(r) /\ (Persists(r, "COMMIT") \/ Directs(r, "COMMIT"))
<1>1. CASE Begin(r)
  BY <1>1 DEF Begin, dbVars
<1>2. CASE DirectStep(r)
  BY <1>2 DEF DirectStep, DirectCommit, DirectReplay, DirectReject, DirectError,
              DirectUnknown, dbVars
<1>3. CASE RedisStep(r)
  BY <1>3 DEF RedisStep, DecideMiss, DecideReplay, DecidePending, DecideRefuse, DecideAdmit,
              DecideError, DecideAdmitLost, LoadCampaign, LoadError, EnsureCampaign,
              EnsureError, WaitSuccess, WaitGivesUp, WaitError, FetchClaim, FetchError,
              PersistCommit, PersistReplay, PersistReject, PersistError, PersistUnknown,
              Rollback, RollbackError, Finalize, FinalizeError, dbVars
<1> QED
  BY <1>1, <1>2, <1>3

\* The ledger module's cardinality is this module's.
LEMMA SameCardinality ==
    ASSUME NEW S
    PROVE  L!Cardinality(S) = Cardinality(S)
BY Zenon DEF L!Cardinality, Cardinality

\* A committing transaction is one commit of the ledger.
LEMMA CommitRefines ==
    ASSUME LedgerIInv, NEW r \in Requests, InsertClaim(r),
           Persists(r, "COMMIT") \/ Directs(r, "COMMIT")
    PROVE  L!Commit(r, user[r], key[r])
<1>1. TypeOK
  BY DEF LedgerIInv
<1>2. /\ pc[r] \in {"persist", "direct"}
      /\ ClaimsFor(user[r], key[r]) = {}
      /\ available > 0
      /\ ~(Cardinality(L!ClaimsOf(user[r])) >= Limit)
  BY <1>1, CommitMeans
<1>3. r \notin L!Ids
  BY <1>2 DEF LedgerIInv, L!Ids
<1>4. Cardinality(L!ClaimsOf(user[r])) \in Nat
  BY FS_Subset, FS_CardinalityType DEF LedgerIInv, L!ClaimsOf
<1>5. L!Cardinality(L!ClaimsOf(user[r])) < Limit
  BY <1>2, <1>4, LimitType, SameCardinality
<1> QED
  BY <1>2, <1>3, <1>5 DEF L!Commit, InsertClaim, ClaimsFor

\* The claim path, with and without Redis, implements the ledger: whatever the
\* interleaving and the faults, MySQL sees a sequence of whole, legal claims.
THEOREM ServiceImplementsLedger == Spec => ImplementsLedger
<1>1. Init => L!Init
  BY DEF Init, L!Init
<1>2. LedgerIInv /\ [Next]_vars => [L!Next]_(L!vars)
  <2> SUFFICES ASSUME LedgerIInv, [Next]_vars PROVE [L!Next]_(L!vars)
    OBVIOUS
  <2>1. CASE UNCHANGED vars
    BY <2>1 DEF vars, L!vars
  <2>2. CASE Environment
    BY <2>2 DEF Environment, Disconnect, Die, Expire, RedisFlush, SetStatus, Tick,
                dbVars, L!vars
  <2>3. ASSUME NEW r \in Requests, Begin(r) \/ RedisStep(r) \/ DirectStep(r)
        PROVE  [L!Next]_(L!vars)
    <3>1. CASE UNCHANGED <<available, claims, notices>>
      BY <3>1 DEF L!vars
    <3>2. CASE InsertClaim(r) /\ (Persists(r, "COMMIT") \/ Directs(r, "COMMIT"))
      <4>1. L!Commit(r, user[r], key[r])
        BY <3>2, CommitRefines
      <4>2. user[r] \in Users /\ key[r] \in Keys
        BY DEF LedgerIInv, TypeOK, RequestType
      <4> QED
        BY <4>1, <4>2 DEF L!Next
    <3> QED
      BY <2>3, <3>1, <3>2, RequestStepWrites
  <2> QED
    BY <2>1, <2>2, <2>3 DEF Next
<1> QED
  BY <1>1, <1>2, LedgerInvariance, PTL DEF Spec, ImplementsLedger, L!Spec

\* The theorems about the ledger, for the claims of this module.
P == INSTANCE CouponLedgerProofs WITH ClaimIds <- Requests

\* So the ledger's invariant holds of the claims of this module.
LEMMA LedgerKept == Spec => []P!Inv
<1>1. TotalStock \in Nat /\ Limit \in Nat
  BY ClaimAssumption, LimitType
<1>2. P!Spec => []P!Inv
  BY <1>1, P!LedgerInvariant
<1>3. L!Init => P!Init
  BY DEF L!Init, P!Init
<1>4. \A S : P!Cardinality(S) = L!Cardinality(S)
  BY Zenon DEF P!Cardinality, L!Cardinality
<1>5. [L!Next]_(L!vars) => [P!Next]_(P!vars)
  BY <1>4 DEF L!Next, P!Next, L!Commit, P!Commit, L!Ids, P!Ids, L!ClaimsOf, P!ClaimsOf,
              L!vars, P!vars
<1> QED
  BY <1>2, <1>3, <1>5, ServiceImplementsLedger, PTL DEF ImplementsLedger, L!Spec, P!Spec

\* Stock is conserved and never oversold and no user exceeds the limit, although
\* Redis may over-admit after a flush or an unacknowledged commit.
THEOREM StockAndLimitSafe == Spec => [](NoOversell /\ WithinLimit)
<1>1. /\ \A S : P!Cardinality(S) = L!Cardinality(S)
      /\ \A S : P!IsFiniteSet(S) = L!IsFiniteSet(S)
  BY Zenon DEF P!Cardinality, L!Cardinality, P!IsFiniteSet, L!IsFiniteSet
<1>2. P!Inv => NoOversell /\ WithinLimit
  BY <1>1 DEF P!Inv, P!NoOversell, P!WithinLimit, P!ClaimsOf, NoOversell, WithinLimit,
              L!NoOversell, L!WithinLimit, L!ClaimsOf
<1> QED
  BY <1>2, LedgerKept, PTL

\* No user ever holds more claims than the normalised per-user limit, although
\* Redis may have admitted more requests than that.
THEOREM LimitSafe == Spec => []WithinLimit
BY StockAndLimitSafe, PTL

\* Any two requests of a user with the same key that are answered OK are answered with
\* the same claim, on whichever path, after any expiry, crash or flush in between: each
\* answer is a row of the ledger, and the ledger has one row per user and key.
THEOREM AnswersAgree == Spec => []SameKeySameClaim
<1>1. AnswersAreLedgered /\ P!Inv => SameKeySameClaim
  <2> SUFFICES ASSUME AnswersAreLedgered, P!Inv, NEW r \in Requests, NEW q \in Requests,
                      code[r] = "OK", code[q] = "OK", user[r] = user[q], key[r] = key[q]
               PROVE  got[r] = got[q]
    BY DEF SameKeySameClaim
  <2> DEFINE x == [id |-> got[r], user |-> user[r], key |-> key[r]]
             y == [id |-> got[q], user |-> user[q], key |-> key[q]]
  <2>1. x \in claims /\ y \in claims
    BY DEF AnswersAreLedgered
  <2>2. x = y
    BY <2>1 DEF P!Inv, P!OneClaimPerKey
  <2> QED
    BY <2>2
<1> QED
  BY <1>1, AnswersCorrect, LedgerKept, PTL
=============================================================================
