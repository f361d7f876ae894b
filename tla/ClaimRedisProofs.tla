-------------------------- MODULE ClaimRedisProofs --------------------------
(***************************************************************************)
(* What the counters and entries of Redis are worth: in general, as long   *)
(* as Redis keeps its data, and as long as nothing fails at all.           *)
(***************************************************************************)
EXTENDS ClaimServiceProofs

\* The keys of u that have an entry, and the reservations of u in flight.
Live(u) == {k \in Keys : idem[u][k].st # "none"}
HeldBy(u) == {r \in Reserving : user[r] = u}

\* In general.  Entries can be counted only if there are finitely many of them.
EntriesIInv == EntriesAreCounted /\ \A u \in Users : IsFiniteSet(Live(u))

\* Before the first hydration nothing is reserved or sold, and no snapshot that may
\* still be written to Redis promises more than there is.
Fresh ==
    adjudicator /\ rstatus = "NONE" /\ flushes = 0 =>
        /\ Reserving = {} /\ claims = {}
        /\ \A r \in Requests : snap[r].stock <= available

\* While Redis keeps its data.
CountersIInv ==
    /\ IsFiniteSet(Reserving)
    /\ adjudicator => \A r \in Requests : pc[r] # "direct"
    /\ Fresh
    /\ RedisNeverOveradmits

Holding == {"persist", "rollback", "finalize"}

\* Redis has what a replay of claim c needs: its id, or the entry of the request that
\* is about to write it.
Remembered(c) ==
    LET e == idem[c.user][c.key]
    IN \/ e.st = "SUCCESS" /\ e.id = c.id
       \/ e.st = "PENDING" /\ pc[e.id] = "finalize" /\ got[e.id] = c.id

\* Where a request may be whose user and key had a claim when it began.
Replays(r) ==
    /\ [id |-> prior[r], user |-> user[r], key |-> key[r]] \in claims
    /\ pc[r] \in {"decide", "wait", "fetch", "done"}
    /\ pc[r] = "fetch" => got[r] = prior[r]
    /\ pc[r] = "done" => code[r] = "BUSY" \/ (code[r] = "OK" /\ got[r] = prior[r])

\* A Redis that is not hydrated holds nothing.
Blank ==
    rstatus = "NONE" =>
        \A u \in Users : rcount[u] = 0 /\ \A k \in Keys : idem[u][k] = NoEntry

\* A reservation belongs to the request that made it until that request is through
\* with it, and every claim is remembered.
Tidy ==
    /\ \A r \in Requests : pc[r] \in Holding => Owns(r)
    /\ \A u \in Users, k \in Keys : idem[u][k].st = "PENDING" =>
          LET q == idem[u][k].id
          IN q \in Requests /\ user[q] = u /\ key[q] = k /\ pc[q] \in Holding
    /\ \A c \in claims : Remembered(c)

\* Undisturbed, that is so, what is about to be hydrated is current, and the counters
\* are exact.
ExactIInv ==
    /\ Blank
    /\ adjudicator /\ Undisturbed =>
          /\ \A r \in Requests : ~gone[r]
          /\ Tidy
          /\ rstatus = "NONE" => \A r \in Requests : pc[r] = "hydrate" => snap[r].stock = available
          /\ \A r \in Requests : prior[r] # NoReq => Replays(r)
    /\ RedisMirrorsLedger

-----------------------------------------------------------------------------
\* What a step may do to the counters, the entries and the reservations in flight.

Unsold == UNCHANGED <<available, claims, lost>>

\* Nothing but reservations forgotten by their request.
Quiet == UNCHANGED redisVars /\ Unsold /\ Reserving' \subseteq Reserving

\* An admission, answered or not.
Admission(r) ==
    /\ Decides(r, "ADMITTED") /\ Reserve(r) /\ Unsold
    /\ Reserving' \subseteq Reserving \union {r}

\* A commit of a reservation, acknowledged or not.
Purchase(r) ==
    /\ Persists(r, "COMMIT") /\ InsertClaim(r) /\ UNCHANGED redisVars
    /\ \/ lost' = lost /\ Reserving' = Reserving \ {r}
       \/ lost' = lost + 1 /\ Reserving' = Reserving

Hydration(r) == Hydrate(r) /\ Unsold /\ UNCHANGED Reserving

\* A reservation given back.
Return(r) ==
    /\ pc[r] = "rollback" /\ Owns(r)
    /\ idem' = [idem EXCEPT ![user[r]][key[r]] = NoEntry]
    /\ rstock' = rstock + 1
    /\ rcount' = [rcount EXCEPT ![user[r]] = IF @ - 1 <= 0 THEN 0 ELSE @ - 1]
    /\ Unsold /\ UNCHANGED rstatus
    /\ Reserving' = Reserving \ {r}

\* An entry finalized or expired.
Rewrite(u, k, e) ==
    /\ idem[u][k].st # "none" /\ idem' = [idem EXCEPT ![u][k] = e]
    /\ Unsold /\ UNCHANGED <<rstatus, rstock, rcount>>
    /\ Reserving' \subseteq Reserving

Kinds ==
    \/ Quiet
    \/ \E r \in Requests : Admission(r) \/ Purchase(r) \/ Hydration(r) \/ Return(r)
    \/ \E r \in Requests :
          pc[r] = "direct" /\ UNCHANGED redisVars /\ Reserving' \subseteq Reserving
    \/ \E u \in Users, k \in Keys, e \in Entry : Rewrite(u, k, e)
    \/ RedisFlush /\ UNCHANGED Reserving

\* What no step changes, and what only grows.
Steady ==
    /\ adjudicator' = adjudicator /\ user' = user /\ key' = key
    /\ flushes' = flushes \/ RedisFlush
    /\ \A q \in Requests : snap'[q] = snap[q] \/ snap'[q].stock = available
    /\ adjudicator => \A q \in Requests : pc'[q] = "direct" => pc[q] = "direct"

\* Every step of a request with Redis is of one of these kinds.
LEMMA RedisStepKinds ==
    ASSUME TypeOK, NEW r \in Requests, RedisStep(r)
    PROVE  Kinds
<1>0. pc \in [Requests -> Pcs]
  BY DEF TypeOK, RequestType
<1>1. /\ pc[r] \in {"persist", "rollback"} \/ pc'[r] \notin {"persist", "rollback"}
      /\ UNCHANGED <<redisVars, available, claims, lost>>
      /\ \A q \in Requests \ {r} : pc'[q] = pc[q]
      => Quiet
  BY DEF Quiet, Unsold, Reserving
<1> USE <1>0 DEF dbVars, redisVars, Goto, Answer
<1>2. CASE DecideMiss(r) \/ DecideReplay(r) \/ DecidePending(r) \/ DecideRefuse(r)
           \/ DecideError(r) \/ LoadCampaign(r) \/ LoadError(r)
  BY <1>1, <1>2 DEF DecideMiss, DecideReplay, DecidePending, DecideRefuse, DecideError,
     LoadCampaign, LoadError, Kinds, Decides
<1>3. CASE WaitSuccess(r) \/ WaitGivesUp(r) \/ WaitError(r) \/ FetchClaim(r) \/ FetchError(r)
  BY <1>1, <1>3 DEF WaitSuccess, WaitGivesUp, WaitError, FetchClaim, FetchError, NextAttempt, Kinds
<1>4. CASE PersistReplay(r) \/ PersistReject(r) \/ PersistError(r) \/ RollbackError(r)
           \/ FinalizeError(r)
  BY <1>1, <1>4 DEF PersistReplay, PersistReject, PersistError, RollbackError, FinalizeError,
     Persists, Kinds
<1>5. CASE DecideAdmit(r)
  <2>1. Reserving' \subseteq Reserving \union {r}
    BY <1>5 DEF DecideAdmit, Reserving
  <2> QED
    BY <1>5, <2>1 DEF DecideAdmit, Admission, Unsold, Kinds
<1>6. CASE DecideAdmitLost(r)
  <2>1. Reserving' \subseteq Reserving \union {r}
    BY <1>6 DEF DecideAdmitLost, Reserving
  <2> QED
    BY <1>6, <2>1 DEF DecideAdmitLost, Admission, Unsold, Kinds
<1>7. CASE EnsureCampaign(r)
  <2>1. Reserving' = Reserving
    BY <1>7 DEF EnsureCampaign, NextAttempt, Reserving
  <2> QED
    BY <1>7, <2>1 DEF EnsureCampaign, Hydration, Unsold, Kinds
<1>8. CASE EnsureError(r)
  <2>1. Reserving' = Reserving
    BY <1>8 DEF EnsureError, Reserving
  <2> QED
    BY <1>8, <2>1 DEF EnsureError, Hydration, Quiet, Unsold, Kinds
<1>9. CASE PersistCommit(r)
  <2>1. Reserving' = Reserving \ {r}
    BY <1>9 DEF PersistCommit, Reserving
  <2> QED
    BY <1>9, <2>1 DEF PersistCommit, Purchase, Kinds
<1>10. CASE PersistUnknown(r)
  <2>1. Reserving' = Reserving
    BY <1>10 DEF PersistUnknown, Persists, Reserving
  <2> QED
    BY <1>10, <2>1 DEF PersistUnknown, Purchase, Kinds
<1>11. CASE Rollback(r)
  <2>1. Reserving' = Reserving \ {r}
    BY <1>11 DEF Rollback, Reserving
  <2>2. CASE Owns(r)
    BY <1>11, <2>1, <2>2 DEF Rollback, Return, Unsold, Kinds
  <2>3. CASE ~Owns(r)
    BY <1>11, <2>1, <2>3 DEF Rollback, Quiet, Unsold, Kinds
  <2> QED
    BY <2>2, <2>3
<1>12. CASE Finalize(r)
  <2>1. Reserving' \subseteq Reserving
    BY <1>12 DEF Finalize, Reserving
  <2>2. CASE Owns(r)
    <3>1. /\ user[r] \in Users /\ key[r] \in Keys
          /\ [st |-> "SUCCESS", id |-> got[r]] \in Entry
      BY DEF TypeOK, RequestType, Entry
    <3>2. idem[user[r]][key[r]].st # "none"
      BY <2>2 DEF Owns
    <3>3. Rewrite(user[r], key[r], [st |-> "SUCCESS", id |-> got[r]])
      BY <1>12, <2>1, <2>2, <3>2 DEF Finalize, Rewrite, Unsold
    <3> QED
      BY <3>1, <3>3 DEF Kinds
  <2>3. CASE ~Owns(r)
    BY <1>12, <2>1, <2>3 DEF Finalize, Quiet, Unsold, Kinds
  <2> QED
    BY <2>2, <2>3
<1> QED
  BY <1>2, <1>3, <1>4, <1>5, <1>6, <1>7, <1>8, <1>9, <1>10, <1>11, <1>12 DEF RedisStep

\* So is every other step.
LEMMA NextKinds ==
    ASSUME TypeOK, [Next]_vars
    PROVE  Kinds
<1>0. pc \in [Requests -> Pcs]
  BY DEF TypeOK, RequestType
<1> USE <1>0 DEF dbVars, redisVars, reqVars
<1>1. CASE UNCHANGED vars
  BY <1>1 DEF vars, Quiet, Unsold, Reserving, Kinds
<1>2. ASSUME NEW r \in Requests, Begin(r) PROVE Kinds
  <2>1. Reserving' \subseteq Reserving
    BY <1>2 DEF Begin, Goto, Reserving
  <2> QED
    BY <1>2, <2>1 DEF Begin, Quiet, Unsold, Kinds
<1>3. ASSUME NEW r \in Requests, DirectStep(r) PROVE Kinds
  <2>1. pc[r] = "direct" /\ UNCHANGED redisVars
    BY <1>3 DEF DirectStep, DirectCommit, DirectReplay, DirectReject, DirectError,
       DirectUnknown, Directs
  <2>2. Reserving' \subseteq Reserving
    BY <1>3 DEF DirectStep, DirectCommit, DirectReplay, DirectReject, DirectError,
       DirectUnknown, Answer, Goto, Reserving
  <2> QED
    BY <2>1, <2>2 DEF Kinds
<1>4. ASSUME NEW r \in Requests, Disconnect(r) \/ Die(r) PROVE Kinds
  <2>1. Reserving' \subseteq Reserving
    BY <1>4 DEF Disconnect, Die, Goto, Reserving
  <2> QED
    BY <1>4, <2>1 DEF Disconnect, Die, Quiet, Unsold, Kinds
<1>5. ASSUME NEW u \in Users, NEW k \in Keys, Expire(u, k) PROVE Kinds
  <2>1. NoEntry \in Entry
    BY DEF NoEntry, Entry
  <2>2. Reserving' = Reserving
    BY <1>5 DEF Expire, Reserving
  <2>3. Rewrite(u, k, NoEntry)
    BY <1>5, <2>2 DEF Expire, Rewrite, Unsold
  <2> QED
    BY <2>1, <2>3 DEF Kinds
<1>6. CASE RedisFlush
  <2>1. Reserving' = Reserving
    BY <1>6 DEF RedisFlush, Reserving
  <2> QED
    BY <1>6, <2>1 DEF Kinds
<1>7. CASE SetStatus \/ Tick
  <2>1. Reserving' = Reserving
    BY <1>7 DEF SetStatus, Tick, Reserving
  <2> QED
    BY <1>7, <2>1 DEF SetStatus, Tick, Quiet, Unsold, Kinds
<1> QED
  BY <1>1, <1>2, <1>3, <1>4, <1>5, <1>6, <1>7, RedisStepKinds DEF Next, Environment

\* No step changes who a request is, the deployment or a snapshot but by reading the
\* campaign row, and with Redis no request goes to MySQL directly.
LEMMA NextSteady ==
    ASSUME TypeOK, [Next]_vars
    PROVE  Steady
<1>0. pc \in [Requests -> Pcs] /\ snap \in [Requests -> Snapshot]
  BY DEF TypeOK, RequestType
<1> USE <1>0 DEF whoVars, envVars, reqVars, Goto, Answer
<1>1. CASE UNCHANGED vars
  BY <1>1 DEF vars, Steady
<1>2. ASSUME NEW r \in Requests, Begin(r) PROVE Steady
  BY <1>2 DEF Begin, Steady
<1>3. ASSUME NEW r \in Requests, DirectStep(r) PROVE Steady
  BY <1>3 DEF DirectStep, DirectCommit, DirectReplay, DirectReject, DirectError,
     DirectUnknown, Steady
<1>4. ASSUME NEW r \in Requests, RedisStep(r) PROVE Steady
  <2>1. CASE DecideMiss(r) \/ DecideReplay(r) \/ DecidePending(r) \/ DecideRefuse(r)
             \/ DecideAdmit(r) \/ DecideError(r) \/ DecideAdmitLost(r)
    BY <2>1 DEF DecideMiss, DecideReplay, DecidePending, DecideRefuse, DecideAdmit, DecideError,
       DecideAdmitLost, Steady
  <2>2. CASE LoadCampaign(r)
    BY <2>2 DEF LoadCampaign, Steady
  <2>3. CASE LoadError(r) \/ EnsureCampaign(r) \/ EnsureError(r) \/ WaitSuccess(r)
             \/ WaitGivesUp(r) \/ WaitError(r) \/ FetchClaim(r) \/ FetchError(r)
    BY <2>3 DEF LoadError, EnsureCampaign, EnsureError, WaitSuccess, WaitGivesUp, WaitError,
       FetchClaim, FetchError, NextAttempt, Steady
  <2>4. CASE PersistCommit(r) \/ PersistReplay(r) \/ PersistReject(r) \/ PersistError(r)
             \/ PersistUnknown(r)
    BY <2>4 DEF PersistCommit, PersistReplay, PersistReject, PersistError, PersistUnknown, Steady
  <2>5. CASE Rollback(r) \/ RollbackError(r) \/ Finalize(r) \/ FinalizeError(r)
    BY <2>5 DEF Rollback, RollbackError, Finalize, FinalizeError, Steady
  <2> QED
    BY <1>4, <2>1, <2>2, <2>3, <2>4, <2>5 DEF RedisStep
<1>5. CASE Environment
  BY <1>5 DEF Environment, Disconnect, Die, Expire, RedisFlush, SetStatus, Tick, Steady
<1> QED
  BY <1>1, <1>2, <1>3, <1>4, <1>5 DEF Next

-----------------------------------------------------------------------------
\* The entries.

\* A finite set and one element more or less.
LEMMA PlusOne ==
    ASSUME NEW S, NEW x, IsFiniteSet(S)
    PROVE  /\ IsFiniteSet(S \union {x}) /\ IsFiniteSet(S \ {x})
           /\ Cardinality(S) \in Nat
           /\ Cardinality(S \union {x}) = IF x \in S THEN Cardinality(S) ELSE Cardinality(S) + 1
           /\ Cardinality(S \ {x}) = IF x \in S THEN Cardinality(S) - 1 ELSE Cardinality(S)
<1>1. /\ IsFiniteSet(S \union {x})
      /\ Cardinality(S \union {x}) = IF x \in S THEN Cardinality(S) ELSE Cardinality(S) + 1
  BY FS_AddElement
<1>2. /\ IsFiniteSet(S \ {x})
      /\ Cardinality(S \ {x}) = IF x \in S THEN Cardinality(S) - 1 ELSE Cardinality(S)
  BY FS_RemoveElement
<1>3. Cardinality(S) \in Nat
  BY FS_CardinalityType
<1> QED
  BY <1>1, <1>2, <1>3

\* A subset of a finite set is finite and no larger.
LEMMA NoLarger ==
    ASSUME NEW S, NEW T, IsFiniteSet(S), T \subseteq S
    PROVE  /\ IsFiniteSet(T)
           /\ Cardinality(S) \in Nat /\ Cardinality(T) \in Nat
           /\ Cardinality(T) <= Cardinality(S)
BY FS_Subset, FS_CardinalityType

\* Every step keeps a user's entries covered by the user's counter.
LEMMA NextEntries ==
    ASSUME TypeOK, EntriesIInv, [Next]_vars
    PROVE  EntriesIInv'
<1> SUFFICES ASSUME NEW u \in Users
             PROVE  /\ Cardinality(Live(u)') <= rcount'[u]
                    /\ rcount'[u] <= Limit
                    /\ IsFiniteSet(Live(u)')
  BY DEF EntriesIInv, EntriesAreCounted, Live
<1>1. /\ IsFiniteSet(Live(u)) /\ Cardinality(Live(u)) <= rcount[u] /\ rcount[u] <= Limit
      /\ rcount[u] \in Nat /\ Limit \in Nat /\ Cardinality(Live(u)) \in Nat
  BY LimitType, FS_CardinalityType DEF EntriesIInv, EntriesAreCounted, Live, TypeOK, RedisType
<1>2. CASE UNCHANGED redisVars
  BY <1>1, <1>2 DEF redisVars, Live
<1>3. ASSUME NEW r \in Requests, Admission(r)
      PROVE  Cardinality(Live(u)') <= rcount'[u] /\ rcount'[u] <= Limit /\ IsFiniteSet(Live(u)')
  <2>1. rcount[user[r]] < Limit /\ user[r] \in Users /\ key[r] \in Keys
    BY <1>3, AdmittedMeans DEF Admission, TypeOK, RequestType
  <2>2. /\ \A v \in Users, l \in Keys :
              idem'[v][l] = IF v = user[r] /\ l = key[r]
                            THEN [st |-> "PENDING", id |-> r] ELSE idem[v][l]
        /\ rcount' = [rcount EXCEPT ![user[r]] = @ + 1]
    <3>1. /\ idem' = [idem EXCEPT ![user[r]][key[r]] = [st |-> "PENDING", id |-> r]]
          /\ rcount' = [rcount EXCEPT ![user[r]] = @ + 1]
      BY <1>3 DEF Admission, Reserve
    <3>2. [st |-> "PENDING", id |-> r] \in Entry
      BY DEF Entry
    <3> QED
      BY <2>1, <3>1, <3>2, IdemUpdate
  <2>3. CASE u = user[r]
    <3>1. Live(u)' = Live(u) \union {key[r]}
      BY <2>1, <2>2, <2>3 DEF Live
    <3>2. rcount'[u] = rcount[u] + 1
      BY <2>2, <2>3 DEF TypeOK, RedisType
    <3> QED
      <4>0. key[r] \notin Live(u)
        BY <1>3, <2>3, AdmittedMeans DEF Admission, Live
      <4>1. /\ IsFiniteSet(Live(u) \union {key[r]})
            /\ Cardinality(Live(u) \union {key[r]}) = Cardinality(Live(u)) + 1
        BY <1>1, <4>0, PlusOne
      <4>2. Cardinality(Live(u) \union {key[r]}) \in Nat
        BY <4>1, FS_CardinalityType
      <4> QED
        BY <1>1, <2>1, <2>3, <3>1, <3>2, <4>1, <4>2
  <2>4. CASE u # user[r]
    <3>1. Live(u)' = Live(u)
      BY <2>2, <2>4 DEF Live
    <3>2. rcount'[u] = rcount[u]
      BY <2>2, <2>4 DEF TypeOK, RedisType
    <3> QED
      BY <1>1, <3>1, <3>2
  <2> QED
    BY <2>3, <2>4
<1>4. ASSUME NEW r \in Requests, Return(r)
      PROVE  Cardinality(Live(u)') <= rcount'[u] /\ rcount'[u] <= Limit /\ IsFiniteSet(Live(u)')
  <2>1. user[r] \in Users /\ key[r] \in Keys /\ NoEntry \in Entry /\ NoEntry.st = "none"
    BY DEF TypeOK, RequestType, NoEntry, Entry
  <2>2. \A v \in Users, l \in Keys :
            idem'[v][l] = IF v = user[r] /\ l = key[r] THEN NoEntry ELSE idem[v][l]
    BY <1>4, <2>1, IdemUpdate DEF Return
  <2>3. CASE u = user[r]
    <3>1. key[r] \in Live(u)
      BY <1>4, <2>1, <2>3 DEF Return, Owns, Live
    <3>2. Live(u)' = Live(u) \ {key[r]}
      BY <2>1, <2>2, <2>3 DEF Live
    <3>3. rcount'[u] = IF rcount[u] - 1 <= 0 THEN 0 ELSE rcount[u] - 1
      BY <1>4, <2>3 DEF Return, TypeOK, RedisType
    <3> QED
      BY <1>1, <3>1, <3>2, <3>3, PlusOne
  <2>4. CASE u # user[r]
    <3>1. Live(u)' = Live(u)
      BY <2>2, <2>4 DEF Live
    <3>2. rcount'[u] = rcount[u]
      BY <1>4, <2>4 DEF Return, TypeOK, RedisType
    <3> QED
      BY <1>1, <3>1, <3>2
  <2> QED
    BY <2>3, <2>4
<1>5. ASSUME NEW v \in Users, NEW k \in Keys, NEW e \in Entry, Rewrite(v, k, e)
      PROVE  Cardinality(Live(u)') <= rcount'[u] /\ rcount'[u] <= Limit /\ IsFiniteSet(Live(u)')
  <2>1. Live(u)' \subseteq Live(u) /\ rcount' = rcount
    BY <1>5, IdemUpdate DEF Rewrite, Live
  <2> QED
    BY <1>1, <2>1, NoLarger
<1>6. CASE RedisFlush
  <2>1. Live(u)' = {} /\ rcount'[u] = 0
    BY <1>6 DEF RedisFlush, Live, NoEntry
  <2> QED
    BY <1>1, <2>1, FS_EmptySet
<1>7. ASSUME NEW r \in Requests, Hydration(r)
      PROVE  Cardinality(Live(u)') <= rcount'[u] /\ rcount'[u] <= Limit /\ IsFiniteSet(Live(u)')
  BY <1>1, <1>7 DEF Hydration, Hydrate, Live
<1> QED
  BY <1>2, <1>3, <1>4, <1>5, <1>6, <1>7, NextKinds DEF Kinds, Quiet, Purchase

\* Initially there is no entry.
LEMMA InitEntries ==
    ASSUME Init
    PROVE  EntriesIInv
<1>1. \A u \in Users : Live(u) = {} /\ rcount[u] = 0
  BY DEF Init, Live, NoEntry
<1> QED
  <2>1. IsFiniteSet({}) /\ Cardinality({}) = 0
    BY FS_EmptySet
  <2> SUFFICES ASSUME NEW u \in Users
               PROVE  Cardinality(Live(u)) <= rcount[u] /\ rcount[u] <= Limit /\ IsFiniteSet(Live(u))
    BY DEF EntriesIInv, EntriesAreCounted, Live
  <2> QED
    BY <1>1, <2>1, LimitType

\* A user's live idempotency entries never outnumber the user's counter, which never
\* exceeds the limit, through every expiry, crash, lost answer and flush: the decrement
\* of Rollback only takes back what an admission added.
THEOREM EntriesCounted == Spec => []EntriesAreCounted
<1>1. Init => EntriesIInv
  BY InitEntries
<1>2. TypeOK /\ EntriesIInv /\ [Next]_vars => EntriesIInv'
  BY NextEntries
<1>3. EntriesIInv => EntriesAreCounted
  BY DEF EntriesIInv
<1> QED
  BY <1>1, <1>2, <1>3, TypeCorrect, PTL DEF Spec

-----------------------------------------------------------------------------
\* The counters, while Redis keeps its data.

Covered == rstock + Cardinality(Reserving) <= available + lost
CoveredFor(u) == Cardinality(L!ClaimsOf(u)) + Cardinality(HeldBy(u)) <= rcount[u] + lost

\* The number of a user's reservations follows the set of all of them.
LEMMA HeldFollows ==
    ASSUME NEW u, NEW r \in Requests, IsFiniteSet(Reserving), user' = user
    PROVE  /\ IsFiniteSet(HeldBy(u)) /\ Cardinality(HeldBy(u)) \in Nat
           /\ Reserving' \subseteq Reserving =>
                 /\ Cardinality(HeldBy(u)') \in Nat
                 /\ Cardinality(HeldBy(u)') <= Cardinality(HeldBy(u))
           /\ Reserving' \subseteq Reserving \union {r} =>
                 /\ Cardinality(HeldBy(u)') \in Nat
                 /\ Cardinality(HeldBy(u)') <= Cardinality(HeldBy(u)) + 1
                 /\ u # user[r] => Cardinality(HeldBy(u)') <= Cardinality(HeldBy(u))
           /\ Reserving' = Reserving \ {r} /\ r \in Reserving /\ u = user[r] =>
                 Cardinality(HeldBy(u)') = Cardinality(HeldBy(u)) - 1
<1>1. IsFiniteSet(HeldBy(u)) /\ Cardinality(HeldBy(u)) \in Nat
  <2>1. HeldBy(u) \subseteq Reserving
    BY DEF HeldBy
  <2> QED
    BY <2>1, NoLarger
<1>2. ASSUME Reserving' \subseteq Reserving
      PROVE  /\ Cardinality(HeldBy(u)') \in Nat
             /\ Cardinality(HeldBy(u)') <= Cardinality(HeldBy(u))
  <2>1. HeldBy(u)' \subseteq HeldBy(u)
    BY <1>2 DEF HeldBy
  <2> QED
    BY <1>1, <2>1, NoLarger
<1>3. ASSUME Reserving' \subseteq Reserving \union {r}
      PROVE  /\ Cardinality(HeldBy(u)') \in Nat
             /\ Cardinality(HeldBy(u)') <= Cardinality(HeldBy(u)) + 1
             /\ u # user[r] => Cardinality(HeldBy(u)') <= Cardinality(HeldBy(u))
  <2>1. CASE HeldBy(u)' \subseteq HeldBy(u)
    <3>1. /\ Cardinality(HeldBy(u)') \in Nat
          /\ Cardinality(HeldBy(u)') <= Cardinality(HeldBy(u))
      BY <1>1, <2>1, NoLarger
    <3> QED
      BY <1>1, <3>1
  <2>2. CASE ~(HeldBy(u)' \subseteq HeldBy(u))
    <3>1. HeldBy(u)' \subseteq HeldBy(u) \union {r} /\ r \notin HeldBy(u) /\ u = user[r]
      BY <1>3, <2>2 DEF HeldBy
    <3>2. /\ IsFiniteSet(HeldBy(u) \union {r})
          /\ Cardinality(HeldBy(u) \union {r}) = Cardinality(HeldBy(u)) + 1
      BY <1>1, <3>1, PlusOne
    <3>3. /\ Cardinality(HeldBy(u)') \in Nat
          /\ Cardinality(HeldBy(u)') <= Cardinality(HeldBy(u) \union {r})
      BY <3>1, <3>2, NoLarger
    <3> QED
      BY <1>1, <3>1, <3>2, <3>3
  <2> QED
    BY <2>1, <2>2
<1>4. ASSUME Reserving' = Reserving \ {r}, r \in Reserving, u = user[r]
      PROVE  Cardinality(HeldBy(u)') = Cardinality(HeldBy(u)) - 1
  <2>1. HeldBy(u)' = HeldBy(u) \ {r} /\ r \in HeldBy(u)
    BY <1>4 DEF HeldBy
  <2> QED
    BY <1>1, <2>1, PlusOne
<1> QED
  BY <1>1, <1>2, <1>3, <1>4

\* A committed claim counts for its user and for nobody else.
LEMMA ClaimsFollow ==
    ASSUME LedgerIInv, NEW r \in Requests, NEW u, InsertClaim(r), Persists(r, "COMMIT")
    PROVE  /\ Cardinality(L!ClaimsOf(u)) \in Nat
           /\ u = user[r] => Cardinality(L!ClaimsOf(u)') = Cardinality(L!ClaimsOf(u)) + 1
           /\ u # user[r] => Cardinality(L!ClaimsOf(u)') = Cardinality(L!ClaimsOf(u))
<1> DEFINE c == [id |-> r, user |-> user[r], key |-> key[r]]
<1>1. IsFiniteSet(L!ClaimsOf(u)) /\ Cardinality(L!ClaimsOf(u)) \in Nat
  <2>1. L!ClaimsOf(u) \subseteq claims
    BY DEF L!ClaimsOf
  <2> QED
    BY <2>1, NoLarger DEF LedgerIInv
<1>2. claims' = claims \union {c} /\ c.user = user[r]
  BY DEF InsertClaim
<1>3. c \notin claims
  <2>1. ClaimsFor(user[r], key[r]) = {}
    BY CommitMeans DEF LedgerIInv
  <2> QED
    BY <2>1 DEF ClaimsFor
<1> HIDE DEF c
<1>4. ASSUME u = user[r] PROVE Cardinality(L!ClaimsOf(u)') = Cardinality(L!ClaimsOf(u)) + 1
  <2>1. L!ClaimsOf(u)' = L!ClaimsOf(u) \union {c} /\ c \notin L!ClaimsOf(u)
    BY <1>2, <1>3, <1>4 DEF L!ClaimsOf
  <2> QED
    BY <1>1, <2>1, PlusOne
<1>5. ASSUME u # user[r] PROVE Cardinality(L!ClaimsOf(u)') = Cardinality(L!ClaimsOf(u))
  <2>1. L!ClaimsOf(u)' = L!ClaimsOf(u)
    BY <1>2, <1>5 DEF L!ClaimsOf
  <2> QED
    BY <2>1
<1> QED
  BY <1>1, <1>4, <1>5

\* Likewise for the number of all reservations.
LEMMA ReservingFollows ==
    ASSUME NEW r \in Requests, IsFiniteSet(Reserving)
    PROVE  /\ Cardinality(Reserving) \in Nat
           /\ Reserving' \subseteq Reserving =>
                 /\ IsFiniteSet(Reserving') /\ Cardinality(Reserving') \in Nat
                 /\ Cardinality(Reserving') <= Cardinality(Reserving)
           /\ Reserving' \subseteq Reserving \union {r} =>
                 /\ IsFiniteSet(Reserving') /\ Cardinality(Reserving') \in Nat
                 /\ Cardinality(Reserving') <= Cardinality(Reserving) + 1
           /\ Reserving' = Reserving \ {r} /\ r \in Reserving =>
                 Cardinality(Reserving') = Cardinality(Reserving) - 1
<1>1. Cardinality(Reserving) \in Nat
  BY FS_CardinalityType
<1>2. ASSUME Reserving' \subseteq Reserving
      PROVE  /\ IsFiniteSet(Reserving') /\ Cardinality(Reserving') \in Nat
             /\ Cardinality(Reserving') <= Cardinality(Reserving)
  BY <1>2, NoLarger
<1>3. ASSUME Reserving' \subseteq Reserving \union {r}
      PROVE  /\ IsFiniteSet(Reserving') /\ Cardinality(Reserving') \in Nat
             /\ Cardinality(Reserving') <= Cardinality(Reserving) + 1
  <2>1. CASE r \in Reserving
    <3>1. Reserving' \subseteq Reserving
      BY <1>3, <2>1
    <3> QED
      BY <1>1, <1>2, <3>1
  <2>2. CASE r \notin Reserving
    <3>1. /\ IsFiniteSet(Reserving \union {r})
          /\ Cardinality(Reserving \union {r}) = Cardinality(Reserving) + 1
      BY <2>2, PlusOne
    <3> QED
      BY <1>1, <1>3, <3>1, NoLarger
  <2> QED
    BY <2>1, <2>2
<1>4. ASSUME Reserving' = Reserving \ {r}, r \in Reserving
      PROVE  Cardinality(Reserving') = Cardinality(Reserving) - 1
  BY <1>4, PlusOne
<1> QED
  BY <1>1, <1>2, <1>3, <1>4

\* While Redis is hydrated, every step keeps what is counted covered.
LEMMA StaysCovered ==
    ASSUME LedgerIInv, IsFiniteSet(Reserving), [Next]_vars, flushes = 0, flushes' = 0,
           \A q \in Requests : pc[q] # "direct",
           rstatus # "NONE", Covered, NEW u \in Users, CoveredFor(u)
    PROVE  Covered' /\ CoveredFor(u)'
<1>0. TypeOK /\ Steady /\ Kinds
  BY NextSteady, NextKinds DEF LedgerIInv
<1>1. /\ rstock \in Nat /\ available \in Nat /\ lost \in Nat /\ rcount \in [Users -> Nat]
      /\ user' = user
  BY <1>0 DEF TypeOK, DbType, RedisType, EnvType, Steady
<1>2. rcount[u] \in Nat /\ Cardinality(L!ClaimsOf(u)) \in Nat
  <2>1. L!ClaimsOf(u) \subseteq claims
    BY DEF L!ClaimsOf
  <2> QED
    BY <1>1, <2>1, NoLarger DEF LedgerIInv
<1>3. Unsold => available' = available /\ lost' = lost /\ L!ClaimsOf(u)' = L!ClaimsOf(u)
  BY DEF Unsold, L!ClaimsOf
<1> USE DEF Covered, CoveredFor
<1>4. ASSUME Unsold, rstock' = rstock, rcount' = rcount, Reserving' \subseteq Reserving
      PROVE  Covered' /\ CoveredFor(u)'
  <2> SUFFICES ASSUME NEW r \in Requests PROVE Covered' /\ CoveredFor(u)'
    <3>1. CASE Requests = {}
      <4>1. Reserving = {} /\ Reserving' = {}
        BY <3>1 DEF Reserving
      <4>2. HeldBy(u) = {} /\ HeldBy(u)' = {}
        BY <4>1 DEF HeldBy
      <4> QED
        BY <1>3, <1>4, <4>1, <4>2
    <3> QED
      BY <3>1
  <2>1. /\ Cardinality(Reserving) \in Nat /\ Cardinality(Reserving') \in Nat
        /\ Cardinality(Reserving') <= Cardinality(Reserving)
    BY <1>4, ReservingFollows
  <2>2. /\ Cardinality(HeldBy(u)) \in Nat /\ Cardinality(HeldBy(u)') \in Nat
        /\ Cardinality(HeldBy(u)') <= Cardinality(HeldBy(u))
    BY <1>1, <1>4, HeldFollows
  <2> QED
    BY <1>1, <1>2, <1>3, <1>4, <2>1, <2>2
<1>5. ASSUME NEW r \in Requests, Admission(r) PROVE Covered' /\ CoveredFor(u)'
  <2>1. /\ Unsold /\ rstock' = rstock - 1 /\ Reserving' \subseteq Reserving \union {r}
        /\ rcount' = [rcount EXCEPT ![user[r]] = @ + 1]
    BY <1>5 DEF Admission, Reserve
  <2>2. /\ Cardinality(Reserving) \in Nat /\ Cardinality(Reserving') \in Nat
        /\ Cardinality(Reserving') <= Cardinality(Reserving) + 1
    BY <2>1, ReservingFollows
  <2>3. /\ Cardinality(HeldBy(u)) \in Nat /\ Cardinality(HeldBy(u)') \in Nat
        /\ Cardinality(HeldBy(u)') <= Cardinality(HeldBy(u)) + 1
        /\ u # user[r] => Cardinality(HeldBy(u)') <= Cardinality(HeldBy(u))
    BY <1>1, <2>1, HeldFollows
  <2>4. Covered'
    BY <1>1, <1>3, <2>1, <2>2
  <2>5. CASE u = user[r]
    <3>1. rcount'[u] = rcount[u] + 1
      BY <1>1, <2>1, <2>5
    <3> QED
      BY <1>1, <1>2, <1>3, <2>1, <2>3, <2>4, <3>1
  <2>6. CASE u # user[r]
    <3>1. rcount'[u] = rcount[u]
      BY <1>1, <2>1, <2>6
    <3> QED
      BY <1>1, <1>2, <1>3, <2>1, <2>3, <2>4, <2>6, <3>1
  <2> QED
    BY <2>5, <2>6
<1>6. ASSUME NEW r \in Requests, Purchase(r) PROVE Covered' /\ CoveredFor(u)'
  <2>1. /\ InsertClaim(r) /\ Persists(r, "COMMIT") /\ r \in Reserving
        /\ rstock' = rstock /\ rcount' = rcount /\ available' = available - 1
    BY <1>6 DEF Purchase, Persists, Reserving, redisVars, InsertClaim
  <2>2. /\ u = user[r] => Cardinality(L!ClaimsOf(u)') = Cardinality(L!ClaimsOf(u)) + 1
        /\ u # user[r] => Cardinality(L!ClaimsOf(u)') = Cardinality(L!ClaimsOf(u))
    BY <2>1, ClaimsFollow
  <2>3. CASE lost' = lost /\ Reserving' = Reserving \ {r}
    <3>1. Cardinality(Reserving) \in Nat /\ Cardinality(Reserving') = Cardinality(Reserving) - 1
      BY <2>1, <2>3, ReservingFollows
    <3>2. /\ Cardinality(HeldBy(u)) \in Nat /\ Cardinality(HeldBy(u)') \in Nat
          /\ Cardinality(HeldBy(u)') <= Cardinality(HeldBy(u))
          /\ u = user[r] => Cardinality(HeldBy(u)') = Cardinality(HeldBy(u)) - 1
      BY <1>1, <2>1, <2>3, HeldFollows
    <3>3. Covered'
      BY <1>1, <2>1, <2>3, <3>1
    <3>4. CASE u = user[r]
      BY <1>1, <1>2, <2>1, <2>2, <2>3, <3>2, <3>3, <3>4
    <3>5. CASE u # user[r]
      BY <1>1, <1>2, <2>1, <2>2, <2>3, <3>2, <3>3, <3>5
    <3> QED
      BY <3>4, <3>5
  <2>4. CASE lost' = lost + 1 /\ Reserving' = Reserving
    <3>1. Cardinality(Reserving) \in Nat /\ HeldBy(u)' = HeldBy(u) /\ Cardinality(HeldBy(u)) \in Nat
      BY <1>1, <2>4, ReservingFollows, HeldFollows DEF HeldBy
    <3>2. Covered'
      BY <1>1, <2>1, <2>4, <3>1
    <3>3. CoveredFor(u)'
      <4>1. CASE u = user[r]
        BY <1>1, <1>2, <2>1, <2>2, <2>4, <3>1, <4>1
      <4>2. CASE u # user[r]
        BY <1>1, <1>2, <2>1, <2>2, <2>4, <3>1, <4>2
      <4> QED
        BY <4>1, <4>2
    <3> QED
      BY <3>2, <3>3
  <2> QED
    BY <1>6, <2>3, <2>4 DEF Purchase
<1>7. ASSUME NEW r \in Requests, Return(r) PROVE Covered' /\ CoveredFor(u)'
  <2>1. /\ Unsold /\ rstock' = rstock + 1 /\ Reserving' = Reserving \ {r} /\ r \in Reserving
        /\ rcount' = [rcount EXCEPT ![user[r]] = IF @ - 1 <= 0 THEN 0 ELSE @ - 1]
    BY <1>7 DEF Return, Reserving
  <2>2. Cardinality(Reserving) \in Nat /\ Cardinality(Reserving') = Cardinality(Reserving) - 1
    BY <2>1, ReservingFollows
  <2>3. /\ Cardinality(HeldBy(u)) \in Nat /\ Cardinality(HeldBy(u)') \in Nat
        /\ Cardinality(HeldBy(u)') <= Cardinality(HeldBy(u))
        /\ u = user[r] => Cardinality(HeldBy(u)') = Cardinality(HeldBy(u)) - 1
    BY <1>1, <2>1, HeldFollows
  <2>4. Covered'
    BY <1>1, <1>3, <2>1, <2>2
  <2>5. CASE u = user[r]
    <3>1. rcount'[u] >= rcount[u] - 1 /\ rcount'[u] \in Nat
      BY <1>1, <2>1, <2>5
    <3> QED
      BY <1>1, <1>2, <1>3, <2>1, <2>3, <2>4, <2>5, <3>1
  <2>6. CASE u # user[r]
    <3>1. rcount'[u] = rcount[u]
      BY <1>1, <2>1, <2>6
    <3> QED
      BY <1>1, <1>2, <1>3, <2>1, <2>3, <2>4, <3>1
  <2> QED
    BY <2>5, <2>6
<1>8. ASSUME NEW r \in Requests, Hydration(r) PROVE Covered' /\ CoveredFor(u)'
  BY <1>4, <1>8 DEF Hydration, Hydrate
<1>9. ~RedisFlush
  BY DEF RedisFlush
<1> QED
  BY <1>0, <1>4, <1>5, <1>6, <1>7, <1>8, <1>9 DEF Kinds, Quiet, Rewrite, redisVars

\* Until the first hydration nothing is reserved and nothing is sold.
LEMMA StaysFresh ==
    ASSUME LedgerIInv, CountersIInv, [Next]_vars, adjudicator, rstatus = "NONE",
           flushes = 0, flushes' = 0
    PROVE  /\ Reserving' = {} /\ claims' = {} /\ available' = available /\ lost' = lost
           /\ \A q \in Requests : snap'[q].stock <= available'
           /\ rstatus' = "NONE" \/ \E r \in Requests : Hydration(r)
<1>0. TypeOK /\ Steady /\ Kinds
  BY NextSteady, NextKinds DEF LedgerIInv
<1>1. /\ Reserving = {} /\ claims = {} /\ \A q \in Requests : snap[q].stock <= available
      /\ \A r \in Requests : pc[r] # "direct"
  BY DEF CountersIInv, Fresh
<1>2. \/ Quiet
      \/ \E r \in Requests : Hydration(r)
      \/ \E u \in Users, k \in Keys, e \in Entry : Rewrite(u, k, e)
  <2>1. \A r \in Requests : ~Admission(r)
    BY <1>0, AdmittedMeans DEF Admission
  <2>2. \A r \in Requests : ~Purchase(r) /\ ~Return(r)
    BY <1>1 DEF Purchase, Persists, Return, Reserving
  <2>3. ~RedisFlush
    BY DEF RedisFlush
  <2> QED
    BY <1>0, <1>1, <2>1, <2>2, <2>3 DEF Kinds
<1>3. Reserving' = {} /\ claims' = {} /\ available' = available /\ lost' = lost
  BY <1>1, <1>2 DEF Quiet, Hydration, Rewrite, Unsold
<1>4. available \in Nat
  BY <1>0 DEF TypeOK, DbType
<1>5. \A q \in Requests : snap'[q].stock <= available'
  BY <1>0, <1>1, <1>3, <1>4 DEF Steady
<1> QED
  BY <1>2, <1>3, <1>5 DEF Quiet, Rewrite, redisVars

\* Every step keeps the counters on the safe side.
LEMMA NextCounters ==
    ASSUME LedgerIInv, CountersIInv, [Next]_vars
    PROVE  CountersIInv'
<1>0. TypeOK /\ TypeOK' /\ Steady /\ Kinds
  BY NextSteady, NextKinds, NextType DEF LedgerIInv
<1>1. IsFiniteSet(Reserving')
  <2>1. CASE Reserving' \subseteq Reserving
    BY <2>1, NoLarger DEF CountersIInv
  <2>2. ASSUME NEW r \in Requests, Admission(r) PROVE IsFiniteSet(Reserving')
    BY <2>2, ReservingFollows DEF CountersIInv, Admission
  <2>3. ASSUME NEW r \in Requests, Purchase(r) \/ Hydration(r) \/ Return(r)
        PROVE  Reserving' \subseteq Reserving
    BY <2>3 DEF Purchase, Hydration, Return
  <2> QED
    BY <1>0, <2>1, <2>2, <2>3 DEF Kinds, Quiet, Rewrite
<1>2. adjudicator' => \A r \in Requests : pc'[r] # "direct"
  BY <1>0 DEF Steady, CountersIInv
<1>3. ASSUME adjudicator', flushes' = 0
      PROVE  /\ rstatus' = "NONE" => /\ Reserving' = {} /\ claims' = {}
                                     /\ \A q \in Requests : snap'[q].stock <= available'
             /\ rstatus' # "NONE" => Covered' /\ \A u \in Users : CoveredFor(u)'
  <2>1. adjudicator /\ flushes = 0
    BY <1>0, <1>3 DEF Steady, RedisFlush, TypeOK, EnvType
  <2>2. CASE rstatus = "NONE"
    <3>1. /\ Reserving' = {} /\ claims' = {} /\ available' = available /\ lost' = lost
          /\ \A q \in Requests : snap'[q].stock <= available'
          /\ rstatus' = "NONE" \/ \E r \in Requests : Hydration(r)
      BY <1>3, <2>1, <2>2, StaysFresh
    <3>2. ASSUME rstatus' # "NONE", NEW u \in Users PROVE Covered' /\ CoveredFor(u)'
      <4>1. PICK r \in Requests : Hydration(r)
        BY <3>1, <3>2
      <4>2. rstock' = snap[r].stock /\ snap[r].stock <= available
        BY <2>1, <2>2, <4>1 DEF Hydration, Hydrate, CountersIInv, Fresh
      <4>3. /\ rstock' \in Nat /\ available \in Nat /\ lost \in Nat /\ rcount'[u] \in Nat
        BY <1>0 DEF TypeOK, DbType, RedisType, EnvType
      <4>4. Cardinality({}) = 0 /\ L!ClaimsOf(u)' = {} /\ HeldBy(u)' = {}
        BY <3>1, FS_EmptySet DEF L!ClaimsOf, HeldBy
      <4>5. Covered'
        BY <3>1, <4>2, <4>3, <4>4 DEF Covered
      <4>6. CoveredFor(u)'
        BY <3>1, <4>3, <4>4 DEF CoveredFor
      <4> QED
        BY <4>5, <4>6
    <3>3. rstatus' # "NONE" /\ Users = {} => Covered'
      <4> SUFFICES ASSUME rstatus' # "NONE", Users = {} PROVE Covered'
        OBVIOUS
      <4>1. \E r \in Requests : TRUE
        BY <3>1
      <4>2. FALSE
        BY <1>0, <4>1 DEF TypeOK, RequestType
      <4> QED
        BY <4>2
    <3>4. rstatus' # "NONE" => Covered' /\ \A u \in Users : CoveredFor(u)'
      BY <3>2, <3>3
    <3> QED
      BY <3>1, <3>4
  <2>3. CASE rstatus # "NONE"
    <3>1. /\ Covered /\ \A u \in Users : CoveredFor(u)
          /\ \A q \in Requests : pc[q] # "direct"
          /\ IsFiniteSet(Reserving)
      BY <2>1, <2>3 DEF CountersIInv, RedisNeverOveradmits, Covered, CoveredFor, HeldBy
    <3>2. \A u \in Users : Covered' /\ CoveredFor(u)'
      BY <1>3, <2>1, <2>3, <3>1, StaysCovered
    <3>3. Users = {} => Covered'
      <4> SUFFICES ASSUME Users = {} PROVE Covered'
        OBVIOUS
      <4>1. Requests = {}
        BY <1>0 DEF TypeOK, RequestType
      <4>2. Reserving = {} /\ Reserving' = {}
        BY <4>1 DEF Reserving
      <4>3. Quiet
        BY <1>0, <1>3, <2>1, <4>1 DEF Kinds, RedisFlush
      <4> QED
        BY <3>1, <4>2, <4>3 DEF Quiet, Unsold, Covered, redisVars
    <3>4. rstatus' # "NONE"
      <4>1. ~RedisFlush
        BY <1>3, <2>1 DEF RedisFlush
      <4> QED
        BY <1>0, <2>3, <4>1 DEF Kinds, Quiet, Admission, Purchase, Hydration, Return, Rewrite,
           Reserve, Hydrate, redisVars
    <3> QED
      BY <3>2, <3>3, <3>4
  <2> QED
    BY <2>2, <2>3
<1> QED
  BY <1>1, <1>2, <1>3
     DEF CountersIInv, Fresh, RedisNeverOveradmits, Covered, CoveredFor, HeldBy

\* Initially nothing is reserved, sold or loaded.
LEMMA InitCounters ==
    ASSUME Init
    PROVE  CountersIInv
<1>1. Reserving = {}
  BY DEF Init, Reserving
<1> QED
  BY <1>1, FS_EmptySet, ClaimAssumption DEF Init, CountersIInv, Fresh, RedisNeverOveradmits

\* While Redis keeps its data, its stock and the reservations in flight never exceed
\* what MySQL can still sell, and no user's counter falls behind the user's claims, except
\* by the commits that were reported as failed: crashes, expired entries, lost answers and
\* late Rollbacks only make Redis stricter.
THEOREM NeverOveradmits == Spec => []RedisNeverOveradmits
<1>1. Init => CountersIInv
  BY InitCounters
<1>2. LedgerIInv /\ CountersIInv /\ [Next]_vars => CountersIInv'
  BY NextCounters
<1>3. CountersIInv => RedisNeverOveradmits
  BY DEF CountersIInv
<1> QED
  BY <1>1, <1>2, <1>3, LedgerInvariance, PTL DEF Spec

-----------------------------------------------------------------------------
\* Undisturbed.

\* A step keeps a Redis without data empty until it is hydrated.
LEMMA NextBlank ==
    ASSUME TypeOK, Blank, [Next]_vars
    PROVE  Blank'
<1> SUFFICES ASSUME rstatus' = "NONE", NEW u \in Users
             PROVE  rcount'[u] = 0 /\ \A k \in Keys : idem'[u][k] = NoEntry
  BY DEF Blank
<1>1. CASE RedisFlush
  BY <1>1 DEF RedisFlush
<1>2. CASE ~RedisFlush
  <2>1. Kinds
    BY NextKinds
  <2>2. rstatus = "NONE"
    <3>1. \A r \in Requests : snap[r].status # "NONE"
      BY DEF TypeOK, RequestType, Snapshot, Statuses
    <3> QED
      BY <1>2, <2>1, <3>1 DEF Kinds, Quiet, Admission, Purchase, Hydration, Return, Rewrite,
         Reserve, Hydrate, redisVars
  <2>3. \A r \in Requests : ~Admission(r)
    BY <2>2, AdmittedMeans DEF Admission
  <2>4. \A v \in Users, k \in Keys : idem[v][k].st = "none"
    BY <2>2 DEF Blank, NoEntry
  <2>5. \A r \in Requests : ~Return(r)
    BY <2>4 DEF Return, Owns, TypeOK, RequestType
  <2>6. \A v \in Users, k \in Keys, e \in Entry : ~Rewrite(v, k, e)
    BY <2>4 DEF Rewrite
  <2>7. rcount' = rcount /\ idem' = idem
    BY <1>2, <2>1, <2>3, <2>5, <2>6 DEF Kinds, Quiet, Purchase, Hydration, Hydrate, redisVars
  <2> QED
    BY <2>2, <2>7 DEF Blank
<1> QED
  BY <1>1, <1>2

\* The steps of a request that meets no fault.
CalmStep(r) ==
    \/ Begin(r) \/ DecideMiss(r) \/ DecideReplay(r) \/ DecidePending(r) \/ DecideRefuse(r)
    \/ DecideAdmit(r) \/ LoadCampaign(r) \/ EnsureCampaign(r)
    \/ WaitSuccess(r) \/ WaitGivesUp(r) \/ FetchClaim(r)
    \/ PersistCommit(r) \/ PersistReplay(r) \/ PersistReject(r) \/ Rollback(r) \/ Finalize(r)

\* A step of the operator or of the clock, or none.
Still ==
    UNCHANGED <<redisVars, available, claims, pc, user, key, prior, got, code, gone, snap, lost>>

\* What has been disturbed stays so.
LEMMA UndisturbedBefore ==
    ASSUME TypeOK, [Next]_vars, Undisturbed'
    PROVE  Undisturbed
<1>0. faults \in Nat /\ flushes \in Nat
  BY DEF TypeOK, EnvType
<1> USE <1>0 DEF Undisturbed, envVars, Works, Fails, ReplyLost
<1>1. CASE UNCHANGED vars
  BY <1>1 DEF vars
<1>2. ASSUME NEW r \in Requests, Begin(r) PROVE Undisturbed
  BY <1>2 DEF Begin
<1>3. ASSUME NEW r \in Requests, DirectStep(r) PROVE Undisturbed
  BY <1>3 DEF DirectStep, DirectCommit, DirectReplay, DirectReject, DirectError, DirectUnknown
<1>4. ASSUME NEW r \in Requests, RedisStep(r) PROVE Undisturbed
  <2>1. CASE DecideMiss(r) \/ DecideReplay(r) \/ DecidePending(r) \/ DecideRefuse(r)
             \/ DecideAdmit(r) \/ DecideError(r) \/ DecideAdmitLost(r)
    BY <2>1 DEF DecideMiss, DecideReplay, DecidePending, DecideRefuse, DecideAdmit, DecideError,
       DecideAdmitLost
  <2>2. CASE LoadCampaign(r) \/ LoadError(r) \/ EnsureCampaign(r) \/ EnsureError(r)
             \/ WaitSuccess(r) \/ WaitGivesUp(r) \/ WaitError(r) \/ FetchClaim(r) \/ FetchError(r)
    BY <2>2 DEF LoadCampaign, LoadError, EnsureCampaign, EnsureError, WaitSuccess, WaitGivesUp,
       WaitError, FetchClaim, FetchError
  <2>3. CASE PersistCommit(r) \/ PersistReplay(r) \/ PersistReject(r) \/ PersistError(r)
             \/ PersistUnknown(r)
    BY <2>3 DEF PersistCommit, PersistReplay, PersistReject, PersistError, PersistUnknown
  <2>4. CASE Rollback(r) \/ RollbackError(r) \/ Finalize(r) \/ FinalizeError(r)
    BY <2>4 DEF Rollback, RollbackError, Finalize, FinalizeError
  <2> QED
    BY <1>4, <2>1, <2>2, <2>3, <2>4 DEF RedisStep
<1>5. CASE Environment
  BY <1>5 DEF Environment, Disconnect, Die, Expire, RedisFlush, SetStatus, Tick
<1> QED
  BY <1>1, <1>2, <1>3, <1>4, <1>5 DEF Next

\* An undisturbed step of a deployment with Redis is the step of a request that meets no
\* fault, or one that no request notices.
LEMMA CalmSteps ==
    ASSUME TypeOK, [Next]_vars, Undisturbed', Undisturbed,
           \A r \in Requests : ~gone[r], \A r \in Requests : pc[r] # "direct"
    PROVE  Still \/ \E r \in Requests : CalmStep(r)
<1>0. faults = 0 /\ faults' = 0 /\ flushes = 0 /\ flushes' = 0 /\ ~expired'
  BY DEF Undisturbed
<1>1. \A r \in Requests : ~Fails(r) /\ ~ReplyLost(r)
  BY <1>0 DEF Fails, ReplyLost
<1> USE DEF CalmStep
<1>2. CASE UNCHANGED vars
  BY <1>2 DEF vars, Still, redisVars
<1>3. ASSUME NEW r \in Requests, RedisStep(r) PROVE CalmStep(r)
  <2>1. /\ ~DecideError(r) /\ ~DecideAdmitLost(r) /\ ~LoadError(r) /\ ~EnsureError(r)
        /\ ~WaitError(r) /\ ~FetchError(r) /\ ~PersistError(r) /\ ~PersistUnknown(r)
        /\ ~RollbackError(r) /\ ~FinalizeError(r)
    BY <1>1 DEF DecideError, DecideAdmitLost, LoadError, EnsureError, WaitError, FetchError,
       PersistError, PersistUnknown, RollbackError, FinalizeError
  <2> QED
    BY <1>3, <2>1 DEF RedisStep
<1>4. ASSUME NEW r \in Requests, DirectStep(r) PROVE FALSE
  BY <1>4 DEF DirectStep, DirectCommit, DirectReplay, DirectReject, DirectError,
     DirectUnknown, Directs
<1>5. CASE Environment
  <2>1. \A r \in Requests : ~Disconnect(r) /\ ~Die(r)
    BY <1>0 DEF Disconnect, Die
  <2>2. ~RedisFlush /\ \A u \in Users, k \in Keys : ~Expire(u, k)
    BY <1>0 DEF RedisFlush, Expire
  <2> QED
    BY <1>5, <2>1, <2>2 DEF Environment, SetStatus, Tick, Still, redisVars, dbVars, whoVars, reqVars
<1> QED
  BY <1>2, <1>3, <1>4, <1>5 DEF Next

\* A request that holds a reservation never finds its claim already there.
LEMMA NoLateReplay ==
    ASSUME TypeOK, Tidy, NEW r \in Requests
    PROVE  ~PersistReplay(r)
<1> SUFFICES ASSUME PersistReplay(r) PROVE FALSE
  OBVIOUS
<1>1. pc[r] = "persist" /\ ClaimsFor(user[r], key[r]) # {}
  BY ReplayMeans DEF PersistReplay, Persists
<1>2. PICK c \in claims : c.user = user[r] /\ c.key = key[r]
  BY <1>1 DEF ClaimsFor
<1>3. idem[c.user][c.key] = [st |-> "PENDING", id |-> r]
  BY <1>1, <1>2 DEF Tidy, Holding, Owns
<1>4. Remembered(c)
  BY DEF Tidy
<1> QED
  BY <1>1, <1>3, <1>4 DEF Remembered

\* A step that touches neither entries nor claims nor a request that holds a reservation.
Passive(r) ==
    /\ idem' = idem /\ claims' = claims /\ user' = user /\ key' = key
    /\ pc[r] \notin Holding /\ pc'[r] \notin Holding
    /\ \A q \in Requests \ {r} : pc'[q] = pc[q] /\ got'[q] = got[q]

LEMMA PassiveTidy ==
    ASSUME TypeOK, Tidy, NEW r \in Requests, Passive(r)
    PROVE  Tidy'
<1>1. \A q \in Requests : pc'[q] \in Holding => Owns(q)'
  BY DEF Tidy, Passive, Owns
<1>2. ASSUME NEW u \in Users, NEW k \in Keys, idem'[u][k].st = "PENDING"
      PROVE  LET q == idem'[u][k].id
             IN q \in Requests /\ user'[q] = u /\ key'[q] = k /\ pc'[q] \in Holding
  BY <1>2 DEF Tidy, Passive
<1>3. ASSUME NEW c \in claims PROVE Remembered(c)'
  <2>1. Remembered(c) /\ c.user \in Users /\ c.key \in Keys
    BY DEF Tidy, TypeOK, DbType, L!Claim
  <2>2. idem[c.user][c.key].st = "PENDING" =>
            idem[c.user][c.key].id \in Requests \ {r}
    BY <2>1 DEF Tidy, Passive
  <2> QED
    BY <2>1, <2>2 DEF Remembered, Passive
<1> QED
  BY <1>1, <1>2, <1>3 DEF Tidy, Passive

\* A step of a request that meets no fault keeps reservations owned and claims remembered.
LEMMA CalmTidy ==
    ASSUME LedgerIInv, Tidy, NEW r \in Requests, CalmStep(r)
    PROVE  Tidy'
<1>0. /\ TypeOK /\ pc \in [Requests -> Pcs] /\ got \in [Requests -> Requests \union {NoReq}]
      /\ user[r] \in Users /\ key[r] \in Keys
      /\ \A c \in claims : c.id \in Requests /\ c.user \in Users /\ c.key \in Keys
  BY DEF LedgerIInv, TypeOK, RequestType, DbType, L!Claim
<1> USE DEF dbVars, redisVars, whoVars, Goto, Answer
<1>1. CASE Begin(r) \/ DecideMiss(r) \/ DecideReplay(r) \/ DecidePending(r) \/ DecideRefuse(r)
           \/ LoadCampaign(r) \/ WaitSuccess(r) \/ FetchClaim(r)
  <2>1. Passive(r)
    BY <1>0, <1>1 DEF Begin, DecideMiss, DecideReplay, DecidePending, DecideRefuse, Decides,
       LoadCampaign, WaitSuccess, FetchClaim, Passive, Holding
  <2> QED
    BY <1>0, <2>1, PassiveTidy
<1>2. CASE EnsureCampaign(r) \/ WaitGivesUp(r)
  <2>1. Passive(r)
    BY <1>0, <1>2 DEF EnsureCampaign, Hydrate, WaitGivesUp, NextAttempt, Passive, Holding
  <2> QED
    BY <1>0, <2>1, PassiveTidy
<1>3. CASE DecideAdmit(r)
  <2>1. /\ pc[r] = "decide" /\ idem[user[r]][key[r]].st = "none"
        /\ pc' = [pc EXCEPT ![r] = "persist"] /\ claims' = claims /\ got' = got
        /\ user' = user /\ key' = key
    BY <1>0, <1>3, AdmittedMeans DEF DecideAdmit
  <2>2. \A v \in Users, l \in Keys :
            idem'[v][l] = IF v = user[r] /\ l = key[r]
                          THEN [st |-> "PENDING", id |-> r] ELSE idem[v][l]
    <3>1. idem' = [idem EXCEPT ![user[r]][key[r]] = [st |-> "PENDING", id |-> r]]
      BY <1>3 DEF DecideAdmit, Reserve
    <3>2. [st |-> "PENDING", id |-> r] \in Entry
      BY DEF Entry
    <3>3. TypeOK /\ user[r] \in Users /\ key[r] \in Keys
      BY <1>0
    <3> QED
      BY ONLY <3>1, <3>2, <3>3, IdemUpdate
  <2>3. ASSUME NEW q \in Requests, pc'[q] \in Holding PROVE Owns(q)'
    <3>1. user[q] \in Users /\ key[q] \in Keys
      BY <1>0 DEF TypeOK, RequestType
    <3>2. CASE q = r
      BY <2>1, <2>2, <3>1, <3>2 DEF Owns
    <3>3. CASE q # r
      <4>1. Owns(q)
        BY <1>0, <2>1, <2>3, <3>3 DEF Tidy
      <4> QED
        BY <2>1, <2>2, <3>1, <4>1 DEF Owns
    <3> QED
      BY <3>2, <3>3
  <2>4. ASSUME NEW u \in Users, NEW k \in Keys, idem'[u][k].st = "PENDING"
        PROVE  LET q == idem'[u][k].id
               IN q \in Requests /\ user'[q] = u /\ key'[q] = k /\ pc'[q] \in Holding
    <3>1. CASE u = user[r] /\ k = key[r]
      BY <1>0, <2>1, <2>2, <3>1 DEF Holding
    <3>2. CASE ~(u = user[r] /\ k = key[r])
      <4>1. idem'[u][k] = idem[u][k]
        BY <2>2, <3>2
      <4> QED
        BY <1>0, <2>1, <2>4, <4>1 DEF Tidy, Holding
    <3> QED
      BY <3>1, <3>2
  <2>5. ASSUME NEW c \in claims PROVE Remembered(c)'
    <3>1. Remembered(c)
      BY DEF Tidy
    <3>2. ~(c.user = user[r] /\ c.key = key[r])
      BY <2>1, <3>1 DEF Remembered
    <3>3. idem'[c.user][c.key] = idem[c.user][c.key]
      BY <1>0, <2>2, <3>2
    <3>4. idem[c.user][c.key].st = "PENDING" => idem[c.user][c.key].id \in Requests
      BY <1>0 DEF Tidy
    <3> QED
      BY <1>0, <2>1, <3>1, <3>3, <3>4 DEF Remembered
  <2> QED
    BY <2>1, <2>3, <2>4, <2>5 DEF Tidy
<1>4. CASE PersistCommit(r)
  <2>1. /\ pc[r] = "persist" /\ pc' = [pc EXCEPT ![r] = "finalize"]
        /\ got' = [got EXCEPT ![r] = r] /\ idem' = idem /\ user' = user /\ key' = key
        /\ claims' = claims \union {[id |-> r, user |-> user[r], key |-> key[r]]}
    BY <1>4 DEF PersistCommit, Persists, InsertClaim
  <2>2. Owns(r)
    BY <2>1 DEF Tidy, Holding
  <2>3. \A q \in Requests : pc'[q] \in Holding => Owns(q)'
    BY <1>0, <2>1, <2>2 DEF Tidy, Owns
  <2>4. ASSUME NEW u \in Users, NEW k \in Keys, idem'[u][k].st = "PENDING"
        PROVE  LET q == idem'[u][k].id
               IN q \in Requests /\ user'[q] = u /\ key'[q] = k /\ pc'[q] \in Holding
    BY <1>0, <2>1, <2>4 DEF Tidy, Holding
  <2>5. Remembered([id |-> r, user |-> user[r], key |-> key[r]])'
    BY <1>0, <2>1, <2>2 DEF Remembered, Owns
  <2>6. ASSUME NEW c \in claims PROVE Remembered(c)'
    <3>1. Remembered(c)
      BY DEF Tidy
    <3>2. idem[c.user][c.key].st = "PENDING" => idem[c.user][c.key].id \in Requests
      BY <1>0 DEF Tidy
    <3> QED
      BY <1>0, <2>1, <3>1, <3>2 DEF Remembered
  <2> QED
    BY <2>1, <2>3, <2>4, <2>5, <2>6 DEF Tidy
<1>5. CASE PersistReject(r)
  <2>1. /\ pc[r] = "persist" /\ pc' = [pc EXCEPT ![r] = "rollback"]
        /\ got' = got /\ idem' = idem /\ user' = user /\ key' = key /\ claims' = claims
    BY <1>5 DEF PersistReject, Persists
  <2>2. \A q \in Requests : pc'[q] \in Holding => Owns(q)'
    BY <1>0, <2>1 DEF Tidy, Owns, Holding
  <2>3. ASSUME NEW u \in Users, NEW k \in Keys, idem'[u][k].st = "PENDING"
        PROVE  LET q == idem'[u][k].id
               IN q \in Requests /\ user'[q] = u /\ key'[q] = k /\ pc'[q] \in Holding
    BY <1>0, <2>1, <2>3 DEF Tidy, Holding
  <2>4. ASSUME NEW c \in claims PROVE Remembered(c)'
    <3>1. Remembered(c)
      BY DEF Tidy
    <3>2. idem[c.user][c.key].st = "PENDING" => idem[c.user][c.key].id \in Requests
      BY <1>0 DEF Tidy
    <3> QED
      BY <1>0, <2>1, <3>1, <3>2 DEF Remembered
  <2> QED
    BY <2>1, <2>2, <2>3, <2>4 DEF Tidy
<1>6. ASSUME NEW e \in Entry, e.st # "PENDING", pc[r] \in Holding,
             idem' = [idem EXCEPT ![user[r]][key[r]] = e],
             pc' = [pc EXCEPT ![r] = "done"], got' = got, user' = user, key' = key,
             claims' = claims,
             \A c \in claims : c.user = user[r] /\ c.key = key[r] => e.st = "SUCCESS" /\ e.id = c.id
      PROVE  Tidy'
  <2>1. Owns(r)
    BY <1>6 DEF Tidy
  <2>2. \A v \in Users, l \in Keys :
            idem'[v][l] = IF v = user[r] /\ l = key[r] THEN e ELSE idem[v][l]
    BY <1>0, <1>6, IdemUpdate
  <2>3. ASSUME NEW q \in Requests, pc'[q] \in Holding PROVE Owns(q)'
    <3>1. q # r /\ Owns(q) /\ user[q] \in Users /\ key[q] \in Keys
      BY <1>0, <1>6, <2>3 DEF Tidy, Holding, TypeOK, RequestType
    <3>2. ~(user[q] = user[r] /\ key[q] = key[r])
      BY <2>1, <3>1 DEF Owns
    <3> QED
      BY <1>6, <2>2, <3>1, <3>2 DEF Owns
  <2>4. ASSUME NEW u \in Users, NEW k \in Keys, idem'[u][k].st = "PENDING"
        PROVE  LET q == idem'[u][k].id
               IN q \in Requests /\ user'[q] = u /\ key'[q] = k /\ pc'[q] \in Holding
    <3>1. ~(u = user[r] /\ k = key[r]) /\ idem'[u][k] = idem[u][k]
      BY <1>6, <2>2, <2>4
    <3>2. /\ idem[u][k].id \in Requests /\ user[idem[u][k].id] = u
          /\ key[idem[u][k].id] = k /\ pc[idem[u][k].id] \in Holding
      BY <2>4, <3>1 DEF Tidy
    <3> QED
      BY <1>0, <1>6, <3>1, <3>2
  <2>5. ASSUME NEW c \in claims PROVE Remembered(c)'
    <3>1. Remembered(c)
      BY DEF Tidy
    <3>2. CASE c.user = user[r] /\ c.key = key[r]
      BY <1>0, <1>6, <2>2, <3>2 DEF Remembered
    <3>3. CASE ~(c.user = user[r] /\ c.key = key[r])
      <4>1. idem'[c.user][c.key] = idem[c.user][c.key]
        BY <1>0, <2>2, <3>3
      <4>2. idem[c.user][c.key].st = "PENDING" => idem[c.user][c.key].id \in Requests \ {r}
        BY <1>0, <3>3 DEF Tidy
      <4> QED
        BY <1>0, <1>6, <3>1, <4>1, <4>2 DEF Remembered
    <3> QED
      BY <3>2, <3>3
  <2> QED
    BY <1>6, <2>3, <2>4, <2>5 DEF Tidy
<1>7. CASE Rollback(r)
  <2>1. pc[r] = "rollback" /\ Owns(r)
    BY <1>7 DEF Rollback, Tidy, Holding
  <2>2. \A c \in claims : ~(c.user = user[r] /\ c.key = key[r])
    BY <2>1 DEF Tidy, Remembered, Owns
  <2>3. NoEntry \in Entry /\ NoEntry.st # "PENDING"
    BY DEF NoEntry, Entry
  <2>4. /\ idem' = [idem EXCEPT ![user[r]][key[r]] = NoEntry] /\ pc' = [pc EXCEPT ![r] = "done"]
        /\ got' = got /\ user' = user /\ key' = key /\ claims' = claims
    BY <1>7, <2>1 DEF Rollback
  <2> QED
    BY <1>6, <2>1, <2>2, <2>3, <2>4 DEF Holding
<1>8. CASE Finalize(r)
  <2>1. pc[r] = "finalize" /\ Owns(r)
    BY <1>8 DEF Finalize, Tidy, Holding
  <2> DEFINE e == [st |-> "SUCCESS", id |-> got[r]]
  <2>2. \A c \in claims : c.user = user[r] /\ c.key = key[r] => e.st = "SUCCESS" /\ e.id = c.id
    BY <2>1 DEF Tidy, Remembered, Owns
  <2>3. e \in Entry /\ e.st # "PENDING"
    BY <1>0 DEF Entry
  <2>4. /\ idem' = [idem EXCEPT ![user[r]][key[r]] = e] /\ pc' = [pc EXCEPT ![r] = "done"]
        /\ got' = got /\ user' = user /\ key' = key /\ claims' = claims
    BY <1>8, <2>1 DEF Finalize
  <2> HIDE DEF e
  <2> QED
    BY <1>6, <2>1, <2>2, <2>3, <2>4 DEF Holding
<1>9. ~PersistReplay(r)
  BY <1>0, NoLateReplay
<1> QED
  BY <1>1, <1>2, <1>3, <1>4, <1>5, <1>7, <1>8, <1>9 DEF CalmStep

\* A step of one request leaves the others alone and deletes no claim.
LEMMA CalmOthers ==
    ASSUME TypeOK, NEW r \in Requests, CalmStep(r)
    PROVE  /\ \A q \in Requests \ {r} :
                 /\ pc'[q] = pc[q] /\ got'[q] = got[q] /\ code'[q] = code[q]
                 /\ prior'[q] = prior[q]
           /\ user' = user /\ key' = key /\ gone' = gone
           /\ claims \subseteq claims'
           /\ ~Begin(r) => prior' = prior
<1>0. /\ pc \in [Requests -> Pcs] /\ got \in [Requests -> Requests \union {NoReq}]
      /\ code \in [Requests -> Codes] /\ prior \in [Requests -> Requests \union {NoReq}]
  BY DEF TypeOK, RequestType
<1> USE <1>0 DEF dbVars, redisVars, whoVars, Goto, Answer, Works
<1>1. CASE Begin(r)
  BY <1>1 DEF Begin
<1>2. CASE DecideMiss(r) \/ DecideReplay(r) \/ DecidePending(r) \/ DecideRefuse(r)
           \/ DecideAdmit(r)
  BY <1>2 DEF DecideMiss, DecideReplay, DecidePending, DecideRefuse, DecideAdmit
<1>3. CASE LoadCampaign(r) \/ WaitSuccess(r) \/ FetchClaim(r)
  BY <1>3 DEF LoadCampaign, WaitSuccess, FetchClaim
<1>4. CASE EnsureCampaign(r) \/ WaitGivesUp(r)
  BY <1>4 DEF EnsureCampaign, WaitGivesUp, NextAttempt
<1>5. CASE PersistCommit(r)
  BY <1>5 DEF PersistCommit, InsertClaim
<1>6. CASE PersistReplay(r) \/ PersistReject(r)
  BY <1>6 DEF PersistReplay, PersistReject
<1>7. CASE Rollback(r) \/ Finalize(r)
  BY <1>7 DEF Rollback, Finalize
<1> QED
  BY <1>1, <1>2, <1>3, <1>4, <1>5, <1>6, <1>7 DEF CalmStep

\* What Decide answers when the entry of the user and key is still there.
LEMMA DecidesByEntry ==
    ASSUME TypeOK, Blank, NEW r \in Requests, NEW d, Decides(r, d),
           idem[user[r]][key[r]].st # "none"
    PROVE  /\ d = "IDEM_HIT" => idem[user[r]][key[r]].st = "SUCCESS"
           /\ d \in {"IDEM_HIT", "PENDING"}
<1>1. /\ user[r] \in Users /\ key[r] \in Keys
      /\ idem[user[r]][key[r]].st \in {"PENDING", "SUCCESS"}
  BY DEF TypeOK, RequestType, RedisType, Entry
<1>2. rstatus # "NONE"
  BY <1>1 DEF Blank, NoEntry
<1> QED
  BY <1>1, <1>2 DEF Decides, Decision

\* A request whose claim existed when it began stays on the way to that claim.
LEMMA CalmReplays ==
    ASSUME LedgerIInv, Blank, Tidy, adjudicator, NEW r \in Requests, CalmStep(r),
           \A q \in Requests : prior[q] # NoReq => Replays(q)
    PROVE  \A q \in Requests : prior'[q] # NoReq => Replays(q)'
<1>0. TypeOK
  BY DEF LedgerIInv
<1>1. ASSUME NEW q \in Requests \ {r}, prior'[q] # NoReq PROVE Replays(q)'
  <2>1. /\ pc'[q] = pc[q] /\ got'[q] = got[q] /\ code'[q] = code[q] /\ prior'[q] = prior[q]
        /\ user' = user /\ key' = key /\ claims \subseteq claims'
    BY <1>0, CalmOthers
  <2>2. Replays(q)
    BY <1>1, <2>1
  <2> QED
    BY <2>1, <2>2 DEF Replays
<1>2. ASSUME Begin(r), prior'[r] # NoReq PROVE Replays(r)'
  <2>1. /\ prior'[r] = ClaimId(user[r], key[r]) /\ pc'[r] = "decide"
        /\ claims' = claims /\ user' = user /\ key' = key
    BY <1>0, <1>2 DEF Begin, Goto, dbVars, TypeOK, RequestType
  <2>2. ClaimsFor(user[r], key[r]) # {} /\ user[r] \in Users /\ key[r] \in Keys
    BY <1>0, <1>2, <2>1 DEF ClaimId, TypeOK, RequestType
  <2>3. [id |-> prior'[r], user |-> user[r], key |-> key[r]] \in claims
    BY <1>0, <2>1, <2>2, ClaimIdMeans
  <2> QED
    BY <2>1, <2>3 DEF Replays
<1>3. ASSUME ~Begin(r), prior'[r] # NoReq PROVE Replays(r)'
  <2>1. prior' = prior /\ user' = user /\ key' = key /\ claims \subseteq claims'
    BY <1>0, <1>3, CalmOthers
  <2>2. Replays(r)
    BY <1>3, <2>1
  <2>3. [id |-> prior[r], user |-> user[r], key |-> key[r]] \in claims
    BY <2>2 DEF Replays
  <2>4. [id |-> prior'[r], user |-> user'[r], key |-> key'[r]] \in claims'
    BY <2>1, <2>3
  <2>5. /\ idem[user[r]][key[r]].st \in {"SUCCESS", "PENDING"}
        /\ idem[user[r]][key[r]].st = "SUCCESS" => idem[user[r]][key[r]].id = prior[r]
    <3>1. Remembered([id |-> prior[r], user |-> user[r], key |-> key[r]])
      BY <2>3 DEF Tidy
    <3> QED
      BY <3>1 DEF Remembered
  <2>6. /\ pc \in [Requests -> Pcs] /\ got \in [Requests -> Requests \union {NoReq}]
        /\ code \in [Requests -> Codes]
    BY <1>0 DEF TypeOK, RequestType
  <2> USE <2>4, <2>6 DEF Goto, Answer
  <2>7. ~DecideMiss(r) /\ ~DecideRefuse(r) /\ ~DecideAdmit(r)
    BY <1>0, <2>5, DecidesByEntry DEF DecideMiss, DecideRefuse, DecideAdmit, Refusals
  <2>8. CASE DecideReplay(r)
    <3>1. idem[user[r]][key[r]].st = "SUCCESS"
      BY <1>0, <2>5, <2>8, DecidesByEntry DEF DecideReplay
    <3>2. got'[r] = prior[r] /\ pc'[r] = "fetch"
      BY <2>5, <2>8, <3>1 DEF DecideReplay
    <3> QED
      BY <2>1, <3>2 DEF Replays
  <2>9. CASE DecidePending(r)
    <3>1. pc'[r] = "wait"
      BY <2>9 DEF DecidePending
    <3> QED
      BY <3>1 DEF Replays
  <2>10. CASE WaitSuccess(r)
    <3>1. got'[r] = prior[r] /\ pc'[r] = "fetch"
      BY <2>5, <2>10 DEF WaitSuccess
    <3> QED
      BY <2>1, <3>1 DEF Replays
  <2>11. CASE WaitGivesUp(r)
    <3>1. pc'[r] = "decide" \/ (pc'[r] = "done" /\ code'[r] = "BUSY")
      BY <2>11 DEF WaitGivesUp, NextAttempt
    <3> QED
      BY <3>1 DEF Replays
  <2>12. CASE FetchClaim(r)
    <3>1. pc[r] = "fetch" /\ got'[r] = got[r] /\ pc'[r] = "done" /\ code'[r] = "OK"
      BY <2>12 DEF FetchClaim
    <3> QED
      BY <2>1, <2>2, <3>1 DEF Replays
  <2>13. /\ ~LoadCampaign(r) /\ ~EnsureCampaign(r) /\ ~PersistCommit(r) /\ ~PersistReplay(r)
         /\ ~PersistReject(r) /\ ~Rollback(r) /\ ~Finalize(r)
    BY <2>2 DEF Replays, LoadCampaign, EnsureCampaign, PersistCommit, PersistReplay, PersistReject,
       Persists, Rollback, Finalize
  <2> QED
    BY <1>3, <2>7, <2>8, <2>9, <2>10, <2>11, <2>12, <2>13 DEF CalmStep
<1> QED
  BY <1>1, <1>2, <1>3

\* Without data in Redis no reservation is held and nothing is claimed.
LEMMA BlankMeans ==
    ASSUME TypeOK, Blank, Tidy, rstatus = "NONE"
    PROVE  /\ \A r \in Requests : pc[r] \notin Holding
           /\ Reserving = {} /\ claims = {}
<1>1. \A u \in Users, k \in Keys : idem[u][k].st = "none"
  BY DEF Blank, NoEntry
<1>2. ASSUME NEW r \in Requests, pc[r] \in Holding PROVE FALSE
  <2>0. Owns(r)
    BY <1>2 DEF Tidy
  <2>1. idem[user[r]][key[r]].st = "PENDING"
    BY <2>0 DEF Owns
  <2>2. user[r] \in Users /\ key[r] \in Keys
    BY DEF TypeOK, RequestType
  <2> QED
    BY <1>1, <2>1, <2>2
<1>3. Reserving = {}
  BY <1>2 DEF Reserving, Holding
<1>4. ASSUME NEW c \in claims PROVE FALSE
  BY <1>1 DEF Tidy, Remembered, TypeOK, DbType, L!Claim
<1> QED
  BY <1>2, <1>3, <1>4

\* Until the first hydration the snapshots that may be hydrated are current.
LEMMA CalmSnaps ==
    ASSUME TypeOK, [Next]_vars, Blank, Tidy, NEW r \in Requests, CalmStep(r), rstatus' = "NONE",
           rstatus = "NONE" => \A q \in Requests : pc[q] = "hydrate" => snap[q].stock = available
    PROVE  \A q \in Requests : pc'[q] = "hydrate" => snap'[q].stock = available'
<1>0. /\ pc \in [Requests -> Pcs] /\ snap \in [Requests -> Snapshot]
      /\ snap[r].status # "NONE"
  BY DEF TypeOK, RequestType, Snapshot, Statuses
<1>1. rstatus = "NONE"
  BY <1>0 DEF CalmStep, Begin, DecideMiss, DecideReplay, DecidePending, DecideRefuse, DecideAdmit,
     LoadCampaign, EnsureCampaign, WaitSuccess, WaitGivesUp, FetchClaim, PersistCommit,
     PersistReplay, PersistReject, Rollback, Finalize, Reserve, Hydrate, redisVars
<1>2. ~PersistCommit(r)
  BY <1>1, BlankMeans DEF PersistCommit, Persists, Holding
<1>3. available' = available
  BY <1>2 DEF CalmStep, Begin, DecideMiss, DecideReplay, DecidePending, DecideRefuse, DecideAdmit,
     LoadCampaign, EnsureCampaign, WaitSuccess, WaitGivesUp, FetchClaim,
     PersistReplay, PersistReject, Rollback, Finalize, dbVars
<1>4. \A q \in Requests : snap'[q] = snap[q] \/ snap'[q].stock = available
  BY NextSteady DEF Steady
<1>5. CASE LoadCampaign(r)
  <2>1. \A q \in Requests \ {r} : pc'[q] = pc[q]
    BY CalmOthers
  <2>2. pc'[r] = "hydrate" => snap'[r].stock = available
    BY <1>0, <1>5 DEF LoadCampaign, Goto, Answer
  <2> QED
    BY <1>1, <1>3, <1>4, <2>1, <2>2
<1>6. CASE ~LoadCampaign(r)
  <2>1. \A q \in Requests \ {r} : pc'[q] = pc[q]
    BY CalmOthers
  <2>2. pc'[r] # "hydrate"
    BY <1>0, <1>6 DEF CalmStep, Begin, DecideMiss, DecideReplay, DecidePending, DecideRefuse,
       DecideAdmit, EnsureCampaign, WaitSuccess, WaitGivesUp, FetchClaim, PersistCommit,
       PersistReplay, PersistReject, Rollback, Finalize, NextAttempt, Goto, Answer
  <2> QED
    BY <1>1, <1>3, <1>4, <2>1, <2>2
<1> QED
  BY <1>5, <1>6

Exact == rstock + Cardinality(Reserving) = available
ExactFor(u) == rcount[u] = Cardinality(L!ClaimsOf(u)) + Cardinality(HeldBy(u))

\* A step of a request that meets no fault keeps the counters exact.
LEMMA CalmMirrors ==
    ASSUME LedgerIInv, IsFiniteSet(Reserving), Blank, Tidy, NEW r \in Requests, CalmStep(r),
           rstatus = "NONE" => \A q \in Requests : pc[q] = "hydrate" => snap[q].stock = available,
           NEW u \in Users, rstatus # "NONE" => Exact /\ ExactFor(u), rstatus' # "NONE"
    PROVE  Exact' /\ ExactFor(u)'
<1>0. /\ TypeOK /\ pc \in [Requests -> Pcs] /\ user[r] \in Users
      /\ rstock \in Nat /\ available \in Nat /\ rcount \in [Users -> Nat] /\ rcount[u] \in Nat
      /\ user' = user
  BY CalmOthers DEF LedgerIInv, TypeOK, RequestType, DbType, RedisType
<1>1. /\ Cardinality(L!ClaimsOf(u)) \in Nat /\ Cardinality(HeldBy(u)) \in Nat
      /\ Cardinality(Reserving) \in Nat /\ IsFiniteSet(HeldBy(u))
  <2>1. L!ClaimsOf(u) \subseteq claims /\ HeldBy(u) \subseteq Reserving
    BY DEF L!ClaimsOf, HeldBy
  <2> QED
    BY <2>1, NoLarger DEF LedgerIInv
<1> USE DEF dbVars, redisVars, whoVars, Goto, Answer
<1>2. ASSUME rstatus' = rstatus, rstock' = rstock, rcount' = rcount, claims' = claims,
             available' = available, Reserving' = Reserving
      PROVE  Exact' /\ ExactFor(u)'
  <2>1. L!ClaimsOf(u)' = L!ClaimsOf(u) /\ HeldBy(u)' = HeldBy(u)
    BY <1>0, <1>2 DEF L!ClaimsOf, HeldBy
  <2> QED
    BY <1>2, <2>1 DEF Exact, ExactFor
<1>3. CASE Begin(r) \/ DecideMiss(r) \/ DecideReplay(r) \/ DecidePending(r) \/ DecideRefuse(r)
           \/ LoadCampaign(r) \/ WaitSuccess(r) \/ FetchClaim(r) \/ WaitGivesUp(r)
           \/ PersistReject(r) \/ Finalize(r)
  <2>1. Reserving' = Reserving
    BY <1>0, <1>3 DEF Begin, DecideMiss, DecideReplay, DecidePending, DecideRefuse, Decides,
       LoadCampaign, WaitSuccess, FetchClaim, WaitGivesUp, NextAttempt, PersistReject, Persists,
       Finalize, Reserving
  <2>2. /\ rstatus' = rstatus /\ rstock' = rstock /\ rcount' = rcount /\ claims' = claims
        /\ available' = available
    BY <1>3 DEF Begin, DecideMiss, DecideReplay, DecidePending, DecideRefuse,
       LoadCampaign, WaitSuccess, FetchClaim, WaitGivesUp, PersistReject, Finalize
  <2> QED
    BY <1>2, <2>1, <2>2
<1>4. CASE EnsureCampaign(r)
  <2>1. /\ pc[r] = "hydrate" /\ claims' = claims /\ available' = available /\ rcount' = rcount
        /\ Hydrate(r)
    BY <1>4 DEF EnsureCampaign, Hydrate
  <2>2. Reserving' = Reserving
    BY <1>0, <1>4 DEF EnsureCampaign, NextAttempt, Reserving
  <2>3. CASE rstatus = "NONE"
    <3>1. rstock' = available
      BY <2>1, <2>3 DEF Hydrate
    <3>2. Reserving' = {} /\ claims' = {} /\ rcount'[u] = 0
      BY <1>0, <2>1, <2>2, <2>3, BlankMeans DEF Blank
    <3>3. L!ClaimsOf(u)' = {} /\ HeldBy(u)' = {} /\ Cardinality({}) = 0
      BY <3>2, FS_EmptySet DEF L!ClaimsOf, HeldBy
    <3> QED
      BY <1>0, <2>1, <3>1, <3>2, <3>3 DEF Exact, ExactFor
  <2>4. CASE rstatus # "NONE"
    BY <1>2, <2>1, <2>2, <2>4 DEF Hydrate
  <2> QED
    BY <2>3, <2>4
<1>5. CASE DecideAdmit(r)
  <2>1. /\ pc[r] = "decide" /\ rstatus # "NONE" /\ rstock > 0
        /\ rstock' = rstock - 1 /\ rcount' = [rcount EXCEPT ![user[r]] = @ + 1]
        /\ claims' = claims /\ available' = available
    BY <1>0, <1>5, AdmittedMeans DEF DecideAdmit, Reserve
  <2>2. Reserving' = Reserving \union {r} /\ r \notin Reserving
    BY <1>0, <1>5, <2>1 DEF DecideAdmit, Reserving
  <2>3. Cardinality(Reserving') = Cardinality(Reserving) + 1
    BY <2>2, PlusOne
  <2>4. Exact'
    BY <1>0, <1>1, <2>1, <2>3 DEF Exact
  <2>5. L!ClaimsOf(u)' = L!ClaimsOf(u)
    BY <2>1 DEF L!ClaimsOf
  <2>6. CASE u = user[r]
    <3>1. HeldBy(u)' = HeldBy(u) \union {r} /\ r \notin HeldBy(u)
      BY <1>0, <2>2, <2>6 DEF HeldBy
    <3>2. Cardinality(HeldBy(u)') = Cardinality(HeldBy(u)) + 1
      BY <1>1, <3>1, PlusOne
    <3>3. rcount'[u] = rcount[u] + 1
      BY <1>0, <2>1, <2>6
    <3> QED
      BY <1>0, <1>1, <2>1, <2>4, <2>5, <3>2, <3>3 DEF ExactFor
  <2>7. CASE u # user[r]
    <3>1. HeldBy(u)' = HeldBy(u)
      BY <1>0, <2>2, <2>7 DEF HeldBy
    <3>2. rcount'[u] = rcount[u]
      BY <1>0, <2>1, <2>7
    <3> QED
      BY <2>1, <2>4, <2>5, <3>1, <3>2 DEF ExactFor
  <2> QED
    BY <2>6, <2>7
<1>6. CASE PersistCommit(r)
  <2>1. /\ pc[r] = "persist" /\ Persists(r, "COMMIT") /\ InsertClaim(r)
        /\ rstatus' = rstatus /\ rstock' = rstock /\ rcount' = rcount
        /\ available' = available - 1
    BY <1>6 DEF PersistCommit, Persists, InsertClaim
  <2>2. Reserving' = Reserving \ {r} /\ r \in Reserving
    BY <1>0, <1>6, <2>1 DEF PersistCommit, Reserving
  <2>3. Cardinality(Reserving') = Cardinality(Reserving) - 1
    BY <2>2, ReservingFollows
  <2>4. Exact'
    BY <1>0, <1>1, <2>1, <2>3 DEF Exact
  <2>5. CASE u = user[r]
    <3>1. Cardinality(HeldBy(u)') = Cardinality(HeldBy(u)) - 1
      BY <1>0, <2>2, <2>5, HeldFollows
    <3>2. Cardinality(L!ClaimsOf(u)') = Cardinality(L!ClaimsOf(u)) + 1
      BY <2>1, <2>5, ClaimsFollow
    <3> QED
      BY <1>0, <1>1, <2>1, <2>4, <3>1, <3>2 DEF ExactFor
  <2>6. CASE u # user[r]
    <3>1. HeldBy(u)' = HeldBy(u)
      BY <1>0, <2>2, <2>6 DEF HeldBy
    <3>2. Cardinality(L!ClaimsOf(u)') = Cardinality(L!ClaimsOf(u))
      BY <2>1, <2>6, ClaimsFollow
    <3> QED
      BY <2>1, <2>4, <3>1, <3>2 DEF ExactFor
  <2> QED
    BY <2>5, <2>6
<1>7. CASE Rollback(r)
  <2>1. pc[r] = "rollback" /\ Owns(r)
    BY <1>7 DEF Rollback, Tidy, Holding
  <2>2. /\ rstatus' = rstatus /\ rstock' = rstock + 1 /\ claims' = claims
        /\ available' = available
        /\ rcount' = [rcount EXCEPT ![user[r]] = IF @ - 1 <= 0 THEN 0 ELSE @ - 1]
    BY <1>7, <2>1 DEF Rollback
  <2>3. Reserving' = Reserving \ {r} /\ r \in Reserving
    BY <1>0, <1>7, <2>1 DEF Rollback, Reserving
  <2>4. Cardinality(Reserving') = Cardinality(Reserving) - 1
    BY <2>3, ReservingFollows
  <2>5. Exact'
    BY <1>0, <1>1, <2>2, <2>4 DEF Exact
  <2>6. L!ClaimsOf(u)' = L!ClaimsOf(u)
    BY <2>2 DEF L!ClaimsOf
  <2>7. CASE u = user[r]
    <3>1. /\ Cardinality(HeldBy(u)') = Cardinality(HeldBy(u)) - 1
          /\ Cardinality(HeldBy(u)') \in Nat
      BY <1>0, <2>3, <2>7, HeldFollows
    <3>2. rcount[u] >= 1
      BY <1>0, <1>1, <2>2, <3>1 DEF ExactFor
    <3>3. rcount'[u] = rcount[u] - 1
      BY <1>0, <2>2, <2>7, <3>2
    <3> QED
      BY <1>0, <1>1, <2>2, <2>5, <2>6, <3>1, <3>3 DEF ExactFor
  <2>8. CASE u # user[r]
    <3>1. HeldBy(u)' = HeldBy(u)
      BY <1>0, <2>3, <2>8 DEF HeldBy
    <3>2. rcount'[u] = rcount[u]
      BY <1>0, <2>2, <2>8
    <3> QED
      BY <2>2, <2>5, <2>6, <3>1, <3>2 DEF ExactFor
  <2> QED
    BY <2>7, <2>8
<1>8. ~PersistReplay(r)
  BY <1>0, NoLateReplay
<1> QED
  BY <1>3, <1>4, <1>5, <1>6, <1>7, <1>8 DEF CalmStep

\* Every step keeps what holds of an undisturbed Redis.
LEMMA NextExact ==
    ASSUME LedgerIInv, CountersIInv, ExactIInv, [Next]_vars
    PROVE  ExactIInv'
<1>0. TypeOK /\ Blank /\ IsFiniteSet(Reserving) /\ Steady
  BY NextSteady DEF LedgerIInv, ExactIInv, CountersIInv
<1>1. Blank'
  BY <1>0, NextBlank
<1>2. ASSUME adjudicator', Undisturbed'
      PROVE  /\ \A q \in Requests : ~gone'[q]
             /\ Tidy'
             /\ rstatus' = "NONE" =>
                   \A q \in Requests : pc'[q] = "hydrate" => snap'[q].stock = available'
             /\ \A q \in Requests : prior'[q] # NoReq => Replays(q)'
             /\ rstatus' # "NONE" => \A u \in Users : Exact' /\ ExactFor(u)'
             /\ rstatus' # "NONE" => Exact'
  <2>1. adjudicator /\ Undisturbed
    BY <1>0, <1>2, UndisturbedBefore DEF Steady
  <2>2. /\ \A q \in Requests : ~gone[q]
        /\ Tidy
        /\ rstatus = "NONE" => \A q \in Requests : pc[q] = "hydrate" => snap[q].stock = available
        /\ \A q \in Requests : prior[q] # NoReq => Replays(q)
        /\ \A q \in Requests : pc[q] # "direct"
    BY <2>1 DEF ExactIInv, CountersIInv
  <2>3. rstatus # "NONE" => Exact /\ \A u \in Users : ExactFor(u)
    BY <2>1 DEF ExactIInv, RedisMirrorsLedger, Exact, ExactFor, HeldBy
  <2>4. CASE Still
    <3>1. Tidy'
      BY <2>2, <2>4 DEF Still, Tidy, Owns, Remembered, redisVars
    <3>2. \A q \in Requests : prior'[q] # NoReq => Replays(q)'
      BY <2>2, <2>4 DEF Still, Replays
    <3>3. Exact' = Exact /\ \A u \in Users : ExactFor(u)' = ExactFor(u)
      BY <2>4 DEF Still, Exact, ExactFor, HeldBy, Reserving, L!ClaimsOf, redisVars
    <3> QED
      BY <2>2, <2>3, <2>4, <3>1, <3>2, <3>3 DEF Still, redisVars
  <2>5. ASSUME NEW r \in Requests, CalmStep(r)
        PROVE  /\ \A q \in Requests : ~gone'[q]
               /\ Tidy'
               /\ rstatus' = "NONE" =>
                     \A q \in Requests : pc'[q] = "hydrate" => snap'[q].stock = available'
               /\ \A q \in Requests : prior'[q] # NoReq => Replays(q)'
               /\ rstatus' # "NONE" => \A u \in Users : Exact' /\ ExactFor(u)'
               /\ rstatus' # "NONE" => Exact'
    <3>1. \A q \in Requests : ~gone'[q]
      BY <1>0, <2>2, <2>5, CalmOthers
    <3>2. Tidy'
      BY <2>2, <2>5, CalmTidy
    <3>3. rstatus' = "NONE" =>
              \A q \in Requests : pc'[q] = "hydrate" => snap'[q].stock = available'
      BY <1>0, <2>2, <2>5, CalmSnaps
    <3>4. \A q \in Requests : prior'[q] # NoReq => Replays(q)'
      BY <1>0, <2>1, <2>2, <2>5, CalmReplays
    <3>5. rstatus' # "NONE" => \A u \in Users : Exact' /\ ExactFor(u)'
      BY <1>0, <2>2, <2>3, <2>5, CalmMirrors
    <3>6. user[r] \in Users
      BY <1>0 DEF TypeOK, RequestType
    <3> QED
      BY <3>1, <3>2, <3>3, <3>4, <3>5, <3>6
  <2> QED
    BY <1>0, <1>2, <2>1, <2>2, <2>4, <2>5, CalmSteps
<1> QED
  BY <1>1, <1>2 DEF ExactIInv, RedisMirrorsLedger, Exact, ExactFor, HeldBy

\* Initially Redis is empty and no request has begun.
LEMMA InitExact ==
    ASSUME Init
    PROVE  ExactIInv
<1>1. Blank
  BY DEF Init, Blank
<1>2. Tidy
  <2>1. \A u \in Users, k \in Keys : idem[u][k].st = "none"
    BY DEF Init, NoEntry
  <2>2. \A r \in Requests : pc[r] \notin Holding
    BY DEF Init, Holding
  <2> QED
    BY <2>1, <2>2 DEF Tidy, Init
<1>3. RedisMirrorsLedger
  BY DEF Init, RedisMirrorsLedger
<1> QED
  BY <1>1, <1>2, <1>3 DEF Init, ExactIInv

\* The three invariants together always hold.
LEMMA RedisInvariance == Spec => [](LedgerIInv /\ CountersIInv /\ ExactIInv)
<1>1. Init => LedgerIInv /\ CountersIInv /\ ExactIInv
  BY InitLedger, InitCounters, InitExact
<1>2. LedgerIInv /\ CountersIInv /\ ExactIInv /\ [Next]_vars
          => (LedgerIInv /\ CountersIInv /\ ExactIInv)'
  BY NextLedger, NextCounters, NextExact
<1> QED
  BY <1>1, <1>2, PTL DEF Spec

\* As long as no call fails, no entry expires and Redis keeps its data, the stock and user
\* counters differ from MySQL by exactly the reservations in flight: a refused transaction
\* is given back in full, and hydration while others already claim loses nothing.
THEOREM RedisMirrors == Spec => []RedisMirrorsLedger
<1>1. ExactIInv => RedisMirrorsLedger
  BY DEF ExactIInv
<1> QED
  BY <1>1, RedisInvariance, PTL

\* Under the same conditions a request whose user and key already had a claim when it
\* began is answered with that claim or told to try again, never refused, although the
\* campaign may have ended, been changed by an operator or sold out since.
THEOREM ReplaysStable == Spec => []ReplayIsStable
<1>1. ExactIInv => ReplayIsStable
  BY DEF ExactIInv, ReplayIsStable, Replays
<1> QED
  BY <1>1, RedisInvariance, PTL

-----------------------------------------------------------------------------
\* What admissions and refusals are worth.

Scarce == {"SOLD_OUT", "ALREADY_CLAIMED", "LIMIT_REACHED"}

\* An admission holds, and an undisturbed commit is never reported as failed.
PromiseIInv ==
    /\ AdmissionHolds
    /\ adjudicator /\ Undisturbed => lost = 0

\* For stock the script and the transaction refuse when none is left, for the limit when
\* the user's counter or the user's claims have reached it.
LEMMA RefusalMeans ==
    ASSUME TypeOK, NEW r \in Requests
    PROVE  /\ Decides(r, "SOLD_OUT") => rstatus # "NONE" /\ rstock = 0
           /\ \A d \in {"ALREADY_CLAIMED", "LIMIT_REACHED"} :
                 Decides(r, d) => rstatus # "NONE" /\ rcount[user[r]] >= Limit
           /\ Persists(r, "SOLD_OUT") => available = 0
           /\ \A v \in {"ALREADY_CLAIMED", "LIMIT_REACHED"} :
                 Persists(r, v) => Cardinality(L!ClaimsOf(user[r])) >= Limit
<1>1. rstock \in Nat /\ available \in Nat
  BY DEF TypeOK, DbType, RedisType
<1>2. Decides(r, "SOLD_OUT") => rstatus # "NONE" /\ rstock = 0
  BY <1>1 DEF Decides, Decision, LimitCode
<1>3. ASSUME NEW d \in {"ALREADY_CLAIMED", "LIMIT_REACHED"}, Decides(r, d)
      PROVE  rstatus # "NONE" /\ rcount[user[r]] >= Limit
  BY <1>3 DEF Decides, Decision
<1>4. Persists(r, "SOLD_OUT") => available = 0
  BY <1>1 DEF Persists, PersistVerdict, LimitCode
<1>5. ASSUME NEW v \in {"ALREADY_CLAIMED", "LIMIT_REACHED"}, Persists(r, v)
      PROVE  Cardinality(L!ClaimsOf(user[r])) >= Limit
  BY <1>5 DEF Persists, PersistVerdict
<1> QED
  BY <1>2, <1>3, <1>4, <1>5

\* A request about to roll back was so before, was refused by its transaction, or met an
\* error of MySQL.
LEMMA ToRollback ==
    ASSUME TypeOK, [Next]_vars, NEW r \in Requests, pc'[r] = "rollback"
    PROVE  \/ pc[r] = "rollback" /\ code'[r] = code[r]
           \/ PersistReject(r)
           \/ code'[r] = "DB_ERROR"
<1>0. pc \in [Requests -> Pcs] /\ code \in [Requests -> Codes]
  BY DEF TypeOK, RequestType
<1> USE <1>0 DEF Goto, Answer
<1>1. CASE UNCHANGED vars
  BY <1>1 DEF vars
<1>2. ASSUME NEW q \in Requests, Begin(q) PROVE pc[r] = "rollback" /\ code'[r] = code[r]
  BY <1>2 DEF Begin
<1>3. ASSUME NEW q \in Requests, DirectStep(q)
      PROVE  pc[r] = "rollback" /\ code'[r] = code[r]
  BY <1>3 DEF DirectStep, DirectCommit, DirectReplay, DirectReject, DirectError, DirectUnknown
<1>4. ASSUME NEW q \in Requests, RedisStep(q)
      PROVE  \/ pc[r] = "rollback" /\ code'[r] = code[r]
             \/ PersistReject(r)
             \/ code'[r] = "DB_ERROR"
  <2>1. CASE DecideMiss(q) \/ DecideReplay(q) \/ DecidePending(q) \/ DecideRefuse(q)
             \/ DecideAdmit(q) \/ DecideError(q) \/ DecideAdmitLost(q)
    BY <2>1 DEF DecideMiss, DecideReplay, DecidePending, DecideRefuse, DecideAdmit, DecideError,
       DecideAdmitLost
  <2>2. CASE LoadCampaign(q) \/ LoadError(q) \/ EnsureCampaign(q) \/ EnsureError(q)
             \/ WaitSuccess(q) \/ WaitGivesUp(q) \/ WaitError(q) \/ FetchClaim(q) \/ FetchError(q)
    BY <2>2 DEF LoadCampaign, LoadError, EnsureCampaign, EnsureError, WaitSuccess, WaitGivesUp,
       WaitError, FetchClaim, FetchError, NextAttempt
  <2>3. CASE PersistCommit(q) \/ PersistReplay(q) \/ PersistError(q) \/ PersistUnknown(q)
    BY <2>3 DEF PersistCommit, PersistReplay, PersistError, PersistUnknown
  <2>4. CASE PersistReject(q)
    <3>1. CASE q = r
      BY <2>4, <3>1
    <3>2. CASE q # r
      BY <2>4, <3>2 DEF PersistReject
    <3> QED
      BY <3>1, <3>2
  <2>5. CASE Rollback(q) \/ RollbackError(q) \/ Finalize(q) \/ FinalizeError(q)
    BY <2>5 DEF Rollback, RollbackError, Finalize, FinalizeError
  <2> QED
    BY <1>4, <2>1, <2>2, <2>3, <2>4, <2>5 DEF RedisStep
<1>5. CASE Environment
  BY <1>5 DEF Environment, Disconnect, Die, Expire, RedisFlush, SetStatus, Tick, reqVars
<1> QED
  BY <1>1, <1>2, <1>3, <1>4, <1>5 DEF Next

\* With Redis, a commit once reported as failed stays counted, as does a loss of data.
LEMMA AgreeingBefore ==
    ASSUME LedgerIInv, CountersIInv, [Next]_vars, Agreeing'
    PROVE  Agreeing
<1>1. TypeOK /\ Steady /\ Kinds
  BY NextSteady, NextKinds DEF LedgerIInv
<1>2. flushes \in Nat /\ lost \in Nat
  BY <1>1 DEF TypeOK, EnvType
<1>3. adjudicator /\ flushes = 0 /\ ~RedisFlush
  <2>1. adjudicator
    BY <1>1, Zenon DEF Agreeing, Steady
  <2>2. flushes' = 0
    BY Zenon DEF Agreeing
  <2> QED
    BY <1>1, <1>2, <2>1, <2>2 DEF Steady, RedisFlush
<1>4. \A r \in Requests : pc[r] # "direct"
  BY <1>3 DEF CountersIInv
<1>5. lost' = lost \/ lost' = lost + 1
  BY <1>1, <1>3, <1>4 DEF Kinds, Quiet, Admission, Purchase, Hydration, Return, Rewrite, Unsold
<1> QED
  BY <1>2, <1>3, <1>5 DEF Agreeing

\* While Redis and MySQL agree, a transaction that finds no stock, or the limit reached,
\* belongs to no reservation: stock and limit cover the reservation it would use.
LEMMA RejectIsNotScarcity ==
    ASSUME LedgerIInv, CountersIInv, EntriesIInv, Agreeing, NEW r \in Requests,
           NEW v \in Scarce, Persists(r, v)
    PROVE  FALSE
<1>1. TypeOK /\ pc[r] = "persist"
  BY DEF LedgerIInv, Persists
<1>2. r \in Reserving /\ r \in HeldBy(user[r])
  BY <1>1 DEF Reserving, HeldBy
<1>3. rstatus # "NONE"
  BY <1>2 DEF CountersIInv, Fresh, Agreeing
<1>4. Covered /\ CoveredFor(user[r])
  <2>1. user[r] \in Users
    BY <1>1 DEF TypeOK, RequestType
  <2> QED
    BY <1>3, <2>1 DEF CountersIInv, RedisNeverOveradmits, Agreeing, Covered, CoveredFor, HeldBy
<1>5. /\ rstock \in Nat /\ available \in Nat /\ lost = 0
      /\ rcount[user[r]] \in Nat /\ rcount[user[r]] <= Limit /\ Limit \in Nat
  BY <1>1, LimitType
     DEF TypeOK, RedisType, DbType, RequestType, EntriesIInv, EntriesAreCounted, Agreeing
<1>6. Cardinality(Reserving) \in Nat /\ Cardinality(Reserving) # 0
  BY <1>2, FS_CardinalityType, FS_EmptySet DEF CountersIInv
<1>7. Cardinality(HeldBy(user[r])) \in Nat /\ Cardinality(HeldBy(user[r])) # 0
  <2>1. IsFiniteSet(HeldBy(user[r]))
    BY FS_Subset DEF HeldBy, CountersIInv
  <2> QED
    BY <1>2, <2>1, FS_CardinalityType, FS_EmptySet
<1>8. Cardinality(L!ClaimsOf(user[r])) \in Nat
  BY FS_Subset, FS_CardinalityType DEF LedgerIInv, L!ClaimsOf
<1>9. CASE v = "SOLD_OUT"
  <2>1. available = 0
    BY <1>1, <1>9, RefusalMeans
  <2> QED
    BY <1>4, <1>5, <1>6, <2>1 DEF Covered
<1>10. CASE v \in {"ALREADY_CLAIMED", "LIMIT_REACHED"}
  <2>1. Cardinality(L!ClaimsOf(user[r])) >= Limit
    BY <1>1, <1>10, RefusalMeans
  <2> QED
    BY <1>4, <1>5, <1>7, <1>8, <2>1 DEF CoveredFor
<1> QED
  BY <1>9, <1>10 DEF Scarce

\* Every step keeps the promise.
LEMMA NextPromise ==
    ASSUME LedgerIInv, CountersIInv, EntriesIInv, ExactIInv, PromiseIInv, [Next]_vars
    PROVE  PromiseIInv'
<1>0. TypeOK
  BY DEF LedgerIInv
<1>1. AdmissionHolds'
  <2> SUFFICES ASSUME Agreeing', NEW r \in Requests, pc'[r] = "rollback"
               PROVE  code'[r] \notin Scarce
    BY DEF AdmissionHolds, Scarce
  <2>1. Agreeing
    BY AgreeingBefore
  <2>2. CASE pc[r] = "rollback" /\ code'[r] = code[r]
    BY <2>1, <2>2 DEF PromiseIInv, AdmissionHolds, Scarce
  <2>3. CASE PersistReject(r)
    <3>1. PICK v : Persists(r, v) /\ code' = [code EXCEPT ![r] = v]
      BY <2>3 DEF PersistReject
    <3>2. code'[r] = v
      BY <1>0, <3>1 DEF TypeOK, RequestType
    <3> QED
      BY <2>1, <3>1, <3>2, RejectIsNotScarcity
  <2>4. CASE code'[r] = "DB_ERROR"
    BY <2>4 DEF Scarce
  <2> QED
    BY <1>0, <2>2, <2>3, <2>4, ToRollback
<1>2. ASSUME adjudicator', Undisturbed' PROVE lost' = 0
  <2>1. Undisturbed /\ adjudicator
    BY <1>0, <1>2, UndisturbedBefore, NextSteady DEF Steady
  <2>2. Still \/ \E r \in Requests : CalmStep(r)
    BY <1>0, <1>2, <2>1, CalmSteps DEF ExactIInv, CountersIInv
  <2>3. lost' = lost
    BY <2>2 DEF Still, CalmStep, Begin, DecideMiss, DecideReplay, DecidePending, DecideRefuse,
       DecideAdmit, LoadCampaign, EnsureCampaign, WaitSuccess, WaitGivesUp, FetchClaim,
       PersistCommit, PersistReplay, PersistReject, Rollback, Finalize
  <2> QED
    BY <2>1, <2>3 DEF PromiseIInv
<1> QED
  BY <1>1, <1>2 DEF PromiseIInv

\* All of it together, always.
LEMMA PromiseInvariance ==
    Spec => [](LedgerIInv /\ CountersIInv /\ EntriesIInv /\ ExactIInv /\ PromiseIInv)
<1>1. Init => EntriesIInv /\ PromiseIInv
  <2>1. Init => PromiseIInv
    BY DEF Init, PromiseIInv, AdmissionHolds
  <2> QED
    BY <2>1, InitEntries
<1>2. TypeOK /\ EntriesIInv /\ [Next]_vars => EntriesIInv'
  BY NextEntries
<1>3. LedgerIInv /\ CountersIInv /\ EntriesIInv /\ ExactIInv /\ PromiseIInv /\ [Next]_vars
          => PromiseIInv'
  BY NextPromise
<1> QED
  BY <1>1, <1>2, <1>3, TypeCorrect, RedisInvariance, PTL DEF Spec

\* With Redis, MySQL never refuses for stock or limit a request that Redis has admitted,
\* whatever has crashed, expired or been resent, unless Redis lost its data or a commit
\* was reported as failed: the counters leave room for every reservation in flight.
THEOREM AdmissionsHold == Spec => []AdmissionHolds
<1>1. PromiseIInv => AdmissionHolds
  BY DEF PromiseIInv
<1> QED
  BY <1>1, PromiseInvariance, PTL

\* An undisturbed request that is answered for scarcity was refused by the script: what
\* its transaction refuses is never that.
LEMMA ScarceByScript ==
    ASSUME TypeOK, PromiseIInv, adjudicator, Undisturbed, NEW r \in Requests, NEW q \in Requests,
           CalmStep(q), pc[r] # "done", pc'[r] = "done", code'[r] \in Scarce
    PROVE  Decides(r, code'[r])
<1>0. pc \in [Requests -> Pcs] /\ code \in [Requests -> Codes]
  BY DEF TypeOK, RequestType
<1> USE <1>0 DEF Goto, Answer, Scarce
<1>1. CASE DecideRefuse(q)
  BY <1>1 DEF DecideRefuse
<1>2. CASE Rollback(q)
  <2>1. q = r /\ pc[r] = "rollback" /\ code'[r] = code[r]
    BY <1>2 DEF Rollback
  <2> QED
    BY <2>1 DEF PromiseIInv, AdmissionHolds, Agreeing, Undisturbed
<1>3. ~(Begin(q) \/ DecideMiss(q) \/ DecideReplay(q) \/ DecidePending(q) \/ DecideAdmit(q))
  BY DEF Begin, DecideMiss, DecideReplay, DecidePending, DecideAdmit
<1>4. ~(LoadCampaign(q) \/ EnsureCampaign(q) \/ WaitSuccess(q) \/ WaitGivesUp(q) \/ FetchClaim(q))
  BY DEF LoadCampaign, EnsureCampaign, WaitSuccess, WaitGivesUp, FetchClaim, NextAttempt
<1>5. ~(PersistCommit(q) \/ PersistReplay(q) \/ PersistReject(q) \/ Finalize(q))
  BY DEF PersistCommit, PersistReplay, PersistReject, Finalize
<1> QED
  BY <1>1, <1>2, <1>3, <1>4, <1>5 DEF CalmStep

\* As long as nothing fails, Redis turns nobody away without cause: SOLD_OUT means that
\* every unit is sold or reserved, and a refusal for the limit that the user's claims
\* and reservations have reached it.
THEOREM RefusalsHaveCause == Spec => RefusedForCause
<1>1. ASSUME LedgerIInv, CountersIInv, EntriesIInv, ExactIInv, PromiseIInv, [Next]_vars,
             NEW r \in Requests
      PROVE  RefusesForCause(r)
  <2> SUFFICES ASSUME Undisturbed', adjudicator, pc[r] # "done", pc'[r] = "done",
                      code'[r] \in Scarce
               PROVE  /\ code'[r] = "SOLD_OUT" => available = Cardinality(Reserving)
                      /\ code'[r] \in {"ALREADY_CLAIMED", "LIMIT_REACHED"} =>
                            Limit = Cardinality(L!ClaimsOf(user[r])) + Cardinality(HeldBy(user[r]))
    BY DEF RefusesForCause, Scarce, HeldBy
  <2>1. TypeOK /\ Undisturbed
    BY <1>1, UndisturbedBefore DEF LedgerIInv
  <2>2. Still \/ \E q \in Requests : CalmStep(q)
    BY <1>1, <2>1, CalmSteps DEF ExactIInv, CountersIInv
  <2>3. ~Still
    BY DEF Still
  <2>4. Decides(r, code'[r])
    BY <1>1, <2>1, <2>2, <2>3, ScarceByScript
  <2>5. user[r] \in Users /\ rcount[user[r]] \in Nat /\ available \in Nat /\ Limit \in Nat
    BY <2>1, LimitType DEF TypeOK, RequestType, RedisType, DbType
  <2>6. CASE code'[r] = "SOLD_OUT"
    <3>1. rstatus # "NONE" /\ rstock = 0
      BY <2>1, <2>4, <2>6, RefusalMeans
    <3>2. Cardinality(Reserving) \in Nat
      BY <1>1, FS_CardinalityType DEF CountersIInv
    <3>3. rstock + Cardinality(Reserving) = available
      BY <1>1, <2>1, <3>1 DEF ExactIInv, RedisMirrorsLedger
    <3> QED
      BY <2>6, <3>1, <3>2, <3>3
  <2>7. CASE code'[r] \in {"ALREADY_CLAIMED", "LIMIT_REACHED"}
    <3>1. rstatus # "NONE" /\ rcount[user[r]] >= Limit
      BY <2>1, <2>4, <2>7, RefusalMeans
    <3>2. rcount[user[r]] <= Limit
      BY <1>1, <2>5 DEF EntriesIInv, EntriesAreCounted
    <3>3. rcount[user[r]] = Cardinality(L!ClaimsOf(user[r])) + Cardinality(HeldBy(user[r]))
      BY <1>1, <2>1, <2>5, <3>1 DEF ExactIInv, RedisMirrorsLedger, HeldBy
    <3> QED
      BY <2>5, <2>7, <3>1, <3>2, <3>3
  <2> QED
    BY <2>6, <2>7 DEF Scarce
<1>2. LedgerIInv /\ CountersIInv /\ EntriesIInv /\ ExactIInv /\ PromiseIInv /\ [Next]_vars
          => [\A r \in Requests : RefusesForCause(r)]_vars
  BY <1>1
<1> QED
  BY <1>2, PromiseInvariance, PTL DEF Spec, RefusedForCause
=============================================================================
