---------------------------- MODULE CouponLedger ----------------------------
(***************************************************************************)
(* What the claim path of the Quan service promises about one campaign,    *)
(* whatever happens in Redis, in the HTTP handlers or between instances.   *)
(* The whole state is what MySQL holds: the campaign's available_stock,    *)
(* the rows of coupon_claims and the claims for which an async task and    *)
(* its outbox event were written.  The only thing that ever happens to it  *)
(* is that one claim is committed, all of its rows at once.                *)
(***************************************************************************)
EXTENDS Integers, FiniteSets

CONSTANTS
    Users,       \* users of the campaign
    Keys,        \* idempotency keys
    ClaimIds,    \* values of coupon_claims.claim_id
    TotalStock,  \* coupon_campaigns.total_stock
    Limit        \* per-user limit, already normalised

VARIABLES
    available,   \* coupon_campaigns.available_stock
    claims,      \* rows of coupon_claims
    notices      \* claim ids that have a task row and an outbox row

vars == <<available, claims, notices>>

Claim == [id : ClaimIds, user : Users, key : Keys]

ClaimsOf(u) == {c \in claims : c.user = u}

Ids == {c.id : c \in claims}

Init ==
    /\ available = TotalStock
    /\ claims = {}
    /\ notices = {}

\* One committed claim transaction.
Commit(c, u, k) ==
    /\ c \notin Ids
    /\ \A x \in claims : ~(x.user = u /\ x.key = k)
    /\ Cardinality(ClaimsOf(u)) < Limit
    /\ available > 0
    /\ available' = available - 1
    /\ claims' = claims \union {[id |-> c, user |-> u, key |-> k]}
    /\ notices' = notices \union {c}

Next == \E c \in ClaimIds, u \in Users, k \in Keys : Commit(c, u, k)

Spec == Init /\ [][Next]_vars

-----------------------------------------------------------------------------
\* Type of the ledger.
TypeOK ==
    /\ available \in Nat
    /\ claims \subseteq Claim
    /\ notices \subseteq ClaimIds

\* Every unit of stock is either on the shelf or in exactly one claim: the
\* claim transactions neither oversell nor lose stock.
NoOversell ==
    /\ IsFiniteSet(claims)
    /\ available >= 0
    /\ available + Cardinality(claims) = TotalStock

\* No user ever holds more claims than the campaign's per-user limit.
WithinLimit == \A u \in Users : Cardinality(ClaimsOf(u)) <= Limit

\* One claim per user and idempotency key, one row per claim id.
OneClaimPerKey ==
    \A x, y \in claims :
        (x.id = y.id \/ (x.user = y.user /\ x.key = y.key)) => x = y

\* A claim and its notification task exist together or not at all.
EveryClaimNotified == notices = Ids

Inv == TypeOK /\ NoOversell /\ WithinLimit /\ OneClaimPerKey /\ EveryClaimNotified
=============================================================================
