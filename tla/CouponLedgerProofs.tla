------------------------- MODULE CouponLedgerProofs -------------------------
(***************************************************************************)
(* The ledger invariant holds for any number of users, keys and claims and *)
(* for every stock and limit.                                              *)
(***************************************************************************)
EXTENDS CouponLedger, FiniteSetTheorems, TLAPS

\* The empty ledger of a fresh campaign satisfies the invariant.
LEMMA InitInv ==
    ASSUME TotalStock \in Nat, Limit \in Nat, Init
    PROVE  Inv
<1> USE DEF Init
<1>1. TypeOK
  BY DEF TypeOK
<1>2. NoOversell
  BY FS_EmptySet DEF NoOversell
<1>3. WithinLimit
  <2>1. \A u \in Users : ClaimsOf(u) = {}
    BY DEF ClaimsOf
  <2> QED
    BY <2>1, FS_EmptySet DEF WithinLimit
<1>4. OneClaimPerKey /\ EveryClaimNotified
  BY DEF OneClaimPerKey, EveryClaimNotified, Ids
<1> QED
  BY <1>1, <1>2, <1>3, <1>4 DEF Inv

\* A committed claim keeps every part of the invariant: the row inserted by the
\* transaction is new, so exactly one unit leaves the shelf and one user's count
\* goes up by one.
LEMMA CommitInv ==
    ASSUME TotalStock \in Nat, Limit \in Nat, Inv,
           NEW c \in ClaimIds, NEW u \in Users, NEW k \in Keys, Commit(c, u, k)
    PROVE  Inv'
<1> DEFINE row == [id |-> c, user |-> u, key |-> k]
<1>1. /\ claims' = claims \union {row}
      /\ row \notin claims
      /\ row \in Claim
      /\ row.id = c /\ row.user = u /\ row.key = k
  BY DEF Commit, Claim, Ids
<1>2. TypeOK'
  BY <1>1 DEF Inv, TypeOK, Commit
<1>3. NoOversell'
  <2>1. IsFiniteSet(claims) /\ Cardinality(claims) \in Nat
    BY FS_CardinalityType DEF Inv, NoOversell
  <2>2. IsFiniteSet(claims') /\ Cardinality(claims') = Cardinality(claims) + 1
    BY <1>1, <2>1, FS_AddElement
  <2> QED
    BY <2>1, <2>2 DEF Inv, NoOversell, TypeOK, Commit
<1>4. WithinLimit'
  <2> SUFFICES ASSUME NEW v \in Users
               PROVE  Cardinality(ClaimsOf(v)') <= Limit
    BY DEF WithinLimit
  <2>1. IsFiniteSet(ClaimsOf(v)) /\ Cardinality(ClaimsOf(v)) \in Nat
    BY FS_Subset, FS_CardinalityType DEF Inv, NoOversell, ClaimsOf
  <2>2. CASE v = u
    <3>1. ClaimsOf(v)' = ClaimsOf(v) \union {row} /\ row \notin ClaimsOf(v)
      BY <1>1, <2>2 DEF ClaimsOf
    <3>2. Cardinality(ClaimsOf(v)') = Cardinality(ClaimsOf(v)) + 1
      BY <2>1, <3>1, FS_AddElement
    <3> QED
      BY <2>1, <2>2, <3>2 DEF Commit
  <2>3. CASE v # u
    <3>1. ClaimsOf(v)' = ClaimsOf(v)
      BY <1>1, <2>3 DEF ClaimsOf
    <3> QED
      BY <3>1 DEF Inv, WithinLimit
  <2> QED
    BY <2>2, <2>3
<1>5. OneClaimPerKey'
  BY <1>1 DEF Inv, OneClaimPerKey, Commit, Ids
<1>6. EveryClaimNotified'
  BY <1>1 DEF Inv, EveryClaimNotified, Commit, Ids
<1> QED
  BY <1>2, <1>3, <1>4, <1>5, <1>6 DEF Inv

\* Every behaviour of the ledger conserves stock, respects the per-user limit and
\* keeps one notified claim per user and key.
THEOREM LedgerInvariant ==
    ASSUME TotalStock \in Nat, Limit \in Nat
    PROVE  Spec => []Inv
<1>1. Init => Inv
  BY InitInv
<1>2. Inv /\ [Next]_vars => Inv'
  <2> SUFFICES ASSUME Inv, [Next]_vars PROVE Inv'
    OBVIOUS
  <2>1. CASE Next
    BY <2>1, CommitInv DEF Next
  <2>2. CASE UNCHANGED vars
    BY <2>2 DEF vars, Inv, TypeOK, NoOversell, WithinLimit, OneClaimPerKey,
                EveryClaimNotified, ClaimsOf, Ids
  <2> QED
    BY <2>1, <2>2
<1> QED
  BY <1>1, <1>2, PTL DEF Spec
=============================================================================
