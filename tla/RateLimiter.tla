---------------------------- MODULE RateLimiter ----------------------------
(***************************************************************************)
(* ratelimiter.Limiter: a token bucket under a mutex, so a call of Allow   *)
(* is one step.  The clock counts in ticks of 1/Unit second and tokens are *)
(* counted in units of 1/Unit token; elapsed seconds times the rate are    *)
(* then elapsed ticks times the rate.  Rounding of float64 is left out.    *)
(***************************************************************************)
EXTENDS Integers

CONSTANTS
    Rate, Burst,  \* as configured: tokens per second, size of the bucket
    Unit,         \* resolution of time and tokens
    MaxTime       \* bound on the clock

ASSUME RateAssumption ==
    /\ Rate \in Int /\ Burst \in Int
    /\ Unit \in Nat \ {0}
    /\ MaxTime \in Nat

VARIABLES
    now,      \* the clock
    tokens, last,
    granted,  \* history: calls that were allowed
    before    \* history: granted when the clock reached a tick

rateVars == <<now, tokens, last, granted, before>>

\* New's defaults.
rate == IF Rate <= 0 THEN 1 ELSE Rate
burst == Unit * (IF Burst <= 0 THEN 1 ELSE Burst)

RateInit ==
    /\ now = 0 /\ last = 0
    /\ tokens = burst
    /\ granted = 0
    /\ before = [s \in 0 .. MaxTime |-> 0]

\* Mutants of Refill: the bucket is not capped; a part of the time is lost.
RefillUncapped == tokens + (now - last) * rate
RefillSlow == LET t == tokens + ((now - last) * rate) \div 2
              IN IF t > burst THEN burst ELSE t

\* What Allow finds in the bucket.
Refill ==
    LET t == tokens + (now - last) * rate
    IN IF t > burst THEN burst ELSE t

\* Allow returns true, or false.
Allow ==
    /\ Refill >= Unit
    /\ tokens' = Refill - Unit
    /\ last' = now
    /\ granted' = granted + 1
    /\ UNCHANGED <<now, before>>

Refuse ==
    /\ Refill < Unit
    /\ tokens' = Refill
    /\ last' = now
    /\ UNCHANGED <<now, granted, before>>

ClockTick ==
    /\ now < MaxTime
    /\ now' = now + 1
    /\ before' = [before EXCEPT ![now + 1] = granted]
    /\ UNCHANGED <<tokens, last, granted>>

RateNext == Allow \/ Refuse \/ ClockTick

RateSpec == RateInit /\ [][RateNext]_rateVars

-----------------------------------------------------------------------------
\* Types of the limiter; the bucket is never overdrawn and never too full.
RateTypeOK ==
    /\ now \in 0 .. MaxTime /\ last \in 0 .. now
    /\ tokens \in 0 .. burst
    /\ granted \in Nat
    /\ before \in [0 .. MaxTime -> Nat]

\* Calls allowed since the clock reached tick s.
Since(s) == granted - before[s]

\* In no interval of time, wherever it begins, are more calls allowed than a full
\* bucket and the rate allow for.
RateBound == \A s \in 0 .. now : Unit * Since(s) <= burst + rate * (now - s)

\* The limiter is no stricter than that: it refuses a call only if allowing it
\* would break RateBound.
RateExact ==
    Refill < Unit =>
        \E s \in 0 .. now : Unit * (Since(s) + 1) > burst + rate * (now - s)
=============================================================================
