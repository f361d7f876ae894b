-------------------------- MODULE HttpServerProofs --------------------------
(***************************************************************************)
(* Safety of the route limiter, the token bucket and the worker pool, each *)
(* as a component of its own; then the demo server is shown to be a        *)
(* composition of them, so that it inherits what they guarantee.           *)
(***************************************************************************)
EXTENDS HttpServer, FiniteSetTheorems, SequenceTheorems, TLAPS

(***************************************************************************)
(* The route limiter, for any number of requests, slots and places:        *)
(* TypeOK, Bounded and NothingLeaks are inductive together.                *)
(***************************************************************************)

\* How many requests hold a slot, have a place in the queue, are counted.
Running(f) == Cardinality(At(f, Inside))
Waiting(f) == Cardinality(At(f, Admitted))
Queued(f) == Cardinality(At(f, Counted))

\* The inductive invariant: the three properties need each other and nothing else.
Inv == TypeOK /\ Bounded /\ NothingLeaks

\* The configured sizes are usable after NewLimiter's defaults.
LEMMA Sizes == Slots \in Nat /\ Slots > 0 /\ Places \in Nat
  BY LimiterAssumption DEF Slots, Places

\* Any set of requests picked by label can be counted.
LEMMA Countable ==
  ASSUME NEW f, NEW ls
  PROVE  IsFiniteSet(At(f, ls)) /\ Cardinality(At(f, ls)) \in Nat
<1>1. At(f, ls) \in SUBSET Requests
  BY DEF At
<1>2. IsFiniteSet(At(f, ls))
  BY <1>1, LimiterAssumption, FS_Subset
<1> QED
  BY <1>2, FS_CardinalityType

\* Only r has another label in g than in f.
OnlyMoves(f, g, r) == \A x \in Requests \ {r} : f[x] = g[x]

\* How a count changes when one request goes from one label to another: it enters
\* the labels counted, leaves them, or does neither.  Here it enters them.
LEMMA Enters ==
  ASSUME NEW f, NEW g, NEW r \in Requests, NEW ls,
         OnlyMoves(f, g, r), f[r] \notin ls, g[r] \in ls
  PROVE  Cardinality(At(g, ls)) = Cardinality(At(f, ls)) + 1
<1>1. At(g, ls) = At(f, ls) \union {r} /\ r \notin At(f, ls)
  BY DEF At, OnlyMoves
<1> QED
  BY <1>1, Countable, FS_AddElement

\* It leaves them.
LEMMA Exits ==
  ASSUME NEW f, NEW g, NEW r \in Requests, NEW ls,
         OnlyMoves(f, g, r), f[r] \in ls, g[r] \notin ls
  PROVE  Cardinality(At(g, ls)) = Cardinality(At(f, ls)) - 1
<1>1. At(g, ls) = At(f, ls) \ {r} /\ r \in At(f, ls)
  BY DEF At, OnlyMoves
<1> QED
  BY <1>1, Countable, FS_RemoveElement

\* It does neither.
LEMMA Stays ==
  ASSUME NEW f, NEW g, NEW r \in Requests, NEW ls,
         OnlyMoves(f, g, r), f[r] \in ls <=> g[r] \in ls
  PROVE  Cardinality(At(g, ls)) = Cardinality(At(f, ls))
<1>1. At(g, ls) = At(f, ls)
  BY DEF At, OnlyMoves
<1> QED
  BY <1>1

\* Whoever passed the check of the queue is also counted.
LEMMA AdmittedAreCounted ==
  ASSUME NEW f
  PROVE  Cardinality(At(f, Admitted)) <= Cardinality(At(f, Counted))
<1>1. At(f, Admitted) \in SUBSET At(f, Counted)
  BY DEF At, Counted
<1>2. IsFiniteSet(At(f, Counted))
  BY Countable
<1> QED
  BY <1>1, <1>2, FS_Subset

\* The three counts after a request has moved, from the two labels.
LEMMA Counts ==
  ASSUME NEW f, NEW g, NEW r \in Requests, OnlyMoves(f, g, r)
  PROVE  /\ (f[r] \in Inside <=> g[r] \in Inside) => Running(g) = Running(f)
         /\ f[r] \notin Inside /\ g[r] \in Inside => Running(g) = Running(f) + 1
         /\ f[r] \in Inside /\ g[r] \notin Inside => Running(g) = Running(f) - 1
         /\ (f[r] \in Admitted <=> g[r] \in Admitted) => Waiting(g) = Waiting(f)
         /\ f[r] \in Admitted /\ g[r] \notin Admitted => Waiting(g) = Waiting(f) - 1
         /\ (f[r] \in Counted <=> g[r] \in Counted) => Queued(g) = Queued(f)
         /\ f[r] \notin Counted /\ g[r] \in Counted => Queued(g) = Queued(f) + 1
         /\ f[r] \in Counted /\ g[r] \notin Counted => Queued(g) = Queued(f) - 1
  BY Enters, Exits, Stays DEF Running, Waiting, Queued

\* A request's move to label l, as far as the proof needs it.
LEMMA Moves ==
  ASSUME TypeOK, NEW r \in Requests, NEW l \in Labels, Goto(r, l)
  PROVE  pc' \in [Requests -> Labels] /\ pc'[r] = l /\ OnlyMoves(pc, pc', r)
  BY DEF TypeOK, Goto, OnlyMoves

\* Every step of a request keeps the limiter's invariant.
LEMMA Step == Inv /\ [Next]_vars => Inv'
<1> SUFFICES ASSUME Inv, [Next]_vars PROVE Inv'
  OBVIOUS
<1>t. /\ TypeOK /\ sem \in 0 .. Slots /\ queued \in Nat /\ pc \in [Requests -> Labels]
      /\ Running(pc) <= Slots /\ Waiting(pc) <= Places
      /\ sem = Running(pc) /\ queued = Queued(pc)
  BY DEF Inv, TypeOK, Bounded, NothingLeaks, Running, Waiting, Queued
<1>n. /\ Running(pc) \in Nat /\ Waiting(pc) \in Nat /\ Queued(pc) \in Nat
      /\ Running(pc') \in Nat /\ Waiting(pc') \in Nat /\ Queued(pc') \in Nat
  BY Countable DEF Running, Waiting, Queued
<1>p. Waiting(pc') <= Queued(pc')
  BY AdmittedAreCounted DEF Waiting, Queued
<1>g. ASSUME pc' \in [Requests -> Labels], Running(pc') <= Slots, Waiting(pc') <= Places,
             sem' = Running(pc'), queued' = Queued(pc')
      PROVE  Inv'
  BY <1>g, <1>n, Sizes DEF Inv, TypeOK, Bounded, NothingLeaks, Running, Waiting, Queued
<1>1. CASE UNCHANGED vars
  BY <1>1, <1>t, <1>g DEF vars
<1>2. ASSUME NEW r \in Requests, Arrive(r) PROVE Inv'
  <2>1. pc[r] = "idle" /\ sem' = sem /\ queued' = queued /\ Goto(r, "try")
    BY <1>2 DEF Arrive
  <2>2. pc' \in [Requests -> Labels] /\ pc'[r] = "try" /\ OnlyMoves(pc, pc', r)
    BY <2>1, <1>t, Moves DEF Labels, Counted, Admitted
  <2>3. Running(pc') = Running(pc) /\ Waiting(pc') = Waiting(pc) /\ Queued(pc') = Queued(pc)
    BY <2>1, <2>2, Counts DEF Inside, Admitted, Counted
  <2> QED
    BY <2>1, <2>2, <2>3, <1>t, <1>n, <1>g, Sizes
<1>3. ASSUME NEW r \in Requests, Try(r) PROVE Inv'
  <2>1. CASE sem < Slots
    <3>1. pc[r] = "try" /\ sem' = sem + 1 /\ queued' = queued /\ Goto(r, "run")
      BY <1>3, <2>1 DEF Try
    <3>2. pc' \in [Requests -> Labels] /\ pc'[r] = "run" /\ OnlyMoves(pc, pc', r)
      BY <3>1, <1>t, Moves DEF Labels, Counted, Admitted
    <3>3. Running(pc') = Running(pc) + 1 /\ Waiting(pc') = Waiting(pc) /\ Queued(pc') = Queued(pc)
      BY <3>1, <3>2, Counts DEF Inside, Admitted, Counted
    <3> QED
      BY <2>1, <3>1, <3>2, <3>3, <1>t, <1>n, <1>g, Sizes
  <2>2. CASE ~(sem < Slots) /\ Places = 0
    <3>1. pc[r] = "try" /\ sem' = sem /\ queued' = queued /\ Goto(r, "rejected")
      BY <1>3, <2>2 DEF Try
    <3>2. pc' \in [Requests -> Labels] /\ pc'[r] = "rejected" /\ OnlyMoves(pc, pc', r)
      BY <3>1, <1>t, Moves DEF Labels, Counted, Admitted
    <3>3. Running(pc') = Running(pc) /\ Waiting(pc') = Waiting(pc) /\ Queued(pc') = Queued(pc)
      BY <3>1, <3>2, Counts DEF Inside, Admitted, Counted
    <3> QED
      BY <3>1, <3>2, <3>3, <1>t, <1>n, <1>g, Sizes
  <2>3. CASE ~(sem < Slots) /\ Places # 0
    <3>1. pc[r] = "try" /\ sem' = sem /\ queued' = queued /\ Goto(r, "join")
      BY <1>3, <2>3 DEF Try
    <3>2. pc' \in [Requests -> Labels] /\ pc'[r] = "join" /\ OnlyMoves(pc, pc', r)
      BY <3>1, <1>t, Moves DEF Labels, Counted, Admitted
    <3>3. Running(pc') = Running(pc) /\ Waiting(pc') = Waiting(pc) /\ Queued(pc') = Queued(pc)
      BY <3>1, <3>2, Counts DEF Inside, Admitted, Counted
    <3> QED
      BY <3>1, <3>2, <3>3, <1>t, <1>n, <1>g, Sizes
  <2> QED
    BY <2>1, <2>2, <2>3
<1>4. ASSUME NEW r \in Requests, Join(r) PROVE Inv'
  <2>1. CASE queued + 1 > Places
    <3>1. pc[r] = "join" /\ sem' = sem /\ queued' = queued + 1 /\ Goto(r, "undo")
      BY <1>4, <2>1 DEF Join
    <3>2. pc' \in [Requests -> Labels] /\ pc'[r] = "undo" /\ OnlyMoves(pc, pc', r)
      BY <3>1, <1>t, Moves DEF Labels, Counted, Admitted
    <3>3. Running(pc') = Running(pc) /\ Waiting(pc') = Waiting(pc) /\ Queued(pc') = Queued(pc) + 1
      BY <3>1, <3>2, Counts DEF Inside, Admitted, Counted
    <3> QED
      BY <3>1, <3>2, <3>3, <1>t, <1>n, <1>g, Sizes
  <2>2. CASE ~(queued + 1 > Places)
    <3>1. pc[r] = "join" /\ sem' = sem /\ queued' = queued + 1 /\ Goto(r, "select")
      BY <1>4, <2>2 DEF Join
    <3>2. pc' \in [Requests -> Labels] /\ pc'[r] = "select" /\ OnlyMoves(pc, pc', r)
      BY <3>1, <1>t, Moves DEF Labels, Counted, Admitted
    <3>3. Running(pc') = Running(pc) /\ Queued(pc') = Queued(pc) + 1
      BY <3>1, <3>2, Counts DEF Inside, Admitted, Counted
    <3>4. Waiting(pc') <= Places
      BY <2>2, <3>3, <1>p, <1>t, <1>n, Sizes
    <3> QED
      BY <3>1, <3>2, <3>3, <3>4, <1>t, <1>n, <1>g, Sizes
  <2> QED
    BY <2>1, <2>2
<1>5. ASSUME NEW r \in Requests, Undo(r) PROVE Inv'
  <2>1. pc[r] = "undo" /\ sem' = sem /\ queued' = queued - 1 /\ Goto(r, "rejected")
    BY <1>5 DEF Undo
  <2>2. pc' \in [Requests -> Labels] /\ pc'[r] = "rejected" /\ OnlyMoves(pc, pc', r)
    BY <2>1, <1>t, Moves DEF Labels, Counted, Admitted
  <2>3. Running(pc') = Running(pc) /\ Waiting(pc') = Waiting(pc) /\ Queued(pc') = Queued(pc) - 1
    BY <2>1, <2>2, Counts DEF Inside, Admitted, Counted
  <2> QED
    BY <2>1, <2>2, <2>3, <1>t, <1>n, <1>g, Sizes
<1>6. ASSUME NEW r \in Requests, Select(r) PROVE Inv'
  <2>1. CASE sem < Slots
    <3>1. pc[r] = "select" /\ sem' = sem + 1 /\ queued' = queued /\ Goto(r, "leaveHeld")
      BY <1>6, <2>1 DEF Select
    <3>2. pc' \in [Requests -> Labels] /\ pc'[r] = "leaveHeld" /\ OnlyMoves(pc, pc', r)
      BY <3>1, <1>t, Moves DEF Labels, Counted, Admitted
    <3>3. Running(pc') = Running(pc) + 1 /\ Waiting(pc') = Waiting(pc) /\ Queued(pc') = Queued(pc)
      BY <3>1, <3>2, Counts DEF Inside, Admitted, Counted
    <3> QED
      BY <2>1, <3>1, <3>2, <3>3, <1>t, <1>n, <1>g, Sizes
  <2>2. CASE ~(sem < Slots)
    <3>1. pc[r] = "select" /\ sem' = sem /\ queued' = queued /\ Goto(r, "wait")
      BY <1>6, <2>2 DEF Select
    <3>2. pc' \in [Requests -> Labels] /\ pc'[r] = "wait" /\ OnlyMoves(pc, pc', r)
      BY <3>1, <1>t, Moves DEF Labels, Counted, Admitted
    <3>3. Running(pc') = Running(pc) /\ Waiting(pc') = Waiting(pc) /\ Queued(pc') = Queued(pc)
      BY <3>1, <3>2, Counts DEF Inside, Admitted, Counted
    <3> QED
      BY <3>1, <3>2, <3>3, <1>t, <1>n, <1>g, Sizes
  <2> QED
    BY <2>1, <2>2
<1>7. ASSUME NEW r \in Requests, GiveUp(r) PROVE Inv'
  <2>1. pc[r] \in {"select", "wait"} /\ sem' = sem /\ queued' = queued /\ Goto(r, "leaveEmpty")
    BY <1>7 DEF GiveUp
  <2>2. pc' \in [Requests -> Labels] /\ pc'[r] = "leaveEmpty" /\ OnlyMoves(pc, pc', r)
    BY <2>1, <1>t, Moves DEF Labels, Counted, Admitted
  <2>3. Running(pc') = Running(pc) /\ Waiting(pc') = Waiting(pc) /\ Queued(pc') = Queued(pc)
    BY <2>1, <2>2, Counts DEF Inside, Admitted, Counted
  <2> QED
    BY <2>1, <2>2, <2>3, <1>t, <1>n, <1>g, Sizes
<1>8. ASSUME NEW r \in Requests, Leave(r) PROVE Inv'
  <2>1. CASE pc[r] = "leaveHeld"
    <3>1. pc[r] = "leaveHeld" /\ sem' = sem /\ queued' = queued - 1 /\ Goto(r, "run")
      BY <1>8, <2>1 DEF Leave
    <3>2. pc' \in [Requests -> Labels] /\ pc'[r] = "run" /\ OnlyMoves(pc, pc', r)
      BY <3>1, <1>t, Moves DEF Labels, Counted, Admitted
    <3>3. /\ Running(pc') = Running(pc) /\ Waiting(pc') = Waiting(pc) - 1
          /\ Queued(pc') = Queued(pc) - 1
      BY <3>1, <3>2, Counts DEF Inside, Admitted, Counted
    <3> QED
      BY <3>1, <3>2, <3>3, <1>t, <1>n, <1>g, Sizes
  <2>2. CASE pc[r] = "leaveEmpty"
    <3>1. pc[r] = "leaveEmpty" /\ sem' = sem /\ queued' = queued - 1 /\ Goto(r, "rejected")
      BY <1>8, <2>2 DEF Leave
    <3>2. pc' \in [Requests -> Labels] /\ pc'[r] = "rejected" /\ OnlyMoves(pc, pc', r)
      BY <3>1, <1>t, Moves DEF Labels, Counted, Admitted
    <3>3. /\ Running(pc') = Running(pc) /\ Waiting(pc') = Waiting(pc) - 1
          /\ Queued(pc') = Queued(pc) - 1
      BY <3>1, <3>2, Counts DEF Inside, Admitted, Counted
    <3> QED
      BY <3>1, <3>2, <3>3, <1>t, <1>n, <1>g, Sizes
  <2> QED
    BY <1>8, <2>1, <2>2 DEF Leave
<1>9. ASSUME NEW r \in Requests, Reject(r) PROVE Inv'
  <2>1. pc[r] = "rejected" /\ sem' = sem /\ queued' = queued /\ Goto(r, "idle")
    BY <1>9 DEF Reject
  <2>2. pc' \in [Requests -> Labels] /\ pc'[r] = "idle" /\ OnlyMoves(pc, pc', r)
    BY <2>1, <1>t, Moves DEF Labels, Counted, Admitted
  <2>3. Running(pc') = Running(pc) /\ Waiting(pc') = Waiting(pc) /\ Queued(pc') = Queued(pc)
    BY <2>1, <2>2, Counts DEF Inside, Admitted, Counted
  <2> QED
    BY <2>1, <2>2, <2>3, <1>t, <1>n, <1>g, Sizes
<1>10. ASSUME NEW r \in Requests, Release(r) PROVE Inv'
  <2>1. CASE At(pc, {"wait"}) = {}
    <3>1. pc[r] = "run" /\ sem' = sem - 1 /\ queued' = queued /\ Goto(r, "idle")
      BY <1>10, <2>1 DEF Release
    <3>2. pc' \in [Requests -> Labels] /\ pc'[r] = "idle" /\ OnlyMoves(pc, pc', r)
      BY <3>1, <1>t, Moves DEF Labels, Counted, Admitted
    <3>3. Running(pc') = Running(pc) - 1 /\ Waiting(pc') = Waiting(pc) /\ Queued(pc') = Queued(pc)
      BY <3>1, <3>2, Counts DEF Inside, Admitted, Counted
    <3> QED
      BY <3>1, <3>2, <3>3, <1>t, <1>n, <1>g, Sizes
  <2>2. CASE At(pc, {"wait"}) # {}
    <3>1. PICK w \in At(pc, {"wait"}) : pc' = [pc EXCEPT ![r] = "idle", ![w] = "leaveHeld"]
      BY <2>2, <1>10 DEF Release
    <3>2. /\ w \in Requests /\ pc[w] = "wait" /\ w # r /\ pc[r] = "run"
          /\ sem' = sem /\ queued' = queued
      BY <2>2, <3>1, <1>10 DEF At, Release
    <3> DEFINE h == [pc EXCEPT ![r] = "idle"]
    <3>3. h[r] = "idle" /\ h[w] = "wait" /\ OnlyMoves(pc, h, r)
      BY <1>t, <3>2 DEF OnlyMoves
    <3>4. pc' \in [Requests -> Labels] /\ pc'[w] = "leaveHeld" /\ OnlyMoves(h, pc', w)
      BY <1>t, <3>1, <3>2 DEF OnlyMoves, Labels, Counted, Admitted
    <3> HIDE DEF h
    <3>5. Running(h) = Running(pc) - 1 /\ Waiting(h) = Waiting(pc) /\ Queued(h) = Queued(pc)
      BY <3>2, <3>3, Counts DEF Inside, Admitted, Counted
    <3>6. Running(pc') = Running(h) + 1 /\ Waiting(pc') = Waiting(h) /\ Queued(pc') = Queued(h)
      BY <3>2, <3>3, <3>4, Counts DEF Inside, Admitted, Counted
    <3> QED
      BY <3>2, <3>4, <3>5, <3>6, <1>t, <1>n, <1>g
  <2> QED
    BY <2>1, <2>2
<1> QED
  BY <1>1, <1>2, <1>3, <1>4, <1>5, <1>6, <1>7, <1>8, <1>9, <1>10 DEF Next, Acquire

\* For any number of requests and any configuration, the limiter never runs more
\* handlers than max_concurrent, never queues more than max_queue, and leaks no
\* slot and no place (Acquire, release of isolation.go).
THEOREM LimiterSafe == Spec => [](TypeOK /\ Bounded /\ NothingLeaks)
<1>1. Init => Inv
  <2> SUFFICES ASSUME Init PROVE Inv
    OBVIOUS
  <2>1. At(pc, Inside) = {} /\ At(pc, Admitted) = {} /\ At(pc, Counted) = {}
    BY DEF Init, At, Inside, Admitted, Counted
  <2>2. pc \in [Requests -> Labels]
    BY DEF Init, Labels
  <2> QED
    BY <2>1, <2>2, FS_EmptySet, Sizes DEF Init, Inv, TypeOK, Bounded, NothingLeaks
<1> QED
  BY <1>1, Step, PTL DEF Spec, Inv

(***************************************************************************)
(* The token bucket.                                                       *)
(***************************************************************************)

\* From last on nothing was granted.
QuietSinceLast == \A s \in last + 1 .. now : before[s] = granted

\* Every interval up to last: what was granted in it and what is left in the
\* bucket stay within a full bucket and the refills of that interval.
Budget(s) == Unit * Since(s) + tokens <= burst + rate * (last - s)

\* An interval in which the limiter gave out all there was.
Tight(s) == Unit * Since(s) + tokens = burst + rate * (last - s)

\* The inductive invariant of the limiter: RateBound and RateExact speak of now,
\* these of the last call.
RateInv ==
    /\ RateTypeOK
    /\ QuietSinceLast
    /\ \A s \in 0 .. last : Budget(s)
    /\ \E s \in 0 .. last : Tight(s)

\* After New's defaults both parameters are positive; a bucket holds a call or more.
LEMMA Bucket == rate \in Nat /\ burst \in Nat /\ burst >= Unit /\ Unit \in Nat /\ Unit > 0
<1>1. ASSUME NEW u \in Nat, NEW b \in Nat, b >= 1 PROVE u * b \in Nat /\ u * b >= u
  <2>1. u * b = u + u * (b - 1) /\ u * (b - 1) \in Nat
    BY <1>1
  <2> QED
    BY <2>1, <1>1
<1> QED
  BY <1>1, RateAssumption DEF rate, burst

\* What a product of the rate and a time is, and how it splits.
LEMMA RateTimes ==
  ASSUME NEW a \in Nat, NEW b \in Nat
  PROVE  /\ rate * a \in Nat /\ a * rate = rate * a
         /\ rate * (a + b) = rate * a + rate * b
         /\ rate * 0 = 0
  BY Bucket

\* What Allow finds: the old contents and the refill since last, or a full bucket if
\* that is less, and it is only less when time has passed.
LEMMA RefillMeans ==
  ASSUME RateTypeOK
  PROVE  /\ Refill \in 0 .. burst
         /\ \/ Refill = tokens + rate * (now - last)
            \/ Refill = burst /\ now > last /\ burst <= tokens + rate * (now - last)
<1>1. now - last \in Nat /\ tokens \in 0 .. burst /\ now \in Nat /\ last \in Nat
  BY RateAssumption DEF RateTypeOK
<1>2. rate * (now - last) \in Nat /\ (now - last) * rate = rate * (now - last)
  BY <1>1, RateTimes
<1>3. now = last => rate * (now - last) = 0
  BY <1>1, Bucket
<1> DEFINE x == rate * (now - last)
<1>4. x \in Nat /\ Refill = IF tokens + x > burst THEN burst ELSE tokens + x
  BY <1>2 DEF Refill
<1>5. now = last => x = 0
  BY <1>3
<1> HIDE DEF x
<1>6. /\ Refill \in 0 .. burst
      /\ \/ Refill = tokens + x
         \/ Refill = burst /\ now > last /\ burst <= tokens + x
  BY <1>1, <1>4, <1>5, Bucket
<1> QED
  BY <1>6 DEF x

\* Sums of products that the proofs below treat as wholes.
LEMMA Sums ==
  ASSUME NEW u \in Int, NEW t \in Int, NEW b \in Int, NEW x \in Int, NEW y \in Int, NEW f \in Int
  PROVE  /\ u + t <= b + x /\ f <= t + y => u + f <= b + (x + y)
         /\ u + t = b + x => u + (t + y) = b + (x + y)
         /\ u + t <= b + x /\ t >= 0 /\ y >= 0 => u <= b + (x + y)
  OBVIOUS

\* A call, allowed (d = 1) or refused (d = 0), keeps the budgets and the tight interval.
LEMMA CallStep ==
  ASSUME RateInv, NEW d \in {0, 1},
         Refill >= d * Unit, tokens' = Refill - d * Unit, last' = now,
         granted' = granted + d, now' = now, before' = before
  PROVE  RateInv'
<1>t. /\ now \in Nat /\ last \in Nat /\ last <= now /\ tokens \in Nat /\ granted \in Nat
      /\ now \in 0 .. MaxTime /\ before \in [0 .. MaxTime -> Nat] /\ tokens <= burst
      /\ MaxTime \in Nat
  BY RateAssumption, Bucket DEF RateInv, RateTypeOK
<1>r. /\ Refill \in 0 .. burst
      /\ \/ Refill = tokens + rate * (now - last)
         \/ Refill = burst /\ now > last /\ burst <= tokens + rate * (now - last)
  BY RefillMeans DEF RateInv
<1>d. d * Unit \in Nat /\ Unit * d = d * Unit
  BY Bucket
<1>s. ASSUME NEW s \in 0 .. now
      PROVE  /\ before[s] \in Nat /\ granted - before[s] \in Int
             /\ Unit * Since(s) \in Int
             /\ Since(s)' = Since(s) + d
             /\ Unit * Since(s)' = Unit * Since(s) + d * Unit
  <2>1. before[s] \in Nat
    BY <1>s, <1>t
  <2>2. Since(s) \in Int /\ Since(s)' = Since(s) + d
    BY <2>1, <1>t DEF Since
  <2>3. Unit * (Since(s) + d) = Unit * Since(s) + d * Unit /\ Unit * Since(s) \in Int
    BY <2>2, Bucket
  <2> QED
    BY <2>1, <2>2, <2>3, <1>t
<1>m. ASSUME NEW s \in 0 .. last
      PROVE  /\ rate * (now - s) = rate * (last - s) + rate * (now - last)
             /\ rate * (last - s) \in Nat /\ rate * (now - last) \in Nat
  <2>1. last - s \in Nat /\ now - last \in Nat /\ now - s = (last - s) + (now - last)
    BY <1>m, <1>t
  <2> QED
    BY <2>1, RateTimes
<1>q. ASSUME NEW s \in last + 1 .. now PROVE Since(s) = 0
  BY <1>q, <1>t, <1>s DEF RateInv, QuietSinceLast, Since
<1>1. RateTypeOK'
  <2>1. Refill - d * Unit \in 0 .. burst
    BY <1>r, <1>d, Bucket
  <2> QED
    BY <2>1, <1>t DEF RateTypeOK, burst
<1>2. QuietSinceLast'
  BY <1>t DEF QuietSinceLast
<1>3. ASSUME NEW s \in 0 .. now PROVE Budget(s)'
  <2>1. SUFFICES Unit * Since(s) + Refill <= burst + rate * (now - s)
    <3>1. Unit * Since(s)' + tokens' = Unit * Since(s) + Refill
      BY <1>3, <1>s, <1>d, <1>r, Bucket
    <3> QED
      BY <3>1 DEF Budget, burst, rate
  <2>2. CASE s \in 0 .. last
    <3>1. Unit * Since(s) + tokens <= burst + rate * (last - s)
      BY <2>2 DEF RateInv, Budget
    <3>2. Refill <= tokens + rate * (now - last)
      BY <1>r, <1>t, <1>m, <2>2, Bucket
    <3>3. Unit * Since(s) + Refill <= burst + (rate * (last - s) + rate * (now - last))
      <4>1. /\ Unit * Since(s) \in Int /\ tokens \in Int /\ burst \in Int /\ Refill \in Int
            /\ rate * (last - s) \in Int /\ rate * (now - last) \in Int
        BY <1>m, <1>s, <1>t, <1>r, <2>2, <1>3, Bucket
      <4> QED
        BY ONLY <3>1, <3>2, <4>1, Sums
    <3> QED
      BY <3>3, <1>m, <2>2
  <2>3. CASE s \in last + 1 .. now
    <3>1. rate * (now - s) \in Nat
      <4>1. now - s \in Nat
        BY <1>3, <1>t
      <4> QED
        BY <4>1, RateTimes
    <3>2. Unit * Since(s) = 0
      BY <1>q, <2>3, Bucket
    <3> QED
      BY <3>1, <3>2, <1>r, Bucket
  <2> QED
    BY <2>2, <2>3, <1>3, <1>t
<1>4. \E s \in 0 .. now : Tight(s)'
  <2>t. ASSUME NEW s \in 0 .. now, Unit * Since(s) + Refill = burst + rate * (now - s)
        PROVE  Tight(s)'
    <3>1. Unit * Since(s)' + tokens' = Unit * Since(s) + Refill
      BY <2>t, <1>s, <1>d, <1>r, Bucket
    <3> QED
      BY <2>t, <3>1 DEF Tight, burst, rate
  <2>1. CASE Refill = tokens + rate * (now - last)
    <3>1. PICK s \in 0 .. last : Unit * Since(s) + tokens = burst + rate * (last - s)
      BY DEF RateInv, Tight
    <3>2. s \in 0 .. now
      BY <1>t
    <3>3. /\ Unit * Since(s) \in Int /\ tokens \in Int /\ burst \in Int
          /\ rate * (last - s) \in Int /\ rate * (now - last) \in Int
      BY <1>m, <1>s, <1>t, <3>2, Bucket
    <3>4. Unit * Since(s) + (tokens + rate * (now - last))
             = burst + (rate * (last - s) + rate * (now - last))
      BY ONLY <3>1, <3>3, Sums
    <3>5. Unit * Since(s) + Refill = burst + rate * (now - s)
      BY <2>1, <3>4, <1>m
    <3> QED
      BY <3>2, <3>5, <2>t
  <2>2. CASE Refill = burst /\ now > last
    <3>1. Since(now) = 0 /\ Unit * 0 = 0 /\ rate * (now - now) = 0 /\ now \in 0 .. now
      BY <2>2, <1>q, <1>t, Bucket
    <3>2. Unit * Since(now) + Refill = burst + rate * (now - now)
      BY <3>1, <2>2, Bucket
    <3> QED
      BY <3>1, <3>2, <2>t
  <2> QED
    BY <2>1, <2>2, <1>r
<1> QED
  BY <1>1, <1>2, <1>3, <1>4 DEF RateInv

\* Every step of the limiter and of the clock keeps its invariant.
LEMMA RateStep == RateInv /\ [RateNext]_rateVars => RateInv'
<1> SUFFICES ASSUME RateInv, [RateNext]_rateVars PROVE RateInv'
  OBVIOUS
<1>t. /\ now \in 0 .. MaxTime /\ last \in 0 .. now /\ tokens \in 0 .. burst
      /\ granted \in Nat /\ before \in [0 .. MaxTime -> Nat] /\ MaxTime \in Nat
  BY RateAssumption DEF RateInv, RateTypeOK
<1>1. CASE Allow
  <2>1. 1 * Unit = Unit
    BY Bucket
  <2> QED
    BY <1>1, <2>1, CallStep DEF Allow
<1>2. CASE Refuse
  <2>1. 0 * Unit = 0 /\ Refill \in 0 .. burst /\ granted + 0 = granted
    BY Bucket, <1>t, RefillMeans DEF RateInv
  <2>2. Refill >= 0 * Unit /\ Refill - 0 * Unit = Refill
    BY <2>1, Bucket
  <2> QED
    BY <1>2, <2>1, <2>2, CallStep DEF Refuse
<1>3. CASE ClockTick
  <2>1. /\ now' = now + 1 /\ now < MaxTime /\ tokens' = tokens /\ last' = last
        /\ granted' = granted /\ before' = [before EXCEPT ![now + 1] = granted]
    BY <1>3 DEF ClockTick
  <2>2. ASSUME NEW s \in 0 .. last PROVE Since(s)' = Since(s)
    BY <2>1, <2>2, <1>t DEF Since
  <2>3. RateTypeOK'
    BY <2>1, <1>t DEF RateTypeOK, burst
  <2>4. QuietSinceLast'
    BY <2>1, <1>t DEF QuietSinceLast, RateInv
  <2>5. /\ \A s \in 0 .. last : Budget(s)' <=> Budget(s)
        /\ \A s \in 0 .. last : Tight(s)' <=> Tight(s)
    BY <2>1, <2>2 DEF Budget, Tight, burst, rate
  <2> QED
    BY <2>1, <2>3, <2>4, <2>5 DEF RateInv
<1>4. CASE UNCHANGED rateVars
  BY <1>4 DEF rateVars, RateInv, RateTypeOK, QuietSinceLast, Budget, Tight, Since, burst, rate
<1> QED
  BY <1>1, <1>2, <1>3, <1>4 DEF RateNext

\* The invariant says of the last call what the two properties say of now.
LEMMA RateInvMeans == RateInv => RateTypeOK /\ RateBound /\ RateExact
<1> SUFFICES ASSUME RateInv PROVE RateTypeOK /\ RateBound /\ RateExact
  OBVIOUS
<1>t. /\ now \in Nat /\ last \in Nat /\ last <= now /\ tokens \in Nat /\ granted \in Nat
      /\ now <= MaxTime /\ before \in [0 .. MaxTime -> Nat] /\ tokens <= burst
      /\ MaxTime \in Nat
  BY RateAssumption, Bucket DEF RateInv, RateTypeOK
<1>s. ASSUME NEW s \in 0 .. now
      PROVE  Since(s) \in Int /\ Unit * Since(s) \in Int /\ Unit * (Since(s) + 1) = Unit * Since(s) + Unit
  <2>1. Since(s) \in Int
    BY <1>s, <1>t DEF Since
  <2> QED
    BY <2>1, Bucket
<1>m. ASSUME NEW s \in 0 .. last
      PROVE  /\ rate * (now - s) = rate * (last - s) + rate * (now - last)
             /\ rate * (last - s) \in Nat /\ rate * (now - last) \in Nat
  <2>1. last - s \in Nat /\ now - last \in Nat /\ now - s = (last - s) + (now - last)
    BY <1>m, <1>t
  <2> QED
    BY <2>1, RateTimes
<1>1. RateBound
  <2> SUFFICES ASSUME NEW s \in 0 .. now PROVE Unit * Since(s) <= burst + rate * (now - s)
    BY DEF RateBound
  <2>1. CASE s \in 0 .. last
    <3>1. Unit * Since(s) + tokens <= burst + rate * (last - s)
      BY <2>1 DEF RateInv, Budget
    <3>2. /\ Unit * Since(s) \in Int /\ tokens \in Nat /\ burst \in Int
          /\ rate * (last - s) \in Int /\ rate * (now - last) \in Nat
      BY <1>m, <1>s, <1>t, <2>1, Bucket
    <3>3. Unit * Since(s) <= burst + (rate * (last - s) + rate * (now - last))
      BY ONLY <3>1, <3>2, Sums
    <3> QED
      BY <3>3, <1>m, <2>1
  <2>2. CASE s \in last + 1 .. now
    <3>1. Since(s) = 0
      BY <2>2, <1>t DEF RateInv, QuietSinceLast, Since
    <3>2. now - s \in Nat /\ Unit * 0 = 0
      BY <1>t, Bucket
    <3> QED
      BY <3>1, <3>2, RateTimes, Bucket
  <2> QED
    BY <2>1, <2>2, <1>t
<1>2. RateExact
  <2> SUFFICES ASSUME Refill < Unit
               PROVE  \E s \in 0 .. now : Unit * (Since(s) + 1) > burst + rate * (now - s)
    BY DEF RateExact
  <2>1. Refill = tokens + rate * (now - last)
    BY RefillMeans, Bucket DEF RateInv
  <2>2. PICK s \in 0 .. last : Unit * Since(s) + tokens = burst + rate * (last - s)
    BY DEF RateInv, Tight
  <2>3. s \in 0 .. now
    BY <1>t
  <2>4. /\ Unit * Since(s) \in Int /\ tokens \in Int /\ burst \in Int /\ Unit \in Int
        /\ rate * (last - s) \in Int /\ rate * (now - last) \in Int
    BY <1>m, <1>s, <1>t, <2>3, Bucket
  <2>5. Unit * Since(s) + (tokens + rate * (now - last))
           = burst + (rate * (last - s) + rate * (now - last))
    BY ONLY <2>2, <2>4, Sums
  <2>6. Unit * Since(s) + Refill = burst + rate * (now - s)
    BY <2>1, <2>5, <1>m
  <2>7. Refill \in Int /\ burst + rate * (now - s) \in Int
    BY <2>1, <2>4, <1>m
  <2>8. Unit * (Since(s) + 1) = Unit * Since(s) + Unit
    BY <2>3, <1>s
  <2>9. Unit * (Since(s) + 1) > burst + rate * (now - s)
    BY <2>4, <2>6, <2>7, <2>8
  <2> QED
    BY <2>3, <2>9
<1> QED
  BY <1>1, <1>2 DEF RateInv

\* Whatever rate and burst are configured and however calls and time interleave, the
\* limiter of ratelimiter.go grants no interval more than its budget, and refuses a
\* call only when granting it would exceed one.
THEOREM LimiterIsTokenBucket == RateSpec => [](RateTypeOK /\ RateBound /\ RateExact)
<1>1. RateInit => RateInv
  <2> SUFFICES ASSUME RateInit PROVE RateInv
    OBVIOUS
  <2>1. RateTypeOK
    BY RateAssumption, Bucket DEF RateInit, RateTypeOK
  <2>2. QuietSinceLast
    BY DEF RateInit, QuietSinceLast
  <2>3. /\ last = 0 /\ 0 .. last = {0} /\ Since(0) = 0 /\ tokens = burst
        /\ Unit * 0 = 0 /\ rate * (0 - 0) = 0
    BY RateAssumption, Bucket DEF RateInit, Since
  <2>4. Tight(0) /\ Budget(0)
    BY <2>3, Bucket DEF Tight, Budget
  <2> QED
    BY <2>1, <2>2, <2>3, <2>4 DEF RateInv
<1> QED
  BY <1>1, RateStep, RateInvMeans, PTL DEF RateSpec

(***************************************************************************)
(* The worker pool.                                                        *)
(***************************************************************************)

\* Where a job is.
InQueue(j) == \E i \in 1 .. Len(queue) : queue[i] = j
AtWorker(j) == \E w \in PoolWorkers : slot[w] = j

\* A job is at one index of the channel, or with one worker, or was run once; and it
\* is in one of these places exactly when its Submit was accepted.
OnePlace ==
    /\ \A i, k \in 1 .. Len(queue) : queue[i] = queue[k] => i = k
    /\ \A v, w \in PoolWorkers : slot[v] = slot[w] /\ slot[v] \in Jobs => v = w
    /\ \A j \in Jobs :
          /\ InQueue(j) => ~AtWorker(j) /\ ran[j] = 0
          /\ AtWorker(j) => ran[j] = 0
          /\ ran[j] \in {0, 1}
          /\ sub[j] = "accepted" <=> InQueue(j) \/ AtWorker(j) \/ ran[j] = 1

\* A worker leaves only a channel that is closed and empty, which then stays so;
\* Close returns after the last one has left.
Drained ==
    /\ \A w \in PoolWorkers : slot[w] = "exited" => isClosed /\ queue = <<>>
    /\ returned => \A w \in PoolWorkers : slot[w] = "exited"

PoolInv == PoolTypeOK /\ OnePlace /\ Drained

\* A pool's channel has room for one job or more; tasks are told from the other
\* values of a slot.
LEMMA PoolSizes ==
  /\ capacity \in Nat /\ capacity > 0
  /\ NoJob \notin Jobs /\ "exited" \notin Jobs /\ NoJob # "exited"
  /\ PoolWorkers # {}
  BY PoolAssumption DEF capacity

\* A call of Submit that is refused, cancelled or panics, and one that passes its
\* check, move no job.
LEMMA SubmitMoves ==
  ASSUME PoolInv, NEW j \in Jobs,
         NEW l \in {"send", "refused", "cancelled", "panicked"},
         sub[j] \in {"new", "send"}, SubmitAt(j, l),
         UNCHANGED <<queue, isClosed, slot, ran, returned>>
  PROVE  PoolInv'
<1>1. PoolTypeOK'
  BY DEF PoolInv, PoolTypeOK, SubmitAt
<1>2. \A k \in Jobs : (InQueue(k)' <=> InQueue(k)) /\ (AtWorker(k)' <=> AtWorker(k))
  BY DEF InQueue, AtWorker
<1>3. \A k \in Jobs : sub'[k] = "accepted" <=> sub[k] = "accepted"
  BY DEF PoolInv, PoolTypeOK, SubmitAt
<1>4. OnePlace'
  BY <1>2, <1>3 DEF PoolInv, OnePlace
<1> QED
  BY <1>1, <1>4 DEF PoolInv, Drained

\* The send that succeeds puts the job, and no other, into the channel.
LEMMA SendMoves ==
  ASSUME PoolInv, NEW j \in Jobs, sub[j] = "send", ~isClosed, Len(queue) < capacity,
         SubmitAt(j, "accepted"), queue' = Append(queue, j),
         UNCHANGED <<isClosed, slot, ran, returned>>
  PROVE  PoolInv'
<1>t. /\ queue \in Seq(Jobs) /\ Len(queue) \in Nat
      /\ sub \in [Jobs -> {"new", "send", "accepted", "refused", "cancelled", "panicked"}]
  BY DEF PoolInv, PoolTypeOK
<1>1. /\ Len(queue') = Len(queue) + 1 /\ queue' \in Seq(Jobs)
      /\ queue'[Len(queue) + 1] = j
      /\ \A i \in 1 .. Len(queue) : queue'[i] = queue[i]
  BY <1>t
<1>2. PoolTypeOK'
  BY <1>1, <1>t, PoolSizes DEF PoolInv, PoolTypeOK, SubmitAt
<1>3. sub'[j] = "accepted" /\ \A k \in Jobs \ {j} : sub'[k] = sub[k]
  BY <1>t DEF SubmitAt
<1>4. ~InQueue(j) /\ ~AtWorker(j) /\ ran[j] = 0
  BY DEF PoolInv, OnePlace
<1>5. \A k \in Jobs : AtWorker(k)' <=> AtWorker(k)
  BY DEF AtWorker
<1>6. InQueue(j)' /\ \A k \in Jobs \ {j} : InQueue(k)' <=> InQueue(k)
  BY <1>1, <1>t DEF InQueue
<1>7. \A i, k \in 1 .. Len(queue') : queue'[i] = queue'[k] => i = k
  BY <1>1, <1>4, <1>t DEF PoolInv, OnePlace, InQueue
<1>8. OnePlace'
  BY <1>3, <1>4, <1>5, <1>6, <1>7 DEF PoolInv, OnePlace
<1>9. Drained'
  BY DEF PoolInv, Drained
<1> QED
  BY <1>2, <1>8, <1>9 DEF PoolInv

\* A worker's receive moves the first job of the channel to it.
LEMMA TakeMoves ==
  ASSUME PoolInv, NEW w \in PoolWorkers, WorkerTake(w)
  PROVE  PoolInv'
<1>t. /\ queue \in Seq(Jobs) /\ Len(queue) \in Nat /\ queue # <<>>
      /\ slot \in [PoolWorkers -> Jobs \union {NoJob, "exited"}] /\ slot[w] = NoJob
      /\ queue' = Tail(queue) /\ slot' = [slot EXCEPT ![w] = Head(queue)]
      /\ UNCHANGED <<sub, isClosed, ran, returned>>
  BY DEF PoolInv, PoolTypeOK, WorkerTake
<1>j. queue[1] \in Jobs
  BY <1>t
<1>0. PICK j \in Jobs : j = queue[1]
  BY <1>j
<1>1. /\ Head(queue) = j /\ Len(queue) >= 1
      /\ queue' \in Seq(Jobs) /\ Len(queue') = Len(queue) - 1
      /\ \A i \in 1 .. Len(queue') : queue'[i] = queue[i + 1]
  BY <1>t, <1>0
<1>2. slot'[w] = j /\ \A v \in PoolWorkers \ {w} : slot'[v] = slot[v]
  BY <1>t, <1>1
<1>3. PoolTypeOK'
  BY <1>1, <1>t, PoolSizes DEF PoolInv, PoolTypeOK
<1>4. InQueue(j) /\ ~AtWorker(j) /\ ran[j] = 0
  BY <1>0, <1>1, <1>t DEF PoolInv, OnePlace, InQueue
<1>5. ~InQueue(j)' /\ \A k \in Jobs \ {j} : InQueue(k)' <=> InQueue(k)
  <2>1. ~InQueue(j)'
    <3> SUFFICES ASSUME NEW i \in 1 .. Len(queue'), queue'[i] = j PROVE FALSE
      BY DEF InQueue
    <3>1. queue[i + 1] = queue[1] /\ i + 1 \in 1 .. Len(queue) /\ 1 \in 1 .. Len(queue)
      BY <1>0, <1>1, <1>t
    <3> QED
      BY <3>1, <1>t DEF PoolInv, OnePlace
  <2>2. ASSUME NEW k \in Jobs \ {j}, InQueue(k) PROVE InQueue(k)'
    <3>1. PICK i \in 1 .. Len(queue) : queue[i] = k
      BY <2>2 DEF InQueue
    <3>2. i # 1
      BY <1>0, <3>1, <2>2
    <3>3. i - 1 \in 1 .. Len(queue') /\ queue'[i - 1] = queue[(i - 1) + 1] /\ (i - 1) + 1 = i
      BY <3>2, <1>1, <1>t
    <3> QED
      BY <3>1, <3>3 DEF InQueue
  <2>3. ASSUME NEW k \in Jobs \ {j}, InQueue(k)' PROVE InQueue(k)
    <3>1. PICK i \in 1 .. Len(queue') : queue'[i] = k
      BY <2>3 DEF InQueue
    <3>2. i + 1 \in 1 .. Len(queue) /\ queue[i + 1] = k
      BY <3>1, <1>1, <1>t
    <3> QED
      BY <3>2 DEF InQueue
  <2> QED
    BY <2>1, <2>2, <2>3
<1>6. AtWorker(j)' /\ \A k \in Jobs \ {j} : AtWorker(k)' <=> AtWorker(k)
  BY <1>2, <1>t, PoolSizes DEF AtWorker
<1>7. \A i, k \in 1 .. Len(queue') : queue'[i] = queue'[k] => i = k
  <2> SUFFICES ASSUME NEW i \in 1 .. Len(queue'), NEW k \in 1 .. Len(queue'), queue'[i] = queue'[k]
               PROVE  i = k
    OBVIOUS
  <2>1. queue[i + 1] = queue[k + 1] /\ i + 1 \in 1 .. Len(queue) /\ k + 1 \in 1 .. Len(queue)
    BY <1>1, <1>t
  <2>2. i + 1 = k + 1
    BY <2>1 DEF PoolInv, OnePlace
  <2> QED
    BY <2>2
<1>8. \A v, x \in PoolWorkers : slot'[v] = slot'[x] /\ slot'[v] \in Jobs => v = x
  BY <1>2, <1>4 DEF PoolInv, OnePlace, AtWorker
<1>9. OnePlace'
  BY <1>1, <1>4, <1>5, <1>6, <1>7, <1>8, <1>t DEF PoolInv, OnePlace
<1>10. Drained'
  BY <1>1, <1>2, <1>t, PoolSizes DEF PoolInv, Drained
<1> QED
  BY <1>3, <1>9, <1>10 DEF PoolInv

\* The job a worker finishes is run, once.
LEMMA DoneMoves ==
  ASSUME PoolInv, NEW w \in PoolWorkers, WorkerDone(w)
  PROVE  PoolInv'
<1>t. /\ slot \in [PoolWorkers -> Jobs \union {NoJob, "exited"}] /\ slot[w] \in Jobs
      /\ ran \in [Jobs -> Nat]
      /\ ran' = [ran EXCEPT ![slot[w]] = @ + 1] /\ slot' = [slot EXCEPT ![w] = NoJob]
      /\ UNCHANGED <<sub, queue, isClosed, returned>>
  BY DEF PoolInv, PoolTypeOK, WorkerDone
<1>0. PICK j \in Jobs : j = slot[w]
  BY <1>t
<1>1. AtWorker(j) /\ ~InQueue(j) /\ ran[j] = 0 /\ sub[j] = "accepted"
  BY <1>0, <1>t DEF PoolInv, OnePlace, AtWorker
<1>2. slot'[w] = NoJob /\ \A v \in PoolWorkers \ {w} : slot'[v] = slot[v]
  BY <1>t
<1>3. ran'[j] = 1 /\ \A k \in Jobs \ {j} : ran'[k] = ran[k]
  BY <1>0, <1>t, <1>1
<1>4. PoolTypeOK'
  BY <1>t DEF PoolInv, PoolTypeOK
<1>5. \A k \in Jobs : InQueue(k)' <=> InQueue(k)
  BY <1>t DEF InQueue
<1>6. ~AtWorker(j)' /\ \A k \in Jobs \ {j} : AtWorker(k)' <=> AtWorker(k)
  BY <1>0, <1>2, <1>t, PoolSizes DEF PoolInv, OnePlace, AtWorker
<1>7. \A v, x \in PoolWorkers : slot'[v] = slot'[x] /\ slot'[v] \in Jobs => v = x
  BY <1>2, PoolSizes DEF PoolInv, OnePlace
<1>8. OnePlace'
  BY <1>1, <1>3, <1>5, <1>6, <1>7, <1>t DEF PoolInv, OnePlace
<1>9. Drained'
  BY <1>2, <1>t, PoolSizes DEF PoolInv, Drained
<1> QED
  BY <1>4, <1>8, <1>9 DEF PoolInv

\* A worker that leaves takes no job along.
LEMMA ExitMoves ==
  ASSUME PoolInv, NEW w \in PoolWorkers, WorkerExit(w)
  PROVE  PoolInv'
<1>t. /\ slot \in [PoolWorkers -> Jobs \union {NoJob, "exited"}] /\ slot[w] = NoJob
      /\ isClosed /\ queue = <<>> /\ slot' = [slot EXCEPT ![w] = "exited"]
      /\ UNCHANGED <<sub, queue, isClosed, ran, returned>>
  BY DEF PoolInv, PoolTypeOK, WorkerExit
<1>1. slot'[w] = "exited" /\ \A v \in PoolWorkers \ {w} : slot'[v] = slot[v]
  BY <1>t
<1>2. PoolTypeOK'
  BY <1>t DEF PoolInv, PoolTypeOK
<1>3. \A k \in Jobs : (InQueue(k)' <=> InQueue(k)) /\ (AtWorker(k)' <=> AtWorker(k))
  BY <1>1, <1>t, PoolSizes DEF InQueue, AtWorker
<1>4. \A v, x \in PoolWorkers : slot'[v] = slot'[x] /\ slot'[v] \in Jobs => v = x
  BY <1>1, PoolSizes DEF PoolInv, OnePlace
<1>5. OnePlace'
  BY <1>3, <1>4, <1>t DEF PoolInv, OnePlace
<1>6. Drained'
  BY <1>1, <1>t DEF PoolInv, Drained
<1> QED
  BY <1>2, <1>5, <1>6 DEF PoolInv

\* Every step of callers, workers and Close keeps the pool's invariant.
LEMMA PoolStep == PoolInv /\ [PoolNext]_poolVars => PoolInv'
<1> SUFFICES ASSUME PoolInv, [PoolNext]_poolVars PROVE PoolInv'
  OBVIOUS
<1>1. ASSUME NEW j \in Jobs, SubmitCheck(j) PROVE PoolInv'
  BY <1>1, SubmitMoves DEF SubmitCheck
<1>2. ASSUME NEW j \in Jobs, Send(j) PROVE PoolInv'
  BY <1>2, SubmitMoves, SendMoves DEF Send
<1>3. ASSUME NEW j \in Jobs, Cancel(j) PROVE PoolInv'
  BY <1>3, SubmitMoves DEF Cancel
<1>4. ASSUME NEW w \in PoolWorkers, PoolWorker(w) PROVE PoolInv'
  BY <1>4, TakeMoves, DoneMoves, ExitMoves DEF PoolWorker
<1>5. CASE CloseStart
  BY <1>5 DEF CloseStart, PoolInv, PoolTypeOK, OnePlace, InQueue, AtWorker, Drained
<1>6. CASE CloseReturn
  BY <1>6 DEF CloseReturn, PoolInv, PoolTypeOK, OnePlace, InQueue, AtWorker, Drained
<1>7. CASE UNCHANGED poolVars
  BY <1>7 DEF poolVars, PoolInv, PoolTypeOK, OnePlace, InQueue, AtWorker, Drained
<1> QED
  BY <1>1, <1>2, <1>3, <1>4, <1>5, <1>6, <1>7 DEF PoolNext, Submit

\* One place is one copy.
LEMMA PoolInvMeans == PoolInv => JobsConserved /\ CloseDrains
<1> SUFFICES ASSUME PoolInv PROVE JobsConserved /\ CloseDrains
  OBVIOUS
<1>t. /\ queue \in Seq(Jobs) /\ Len(queue) \in Nat /\ ran \in [Jobs -> Nat]
      /\ slot \in [PoolWorkers -> Jobs \union {NoJob, "exited"}]
  BY DEF PoolInv, PoolTypeOK
<1>1. ASSUME NEW j \in Jobs PROVE Cardinality(Copies(j)) = IF sub[j] = "accepted" THEN 1 ELSE 0
  <2>1. CASE InQueue(j)
    <3>1. PICK i \in 1 .. Len(queue) : queue[i] = j
      BY <2>1 DEF InQueue
    <3>2. {k \in 1 .. Len(queue) : queue[k] = j} = {i}
      BY <3>1 DEF PoolInv, OnePlace
    <3>3. {v \in PoolWorkers : slot[v] = j} = {} /\ 1 .. ran[j] = {} /\ sub[j] = "accepted"
      BY <2>1 DEF PoolInv, OnePlace, AtWorker
    <3>4. Copies(j) = {<<"queue", i>>}
      BY <3>2, <3>3 DEF Copies
    <3> QED
      BY <3>3, <3>4, FS_Singleton
  <2>2. CASE AtWorker(j)
    <3>1. PICK w \in PoolWorkers : slot[w] = j
      BY <2>2 DEF AtWorker
    <3>2. {v \in PoolWorkers : slot[v] = j} = {w}
      BY <3>1 DEF PoolInv, OnePlace
    <3>3. {k \in 1 .. Len(queue) : queue[k] = j} = {} /\ 1 .. ran[j] = {} /\ sub[j] = "accepted"
      BY <2>2 DEF PoolInv, OnePlace, InQueue
    <3>4. Copies(j) = {<<"worker", w>>}
      BY <3>2, <3>3 DEF Copies
    <3> QED
      BY <3>3, <3>4, FS_Singleton
  <2>3. CASE ~InQueue(j) /\ ~AtWorker(j)
    <3>1. /\ {k \in 1 .. Len(queue) : queue[k] = j} = {}
          /\ {v \in PoolWorkers : slot[v] = j} = {}
      BY <2>3 DEF InQueue, AtWorker
    <3>2. CASE ran[j] = 1
      <4>1. 1 .. ran[j] = {1} /\ sub[j] = "accepted"
        BY <3>2 DEF PoolInv, OnePlace
      <4>2. Copies(j) = {<<"done", 1>>}
        BY <3>1, <4>1 DEF Copies
      <4> QED
        BY <4>1, <4>2, FS_Singleton
    <3>3. CASE ran[j] # 1
      <4>1. 1 .. ran[j] = {} /\ sub[j] # "accepted"
        BY <2>3, <3>3 DEF PoolInv, OnePlace
      <4>2. Copies(j) = {}
        BY <3>1, <4>1 DEF Copies
      <4> QED
        BY <4>1, <4>2, FS_EmptySet
    <3> QED
      BY <3>2, <3>3
  <2> QED
    BY <2>1, <2>2, <2>3
<1>2. CloseDrains
  <2> SUFFICES ASSUME returned, NEW j \in Jobs, sub[j] = "accepted" PROVE ran[j] = 1
    BY DEF CloseDrains
  <2>1. (\A w \in PoolWorkers : slot[w] = "exited") /\ queue = <<>>
    BY PoolSizes DEF PoolInv, Drained
  <2>2. ~InQueue(j) /\ ~AtWorker(j)
    BY <2>1, PoolSizes DEF InQueue, AtWorker
  <2> QED
    BY <2>2 DEF PoolInv, OnePlace
<1> QED
  BY <1>1, <1>2 DEF JobsConserved

\* For any number of callers, workers and any buffer, however Submit, cancelled
\* contexts and Close interleave (pool.go): an accepted job is in one place and runs
\* once, no other job runs, and Close returns with every accepted job run.
THEOREM PoolConserves == PoolSpec => [](PoolTypeOK /\ JobsConserved /\ CloseDrains)
<1>1. PoolInit => PoolInv
  <2> SUFFICES ASSUME PoolInit PROVE PoolInv
    OBVIOUS
  <2>1. queue = <<>> /\ Len(queue) = 0 /\ queue \in Seq(Jobs)
    BY DEF PoolInit
  <2>2. PoolTypeOK
    <3>1. sub \in [Jobs -> {"new", "send", "accepted", "refused", "cancelled", "panicked"}]
      BY DEF PoolInit
    <3>2. slot \in [PoolWorkers -> Jobs \union {NoJob, "exited"}] /\ ran \in [Jobs -> Nat]
      BY DEF PoolInit
    <3>3. isClosed \in BOOLEAN /\ returned \in BOOLEAN
      BY DEF PoolInit
    <3>4. Len(queue) <= capacity
      BY <2>1, PoolSizes
    <3> QED
      BY <2>1, <3>1, <3>2, <3>3, <3>4 DEF PoolTypeOK
  <2>3. \A j \in Jobs : ~InQueue(j) /\ ~AtWorker(j)
    BY <2>1, PoolSizes DEF PoolInit, InQueue, AtWorker
  <2>4. OnePlace /\ Drained
    BY <2>1, <2>3, PoolSizes, PoolAssumption DEF PoolInit, OnePlace, Drained
  <2> QED
    BY <2>2, <2>4 DEF PoolInv
<1>2. PoolInv => PoolTypeOK
  BY DEF PoolInv
<1> QED
  BY <1>1, <1>2, PoolStep, PoolInvMeans, PTL DEF PoolSpec

(***************************************************************************)
(* The server.                                                             *)
(***************************************************************************)

\* A step of the server is a step of each part or leaves the part alone.
LEMMA ServerStep ==
  [ServerNext]_serverVars => [Next]_vars /\ [RateNext]_rateVars /\ [PoolNext]_poolVars
<1> SUFFICES ASSUME [ServerNext]_serverVars
             PROVE  [Next]_vars /\ [RateNext]_rateVars /\ [PoolNext]_poolVars
  OBVIOUS
<1>1. ASSUME NEW r \in Requests, ServeArrive(r) \/ ServeAcquire(r) \/ ServeReject(r) \/ ServeRelease(r)
      PROVE  Next /\ UNCHANGED rateVars /\ UNCHANGED poolVars
  BY <1>1 DEF ServeArrive, ServeAcquire, ServeReject, ServeRelease, Next
<1>2. ASSUME NEW r \in Requests, ServeRateLimit(r)
      PROVE  RateNext /\ UNCHANGED vars /\ UNCHANGED poolVars
  BY <1>2 DEF ServeRateLimit, RateNext
<1>3. ASSUME NEW r \in Requests, ServeSubmit(r)
      PROVE  PoolNext /\ UNCHANGED vars /\ UNCHANGED rateVars
  BY <1>3 DEF ServeSubmit, PoolNext
<1>4. ASSUME NEW w \in PoolWorkers, PoolWork(w)
      PROVE  PoolNext /\ UNCHANGED vars /\ UNCHANGED rateVars
  BY <1>4 DEF PoolWork, PoolNext
<1>5. CASE Elsewhere \/ Clock
  <2>1. RateNext /\ UNCHANGED vars /\ UNCHANGED poolVars
    BY <1>5 DEF Elsewhere, Clock, RateNext
  <2> QED
    BY <2>1
<1>6. CASE ClosePool
  <2>1. PoolNext /\ UNCHANGED vars /\ UNCHANGED rateVars
    BY <1>6 DEF ClosePool, PoolNext
  <2> QED
    BY <2>1
<1>7. CASE Signal \/ Shutdown \/ Exit \/ UNCHANGED serverVars
  <2>1. UNCHANGED vars /\ UNCHANGED rateVars /\ UNCHANGED poolVars
    BY <1>7 DEF Signal, Shutdown, ShutdownDrained, ShutdownTimeout, Exit, serverVars
  <2> QED
    BY <2>1
<1> QED
  BY <1>1, <1>2, <1>3, <1>4, <1>5, <1>6, <1>7 DEF ServerNext, Serve

\* Requests, jobs, clock and shutdown of the example server (main.go) only ever drive
\* its three parts as their own specifications allow.
THEOREM ServerComposes == ServerSpec => Spec /\ RateSpec /\ PoolSpec
<1>1. ServerInit => Init /\ RateInit /\ PoolInit
  BY DEF ServerInit
<1> QED
  BY <1>1, ServerStep, PTL DEF ServerSpec, Spec, RateSpec, PoolSpec

\* The server's own variables: where a request is in the chain, and the shutdown.
ChainTypeOK ==
    /\ at \in [Requests -> {"new", "chain", "refused", "handler", "gone"}]
    /\ shut \in {"open", "waiting", "drained", "expired"}
    /\ phase \in {"serving", "stopping", "exited"}

\* Every step of the chain and of the shutdown keeps the types.
LEMMA ChainStep == ChainTypeOK /\ [ServerNext]_serverVars => ChainTypeOK'
<1> SUFFICES ASSUME ChainTypeOK, [ServerNext]_serverVars PROVE ChainTypeOK'
  OBVIOUS
<1>1. ASSUME NEW r \in Requests, Serve(r) PROVE ChainTypeOK'
  <2>1. /\ UNCHANGED <<shut, phase>>
        /\ \/ UNCHANGED at
           \/ \E l \in {"chain", "refused", "handler", "gone"} : RequestAt(r, l)
    BY <1>1 DEF Serve, ServeArrive, ServeAcquire, ServeReject, ServeRateLimit, ServeSubmit, ServeRelease
  <2> QED
    BY <2>1 DEF ChainTypeOK, RequestAt
<1>2. ASSUME NEW w \in PoolWorkers, PoolWork(w) PROVE ChainTypeOK'
  BY <1>2 DEF PoolWork, ChainTypeOK
<1>3. CASE Elsewhere \/ Clock \/ ClosePool
  BY <1>3 DEF Elsewhere, Clock, ClosePool, ChainTypeOK
<1>4. CASE Signal \/ Shutdown \/ Exit
  BY <1>4 DEF Signal, Shutdown, ShutdownDrained, ShutdownTimeout, Exit, ChainTypeOK
<1>5. CASE UNCHANGED serverVars
  BY <1>5 DEF serverVars, ChainTypeOK
<1> QED
  BY <1>1, <1>2, <1>3, <1>4, <1>5 DEF ServerNext

\* Types of the whole server, for any number of requests, jobs and workers.
THEOREM ServerTypeCorrect == ServerSpec => []ServerTypeOK
<1>1. ServerInit => ChainTypeOK
  BY DEF ServerInit, ChainTypeOK
<1>2. ServerSpec => []ChainTypeOK
  BY <1>1, ChainStep, PTL DEF ServerSpec
<1>3. TypeOK /\ RateTypeOK /\ PoolTypeOK /\ ChainTypeOK => ServerTypeOK
  BY DEF ServerTypeOK, ChainTypeOK
<1> QED
  BY <1>2, <1>3, ServerComposes, LimiterSafe, LimiterIsTokenBucket, PoolConserves, PTL

\* In the running server, under load and shutdown, a route never runs more handlers
\* than max_concurrent nor queues more requests than max_queue (isolation.go).
THEOREM RouteIsBounded == ServerSpec => []Bounded
  BY ServerComposes, LimiterSafe, PTL

\* Nor does any request leak its slot or its place: refused by the rate limiter,
\* panicking, timed out or cut off by the shutdown.
THEOREM RouteLeaksNothing == ServerSpec => []NothingLeaks
  BY ServerComposes, LimiterSafe, PTL

\* In the running server, though all routes share the bucket, no interval of time is
\* granted more calls than a full bucket and the rate allow (ratelimiter.go).
THEOREM RateIsKept == ServerSpec => []RateBound
  BY ServerComposes, LimiterIsTokenBucket, PTL

\* And no call is refused that the budget of every interval had room for.
THEOREM RateIsUsed == ServerSpec => []RateExact
  BY ServerComposes, LimiterIsTokenBucket, PTL

\* In the running server a job answered with 202 is in one place and runs once, and no
\* other runs, also when Pool.Close races its Submit (pool.go).
THEOREM JobsRunOnce == ServerSpec => []JobsConserved
  BY ServerComposes, PoolConserves, PTL

\* When Close has returned in the shutdown, every accepted job has run.
THEOREM ShutdownDrainsPool == ServerSpec => []CloseDrains
  BY ServerComposes, PoolConserves, PTL
=============================================================================
