-------------------------- MODULE IsolationLimiter --------------------------
(***************************************************************************)
(* One route's isolation.Limiter: a buffered channel as a semaphore, an    *)
(* atomic counter of the requests queued for it, and the middleware that   *)
(* runs a handler between Acquire and release.  A request is a goroutine;  *)
(* a step is one channel operation or one atomic add.                      *)
(*                                                                         *)
(* Go channels: a receive from a full channel on which a sender is blocked *)
(* lets that sender in at once, so nobody can slip in between.  Which of   *)
(* several blocked senders it is, is left open.                            *)
(***************************************************************************)
EXTENDS Integers, FiniteSets

CONSTANTS
    Requests,       \* concurrent requests of the route
    MaxConcurrent,  \* max_concurrent and max_queue, as configured
    MaxQueue

ASSUME LimiterAssumption ==
    /\ IsFiniteSet(Requests)
    /\ MaxConcurrent \in Int
    /\ MaxQueue \in Int

\* NewLimiter's defaults.
Slots == IF MaxConcurrent <= 0 THEN 1 ELSE MaxConcurrent
Places == IF MaxQueue < 0 THEN 0 ELSE MaxQueue

VARIABLES
    sem,     \* length of the channel
    queued,  \* the atomic counter
    pc       \* where each request is

vars == <<sem, queued, pc>>

\* Where a request holds a slot; where it has passed the check of the queue's
\* length; where it is counted in queued.
Inside == {"leaveHeld", "run"}
Admitted == {"select", "wait", "leaveHeld", "leaveEmpty"}
Counted == Admitted \union {"undo"}

Labels == Counted \union {"idle", "try", "join", "run", "rejected"}

At(f, ls) == {r \in Requests : f[r] \in ls}

Goto(r, l) == pc' = [pc EXCEPT ![r] = l]

-----------------------------------------------------------------------------
Init ==
    /\ sem = 0 /\ queued = 0
    /\ pc = [r \in Requests |-> "idle"]

\* The middleware finds a limiter for the path and calls Acquire.
Arrive(r) == pc[r] = "idle" /\ Goto(r, "try") /\ UNCHANGED <<sem, queued>>

\* The first select: a slot, or the default case.
Try(r) ==
    /\ pc[r] = "try"
    /\ IF sem < Slots THEN sem' = sem + 1 /\ Goto(r, "run")
       ELSE sem' = sem /\ Goto(r, IF Places = 0 THEN "rejected" ELSE "join")
    /\ UNCHANGED queued

\* Mutant of Join: off by one.
JoinOneMore(r) ==
    /\ pc[r] = "join"
    /\ queued' = queued + 1
    /\ Goto(r, IF queued > Places THEN "undo" ELSE "select")
    /\ UNCHANGED sem

\* queued.Add(1), and what its result says.
Join(r) ==
    /\ pc[r] = "join"
    /\ queued' = queued + 1
    /\ Goto(r, IF queued + 1 > Places THEN "undo" ELSE "select")
    /\ UNCHANGED sem

\* Mutants of Undo: the decrement is forgotten; it is deferred as well.
UndoForgotten(r) == pc[r] = "undo" /\ Goto(r, "rejected") /\ UNCHANGED <<sem, queued>>
UndoTwice(r) == pc[r] = "undo" /\ queued' = queued - 2 /\ Goto(r, "rejected") /\ UNCHANGED sem

Undo(r) == pc[r] = "undo" /\ queued' = queued - 1 /\ Goto(r, "rejected") /\ UNCHANGED sem

\* The second select: a slot that is free by now, or the request blocks.
Select(r) ==
    /\ pc[r] = "select"
    /\ IF sem < Slots THEN sem' = sem + 1 /\ Goto(r, "leaveHeld")
       ELSE sem' = sem /\ Goto(r, "wait")
    /\ UNCHANGED queued

\* Mutant of GiveUp: no timer, only the request context.
GiveUpNever(r) == FALSE /\ UNCHANGED vars

\* The timer fires or the request context is done.
GiveUp(r) ==
    /\ pc[r] \in {"select", "wait"}
    /\ Goto(r, "leaveEmpty")
    /\ UNCHANGED <<sem, queued>>

\* The deferred queued.Add(-1).
Leave(r) ==
    /\ pc[r] \in {"leaveHeld", "leaveEmpty"}
    /\ queued' = queued - 1
    /\ Goto(r, IF pc[r] = "leaveHeld" THEN "run" ELSE "rejected")
    /\ UNCHANGED sem

\* 429.
Reject(r) == pc[r] = "rejected" /\ Goto(r, "idle") /\ UNCHANGED <<sem, queued>>

\* The handler returns or panics; the deferred release receives from the channel.
Release(r) ==
    /\ pc[r] = "run"
    /\ IF At(pc, {"wait"}) = {} THEN sem' = sem - 1 /\ Goto(r, "idle")
       ELSE /\ sem' = sem
            /\ \E w \in At(pc, {"wait"}) :
                  pc' = [pc EXCEPT ![r] = "idle", ![w] = "leaveHeld"]
    /\ UNCHANGED queued

Acquire(r) == Try(r) \/ Join(r) \/ Undo(r) \/ Select(r) \/ GiveUp(r) \/ Leave(r)

Next == \E r \in Requests : Arrive(r) \/ Acquire(r) \/ Reject(r) \/ Release(r)

Spec == Init /\ [][Next]_vars

-----------------------------------------------------------------------------
\* Types; the counter never goes below zero.
TypeOK ==
    /\ sem \in 0 .. Slots
    /\ queued \in Nat
    /\ pc \in [Requests -> Labels]

\* A route never runs more than max_concurrent handlers nor lets more than
\* max_queue requests wait, whichever way slots and time-outs race.
Bounded ==
    /\ Cardinality(At(pc, Inside)) <= Slots
    /\ Cardinality(At(pc, Admitted)) <= Places

\* No path through Acquire leaks a slot or a place in the queue: a time-out that
\* races a hand-over, a rejected join, a cancelled context.
NothingLeaks ==
    /\ sem = Cardinality(At(pc, Inside))
    /\ queued = Cardinality(At(pc, Counted))
=============================================================================
