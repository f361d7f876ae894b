----------------------------- MODULE HttpServer -----------------------------
(***************************************************************************)
(* examples/http-server: requests of the route /jobs on their way through  *)
(* the middleware chain (isolation, rate limit, handler), the worker pool  *)
(* the handler submits to, and the shutdown after a signal, in which       *)
(* App.Stop runs http.Server.Shutdown and Pool.Close at the same time.     *)
(*                                                                         *)
(* Recovery, trace id and logging wrap the others without state; a panic   *)
(* of the handler runs the deferred release and is answered with 500.      *)
(* The rate limiter is shared by all routes: Elsewhere is its use by the   *)
(* others.  A request is sent once.                                        *)
(***************************************************************************)
EXTENDS IsolationLimiter, RateLimiter, WorkerPool

ASSUME ServerAssumption == Jobs \subseteq Requests  \* the rest: not a POST

VARIABLES
    at,     \* of a request: where it is in the chain
    shut,   \* Shutdown: not called, waiting, or how it returned
    phase   \* main: serving, in App.Stop, or the process is gone

serverVars == <<vars, rateVars, poolVars, at, shut, phase>>

Up == phase # "exited"

ServerInit ==
    /\ Init /\ RateInit /\ PoolInit
    /\ at = [r \in Requests |-> "new"]
    /\ shut = "open"
    /\ phase = "serving"

RequestAt(r, l) == at' = [at EXCEPT ![r] = l]

\* A connection of which Shutdown has not yet seen that it is idle may still
\* bring a request.
ServeArrive(r) ==
    /\ Up /\ at[r] = "new" /\ shut # "drained"
    /\ Arrive(r) /\ RequestAt(r, "chain")
    /\ UNCHANGED <<rateVars, poolVars, shut, phase>>

ServeAcquire(r) ==
    /\ Up /\ Acquire(r)
    /\ UNCHANGED <<rateVars, poolVars, at, shut, phase>>

ServeReject(r) ==
    /\ Up /\ Reject(r) /\ RequestAt(r, "gone")
    /\ UNCHANGED <<rateVars, poolVars, shut, phase>>

ServeRateLimit(r) ==
    /\ Up /\ pc[r] = "run" /\ at[r] = "chain"
    /\ \/ Allow /\ RequestAt(r, "handler")
       \/ Refuse /\ RequestAt(r, "refused")
    /\ UNCHANGED <<vars, poolVars, shut, phase>>

\* The handler of /jobs in Submit.
ServeSubmit(r) ==
    /\ Up /\ at[r] = "handler" /\ r \in Jobs
    /\ Submit(r)
    /\ UNCHANGED <<vars, rateVars, at, shut, phase>>

\* The handler has answered with 202 or 500, with 400 if it was not a POST, or was
\* not called.
Answered(r) ==
    \/ at[r] = "refused"
    \/ at[r] = "handler" /\ (r \in Jobs => sub[r] \notin {"new", "send"})

ServeRelease(r) ==
    /\ Up /\ Answered(r)
    /\ Release(r) /\ RequestAt(r, "gone")
    /\ UNCHANGED <<rateVars, poolVars, shut, phase>>

PoolWork(w) ==
    /\ Up /\ PoolWorker(w)
    /\ UNCHANGED <<vars, rateVars, at, shut, phase>>

Elsewhere ==
    /\ Up /\ (Allow \/ Refuse)
    /\ UNCHANGED <<vars, poolVars, at, shut, phase>>

Clock ==
    /\ Up /\ ClockTick
    /\ UNCHANGED <<vars, poolVars, at, shut, phase>>

\* SIGINT or SIGTERM: WaitSignal returns and main calls App.Stop.
Signal ==
    /\ phase = "serving"
    /\ phase' = "stopping" /\ shut' = "waiting"
    /\ UNCHANGED <<vars, rateVars, poolVars, at>>

\* Shutdown returns when no request is under way.
ShutdownDrained ==
    /\ shut = "waiting"
    /\ \A r \in Requests : pc[r] = "idle"
    /\ shut' = "drained"
    /\ UNCHANGED <<vars, rateVars, poolVars, at, phase>>

\* Mutant of ShutdownTimeout: it waits for every handler.
ShutdownTimeoutNever == FALSE /\ UNCHANGED serverVars

\* It returns the error of its context after the stop timeout.
ShutdownTimeout ==
    /\ shut = "waiting"
    /\ shut' = "expired"
    /\ UNCHANGED <<vars, rateVars, poolVars, at, phase>>

ClosePool ==
    /\ phase = "stopping" /\ (CloseStart \/ CloseReturn)
    /\ UNCHANGED <<vars, rateVars, at, shut, phase>>

\* App.Stop has waited for both; main returns.
Exit ==
    /\ phase = "stopping"
    /\ shut \in {"drained", "expired"} /\ returned
    /\ phase' = "exited"
    /\ UNCHANGED <<vars, rateVars, poolVars, at, shut>>

Serve(r) ==
    \/ ServeArrive(r) \/ ServeAcquire(r) \/ ServeReject(r) \/ ServeRateLimit(r)
    \/ ServeSubmit(r) \/ ServeRelease(r)

Shutdown == ShutdownDrained \/ ShutdownTimeout

ServerNext ==
    \/ \E r \in Requests : Serve(r)
    \/ \E w \in PoolWorkers : PoolWork(w)
    \/ Elsewhere \/ Clock
    \/ Signal \/ Shutdown \/ ClosePool \/ Exit

ServerSpec == ServerInit /\ [][ServerNext]_serverVars

\* What goes on without a client, a signal or a handler: goroutines are scheduled,
\* timers fire, and a job returns since it waits for 200 ms or for its time-out.
Machinery ==
    \/ \E r \in Requests : ServeAcquire(r)
    \/ \E w \in PoolWorkers : PoolWork(w)
    \/ Shutdown \/ ClosePool \/ Exit

\* Fairness of the scheduler as a whole is enough: each goroutine has finitely many
\* such steps to take.
ServerFairSpec == ServerSpec /\ WF_serverVars(Machinery)

-----------------------------------------------------------------------------
\* Types of the server and its parts.
ServerTypeOK ==
    /\ TypeOK /\ RateTypeOK /\ PoolTypeOK
    /\ at \in [Requests -> {"new", "chain", "refused", "handler", "gone"}]
    /\ shut \in {"open", "waiting", "drained", "expired"}
    /\ phase \in {"serving", "stopping", "exited"}

\* Acquire returns for everyone, even if no handler of the route ever does.
InAcquire == {r \in Requests : pc[r] \notin {"idle", "run", "rejected"}}
AcquireEnds == InAcquire # {} ~> (InAcquire = {} \/ ~Up)

\* The jobs that were answered with 202 are run, also when a signal stops the server
\* before a worker has taken them: the process does not leave before.
Owed == {j \in Jobs : sub[j] = "accepted" /\ ran[j] = 0}
AcceptedJobsRun == Owed # {} ~> Owed = {}

\* After a signal the process exits, even if a handler never returns or is blocked
\* in Submit while the pool is closed under it.
StopEnds == phase = "stopping" ~> phase = "exited"
=============================================================================
