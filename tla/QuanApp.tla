------------------------------ MODULE QuanApp ------------------------------
(***************************************************************************)
(* The life of the instances of the Quan service (examples/Quan/main.go,   *)
(* pkg/runtime/app.go): the components are started one after the other,    *)
(* a start that fails stops what was started, a signal stops everything,   *)
(* and both stop all components at the same time.  The migration is the    *)
(* second component (migration.enabled is set, see Migrate); claims are    *)
(* served while the last one listens.                                      *)
(*                                                                         *)
(* on holds the components that are at work: a client from its ping to its *)
(* Close, a loop that runs, a server that listens.  The loops are those of *)
(* TaskPipeline.                                                           *)
(***************************************************************************)
EXTENDS Migrator

CONSTANTS
    UseRedis,  \* whether redis.enabled is set
    Loops,     \* the loops that are enabled, which need Redis; the Start and Stop of
               \* the others do nothing
    MaxBoots   \* bound on the starts of instances

ASSUME AppAssumption ==
    /\ UseRedis \in BOOLEAN /\ MaxBoots \in Nat
    /\ Loops \subseteq IF UseRedis THEN {"relay", "consumer", "compensator"} ELSE {}

VARIABLES
    app,    \* of each instance: pc, next component to start, on, those whose Stop
            \* has not returned yet, whether a handler is at work, and the history
            \* hurt: this start met an error
    sold,   \* rows of coupon_claims
    boots

appVars == <<app, sold, boots>>
allVars == <<migVars, appVars>>

\* The order of app.Use.
IfSet(c, set) == IF set THEN <<c>> ELSE <<>>
Components ==
    <<"mysql", "migration">> \o IfSet("redis", UseRedis)
    \o IfSet("relay", "relay" \in Loops) \o IfSet("consumer", "consumer" \in Loops)
    \o IfSet("compensator", "compensator" \in Loops) \o <<"http">>
ComponentNames == {Components[n] : n \in DOMAIN Components}
Clients == {"mysql", "redis"}

Down == [pc |-> "down", next |-> 0, on |-> {}, stop |-> {}, busy |-> FALSE, hurt |-> FALSE]

Set(i, a) == app' = [app EXCEPT ![i] = a]

\* The component whose Start is called or running.
Starting(i, c) == app[i].pc = "start" /\ Components[app[i].next] = c

\* The state after the Start of the next component has returned nil.
Started(a, on) ==
    [a EXCEPT !.on = @ \union on, !.next = @ + 1,
              !.pc = IF a.next = Len(Components) THEN "serve" ELSE "start"]

\* The state in which stopReverse has been called for cs; the start is over, and the
\* Stop of the migration does nothing.
Stopping(a, cs) == [a EXCEPT !.pc = "stop", !.stop = cs \ {"migration"}, !.next = 0, !.hurt = FALSE]

AppInit ==
    /\ MigInit
    /\ app = [i \in Instances |-> Down]
    /\ sold = 0 /\ boots = 0

\* main up to App.Start.
Boot(i) ==
    /\ app[i].pc = "down" /\ boots < MaxBoots
    /\ Set(i, [Down EXCEPT !.pc = "start", !.next = 1])
    /\ boots' = boots + 1
    /\ UNCHANGED <<migVars, sold>>

\* The Start of a client is a ping, that of a loop starts its goroutines, that of the
\* server listens and serves in a goroutine.
StartOf(i, cs) ==
    /\ \E c \in cs : Starting(i, c) /\ Set(i, Started(app[i], {c}))
    /\ UNCHANGED <<migVars, sold, boots>>

StartClient(i) == StartOf(i, Clients)
StartLoop(i) == StartOf(i, Loops)
Listen(i) == StartOf(i, {"http"})

\* MigrationComponent.Start: Run, whose steps are those of Migrator ...  This is the service
\* with migration.enabled, as its config.yaml has it; without, Start returns at once, the
\* schema is whatever somebody else made of the database, and nothing is claimed of it.
Migrate(i) ==
    /\ Starting(i, "migration") /\ Run(i)
    /\ UNCHANGED appVars

MigrateError(i) ==
    /\ Starting(i, "migration") /\ RunError(i)
    /\ Set(i, [app[i] EXCEPT !.hurt = TRUE])
    /\ UNCHANGED <<sold, boots>>

\* ... and returns what Run returns.
MigrationDone(i) ==
    /\ Starting(i, "migration") /\ mig[i].pc = "done"
    /\ RunAt(i, IdleRun)
    /\ Set(i, Started(app[i], {}))
    /\ UNCHANGED <<dbVars, faults, raced, sold, boots>>

StartedSoFar(a) == {Components[n] : n \in 1 .. a.next - 1}

\* Mutants of StopStarted: one component too few; the error is not looked at.
StopStartedButFirst(i) ==
    Set(i, Stopping(app[i], {Components[n] : n \in 2 .. app[i].next - 1}))
StopStartedNot(i) == Set(i, Started(app[i], {}))

\* App.Start: stopReverse(started), then main exits.
StopStarted(i) == Set(i, Stopping(app[i], StartedSoFar(app[i])))

MigrationFails(i) ==
    /\ Starting(i, "migration") /\ mig[i].pc = "failed"
    /\ RunAt(i, IdleRun)
    /\ StopStarted(i)
    /\ UNCHANGED <<dbVars, faults, raced, sold, boots>>

\* A ping fails, the address is in use.
StartError(i) ==
    /\ \E c \in Clients \union {"http"} : Starting(i, c)
    /\ Fault
    /\ StopStarted(i)
    /\ UNCHANGED <<dbVars, mig, raced, sold, boots>>

\* SIGINT or SIGTERM while serving.
Signal(i) ==
    /\ app[i].pc = "serve"
    /\ Set(i, Stopping(app[i], StartedSoFar(app[i])))
    /\ UNCHANGED <<migVars, sold, boots>>

\* The Stop of a client closes it at once; that of a loop cancels its context and
\* returns when its goroutines have.
StopOf(i, cs) ==
    /\ app[i].pc = "stop"
    /\ \E c \in app[i].stop \intersect cs :
          Set(i, [app[i] EXCEPT !.stop = @ \ {c}, !.on = @ \ {c}])
    /\ UNCHANGED <<migVars, sold, boots>>

CloseClient(i) == StopOf(i, Clients)
StopLoop(i) == StopOf(i, Loops)

\* Shutdown closes the listener ...
CloseListener(i) ==
    /\ app[i].pc = "stop" /\ "http" \in app[i].stop \intersect app[i].on
    /\ Set(i, [app[i] EXCEPT !.on = @ \ {"http"}])
    /\ UNCHANGED <<migVars, sold, boots>>

\* Mutant of ShutdownReturns: no time-out.
ShutdownWaits(i) ==
    /\ "http" \in app[i].stop \ app[i].on /\ ~app[i].busy
    /\ Set(i, [app[i] EXCEPT !.stop = @ \ {"http"}])
    /\ UNCHANGED <<migVars, sold, boots>>

\* ... and returns when no handler is at work or the stop timeout is over.
ShutdownReturns(i) ==
    /\ "http" \in app[i].stop \ app[i].on
    /\ Set(i, [app[i] EXCEPT !.stop = @ \ {"http"}])
    /\ UNCHANGED <<migVars, sold, boots>>

\* All Stops have returned; the process ends, with the handlers that are left.
Exit(i) ==
    /\ app[i].pc = "stop" /\ app[i].stop = {}
    /\ Set(i, Down)
    /\ UNCHANGED <<migVars, sold, boots>>

Crash(i) ==
    /\ app[i].pc # "down" /\ Fault
    /\ Set(i, Down) /\ RunAt(i, IdleRun)
    /\ UNCHANGED <<dbVars, raced, sold, boots>>

\* A claim request is accepted.
Accept(i) ==
    /\ "http" \in app[i].on /\ ~app[i].busy
    /\ Set(i, [app[i] EXCEPT !.busy = TRUE])
    /\ UNCHANGED <<migVars, sold, boots>>

\* Its transaction: a claim if there is stock, an error if the client is closed.
Claim(i) ==
    /\ app[i].busy
    /\ Set(i, [app[i] EXCEPT !.busy = FALSE])
    /\ IF "mysql" \in app[i].on /\ available > 0
       THEN available' = available - 1 /\ sold' = sold + 1
       ELSE UNCHANGED <<available, sold>>
    /\ UNCHANGED <<recorded, executed, mig, faults, raced, boots>>

\* The steps of a start and of a stop.
Progress(i) ==
    \/ StartClient(i) \/ Migrate(i) \/ MigrationDone(i) \/ MigrationFails(i)
    \/ StartLoop(i) \/ Listen(i)
    \/ CloseClient(i) \/ StopLoop(i) \/ CloseListener(i) \/ ShutdownReturns(i) \/ Exit(i)

AppNext ==
    \E i \in Instances :
        \/ Boot(i) \/ Progress(i) \/ Signal(i)
        \/ Accept(i) \/ Claim(i)
        \/ MigrateError(i) \/ StartError(i) \/ Crash(i)

\* Calls return and goroutines are scheduled; a cancelled loop ends its round.  No
\* handler need return, nobody need send a signal or start an instance again.
AppSpec ==
    /\ AppInit /\ [][AppNext]_allVars
    /\ \A i \in Instances : WF_allVars(Progress(i))

-----------------------------------------------------------------------------
AppStates ==
    [pc : {"down", "start", "serve", "stop"}, next : 0 .. Len(Components) + 1,
     on : SUBSET ComponentNames, stop : SUBSET ComponentNames,
     busy : BOOLEAN, hurt : BOOLEAN]

\* Types of instances, database and migrations.
AppTypeOK ==
    /\ MigTypeOK
    /\ app \in [Instances -> AppStates]
    /\ sold \in Nat /\ boots \in 0 .. MaxBoots

\* Whatever crashed, failed or raced before, an instance that takes requests or runs
\* a loop does so on the complete schema: a file is not recorded before its last
\* statement, and a migration that failed ends the start.
ServesOnlyMigrated ==
    \A i \in Instances : app[i].on \intersect (Loops \union {"http"}) # {} => Migrated

\* Restarts, crashes in the middle of a file and rolling starts never touch stock that
\* was sold, as long as no two instances migrate at the same time.
SeedsBeforeSales == ~raced => available + sold \in {0, Total}

\* The migration refuses a start only if it met an error itself, two instances
\* migrated at once, or an earlier one left a file torn: a restart, or a crash where
\* the statements may be repeated, is never an obstacle.
MigrationFailsForCause ==
    [][\A i \in Instances :
          mig[i].pc # "failed" /\ mig'[i].pc = "failed" => app'[i].hurt \/ raced \/ Torn']_allVars

\* When the Stops of a failed start or of a signal have returned, nothing that was
\* started is still at work.
StopIsComplete == \A i \in Instances : app[i].pc = "stop" /\ app[i].stop = {} => app[i].on = {}

\* Every start ends in a service or in an exit, and every stop in an exit, even if a
\* handler never returns.
LifecycleEnds ==
    \A i \in Instances : app[i].pc \in {"start", "stop"} ~> app[i].pc \in {"serve", "down"}
=============================================================================
