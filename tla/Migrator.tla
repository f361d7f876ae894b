------------------------------ MODULE Migrator ------------------------------
(***************************************************************************)
(* mysql.Migrator.Run in several instances on one database.  Every        *)
(* statement commits by itself; nothing locks the migration.  A call may   *)
(* fail before it is executed, or be executed and lose its answer.         *)
(*                                                                         *)
(* A migration file is a sequence of kinds of statements, those found in   *)
(* examples/Quan/sql: "keep" changes nothing the second time (CREATE TABLE *)
(* IF NOT EXISTS), "seed" sets the campaign back to its full stock (INSERT *)
(* ... ON DUPLICATE KEY UPDATE), "once" fails the second time (DROP INDEX, *)
(* ADD UNIQUE KEY).                                                        *)
(***************************************************************************)
EXTENDS Integers, Sequences, FiniteSetsExt

CONSTANTS
    Instances,
    Files,       \* the migration files in the order of their names
    Total,       \* the stock that a "seed" writes
    MaxFaults    \* bound on failed calls, lost answers and crashes

ASSUME MigratorAssumption ==
    /\ Files \in Seq(Seq({"keep", "seed", "once"}))
    /\ \A v \in DOMAIN Files : Files[v] # <<>>  \* applyFile refuses any other
    /\ Total \in Nat /\ MaxFaults \in Nat

VARIABLES
    recorded,   \* versions in schema_migrations
    executed,   \* statements that were executed: pairs of version and index
    available,  \* available_stock of the seeded campaign
    mig,        \* local state of Run in each instance
    faults,
    raced       \* history: two instances were migrating at the same time

dbVars == <<recorded, executed, available>>
migVars == <<recorded, executed, available, mig, faults, raced>>

Versions == DOMAIN Files
IdleRun == [pc |-> "idle", view |-> {}, v |-> 0, k |-> 0]

\* Run is at a file.
Migrating(i) == mig[i].pc \in {"exec", "record"}

Fault == faults < MaxFaults /\ faults' = faults + 1

RunAt(i, r) == mig' = [mig EXCEPT ![i] = r]
RunFails(i) == RunAt(i, [mig[i] EXCEPT !.pc = "failed"])

MigInit ==
    /\ recorded = {} /\ executed = {} /\ available = 0
    /\ mig = [i \in Instances |-> IdleRun]
    /\ faults = 0 /\ raced = FALSE

\* The loop of Run goes on after version v to the next that view does not hold.
Onward(view, v) ==
    LET todo == {u \in Versions : u > v /\ u \notin view}
    IN IF todo = {} THEN [pc |-> "done", view |-> view, v |-> 0, k |-> 0]
       ELSE [pc |-> "exec", view |-> view, v |-> Min(todo), k |-> 1]

\* Mutant of Load: the versions found are not looked at.
LoadNothing(i) ==
    /\ mig[i].pc = "idle"
    /\ RunAt(i, Onward({}, 0))
    /\ raced' = (raced \/ \E j \in Instances : Migrating(j))
    /\ UNCHANGED <<recorded, executed, available, faults>>

\* discoverFiles, ensureMetadataTable (which changes nothing the second time) and
\* loadAppliedVersions.
Load(i) ==
    /\ mig[i].pc = "idle"
    /\ RunAt(i, Onward(recorded, 0))
    /\ raced' = (raced \/ \E j \in Instances : Migrating(j))
    /\ UNCHANGED <<recorded, executed, available, faults>>

LoadError(i) ==
    /\ mig[i].pc = "idle" /\ Fault
    /\ RunFails(i)
    /\ UNCHANGED <<recorded, executed, available, raced>>

\* MySQL executes statement k of version v.
Possible(v, k) == Files[v][k] = "once" => <<v, k>> \notin executed

Executes(v, k) ==
    /\ executed' = executed \union {<<v, k>>}
    /\ available' = IF Files[v][k] = "seed" THEN Total ELSE available

\* Mutant of Exec: one statement too many.
ExecPastEnd(i) ==
    /\ mig[i].pc = "exec"
    /\ LET v == mig[i].v  k == mig[i].k
       IN IF Possible(v, k)
          THEN /\ Executes(v, k)
               /\ RunAt(i, IF k <= Len(Files[v]) THEN [mig[i] EXCEPT !.k = k + 1]
                           ELSE [mig[i] EXCEPT !.pc = "record"])
          ELSE RunFails(i) /\ UNCHANGED <<executed, available>>
    /\ UNCHANGED <<recorded, faults, raced>>

\* applyFile: one ExecContext.
Exec(i) ==
    /\ mig[i].pc = "exec"
    /\ LET v == mig[i].v  k == mig[i].k
       IN IF Possible(v, k)
          THEN /\ Executes(v, k)
               /\ RunAt(i, IF k < Len(Files[v]) THEN [mig[i] EXCEPT !.k = k + 1]
                           ELSE [mig[i] EXCEPT !.pc = "record"])
          ELSE RunFails(i) /\ UNCHANGED <<executed, available>>
    /\ UNCHANGED <<recorded, faults, raced>>

ExecError(i) ==
    /\ mig[i].pc = "exec" /\ Fault
    /\ LET v == mig[i].v  k == mig[i].k
       IN \/ Possible(v, k) /\ Executes(v, k)
          \/ UNCHANGED <<executed, available>>
    /\ RunFails(i)
    /\ UNCHANGED <<recorded, raced>>

\* The INSERT into schema_migrations, whose key is the version.
Record(i) ==
    /\ mig[i].pc = "record"
    /\ IF mig[i].v \in recorded
       THEN RunFails(i) /\ UNCHANGED recorded
       ELSE /\ recorded' = recorded \union {mig[i].v}
            /\ RunAt(i, Onward(mig[i].view, mig[i].v))
    /\ UNCHANGED <<executed, available, faults, raced>>

RecordError(i) ==
    /\ mig[i].pc = "record" /\ Fault
    /\ recorded' \in {recorded, recorded \union {mig[i].v}}
    /\ RunFails(i)
    /\ UNCHANGED <<executed, available, raced>>

Run(i) == Load(i) \/ Exec(i) \/ Record(i)
RunError(i) == LoadError(i) \/ ExecError(i) \/ RecordError(i)

-----------------------------------------------------------------------------
RunStates ==
    [pc : {"idle", "exec", "record", "done", "failed"},
     view : SUBSET Versions, v : Versions \union {0}, k : Nat]

MigTypeOK ==
    /\ recorded \subseteq Versions
    /\ \A e \in executed : e[1] \in Versions /\ e[2] \in DOMAIN Files[e[1]]
    /\ available \in 0 .. Total
    /\ mig \in [Instances -> RunStates]
    /\ \A i \in Instances :
          Migrating(i) => mig[i].v \in Versions /\ mig[i].k \in DOMAIN Files[mig[i].v]
    /\ faults \in 0 .. MaxFaults /\ raced \in BOOLEAN

\* Every statement of every file has been executed and every file is recorded.
Migrated ==
    /\ recorded = Versions
    /\ \A v \in Versions : \A k \in DOMAIN Files[v] : <<v, k>> \in executed

\* A file that can be neither recorded nor applied again: a statement that works only
\* once was executed and the instance that did it is not at it any more.
Torn ==
    \E v \in Versions \ recorded : \E k \in DOMAIN Files[v] :
        /\ Files[v][k] = "once" /\ <<v, k>> \in executed
        /\ \A i \in Instances : Migrating(i) => mig[i].v # v
=============================================================================
