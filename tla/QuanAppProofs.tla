--------------------------- MODULE QuanAppProofs ---------------------------
(***************************************************************************)
(* Safety of start-up, migration and shutdown, for any number of instances *)
(* and of migration files, and whatever fails, crashes or races.           *)
(***************************************************************************)
EXTENDS QuanApp, WellFoundedInduction, TLAPS

\* What needs the schema.
Served == Loops \union {"http"}

\* All statements of version v are among ex.
Complete(v, ex) == \A k \in DOMAIN Files[v] : <<v, k>> \in ex

\* What holds of a run m of the migrator when rec is recorded and ex executed: what it
\* has seen is recorded, it is past versions that are, and past statements executed.
RunOK(m, rec, ex) ==
    /\ m.view \subseteq rec
    /\ m.pc \in {"exec", "record"} =>
          /\ m.v \in Versions /\ m.k \in DOMAIN Files[m.v]
          /\ \A u \in Versions : u < m.v => u \in rec
          /\ \A k \in 1 .. m.k - 1 : <<m.v, k>> \in ex
    /\ m.pc = "record" => Complete(m.v, ex)
    /\ m.pc = "done" => rec = Versions

\* A version is recorded when all of it was executed, by whomever.
SchemaInv ==
    /\ \A v \in recorded : Complete(v, executed)
    /\ \A i \in Instances : RunOK(mig[i], recorded, executed)

\* What holds of an instance in state a whose migrator is at label l when rec is
\* recorded: the migrator runs inside its component; whatever comes after it needs all
\* versions recorded; what is at work was started, and is waited for in a stop.
LifeOK(a, l, rec) ==
    /\ l # "idle" => a.pc = "start" /\ Components[a.next] = "migration"
    /\ a.pc = "start" => a.next \in 1 .. Len(Components)
    /\ \/ a.pc = "start" /\ a.next > 2
       \/ a.on \intersect Served # {}
       \/ a.busy
       => rec = Versions
    /\ a.pc \in {"start", "serve"} => a.on \subseteq StartedSoFar(a) \ {"migration"}
    /\ a.pc = "stop" => a.on \subseteq a.stop
    /\ a.pc = "down" => a.on = {}
    /\ a.pc # "stop" => a.stop = {}

LifeInv == \A i \in Instances : LifeOK(app[i], mig[i].pc, recorded)

\* Without a race one instance migrates at a time, and what it has still to do nobody
\* has recorded.
RaceInv ==
    ~raced =>
        /\ \A i, j \in Instances : Migrating(i) /\ Migrating(j) => i = j
        /\ \A i \in Instances : Migrating(i) =>
              /\ mig[i].v \notin recorded
              /\ \A u \in Versions : u > mig[i].v /\ u \notin mig[i].view => u \notin recorded

\* Nothing is sold before the schema is complete.
SalesInv ==
    /\ sold > 0 => recorded = Versions
    /\ SeedsBeforeSales

\* The inductive invariant.
AppInv == AppTypeOK /\ SchemaInv /\ LifeInv /\ RaceInv /\ SalesInv

-----------------------------------------------------------------------------
\* A set of natural numbers that is not empty has a least element, which Min chooses.
LEMMA MinIsLeast ==
  ASSUME NEW T \in SUBSET Nat, T # {}
  PROVE  Min(T) \in T /\ \A y \in T : Min(T) <= y
<1> DEFINE R == OpToRel(<, Nat)
<1>1. IsWellFoundedOn(R, Nat)
  BY NatLessThanWellFounded
<1>2. \A x, y \in Nat : x < y => <<x, y>> \in R
  BY DEF OpToRel
<1> HIDE DEF R
<1>3. PICK x \in T : \A y \in T : ~(<<y, x>> \in R)
  BY <1>1, WFMin
<1>4. \A y \in T : ~(y < x)
  BY <1>2, <1>3
<1>5. \A y \in T : x <= y
  BY <1>4
<1> QED
  BY <1>3, <1>5 DEF Min

\* Files is a sequence of sequences that are not empty.
LEMMA FilesShape ==
  /\ Versions = 1 .. Len(Files) /\ Len(Files) \in Nat
  /\ \A v \in Versions : /\ DOMAIN Files[v] = 1 .. Len(Files[v])
                         /\ Len(Files[v]) \in Nat /\ Len(Files[v]) >= 1
  BY MigratorAssumption DEF Versions

\* The loop of Run goes on to the least version that is left and was not seen, or ends.
LEMMA OnwardMeans ==
  ASSUME NEW view \in SUBSET Versions, NEW v \in Versions \union {0}
  PROVE  LET r == Onward(view, v)
         IN /\ r \in RunStates /\ r.view = view /\ r.pc \in {"exec", "done"}
            /\ r.pc = "exec" => /\ r.v \in Versions \ view /\ r.v > v /\ r.k = 1
                                /\ \A u \in Versions : u > v /\ u < r.v => u \in view
            /\ r.pc = "done" => \A u \in Versions : u > v => u \in view
<1> DEFINE todo == {u \in Versions : u > v /\ u \notin view}
<1>1. CASE todo = {}
  <2>1. Onward(view, v) = [pc |-> "done", view |-> view, v |-> 0, k |-> 0]
    BY <1>1 DEF Onward
  <2> QED
    BY <1>1, <2>1 DEF RunStates
<1>2. CASE todo # {}
  <2>1. Onward(view, v) = [pc |-> "exec", view |-> view, v |-> Min(todo), k |-> 1]
    BY <1>2 DEF Onward
  <2>2. todo \in SUBSET Nat /\ v \in Nat /\ Versions \in SUBSET Nat
    BY FilesShape
  <2>3. Min(todo) \in todo /\ \A y \in todo : Min(todo) <= y
    BY <1>2, <2>2, MinIsLeast
  <2>4. Min(todo) \in Versions \ view /\ Min(todo) > v
    BY <2>3
  <2>5. \A u \in Versions : u > v /\ u < Min(todo) => u \in view
    BY <2>2, <2>3
  <2> HIDE DEF todo
  <2> QED
    BY <2>1, <2>4, <2>5 DEF RunStates
<1> QED
  BY <1>1, <1>2

\* All components there may be.
Names == {"mysql", "migration", "redis", "relay", "consumer", "compensator", "http"}

\* MySQL is the first component and the migration the second.
LEMMA Order ==
  /\ Len(Components) \in Nat /\ Len(Components) >= 3 /\ DOMAIN Components = 1 .. Len(Components)
  /\ Components[1] = "mysql" /\ Components[2] = "migration"
<1>2. ASSUME NEW s \in Seq(Names), NEW t \in Seq(Names), Len(s) >= 2
      PROVE  /\ s \o t \in Seq(Names) /\ Len(s \o t) = Len(s) + Len(t) /\ Len(s \o t) >= 2
             /\ (s \o t)[1] = s[1] /\ (s \o t)[2] = s[2]
  BY <1>2
<1> DEFINE s0 == <<"mysql", "migration">>
           s1 == s0 \o IfSet("redis", UseRedis)
           s2 == s1 \o IfSet("relay", "relay" \in Loops)
           s3 == s2 \o IfSet("consumer", "consumer" \in Loops)
           s4 == s3 \o IfSet("compensator", "compensator" \in Loops)
<1>3. s0 \in Seq(Names) /\ Len(s0) >= 2 /\ s0[1] = "mysql" /\ s0[2] = "migration"
  BY DEF Names
<1>4. Components = s4 \o <<"http">>
  BY DEF Components
<1>5. /\ IfSet("relay", "relay" \in Loops) \in Seq(Names)
      /\ IfSet("consumer", "consumer" \in Loops) \in Seq(Names)
      /\ IfSet("compensator", "compensator" \in Loops) \in Seq(Names)
  BY DEF IfSet, Names
<1>u. PICK r \in Seq(Names) : IfSet("redis", UseRedis) = r
  <2>1. <<"redis">> \in Seq(Names) /\ <<>> \in Seq(Names)
    BY DEF Names
  <2>2. IfSet("redis", UseRedis) = <<"redis">> \/ IfSet("redis", UseRedis) = <<>>
    BY Zenon DEF IfSet
  <2> QED
    BY <2>1, <2>2, Zenon
<1>h. <<"http">> \in Seq(Names) /\ Len(<<"http">>) = 1
  BY DEF Names
<1> HIDE DEF s0
<1>6. s1 \in Seq(Names) /\ Len(s1) >= 2 /\ s1[1] = "mysql" /\ s1[2] = "migration"
  <2>1. s1 = s0 \o r
    BY <1>u, Zenon
  <2>2. s0 \o r \in Seq(Names) /\ Len(s0 \o r) >= 2 /\ (s0 \o r)[1] = "mysql" /\ (s0 \o r)[2] = "migration"
    <3>1. Len(s0 \o r) = Len(s0) + Len(r) /\ s0 \o r \in Seq(Names)
      BY <1>3
    <3> QED
      BY <3>1, <1>2, <1>3
  <2> QED
    BY <2>1, <2>2, Zenon
<1> HIDE DEF s1
<1>7. s2 \in Seq(Names) /\ Len(s2) >= 2 /\ s2[1] = "mysql" /\ s2[2] = "migration"
  BY <1>2, <1>5, <1>6
<1> HIDE DEF s2
<1>8. s3 \in Seq(Names) /\ Len(s3) >= 2 /\ s3[1] = "mysql" /\ s3[2] = "migration"
  BY <1>2, <1>5, <1>7
<1> HIDE DEF s3
<1>9. s4 \in Seq(Names) /\ Len(s4) >= 2 /\ s4[1] = "mysql" /\ s4[2] = "migration"
  BY <1>2, <1>5, <1>8
<1> HIDE DEF s4
<1>10. /\ Components \in Seq(Names) /\ Len(Components) = Len(s4) + 1
       /\ Components[1] = "mysql" /\ Components[2] = "migration"
  BY <1>2, <1>4, <1>9, <1>h
<1> QED
  BY <1>9, <1>10

-----------------------------------------------------------------------------
\* A step that leaves the database alone and moves one instance and its migrator.
\* What can go wrong with the types, the schema and the lives of instances is then
\* in the two new states only.
LEMMA Put ==
  ASSUME AppInv, NEW i \in Instances, NEW m \in RunStates, NEW a \in AppStates,
         mig' = [mig EXCEPT ![i] = m], app' = [app EXCEPT ![i] = a],
         recorded \subseteq recorded', recorded' \subseteq Versions,
         executed \subseteq executed',
         \A e \in executed' \ executed : e[1] \in Versions /\ e[2] \in DOMAIN Files[e[1]],
         \A v \in recorded' \ recorded : Complete(v, executed'),
         RunOK(m, recorded', executed'), LifeOK(a, m.pc, recorded'),
         faults' \in 0 .. MaxFaults, raced' \in BOOLEAN, available' \in 0 .. Total,
         sold' \in Nat, boots' \in 0 .. MaxBoots
  PROVE  AppTypeOK' /\ SchemaInv' /\ LifeInv'
<1>t. /\ mig \in [Instances -> RunStates] /\ app \in [Instances -> AppStates]
      /\ recorded \subseteq Versions
      /\ \A e \in executed : e[1] \in Versions /\ e[2] \in DOMAIN Files[e[1]]
  BY DEF AppInv, AppTypeOK, MigTypeOK
<1>1. /\ mig' \in [Instances -> RunStates] /\ app' \in [Instances -> AppStates]
      /\ mig'[i] = m /\ app'[i] = a
      /\ \A j \in Instances \ {i} : mig'[j] = mig[j] /\ app'[j] = app[j]
  BY <1>t
<1>2. ASSUME NEW j \in Instances PROVE RunOK(mig'[j], recorded', executed')
  <2>1. CASE j = i
    BY <2>1, <1>1
  <2>2. CASE j # i
    <3>1. RunOK(mig[j], recorded, executed)
      BY DEF AppInv, SchemaInv
    <3>2. RunOK(mig[j], recorded', executed')
      BY <3>1 DEF RunOK, Complete
    <3> QED
      BY <2>2, <3>2, <1>1
  <2> QED
    BY <2>1, <2>2
<1>3. ASSUME NEW j \in Instances PROVE LifeOK(app'[j], mig'[j].pc, recorded')
  <2>1. CASE j = i
    BY <2>1, <1>1
  <2>2. CASE j # i
    <3>1. LifeOK(app[j], mig[j].pc, recorded)
      BY DEF AppInv, LifeInv
    <3>2. LifeOK(app[j], mig[j].pc, recorded')
      BY <3>1, <1>t DEF LifeOK
    <3> QED
      BY <2>2, <3>2, <1>1
  <2> QED
    BY <2>1, <2>2
<1>4. SchemaInv'
  BY <1>2 DEF SchemaInv, Complete, AppInv
<1>5. LifeInv'
  BY <1>3 DEF LifeInv
<1>6. MigTypeOK'
  <2>1. \A j \in Instances : Migrating(j)' => mig'[j].v \in Versions /\ mig'[j].k \in DOMAIN Files[mig'[j].v]
    BY <1>2 DEF RunOK, Migrating
  <2>2. \A e \in executed' : e[1] \in Versions /\ e[2] \in DOMAIN Files[e[1]]
    BY <1>t
  <2> QED
    BY <1>1, <2>1, <2>2 DEF MigTypeOK
<1>7. AppTypeOK'
  BY <1>1, <1>6 DEF AppTypeOK
<1> QED
  BY <1>4, <1>5, <1>7

\* What the proofs need of an instance before a step.
LEMMA Before ==
  ASSUME AppInv, NEW i \in Instances
  PROVE  /\ mig \in [Instances -> RunStates] /\ app \in [Instances -> AppStates]
         /\ mig[i] \in RunStates /\ app[i] \in AppStates
         /\ mig = [mig EXCEPT ![i] = mig[i]] /\ app = [app EXCEPT ![i] = app[i]]
         /\ recorded \subseteq Versions
         /\ RunOK(mig[i], recorded, executed) /\ LifeOK(app[i], mig[i].pc, recorded)
         /\ faults \in 0 .. MaxFaults /\ raced \in BOOLEAN /\ available \in 0 .. Total
         /\ sold \in Nat /\ boots \in 0 .. MaxBoots
<1>1. mig \in [Instances -> RunStates] /\ app \in [Instances -> AppStates]
  BY DEF AppInv, AppTypeOK, MigTypeOK
<1>2. mig = [mig EXCEPT ![i] = mig[i]] /\ app = [app EXCEPT ![i] = app[i]]
  BY <1>1
<1> QED
  BY <1>1, <1>2 DEF AppInv, AppTypeOK, MigTypeOK, SchemaInv, LifeInv

\* A step that changes neither the database nor the migrators only has to bring an
\* instance into a proper state.
LEMMA PutApp ==
  ASSUME AppInv, NEW i \in Instances, NEW a \in AppStates, Set(i, a),
         LifeOK(a, mig[i].pc, recorded),
         UNCHANGED <<migVars, sold>>, boots' \in 0 .. MaxBoots
  PROVE  AppInv'
<1>1. /\ mig' = [mig EXCEPT ![i] = mig[i]] /\ app' = [app EXCEPT ![i] = a]
      /\ recorded' = recorded /\ executed' = executed /\ available' = available
      /\ faults' = faults /\ raced' = raced /\ sold' = sold /\ mig' = mig
  BY Before DEF Set, migVars
<1>2. AppTypeOK' /\ SchemaInv' /\ LifeInv'
  <2>1. /\ mig[i] \in RunStates /\ RunOK(mig[i], recorded', executed')
        /\ LifeOK(a, mig[i].pc, recorded')
    BY <1>1, Before
  <2>2. /\ faults' \in 0 .. MaxFaults /\ raced' \in BOOLEAN /\ available' \in 0 .. Total
        /\ sold' \in Nat /\ recorded' \subseteq Versions
    BY <1>1, Before
  <2>3. recorded \subseteq recorded' /\ executed \subseteq executed' /\ recorded' \ recorded = {} /\ executed' \ executed = {}
    BY <1>1
  <2> QED
    BY <1>1, <2>1, <2>2, <2>3, Put
<1>3. RaceInv' /\ SalesInv'
  BY <1>1 DEF AppInv, RaceInv, Migrating, SalesInv, SeedsBeforeSales
<1> QED
  BY <1>2, <1>3 DEF AppInv

\* Nor does a migrator that leaves off, at whatever label.
LEMMA RaceKept ==
  ASSUME AppInv, NEW i \in Instances, NEW m \in RunStates, mig' = [mig EXCEPT ![i] = m],
         UNCHANGED <<recorded, raced>>,
         m.pc \notin {"exec", "record"} \/ (Migrating(i) /\ m.v = mig[i].v /\ m.view = mig[i].view)
  PROVE  RaceInv'
<1>1. \A j \in Instances : Migrating(j)' => Migrating(j) /\ mig'[j].v = mig[j].v /\ mig'[j].view = mig[j].view
  BY Before DEF Migrating
<1> QED
  BY <1>1 DEF AppInv, RaceInv

\* The Start of a client, a loop or the server.
LEMMA StartOfKeeps ==
  ASSUME AppInv, NEW i \in Instances, NEW cs \in SUBSET (Clients \union Served), StartOf(i, cs)
  PROVE  AppInv'
<1>1. PICK c \in cs : Starting(i, c) /\ Set(i, Started(app[i], {c}))
  BY DEF StartOf
<1>2. UNCHANGED <<migVars, sold>> /\ boots' = boots
  BY DEF StartOf
<1> DEFINE a == app[i]
           n == a.next
           b == Started(a, {c})
<1>3. /\ a \in AppStates /\ LifeOK(a, mig[i].pc, recorded) /\ boots \in 0 .. MaxBoots
      /\ a.pc = "start" /\ Components[n] = c /\ n \in 1 .. Len(Components)
  BY <1>1, Before DEF Starting, LifeOK
<1>4. c # "migration" /\ (c \in Served => c # "mysql")
  BY AppAssumption DEF Clients, Served
<1>5. n # 2 /\ (c \in Served => n # 1)
  BY <1>3, <1>4, Order
<1> HIDE DEF a
<1>6. /\ b.pc = (IF n = Len(Components) THEN "serve" ELSE "start")
      /\ b.next = n + 1 /\ b.on = a.on \union {c} /\ b.stop = a.stop
      /\ b.busy = a.busy /\ b \in AppStates
  <2>1. c \in ComponentNames /\ n + 1 \in 0 .. Len(Components) + 1
    BY <1>3, Order DEF ComponentNames
  <2>2. /\ b.pc = (IF n = Len(Components) THEN "serve" ELSE "start")
        /\ b.next = n + 1 /\ b.on = a.on \union {c} /\ b.stop = a.stop
    BY <1>3 DEF Started, AppStates
  <2>3. b.busy = a.busy
    BY <1>3 DEF Started, AppStates
  <2>4. b \in AppStates
    BY <1>3, <2>1 DEF Started, AppStates
  <2> QED
    BY <2>2, <2>3, <2>4
<1> HIDE DEF b
<1>7. StartedSoFar(b) = StartedSoFar(a) \union {c}
  BY <1>3, <1>6, Order DEF StartedSoFar
<1>8. LifeOK(b, mig[i].pc, recorded)
  <2>1. mig[i].pc = "idle"
    BY <1>3, <1>4 DEF LifeOK
  <2>2. b.pc = "start" => b.next \in 1 .. Len(Components)
    BY <1>3, <1>6, Order
  <2>3. (b.pc = "start" /\ b.next > 2) \/ b.on \intersect Served # {} \/ b.busy => recorded = Versions
    <3>1. n > 2 => recorded = Versions
      BY <1>3 DEF LifeOK
    <3>2. a.on \intersect Served # {} \/ a.busy => recorded = Versions
      BY <1>3 DEF LifeOK
    <3> QED
      BY <1>3, <1>5, <1>6, <3>1, <3>2, Order
  <2>4. b.on \subseteq StartedSoFar(b) \ {"migration"}
    BY <1>3, <1>4, <1>6, <1>7 DEF LifeOK
  <2>5. b.stop = {} /\ b.pc \in {"start", "serve"}
    BY <1>3, <1>6 DEF LifeOK
  <2> QED
    BY <2>1, <2>2, <2>3, <2>4, <2>5 DEF LifeOK
<1> QED
  BY <1>1, <1>2, <1>3, <1>6, <1>8, PutApp DEF a, b

\* A proper state of an instance that is started or serves and whose migrator is idle
\* turns, when all that was started is stopped, into a proper one.
LEMMA StoppingIsProper ==
  ASSUME NEW a \in AppStates, NEW l, NEW rec, LifeOK(a, l, rec), a.pc \in {"start", "serve"}
  PROVE  /\ Stopping(a, StartedSoFar(a)) \in AppStates
         /\ LifeOK(Stopping(a, StartedSoFar(a)), "idle", rec)
<1> DEFINE b == Stopping(a, StartedSoFar(a))
<1>1. StartedSoFar(a) \subseteq ComponentNames
  BY Order DEF StartedSoFar, ComponentNames, AppStates
<1>2. /\ b.pc = "stop" /\ b.next = 0 /\ b.on = a.on /\ b.busy = a.busy
      /\ b.stop = StartedSoFar(a) \ {"migration"} /\ b \in AppStates
  <2>1. /\ b.pc = "stop" /\ b.next = 0 /\ b.on = a.on
        /\ b.stop = StartedSoFar(a) \ {"migration"}
    BY <1>1 DEF Stopping, AppStates
  <2>2. b.busy = a.busy
    BY DEF Stopping, AppStates
  <2>3. b \in AppStates
    <3> DEFINE cs == StartedSoFar(a) \ {"migration"}
    <3>1. cs \in SUBSET ComponentNames /\ 0 \in 0 .. Len(Components) + 1
      BY <1>1, Order
    <3>2. b = [a EXCEPT !.pc = "stop", !.stop = cs, !.next = 0, !.hurt = FALSE]
      BY DEF Stopping
    <3> HIDE DEF cs, b
    <3> QED
      BY <3>1, <3>2 DEF AppStates
  <2> QED
    BY <2>1, <2>2, <2>3
<1> HIDE DEF b
<1>3. LifeOK(b, "idle", rec)
  BY <1>2 DEF LifeOK
<1> QED
  BY <1>2, <1>3 DEF b

\* The steps of an instance that touch neither the database nor a migrator: boot, stop,
\* exit, and the arrival of a request.
LEMMA LifeKeeps ==
  ASSUME AppInv, NEW i \in Instances,
         \/ Boot(i) \/ Signal(i) \/ CloseClient(i) \/ StopLoop(i) \/ CloseListener(i)
         \/ ShutdownReturns(i) \/ Exit(i) \/ Accept(i)
  PROVE  AppInv'
<1> DEFINE a == app[i]
<1>b. /\ a \in AppStates /\ LifeOK(a, mig[i].pc, recorded) /\ boots \in 0 .. MaxBoots
      /\ app[i] = a
  BY Before
<1>i. a.pc # "start" => mig[i].pc = "idle"
  BY <1>b DEF LifeOK
<1>d. Down \in AppStates /\ LifeOK(Down, "idle", recorded)
  BY Order DEF Down, AppStates, LifeOK
<1> HIDE DEF a
<1>1. CASE Boot(i)
  <2> DEFINE c == [Down EXCEPT !.pc = "start", !.next = 1]
  <2>1. c \in AppStates /\ c.pc = "start" /\ c.next = 1 /\ c.on = {} /\ c.stop = {} /\ c.busy = FALSE
    <3>1. 1 \in 0 .. Len(Components) + 1
      BY Order
    <3>2. Down.on = {} /\ Down.stop = {} /\ Down.busy = FALSE
      BY DEF Down
    <3>3. c \in AppStates
      BY <3>1, <1>d DEF AppStates
    <3>4. c.pc = "start" /\ c.next = 1 /\ c.on = Down.on /\ c.stop = Down.stop
      BY <1>d DEF AppStates
    <3>5. c.busy = Down.busy
      BY <1>d DEF AppStates
    <3> QED
      BY <3>2, <3>3, <3>4, <3>5
  <2>2. Set(i, c) /\ UNCHANGED <<migVars, sold>> /\ boots' \in 0 .. MaxBoots /\ a.pc = "down"
    BY <1>1, <1>b, AppAssumption DEF Boot
  <2> HIDE DEF c
  <2>3. LifeOK(c, mig[i].pc, recorded)
    BY <2>1, <2>2, <1>i, Order DEF LifeOK
  <2> QED
    BY <2>1, <2>2, <2>3, PutApp
<1>2. CASE Signal(i)
  <2>1. /\ Set(i, Stopping(a, StartedSoFar(a))) /\ UNCHANGED <<migVars, sold>> /\ boots' = boots
        /\ a.pc = "serve"
    BY <1>2, <1>b DEF Signal
  <2>2. /\ Stopping(a, StartedSoFar(a)) \in AppStates
        /\ LifeOK(Stopping(a, StartedSoFar(a)), mig[i].pc, recorded)
    BY <2>1, <1>b, <1>i, StoppingIsProper
  <2> QED
    BY <2>1, <2>2, <1>b, PutApp
<1>3. ASSUME NEW cs, StopOf(i, cs) PROVE AppInv'
  <2>1. PICK c \in a.stop \intersect cs : Set(i, [a EXCEPT !.stop = @ \ {c}, !.on = @ \ {c}])
    BY <1>3, <1>b DEF StopOf
  <2> DEFINE b == [a EXCEPT !.stop = @ \ {c}, !.on = @ \ {c}]
  <2>2. b \in AppStates
    BY <1>b DEF AppStates
  <2>3. /\ b.pc = a.pc /\ b.next = a.next /\ b.on = a.on \ {c} /\ b.stop = a.stop \ {c}
    BY <1>b DEF AppStates
  <2>4. b.busy = a.busy
    BY <1>b DEF AppStates
  <2>5. a.pc = "stop" /\ UNCHANGED <<migVars, sold>> /\ boots' = boots
    BY <1>3, <1>b DEF StopOf
  <2>6. Set(i, b)
    BY <2>1
  <2> HIDE DEF b
  <2>7. LifeOK(b, mig[i].pc, recorded)
    BY <2>3, <2>4, <2>5, <1>b DEF LifeOK
  <2> QED
    BY <2>2, <2>5, <2>6, <2>7, <1>b, PutApp
<1>4. CASE CloseListener(i)
  <2> DEFINE b == [a EXCEPT !.on = @ \ {"http"}]
  <2>1. Set(i, b) /\ a.pc = "stop" /\ UNCHANGED <<migVars, sold>> /\ boots' = boots
    BY <1>4, <1>b DEF CloseListener
  <2>2. b \in AppStates
    BY <1>b DEF AppStates
  <2>3. /\ b.pc = a.pc /\ b.next = a.next /\ b.on = a.on \ {"http"} /\ b.stop = a.stop
    BY <1>b DEF AppStates
  <2>4. b.busy = a.busy
    BY <1>b DEF AppStates
  <2> HIDE DEF b
  <2>5. LifeOK(b, mig[i].pc, recorded)
    BY <2>1, <2>3, <2>4, <1>b DEF LifeOK
  <2> QED
    BY <2>1, <2>2, <2>5, <1>b, PutApp
<1>5. CASE ShutdownReturns(i)
  <2> DEFINE b == [a EXCEPT !.stop = @ \ {"http"}]
  <2>1. /\ Set(i, b) /\ "http" \in a.stop /\ "http" \notin a.on
        /\ UNCHANGED <<migVars, sold>> /\ boots' = boots
    BY <1>5, <1>b DEF ShutdownReturns
  <2>2. b \in AppStates
    BY <1>b DEF AppStates
  <2>3. /\ b.pc = a.pc /\ b.next = a.next /\ b.on = a.on /\ b.stop = a.stop \ {"http"}
    BY <1>b DEF AppStates
  <2>4. b.busy = a.busy
    BY <1>b DEF AppStates
  <2> HIDE DEF b
  <2>5. LifeOK(b, mig[i].pc, recorded)
    BY <2>1, <2>3, <2>4, <1>b DEF LifeOK
  <2> QED
    BY <2>1, <2>2, <2>5, <1>b, PutApp
<1>6. CASE Exit(i)
  <2>1. Set(i, Down) /\ a.pc = "stop" /\ UNCHANGED <<migVars, sold>> /\ boots' = boots
    BY <1>6, <1>b DEF Exit
  <2> QED
    BY <2>1, <1>b, <1>i, <1>d, PutApp
<1>7. CASE Accept(i)
  <2> DEFINE b == [a EXCEPT !.busy = TRUE]
  <2>1. Set(i, b) /\ "http" \in a.on /\ UNCHANGED <<migVars, sold>> /\ boots' = boots
    BY <1>7, <1>b DEF Accept
  <2>2. b \in AppStates
    BY <1>b DEF AppStates
  <2>3. /\ b.pc = a.pc /\ b.next = a.next /\ b.on = a.on /\ b.stop = a.stop
    BY <1>b DEF AppStates
  <2> HIDE DEF b
  <2>4. a.on \intersect Served # {}
    BY <2>1 DEF Served
  <2>5. LifeOK(b, mig[i].pc, recorded)
    BY <2>3, <2>4, <1>b DEF LifeOK, StartedSoFar
  <2> QED
    BY <2>1, <2>2, <2>5, <1>b, PutApp
<1> QED
  BY <1>1, <1>2, <1>3, <1>4, <1>5, <1>6, <1>7 DEF CloseClient, StopLoop

\* The claim of a request that was accepted.
LEMMA ClaimKeeps ==
  ASSUME AppInv, NEW i \in Instances, Claim(i)
  PROVE  AppInv'
<1> DEFINE a == app[i]
           b == [a EXCEPT !.busy = FALSE]
<1>b. /\ a \in AppStates /\ LifeOK(a, mig[i].pc, recorded) /\ boots \in 0 .. MaxBoots
      /\ available \in 0 .. Total /\ sold \in Nat /\ Total \in Nat /\ recorded \subseteq Versions
      /\ mig[i] \in RunStates /\ RunOK(mig[i], recorded, executed)
      /\ faults \in 0 .. MaxFaults /\ raced \in BOOLEAN
  BY Before, MigratorAssumption
<1>1. /\ a.busy /\ app' = [app EXCEPT ![i] = b] /\ mig' = [mig EXCEPT ![i] = mig[i]] /\ mig' = mig
      /\ recorded' = recorded /\ executed' = executed /\ faults' = faults /\ raced' = raced
      /\ boots' = boots
      /\ \/ available > 0 /\ available' = available - 1 /\ sold' = sold + 1
         \/ available' = available /\ sold' = sold
  BY Before DEF Claim, Set
<1> HIDE DEF a
<1>2. b \in AppStates
  BY <1>b DEF AppStates
<1>3. /\ b.pc = a.pc /\ b.next = a.next /\ b.on = a.on /\ b.stop = a.stop /\ b.busy = FALSE
  BY <1>b DEF AppStates
<1> HIDE DEF b
<1>4. LifeOK(b, mig[i].pc, recorded)
  BY <1>3, <1>b DEF LifeOK, StartedSoFar
<1>5. available' \in 0 .. Total /\ sold' \in Nat /\ available' + sold' = available + sold
  BY <1>1, <1>b
<1>6. AppTypeOK' /\ SchemaInv' /\ LifeInv'
  BY <1>1, <1>2, <1>4, <1>5, <1>b, Put
<1>7. RaceInv'
  BY <1>1 DEF AppInv, RaceInv, Migrating
<1>8. recorded = Versions
  BY <1>1, <1>b DEF LifeOK
<1>9. SalesInv'
  BY <1>1, <1>5, <1>8 DEF AppInv, SalesInv, SeedsBeforeSales
<1> QED
  BY <1>6, <1>7, <1>9 DEF AppInv

\* What a step of the migrator may do: m is its new state, hurt or not its instance.
LEMMA MigratorMoves ==
  ASSUME AppInv, NEW i \in Instances, NEW m \in RunStates, RunAt(i, m),
         Starting(i, "migration"),
         NEW h \in BOOLEAN, Set(i, [app[i] EXCEPT !.hurt = h]) \/ app' = app,
         recorded \subseteq recorded', recorded' \subseteq Versions,
         executed \subseteq executed',
         \A e \in executed' \ executed : e[1] \in Versions /\ e[2] \in DOMAIN Files[e[1]],
         \A v \in recorded' \ recorded : Complete(v, executed'),
         RunOK(m, recorded', executed'),
         faults' \in 0 .. MaxFaults, raced' \in BOOLEAN, available' \in 0 .. Total,
         UNCHANGED <<sold, boots>>
  PROVE  AppTypeOK' /\ SchemaInv' /\ LifeInv'
<1> DEFINE a == app[i]
           b == [a EXCEPT !.hurt = h]
<1>b. /\ a \in AppStates /\ LifeOK(a, mig[i].pc, recorded) /\ boots \in 0 .. MaxBoots
      /\ sold \in Nat /\ recorded \subseteq Versions /\ app = [app EXCEPT ![i] = a]
      /\ a.pc = "start" /\ Components[a.next] = "migration"
  BY Before DEF Starting
<1>c. mig' = [mig EXCEPT ![i] = m] /\ boots' = boots /\ sold' = sold
  BY DEF RunAt
<1>d. app' = [app EXCEPT ![i] = b] \/ app' = [app EXCEPT ![i] = a]
  BY <1>b DEF Set
<1> HIDE DEF a
<1>1. b \in AppStates
  BY <1>b DEF AppStates
<1>2. /\ b.pc = a.pc /\ b.next = a.next /\ b.on = a.on /\ b.stop = a.stop
  BY <1>b DEF AppStates
<1>3. b.busy = a.busy
  BY <1>b DEF AppStates
<1> HIDE DEF b
<1>4. LifeOK(a, m.pc, recorded')
  BY <1>b DEF LifeOK
<1>5. LifeOK(b, m.pc, recorded')
  BY <1>2, <1>3, <1>4 DEF LifeOK, StartedSoFar
<1>6. CASE app' = [app EXCEPT ![i] = b]
  BY <1>6, <1>1, <1>5, <1>b, <1>c, Put
<1>7. CASE app' = [app EXCEPT ![i] = a]
  BY <1>7, <1>4, <1>b, <1>c, Put
<1> QED
  BY <1>6, <1>7, <1>d

\* A migration that fails leaves what it has seen.
LEMMA FailedRun ==
  ASSUME NEW m \in RunStates, NEW rec, NEW ex, RunOK(m, rec, ex),
         NEW rec2, NEW ex2, rec \subseteq rec2, ex \subseteq ex2
  PROVE  /\ [m EXCEPT !.pc = "failed"] \in RunStates
         /\ [m EXCEPT !.pc = "failed"].pc = "failed"
         /\ RunOK([m EXCEPT !.pc = "failed"], rec2, ex2)
  BY DEF RunStates, RunOK

\* Load: the migrator starts at the first version that is not recorded.
LEMMA LoadKeeps ==
  ASSUME AppInv, NEW i \in Instances, Starting(i, "migration"), Load(i), UNCHANGED appVars
  PROVE  AppInv'
<1> DEFINE m == Onward(recorded, 0)
<1>b. /\ recorded \subseteq Versions /\ faults \in 0 .. MaxFaults /\ raced \in BOOLEAN
      /\ available \in 0 .. Total /\ mig \in [Instances -> RunStates]
  BY Before
<1>1. /\ RunAt(i, m) /\ mig[i].pc = "idle"
      /\ raced' = (raced \/ \E j \in Instances : Migrating(j))
      /\ recorded' = recorded /\ executed' = executed /\ available' = available /\ faults' = faults
      /\ app' = app /\ sold' = sold /\ boots' = boots
  BY DEF Load, appVars
<1>2. /\ m \in RunStates /\ m.view = recorded /\ m.pc \in {"exec", "done"}
      /\ m.pc = "exec" => /\ m.v \in Versions \ recorded /\ m.k = 1
                          /\ \A u \in Versions : u > 0 /\ u < m.v => u \in recorded
      /\ m.pc = "done" => \A u \in Versions : u > 0 => u \in recorded
  BY <1>b, OnwardMeans
<1> HIDE DEF m
<1>3. \A u \in Versions : u > 0
  BY FilesShape
<1>4. RunOK(m, recorded, executed)
  <2>1. m.pc = "exec" => 1 .. m.k - 1 = {} /\ m.k \in DOMAIN Files[m.v]
    BY <1>2, FilesShape
  <2>2. m.pc = "done" => recorded = Versions
    BY <1>2, <1>3, <1>b
  <2> QED
    BY <1>2, <1>3, <2>1, <2>2 DEF RunOK
<1>5. raced' \in BOOLEAN
  BY <1>1
<1>6. AppTypeOK' /\ SchemaInv' /\ LifeInv'
  BY <1>1, <1>2, <1>4, <1>5, <1>b, MigratorMoves
<1>7. RaceInv'
  <2> SUFFICES ASSUME ~raced'
               PROVE  /\ \A j, l \in Instances : Migrating(j)' /\ Migrating(l)' => j = l
                      /\ \A j \in Instances : Migrating(j)' =>
                            /\ mig'[j].v \notin recorded'
                            /\ \A u \in Versions : u > mig'[j].v /\ u \notin mig'[j].view => u \notin recorded'
    BY DEF RaceInv
  <2>1. \A j \in Instances : ~Migrating(j)
    BY <1>1
  <2>2. mig'[i] = m /\ \A j \in Instances \ {i} : mig'[j] = mig[j]
    BY <1>1, <1>b DEF RunAt
  <2>3. \A j \in Instances : Migrating(j)' => j = i
    BY <2>1, <2>2 DEF Migrating
  <2>4. Migrating(i)' => m.pc = "exec"
    BY <2>2, <1>2 DEF Migrating
  <2> QED
    BY <2>2, <2>3, <2>4, <1>1, <1>2
<1>8. SalesInv'
  BY <1>1 DEF AppInv, SalesInv, SeedsBeforeSales
<1> QED
  BY <1>6, <1>7, <1>8 DEF AppInv

\* The effect of executing the statement a migrator is at: it is a statement of the
\* files, the stock stays in range, and unless instances raced, stock is only written
\* when nothing was sold.
LEMMA ExecutesMeans ==
  ASSUME AppInv, NEW i \in Instances, Migrating(i), Executes(mig[i].v, mig[i].k),
         UNCHANGED <<recorded, raced, sold>>
  PROVE  /\ executed' = executed \union {<<mig[i].v, mig[i].k>>}
         /\ \A e \in executed' \ executed : e[1] \in Versions /\ e[2] \in DOMAIN Files[e[1]]
         /\ available' \in 0 .. Total
         /\ SalesInv'
<1>b. /\ mig[i].v \in Versions /\ mig[i].k \in DOMAIN Files[mig[i].v]
      /\ available \in 0 .. Total /\ sold \in Nat /\ Total \in Nat /\ raced \in BOOLEAN
  BY Before, MigratorAssumption DEF RunOK, Migrating
<1>1. /\ executed' = executed \union {<<mig[i].v, mig[i].k>>}
      /\ available' = Total \/ available' = available
  BY DEF Executes
<1>2. \A e \in executed' \ executed : e[1] \in Versions /\ e[2] \in DOMAIN Files[e[1]]
  BY <1>1, <1>b
<1>3. available' \in 0 .. Total
  BY <1>1, <1>b
<1>4. SalesInv'
  <2>1. sold' > 0 => recorded' = Versions
    BY DEF AppInv, SalesInv
  <2>2. ASSUME ~raced' PROVE available' + sold' \in {0, Total}
    <3>1. mig[i].v \notin recorded
      BY <2>2 DEF AppInv, RaceInv
    <3>2. sold = 0
      BY <3>1, <1>b DEF AppInv, SalesInv
    <3>3. available + sold \in {0, Total}
      BY <2>2 DEF AppInv, SalesInv, SeedsBeforeSales
    <3> QED
      BY <3>2, <3>3, <1>1, <1>b
  <2> QED
    BY <2>1, <2>2 DEF SalesInv, SeedsBeforeSales
<1> QED
  BY <1>1, <1>2, <1>3, <1>4

\* Exec: a statement, then the next one or the record.
LEMMA ExecKeeps ==
  ASSUME AppInv, NEW i \in Instances, Starting(i, "migration"), Exec(i), UNCHANGED appVars
  PROVE  AppInv'
<1> DEFINE v == mig[i].v
           k == mig[i].k
<1>b. /\ recorded \subseteq Versions /\ faults \in 0 .. MaxFaults /\ raced \in BOOLEAN
      /\ available \in 0 .. Total /\ mig[i] \in RunStates
      /\ RunOK(mig[i], recorded, executed)
  BY Before
<1>1. /\ mig[i].pc = "exec" /\ recorded' = recorded /\ raced' = raced /\ faults' = faults
      /\ app' = app /\ sold' = sold /\ boots' = boots
  BY DEF Exec, appVars
<1>2. /\ v \in Versions /\ k \in DOMAIN Files[v] /\ Migrating(i)
      /\ DOMAIN Files[v] = 1 .. Len(Files[v]) /\ Len(Files[v]) \in Nat
      /\ \A n \in 1 .. k - 1 : <<v, n>> \in executed
      /\ \A u \in Versions : u < v => u \in recorded
  BY <1>1, <1>b, FilesShape DEF RunOK, Migrating
<1>3. CASE Possible(v, k)
  <2> DEFINE m == IF k < Len(Files[v]) THEN [mig[i] EXCEPT !.k = k + 1]
                  ELSE [mig[i] EXCEPT !.pc = "record"]
  <2>1. Executes(v, k) /\ RunAt(i, m)
    BY <1>3 DEF Exec
  <2>2. /\ executed' = executed \union {<<v, k>>}
        /\ \A e \in executed' \ executed : e[1] \in Versions /\ e[2] \in DOMAIN Files[e[1]]
        /\ available' \in 0 .. Total /\ SalesInv'
    BY <2>1, <1>1, <1>2, ExecutesMeans
  <2>3. /\ m \in RunStates /\ m.v = v /\ m.view = mig[i].view
        /\ \/ m.pc = "exec" /\ m.k = k + 1 /\ k < Len(Files[v])
           \/ m.pc = "record" /\ m.k = k /\ k = Len(Files[v])
    BY <1>b, <1>1, <1>2 DEF RunStates
  <2> HIDE DEF m, v, k
  <2>4. \A n \in 1 .. k : <<v, n>> \in executed'
    BY <1>2, <2>2
  <2>5. RunOK(m, recorded, executed')
    <3>1. m.view \subseteq recorded
      BY <2>3, <1>b DEF RunOK
    <3>2. m.v \in Versions /\ m.k \in DOMAIN Files[m.v] /\ \A n \in 1 .. m.k - 1 : <<m.v, n>> \in executed'
      BY <2>3, <2>4, <1>2
    <3>3. m.pc = "record" => Complete(m.v, executed')
      BY <2>3, <2>4, <1>2 DEF Complete
    <3> QED
      BY <3>1, <3>2, <3>3, <2>3, <1>2 DEF RunOK
  <2>6. AppTypeOK' /\ SchemaInv' /\ LifeInv'
    BY <2>1, <2>2, <2>3, <2>5, <1>1, <1>b, MigratorMoves
  <2>7. RaceInv'
    BY <2>1, <2>3, <1>1, <1>2, RaceKept DEF RunAt, v
  <2> QED
    BY <2>2, <2>6, <2>7 DEF AppInv
<1>4. CASE ~Possible(v, k)
  <2> DEFINE m == [mig[i] EXCEPT !.pc = "failed"]
  <2>1. RunAt(i, m) /\ executed' = executed /\ available' = available
    BY <1>4 DEF Exec, RunFails
  <2>2. m \in RunStates /\ m.pc = "failed" /\ RunOK(m, recorded, executed)
    BY <1>b, FailedRun
  <2> HIDE DEF m
  <2>3. AppTypeOK' /\ SchemaInv' /\ LifeInv'
    BY <2>1, <2>2, <1>1, <1>b, MigratorMoves
  <2>4. RaceInv'
    BY <2>1, <2>2, <1>1, RaceKept DEF RunAt
  <2>5. SalesInv'
    BY <2>1, <1>1 DEF AppInv, SalesInv, SeedsBeforeSales
  <2> QED
    BY <2>3, <2>4, <2>5 DEF AppInv
<1> QED
  BY <1>3, <1>4

\* When the version a migrator is at is recorded and the migrator goes on to m, or
\* stops, nobody who has not raced is in its way.
LEMMA RaceAfterRecord ==
  ASSUME AppInv, NEW i \in Instances, Migrating(i), NEW m \in RunStates,
         mig' = [mig EXCEPT ![i] = m], recorded' = recorded \union {mig[i].v}, raced' = raced,
         m.pc \in {"exec", "record"} =>
            m.v \in Versions /\ m.v > mig[i].v /\ m.v \notin mig[i].view /\ m.view = mig[i].view
  PROVE  RaceInv'
<1>b. mig \in [Instances -> RunStates] /\ mig[i].v \in Versions /\ Versions \in SUBSET Nat
  BY Before, FilesShape DEF RunOK, Migrating
<1> SUFFICES ASSUME ~raced'
             PROVE  /\ \A j, l \in Instances : Migrating(j)' /\ Migrating(l)' => j = l
                    /\ \A j \in Instances : Migrating(j)' =>
                          /\ mig'[j].v \notin recorded'
                          /\ \A u \in Versions : u > mig'[j].v /\ u \notin mig'[j].view => u \notin recorded'
  BY DEF RaceInv
<1>1. /\ \A j \in Instances \ {i} : ~Migrating(j)
      /\ \A u \in Versions : u > mig[i].v /\ u \notin mig[i].view => u \notin recorded
  BY DEF AppInv, RaceInv
<1>2. mig'[i] = m /\ \A j \in Instances \ {i} : mig'[j] = mig[j]
  BY <1>b
<1>3. \A j \in Instances : Migrating(j)' => j = i
  BY <1>1, <1>2 DEF Migrating
<1>4. ASSUME Migrating(i)'
      PROVE  /\ m.v \notin recorded'
             /\ \A u \in Versions : u > m.v /\ u \notin m.view => u \notin recorded'
  <2>1. m.v \in Versions /\ m.v > mig[i].v /\ m.v \notin mig[i].view /\ m.view = mig[i].view
    BY <1>2, <1>4 DEF Migrating
  <2>n. m.v \in Nat /\ mig[i].v \in Nat
    BY <2>1, <1>b
  <2>2. m.v \notin recorded'
    BY <2>1, <2>n, <1>1
  <2>3. ASSUME NEW u \in Versions, u > m.v, u \notin m.view PROVE u \notin recorded'
    <3>1. u \in Nat
      BY <1>b
    <3>2. u > mig[i].v /\ u # mig[i].v
      BY <3>1, <2>n, <2>1, <2>3
    <3> QED
      BY <3>2, <2>1, <2>3, <1>1
  <2> QED
    BY <2>2, <2>3
<1> QED
  BY <1>2, <1>3, <1>4

\* Record: the row of schema_migrations, and on.
LEMMA RecordKeeps ==
  ASSUME AppInv, NEW i \in Instances, Starting(i, "migration"), Record(i), UNCHANGED appVars
  PROVE  AppInv'
<1> DEFINE v == mig[i].v
<1>b. /\ recorded \subseteq Versions /\ faults \in 0 .. MaxFaults /\ raced \in BOOLEAN
      /\ available \in 0 .. Total /\ mig[i] \in RunStates
      /\ RunOK(mig[i], recorded, executed)
  BY Before
<1>1. /\ mig[i].pc = "record" /\ executed' = executed /\ raced' = raced /\ faults' = faults
      /\ available' = available /\ app' = app /\ sold' = sold /\ boots' = boots
  BY DEF Record, appVars
<1>2. /\ v \in Versions /\ Migrating(i) /\ Complete(v, executed)
      /\ mig[i].view \subseteq recorded /\ \A u \in Versions : u < v => u \in recorded
      /\ Versions \in SUBSET Nat
  BY <1>1, <1>b, FilesShape DEF RunOK, Migrating
<1>3. CASE v \in recorded
  <2> DEFINE m == [mig[i] EXCEPT !.pc = "failed"]
  <2>1. RunAt(i, m) /\ recorded' = recorded
    BY <1>3 DEF Record, RunFails
  <2>2. m \in RunStates /\ m.pc = "failed" /\ RunOK(m, recorded, executed)
    BY <1>b, FailedRun
  <2> HIDE DEF m
  <2>3. AppTypeOK' /\ SchemaInv' /\ LifeInv'
    BY <2>1, <2>2, <1>1, <1>b, MigratorMoves
  <2>4. RaceInv'
    BY <2>1, <2>2, <1>1, RaceKept DEF RunAt
  <2>5. SalesInv'
    BY <2>1, <1>1 DEF AppInv, SalesInv, SeedsBeforeSales
  <2> QED
    BY <2>3, <2>4, <2>5 DEF AppInv
<1>4. CASE v \notin recorded
  <2> DEFINE m == Onward(mig[i].view, v)
  <2>1. RunAt(i, m) /\ recorded' = recorded \union {v}
    BY <1>4 DEF Record
  <2>2. /\ m \in RunStates /\ m.view = mig[i].view /\ m.pc \in {"exec", "done"}
        /\ m.pc = "exec" => /\ m.v \in Versions \ mig[i].view /\ m.v > v /\ m.k = 1
                            /\ \A u \in Versions : u > v /\ u < m.v => u \in mig[i].view
        /\ m.pc = "done" => \A u \in Versions : u > v => u \in mig[i].view
    <3>1. mig[i].view \in SUBSET Versions /\ v \in Versions \union {0}
      BY <1>2, <1>b
    <3> QED
      BY <3>1, OnwardMeans
  <2> HIDE DEF m, v
  <2>3. RunOK(m, recorded', executed)
    <3>1. m.pc = "exec" => 1 .. m.k - 1 = {} /\ m.k \in DOMAIN Files[m.v]
      BY <2>2, FilesShape
    <3>2. m.pc = "exec" => \A u \in Versions : u < m.v => u \in recorded'
      BY <2>1, <2>2, <1>2
    <3>3. m.pc = "done" => recorded' = Versions
      <4>1. \A u \in Versions : u < v \/ u = v \/ u > v
        BY <1>2
      <4> QED
        BY <4>1, <2>1, <2>2, <1>2, <1>b
    <3>4. m.view \subseteq recorded'
      BY <2>1, <2>2, <1>2
    <3> QED
      BY <2>2, <3>1, <3>2, <3>3, <3>4 DEF RunOK
  <2>4. AppTypeOK' /\ SchemaInv' /\ LifeInv'
    <3>1. /\ recorded \subseteq recorded' /\ recorded' \subseteq Versions /\ executed' \ executed = {}
          /\ \A u \in recorded' \ recorded : Complete(u, executed')
      BY <2>1, <1>1, <1>2, <1>b
    <3> QED
      BY <3>1, <2>1, <2>2, <2>3, <1>1, <1>b, MigratorMoves
  <2>5. RaceInv'
    BY <2>1, <2>2, <1>1, <1>2, RaceAfterRecord DEF RunAt, v
  <2>6. SalesInv'
    <3>1. recorded = Versions => recorded' = Versions
      BY <2>1, <1>2
    <3> QED
      BY <3>1, <1>1 DEF AppInv, SalesInv, SeedsBeforeSales
  <2> QED
    BY <2>4, <2>5, <2>6 DEF AppInv
<1> QED
  BY <1>3, <1>4

\* A call of the migration that fails, executed or not.
LEMMA MigrateErrorKeeps ==
  ASSUME AppInv, NEW i \in Instances, MigrateError(i)
  PROVE  AppInv'
<1> DEFINE m == [mig[i] EXCEPT !.pc = "failed"]
<1>b. /\ recorded \subseteq Versions /\ faults \in 0 .. MaxFaults /\ raced \in BOOLEAN
      /\ available \in 0 .. Total /\ mig[i] \in RunStates /\ MaxFaults \in Nat
      /\ RunOK(mig[i], recorded, executed)
  BY Before, MigratorAssumption
<1>1. /\ Starting(i, "migration") /\ Set(i, [app[i] EXCEPT !.hurt = TRUE])
      /\ UNCHANGED <<sold, boots>> /\ RunError(i)
  BY DEF MigrateError
<1>2. RunAt(i, m) /\ faults' \in 0 .. MaxFaults /\ raced' = raced
  BY <1>1, <1>b DEF RunError, LoadError, ExecError, RecordError, RunFails, Fault
<1>3. m \in RunStates /\ m.pc = "failed"
  BY <1>b, FailedRun
<1>4. /\ recorded \subseteq recorded' /\ recorded' \subseteq Versions /\ executed \subseteq executed'
      /\ \A e \in executed' \ executed : e[1] \in Versions /\ e[2] \in DOMAIN Files[e[1]]
      /\ \A v \in recorded' \ recorded : Complete(v, executed')
      /\ available' \in 0 .. Total /\ SalesInv' /\ RaceInv'
  <2>1. CASE recorded' = recorded /\ executed' = executed /\ available' = available
    <3>1. SalesInv'
      BY <2>1, <1>1, <1>2 DEF AppInv, SalesInv, SeedsBeforeSales
    <3>2. RaceInv'
      BY <2>1, <1>2, <1>3, RaceKept DEF RunAt
    <3> QED
      BY <2>1, <1>b, <3>1, <3>2
  <2>2. CASE ExecError(i) /\ Executes(mig[i].v, mig[i].k)
    <3>1. Migrating(i) /\ recorded' = recorded
      BY <2>2 DEF ExecError, Migrating
    <3>2. /\ executed' = executed \union {<<mig[i].v, mig[i].k>>}
          /\ \A e \in executed' \ executed : e[1] \in Versions /\ e[2] \in DOMAIN Files[e[1]]
          /\ available' \in 0 .. Total /\ SalesInv'
      BY <2>2, <3>1, <1>1, <1>2, ExecutesMeans
    <3>3. RaceInv'
      BY <3>1, <1>2, <1>3, RaceKept DEF RunAt
    <3> QED
      BY <3>1, <3>2, <3>3, <1>b
  <2>3. CASE RecordError(i) /\ recorded' = recorded \union {mig[i].v}
    <3>1. /\ mig[i].pc = "record" /\ Migrating(i) /\ executed' = executed /\ available' = available
      BY <2>3 DEF RecordError, Migrating
    <3>2. mig[i].v \in Versions /\ Complete(mig[i].v, executed)
      BY <3>1, <1>b DEF RunOK
    <3>3. RaceInv'
      BY <2>3, <3>1, <1>2, <1>3, RaceAfterRecord DEF RunAt
    <3>4. SalesInv'
      <4>1. recorded = Versions => recorded' = Versions
        BY <2>3, <3>2
      <4> QED
        BY <4>1, <3>1, <1>1, <1>2 DEF AppInv, SalesInv, SeedsBeforeSales
    <3> QED
      BY <2>3, <3>1, <3>2, <3>3, <3>4, <1>b
  <2> QED
    BY <2>1, <2>2, <2>3, <1>1 DEF RunError, LoadError, ExecError, RecordError
<1>5. RunOK(m, recorded', executed')
  BY <1>4, <1>b, FailedRun
<1> HIDE DEF m
<1>6. AppTypeOK' /\ SchemaInv' /\ LifeInv'
  BY <1>1, <1>2, <1>3, <1>4, <1>5, <1>b, MigratorMoves
<1> QED
  BY <1>4, <1>6 DEF AppInv

\* The end of a migration, a failed start and a crash: the migrator is idle again, the
\* database stays, and the instance is in another proper state.
LEMMA IdleAgain ==
  ASSUME AppInv, NEW i \in Instances, NEW a \in AppStates, Set(i, a), RunAt(i, IdleRun),
         LifeOK(a, "idle", recorded),
         UNCHANGED <<dbVars, raced, sold, boots>>, faults' \in 0 .. MaxFaults
  PROVE  AppInv'
<1>b. /\ recorded \subseteq Versions /\ raced \in BOOLEAN /\ available \in 0 .. Total
      /\ sold \in Nat /\ boots \in 0 .. MaxBoots
  BY Before
<1>1. /\ recorded' = recorded /\ executed' = executed /\ available' = available
      /\ raced' = raced /\ sold' = sold /\ boots' = boots
      /\ mig' = [mig EXCEPT ![i] = IdleRun] /\ app' = [app EXCEPT ![i] = a]
  BY DEF dbVars, RunAt, Set
<1>2. IdleRun \in RunStates /\ IdleRun.pc = "idle" /\ RunOK(IdleRun, recorded, executed)
  BY DEF IdleRun, RunStates, RunOK
<1>3. AppTypeOK' /\ SchemaInv' /\ LifeInv'
  BY <1>1, <1>2, <1>b, Put
<1>4. RaceInv'
  BY <1>1, <1>2, RaceKept
<1>5. SalesInv'
  BY <1>1 DEF AppInv, SalesInv, SeedsBeforeSales
<1> QED
  BY <1>3, <1>4, <1>5 DEF AppInv

\* The Start of the migration returns nil, or an error; another Start fails; a crash.
LEMMA EndsKeep ==
  ASSUME AppInv, NEW i \in Instances,
         MigrationDone(i) \/ MigrationFails(i) \/ StartError(i) \/ Crash(i)
  PROVE  AppInv'
<1> DEFINE a == app[i]
<1>b. /\ a \in AppStates /\ LifeOK(a, mig[i].pc, recorded) /\ app[i] = a
      /\ faults \in 0 .. MaxFaults /\ MaxFaults \in Nat
      /\ mig \in [Instances -> RunStates] /\ RunOK(mig[i], recorded, executed)
  BY Before, MigratorAssumption
<1> HIDE DEF a
<1>1. CASE MigrationDone(i)
  <2> DEFINE b == Started(a, {})
  <2>1. /\ Starting(i, "migration") /\ mig[i].pc = "done" /\ RunAt(i, IdleRun) /\ Set(i, b)
        /\ UNCHANGED <<dbVars, raced, sold, boots>> /\ faults' = faults
    BY <1>1, <1>b DEF MigrationDone
  <2>2. recorded = Versions
    BY <2>1, <1>b DEF RunOK
  <2>3. a.pc = "start" /\ a.next \in 1 .. Len(Components)
    BY <2>1, <1>b DEF Starting, LifeOK
  <2>4. b \in AppStates
    <3>1. a.next + 1 \in 0 .. Len(Components) + 1
      BY <2>3, Order
    <3> QED
      BY <3>1, <1>b DEF Started, AppStates
  <2>5. /\ b.pc = (IF a.next = Len(Components) THEN "serve" ELSE "start")
        /\ b.next = a.next + 1 /\ b.on = a.on /\ b.stop = a.stop
    BY <1>b DEF Started, AppStates
  <2> HIDE DEF b
  <2>6. StartedSoFar(a) \subseteq StartedSoFar(b)
    BY <2>3, <2>5, Order DEF StartedSoFar
  <2>7. b.pc = "start" => b.next \in 1 .. Len(Components)
    BY <2>3, <2>5, Order
  <2>8. LifeOK(b, "idle", recorded)
    BY <2>2, <2>3, <2>5, <2>6, <2>7, <1>b DEF LifeOK
  <2> QED
    BY <2>1, <2>4, <2>8, <1>b, IdleAgain
<1>2. CASE MigrationFails(i)
  <2>1. /\ a.pc = "start" /\ RunAt(i, IdleRun) /\ Set(i, Stopping(a, StartedSoFar(a)))
        /\ UNCHANGED <<dbVars, raced, sold, boots>> /\ faults' = faults
    BY <1>2, <1>b DEF MigrationFails, Starting, StopStarted
  <2> QED
    BY <2>1, <1>b, StoppingIsProper, IdleAgain
<1>3. CASE StartError(i)
  <2>1. PICK c \in Clients \union {"http"} : Starting(i, c)
    BY <1>3 DEF StartError
  <2>2. /\ a.pc = "start" /\ Set(i, Stopping(a, StartedSoFar(a))) /\ mig' = mig
        /\ UNCHANGED <<dbVars, raced, sold, boots>> /\ faults' \in 0 .. MaxFaults
    BY <1>3, <2>1, <1>b DEF StartError, Starting, StopStarted, Fault
  <2>3. mig[i].pc = "idle"
    BY <2>1, <1>b DEF LifeOK, Starting, Clients
  <2> DEFINE b == Stopping(a, StartedSoFar(a))
  <2>4. b \in AppStates /\ LifeOK(b, "idle", recorded)
    BY <2>2, <1>b, StoppingIsProper
  <2> HIDE DEF b
  <2>5. /\ mig' = [mig EXCEPT ![i] = mig[i]] /\ app' = [app EXCEPT ![i] = b]
        /\ recorded' = recorded /\ executed' = executed /\ available' = available
        /\ raced' = raced /\ sold' = sold /\ boots' = boots
    BY <2>2, <1>b DEF Set, dbVars, b
  <2>6. AppTypeOK' /\ SchemaInv' /\ LifeInv'
    <3>1. /\ mig[i] \in RunStates /\ recorded \subseteq Versions /\ raced \in BOOLEAN
          /\ available \in 0 .. Total /\ sold \in Nat /\ boots \in 0 .. MaxBoots
      BY Before
    <3> QED
      BY <3>1, <2>2, <2>3, <2>4, <2>5, <1>b, Put
  <2>7. RaceInv' /\ SalesInv'
    BY <2>2, <2>5 DEF AppInv, RaceInv, Migrating, SalesInv, SeedsBeforeSales
  <2> QED
    BY <2>6, <2>7 DEF AppInv
<1>4. CASE Crash(i)
  <2>1. /\ RunAt(i, IdleRun) /\ Set(i, Down)
        /\ UNCHANGED <<dbVars, raced, sold, boots>> /\ faults' \in 0 .. MaxFaults
    BY <1>4, <1>b DEF Crash, Fault
  <2>2. Down \in AppStates /\ LifeOK(Down, "idle", recorded)
    BY Order DEF Down, AppStates, LifeOK
  <2> QED
    BY <2>1, <2>2, IdleAgain
<1> QED
  BY <1>1, <1>2, <1>3, <1>4

-----------------------------------------------------------------------------
\* All actions together.
LEMMA AppStep == AppInv /\ [AppNext]_allVars => AppInv'
<1> SUFFICES ASSUME AppInv, [AppNext]_allVars PROVE AppInv'
  OBVIOUS
<1>1. CASE UNCHANGED allVars
  <2>1. /\ recorded' = recorded /\ executed' = executed /\ available' = available /\ mig' = mig
        /\ faults' = faults /\ raced' = raced /\ app' = app /\ sold' = sold /\ boots' = boots
    BY <1>1 DEF allVars, migVars, appVars
  <2>2. AppTypeOK'
    BY <2>1 DEF AppInv, AppTypeOK, MigTypeOK, Migrating
  <2>3. SchemaInv' /\ LifeInv'
    BY <2>1 DEF AppInv, SchemaInv, LifeInv
  <2>4. RaceInv' /\ SalesInv'
    BY <2>1 DEF AppInv, RaceInv, Migrating, SalesInv, SeedsBeforeSales
  <2> QED
    BY <2>2, <2>3, <2>4 DEF AppInv
<1>2. ASSUME NEW i \in Instances, StartClient(i) \/ StartLoop(i) \/ Listen(i) PROVE AppInv'
  <2>1. /\ Clients \in SUBSET (Clients \union Served) /\ Loops \in SUBSET (Clients \union Served)
        /\ {"http"} \in SUBSET (Clients \union Served)
    BY DEF Served
  <2> QED
    BY <1>2, <2>1, StartOfKeeps DEF StartClient, StartLoop, Listen
<1>3. ASSUME NEW i \in Instances, Migrate(i) PROVE AppInv'
  BY <1>3, LoadKeeps, ExecKeeps, RecordKeeps DEF Migrate, Run
<1>4. ASSUME NEW i \in Instances,
             \/ Boot(i) \/ Signal(i) \/ CloseClient(i) \/ StopLoop(i) \/ CloseListener(i)
             \/ ShutdownReturns(i) \/ Exit(i) \/ Accept(i)
      PROVE  AppInv'
  BY <1>4, LifeKeeps
<1>5. ASSUME NEW i \in Instances, MigrationDone(i) \/ MigrationFails(i) \/ StartError(i) \/ Crash(i)
      PROVE  AppInv'
  BY <1>5, EndsKeep
<1>6. ASSUME NEW i \in Instances, Claim(i) PROVE AppInv'
  BY <1>6, ClaimKeeps
<1>7. ASSUME NEW i \in Instances, MigrateError(i) PROVE AppInv'
  BY <1>7, MigrateErrorKeeps
<1> QED
  BY <1>1, <1>2, <1>3, <1>4, <1>5, <1>6, <1>7 DEF AppNext, Progress

\* Nothing is migrated, started or sold in the beginning.
LEMMA AppStart == AppInit => AppInv
<1> SUFFICES ASSUME AppInit PROVE AppInv
  OBVIOUS
<1>1. /\ recorded = {} /\ executed = {} /\ available = 0 /\ faults = 0 /\ raced = FALSE
      /\ mig = [i \in Instances |-> IdleRun] /\ app = [i \in Instances |-> Down]
      /\ sold = 0 /\ boots = 0
  BY DEF AppInit, MigInit
<1>2. IdleRun \in RunStates /\ IdleRun.pc = "idle" /\ RunOK(IdleRun, recorded, executed)
  BY DEF IdleRun, RunStates, RunOK
<1>3. Down \in AppStates /\ LifeOK(Down, "idle", recorded)
  BY Order DEF Down, AppStates, LifeOK
<1>4. \A i \in Instances : mig[i] = IdleRun /\ app[i] = Down
  BY <1>1
<1>5. MigTypeOK
  <2>1. mig \in [Instances -> RunStates] /\ \A i \in Instances : ~Migrating(i)
    BY <1>1, <1>2, <1>4 DEF Migrating
  <2>2. available \in 0 .. Total /\ faults \in 0 .. MaxFaults /\ recorded \subseteq Versions
    BY <1>1, MigratorAssumption
  <2>3. raced \in BOOLEAN /\ \A e \in executed : FALSE
    BY <1>1
  <2> QED
    BY <2>1, <2>2, <2>3 DEF MigTypeOK
<1>6. AppTypeOK
  BY <1>1, <1>3, <1>5, AppAssumption DEF AppTypeOK
<1>7. SchemaInv
  BY <1>1, <1>2, <1>4 DEF SchemaInv
<1>8. LifeInv
  BY <1>2, <1>3, <1>4 DEF LifeInv
<1>9. RaceInv
  BY <1>2, <1>4 DEF RaceInv, Migrating
<1>10. SalesInv
  BY <1>1 DEF SalesInv, SeedsBeforeSales
<1> QED
  BY <1>6, <1>7, <1>8, <1>9, <1>10 DEF AppInv

\* The invariant holds throughout.
THEOREM AppInvariance == AppSpec => []AppInv
  BY AppStart, AppStep, PTL DEF AppSpec

\* Types of instances, database and migrations, for any files and instances.
THEOREM AppTypeCorrect == AppSpec => []AppTypeOK
<1>1. AppInv => AppTypeOK
  BY DEF AppInv
<1> QED
  BY <1>1, AppInvariance, PTL

\* An instance that listens or runs a loop (App.Start, MigrationComponent.Start) does so
\* on a schema in which every file is recorded and every statement was executed,
\* however many instances migrated at the same time, failed or crashed before.
THEOREM SchemaBeforeService == AppSpec => []ServesOnlyMigrated
<1>1. AppInv => ServesOnlyMigrated
  <2> SUFFICES ASSUME AppInv, NEW i \in Instances, app[i].on \intersect Served # {}
               PROVE  Migrated
    BY DEF ServesOnlyMigrated, Served
  <2>1. recorded = Versions
    BY DEF AppInv, LifeInv, LifeOK
  <2> QED
    BY <2>1 DEF AppInv, SchemaInv, Complete, Migrated
<1> QED
  BY <1>1, AppInvariance, PTL

\* Unless two instances migrate at the same time, no run of the migrator (Run,
\* applyFile), first or repeated after a crash, writes stock once something was sold.
THEOREM SeedsNeverTouchSales == AppSpec => []SeedsBeforeSales
<1>1. AppInv => SeedsBeforeSales
  BY DEF AppInv, SalesInv
<1> QED
  BY <1>1, AppInvariance, PTL

\* When all Stops have returned, after a signal or a failed start (App.stopReverse),
\* nothing that was started is left at work.
THEOREM StopLeavesNothing == AppSpec => []StopIsComplete
<1>1. AppInv => StopIsComplete
  BY DEF AppInv, LifeInv, LifeOK, StopIsComplete
<1> QED
  BY <1>1, AppInvariance, PTL

\* The step to "failed" of a migrator that met no error and did not race leaves a
\* file torn.
LEMMA FailureHasCause ==
  ASSUME AppInv, [AppNext]_allVars, NEW i \in Instances,
         mig[i].pc # "failed", mig'[i].pc = "failed"
  PROVE  app'[i].hurt \/ raced \/ Torn'
<1>t. mig \in [Instances -> RunStates] /\ app \in [Instances -> AppStates]
  BY Before
<1>o. \A j \in Instances : \A m : j # i /\ RunAt(j, m) => mig'[i] = mig[i]
  BY <1>t DEF RunAt
<1>1. mig' # mig
  OBVIOUS
<1>2. PICK j \in Instances :
         Migrate(j) \/ MigrateError(j) \/ MigrationDone(j) \/ MigrationFails(j) \/ Crash(j)
  BY <1>1 DEF AppNext, Progress, allVars, migVars, dbVars, Boot, StartClient, StartLoop, Listen,
     StartOf, Signal, CloseClient, StopLoop, StopOf, CloseListener, ShutdownReturns, Exit,
     Accept, Claim, StartError
<1>3. j = i
  BY <1>2, <1>o DEF Migrate, MigrateError, Run, RunError, Load, LoadError, Exec, ExecError,
     Record, RecordError, RunFails, MigrationDone, MigrationFails, Crash
<1>4. CASE MigrateError(i)
  <2>1. app' = [app EXCEPT ![i] = [app[i] EXCEPT !.hurt = TRUE]]
    BY <1>4 DEF MigrateError, Set
  <2>2. app[i] \in AppStates
    BY <1>t
  <2> QED
    BY <2>1, <2>2, <1>t DEF AppStates
<1>5. ASSUME RunAt(i, IdleRun) PROVE FALSE
  BY <1>5, <1>t DEF RunAt, IdleRun
<1>6. ASSUME Load(i) PROVE FALSE
  <2>1. mig'[i] = Onward(recorded, 0)
    BY <1>6, <1>t DEF Load, RunAt
  <2>2. Onward(recorded, 0).pc \in {"exec", "done"}
    BY Before, OnwardMeans
  <2> QED
    BY <2>1, <2>2
<1>7. CASE ~raced /\ Exec(i)
  <2> DEFINE v == mig[i].v
             k == mig[i].k
  <2>1. mig[i] \in RunStates /\ RunOK(mig[i], recorded, executed) /\ mig[i].pc = "exec" /\ Migrating(i)
    BY <1>7, Before DEF Exec, Migrating
  <2>2. v \in Versions /\ k \in DOMAIN Files[v]
    BY <2>1 DEF RunOK
  <2>3. ~Possible(v, k)
    <3> SUFFICES ASSUME Possible(v, k) PROVE FALSE
      OBVIOUS
    <3>1. RunAt(i, IF k < Len(Files[v]) THEN [mig[i] EXCEPT !.k = k + 1] ELSE [mig[i] EXCEPT !.pc = "record"])
      BY <1>7 DEF Exec
    <3>2. mig'[i] = [mig[i] EXCEPT !.k = k + 1] \/ mig'[i] = [mig[i] EXCEPT !.pc = "record"]
      BY <3>1, <1>t DEF RunAt
    <3> QED
      BY <3>2, <2>1 DEF RunStates
  <2>4. Files[v][k] = "once" /\ <<v, k>> \in executed
    BY <2>3 DEF Possible
  <2>5. /\ executed' = executed /\ recorded' = recorded
        /\ mig' = [mig EXCEPT ![i] = [mig[i] EXCEPT !.pc = "failed"]]
    BY <1>7, <2>3 DEF Exec, RunFails, RunAt
  <2>6. v \notin recorded /\ \A j1 \in Instances : Migrating(j1) => j1 = i
    BY <1>7, <2>1 DEF AppInv, RaceInv
  <2>7. \A j1 \in Instances : ~Migrating(j1)'
    BY <2>1, <2>5, <2>6, <1>t DEF Migrating, RunStates
  <2> HIDE DEF v, k
  <2>8. Torn'
    BY <2>2, <2>4, <2>5, <2>6, <2>7 DEF Torn
  <2> QED
    BY <2>8
<1>8. CASE ~raced /\ Record(i)
  <2>1. Migrating(i) /\ mig[i].v \notin recorded
    BY <1>8 DEF Record, Migrating, AppInv, RaceInv
  <2>2. mig'[i] = Onward(mig[i].view, mig[i].v)
    BY <2>1, <1>8, <1>t DEF Record, RunAt
  <2>3. mig[i].view \in SUBSET Versions /\ mig[i].v \in Versions \union {0}
    BY <1>t DEF RunStates
  <2>4. Onward(mig[i].view, mig[i].v).pc \in {"exec", "done"}
    BY <2>3, OnwardMeans
  <2> QED
    BY <2>2, <2>4
<1> QED
  BY <1>2, <1>3, <1>4, <1>5, <1>6, <1>7, <1>8 DEF Migrate, Run, MigrationDone, MigrationFails, Crash

\* A migration (Run) is refused only for a cause: an error in it, a race, or a torn file.
THEOREM MigrationFailureExplained == AppSpec => MigrationFailsForCause
<1>1. AppInv /\ [AppNext]_allVars =>
         [\A i \in Instances :
             mig[i].pc # "failed" /\ mig'[i].pc = "failed" => app'[i].hurt \/ raced \/ Torn']_allVars
  BY FailureHasCause
<1> QED
  BY <1>1, AppInvariance, PTL DEF AppSpec, MigrationFailsForCause
=============================================================================
