---------------------------- MODULE StartupProofs ----------------------------
(***************************************************************************)
(* For any instances, binaries and environments, and wherever a process or *)
(* a statement fails: what an instance reads under the advisory lock stays *)
(* true while it migrates, migrations are applied in order, and an         *)
(* instance that is ready has its own schema and its admin key in place.   *)
(***************************************************************************)
EXTENDS Startup, TLAPS

(***************************************************************************)
(* The inductive invariant.  An instance trusts what it read of            *)
(* schema_migrations for as long as it migrates, which is right because    *)
(* only the holder of the lock writes there, and because the lock and the  *)
(* label of its holder change in one step, also when the holder fails.     *)
(***************************************************************************)

Seeding == {"server", "demo", "insertFlag", "insertConfig", "ready"}

KeyRow ==
  [kind : {"admin"}, env : {None}, hash : AdminKeys]
    \cup [kind : {"server"}, env : Envs, hash : ServerKeys]

TypeOK ==
  /\ applied \in [Versions -> Checksums \cup {None}]
  /\ lock \in Instances \cup {None}
  /\ apiKeys \subseteq KeyRow
  /\ demoFlag \in BOOLEAN /\ demoConfigs \subseteq Envs
  /\ deployment \in [Instances -> Deployments \cup {None}]
  /\ pc \in [Instances -> Working \cup {"down", "ready", "failed"}]
  /\ known \in [Instances -> [Versions -> Checksums \cup {None}]]
  /\ next \in [Instances -> Nat \ {0}]
  /\ crashes \in Nat
  /\ \A i \in Instances : pc[i] # "down" => deployment[i] \in Deployments

\* The lock is held exactly while an instance reads and migrates.
LockHeld == \A i \in Instances : lock = i <=> pc[i] \in {"reading", "migrating"}

\* The migrations behind the loop are in place, those ahead are as they were read.
Migrating(i) ==
  \A n \in DOMAIN Migrations(i) :
    applied[Migrations(i)[n].version] =
      IF n < next[i] THEN Migrations(i)[n].checksum ELSE known[i][Migrations(i)[n].version]

Migrated(i) ==
  \A n \in DOMAIN Migrations(i) : applied[Migrations(i)[n].version] = Migrations(i)[n].checksum

HasAdminKey(i) == \E k \in apiKeys : k.kind = "admin" /\ k.hash = deployment[i].admin

Progress(i) ==
  /\ pc[i] = "migrating" => Migrating(i)
  /\ pc[i] \in Seeding \cup {"admin"} => Migrated(i)
  /\ pc[i] \in Seeding => HasAdminKey(i)

StartupInv == TypeOK /\ LockHeld /\ AppliedInOrder /\ \A i \in Instances : Progress(i)

-----------------------------------------------------------------------------
(* Types.                                                                  *)

\* What the migrations of a binary are: files of known versions, each once, in order.
LEMMA MigrationFiles ==
  ASSUME NEW d \in Deployments
  PROVE  /\ Len(d.migrations) \in Nat /\ DOMAIN d.migrations = 1 .. Len(d.migrations)
         /\ \A n \in DOMAIN d.migrations :
              /\ d.migrations[n].version \in Versions
              /\ d.migrations[n].checksum \in Checksums /\ d.migrations[n].checksum # None
<1>1. d.migrations \in Seq(Migration)
  BY StartupAssumption DEF StartupAssumption
<1>2. \A n \in 1 .. Len(d.migrations) : d.migrations[n] \in Migration
  BY <1>1
<1> QED BY <1>1, <1>2, StartupAssumption DEF StartupAssumption, Migration

LEMMA TypeInit == Init => TypeOK
<1> SUFFICES ASSUME Init PROVE TypeOK
  OBVIOUS
<1>1. Unread \in [Versions -> Checksums \cup {None}] /\ applied = Unread
  BY DEF Init, Unread
<1>2. 1 \in Nat \ {0} /\ 0 \in Nat
  OBVIOUS
<1> QED BY <1>1, <1>2 DEF Init, TypeOK

LEMMA EnsureType ==
  ASSUME TypeOK, NEW row \in KeyRow, Ensure(row)
  PROVE  /\ apiKeys' \subseteq KeyRow
         /\ apiKeys \subseteq apiKeys'
         /\ \E k \in apiKeys' : k.hash = row.hash
  BY DEF Ensure, TypeOK

LEMMA TypeStep == TypeOK /\ [Next]_vars => TypeOK'
<1> SUFFICES ASSUME TypeOK, [Next]_vars PROVE TypeOK'
  OBVIOUS
<1> USE DEF TypeOK, Goto, At, schema, seeds
<1>1. CASE UNCHANGED vars
  BY <1>1 DEF vars
<1>2. ASSUME NEW i \in Instances PROVE Unlocked(i) \in Instances \cup {None}
  BY DEF Unlocked
<1>3. ASSUME NEW i \in Instances, Boot(i) PROVE TypeOK'
  BY <1>3 DEF Boot, Working
<1>4. ASSUME NEW i \in Instances, Fail(i), pc[i] # "down" PROVE TypeOK'
  BY <1>2, <1>4 DEF Fail
<1>5. ASSUME NEW i \in Instances,
             LockTimeout(i) \/ ChecksumMismatch(i) \/ BadAdminKey(i) \/ BadServerKey(i)
      PROVE  TypeOK'
  BY <1>4, <1>5 DEF LockTimeout, ChecksumMismatch, BadAdminKey, BadServerKey, InLoop, ServerLoop
<1>6. ASSUME NEW i \in Instances, StatementFails(i) \/ Crash(i) PROVE TypeOK'
  <2>1. pc[i] # "down"
    BY <1>6 DEF StatementFails, Crash, Working
  <2>2. crashes' \in Nat /\ lock' \in Instances \cup {None}
    BY <1>2, <1>6 DEF StatementFails, Crash
  <2>3. \/ pc' = [pc EXCEPT ![i] = "failed"]
        \/ pc' = [pc EXCEPT ![i] = "down"]
    BY <1>6 DEF StatementFails, Crash
  <2>4. next' = [next EXCEPT ![i] = 1] /\ UNCHANGED <<applied, seeds, deployment, known>>
    BY <1>6 DEF StatementFails, Crash
  <2> QED BY <2>1, <2>2, <2>3, <2>4
<1>7. ASSUME NEW i \in Instances, Lock(i) \/ ReadApplied(i) \/ Unlock(i) PROVE TypeOK'
  <2>1. CASE Lock(i)
    BY <2>1 DEF Lock, Working
  <2>2. CASE ReadApplied(i)
    BY <2>2 DEF ReadApplied, Working
  <2>3. CASE Unlock(i)
    BY <1>2, <2>3 DEF Unlock, Working
  <2> QED BY <1>7, <2>1, <2>2, <2>3
<1>8. ASSUME NEW i \in Instances, Skip(i) PROVE TypeOK'
  BY <1>8 DEF Skip, NextMigration
<1>9. ASSUME NEW i \in Instances, Apply(i) PROVE TypeOK'
  <2>1. /\ pc[i] = "migrating" /\ deployment[i] \in Deployments
        /\ next[i] \in DOMAIN deployment[i].migrations
    BY <1>9, MigrationFiles DEF Apply, InLoop, Migrations
  <2>2. Current(i).version \in Versions /\ Current(i).checksum \in Checksums
    BY <2>1, MigrationFiles DEF Current, Migrations
  <2> QED BY <1>9, <2>2 DEF Apply, NextMigration
<1>10. ASSUME NEW i \in Instances, SeedAdmin(i) PROVE TypeOK'
  <2>1. [kind |-> "admin", env |-> None, hash |-> deployment[i].admin]
          \in KeyRow
    BY <1>10 DEF SeedAdmin, KeyRow
  <2>2. apiKeys' \subseteq KeyRow
    BY <1>10, <2>1, EnsureType DEF SeedAdmin
  <2> QED BY <1>10, <2>2 DEF SeedAdmin, Working
<1>11. ASSUME NEW i \in Instances, SeedServer(i) PROVE TypeOK'
  <2>1. apiKeys' \subseteq KeyRow
    <3>1. CASE ServerKey(i) = None
      BY <1>11, <3>1 DEF SeedServer
    <3>2. CASE ServerKey(i) # None
      <4>1. EnvSeq[next[i]] \in Envs
        BY <1>11, StartupAssumption DEF StartupAssumption, SeedServer, ServerLoop, Envs
      <4>2. [kind |-> "server", env |-> EnvSeq[next[i]], hash |-> ServerKey(i)]
              \in KeyRow
        BY <1>11, <3>2, <4>1 DEF SeedServer, KeyRow
      <4> QED BY <1>11, <3>2, <4>2, EnsureType DEF SeedServer
    <3> QED BY <3>1, <3>2
  <2> QED BY <1>11, <2>1 DEF SeedServer
<1>12. ASSUME NEW i \in Instances,
              ServerSeeded(i) \/ FindDemo(i) \/ InsertDemo(i) \/ DemoSeeded(i)
       PROVE  TypeOK'
  <2>1. CASE ServerSeeded(i)
    BY <2>1 DEF ServerSeeded, Working
  <2>2. CASE FindDemo(i)
    BY <2>2 DEF FindDemo, Working
  <2>3. CASE InsertDemo(i)
    BY <2>3 DEF InsertDemo, Working
  <2>4. CASE DemoSeeded(i)
    BY <2>4 DEF DemoSeeded, Working
  <2> QED BY <1>12, <2>1, <2>2, <2>3, <2>4
<1>13. ASSUME NEW i \in Instances, InsertDemoConfig(i) PROVE TypeOK'
  <2>1. EnvSeq[next[i]] \in Envs
    BY <1>13, StartupAssumption DEF StartupAssumption, InsertDemoConfig, Envs
  <2> QED BY <1>13, <2>1 DEF InsertDemoConfig
<1> QED
  BY <1>1, <1>3, <1>5, <1>6, <1>7, <1>8, <1>9, <1>10, <1>11, <1>12, <1>13 DEF Next, Step
-----------------------------------------------------------------------------
(* The steps of one instance, seen by the others.                          *)

Moves(i) == Boot(i) \/ Step(i) \/ LockTimeout(i) \/ StatementFails(i) \/ Crash(i)

\* A step of i leaves the others where they are and takes nothing away: only Apply
\* writes schema_migrations, and the lock passes between nobody and i.
LEMMA OwnSteps ==
  ASSUME TypeOK, NEW i \in Instances, Moves(i)
  PROVE  /\ \A j \in Instances \ {i} :
              /\ pc'[j] = pc[j] /\ next'[j] = next[j]
              /\ deployment'[j] = deployment[j] /\ known'[j] = known[j]
              /\ lock' = j <=> lock = j
         /\ apiKeys \subseteq apiKeys'
         /\ applied' = applied \/ Apply(i)
<1> USE DEF TypeOK, Goto, schema, seeds
<1>0. \A j \in Instances \ {i} : j # None
  BY StartupAssumption DEF StartupAssumption
<1>1. CASE Boot(i)
  BY <1>0, <1>1 DEF Boot
<1>2. CASE Fail(i)
  BY <1>0, <1>2 DEF Fail, Unlocked
<1>3. CASE LockTimeout(i) \/ ChecksumMismatch(i) \/ BadAdminKey(i) \/ BadServerKey(i)
  BY <1>2, <1>3 DEF LockTimeout, ChecksumMismatch, BadAdminKey, BadServerKey
<1>4. CASE StatementFails(i) \/ Crash(i)
  BY <1>0, <1>4 DEF StatementFails, Crash, Unlocked
<1>5. CASE Lock(i) \/ ReadApplied(i) \/ Unlock(i)
  <2>1. CASE Lock(i)
    BY <1>0, <2>1 DEF Lock
  <2>2. CASE ReadApplied(i)
    BY <1>0, <2>2 DEF ReadApplied
  <2>3. CASE Unlock(i)
    BY <1>0, <2>3 DEF Unlock, Unlocked
  <2> QED BY <1>5, <2>1, <2>2, <2>3
<1>6. CASE Skip(i) \/ Apply(i)
  BY <1>0, <1>6 DEF Skip, Apply, NextMigration
<1>7. CASE SeedAdmin(i)
  BY <1>0, <1>7 DEF SeedAdmin, Ensure
<1>8. CASE SeedServer(i)
  BY <1>0, <1>8 DEF SeedServer, Ensure
<1>9. CASE ServerSeeded(i) \/ FindDemo(i) \/ InsertDemo(i) \/ InsertDemoConfig(i) \/ DemoSeeded(i)
  <2>1. CASE ServerSeeded(i)
    BY <1>0, <2>1 DEF ServerSeeded
  <2>2. CASE FindDemo(i)
    BY <1>0, <2>2 DEF FindDemo
  <2>3. CASE InsertDemo(i)
    BY <1>0, <2>3 DEF InsertDemo
  <2>4. CASE InsertDemoConfig(i) \/ DemoSeeded(i)
    BY <1>0, <2>4 DEF InsertDemoConfig, DemoSeeded
  <2> QED BY <1>9, <2>1, <2>2, <2>3, <2>4
<1> QED BY <1>1, <1>3, <1>4, <1>5, <1>6, <1>7, <1>8, <1>9 DEF Moves, Step

\* What an instance has of its migrations and its key survives the steps of others.
LEMMA OthersProgress ==
  ASSUME StartupInv, NEW i \in Instances, Moves(i), NEW j \in Instances \ {i}
  PROVE  Progress(j)' /\ (lock' = j <=> pc'[j] \in {"reading", "migrating"})
<1>1. /\ pc'[j] = pc[j] /\ next'[j] = next[j]
      /\ deployment'[j] = deployment[j] /\ known'[j] = known[j]
      /\ apiKeys \subseteq apiKeys' /\ TypeOK /\ Progress(j)
  BY OwnSteps DEF StartupInv
<1>2. lock' = j <=> lock = j
  BY OwnSteps, StartupAssumption DEF StartupAssumption, StartupInv
<1>3. CASE applied' = applied
  BY <1>1, <1>2, <1>3 DEF StartupInv, LockHeld, Progress, Migrating, Migrated, HasAdminKey, Migrations
<1>4. CASE Apply(i)
  <2>1. pc[j] # "migrating"
    BY <1>4 DEF Apply, InLoop, At, StartupInv, LockHeld
  <2>2. ASSUME pc[j] # "down", Migrated(j) PROVE Migrated(j)'
    <3> SUFFICES ASSUME NEW n \in DOMAIN Migrations(j)
                 PROVE  applied'[Migrations(j)[n].version] = Migrations(j)[n].checksum
      BY <1>1 DEF Migrated, Migrations
    <3>1. applied[Migrations(j)[n].version] = Migrations(j)[n].checksum
      BY <2>2 DEF Migrated
    <3>2. Migrations(j)[n].checksum # None
      BY <1>1, <2>2, MigrationFiles DEF Migrations, TypeOK
    <3>3. Migrations(j)[n].version # Current(i).version
      BY <1>4, <3>1, <3>2 DEF Apply
    <3> QED BY <1>1, <1>4, <3>1, <3>3 DEF Apply, TypeOK
  <2> QED
    BY <1>1, <1>2, <2>1, <2>2 DEF StartupInv, LockHeld, Progress, HasAdminKey, Seeding
<1> QED BY <1>1, <1>3, <1>4, OwnSteps

-----------------------------------------------------------------------------
(* The steps of one instance, for itself.                                  *)

OwnProgress(i) == Progress(i) /\ (lock = i <=> pc[i] \in {"reading", "migrating"})

\* Startup is given up, or the process dies: the lock goes with the session.
LEMMA GivingUp ==
  ASSUME TypeOK, NEW i \in Instances, lock' = Unlocked(i),
         pc' = [pc EXCEPT ![i] = "failed"] \/ pc' = [pc EXCEPT ![i] = "down"]
  PROVE  OwnProgress(i)'
<1>1. lock' # i
  BY StartupAssumption DEF StartupAssumption, Unlocked
<1>2. pc'[i] \in {"failed", "down"}
  BY DEF TypeOK
<1> QED BY <1>1, <1>2 DEF OwnProgress, Progress, Seeding

\* The loop over the migrations: one step further, with the present one in place.
LEMMA LoopStep ==
  ASSUME TypeOK, NEW i \in Instances, InLoop(i), Migrating(i), NextMigration(i),
         applied'[Current(i).version] = Current(i).checksum,
         \A n \in DOMAIN Migrations(i) :
           n # next[i] => applied'[Migrations(i)[n].version] = applied[Migrations(i)[n].version]
  PROVE  Migrating(i)'
<1>1. /\ next'[i] = next[i] + 1 /\ next[i] \in Nat \ {0}
      /\ UNCHANGED <<deployment, known>>
      /\ DOMAIN Migrations(i) = 1 .. Len(Migrations(i))
  BY MigrationFiles DEF NextMigration, TypeOK, InLoop, At, Migrations
<1> SUFFICES ASSUME NEW n \in DOMAIN Migrations(i)
             PROVE  applied'[Migrations(i)[n].version] =
                      IF n < next'[i] THEN Migrations(i)[n].checksum
                      ELSE known[i][Migrations(i)[n].version]
  BY <1>1 DEF Migrating, Migrations
<1>2. CASE n = next[i]
  BY <1>1, <1>2 DEF Current
<1>3. CASE n # next[i]
  <2>1. n < next'[i] <=> n < next[i]
    BY <1>1, <1>3, MigrationFiles
  <2> QED BY <1>3, <2>1 DEF Migrating
<1> QED BY <1>2, <1>3

LEMMA OwnStep ==
  ASSUME StartupInv, NEW i \in Instances, Moves(i)
  PROVE  OwnProgress(i)'
<1> USE DEF OwnProgress, Progress, At, Goto, schema, seeds, Seeding
<1>1. TypeOK /\ Progress(i) /\ (lock = i <=> pc[i] \in {"reading", "migrating"})
  BY DEF StartupInv, LockHeld
<1>2. i # None
  BY StartupAssumption DEF StartupAssumption
<1>3. CASE Boot(i)
  BY <1>1, <1>3 DEF Boot, TypeOK
<1>4. CASE LockTimeout(i) \/ ChecksumMismatch(i) \/ BadAdminKey(i) \/ BadServerKey(i)
  BY <1>1, <1>4, GivingUp DEF LockTimeout, ChecksumMismatch, BadAdminKey, BadServerKey, Fail
<1>5. CASE StatementFails(i) \/ Crash(i)
  BY <1>1, <1>5, GivingUp DEF StatementFails, Crash
<1>6. CASE Lock(i)
  BY <1>1, <1>6 DEF Lock, TypeOK
<1>7. CASE ReadApplied(i)
  <2>1. /\ pc' = [pc EXCEPT ![i] = "migrating"] /\ next'[i] = 1 /\ known'[i] = applied
        /\ UNCHANGED <<applied, lock, deployment>> /\ pc[i] = "reading"
    BY <1>1, <1>7 DEF ReadApplied, TypeOK
  <2>2. \A n \in DOMAIN Migrations(i) : ~(n < 1)
    <3>1. deployment[i] \in Deployments
      BY <1>1, <2>1 DEF TypeOK
    <3>2. DOMAIN Migrations(i) = 1 .. Len(Migrations(i)) /\ Len(Migrations(i)) \in Nat
      BY <3>1, MigrationFiles DEF Migrations
    <3> QED BY <3>2
  <2>3. Migrating(i)'
    BY <2>1, <2>2 DEF Migrating, Migrations
  <2> QED BY <1>1, <2>1, <2>3 DEF TypeOK
<1>8. CASE Skip(i)
  <2>1. /\ InLoop(i) /\ Migrating(i) /\ NextMigration(i) /\ UNCHANGED applied
        /\ known[i][Current(i).version] = Current(i).checksum
    BY <1>1, <1>8 DEF Skip, InLoop
  <2>2. next[i] \in DOMAIN Migrations(i)
    BY <1>1, <2>1, MigrationFiles DEF InLoop, Migrations, TypeOK
  <2>3. applied'[Current(i).version] = Current(i).checksum
    BY <1>1, <2>1, <2>2 DEF Migrating, Current, TypeOK
  <2>4. Migrating(i)'
    BY <1>1, <2>1, <2>3, LoopStep
  <2> QED BY <1>1, <2>1, <2>4 DEF NextMigration, InLoop
<1>9. CASE Apply(i)
  <2>1. /\ InLoop(i) /\ Migrating(i) /\ NextMigration(i)
        /\ applied' = [applied EXCEPT ![Current(i).version] = Current(i).checksum]
    BY <1>1, <1>9 DEF Apply, InLoop
  <2>2. deployment[i] \in Deployments /\ next[i] \in DOMAIN Migrations(i)
    BY <1>1, <2>1, MigrationFiles DEF InLoop, Migrations, TypeOK
  <2>3. Current(i).version \in Versions
    BY <2>2, MigrationFiles DEF Current, Migrations
  <2>4. \A n \in DOMAIN Migrations(i) :
          n # next[i] => Migrations(i)[n].version # Current(i).version
    BY <2>2, StartupAssumption DEF StartupAssumption, Current, Migrations
  <2>5. Migrating(i)'
    BY <1>1, <2>1, <2>3, <2>4, LoopStep DEF TypeOK
  <2> QED BY <1>1, <2>1, <2>5 DEF NextMigration, InLoop
<1>10. CASE Unlock(i)
  <2>1. /\ pc[i] = "migrating" /\ Migrating(i) /\ pc' = [pc EXCEPT ![i] = "admin"]
        /\ next[i] > Len(Migrations(i)) /\ UNCHANGED <<applied, deployment>> /\ lock' = Unlocked(i)
    BY <1>1, <1>10 DEF Unlock
  <2>2. \A n \in DOMAIN Migrations(i) : n < next[i]
    <3>1. deployment[i] \in Deployments /\ next[i] \in Nat
      BY <1>1, <2>1 DEF TypeOK
    <3>2. Len(Migrations(i)) \in Nat /\ DOMAIN Migrations(i) = 1 .. Len(Migrations(i))
      BY <3>1, MigrationFiles DEF Migrations
    <3> QED BY <2>1, <3>1, <3>2
  <2>3. Migrated(i)'
    BY <2>1, <2>2 DEF Migrating, Migrated, Migrations
  <2> QED BY <1>1, <1>2, <2>1, <2>3 DEF Unlocked, TypeOK
<1>11. CASE SeedAdmin(i)
  <2> DEFINE row == [kind |-> "admin", env |-> None, hash |-> deployment[i].admin]
  <2>1. /\ pc[i] = "admin" /\ pc' = [pc EXCEPT ![i] = "server"] /\ Ensure(row)
        /\ UNCHANGED <<applied, lock, deployment>> /\ row.hash \in AdminKeys
    BY <1>11 DEF SeedAdmin
  <2>2. row \in KeyRow
    BY <2>1 DEF KeyRow
  <2>3. apiKeys' \subseteq KeyRow /\ \E k \in apiKeys' : k.hash = deployment[i].admin
    BY <1>1, <2>1, <2>2, EnsureType
  <2>4. \A k \in KeyRow : k.hash \in AdminKeys => k.kind = "admin"
    BY StartupAssumption DEF StartupAssumption, KeyRow
  <2>5. HasAdminKey(i)'
    BY <2>1, <2>3, <2>4 DEF HasAdminKey
  <2> QED BY <1>1, <2>1, <2>5 DEF Migrated, Migrations, TypeOK
<1>12. CASE SeedServer(i) \/ ServerSeeded(i) \/ FindDemo(i) \/ InsertDemo(i)
            \/ InsertDemoConfig(i) \/ DemoSeeded(i)
  <2>1. /\ pc[i] \in Seeding /\ pc'[i] \in Seeding /\ UNCHANGED <<applied, lock, deployment>>
    BY <1>1, <1>12
       DEF SeedServer, ServerLoop, ServerSeeded, FindDemo, InsertDemo, InsertDemoConfig, DemoSeeded, TypeOK
  <2>2. apiKeys \subseteq apiKeys'
    BY <1>1, OwnSteps
  <2> QED BY <1>1, <2>1, <2>2 DEF Migrated, Migrations, HasAdminKey
<1> QED
  BY <1>3, <1>4, <1>5, <1>6, <1>7, <1>8, <1>9, <1>10, <1>11, <1>12 DEF Moves, Step

-----------------------------------------------------------------------------
(* The invariant.                                                          *)

\* A migration is applied when all that come before it in its binary are.
LEMMA OrderStep ==
  ASSUME StartupInv, NEW i \in Instances, Moves(i)
  PROVE  AppliedInOrder'
<1>1. TypeOK /\ AppliedInOrder /\ Progress(i)
  BY DEF StartupInv
<1>2. CASE applied' = applied
  BY <1>1, <1>2 DEF AppliedInOrder
<1>3. CASE Apply(i)
  <2>1. /\ InLoop(i) /\ Migrating(i)
        /\ applied' = [applied EXCEPT ![Current(i).version] = Current(i).checksum]
    BY <1>1, <1>3 DEF Apply, InLoop, At, Progress
  <2>2. /\ deployment[i] \in Deployments /\ next[i] \in DOMAIN Migrations(i)
        /\ DOMAIN Migrations(i) = 1 .. Len(Migrations(i)) /\ Len(Migrations(i)) \in Nat
    BY <1>1, <2>1, MigrationFiles DEF InLoop, At, Migrations, TypeOK
  <2>3. Current(i).version \in Versions /\ Current(i).checksum # None
    BY <2>2, MigrationFiles DEF Current, Migrations
  <2>4. ASSUME NEW u \in Versions, u < Current(i).version PROVE applied[u] # None
    <3>1. PICK n \in 1 .. next[i] - 1 : Migrations(i)[n].version = u
      BY <2>2, <2>4, StartupAssumption DEF StartupAssumption, Current, Migrations
    <3>2. n \in DOMAIN Migrations(i) /\ n < next[i]
      BY <2>2, <3>1
    <3>3. applied[u] = Migrations(i)[n].checksum
      BY <2>1, <3>1, <3>2 DEF Migrating
    <3> QED BY <2>2, <3>2, <3>3, MigrationFiles DEF Migrations
  <2>5. \A v \in Versions :
          applied'[v] = IF v = Current(i).version THEN Current(i).checksum ELSE applied[v]
    BY <1>1, <2>1 DEF TypeOK
  <2>6. ASSUME NEW v \in Versions, applied'[v] # None, NEW u \in Versions, u < v
        PROVE  applied'[u] # None
    <3>1. CASE v = Current(i).version
      BY <2>3, <2>4, <2>5, <2>6, <3>1
    <3>2. CASE v # Current(i).version
      BY <1>1, <2>3, <2>5, <2>6, <3>2 DEF AppliedInOrder
    <3> QED BY <3>1, <3>2
  <2> QED BY <2>6 DEF AppliedInOrder
<1> QED BY <1>1, <1>2, <1>3, OwnSteps

LEMMA StartupInvHolds == Spec => []StartupInv
<1>1. Init => StartupInv
  <2> SUFFICES ASSUME Init PROVE StartupInv
    OBVIOUS
  <2>1. \A i \in Instances : pc[i] = "down" /\ lock # i
    BY StartupAssumption DEF StartupAssumption, Init
  <2>2. AppliedInOrder
    BY DEF Init, AppliedInOrder
  <2> QED BY <2>1, <2>2, TypeInit DEF StartupInv, LockHeld, Progress, Seeding
<1>2. StartupInv /\ [Next]_vars => StartupInv'
  <2> SUFFICES ASSUME StartupInv, [Next]_vars PROVE StartupInv'
    OBVIOUS
  <2>1. TypeOK'
    BY TypeStep DEF StartupInv
  <2>2. CASE UNCHANGED vars
    BY <2>1, <2>2 DEF vars, StartupInv, LockHeld, AppliedInOrder, Progress, Migrating, Migrated,
                      HasAdminKey, Migrations
  <2>3. CASE Next
    <3>1. PICK i \in Instances : Moves(i)
      BY <2>3 DEF Next, Moves
    <3>2. OwnProgress(i)' /\ AppliedInOrder'
      BY <3>1, OwnStep, OrderStep
    <3>3. \A j \in Instances \ {i} : Progress(j)' /\ (lock' = j <=> pc'[j] \in {"reading", "migrating"})
      BY <3>1, OthersProgress
    <3> QED BY <2>1, <3>2, <3>3 DEF StartupInv, LockHeld, OwnProgress
  <2> QED BY <2>2, <2>3
<1> QED BY <1>1, <1>2, PTL DEF Spec

-----------------------------------------------------------------------------
(* What it comes to.                                                       *)

\* What an instance read of schema_migrations under the lock stays true for the
\* migrations still ahead of it, whatever other instances do or leave behind.
THEOREM ReadStaysTrueHolds == Spec => []ReadStaysTrue
<1>1. StartupInv => ReadStaysTrue
  <2> SUFFICES ASSUME StartupInv, NEW i \in Instances, InLoop(i),
                      NEW n \in next[i] .. Len(Migrations(i))
               PROVE  applied[Migrations(i)[n].version] = known[i][Migrations(i)[n].version]
    BY DEF ReadStaysTrue
  <2>1. /\ Migrating(i) /\ deployment[i] \in Deployments /\ next[i] \in Nat \ {0}
    BY DEF StartupInv, Progress, InLoop, At, TypeOK
  <2>2. n \in DOMAIN Migrations(i) /\ ~(n < next[i])
    BY <2>1, MigrationFiles DEF Migrations
  <2> QED BY <2>1, <2>2 DEF Migrating
<1> QED BY <1>1, StartupInvHolds, PTL

\* No crash or failure leaves a migration applied without the ones before it.
THEOREM AppliedInOrderHolds == Spec => []AppliedInOrder
<1>1. StartupInv => AppliedInOrder
  BY DEF StartupInv
<1> QED BY <1>1, StartupInvHolds, PTL

\* An instance that answers 200 on /readyz runs on its own schema, every checksum
\* checked, and with its admin key stored as one.
THEOREM ReadyMeansMigratedHolds == Spec => []ReadyMeansMigrated
<1>1. StartupInv => ReadyMeansMigrated
  BY DEF StartupInv, Progress, Seeding, Migrated, HasAdminKey, ReadyMeansMigrated
<1> QED BY <1>1, StartupInvHolds, PTL
=============================================================================
