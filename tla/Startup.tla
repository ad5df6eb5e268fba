------------------------------- MODULE Startup -------------------------------
(***************************************************************************)
(* The startup of server instances that share one Postgres database: each  *)
(* listens, migrates the schema under a session advisory lock, seeds the   *)
(* API keys and the demo flag, and only then reports ready.  Instances     *)
(* crash and come back, possibly as another deployment.                    *)
(***************************************************************************)
EXTENDS Naturals, Sequences, FiniteSets

CONSTANTS
  Instances,
  Deployments,   \* what an instance may be started as: its binary and its environment
  Versions,      \* migration versions
  Checksums,     \* of their SQL
  EnvSeq,        \* ENVIRONMENTS
  AdminKeys,     \* raw keys of ADMIN_KEY_SHAPE
  ServerKeys,    \* raw keys of SERVER_KEY_SHAPE
  None,          \* unset, absent
  MaxCrashes     \* bound on crashes, for model checking

Envs == {EnvSeq[i] : i \in DOMAIN EnvSeq}

Migration == [version : Versions, checksum : Checksums]

ASSUME StartupAssumption ==
  /\ None \notin Instances \cup Checksums
  \* A key starts with fs_admin_ or with fs_server_.
  /\ AdminKeys \cap ServerKeys = {} /\ None \notin AdminKeys \cup ServerKeys
  /\ EnvSeq \in Seq(Envs) /\ MaxCrashes \in Nat
  /\ \A d \in Deployments :
       /\ d.migrations \in Seq(Migration)
       \* A binary lists its migrations by version, each once, and leaves none out.
       /\ \A i, j \in DOMAIN d.migrations :
            d.migrations[i].version = d.migrations[j].version => i = j
       /\ \A i \in DOMAIN d.migrations, u \in Versions :
            u < d.migrations[i].version => \E j \in 1 .. i - 1 : d.migrations[j].version = u
       /\ d.demo \in BOOLEAN /\ DOMAIN d.server = Envs

VARIABLES
  applied,      \* schema_migrations: the checksum recorded for a version, or None
  lock,         \* the session that holds the advisory lock
  apiKeys,      \* rows of api_keys
  demoFlag,     \* the demo flag has a row in flags
  demoConfigs,  \* the environments it has a row for in flag_configs
  deployment,   \* what an instance was started as
  pc,           \* where its startup is
  known,        \* the applied migrations it read
  next,         \* index of its loop over migrations or environments
  crashes

schema == <<applied, lock>>
seeds == <<apiKeys, demoFlag, demoConfigs>>
vars == <<applied, lock, apiKeys, demoFlag, demoConfigs, deployment, pc, known, next, crashes>>

Working == {"locking", "reading", "migrating", "admin", "server", "demo", "insertFlag", "insertConfig"}
Unread == [v \in Versions |-> None]

Init ==
  /\ applied = [v \in Versions |-> None]
  /\ lock = None
  /\ apiKeys = {} /\ demoFlag = FALSE /\ demoConfigs = {}
  /\ deployment = [i \in Instances |-> None]
  /\ pc = [i \in Instances |-> "down"]
  /\ known = [i \in Instances |-> Unread]
  /\ next = [i \in Instances |-> 1]
  /\ crashes = 0

At(i, label) == pc[i] = label

Goto(i, label) == pc' = [pc EXCEPT ![i] = label] /\ next' = [next EXCEPT ![i] = 1]
Unlocked(i) == IF lock = i THEN None ELSE lock

\* start() rejects: withLock unlocks and lockClient.end() closes the session on the
\* way out.  The process keeps its socket and answers 503 on /readyz from then on.
Fail(i) ==
  /\ Goto(i, "failed")
  /\ lock' = Unlocked(i)
  /\ UNCHANGED <<applied, seeds, deployment, known, crashes>>

\* The process is started; it listens before it does anything else.
Boot(i) ==
  /\ At(i, "down")
  /\ \E d \in Deployments : deployment' = [deployment EXCEPT ![i] = d]
  /\ Goto(i, "locking")
  /\ UNCHANGED <<schema, seeds, known, crashes>>

-----------------------------------------------------------------------------
(* migrate(), under withLock.                                              *)

\* Mutant: pg_try_advisory_lock, its answer ignored.
LockUnheeded(i) ==
  /\ At(i, "locking")
  /\ lock' = IF lock = None THEN i ELSE lock
  /\ Goto(i, "reading")
  /\ UNCHANGED <<applied, seeds, deployment, known, crashes>>

Lock(i) ==
  /\ At(i, "locking") /\ lock = None
  /\ lock' = i
  /\ Goto(i, "reading")
  /\ UNCHANGED <<applied, seeds, deployment, known, crashes>>

\* lock_timeout = '30s' applies to the advisory lock.
LockTimeout(i) == At(i, "locking") /\ lock # None /\ Fail(i)

ReadApplied(i) ==
  /\ At(i, "reading")
  /\ known' = [known EXCEPT ![i] = applied]
  /\ Goto(i, "migrating")
  /\ UNCHANGED <<schema, seeds, deployment, crashes>>

Migrations(i) == deployment[i].migrations
Current(i) == Migrations(i)[next[i]]
InLoop(i) == At(i, "migrating") /\ next[i] <= Len(Migrations(i))

NextMigration(i) ==
  /\ next' = [next EXCEPT ![i] = @ + 1]
  /\ UNCHANGED <<lock, seeds, deployment, pc, known, crashes>>

\* Mutant: an applied migration is skipped whatever its checksum.
SkipUnchecked(i) ==
  /\ InLoop(i) /\ known[i][Current(i).version] # None
  /\ NextMigration(i) /\ UNCHANGED applied

Skip(i) ==
  /\ InLoop(i) /\ known[i][Current(i).version] = Current(i).checksum
  /\ NextMigration(i) /\ UNCHANGED applied

ChecksumMismatch(i) ==
  /\ InLoop(i)
  /\ known[i][Current(i).version] \notin {None, Current(i).checksum}
  /\ Fail(i)

\* applyMigration: the DDL and its schema_migrations row in one transaction.  The DDL
\* would fail on tables that are already there.
Apply(i) ==
  /\ InLoop(i) /\ known[i][Current(i).version] = None
  /\ applied[Current(i).version] = None
  /\ applied' = [applied EXCEPT ![Current(i).version] = Current(i).checksum]
  /\ NextMigration(i)

Unlock(i) ==
  /\ At(i, "migrating") /\ next[i] > Len(Migrations(i))
  /\ lock' = Unlocked(i)
  /\ Goto(i, "admin")
  /\ UNCHANGED <<applied, seeds, deployment, known, crashes>>

-----------------------------------------------------------------------------
(* The seeds.                                                              *)

\* ON CONFLICT (key_hash) DO NOTHING
Ensure(row) ==
  apiKeys' = IF \E k \in apiKeys : k.hash = row.hash THEN apiKeys ELSE apiKeys \cup {row}

SeedAdmin(i) ==
  /\ At(i, "admin") /\ deployment[i].admin \in AdminKeys
  /\ Ensure([kind |-> "admin", env |-> None, hash |-> deployment[i].admin])
  /\ Goto(i, "server")
  /\ UNCHANGED <<schema, demoFlag, demoConfigs, deployment, known, crashes>>

\* Unset or malformed: MissingAdminApiKeyError, MalformedAdminApiKeyError.
BadAdminKey(i) == At(i, "admin") /\ deployment[i].admin \notin AdminKeys /\ Fail(i)

ServerKey(i) == deployment[i].server[EnvSeq[next[i]]]
ServerLoop(i) == At(i, "server") /\ next[i] <= Len(EnvSeq)

\* An unset key is skipped; a malformed one fails the startup.
SeedServer(i) ==
  /\ ServerLoop(i) /\ ServerKey(i) \in ServerKeys \cup {None}
  /\ IF ServerKey(i) = None THEN UNCHANGED apiKeys
     ELSE Ensure([kind |-> "server", env |-> EnvSeq[next[i]], hash |-> ServerKey(i)])
  /\ next' = [next EXCEPT ![i] = @ + 1]
  /\ UNCHANGED <<schema, demoFlag, demoConfigs, deployment, pc, known, crashes>>

BadServerKey(i) == ServerLoop(i) /\ ServerKey(i) \notin ServerKeys \cup {None} /\ Fail(i)

ServerSeeded(i) ==
  /\ At(i, "server") /\ next[i] > Len(EnvSeq)
  /\ Goto(i, IF deployment[i].demo THEN "demo" ELSE "ready")
  /\ UNCHANGED <<schema, seeds, deployment, known, crashes>>

FindDemo(i) ==
  /\ At(i, "demo")
  /\ Goto(i, IF demoFlag THEN "ready" ELSE "insertFlag")
  /\ UNCHANGED <<schema, seeds, deployment, known, crashes>>

\* createFlag on the pool: every INSERT commits by itself; DuplicateKeyError is swallowed.
InsertDemo(i) ==
  /\ At(i, "insertFlag")
  /\ demoFlag' = TRUE
  /\ Goto(i, IF demoFlag THEN "ready" ELSE "insertConfig")
  /\ UNCHANGED <<schema, apiKeys, demoConfigs, deployment, known, crashes>>

InsertDemoConfig(i) ==
  /\ At(i, "insertConfig") /\ next[i] <= Len(EnvSeq)
  /\ demoConfigs' = demoConfigs \cup {EnvSeq[next[i]]}
  /\ next' = [next EXCEPT ![i] = @ + 1]
  /\ UNCHANGED <<schema, apiKeys, demoFlag, deployment, pc, known, crashes>>

DemoSeeded(i) ==
  /\ At(i, "insertConfig") /\ next[i] > Len(EnvSeq)
  /\ Goto(i, "ready")
  /\ UNCHANGED <<schema, seeds, deployment, known, crashes>>

-----------------------------------------------------------------------------
\* Mutant: a migration whose statement failed is left behind and the loop goes on.
StatementFailsSkipping(i) ==
  /\ At(i, "migrating") /\ InLoop(i)
  /\ crashes < MaxCrashes /\ crashes' = crashes + 1
  /\ next' = [next EXCEPT ![i] = @ + 1]
  /\ UNCHANGED <<schema, seeds, deployment, pc, known>>

\* A statement fails, its transaction is rolled back, start() rejects.
StatementFails(i) ==
  /\ pc[i] \in Working
  /\ crashes < MaxCrashes /\ crashes' = crashes + 1
  /\ Goto(i, "failed")
  /\ lock' = Unlocked(i)
  /\ UNCHANGED <<applied, seeds, deployment, known>>

\* Mutant: the lock outlives the session that took it.
CrashHolding(i) ==
  /\ pc[i] # "down"
  /\ crashes < MaxCrashes /\ crashes' = crashes + 1
  /\ Goto(i, "down")
  /\ UNCHANGED <<schema, seeds, deployment, known>>

\* The process dies: Postgres ends its session, and the advisory lock with it.
Crash(i) ==
  /\ pc[i] # "down"
  /\ crashes < MaxCrashes /\ crashes' = crashes + 1
  /\ Goto(i, "down")
  /\ lock' = Unlocked(i)
  /\ UNCHANGED <<applied, seeds, deployment, known>>

Step(i) ==
  \/ Lock(i) \/ ReadApplied(i) \/ Skip(i) \/ ChecksumMismatch(i) \/ Apply(i)
  \/ Unlock(i) \/ SeedAdmin(i) \/ BadAdminKey(i) \/ SeedServer(i) \/ BadServerKey(i)
  \/ ServerSeeded(i) \/ FindDemo(i) \/ InsertDemo(i) \/ InsertDemoConfig(i) \/ DemoSeeded(i)

Next ==
  \E i \in Instances : Boot(i) \/ Step(i) \/ LockTimeout(i) \/ StatementFails(i) \/ Crash(i)

Spec == Init /\ [][Next]_vars
FairSpec == Spec /\ \A i \in Instances : WF_vars(Step(i))

-----------------------------------------------------------------------------
\* /readyz answers 200 only on the schema the binary was built for, every migration
\* with its own checksum, and with the configured admin key in place.
ReadyMeansMigrated ==
  \A i \in Instances : pc[i] = "ready" =>
    /\ \A n \in DOMAIN Migrations(i) : applied[Migrations(i)[n].version] = Migrations(i)[n].checksum
    /\ \E k \in apiKeys : k.kind = "admin" /\ k.hash = deployment[i].admin

\* What an instance read under the lock stays true while it migrates: no pending
\* migration is applied behind its back, so that its own DDL would fail.
ReadStaysTrue ==
  \A i \in Instances : InLoop(i) =>
    \A n \in next[i] .. Len(Migrations(i)) :
      applied[Migrations(i)[n].version] = known[i][Migrations(i)[n].version]

\* Whatever crashes or fails, a migration is applied only on top of all earlier ones.
AppliedInOrder ==
  \A v \in Versions : applied[v] # None => \A u \in Versions : u < v => applied[u] # None

\* An instance that waits for the lock does not wait for ever: not for a crashed
\* holder, nor for one whose startup failed.
LockNeverStuck == \A i \in Instances : pc[i] = "locking" ~> pc[i] # "locking"
=============================================================================
