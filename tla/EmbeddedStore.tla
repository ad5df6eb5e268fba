--------------------------- MODULE EmbeddedStore ---------------------------
(***************************************************************************)
(* The server on its embedded adapters, SQLite or memory: the use cases'   *)
(* units of work, the reads and exposure batches beside them, API key      *)
(* authentication and the last-use write after each response.              *)
(*                                                                         *)
(* One Node process, one connection, synchronous repository methods: a     *)
(* request can only be interrupted where it awaits, and then only by a     *)
(* request that is already in the process, such as the next one pipelined  *)
(* on its socket.  One action per stretch between two awaits.              *)
(***************************************************************************)
EXTENDS EmbeddedData, FiniteSetsExt

CONSTANTS
  Adapters,   \* which of {"sqlite", "memory"} the server may be started on
  Batches,    \* Batches[r]: the exposure batches request r may carry
  Creds,      \* Creds[r]: the credentials request r may present, keys or not
  Throttle,   \* TOUCH_THROTTLE_MS, in ticks
  HourTicks,  \* ticks in an hour
  MaxClock    \* bound on the clock

BatchOp == [kind : {"exposures"}, rows : Seq(Exposure)]

ASSUME EmbeddedAssumption ==
  /\ Adapters \subseteq {"sqlite", "memory"} /\ Adapters # {}
  /\ Batches \in [Reqs -> SUBSET BatchOp]
  /\ DOMAIN Creds = Reqs
  /\ {Throttle, HourTicks} \subseteq Nat \ {0} /\ MaxClock \in Nat
  \* The seeds push their rows one by one; no time is NULL.
  /\ IsFiniteSet(Keys) /\ IsFiniteSet(Existing) /\ None \notin Nat

VARIABLES
  adapter,    \* the adapter this process runs on
  db,         \* the connection's tables (SQLite), `db.current` (memory)
  saved,      \* SQLite: what ROLLBACK returns to; None outside a transaction
  inTx,       \* SQLite: the request whose BEGIN is open, or None
  draft,      \* memory: a unit of work's clone of the store
  op, pc, reply,
  before,     \* the use case's `before` snapshot
  result,     \* what its mutation returned or threw
  after,      \* its `after` snapshot
  clock,
  lastTouch,  \* the touch hook's in-memory stamps
  touched,    \* what became of the last-use write after a request
  batch,      \* the hour of a request's exposure batch, and how many of its rows were written
  during,     \* requests that wrote to the live store while a unit of work was open
  used        \* when a key last answered a request

flow == <<op, pc, reply, before, result, after>>
hook == <<clock, lastTouch, touched, used>>
vars == <<adapter, db, saved, inTx, draft, op, pc, reply, before, result, after,
          clock, lastTouch, touched, batch, during, used>>

Sqlite == INSTANCE SqliteStore
Memory == INSTANCE MemoryStore

-----------------------------------------------------------------------------
(* The repository ports, bound to the adapter.                             *)

FindByKey(s, x) == IF adapter = "sqlite" THEN Sqlite!FindByKey(s, x) ELSE Memory!FindByKey(s, x)

FindAllEnvironmentsByKey(s, f) ==
  IF adapter = "sqlite" THEN Sqlite!FindAllEnvironmentsByKey(s, f)
  ELSE Memory!FindAllEnvironmentsByKey(s, f)

\* The one repository call that changes flag tables, by the operation.
MutateSqlite(s, r, o) ==
  CASE o.kind = "create" -> Sqlite!CreateFlag(s, o)
    [] o.kind = "archive" -> Sqlite!ArchiveFlag(s, r, o)
    [] o.kind = "config" -> Sqlite!UpdateConfig(s, o)
    [] OTHER -> Sqlite!Replace(s, r, o)
MutateMemory(s, r, o) ==
  CASE o.kind = "create" -> Memory!CreateFlag(s, o)
    [] o.kind = "archive" -> Memory!ArchiveFlag(s, r, o)
    [] o.kind = "config" -> Memory!UpdateConfig(s, o)
    [] OTHER -> Memory!Replace(s, r, o)
Mutated(s, r, o) == IF adapter = "sqlite" THEN MutateSqlite(s, r, o) ELSE MutateMemory(s, r, o)

WithAudit(s, entry) ==
  IF adapter = "sqlite" THEN Sqlite!RecordAudit(s, entry) ELSE Memory!RecordAudit(s, entry)
WithBatch(s, rows) ==
  IF adapter = "sqlite" THEN Sqlite!RecordBatch(s, rows) ELSE Memory!RecordBatch(s, rows)
Touch(s, k, now, staleBefore) ==
  IF adapter = "sqlite" THEN Sqlite!Touch(s, k, now, staleBefore)
  ELSE Memory!Touch(s, k, now, staleBefore)

Snapshot0(s, o) ==
  CASE o.kind \in {"get", "archive", "create"} -> FindAllEnvironmentsByKey(s, o.flag)
    [] OTHER -> FindByKey(s, RefOf(o))

-----------------------------------------------------------------------------
Init ==
  /\ adapter \in Adapters
  /\ db = IF adapter = "sqlite" THEN Sqlite!Fresh(Existing) ELSE Memory!Fresh(Existing)
  /\ saved = None /\ inTx = None
  /\ draft = [r \in Reqs |-> None]
  /\ op = [r \in Reqs |-> None]
  /\ pc = [r \in Reqs |-> "idle"]
  /\ reply = [r \in Reqs |-> NoReply]
  /\ before = [r \in Reqs |-> NothingRead] /\ after = [r \in Reqs |-> NothingRead]
  /\ result = [r \in Reqs |-> NoReply]
  /\ clock = 0
  /\ lastTouch = [k \in Keys |-> Never] /\ used = [k \in Keys |-> Never]
  /\ touched = [r \in Reqs |-> [key |-> None, failed |-> FALSE]]
  /\ batch = [r \in Reqs |-> [hour |-> 0, rows |-> 0]]
  /\ during = [r \in Reqs |-> {}]

Open(r) == pc[r] \in {"mutate", "after", "record", "commit", "abort"}

\* r has changed the live store under every other open unit of work.
Wrote(r, what) ==
  during' = [s \in Reqs |-> IF Open(s) /\ s # r THEN during[s] \cup {<<r, what>>} ELSE during[s]]

Answer(r, status, version) ==
  /\ reply' = [reply EXCEPT ![r] = [status |-> status, version |-> version]]
  /\ pc' = [pc EXCEPT ![r] = "answered"]

-----------------------------------------------------------------------------
(* The onRequest hook: a credential that is not a seeded key is a 401, a   *)
(* key of the other kind a 403; neither request reaches a handler or is    *)
(* touched afterwards.                                                     *)

KindNeeded(o) == IF o.kind = "exposures" THEN "server" ELSE "admin"

Admitted(c, o) == c \in Keys /\ KeyKind[c] = KindNeeded(o)

TurnAway(r, c, o) ==
  /\ pc[r] = "idle" /\ ~Admitted(c, o)
  /\ reply' = [reply EXCEPT ![r] =
       [status |-> IF c \in Keys THEN "forbidden" ELSE "unauthorized", version |-> 0]]
  /\ pc' = [pc EXCEPT ![r] = "closed"]
  /\ UNCHANGED <<adapter, db, saved, inTx, draft, op, before, result, after, hook, batch, during>>

Admit(r, c, o) ==
  /\ pc[r] = "idle" /\ Admitted(c, o)
  /\ touched' = [touched EXCEPT ![r].key = c]
  /\ UNCHANGED <<adapter, clock, lastTouch, used>>

\* getFlag, previewEvaluation: one synchronous read of the live tables.
ReadStatus(o) == IF Snapshot0(db, o) = NothingRead THEN "notFound" ELSE "ok"

Read(r, c, o) ==
  /\ Admit(r, c, o) /\ o.kind \in {"get", "find"}
  /\ op' = [op EXCEPT ![r] = o]
  /\ Answer(r, ReadStatus(o), 0)
  /\ UNCHANGED <<db, saved, inTx, draft, before, result, after, batch, during>>

\* POST /sdk/events: the environment is the key's, the hour the server's.  The rows are
\* written one by one outside a transaction, so an upsert of SQLite that throws leaves the
\* n before it; the route logs the error and answers 202 all the same.
RecordExposures(r, c, o) ==
  /\ Admit(r, c, o) /\ o.kind = "exposures"
  /\ op' = [op EXCEPT ![r] = o]
  /\ \E n \in 0 .. Len(o.rows) :
       /\ n < Len(o.rows) => adapter = "sqlite"
       /\ batch' = [batch EXCEPT ![r] = [hour |-> clock \div HourTicks, rows |-> n]]
       /\ db' = WithBatch(db, Aggregates(SubSeq(o.rows, 1, n), KeyEnv[c], clock \div HourTicks))
  /\ Wrote(r, "batch")
  /\ Answer(r, "ok", 0)
  /\ UNCHANGED <<saved, inTx, draft, before, result, after>>

-----------------------------------------------------------------------------
(* transact() and the use case it runs.                                    *)

\* The store a unit of work sees and writes.
Mine(r) == IF adapter = "sqlite" THEN db ELSE draft[r]
SetMine(r, s) ==
  IF adapter = "sqlite" THEN db' = s /\ UNCHANGED draft
  ELSE draft' = [draft EXCEPT ![r] = s] /\ UNCHANGED db

\* BEGIN, or structuredClone(db.current).
OpenUnit(r, c, o) ==
  /\ Admit(r, c, o) /\ Mutates(o)
  /\ op' = [op EXCEPT ![r] = o]
  /\ adapter = "sqlite" => inTx = None
  /\ inTx' = IF adapter = "sqlite" THEN r ELSE None
  /\ saved' = IF adapter = "sqlite" THEN db ELSE None
  /\ UNCHANGED <<reply, batch, during>>

\* The repository call that changes the tables, on the store s.
Apply(r, s, o, next) ==
  LET done == Mutated(s, r, o)
  IN /\ IF adapter = "sqlite" THEN db' = done.store /\ UNCHANGED draft
        ELSE draft' = [draft EXCEPT ![r] = done.store] /\ UNCHANGED db
     /\ result' = [result EXCEPT ![r] = [status |-> done.status, version |-> done.version]]
     /\ pc' = [pc EXCEPT ![r] = IF done.status = "ok" THEN next ELSE "abort"]
     /\ after' = [after EXCEPT ![r] = IF o.kind = "create" /\ done.status = "ok"
                                      THEN Snapshot0(done.store, o) ELSE @]

\* createFlag is the first call of its use case: one stretch with the opening.
BeginCreate(r, c, o) ==
  /\ OpenUnit(r, c, o) /\ o.kind = "create"
  /\ Apply(r, db, o, "record")
  /\ UNCHANGED before

\* The others read their `before` snapshot in that stretch.
Begin(r, c, o) ==
  /\ OpenUnit(r, c, o) /\ o.kind # "create"
  /\ pc' = [pc EXCEPT ![r] = "mutate"]
  /\ before' = [before EXCEPT ![r] = Snapshot0(db, o)]
  /\ draft' = IF adapter = "sqlite" THEN draft ELSE [draft EXCEPT ![r] = db]
  /\ UNCHANGED <<db, result, after>>

\* "cannot start a transaction within a transaction", thrown before the try block: the
\* use case never runs.
BeginWithin(r, c, o) ==
  /\ Admit(r, c, o) /\ Mutates(o)
  /\ adapter = "sqlite" /\ inTx # None
  /\ Answer(r, "error", 0)
  /\ UNCHANGED <<db, saved, inTx, draft, op, before, result, after, batch, during>>

Mutate(r) ==
  /\ pc[r] = "mutate"
  /\ Apply(r, Mine(r), op[r], "after")
  /\ UNCHANGED <<adapter, saved, inTx, op, reply, before, hook, batch, during>>

ReadAfter(r) ==
  /\ pc[r] = "after"
  /\ after' = [after EXCEPT ![r] = Snapshot0(Mine(r), op[r])]
  /\ pc' = [pc EXCEPT ![r] = "record"]
  /\ UNCHANGED <<adapter, db, saved, inTx, draft, op, reply, before, result, hook, batch, during>>

RecordAudit(r) ==
  /\ pc[r] = "record"
  /\ SetMine(r, WithAudit(Mine(r), [by |-> r, op |-> op[r], before |-> before[r], after |-> after[r]]))
  /\ pc' = [pc EXCEPT ![r] = "commit"]
  /\ UNCHANGED <<adapter, saved, inTx, op, reply, before, result, after, hook, batch, during>>

\* A statement of SQLite throws, COMMIT included: another process holds the file, or the
\* disk fails.  (createFlag's own INSERTs fail in the stretch that opens the unit; what
\* is left, an open transaction about to be undone, is the same.)
Fail(r) ==
  /\ adapter = "sqlite" /\ pc[r] \in {"mutate", "after", "record", "commit"}
  /\ result' = [result EXCEPT ![r] = [status |-> "error", version |-> 0]]
  /\ pc' = [pc EXCEPT ![r] = "abort"]
  /\ UNCHANGED <<adapter, db, saved, inTx, draft, op, reply, before, after, hook, batch, during>>

\* The locals of a unit of work die with it.
Forget(r) ==
  /\ draft' = [draft EXCEPT ![r] = None]
  /\ before' = [before EXCEPT ![r] = NothingRead]
  /\ after' = [after EXCEPT ![r] = NothingRead]
  /\ result' = [result EXCEPT ![r] = NoReply]
  /\ UNCHANGED <<adapter, op, hook, batch>>

\* COMMIT, or `db.current = draft`.
Commit(r) ==
  /\ pc[r] = "commit"
  /\ IF adapter = "sqlite" THEN inTx' = None /\ saved' = None /\ UNCHANGED db
     ELSE db' = draft[r] /\ UNCHANGED <<inTx, saved>>
  /\ Answer(r, "ok", result[r].version)
  /\ Wrote(r, "commit")
  /\ Forget(r)

\* Mutant: the catch block forgets ROLLBACK.
AbortLeavingOpen(r) ==
  /\ pc[r] = "abort"
  /\ Answer(r, result[r].status, 0)
  /\ Forget(r)
  /\ UNCHANGED <<db, saved, inTx, during>>

\* The rejection reaches transact(): ROLLBACK, or the draft is dropped.
Abort(r) ==
  /\ pc[r] = "abort"
  /\ IF adapter = "sqlite" THEN db' = saved /\ inTx' = None /\ saved' = None
     ELSE UNCHANGED <<db, inTx, saved>>
  /\ Answer(r, result[r].status, 0)
  /\ Forget(r)
  /\ UNCHANGED during

-----------------------------------------------------------------------------
(* The onResponse hook, time, and a restart of the process.                *)

Throttled(k) == lastTouch[k] # Never /\ clock - lastTouch[k] < Throttle

\* Mutant: the database write is throttled by twice the window the stamp is.
StaleBeforeTwice(now) == now - 2 * Throttle

StaleBefore(now) == now - Throttle

\* The stamp is set first; the write behind it may fail on SQLite, and nobody hears of it.
TouchKey(r, write) ==
  /\ pc[r] = "answered"
  /\ LET k == touched[r].key
     IN /\ used' = [used EXCEPT ![k] = clock]
        /\ write = "skipped" <=> Throttled(k)
        /\ write = "failed" => adapter = "sqlite"
        /\ lastTouch' = IF Throttled(k) THEN lastTouch ELSE [lastTouch EXCEPT ![k] = clock]
        /\ db' = IF write = "done" THEN Touch(db, k, clock, StaleBefore(clock)) ELSE db
  /\ touched' = [touched EXCEPT ![r].failed = (write = "failed")]
  /\ pc' = [pc EXCEPT ![r] = "closed"]
  /\ IF write = "done" THEN Wrote(r, "touch") ELSE UNCHANGED during
  /\ UNCHANGED <<adapter, saved, inTx, draft, op, reply, before, result, after, clock, batch>>

\* Ticks are tens of seconds: no request takes that long, nor does its hook.
Tick ==
  /\ clock < MaxClock /\ \A r \in Reqs : pc[r] \in {"idle", "closed"}
  /\ clock' = clock + 1
  /\ UNCHANGED <<adapter, db, saved, inTx, draft, flow, lastTouch, touched, used, batch, during>>

\* The process dies and starts again on the same file: an open transaction is undone,
\* what was in memory is gone and open requests are cut off.  (Between requests a crash
\* only loses stamps, which makes the next touch early.)
Crash ==
  /\ adapter = "sqlite" /\ \E r \in Reqs : pc[r] \notin {"idle", "closed"}
  /\ db' = IF inTx = None THEN db ELSE saved
  /\ saved' = None /\ inTx' = None
  /\ reply' = [r \in Reqs |-> IF Open(r) THEN [status |-> "error", version |-> 0] ELSE reply[r]]
  /\ pc' = [r \in Reqs |-> IF pc[r] = "idle" THEN "idle" ELSE "closed"]
  /\ before' = [r \in Reqs |-> IF Open(r) THEN NothingRead ELSE before[r]]
  /\ after' = [r \in Reqs |-> NothingRead] /\ result' = [r \in Reqs |-> NoReply]
  /\ lastTouch' = [k \in Keys |-> Never]
  /\ UNCHANGED <<adapter, draft, op, clock, touched, used, batch, during>>

Receive(r) ==
  \E c \in Creds[r], o \in Workload[r] \cup Batches[r] :
    \/ TurnAway(r, c, o)
    \/ Read(r, c, o)
    \/ RecordExposures(r, c, o)
    \/ BeginCreate(r, c, o)
    \/ Begin(r, c, o)
    \/ BeginWithin(r, c, o)

Work(r) == Mutate(r) \/ ReadAfter(r) \/ RecordAudit(r) \/ Fail(r) \/ Commit(r) \/ Abort(r)
Hook(r) == \E write \in {"done", "failed", "skipped"} : TouchKey(r, write)

Next == (\E r \in Reqs : Receive(r) \/ Work(r) \/ Hook(r)) \/ Tick \/ Crash

\* The event loop goes on while a request in the process has something to do.
Fairness == WF_vars(\E r \in Reqs : Work(r))
Spec == Init /\ [][Next]_vars /\ Fairness

-----------------------------------------------------------------------------
(* Properties.                                                             *)

\* What other requests may count on: the committed tables in the contract's shape.
Committed == IF inTx = None THEN db ELSE saved
FlagRows(s) ==
  IF adapter = "sqlite" THEN s.flagRow
  ELSE [f \in Flags |-> IF Memory!FindFlag(s, f) = 0 THEN None
                        ELSE [archivedAt |-> s.flags[Memory!FindFlag(s, f)].archivedAt]]
ConfigRows(s) ==
  IF adapter = "sqlite" THEN s.configRow
  ELSE [x \in Refs |-> FindByKey(s, x).config[x]]
ChildRows(s) ==
  IF adapter = "sqlite" THEN s.child
  ELSE [t \in Tables |-> [x \in Refs |->
         Memory!RowsAt(IF t = "rules" THEN s.rules ELSE s.overrides, x)]]
AuditRows(s) == IF adapter = "sqlite" THEN Sqlite!AuditOf(s) ELSE Memory!AuditOf(s)

Mutators == {r \in Reqs : op[r] # None /\ Mutates(op[r])}
Contract == INSTANCE FlagContract WITH
  flagRow <- FlagRows(Committed),
  configRow <- ConfigRows(Committed),
  child <- ChildRows(Committed),
  audit <- AuditRows(Committed),
  op <- [r \in Reqs |-> IF r \in Mutators THEN op[r] ELSE None],
  reply <- [r \in Reqs |-> IF r \in Mutators THEN reply[r] ELSE NoReply]

\* "All three adapters pass one shared contract suite, so they cannot drift apart"
\* (README.md): what the suite cannot see is requests that overlap.  SQLite keeps the
\* contract even then; the memory adapter leaves it only where a unit of work ends on a
\* clone taken before another's commit, or stores a body that names one unit twice.
Outdated(r) ==
  /\ adapter = "memory" /\ Open(r) /\ pc'[r] = "answered"
  /\ \/ \E q \in Reqs : <<q, "commit">> \in during[r]
     \/ op[r].kind \in Tables /\ ~KeysUnique(op[r].body)
ContractUnlessOverlapped ==
  [][UNCHANGED Contract!vars \/ Contract!Next \/ \E r \in Reqs : Outdated(r)]_vars

\* A unit of work that undid, or never saw, what others wrote while it was open.
Undid(r) ==
  /\ pc[r] \in {"answered", "closed"}
  /\ IF adapter = "sqlite" THEN reply[r].status # "ok" ELSE reply[r].status = "ok"
Undone(what) == {q \in Reqs : \E r \in Reqs : Undid(r) /\ <<q, what>> \in during[r]}

\* The exposure panel and the flag list show the same totals: every row an upsert has
\* written, once, and no other.  A row answered with 202 is missing only if its upsert or
\* one before it threw, or if its batch came while a unit of work was open that then
\* rolled back (SQLite shares its transaction) or swapped in its clone (memory).
FlagTotal(f, e, since) ==
  LET totals == IF adapter = "sqlite" THEN Sqlite!ListFlagTotals(db, e, since)
                ELSE Memory!ListFlagTotals(db, e, since)
  IN IF f \in DOMAIN totals THEN totals[f] ELSE 0
BreakdownTotal(f, e, since) ==
  LET rows == IF adapter = "sqlite" THEN Sqlite!FindBreakdown(db, f, e, since)
              ELSE Memory!FindBreakdown(db, f, e, since)
  IN MapThenSumSet(LAMBDA o : rows[o], DOMAIN rows)
Written(r, f) ==
  MapThenSumSet(LAMBDA i : IF op[r].rows[i].flag = f THEN op[r].rows[i].count ELSE 0, 1 .. batch[r].rows)
WrittenBy(R, f, e, since) ==
  MapThenSumSet(LAMBDA r : Written(r, f),
                {r \in R : KeyEnv[touched[r].key] = e /\ batch[r].hour >= since})
Recorders == {r \in Reqs : op[r] # None /\ op[r].kind = "exposures"}
TotalsAreWhatWasWritten ==
  \A f \in Flags, e \in Envs, since \in 0 .. MaxClock \div HourTicks :
    /\ FlagTotal(f, e, since) = BreakdownTotal(f, e, since)
    /\ FlagTotal(f, e, since) <= WrittenBy(Recorders, f, e, since)
    /\ FlagTotal(f, e, since) >= WrittenBy(Recorders \ Undone("batch"), f, e, since)

\* last_used_at lags the last answered request by less than two throttle windows, unless
\* a write of it failed or was undone with a unit of work.
StoredUse(k) == IF adapter = "sqlite" THEN Sqlite!LastUsed(db, k) ELSE Memory!LastUsed(db, k)
LastUsedFollows ==
  \A k \in Keys : used[k] # Never =>
    \/ StoredUse(k) # Never /\ used[k] - StoredUse(k) < 2 * Throttle
    \/ \E r \in Reqs : touched[r].key = k /\ (touched[r].failed \/ r \in Undone("touch"))

\* A transaction is never left open, whatever the use case throws: an open one would
\* make every later mutation of the process fail at BEGIN.
TransactionsEnd == inTx # None ~> inTx = None
=============================================================================
