---------------------------- MODULE PgFlagStore ----------------------------
(***************************************************************************)
(* The Postgres flag store, one action per SQL statement.                  *)
(*                                                                         *)
(* Every mutation runs in one transaction at Postgres's default isolation, *)
(* READ COMMITTED: a statement sees what was committed when it started,    *)
(* plus the transaction's own writes; an UPDATE or DELETE waits for the    *)
(* transaction that holds the row and then goes on with the row it left;   *)
(* an INSERT waits for an uncommitted row with its unique key.  Reads      *)
(* outside a transaction see the committed rows, one statement at a time.  *)
(***************************************************************************)
EXTENDS FlagData

CONSTANTS
  ExclusiveWriters,  \* TRUE: clients never have two mutations of one flag in flight
  Failures           \* TRUE: a connection may drop under a transaction

ASSUME PgAssumption == ExclusiveWriters \in BOOLEAN /\ Failures \in BOOLEAN

VARIABLES
  flagRow,    \* committed rows of flags
  configRow,  \* committed rows of flag_configs
  child,      \* child[t]: committed rows of targeting_rules and overrides
  audit,      \* committed rows of audit_log, in commit order
  op,         \* the operation a request carries
  pc,         \* the statement it runs next
  todo,       \* SELECTs left of the read it is in the middle of
  seen,       \* what that read has returned so far
  before,     \* the use case's `before` snapshot
  left,       \* rows or environments a loop of INSERTs still has to write
  target,     \* rows the running DELETE selected
  w,          \* uncommitted writes of its transaction
  reply       \* what the client was told

committed == <<flagRow, configRow, child, audit>>
vars == <<flagRow, configRow, child, audit,
          op, pc, todo, seen, before, left, target, w, reply>>

NoWrites == [flag |-> None, cfg |-> [e \in Envs |-> None], del |-> {}, ins |-> {}, audit |-> None]

Init ==
  /\ flagRow = [f \in Flags |-> IF f \in Existing THEN NewFlagRow ELSE None]
  /\ configRow = [x \in Refs |-> IF x[1] \in Existing THEN NewConfigRow ELSE None]
  /\ child = [t \in Tables |-> [x \in Refs |-> {}]]
  /\ audit = <<>>
  /\ op = [r \in Reqs |-> None]
  /\ pc = [r \in Reqs |-> "idle"]
  /\ todo = [r \in Reqs |-> <<>>]
  /\ seen = [r \in Reqs |-> NothingRead]
  /\ before = [r \in Reqs |-> NothingRead]
  /\ left = [r \in Reqs |-> <<>>]
  /\ target = [r \in Reqs |-> {}]
  /\ w = [r \in Reqs |-> NoWrites]
  /\ reply = [r \in Reqs |-> NoReply]

-----------------------------------------------------------------------------
(* What a statement of r sees, and whom it waits for.                      *)

Active(r) == pc[r] \notin {"idle", "done"}
Others(r) == {s \in Reqs \ {r} : Active(s)}

Ref(r) == <<op[r].flag, op[r].env>>
On(r, x) == OnConfig(op[r]) /\ Ref(r) = x

RowsSeen(r, t, x) ==
  IF op[r].kind = t /\ On(r, x) THEN (child[t][x] \ w[r].del) \cup w[r].ins ELSE child[t][x]

Sees(r, q) ==
  CASE q[1] = "flag" -> IF q[2] = op[r].flag /\ w[r].flag # None THEN w[r].flag ELSE flagRow[q[2]]
    [] q[1] = "config" -> IF q[2][1] = op[r].flag /\ w[r].cfg[q[2][2]] # None
                          THEN w[r].cfg[q[2][2]] ELSE configRow[q[2]]
    [] OTHER -> RowsSeen(r, q[1], q[2])

\* Holders of the row lock on a flags row, and on a flag_configs row.
FlagHolders(r) == {s \in Others(r) : w[s].flag # None /\ op[s].flag = op[r].flag}
\* An UPDATE does not wait for a row it cannot see.
UpdateFlagWaitsFor(r) == IF flagRow[op[r].flag] = None THEN {} ELSE FlagHolders(r)
ConfigHolders(r) == {s \in Others(r) : On(s, Ref(r)) /\ w[s].cfg[op[r].env] # None}

SameTable(r) == {s \in Others(r) : On(s, Ref(r)) /\ op[s].kind = op[r].kind}
MyRows(r) == child[op[r].kind][Ref(r)]

\* Committed rows under r's next INSERT's unique key, as that INSERT finds them.
ClashesUnchecked(r) == {}  \* Mutant: no UNIQUE constraint on (flag_config_id, key).

Clashes(r) == {row \in MyRows(r) \ w[r].del : row.key = Head(left[r]).key}

DeleteWaitsFor(r) == {s \in SameTable(r) : w[s].del \cap target[r] # {}}
InsertWaitsFor(r) ==
  {s \in SameTable(r) : \/ \E row \in w[s].ins : row.key = Head(left[r]).key
                        \/ Clashes(r) \cap w[s].del # {}}

WaitsFor(r) ==
  CASE pc[r] = "deleting" -> DeleteWaitsFor(r)
    [] pc[r] = "insertRow" /\ left[r] # <<>> -> InsertWaitsFor(r)
    [] pc[r] = "insertRow" /\ left[r] = <<>> -> ConfigHolders(r)
    [] pc[r] = "check" /\ todo[r] = <<>> /\ op[r].kind = "config" -> ConfigHolders(r)
    [] pc[r] = "before" /\ todo[r] = <<>> /\ op[r].kind = "archive" -> UpdateFlagWaitsFor(r)
    [] pc[r] = "insertFlag" -> FlagHolders(r)
    [] OTHER -> {}

-----------------------------------------------------------------------------
(* Reads: the SELECTs a repository method issues, in its order.            *)

ByKey(x) == <<FlagQuery(x[1]), <<"config", x>>, <<"rules", x>>, <<"overrides", x>>>>
EachEnv(f) ==
  [i \in 1 .. 3 * Len(EnvSeq) |->
     <<Details[((i - 1) % 3) + 1], <<f, EnvSeq[((i - 1) \div 3) + 1]>>>>]
AllEnvs(f) == <<FlagQuery(f)>> \o EachEnv(f)

Found(r) == seen[r].config[Ref(r)]

\* A missing flag ends the read; a missing configuration skips its rules and overrides.
Rest(q, value, rest) ==
  CASE value = None /\ q[1] = "flag" -> <<>>
    [] value = None /\ q[1] = "config" -> SubSeq(rest, 3, Len(rest))
    [] OTHER -> rest

Select(r) ==
  /\ todo[r] # <<>>
  /\ LET q == Head(todo[r])
         value == Sees(r, q)
     IN /\ seen' = [seen EXCEPT ![r][q[1]][q[2]] = value]
        /\ todo' = [todo EXCEPT ![r] = Rest(q, value, Tail(todo[r]))]
  /\ UNCHANGED <<committed, op, pc, before, left, target, w, reply>>

-----------------------------------------------------------------------------
(* How a request starts and ends.                                          *)

Plan(o) ==
  CASE o.kind \in {"get", "archive"} -> AllEnvs(o.flag)
    [] o.kind = "create" -> <<>>
    [] OTHER -> ByKey(<<o.flag, o.env>>)

FirstStatement(o) ==
  CASE o.kind \in {"get", "find"} -> "read"
    [] o.kind = "create" -> "insertFlag"
    [] OTHER -> "before"

Receive(r, o) ==
  /\ pc[r] = "idle"
  /\ ExclusiveWriters /\ Mutates(o) =>
       \A s \in Others(r) : Mutates(op[s]) => op[s].flag # o.flag
  /\ op' = [op EXCEPT ![r] = o]
  /\ pc' = [pc EXCEPT ![r] = FirstStatement(o)]
  /\ todo' = [todo EXCEPT ![r] = Plan(o)]
  /\ UNCHANGED <<committed, seen, before, left, target, w, reply>>

\* The connection goes back to the pool; only what was read or answered outlives the request.
Finish(r, status, version) ==
  /\ pc' = [pc EXCEPT ![r] = "done"]
  /\ reply' = [reply EXCEPT ![r] = [status |-> status, version |-> version]]
  /\ w' = [w EXCEPT ![r] = NoWrites]
  /\ todo' = [todo EXCEPT ![r] = <<>>]
  /\ left' = [left EXCEPT ![r] = <<>>]
  /\ target' = [target EXCEPT ![r] = {}]
  /\ before' = [before EXCEPT ![r] = NothingRead]
  /\ seen' = IF Mutates(op[r]) THEN [seen EXCEPT ![r] = NothingRead] ELSE seen
  /\ UNCHANGED op

Rollback(r, status) == Finish(r, status, 0) /\ UNCHANGED committed

\* getFlag and previewEvaluation answer 404 for null; flagToWire dereferences both
\* environments of a flag it was given, so one without a configuration is a 500.
ReadOutcome(r) ==
  CASE seen[r].flag[op[r].flag] = None -> "notFound"
    [] op[r].kind = "find" -> IF Found(r) = None THEN "notFound" ELSE "ok"
    [] OTHER -> IF \E e \in Envs : seen[r].config[<<op[r].flag, e>>] = None THEN "error" ELSE "ok"

AnswerRead(r) ==
  /\ pc[r] = "read" /\ todo[r] = <<>>
  /\ Rollback(r, ReadOutcome(r))

-----------------------------------------------------------------------------
(* updateConfig, replaceRules, replaceOverrides.                           *)

\* findByKey is complete: keep it, and start the adapter's own findFlagAndConfig.
Recheck(r) ==
  /\ pc[r] = "before" /\ todo[r] = <<>> /\ OnConfig(op[r])
  /\ before' = [before EXCEPT ![r] = seen[r]]
  /\ seen' = [seen EXCEPT ![r] = NothingRead]
  /\ todo' = [todo EXCEPT ![r] = SubSeq(ByKey(Ref(r)), 1, 2)]
  /\ pc' = [pc EXCEPT ![r] = "check"]
  /\ UNCHANGED <<committed, op, left, target, w, reply>>

NotFoundConfig(r) ==
  /\ pc[r] = "check" /\ todo[r] = <<>> /\ Found(r) = None
  /\ Rollback(r, "notFound")

VersionConflict(r) ==
  /\ pc[r] = "check" /\ todo[r] = <<>> /\ Found(r) # None
  /\ Found(r).version # op[r].expected
  /\ Rollback(r, "conflict")

\* Mutant: If-Match is not compared.
PassedUnchecked(r) == pc[r] = "check" /\ todo[r] = <<>> /\ Found(r) # None

Passed(r) ==
  /\ pc[r] = "check" /\ todo[r] = <<>> /\ Found(r) # None
  /\ Found(r).version = op[r].expected

\* Mutant: the use case audits the snapshot it already holds instead of reading again.
ReadAfterReused(r, plan, already) ==
  /\ pc' = [pc EXCEPT ![r] = "after"]
  /\ todo' = [todo EXCEPT ![r] = <<>>]
  /\ seen' = [seen EXCEPT ![r] = before[r]]

\* The `after` snapshot of a use case starts from nothing.
ReadAfter(r, plan, already) ==
  /\ pc' = [pc EXCEPT ![r] = "after"]
  /\ todo' = [todo EXCEPT ![r] = plan]
  /\ seen' = [seen EXCEPT ![r] = already]

\* UPDATE flag_configs SET <every column> ... WHERE id = $1
UpdateConfig(r) ==
  /\ Passed(r) /\ op[r].kind = "config"
  /\ ConfigHolders(r) = {}
  /\ w' = [w EXCEPT ![r].cfg[op[r].env] =
             [cols |-> Patched(Found(r).cols, op[r].patch), version |-> Found(r).version + 1]]
  /\ ReadAfter(r, ByKey(Ref(r)), NothingRead)
  /\ UNCHANGED <<committed, op, before, left, target, reply>>

\* DELETE FROM <table> WHERE flag_config_id = $1: the rows are chosen by the
\* statement's snapshot, then locked; those another transaction deleted are skipped.
StartDelete(r) ==
  /\ Passed(r) /\ op[r].kind \in Tables
  /\ target' = [target EXCEPT ![r] = RowsSeen(r, op[r].kind, Ref(r))]
  /\ pc' = [pc EXCEPT ![r] = "deleting"]
  /\ UNCHANGED <<committed, op, todo, seen, before, left, w, reply>>

FinishDelete(r) ==
  /\ pc[r] = "deleting"
  /\ DeleteWaitsFor(r) = {}
  /\ w' = [w EXCEPT ![r].del = target[r] \cap MyRows(r)]
  /\ left' = [left EXCEPT ![r] = op[r].body]
  /\ target' = [target EXCEPT ![r] = {}]
  /\ pc' = [pc EXCEPT ![r] = "insertRow"]
  /\ UNCHANGED <<committed, op, todo, seen, before, reply>>

InsertRow(r) ==
  /\ pc[r] = "insertRow" /\ left[r] # <<>>
  /\ InsertWaitsFor(r) = {} /\ Clashes(r) = {}
  /\ \A row \in w[r].ins : row.key # Head(left[r]).key
  /\ w' = [w EXCEPT ![r].ins = @ \cup RowsOf(r, <<Head(left[r])>>)]
  /\ left' = [left EXCEPT ![r] = Tail(@)]
  /\ UNCHANGED <<committed, op, pc, todo, seen, before, target, reply>>

\* 23505 from a child table is no domain error: the request answers 500.
UniqueViolation(r) ==
  /\ pc[r] = "insertRow" /\ left[r] # <<>>
  /\ InsertWaitsFor(r) = {}
  /\ Clashes(r) # {} \/ \E row \in w[r].ins : row.key = Head(left[r]).key
  /\ Rollback(r, "error")

\* UPDATE flag_configs SET version = $2 ... WHERE id = $1: it meets the row as last committed.
BumpVersion(r) ==
  /\ pc[r] = "insertRow" /\ left[r] = <<>>
  /\ ConfigHolders(r) = {}
  /\ w' = [w EXCEPT ![r].cfg[op[r].env] =
             [cols |-> configRow[Ref(r)].cols, version |-> Found(r).version + 1]]
  /\ ReadAfter(r, ByKey(Ref(r)), NothingRead)
  /\ UNCHANGED <<committed, op, before, left, target, reply>>

-----------------------------------------------------------------------------
(* createFlag and archiveFlag.                                             *)

\* Mutant: createFlag runs outside a transaction, so its first INSERT commits at once.
InsertFlagAutocommit(r) ==
  /\ pc[r] = "insertFlag"
  /\ FlagHolders(r) = {} /\ flagRow[op[r].flag] = None
  /\ flagRow' = [flagRow EXCEPT ![op[r].flag] = NewFlagRow]
  /\ w' = [w EXCEPT ![r].flag = NewFlagRow]
  /\ pc' = [pc EXCEPT ![r] = "insertConfig"]
  /\ UNCHANGED <<configRow, child, audit, op, todo, seen, before, left, target, reply>>

InsertFlag(r) ==
  /\ pc[r] = "insertFlag"
  /\ FlagHolders(r) = {} /\ flagRow[op[r].flag] = None
  /\ w' = [w EXCEPT ![r].flag = NewFlagRow]
  /\ pc' = [pc EXCEPT ![r] = "insertConfig"]
  /\ UNCHANGED <<committed, op, todo, seen, before, left, target, reply>>

DuplicateKey(r) ==
  /\ pc[r] = "insertFlag"
  /\ FlagHolders(r) = {} /\ flagRow[op[r].flag] # None
  /\ Rollback(r, "duplicate")

\* Environments the loop over `configs` has not reached.
EnvsLeft(r) == {i \in DOMAIN EnvSeq : w[r].cfg[EnvSeq[i]] = None}

InsertConfig(r) ==
  /\ pc[r] = "insertConfig"
  /\ \E i \in EnvsLeft(r) :
       /\ \A j \in EnvsLeft(r) : i <= j
       /\ w' = [w EXCEPT ![r].cfg[EnvSeq[i]] = NewConfigRow]
  /\ UNCHANGED <<committed, op, pc, todo, seen, before, left, target, reply>>

\* buildAllEnvironments starts from the row the INSERT returned.
ReadCreated(r) ==
  /\ pc[r] = "insertConfig" /\ EnvsLeft(r) = {}
  /\ ReadAfter(r, EachEnv(op[r].flag),
               [NothingRead EXCEPT !.flag[op[r].flag] = w[r].flag])
  /\ UNCHANGED <<committed, op, before, left, target, w, reply>>

StampArchive(r) ==
  /\ pc[r] = "before" /\ todo[r] = <<>> /\ op[r].kind = "archive"
  /\ UpdateFlagWaitsFor(r) = {} /\ flagRow[op[r].flag] # None
  /\ before' = [before EXCEPT ![r] = seen[r]]
  /\ w' = [w EXCEPT ![r].flag = [archivedAt |-> r]]
  /\ ReadAfter(r, AllEnvs(op[r].flag), NothingRead)
  /\ UNCHANGED <<committed, op, left, target, reply>>

NotFoundFlag(r) ==
  /\ pc[r] = "before" /\ todo[r] = <<>> /\ op[r].kind = "archive"
  /\ flagRow[op[r].flag] = None
  /\ Rollback(r, "notFound")

-----------------------------------------------------------------------------
(* The audit row, COMMIT, and what may cut a transaction short.            *)

\* Mutant: `before` is filled in from the second read.
AuditEntryAfterTwice(r) == [by |-> r, op |-> op[r], before |-> seen[r], after |-> seen[r]]

AuditEntry(r) == [by |-> r, op |-> op[r], before |-> before[r], after |-> seen[r]]

RecordAudit(r) ==
  /\ pc[r] = "after" /\ todo[r] = <<>>
  /\ w' = [w EXCEPT ![r].audit = AuditEntry(r)]
  /\ pc' = [pc EXCEPT ![r] = "commit"]
  /\ UNCHANGED <<committed, op, todo, seen, before, left, target, reply>>

\* Mutant: replace-rules does not audit.
ApplyUnaudited(r) ==
  LET f == op[r].flag
  IN /\ flagRow' = IF w[r].flag = None THEN flagRow ELSE [flagRow EXCEPT ![f] = w[r].flag]
     /\ configRow' = [x \in Refs |-> IF x[1] = f /\ w[r].cfg[x[2]] # None
                                     THEN w[r].cfg[x[2]] ELSE configRow[x]]
     /\ child' = [t \in Tables |-> [x \in Refs |-> RowsSeen(r, t, x)]]
     /\ audit' = IF op[r].kind = "rules" THEN audit ELSE Append(audit, w[r].audit)

Apply(r) ==
  LET f == op[r].flag
  IN /\ flagRow' = IF w[r].flag = None THEN flagRow ELSE [flagRow EXCEPT ![f] = w[r].flag]
     /\ configRow' = [x \in Refs |-> IF x[1] = f /\ w[r].cfg[x[2]] # None
                                     THEN w[r].cfg[x[2]] ELSE configRow[x]]
     /\ child' = [t \in Tables |-> [x \in Refs |-> RowsSeen(r, t, x)]]
     /\ audit' = Append(audit, w[r].audit)

NewVersion(r) ==
  CASE OnConfig(op[r]) -> w[r].cfg[op[r].env].version
    [] op[r].kind = "create" -> 1
    [] OTHER -> 0

Commit(r) ==
  /\ pc[r] = "commit"
  /\ Apply(r)
  /\ Finish(r, "ok", NewVersion(r))

\* The COMMIT took effect and its acknowledgement was lost: the client reads a 500.
CommitUnacknowledged(r) ==
  /\ Failures /\ pc[r] = "commit"
  /\ Apply(r)
  /\ Finish(r, "error", 0)

\* The connection drops, or the process dies: Postgres discards the transaction.
ConnectionLost(r) ==
  /\ Failures /\ Active(r)
  /\ Rollback(r, "error")

\* Postgres aborts a transaction that waits in a cycle of waits (40P01).
InCycle(r) ==
  \E n \in 2 .. Cardinality(Reqs) : \E p \in [1 .. n -> Reqs] :
    p[1] = r /\ \A i \in 1 .. n : p[(i % n) + 1] \in WaitsFor(p[i])
DeadlockIgnored(r) == FALSE  \* Mutant: nobody breaks a cycle of waits.

DeadlockDetected(r) ==
  /\ InCycle(r)
  /\ Rollback(r, "error")

-----------------------------------------------------------------------------
Statement(r) ==
  \/ Select(r) \/ AnswerRead(r) \/ Recheck(r) \/ NotFoundConfig(r) \/ VersionConflict(r)
  \/ UpdateConfig(r) \/ StartDelete(r) \/ FinishDelete(r) \/ InsertRow(r) \/ UniqueViolation(r)
  \/ BumpVersion(r) \/ InsertFlag(r) \/ DuplicateKey(r) \/ InsertConfig(r) \/ ReadCreated(r)
  \/ StampArchive(r) \/ NotFoundFlag(r) \/ RecordAudit(r) \/ Commit(r) \/ DeadlockDetected(r)

\* Every request of the workload has been answered: the only way the store stops.
AllAnswered == (\A r \in Reqs : pc[r] = "done") /\ UNCHANGED vars

Next ==
  \/ \E r \in Reqs :
       \/ \E o \in Workload[r] : Receive(r, o)
       \/ Statement(r)
       \/ CommitUnacknowledged(r)
       \/ ConnectionLost(r)
  \/ AllAnswered

Spec == Init /\ [][Next]_vars
FairSpec == Spec /\ \A r \in Reqs : WF_vars(Statement(r))

-----------------------------------------------------------------------------
(* What holds however the requests interleave.                             *)

Writes == [flag : FlagRow \cup {None}, cfg : [Envs -> ConfigRow \cup {None}],
           del : SUBSET Row, ins : SUBSET Row, audit : AuditRow \cup {None}]
Labels == {"idle", "read", "before", "check", "deleting", "insertRow", "insertFlag",
           "insertConfig", "after", "commit", "done"}

\* Type invariant.
TypeOK ==
  /\ flagRow \in [Flags -> FlagRow \cup {None}]
  /\ configRow \in [Refs -> ConfigRow \cup {None}]
  /\ child \in [Tables -> [Refs -> SUBSET Row]]
  /\ audit \in Seq(AuditRow)
  /\ op \in [Reqs -> Op \cup {None}]
  /\ pc \in [Reqs -> Labels]
  /\ todo \in [Reqs -> Seq(Query)]
  /\ seen \in [Reqs -> Snapshot]
  /\ before \in [Reqs -> Snapshot]
  /\ left \in [Reqs -> Seq(Entry)]
  /\ target \in [Reqs -> SUBSET Row]
  /\ w \in [Reqs -> Writes]
  /\ reply \in [Reqs -> Reply]

\* A flag is committed with the configuration of every environment or not at all:
\* createFlag's INSERTs are one transaction, and nothing deletes either row.
WholeFlags == \A f \in Flags, e \in Envs : flagRow[f] = None <=> configRow[<<f, e>>] = None

\* At COMMIT the audited `after` is still the configuration the commit leaves:
\* the row lock taken by the version UPDATE keeps every other writer of the
\* configuration, its rules and its overrides out until then.
AuditAfterIsCommitted ==
  \A r \in Reqs : pc[r] = "commit" /\ OnConfig(op[r])
    => \A q \in ConfigQueries(op[r].flag, op[r].env) : w[r].audit.after[q[1]][q[2]] = Sees(r, q)

\* A mutation answered 200 left exactly one audit row, a refused one none,
\* and no request ever leaves two.
EntriesBy(r) == {i \in DOMAIN audit : audit[i].by = r}
AuditedOnce ==
  \A r \in Reqs :
    /\ Cardinality(EntriesBy(r)) <= 1
    /\ pc[r] = "done" /\ Mutates(op[r]) =>
         /\ reply[r].status = "ok" => EntriesBy(r) # {}
         /\ reply[r].status \notin {"ok", "error"} => EntriesBy(r) = {}

\* Two PUTs of rules never mix: the committed rules are the whole body of one PUT,
\* since UNIQUE (flag_config_id, position) makes the second of two racing PUTs fail.
RulesFromOnePut ==
  \A x \in Refs : child.rules[x] # {} =>
    \E i \in DOMAIN audit :
      /\ audit[i].op.kind = "rules" /\ <<audit[i].op.flag, audit[i].op.env>> = x
      /\ child.rules[x] = RowsOf(audit[i].by, audit[i].op.body)

\* Every request is answered; transactions that wait for each other are broken up.
EveryRequestAnswered == \A r \in Reqs : pc[r] # "idle" ~> pc[r] = "done"

-----------------------------------------------------------------------------
(* What holds when clients do not have two mutations of one flag in        *)
(* flight, and what the port's contract says holds always.                 *)

\* README "412: the version moved since you read it": of all updates sent with one
\* version, at most one takes effect, so each version names one content.
EachVersionWrittenOnce ==
  \A i, j \in DOMAIN audit :
    LET a == audit[i]  b == audit[j]
    IN i # j /\ OnConfig(a.op) /\ OnConfig(b.op) /\ a.op.flag = b.op.flag /\ a.op.env = b.op.env
       => a.after.config[<<a.op.flag, a.op.env>>].version
            # b.after.config[<<a.op.flag, a.op.env>>].version

\* Consecutive audit rows of one configuration meet: what the later one calls
\* `before` is what the earlier one called `after`.
AuditChain ==
  \A i, j \in DOMAIN audit :
    LET a == audit[i].op  b == audit[j].op
        Same(o) == OnConfig(o) /\ o.flag = b.flag /\ o.env = b.env
    IN i < j /\ OnConfig(b) /\ Same(a) /\ (\A k \in i + 1 .. j - 1 : ~Same(audit[k].op))
       => \A q \in ConfigQueries(b.flag, b.env) : audit[j].before[q[1]][q[2]] = audit[i].after[q[1]][q[2]]

\* A torn read errs on the safe side: the rules and overrides it returns are those of
\* the version it returns or of a later one, so that sending that version back
\* as If-Match can never overwrite rows newer than the ones read.
History(x) ==
  {audit[i].after : i \in {k \in DOMAIN audit : OnConfig(audit[k].op)
                                                  /\ <<audit[k].op.flag, audit[k].op.env>> = x}}
ReadVersionNeverAhead ==
  \A r \in Reqs, x \in Refs, t \in Tables :
    LET read == seen[r].config[x]
    IN pc[r] = "read" /\ todo[r] = <<>> /\ read # None =>
         \/ read.version = 1 /\ seen[r][t][x] = {}
         \/ \E h \in History(x) : h.config[x].version >= read.version /\ h[t][x] = seen[r][t][x]

(* The store implements the contract: the statements of a transaction      *)
(* stutter, and its COMMIT or refusal is the one atomic step.              *)
Mutators == {r \in Reqs : op[r] # None /\ Mutates(op[r])}
Contract == INSTANCE FlagContract WITH
  op <- [r \in Reqs |-> IF r \in Mutators THEN op[r] ELSE None],
  reply <- [r \in Reqs |-> IF r \in Mutators THEN reply[r] ELSE NoReply]
ImplementsContract == Contract!Spec
=============================================================================
