-------------------------- MODULE PgFlagStoreProofs --------------------------
(***************************************************************************)
(* For every set of flags, environments and requests, whatever the         *)
(* workload and however the statements interleave or fail: the state of    *)
(* the Postgres flag store stays well typed, no flag is ever committed     *)
(* without the configuration of every environment, and a mutation leaves   *)
(* exactly the audit row its answer promises, whose `after` is what it     *)
(* commits.  While writers of one flag take turns, the store implements    *)
(* FlagContract (the second half).                                         *)
(***************************************************************************)
EXTENDS PgFlagStore, SequenceTheorems, FiniteSetTheorems, TLAPS

(***************************************************************************)
(* The inductive invariant.  TypeOK alone is not inductive: what an action *)
(* writes is well typed only because a request is at a statement of its    *)
(* own kind of operation, with the rows it needs read or written before.   *)
(* WholeFlags moreover needs that a transaction that writes the version of *)
(* a configuration saw it committed, and that no row is ever deleted.      *)
(***************************************************************************)

NoConfigWritten(r) == \A e \in Envs : w[r].cfg[e] = None

\* The label of a request fits its operation, its writes and what it has read.
Protocol(r) ==
  /\ pc[r] \in {"idle", "read", "before", "check", "insertFlag", "done"} => w[r] = NoWrites
  /\ pc[r] # "idle" => op[r] \in Op
  /\ pc[r] = "check" => OnConfig(op[r])
  /\ pc[r] \in {"check", "deleting", "insertRow"} /\ Found(r) # None => configRow[Ref(r)] # None
  /\ pc[r] \in {"deleting", "insertRow"} =>
       op[r].kind \in Tables /\ Found(r) # None /\ w[r].flag = None /\ NoConfigWritten(r)
  /\ pc[r] \in {"insertFlag", "insertConfig"} => op[r].kind = "create"
  /\ pc[r] = "insertConfig" => w[r].flag # None
  /\ pc[r] \in {"after", "commit"} =>
       \/ op[r].kind = "create" /\ w[r].flag # None /\ \A e \in Envs : w[r].cfg[e] # None
       \/ op[r].kind = "archive" /\ flagRow[op[r].flag] # None /\ NoConfigWritten(r)
       \/ /\ OnConfig(op[r]) /\ w[r].flag = None
          /\ configRow[Ref(r)] # None /\ w[r].cfg[op[r].env] # None
          /\ \A e \in Envs : w[r].cfg[e] # None => e = op[r].env
  /\ pc[r] = "commit" => w[r].audit \in AuditRow

StoreInv == TypeOK /\ WholeFlags /\ \A r \in Reqs : Protocol(r)

-----------------------------------------------------------------------------
(* Data: operations, queries and the plans of reads.                       *)

LEMMA OpFields ==
  ASSUME NEW o \in Op
  PROVE  /\ o.kind \in {"create", "archive", "config", "rules", "overrides", "get", "find"}
         /\ o.flag \in Flags
         /\ OnConfig(o) \/ o.kind = "find" => o.env \in Envs
         /\ OnConfig(o) => o.expected \in Nat
         /\ o.kind = "config" => o.patch \in Patch
         /\ o.kind \in Tables => o.body \in Seq(Entry)
<1>1. Bodies["rules"] \subseteq Seq(Entry) /\ Bodies["overrides"] \subseteq Seq(Entry)
  BY FlagDataAssumption DEF FlagDataAssumption, Tables
<1>2. CASE o \in CreateOp \cup ArchiveOp \cup GetOp
  BY <1>2 DEF CreateOp, ArchiveOp, GetOp, OnConfig, Tables
<1>3. CASE o \in ConfigOp \cup FindOp
  BY <1>3 DEF ConfigOp, FindOp, OnConfig, Tables
<1>4. CASE o \in ReplaceOp("rules") \cup ReplaceOp("overrides")
  BY <1>1, <1>4 DEF ReplaceOp, OnConfig, Tables
<1> QED BY <1>2, <1>3, <1>4 DEF Op

LEMMA PatchedType ==
  ASSUME NEW cols \in [Columns -> Values], NEW patch \in Patch
  PROVE  Patched(cols, patch) \in [Columns -> Values]
  BY DEF Patched, Patch

LEMMA DefaultRow == NewFlagRow \in FlagRow /\ NewConfigRow \in ConfigRow
  BY FlagDataAssumption DEF FlagDataAssumption, NewFlagRow, FlagRow, NewConfigRow, ConfigRow

LEMMA NoneIsNoRow == None \notin FlagRow /\ None \notin ConfigRow /\ None \notin Op
  BY FlagDataAssumption DEF FlagDataAssumption

LEMMA RowsOfType ==
  ASSUME NEW r \in Reqs, NEW body \in Seq(Entry)
  PROVE  RowsOf(r, body) \subseteq Row
<1>1. \A i \in DOMAIN body : body[i] \in Entry
  BY LenProperties, ElementOfSeq
<1>2. ASSUME NEW i \in DOMAIN body
      PROVE  [key |-> body[i].key, val |-> body[i].val, by |-> r] \in Row
  BY <1>1, <1>2 DEF Entry, Row
<1> QED BY <1>2 DEF RowsOf

LEMMA QueryForms ==
  /\ \A f \in Flags : FlagQuery(f) \in Query
  /\ \A x \in Refs, t \in {"config", "rules", "overrides"} : <<t, x>> \in Query
  BY DEF Query, FlagQuery

LEMMA ByKeyType ==
  ASSUME NEW x \in Refs
  PROVE  ByKey(x) \in Seq(Query) /\ SubSeq(ByKey(x), 1, 2) \in Seq(Query)
<1>1. x[1] \in Flags
  BY DEF Refs
<1>2. ByKey(x) \in Seq(Query) /\ Len(ByKey(x)) = 4
  BY <1>1, QueryForms DEF ByKey
<1>3. \A i \in 1 .. 2 : i \in 1 .. Len(ByKey(x)) /\ ByKey(x)[i] \in Query
  <2>1. 1 .. 2 \subseteq 1 .. Len(ByKey(x))
    BY <1>2
  <2> QED BY <1>2, <2>1, ElementOfSeq
<1> QED BY <1>2, <1>3, SubSeqProperties

LEMMA EachEnvType ==
  ASSUME NEW f \in Flags
  PROVE  EachEnv(f) \in Seq(Query)
<1> DEFINE n == Len(EnvSeq)
           entry(i) == <<Details[((i - 1) % 3) + 1], <<f, EnvSeq[((i - 1) \div 3) + 1]>>>>
<1>1. n \in Nat /\ \A i \in 1 .. n : EnvSeq[i] \in Envs
  BY ElementOfSeq, LenProperties, FlagDataAssumption DEF FlagDataAssumption
<1>2. ASSUME NEW i \in 1 .. 3 * n PROVE entry(i) \in Query
  <2>1. ((i - 1) % 3) + 1 \in 1 .. 3 /\ ((i - 1) \div 3) + 1 \in 1 .. n
    BY <1>1
  <2>2. Details[((i - 1) % 3) + 1] \in {"config", "rules", "overrides"}
    BY <2>1 DEF Details
  <2>3. <<f, EnvSeq[((i - 1) \div 3) + 1]>> \in Refs
    BY <1>1, <2>1 DEF Refs
  <2> QED BY <2>2, <2>3, QueryForms
<1>3. 3 * n \in Nat /\ EachEnv(f) = [i \in 1 .. 3 * n |-> entry(i)]
  BY <1>1 DEF EachEnv
<1> HIDE DEF n, entry
<1>4. EachEnv(f) \in [1 .. 3 * n -> Query]
  BY <1>2, <1>3
<1> QED BY <1>3, <1>4, SeqDef

LEMMA AllEnvsType ==
  ASSUME NEW f \in Flags
  PROVE  AllEnvs(f) \in Seq(Query)
<1>1. <<FlagQuery(f)>> \in Seq(Query)
  BY QueryForms
<1> QED BY <1>1, EachEnvType, ConcatProperties DEF AllEnvs

LEMMA PlanType ==
  ASSUME NEW o \in Op
  PROVE  Plan(o) \in Seq(Query)
<1>1. o.kind \in {"get", "archive"} => Plan(o) \in Seq(Query)
  BY OpFields, AllEnvsType DEF Plan
<1>2. o.kind = "create" => Plan(o) \in Seq(Query)
  BY EmptySeq DEF Plan
<1>3. OnConfig(o) \/ o.kind = "find" => <<o.flag, o.env>> \in Refs
  BY OpFields DEF Refs
<1>4. o.kind \notin {"get", "archive", "create"} => OnConfig(o) \/ o.kind = "find"
  BY OpFields DEF OnConfig, Tables
<1> QED BY <1>1, <1>2, <1>3, <1>4, ByKeyType DEF Plan

LEMMA RestType ==
  ASSUME NEW q, NEW value, NEW rest \in Seq(Query)
  PROVE  Rest(q, value, rest) \in Seq(Query)
<1>1. SubSeq(rest, 3, Len(rest)) \in Seq(Query)
  <2>1. Len(rest) \in Nat /\ \A i \in 3 .. Len(rest) : rest[i] \in Query
    BY LenProperties, ElementOfSeq
  <2> QED BY <2>1, SubSeqProperties
<1> QED BY <1>1, EmptySeq DEF Rest

-----------------------------------------------------------------------------
(* State: what a SELECT returns, and how one more answer is remembered.    *)

LEMMA RefType ==
  ASSUME NEW r \in Reqs, op[r] \in Op, OnConfig(op[r])
  PROVE  Ref(r) \in Refs /\ op[r].flag \in Flags /\ op[r].env \in Envs
  BY OpFields DEF Ref, Refs

LEMMA WritesFields ==
  ASSUME TypeOK, NEW r \in Reqs
  PROVE  /\ w[r].flag \in FlagRow \cup {None}
         /\ w[r].cfg \in [Envs -> ConfigRow \cup {None}]
         /\ w[r].del \subseteq Row /\ w[r].ins \subseteq Row
         /\ w[r].audit \in AuditRow \cup {None}
  BY DEF TypeOK, Writes

LEMMA RowsSeenType ==
  ASSUME TypeOK, NEW r \in Reqs, NEW t \in Tables, NEW x \in Refs
  PROVE  RowsSeen(r, t, x) \subseteq Row
  BY WritesFields DEF TypeOK, RowsSeen

LEMMA SeesType ==
  ASSUME TypeOK, NEW r \in Reqs, NEW q \in Query
  PROVE  \/ q[1] = "flag" /\ q[2] \in Flags /\ Sees(r, q) \in FlagRow \cup {None}
         \/ q[1] = "config" /\ q[2] \in Refs /\ Sees(r, q) \in ConfigRow \cup {None}
         \/ q[1] \in Tables /\ q[2] \in Refs /\ Sees(r, q) \in SUBSET Row
<1>1. CASE q \in {"flag"} \X Flags
  <2>1. q[1] = "flag" /\ q[2] \in Flags
    BY <1>1
  <2>2. flagRow[q[2]] \in FlagRow \cup {None} /\ w[r].flag \in FlagRow \cup {None}
    BY <2>1, WritesFields DEF TypeOK
  <2> QED BY <2>1, <2>2 DEF Sees
<1>2. CASE q \in {"config"} \X Refs
  <2>1. q[1] = "config" /\ q[2] \in Refs /\ q[2][2] \in Envs
    BY <1>2 DEF Refs
  <2>2. configRow[q[2]] \in ConfigRow \cup {None} /\ w[r].cfg[q[2][2]] \in ConfigRow \cup {None}
    BY <2>1, WritesFields DEF TypeOK
  <2> QED BY <2>1, <2>2 DEF Sees
<1>3. CASE q \in Tables \X Refs
  <2>1. q[1] \in Tables /\ q[2] \in Refs /\ q[1] # "flag" /\ q[1] # "config"
    BY <1>3 DEF Tables
  <2> QED BY <2>1, RowsSeenType DEF Sees
<1> QED BY <1>1, <1>2, <1>3 DEF Query, Tables

LEMMA NothingReadType == NothingRead \in Snapshot
  BY DEF NothingRead, Snapshot

LEMMA SnapshotUpdate ==
  ASSUME NEW s \in Snapshot
  PROVE  /\ \A f \in Flags, v \in FlagRow \cup {None} : [s EXCEPT !["flag"][f] = v] \in Snapshot
         /\ \A x \in Refs, v \in ConfigRow \cup {None} : [s EXCEPT !["config"][x] = v] \in Snapshot
         /\ \A x \in Refs, v \in SUBSET Row : [s EXCEPT !["rules"][x] = v] \in Snapshot
         /\ \A x \in Refs, v \in SUBSET Row : [s EXCEPT !["overrides"][x] = v] \in Snapshot
  BY DEF Snapshot

LEMMA SelectTypes ==
  ASSUME TypeOK, NEW r \in Reqs, Select(r)
  PROVE  /\ seen' \in [Reqs -> Snapshot] /\ todo' \in [Reqs -> Seq(Query)]
         /\ \A s \in Reqs \ {r} : seen'[s] = seen[s]
<1> DEFINE q == Head(todo[r])
           value == Sees(r, q)
<1>1. todo[r] \in Seq(Query) /\ todo[r] # <<>> /\ seen[r] \in Snapshot
  BY DEF TypeOK, Select
<1>2. q \in Query /\ Tail(todo[r]) \in Seq(Query)
  BY <1>1, HeadTailProperties
<1>3. seen' = [seen EXCEPT ![r] = [seen[r] EXCEPT ![q[1]][q[2]] = value]]
  BY DEF Select
<1>4. [seen[r] EXCEPT ![q[1]][q[2]] = value] \in Snapshot
  BY <1>1, <1>2, SeesType, SnapshotUpdate DEF Tables
<1>5. todo' = [todo EXCEPT ![r] = Rest(q, value, Tail(todo[r]))]
  BY DEF Select
<1>6. Rest(q, value, Tail(todo[r])) \in Seq(Query)
  BY <1>2, RestType
<1> HIDE DEF q, value
<1> QED BY <1>3, <1>4, <1>5, <1>6 DEF TypeOK

-----------------------------------------------------------------------------
(* Framing: a step of one request leaves the others where they are, and    *)
(* what holds of them only depends on rows that are never deleted.         *)

LocalTypes ==
  /\ op \in [Reqs -> Op \cup {None}] /\ pc \in [Reqs -> Labels]
  /\ todo \in [Reqs -> Seq(Query)]
  /\ seen \in [Reqs -> Snapshot] /\ before \in [Reqs -> Snapshot]
  /\ left \in [Reqs -> Seq(Entry)] /\ target \in [Reqs -> SUBSET Row]
  /\ w \in [Reqs -> Writes] /\ reply \in [Reqs -> Reply]

CommittedTypes ==
  /\ flagRow \in [Flags -> FlagRow \cup {None}] /\ configRow \in [Refs -> ConfigRow \cup {None}]
  /\ child \in [Tables -> [Refs -> SUBSET Row]] /\ audit \in Seq(AuditRow)

LEMMA SplitTypes == TypeOK <=> CommittedTypes /\ LocalTypes
  BY DEF TypeOK, CommittedTypes, LocalTypes

OnlyOf(r) == \A s \in Reqs \ {r} :
  op'[s] = op[s] /\ pc'[s] = pc[s] /\ w'[s] = w[s] /\ seen'[s] = seen[s]

RowsStay ==
  /\ \A f \in Flags : flagRow[f] # None => flagRow'[f] # None
  /\ \A x \in Refs : configRow[x] # None => configRow'[x] # None

LEMMA OthersKeepProtocol ==
  ASSUME NEW r \in Reqs, OnlyOf(r), RowsStay, NEW s \in Reqs \ {r}, Protocol(s)
  PROVE  Protocol(s)'
<1>1. op'[s] = op[s] /\ pc'[s] = pc[s] /\ w'[s] = w[s] /\ seen'[s] = seen[s]
  BY DEF OnlyOf
<1>2. /\ Found(s)' = Found(s) /\ Ref(s)' = Ref(s) /\ NoConfigWritten(s)' = NoConfigWritten(s)
  BY <1>1 DEF Found, Ref, NoConfigWritten
<1>3. pc[s] \in {"check", "deleting", "insertRow"} => Ref(s) \in Refs
  BY OpFields DEF Protocol, OnConfig, Ref, Refs
<1>4. pc[s] \in {"after", "commit"} /\ OnConfig(op[s]) => Ref(s) \in Refs
  BY OpFields DEF Protocol, Ref, Refs
<1>5. pc[s] \in {"after", "commit"} => op[s].flag \in Flags
  BY OpFields DEF Protocol
<1> QED BY <1>1, <1>2, <1>3, <1>4, <1>5 DEF Protocol, RowsStay

(* A step that commits nothing is decided by what it does to its own request. *)
LEMMA QuietStep ==
  ASSUME StoreInv, NEW r \in Reqs, UNCHANGED committed, LocalTypes', OnlyOf(r), Protocol(r)'
  PROVE  StoreInv'
<1>1. RowsStay /\ CommittedTypes' /\ WholeFlags'
  BY SplitTypes DEF StoreInv, committed, RowsStay, CommittedTypes, WholeFlags
<1>2. ASSUME NEW s \in Reqs PROVE Protocol(s)'
  BY <1>1, OthersKeepProtocol DEF StoreInv
<1>3. TypeOK'
  BY <1>1 DEF TypeOK, CommittedTypes, LocalTypes
<1> QED BY <1>1, <1>2, <1>3 DEF StoreInv

LEMMA FinishStep ==
  ASSUME LocalTypes, NEW r \in Reqs, op[r] \in Op,
         NEW status \in Status, NEW version \in Nat, Finish(r, status, version)
  PROVE  LocalTypes' /\ OnlyOf(r) /\ Protocol(r)'
<1>1. NoWrites \in Writes
  BY DEF NoWrites, Writes
<1>2. [status |-> status, version |-> version] \in Reply
  BY DEF Reply
<1>3. LocalTypes'
  <2>1. op' = op /\ pc' \in [Reqs -> Labels]
    BY DEF Finish, LocalTypes, Labels
  <2>2. todo' \in [Reqs -> Seq(Query)] /\ left' \in [Reqs -> Seq(Entry)]
    BY EmptySeq DEF Finish, LocalTypes
  <2>3. seen' \in [Reqs -> Snapshot] /\ before' \in [Reqs -> Snapshot]
    BY NothingReadType DEF Finish, LocalTypes
  <2>4. /\ target' \in [Reqs -> SUBSET Row] /\ w' \in [Reqs -> Writes]
        /\ reply' \in [Reqs -> Reply]
    BY <1>1, <1>2 DEF Finish, LocalTypes
  <2> QED BY <2>1, <2>2, <2>3, <2>4 DEF LocalTypes
<1>4. OnlyOf(r)
  BY DEF Finish, OnlyOf, LocalTypes
<1>5. op'[r] = op[r] /\ pc'[r] = "done" /\ w'[r] = NoWrites
  BY DEF Finish, LocalTypes
<1>6. Protocol(r)'
  BY <1>5 DEF Protocol, NoWrites
<1> QED BY <1>3, <1>4, <1>6

LEMMA RollbackStep ==
  ASSUME StoreInv, NEW r \in Reqs, pc[r] # "idle", NEW status \in Status, Rollback(r, status)
  PROVE  StoreInv'
<1>1. op[r] \in Op
  BY DEF StoreInv, Protocol
<1>2. LocalTypes' /\ OnlyOf(r) /\ Protocol(r)'
  BY <1>1, FinishStep, SplitTypes DEF Rollback, StoreInv
<1> QED BY <1>2, QuietStep DEF Rollback

-----------------------------------------------------------------------------
(* One lemma per kind of step that commits nothing.                        *)

LEMMA SelectStep ==
  ASSUME StoreInv, NEW r \in Reqs, Select(r)
  PROVE  StoreInv'
<1> DEFINE q == Head(todo[r])
<1>1. /\ UNCHANGED committed
      /\ UNCHANGED <<op, pc, before, left, target, w, reply>>
  BY DEF Select
<1>2. /\ seen' \in [Reqs -> Snapshot] /\ todo' \in [Reqs -> Seq(Query)]
      /\ \A s \in Reqs \ {r} : seen'[s] = seen[s]
  BY SelectTypes DEF StoreInv
<1>3. LocalTypes' /\ OnlyOf(r)
  BY <1>1, <1>2, SplitTypes DEF StoreInv, LocalTypes, OnlyOf
<1>4. Found(r)' = Found(r) \/ (q = <<"config", Ref(r)>> /\ Found(r)' = Sees(r, q))
  <2>1. seen[r] \in Snapshot /\ seen \in [Reqs -> Snapshot] /\ q \in Query
    BY HeadTailProperties DEF Select, StoreInv, TypeOK
  <2>2. seen' = [seen EXCEPT ![r] = [seen[r] EXCEPT ![q[1]][q[2]] = Sees(r, q)]]
    BY DEF Select
  <2>3. seen'[r] = [seen[r] EXCEPT ![q[1]][q[2]] = Sees(r, q)]
    BY <2>1, <2>2
  <2>4. Ref(r)' = Ref(r)
    BY <1>1 DEF Ref
  <2>5. q = <<q[1], q[2]>>
    BY <2>1 DEF Query
  <2> QED BY <2>1, <2>3, <2>4, <2>5 DEF Found, Snapshot
<1>5. ASSUME pc[r] \in {"check", "deleting", "insertRow"}
      PROVE  q = <<"config", Ref(r)>> => Sees(r, q) = configRow[Ref(r)]
  <2>1. op[r] \in Op /\ OnConfig(op[r])
    BY <1>5 DEF StoreInv, Protocol, OnConfig
  <2>2. w[r].cfg[op[r].env] = None
    BY <1>5, <2>1, RefType DEF StoreInv, Protocol, NoConfigWritten, NoWrites
  <2> QED BY <2>2 DEF Sees, Ref
<1>6. Protocol(r)
  BY DEF StoreInv
<1>7. Ref(r)' = Ref(r) /\ NoConfigWritten(r)' = NoConfigWritten(r)
  BY <1>1 DEF Ref, NoConfigWritten
<1> HIDE DEF q
<1>8. /\ flagRow' = flagRow /\ configRow' = configRow
      /\ op'[r] = op[r] /\ pc'[r] = pc[r] /\ w'[r] = w[r]
  BY <1>1 DEF committed
<1>9. Protocol(r)'
  BY <1>4, <1>5, <1>6, <1>7, <1>8 DEF Protocol
<1> QED BY <1>1, <1>3, <1>9, QuietStep

(* Every refusal, failure and answered read rolls back. *)
LEMMA RollbackSteps ==
  ASSUME StoreInv, NEW r \in Reqs,
         \/ AnswerRead(r) \/ NotFoundConfig(r) \/ VersionConflict(r) \/ UniqueViolation(r)
         \/ DuplicateKey(r) \/ NotFoundFlag(r) \/ ConnectionLost(r) \/ DeadlockDetected(r)
  PROVE  StoreInv'
<1>1. ReadOutcome(r) \in Status
  BY DEF ReadOutcome, Status
<1>2. CASE AnswerRead(r)
  BY <1>1, <1>2, RollbackStep DEF AnswerRead
<1>3. CASE \/ NotFoundConfig(r) \/ VersionConflict(r) \/ UniqueViolation(r)
           \/ DuplicateKey(r) \/ NotFoundFlag(r)
  BY <1>3, RollbackStep DEF NotFoundConfig, VersionConflict, UniqueViolation, DuplicateKey,
                            NotFoundFlag, Status
<1>4. CASE ConnectionLost(r)
  BY <1>4, RollbackStep DEF ConnectionLost, Active, Status
<1>5. CASE DeadlockDetected(r)
  <2>1. PICK n \in 2 .. Cardinality(Reqs) : \E p \in [1 .. n -> Reqs] :
          p[1] = r /\ \A i \in 1 .. n : p[(i % n) + 1] \in WaitsFor(p[i])
    BY <1>5 DEF DeadlockDetected, InCycle
  <2>2. WaitsFor(r) # {}
    <3>1. 1 \in 1 .. n
      OBVIOUS
    <3> QED BY <2>1, <3>1
  <2>3. pc[r] # "idle"
    BY <2>2 DEF WaitsFor
  <2>4. Rollback(r, "error") /\ "error" \in Status
    BY <1>5 DEF DeadlockDetected, Status
  <2> QED BY <2>3, <2>4, RollbackStep
<1> QED BY <1>2, <1>3, <1>4, <1>5

LEMMA ReceiveStep ==
  ASSUME StoreInv, NEW r \in Reqs, NEW o \in Workload[r], Receive(r, o)
  PROVE  StoreInv'
<1>1. o \in Op
  BY FlagDataAssumption DEF FlagDataAssumption
<1>2. FirstStatement(o) \in {"read", "insertFlag", "before"}
  BY DEF FirstStatement
<1>3. o.kind = "create" <=> FirstStatement(o) = "insertFlag"
  BY DEF FirstStatement
<1>4. LocalTypes' /\ OnlyOf(r)
  BY <1>1, <1>2, PlanType, SplitTypes DEF StoreInv, Receive, LocalTypes, OnlyOf, Labels
<1>5. op'[r] = o /\ pc'[r] = FirstStatement(o) /\ w'[r] = NoWrites
  BY SplitTypes DEF StoreInv, Receive, LocalTypes, Protocol
<1>6. Protocol(r)'
  BY <1>1, <1>2, <1>3, <1>5 DEF Protocol
<1> QED BY <1>4, <1>6, QuietStep DEF Receive

LEMMA RecheckStep ==
  ASSUME StoreInv, NEW r \in Reqs, Recheck(r)
  PROVE  StoreInv'
<1>1. op[r] \in Op /\ OnConfig(op[r]) /\ w[r] = NoWrites
  BY DEF StoreInv, Recheck, Protocol
<1>2. Ref(r) \in Refs
  BY <1>1, RefType
<1>3. SubSeq(ByKey(Ref(r)), 1, 2) \in Seq(Query)
  BY <1>2, ByKeyType
<1>4. LocalTypes' /\ OnlyOf(r)
  BY <1>3, NothingReadType, SplitTypes DEF StoreInv, Recheck, LocalTypes, OnlyOf, Labels
<1>5. op'[r] = op[r] /\ pc'[r] = "check" /\ w'[r] = w[r] /\ seen'[r] = NothingRead
  BY SplitTypes DEF StoreInv, Recheck, LocalTypes
<1>6. Found(r)' = None
  BY <1>2, <1>5 DEF Found, Ref, NothingRead
<1>7. Protocol(r)'
  BY <1>1, <1>5, <1>6 DEF Protocol
<1> QED BY <1>4, <1>7, QuietStep DEF Recheck

-----------------------------------------------------------------------------
(* Writing one field of a transaction's uncommitted writes.                *)

ConfigWritten(r, e, c) == w' = [w EXCEPT ![r].cfg[e] = c]
FlagWritten(r, row) == w' = [w EXCEPT ![r].flag = row]
RowsWritten(r, rows) ==
  w' = [w EXCEPT ![r].del = rows] \/ w' = [w EXCEPT ![r].ins = rows]
AuditWritten(r, row) == w' = [w EXCEPT ![r].audit = row]

LEMMA WriteConfig ==
  ASSUME LocalTypes, NEW r \in Reqs, NEW e \in Envs, NEW c \in ConfigRow,
         ConfigWritten(r, e, c)
  PROVE  /\ w' \in [Reqs -> Writes]
         /\ \A s \in Reqs \ {r} : w'[s] = w[s]
         /\ w'[r].flag = w[r].flag
         /\ \A d \in Envs : w'[r].cfg[d] = IF d = e THEN c ELSE w[r].cfg[d]
  BY DEF LocalTypes, Writes, ConfigWritten

LEMMA WriteFlag ==
  ASSUME LocalTypes, NEW r \in Reqs, NEW row \in FlagRow, FlagWritten(r, row)
  PROVE  /\ w' \in [Reqs -> Writes]
         /\ \A s \in Reqs \ {r} : w'[s] = w[s]
         /\ w'[r].flag = row /\ w'[r].cfg = w[r].cfg
  BY DEF LocalTypes, Writes, FlagWritten

LEMMA WriteRows ==
  ASSUME LocalTypes, NEW r \in Reqs, NEW rows \in SUBSET Row, RowsWritten(r, rows)
  PROVE  /\ w' \in [Reqs -> Writes]
         /\ \A s \in Reqs \ {r} : w'[s] = w[s]
         /\ w'[r].flag = w[r].flag /\ w'[r].cfg = w[r].cfg
<1>1. w[r] \in Writes
  BY DEF LocalTypes
<1>2. CASE w' = [w EXCEPT ![r].del = rows]
  BY <1>1, <1>2 DEF LocalTypes, Writes
<1>3. CASE w' = [w EXCEPT ![r].ins = rows]
  BY <1>1, <1>3 DEF LocalTypes, Writes
<1> QED BY <1>2, <1>3 DEF RowsWritten

LEMMA WriteAudit ==
  ASSUME LocalTypes, NEW r \in Reqs, NEW row \in AuditRow, AuditWritten(r, row)
  PROVE  /\ w' \in [Reqs -> Writes]
         /\ \A s \in Reqs \ {r} : w'[s] = w[s]
         /\ w'[r].flag = w[r].flag /\ w'[r].cfg = w[r].cfg /\ w'[r].audit = row
  BY DEF LocalTypes, Writes, AuditWritten

LEMMA ReadAfterStep ==
  ASSUME LocalTypes, NEW r \in Reqs, NEW plan \in Seq(Query), NEW already \in Snapshot,
         ReadAfter(r, plan, already)
  PROVE  /\ pc' \in [Reqs -> Labels] /\ pc'[r] = "after"
         /\ todo' \in [Reqs -> Seq(Query)] /\ seen' \in [Reqs -> Snapshot]
         /\ \A s \in Reqs \ {r} : pc'[s] = pc[s] /\ seen'[s] = seen[s]
  BY DEF ReadAfter, LocalTypes, Labels

-----------------------------------------------------------------------------
(* updateConfig and the replacements.                                      *)

(* At a check that passed, the configuration row was found committed. *)
LEMMA PassedFacts ==
  ASSUME StoreInv, NEW r \in Reqs, Passed(r)
  PROVE  /\ op[r] \in Op /\ OnConfig(op[r]) /\ Ref(r) \in Refs /\ op[r].env \in Envs
         /\ Found(r) \in ConfigRow /\ configRow[Ref(r)] # None /\ w[r] = NoWrites
<1>1. op[r] \in Op /\ OnConfig(op[r]) /\ w[r] = NoWrites
  BY DEF StoreInv, Protocol, Passed
<1>2. Ref(r) \in Refs /\ op[r].env \in Envs
  BY <1>1, RefType
<1>3. Found(r) # None /\ configRow[Ref(r)] # None
  BY DEF StoreInv, Protocol, Passed
<1>4. Found(r) \in ConfigRow \cup {None}
  BY <1>2 DEF StoreInv, TypeOK, Found, Snapshot
<1> QED BY <1>1, <1>2, <1>3, <1>4

(* Writing the configuration's next version and going on to the second read. *)
LEMMA VersionWritten ==
  ASSUME StoreInv, NEW r \in Reqs, op[r] \in Op, OnConfig(op[r]),
         w[r].flag = None, NoConfigWritten(r), configRow[Ref(r)] # None,
         NEW c \in ConfigRow, ConfigWritten(r, op[r].env, c),
         ReadAfter(r, ByKey(Ref(r)), NothingRead),
         UNCHANGED <<committed, op, before, left, target, reply>>
  PROVE  StoreInv'
<1>1. LocalTypes /\ Ref(r) \in Refs /\ op[r].env \in Envs
  BY RefType, SplitTypes DEF StoreInv
<1>2. /\ w' \in [Reqs -> Writes]
      /\ \A s \in Reqs \ {r} : w'[s] = w[s]
      /\ w'[r].flag = w[r].flag
      /\ \A d \in Envs : w'[r].cfg[d] = IF d = op[r].env THEN c ELSE w[r].cfg[d]
  BY <1>1, WriteConfig
<1>3. ByKey(Ref(r)) \in Seq(Query)
  BY <1>1, ByKeyType
<1>4. /\ pc' \in [Reqs -> Labels] /\ pc'[r] = "after"
      /\ todo' \in [Reqs -> Seq(Query)] /\ seen' \in [Reqs -> Snapshot]
      /\ \A s \in Reqs \ {r} : pc'[s] = pc[s] /\ seen'[s] = seen[s]
  BY <1>1, <1>3, NothingReadType, ReadAfterStep
<1>5. LocalTypes' /\ OnlyOf(r)
  BY <1>1, <1>2, <1>4 DEF LocalTypes, OnlyOf
<1>6. /\ op'[r] = op[r] /\ Ref(r)' = Ref(r) /\ configRow' = configRow
  BY DEF Ref, committed
<1>7. \A e \in Envs : w'[r].cfg[e] # None => e = op[r].env
  BY <1>2 DEF NoConfigWritten
<1>8. w'[r].flag = None /\ w'[r].cfg[op[r].env] # None
  BY <1>1, <1>2, NoneIsNoRow
<1>9. Protocol(r)'
  BY <1>4, <1>6, <1>7, <1>8 DEF Protocol
<1> QED BY <1>5, <1>9, QuietStep

LEMMA UpdateConfigStep ==
  ASSUME StoreInv, NEW r \in Reqs, UpdateConfig(r)
  PROVE  StoreInv'
<1> DEFINE c == [cols |-> Patched(Found(r).cols, op[r].patch), version |-> Found(r).version + 1]
<1>1. /\ op[r] \in Op /\ OnConfig(op[r]) /\ Found(r) \in ConfigRow
      /\ configRow[Ref(r)] # None /\ w[r] = NoWrites
  BY PassedFacts DEF UpdateConfig
<1>2. op[r].patch \in Patch
  BY <1>1, OpFields DEF UpdateConfig
<1>3. Found(r).cols \in [Columns -> Values] /\ Found(r).version + 1 \in Nat \ {0}
  BY <1>1 DEF ConfigRow
<1>4. c \in ConfigRow
  BY <1>2, <1>3, PatchedType DEF ConfigRow
<1>5. w[r].flag = None /\ NoConfigWritten(r)
  BY <1>1 DEF NoWrites, NoConfigWritten
<1>6. /\ ConfigWritten(r, op[r].env, c)
      /\ ReadAfter(r, ByKey(Ref(r)), NothingRead)
      /\ UNCHANGED <<committed, op, before, left, target, reply>>
  BY DEF UpdateConfig, ConfigWritten
<1> HIDE DEF c
<1> QED BY <1>1, <1>4, <1>5, <1>6, VersionWritten

LEMMA BumpVersionStep ==
  ASSUME StoreInv, NEW r \in Reqs, BumpVersion(r)
  PROVE  StoreInv'
<1> DEFINE c == [cols |-> configRow[Ref(r)].cols, version |-> Found(r).version + 1]
<1>1. /\ op[r] \in Op /\ OnConfig(op[r]) /\ Found(r) # None /\ configRow[Ref(r)] # None
      /\ w[r].flag = None /\ NoConfigWritten(r)
  BY DEF BumpVersion, StoreInv, Protocol, OnConfig
<1>2. Ref(r) \in Refs
  BY <1>1, RefType
<1>3. Found(r) \in ConfigRow /\ configRow[Ref(r)] \in ConfigRow
  BY <1>1, <1>2 DEF StoreInv, TypeOK, Found, Snapshot
<1>4. c \in ConfigRow
  BY <1>3 DEF ConfigRow
<1>5. /\ ConfigWritten(r, op[r].env, c)
      /\ ReadAfter(r, ByKey(Ref(r)), NothingRead)
      /\ UNCHANGED <<committed, op, before, left, target, reply>>
  BY DEF BumpVersion, ConfigWritten
<1> HIDE DEF c
<1> QED BY <1>1, <1>4, <1>5, VersionWritten

LEMMA StartDeleteStep ==
  ASSUME StoreInv, NEW r \in Reqs, StartDelete(r)
  PROVE  StoreInv'
<1>1. /\ op[r] \in Op /\ op[r].kind \in Tables /\ Ref(r) \in Refs
      /\ Found(r) # None /\ configRow[Ref(r)] # None /\ w[r] = NoWrites
  BY PassedFacts, NoneIsNoRow DEF StartDelete
<1>2. RowsSeen(r, op[r].kind, Ref(r)) \in SUBSET Row
  BY <1>1, RowsSeenType DEF StoreInv
<1>3. LocalTypes' /\ OnlyOf(r)
  BY <1>2, SplitTypes DEF StoreInv, StartDelete, LocalTypes, OnlyOf, Labels
<1>4. /\ op'[r] = op[r] /\ pc'[r] = "deleting" /\ w'[r] = w[r] /\ configRow' = configRow
      /\ Found(r)' = Found(r) /\ Ref(r)' = Ref(r)
  BY SplitTypes DEF StoreInv, StartDelete, LocalTypes, committed, Found, Ref
<1>5. w'[r].flag = None /\ NoConfigWritten(r)'
  BY <1>1, <1>4 DEF NoWrites, NoConfigWritten
<1>6. Protocol(r)'
  BY <1>1, <1>4, <1>5 DEF Protocol
<1> QED BY <1>3, <1>6, QuietStep DEF StartDelete

(* Deleting and inserting rows: the version has not been written yet. *)
LEMMA RowsStep ==
  ASSUME StoreInv, NEW r \in Reqs, pc[r] \in {"deleting", "insertRow"},
         NEW rows \in SUBSET Row, RowsWritten(r, rows),
         pc' = [pc EXCEPT ![r] = "insertRow"], left' \in [Reqs -> Seq(Entry)],
         target' \in [Reqs -> SUBSET Row],
         UNCHANGED <<committed, op, todo, seen, before, reply>>
  PROVE  StoreInv'
<1>1. /\ op[r] \in Op /\ op[r].kind \in Tables /\ Found(r) # None /\ configRow[Ref(r)] # None
      /\ w[r].flag = None /\ NoConfigWritten(r)
  BY DEF StoreInv, Protocol
<1>2. LocalTypes
  BY SplitTypes DEF StoreInv
<1>3. /\ w' \in [Reqs -> Writes]
      /\ \A s \in Reqs \ {r} : w'[s] = w[s]
      /\ w'[r].flag = w[r].flag /\ w'[r].cfg = w[r].cfg
  BY <1>2, WriteRows
<1>4. LocalTypes' /\ OnlyOf(r)
  BY <1>2, <1>3 DEF LocalTypes, OnlyOf, Labels
<1>5. /\ op'[r] = op[r] /\ pc'[r] = "insertRow" /\ configRow' = configRow
      /\ Found(r)' = Found(r) /\ Ref(r)' = Ref(r)
  BY <1>2 DEF LocalTypes, committed, Found, Ref
<1>6. w'[r].flag = None /\ NoConfigWritten(r)'
  BY <1>1, <1>3 DEF NoConfigWritten
<1>7. Protocol(r)'
  BY <1>1, <1>5, <1>6 DEF Protocol
<1> QED BY <1>4, <1>7, QuietStep

LEMMA FinishDeleteStep ==
  ASSUME StoreInv, NEW r \in Reqs, FinishDelete(r)
  PROVE  StoreInv'
<1>1. op[r] \in Op /\ op[r].kind \in Tables /\ LocalTypes
  BY SplitTypes DEF StoreInv, Protocol, FinishDelete
<1>2. op[r].body \in Seq(Entry)
  BY <1>1, OpFields
<1>3. target[r] \cap MyRows(r) \in SUBSET Row
  BY <1>1 DEF LocalTypes
<1>4. RowsWritten(r, target[r] \cap MyRows(r))
  BY DEF FinishDelete, RowsWritten
<1>5. left' \in [Reqs -> Seq(Entry)] /\ target' \in [Reqs -> SUBSET Row]
  BY <1>1, <1>2 DEF FinishDelete, LocalTypes
<1> QED BY <1>3, <1>4, <1>5, RowsStep DEF FinishDelete

LEMMA InsertRowStep ==
  ASSUME StoreInv, NEW r \in Reqs, InsertRow(r)
  PROVE  StoreInv'
<1> DEFINE rows == w[r].ins \cup RowsOf(r, <<Head(left[r])>>)
<1>1. LocalTypes
  BY SplitTypes DEF StoreInv
<1>2. left[r] \in Seq(Entry) /\ left[r] # <<>>
  BY <1>1 DEF LocalTypes, InsertRow
<1>3. Head(left[r]) \in Entry /\ Tail(left[r]) \in Seq(Entry)
  BY <1>2, HeadTailProperties
<1>4. rows \in SUBSET Row
  <2>1. <<Head(left[r])>> \in Seq(Entry)
    BY <1>3
  <2> QED BY <2>1, RowsOfType, WritesFields DEF StoreInv
<1>5. RowsWritten(r, rows)
  BY <1>1 DEF InsertRow, RowsWritten, LocalTypes
<1>6. left' \in [Reqs -> Seq(Entry)] /\ target' \in [Reqs -> SUBSET Row]
  BY <1>1, <1>3 DEF InsertRow, LocalTypes
<1>7. pc[r] = "insertRow" /\ pc' = [pc EXCEPT ![r] = "insertRow"]
  BY <1>1 DEF InsertRow, LocalTypes
<1> HIDE DEF rows
<1> QED BY <1>4, <1>5, <1>6, <1>7, RowsStep DEF InsertRow

-----------------------------------------------------------------------------
(* createFlag, archiveFlag and the audit row.                              *)

LEMMA InsertFlagStep ==
  ASSUME StoreInv, NEW r \in Reqs, InsertFlag(r)
  PROVE  StoreInv'
<1>1. LocalTypes /\ op[r] \in Op /\ op[r].kind = "create"
  BY SplitTypes DEF StoreInv, Protocol, InsertFlag
<1>2. FlagWritten(r, NewFlagRow)
  BY DEF InsertFlag, FlagWritten
<1>3. /\ w' \in [Reqs -> Writes]
      /\ \A s \in Reqs \ {r} : w'[s] = w[s]
      /\ w'[r].flag = NewFlagRow
  BY <1>1, <1>2, WriteFlag, DefaultRow
<1>4. LocalTypes' /\ OnlyOf(r)
  BY <1>1, <1>3 DEF InsertFlag, LocalTypes, OnlyOf, Labels
<1>5. op'[r] = op[r] /\ pc'[r] = "insertConfig"
  BY <1>1 DEF InsertFlag, LocalTypes
<1>6. w'[r].flag # None
  BY <1>3, DefaultRow, NoneIsNoRow
<1>7. Protocol(r)'
  BY <1>1, <1>5, <1>6 DEF Protocol
<1> QED BY <1>4, <1>7, QuietStep DEF InsertFlag

LEMMA InsertConfigStep ==
  ASSUME StoreInv, NEW r \in Reqs, InsertConfig(r)
  PROVE  StoreInv'
<1>1. LocalTypes /\ op[r] \in Op /\ op[r].kind = "create" /\ w[r].flag # None
  BY SplitTypes DEF StoreInv, Protocol, InsertConfig
<1>2. PICK i \in EnvsLeft(r) : ConfigWritten(r, EnvSeq[i], NewConfigRow)
  BY DEF InsertConfig, ConfigWritten
<1>3. EnvSeq[i] \in Envs
  BY DEF EnvsLeft, Envs
<1>4. /\ w' \in [Reqs -> Writes]
      /\ \A s \in Reqs \ {r} : w'[s] = w[s]
      /\ w'[r].flag = w[r].flag
  BY <1>1, <1>2, <1>3, WriteConfig, DefaultRow
<1>5. LocalTypes' /\ OnlyOf(r)
  BY <1>1, <1>4 DEF InsertConfig, LocalTypes, OnlyOf
<1>6. Protocol(r)'
  BY <1>1, <1>4 DEF InsertConfig, Protocol
<1> QED BY <1>5, <1>6, QuietStep DEF InsertConfig

LEMMA ReadCreatedStep ==
  ASSUME StoreInv, NEW r \in Reqs, ReadCreated(r)
  PROVE  StoreInv'
<1> DEFINE already == [NothingRead EXCEPT !.flag[op[r].flag] = w[r].flag]
<1>1. LocalTypes /\ op[r] \in Op /\ op[r].kind = "create" /\ w[r].flag # None
  BY SplitTypes DEF StoreInv, Protocol, ReadCreated
<1>2. op[r].flag \in Flags /\ w[r].flag \in FlagRow \cup {None}
  BY <1>1, OpFields, WritesFields DEF StoreInv
<1>3. already \in Snapshot /\ EachEnv(op[r].flag) \in Seq(Query)
  BY <1>2, NothingReadType, SnapshotUpdate, EachEnvType
<1>4. ReadAfter(r, EachEnv(op[r].flag), already)
  BY DEF ReadCreated
<1> HIDE DEF already
<1>5. /\ pc' \in [Reqs -> Labels] /\ pc'[r] = "after"
      /\ todo' \in [Reqs -> Seq(Query)] /\ seen' \in [Reqs -> Snapshot]
      /\ \A s \in Reqs \ {r} : pc'[s] = pc[s] /\ seen'[s] = seen[s]
  BY <1>1, <1>3, <1>4, ReadAfterStep
<1>6. LocalTypes' /\ OnlyOf(r)
  BY <1>1, <1>5 DEF ReadCreated, LocalTypes, OnlyOf
<1>7. \A e \in Envs : w[r].cfg[e] # None
  BY DEF ReadCreated, EnvsLeft, Envs
<1>8. op' = op /\ w' = w /\ flagRow' = flagRow
  BY DEF ReadCreated, committed
<1>9. Protocol(r)'
  BY <1>1, <1>5, <1>7, <1>8 DEF Protocol
<1> QED BY <1>6, <1>9, QuietStep DEF ReadCreated

LEMMA StampArchiveStep ==
  ASSUME StoreInv, NEW r \in Reqs, StampArchive(r)
  PROVE  StoreInv'
<1>1. /\ LocalTypes /\ op[r] \in Op /\ op[r].kind = "archive" /\ w[r] = NoWrites
      /\ flagRow[op[r].flag] # None
  BY SplitTypes DEF StoreInv, Protocol, StampArchive
<1>2. FlagWritten(r, [archivedAt |-> r]) /\ [archivedAt |-> r] \in FlagRow
  BY DEF StampArchive, FlagWritten, FlagRow
<1>3. /\ w' \in [Reqs -> Writes]
      /\ \A s \in Reqs \ {r} : w'[s] = w[s]
      /\ w'[r].cfg = w[r].cfg
  BY <1>1, <1>2, WriteFlag
<1>4. AllEnvs(op[r].flag) \in Seq(Query)
  BY <1>1, OpFields, AllEnvsType
<1>5. ReadAfter(r, AllEnvs(op[r].flag), NothingRead)
  BY DEF StampArchive
<1>6. /\ pc' \in [Reqs -> Labels] /\ pc'[r] = "after"
      /\ todo' \in [Reqs -> Seq(Query)] /\ seen' \in [Reqs -> Snapshot]
      /\ \A s \in Reqs \ {r} : pc'[s] = pc[s] /\ seen'[s] = seen[s]
  BY <1>1, <1>4, <1>5, NothingReadType, ReadAfterStep
<1>7. LocalTypes' /\ OnlyOf(r)
  BY <1>1, <1>3, <1>6 DEF StampArchive, LocalTypes, OnlyOf
<1>8. NoConfigWritten(r)'
  BY <1>1, <1>3 DEF NoWrites, NoConfigWritten
<1>9. op' = op /\ flagRow' = flagRow
  BY DEF StampArchive, committed
<1>10. Protocol(r)'
  BY <1>1, <1>6, <1>8, <1>9 DEF Protocol
<1> QED BY <1>7, <1>10, QuietStep DEF StampArchive

LEMMA RecordAuditStep ==
  ASSUME StoreInv, NEW r \in Reqs, RecordAudit(r)
  PROVE  StoreInv'
<1>1. LocalTypes /\ op[r] \in Op /\ Protocol(r) /\ pc[r] = "after"
  BY SplitTypes DEF StoreInv, Protocol, RecordAudit
<1>2. AuditEntry(r) \in AuditRow
  BY <1>1 DEF AuditEntry, AuditRow, LocalTypes
<1>3. AuditWritten(r, AuditEntry(r))
  BY DEF RecordAudit, AuditWritten
<1>4. /\ w' \in [Reqs -> Writes]
      /\ \A s \in Reqs \ {r} : w'[s] = w[s]
      /\ w'[r].flag = w[r].flag /\ w'[r].cfg = w[r].cfg /\ w'[r].audit = AuditEntry(r)
  BY <1>1, <1>2, <1>3, WriteAudit
<1>5. LocalTypes' /\ OnlyOf(r)
  BY <1>1, <1>4 DEF RecordAudit, LocalTypes, OnlyOf, Labels
<1>6. /\ op'[r] = op[r] /\ pc'[r] = "commit" /\ Ref(r)' = Ref(r)
      /\ flagRow' = flagRow /\ configRow' = configRow
      /\ NoConfigWritten(r)' = NoConfigWritten(r)
  BY <1>1, <1>4 DEF RecordAudit, LocalTypes, committed, Ref, NoConfigWritten
<1>7. Protocol(r)'
  BY <1>1, <1>2, <1>4, <1>6 DEF Protocol
<1> QED BY <1>5, <1>7, QuietStep DEF RecordAudit

-----------------------------------------------------------------------------
(* COMMIT.                                                                 *)

LEMMA ApplyTypes ==
  ASSUME TypeOK, NEW r \in Reqs, op[r] \in Op, w[r].audit \in AuditRow, Apply(r)
  PROVE  CommittedTypes'
<1>1. /\ w[r].flag \in FlagRow \cup {None}
      /\ w[r].cfg \in [Envs -> ConfigRow \cup {None}]
  BY WritesFields
<1>2. flagRow' \in [Flags -> FlagRow \cup {None}]
  BY <1>1, OpFields DEF Apply, TypeOK
<1>3. configRow' \in [Refs -> ConfigRow \cup {None}]
  <2>1. \A x \in Refs : x[2] \in Envs
    BY DEF Refs
  <2> QED BY <1>1, <2>1 DEF Apply, TypeOK
<1>4. child' \in [Tables -> [Refs -> SUBSET Row]]
  BY RowsSeenType DEF Apply
<1>5. audit' \in Seq(AuditRow)
  BY AppendProperties DEF Apply, TypeOK
<1> QED BY <1>2, <1>3, <1>4, <1>5 DEF CommittedTypes

LEMMA ApplyWhole ==
  ASSUME StoreInv, NEW r \in Reqs, pc[r] = "commit", Apply(r)
  PROVE  RowsStay /\ WholeFlags'
<1>1. op[r] \in Op /\ op[r].flag \in Flags
  BY OpFields DEF StoreInv, Protocol
<1>2. ASSUME NEW f \in Flags
      PROVE  flagRow'[f] = IF f = op[r].flag /\ w[r].flag # None THEN w[r].flag ELSE flagRow[f]
  BY <1>1 DEF Apply, StoreInv, TypeOK
<1>3. ASSUME NEW f \in Flags, NEW e \in Envs
      PROVE  /\ <<f, e>> \in Refs
             /\ configRow'[<<f, e>>] = IF f = op[r].flag /\ w[r].cfg[e] # None
                                       THEN w[r].cfg[e] ELSE configRow[<<f, e>>]
  BY DEF Apply, Refs
<1>4. RowsStay
  <2>1. \A x \in Refs : x[1] \in Flags /\ x[2] \in Envs /\ x = <<x[1], x[2]>>
    BY DEF Refs
  <2> QED BY <1>2, <1>3, <2>1 DEF RowsStay
<1>5. ASSUME NEW f \in Flags, NEW e \in Envs
      PROVE  flagRow'[f] = None <=> configRow'[<<f, e>>] = None
  <2>1. flagRow[f] = None <=> configRow[<<f, e>>] = None
    BY DEF StoreInv, WholeFlags
  <2>2. CASE f # op[r].flag
    BY <1>2, <1>3, <2>1, <2>2
  <2>3. CASE f = op[r].flag /\ op[r].kind = "create" /\ w[r].flag # None
               /\ \A d \in Envs : w[r].cfg[d] # None
    BY <1>2, <1>3, <2>3
  <2>4. CASE f = op[r].flag /\ flagRow[op[r].flag] # None /\ NoConfigWritten(r)
    BY <1>2, <1>3, <2>1, <2>4 DEF NoConfigWritten
  <2>5. CASE /\ f = op[r].flag /\ w[r].flag = None
             /\ configRow[Ref(r)] # None /\ w[r].cfg[op[r].env] # None
             /\ \A d \in Envs : w[r].cfg[d] # None => d = op[r].env
    BY <1>2, <1>3, <2>1, <2>5 DEF Ref
  <2> QED BY <2>2, <2>3, <2>4, <2>5 DEF StoreInv, Protocol
<1> QED BY <1>4, <1>5 DEF WholeFlags

LEMMA CommitSteps ==
  ASSUME StoreInv, NEW r \in Reqs, Commit(r) \/ CommitUnacknowledged(r)
  PROVE  StoreInv'
<1>1. /\ TypeOK /\ LocalTypes /\ pc[r] = "commit" /\ Apply(r)
      /\ op[r] \in Op /\ w[r].audit \in AuditRow
  BY SplitTypes DEF StoreInv, Protocol, Commit, CommitUnacknowledged
<1>2. CommittedTypes' /\ RowsStay /\ WholeFlags'
  BY <1>1, ApplyTypes, ApplyWhole
<1>3. NewVersion(r) \in Nat
  <2>1. OnConfig(op[r]) => w[r].cfg[op[r].env] \in ConfigRow
    <3>1. ASSUME OnConfig(op[r]) PROVE w[r].cfg[op[r].env] # None /\ op[r].env \in Envs
      BY <1>1, <3>1, RefType DEF StoreInv, Protocol, OnConfig, Tables
    <3> QED BY <1>1, <3>1, WritesFields
  <2>2. OnConfig(op[r]) => w[r].cfg[op[r].env].version \in Nat
    BY <2>1 DEF ConfigRow
  <2> QED BY <2>2 DEF NewVersion
<1>4. LocalTypes' /\ OnlyOf(r) /\ Protocol(r)'
  <2>1. "ok" \in Status /\ "error" \in Status /\ 0 \in Nat
    BY DEF Status
  <2> QED BY <1>1, <1>3, <2>1, FinishStep DEF Commit, CommitUnacknowledged
<1>5. ASSUME NEW s \in Reqs PROVE Protocol(s)'
  BY <1>2, <1>4, OthersKeepProtocol DEF StoreInv
<1>6. TypeOK'
  BY <1>2, <1>4 DEF TypeOK, CommittedTypes, LocalTypes
<1> QED BY <1>2, <1>5, <1>6 DEF StoreInv

-----------------------------------------------------------------------------
(* The invariant holds initially, and every step keeps it.                 *)

LEMMA StoreInvInit == Init => StoreInv
<1> SUFFICES ASSUME Init PROVE StoreInv
  OBVIOUS
<1>1. NoWrites \in Writes /\ NoReply \in Reply
  BY DEF NoWrites, Writes, NoReply, Reply, Status
<1>2. CommittedTypes
  BY DefaultRow, EmptySeq DEF Init, CommittedTypes
<1>3. LocalTypes
  <2>1. op \in [Reqs -> Op \cup {None}] /\ pc \in [Reqs -> Labels]
    BY DEF Init, Labels
  <2>2. todo \in [Reqs -> Seq(Query)] /\ left \in [Reqs -> Seq(Entry)]
    BY EmptySeq DEF Init
  <2>3. /\ seen \in [Reqs -> Snapshot] /\ before \in [Reqs -> Snapshot]
        /\ target \in [Reqs -> SUBSET Row] /\ w \in [Reqs -> Writes] /\ reply \in [Reqs -> Reply]
    BY <1>1, NothingReadType DEF Init
  <2> QED BY <2>1, <2>2, <2>3 DEF LocalTypes
<1>4. WholeFlags
  <2>1. ASSUME NEW f \in Flags, NEW e \in Envs
        PROVE  flagRow[f] = None <=> configRow[<<f, e>>] = None
    <3>1. <<f, e>> \in Refs /\ <<f, e>>[1] = f
      BY DEF Refs
    <3> QED BY <3>1, DefaultRow, NoneIsNoRow DEF Init
  <2> QED BY <2>1 DEF WholeFlags
<1>5. ASSUME NEW r \in Reqs PROVE Protocol(r)
  BY DEF Init, Protocol
<1> QED BY <1>2, <1>3, <1>4, <1>5, SplitTypes DEF StoreInv

LEMMA StoreInvNext == StoreInv /\ [Next]_vars => StoreInv'
<1> SUFFICES ASSUME StoreInv, [Next]_vars PROVE StoreInv'
  OBVIOUS
<1>1. CASE UNCHANGED vars
  <2>1. /\ UNCHANGED <<flagRow, configRow, child, audit>>
        /\ UNCHANGED <<op, pc, todo, seen, before, left, target, w, reply>>
    BY <1>1 DEF vars
  <2>2. TypeOK' /\ WholeFlags'
    BY <2>1 DEF StoreInv, TypeOK, WholeFlags
  <2>3. ASSUME NEW r \in Reqs PROVE Protocol(r)'
    BY <2>1 DEF StoreInv, Protocol, Found, Ref, NoConfigWritten
  <2> QED BY <2>2, <2>3 DEF StoreInv
<1>2. ASSUME NEW r \in Reqs, \E o \in Workload[r] : Receive(r, o)
      PROVE  StoreInv'
  BY <1>2, ReceiveStep
<1>3. ASSUME NEW r \in Reqs, Statement(r)
      PROVE  StoreInv'
  <2>1. CASE Select(r)
    BY <2>1, SelectStep
  <2>2. CASE \/ AnswerRead(r) \/ NotFoundConfig(r) \/ VersionConflict(r) \/ UniqueViolation(r)
             \/ DuplicateKey(r) \/ NotFoundFlag(r) \/ DeadlockDetected(r)
    BY <2>2, RollbackSteps
  <2>3. CASE Recheck(r)
    BY <2>3, RecheckStep
  <2>4. CASE UpdateConfig(r) \/ BumpVersion(r)
    BY <2>4, UpdateConfigStep, BumpVersionStep
  <2>5. CASE StartDelete(r) \/ FinishDelete(r) \/ InsertRow(r)
    BY <2>5, StartDeleteStep, FinishDeleteStep, InsertRowStep
  <2>6. CASE InsertFlag(r) \/ InsertConfig(r) \/ ReadCreated(r)
    BY <2>6, InsertFlagStep, InsertConfigStep, ReadCreatedStep
  <2>7. CASE StampArchive(r)
    BY <2>7, StampArchiveStep
  <2>8. CASE RecordAudit(r)
    BY <2>8, RecordAuditStep
  <2>9. CASE Commit(r)
    BY <2>9, CommitSteps
  <2> QED BY <1>3, <2>1, <2>2, <2>3, <2>4, <2>5, <2>6, <2>7, <2>8, <2>9 DEF Statement
<1>4. ASSUME NEW r \in Reqs, CommitUnacknowledged(r) \/ ConnectionLost(r)
      PROVE  StoreInv'
  BY <1>4, CommitSteps, RollbackSteps
<1>5. CASE AllAnswered
  BY <1>1, <1>5 DEF AllAnswered
<1> QED BY <1>1, <1>2, <1>3, <1>4, <1>5 DEF Next

LEMMA StoreInvHolds == Spec => []StoreInv
  BY StoreInvInit, StoreInvNext, PTL DEF Spec

(* Whatever requests arrive and however their statements interleave, fail  *)
(* or are acknowledged, every row, snapshot and reply stays of its type:   *)
(* no transaction writes what it has not read, and no mutation answers 200 *)
(* without a version.                                                      *)
THEOREM TypeCorrect == Spec => []TypeOK
<1>1. StoreInv => TypeOK
  BY DEF StoreInv
<1> QED BY <1>1, StoreInvHolds, PTL

(* createFlag's INSERTs commit together: no flag is ever visible without   *)
(* the configuration of every environment, nor a configuration without its *)
(* flag, so a reader can rely on finding all of them.                      *)
THEOREM WholeFlagsHold == Spec => []WholeFlags
<1>1. StoreInv => WholeFlags
  BY DEF StoreInv
<1> QED BY <1>1, StoreInvHolds, PTL

-----------------------------------------------------------------------------
(***************************************************************************)
(* One audit row per mutation.  An entry names a request that is over,     *)
(* was a mutation and was told "ok" or left in doubt; nobody commits twice *)
(* because nothing leads back from "done".                                 *)
(***************************************************************************)
OnlyReads(r) == pc[r] = "read" => ~Mutates(op[r])
Signed(r) == pc[r] = "commit" => w[r].audit.by = r
EntryIsAnswered(i) ==
  LET r == audit[i].by
  IN pc[r] = "done" /\ Mutates(op[r]) /\ reply[r].status \in {"ok", "error"}
OkIsAudited(r) ==
  pc[r] = "done" /\ Mutates(op[r]) /\ reply[r].status = "ok" => \E i \in DOMAIN audit : audit[i].by = r

OnceInv ==
  /\ \A r \in Reqs : OnlyReads(r) /\ Signed(r) /\ OkIsAudited(r)
  /\ \A i \in DOMAIN audit : EntryIsAnswered(i)
  /\ \A i, j \in DOMAIN audit : audit[i].by = audit[j].by => i = j

(***************************************************************************)
(* Row locks.  Of the uncommitted writers of a flags row, and of a         *)
(* flag_configs row, there is at most one at a time; a flag being created  *)
(* is not committed yet.                                                   *)
(***************************************************************************)
WroteConfig(r) == pc[r] \in {"after", "commit"} /\ OnConfig(op[r])
FlagLock ==
  \A r, s \in Reqs : w[r].flag # None /\ w[s].flag # None /\ op[r].flag = op[s].flag => r = s
ConfigLock == \A r, s \in Reqs : WroteConfig(r) /\ WroteConfig(s) /\ Ref(r) = Ref(s) => r = s
CreatesNew ==
  \A r \in Reqs : w[r].flag # None /\ op[r].kind = "create" => flagRow[op[r].flag] = None

\* How far the second read of a configuration has come: what it returned is what
\* the transaction still sees.
StillSees(r, s, t) == s[t][Ref(r)] = Sees(r, <<t, Ref(r)>>)
AfterRead(r) ==
  LET x == Ref(r)
  IN \/ todo[r] = ByKey(x)
     \/ todo[r] = <<<<"config", x>>, <<"rules", x>>, <<"overrides", x>>>>
     \/ todo[r] = <<<<"rules", x>>, <<"overrides", x>>>> /\ StillSees(r, seen[r], "config")
     \/ /\ todo[r] = <<<<"overrides", x>>>>
        /\ StillSees(r, seen[r], "config") /\ StillSees(r, seen[r], "rules")
     \/ /\ todo[r] = <<>>
        /\ StillSees(r, seen[r], "config") /\ StillSees(r, seen[r], "rules")
        /\ StillSees(r, seen[r], "overrides")
Audited(r) ==
  LET s == w[r].audit.after
  IN StillSees(r, s, "config") /\ StillSees(r, s, "rules") /\ StillSees(r, s, "overrides")

LockInv == FlagLock /\ ConfigLock /\ CreatesNew
AfterOf(r) ==
  /\ pc[r] = "after" /\ OnConfig(op[r]) => AfterRead(r)
  /\ pc[r] = "commit" /\ OnConfig(op[r]) => Audited(r)
AfterInv == \A r \in Reqs : AfterOf(r)

-----------------------------------------------------------------------------
(* The shapes of a step, as far as the audit log is concerned: most change *)
(* neither the store nor the reply, some roll back, and one commits.       *)

\* The step of a request that goes on.
GoesOn(r) ==
  /\ UNCHANGED <<committed, reply>> /\ OnlyOf(r)
  /\ \/ UNCHANGED <<op, pc, w>>
     \/ \E o \in Op : /\ pc[r] = "idle" /\ op'[r] = o /\ pc'[r] \notin {"idle", "done", "commit"}
                      /\ pc'[r] = "read" => ~Mutates(o)
     \/ /\ op' = op /\ pc[r] \notin {"idle", "done"} /\ pc'[r] \notin {"idle", "done", "read"}
        /\ pc'[r] = "commit" => w'[r].audit.by = r
GivesUp(r) ==
  \E status \in Status : /\ Rollback(r, status) /\ pc[r] \notin {"idle", "done"}
                         /\ status = "ok" => pc[r] = "read"
Commits(r) ==
  /\ pc[r] = "commit" /\ Apply(r)
  /\ \E status \in {"ok", "error"}, version \in Nat : Finish(r, status, version)

StepOf(r) ==
  \/ \E o \in Workload[r] : Receive(r, o)
  \/ Statement(r) \/ CommitUnacknowledged(r) \/ ConnectionLost(r)

LEMMA ReceiveGoesOn ==
  ASSUME StoreInv, NEW r \in Reqs, NEW o \in Workload[r], Receive(r, o)
  PROVE  GoesOn(r)
<1>1. o \in Op /\ LocalTypes
  BY SplitTypes, FlagDataAssumption DEF FlagDataAssumption, StoreInv
<1>2. op'[r] = o /\ pc'[r] = FirstStatement(o) /\ pc[r] = "idle"
  BY <1>1 DEF Receive, LocalTypes
<1>3. FirstStatement(o) \in {"read", "insertFlag", "before"}
  BY DEF FirstStatement
<1>4. FirstStatement(o) = "read" => o.kind \in {"get", "find"}
  BY DEF FirstStatement
<1>5. o.kind \in {"get", "find"} => ~Mutates(o)
  BY DEF Mutates, OnConfig, Tables
<1>6. OnlyOf(r)
  BY <1>1 DEF Receive, OnlyOf, LocalTypes
<1> QED BY <1>1, <1>2, <1>3, <1>4, <1>5, <1>6 DEF GoesOn, Receive

LEMMA RollbackGivesUp ==
  ASSUME StoreInv, NEW r \in Reqs,
         \/ AnswerRead(r) \/ NotFoundConfig(r) \/ VersionConflict(r) \/ UniqueViolation(r)
         \/ DuplicateKey(r) \/ NotFoundFlag(r) \/ ConnectionLost(r) \/ DeadlockDetected(r)
  PROVE  GivesUp(r)
<1>1. ReadOutcome(r) \in Status
  BY DEF ReadOutcome, Status
<1>2. CASE AnswerRead(r)
  BY <1>1, <1>2 DEF AnswerRead, GivesUp
<1>3. CASE \/ NotFoundConfig(r) \/ VersionConflict(r) \/ UniqueViolation(r)
           \/ DuplicateKey(r) \/ NotFoundFlag(r)
  BY <1>3 DEF NotFoundConfig, VersionConflict, UniqueViolation, DuplicateKey, NotFoundFlag,
              GivesUp, Status
<1>4. CASE ConnectionLost(r)
  BY <1>4 DEF ConnectionLost, Active, GivesUp, Status
<1>5. CASE DeadlockDetected(r)
  <2>1. PICK n \in 2 .. Cardinality(Reqs) : \E p \in [1 .. n -> Reqs] :
          p[1] = r /\ \A i \in 1 .. n : p[(i % n) + 1] \in WaitsFor(p[i])
    BY <1>5 DEF DeadlockDetected, InCycle
  <2>2. WaitsFor(r) # {}
    <3>1. 1 \in 1 .. n
      OBVIOUS
    <3> QED BY <2>1, <3>1
  <2>3. pc[r] \notin {"idle", "done"}
    BY <2>2 DEF WaitsFor
  <2> QED BY <1>5, <2>3 DEF DeadlockDetected, GivesUp, Status
<1> QED BY <1>2, <1>3, <1>4, <1>5

LEMMA OthersGoOn ==
  ASSUME StoreInv, NEW r \in Reqs,
         \/ Select(r) \/ Recheck(r) \/ UpdateConfig(r) \/ StartDelete(r) \/ FinishDelete(r)
         \/ InsertRow(r) \/ BumpVersion(r) \/ InsertFlag(r) \/ InsertConfig(r)
         \/ ReadCreated(r) \/ StampArchive(r) \/ RecordAudit(r)
  PROVE  GoesOn(r)
<1>1. LocalTypes /\ op \in [Reqs -> Op \cup {None}] /\ pc \in [Reqs -> Labels]
      /\ w \in [Reqs -> Writes] /\ seen \in [Reqs -> Snapshot]
  BY SplitTypes DEF StoreInv, LocalTypes
<1>2. CASE Select(r)
  BY <1>1, <1>2 DEF Select, GoesOn, OnlyOf
<1>3. CASE Recheck(r)
  BY <1>1, <1>3 DEF Recheck, GoesOn, OnlyOf
<1>4. CASE UpdateConfig(r)
  BY <1>1, <1>4 DEF UpdateConfig, Passed, ReadAfter, GoesOn, OnlyOf
<1>5. CASE StartDelete(r)
  BY <1>1, <1>5 DEF StartDelete, Passed, GoesOn, OnlyOf
<1>6. CASE FinishDelete(r)
  BY <1>1, <1>6 DEF FinishDelete, GoesOn, OnlyOf
<1>7. CASE InsertRow(r)
  BY <1>1, <1>7 DEF InsertRow, GoesOn, OnlyOf
<1>8. CASE BumpVersion(r)
  BY <1>1, <1>8 DEF BumpVersion, ReadAfter, GoesOn, OnlyOf
<1>9. CASE InsertFlag(r)
  BY <1>1, <1>9 DEF InsertFlag, GoesOn, OnlyOf
<1>10. CASE InsertConfig(r)
  BY <1>1, <1>10 DEF InsertConfig, GoesOn, OnlyOf
<1>11. CASE ReadCreated(r)
  BY <1>1, <1>11 DEF ReadCreated, ReadAfter, GoesOn, OnlyOf
<1>12. CASE StampArchive(r)
  BY <1>1, <1>12 DEF StampArchive, ReadAfter, GoesOn, OnlyOf
<1>13. CASE RecordAudit(r)
  <2>1. w'[r].audit = AuditEntry(r) /\ AuditEntry(r).by = r
    BY <1>1, <1>13 DEF RecordAudit, Writes, AuditEntry
  <2> QED BY <1>1, <1>13, <2>1 DEF RecordAudit, GoesOn, OnlyOf
<1> QED BY <1>2, <1>3, <1>4, <1>5, <1>6, <1>7, <1>8, <1>9, <1>10, <1>11, <1>12, <1>13

LEMMA NewVersionType ==
  ASSUME StoreInv, NEW r \in Reqs, pc[r] = "commit"
  PROVE  NewVersion(r) \in Nat
<1>1. TypeOK /\ op[r] \in Op
  BY DEF StoreInv, Protocol
<1>2. ASSUME OnConfig(op[r]) PROVE w[r].cfg[op[r].env] # None /\ op[r].env \in Envs
  BY <1>1, <1>2, RefType DEF StoreInv, Protocol, OnConfig, Tables
<1>3. OnConfig(op[r]) => w[r].cfg[op[r].env] \in ConfigRow
  BY <1>1, <1>2, WritesFields
<1>4. OnConfig(op[r]) => w[r].cfg[op[r].env].version \in Nat
  BY <1>3 DEF ConfigRow
<1> QED BY <1>4 DEF NewVersion

LEMMA StepShapes ==
  ASSUME StoreInv, NEW r \in Reqs, StepOf(r)
  PROVE  GoesOn(r) \/ GivesUp(r) \/ Commits(r)
<1>1. CASE \E o \in Workload[r] : Receive(r, o)
  BY <1>1, ReceiveGoesOn
<1>2. CASE Commit(r) \/ CommitUnacknowledged(r)
  BY <1>2, NewVersionType DEF Commit, CommitUnacknowledged, Commits
<1>3. CASE Statement(r) /\ ~Commit(r)
  BY <1>3, RollbackGivesUp, OthersGoOn DEF Statement
<1> QED BY <1>1, <1>2, <1>3, RollbackGivesUp DEF StepOf

-----------------------------------------------------------------------------
(* One audit row per mutation.                                             *)

LEMMA OnceInit == Init => OnceInv
  BY DEF Init, OnceInv, OnlyReads, Signed, OkIsAudited

LEMMA EntryType ==
  ASSUME StoreInv, NEW i \in DOMAIN audit
  PROVE  audit[i] \in AuditRow /\ audit[i].by \in Reqs
<1>1. audit \in Seq(AuditRow)
  BY DEF StoreInv, TypeOK
<1>2. audit[i] \in AuditRow
  BY <1>1
<1> QED BY <1>2 DEF AuditRow

LEMMA GoesOnKeepsOnce ==
  ASSUME StoreInv, OnceInv, NEW r \in Reqs, GoesOn(r)
  PROVE  OnceInv'
<1>1. audit' = audit /\ reply' = reply /\ audit \in Seq(AuditRow)
  BY DEF GoesOn, committed, StoreInv, TypeOK
<1>2. \A s \in Reqs : s # r => op'[s] = op[s] /\ pc'[s] = pc[s] /\ w'[s] = w[s]
  BY DEF GoesOn, OnlyOf
<1>3. \A s \in Reqs : (pc[s] = "done" <=> pc'[s] = "done") /\ (pc[s] = "done" => op'[s] = op[s])
  BY <1>2 DEF GoesOn
<1>4. OnlyReads(r)' /\ Signed(r)'
  BY DEF GoesOn, OnceInv, OnlyReads, Signed
<1>5. ASSUME NEW s \in Reqs PROVE OnlyReads(s)' /\ Signed(s)' /\ OkIsAudited(s)'
  <2>1. OnlyReads(s)' /\ Signed(s)'
    BY <1>2, <1>4 DEF OnceInv, OnlyReads, Signed
  <2>2. OkIsAudited(s)'
    BY <1>1, <1>3 DEF OnceInv, OkIsAudited
  <2> QED BY <2>1, <2>2
<1>6. ASSUME NEW i \in DOMAIN audit PROVE EntryIsAnswered(i)'
  <2>1. audit[i].by \in Reqs
    BY EntryType
  <2> QED BY <1>1, <1>3, <2>1 DEF OnceInv, EntryIsAnswered
<1> QED BY <1>1, <1>5, <1>6 DEF OnceInv

LEMMA GivesUpKeepsOnce ==
  ASSUME StoreInv, OnceInv, NEW r \in Reqs, GivesUp(r)
  PROVE  OnceInv'
<1>1. PICK status \in Status :
        /\ Rollback(r, status) /\ pc[r] \notin {"idle", "done"} /\ (status = "ok" => pc[r] = "read")
  BY DEF GivesUp
<1>2. audit' = audit /\ audit \in Seq(AuditRow) /\ op' = op
  BY <1>1 DEF Rollback, Finish, committed, StoreInv, TypeOK
<1>3. /\ pc'[r] = "done" /\ reply'[r].status = status
      /\ \A s \in Reqs \ {r} : pc'[s] = pc[s] /\ w'[s] = w[s] /\ reply'[s] = reply[s]
  BY <1>1 DEF Rollback, Finish, StoreInv, TypeOK
<1>4. status = "ok" => ~Mutates(op[r])
  BY <1>1 DEF OnceInv, OnlyReads
<1>5. ASSUME NEW s \in Reqs PROVE OnlyReads(s)' /\ Signed(s)' /\ OkIsAudited(s)'
  BY <1>2, <1>3, <1>4 DEF OnceInv, OnlyReads, Signed, OkIsAudited
<1>6. ASSUME NEW i \in DOMAIN audit PROVE EntryIsAnswered(i)'
  <2>1. audit[i].by \in Reqs /\ audit[i].by # r
    BY <1>1, EntryType DEF OnceInv, EntryIsAnswered
  <2> QED BY <1>2, <1>3, <2>1 DEF OnceInv, EntryIsAnswered
<1> QED BY <1>2, <1>5, <1>6 DEF OnceInv

LEMMA CommitsKeepOnce ==
  ASSUME StoreInv, OnceInv, NEW r \in Reqs, Commits(r)
  PROVE  OnceInv'
<1> DEFINE n == Len(audit) + 1
<1>1. PICK status \in {"ok", "error"}, version \in Nat : Finish(r, status, version)
  BY DEF Commits
<1>2. /\ audit \in Seq(AuditRow) /\ w[r].audit \in AuditRow /\ w[r].audit.by = r
      /\ audit' = Append(audit, w[r].audit)
  BY DEF Commits, Apply, StoreInv, TypeOK, Protocol, OnceInv, Signed
<1>3. /\ DOMAIN audit' = DOMAIN audit \cup {n} /\ n \notin DOMAIN audit /\ audit'[n].by = r
      /\ \A i \in DOMAIN audit : audit'[i] = audit[i]
  BY <1>2, AppendProperties, LenProperties
<1>4. /\ op' = op /\ pc'[r] = "done" /\ reply'[r].status = status
      /\ \A s \in Reqs \ {r} : pc'[s] = pc[s] /\ w'[s] = w[s] /\ reply'[s] = reply[s]
  BY <1>1 DEF Finish, StoreInv, TypeOK
<1>5. pc[r] = "commit" /\ Mutates(op[r])
  BY DEF Commits, StoreInv, Protocol, Mutates
<1>6. ASSUME NEW i \in DOMAIN audit PROVE audit[i].by \in Reqs \ {r}
  BY <1>5, EntryType DEF OnceInv, EntryIsAnswered
<1> HIDE DEF n
<1>7. ASSUME NEW s \in Reqs PROVE OnlyReads(s)' /\ Signed(s)' /\ OkIsAudited(s)'
  <2>1. CASE s = r
    BY <1>3, <1>4, <2>1 DEF OnlyReads, Signed, OkIsAudited
  <2>2. CASE s # r
    BY <1>3, <1>4, <2>2 DEF OnceInv, OnlyReads, Signed, OkIsAudited
  <2> QED BY <2>1, <2>2
<1>8. ASSUME NEW i \in DOMAIN audit' PROVE EntryIsAnswered(i)'
  <2>1. CASE i \in DOMAIN audit
    BY <1>3, <1>4, <1>6, <2>1 DEF OnceInv, EntryIsAnswered
  <2>2. CASE i = n
    BY <1>3, <1>4, <1>5, <2>2 DEF EntryIsAnswered
  <2> QED BY <1>3, <2>1, <2>2
<1>9. \A i, j \in DOMAIN audit' : audit'[i].by = audit'[j].by => i = j
  BY <1>3, <1>6 DEF OnceInv
<1> QED BY <1>7, <1>8, <1>9 DEF OnceInv

LEMMA OnceNext == StoreInv /\ OnceInv /\ [Next]_vars => OnceInv'
<1> SUFFICES ASSUME StoreInv, OnceInv, [Next]_vars PROVE OnceInv'
  OBVIOUS
<1>1. ASSUME NEW r \in Reqs, StepOf(r) PROVE OnceInv'
  BY <1>1, StepShapes, GoesOnKeepsOnce, GivesUpKeepsOnce, CommitsKeepOnce
<1>2. CASE UNCHANGED vars
  BY <1>2 DEF vars, OnceInv, OnlyReads, Signed, OkIsAudited, EntryIsAnswered
<1> QED BY <1>1, <1>2 DEF Next, StepOf, AllAnswered

(* A mutation answered 200 left exactly one audit row, a refused one none, *)
(* and no request two, whatever fails or is acknowledged or not: the row   *)
(* is written by the transaction that does what it says.                   *)
THEOREM AuditedOnceHolds == Spec => []AuditedOnce
<1>1. ASSUME StoreInv, OnceInv PROVE AuditedOnce
  <2> SUFFICES ASSUME NEW r \in Reqs
               PROVE  /\ Cardinality(EntriesBy(r)) <= 1
                      /\ pc[r] = "done" /\ Mutates(op[r]) =>
                           /\ reply[r].status = "ok" => EntriesBy(r) # {}
                           /\ reply[r].status \notin {"ok", "error"} => EntriesBy(r) = {}
    BY DEF AuditedOnce
  <2>1. EntriesBy(r) = {} \/ \E i \in DOMAIN audit : EntriesBy(r) = {i}
    BY <1>1 DEF EntriesBy, OnceInv
  <2>2. Cardinality(EntriesBy(r)) <= 1
    BY <2>1, FS_EmptySet, FS_Singleton
  <2> QED BY <1>1, <2>2 DEF OnceInv, OkIsAudited, EntryIsAnswered, EntriesBy
<1>2. Spec => []OnceInv
  BY OnceInit, OnceNext, StoreInvHolds, PTL DEF Spec
<1> QED BY <1>1, <1>2, StoreInvHolds, PTL

-----------------------------------------------------------------------------
(* Row locks.                                                              *)

\* What a step of r leaves to others: their writes, their label and their operation.
Apart(r) == OnlyOf(r) /\ \A s \in Reqs \ {r} : todo'[s] = todo[s]

LEMMA HoldersAreActive ==
  ASSUME StoreInv, NEW s \in Reqs
  PROVE  /\ w[s].flag # None => Active(s) /\ op[s] \in Op
         /\ WroteConfig(s) => /\ Active(s) /\ op[s] \in Op /\ Ref(s) \in Refs /\ op[s].env \in Envs
                              /\ w[s].flag = None /\ configRow[Ref(s)] # None
                              /\ w[s].cfg[op[s].env] # None
                              /\ \A e \in Envs : w[s].cfg[e] # None => e = op[s].env
<1>1. pc[s] \in {"idle", "done"} => w[s].flag = None
  BY DEF StoreInv, Protocol, NoWrites
<1>2. pc[s] # "idle" => op[s] \in Op
  BY DEF StoreInv, Protocol
<1>3. OnConfig(op[s]) => op[s].kind # "create" /\ op[s].kind # "archive"
  BY DEF OnConfig, Tables
<1>4. WroteConfig(s) => op[s] \in Op /\ OnConfig(op[s]) /\ Active(s)
  BY <1>2 DEF WroteConfig, Active
<1>5. WroteConfig(s) => /\ w[s].flag = None /\ configRow[Ref(s)] # None
                       /\ w[s].cfg[op[s].env] # None
                       /\ \A e \in Envs : w[s].cfg[e] # None => e = op[s].env
  BY <1>3 DEF WroteConfig, StoreInv, Protocol
<1> QED BY <1>1, <1>2, <1>4, <1>5, RefType DEF Active

(* A step that neither writes a flags row nor finishes writing a            *)
(* configuration keeps the locks as they are.                              *)
LEMMA LocksStay ==
  ASSUME StoreInv, LockInv, NEW r \in Reqs, OnlyOf(r), UNCHANGED flagRow,
         w'[r].flag # None => w[r].flag = w'[r].flag /\ op'[r] = op[r],
         WroteConfig(r)' => WroteConfig(r) /\ op'[r] = op[r]
  PROVE  LockInv'
<1>1. \A s \in Reqs \ {r} : op'[s] = op[s] /\ pc'[s] = pc[s] /\ w'[s] = w[s]
  BY DEF OnlyOf
<1>2. \A s \in Reqs : w'[s].flag # None => w[s].flag # None /\ op'[s] = op[s]
  BY <1>1
<1>3. \A s \in Reqs : WroteConfig(s)' => WroteConfig(s) /\ op'[s] = op[s]
  BY <1>1 DEF WroteConfig
<1>4. FlagLock' /\ CreatesNew'
  BY <1>2 DEF LockInv, FlagLock, CreatesNew
<1>5. ConfigLock'
  BY <1>3 DEF LockInv, ConfigLock, Ref
<1> QED BY <1>4, <1>5 DEF LockInv

LEMMA FlagLocked ==
  ASSUME StoreInv, LockInv, NEW r \in Reqs, OnlyOf(r), UNCHANGED <<flagRow, op>>,
         FlagHolders(r) = {}, ~WroteConfig(r)',
         op[r].kind = "create" => flagRow[op[r].flag] = None
  PROVE  LockInv'
<1>1. \A s \in Reqs \ {r} : op'[s] = op[s] /\ pc'[s] = pc[s] /\ w'[s] = w[s]
  BY DEF OnlyOf
<1>2. ASSUME NEW s \in Reqs \ {r}, w[s].flag # None PROVE op[s].flag # op[r].flag
  BY <1>2, HoldersAreActive DEF FlagHolders, Others
<1>3. FlagLock'
  BY <1>1, <1>2 DEF LockInv, FlagLock
<1>4. CreatesNew'
  BY <1>1 DEF LockInv, CreatesNew
<1>5. ConfigLock'
  BY <1>1 DEF LockInv, ConfigLock, Ref, WroteConfig
<1> QED BY <1>3, <1>4, <1>5 DEF LockInv

LEMMA ConfigLocked ==
  ASSUME StoreInv, LockInv, NEW r \in Reqs, OnlyOf(r), UNCHANGED <<flagRow, op>>,
         ConfigHolders(r) = {}, w'[r].flag = None
  PROVE  LockInv'
<1>1. \A s \in Reqs \ {r} : op'[s] = op[s] /\ pc'[s] = pc[s] /\ w'[s] = w[s]
  BY DEF OnlyOf
<1>2. ASSUME NEW s \in Reqs \ {r}, WroteConfig(s) PROVE Ref(s) # Ref(r)
  <2>1. Active(s) /\ OnConfig(op[s]) /\ w[s].cfg[op[s].env] # None
    BY <1>2, HoldersAreActive DEF WroteConfig
  <2> SUFFICES ASSUME Ref(s) = Ref(r) PROVE FALSE
    OBVIOUS
  <2>2. op[s].env = op[r].env
    BY DEF Ref
  <2> QED BY <2>1, <2>2 DEF ConfigHolders, Others, On
<1>3. FlagLock' /\ CreatesNew'
  BY <1>1 DEF LockInv, FlagLock, CreatesNew
<1>4. ConfigLock'
  BY <1>1, <1>2 DEF LockInv, ConfigLock, Ref, WroteConfig
<1> QED BY <1>3, <1>4 DEF LockInv

LEMMA LockFinish ==
  ASSUME StoreInv, LockInv, NEW r \in Reqs, NEW status, NEW version, Finish(r, status, version),
         UNCHANGED flagRow \/ (pc[r] = "commit" /\ Apply(r))
  PROVE  LockInv'
<1>1. op' = op /\ pc'[r] = "done" /\ w'[r].flag = None
  BY DEF Finish, StoreInv, TypeOK, NoWrites
<1>2. \A s \in Reqs \ {r} : op'[s] = op[s] /\ pc'[s] = pc[s] /\ w'[s] = w[s]
  BY DEF Finish, StoreInv, TypeOK
<1>3. FlagLock'
  BY <1>1, <1>2 DEF LockInv, FlagLock
<1>4. ConfigLock'
  BY <1>1, <1>2 DEF LockInv, ConfigLock, Ref, WroteConfig
<1>5. ASSUME NEW s \in Reqs, w'[s].flag # None, op[s].kind = "create"
      PROVE  flagRow'[op[s].flag] = None
  <2>1. s # r /\ w[s].flag # None /\ flagRow[op[s].flag] = None
    BY <1>1, <1>2, <1>5 DEF LockInv, CreatesNew
  <2>2. op[s].flag \in Flags
    BY <2>1, HoldersAreActive, OpFields
  <2>3. w[r].flag # None => op[r].flag # op[s].flag
    BY <2>1 DEF LockInv, FlagLock
  <2> QED BY <2>1, <2>2, <2>3 DEF Apply, StoreInv, TypeOK
<1> QED BY <1>1, <1>3, <1>4, <1>5 DEF LockInv, CreatesNew

LEMMA LockInit == Init => LockInv
  BY DEF Init, NoWrites, LockInv, FlagLock, ConfigLock, CreatesNew, WroteConfig

LEMMA LockSteps ==
  ASSUME StoreInv, LockInv, NEW r \in Reqs, StepOf(r)
  PROVE  LockInv'
<1>1. LocalTypes
  BY SplitTypes DEF StoreInv
<1>2. CASE GivesUp(r)
  BY <1>2, LockFinish DEF GivesUp, Rollback, committed
<1>3. CASE Commits(r)
  BY <1>3, LockFinish DEF Commits
<1>4. CASE GoesOn(r)
  <2>1. OnlyOf(r) /\ UNCHANGED flagRow
    BY <1>4 DEF GoesOn, committed
  <2>2. CASE InsertFlag(r)
    <3>1. /\ FlagHolders(r) = {} /\ flagRow[op[r].flag] = None /\ UNCHANGED op
          /\ pc'[r] = "insertConfig"
      BY <1>1, <2>2 DEF InsertFlag, LocalTypes
    <3> QED BY <2>1, <3>1, FlagLocked DEF WroteConfig
  <2>3. CASE StampArchive(r)
    <3>1. /\ FlagHolders(r) = {} /\ UNCHANGED op /\ op[r].kind = "archive"
      BY <2>3 DEF StampArchive, UpdateFlagWaitsFor
    <3>2. ~WroteConfig(r)'
      BY <3>1 DEF WroteConfig, OnConfig, Tables
    <3> QED BY <2>1, <3>1, <3>2, FlagLocked
  <2>4. CASE UpdateConfig(r) \/ BumpVersion(r)
    <3>1. ConfigHolders(r) = {} /\ UNCHANGED op
      BY <2>4 DEF UpdateConfig, BumpVersion
    <3>2. w[r].flag = None
      <4>1. CASE UpdateConfig(r)
        BY <4>1, PassedFacts DEF UpdateConfig, NoWrites
      <4>2. CASE BumpVersion(r)
        BY <4>2 DEF BumpVersion, StoreInv, Protocol
      <4> QED BY <2>4, <4>1, <4>2
    <3>3. w'[r].flag = w[r].flag
      BY <1>1, <2>4 DEF UpdateConfig, BumpVersion, LocalTypes, Writes
    <3> QED BY <2>1, <3>1, <3>2, <3>3, ConfigLocked
  <2>5. CASE \E o \in Workload[r] : Receive(r, o)
    <3>1. PICK o \in Workload[r] : Receive(r, o)
      BY <2>5
    <3>2. w'[r].flag = None
      BY <3>1 DEF Receive, StoreInv, Protocol, NoWrites
    <3>3. pc'[r] = FirstStatement(o)
      BY <1>1, <3>1 DEF Receive, LocalTypes
    <3>4. ~WroteConfig(r)'
      BY <3>3 DEF WroteConfig, FirstStatement
    <3> QED BY <2>1, <3>2, <3>4, LocksStay
  <2>6. CASE Select(r)
    BY <2>1, <2>6, LocksStay DEF Select, WroteConfig
  <2>7. CASE Recheck(r) \/ StartDelete(r)
    <3>1. UNCHANGED <<op, w>> /\ pc'[r] \notin {"after", "commit"}
      BY <1>1, <2>7 DEF Recheck, StartDelete, LocalTypes
    <3> QED BY <2>1, <3>1, LocksStay DEF WroteConfig
  <2>8. CASE FinishDelete(r) \/ InsertRow(r) \/ InsertConfig(r)
    <3>1. op' = op /\ w'[r].flag = w[r].flag
      BY <1>1, <2>8 DEF FinishDelete, InsertRow, InsertConfig, LocalTypes, Writes
    <3>2. pc'[r] \notin {"after", "commit"}
      BY <1>1, <2>8 DEF FinishDelete, InsertRow, InsertConfig, LocalTypes
    <3> QED BY <2>1, <3>1, <3>2, LocksStay DEF WroteConfig
  <2>9. CASE ReadCreated(r)
    <3>1. UNCHANGED <<op, w>> /\ op[r].kind = "create"
      BY <2>9 DEF ReadCreated, StoreInv, Protocol
    <3>2. ~WroteConfig(r)'
      BY <3>1 DEF WroteConfig, OnConfig, Tables
    <3> QED BY <2>1, <3>1, <3>2, LocksStay
  <2>10. CASE RecordAudit(r)
    <3>1. op' = op /\ pc[r] = "after" /\ w'[r].flag = w[r].flag
      BY <1>1, <2>10 DEF RecordAudit, LocalTypes, Writes
    <3> QED BY <2>1, <3>1, LocksStay DEF WroteConfig
  <2>11. CASE \/ AnswerRead(r) \/ NotFoundConfig(r) \/ VersionConflict(r) \/ UniqueViolation(r)
              \/ DuplicateKey(r) \/ NotFoundFlag(r) \/ ConnectionLost(r) \/ DeadlockDetected(r)
    BY <1>2, <2>11, RollbackGivesUp
  <2>12. CASE Commit(r) \/ CommitUnacknowledged(r)
    BY <1>3, <2>12, NewVersionType DEF Commit, CommitUnacknowledged, Commits
  <2> QED BY <2>2, <2>3, <2>4, <2>5, <2>6, <2>7, <2>8, <2>9, <2>10, <2>11, <2>12 DEF StepOf, Statement
<1> QED BY <1>2, <1>3, <1>4, StepShapes

LEMMA LockNext == StoreInv /\ LockInv /\ [Next]_vars => LockInv'
<1> SUFFICES ASSUME StoreInv, LockInv, [Next]_vars PROVE LockInv'
  OBVIOUS
<1>1. CASE UNCHANGED vars
  BY <1>1 DEF vars, LockInv, FlagLock, ConfigLock, CreatesNew, WroteConfig, Ref
<1> QED BY <1>1, LockSteps DEF Next, StepOf, AllAnswered

-----------------------------------------------------------------------------
(* The second read, and what COMMIT finds.                                 *)

ConfigTables == {"config", "rules", "overrides"}

LEMMA SameSight ==
  ASSUME NEW s, NEW t \in ConfigTables, op'[s] = op[s],
         w'[s].cfg = w[s].cfg, w'[s].del = w[s].del, w'[s].ins = w[s].ins,
         configRow'[Ref(s)] = configRow[Ref(s)],
         t # "config" => child'[t][Ref(s)] = child[t][Ref(s)]
  PROVE  Sees(s, <<t, Ref(s)>>)' = Sees(s, <<t, Ref(s)>>) /\ Ref(s)' = Ref(s)
<1>1. Ref(s)' = Ref(s)
  BY DEF Ref
<1>2. CASE t = "config"
  BY <1>1, <1>2 DEF Sees
<1>3. CASE t \in {"rules", "overrides"}
  BY <1>1, <1>3 DEF Sees, RowsSeen, On
<1> QED BY <1>1, <1>2, <1>3 DEF ConfigTables

LEMMA SightKept ==
  ASSUME NEW s, AfterOf(s), op'[s] = op[s], pc'[s] = pc[s], w'[s] = w[s],
         seen'[s] = seen[s], todo'[s] = todo[s],
         WroteConfig(s) => /\ configRow'[Ref(s)] = configRow[Ref(s)]
                           /\ \A t \in Tables : child'[t][Ref(s)] = child[t][Ref(s)]
  PROVE  AfterOf(s)'
<1>1. WroteConfig(s) => /\ Ref(s)' = Ref(s)
                        /\ \A t \in ConfigTables : Sees(s, <<t, Ref(s)>>)' = Sees(s, <<t, Ref(s)>>)
  BY SameSight DEF Tables, ConfigTables
<1>2. ASSUME pc'[s] = "after", OnConfig(op'[s]) PROVE AfterRead(s)'
  BY <1>1, <1>2 DEF AfterOf, WroteConfig, AfterRead, StillSees, ConfigTables
<1>3. ASSUME pc'[s] = "commit", OnConfig(op'[s]) PROVE Audited(s)'
  BY <1>1, <1>3 DEF AfterOf, WroteConfig, Audited, StillSees, ConfigTables
<1> QED BY <1>2, <1>3 DEF AfterOf

(* A COMMIT does not touch a configuration another transaction has locked. *)
LEMMA CommitLeavesLocked ==
  ASSUME StoreInv, LockInv, NEW r \in Reqs, pc[r] = "commit", Apply(r),
         NEW s \in Reqs \ {r}, WroteConfig(s)
  PROVE  /\ configRow'[Ref(s)] = configRow[Ref(s)]
         /\ \A t \in Tables : child'[t][Ref(s)] = child[t][Ref(s)]
<1> DEFINE x == Ref(s)
<1>1. x \in Refs /\ x[1] \in Flags /\ x[2] \in Envs /\ x = <<x[1], x[2]>> /\ configRow[x] # None
  BY HoldersAreActive DEF Refs
<1>2. op[r] \in Op /\ op[r].flag \in Flags
  BY OpFields DEF StoreInv, Protocol
<1>3. OnConfig(op[r]) => Ref(r) # x
  BY DEF LockInv, ConfigLock, WroteConfig
<1>4. ~(x[1] = op[r].flag /\ w[r].cfg[x[2]] # None)
  <2>1. CASE op[r].kind = "create" /\ w[r].flag # None
    <3>1. flagRow[op[r].flag] = None
      BY <2>1 DEF LockInv, CreatesNew
    <3>2. flagRow[x[1]] # None
      BY <1>1 DEF StoreInv, WholeFlags
    <3> QED BY <3>1, <3>2
  <2>2. CASE NoConfigWritten(r)
    BY <1>1, <2>2 DEF NoConfigWritten
  <2>3. CASE OnConfig(op[r]) /\ \A e \in Envs : w[r].cfg[e] # None => e = op[r].env
    BY <1>1, <1>3, <2>3 DEF Ref
  <2> QED BY <2>1, <2>2, <2>3 DEF StoreInv, Protocol
<1>5. configRow'[x] = configRow[x]
  BY <1>1, <1>4 DEF Apply
<1>6. ASSUME NEW t \in Tables PROVE child'[t][x] = child[t][x]
  <2>1. child'[t][x] = RowsSeen(r, t, x)
    BY <1>1 DEF Apply
  <2>2. ~On(r, x)
    BY <1>3 DEF On
  <2> QED BY <2>1, <2>2 DEF RowsSeen
<1> QED BY <1>5, <1>6

Remember(s, t, x, v) == [s EXCEPT ![t][x] = v]

LEMMA Remembered ==
  ASSUME NEW s \in Snapshot, NEW x \in Refs, NEW v
  PROVE  /\ Remember(s, "config", x, v).config[x] = v
         /\ Remember(s, "rules", x, v).rules[x] = v
         /\ Remember(s, "rules", x, v).config = s.config
         /\ Remember(s, "overrides", x, v).overrides[x] = v
         /\ Remember(s, "overrides", x, v).config = s.config
         /\ Remember(s, "overrides", x, v).rules = s.rules
  BY DEF Snapshot, Remember

(* One more SELECT of the second read: each finds its row, so that the read *)
(* goes on to the end, and returns what the transaction sees.               *)
LEMMA SelectKeepsAfter ==
  ASSUME StoreInv, NEW r \in Reqs, Select(r), AfterOf(r)
  PROVE  AfterOf(r)'
<1> DEFINE x == Ref(r)
           q == Head(todo[r])
<1>1. UNCHANGED <<committed, op, pc, w>>
  BY DEF Select
<1>2. x' = x /\ \A t \in ConfigTables : Sees(r, <<t, x>>)' = Sees(r, <<t, x>>)
  BY <1>1, SameSight DEF committed, Ref
<1>3. ASSUME pc'[r] = "commit", OnConfig(op'[r]) PROVE Audited(r)'
  BY <1>1, <1>2, <1>3 DEF AfterOf, Audited, StillSees, ConfigTables
<1>4. ASSUME pc'[r] = "after", OnConfig(op'[r]) PROVE AfterRead(r)'
  <2>1. pc[r] = "after" /\ OnConfig(op[r]) /\ WroteConfig(r) /\ AfterRead(r) /\ todo[r] # <<>>
    BY <1>1, <1>4 DEF WroteConfig, AfterOf, Select
  <2>2. /\ x \in Refs /\ op[r].env \in Envs /\ x = <<op[r].flag, op[r].env>> /\ op[r].flag \in Flags
        /\ w[r].flag = None /\ configRow[x] # None /\ w[r].cfg[op[r].env] # None
    BY <2>1, HoldersAreActive, OpFields DEF Ref
  <2>3. flagRow[op[r].flag] # None
    BY <2>2 DEF StoreInv, WholeFlags
  <2>4. Sees(r, FlagQuery(x[1])) # None /\ Sees(r, <<"config", x>>) # None
    BY <2>2, <2>3 DEF Sees, FlagQuery
  <2>5. /\ seen[r] \in Snapshot /\ seen \in [Reqs -> Snapshot] /\ todo \in [Reqs -> Seq(Query)]
    BY DEF StoreInv, TypeOK
  <2>6. /\ seen'[r] = [seen[r] EXCEPT ![q[1]][q[2]] = Sees(r, q)]
        /\ todo'[r] = Rest(q, Sees(r, q), Tail(todo[r]))
    BY <2>5 DEF Select
  <2>7. CASE todo[r] = ByKey(x)
    <3>1. q = FlagQuery(x[1]) /\ Tail(todo[r]) = <<<<"config", x>>, <<"rules", x>>, <<"overrides", x>>>>
      BY <2>7 DEF ByKey
    <3>2. todo'[r] = Tail(todo[r])
      BY <2>4, <2>6, <3>1 DEF Rest, FlagQuery
    <3> QED BY <1>2, <3>1, <3>2 DEF AfterRead
  <2>8. CASE todo[r] = <<<<"config", x>>, <<"rules", x>>, <<"overrides", x>>>>
    <3>1. q = <<"config", x>> /\ Tail(todo[r]) = <<<<"rules", x>>, <<"overrides", x>>>>
      BY <2>8
    <3>2. todo'[r] = Tail(todo[r])
      BY <2>4, <2>6, <3>1 DEF Rest
    <3>3. seen'[r].config[x] = Sees(r, <<"config", x>>)
      <4>1. seen'[r] = Remember(seen[r], "config", x, Sees(r, <<"config", x>>))
        BY <2>6, <3>1 DEF Remember
      <4> QED BY <2>2, <2>5, <4>1, Remembered
    <3> QED BY <1>2, <3>1, <3>2, <3>3 DEF AfterRead, StillSees, ConfigTables
  <2>9. CASE todo[r] = <<<<"rules", x>>, <<"overrides", x>>>> /\ StillSees(r, seen[r], "config")
    <3>1. q = <<"rules", x>> /\ Tail(todo[r]) = <<<<"overrides", x>>>>
      BY <2>9
    <3>2. todo'[r] = Tail(todo[r])
      BY <2>6, <3>1 DEF Rest
    <3>3. seen'[r].rules[x] = Sees(r, <<"rules", x>>) /\ seen'[r].config = seen[r].config
      <4>1. seen'[r] = Remember(seen[r], "rules", x, Sees(r, <<"rules", x>>))
        BY <2>6, <3>1 DEF Remember
      <4> QED BY <2>2, <2>5, <4>1, Remembered
    <3> QED BY <1>2, <2>9, <3>1, <3>2, <3>3 DEF AfterRead, StillSees, ConfigTables
  <2>10. CASE /\ todo[r] = <<<<"overrides", x>>>>
              /\ StillSees(r, seen[r], "config") /\ StillSees(r, seen[r], "rules")
    <3>1. q = <<"overrides", x>> /\ Tail(todo[r]) = <<>>
      BY <2>10
    <3>2. todo'[r] = <<>>
      BY <2>6, <3>1 DEF Rest
    <3>3. /\ seen'[r].overrides[x] = Sees(r, <<"overrides", x>>)
          /\ seen'[r].config = seen[r].config /\ seen'[r].rules = seen[r].rules
      <4>1. seen'[r] = Remember(seen[r], "overrides", x, Sees(r, <<"overrides", x>>))
        BY <2>6, <3>1 DEF Remember
      <4> QED BY <2>2, <2>5, <4>1, Remembered
    <3> QED BY <1>2, <2>10, <3>2, <3>3 DEF AfterRead, StillSees, ConfigTables
  <2> QED BY <2>1, <2>7, <2>8, <2>9, <2>10 DEF AfterRead
<1> QED BY <1>3, <1>4 DEF AfterOf

LEMMA AfterSteps ==
  ASSUME StoreInv, LockInv, AfterInv, NEW r \in Reqs, StepOf(r)
  PROVE  AfterInv'
<1>1. LocalTypes
  BY SplitTypes DEF StoreInv
<1>2. ASSUME NEW s \in Reqs \ {r} PROVE AfterOf(s)'
  <2>1. op'[s] = op[s] /\ pc'[s] = pc[s] /\ w'[s] = w[s] /\ seen'[s] = seen[s]
    <3>1. CASE GoesOn(r)
      BY <3>1 DEF GoesOn, OnlyOf
    <3>2. CASE GivesUp(r) \/ Commits(r)
      BY <1>1, <3>2 DEF GivesUp, Commits, Rollback, Finish, LocalTypes
    <3> QED BY <3>1, <3>2, StepShapes
  <2>2. todo'[s] = todo[s]
    BY <1>1 DEF StepOf, Receive, Statement, Select, AnswerRead, Recheck, NotFoundConfig,
       VersionConflict, UpdateConfig, StartDelete, FinishDelete, InsertRow, UniqueViolation,
       BumpVersion, InsertFlag, DuplicateKey, InsertConfig, ReadCreated, StampArchive, NotFoundFlag,
       RecordAudit, Commit, DeadlockDetected, CommitUnacknowledged, ConnectionLost, ReadAfter,
       Rollback, Finish, LocalTypes
  <2>3. WroteConfig(s) => /\ configRow'[Ref(s)] = configRow[Ref(s)]
                          /\ \A t \in Tables : child'[t][Ref(s)] = child[t][Ref(s)]
    <3>1. CASE GoesOn(r) \/ GivesUp(r)
      BY <3>1 DEF GoesOn, GivesUp, Rollback, committed
    <3>2. CASE Commits(r)
      BY <3>2, CommitLeavesLocked DEF Commits
    <3> QED BY <3>1, <3>2, StepShapes
  <2> QED BY <2>1, <2>2, <2>3, SightKept DEF AfterInv
<1>3. AfterOf(r)'
  <2>1. CASE Select(r)
    BY <2>1, SelectKeepsAfter DEF AfterInv
  <2>2. CASE UpdateConfig(r) \/ BumpVersion(r)
    <3>1. /\ op' = op /\ pc'[r] = "after" /\ todo'[r] = ByKey(Ref(r))
      BY <1>1, <2>2 DEF UpdateConfig, BumpVersion, ReadAfter, LocalTypes
    <3>2. Ref(r)' = Ref(r)
      BY <3>1 DEF Ref
    <3> QED BY <3>1, <3>2 DEF AfterOf, AfterRead
  <2>3. CASE RecordAudit(r)
    <3>1. /\ op' = op /\ UNCHANGED committed /\ pc[r] = "after" /\ pc'[r] = "commit" /\ todo[r] = <<>>
      BY <1>1, <2>3 DEF RecordAudit, LocalTypes
    <3>2. /\ w'[r].cfg = w[r].cfg /\ w'[r].del = w[r].del /\ w'[r].ins = w[r].ins
          /\ w'[r].audit.after = seen[r]
      BY <1>1, <2>3 DEF RecordAudit, AuditEntry, LocalTypes, Writes
    <3>3. Ref(r)' = Ref(r) /\ \A t \in ConfigTables : Sees(r, <<t, Ref(r)>>)' = Sees(r, <<t, Ref(r)>>)
      BY <3>1, <3>2, SameSight DEF committed, Ref
    <3>4. ASSUME OnConfig(op[r])
          PROVE  /\ StillSees(r, seen[r], "config") /\ StillSees(r, seen[r], "rules")
                 /\ StillSees(r, seen[r], "overrides")
      <4>1. AfterRead(r)
        BY <3>1, <3>4 DEF AfterInv, AfterOf
      <4>2. ByKey(Ref(r)) # <<>>
        BY DEF ByKey
      <4> QED BY <3>1, <4>1, <4>2 DEF AfterRead
    <3>5. OnConfig(op'[r]) => Audited(r)'
      BY <3>1, <3>2, <3>3, <3>4 DEF Audited, StillSees, ConfigTables
    <3> QED BY <3>1, <3>5 DEF AfterOf
  <2>4. CASE ReadCreated(r) \/ StampArchive(r)
    <3>1. op' = op /\ op[r].kind \in {"create", "archive"}
      BY <2>4 DEF ReadCreated, StampArchive, StoreInv, Protocol
    <3> QED BY <3>1 DEF AfterOf, OnConfig, Tables
  <2>5. CASE pc'[r] \notin {"after", "commit"}
    BY <2>5 DEF AfterOf
  <2>6. CASE GivesUp(r) \/ Commits(r)
    BY <1>1, <2>5, <2>6 DEF GivesUp, Commits, Rollback, Finish, LocalTypes
  <2>7. CASE \E o \in Workload[r] : Receive(r, o)
    BY <1>1, <2>5, <2>7 DEF Receive, FirstStatement, LocalTypes
  <2>8. CASE \/ Recheck(r) \/ StartDelete(r) \/ FinishDelete(r) \/ InsertRow(r) \/ InsertFlag(r)
             \/ InsertConfig(r)
    BY <1>1, <2>5, <2>8 DEF Recheck, StartDelete, FinishDelete, InsertRow, InsertFlag, InsertConfig,
       LocalTypes
  <2>9. CASE \/ AnswerRead(r) \/ NotFoundConfig(r) \/ VersionConflict(r) \/ UniqueViolation(r)
             \/ DuplicateKey(r) \/ NotFoundFlag(r) \/ ConnectionLost(r) \/ DeadlockDetected(r)
    BY <2>6, <2>9, RollbackGivesUp
  <2>10. CASE Commit(r) \/ CommitUnacknowledged(r)
    BY <2>6, <2>10, NewVersionType DEF Commit, CommitUnacknowledged, Commits
  <2> QED BY <2>1, <2>2, <2>3, <2>4, <2>7, <2>8, <2>9, <2>10 DEF StepOf, Statement
<1> QED BY <1>2, <1>3 DEF AfterInv

LEMMA AfterNext == StoreInv /\ LockInv /\ AfterInv /\ [Next]_vars => AfterInv'
<1> SUFFICES ASSUME StoreInv, LockInv, AfterInv, [Next]_vars PROVE AfterInv'
  OBVIOUS
<1>1. CASE UNCHANGED vars
  BY <1>1, SightKept DEF vars, AfterInv
<1> QED BY <1>1, AfterSteps DEF Next, StepOf, AllAnswered

(* At COMMIT the audited `after` is still the configuration the commit      *)
(* leaves: the lock on the configuration row, taken by the UPDATE of its    *)
(* version, keeps every other writer of the configuration, its rules and    *)
(* its overrides from committing in between.                                *)
THEOREM AuditAfterIsCommittedHolds == Spec => []AuditAfterIsCommitted
<1>1. ASSUME AfterInv PROVE AuditAfterIsCommitted
  <2> SUFFICES ASSUME NEW r \in Reqs, pc[r] = "commit", OnConfig(op[r]),
                      NEW q \in ConfigQueries(op[r].flag, op[r].env)
               PROVE  w[r].audit.after[q[1]][q[2]] = Sees(r, q)
    BY DEF AuditAfterIsCommitted
  <2>1. Audited(r)
    BY <1>1 DEF AfterInv, AfterOf
  <2>2. q \in {<<"config", Ref(r)>>, <<"rules", Ref(r)>>, <<"overrides", Ref(r)>>}
    BY DEF ConfigQueries, Details, Ref
  <2> QED BY <2>1, <2>2 DEF Audited, StillSees
<1>2. Init => AfterInv
  BY DEF Init, AfterInv, AfterOf
<1>3. Spec => [](StoreInv /\ LockInv /\ AfterInv)
  BY <1>2, StoreInvInit, StoreInvNext, LockInit, LockNext, AfterNext, PTL DEF Spec
<1> QED BY <1>1, <1>3, PTL

-----------------------------------------------------------------------------
(***************************************************************************)
(* Rules come from one PUT.  A DELETE takes all committed rules of a       *)
(* configuration or, when another PUT's were committed since its snapshot, *)
(* none; the first INSERT of a body, at position 0, succeeds only if no    *)
(* committed rule is left; so whoever inserts has deleted all there was,   *)
(* and keeps the others out until it commits or rolls back.                *)
(***************************************************************************)
Puts(r) == pc[r] \in {"deleting", "insertRow", "after", "commit"} /\ op[r].kind = "rules"
RuleRows(r) == child["rules"][Ref(r)]

\* What the configuration x may have committed: nothing, or the body of an audited PUT.
PutAt(i, x) == audit[i].op.kind = "rules" /\ <<audit[i].op.flag, audit[i].op.env>> = x
BodyAt(i) == RowsOf(audit[i].by, audit[i].op.body)
OneBody(rows, x) == rows = {} \/ \E i \in DOMAIN audit : PutAt(i, x) /\ rows = BodyAt(i)

PutInv(r) == Puts(r) =>
  /\ pc[r] = "deleting" => OneBody(target[r], Ref(r)) /\ w[r].del = {} /\ w[r].ins = {}
  /\ w[r].del # {} => w[r].del = RuleRows(r)
  /\ w[r].ins # {} => w[r].del = RuleRows(r) /\ \E row \in w[r].ins : row.key = 0
  /\ pc[r] = "insertRow" => /\ w[r].ins \cup RowsOf(r, left[r]) = RowsOf(r, op[r].body)
                            /\ w[r].ins = {} => left[r] = op[r].body
  /\ pc[r] \in {"after", "commit"} => w[r].ins = RowsOf(r, op[r].body)
  /\ pc[r] = "commit" => w[r].audit.op = op[r]
PutsExclude ==
  \A r, s \in Reqs :
    /\ Puts(r) /\ Puts(s) /\ Ref(r) = Ref(s)
    /\ (w[r].del # {} /\ w[s].del # {}) \/ (w[r].ins # {} /\ w[s].ins # {})
    => r = s
RulesInv ==
  /\ \A x \in Refs : OneBody(child["rules"][x], x)
  /\ \A r \in Reqs : PutInv(r)
  /\ PutsExclude

LEMMA RowsOfSplit ==
  ASSUME NEW r, NEW body \in Seq(Entry), body # <<>>
  PROVE  RowsOf(r, body) = RowsOf(r, <<Head(body)>>) \cup RowsOf(r, Tail(body))
<1> DEFINE row(e) == [key |-> e.key, val |-> e.val, by |-> r]
<1>1. /\ Tail(body) \in Seq(Entry) /\ Len(Tail(body)) = Len(body) - 1 /\ Head(body) = body[1]
      /\ Len(body) \in Nat \ {0} /\ \A i \in 1 .. Len(body) - 1 : Tail(body)[i] = body[i + 1]
  BY HeadTailProperties, EmptySeq, LenProperties
<1>2. /\ DOMAIN body = 1 .. Len(body) /\ DOMAIN Tail(body) = 1 .. Len(body) - 1
      /\ DOMAIN <<Head(body)>> = {1} /\ <<Head(body)>>[1] = body[1]
  BY <1>1
<1>3. /\ RowsOf(r, body) = {row(body[i]) : i \in 1 .. Len(body)}
      /\ RowsOf(r, Tail(body)) = {row(Tail(body)[i]) : i \in 1 .. Len(body) - 1}
      /\ RowsOf(r, <<Head(body)>>) = {row(body[1])}
  BY <1>2 DEF RowsOf
<1> HIDE DEF row
<1>4. ASSUME NEW i \in 1 .. Len(body) PROVE i = 1 \/ (i - 1 \in 1 .. Len(body) - 1 /\ body[i] = Tail(body)[i - 1])
  <2>1. i # 1 => i - 1 \in 1 .. Len(body) - 1 /\ (i - 1) + 1 = i
    BY <1>1
  <2> QED BY <1>1, <2>1
<1>5. ASSUME NEW i \in 1 .. Len(body) - 1 PROVE i + 1 \in 1 .. Len(body) /\ Tail(body)[i] = body[i + 1]
  BY <1>1
<1>6. 1 \in 1 .. Len(body)
  BY <1>1
<1> QED BY <1>3, <1>4, <1>5, <1>6

LEMMA RowsOfNone == \A r : RowsOf(r, <<>>) = {}
  BY DEF RowsOf

(* A body of rules starts at position 0. *)
LEMMA RuleBody ==
  ASSUME NEW o \in Op, o.kind = "rules", NEW r
  PROVE  /\ o.body \in Seq(Entry)
         /\ o.body # <<>> => Head(o.body).key = 0 /\ \E row \in RowsOf(r, o.body) : row.key = 0
<1>1. o \in ReplaceOp("rules")
  BY DEF Op, CreateOp, ArchiveOp, ConfigOp, ReplaceOp, GetOp, FindOp
<1>2. o.body \in Bodies["rules"] /\ o.body \in Seq(Entry)
  BY <1>1, FlagDataAssumption DEF FlagDataAssumption, ReplaceOp, Tables
<1>3. ASSUME o.body # <<>>
      PROVE  Head(o.body).key = 0 /\ \E row \in RowsOf(r, o.body) : row.key = 0
  <2>1. 1 \in DOMAIN o.body /\ Head(o.body) = o.body[1]
    BY <1>2, <1>3, HeadTailProperties, LenProperties, EmptySeq
  <2>2. o.body[1].key = 0
    <3>1. o.body[1].key = 1 - 1
      BY <1>2, <2>1, PositionAssumption DEF PositionAssumption
    <3> QED BY <3>1
  <2>3. [key |-> o.body[1].key, val |-> o.body[1].val, by |-> r] \in RowsOf(r, o.body)
    BY <2>1 DEF RowsOf
  <2> QED BY <2>1, <2>2, <2>3
<1> QED BY <1>2, <1>3

LEMMA BodyHasFirst ==
  ASSUME StoreInv, NEW rows, NEW x, OneBody(rows, x), rows # {}
  PROVE  \E row \in rows : row.key = 0
<1>1. PICK i \in DOMAIN audit : PutAt(i, x) /\ rows = BodyAt(i)
  BY DEF OneBody
<1>2. audit[i].op \in Op /\ audit[i].op.kind = "rules"
  BY <1>1, EntryType DEF AuditRow, PutAt
<1>3. audit[i].op.body # <<>>
  BY <1>1, RowsOfNone DEF BodyAt
<1> QED BY <1>1, <1>2, <1>3, RuleBody DEF BodyAt

(* Two committed bodies are the same or have no row in common. *)
LEMMA BodiesApart ==
  ASSUME OnceInv, NEW a, NEW b, NEW x, OneBody(a, x), OneBody(b, x)
  PROVE  a \cap b = {} \/ a = b
<1>1. ASSUME NEW i \in DOMAIN audit, NEW j \in DOMAIN audit, a = BodyAt(i), b = BodyAt(j), a \cap b # {}
      PROVE  a = b
  <2>1. \A row \in BodyAt(i) : row.by = audit[i].by
    BY DEF BodyAt, RowsOf
  <2>2. \A row \in BodyAt(j) : row.by = audit[j].by
    BY DEF BodyAt, RowsOf
  <2>3. audit[i].by = audit[j].by
    BY <1>1, <2>1, <2>2
  <2> QED BY <1>1, <2>3 DEF OnceInv
<1> QED BY <1>1 DEF OneBody

LEMMA OneBodyStays ==
  ASSUME NEW rows, NEW x, OneBody(rows, x), DOMAIN audit \subseteq DOMAIN audit',
         \A i \in DOMAIN audit : audit'[i] = audit[i]
  PROVE  rows = {} \/ \E i \in DOMAIN audit' : PutAt(i, x)' /\ rows = BodyAt(i)'
  BY DEF OneBody, PutAt, BodyAt

(* What a step of r leaves to the others. *)
OwnStep(r) == \A s \in Reqs \ {r} :
  /\ op'[s] = op[s] /\ pc'[s] = pc[s] /\ w'[s] = w[s] /\ target'[s] = target[s] /\ left'[s] = left[s]

LEMMA StepIsOwn ==
  ASSUME StoreInv, NEW r \in Reqs, StepOf(r)
  PROVE  OwnStep(r)
<1>1. LocalTypes
  BY SplitTypes DEF StoreInv
<1>2. ASSUME NEW s \in Reqs \ {r} PROVE op'[s] = op[s] /\ pc'[s] = pc[s] /\ w'[s] = w[s]
  <2>1. CASE GoesOn(r)
    BY <2>1 DEF GoesOn, OnlyOf
  <2>2. CASE GivesUp(r) \/ Commits(r)
    BY <1>1, <2>2 DEF GivesUp, Commits, Rollback, Finish, LocalTypes
  <2> QED BY <2>1, <2>2, StepShapes
<1>3. ASSUME NEW s \in Reqs \ {r} PROVE target'[s] = target[s] /\ left'[s] = left[s]
  BY <1>1 DEF StepOf, Receive, Statement, Select, AnswerRead, Recheck, NotFoundConfig,
     VersionConflict, UpdateConfig, StartDelete, FinishDelete, InsertRow, UniqueViolation,
     BumpVersion, InsertFlag, DuplicateKey, InsertConfig, ReadCreated, StampArchive, NotFoundFlag,
     RecordAudit, Commit, DeadlockDetected, CommitUnacknowledged, ConnectionLost, ReadAfter,
     Rollback, Finish, LocalTypes
<1> QED BY <1>2, <1>3 DEF OwnStep

LEMMA PutInvFrame ==
  ASSUME NEW s, PutInv(s), op'[s] = op[s], pc'[s] = pc[s], w'[s] = w[s], target'[s] = target[s],
         left'[s] = left[s], DOMAIN audit \subseteq DOMAIN audit',
         \A i \in DOMAIN audit : audit'[i] = audit[i],
         Puts(s) /\ w[s].del \cup w[s].ins # {} => RuleRows(s)' = RuleRows(s)
  PROVE  PutInv(s)'
<1>1. Ref(s)' = Ref(s) /\ (Puts(s)' <=> Puts(s))
  BY DEF Ref, Puts
<1>2. OneBody(target[s], Ref(s)) => OneBody(target[s], Ref(s))'
  BY <1>1, OneBodyStays DEF OneBody
<1> QED BY <1>1, <1>2 DEF PutInv

(* A step that leaves the committed rules alone. *)
LEMMA QuietPut ==
  ASSUME StoreInv, RulesInv, NEW r \in Reqs, OwnStep(r), UNCHANGED committed, PutInv(r)',
         \A s \in Reqs \ {r} : Puts(r)' /\ Puts(s) /\ Ref(r)' = Ref(s) =>
           (w'[r].del = {} \/ w[s].del = {}) /\ (w'[r].ins = {} \/ w[s].ins = {})
  PROVE  RulesInv'
<1>1. \A s \in Reqs \ {r} : (Puts(s)' <=> Puts(s)) /\ Ref(s)' = Ref(s) /\ w'[s] = w[s]
  BY DEF OwnStep, Puts, Ref
<1>2. ASSUME NEW s \in Reqs PROVE PutInv(s)'
  <2>1. CASE s = r
    BY <2>1
  <2>2. CASE s # r
    <3>1. RuleRows(s)' = RuleRows(s) /\ audit' = audit
      BY <1>1, <2>2 DEF RuleRows, committed
    <3> QED BY <2>2, <3>1, PutInvFrame DEF OwnStep, RulesInv
  <2> QED BY <2>1, <2>2
<1>3. PutsExclude'
  BY <1>1 DEF RulesInv, PutsExclude
<1>4. \A x \in Refs : OneBody(child["rules"][x], x)'
  BY DEF RulesInv, committed, OneBody, PutAt, BodyAt
<1> QED BY <1>2, <1>3, <1>4 DEF RulesInv

(* ... and the request's own deletions and insertions too, if it has any. *)
LEMMA PutStays ==
  ASSUME StoreInv, RulesInv, NEW r \in Reqs, OwnStep(r), UNCHANGED committed,
         Puts(r)' => /\ Puts(r) /\ op'[r] = op[r] /\ PutInv(r)'
                     /\ w'[r].del = w[r].del /\ w'[r].ins = w[r].ins
  PROVE  RulesInv'
<1>1. PutInv(r)'
  BY DEF PutInv
<1>2. Puts(r)' => Ref(r)' = Ref(r)
  BY DEF Ref
<1> QED BY <1>1, <1>2, QuietPut DEF RulesInv, PutsExclude

LEMMA StartDeletePut ==
  ASSUME StoreInv, RulesInv, NEW r \in Reqs, OwnStep(r), StartDelete(r)
  PROVE  RulesInv'
<1>1. /\ op[r] \in Op /\ OnConfig(op[r]) /\ Ref(r) \in Refs /\ w[r] = NoWrites
  BY PassedFacts DEF StartDelete
<1>2. /\ UNCHANGED committed /\ UNCHANGED <<op, w>> /\ pc'[r] = "deleting" /\ Ref(r)' = Ref(r)
      /\ target'[r] = RowsSeen(r, op[r].kind, Ref(r))
  BY DEF StartDelete, StoreInv, TypeOK, Ref
<1>3. w'[r].del = {} /\ w'[r].ins = {}
  BY <1>1, <1>2 DEF NoWrites
<1>4. op[r].kind = "rules" => target'[r] = child["rules"][Ref(r)]
  BY <1>1, <1>2 DEF RowsSeen, NoWrites
<1>5. OneBody(child["rules"][Ref(r)], Ref(r))
  BY <1>1 DEF RulesInv
<1>6. OneBody(child["rules"][Ref(r)], Ref(r))'
  BY <1>2, <1>5 DEF OneBody, committed, PutAt, BodyAt
<1>7. PutInv(r)'
  BY <1>2, <1>3, <1>4, <1>6 DEF PutInv, Puts, committed, OneBody
<1> QED BY <1>2, <1>3, <1>7, QuietPut

LEMMA FinishDeletePut ==
  ASSUME StoreInv, OnceInv, RulesInv, NEW r \in Reqs, OwnStep(r), FinishDelete(r)
  PROVE  RulesInv'
<1> DEFINE del == target[r] \cap MyRows(r)
<1>1. op[r] \in Op /\ op[r].kind \in Tables /\ Ref(r) \in Refs
  BY RefType DEF FinishDelete, StoreInv, Protocol, OnConfig
<1>2. /\ UNCHANGED committed /\ op' = op /\ pc'[r] = "insertRow" /\ Ref(r)' = Ref(r)
      /\ left'[r] = op[r].body
  BY DEF FinishDelete, StoreInv, TypeOK, Ref
<1>3. w'[r].del = del /\ w'[r].ins = w[r].ins
  BY DEF FinishDelete, StoreInv, TypeOK, Writes
<1>4. CASE op[r].kind # "rules"
  BY <1>2, <1>4, PutStays DEF Puts
<1>5. CASE op[r].kind = "rules"
  <2>1. /\ Puts(r) /\ OneBody(target[r], Ref(r)) /\ w[r].ins = {} /\ MyRows(r) = RuleRows(r)
        /\ OneBody(RuleRows(r), Ref(r))
    BY <1>1, <1>5 DEF FinishDelete, Puts, RulesInv, PutInv, MyRows, RuleRows
  <2>2. del = {} \/ (del = RuleRows(r) /\ target[r] = RuleRows(r))
    BY <2>1, BodiesApart
  <2> HIDE DEF del
  <2>3. PutInv(r)'
    BY <1>2, <1>3, <2>1, <2>2 DEF PutInv, RuleRows, committed
  <2>4. ASSUME NEW s \in Reqs \ {r}, Puts(s), Ref(r) = Ref(s), w[s].del # {}, del # {}
        PROVE  FALSE
    <3>1. w[s].del = RuleRows(r) /\ target[r] = RuleRows(r)
      BY <2>2, <2>4 DEF RulesInv, PutInv, RuleRows
    <3>2. s \in SameTable(r)
      BY <1>5, <2>4 DEF SameTable, Others, Active, On, Puts, OnConfig, Tables
    <3> QED BY <2>4, <3>1, <3>2 DEF FinishDelete, DeleteWaitsFor
  <2> QED BY <1>2, <1>3, <2>1, <2>3, <2>4, QuietPut
<1> QED BY <1>4, <1>5

LEMMA InsertRowPut ==
  ASSUME StoreInv, RulesInv, NEW r \in Reqs, OwnStep(r), InsertRow(r)
  PROVE  RulesInv'
<1> DEFINE new == RowsOf(r, <<Head(left[r])>>)
<1>1. op[r] \in Op /\ op[r].kind \in Tables /\ Ref(r) \in Refs
  BY RefType DEF InsertRow, StoreInv, Protocol, OnConfig
<1>2. /\ UNCHANGED committed /\ op' = op /\ pc'[r] = "insertRow" /\ Ref(r)' = Ref(r)
      /\ left'[r] = Tail(left[r]) /\ left[r] \in Seq(Entry) /\ left[r] # <<>>
  BY DEF InsertRow, StoreInv, TypeOK, Ref
<1>3. w'[r].del = w[r].del /\ w'[r].ins = w[r].ins \cup new
  BY DEF InsertRow, StoreInv, TypeOK, Writes
<1>4. CASE op[r].kind # "rules"
  BY <1>2, <1>4, PutStays DEF Puts
<1>5. CASE op[r].kind = "rules"
  <2>1. Puts(r) /\ PutInv(r) /\ pc[r] = "insertRow"
    BY <1>5 DEF InsertRow, Puts, RulesInv
  <2>2. RowsOf(r, left[r]) = new \cup RowsOf(r, Tail(left[r]))
    BY <1>2, RowsOfSplit
  <2>3. \E row \in new : row.key = Head(left[r]).key
    <3>1. 1 \in DOMAIN <<Head(left[r])>> /\ <<Head(left[r])>>[1] = Head(left[r])
      OBVIOUS
    <3>2. [key |-> Head(left[r]).key, val |-> Head(left[r]).val, by |-> r] \in new
      BY <3>1 DEF RowsOf
    <3> QED BY <3>2
  <2>4. w[r].ins = {} => Head(left[r]).key = 0
    BY <1>1, <1>2, <1>5, <2>1, RuleBody DEF PutInv
  <2> HIDE DEF new
  <2>5. \E row \in w'[r].ins : row.key = 0
    BY <1>3, <2>1, <2>3, <2>4 DEF PutInv
  <2>6. w[r].ins = {} => w[r].del = RuleRows(r)
    <3>1. ASSUME w[r].ins = {}, w[r].del # RuleRows(r) PROVE FALSE
      <4>1. w[r].del = {} /\ RuleRows(r) # {}
        BY <2>1, <3>1 DEF PutInv
      <4>2. OneBody(RuleRows(r), Ref(r))
        BY <1>1 DEF RulesInv, RuleRows
      <4>3. PICK row \in RuleRows(r) : row.key = 0
        BY <4>1, <4>2, BodyHasFirst
      <4>4. row \in Clashes(r)
        BY <1>5, <2>4, <3>1, <4>1, <4>3 DEF Clashes, MyRows, RuleRows
      <4> QED BY <4>4 DEF InsertRow
    <3> QED BY <3>1
  <2>7. PutInv(r)'
    <3>1. RuleRows(r)' = RuleRows(r)
      BY <1>2 DEF RuleRows, committed
    <3>2. w'[r].ins \cup RowsOf(r, left'[r]) = RowsOf(r, op'[r].body)
      BY <1>2, <1>3, <2>1, <2>2 DEF PutInv
    <3>3. w'[r].ins # {}
      BY <2>5
    <3>4. w'[r].del = RuleRows(r)'
      BY <1>3, <2>1, <2>6, <3>1 DEF PutInv
    <3> QED BY <1>2, <2>5, <3>2, <3>3, <3>4 DEF PutInv
  <2>8. ASSUME NEW s \in Reqs \ {r}, Puts(s), Ref(r) = Ref(s)
        PROVE  (w'[r].del = {} \/ w[s].del = {}) /\ (w'[r].ins = {} \/ w[s].ins = {})
    <3>1. w[r].del = {} \/ w[s].del = {}
      BY <2>1, <2>8 DEF RulesInv, PutsExclude
    <3>2. ASSUME w[s].ins # {} PROVE FALSE
      <4>1. w[r].ins = {}
        BY <2>1, <2>8, <3>2 DEF RulesInv, PutsExclude
      <4>2. PICK row \in w[s].ins : row.key = 0
        BY <2>8, <3>2 DEF RulesInv, PutInv
      <4>3. s \in SameTable(r)
        BY <1>5, <2>8 DEF SameTable, Others, Active, On, Puts, OnConfig, Tables
      <4>4. s \in InsertWaitsFor(r)
        BY <2>4, <4>1, <4>2, <4>3 DEF InsertWaitsFor
      <4> QED BY <4>4 DEF InsertRow
    <3> QED BY <1>3, <3>1, <3>2
  <2> QED BY <1>2, <2>7, <2>8, QuietPut
<1> QED BY <1>4, <1>5

LEMMA BumpVersionPut ==
  ASSUME StoreInv, RulesInv, NEW r \in Reqs, OwnStep(r), BumpVersion(r)
  PROVE  RulesInv'
<1>1. /\ UNCHANGED committed /\ op' = op /\ pc'[r] = "after" /\ Ref(r)' = Ref(r)
      /\ w'[r].del = w[r].del /\ w'[r].ins = w[r].ins /\ pc[r] = "insertRow" /\ left[r] = <<>>
  BY DEF BumpVersion, ReadAfter, StoreInv, TypeOK, Ref, Writes
<1>2. ASSUME op[r].kind = "rules" PROVE Puts(r) /\ PutInv(r)'
  <2>1. Puts(r) /\ PutInv(r)
    BY <1>1, <1>2 DEF Puts, RulesInv
  <2>2. w[r].ins = RowsOf(r, op[r].body)
    BY <1>1, <2>1, RowsOfNone DEF PutInv
  <2> QED BY <1>1, <2>1, <2>2 DEF PutInv, RuleRows, committed
<1> QED BY <1>1, <1>2, PutStays DEF Puts

LEMMA RecordAuditPut ==
  ASSUME StoreInv, RulesInv, NEW r \in Reqs, OwnStep(r), RecordAudit(r)
  PROVE  RulesInv'
<1>1. /\ UNCHANGED committed /\ op' = op /\ pc[r] = "after" /\ pc'[r] = "commit" /\ Ref(r)' = Ref(r)
  BY DEF RecordAudit, StoreInv, TypeOK, Ref
<1>2. w'[r].del = w[r].del /\ w'[r].ins = w[r].ins /\ w'[r].audit = AuditEntry(r)
  BY DEF RecordAudit, StoreInv, TypeOK, Writes
<1>3. w'[r].audit.op = op[r]
  BY <1>2 DEF AuditEntry
<1>4. ASSUME op[r].kind = "rules" PROVE Puts(r) /\ PutInv(r)'
  <2>1. Puts(r) /\ PutInv(r)
    BY <1>1, <1>4 DEF Puts, RulesInv
  <2> QED BY <1>1, <1>2, <1>3, <2>1 DEF PutInv, RuleRows, committed
<1> QED BY <1>1, <1>2, <1>4, PutStays DEF Puts

LEMMA SelectPut ==
  ASSUME StoreInv, RulesInv, NEW r \in Reqs, OwnStep(r), Select(r)
  PROVE  RulesInv'
<1>1. UNCHANGED committed /\ UNCHANGED <<op, pc, w, target, left>>
  BY DEF Select
<1>2. PutInv(r)'
  BY <1>1, PutInvFrame DEF committed, RulesInv, RuleRows, Ref
<1> QED BY <1>1, <1>2, PutStays DEF Puts

(* COMMIT of a replacement of rules: whoever inserted had deleted all, and  *)
(* an empty body leaves all of another PUT's rules or none.                *)
LEMMA CommitPut ==
  ASSUME StoreInv, OnceInv, RulesInv, NEW r \in Reqs, OwnStep(r), Commits(r)
  PROVE  RulesInv'
<1>0. PICK n : n = Len(audit) + 1
  OBVIOUS
<1>1. /\ pc[r] = "commit" /\ op[r] \in Op /\ op' = op /\ pc'[r] = "done"
      /\ w[r].audit.by = r
  BY DEF Commits, Finish, StoreInv, TypeOK, Protocol, OnceInv, Signed
<1>2. /\ DOMAIN audit' = DOMAIN audit \cup {n} /\ n \notin DOMAIN audit /\ audit'[n] = w[r].audit
      /\ \A i \in DOMAIN audit : audit'[i] = audit[i]
  <2>1. audit' = Append(audit, w[r].audit) /\ audit \in Seq(AuditRow) /\ w[r].audit \in AuditRow
    BY DEF Commits, Apply, StoreInv, TypeOK, Protocol
  <2> QED BY <1>0, <2>1, AppendProperties, LenProperties
<1>3. \A x \in Refs : child'["rules"][x] =
        IF Puts(r) /\ x = Ref(r) THEN (child["rules"][x] \ w[r].del) \cup w[r].ins ELSE child["rules"][x]
  <2>1. \A x \in Refs : child'["rules"][x] = RowsSeen(r, "rules", x)
    BY DEF Commits, Apply, Tables
  <2>2. \A x \in Refs : Puts(r) /\ x = Ref(r) <=> op[r].kind = "rules" /\ On(r, x)
    BY <1>1 DEF Puts, On, OnConfig, Tables
  <2> QED BY <2>1, <2>2 DEF RowsSeen
<1>4. \A s \in Reqs \ {r} : (Puts(s)' <=> Puts(s)) /\ Ref(s)' = Ref(s) /\ w'[s] = w[s]
  BY DEF OwnStep, Puts, Ref
<1>5. ~Puts(r)' /\ PutInv(r)'
  BY <1>1 DEF Puts, PutInv
<1>6. ASSUME Puts(r)
      PROVE  /\ Ref(r) \in Refs /\ w[r].ins = RowsOf(r, op[r].body) /\ w[r].audit.op = op[r]
             /\ w[r].del # {} => w[r].del = RuleRows(r)
             /\ w[r].ins # {} => w[r].del = RuleRows(r)
  <2>1. PutInv(r) /\ OnConfig(op[r])
    BY <1>6 DEF RulesInv, Puts, OnConfig, Tables
  <2> QED BY <1>1, <1>6, <2>1, RefType DEF PutInv
<1>7. ASSUME NEW x \in Refs PROVE OneBody(child["rules"][x], x)'
  <2>1. OneBody(child["rules"][x], x)
    BY DEF RulesInv
  <2>2. CASE child'["rules"][x] \in {{}, child["rules"][x]}
    BY <1>2, <2>1, <2>2, OneBodyStays DEF OneBody
  <2>3. CASE Puts(r) /\ x = Ref(r) /\ w[r].ins # {}
    <3>1. child'["rules"][x] = RowsOf(r, op[r].body)
      BY <1>3, <1>6, <2>3 DEF RuleRows
    <3>2. audit'[n].op = op[r] /\ audit'[n].by = r
      BY <1>1, <1>2, <1>6, <2>3
    <3>3. PutAt(n, x)'
      BY <2>3, <3>2 DEF PutAt, Puts, Ref
    <3>4. BodyAt(n)' = RowsOf(r, op[r].body)
      BY <3>2 DEF BodyAt
    <3> QED BY <1>2, <3>1, <3>3, <3>4 DEF OneBody
  <2>4. CASE Puts(r) /\ x = Ref(r) /\ w[r].ins = {}
    BY <1>3, <1>6, <2>2, <2>4 DEF RuleRows
  <2>5. CASE ~(Puts(r) /\ x = Ref(r))
    BY <1>3, <2>2, <2>5
  <2> QED BY <2>3, <2>4, <2>5
<1>8. ASSUME NEW s \in Reqs \ {r}, Puts(s), w[s].del \cup w[s].ins # {}
      PROVE  RuleRows(s)' = RuleRows(s)
  <2>1. /\ Ref(s) \in Refs /\ (w[s].del # {} => w[s].del = RuleRows(s))
        /\ (w[s].ins # {} => w[s].del = RuleRows(s))
    <3>1. op[s] \in Op /\ OnConfig(op[s]) /\ PutInv(s)
      BY <1>8 DEF StoreInv, Protocol, Puts, OnConfig, Tables, RulesInv
    <3> QED BY <1>8, <3>1, RefType DEF PutInv
  <2>2. CASE ~(Puts(r) /\ Ref(s) = Ref(r))
    <3>1. child'["rules"][Ref(s)] = child["rules"][Ref(s)]
      BY <1>3, <2>1, <2>2
    <3> QED BY <1>4, <3>1 DEF RuleRows
  <2>3. CASE Puts(r) /\ Ref(s) = Ref(r)
    <3>1. (w[r].del = {} \/ w[s].del = {}) /\ (w[r].ins = {} \/ w[s].ins = {})
      BY <1>8, <2>3 DEF RulesInv, PutsExclude
    <3>2. RuleRows(r) = RuleRows(s)
      BY <2>3 DEF RuleRows
    <3>3. w[s].del = RuleRows(s)
      BY <1>8, <2>1
    <3>4. child'["rules"][Ref(s)] = (child["rules"][Ref(s)] \ w[r].del) \cup w[r].ins
      BY <1>3, <2>1, <2>3
    <3>5. CASE RuleRows(s) = {}
      <4>1. w[s].ins # {}
        BY <1>8, <3>3, <3>5
      <4> QED BY <1>4, <3>1, <3>4, <3>5, <4>1 DEF RuleRows
    <3>6. CASE RuleRows(s) # {}
      <4>1. w[r].del = {} /\ w[r].ins = {}
        BY <1>6, <2>3, <3>1, <3>2, <3>3, <3>6
      <4> QED BY <1>4, <3>4, <4>1 DEF RuleRows
    <3> QED BY <3>5, <3>6
  <2> QED BY <2>2, <2>3
<1>9. ASSUME NEW s \in Reqs PROVE PutInv(s)'
  <2>1. CASE s = r
    BY <1>5, <2>1
  <2>2. CASE s # r
    BY <1>2, <1>8, <2>2, PutInvFrame DEF OwnStep, RulesInv
  <2> QED BY <2>1, <2>2
<1>10. PutsExclude'
  BY <1>4, <1>5 DEF RulesInv, PutsExclude
<1> QED BY <1>7, <1>9, <1>10 DEF RulesInv

LEMMA RulesSteps ==
  ASSUME StoreInv, OnceInv, RulesInv, NEW r \in Reqs, StepOf(r)
  PROVE  RulesInv'
<1>1. OwnStep(r) /\ LocalTypes
  BY StepIsOwn, SplitTypes DEF StoreInv
<1>2. CASE UNCHANGED committed /\ ~Puts(r)'
  BY <1>1, <1>2, PutStays
<1>3. CASE GivesUp(r)
  BY <1>1, <1>2, <1>3 DEF GivesUp, Rollback, Finish, Puts, LocalTypes
<1>4. CASE Select(r)
  BY <1>1, <1>4, SelectPut
<1>5. CASE StartDelete(r) \/ FinishDelete(r) \/ InsertRow(r)
  BY <1>1, <1>5, StartDeletePut, FinishDeletePut, InsertRowPut
<1>6. CASE BumpVersion(r) \/ RecordAudit(r)
  BY <1>1, <1>6, BumpVersionPut, RecordAuditPut
<1>7. CASE UpdateConfig(r) \/ ReadCreated(r) \/ StampArchive(r)
  <2>1. UNCHANGED committed /\ op' = op /\ op[r].kind # "rules"
    BY <1>7 DEF UpdateConfig, ReadCreated, StampArchive, StoreInv, Protocol
  <2> QED BY <1>2, <2>1 DEF Puts
<1>8. CASE Recheck(r) \/ InsertFlag(r) \/ InsertConfig(r)
  <2>1. UNCHANGED committed /\ pc'[r] \in {"check", "insertConfig"}
    BY <1>1, <1>8 DEF Recheck, InsertFlag, InsertConfig, LocalTypes
  <2> QED BY <1>2, <2>1 DEF Puts
<1>9. CASE \E o \in Workload[r] : Receive(r, o)
  <2>1. UNCHANGED committed /\ pc'[r] \in {"read", "insertFlag", "before"}
    BY <1>1, <1>9 DEF Receive, FirstStatement, LocalTypes
  <2> QED BY <1>2, <2>1 DEF Puts
<1>10. CASE \/ AnswerRead(r) \/ NotFoundConfig(r) \/ VersionConflict(r) \/ UniqueViolation(r)
            \/ DuplicateKey(r) \/ NotFoundFlag(r) \/ ConnectionLost(r) \/ DeadlockDetected(r)
  BY <1>3, <1>10, RollbackGivesUp
<1>11. CASE Commit(r) \/ CommitUnacknowledged(r)
  <2>1. Commits(r)
    BY <1>11, NewVersionType DEF Commit, CommitUnacknowledged, Commits
  <2> QED BY <1>1, <2>1, CommitPut
<1> QED BY <1>4, <1>5, <1>6, <1>7, <1>8, <1>9, <1>10, <1>11 DEF StepOf, Statement

LEMMA RulesNext == StoreInv /\ OnceInv /\ RulesInv /\ [Next]_vars => RulesInv'
<1> SUFFICES ASSUME StoreInv, OnceInv, RulesInv, [Next]_vars PROVE RulesInv'
  OBVIOUS
<1>1. CASE UNCHANGED vars
  BY <1>1 DEF vars, RulesInv, PutInv, PutsExclude, Puts, Ref, RuleRows, OneBody, PutAt, BodyAt
<1> QED BY <1>1, RulesSteps DEF Next, StepOf, AllAnswered

(* Two PUTs of rules never mix, however their statements interleave: READ   *)
(* COMMITTED lets the second DELETE miss what the first one inserted, and   *)
(* UNIQUE (flag_config_id, position) then makes the second PUT fail.        *)
THEOREM RulesFromOnePutHolds == Spec => []RulesFromOnePut
<1>1. ASSUME RulesInv PROVE RulesFromOnePut
  BY <1>1 DEF RulesInv, RulesFromOnePut, OneBody, PutAt, BodyAt
<1>2. Init => RulesInv
  <2> SUFFICES ASSUME Init PROVE RulesInv
    OBVIOUS
  <2>1. \A x \in Refs : child["rules"][x] = {}
    BY DEF Init, Tables
  <2> QED BY <2>1 DEF Init, RulesInv, PutInv, PutsExclude, Puts, OneBody
<1>3. Spec => [](StoreInv /\ OnceInv /\ RulesInv)
  BY <1>2, StoreInvInit, StoreInvNext, OnceInit, OnceNext, RulesNext, PTL DEF Spec
<1> QED BY <1>1, <1>3, PTL

-----------------------------------------------------------------------------
(* From here on, while nobody sends two mutations of one flag at a time:   *)
(* the statements of a transaction, with its reads, aborts and lost        *)
(* acknowledgements, implement the atomic contract of FlagContract,        *)
(* successive audit rows meet, and a torn read never carries a version     *)
(* ahead of the rows beside it.                                            *)

(* The inductive invariant.  Of the mutations of one flag at most one is   *)
(* under way, so what it has read of that flag, before and after its       *)
(* writes, is what it still sees, and what it saw committed still is.      *)

MutatorActive(r) == Active(r) /\ Mutates(op[r])
Exclusive ==
  \A r, s \in Reqs : MutatorActive(r) /\ MutatorActive(s) /\ op[r].flag = op[s].flag => r = s

\* What r sees of the queries Q, in the format of a snapshot.
Sight(r, Q) ==
  [flag |-> [f \in Flags |-> IF FlagQuery(f) \in Q THEN Sees(r, FlagQuery(f)) ELSE None],
   config |-> [x \in Refs |-> IF <<"config", x>> \in Q THEN Sees(r, <<"config", x>>) ELSE None],
   rules |-> [x \in Refs |-> IF <<"rules", x>> \in Q THEN Sees(r, <<"rules", x>>) ELSE None],
   overrides |-> [x \in Refs |-> IF <<"overrides", x>> \in Q THEN Sees(r, <<"overrides", x>>) ELSE None]]

\* The rows of the store the queries in Q ask for.
Rows(Q) ==
  [flag |-> [f \in Flags |-> IF FlagQuery(f) \in Q THEN flagRow[f] ELSE None],
   config |-> [x \in Refs |-> IF <<"config", x>> \in Q THEN configRow[x] ELSE None],
   rules |-> [x \in Refs |-> IF <<"rules", x>> \in Q THEN child["rules"][x] ELSE None],
   overrides |-> [x \in Refs |-> IF <<"overrides", x>> \in Q THEN child["overrides"][x] ELSE None]]

\* The aggregate an operation is about.
Aggregate(o) ==
  {FlagQuery(o.flag)} \cup (IF OnConfig(o) THEN ConfigQueries(o.flag, o.env)
                            ELSE UNION {ConfigQueries(o.flag, e) : e \in Envs})

\* t is what is left of the plan p after n queries.
RestOf(t, p, n) == Len(t) = Len(p) - n /\ \A i \in DOMAIN t : t[i] = p[n + i]
First(p, n) == {p[i] : i \in 1 .. n}

\* A read that has come some way through its plan, and one that found no flag.
Progress(r, p) ==
  \E n \in 0 .. Len(p) : /\ RestOf(todo[r], p, n) /\ seen[r] = Sight(r, First(p, n))
                         /\ n > 0 => Sees(r, FlagQuery(op[r].flag)) # None
Absent(r) == todo[r] = <<>> /\ seen[r] = NothingRead /\ flagRow[op[r].flag] = None

CheckPlan(x) == <<FlagQuery(x[1]), <<"config", x>>>>
WholePlan(o) == IF OnConfig(o) THEN ByKey(<<o.flag, o.env>>) ELSE AllEnvs(o.flag)
Reading(r) ==
  /\ pc[r] = "before" => Progress(r, WholePlan(op[r])) \/ Absent(r)
  /\ pc[r] = "check" => Progress(r, CheckPlan(Ref(r))) \/ Absent(r)
  /\ pc[r] = "after" => Progress(r, WholePlan(op[r]))
  /\ pc[r] \in {"deleting", "insertRow", "insertFlag", "insertConfig", "commit"} => todo[r] = <<>>

\* The body has been inserted up to its n-th row, each under a key of its own.
Inserted(r) ==
  \E n \in 0 .. Len(op[r].body) :
    /\ RestOf(left[r], op[r].body, n)
    /\ w[r].ins = {[key |-> op[r].body[i].key, val |-> op[r].body[i].val, by |-> r] : i \in 1 .. n}
    /\ \A i, j \in 1 .. n : op[r].body[i].key = op[r].body[j].key => i = j

Bumped(r, cols) ==
  /\ configRow[Ref(r)].version = op[r].expected
  /\ w[r].cfg[op[r].env] = [cols |-> cols, version |-> op[r].expected + 1]
Written(r) ==
  CASE op[r].kind = "create" -> w[r].flag = NewFlagRow /\ \A e \in Envs : w[r].cfg[e] = NewConfigRow
    [] op[r].kind = "archive" -> w[r].flag = [archivedAt |-> r]
    [] op[r].kind = "config" -> Bumped(r, Patched(configRow[Ref(r)].cols, op[r].patch))
    [] OTHER -> /\ Bumped(r, configRow[Ref(r)].cols)
                /\ w[r].del = MyRows(r) /\ w[r].ins = RowsOf(r, op[r].body) /\ KeysUnique(op[r].body)

Writing(r) ==
  /\ pc[r] = "insertConfig" =>
       w[r].flag = NewFlagRow /\ \A e \in Envs : w[r].cfg[e] \in {None, NewConfigRow}
  /\ pc[r] \in {"deleting", "insertRow"} =>
       Found(r) = configRow[Ref(r)] /\ Found(r).version = op[r].expected
  /\ pc[r] = "deleting" => target[r] = MyRows(r) /\ w[r].ins = {}
  /\ pc[r] = "insertRow" => w[r].del = MyRows(r) /\ Inserted(r)
  /\ pc[r] \in {"after", "commit"} => Written(r)

\* What the audit row will say.
Auditing(r) ==
  /\ op[r].kind = "create" => before[r] = NothingRead
  /\ \/ pc[r] \in {"check", "deleting", "insertRow", "after", "commit"} /\ OnConfig(op[r])
          /\ configRow[Ref(r)] # None
     \/ pc[r] \in {"after", "commit"} /\ op[r].kind = "archive"
     => before[r] = Rows(Aggregate(op[r]))
  /\ pc[r] = "commit" =>
       w[r].audit = [by |-> r, op |-> op[r], before |-> before[r], after |-> Sight(r, Aggregate(op[r]))]

Unanswered(r) ==
  /\ pc[r] # "done" => reply[r] = NoReply
  /\ pc[r] = "idle" => op[r] = None /\ todo[r] = <<>> /\ seen[r] = NothingRead /\ before[r] = NothingRead

Turn(r) == Unanswered(r) /\ (MutatorActive(r) => Reading(r) /\ Writing(r) /\ Auditing(r))
TurnInv == Exclusive /\ \A r \in Reqs : Turn(r)

-----------------------------------------------------------------------------
(* Plans of reads.                                                         *)

\* A plan starts with the flag and goes on with its configurations.
PlanOf(p, f) ==
  /\ p \in Seq(Query) /\ Len(p) >= 1 /\ p[1] = FlagQuery(f)
  /\ \A i \in 2 .. Len(p) : p[i][1] # "flag" /\ p[i][2][1] = f

LEMMA KeyPlan ==
  ASSUME NEW f \in Flags, NEW e \in Envs
  PROVE  /\ PlanOf(ByKey(<<f, e>>), f)
         /\ First(ByKey(<<f, e>>), Len(ByKey(<<f, e>>))) = {FlagQuery(f)} \cup ConfigQueries(f, e)
<1> DEFINE p == ByKey(<<f, e>>)
<1>1. p = <<FlagQuery(f), <<"config", <<f, e>>>>, <<"rules", <<f, e>>>>, <<"overrides", <<f, e>>>>>>
  BY DEF ByKey
<1>2. <<f, e>> \in Refs /\ p \in Seq(Query) /\ Len(p) = 4
  BY <1>1, ByKeyType DEF Refs
<1>3. ASSUME NEW i \in 2 .. 4 PROVE p[i][1] # "flag" /\ p[i][2][1] = f
  <2>1. i = 2 \/ i = 3 \/ i = 4
    OBVIOUS
  <2> QED BY <1>1, <2>1
<1>4. PlanOf(p, f)
  <2>1. p[1] = FlagQuery(f)
    BY <1>1
  <2> HIDE DEF p
  <2> QED BY <1>2, <1>3, <2>1 DEF PlanOf
<1>5. First(p, 4) = {p[1], p[2], p[3], p[4]}
  <2>1. 1 .. 4 = {1, 2, 3, 4}
    OBVIOUS
  <2> QED BY <2>1 DEF First
<1>6. ConfigQueries(f, e) = {p[2], p[3], p[4]}
  <2>1. DOMAIN Details = {1, 2, 3}
    BY DEF Details
  <2> QED BY <1>1, <2>1 DEF ConfigQueries, Details
<1>7. p[1] = FlagQuery(f)
  BY <1>1
<1>8. First(p, 4) = {FlagQuery(f)} \cup ConfigQueries(f, e)
  BY <1>5, <1>6, <1>7
<1> QED BY <1>2, <1>4, <1>8

LEMMA ShortPlan ==
  ASSUME NEW f \in Flags, NEW e \in Envs
  PROVE  /\ PlanOf(CheckPlan(<<f, e>>), f) /\ Len(CheckPlan(<<f, e>>)) = 2
         /\ First(CheckPlan(<<f, e>>), 2) = {FlagQuery(f), <<"config", <<f, e>>>>}
         /\ SubSeq(ByKey(<<f, e>>), 1, 2) = CheckPlan(<<f, e>>)
<1> DEFINE p == CheckPlan(<<f, e>>)
<1>1. p = <<FlagQuery(f), <<"config", <<f, e>>>>>>
  BY DEF CheckPlan
<1>2. p \in Seq(Query) /\ Len(p) = 2
  <2>1. <<f, e>> \in Refs
    BY DEF Refs
  <2>2. FlagQuery(f) \in Query /\ <<"config", <<f, e>>>> \in Query
    BY <2>1, QueryForms
  <2> QED BY <2>2 DEF CheckPlan
<1>3. PlanOf(p, f)
  <2>1. p[1] = FlagQuery(f) /\ p[2][1] # "flag" /\ p[2][2][1] = f
    BY <1>1
  <2>2. \A i \in 2 .. 2 : i = 2
    OBVIOUS
  <2> HIDE DEF p
  <2> QED BY <1>2, <2>1, <2>2 DEF PlanOf
<1>4. First(p, 2) = {p[1], p[2]}
  <2>1. 1 .. 2 = {1, 2}
    OBVIOUS
  <2> QED BY <2>1 DEF First
<1>5. SubSeq(ByKey(<<f, e>>), 1, 2) = p
  BY <1>1 DEF ByKey
<1>6. First(p, 2) = {FlagQuery(f), <<"config", <<f, e>>>>}
  BY <1>1, <1>4
<1> QED BY <1>2, <1>3, <1>5, <1>6

LEMMA EachEnvEntries ==
  ASSUME NEW f \in Flags
  PROVE  /\ EachEnv(f) \in Seq(Query) /\ Len(EachEnv(f)) = 3 * Len(EnvSeq) /\ Len(EnvSeq) \in Nat
         /\ \A i \in 1 .. 3 * Len(EnvSeq) :
              /\ EachEnv(f)[i] = <<Details[((i - 1) % 3) + 1], <<f, EnvSeq[((i - 1) \div 3) + 1]>>>>
              /\ ((i - 1) % 3) + 1 \in 1 .. 3 /\ ((i - 1) \div 3) + 1 \in 1 .. Len(EnvSeq)
<1> DEFINE n == Len(EnvSeq)
<1>1. n \in Nat /\ 3 * n \in Nat
  BY LenProperties, FlagDataAssumption DEF FlagDataAssumption
<1>2. EachEnv(f) \in Seq(Query)
  BY EachEnvType
<1>3. DOMAIN EachEnv(f) = 1 .. 3 * n
  BY DEF EachEnv
<1>4. Len(EachEnv(f)) = 3 * n
  BY <1>1, <1>2, <1>3, LenProperties
<1>5. \A i \in 1 .. 3 * n : ((i - 1) % 3) + 1 \in 1 .. 3 /\ ((i - 1) \div 3) + 1 \in 1 .. n
  BY <1>1
<1> QED BY <1>1, <1>2, <1>3, <1>4, <1>5 DEF EachEnv

LEMMA EachEnvSet ==
  ASSUME NEW f \in Flags
  PROVE  {EachEnv(f)[i] : i \in 1 .. 3 * Len(EnvSeq)} = UNION {ConfigQueries(f, e) : e \in Envs}
<1> DEFINE n == Len(EnvSeq)
<1>1. n \in Nat /\ DOMAIN EnvSeq = 1 .. n /\ DOMAIN Details = 1 .. 3
  <2>1. DOMAIN Details = 1 .. 3
    BY DEF Details
  <2> QED BY <2>1, LenProperties, FlagDataAssumption DEF FlagDataAssumption
<1>2. ASSUME NEW i \in 1 .. 3 * n
      PROVE  EachEnv(f)[i] \in UNION {ConfigQueries(f, e) : e \in Envs}
  <2> DEFINE k == ((i - 1) % 3) + 1
             j == ((i - 1) \div 3) + 1
  <2>1. k \in 1 .. 3 /\ j \in 1 .. n /\ EachEnv(f)[i] = <<Details[k], <<f, EnvSeq[j]>>>>
    BY EachEnvEntries
  <2> HIDE DEF k, j
  <2>2. EnvSeq[j] \in Envs
    BY <1>1, <2>1 DEF Envs
  <2>3. EachEnv(f)[i] \in ConfigQueries(f, EnvSeq[j])
    BY <1>1, <2>1 DEF ConfigQueries
  <2> QED BY <2>2, <2>3
<1>3. ASSUME NEW e \in Envs, NEW q \in ConfigQueries(f, e)
      PROVE  q \in {EachEnv(f)[i] : i \in 1 .. 3 * n}
  <2>1. PICK k \in 1 .. 3 : q = <<Details[k], <<f, e>>>>
    BY <1>1 DEF ConfigQueries
  <2>2. PICK j \in 1 .. n : e = EnvSeq[j]
    BY <1>1 DEF Envs
  <2>3. PICK i : i = 3 * (j - 1) + k
    OBVIOUS
  <2>4. i \in 1 .. 3 * n
    BY <1>1, <2>3
  <2>5. (i - 1) % 3 = k - 1 /\ (i - 1) \div 3 = j - 1
    BY <1>1, <2>3
  <2>6. ((i - 1) % 3) + 1 = k /\ ((i - 1) \div 3) + 1 = j
    BY <2>5
  <2>7. EachEnv(f)[i] = q
    BY <2>1, <2>2, <2>4, <2>6, EachEnvEntries
  <2> QED BY <2>4, <2>7
<1> QED BY <1>2, <1>3

LEMMA WholeFlagPlan ==
  ASSUME NEW f \in Flags
  PROVE  /\ PlanOf(AllEnvs(f), f)
         /\ First(AllEnvs(f), Len(AllEnvs(f)))
              = {FlagQuery(f)} \cup UNION {ConfigQueries(f, e) : e \in Envs}
         /\ RestOf(EachEnv(f), AllEnvs(f), 1)
<1> DEFINE p == AllEnvs(f)
           n == Len(EnvSeq)
<1>1. n \in Nat /\ EachEnv(f) \in Seq(Query) /\ Len(EachEnv(f)) = 3 * n /\ 3 * n \in Nat
  BY EachEnvEntries
<1>2. <<FlagQuery(f)>> \in Seq(Query) /\ Len(<<FlagQuery(f)>>) = 1 /\ <<FlagQuery(f)>>[1] = FlagQuery(f)
  BY QueryForms
<1>3. /\ p \in Seq(Query) /\ Len(p) = 3 * n + 1 /\ p[1] = FlagQuery(f)
      /\ \A i \in 2 .. 3 * n + 1 : p[i] = EachEnv(f)[i - 1]
  <2>1. p = <<FlagQuery(f)>> \o EachEnv(f)
    BY DEF AllEnvs
  <2>2. /\ p \in Seq(Query) /\ Len(p) = 1 + 3 * n
        /\ \A i \in 1 .. 1 + 3 * n :
             p[i] = IF i <= 1 THEN <<FlagQuery(f)>>[i] ELSE EachEnv(f)[i - 1]
    <3>1. \A s1, s2 \in Seq(Query) :
            /\ s1 \o s2 \in Seq(Query) /\ Len(s1 \o s2) = Len(s1) + Len(s2)
            /\ \A i \in 1 .. Len(s1) + Len(s2) :
                 (s1 \o s2)[i] = IF i <= Len(s1) THEN s1[i] ELSE s2[i - Len(s1)]
      BY ConcatProperties
    <3> HIDE DEF p, n
    <3> QED BY <1>1, <1>2, <2>1, <3>1
  <2> HIDE DEF p, n
  <2> QED BY <1>1, <1>2, <2>2
<1>4. ASSUME NEW i \in 1 .. 3 * n PROVE EachEnv(f)[i][1] # "flag" /\ EachEnv(f)[i][2][1] = f
  <2> DEFINE k == ((i - 1) % 3) + 1
             j == ((i - 1) \div 3) + 1
  <2>1. k \in 1 .. 3 /\ EachEnv(f)[i] = <<Details[k], <<f, EnvSeq[j]>>>>
    BY EachEnvEntries
  <2> HIDE DEF k, j
  <2>2. k = 1 \/ k = 2 \/ k = 3
    BY <2>1
  <2>3. Details[k] # "flag"
    BY <2>2 DEF Details
  <2> QED BY <2>1, <2>3
<1>5. \A i \in 2 .. 3 * n + 1 : i - 1 \in 1 .. 3 * n
  BY <1>1
<1>6. \A i \in 1 .. 3 * n : i + 1 \in 2 .. 3 * n + 1 /\ (i + 1) - 1 = i /\ 1 + i = i + 1
  BY <1>1
<1>7. PlanOf(p, f)
  BY <1>1, <1>3, <1>4, <1>5 DEF PlanOf
<1>8. First(p, 3 * n + 1) = {p[1]} \cup {p[i] : i \in 2 .. 3 * n + 1}
  <2>1. 1 .. 3 * n + 1 = {1} \cup (2 .. 3 * n + 1)
    BY <1>1
  <2> QED BY <2>1 DEF First
<1>9. {p[i] : i \in 2 .. 3 * n + 1} = {EachEnv(f)[i] : i \in 1 .. 3 * n}
  <2> HIDE DEF p, n
  <2>1. \A i \in 2 .. 3 * n + 1 : p[i] \in {EachEnv(f)[j] : j \in 1 .. 3 * n}
    BY <1>3, <1>5
  <2>2. \A j \in 1 .. 3 * n : EachEnv(f)[j] = p[j + 1] /\ j + 1 \in 2 .. 3 * n + 1
    BY <1>3, <1>6
  <2> QED BY <2>1, <2>2
<1>10. RestOf(EachEnv(f), p, 1)
  <2>1. DOMAIN EachEnv(f) = 1 .. 3 * n
    BY <1>1, LenProperties
  <2>2. Len(EachEnv(f)) = Len(p) - 1
    BY <1>1, <1>3
  <2> QED BY <1>3, <1>6, <2>1, <2>2 DEF RestOf
<1> QED BY <1>3, <1>7, <1>8, <1>9, <1>10, EachEnvSet

-----------------------------------------------------------------------------
(* What a transaction sees, and how a read fills its snapshot.             *)

LEMMA SightSame ==
  ASSUME NEW r, NEW Q, \A q \in Q : Sees(r, q)' = Sees(r, q)
  PROVE  Sight(r, Q)' = Sight(r, Q)
  BY DEF Sight

LEMMA SightNone == \A r : Sight(r, {}) = NothingRead
  BY DEF Sight, NothingRead

LEMMA RememberParts ==
  ASSUME NEW A, NEW B, NEW C, NEW D, NEW x, NEW v, NEW s,
         s = [flag |-> A, config |-> B, rules |-> C, overrides |-> D]
  PROVE  /\ Remember(s, "flag", x, v)
              = [flag |-> [A EXCEPT ![x] = v], config |-> B, rules |-> C, overrides |-> D]
         /\ Remember(s, "config", x, v)
              = [flag |-> A, config |-> [B EXCEPT ![x] = v], rules |-> C, overrides |-> D]
         /\ Remember(s, "rules", x, v)
              = [flag |-> A, config |-> B, rules |-> [C EXCEPT ![x] = v], overrides |-> D]
         /\ Remember(s, "overrides", x, v)
              = [flag |-> A, config |-> B, rules |-> C, overrides |-> [D EXCEPT ![x] = v]]
<1>1. s = [flag |-> A, config |-> B, rules |-> C, overrides |-> D]
  OBVIOUS
<1>2. s["flag"] = A /\ s["config"] = B /\ s["rules"] = C /\ s["overrides"] = D
  BY <1>1
<1>3. \A a : [s EXCEPT !["flag"] = a] = [flag |-> a, config |-> B, rules |-> C, overrides |-> D]
  BY <1>1
<1>4. \A b : [s EXCEPT !["config"] = b] = [flag |-> A, config |-> b, rules |-> C, overrides |-> D]
  BY <1>1
<1>5. \A c : [s EXCEPT !["rules"] = c] = [flag |-> A, config |-> B, rules |-> c, overrides |-> D]
  BY <1>1
<1>6. \A d : [s EXCEPT !["overrides"] = d] = [flag |-> A, config |-> B, rules |-> C, overrides |-> d]
  BY <1>1
<1>7. Remember(s, "flag", x, v) = [flag |-> [A EXCEPT ![x] = v], config |-> B, rules |-> C, overrides |-> D]
  BY <1>2, <1>3 DEF Remember
<1>8. Remember(s, "config", x, v) = [flag |-> A, config |-> [B EXCEPT ![x] = v], rules |-> C, overrides |-> D]
  BY <1>2, <1>4 DEF Remember
<1>9. Remember(s, "rules", x, v) = [flag |-> A, config |-> B, rules |-> [C EXCEPT ![x] = v], overrides |-> D]
  BY <1>2, <1>5 DEF Remember
<1>10. Remember(s, "overrides", x, v) = [flag |-> A, config |-> B, rules |-> C, overrides |-> [D EXCEPT ![x] = v]]
  BY <1>2, <1>6 DEF Remember
<1> QED BY <1>7, <1>8, <1>9, <1>10

LEMMA SightMore ==
  ASSUME NEW r, NEW Q, NEW q \in Query
  PROVE  Remember(Sight(r, Q), q[1], q[2], Sees(r, q)) = Sight(r, Q \cup {q})
<1> DEFINE A(P) == [f \in Flags |-> IF FlagQuery(f) \in P THEN Sees(r, FlagQuery(f)) ELSE None]
           B(P, t) == [x \in Refs |-> IF <<t, x>> \in P THEN Sees(r, <<t, x>>) ELSE None]
<1>1. \A P : Sight(r, P) = [flag |-> A(P), config |-> B(P, "config"), rules |-> B(P, "rules"),
                           overrides |-> B(P, "overrides")]
  BY DEF Sight
<1>2. PICK R, v : R = Q \cup {q} /\ v = Sees(r, q)
  OBVIOUS
<1>3. PICK a, b, c, d : a = A(Q) /\ b = B(Q, "config") /\ c = B(Q, "rules") /\ d = B(Q, "overrides")
  OBVIOUS
<1>4. PICK s : s = Sight(r, Q) /\ s = [flag |-> a, config |-> b, rules |-> c, overrides |-> d]
  BY <1>1, <1>3
<1>5. CASE q \in {"flag"} \X Flags
  <2>1. PICK f \in Flags : q = FlagQuery(f) /\ q[1] = "flag" /\ q[2] = f
    BY <1>5 DEF FlagQuery
  <2>2. A(R) = [a EXCEPT ![f] = v]
    BY <1>2, <1>3, <2>1 DEF FlagQuery
  <2>3. B(R, "config") = b /\ B(R, "rules") = c /\ B(R, "overrides") = d
    BY <1>2, <1>3, <2>1 DEF FlagQuery
  <2>4. Remember(s, "flag", f, v) = [flag |-> [a EXCEPT ![f] = v], config |-> b, rules |-> c, overrides |-> d]
    BY <1>4, RememberParts
  <2>5. Sight(r, R) = [flag |-> [a EXCEPT ![f] = v], config |-> b, rules |-> c, overrides |-> d]
    BY <1>1, <2>2, <2>3
  <2> QED BY <1>2, <1>4, <2>1, <2>4, <2>5
<1>6. CASE q \in {"config", "rules", "overrides"} \X Refs
  <2>1. PICK t \in {"config", "rules", "overrides"}, x \in Refs : q = <<t, x>> /\ q[1] = t /\ q[2] = x
    BY <1>6
  <2>2. \A f \in Flags : FlagQuery(f) # q
    BY <2>1 DEF FlagQuery
  <2>3. A(R) = a
    BY <1>2, <1>3, <2>2
  <2>4. B(R, t) = [B(Q, t) EXCEPT ![x] = v]
    <3>1. \A y \in Refs : <<t, y>> \in R <=> <<t, y>> \in Q \/ y = x
      BY <1>2, <2>1
    <3> QED BY <1>2, <2>1, <3>1
  <2>5. \A u \in {"config", "rules", "overrides"} : u # t => B(R, u) = B(Q, u)
    BY <1>2, <2>1
  <2>6. CASE t = "config"
    <3>1. B(R, "config") = [b EXCEPT ![x] = v] /\ B(R, "rules") = c /\ B(R, "overrides") = d
      BY <1>3, <2>4, <2>5, <2>6
    <3>2. Remember(s, "config", x, v)
            = [flag |-> a, config |-> [b EXCEPT ![x] = v], rules |-> c, overrides |-> d]
      BY <1>4, RememberParts
    <3>3. Sight(r, R) = [flag |-> a, config |-> [b EXCEPT ![x] = v], rules |-> c, overrides |-> d]
      BY <1>1, <2>3, <3>1
    <3> QED BY <1>2, <1>4, <2>1, <2>6, <3>2, <3>3
  <2>7. CASE t = "rules"
    <3>1. B(R, "config") = b /\ B(R, "rules") = [c EXCEPT ![x] = v] /\ B(R, "overrides") = d
      BY <1>3, <2>4, <2>5, <2>7
    <3>2. Remember(s, "rules", x, v)
            = [flag |-> a, config |-> b, rules |-> [c EXCEPT ![x] = v], overrides |-> d]
      BY <1>4, RememberParts
    <3>3. Sight(r, R) = [flag |-> a, config |-> b, rules |-> [c EXCEPT ![x] = v], overrides |-> d]
      BY <1>1, <2>3, <3>1
    <3> QED BY <1>2, <1>4, <2>1, <2>7, <3>2, <3>3
  <2>8. CASE t = "overrides"
    <3>1. B(R, "config") = b /\ B(R, "rules") = c /\ B(R, "overrides") = [d EXCEPT ![x] = v]
      BY <1>3, <2>4, <2>5, <2>8
    <3>2. Remember(s, "overrides", x, v)
            = [flag |-> a, config |-> b, rules |-> c, overrides |-> [d EXCEPT ![x] = v]]
      BY <1>4, RememberParts
    <3>3. Sight(r, R) = [flag |-> a, config |-> b, rules |-> c, overrides |-> [d EXCEPT ![x] = v]]
      BY <1>1, <2>3, <3>1
    <3> QED BY <1>2, <1>4, <2>1, <2>8, <3>2, <3>3
  <2> QED BY <2>1, <2>6, <2>7, <2>8
<1> QED BY <1>5, <1>6 DEF Query

LEMMA FirstMore ==
  ASSUME NEW p, NEW n \in Nat
  PROVE  First(p, 0) = {} /\ First(p, n + 1) = First(p, n) \cup {p[n + 1]}
<1>1. 1 .. n + 1 = (1 .. n) \cup {n + 1} /\ 1 .. 0 = {}
  OBVIOUS
<1> QED BY <1>1 DEF First

LEMMA StartsAgain ==
  ASSUME NEW r, NEW p, todo'[r] = p, seen'[r] = NothingRead, Len(p) \in Nat
  PROVE  Progress(r, p)'
<1>1. RestOf(p, p, 0)
  <2>1. \A i \in DOMAIN p : p[0 + i] = p[i]
    <3>1. ASSUME NEW i \in DOMAIN p PROVE p[0 + i] = p[i]
      OBVIOUS
    <3> QED BY <3>1
  <2> QED BY <2>1 DEF RestOf
<1>2. NothingRead = Sight(r, First(p, 0))'
  <2>1. First(p, 0) = {}
    BY DEF First
  <2> QED BY <2>1 DEF Sight, NothingRead
<1>3. 0 \in 0 .. Len(p)
  OBVIOUS
<1> QED BY <1>1, <1>2, <1>3 DEF Progress

(* One more SELECT of a read: it goes on along its plan, unless it found no flag. *)
LEMMA SelectProgress ==
  ASSUME StoreInv, NEW r \in Reqs, Select(r), NEW p, NEW f, PlanOf(p, f), op[r].flag = f,
         Progress(r, p),
         Sees(r, FlagQuery(f)) # None =>
           \A i \in 2 .. Len(p) : p[i][1] = "config" => Sees(r, p[i]) # None
  PROVE  Progress(r, p)' \/ (Absent(r)' /\ Sees(r, FlagQuery(f)) = None)
<1>1. PICK n \in 0 .. Len(p) : /\ RestOf(todo[r], p, n) /\ seen[r] = Sight(r, First(p, n))
                               /\ n > 0 => Sees(r, FlagQuery(f)) # None
  BY DEF Progress
<1>2. /\ UNCHANGED <<committed, op, w>>
      /\ todo[r] \in Seq(Query) /\ todo[r] # <<>> /\ seen \in [Reqs -> Snapshot]
      /\ todo \in [Reqs -> Seq(Query)]
  BY DEF Select, StoreInv, TypeOK
<1>3. /\ Head(todo[r]) = todo[r][1] /\ Len(todo[r]) \in Nat \ {0} /\ DOMAIN todo[r] = 1 .. Len(todo[r])
      /\ Len(Tail(todo[r])) = Len(todo[r]) - 1 /\ Tail(todo[r]) \in Seq(Query)
      /\ \A i \in 1 .. Len(Tail(todo[r])) : Tail(todo[r])[i] = todo[r][i + 1]
  BY <1>2, HeadTailProperties, LenProperties, EmptySeq
<1>4. n \in Nat /\ Len(p) \in Nat /\ n + 1 \in 1 .. Len(p) /\ Len(todo[r]) = Len(p) - n
  BY <1>1, <1>3, LenProperties DEF RestOf, PlanOf
<1>5. Head(todo[r]) = p[n + 1] /\ p[n + 1] \in Query
  <2>1. 1 \in DOMAIN todo[r]
    BY <1>3
  <2>2. todo[r][1] = p[n + 1]
    BY <1>1, <2>1 DEF RestOf
  <2>3. p[n + 1] \in Query
    BY <1>4, LenProperties, ElementOfSeq DEF PlanOf
  <2> QED BY <1>3, <2>2, <2>3
<1>6. RestOf(Tail(todo[r]), p, n + 1)
  <2>1. DOMAIN Tail(todo[r]) = 1 .. Len(Tail(todo[r]))
    BY <1>3, LenProperties
  <2>2. ASSUME NEW i \in 1 .. Len(Tail(todo[r])) PROVE Tail(todo[r])[i] = p[(n + 1) + i]
    <3>1. i + 1 \in DOMAIN todo[r] /\ n + (i + 1) = (n + 1) + i
      BY <1>3, <1>4
    <3> QED BY <1>1, <1>3, <3>1 DEF RestOf
  <2> QED BY <1>3, <1>4, <2>1, <2>2 DEF RestOf
<1>7. PICK q \in Query : q = p[n + 1]
  BY <1>5
<1>8. /\ seen'[r] = Remember(seen[r], q[1], q[2], Sees(r, q))
      /\ todo'[r] = Rest(q, Sees(r, q), Tail(todo[r]))
  BY <1>2, <1>5, <1>7 DEF Select, Remember
<1>9. First(p, n + 1) = First(p, n) \cup {q} /\ First(p, 0) = {}
  BY <1>4, <1>7, FirstMore
<1>10. seen'[r] = Sight(r, First(p, n + 1))
  BY <1>1, <1>8, <1>9, SightMore
<1>11. \A s : Sees(r, s)' = Sees(r, s)
  BY <1>2 DEF committed, Sees, RowsSeen, On, Ref
<1>12. seen'[r] = Sight(r, First(p, n + 1))'
  BY <1>10, <1>11, SightSame
<1>13. q[1] = "flag" <=> n = 0
  <2>1. n = 0 => q = FlagQuery(f)
    BY <1>7 DEF PlanOf
  <2>2. n # 0 => n + 1 \in 2 .. Len(p)
    BY <1>4
  <2> QED BY <1>7, <2>1, <2>2 DEF PlanOf, FlagQuery
<1>14. ASSUME Sees(r, FlagQuery(f)) # None PROVE Progress(r, p)'
  <2>1. todo'[r] = Tail(todo[r])
    <3>1. CASE n = 0
      <4>1. q = FlagQuery(f)
        BY <1>7, <3>1 DEF PlanOf
      <4> QED BY <1>8, <1>14, <4>1 DEF Rest, FlagQuery
    <3>2. CASE n # 0
      <4>1. n + 1 \in 2 .. Len(p)
        BY <1>4, <3>2
      <4>2. q[1] # "flag" /\ (q[1] = "config" => Sees(r, q) # None)
        BY <1>7, <1>14, <4>1 DEF PlanOf
      <4> QED BY <1>8, <4>2 DEF Rest
    <3> QED BY <3>1, <3>2
  <2>2. n + 1 \in 0 .. Len(p) /\ RestOf(todo'[r], p, n + 1)
    BY <1>4, <1>6, <2>1
  <2>3. Sees(r, FlagQuery(op[r].flag))' # None
    BY <1>2, <1>11, <1>14
  <2> QED BY <1>12, <2>2, <2>3 DEF Progress
<1>15. ASSUME Sees(r, FlagQuery(f)) = None PROVE Absent(r)'
  <2>1. n = 0 /\ q = FlagQuery(f)
    BY <1>1, <1>4, <1>7, <1>15 DEF PlanOf
  <2>2. todo'[r] = <<>>
    BY <1>8, <1>15, <2>1 DEF Rest, FlagQuery
  <2>3. flagRow[f] = None
    BY <1>15 DEF Sees, FlagQuery
  <2>4. First(p, n + 1) = {FlagQuery(f)}
    BY <1>9, <2>1
  <2>5. Sight(r, {FlagQuery(f)}) = NothingRead
    BY <1>15 DEF Sight, NothingRead, FlagQuery
  <2>6. seen'[r] = NothingRead
    BY <1>10, <2>4, <2>5
  <2> QED BY <1>2, <2>2, <2>3, <2>6 DEF Absent, committed
<1> QED BY <1>14, <1>15

-----------------------------------------------------------------------------
(* What the others' steps leave to a mutation under way: all it keeps, and *)
(* every row of its flag.                                                  *)

Untouched(r) ==
  /\ op'[r] = op[r] /\ pc'[r] = pc[r] /\ todo'[r] = todo[r] /\ seen'[r] = seen[r]
  /\ before'[r] = before[r] /\ left'[r] = left[r] /\ target'[r] = target[r]
  /\ w'[r] = w[r] /\ reply'[r] = reply[r]

RowsOfFlagStay(f) ==
  /\ flagRow'[f] = flagRow[f]
  /\ \A e \in Envs : configRow'[<<f, e>>] = configRow[<<f, e>>]
  /\ \A t \in Tables, e \in Envs : child'[t][<<f, e>>] = child[t][<<f, e>>]

LEMMA StepsLeaveOthers ==
  ASSUME StoreInv, NEW r \in Reqs, StepOf(r), NEW s \in Reqs \ {r}
  PROVE  Untouched(s)
<1>1. LocalTypes
  BY SplitTypes DEF StoreInv
<1>2. CASE GivesUp(r) \/ Commits(r)
  BY <1>1, <1>2 DEF GivesUp, Commits, Rollback, Finish, LocalTypes, Untouched
<1>3. CASE \E o \in Workload[r] : Receive(r, o)
  BY <1>1, <1>3 DEF Receive, LocalTypes, Untouched
<1>4. CASE Select(r)
  BY <1>1, <1>4 DEF Select, LocalTypes, Untouched
<1>5. CASE Recheck(r) \/ StartDelete(r) \/ FinishDelete(r) \/ InsertRow(r)
  BY <1>1, <1>5 DEF Recheck, StartDelete, FinishDelete, InsertRow, LocalTypes, Untouched
<1>6. CASE UpdateConfig(r) \/ BumpVersion(r) \/ ReadCreated(r) \/ StampArchive(r)
  BY <1>1, <1>6 DEF UpdateConfig, BumpVersion, ReadCreated, StampArchive, ReadAfter, LocalTypes, Untouched
<1>7. CASE InsertFlag(r) \/ InsertConfig(r) \/ RecordAudit(r)
  BY <1>1, <1>7 DEF InsertFlag, InsertConfig, RecordAudit, LocalTypes, Untouched
<1>8. CASE \/ AnswerRead(r) \/ NotFoundConfig(r) \/ VersionConflict(r) \/ UniqueViolation(r)
           \/ DuplicateKey(r) \/ NotFoundFlag(r) \/ ConnectionLost(r) \/ DeadlockDetected(r)
  BY <1>2, <1>8, RollbackGivesUp
<1>9. CASE Commit(r) \/ CommitUnacknowledged(r)
  BY <1>2, <1>9, NewVersionType DEF Commit, CommitUnacknowledged, Commits
<1> QED BY <1>3, <1>4, <1>5, <1>6, <1>7, <1>8, <1>9 DEF StepOf, Statement

LEMMA StepsLeaveFlags ==
  ASSUME StoreInv, Exclusive, NEW r \in Reqs, StepOf(r), NEW s \in Reqs \ {r}, MutatorActive(s)
  PROVE  RowsOfFlagStay(op[s].flag)
<1> DEFINE f == op[s].flag
<1>1. op[s] \in Op /\ f \in Flags
  BY OpFields DEF StoreInv, Protocol, MutatorActive, Active
<1>2. CASE GoesOn(r) \/ GivesUp(r)
  BY <1>2 DEF GoesOn, GivesUp, Rollback, committed, RowsOfFlagStay
<1>3. CASE Commits(r)
  <2>1. MutatorActive(r) /\ op[r] \in Op
    BY <1>3 DEF Commits, StoreInv, Protocol, MutatorActive, Active, Mutates
  <2>2. op[r].flag # f
    BY <2>1 DEF Exclusive
  <2>3. flagRow'[f] = flagRow[f]
    BY <1>1, <1>3, <2>2 DEF Commits, Apply, StoreInv, TypeOK
  <2>4. ASSUME NEW e \in Envs
        PROVE  /\ configRow'[<<f, e>>] = configRow[<<f, e>>]
               /\ \A t \in Tables : child'[t][<<f, e>>] = child[t][<<f, e>>]
    <3>1. <<f, e>> \in Refs /\ <<f, e>>[1] = f
      BY <1>1 DEF Refs
    <3>2. configRow'[<<f, e>>] = configRow[<<f, e>>]
      BY <1>3, <2>2, <3>1 DEF Commits, Apply
    <3>3. Ref(r) # <<f, e>>
      BY <2>2 DEF Ref
    <3>4. \A t \in Tables : child'[t][<<f, e>>] = RowsSeen(r, t, <<f, e>>)
      BY <1>3, <3>1 DEF Commits, Apply
    <3> QED BY <3>2, <3>3, <3>4 DEF RowsSeen, On
  <2> QED BY <2>3, <2>4 DEF RowsOfFlagStay
<1> QED BY <1>2, <1>3, StepShapes

-----------------------------------------------------------------------------
(* What is said of a mutation under way depends on nothing else.           *)

AboutFlag(Q, f) ==
  \A q \in Q : q = FlagQuery(f) \/ \E t \in ConfigTables, e \in Envs : q = <<t, <<f, e>>>>

LEMMA PlanAbout ==
  ASSUME NEW p, NEW f \in Flags, PlanOf(p, f), NEW n \in 0 .. Len(p)
  PROVE  AboutFlag(First(p, n), f)
<1> SUFFICES ASSUME NEW i \in 1 .. n
             PROVE  p[i] = FlagQuery(f) \/ \E t \in ConfigTables, e \in Envs : p[i] = <<t, <<f, e>>>>
  BY DEF AboutFlag, First
<1>1. Len(p) \in Nat /\ i \in 1 .. Len(p) /\ (i # 1 => i \in 2 .. Len(p))
  BY LenProperties DEF PlanOf
<1>2. p[i] \in Query
  BY <1>1, LenProperties, ElementOfSeq DEF PlanOf
<1>3. CASE i = 1
  BY <1>3 DEF PlanOf
<1>4. CASE i # 1
  <2>1. p[i][1] # "flag" /\ p[i][2][1] = f
    BY <1>1, <1>4 DEF PlanOf
  <2>2. p[i] \in ConfigTables \X Refs
    BY <1>2, <2>1 DEF Query, ConfigTables
  <2>3. p[i] = <<p[i][1], <<f, p[i][2][2]>>>> /\ p[i][1] \in ConfigTables /\ p[i][2][2] \in Envs
    BY <2>1, <2>2 DEF Refs
  <2> QED BY <2>3
<1> QED BY <1>3, <1>4

LEMMA AggregateAbout ==
  ASSUME NEW o \in Op, OnConfig(o) \/ o.kind \in {"create", "archive"}
  PROVE  AboutFlag(Aggregate(o), o.flag)
<1>1. ASSUME NEW e \in Envs PROVE AboutFlag(ConfigQueries(o.flag, e), o.flag)
  <2>1. DOMAIN Details = {1, 2, 3}
    BY DEF Details
  <2>2. ConfigQueries(o.flag, e)
          = {<<"config", <<o.flag, e>>>>, <<"rules", <<o.flag, e>>>>, <<"overrides", <<o.flag, e>>>>}
    BY <2>1 DEF ConfigQueries, Details
  <2> QED BY <2>2 DEF AboutFlag, ConfigTables
<1>2. OnConfig(o) => o.env \in Envs
  BY OpFields
<1> QED BY <1>1, <1>2 DEF Aggregate, AboutFlag

(* The instance of the contract speaks of the same data. *)
LEMMA ContractData ==
  /\ \A f : Contract!FlagQuery(f) = FlagQuery(f)
  /\ \A f, e : Contract!ConfigQueries(f, e) = ConfigQueries(f, e)
  /\ Contract!Refs = Refs /\ Contract!Envs = Envs /\ Contract!Tables = Tables
  /\ Contract!NewFlagRow = NewFlagRow /\ Contract!NewConfigRow = NewConfigRow
  /\ Contract!NoReply = NoReply /\ Contract!Status = Status
  /\ \A o : Contract!OnConfig(o) = OnConfig(o) /\ Contract!Mutates(o) = Mutates(o)
  /\ \A r, body : Contract!RowsOf(r, body) = RowsOf(r, body)
  /\ \A body : Contract!KeysUnique(body) = KeysUnique(body)
  /\ \A c, patch : Contract!Patched(c, patch) = Patched(c, patch)
<1>1. Contract!Envs = Envs /\ Contract!Tables = Tables /\ Contract!Details = Details
  BY DEF Contract!Envs, Envs, Contract!Tables, Tables, Contract!Details, Details
<1>2. Contract!Refs = Refs
  BY <1>1 DEF Contract!Refs, Refs
<1>3. /\ \A f : Contract!FlagQuery(f) = FlagQuery(f)
      /\ \A f, e : Contract!ConfigQueries(f, e) = ConfigQueries(f, e)
  BY <1>1 DEF Contract!FlagQuery, FlagQuery, Contract!ConfigQueries, ConfigQueries
<1>4. /\ Contract!NewFlagRow = NewFlagRow /\ Contract!NewConfigRow = NewConfigRow
      /\ Contract!NoReply = NoReply /\ Contract!Status = Status
  BY DEF Contract!NewFlagRow, NewFlagRow, Contract!NewConfigRow, NewConfigRow, Contract!NoReply,
     NoReply, Contract!Status, Status
<1>5. \A o : Contract!OnConfig(o) = OnConfig(o)
  BY <1>1 DEF Contract!OnConfig, OnConfig
<1>6. \A o : Contract!Mutates(o) = Mutates(o)
  BY <1>5 DEF Contract!Mutates, Mutates
<1>7. /\ \A r, body : Contract!RowsOf(r, body) = RowsOf(r, body)
      /\ \A body : Contract!KeysUnique(body) = KeysUnique(body)
      /\ \A c, patch : Contract!Patched(c, patch) = Patched(c, patch)
  BY DEF Contract!RowsOf, RowsOf, Contract!KeysUnique, KeysUnique, Contract!Patched, Patched
<1> QED BY <1>1, <1>2, <1>3, <1>4, <1>5, <1>6, <1>7

LEMMA StoredRows == \A Q : Contract!Stored(Q) = Rows(Q) /\ Contract!Stored(Q)' = Rows(Q)'
  BY ContractData DEF Contract!Stored, Rows

LEMMA SightOfFlag ==
  ASSUME NEW r, NEW f \in Flags, NEW Q, AboutFlag(Q, f),
         op'[r] = op[r], w'[r].flag = w[r].flag, w'[r].cfg = w[r].cfg,
         w'[r].del = w[r].del, w'[r].ins = w[r].ins, RowsOfFlagStay(f)
  PROVE  /\ Sight(r, Q)' = Sight(r, Q) /\ Rows(Q)' = Rows(Q)
         /\ Sees(r, FlagQuery(f))' = Sees(r, FlagQuery(f))
<1>1. Sees(r, FlagQuery(f))' = Sees(r, FlagQuery(f))
  BY DEF Sees, FlagQuery, RowsOfFlagStay
<1>2. ASSUME NEW t \in ConfigTables, NEW e \in Envs
      PROVE  Sees(r, <<t, <<f, e>>>>)' = Sees(r, <<t, <<f, e>>>>)
  <2>1. CASE t = "config"
    BY <2>1 DEF Sees, RowsOfFlagStay
  <2>2. CASE t \in {"rules", "overrides"}
    BY <2>2 DEF Sees, RowsSeen, On, Ref, RowsOfFlagStay, Tables
  <2> QED BY <2>1, <2>2 DEF ConfigTables
<1>3. Sight(r, Q)' = Sight(r, Q)
  BY <1>1, <1>2, SightSame DEF AboutFlag
<1>4. Rows(Q)' = Rows(Q)
  <2>1. ASSUME NEW g \in Flags, FlagQuery(g) \in Q PROVE flagRow'[g] = flagRow[g]
    <3>1. g = f
      BY <2>1 DEF AboutFlag, FlagQuery, ConfigTables
    <3> QED BY <3>1 DEF RowsOfFlagStay
  <2>2. ASSUME NEW x \in Refs, NEW t \in ConfigTables, <<t, x>> \in Q
        PROVE  \E e \in Envs : x = <<f, e>>
    BY <2>2 DEF AboutFlag, FlagQuery, ConfigTables
  <2>3. \A x \in Refs : <<"config", x>> \in Q => configRow'[x] = configRow[x]
    BY <2>2 DEF RowsOfFlagStay, ConfigTables
  <2>4. \A x \in Refs : <<"rules", x>> \in Q => child'["rules"][x] = child["rules"][x]
    BY <2>2 DEF RowsOfFlagStay, ConfigTables, Tables
  <2>5. \A x \in Refs : <<"overrides", x>> \in Q => child'["overrides"][x] = child["overrides"][x]
    BY <2>2 DEF RowsOfFlagStay, ConfigTables, Tables
  <2> QED BY <2>1, <2>3, <2>4, <2>5 DEF Rows
<1> QED BY <1>1, <1>3, <1>4

LEMMA ProgressKept ==
  ASSUME NEW r, NEW f \in Flags, NEW p, PlanOf(p, f), op[r].flag = f, Progress(r, p),
         op'[r] = op[r], todo'[r] = todo[r], seen'[r] = seen[r],
         w'[r].flag = w[r].flag, w'[r].cfg = w[r].cfg,
         w'[r].del = w[r].del, w'[r].ins = w[r].ins, RowsOfFlagStay(f)
  PROVE  Progress(r, p)'
<1>1. PICK n \in 0 .. Len(p) : /\ RestOf(todo[r], p, n) /\ seen[r] = Sight(r, First(p, n))
                               /\ n > 0 => Sees(r, FlagQuery(f)) # None
  BY DEF Progress
<1>2. AboutFlag(First(p, n), f)
  BY PlanAbout
<1>3. Sight(r, First(p, n))' = Sight(r, First(p, n)) /\ Sees(r, FlagQuery(f))' = Sees(r, FlagQuery(f))
  BY <1>2, SightOfFlag
<1>4. /\ RestOf(todo'[r], p, n) /\ seen'[r] = Sight(r, First(p, n))'
      /\ n > 0 => Sees(r, FlagQuery(op[r].flag))' # None
  BY <1>1, <1>3
<1> QED BY <1>4 DEF Progress

LEMMA WholePlans ==
  ASSUME NEW o \in Op, OnConfig(o) \/ o.kind \in {"create", "archive"}
  PROVE  /\ PlanOf(WholePlan(o), o.flag)
         /\ First(WholePlan(o), Len(WholePlan(o))) = Aggregate(o)
<1>1. o.flag \in Flags /\ (OnConfig(o) => o.env \in Envs)
  BY OpFields
<1>2. CASE OnConfig(o)
  BY <1>1, <1>2, KeyPlan DEF WholePlan, Aggregate
<1>3. CASE ~OnConfig(o)
  BY <1>1, <1>3, WholeFlagPlan DEF WholePlan, Aggregate
<1> QED BY <1>2, <1>3

LEMMA MutatorFacts ==
  ASSUME StoreInv, NEW r \in Reqs, MutatorActive(r)
  PROVE  /\ op[r] \in Op /\ op[r].flag \in Flags
         /\ OnConfig(op[r]) \/ op[r].kind \in {"create", "archive"}
         /\ OnConfig(op[r]) => op[r].env \in Envs /\ op[r].expected \in Nat
                               /\ Ref(r) = <<op[r].flag, op[r].env>> /\ Ref(r) \in Refs
         /\ \A e \in Envs : <<op[r].flag, e>> \in Refs
         /\ op[r].kind = "archive" => ~OnConfig(op[r])
         /\ op[r].kind = "create" => ~OnConfig(op[r])
<1>1. op[r] \in Op
  BY DEF StoreInv, Protocol, MutatorActive, Active
<1>2. OnConfig(op[r]) \/ op[r].kind \in {"create", "archive"}
  BY DEF MutatorActive, Mutates
<1>3. op[r].kind \in {"create", "archive"} => ~OnConfig(op[r])
  BY DEF OnConfig, Tables
<1>4. op[r].flag \in Flags /\ (OnConfig(op[r]) => op[r].env \in Envs /\ op[r].expected \in Nat)
  BY <1>1, OpFields
<1> QED BY <1>1, <1>2, <1>3, <1>4 DEF Ref, Refs

LEMMA TurnOfOthers ==
  ASSUME StoreInv, TurnInv, NEW r \in Reqs, StepOf(r), NEW s \in Reqs \ {r}
  PROVE  Turn(s)'
<1>1. Untouched(s) /\ Turn(s)
  BY StepsLeaveOthers DEF TurnInv
<1>2. Unanswered(s)'
  BY <1>1 DEF Untouched, Turn, Unanswered
<1>3. ASSUME MutatorActive(s) PROVE Reading(s)' /\ Writing(s)' /\ Auditing(s)'
  <2> DEFINE f == op[s].flag
  <2>1. PICK o \in Op : o = op[s]
    BY <1>3, MutatorFacts
  <2>2. /\ o.flag \in Flags /\ (OnConfig(o) \/ o.kind \in {"create", "archive"})
        /\ OnConfig(o) => o.env \in Envs /\ Ref(s) = <<o.flag, o.env>> /\ Ref(s) \in Refs
        /\ op'[s] = o /\ Ref(s)' = Ref(s)
    BY <1>1, <1>3, <2>1, MutatorFacts DEF Untouched, Ref
  <2>3. RowsOfFlagStay(o.flag)
    BY <1>3, <2>1, StepsLeaveFlags DEF TurnInv
  <2>4. Reading(s) /\ Writing(s) /\ Auditing(s)
    BY <1>1, <1>3 DEF Turn
  <2>5. /\ OnConfig(o) => configRow'[Ref(s)] = configRow[Ref(s)]
        /\ OnConfig(o) /\ o.kind \in Tables => MyRows(s)' = MyRows(s)
        /\ flagRow'[o.flag] = flagRow[o.flag]
    BY <2>1, <2>2, <2>3 DEF RowsOfFlagStay, MyRows
  <2>6. Reading(s)'
    <3>1. Absent(s) => Absent(s)'
      BY <1>1, <2>1, <2>5 DEF Untouched, Absent
    <3>2. ASSUME NEW p, PlanOf(p, o.flag), Progress(s, p) PROVE Progress(s, p)'
      BY <1>1, <2>1, <2>2, <2>3, <3>2, ProgressKept DEF Untouched
    <3>3. PICK p : p = WholePlan(o)
      OBVIOUS
    <3>4. Progress(s, p) => Progress(s, p)'
      BY <2>2, <3>2, <3>3, WholePlans
    <3>5. p = WholePlan(op[s]) /\ p = WholePlan(op'[s])
      BY <2>1, <2>2, <3>3
    <3>6. PICK k : k = CheckPlan(<<o.flag, o.env>>)
      OBVIOUS
    <3>7. OnConfig(o) => (Progress(s, k) => Progress(s, k)')
      BY <2>2, <3>2, <3>6, ShortPlan
    <3>8. OnConfig(o) => k = CheckPlan(Ref(s)) /\ k = CheckPlan(Ref(s)')
      BY <2>2, <3>6
    <3>9. pc[s] = "check" => OnConfig(o)
      BY <2>1 DEF StoreInv, Protocol
    <3>10. pc'[s] = pc[s] /\ todo'[s] = todo[s]
      BY <1>1 DEF Untouched
    <3>11. pc'[s] = "before" => Progress(s, WholePlan(op[s]))' \/ Absent(s)'
      BY <2>4, <3>1, <3>4, <3>5, <3>10 DEF Reading
    <3>12. pc'[s] = "check" => Progress(s, CheckPlan(Ref(s)))' \/ Absent(s)'
      BY <2>4, <3>1, <3>7, <3>8, <3>9, <3>10 DEF Reading
    <3>13. pc'[s] = "after" => Progress(s, WholePlan(op[s]))'
      BY <2>4, <3>4, <3>5, <3>10 DEF Reading
    <3> QED BY <2>4, <3>10, <3>11, <3>12, <3>13 DEF Reading
  <2>7. Writing(s)'
    <3>1. /\ pc'[s] = pc[s] /\ left'[s] = left[s] /\ w'[s] = w[s] /\ target'[s] = target[s]
          /\ Found(s)' = Found(s) /\ op'[s] = op[s] /\ Inserted(s)' = Inserted(s)
      BY <1>1, <2>2 DEF Untouched, Found, Inserted
    <3>2. pc[s] \in {"deleting", "insertRow"} => OnConfig(o) /\ o.kind \in Tables
      BY <2>1 DEF StoreInv, Protocol, OnConfig
    <3>3. pc[s] \in {"after", "commit"} => Written(s)'
      <4>1. ASSUME OnConfig(o), NEW c, Bumped(s, c) PROVE Bumped(s, c)'
        BY <2>2, <2>5, <3>1, <4>1 DEF Bumped
      <4>2. ASSUME pc[s] \in {"after", "commit"} PROVE Written(s)
        BY <2>4, <4>2 DEF Writing
      <4>3. CASE o.kind = "create"
        BY <2>1, <3>1, <4>2, <4>3 DEF Written
      <4>4. CASE o.kind = "archive"
        BY <2>1, <3>1, <4>2, <4>4 DEF Written
      <4>5. CASE o.kind = "config"
        <5>1. OnConfig(o)
          BY <4>5 DEF OnConfig
        <5>2. configRow'[Ref(s)'] = configRow[Ref(s)]
          BY <2>2, <2>5, <5>1
        <5> QED BY <2>1, <2>2, <3>1, <4>2, <4>5, <5>2 DEF Written, Bumped
      <4>6. CASE o.kind \in Tables
        <5>1. OnConfig(o)
          BY <4>6 DEF OnConfig
        <5>2. configRow'[Ref(s)'] = configRow[Ref(s)]
          BY <2>2, <2>5, <5>1
        <5>3. MyRows(s)' = MyRows(s)
          BY <2>5, <4>6, <5>1
        <5> QED BY <2>1, <2>2, <3>1, <4>2, <4>6, <5>2, <5>3 DEF Written, Bumped, Tables
      <4> QED BY <2>2, <4>3, <4>4, <4>5, <4>6 DEF OnConfig
    <3> QED BY <2>1, <2>2, <2>4, <2>5, <3>1, <3>2, <3>3 DEF Writing
  <2>8. Auditing(s)'
    <3>1. AboutFlag(Aggregate(o), o.flag)
      BY <2>2, AggregateAbout
    <3>2. PICK Q : Q = Aggregate(o)
      OBVIOUS
    <3>3. Sight(s, Q)' = Sight(s, Q) /\ Rows(Q)' = Rows(Q)
      BY <1>1, <2>2, <2>3, <3>1, <3>2, SightOfFlag DEF Untouched
    <3>4. Q = Aggregate(op[s]) /\ Q = Aggregate(op'[s])
      BY <2>1, <2>2, <3>2
    <3>5. /\ Rows(Aggregate(op[s]))' = Rows(Aggregate(op[s]))
          /\ Sight(s, Aggregate(op[s]))' = Sight(s, Aggregate(op[s]))
      BY <3>3, <3>4
    <3>6. pc'[s] = pc[s] /\ op'[s] = op[s] /\ before'[s] = before[s] /\ w'[s] = w[s]
      BY <1>1 DEF Untouched
    <3> QED BY <2>1, <2>2, <2>4, <2>5, <3>5, <3>6 DEF Auditing
  <2> QED BY <2>6, <2>7, <2>8
<1>4. MutatorActive(s)' => MutatorActive(s)
  BY <1>1 DEF Untouched, MutatorActive, Active
<1> QED BY <1>2, <1>3, <1>4 DEF Turn

-----------------------------------------------------------------------------
(* The steps of a mutation itself.                                         *)

LEMMA SightClean ==
  ASSUME NEW r, w[r] = NoWrites
  PROVE  \A Q : Sight(r, Q) = Rows(Q)
<1>1. \A f \in Flags : Sees(r, FlagQuery(f)) = flagRow[f]
  BY DEF Sees, FlagQuery, NoWrites
<1>2. \A x \in Refs : Sees(r, <<"config", x>>) = configRow[x]
  BY DEF Sees, NoWrites, Refs
<1>3. \A x \in Refs, t \in {"rules", "overrides"} : Sees(r, <<t, x>>) = child[t][x]
  BY DEF Sees, RowsSeen, NoWrites
<1> QED BY <1>1, <1>2, <1>3 DEF Sight, Rows

(* Wherever a transaction reads a flag it finds the configurations of it. *)
LEMMA ReadsFind ==
  ASSUME StoreInv, NEW r \in Reqs, MutatorActive(r), pc[r] \in {"before", "check", "after"}
  PROVE  /\ pc[r] = "after" => Sees(r, FlagQuery(op[r].flag)) # None
         /\ Sees(r, FlagQuery(op[r].flag)) # None =>
              \A e \in Envs : Sees(r, <<"config", <<op[r].flag, e>>>>) # None
<1> DEFINE f == op[r].flag
<1>1. f \in Flags /\ \A e \in Envs : <<f, e>> \in Refs
  BY MutatorFacts
<1>2. /\ Sees(r, FlagQuery(f)) = IF w[r].flag # None THEN w[r].flag ELSE flagRow[f]
      /\ \A e \in Envs : Sees(r, <<"config", <<f, e>>>>)
                           = IF w[r].cfg[e] # None THEN w[r].cfg[e] ELSE configRow[<<f, e>>]
  BY DEF Sees, FlagQuery
<1>3. ASSUME flagRow[f] # None PROVE \A e \in Envs : Sees(r, <<"config", <<f, e>>>>) # None
  BY <1>1, <1>2, <1>3 DEF StoreInv, WholeFlags
<1>4. CASE pc[r] \in {"before", "check"}
  <2>1. w[r].flag = None
    BY <1>4 DEF StoreInv, Protocol, NoWrites
  <2> QED BY <1>2, <1>3, <1>4, <2>1
<1>5. CASE pc[r] = "after"
  <2>1. CASE w[r].flag # None /\ \A e \in Envs : w[r].cfg[e] # None
    BY <1>2, <2>1
  <2>2. CASE flagRow[f] # None
    BY <1>2, <1>3, <2>2
  <2>3. CASE OnConfig(op[r]) /\ configRow[Ref(r)] # None
    <3>1. flagRow[f] # None
      BY <1>1, <2>3, MutatorFacts DEF StoreInv, WholeFlags
    <3> QED BY <1>2, <1>3, <3>1
  <2> QED BY <1>5, <2>1, <2>2, <2>3 DEF StoreInv, Protocol
<1> QED BY <1>4, <1>5

LEMMA WritingKept ==
  ASSUME NEW r, Writing(r), pc[r] \notin {"deleting", "insertRow"} \/ seen'[r] = seen[r],
         op'[r] = op[r], pc'[r] = pc[r], left'[r] = left[r], target'[r] = target[r],
         w'[r] = w[r], UNCHANGED committed
  PROVE  Writing(r)'
<1>1. Ref(r)' = Ref(r) /\ MyRows(r)' = MyRows(r) /\ Inserted(r)' = Inserted(r)
  BY DEF Ref, MyRows, Inserted, committed
<1>2. pc[r] \in {"deleting", "insertRow"} => Found(r)' = Found(r)
  BY <1>1 DEF Found
<1>3. Written(r)' = Written(r)
  BY <1>1 DEF Written, Bumped, committed
<1>4. configRow'[Ref(r)'] = configRow[Ref(r)]
  BY <1>1 DEF committed
<1> QED BY <1>1, <1>2, <1>3, <1>4 DEF Writing

LEMMA AuditingKept ==
  ASSUME NEW r, Auditing(r), op'[r] = op[r], pc'[r] = pc[r], before'[r] = before[r],
         w'[r] = w[r], UNCHANGED committed
  PROVE  Auditing(r)'
<1>1. \A q : Sees(r, q)' = Sees(r, q)
  BY DEF committed, Sees, RowsSeen, On, Ref
<1>2. Sight(r, Aggregate(op[r]))' = Sight(r, Aggregate(op[r]))
  BY <1>1 DEF Sight, Aggregate
<1>3. Rows(Aggregate(op[r]))' = Rows(Aggregate(op[r])) /\ configRow'[Ref(r)'] = configRow[Ref(r)]
  BY DEF Rows, Aggregate, committed, Ref
<1> QED BY <1>2, <1>3 DEF Auditing

LEMMA SelectTurn ==
  ASSUME StoreInv, NEW r \in Reqs, Turn(r), Select(r)
  PROVE  Turn(r)'
<1>1. /\ UNCHANGED <<committed, op, pc, before, left, target, w, reply>> /\ todo[r] # <<>>
  BY DEF Select
<1>2. Unanswered(r)'
  BY <1>1 DEF Turn, Unanswered
<1>3. ASSUME MutatorActive(r) PROVE Reading(r)' /\ Writing(r)' /\ Auditing(r)'
  <2>1. Reading(r) /\ Writing(r) /\ Auditing(r) /\ ~Absent(r)
    BY <1>1, <1>3 DEF Turn, Absent
  <2>2. pc[r] \notin {"deleting", "insertRow", "insertFlag", "insertConfig", "commit"}
    BY <1>1, <2>1 DEF Reading
  <2>3. Writing(r)'
    BY <1>1, <2>1, <2>2, WritingKept
  <2>4. Auditing(r)'
    BY <1>1, <2>1, AuditingKept
  <2>5. PICK f \in Flags : f = op[r].flag
    BY <1>3, MutatorFacts
  <2>6. PICK o \in Op : o = op[r]
    BY <1>3, MutatorFacts
  <2>7. ASSUME NEW p, PlanOf(p, f), Progress(r, p), pc[r] \in {"before", "check", "after"}
        PROVE  Progress(r, p)' \/ (Absent(r)' /\ pc[r] # "after")
    <3>1. ASSUME NEW i \in 2 .. Len(p), p[i][1] = "config", Sees(r, FlagQuery(f)) # None
          PROVE  Sees(r, p[i]) # None
      <4>1. p[i] \in Query /\ p[i][2][1] = f
        <5>1. Len(p) \in Nat /\ i \in 1 .. Len(p)
          BY LenProperties, <2>7 DEF PlanOf
        <5> QED BY <2>7, <5>1, ElementOfSeq DEF PlanOf
      <4>2. p[i][2] \in Refs
        BY <3>1, <4>1 DEF Query
      <4>3. p[i] = <<"config", <<f, p[i][2][2]>>>> /\ p[i][2][2] \in Envs
        BY <3>1, <4>1, <4>2 DEF Query, Refs
      <4> QED BY <1>3, <2>5, <2>7, <3>1, <4>3, ReadsFind
    <3>2. Progress(r, p)' \/ (Absent(r)' /\ Sees(r, FlagQuery(f)) = None)
      BY <2>5, <2>7, <3>1, SelectProgress
    <3> QED BY <1>3, <2>5, <2>7, <3>2, ReadsFind
  <2>8. PICK p : p = WholePlan(o)
    OBVIOUS
  <2>9. PlanOf(p, f)
    BY <1>3, <2>5, <2>6, <2>8, MutatorFacts, WholePlans
  <2>10. p = WholePlan(op[r]) /\ p = WholePlan(op'[r])
    BY <1>1, <2>6, <2>8
  <2>11. PICK k : k = CheckPlan(Ref(r))
    OBVIOUS
  <2>12. k = CheckPlan(Ref(r)')
    BY <1>1, <2>11 DEF Ref
  <2>13. pc[r] = "check" => PlanOf(k, f)
    <3>1. pc[r] = "check" => OnConfig(op[r])
      BY DEF StoreInv, Protocol
    <3>2. OnConfig(op[r]) => Ref(r) = <<f, op[r].env>> /\ op[r].env \in Envs
      BY <1>3, <2>5, MutatorFacts
    <3> QED BY <2>11, <3>1, <3>2, ShortPlan
  <2>14. pc[r] = "before" => Progress(r, p) \/ Absent(r)
    BY <2>1, <2>10 DEF Reading
  <2>15. pc[r] = "check" => Progress(r, k) \/ Absent(r)
    BY <2>1, <2>11 DEF Reading
  <2>16. pc[r] = "after" => Progress(r, p)
    BY <2>1, <2>10 DEF Reading
  <2>17. /\ pc'[r] = "before" => Progress(r, p)' \/ Absent(r)'
         /\ pc'[r] = "check" => Progress(r, k)' \/ Absent(r)'
         /\ pc'[r] = "after" => Progress(r, p)'
    BY <1>1, <2>1, <2>7, <2>9, <2>13, <2>14, <2>15, <2>16
  <2>18. Reading(r)'
    BY <1>1, <2>2, <2>10, <2>11, <2>12, <2>17 DEF Reading
  <2> QED BY <2>3, <2>4, <2>18
<1> QED BY <1>1, <1>2, <1>3 DEF Turn, MutatorActive, Active

LEMMA FinishTurn ==
  ASSUME StoreInv, NEW r \in Reqs, NEW status, NEW version, Finish(r, status, version)
  PROVE  Turn(r)'
<1>1. pc'[r] = "done"
  BY DEF Finish, StoreInv, TypeOK
<1> QED BY <1>1 DEF Turn, Unanswered, MutatorActive, Active

LEMMA ReceiveTurn ==
  ASSUME StoreInv, NEW r \in Reqs, Turn(r), NEW o \in Workload[r], Receive(r, o)
  PROVE  Turn(r)'
<1>1. o \in Op /\ LocalTypes
  BY SplitTypes, FlagDataAssumption DEF StoreInv, FlagDataAssumption
<1>2. /\ op'[r] = o /\ pc'[r] = FirstStatement(o) /\ todo'[r] = Plan(o)
      /\ UNCHANGED <<committed, seen, before, left, target, w, reply>>
      /\ seen[r] = NothingRead /\ before[r] = NothingRead /\ reply[r] = NoReply
  BY <1>1 DEF Receive, LocalTypes, Turn, Unanswered
<1>3. Unanswered(r)'
  BY <1>2 DEF Unanswered, FirstStatement
<1>4. ASSUME Mutates(o) PROVE Reading(r)' /\ Writing(r)' /\ Auditing(r)'
  <2>1. CASE o.kind = "create"
    <3>1. pc'[r] = "insertFlag" /\ todo'[r] = <<>>
      BY <1>2, <2>1 DEF FirstStatement, Plan
    <3>2. Reading(r)' /\ Writing(r)'
      BY <3>1 DEF Reading, Writing
    <3>3. Auditing(r)'
      BY <1>2, <2>1, <3>1 DEF Auditing
    <3> QED BY <3>2, <3>3
  <2>2. CASE o.kind # "create"
    <3>1. OnConfig(o) \/ o.kind = "archive"
      BY <1>4, <2>2 DEF Mutates
    <3>2. OnConfig(o) => o.kind \in {"config", "rules", "overrides"}
      BY DEF OnConfig, Tables
    <3>3. pc'[r] = "before" /\ Plan(o) = WholePlan(o)
      <4>1. pc'[r] = "before"
        BY <1>2, <3>1, <3>2 DEF FirstStatement
      <4>2. CASE OnConfig(o)
        <5>1. o.kind \notin {"get", "archive"} /\ o.kind # "create"
          BY <3>2, <4>2
        <5>2. Plan(o) = ByKey(<<o.flag, o.env>>)
          BY <5>1 DEF Plan
        <5> QED BY <4>1, <4>2, <5>2 DEF WholePlan
      <4>3. CASE ~OnConfig(o)
        <5>1. Plan(o) = AllEnvs(o.flag)
          BY <3>1, <4>3 DEF Plan
        <5> QED BY <4>1, <4>3, <5>1 DEF WholePlan
      <4> QED BY <4>1, <4>2, <4>3
    <3>4. PICK p : p = WholePlan(o)
      OBVIOUS
    <3>5. Len(p) \in Nat
      BY <1>1, <3>1, <3>4, WholePlans, LenProperties DEF PlanOf
    <3>6. Progress(r, p)'
      BY <1>2, <3>3, <3>4, <3>5, StartsAgain
    <3>7. Progress(r, WholePlan(op[r]))'
      BY <1>2, <3>4, <3>6
    <3>8. Reading(r)' /\ Writing(r)'
      BY <3>3, <3>7 DEF Reading, Writing
    <3>9. Auditing(r)'
      BY <1>2, <2>2, <3>3 DEF Auditing
    <3> QED BY <3>8, <3>9
  <2> QED BY <2>1, <2>2
<1> QED BY <1>2, <1>3, <1>4 DEF Turn, MutatorActive

(* A read that has run out of its plan has seen all it asked for. *)
LEMMA PlanDone ==
  ASSUME NEW r, NEW p, NEW f, PlanOf(p, f), Progress(r, p), todo[r] = <<>>
  PROVE  seen[r] = Sight(r, First(p, Len(p)))
<1>1. PICK n \in 0 .. Len(p) : RestOf(todo[r], p, n) /\ seen[r] = Sight(r, First(p, n))
  BY DEF Progress
<1>2. Len(p) \in Nat
  BY LenProperties DEF PlanOf
<1>3. Len(todo[r]) = 0
  OBVIOUS
<1>4. n = Len(p)
  BY <1>1, <1>2, <1>3 DEF RestOf
<1> QED BY <1>1, <1>4

LEMMA RecheckTurn ==
  ASSUME StoreInv, NEW r \in Reqs, Turn(r), Recheck(r)
  PROVE  Turn(r)'
<1>1. /\ op[r] \in Op /\ OnConfig(op[r]) /\ w[r] = NoWrites /\ pc[r] = "before" /\ todo[r] = <<>>
      /\ LocalTypes
  BY SplitTypes DEF Recheck, StoreInv, Protocol
<1>2. /\ MutatorActive(r) /\ op[r].kind # "create" /\ op[r].env \in Envs /\ op[r].flag \in Flags
      /\ Ref(r) = <<op[r].flag, op[r].env>>
  BY <1>1, MutatorFacts DEF MutatorActive, Active, Mutates
<1>3. /\ pc'[r] = "check" /\ before'[r] = seen[r] /\ seen'[r] = NothingRead
      /\ todo'[r] = CheckPlan(Ref(r))
      /\ UNCHANGED <<committed, op, left, target, w, reply>>
  BY <1>1, <1>2, ShortPlan DEF Recheck, LocalTypes
<1>4. Unanswered(r)'
  BY <1>1, <1>3 DEF Unanswered, Turn
<1>5. Reading(r)'
  <2>1. PICK k : k = CheckPlan(Ref(r))
    OBVIOUS
  <2>2. Len(k) \in Nat
    BY <2>1 DEF CheckPlan
  <2>3. Progress(r, k)'
    BY <1>3, <2>1, <2>2, StartsAgain
  <2>4. k = CheckPlan(Ref(r)')
    BY <1>3, <2>1 DEF Ref
  <2> QED BY <1>3, <2>3, <2>4 DEF Reading
<1>6. Writing(r)'
  BY <1>3 DEF Writing
<1>7. configRow[Ref(r)] # None => seen[r] = Rows(Aggregate(op[r]))
  <2>1. PICK p : p = WholePlan(op[r])
    OBVIOUS
  <2>2. PlanOf(p, op[r].flag) /\ First(p, Len(p)) = Aggregate(op[r])
    BY <1>1, <2>1, WholePlans
  <2>3. Progress(r, p) \/ Absent(r)
    BY <1>1, <1>2, <2>1 DEF Turn, Reading
  <2>4. Progress(r, p) => seen[r] = Rows(Aggregate(op[r]))
    BY <1>1, <2>2, PlanDone, SightClean
  <2>5. Absent(r) => configRow[Ref(r)] = None
    BY <1>2 DEF Absent, StoreInv, WholeFlags
  <2> QED BY <2>3, <2>4, <2>5
<1>8. Auditing(r)'
  <2>1. /\ Rows(Aggregate(op[r]))' = Rows(Aggregate(op[r])) /\ configRow'[Ref(r)'] = configRow[Ref(r)]
    BY <1>3 DEF Rows, Aggregate, committed, Ref
  <2> QED BY <1>2, <1>3, <1>7, <2>1 DEF Auditing
<1> QED BY <1>4, <1>5, <1>6, <1>8 DEF Turn

LEMMA FoundIsCommitted ==
  ASSUME StoreInv, NEW r \in Reqs, Turn(r), pc[r] = "check", todo[r] = <<>>
  PROVE  /\ Found(r) = configRow[Ref(r)] /\ w[r] = NoWrites /\ MutatorActive(r)
         /\ op[r] \in Op /\ OnConfig(op[r])
         /\ op[r].env \in Envs /\ op[r].flag \in Flags /\ Ref(r) = <<op[r].flag, op[r].env>>
         /\ Ref(r) \in Refs
<1>1. op[r] \in Op /\ OnConfig(op[r]) /\ w[r] = NoWrites /\ MutatorActive(r)
  BY DEF StoreInv, Protocol, MutatorActive, Active, Mutates
<1>2. /\ op[r].env \in Envs /\ op[r].flag \in Flags /\ Ref(r) = <<op[r].flag, op[r].env>>
      /\ Ref(r) \in Refs
  BY <1>1, MutatorFacts
<1>3. PICK k : k = CheckPlan(Ref(r))
  OBVIOUS
<1>4. PlanOf(k, op[r].flag) /\ First(k, Len(k)) = {FlagQuery(op[r].flag), <<"config", Ref(r)>>}
  BY <1>2, <1>3, ShortPlan
<1>5. Progress(r, k) \/ Absent(r)
  BY <1>1, <1>3 DEF Turn, Reading
<1>6. CASE Progress(r, k)
  <2>1. seen[r] = Rows(First(k, Len(k)))
    BY <1>1, <1>4, <1>6, PlanDone, SightClean
  <2>2. Rows(First(k, Len(k))).config[Ref(r)] = configRow[Ref(r)]
    BY <1>2, <1>4 DEF Rows
  <2> QED BY <1>1, <1>2, <2>1, <2>2 DEF Found
<1>7. CASE Absent(r)
  <2>1. configRow[Ref(r)] = None
    BY <1>2, <1>7 DEF Absent, StoreInv, WholeFlags
  <2>2. Found(r) = None
    BY <1>2, <1>7 DEF Absent, Found, NothingRead
  <2> QED BY <1>1, <1>2, <2>1, <2>2
<1> QED BY <1>5, <1>6, <1>7

(* The UPDATE that writes a version ends the writes of a transaction. *)
LEMMA VersionTurn ==
  ASSUME StoreInv, NEW r \in Reqs, Turn(r), MutatorActive(r), OnConfig(op[r]),
         pc[r] \in {"check", "insertRow"}, configRow[Ref(r)] # None,
         ReadAfter(r, ByKey(Ref(r)), NothingRead),
         UNCHANGED <<committed, op, before, left, target, reply>>,
         Written(r)'
  PROVE  Turn(r)'
<1>1. LocalTypes /\ op[r] \in Op
  BY SplitTypes, MutatorFacts DEF StoreInv
<1>2. pc'[r] = "after" /\ todo'[r] = ByKey(Ref(r)) /\ seen'[r] = NothingRead
  BY <1>1 DEF ReadAfter, LocalTypes
<1>3. Unanswered(r)'
  BY <1>2 DEF Unanswered, Turn, MutatorActive, Active
<1>4. Reading(r)'
  <2>1. PICK p : p = WholePlan(op[r])
    OBVIOUS
  <2>2. p = ByKey(Ref(r)) /\ Len(p) \in Nat
    BY <1>1, <2>1, WholePlans, MutatorFacts, LenProperties DEF WholePlan, PlanOf
  <2>3. Progress(r, p)'
    BY <1>2, <2>2, StartsAgain
  <2> QED BY <1>2, <2>1, <2>3 DEF Reading
<1>5. Writing(r)'
  BY <1>2 DEF Writing
<1>6. Auditing(r)'
  <2>1. /\ Rows(Aggregate(op[r]))' = Rows(Aggregate(op[r])) /\ configRow'[Ref(r)'] = configRow[Ref(r)]
    BY DEF Rows, Aggregate, committed, Ref
  <2>2. before[r] = Rows(Aggregate(op[r])) /\ op[r].kind # "create"
    BY MutatorFacts DEF Turn, Auditing
  <2> QED BY <1>2, <2>1, <2>2 DEF Auditing
<1> QED BY <1>3, <1>4, <1>5, <1>6 DEF Turn

LEMMA UpdateConfigTurn ==
  ASSUME StoreInv, NEW r \in Reqs, Turn(r), UpdateConfig(r)
  PROVE  Turn(r)'
<1> DEFINE x == Ref(r)
           c == [cols |-> Patched(configRow[x].cols, op[r].patch), version |-> op[r].expected + 1]
<1>1. /\ Passed(r) /\ op[r].kind = "config" /\ pc[r] = "check" /\ todo[r] = <<>>
      /\ Found(r).version = op[r].expected /\ configRow[x] # None
  BY PassedFacts DEF UpdateConfig, Passed
<1>2. /\ Found(r) = configRow[x] /\ MutatorActive(r) /\ OnConfig(op[r]) /\ op[r].env \in Envs
      /\ op[r] \in Op /\ Found(r) \in ConfigRow
  BY <1>1, FoundIsCommitted, PassedFacts
<1>3. LocalTypes /\ op[r].patch \in Patch /\ op[r].expected \in Nat
  BY <1>1, <1>2, OpFields, SplitTypes DEF StoreInv
<1>4. c \in ConfigRow
  BY <1>2, <1>3, PatchedType DEF ConfigRow
<1>5. ConfigWritten(r, op[r].env, c)
  BY <1>1, <1>2 DEF UpdateConfig, ConfigWritten
<1>6. w'[r].cfg[op[r].env] = c
  <2> HIDE DEF c
  <2> QED BY <1>2, <1>3, <1>4, <1>5, WriteConfig
<1>7. /\ ReadAfter(r, ByKey(x), NothingRead)
      /\ UNCHANGED <<committed, op, before, left, target, reply>>
  BY DEF UpdateConfig
<1>8. Written(r)'
  <2>1. x' = x /\ op' = op /\ configRow' = configRow
    BY <1>7 DEF Ref, committed
  <2> QED BY <1>1, <1>2, <1>6, <2>1 DEF Written, Bumped
<1> QED BY <1>1, <1>2, <1>7, <1>8, VersionTurn

LEMMA StartDeleteTurn ==
  ASSUME StoreInv, NEW r \in Reqs, Turn(r), StartDelete(r)
  PROVE  Turn(r)'
<1>1. /\ Passed(r) /\ op[r].kind \in Tables /\ pc[r] = "check" /\ todo[r] = <<>>
      /\ Found(r).version = op[r].expected /\ configRow[Ref(r)] # None
  BY PassedFacts DEF StartDelete, Passed
<1>2. /\ Found(r) = configRow[Ref(r)] /\ MutatorActive(r) /\ OnConfig(op[r]) /\ w[r] = NoWrites
  BY <1>1, FoundIsCommitted
<1>3. /\ pc'[r] = "deleting" /\ target'[r] = MyRows(r)
      /\ UNCHANGED <<committed, op, todo, seen, before, left, w, reply>>
  <2>1. RowsSeen(r, op[r].kind, Ref(r)) = MyRows(r)
    BY <1>2 DEF RowsSeen, MyRows, NoWrites
  <2> QED BY <2>1 DEF StartDelete, StoreInv, TypeOK
<1>4. Unanswered(r)' /\ Reading(r)'
  BY <1>1, <1>3 DEF Unanswered, Reading, Turn
<1>5. Writing(r)'
  <2>1. Ref(r)' = Ref(r) /\ MyRows(r)' = MyRows(r) /\ configRow' = configRow
    BY <1>3 DEF Ref, MyRows, committed
  <2>2. Found(r)' = Found(r) /\ w'[r].ins = {}
    BY <1>2, <1>3, <2>1 DEF Found, NoWrites
  <2> QED BY <1>1, <1>2, <1>3, <2>1, <2>2 DEF Writing
<1>6. Auditing(r)'
  <2>1. /\ Rows(Aggregate(op[r]))' = Rows(Aggregate(op[r])) /\ configRow'[Ref(r)'] = configRow[Ref(r)]
    BY <1>3 DEF Rows, Aggregate, committed, Ref
  <2>2. before[r] = Rows(Aggregate(op[r])) /\ op[r].kind # "create"
    BY <1>1, <1>2, MutatorFacts DEF Turn, Auditing
  <2> QED BY <1>3, <2>1, <2>2 DEF Auditing
<1> QED BY <1>4, <1>5, <1>6 DEF Turn

\* A request past its DELETE keeps what it knew and has found.
LEMMA LoopTurn ==
  ASSUME StoreInv, NEW r \in Reqs, Turn(r), pc[r] \in {"deleting", "insertRow"},
         pc'[r] = "insertRow", UNCHANGED <<committed, op, todo, seen, before, reply>>,
         w'[r].del = MyRows(r), Inserted(r)'
  PROVE  Turn(r)'
<1>1. op[r] \in Op /\ op[r].kind \in Tables /\ OnConfig(op[r]) /\ MutatorActive(r)
      /\ Found(r) # None /\ configRow[Ref(r)] # None
  BY DEF StoreInv, Protocol, OnConfig, MutatorActive, Active, Mutates
<1>2. /\ Ref(r)' = Ref(r) /\ MyRows(r)' = MyRows(r) /\ Found(r)' = Found(r)
      /\ configRow' = configRow /\ Rows(Aggregate(op[r]))' = Rows(Aggregate(op[r]))
  BY DEF Ref, MyRows, Found, committed, Rows, Aggregate
<1>3. Reading(r) /\ Writing(r) /\ Auditing(r)
  BY <1>1 DEF Turn
<1>4. Unanswered(r)' /\ Reading(r)'
  BY <1>3 DEF Unanswered, Reading, Turn
<1>5. Writing(r)'
  BY <1>2, <1>3 DEF Writing
<1>6. before[r] = Rows(Aggregate(op[r])) /\ op[r].kind # "create"
  BY <1>1, <1>3, MutatorFacts DEF Auditing
<1>7. Auditing(r)'
  BY <1>2, <1>6 DEF Auditing
<1> QED BY <1>4, <1>5, <1>7 DEF Turn

LEMMA FinishDeleteTurn ==
  ASSUME StoreInv, NEW r \in Reqs, Turn(r), FinishDelete(r)
  PROVE  Turn(r)'
<1>1. /\ pc[r] = "deleting" /\ op[r] \in Op /\ op[r].kind \in Tables /\ MutatorActive(r)
  BY DEF FinishDelete, StoreInv, Protocol, MutatorActive, Active, Mutates, OnConfig
<1>2. target[r] = MyRows(r) /\ w[r].ins = {}
  BY <1>1 DEF Turn, Writing
<1>3. /\ w'[r].del = MyRows(r) /\ w'[r].ins = {} /\ left'[r] = op[r].body /\ pc'[r] = "insertRow"
      /\ op' = op
  BY <1>2 DEF FinishDelete, StoreInv, TypeOK, Writes
<1>4. PICK b : b = op[r].body
  OBVIOUS
<1>5. b \in Seq(Entry) /\ Len(b) \in Nat
  BY <1>1, <1>4, OpFields, LenProperties
<1>6. Inserted(r)'
  <2>1. RestOf(b, b, 0)
    <3>1. ASSUME NEW i \in DOMAIN b PROVE b[0 + i] = b[i]
      BY <1>5, LenProperties
    <3> QED BY <1>5, <3>1 DEF RestOf
  <2>2. 0 \in 0 .. Len(b) /\ 1 .. 0 = {}
    BY <1>5
  <2> QED BY <1>3, <1>4, <2>1, <2>2 DEF Inserted
<1> QED BY <1>1, <1>3, <1>6, LoopTurn DEF FinishDelete

LEMMA InsertRowTurn ==
  ASSUME StoreInv, NEW r \in Reqs, Turn(r), InsertRow(r)
  PROVE  Turn(r)'
<1>1. /\ pc[r] = "insertRow" /\ op[r] \in Op /\ op[r].kind \in Tables /\ MutatorActive(r)
  BY DEF InsertRow, StoreInv, Protocol, MutatorActive, Active, Mutates, OnConfig
<1>2. w[r].del = MyRows(r) /\ Inserted(r)
  BY <1>1 DEF Turn, Writing
<1>3. PICK b \in Seq(Entry) : b = op[r].body
  BY <1>1, OpFields
<1>4. PICK n \in 0 .. Len(b) :
        /\ RestOf(left[r], b, n)
        /\ w[r].ins = {[key |-> b[i].key, val |-> b[i].val, by |-> r] : i \in 1 .. n}
        /\ \A i, j \in 1 .. n : b[i].key = b[j].key => i = j
  BY <1>2, <1>3 DEF Inserted
<1>5. left[r] \in Seq(Entry) /\ left[r] # <<>>
  BY DEF InsertRow, StoreInv, TypeOK
<1>6. /\ Head(left[r]) = left[r][1] /\ Len(left[r]) \in Nat \ {0} /\ DOMAIN left[r] = 1 .. Len(left[r])
      /\ Len(Tail(left[r])) = Len(left[r]) - 1 /\ Tail(left[r]) \in Seq(Entry)
      /\ \A i \in 1 .. Len(Tail(left[r])) : Tail(left[r])[i] = left[r][i + 1]
  BY <1>5, HeadTailProperties, LenProperties, EmptySeq
<1>7. n \in Nat /\ Len(b) \in Nat /\ n + 1 \in 1 .. Len(b) /\ Len(left[r]) = Len(b) - n
  BY <1>3, <1>4, <1>6, LenProperties DEF RestOf
<1>8. Head(left[r]) = b[n + 1]
  <2>1. 1 \in DOMAIN left[r]
    BY <1>6
  <2> QED BY <1>4, <1>6, <2>1 DEF RestOf
<1>9. RestOf(Tail(left[r]), b, n + 1)
  <2>1. DOMAIN Tail(left[r]) = 1 .. Len(Tail(left[r]))
    BY <1>6, LenProperties
  <2>2. ASSUME NEW i \in 1 .. Len(Tail(left[r])) PROVE Tail(left[r])[i] = b[(n + 1) + i]
    <3>1. i + 1 \in DOMAIN left[r] /\ n + (i + 1) = (n + 1) + i
      <4>1. PICK m \in Nat : m = Len(left[r]) /\ Len(Tail(left[r])) = m - 1 /\ DOMAIN left[r] = 1 .. m
        BY <1>6
      <4> QED BY <1>7, <4>1
    <3> QED BY <1>4, <1>6, <3>1 DEF RestOf
  <2> QED BY <1>6, <1>7, <2>1, <2>2 DEF RestOf
<1> DEFINE row(i) == [key |-> b[i].key, val |-> b[i].val, by |-> r]
<1>10. 1 .. n + 1 = (1 .. n) \cup {n + 1}
  BY <1>7
<1>11. RowsOf(r, <<Head(left[r])>>) = {row(n + 1)}
  <2>1. PICK h : h = Head(left[r])
    OBVIOUS
  <2>2. DOMAIN <<h>> = {1} /\ <<h>>[1] = h
    OBVIOUS
  <2>3. RowsOf(r, <<h>>) = {[key |-> h.key, val |-> h.val, by |-> r]}
    BY <2>2 DEF RowsOf
  <2> QED BY <1>8, <2>1, <2>3
<1>12. w'[r].ins = w[r].ins \cup {row(n + 1)} /\ w'[r].del = w[r].del
  <2>1. PICK rows : rows = RowsOf(r, <<Head(left[r])>>)
    OBVIOUS
  <2>2. w' = [w EXCEPT ![r].ins = @ \cup rows]
    BY <2>1 DEF InsertRow
  <2>3. w'[r].ins = w[r].ins \cup rows /\ w'[r].del = w[r].del
    BY <2>2 DEF StoreInv, TypeOK, Writes
  <2> QED BY <1>11, <2>1, <2>3
<1>13. w'[r].ins = {row(i) : i \in 1 .. n + 1}
  <2>1. w[r].ins = {row(i) : i \in 1 .. n}
    BY <1>4
  <2> HIDE DEF row
  <2> QED BY <1>10, <1>12, <2>1
<1>14. \A i, j \in 1 .. n + 1 : b[i].key = b[j].key => i = j
  <2>1. \A i \in 1 .. n : row(i) \in w[r].ins /\ row(i).key = b[i].key
    BY <1>4
  <2>2. \A i \in 1 .. n : b[i].key # b[n + 1].key
    <3>1. \A z \in w[r].ins : z.key # b[n + 1].key
      BY <1>8 DEF InsertRow
    <3> HIDE DEF row
    <3> QED BY <2>1, <3>1
  <2> QED BY <1>4, <1>10, <2>2
<1>15. /\ left'[r] = Tail(left[r]) /\ op' = op /\ pc' = pc
       /\ UNCHANGED <<committed, op, todo, seen, before, reply>>
  BY DEF InsertRow, StoreInv, TypeOK
<1>16. Inserted(r)'
  <2>1. b = op'[r].body /\ n + 1 \in 0 .. Len(b)
    BY <1>3, <1>7, <1>15
  <2> QED BY <1>7, <1>9, <1>13, <1>14, <1>15, <2>1 DEF Inserted
<1>17. MyRows(r)' = MyRows(r)
  BY <1>15 DEF MyRows, Ref, committed
<1> QED BY <1>1, <1>2, <1>12, <1>15, <1>16, LoopTurn

LEMMA BumpVersionTurn ==
  ASSUME StoreInv, NEW r \in Reqs, Turn(r), BumpVersion(r)
  PROVE  Turn(r)'
<1> DEFINE x == Ref(r)
           c == [cols |-> configRow[x].cols, version |-> op[r].expected + 1]
<1>1. /\ pc[r] = "insertRow" /\ op[r] \in Op /\ op[r].kind \in Tables /\ MutatorActive(r)
      /\ OnConfig(op[r]) /\ Found(r) # None /\ configRow[x] # None
  BY DEF BumpVersion, StoreInv, Protocol, MutatorActive, Active, Mutates, OnConfig
<1>2. /\ w[r].del = MyRows(r) /\ Inserted(r) /\ Found(r) = configRow[x]
      /\ Found(r).version = op[r].expected
  BY <1>1 DEF Turn, Writing
<1>3. x \in Refs /\ op[r].env \in Envs /\ op[r].expected \in Nat /\ LocalTypes
  BY <1>1, MutatorFacts, SplitTypes DEF StoreInv
<1>4. configRow[x] \in ConfigRow
  BY <1>1, <1>3 DEF StoreInv, TypeOK
<1>5. c \in ConfigRow
  BY <1>3, <1>4 DEF ConfigRow
<1>6. ConfigWritten(r, op[r].env, c)
  BY <1>2 DEF BumpVersion, ConfigWritten
<1>7. w'[r].cfg[op[r].env] = c
  <2> HIDE DEF c
  <2> QED BY <1>3, <1>5, <1>6, WriteConfig
<1>8. /\ ReadAfter(r, ByKey(x), NothingRead) /\ left[r] = <<>>
      /\ UNCHANGED <<committed, op, before, left, target, reply>>
  BY DEF BumpVersion
<1>9. PICK b \in Seq(Entry) : b = op[r].body
  BY <1>1, OpFields
<1>10. w[r].ins = RowsOf(r, b) /\ KeysUnique(b)
  <2>1. PICK n \in 0 .. Len(b) :
          /\ RestOf(left[r], b, n)
          /\ w[r].ins = {[key |-> b[i].key, val |-> b[i].val, by |-> r] : i \in 1 .. n}
          /\ \A i, j \in 1 .. n : b[i].key = b[j].key => i = j
    BY <1>2, <1>9 DEF Inserted
  <2>2. Len(b) \in Nat /\ DOMAIN b = 1 .. Len(b) /\ Len(left[r]) = 0
    BY <1>8, LenProperties
  <2>3. n = Len(b)
    BY <2>1, <2>2 DEF RestOf
  <2> QED BY <2>1, <2>2, <2>3 DEF RowsOf, KeysUnique
<1>11. w'[r].del = w[r].del /\ w'[r].ins = w[r].ins
  <2> HIDE DEF c
  <2> QED BY <1>3, <1>6 DEF ConfigWritten, LocalTypes, Writes
<1>12. Written(r)'
  <2>1. x' = x /\ op' = op /\ configRow' = configRow /\ MyRows(r)' = MyRows(r)
    BY <1>8 DEF Ref, committed, MyRows
  <2>2. op[r].kind \notin {"create", "archive", "config"}
    BY <1>1 DEF Tables
  <2> QED BY <1>2, <1>7, <1>9, <1>10, <1>11, <2>1, <2>2 DEF Written, Bumped
<1> QED BY <1>1, <1>8, <1>12, VersionTurn

LEMMA InsertFlagTurn ==
  ASSUME StoreInv, NEW r \in Reqs, Turn(r), InsertFlag(r)
  PROVE  Turn(r)'
<1>1. /\ pc[r] = "insertFlag" /\ op[r].kind = "create" /\ w[r] = NoWrites /\ LocalTypes
      /\ MutatorActive(r)
  BY SplitTypes DEF InsertFlag, StoreInv, Protocol, MutatorActive, Active, Mutates
<1>2. /\ pc'[r] = "insertConfig" /\ w'[r].flag = NewFlagRow /\ w'[r].cfg = w[r].cfg
      /\ UNCHANGED <<op, todo, seen, before, reply>>
  <2>1. FlagWritten(r, NewFlagRow)
    BY DEF InsertFlag, FlagWritten
  <2> QED BY <1>1, <2>1, WriteFlag, DefaultRow DEF InsertFlag, LocalTypes
<1>3. Unanswered(r)' /\ Reading(r)'
  BY <1>1, <1>2 DEF Turn, Unanswered, Reading
<1>4. Writing(r)'
  BY <1>1, <1>2 DEF Writing, NoWrites
<1>5. Auditing(r)'
  BY <1>1, <1>2 DEF Turn, Auditing
<1> QED BY <1>3, <1>4, <1>5 DEF Turn

LEMMA InsertConfigTurn ==
  ASSUME StoreInv, NEW r \in Reqs, Turn(r), InsertConfig(r)
  PROVE  Turn(r)'
<1>1. /\ pc[r] = "insertConfig" /\ op[r].kind = "create" /\ LocalTypes /\ MutatorActive(r)
  BY SplitTypes DEF InsertConfig, StoreInv, Protocol, MutatorActive, Active, Mutates
<1>2. PICK i \in EnvsLeft(r) : w' = [w EXCEPT ![r].cfg[EnvSeq[i]] = NewConfigRow]
  BY DEF InsertConfig
<1>3. EnvSeq[i] \in Envs /\ ConfigWritten(r, EnvSeq[i], NewConfigRow)
  BY <1>2 DEF EnvsLeft, Envs, ConfigWritten
<1>4. /\ w'[r].flag = w[r].flag
      /\ \A d \in Envs : w'[r].cfg[d] = IF d = EnvSeq[i] THEN NewConfigRow ELSE w[r].cfg[d]
  BY <1>1, <1>3, DefaultRow, WriteConfig
<1>5. UNCHANGED <<op, pc, todo, seen, before, reply>>
  BY DEF InsertConfig
<1>6. Unanswered(r)' /\ Reading(r)'
  BY <1>1, <1>5 DEF Turn, Unanswered, Reading
<1>7. Writing(r)'
  BY <1>1, <1>4, <1>5 DEF Turn, Writing
<1>8. Auditing(r)'
  BY <1>1, <1>5 DEF Turn, Auditing
<1> QED BY <1>6, <1>7, <1>8 DEF Turn

LEMMA ReadCreatedTurn ==
  ASSUME StoreInv, NEW r \in Reqs, Turn(r), ReadCreated(r)
  PROVE  Turn(r)'
<1>1. /\ pc[r] = "insertConfig" /\ op[r].kind = "create" /\ LocalTypes /\ MutatorActive(r)
  BY SplitTypes DEF ReadCreated, StoreInv, Protocol, MutatorActive, Active, Mutates
<1>2. PICK f \in Flags : f = op[r].flag
  BY <1>1, MutatorFacts
<1>3. /\ pc'[r] = "after" /\ todo'[r] = EachEnv(f)
      /\ seen'[r] = [NothingRead EXCEPT !.flag[f] = w[r].flag]
      /\ UNCHANGED <<committed, op, before, left, target, w, reply>>
  BY <1>1, <1>2 DEF ReadCreated, ReadAfter, LocalTypes
<1>4. w[r].flag = NewFlagRow /\ \A e \in Envs : w[r].cfg[e] = NewConfigRow
  <2>1. w[r].flag = NewFlagRow /\ \A e \in Envs : w[r].cfg[e] \in {None, NewConfigRow}
    BY <1>1 DEF Turn, Writing
  <2>2. \A e \in Envs : w[r].cfg[e] # None
    BY DEF ReadCreated, EnvsLeft, Envs
  <2> QED BY <2>1, <2>2
<1>5. Unanswered(r)'
  BY <1>1, <1>3 DEF Turn, Unanswered
<1>6. Reading(r)'
  <2>1. PICK p : p = WholePlan(op[r])
    OBVIOUS
  <2>2. /\ p = AllEnvs(f) /\ PlanOf(p, f) /\ RestOf(EachEnv(f), p, 1)
    BY <1>1, <1>2, <2>1, MutatorFacts, WholeFlagPlan DEF WholePlan
  <2>3. First(p, 0) = {} /\ First(p, 0 + 1) = First(p, 0) \cup {p[0 + 1]}
    BY FirstMore
  <2>4. First(p, 1) = {FlagQuery(f)}
    BY <2>2, <2>3 DEF PlanOf
  <2>5. Sees(r, FlagQuery(f)) = w[r].flag /\ w[r].flag # None
    BY <1>1, <1>2, <1>4, DefaultRow, NoneIsNoRow DEF Sees, FlagQuery
  <2>6. PICK q \in Query : q = FlagQuery(f)
    BY QueryForms
  <2>7. Remember(Sight(r, {}), q[1], q[2], Sees(r, q)) = Sight(r, {} \cup {q})
    BY SightMore
  <2>8. q[1] = "flag" /\ q[2] = f /\ {} \cup {q} = {FlagQuery(f)}
    BY <2>6 DEF FlagQuery
  <2>9. seen'[r] = Sight(r, First(p, 1))
    BY <1>3, <2>4, <2>5, <2>6, <2>7, <2>8, SightNone DEF Remember
  <2>10. \A s : Sees(r, s)' = Sees(r, s)
    BY <1>3 DEF committed, Sees, RowsSeen, On, Ref
  <2>11. seen'[r] = Sight(r, First(p, 1))'
    BY <2>9, <2>10, SightSame
  <2>12. 1 \in 0 .. Len(p)
    BY <2>2, LenProperties DEF PlanOf
  <2>13. Sees(r, FlagQuery(op[r].flag))' # None
    BY <1>2, <1>3, <2>5, <2>10
  <2>14. Progress(r, p)'
    BY <1>3, <2>2, <2>11, <2>12, <2>13 DEF Progress
  <2> QED BY <1>3, <2>1, <2>14 DEF Reading
<1>7. Writing(r)'
  BY <1>1, <1>3, <1>4 DEF Writing, Written
<1>8. Auditing(r)'
  <2>1. ~OnConfig(op[r])
    BY <1>1, MutatorFacts
  <2> QED BY <1>1, <1>3, <2>1 DEF Turn, Auditing
<1> QED BY <1>5, <1>6, <1>7, <1>8 DEF Turn

LEMMA StampArchiveTurn ==
  ASSUME StoreInv, NEW r \in Reqs, Turn(r), StampArchive(r)
  PROVE  Turn(r)'
<1>1. /\ pc[r] = "before" /\ todo[r] = <<>> /\ op[r].kind = "archive" /\ w[r] = NoWrites /\ LocalTypes
      /\ MutatorActive(r) /\ flagRow[op[r].flag] # None
  BY SplitTypes DEF StampArchive, StoreInv, Protocol, MutatorActive, Active, Mutates
<1>2. /\ op[r] \in Op /\ op[r].flag \in Flags /\ ~OnConfig(op[r])
  BY <1>1, MutatorFacts
<1>3. /\ pc'[r] = "after" /\ before'[r] = seen[r] /\ seen'[r] = NothingRead
      /\ todo'[r] = AllEnvs(op[r].flag)
      /\ UNCHANGED <<committed, op, left, target, reply>>
  BY <1>1 DEF StampArchive, ReadAfter, LocalTypes
<1>4. w'[r].flag = [archivedAt |-> r]
  <2>1. FlagWritten(r, [archivedAt |-> r]) /\ [archivedAt |-> r] \in FlagRow
    BY DEF StampArchive, FlagWritten, FlagRow
  <2> QED BY <1>1, <2>1, WriteFlag
<1>5. PICK p : p = WholePlan(op[r])
  OBVIOUS
<1>6. /\ PlanOf(p, op[r].flag) /\ First(p, Len(p)) = Aggregate(op[r]) /\ Len(p) \in Nat
      /\ p = AllEnvs(op[r].flag)
  BY <1>1, <1>2, <1>5, WholePlans, LenProperties DEF PlanOf, WholePlan
<1>7. seen[r] = Rows(Aggregate(op[r]))
  <2>1. Progress(r, p)
    BY <1>1, <1>5 DEF Turn, Reading, Absent
  <2> QED BY <1>1, <1>6, <2>1, PlanDone, SightClean
<1>8. Unanswered(r)'
  BY <1>1, <1>3 DEF Turn, Unanswered
<1>9. Reading(r)'
  <2>1. Progress(r, p)'
    BY <1>3, <1>6, StartsAgain
  <2> QED BY <1>3, <1>5, <2>1 DEF Reading
<1>10. Writing(r)'
  BY <1>1, <1>3, <1>4 DEF Writing, Written
<1>11. Auditing(r)'
  <2>1. Rows(Aggregate(op[r]))' = Rows(Aggregate(op[r]))
    BY <1>3 DEF Rows, Aggregate, committed
  <2> QED BY <1>1, <1>3, <1>7, <2>1 DEF Auditing
<1> QED BY <1>8, <1>9, <1>10, <1>11 DEF Turn

LEMMA RecordAuditTurn ==
  ASSUME StoreInv, NEW r \in Reqs, Turn(r), RecordAudit(r)
  PROVE  Turn(r)'
<1>1. /\ pc[r] = "after" /\ todo[r] = <<>> /\ LocalTypes /\ MutatorActive(r)
  BY SplitTypes DEF RecordAudit, StoreInv, Protocol, MutatorActive, Active, Mutates
<1>2. /\ op[r] \in Op /\ (OnConfig(op[r]) \/ op[r].kind \in {"create", "archive"})
      /\ op[r].kind \in {"create", "archive"} => ~OnConfig(op[r])
  BY <1>1, MutatorFacts
<1>3. /\ pc'[r] = "commit" /\ UNCHANGED <<committed, op, todo, seen, before, left, target, reply>>
      /\ w'[r].flag = w[r].flag /\ w'[r].cfg = w[r].cfg /\ w'[r].del = w[r].del /\ w'[r].ins = w[r].ins
      /\ w'[r].audit = AuditEntry(r)
  BY <1>1 DEF RecordAudit, LocalTypes, Writes
<1>4. seen[r] = Sight(r, Aggregate(op[r]))
  <2>1. PICK p : p = WholePlan(op[r])
    OBVIOUS
  <2>2. PlanOf(p, op[r].flag) /\ First(p, Len(p)) = Aggregate(op[r])
    BY <1>1, <2>1, MutatorFacts, WholePlans
  <2>3. Progress(r, p)
    BY <1>1, <2>1 DEF Turn, Reading
  <2> QED BY <1>1, <2>2, <2>3, PlanDone
<1>5. /\ \A q : Sees(r, q)' = Sees(r, q)
      /\ Ref(r)' = Ref(r) /\ MyRows(r)' = MyRows(r) /\ configRow' = configRow
      /\ Rows(Aggregate(op[r]))' = Rows(Aggregate(op[r])) /\ Aggregate(op[r])' = Aggregate(op[r])
  BY <1>3 DEF committed, Sees, RowsSeen, On, Ref, MyRows, Rows, Aggregate
<1>6. Sight(r, Aggregate(op[r]))' = Sight(r, Aggregate(op[r]))
  BY <1>5 DEF Sight
<1>7. Unanswered(r)' /\ Reading(r)'
  BY <1>1, <1>3 DEF Turn, Unanswered, Reading
<1>8. Writing(r)'
  <2>1. Written(r)
    BY <1>1 DEF Turn, Writing
  <2>2. Written(r)'
    BY <1>3, <1>5, <2>1 DEF Written, Bumped
  <2> QED BY <1>3, <2>2 DEF Writing
<1>9. Auditing(r)'
  <2>1. w'[r].audit = [by |-> r, op |-> op'[r], before |-> before'[r], after |-> Sight(r, Aggregate(op[r]))']
    BY <1>3, <1>4, <1>6 DEF AuditEntry
  <2>2. Auditing(r)
    BY <1>1 DEF Turn
  <2>3. op[r].kind = "create" => before'[r] = NothingRead
    BY <1>3, <2>2 DEF Auditing
  <2>4. (OnConfig(op[r]) /\ configRow[Ref(r)] # None) \/ op[r].kind = "archive"
          => before'[r] = Rows(Aggregate(op[r]))'
    BY <1>1, <1>3, <1>5, <2>2 DEF Auditing
  <2> QED BY <1>3, <1>5, <2>1, <2>3, <2>4 DEF Auditing
<1> QED BY <1>7, <1>8, <1>9 DEF Turn

LEMMA OwnTurn ==
  ASSUME StoreInv, NEW r \in Reqs, Turn(r), StepOf(r)
  PROVE  Turn(r)'
<1>1. CASE \E o \in Workload[r] : Receive(r, o)
  BY <1>1, ReceiveTurn
<1>2. CASE GivesUp(r) \/ Commits(r)
  BY <1>2, FinishTurn DEF GivesUp, Commits, Rollback
<1>3. CASE \/ AnswerRead(r) \/ NotFoundConfig(r) \/ VersionConflict(r) \/ UniqueViolation(r)
           \/ DuplicateKey(r) \/ NotFoundFlag(r) \/ ConnectionLost(r) \/ DeadlockDetected(r)
  BY <1>2, <1>3, RollbackGivesUp
<1>4. CASE Commit(r) \/ CommitUnacknowledged(r)
  BY <1>4, FinishTurn DEF Commit, CommitUnacknowledged
<1> QED BY <1>1, <1>3, <1>4, SelectTurn, RecheckTurn, UpdateConfigTurn, StartDeleteTurn,
           FinishDeleteTurn, InsertRowTurn, BumpVersionTurn, InsertFlagTurn, InsertConfigTurn,
           ReadCreatedTurn, StampArchiveTurn, RecordAuditTurn DEF StepOf, Statement

LEMMA ExclusiveStays ==
  ASSUME ExclusiveWriters, StoreInv, Exclusive, NEW r \in Reqs, StepOf(r)
  PROVE  Exclusive'
<1>1. \A s \in Reqs \ {r} : MutatorActive(s)' = MutatorActive(s) /\ op'[s] = op[s]
  BY StepsLeaveOthers DEF Untouched, MutatorActive, Active
<1>2. CASE MutatorActive(r)' => MutatorActive(r) /\ op'[r] = op[r]
  BY <1>1, <1>2 DEF Exclusive
<1>3. CASE \E o \in Workload[r] : Receive(r, o)
  <2>1. PICK o \in Workload[r] : Receive(r, o)
    BY <1>3
  <2>2. op'[r] = o
    BY <2>1 DEF Receive, StoreInv, TypeOK
  <2>3. ASSUME Mutates(o), NEW s \in Reqs \ {r}, MutatorActive(s) PROVE op[s].flag # o.flag
    BY <2>1, <2>3 DEF Receive, Others, MutatorActive
  <2> QED BY <1>1, <2>2, <2>3 DEF Exclusive, MutatorActive
<1>4. CASE GoesOn(r) /\ pc[r] # "idle"
  BY <1>2, <1>4 DEF GoesOn, MutatorActive, Active
<1>5. CASE GivesUp(r) \/ Commits(r)
  <2>1. pc'[r] = "done"
    BY <1>5 DEF GivesUp, Commits, Rollback, Finish, StoreInv, TypeOK
  <2> QED BY <1>2, <2>1 DEF MutatorActive, Active
<1>6. CASE Select(r)
  BY <1>2, <1>6 DEF Select, MutatorActive, Active
<1>7. CASE /\ Statement(r) \/ CommitUnacknowledged(r) \/ ConnectionLost(r)
           /\ ~Select(r) /\ ~GivesUp(r) /\ pc[r] = "idle"
  <2>1. FALSE
    BY <1>7, RollbackGivesUp DEF Statement, CommitUnacknowledged, ConnectionLost, Active, Recheck,
       UpdateConfig, Passed, StartDelete, FinishDelete, InsertRow, BumpVersion, InsertFlag,
       InsertConfig, ReadCreated, StampArchive, RecordAudit, Commit
  <2> QED BY <2>1
<1> QED BY <1>3, <1>4, <1>5, <1>6, <1>7, StepShapes DEF StepOf

LEMMA TurnInit == Init => TurnInv
  BY DEF Init, TurnInv, Exclusive, Turn, Unanswered, MutatorActive, Active

LEMMA TurnNext == ExclusiveWriters /\ StoreInv /\ TurnInv /\ [Next]_vars => TurnInv'
<1> SUFFICES ASSUME ExclusiveWriters, StoreInv, TurnInv, [Next]_vars PROVE TurnInv'
  OBVIOUS
<1>1. ASSUME NEW r \in Reqs, StepOf(r) PROVE TurnInv'
  <2>1. Exclusive'
    BY <1>1, ExclusiveStays DEF TurnInv
  <2>2. \A s \in Reqs : Turn(s)'
    BY <1>1, OwnTurn, TurnOfOthers DEF TurnInv
  <2> QED BY <2>1, <2>2 DEF TurnInv
<1>2. CASE UNCHANGED vars
  <2>1. UNCHANGED <<committed, op, pc, todo, seen, before, left, target, w, reply>>
    BY <1>2 DEF vars, committed
  <2>2. Exclusive'
    BY <2>1 DEF TurnInv, Exclusive, MutatorActive, Active
  <2>3. ASSUME NEW r \in Reqs PROVE Turn(r)'
    <3>1. Turn(r)
      BY DEF TurnInv
    <3>2. /\ \A q : Sees(r, q)' = Sees(r, q)
          /\ Ref(r)' = Ref(r) /\ Aggregate(op[r])' = Aggregate(op[r])
          /\ WholePlan(op[r])' = WholePlan(op[r]) /\ CheckPlan(Ref(r))' = CheckPlan(Ref(r))
      BY <2>1 DEF committed, Sees, RowsSeen, On, Ref, Aggregate, WholePlan, CheckPlan
    <3>3. \A Q : Sight(r, Q)' = Sight(r, Q)
      BY <3>2 DEF Sight
    <3>4. \A p : Progress(r, p)' = Progress(r, p)
      BY <2>1, <3>2, <3>3 DEF Progress
    <3>5. Absent(r)' = Absent(r)
      BY <2>1 DEF Absent, committed
    <3>6. MutatorActive(r) => Reading(r)'
      BY <2>1, <3>1, <3>2, <3>4, <3>5 DEF Turn, Reading
    <3>7. MutatorActive(r) => Writing(r)' /\ Auditing(r)'
      BY <2>1, <3>1, WritingKept, AuditingKept DEF Turn
    <3> QED BY <2>1, <3>1, <3>6, <3>7 DEF Turn, Unanswered, MutatorActive, Active
  <2> QED BY <2>2, <2>3 DEF TurnInv
<1> QED BY <1>1, <1>2 DEF Next, StepOf, AllAnswered

-----------------------------------------------------------------------------
(* The refinement: what the contract sees of a step.                       *)

\* The operations and replies the contract knows of: those of mutations.
Asked == [r \in Reqs |-> IF r \in Mutators THEN op[r] ELSE None]
Answered == [r \in Reqs |-> IF r \in Mutators THEN reply[r] ELSE NoReply]

LEMMA ContractInit == Init => Contract!Init
<1> SUFFICES ASSUME Init PROVE Contract!Init
  OBVIOUS
<1>1. Mutators = {}
  BY DEF Init, Mutators
<1>2. Asked = [r \in Reqs |-> None] /\ Answered = [r \in Reqs |-> NoReply]
  BY <1>1 DEF Asked, Answered
<1> QED BY <1>2, ContractData DEF Init, Contract!Init, Asked, Answered

LEMMA Stutters ==
  ASSUME UNCHANGED <<committed, reply>>, \A s \in Reqs : op'[s] = op[s]
  PROVE  UNCHANGED Contract!vars
<1>1. Asked' = Asked /\ Answered' = Answered
  BY DEF Asked, Answered, Mutators
<1> QED BY <1>1 DEF Contract!vars, committed, Asked, Answered

LEMMA ReceiveAsks ==
  ASSUME StoreInv, NEW r \in Reqs, Turn(r), NEW o \in Workload[r], Receive(r, o)
  PROVE  Contract!Ask(r) \/ UNCHANGED Contract!vars
<1>1. /\ o \in Op /\ o # None /\ op[r] = None /\ reply[r] = NoReply
      /\ op' = [op EXCEPT ![r] = o] /\ op \in [Reqs -> Op \cup {None}]
      /\ UNCHANGED <<committed, reply>>
  BY FlagDataAssumption DEF FlagDataAssumption, Receive, Turn, Unanswered, StoreInv, TypeOK
<1>2. r \notin Mutators /\ Asked[r] = None /\ Answered[r] = NoReply
  BY <1>1 DEF Mutators, Asked, Answered
<1>3. CASE Mutates(o)
  <2>1. Mutators' = Mutators \cup {r}
    BY <1>1, <1>3 DEF Mutators
  <2>2. Asked' = [Asked EXCEPT ![r] = o]
    BY <1>1, <2>1 DEF Asked
  <2>3. Answered' = Answered
    BY <1>1, <1>2, <2>1 DEF Answered
  <2>4. Contract!Ask(r)
    BY <1>1, <1>2, <1>3, <2>2, <2>3, ContractData
    DEF Contract!Ask, Contract!store, committed, Asked, Answered
  <2> QED BY <2>4
<1>4. CASE ~Mutates(o)
  <2>1. Mutators' = Mutators
    BY <1>1, <1>2, <1>4 DEF Mutators
  <2>2. Asked' = Asked /\ Answered' = Answered
    BY <1>1, <1>2, <2>1 DEF Asked, Answered
  <2> QED BY <1>1, <2>2 DEF Contract!vars, committed, Asked, Answered
<1> QED BY <1>3, <1>4

\* What a request's end looks like to the contract.
LEMMA FinishAnswers ==
  ASSUME StoreInv, NEW r \in Reqs, Turn(r), pc[r] \notin {"idle", "done"},
         NEW status, NEW version, Finish(r, status, version)
  PROVE  /\ Asked' = Asked
         /\ r \notin Mutators => Answered' = Answered
         /\ r \in Mutators => /\ Asked[r] = op[r] /\ op[r] # None /\ Answered[r] = NoReply
                              /\ Answered' = [Answered EXCEPT ![r] = [status |-> status, version |-> version]]
<1>1. /\ op' = op /\ reply[r] = NoReply /\ reply' = [reply EXCEPT ![r] = [status |-> status, version |-> version]]
      /\ reply \in [Reqs -> Reply]
  BY DEF Finish, Turn, Unanswered, StoreInv, TypeOK
<1>2. Mutators' = Mutators
  BY <1>1 DEF Mutators
<1> QED BY <1>1, <1>2 DEF Asked, Answered, Mutators

LEMMA RollbackRefuses ==
  ASSUME StoreInv, NEW r \in Reqs, Turn(r), pc[r] \notin {"idle", "done"},
         NEW status \in Status, Rollback(r, status),
         r \in Mutators => Contract!Justified(op[r], status)
  PROVE  Contract!Refuse(r) \/ UNCHANGED Contract!vars
<1>1. Finish(r, status, 0) /\ UNCHANGED committed
  BY DEF Rollback
<1>2. CASE r \notin Mutators
  BY <1>1, <1>2, FinishAnswers DEF Contract!vars, committed, Asked, Answered
<1>3. CASE r \in Mutators
  <2>1. /\ Asked' = Asked /\ Asked[r] = op[r] /\ op[r] # None /\ Answered[r] = NoReply
        /\ Answered' = [Answered EXCEPT ![r] = [status |-> status, version |-> 0]]
    BY <1>1, <1>3, FinishAnswers
  <2>2. Contract!Open(r)
    BY <2>1, ContractData DEF Contract!Open, Asked, Answered
  <2>3. Contract!Justified(Asked[r], status)
    BY <1>3, <2>1
  <2>4. Contract!Refuse(r)
    BY <1>1, <2>1, <2>2, <2>3, ContractData DEF Contract!Refuse, Contract!store, committed, Asked, Answered
  <2> QED BY <2>4
<1> QED BY <1>2, <1>3

(* Every refusal is justified by the committed rows at its moment: what the *)
(* request read about its own flag has not changed since.                  *)
LEMMA RefusalStep ==
  ASSUME StoreInv, OnceInv, NEW r \in Reqs, Turn(r),
         \/ AnswerRead(r) \/ NotFoundConfig(r) \/ VersionConflict(r) \/ UniqueViolation(r)
         \/ DuplicateKey(r) \/ NotFoundFlag(r) \/ ConnectionLost(r) \/ DeadlockDetected(r)
  PROVE  Contract!Refuse(r) \/ UNCHANGED Contract!vars
<1>1. ASSUME pc[r] \notin {"idle", "done"}, NEW status \in Status, Rollback(r, status),
             r \in Mutators => Contract!Justified(op[r], status)
      PROVE  Contract!Refuse(r) \/ UNCHANGED Contract!vars
  BY <1>1, RollbackRefuses
<1>2. /\ {"ok", "notFound", "duplicate", "conflict", "error"} \subseteq Status
      /\ Contract!Justified(op[r], "error") /\ ReadOutcome(r) \in Status
  BY DEF Status, Contract!Justified, ReadOutcome
<1>3. pc[r] \notin {"idle", "done"} /\ GivesUp(r)
  BY RollbackGivesUp DEF GivesUp
<1>4. CASE AnswerRead(r)
  <2>1. r \notin Mutators
    BY <1>4 DEF AnswerRead, OnceInv, OnlyReads, Mutators
  <2> QED BY <1>1, <1>2, <1>3, <1>4, <2>1 DEF AnswerRead
<1>5. CASE NotFoundConfig(r)
  <2>1. /\ configRow[<<op[r].flag, op[r].env>>] = None /\ OnConfig(op[r])
    BY <1>5, FoundIsCommitted DEF NotFoundConfig
  <2>2. Contract!Justified(op[r], "notFound")
    BY <2>1, ContractData DEF Contract!Justified
  <2> QED BY <1>1, <1>2, <1>3, <1>5, <2>2 DEF NotFoundConfig
<1>6. CASE VersionConflict(r)
  <2>1. /\ configRow[<<op[r].flag, op[r].env>>] # None /\ OnConfig(op[r])
        /\ configRow[<<op[r].flag, op[r].env>>].version # op[r].expected
    BY <1>6, FoundIsCommitted DEF VersionConflict
  <2>2. Contract!Justified(op[r], "conflict")
    BY <2>1, ContractData DEF Contract!Justified, Contract!CurrentVersion
  <2> QED BY <1>1, <1>2, <1>3, <1>6, <2>2 DEF VersionConflict
<1>7. CASE UniqueViolation(r)
  BY <1>1, <1>2, <1>3, <1>7 DEF UniqueViolation
<1>8. CASE DuplicateKey(r)
  <2>1. Contract!Justified(op[r], "duplicate")
    BY <1>8 DEF DuplicateKey, StoreInv, Protocol, Contract!Justified
  <2> QED BY <1>1, <1>2, <1>3, <1>8, <2>1 DEF DuplicateKey
<1>9. CASE NotFoundFlag(r)
  <2>1. Contract!Justified(op[r], "notFound")
    BY <1>9 DEF NotFoundFlag, Contract!Justified
  <2> QED BY <1>1, <1>2, <1>3, <1>9, <2>1 DEF NotFoundFlag
<1>10. CASE ConnectionLost(r)
  BY <1>1, <1>2, <1>3, <1>10 DEF ConnectionLost
<1>11. CASE DeadlockDetected(r)
  BY <1>1, <1>2, <1>3, <1>11 DEF DeadlockDetected
<1> QED BY <1>4, <1>5, <1>6, <1>7, <1>8, <1>9, <1>10, <1>11

(* COMMIT makes committed what the transaction saw. *)
LEMMA CommitShows ==
  ASSUME StoreInv, NEW r \in Reqs, Apply(r), op[r].flag \in Flags
  PROVE  \A Q : Sight(r, Q) = Rows(Q)'
<1>1. \A f \in Flags : Sees(r, FlagQuery(f)) = flagRow'[f]
  BY DEF Apply, Sees, FlagQuery, StoreInv, TypeOK
<1>2. \A x \in Refs : Sees(r, <<"config", x>>) = configRow'[x]
  BY DEF Apply, Sees
<1>3. \A x \in Refs : Sees(r, <<"rules", x>>) = child'["rules"][x]
  BY DEF Apply, Sees, Tables
<1>4. \A x \in Refs : Sees(r, <<"overrides", x>>) = child'["overrides"][x]
  BY DEF Apply, Sees, Tables
<1> QED BY <1>1, <1>2, <1>3, <1>4 DEF Sight, Rows

\* The scope of an audit row, where the flag is there and where it is not.
LEMMA Scopes ==
  ASSUME NEW o \in Op, OnConfig(o) \/ o.kind \in {"create", "archive"}
  PROVE  /\ OnConfig(o) \/ flagRow[o.flag] # None => Contract!Scope(o) = Aggregate(o)
         /\ OnConfig(o) \/ flagRow'[o.flag] # None => Contract!Scope(o)' = Aggregate(o)
         /\ o.kind = "create" /\ flagRow[o.flag] = None => Contract!Scope(o) = {}
<1>1. OnConfig(o) <=> o.kind \notin {"create", "archive"}
  BY DEF OnConfig, Tables
<1>2. CASE OnConfig(o)
  BY <1>1, <1>2, ContractData DEF Contract!Scope, Aggregate
<1>3. CASE ~OnConfig(o)
  BY <1>1, <1>3, ContractData DEF Contract!Scope, Aggregate
<1> QED BY <1>2, <1>3

Ends(r, v) == Finish(r, "ok", v) \/ Finish(r, "error", 0)

\* The audit row and the answer of a COMMIT are those of the contract.
LEMMA CommitIsDone ==
  ASSUME StoreInv, NEW r \in Reqs, Turn(r), pc[r] = "commit", Apply(r), NEW v, Ends(r, v),
         Contract!Stored(Contract!Scope(op[r])) = before[r],
         OnConfig(op[r]) \/ flagRow'[op[r].flag] # None
  PROVE  Contract!Open(r) /\ Asked[r] = op[r] /\ Contract!Done(r, v)
<1>1. MutatorActive(r) /\ r \in Mutators
  BY NoneIsNoRow DEF StoreInv, Protocol, MutatorActive, Active, Mutates, Mutators
<1>2. /\ op[r] \in Op /\ op[r].flag \in Flags /\ (OnConfig(op[r]) \/ op[r].kind \in {"create", "archive"})
  BY <1>1, MutatorFacts
<1>3. PICK o \in Op : o = op[r]
  BY <1>2
<1>4. PICK Q : Q = Aggregate(o)
  OBVIOUS
<1>5. PICK ack \in {[status |-> "ok", version |-> v], [status |-> "error", version |-> 0]} :
        Finish(r, ack.status, ack.version) /\ ack = [status |-> ack.status, version |-> ack.version]
  <2>1. CASE Finish(r, "ok", v)
    <3> DEFINE a == [status |-> "ok", version |-> v]
    <3>1. a.status = "ok" /\ a.version = v
      OBVIOUS
    <3> QED BY <2>1, <3>1
  <2>2. CASE Finish(r, "error", 0)
    <3> DEFINE a == [status |-> "error", version |-> 0]
    <3>1. a.status = "error" /\ a.version = 0
      OBVIOUS
    <3> QED BY <2>2, <3>1
  <2> QED BY <2>1, <2>2 DEF Ends
<1>6. /\ Asked' = Asked /\ Asked[r] = o /\ o # None /\ Answered[r] = NoReply
      /\ Answered' = [Answered EXCEPT ![r] = ack]
  BY <1>1, <1>3, <1>5, FinishAnswers
<1>7. Contract!Open(r)
  BY <1>6, ContractData DEF Contract!Open, Asked, Answered
<1>8. /\ w[r].audit = [by |-> r, op |-> o, before |-> before[r], after |-> Sight(r, Q)]
      /\ audit' = Append(audit, w[r].audit)
  BY <1>1, <1>3, <1>4 DEF Turn, Auditing, Apply
<1>9. Contract!Scope(o)' = Q /\ Contract!Stored(Q)' = Sight(r, Q)
  BY <1>2, <1>3, <1>4, Scopes, StoredRows, CommitShows
<1>10. Contract!Stored(Contract!Scope(Asked[r]))' = Sight(r, Q)
  <2>1. Asked'[r] = o
    BY <1>6
  <2> QED BY <1>9, <2>1
<1>11. Contract!Stored(Contract!Scope(Asked[r])) = before[r]
  BY <1>3, <1>6
<1>12. Contract!Done(r, v)
  BY <1>6, <1>8, <1>10, <1>11 DEF Contract!Done, Asked, Answered
<1> QED BY <1>3, <1>6, <1>7, <1>12

\* A COMMIT that writes no rules and no overrides leaves them.
LEMMA ChildrenStay ==
  ASSUME StoreInv, NEW r \in Reqs, Apply(r), op[r].kind \notin Tables
  PROVE  child' = child
<1>1. child \in [Tables -> [Refs -> SUBSET Row]]
  BY DEF StoreInv, TypeOK
<1>2. child' = [t \in Tables |-> [x \in Refs |-> RowsSeen(r, t, x)]]
  BY DEF Apply
<1>3. \A t \in Tables, x \in Refs : RowsSeen(r, t, x) = child[t][x]
  BY DEF RowsSeen
<1>4. \A t \in Tables : child'[t] = child[t]
  <2> SUFFICES ASSUME NEW t \in Tables PROVE child'[t] = child[t]
    OBVIOUS
  <2>1. child'[t] = [x \in Refs |-> child[t][x]]
    BY <1>2, <1>3
  <2>2. child[t] \in [Refs -> SUBSET Row]
    BY <1>1
  <2> QED BY <2>1, <2>2
<1> QED BY <1>1, <1>2, <1>4

LEMMA CommitCreates ==
  ASSUME StoreInv, LockInv, NEW r \in Reqs, Turn(r), pc[r] = "commit", Apply(r),
         op[r].kind = "create", Ends(r, 1)
  PROVE  Contract!Create(r)
<1>1. MutatorActive(r) /\ w[r].flag = NewFlagRow /\ \A e \in Envs : w[r].cfg[e] = NewConfigRow
  BY DEF MutatorActive, Active, Mutates, Turn, Writing, Written
<1>2. PICK f \in Flags : f = op[r].flag
  BY <1>1, MutatorFacts
<1>3. NewFlagRow # None /\ NewConfigRow # None
  BY DefaultRow, NoneIsNoRow
<1>4. flagRow[f] = None
  BY <1>1, <1>2, <1>3 DEF LockInv, CreatesNew
<1>5. flagRow' = [flagRow EXCEPT ![f] = NewFlagRow]
  BY <1>1, <1>2, <1>3 DEF Apply
<1>6. configRow' = [x \in Refs |-> IF x[1] = f THEN NewConfigRow ELSE configRow[x]]
  BY <1>1, <1>2, <1>3 DEF Apply, Refs
<1>7. child' = child
  BY ChildrenStay DEF Tables
<1>8. Contract!Stored(Contract!Scope(op[r])) = before[r]
  <2>1. Contract!Scope(op[r]) = {}
    BY <1>1, <1>2, <1>4, MutatorFacts, Scopes
  <2>2. Contract!Stored({}) = Rows({})
    BY StoredRows
  <2>3. Rows({}) = NothingRead
    BY DEF Rows, NothingRead
  <2> QED BY <1>1, <2>1, <2>2, <2>3 DEF Turn, Auditing
<1>9. flagRow'[f] # None
  BY <1>2, <1>3, <1>5 DEF StoreInv, TypeOK
<1>10. Contract!Open(r) /\ Asked[r] = op[r] /\ Contract!Done(r, 1)
  BY <1>2, <1>8, <1>9, CommitIsDone
<1> QED BY <1>2, <1>4, <1>5, <1>6, <1>7, <1>10, ContractData DEF Contract!Create, Asked

LEMMA CommitArchives ==
  ASSUME StoreInv, NEW r \in Reqs, Turn(r), pc[r] = "commit", Apply(r),
         op[r].kind = "archive", Ends(r, 0)
  PROVE  Contract!Archive(r)
<1>1. /\ MutatorActive(r) /\ w[r].flag = [archivedAt |-> r] /\ before[r] = Rows(Aggregate(op[r]))
  BY DEF MutatorActive, Active, Mutates, Turn, Writing, Written, Auditing
<1>2. PICK f \in Flags : f = op[r].flag
  BY <1>1, MutatorFacts
<1>3. [archivedAt |-> r] # None /\ flagRow[f] # None /\ NoConfigWritten(r)
  <2>1. [archivedAt |-> r] \in FlagRow
    BY DEF FlagRow
  <2> QED BY <1>1, <1>2, <2>1, NoneIsNoRow, MutatorFacts DEF StoreInv, Protocol
<1>4. flagRow' = [flagRow EXCEPT ![f] = [archivedAt |-> r]]
  BY <1>1, <1>2, <1>3 DEF Apply
<1>5. configRow' = configRow
  <2>1. configRow' = [x \in Refs |-> configRow[x]]
    BY <1>3 DEF Apply, NoConfigWritten, Refs
  <2> QED BY <2>1 DEF StoreInv, TypeOK
<1>6. child' = child
  BY ChildrenStay DEF Tables
<1>7. Contract!Stored(Contract!Scope(op[r])) = before[r]
  <2>1. Contract!Scope(op[r]) = Aggregate(op[r])
    BY <1>1, <1>2, <1>3, MutatorFacts, Scopes
  <2> QED BY <1>1, <2>1, StoredRows
<1>8. flagRow'[f] # None
  BY <1>2, <1>3, <1>4 DEF StoreInv, TypeOK
<1>9. Contract!Open(r) /\ Asked[r] = op[r] /\ Contract!Done(r, 0)
  BY <1>2, <1>7, <1>8, CommitIsDone
<1> QED BY <1>2, <1>3, <1>4, <1>5, <1>6, <1>9 DEF Contract!Archive, Asked

\* What a COMMIT of a configuration's next version finds and leaves.
LEMMA CommitBumps ==
  ASSUME StoreInv, NEW r \in Reqs, Turn(r), pc[r] = "commit", Apply(r), OnConfig(op[r]),
         Ends(r, op[r].expected + 1), NEW cols, Bumped(r, cols)
  PROVE  /\ Ref(r) = <<op[r].flag, op[r].env>> /\ Ref(r) \in Refs
         /\ Contract!CurrentVersion(op[r]) /\ configRow[Ref(r)] \in ConfigRow
         /\ flagRow' = flagRow
         /\ configRow' = [configRow EXCEPT ![Ref(r)] = [cols |-> cols, version |-> @.version + 1]]
         /\ Contract!Open(r) /\ Asked[r] = op[r] /\ Contract!Done(r, op[r].expected + 1)
<1>1. MutatorActive(r)
  BY DEF MutatorActive, Active, Mutates
<1>2. /\ op[r] \in Op /\ op[r].flag \in Flags /\ op[r].env \in Envs /\ op[r].expected \in Nat
      /\ Ref(r) = <<op[r].flag, op[r].env>> /\ Ref(r) \in Refs
      /\ op[r].kind \notin {"create", "archive"}
  BY <1>1, MutatorFacts
<1>3. /\ w[r].flag = None /\ configRow[Ref(r)] # None
      /\ \A e \in Envs : w[r].cfg[e] # None => e = op[r].env
  BY <1>2 DEF StoreInv, Protocol
<1>4. configRow[Ref(r)] \in ConfigRow /\ configRow \in [Refs -> ConfigRow \cup {None}]
  BY <1>2, <1>3 DEF StoreInv, TypeOK
<1>5. configRow[Ref(r)].version = op[r].expected
  BY DEF Bumped
<1>6. /\ w[r].cfg[op[r].env] = [cols |-> cols, version |-> configRow[Ref(r)].version + 1]
      /\ w[r].cfg[op[r].env] # None
  BY <1>2, <1>5 DEF Bumped, StoreInv, Protocol
<1>7. flagRow' = flagRow
  BY <1>3 DEF Apply
<1>8. configRow' = [configRow EXCEPT ![Ref(r)] = [cols |-> cols, version |-> @.version + 1]]
  <2>1. ASSUME NEW x \in Refs
        PROVE  configRow'[x] = IF x = Ref(r) THEN w[r].cfg[op[r].env] ELSE configRow[x]
    <3>1. x = <<x[1], x[2]>> /\ x[1] \in Flags /\ x[2] \in Envs
      BY DEF Refs
    <3>2. configRow'[x] = IF x[1] = op[r].flag /\ w[r].cfg[x[2]] # None THEN w[r].cfg[x[2]] ELSE configRow[x]
      BY DEF Apply
    <3> QED BY <1>2, <1>3, <1>6, <3>1, <3>2
  <2>2. configRow' = [x \in Refs |-> IF x = Ref(r) THEN w[r].cfg[op[r].env] ELSE configRow[x]]
    <3>1. configRow' = [x \in Refs |-> configRow'[x]]
      BY DEF Apply
    <3> QED BY <2>1, <3>1
  <2> QED BY <1>4, <1>6, <2>2
<1>9. Contract!CurrentVersion(op[r])
  BY <1>2, <1>3, <1>5 DEF Contract!CurrentVersion
<1>10. Contract!Stored(Contract!Scope(op[r])) = before[r]
  <2>1. Contract!Scope(op[r]) = Aggregate(op[r])
    BY <1>2, Scopes
  <2>2. before[r] = Rows(Aggregate(op[r]))
    BY <1>1, <1>3 DEF Turn, Auditing
  <2> QED BY <2>1, <2>2, StoredRows
<1>11. Contract!Open(r) /\ Asked[r] = op[r] /\ Contract!Done(r, op[r].expected + 1)
  <2>1. PICK v : v = op[r].expected + 1
    OBVIOUS
  <2>2. Ends(r, v)
    BY <2>1
  <2>3. Contract!Open(r) /\ Asked[r] = op[r] /\ Contract!Done(r, v)
    BY <1>2, <1>10, <2>2, CommitIsDone
  <2> QED BY <2>1, <2>3 DEF Contract!Done
<1> QED BY <1>2, <1>4, <1>7, <1>8, <1>9, <1>11

LEMMA CommitUpdates ==
  ASSUME StoreInv, NEW r \in Reqs, Turn(r), pc[r] = "commit", Apply(r), op[r].kind = "config",
         Ends(r, op[r].expected + 1)
  PROVE  Contract!Update(r)
<1>1. OnConfig(op[r]) /\ op[r].kind \notin Tables
  BY DEF OnConfig, Tables
<1>2. PICK cols : cols = Patched(configRow[Ref(r)].cols, op[r].patch)
  OBVIOUS
<1>3. Bumped(r, cols)
  BY <1>1, <1>2 DEF Turn, MutatorActive, Active, Mutates, Writing, Written
<1>4. /\ Ref(r) = <<op[r].flag, op[r].env>> /\ Ref(r) \in Refs
      /\ Contract!CurrentVersion(op[r]) /\ flagRow' = flagRow
      /\ configRow' = [configRow EXCEPT ![Ref(r)] = [cols |-> cols, version |-> @.version + 1]]
      /\ Contract!Open(r) /\ Asked[r] = op[r] /\ Contract!Done(r, op[r].expected + 1)
  BY <1>1, <1>3, CommitBumps
<1>5. child' = child
  BY <1>1, ChildrenStay
<1>6. configRow' = [configRow EXCEPT ![<<op[r].flag, op[r].env>>] =
                      [cols |-> Patched(@.cols, op[r].patch), version |-> @.version + 1]]
  BY <1>2, <1>4 DEF StoreInv, TypeOK
<1>7. \A c, p : Contract!Patched(c, p) = Patched(c, p)
  BY DEF Contract!Patched, Patched
<1> QED BY <1>4, <1>5, <1>6, <1>7 DEF Contract!Update, Contract!Done, Asked

LEMMA CommitReplaces ==
  ASSUME StoreInv, NEW r \in Reqs, Turn(r), pc[r] = "commit", Apply(r), op[r].kind \in Tables,
         Ends(r, op[r].expected + 1)
  PROVE  Contract!Replace(r)
<1>1. OnConfig(op[r]) /\ op[r].kind \notin {"create", "archive", "config"} /\ MutatorActive(r)
  BY DEF OnConfig, Tables, MutatorActive, Active, Mutates
<1>2. PICK cols : cols = configRow[Ref(r)].cols
  OBVIOUS
<1>3. /\ Bumped(r, cols)
      /\ w[r].del = MyRows(r) /\ w[r].ins = RowsOf(r, op[r].body) /\ KeysUnique(op[r].body)
  BY <1>1, <1>2 DEF Turn, Writing, Written
<1>4. /\ Ref(r) = <<op[r].flag, op[r].env>> /\ Ref(r) \in Refs
      /\ Contract!CurrentVersion(op[r]) /\ flagRow' = flagRow /\ configRow[Ref(r)] \in ConfigRow
      /\ configRow' = [configRow EXCEPT ![Ref(r)] = [cols |-> cols, version |-> @.version + 1]]
      /\ Contract!Open(r) /\ Asked[r] = op[r] /\ Contract!Done(r, op[r].expected + 1)
  BY <1>1, <1>3, CommitBumps
<1>5. configRow' = [configRow EXCEPT ![<<op[r].flag, op[r].env>>].version = @ + 1]
  <2>1. configRow[Ref(r)] = [cols |-> cols, version |-> configRow[Ref(r)].version]
    BY <1>2, <1>4 DEF ConfigRow
  <2>2. [configRow[Ref(r)] EXCEPT !.version = @ + 1] = [cols |-> cols, version |-> configRow[Ref(r)].version + 1]
    BY <2>1
  <2> QED BY <1>4, <2>2 DEF StoreInv, TypeOK
<1>6. child' = [child EXCEPT ![op[r].kind][<<op[r].flag, op[r].env>>] = RowsOf(r, op[r].body)]
  <2>1. PICK t \in Tables : t = op[r].kind
    OBVIOUS
  <2>2. PICK x \in Refs : x = Ref(r)
    BY <1>4
  <2>3. PICK rows : rows = RowsOf(r, op[r].body)
    OBVIOUS
  <2>4. child \in [Tables -> [Refs -> SUBSET Row]]
    BY DEF StoreInv, TypeOK
  <2>5. child' = [u \in Tables |-> [y \in Refs |-> RowsSeen(r, u, y)]]
    BY DEF Apply
  <2>6. \A u \in Tables, y \in Refs : RowsSeen(r, u, y) = IF u = t /\ y = x THEN rows ELSE child[u][y]
    BY <1>1, <1>3, <2>1, <2>2, <2>3 DEF RowsSeen, On, MyRows
  <2>7. child' = [u \in Tables |-> IF u = t THEN [child[u] EXCEPT ![x] = rows] ELSE child[u]]
    <3>1. \A u \in Tables : child'[u] = IF u = t THEN [child[u] EXCEPT ![x] = rows] ELSE child[u]
      <4> SUFFICES ASSUME NEW u \in Tables
                   PROVE  child'[u] = IF u = t THEN [child[u] EXCEPT ![x] = rows] ELSE child[u]
        OBVIOUS
      <4>1. child'[u] = [y \in Refs |-> IF u = t /\ y = x THEN rows ELSE child[u][y]]
        BY <2>5, <2>6
      <4>2. child[u] \in [Refs -> SUBSET Row]
        BY <2>4
      <4> QED BY <4>1, <4>2
    <3>2. child' = [u \in Tables |-> child'[u]]
      BY <2>5
    <3> QED BY <3>1, <3>2
  <2>8. child' = [child EXCEPT ![t][x] = rows]
    BY <2>4, <2>7
  <2> QED BY <1>4, <2>1, <2>2, <2>3, <2>8
<1>7. Contract!KeysUnique(op[r].body)
  BY <1>3 DEF Contract!KeysUnique, KeysUnique
<1>8. \A b : Contract!RowsOf(r, b) = RowsOf(r, b)
  BY DEF Contract!RowsOf, RowsOf
<1>9. Contract!Tables = Tables
  BY ContractData
<1> QED BY <1>4, <1>5, <1>6, <1>7, <1>8, <1>9 DEF Contract!Replace, Contract!Done, Asked

LEMMA CommitStep ==
  ASSUME StoreInv, LockInv, NEW r \in Reqs, Turn(r), Commit(r) \/ CommitUnacknowledged(r)
  PROVE  Contract!Next
<1>1. pc[r] = "commit" /\ Apply(r) /\ (Finish(r, "ok", NewVersion(r)) \/ Finish(r, "error", 0))
  BY DEF Commit, CommitUnacknowledged
<1>2. MutatorActive(r)
  BY <1>1, NoneIsNoRow DEF StoreInv, Protocol, MutatorActive, Active, Mutates
<1>3. CASE op[r].kind = "create"
  <2>1. NewVersion(r) = 1
    BY <1>3 DEF NewVersion, OnConfig, Tables
  <2>2. Ends(r, 1)
    BY <1>1, <2>1 DEF Ends
  <2>3. Contract!Create(r)
    BY <1>1, <1>3, <2>2, CommitCreates
  <2> QED BY <2>3 DEF Contract!Next
<1>4. CASE op[r].kind = "archive"
  <2>1. NewVersion(r) = 0
    BY <1>4 DEF NewVersion, OnConfig, Tables
  <2>2. Ends(r, 0)
    BY <1>1, <2>1 DEF Ends
  <2>3. Contract!Archive(r)
    BY <1>1, <1>4, <2>2, CommitArchives
  <2> QED BY <2>3 DEF Contract!Next
<1>5. CASE OnConfig(op[r])
  <2>1. PICK v : v = op[r].expected + 1
    OBVIOUS
  <2>2. w[r].cfg[op[r].env].version = v
    <3>1. op[r].kind \notin {"create", "archive"}
      BY <1>5 DEF OnConfig, Tables
    <3>2. \E cols : Bumped(r, cols)
      BY <1>1, <1>2, <3>1 DEF Turn, Writing, Written
    <3> QED BY <2>1, <3>2 DEF Bumped
  <2>3. NewVersion(r) = v
    BY <1>5, <2>2 DEF NewVersion, OnConfig, Tables
  <2>4. Ends(r, op[r].expected + 1)
    BY <1>1, <2>1, <2>3 DEF Ends
  <2>5. Contract!Update(r) \/ Contract!Replace(r)
    BY <1>1, <1>5, <2>4, CommitUpdates, CommitReplaces DEF OnConfig
  <2> QED BY <2>5 DEF Contract!Next
<1> QED BY <1>2, <1>3, <1>4, <1>5 DEF MutatorActive, Mutates

(***************************************************************************)
(* A step of the store is one of the contract or stutters: requests that   *)
(* go on stutter, refusals are justified, and a COMMIT is the whole        *)
(* mutation at once.                                                       *)
(***************************************************************************)
LEMMA RefineStep ==
  ASSUME StoreInv, OnceInv, LockInv, TurnInv, [Next]_vars
  PROVE  Contract!Next \/ UNCHANGED Contract!vars
<1>1. ASSUME NEW r \in Reqs, StepOf(r) PROVE Contract!Next \/ UNCHANGED Contract!vars
  <2>1. Turn(r)
    BY DEF TurnInv
  <2>2. CASE \E o \in Workload[r] : Receive(r, o)
    BY <2>1, <2>2, ReceiveAsks DEF Contract!Next
  <2>3. CASE Commit(r) \/ CommitUnacknowledged(r)
    BY <2>1, <2>3, CommitStep
  <2>4. CASE \/ AnswerRead(r) \/ NotFoundConfig(r) \/ VersionConflict(r) \/ UniqueViolation(r)
             \/ DuplicateKey(r) \/ NotFoundFlag(r) \/ ConnectionLost(r) \/ DeadlockDetected(r)
    BY <2>1, <2>4, RefusalStep DEF Contract!Next
  <2>5. CASE \/ Select(r) \/ Recheck(r) \/ UpdateConfig(r) \/ StartDelete(r) \/ FinishDelete(r)
             \/ InsertRow(r) \/ BumpVersion(r) \/ InsertFlag(r) \/ InsertConfig(r)
             \/ ReadCreated(r) \/ StampArchive(r) \/ RecordAudit(r)
    <3>1. UNCHANGED <<committed, reply, op>>
      BY <2>5 DEF Select, Recheck, UpdateConfig, StartDelete, FinishDelete, InsertRow, BumpVersion,
                  InsertFlag, InsertConfig, ReadCreated, StampArchive, RecordAudit
    <3> QED BY <3>1, Stutters
  <2> QED BY <1>1, <2>2, <2>3, <2>4, <2>5 DEF StepOf, Statement
<1>2. CASE UNCHANGED vars
  BY <1>2, Stutters DEF vars, committed
<1> QED BY <1>1, <1>2 DEF Next, StepOf, AllAnswered

\* ImplementsContract, for every value of the constants under which clients never
\* have two mutations of one flag in flight: each mutation takes effect at its
\* COMMIT, whole, exactly when its version is current, with one audit row of what
\* the store held right before and right after it, and each refusal is true of the
\* rows committed at that moment.  (PgLostUpdate shows what breaks it otherwise.)
THEOREM ContractHolds == ExclusiveWriters => (Spec => ImplementsContract)
<1> SUFFICES ASSUME ExclusiveWriters PROVE Spec => ImplementsContract
  OBVIOUS
<1>1. Init => StoreInv /\ OnceInv /\ LockInv /\ TurnInv
  BY StoreInvInit, OnceInit, LockInit, TurnInit
<1>2. /\ StoreInv /\ OnceInv /\ LockInv /\ TurnInv /\ [Next]_vars
      => StoreInv' /\ OnceInv' /\ LockInv' /\ TurnInv'
  BY StoreInvNext, OnceNext, LockNext, TurnNext
<1>3. StoreInv /\ OnceInv /\ LockInv /\ TurnInv /\ [Next]_vars => [Contract!Next]_(Contract!vars)
  BY RefineStep
<1> QED BY <1>1, <1>2, <1>3, ContractInit, PTL DEF Spec, ImplementsContract, Contract!Spec

-----------------------------------------------------------------------------
(* What follows from the contract for the audit log: an entry on a         *)
(* configuration holds what was committed right before and right after it, *)
(* and no other step changes a configuration that is there.                *)

Concerns(o, x) == OnConfig(o) /\ <<o.flag, o.env>> = x
\* The snapshot s shows the committed configuration, rules and overrides of x.
Shows(s, x) ==
  s.config[x] = configRow[x] /\ s.rules[x] = child["rules"][x] /\ s.overrides[x] = child["overrides"][x]

Rewritten(e, x) ==
  /\ configRow[x] \in ConfigRow /\ configRow'[x] \in ConfigRow
  /\ configRow'[x].version = configRow[x].version + 1
  /\ Shows(e.before, x) /\ Shows(e.after, x)'
Kept(x) ==
  /\ \/ configRow'[x] = configRow[x]
     \/ configRow[x] = None /\ configRow'[x] = NewConfigRow
  /\ \A t \in Tables : child'[t][x] = child[t][x]
Logged(e) ==
  /\ audit' = Append(audit, e)
  /\ \A x \in Refs : IF Concerns(e.op, x) THEN Rewritten(e, x) ELSE Kept(x)

\* What the contract appends to the log for a mutation of a configuration.
LEMMA DoneShows ==
  ASSUME StoreInv, NEW r \in Reqs, NEW o \in Op, o = Asked[r], OnConfig(o),
         NEW v, Contract!Done(r, v)
  PROVE  \E e : /\ audit' = Append(audit, e) /\ e.op = o
                /\ Shows(e.before, <<o.flag, o.env>>) /\ Shows(e.after, <<o.flag, o.env>>)'
<1> DEFINE Q == Aggregate(o)
           x == <<o.flag, o.env>>
<1>1. Contract!Scope(o) = Q /\ Contract!Scope(o)' = Q
  BY Scopes
<1>2. Asked'[r] = o
  BY DEF Contract!Done, Asked
<1>3. Contract!Stored(Contract!Scope(Asked[r])) = Rows(Q)
  BY <1>1, StoredRows
<1>4. Contract!Stored(Contract!Scope(Asked[r]))' = Rows(Q)'
  BY <1>1, <1>2, StoredRows
<1>5. PICK a, b : a = Rows(Q)' /\ b = Rows(Q)
  OBVIOUS
<1>6. PICK e : audit' = Append(audit, e) /\ e = [by |-> r, op |-> o, before |-> b, after |-> a]
  BY <1>3, <1>4, <1>5 DEF Contract!Done, Asked
<1>7. x \in Refs
  BY OpFields DEF Refs
<1>8. {<<"config", x>>, <<"rules", x>>, <<"overrides", x>>} \subseteq Q
  <2>1. Details[1] = "config" /\ Details[2] = "rules" /\ Details[3] = "overrides" /\ DOMAIN Details = 1 .. 3
    BY DEF Details
  <2> QED BY <2>1 DEF Aggregate, ConfigQueries
<1>9. Shows(b, x) /\ Shows(a, x)'
  BY <1>5, <1>7, <1>8 DEF Shows, Rows
<1>10. e.op = o /\ e.before = b /\ e.after = a
  BY <1>6
<1> QED BY <1>6, <1>9, <1>10

LEMMA ContractLogs ==
  ASSUME StoreInv, NEW r \in Reqs,
         Contract!Create(r) \/ Contract!Archive(r) \/ Contract!Update(r) \/ Contract!Replace(r)
  PROVE  \E e : Logged(e)
<1>1. PICK o \in Op : o = Asked[r]
  BY DEF Contract!Create, Contract!Archive, Contract!Update, Contract!Replace, Contract!Open,
         Asked, Mutators, StoreInv, TypeOK
<1>2. configRow \in [Refs -> ConfigRow \cup {None}] /\ child \in [Tables -> [Refs -> SUBSET Row]]
  BY DEF StoreInv, TypeOK
<1>3. ASSUME o.kind \in {"create", "archive"}, NEW v, Contract!Done(r, v), \A x \in Refs : Kept(x)
      PROVE  \E e : Logged(e)
  <2>1. PICK e : audit' = Append(audit, e) /\ e.op = o
    BY <1>1, <1>3 DEF Contract!Done, Asked
  <2>2. ~OnConfig(o)
    BY <1>3 DEF OnConfig, Tables
  <2> QED BY <1>3, <2>1, <2>2 DEF Logged, Concerns
<1>4. CASE Contract!Create(r)
  <2>1. /\ o.kind = "create" /\ flagRow[o.flag] = None /\ Contract!Done(r, 1) /\ child' = child
        /\ configRow' = [x \in Refs |-> IF x[1] = o.flag THEN NewConfigRow ELSE configRow[x]]
    BY <1>1, <1>4, ContractData DEF Contract!Create, Asked
  <2>2. \A x \in Refs : x[1] = o.flag => configRow[x] = None
    BY <1>1, <2>1, OpFields DEF StoreInv, WholeFlags, Refs
  <2>3. \A x \in Refs : Kept(x)
    BY <2>1, <2>2 DEF Kept
  <2> QED BY <1>3, <2>1, <2>3
<1>5. CASE Contract!Archive(r)
  <2>1. o.kind = "archive" /\ Contract!Done(r, 0) /\ child' = child /\ configRow' = configRow
    BY <1>1, <1>5 DEF Contract!Archive, Asked
  <2>2. \A x \in Refs : Kept(x)
    BY <2>1 DEF Kept
  <2> QED BY <1>3, <2>1, <2>2
<1>6. ASSUME OnConfig(o), Contract!CurrentVersion(o), NEW cols \in [Columns -> Values],
             configRow' = [configRow EXCEPT ![<<o.flag, o.env>>] = [cols |-> cols, version |-> @.version + 1]],
             \A t \in Tables, x \in Refs : x # <<o.flag, o.env>> => child'[t][x] = child[t][x],
             NEW v, Contract!Done(r, v)
      PROVE  \E e : Logged(e)
  <2>1. PICK y \in Refs : y = <<o.flag, o.env>>
    BY <1>6, OpFields DEF Refs
  <2>2. configRow[y] \in ConfigRow
    BY <1>2, <1>6, <2>1 DEF Contract!CurrentVersion
  <2>3. configRow'[y] = [cols |-> cols, version |-> configRow[y].version + 1]
    BY <1>2, <1>6, <2>1
  <2>4. configRow'[y] \in ConfigRow /\ configRow'[y].version = configRow[y].version + 1
    BY <1>6, <2>2, <2>3 DEF ConfigRow
  <2>5. PICK e : audit' = Append(audit, e) /\ e.op = o /\ Shows(e.before, y) /\ Shows(e.after, y)'
    BY <1>1, <1>6, <2>1, DoneShows
  <2>6. \A x \in Refs : x # y => Kept(x)
    BY <1>2, <1>6, <2>1 DEF Kept
  <2>7. \A x \in Refs : Concerns(o, x) <=> x = y
    BY <1>6, <2>1 DEF Concerns
  <2> QED BY <2>2, <2>4, <2>5, <2>6, <2>7 DEF Logged, Rewritten
<1>7. CASE Contract!Update(r)
  <2>1. o.kind = "config" /\ OnConfig(o) /\ Contract!CurrentVersion(o)
    BY <1>1, <1>7 DEF Contract!Update, Asked, OnConfig
  <2>2. PICK y \in Refs : y = <<o.flag, o.env>>
    BY <2>1, OpFields DEF Refs
  <2>3. configRow[y] \in ConfigRow
    BY <1>2, <2>1, <2>2 DEF Contract!CurrentVersion
  <2>4. PICK cols : cols = Patched(configRow[y].cols, o.patch)
    OBVIOUS
  <2>5. cols \in [Columns -> Values]
    BY <2>1, <2>3, <2>4, OpFields, PatchedType DEF ConfigRow
  <2>6. configRow' = [configRow EXCEPT ![y] = [cols |-> cols, version |-> @.version + 1]]
    BY <1>1, <1>2, <1>7, <2>2, <2>4, ContractData DEF Contract!Update, Asked
  <2>7. PICK v : Contract!Done(r, v) /\ child' = child
    BY <1>7 DEF Contract!Update, Contract!Done
  <2> QED BY <1>6, <2>1, <2>2, <2>5, <2>6, <2>7
<1>8. CASE Contract!Replace(r)
  <2>1. o.kind \in Tables /\ OnConfig(o) /\ Contract!CurrentVersion(o)
    BY <1>1, <1>8, ContractData DEF Contract!Replace, Asked, OnConfig
  <2>2. PICK y \in Refs : y = <<o.flag, o.env>>
    BY <2>1, OpFields DEF Refs
  <2>3. configRow[y] \in ConfigRow
    BY <1>2, <2>1, <2>2 DEF Contract!CurrentVersion
  <2>4. PICK cols : cols = configRow[y].cols
    OBVIOUS
  <2>5. cols \in [Columns -> Values] /\ configRow[y] = [cols |-> cols, version |-> configRow[y].version]
    BY <2>3, <2>4 DEF ConfigRow
  <2>6. configRow' = [configRow EXCEPT ![y] = [cols |-> cols, version |-> @.version + 1]]
    <3>1. configRow' = [configRow EXCEPT ![y].version = @ + 1]
      BY <1>1, <1>8, <2>2 DEF Contract!Replace, Asked
    <3>2. [configRow[y] EXCEPT !.version = @ + 1] = [cols |-> cols, version |-> configRow[y].version + 1]
      BY <2>5
    <3> QED BY <1>2, <3>1, <3>2
  <2>7. \A t \in Tables, x \in Refs : x # y => child'[t][x] = child[t][x]
    <3>1. PICK rows : child' = [child EXCEPT ![o.kind][y] = rows]
      BY <1>1, <1>8, <2>2 DEF Contract!Replace, Asked
    <3> QED BY <1>2, <2>1, <3>1
  <2>8. PICK v : Contract!Done(r, v)
    BY <1>8 DEF Contract!Replace, Contract!Done
  <2> QED BY <1>6, <2>1, <2>2, <2>5, <2>6, <2>7, <2>8
<1> QED BY <1>4, <1>5, <1>7, <1>8

\* While clients do not overlap, a step that changes the store is one of these.
LEMMA StepLogs ==
  ASSUME StoreInv, OnceInv, LockInv, TurnInv, [Next]_vars
  PROVE  UNCHANGED committed \/ \E e : Logged(e)
<1>1. CASE UNCHANGED Contract!vars
  BY <1>1 DEF Contract!vars, committed
<1>2. CASE Contract!Next
  <2>1. PICK r \in Reqs : \/ Contract!Create(r) \/ Contract!Archive(r) \/ Contract!Update(r)
                          \/ Contract!Replace(r) \/ Contract!Ask(r) \/ Contract!Refuse(r)
    BY <1>2 DEF Contract!Next
  <2>2. CASE Contract!Ask(r) \/ Contract!Refuse(r)
    BY <2>2 DEF Contract!Ask, Contract!Refuse, Contract!store, committed
  <2> QED BY <2>1, <2>2, ContractLogs
<1> QED BY <1>1, <1>2, RefineStep

LEMMA LogGrows ==
  ASSUME StoreInv, NEW e, audit' = Append(audit, e)
  PROVE  /\ DOMAIN audit \subseteq Nat /\ \A i \in DOMAIN audit : i < Len(audit) + 1
         /\ DOMAIN audit' = DOMAIN audit \cup {Len(audit) + 1} /\ Len(audit) + 1 \in Nat
         /\ audit'[Len(audit) + 1] = e
         /\ \A i \in DOMAIN audit : audit'[i] = audit[i]
  BY DEF StoreInv, TypeOK

-----------------------------------------------------------------------------
(* AuditChain.  The last entry on a configuration still shows what is      *)
(* committed, so the next one starts where it ended.                       *)

Meets(s, u, x) ==
  s.config[x] = u.config[x] /\ s.rules[x] = u.rules[x] /\ s.overrides[x] = u.overrides[x]
NextOn(i, j, x) ==
  /\ i < j /\ Concerns(audit[i].op, x) /\ Concerns(audit[j].op, x)
  /\ \A k \in DOMAIN audit : i < k /\ k < j => ~Concerns(audit[k].op, x)
LastOn(i, x) ==
  Concerns(audit[i].op, x) /\ \A k \in DOMAIN audit : i < k => ~Concerns(audit[k].op, x)
ChainInv ==
  \A x \in Refs, i \in DOMAIN audit :
    /\ \A j \in DOMAIN audit : NextOn(i, j, x) => Meets(audit[j].before, audit[i].after, x)
    /\ LastOn(i, x) => configRow[x] # None /\ Shows(audit[i].after, x)

LEMMA ChainNext ==
  ASSUME StoreInv, ChainInv, UNCHANGED committed \/ \E e : Logged(e)
  PROVE  ChainInv'
<1>1. CASE UNCHANGED committed
  BY <1>1 DEF ChainInv, NextOn, LastOn, Shows, committed
<1>2. ASSUME NEW e, Logged(e) PROVE ChainInv'
  <2> DEFINE D == DOMAIN audit
  <2>1. PICK n \in Nat : n = Len(audit) + 1
    BY <1>2, LogGrows DEF Logged
  <2>2. /\ D \subseteq Nat /\ (\A i \in D : i < n) /\ DOMAIN audit' = D \cup {n}
        /\ audit'[n] = e /\ \A i \in D : audit'[i] = audit[i]
    BY <1>2, <2>1, LogGrows DEF Logged
  <2>3. SUFFICES ASSUME NEW x \in Refs, NEW i \in DOMAIN audit'
                 PROVE  /\ \A j \in DOMAIN audit' :
                             NextOn(i, j, x)' => Meets(audit[j].before, audit[i].after, x)'
                        /\ LastOn(i, x)' => configRow'[x] # None /\ Shows(audit[i].after, x)'
    BY DEF ChainInv
  <2>4. ASSUME NEW j \in DOMAIN audit', NextOn(i, j, x)'
        PROVE  Meets(audit[j].before, audit[i].after, x)'
    <3>1. i \in D
      BY <2>2, <2>4 DEF NextOn
    <3>2. CASE j \in D
      <4>1. NextOn(i, j, x)
        BY <2>2, <2>4, <3>1, <3>2 DEF NextOn
      <4> QED BY <2>2, <3>1, <3>2, <4>1 DEF ChainInv
    <3>3. CASE j = n
      <4>1. LastOn(i, x) /\ Concerns(e.op, x)
        BY <2>2, <2>4, <3>1, <3>3 DEF NextOn, LastOn
      <4>2. Shows(audit[i].after, x) /\ Shows(e.before, x)
        BY <1>2, <3>1, <4>1 DEF ChainInv, Logged, Rewritten
      <4> QED BY <2>2, <3>1, <3>3, <4>2 DEF Shows, Meets
    <3> QED BY <2>2, <3>2, <3>3
  <2>5. ASSUME LastOn(i, x)' PROVE configRow'[x] # None /\ Shows(audit[i].after, x)'
    <3>1. CASE i = n
      <4>1. Rewritten(e, x)
        BY <1>2, <2>2, <2>5, <3>1 DEF LastOn, Logged
      <4> QED BY <2>2, <3>1, <4>1, NoneIsNoRow DEF Rewritten
    <3>2. CASE i \in D
      <4>1. LastOn(i, x) /\ ~Concerns(e.op, x)
        BY <2>2, <2>5, <3>2 DEF LastOn
      <4>2. configRow[x] # None /\ Shows(audit[i].after, x) /\ Kept(x)
        BY <1>2, <3>2, <4>1 DEF ChainInv, Logged
      <4> QED BY <2>2, <3>2, <4>2 DEF Kept, Shows, Tables
    <3> QED BY <2>2, <3>1, <3>2
  <2> QED BY <2>4, <2>5
<1> QED BY <1>1, <1>2

LEMMA ChainShown == StoreInv /\ ChainInv => AuditChain
<1> SUFFICES ASSUME StoreInv, ChainInv, NEW i \in DOMAIN audit, NEW j \in DOMAIN audit,
                    i < j, OnConfig(audit[j].op),
                    OnConfig(audit[i].op) /\ audit[i].op.flag = audit[j].op.flag /\ audit[i].op.env = audit[j].op.env,
                    \A k \in i + 1 .. j - 1 :
                      ~(OnConfig(audit[k].op) /\ audit[k].op.flag = audit[j].op.flag
                                              /\ audit[k].op.env = audit[j].op.env),
                    NEW q \in ConfigQueries(audit[j].op.flag, audit[j].op.env)
             PROVE  audit[j].before[q[1]][q[2]] = audit[i].after[q[1]][q[2]]
  BY DEF AuditChain
<1>1. DOMAIN audit \subseteq Nat
  BY DEF StoreInv, TypeOK
<1>2. audit[j].op \in Op
  BY EntryType DEF AuditRow
<1>3. PICK x \in Refs : x = <<audit[j].op.flag, audit[j].op.env>>
  BY <1>2, OpFields DEF Refs
<1>4. \A k \in DOMAIN audit : i < k /\ k < j => k \in i + 1 .. j - 1
  BY <1>1
<1>5. NextOn(i, j, x)
  BY <1>3, <1>4 DEF NextOn, Concerns
<1>6. Meets(audit[j].before, audit[i].after, x)
  BY <1>5 DEF ChainInv
<1>7. q[1] \in {"config", "rules", "overrides"} /\ q[2] = x
  <2>1. DOMAIN Details = {1, 2, 3}
    BY DEF Details
  <2> QED BY <1>3, <2>1 DEF ConfigQueries, Details
<1> QED BY <1>6, <1>7 DEF Meets

\* AuditChain, for every value of the constants under which clients never have two
\* mutations of one flag in flight: what an audit row calls `before` is what the
\* previous row of that configuration called `after`.
THEOREM AuditChainHolds == ExclusiveWriters => (Spec => []AuditChain)
<1> SUFFICES ASSUME ExclusiveWriters PROVE Spec => []AuditChain
  OBVIOUS
<1>1. Init => StoreInv /\ OnceInv /\ LockInv /\ TurnInv
  BY StoreInvInit, OnceInit, LockInit, TurnInit
<1>2. Init => ChainInv
  BY DEF Init, ChainInv
<1>3. /\ StoreInv /\ OnceInv /\ LockInv /\ TurnInv /\ [Next]_vars
      => StoreInv' /\ OnceInv' /\ LockInv' /\ TurnInv'
  BY StoreInvNext, OnceNext, LockNext, TurnNext
<1>4. StoreInv /\ OnceInv /\ LockInv /\ TurnInv /\ ChainInv /\ [Next]_vars => ChainInv'
  BY StepLogs, ChainNext
<1> QED BY <1>1, <1>2, <1>3, <1>4, ChainShown, PTL DEF Spec

-----------------------------------------------------------------------------
(* ReadVersionNeverAhead.  The rows a read returns belong to its version   *)
(* or to a later one, because it reads the version first and versions only *)
(* grow.                                                                   *)

\* Rows of the table t that x had at the version v or later.
Matches(x, v, t, rows) ==
  \/ v = 1 /\ rows = {}
  \/ \E i \in DOMAIN audit :
       /\ Concerns(audit[i].op, x)
       /\ audit[i].after.config[x] \in ConfigRow /\ audit[i].after.config[x].version >= v
       /\ audit[i].after[t][x] = rows
HistoryInv ==
  \A x \in Refs, t \in Tables :
    IF configRow[x] = None THEN child[t][x] = {}
    ELSE Matches(x, configRow[x].version, t, child[t][x])

\* The flag comes first, and a configuration is followed by its rules and overrides.
WellPlanned(p) ==
  \A i \in DOMAIN p :
    /\ i > 1 => p[i][1] # "flag"
    /\ p[i][1] = "config" =>
         /\ i + 1 \in DOMAIN p /\ p[i + 1] = <<"rules", p[i][2]>>
         /\ i + 2 \in DOMAIN p /\ p[i + 2] = <<"overrides", p[i][2]>>
Pending(r, q) == \E i \in DOMAIN todo[r] : todo[r][i] = q
ReadBack(r, x) ==
  /\ \A i \in DOMAIN todo[r] : todo[r][i][1] # "flag"
  /\ configRow[x] # None /\ seen[r].config[x].version <= configRow[x].version
  /\ \A t \in Tables :
       Pending(r, <<t, x>>) \/ Matches(x, seen[r].config[x].version, t, seen[r][t][x])
ReaderOf(r) ==
  pc[r] = "read" =>
    WellPlanned(todo[r]) /\ \A x \in Refs : seen[r].config[x] # None => ReadBack(r, x)
ReaderInv == \A r \in Reqs : ReaderOf(r)

LEMMA ReadPlan ==
  ASSUME NEW o \in Op
  PROVE  WellPlanned(Plan(o))
<1>1. o.flag \in Flags
  BY OpFields
<1>2. CASE o.kind \in {"get", "archive"}
  <2> DEFINE f == o.flag
             p == AllEnvs(f)
             s == EachEnv(f)
  <2>1. PICK n \in Nat : n = Len(EnvSeq) /\ Len(s) = 3 * n /\ DOMAIN s = 1 .. 3 * n /\ s \in Seq(Query)
    BY <1>1, EachEnvEntries, LenProperties
  <2>2. /\ p[1] = FlagQuery(f) /\ p \in Seq(Query) /\ Len(p) = 3 * n + 1 /\ DOMAIN p = 1 .. 3 * n + 1
        /\ \A i \in 1 .. 3 * n : p[i + 1] = s[i]
    BY <1>1, <2>1, WholeFlagPlan, AllEnvsType, LenProperties DEF PlanOf, RestOf
  <2>3. /\ p[1][1] = "flag"
        /\ Details[1] = "config" /\ Details[2] = "rules" /\ Details[3] = "overrides"
    BY <2>2 DEF FlagQuery, Details
  <2>4. ASSUME NEW i \in 1 .. 3 * n
        PROVE  /\ p[i + 1][1] # "flag"
               /\ p[i + 1][1] = "config" =>
                    /\ i + 1 \in 1 .. 3 * n /\ p[i + 2] = <<"rules", p[i + 1][2]>>
                    /\ i + 2 \in 1 .. 3 * n /\ p[i + 3] = <<"overrides", p[i + 1][2]>>
    <3>1. PICK j \in 1 .. n, k \in 1 .. 3 : i = 3 * (j - 1) + k
      <4>1. i = 3 * ((i - 1) \div 3) + ((i - 1) % 3) + 1 /\ (i - 1) % 3 \in 0 .. 2 /\ (i - 1) \div 3 \in 0 .. n - 1
        BY <2>1
      <4>2. PICK j, k : j = ((i - 1) \div 3) + 1 /\ k = ((i - 1) % 3) + 1
        OBVIOUS
      <4> QED BY <4>1, <4>2
    <3>2. ASSUME NEW m \in 1 .. 3
          PROVE  /\ 3 * (j - 1) + m \in 1 .. 3 * n
                 /\ p[3 * (j - 1) + m + 1] = <<Details[m], <<f, EnvSeq[j]>>>>
      <4>1. PICK h : h = 3 * (j - 1) + m
        OBVIOUS
      <4>2. h \in 1 .. 3 * n /\ ((h - 1) % 3) + 1 = m /\ ((h - 1) \div 3) + 1 = j
        BY <2>1, <4>1
      <4>3. s[h] = <<Details[m], <<f, EnvSeq[j]>>>>
        <5>1. h \in 1 .. 3 * Len(EnvSeq)
          BY <2>1, <4>2
        <5>2. s[h] = <<Details[((h - 1) % 3) + 1], <<f, EnvSeq[((h - 1) \div 3) + 1]>>>>
          BY <1>1, <5>1, EachEnvEntries
        <5> QED BY <4>2, <5>2
      <4>4. p[h + 1] = s[h]
        BY <2>2, <4>2
      <4> QED BY <4>1, <4>2, <4>3, <4>4
    <3>3. p[i + 1] = <<Details[k], <<f, EnvSeq[j]>>>>
      BY <3>1, <3>2
    <3>4. CASE k = 1
      <4>1. i + 1 \in 1 .. 3 * n /\ p[i + 2] = <<"rules", <<f, EnvSeq[j]>>>>
        BY <2>3, <3>1, <3>2, <3>4
      <4>2. i + 2 \in 1 .. 3 * n /\ p[i + 3] = <<"overrides", <<f, EnvSeq[j]>>>>
        BY <2>3, <3>1, <3>2, <3>4
      <4> QED BY <2>3, <3>3, <3>4, <4>1, <4>2
    <3>5. CASE k # 1
      BY <2>3, <3>3, <3>5
    <3> QED BY <3>4, <3>5
  <2>5. ASSUME NEW i \in DOMAIN p
        PROVE  /\ i > 1 => p[i][1] # "flag"
               /\ p[i][1] = "config" =>
                    /\ i + 1 \in DOMAIN p /\ p[i + 1] = <<"rules", p[i][2]>>
                    /\ i + 2 \in DOMAIN p /\ p[i + 2] = <<"overrides", p[i][2]>>
    <3>1. CASE i = 1
      BY <2>3, <3>1
    <3>2. CASE i # 1
      <4>1. i - 1 \in 1 .. 3 * n /\ i = (i - 1) + 1
        <5>1. i \in 1 .. 3 * n + 1
          BY <2>2
        <5> QED BY <2>1, <3>2, <5>1
      <4>2. PICK h \in 1 .. 3 * n : i = h + 1
        BY <4>1
      <4> QED BY <2>1, <2>2, <2>4, <4>2
    <3> QED BY <3>1, <3>2
  <2>6. WellPlanned(p)
    BY <2>5 DEF WellPlanned
  <2> QED BY <1>2, <2>6 DEF Plan
<1>3. CASE o.kind = "create"
  BY <1>3 DEF Plan, WellPlanned
<1>4. CASE o.kind \notin {"get", "archive", "create"}
  <2> DEFINE x == <<o.flag, o.env>>
  <2>1. Plan(o) = <<FlagQuery(o.flag), <<"config", x>>, <<"rules", x>>, <<"overrides", x>>>>
    BY <1>4 DEF Plan, ByKey
  <2> QED BY <2>1 DEF WellPlanned, FlagQuery
<1> QED BY <1>2, <1>3, <1>4

LEMMA MatchesOlder ==
  ASSUME NEW x, NEW t, NEW rows, NEW v \in Nat \ {0}, NEW u \in Nat, v <= u, Matches(x, u, t, rows)
  PROVE  Matches(x, v, t, rows)
<1>1. CASE u = 1 /\ rows = {}
  BY <1>1 DEF Matches
<1>2. ASSUME NEW i \in DOMAIN audit,
             Concerns(audit[i].op, x), audit[i].after.config[x] \in ConfigRow,
             audit[i].after.config[x].version >= u, audit[i].after[t][x] = rows
      PROVE  Matches(x, v, t, rows)
  <2>1. audit[i].after.config[x].version \in Nat
    BY <1>2 DEF ConfigRow
  <2>2. audit[i].after.config[x].version >= v
    BY <1>2, <2>1
  <2> QED BY <1>2, <2>2 DEF Matches
<1> QED BY <1>1, <1>2 DEF Matches

\* Versions only grow, and the log only grows.
LEMMA HistoryGrows ==
  ASSUME StoreInv, UNCHANGED committed \/ \E e : Logged(e)
  PROVE  /\ \A x \in Refs : configRow[x] # None =>
              configRow'[x] # None /\ configRow[x].version <= configRow'[x].version
         /\ \A x, v, t, rows : Matches(x, v, t, rows) => Matches(x, v, t, rows)'
<1>1. ASSUME NEW x \in Refs, configRow[x] # None
      PROVE  configRow'[x] # None /\ configRow[x].version <= configRow'[x].version
  <2>1. configRow[x] \in ConfigRow /\ configRow[x].version \in Nat
    BY <1>1 DEF StoreInv, TypeOK, ConfigRow
  <2>2. CASE configRow'[x] = configRow[x]
    BY <1>1, <2>1, <2>2
  <2>3. CASE configRow'[x] \in ConfigRow /\ configRow'[x].version = configRow[x].version + 1
    BY <2>1, <2>3, NoneIsNoRow
  <2> QED BY <1>1, <2>2, <2>3 DEF Logged, Rewritten, Kept, committed
<1>2. ASSUME NEW x, NEW v, NEW t, NEW rows, Matches(x, v, t, rows)
      PROVE  Matches(x, v, t, rows)'
  <2>1. \A i \in DOMAIN audit : i \in DOMAIN audit' /\ audit'[i] = audit[i]
    BY LogGrows DEF Logged, committed
  <2> QED BY <1>2, <2>1 DEF Matches
<1> QED BY <1>1, <1>2

LEMMA HistoryNext ==
  ASSUME StoreInv, HistoryInv, UNCHANGED committed \/ \E e : Logged(e)
  PROVE  HistoryInv'
<1> SUFFICES ASSUME NEW x \in Refs, NEW t \in Tables
             PROVE  IF configRow'[x] = None THEN child'[t][x] = {}
                    ELSE Matches(x, configRow[x].version, t, child[t][x])'
  BY DEF HistoryInv
<1>1. ASSUME NEW v, NEW rows, Matches(x, v, t, rows) PROVE Matches(x, v, t, rows)'
  BY <1>1, HistoryGrows
<1>2. IF configRow[x] = None THEN child[t][x] = {} ELSE Matches(x, configRow[x].version, t, child[t][x])
  BY DEF HistoryInv
<1>3. PICK v, rows : v = configRow[x].version /\ rows = child[t][x]
  OBVIOUS
<1>4. CASE configRow'[x] = configRow[x] /\ child'[t][x] = child[t][x]
  <2>1. CASE configRow[x] = None
    BY <1>2, <1>4, <2>1
  <2>2. CASE configRow[x] # None
    <3>1. Matches(x, v, t, rows)
      BY <1>2, <1>3, <2>2
    <3>2. Matches(x, v, t, rows)' /\ configRow'[x].version = v /\ child'[t][x] = rows
      BY <1>1, <1>3, <1>4, <3>1
    <3> QED BY <1>4, <2>2, <3>2 DEF Matches
  <2> QED BY <2>1, <2>2
<1>5. CASE configRow[x] = None /\ configRow'[x] = NewConfigRow /\ child'[t][x] = child[t][x]
  <2>1. configRow'[x].version = 1 /\ configRow'[x] # None /\ child'[t][x] = {}
    BY <1>2, <1>5, DefaultRow, NoneIsNoRow DEF NewConfigRow
  <2> QED BY <2>1 DEF Matches
<1>6. ASSUME NEW e, audit' = Append(audit, e), Concerns(e.op, x), Rewritten(e, x)
      PROVE  configRow'[x] # None /\ Matches(x, configRow[x].version, t, child[t][x])'
  <2>1. PICK n \in DOMAIN audit' : audit'[n] = e
    BY <1>6, LogGrows
  <2>2. /\ configRow'[x] \in ConfigRow /\ e.after.config[x] = configRow'[x]
        /\ e.after[t][x] = child'[t][x]
    BY <1>6 DEF Rewritten, Shows, Tables
  <2>3. configRow'[x].version >= configRow'[x].version
    BY <2>2 DEF ConfigRow
  <2>4. Matches(x, configRow[x].version, t, child[t][x])'
    BY <1>6, <2>1, <2>2, <2>3 DEF Matches
  <2> QED BY <2>2, <2>4, NoneIsNoRow
<1> QED BY <1>4, <1>5, <1>6 DEF Logged, Kept, committed

LEMMA Remembers ==
  ASSUME NEW s \in Snapshot, NEW q \in Query, NEW v, NEW x \in Refs,
         NEW t \in {"config", "rules", "overrides"}
  PROVE  /\ q = <<t, x>> => Remember(s, q[1], q[2], v)[t][x] = v
         /\ q # <<t, x>> => Remember(s, q[1], q[2], v)[t][x] = s[t][x]
<1>1. CASE q \in {"flag"} \X Flags
  BY <1>1 DEF Remember, Snapshot
<1>2. CASE q \in {"config", "rules", "overrides"} \X Refs
  <2>1. q = <<q[1], q[2]>> /\ q[2] \in Refs /\ q[1] \in {"config", "rules", "overrides"}
    BY <1>2
  <2>2. q = <<t, x>> <=> q[1] = t /\ q[2] = x
    BY <2>1
  <2> QED BY <2>1, <2>2 DEF Remember, Snapshot
<1> QED BY <1>1, <1>2 DEF Query

\* What is left of a plan after its first d queries is still well planned.
Drops(s, p, d) == Len(s) = Len(p) - d /\ \A i \in 1 .. Len(s) : s[i] = p[i + d]

LEMMA PlannedDrop ==
  ASSUME NEW p \in Seq(Query), NEW s \in Seq(Query), NEW d \in 1 .. Len(p), WellPlanned(p), Drops(s, p, d)
  PROVE  WellPlanned(s) /\ \A i \in DOMAIN s : s[i][1] # "flag"
<1>1. /\ Len(p) \in Nat /\ Len(s) \in Nat /\ Len(s) = Len(p) - d
      /\ DOMAIN p = 1 .. Len(p) /\ DOMAIN s = 1 .. Len(s)
  BY LenProperties DEF Drops
<1>2. ASSUME NEW i \in 1 .. Len(s)
      PROVE  /\ s[i][1] # "flag"
             /\ s[i][1] = "config" =>
                  /\ i + 1 \in 1 .. Len(s) /\ s[i + 1] = <<"rules", s[i][2]>>
                  /\ i + 2 \in 1 .. Len(s) /\ s[i + 2] = <<"overrides", s[i][2]>>
  <2>1. i + d \in 1 .. Len(p) /\ i + d > 1 /\ s[i] = p[i + d]
    BY <1>1 DEF Drops
  <2>2. s[i][1] # "flag"
    BY <1>1, <2>1 DEF WellPlanned
  <2>3. ASSUME s[i][1] = "config"
        PROVE  /\ i + 1 \in 1 .. Len(s) /\ s[i + 1] = <<"rules", s[i][2]>>
               /\ i + 2 \in 1 .. Len(s) /\ s[i + 2] = <<"overrides", s[i][2]>>
    <3>1. /\ (i + d) + 1 \in 1 .. Len(p) /\ p[(i + d) + 1] = <<"rules", s[i][2]>>
          /\ (i + d) + 2 \in 1 .. Len(p) /\ p[(i + d) + 2] = <<"overrides", s[i][2]>>
      BY <1>1, <2>1, <2>3 DEF WellPlanned
    <3>2. /\ i + 1 \in 1 .. Len(s) /\ (i + 1) + d = (i + d) + 1
          /\ i + 2 \in 1 .. Len(s) /\ (i + 2) + d = (i + d) + 2
      BY <1>1, <3>1
    <3>3. s[i + 1] = p[(i + 1) + d] /\ s[i + 2] = p[(i + 2) + d]
      BY <3>2 DEF Drops
    <3> QED BY <3>1, <3>2, <3>3
  <2> QED BY <2>2, <2>3
<1> QED BY <1>1, <1>2 DEF WellPlanned

LEMMA RestDrops ==
  ASSUME NEW p \in Seq(Query), p # <<>>, WellPlanned(p), NEW value, NEW q, q = Head(p)
  PROVE  \E d \in 1 .. Len(p) :
           /\ Drops(Rest(q, value, Tail(p)), p, d)
           /\ q[1] = "config" /\ value = None => d = 3 /\ p[2] = <<"rules", q[2]>> /\ p[3] = <<"overrides", q[2]>>
           /\ q[1] = "config" /\ value # None =>
                d = 1 /\ Len(p) >= 3 /\ p[2] = <<"rules", q[2]>> /\ p[3] = <<"overrides", q[2]>>
           /\ q[1] \notin {"flag", "config"} => d = 1
<1>1. /\ q = p[1] /\ Len(p) \in Nat \ {0} /\ DOMAIN p = 1 .. Len(p)
      /\ Tail(p) \in Seq(Query) /\ Len(Tail(p)) = Len(p) - 1
      /\ \A i \in 1 .. Len(Tail(p)) : Tail(p)[i] = p[i + 1]
  BY HeadTailProperties, LenProperties, EmptySeq
<1>2. q[1] = "config" => Len(p) >= 3 /\ p[2] = <<"rules", q[2]>> /\ p[3] = <<"overrides", q[2]>>
  BY <1>1 DEF WellPlanned
<1>3. Drops(Tail(p), p, 1) /\ 1 \in 1 .. Len(p)
  BY <1>1 DEF Drops
<1>4. CASE q[1] = "flag" /\ value = None
  <2>1. Rest(q, value, Tail(p)) = <<>>
    BY <1>4 DEF Rest
  <2>2. Drops(<<>>, p, Len(p)) /\ Len(p) \in 1 .. Len(p)
    BY <1>1 DEF Drops
  <2> QED BY <1>4, <2>1, <2>2
<1>5. CASE q[1] = "config" /\ value = None
  <2>1. Rest(q, value, Tail(p)) = SubSeq(Tail(p), 3, Len(Tail(p)))
    BY <1>5 DEF Rest
  <2>2. PICK s : s = SubSeq(Tail(p), 3, Len(Tail(p)))
    OBVIOUS
  <2>3. \A i \in 3 .. Len(Tail(p)) : Tail(p)[i] \in Query
    BY <1>1, LenProperties, ElementOfSeq
  <2>4. Len(s) = Len(p) - 3 /\ \A i \in 1 .. Len(s) : s[i] = Tail(p)[3 + i - 1]
    BY <1>1, <1>2, <1>5, <2>2, <2>3, SubSeqProperties
  <2>5. \A i \in 1 .. Len(s) : s[i] = p[i + 3]
    BY <1>1, <2>4
  <2>6. Drops(s, p, 3) /\ 3 \in 1 .. Len(p)
    BY <1>1, <1>2, <1>5, <2>4, <2>5 DEF Drops
  <2> QED BY <1>2, <1>5, <2>1, <2>2, <2>6
<1>6. CASE value # None \/ q[1] \notin {"flag", "config"}
  <2>1. Rest(q, value, Tail(p)) = Tail(p)
    BY <1>6 DEF Rest
  <2> QED BY <1>2, <1>3, <1>6, <2>1
<1> QED BY <1>4, <1>5, <1>6

\* A read's next SELECT: a version as it is now, or rows no older than their version.
LEMMA SelectReads ==
  ASSUME StoreInv, OnceInv, HistoryInv, NEW r \in Reqs, pc[r] = "read", ReaderOf(r), Select(r)
  PROVE  ReaderOf(r)'
<1>1. /\ todo[r] \in Seq(Query) /\ todo[r] # <<>> /\ seen[r] \in Snapshot /\ UNCHANGED committed
      /\ pc'[r] = "read" /\ WellPlanned(todo[r])
  BY DEF Select, StoreInv, TypeOK, ReaderOf
<1>2. PICK p \in Seq(Query) : p = todo[r] /\ p # <<>>
  BY <1>1
<1>3. PICK q \in Query : q = Head(p) /\ q = p[1]
  BY <1>2, HeadTailProperties
<1>4. PICK value : value = Sees(r, q)
  OBVIOUS
<1>5. /\ seen'[r] = Remember(seen[r], q[1], q[2], value)
      /\ todo'[r] = Rest(q, value, Tail(p)) /\ todo'[r] \in Seq(Query)
  BY <1>2, <1>3, <1>4, SelectTypes DEF Select, Remember, StoreInv, TypeOK
<1>6. PICK d \in 1 .. Len(p) :
        /\ Drops(Rest(q, value, Tail(p)), p, d)
        /\ q[1] = "config" /\ value = None => d = 3 /\ p[2] = <<"rules", q[2]>> /\ p[3] = <<"overrides", q[2]>>
        /\ q[1] = "config" /\ value # None =>
             d = 1 /\ Len(p) >= 3 /\ p[2] = <<"rules", q[2]>> /\ p[3] = <<"overrides", q[2]>>
        /\ q[1] \notin {"flag", "config"} => d = 1
  <2>1. WellPlanned(p)
    BY <1>1, <1>2
  <2> QED BY <1>2, <1>3, <2>1, RestDrops
<1>7. WellPlanned(todo'[r]) /\ \A i \in DOMAIN todo'[r] : todo'[r][i][1] # "flag"
  <2>1. WellPlanned(p) /\ Drops(todo'[r], p, d)
    BY <1>1, <1>2, <1>5, <1>6
  <2> QED BY <1>2, <1>5, <1>6, <2>1, PlannedDrop
<1>8. WellPlanned(todo[r])'
  BY <1>7 DEF WellPlanned
<1>9. /\ \A x \in Refs : Sees(r, <<"config", x>>) = configRow[x]
      /\ \A x \in Refs, t \in Tables : Sees(r, <<t, x>>) = child[t][x]
  <2>1. w[r] = NoWrites /\ op[r].kind \notin Tables
    BY <1>1 DEF StoreInv, Protocol, OnceInv, OnlyReads, Mutates, OnConfig
  <2>2. \A x \in Refs : Sees(r, <<"config", x>>) = configRow[x]
    BY <2>1 DEF Sees, NoWrites, Refs
  <2>3. \A x \in Refs, t \in Tables : Sees(r, <<t, x>>) = child[t][x]
    BY <2>1 DEF Sees, RowsSeen, Tables
  <2> QED BY <2>2, <2>3
<1>10. ASSUME NEW x \in Refs, NEW t \in {"config", "rules", "overrides"}
       PROVE  /\ q = <<t, x>> => seen'[r][t][x] = value
              /\ q # <<t, x>> => seen'[r][t][x] = seen[r][t][x]
  <2>1. PICK s \in Snapshot : s = seen[r]
    BY <1>1
  <2>2. PICK u : u = Remember(s, q[1], q[2], value)
    OBVIOUS
  <2>3. (q = <<t, x>> => u[t][x] = value) /\ (q # <<t, x>> => u[t][x] = s[t][x])
    BY <2>2, Remembers
  <2> QED BY <1>5, <2>1, <2>2, <2>3
<1>11. PICK z : z = todo'[r]
  OBVIOUS
<1>12. PICK n \in Nat, m \in Nat :
         /\ DOMAIN p = 1 .. n /\ n = Len(p) /\ d \in 1 .. n /\ m = n - d
         /\ z = todo'[r] /\ DOMAIN z = 1 .. m /\ \A i \in 1 .. m : z[i] = p[i + d]
  <2>1. Len(p) \in Nat /\ Len(p) >= 1 /\ DOMAIN p = 1 .. Len(p)
    BY <1>2, LenProperties, EmptySeq
  <2>2. /\ Len(todo'[r]) \in Nat /\ DOMAIN todo'[r] = 1 .. Len(todo'[r])
        /\ Len(todo'[r]) = Len(p) - d /\ \A i \in 1 .. Len(todo'[r]) : todo'[r][i] = p[i + d]
    BY <1>5, <1>6, LenProperties DEF Drops
  <2>3. Len(p) - d \in Nat /\ d \in 1 .. Len(p)
    BY <1>6, <2>1
  <2> QED BY <1>11, <2>1, <2>2, <2>3
<1>13. \A i \in DOMAIN p : i > d => \E j \in DOMAIN todo'[r] : todo'[r][j] = p[i]
  <2> SUFFICES ASSUME NEW i \in 1 .. n, i > d PROVE \E j \in 1 .. m : z[j] = p[i]
    BY <1>12
  <2>1. i - d \in 1 .. m /\ (i - d) + d = i
    BY <1>12
  <2> QED BY <1>12, <2>1
<1>14. ASSUME NEW x \in Refs, seen'[r].config[x] # None
       PROVE  /\ configRow[x] # None /\ seen'[r].config[x] \in ConfigRow
              /\ seen'[r].config[x].version <= configRow[x].version
              /\ \A t \in Tables :
                   \/ \E j \in DOMAIN todo'[r] : todo'[r][j] = <<t, x>>
                   \/ Matches(x, seen'[r].config[x].version, t, seen'[r][t][x])
  <2>1. CASE q = <<"config", x>>
    <3>1. seen'[r].config[x] = configRow[x] /\ value # None /\ q[1] = "config" /\ q[2] = x
      BY <1>4, <1>9, <1>10, <1>14, <2>1
    <3>2. configRow[x] \in ConfigRow /\ configRow[x].version \in Nat
      BY <1>14, <3>1 DEF StoreInv, TypeOK, ConfigRow
    <3>3. d = 1 /\ 2 \in DOMAIN p /\ 3 \in DOMAIN p /\ p[2] = <<"rules", x>> /\ p[3] = <<"overrides", x>>
      BY <1>6, <1>12, <3>1
    <3>4. \A t \in Tables : \E j \in DOMAIN todo'[r] : todo'[r][j] = <<t, x>>
      BY <1>13, <3>3 DEF Tables
    <3>5. seen'[r].config[x].version <= configRow[x].version
      BY <3>1, <3>2
    <3> QED BY <1>14, <3>1, <3>2, <3>4, <3>5
  <2>2. CASE q # <<"config", x>>
    <3>1. seen'[r].config[x] = seen[r].config[x] /\ ReadBack(r, x)
      BY <1>1, <1>10, <1>14, <2>2 DEF ReaderOf
    <3>2. PICK v : v = seen[r].config[x].version
      OBVIOUS
    <3>3. /\ configRow[x] \in ConfigRow /\ seen[r].config[x] \in ConfigRow
          /\ configRow[x].version \in Nat /\ v \in Nat \ {0} /\ v <= configRow[x].version
      BY <1>1, <1>14, <3>1, <3>2 DEF ReadBack, StoreInv, TypeOK, Snapshot, ConfigRow
    <3>4. q[1] # "flag"
      <4>1. 1 \in DOMAIN p
        BY <1>12
      <4> QED BY <1>2, <1>3, <3>1, <4>1 DEF ReadBack
    <3>5. ASSUME NEW t \in Tables
          PROVE  \/ \E j \in DOMAIN todo'[r] : todo'[r][j] = <<t, x>>
                 \/ Matches(x, v, t, seen'[r][t][x])
      <4>1. CASE q = <<t, x>>
        <5>1. PICK rows : rows = child[t][x]
          OBVIOUS
        <5>2. seen'[r][t][x] = rows
          BY <1>4, <1>9, <1>10, <4>1, <5>1 DEF Tables
        <5>3. PICK u : u = configRow[x].version
          OBVIOUS
        <5>4. Matches(x, u, t, rows)
          BY <3>3, <5>1, <5>3, NoneIsNoRow DEF HistoryInv
        <5> QED BY <3>3, <5>2, <5>3, <5>4, MatchesOlder
      <4>2. CASE q # <<t, x>>
        <5>1. seen'[r][t][x] = seen[r][t][x]
          BY <1>10, <4>2 DEF Tables
        <5>2. CASE Matches(x, v, t, seen[r][t][x])
          BY <5>1, <5>2
        <5>3. CASE Pending(r, <<t, x>>)
          <6>1. PICK i \in DOMAIN p : p[i] = <<t, x>>
            BY <1>2, <5>3 DEF Pending
          <6>2. i # 1
            BY <1>3, <4>2, <6>1
          <6>3. i > d
            <7>1. CASE q[1] = "config" /\ value = None
              <8>1. q[2] # x
                <9>1. q \in {"config", "rules", "overrides"} \X Refs
                  BY <3>4 DEF Query
                <9> QED BY <2>2, <7>1, <9>1
              <8>2. i # 2 /\ i # 3
                BY <1>6, <6>1, <7>1, <8>1
              <8> QED BY <1>6, <1>12, <6>1, <6>2, <7>1, <8>2
            <7>2. CASE ~(q[1] = "config" /\ value = None)
              <8>1. d = 1
                BY <1>6, <3>4, <7>2
              <8> QED BY <1>12, <6>1, <6>2, <8>1
            <7> QED BY <7>1, <7>2
          <6> QED BY <1>13, <6>1, <6>3
        <5> QED BY <3>1, <3>2, <5>2, <5>3 DEF ReadBack
      <4> QED BY <4>1, <4>2
    <3> QED BY <3>1, <3>2, <3>3, <3>5, NoneIsNoRow
  <2> QED BY <2>1, <2>2
<1>15. \A x, v, t, rows : Matches(x, v, t, rows) => Matches(x, v, t, rows)'
  BY <1>1, HistoryGrows
<1>16. ASSUME NEW x \in Refs, seen'[r].config[x] # None PROVE ReadBack(r, x)'
  <2>1. PICK s : s = seen'[r] /\ z = todo'[r]
    BY <1>11
  <2>2. /\ configRow[x] # None /\ s.config[x].version <= configRow[x].version
        /\ \A t \in Tables : \/ \E j \in DOMAIN z : z[j] = <<t, x>>
                             \/ Matches(x, s.config[x].version, t, s[t][x])
    BY <1>14, <1>16, <2>1
  <2>3. \A t \in Tables : \/ \E j \in DOMAIN z : z[j] = <<t, x>>
                          \/ Matches(x, s.config[x].version, t, s[t][x])'
    BY <1>15, <2>2
  <2>4. \A t \in Tables : \/ Pending(r, <<t, x>>)'
                          \/ Matches(x, seen[r].config[x].version, t, seen[r][t][x])'
    BY <2>1, <2>3 DEF Pending, Matches
  <2> QED BY <1>1, <1>7, <2>1, <2>2, <2>4 DEF ReadBack, committed
<1> QED BY <1>8, <1>16 DEF ReaderOf

\* Who reads: a request that has just come in, or one that was reading.
LEMMA ReadersStep ==
  ASSUME StoreInv, NEW r \in Reqs, StepOf(r), pc'[r] = "read"
  PROVE  (\E o \in Workload[r] : Receive(r, o)) \/ (Select(r) /\ pc[r] = "read")
<1>1. LocalTypes
  BY SplitTypes DEF StoreInv
<1>2. CASE GivesUp(r) \/ Commits(r)
  BY <1>1, <1>2 DEF GivesUp, Commits, Rollback, Finish, LocalTypes
<1>3. CASE Commit(r) \/ CommitUnacknowledged(r)
  BY <1>2, <1>3, NewVersionType DEF Commit, CommitUnacknowledged, Commits
<1>4. CASE \/ AnswerRead(r) \/ NotFoundConfig(r) \/ VersionConflict(r) \/ UniqueViolation(r)
           \/ DuplicateKey(r) \/ NotFoundFlag(r) \/ ConnectionLost(r) \/ DeadlockDetected(r)
  BY <1>2, <1>4, RollbackGivesUp
<1>5. CASE Select(r)
  BY <1>1, <1>5 DEF Select
<1>6. ~(InsertRow(r) \/ FinishDelete(r) \/ InsertConfig(r))
  BY <1>1 DEF InsertRow, FinishDelete, InsertConfig, LocalTypes
<1>7. ~(Recheck(r) \/ StartDelete(r) \/ InsertFlag(r) \/ RecordAudit(r))
  BY <1>1 DEF Recheck, StartDelete, InsertFlag, RecordAudit, LocalTypes
<1>8. ~(UpdateConfig(r) \/ BumpVersion(r) \/ ReadCreated(r) \/ StampArchive(r))
  BY <1>1 DEF UpdateConfig, BumpVersion, ReadCreated, StampArchive, ReadAfter, LocalTypes
<1> QED BY <1>3, <1>4, <1>5, <1>6, <1>7, <1>8 DEF StepOf, Statement

\* A reader that does not move: the store only moves on under it.
LEMMA ReaderWaits ==
  ASSUME StoreInv, NEW r \in Reqs, ReaderOf(r), pc'[r] = pc[r], todo'[r] = todo[r], seen'[r] = seen[r],
         UNCHANGED committed \/ \E e : Logged(e)
  PROVE  ReaderOf(r)'
<1> SUFFICES ASSUME pc[r] = "read" PROVE ReaderOf(r)'
  BY DEF ReaderOf
<1>1. PICK s, z : s = seen[r] /\ z = todo[r] /\ seen'[r] = s /\ todo'[r] = z
  OBVIOUS
<1>2. WellPlanned(todo[r])'
  BY DEF ReaderOf, WellPlanned
<1>3. ASSUME NEW x \in Refs, s.config[x] # None PROVE ReadBack(r, x)'
  <2>1. ReadBack(r, x)
    BY <1>1, <1>3 DEF ReaderOf
  <2>2. s.config[x] \in ConfigRow /\ configRow[x] \in ConfigRow /\ configRow[x] # None
    BY <1>1, <1>3, <2>1 DEF ReadBack, StoreInv, TypeOK, Snapshot
  <2>3. /\ configRow'[x] # None /\ configRow[x].version <= configRow'[x].version
        /\ configRow[x].version \in Nat /\ s.config[x].version \in Nat
    BY <2>2, HistoryGrows DEF ConfigRow
  <2>4. configRow'[x].version \in Nat
    <3>1. CASE UNCHANGED committed
      BY <2>2, <3>1 DEF committed, ConfigRow
    <3>2. ASSUME NEW e, Logged(e) PROVE configRow'[x].version \in Nat
      BY <2>2, <3>2 DEF Logged, Rewritten, Kept, ConfigRow
    <3> QED BY <3>1, <3>2
  <2>5. s.config[x].version <= configRow'[x].version
    <3>1. s.config[x].version <= configRow[x].version
      BY <1>1, <2>1 DEF ReadBack
    <3> QED BY <2>3, <2>4, <3>1
  <2>6. \A t \in Tables : Pending(r, <<t, x>>) \/ Matches(x, s.config[x].version, t, s[t][x])
    BY <1>1, <2>1 DEF ReadBack
  <2>7. \A t \in Tables : Pending(r, <<t, x>>) \/ Matches(x, s.config[x].version, t, s[t][x])'
    BY <2>6, HistoryGrows
  <2>8. \A t \in Tables : \/ Pending(r, <<t, x>>)'
                          \/ Matches(x, seen[r].config[x].version, t, seen[r][t][x])'
    BY <1>1, <2>7 DEF Pending, Matches
  <2> QED BY <1>1, <2>1, <2>3, <2>5, <2>8 DEF ReadBack
<1> QED BY <1>1, <1>2, <1>3 DEF ReaderOf

LEMMA ReaderNext ==
  ASSUME StoreInv, OnceInv, LockInv, TurnInv, HistoryInv, ReaderInv, [Next]_vars
  PROVE  ReaderInv'
<1>1. UNCHANGED committed \/ \E e : Logged(e)
  BY StepLogs
<1>2. CASE UNCHANGED vars
  <2>1. \A r \in Reqs : pc'[r] = pc[r] /\ todo'[r] = todo[r] /\ seen'[r] = seen[r]
    BY <1>2 DEF vars
  <2> QED BY <1>1, <2>1, ReaderWaits DEF ReaderInv
<1>3. ASSUME NEW r \in Reqs, StepOf(r), NEW s \in Reqs PROVE ReaderOf(s)'
  <2>1. CASE s # r
    BY <1>1, <1>3, <2>1, StepsLeaveOthers, ReaderWaits DEF Untouched, ReaderInv
  <2>2. CASE s = r
    <3>1. CASE \E o \in Workload[r] : Receive(r, o)
      <4>1. PICK o \in Workload[r] : Receive(r, o)
        BY <3>1
      <4>2. o \in Op /\ todo'[r] = Plan(o) /\ seen'[r] = NothingRead
        BY <4>1, FlagDataAssumption
        DEF FlagDataAssumption, Receive, TurnInv, Turn, Unanswered, StoreInv, TypeOK
      <4>3. WellPlanned(todo[r])'
        <5>1. WellPlanned(Plan(o))
          BY <4>2, ReadPlan
        <5> QED BY <4>2, <5>1 DEF WellPlanned
      <4>4. \A x \in Refs : seen'[r].config[x] = None
        BY <4>2 DEF NothingRead
      <4> QED BY <2>2, <4>3, <4>4 DEF ReaderOf
    <3>2. CASE Select(r) /\ pc[r] = "read"
      BY <2>2, <3>2, SelectReads DEF ReaderInv
    <3>3. CASE pc'[r] # "read"
      BY <2>2, <3>3 DEF ReaderOf
    <3> QED BY <1>3, <3>1, <3>2, <3>3, ReadersStep
  <2> QED BY <2>1, <2>2
<1> QED BY <1>2, <1>3 DEF Next, StepOf, AllAnswered, ReaderInv

LEMMA ReaderShown == ReaderInv => ReadVersionNeverAhead
<1> SUFFICES ASSUME ReaderInv, NEW r \in Reqs, NEW x \in Refs, NEW t \in Tables,
                    pc[r] = "read", todo[r] = <<>>, seen[r].config[x] # None
             PROVE  \/ seen[r].config[x].version = 1 /\ seen[r][t][x] = {}
                    \/ \E h \in History(x) : /\ h.config[x].version >= seen[r].config[x].version
                                             /\ h[t][x] = seen[r][t][x]
  BY DEF ReadVersionNeverAhead
<1>1. Matches(x, seen[r].config[x].version, t, seen[r][t][x])
  BY DEF ReaderInv, ReaderOf, ReadBack, Pending
<1> QED BY <1>1 DEF Matches, History, Concerns

\* ReadVersionNeverAhead, for every value of the constants under which clients never
\* have two mutations of one flag in flight: the rules and overrides a read returns
\* are those of the version it returns or of a later one, so an If-Match of
\* that version cannot overwrite rows its sender has not seen.
THEOREM ReadVersionNeverAheadHolds == ExclusiveWriters => (Spec => []ReadVersionNeverAhead)
<1> SUFFICES ASSUME ExclusiveWriters PROVE Spec => []ReadVersionNeverAhead
  OBVIOUS
<1>1. Init => StoreInv /\ OnceInv /\ LockInv /\ TurnInv
  BY StoreInvInit, OnceInit, LockInit, TurnInit
<1>2. Init => HistoryInv
  BY DEF Init, HistoryInv, NewConfigRow, Matches
<1>3. Init => ReaderInv
  BY DEF Init, ReaderInv, ReaderOf
<1>4. /\ StoreInv /\ OnceInv /\ LockInv /\ TurnInv /\ [Next]_vars
      => StoreInv' /\ OnceInv' /\ LockInv' /\ TurnInv'
  BY StoreInvNext, OnceNext, LockNext, TurnNext
<1>5. StoreInv /\ OnceInv /\ LockInv /\ TurnInv /\ HistoryInv /\ [Next]_vars => HistoryInv'
  BY StepLogs, HistoryNext
<1>6. StoreInv /\ OnceInv /\ LockInv /\ TurnInv /\ HistoryInv /\ ReaderInv /\ [Next]_vars => ReaderInv'
  BY ReaderNext
<1> QED BY <1>1, <1>2, <1>3, <1>4, <1>5, <1>6, ReaderShown, PTL DEF Spec

=============================================================================
