------------------------------ MODULE FlagData ------------------------------
(***************************************************************************)
(* The data every flag store works on: flags, one configuration row per    *)
(* (flag, environment), the ordered targeting rules and the overrides that *)
(* hang off a configuration, and the requests that mutate them.            *)
(*                                                                         *)
(* Column values, rules and override decisions are opaque: the store       *)
(* copies them, it never looks inside.                                     *)
(***************************************************************************)
EXTENDS Naturals, Sequences, FiniteSets

CONSTANTS
  Flags,        \* flag keys
  EnvSeq,       \* the environments, in the order the code visits them
  Reqs,         \* HTTP requests; a request also names the row ids and the timestamp it generates
  Columns,      \* the patchable columns of flag_configs
  Values,       \* values of those columns
  DefaultCols,  \* what createFlag writes into them
  ChildKeys,    \* rule positions and override unit ids
  ChildVals,    \* rule bodies and override decisions
  Bodies,       \* Bodies[t]: the PUT bodies clients send for child table t
  None,         \* SQL NULL, a row that does not exist, nothing read
  Existing,     \* flags created before the behaviour starts
  Workload      \* Workload[r]: what request r may ask for

Envs == {EnvSeq[i] : i \in DOMAIN EnvSeq}
Refs == Flags \X Envs
Tables == {"rules", "overrides"}

\* A row of targeting_rules (key = position) or overrides (key = unit_id).
Entry == [key : ChildKeys, val : ChildVals]
Row == [key : ChildKeys, val : ChildVals, by : Reqs]
FlagRow == [archivedAt : Reqs \cup {None}]
ConfigRow == [cols : [Columns -> Values], version : Nat \ {0}]
Patch == UNION {[S -> Values] : S \in SUBSET Columns}

NewFlagRow == [archivedAt |-> None]
\* Mutant: the version counter starts at zero.
NewConfigRowUnversioned == [cols |-> DefaultCols, version |-> 0]

NewConfigRow == [cols |-> DefaultCols, version |-> 1]

\* The columns an UPDATE writes: patched ones from the patch, the others as they were read.
Patched(cols, patch) ==
  [c \in Columns |-> IF c \in DOMAIN patch THEN patch[c] ELSE cols[c]]

RowsOf(r, body) == {[key |-> body[i].key, val |-> body[i].val, by |-> r] : i \in DOMAIN body}

\* unit_id (and position) is unique within a configuration.
KeysUnique(body) == \A i, j \in DOMAIN body : body[i].key = body[j].key => i = j

-----------------------------------------------------------------------------
\* What clients ask for.
CreateOp  == [kind : {"create"}, flag : Flags]
ArchiveOp == [kind : {"archive"}, flag : Flags]
ConfigOp == [kind : {"config"}, flag : Flags, env : Envs, expected : Nat, patch : Patch]
ReplaceOp(t) == [kind : {t}, flag : Flags, env : Envs, expected : Nat, body : Bodies[t]]
GetOp == [kind : {"get"}, flag : Flags]
FindOp == [kind : {"find"}, flag : Flags, env : Envs]

Op == CreateOp \cup ArchiveOp \cup ConfigOp \cup ReplaceOp("rules") \cup ReplaceOp("overrides")
        \cup GetOp \cup FindOp

OnConfig(op) == op.kind \in {"config"} \cup Tables
Mutates(op) == OnConfig(op) \/ op.kind \in {"create", "archive"}

-----------------------------------------------------------------------------
(* A SELECT reads the rows of one table for a flag or a configuration.  A  *)
(* snapshot is what a series of them returned, as the audit log stores it. *)
\* Mutant: the rules are read before the configuration that carries the version.
DetailsVersionLast == <<"rules", "overrides", "config">>

Details == <<"config", "rules", "overrides">>
FlagQuery(f) == <<"flag", f>>
ConfigQueries(f, e) == {<<Details[i], <<f, e>>>> : i \in DOMAIN Details}
Query == ({"flag"} \X Flags) \cup ({"config", "rules", "overrides"} \X Refs)

Snapshot == [flag : [Flags -> FlagRow \cup {None}],
             config : [Refs -> ConfigRow \cup {None}],
             rules : [Refs -> {None} \cup SUBSET Row],
             overrides : [Refs -> {None} \cup SUBSET Row]]
NothingRead == [flag |-> [f \in Flags |-> None],
                config |-> [x \in Refs |-> None],
                rules |-> [x \in Refs |-> None],
                overrides |-> [x \in Refs |-> None]]

NoReply == [status |-> "none", version |-> 0]
Status == {"none", "ok", "notFound", "duplicate", "conflict", "error"}
Reply == [status : Status, version : Nat]
AuditRow == [by : Reqs, op : Op, before : Snapshot, after : Snapshot]

ASSUME FlagDataAssumption ==
  /\ EnvSeq \in Seq(Envs)
  /\ DefaultCols \in [Columns -> Values]
  /\ Bodies \in [Tables -> SUBSET Seq(Entry)]
  /\ None \notin Reqs /\ None \notin FlagRow /\ None \notin ConfigRow /\ None \notin Op
  /\ Existing \subseteq Flags
  /\ Workload \in [Reqs -> SUBSET Op]

\* A rule's position is not the client's to choose: it is the rule's index in the body.
ASSUME PositionAssumption ==
  \A body \in Bodies["rules"] : \A i \in DOMAIN body : body[i].key = i - 1
=============================================================================
