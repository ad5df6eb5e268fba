---------------------------- MODULE FlagContract ----------------------------
(***************************************************************************)
(* What the flag store promises its callers: every mutation takes effect   *)
(* atomically or not at all, config mutations are a compare-and-swap on    *)
(* the version of one (flag, environment), and a mutation that took effect *)
(* left exactly one audit row holding the state right before and right     *)
(* after it.                                                               *)
(***************************************************************************)
EXTENDS FlagData

VARIABLES flagRow, configRow, child, audit, op, reply

vars == <<flagRow, configRow, child, audit, op, reply>>
store == <<flagRow, configRow, child, audit>>

Init ==
  /\ flagRow = [f \in Flags |-> IF f \in Existing THEN NewFlagRow ELSE None]
  /\ configRow = [x \in Refs |-> IF x[1] \in Existing THEN NewConfigRow ELSE None]
  /\ child = [t \in Tables |-> [x \in Refs |-> {}]]
  /\ audit = <<>>
  /\ op = [r \in Reqs |-> None]
  /\ reply = [r \in Reqs |-> NoReply]

Ask(r) ==
  /\ op[r] = None
  /\ \E o \in Workload[r] : Mutates(o) /\ op' = [op EXCEPT ![r] = o]
  /\ UNCHANGED <<store, reply>>

Open(r) == op[r] # None /\ reply[r] = NoReply

\* The part of the store the queries in Q ask for; the audit log's snapshot format.
Stored(Q) ==
  [flag |-> [f \in Flags |-> IF FlagQuery(f) \in Q THEN flagRow[f] ELSE None],
   config |-> [x \in Refs |-> IF <<"config", x>> \in Q THEN configRow[x] ELSE None],
   rules |-> [x \in Refs |-> IF <<"rules", x>> \in Q THEN child["rules"][x] ELSE None],
   overrides |-> [x \in Refs |-> IF <<"overrides", x>> \in Q THEN child["overrides"][x] ELSE None]]

\* A flag-scoped or a config-scoped aggregate; a flag that is not there has none.
Scope(o) ==
  CASE o.kind \in {"create", "archive"} ->
         IF flagRow[o.flag] = None THEN {}
         ELSE {FlagQuery(o.flag)} \cup UNION {ConfigQueries(o.flag, e) : e \in Envs}
    [] OTHER -> {FlagQuery(o.flag)} \cup ConfigQueries(o.flag, o.env)

\* The effect is in the store; its acknowledgement may still be lost.
Done(r, version) ==
  /\ audit' = Append(audit, [by |-> r, op |-> op[r], before |-> Stored(Scope(op[r])),
                             after |-> Stored(Scope(op[r]))'])
  /\ \E ack \in {[status |-> "ok", version |-> version], [status |-> "error", version |-> 0]} :
       reply' = [reply EXCEPT ![r] = ack]
  /\ UNCHANGED op

CurrentVersion(o) ==
  /\ configRow[<<o.flag, o.env>>] # None
  /\ configRow[<<o.flag, o.env>>].version = o.expected

Create(r) ==
  /\ Open(r) /\ op[r].kind = "create"
  /\ flagRow[op[r].flag] = None
  /\ flagRow' = [flagRow EXCEPT ![op[r].flag] = NewFlagRow]
  /\ configRow' = [x \in Refs |-> IF x[1] = op[r].flag THEN NewConfigRow ELSE configRow[x]]
  /\ Done(r, 1)
  /\ UNCHANGED child

Archive(r) ==
  /\ Open(r) /\ op[r].kind = "archive"
  /\ flagRow[op[r].flag] # None
  /\ flagRow' = [flagRow EXCEPT ![op[r].flag] = [archivedAt |-> r]]
  /\ Done(r, 0)
  /\ UNCHANGED <<configRow, child>>

Update(r) ==
  /\ Open(r) /\ op[r].kind = "config"
  /\ CurrentVersion(op[r])
  /\ configRow' = [configRow EXCEPT ![<<op[r].flag, op[r].env>>] =
                     [cols |-> Patched(@.cols, op[r].patch), version |-> @.version + 1]]
  /\ Done(r, op[r].expected + 1)
  /\ UNCHANGED <<flagRow, child>>

Replace(r) ==
  /\ Open(r) /\ op[r].kind \in Tables
  /\ CurrentVersion(op[r]) /\ KeysUnique(op[r].body)
  /\ child' = [child EXCEPT ![op[r].kind][<<op[r].flag, op[r].env>>] = RowsOf(r, op[r].body)]
  /\ configRow' = [configRow EXCEPT ![<<op[r].flag, op[r].env>>].version = @ + 1]
  /\ Done(r, op[r].expected + 1)
  /\ UNCHANGED flagRow

\* Each refusal is justified by the state at the moment of refusal.
Justified(o, status) ==
  \/ status = "notFound" /\ o.kind = "archive" /\ flagRow[o.flag] = None
  \/ status = "notFound" /\ OnConfig(o) /\ configRow[<<o.flag, o.env>>] = None
  \/ status = "duplicate" /\ o.kind = "create" /\ flagRow[o.flag] # None
  \/ status = "conflict" /\ OnConfig(o) /\ configRow[<<o.flag, o.env>>] # None /\ ~CurrentVersion(o)
  \/ status = "error"

Refuse(r) ==
  /\ Open(r)
  /\ \E status \in Status :
       /\ Justified(op[r], status)
       /\ reply' = [reply EXCEPT ![r] = [status |-> status, version |-> 0]]
  /\ UNCHANGED <<store, op>>

Next == \E r \in Reqs :
  Ask(r) \/ Create(r) \/ Archive(r) \/ Update(r) \/ Replace(r) \/ Refuse(r)

Spec == Init /\ [][Next]_vars
=============================================================================
