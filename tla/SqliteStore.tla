---------------------------- MODULE SqliteStore ----------------------------
(***************************************************************************)
(* The SQLite adapter's repositories as operators on the database file's   *)
(* tables.  better-sqlite3 is synchronous, so a repository method runs to  *)
(* its end without letting anything else run; a table with a UNIQUE key is *)
(* a function from that key.                                               *)
(***************************************************************************)
EXTENDS EmbeddedData, FiniteSetsExt

Fresh(existing) ==
  [flagRow |-> [f \in Flags |-> IF f \in existing THEN NewFlagRow ELSE None],
   configRow |-> [x \in Refs |-> IF x[1] \in existing THEN NewConfigRow ELSE None],
   child |-> [t \in Tables |-> [x \in Refs |-> {}]],
   audit |-> <<>>,
   exposures |-> {},
   lastUsed |-> [k \in Keys |-> Never]]

-----------------------------------------------------------------------------
(* Flags.                                                                  *)

Found(s, x) == s.flagRow[x[1]] # None /\ s.configRow[x] # None

\* SELECT ... WHERE flag_config_id = ?, for each of the configurations in X.
Load(table, X) == [x \in Refs |-> IF x \in X THEN table[x] ELSE None]

\* A flag with the configurations X of it that exist, their rules and overrides.
Assemble(s, f, X) ==
  LET there == {x \in X : s.configRow[x] # None}
  IN [flag |-> [NothingRead.flag EXCEPT ![f] = s.flagRow[f]],
      config |-> Load(s.configRow, there),
      rules |-> Load(s.child["rules"], there),
      overrides |-> Load(s.child["overrides"], there)]

FindByKey(s, x) == IF Found(s, x) THEN Assemble(s, x[1], {x}) ELSE NothingRead

FindAllEnvironmentsByKey(s, f) ==
  IF s.flagRow[f] = None THEN NothingRead ELSE Assemble(s, f, {<<f, e>> : e \in Envs})

\* SELECT before INSERT; the two environments' configurations start at version 1.
CreateFlag(s, o) ==
  IF s.flagRow[o.flag] # None THEN Thrown(s, "duplicate")
  ELSE Returned([s EXCEPT !.flagRow[o.flag] = NewFlagRow,
                          !.configRow = [x \in Refs |-> IF x[1] = o.flag THEN NewConfigRow ELSE @[x]]], 1)

\* Mutant: the expected version is not compared.
RefusalUnversioned(s, o) == IF ~Found(s, RefOf(o)) THEN "notFound" ELSE "ok"

\* The check updateConfig, replaceRules and replaceOverrides begin with.
Refusal(s, o) ==
  CASE ~Found(s, RefOf(o)) -> "notFound"
    [] Found(s, RefOf(o)) /\ s.configRow[RefOf(o)].version # o.expected -> "conflict"
    [] OTHER -> "ok"

UpdateConfig(s, o) ==
  IF Refusal(s, o) # "ok" THEN Thrown(s, Refusal(s, o))
  ELSE Returned([s EXCEPT !.configRow[RefOf(o)] =
                   [cols |-> Patched(@.cols, o.patch), version |-> @.version + 1]],
                o.expected + 1)

\* DELETE, one INSERT per row of the body, version bump.  The INSERT that meets its
\* own unit_id throws and leaves what the ones before it did.
Replace(s, r, o) ==
  LET written(n) == [s EXCEPT !.child[o.kind][RefOf(o)] = RowsOf(r, SubSeq(o.body, 1, n))]
      good == CHOOSE n \in 0 .. Len(o.body) :
                /\ KeysUnique(SubSeq(o.body, 1, n))
                /\ n = Len(o.body) \/ ~KeysUnique(SubSeq(o.body, 1, n + 1))
  IN CASE Refusal(s, o) # "ok" -> Thrown(s, Refusal(s, o))
       [] Refusal(s, o) = "ok" /\ good < Len(o.body) -> Thrown(written(good), "error")
       [] OTHER -> Returned([written(good) EXCEPT !.configRow[RefOf(o)].version = @ + 1], o.expected + 1)

ArchiveFlag(s, r, o) ==
  IF s.flagRow[o.flag] = None THEN Thrown(s, "notFound")
  ELSE Returned([s EXCEPT !.flagRow[o.flag] = [archivedAt |-> r]], 0)

RecordAudit(s, entry) == [s EXCEPT !.audit = Append(@, entry)]
AuditOf(s) == s.audit

-----------------------------------------------------------------------------
(* Exposures and API keys.                                                 *)

\* INSERT ... ON CONFLICT DO UPDATE SET count = count + excluded.count
Upsert(rows, row) ==
  LET same == {x \in rows : x.key = row.key}
  IN (rows \ same) \cup {[row EXCEPT !.count = @ + MapThenSumSet(LAMBDA x : x.count, same)]}

RecordBatch(s, rows) ==
  LET upserted[n \in 0 .. Len(rows)] ==
        IF n = 0 THEN s.exposures ELSE Upsert(upserted[n - 1], rows[n])
  IN [s EXCEPT !.exposures = upserted[Len(rows)]]

\* SUM(count) ... GROUP BY g
SumBy(rows, G(_)) ==
  [g \in {G(x) : x \in rows} |-> MapThenSumSet(LAMBDA x : x.count, {x \in rows : G(x) = g})]

FindBreakdown(s, f, e, since) ==
  SumBy({x \in s.exposures : x.key.flag = f /\ x.key.env = e /\ x.key.hour >= since},
        LAMBDA x : x.key.outcome)

ListFlagTotals(s, e, since) ==
  SumBy({x \in s.exposures : x.key.env = e /\ x.key.hour >= since}, LAMBDA x : x.key.flag)

LastUsed(s, k) == s.lastUsed[k]

\* UPDATE ... WHERE last_used_at IS NULL OR last_used_at < staleBefore
Touch(s, k, at, staleBefore) ==
  IF s.lastUsed[k] = Never \/ s.lastUsed[k] < staleBefore
  THEN [s EXCEPT !.lastUsed[k] = at] ELSE s
=============================================================================
