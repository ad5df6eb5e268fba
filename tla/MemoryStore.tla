---------------------------- MODULE MemoryStore ----------------------------
(***************************************************************************)
(* The memory adapter's repositories as operators on its store: arrays of  *)
(* rows, searched from the front, with no unique keys beside the checks    *)
(* the methods make themselves.                                            *)
(***************************************************************************)
EXTENDS EmbeddedData, SequencesExt

\* Rows pushed in the order the seeds push them.
Fresh(existing) ==
  LET flags == SetToSeq(existing)
      refs == SetToSeq({x \in Refs : x[1] \in existing})
  IN [flags |-> [i \in DOMAIN flags |-> [key |-> flags[i], archivedAt |-> None]],
      configs |-> [i \in DOMAIN refs |-> [ref |-> refs[i], cols |-> DefaultCols, version |-> 1]],
      rules |-> <<>>, overrides |-> <<>>, auditLog |-> <<>>, exposures |-> <<>>,
      apiKeys |-> [i \in 1 .. Cardinality(Keys) |-> [id |-> SetToSeq(Keys)[i], lastUsedAt |-> Never]]]

-----------------------------------------------------------------------------
(* Flags.  A find() is the index of the first match, 0 when there is none. *)

FindFlag(s, f) == SelectInSeq(s.flags, LAMBDA row : row.key = f)
FindConfig(s, x) == SelectInSeq(s.configs, LAMBDA row : row.ref = x)
Found(s, x) == FindFlag(s, x[1]) # 0 /\ FindConfig(s, x) # 0

RowsAt(rows, x) ==
  {[key |-> rows[i].key, val |-> rows[i].val, by |-> rows[i].by] : i \in {j \in DOMAIN rows : rows[j].ref = x}}

Assemble(s, f, X) ==
  LET there == {x \in X : FindConfig(s, x) # 0}
      Config(x) == LET c == s.configs[FindConfig(s, x)] IN [cols |-> c.cols, version |-> c.version]
  IN [flag |-> [NothingRead.flag EXCEPT ![f] = [archivedAt |-> s.flags[FindFlag(s, f)].archivedAt]],
      config |-> [x \in Refs |-> IF x \in there THEN Config(x) ELSE None],
      rules |-> [x \in Refs |-> IF x \in there THEN RowsAt(s.rules, x) ELSE None],
      overrides |-> [x \in Refs |-> IF x \in there THEN RowsAt(s.overrides, x) ELSE None]]

FindByKey(s, x) == IF Found(s, x) THEN Assemble(s, x[1], {x}) ELSE NothingRead

FindAllEnvironmentsByKey(s, f) ==
  IF FindFlag(s, f) = 0 THEN NothingRead ELSE Assemble(s, f, {<<f, e>> : e \in Envs})

CreateFlag(s, o) ==
  IF FindFlag(s, o.flag) # 0 THEN Thrown(s, "duplicate")
  ELSE Returned([s EXCEPT !.flags = Append(@, [key |-> o.flag, archivedAt |-> None]),
                          !.configs = @ \o [i \in DOMAIN EnvSeq |->
                             [ref |-> <<o.flag, EnvSeq[i]>>, cols |-> DefaultCols, version |-> 1]]], 1)

Refusal(s, o) ==
  CASE ~Found(s, RefOf(o)) -> "notFound"
    [] Found(s, RefOf(o)) /\ s.configs[FindConfig(s, RefOf(o))].version # o.expected -> "conflict"
    [] OTHER -> "ok"

UpdateConfig(s, o) ==
  LET i == FindConfig(s, RefOf(o))
  IN IF Refusal(s, o) # "ok" THEN Thrown(s, Refusal(s, o))
     ELSE Returned([s EXCEPT !.configs[i].cols = Patched(@, o.patch),
                             !.configs[i].version = @ + 1], o.expected + 1)

\* rows.filter((row) => row.flagConfigId !== x)
Without(rows, x) ==
  LET kept[n \in 0 .. Len(rows)] ==
        IF n = 0 THEN <<>>
        ELSE IF rows[n].ref = x THEN kept[n - 1] ELSE Append(kept[n - 1], rows[n])
  IN kept[Len(rows)]

\* What filter() keeps, then one push() per row of the body; nothing compares unit ids.
Replaced(rows, r, o) ==
  Without(rows, RefOf(o))
    \o [i \in DOMAIN o.body |-> [ref |-> RefOf(o), key |-> o.body[i].key, val |-> o.body[i].val, by |-> r]]

Replace(s, r, o) ==
  LET new == [s EXCEPT !.configs[FindConfig(s, RefOf(o))].version = @ + 1]
  IN CASE Refusal(s, o) # "ok" -> Thrown(s, Refusal(s, o))
       [] o.kind = "rules" /\ Refusal(s, o) = "ok" ->
            Returned([new EXCEPT !.rules = Replaced(@, r, o)], o.expected + 1)
       [] OTHER -> Returned([new EXCEPT !.overrides = Replaced(@, r, o)], o.expected + 1)

ArchiveFlag(s, r, o) ==
  IF FindFlag(s, o.flag) = 0 THEN Thrown(s, "notFound")
  ELSE Returned([s EXCEPT !.flags[FindFlag(s, o.flag)].archivedAt = r], 0)

RecordAudit(s, entry) == [s EXCEPT !.auditLog = Append(@, entry)]
AuditOf(s) == s.auditLog

-----------------------------------------------------------------------------
(* Exposures and API keys.                                                 *)

\* Mutant: the row of an earlier batch is overwritten.
AddOrPushReplacing(rows, row) ==
  LET i == SelectInSeq(rows, LAMBDA x : x.key = row.key)
  IN IF i # 0 THEN [rows EXCEPT ![i] = row] ELSE Append(rows, row)

AddOrPush(rows, row) ==
  LET i == SelectInSeq(rows, LAMBDA x : x.key = row.key)
  IN IF i # 0 THEN [rows EXCEPT ![i].count = @ + row.count] ELSE Append(rows, row)

RecordBatch(s, rows) == [s EXCEPT !.exposures = FoldLeft(AddOrPush, @, rows)]

Tally(acc, g, n) == IF g \in DOMAIN acc THEN [acc EXCEPT ![g] = @ + n] ELSE acc @@ (g :> n)

FindBreakdown(s, f, e, since) ==
  FoldLeft(LAMBDA acc, x : IF x.key.flag # f \/ x.key.env # e \/ x.key.hour < since THEN acc
                           ELSE Tally(acc, x.key.outcome, x.count),
           <<>>, s.exposures)

ListFlagTotals(s, e, since) ==
  FoldLeft(LAMBDA acc, x : IF x.key.env # e \/ x.key.hour < since THEN acc
                           ELSE Tally(acc, x.key.flag, x.count),
           <<>>, s.exposures)

FindKey(s, k) == SelectInSeq(s.apiKeys, LAMBDA row : row.id = k)
LastUsed(s, k) == s.apiKeys[FindKey(s, k)].lastUsedAt

Touch(s, k, at, staleBefore) ==
  IF LastUsed(s, k) = Never \/ LastUsed(s, k) < staleBefore
  THEN [s EXCEPT !.apiKeys[FindKey(s, k)].lastUsedAt = at] ELSE s
=============================================================================
