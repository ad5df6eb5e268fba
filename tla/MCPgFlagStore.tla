--------------------------- MODULE MCPgFlagStore ---------------------------
(* Small instances of the Postgres flag store for TLC. *)
EXTENDS PgFlagStore, TLC

CONSTANTS f1, r1, r2, r3, va, vb, u1, u2

MCEnvSeq == <<"development", "production">>
MCColumns == {"enabled", "rollout_percentage"}
MCValues == {0, 1}
MCDefaults == [c \in MCColumns |-> 0]
MCKeys == {0, 1, u1, u2}
MCVals == {va, vb}

Rule(i, v) == [key |-> i, val |-> v]
MCBodies == [t \in {"rules", "overrides"} |->
  IF t = "rules"
  THEN {<<>>, <<Rule(0, va)>>, <<Rule(0, vb), Rule(1, va)>>}
  ELSE {<<>>, <<Rule(u1, va)>>, <<Rule(u1, va), Rule(u2, vb)>>, <<Rule(u2, va), Rule(u1, vb)>>,
        <<Rule(u2, va)>>, <<Rule(u1, va), Rule(u1, vb)>>}]

At(v) == [flag : {f1}, env : {"production"}, expected : v]
PatchOps(V) == {[kind |-> "config", flag |-> f1, env |-> "production", expected |-> v, patch |-> p]
                : v \in V, p \in {("enabled" :> 1), ("rollout_percentage" :> 1)}}
PutOps(t, V) == {[kind |-> t, flag |-> f1, env |-> "production", expected |-> v, body |-> x]
                 : v \in V, x \in MCBodies[t]}
\* The replacements that leave at least two rows, or none.
Few(t, V) == {o \in PutOps(t, V) : Len(o.body) # 1}
Creates == {[kind |-> "create", flag |-> f1]}
Archives == {[kind |-> "archive", flag |-> f1]}
Reads == {[kind |-> "get", flag |-> f1],
          [kind |-> "find", flag |-> f1, env |-> "production"]}

\* Two writers of one configuration race from version 1, a reader runs along.
RaceWorkload ==
  (r1 :> PatchOps({1}) \cup PutOps("rules", {1}) \cup PutOps("overrides", {1}))
  @@ (r2 :> PatchOps({1}) \cup PutOps("rules", {1}) \cup PutOps("overrides", {1}))
\* The flag is created while it is read, updated, archived and created again.
LifeWorkload ==
  (r1 :> Creates) @@ (r2 :> Creates \cup Archives \cup PatchOps({1})) @@ (r3 :> Reads)
\* Three requests, one mutation at a time, with stale and current versions.
TurnsWorkload ==
  (r1 :> PatchOps({1}) \cup Few("rules", {1, 2}) \cup Archives)
  @@ (r2 :> PatchOps({1, 2}) \cup Few("rules", {1}) \cup Few("overrides", {1}))
  @@ (r3 :> Reads)
\* Two updates carrying the same If-Match.
TwinWorkload == (r1 :> PatchOps({1})) @@ (r2 :> PatchOps({1}))
=============================================================================
