---------------------------- MODULE EmbeddedData ----------------------------
(***************************************************************************)
(* What the SQLite and the memory adapter share beyond the flag tables:    *)
(* API keys with their last use, exposure counts, and the result of a      *)
(* repository call.                                                        *)
(***************************************************************************)
EXTENDS FlagData

CONSTANTS
  Keys,      \* the API keys the server seeded; a raw key stands for its hash
  KeyKind,   \* KeyKind[k]: "admin" or "server"
  KeyEnv,    \* KeyEnv[k]: the environment of a server key, None for an admin key
  Outcomes   \* the (value, reason) pairs an exposure can report

ASSUME EmbeddedDataAssumption ==
  /\ KeyKind \in [Keys -> {"admin", "server"}]
  /\ \A k \in Keys : IF KeyKind[k] = "admin" THEN KeyEnv[k] = None ELSE KeyEnv[k] \in Envs

\* One row of a POST /sdk/exposures body, and the aggregate the use case makes of it.
Exposure == [flag : Flags, outcome : Outcomes, count : Nat \ {0}]
Bucket == [flag : Flags, env : Envs, hour : Nat, outcome : Outcomes]
Aggregate(e, env, hour) ==
  [key |-> [flag |-> e.flag, env |-> env, hour |-> hour, outcome |-> e.outcome],
   count |-> e.count]
Aggregates(rows, env, hour) == [i \in DOMAIN rows |-> Aggregate(rows[i], env, hour)]

\* A repository call returns a version or throws; `store` is what it left behind.
Returned(store, version) == [status |-> "ok", store |-> store, version |-> version]
Thrown(store, status) == [status |-> status, store |-> store, version |-> 0]

RefOf(o) == <<o.flag, o.env>>
Never == None  \* last_used_at of a key nobody used
=============================================================================
