-------------------------- MODULE MCEmbeddedStore --------------------------
(* A small instance of the server on its embedded adapters for TLC. *)
EXTENDS EmbeddedStore, TLC

CONSTANTS f1, r1, r2, r3, va, vb, u1, admin, server, stranger, hit, miss

MCEnvSeq == <<"development", "production">>
MCColumns == {"enabled"}
MCValues == {0, 1}
MCDefaults == [c \in MCColumns |-> 0]
MCKeys == {0, u1}
MCVals == {va, vb}

Rule(i, v) == [key |-> i, val |-> v]
MCBodies == [t \in {"rules", "overrides"} |->
  IF t = "rules" THEN {<<Rule(0, va)>>} ELSE {<<Rule(u1, va), Rule(u1, vb)>>}]

On(f, v) == [flag |-> f, env |-> "production", expected |-> v]
Patches(V) == {[kind |-> "config", patch |-> ("enabled" :> 1)] @@ On(f1, v) : v \in V}
Puts(t, V) == {[kind |-> t, body |-> b] @@ On(f1, v) : v \in V, b \in MCBodies[t]}
Create(f) == [kind |-> "create", flag |-> f]
Archive(f) == [kind |-> "archive", flag |-> f]
Reads == {[kind |-> "find", flag |-> f1, env |-> "production"]}

\* r1 makes the flag or is turned away, r3 replaces the rules, r2 does any of the rest;
\* in any order, so that all but the first may also come too early.
MCWorkload ==
  (r1 :> {Create(f1)})
  @@ (r2 :> Patches({1}) \cup Puts("overrides", {1}) \cup {Create(f1), Archive(f1)} \cup Reads)
  @@ (r3 :> Puts("rules", {1}))

Seen(o, n) == [flag |-> f1, outcome |-> o, count |-> n]
Batch(rows) == [kind |-> "exposures", rows |-> rows]
MCBatches ==
  (r1 :> {}) @@ (r2 :> {Batch(<<Seen(hit, 2), Seen(miss, 1), Seen(hit, 1)>>)}) @@ (r3 :> {})
MCCreds == (r1 :> {admin, stranger}) @@ (r2 :> {admin, server}) @@ (r3 :> {admin})
MCKind == (admin :> "admin") @@ (server :> "server")
MCKeyEnv == (admin :> None) @@ (server :> "production")
=============================================================================
