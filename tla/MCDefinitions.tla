--------------------------- MODULE MCDefinitions ---------------------------
(* A small instance of the definitions an SDK polls and evaluates for TLC. *)
EXTENDS Definitions

MCFlagOrder == <<"dark", "pay">>
MCUnitOrder == <<"in", "last">>
MCSalt == [f \in {"dark", "pay"} |-> IF f = "dark" THEN 1 ELSE 2]

\* Units at both ends of the bucket range and in its middle; another salt, other buckets.
MCBucket(key, salt, unit) ==
  CASE salt = 2 -> 5000
    [] unit = "in" -> 0
    [] unit = "last" -> 9999
    [] OTHER -> 4999

MCWithin == [contains |-> {<<"pro-eu", "eu">>, <<"pro-eu", "pro">>}, starts_with |-> {<<"pro-eu", "pro">>}]

Rule(a, op, vs, s, r) == [attribute |-> a, operator |-> op, values |-> vs, serve |-> s, rollout |-> r]
Pro == Rule("plan", "in", <<Str("pro")>>, TRUE, 5000)
Old == Rule("age", "gt", <<Num(18)>>, FALSE, 10000)

MCPatches == {[enabled |-> TRUE, rollout |-> 5000], [enabled |-> FALSE, onValue |-> FALSE, rollout |-> 0]}
MCRuleBodies == {<<Pro, Old>>, <<Old, Pro>>, <<[Pro EXCEPT !.rollout = 10000], Old>>}
MCOverrideBodies == {<<<<"last", TRUE>>, <<"in", FALSE>>>>}

Ctx(u, attrs) == [unitId |-> u, attributes |-> attrs, defaultValue |-> FALSE]
MCContexts ==
  {Ctx(u, [plan |-> Str("pro"), age |-> Num(30)]) : u \in {"in", "mid", "last"}}
  \cup {Ctx("in", [plan |-> Str("free"), age |-> Infinite]), Ctx("last", Undefined)}

MCRollouts == {0, 1, 5000, 9999, 10000}

\* Snapshots from a file: no field at all, no rules, rules of every operator, good or not.
Wild(op, vs) == Rule("plan", op, vs, TRUE, 5000)
MCBootstraps == {
  Undefined,
  <<[key |-> "dark"], [key |-> "dark", enabled |-> TRUE, onValue |-> TRUE, offValue |-> FALSE]>>,
  <<[key |-> "pay", enabled |-> TRUE, onValue |-> TRUE, offValue |-> FALSE, salt |-> 1,
     overrides |-> [in |-> Undefined],
     rules |-> <<Undefined, [attribute |-> "plan"], Wild("in", Undefined), Wild("gt", <<Num(1)>>),
                 Wild("contains", <<>>), Wild("starts_with", <<Str("free")>>), Wild("matches", <<Str("pro")>>),
                 Rule("age", "lt", <<Num(20)>>, TRUE, 5000), Rule("age", "gt", <<Infinite>>, TRUE, 5000),
                 Rule("nope", "not_in", <<>>, TRUE, 5000), Rule("plan", "not_in", <<Str("pro")>>, TRUE, Undefined)>>],
    Undefined>>}
=============================================================================
