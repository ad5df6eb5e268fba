------------------------------ MODULE Evaluate ------------------------------
(***************************************************************************)
(* packages/core: what a flag definition decides for a context.            *)
(*                                                                         *)
(* A definition is untrusted: any field of it, or of a rule, may be        *)
(* missing or of a wrong type, which is Undefined here.  A rollout is in   *)
(* hundredths of a percent, what rolloutThreshold makes of it.  Attribute  *)
(* names are ones Object.prototype does not define.                        *)
(***************************************************************************)
EXTENDS Integers, Sequences, FiniteSetsExt

CONSTANTS
  Undefined,        \* a value that is absent or malformed
  Bucket(_, _, _),  \* murmur3 of "key:salt:unit" modulo TOTAL_BUCKETS
  Within            \* Within[o]: the (attribute, value) strings o holds of

TotalBuckets == 10000
FullRollout == TotalBuckets

\* Attribute values carry their JavaScript type.
Str(s) == [type |-> "string", v |-> s]
Num(n) == [type |-> "number", v |-> n]
Infinite == [type |-> "number"]
Finite(x) == x.type = "number" /\ "v" \in DOMAIN x

Field(d, k) == IF k \in DOMAIN d THEN d[k] ELSE Undefined

-----------------------------------------------------------------------------
(* matches(): false for every rule or attribute it cannot make sense of.   *)

Test(operator, values, actual) ==
  LET first == IF values = <<>> THEN [type |-> "undefined"] ELSE values[1]
  IN \/ operator = "in" /\ \E i \in DOMAIN values : values[i] = actual
     \/ operator = "not_in" /\ \A i \in DOMAIN values : values[i] # actual
     \/ /\ operator \in {"contains", "starts_with"}
        /\ first.type = "string" /\ actual.type = "string"
        /\ <<actual.v, first.v>> \in Within[operator]
     \/ operator = "gt" /\ Finite(first) /\ Finite(actual) /\ actual.v > first.v
     \/ operator = "lt" /\ Finite(first) /\ Finite(actual) /\ actual.v < first.v

matches(rule, attributes) ==
  /\ rule # Undefined /\ attributes # Undefined
  /\ Field(rule, "values") # Undefined
  /\ Field(attributes, Field(rule, "attribute")) # Undefined
  /\ Test(Field(rule, "operator"), Field(rule, "values"), Field(attributes, Field(rule, "attribute")))

-----------------------------------------------------------------------------
(* evaluate()                                                              *)

\* bucket < NaN is false.
InBucket(d, unit, rollout) ==
  rollout # Undefined /\ Bucket(Field(d, "key"), Field(d, "salt"), unit) < rollout

Result(value, reason) == [value |-> value, reason |-> reason]

OverrideOf(d, unit) ==
  LET overrides == Field(d, "overrides")
  IN IF overrides = Undefined THEN Undefined ELSE Field(overrides, unit)

\* Rules that match; an array-less `rules` has none.
Hits(d, attributes) ==
  LET rules == Field(d, "rules")
  IN IF rules = Undefined THEN {} ELSE {i \in DOMAIN rules : matches(rules[i], attributes)}

\* Mutant: a unit outside a rule's rollout falls through to the flag's own.
ByRuleFallingThrough(d, i, unit) ==
  LET rule == d.rules[i]
      rollout == Field(rule, "rollout")
  IN IF InBucket(d, unit, rollout) THEN Result(Field(rule, "serve"), <<"RULE_ROLLOUT", i - 1>>)
     ELSE Result(IF InBucket(d, unit, Field(d, "rollout")) THEN Field(d, "onValue") ELSE Field(d, "offValue"),
                 <<"FALLTHROUGH_ROLLOUT">>)

\* The rule that decides: everybody it matches, or a share of them and offValue for the rest.
ByRule(d, i, unit) ==
  LET rule == d.rules[i]
      rollout == Field(rule, "rollout")
  IN IF rollout # Undefined /\ rollout >= FullRollout
     THEN Result(Field(rule, "serve"), <<"RULE_MATCH", i - 1>>)
     ELSE Result(IF InBucket(d, unit, rollout) THEN Field(rule, "serve") ELSE Field(d, "offValue"),
                 <<"RULE_ROLLOUT", i - 1>>)

\* The early returns, in their order.
evaluate(d, ctx) ==
  IF d = Undefined THEN Result(ctx.defaultValue, <<"FLAG_NOT_FOUND">>)
  ELSE IF Field(d, "archived") = TRUE THEN Result(ctx.defaultValue, <<"FLAG_ARCHIVED">>)
  ELSE IF Field(d, "enabled") # TRUE THEN Result(Field(d, "offValue"), <<"FLAG_OFF">>)
  ELSE IF OverrideOf(d, ctx.unitId) # Undefined THEN Result(OverrideOf(d, ctx.unitId), <<"OVERRIDE">>)
  ELSE IF Hits(d, ctx.attributes) # {} THEN ByRule(d, Min(Hits(d, ctx.attributes)), ctx.unitId)
  ELSE Result(IF InBucket(d, ctx.unitId, Field(d, "rollout")) THEN Field(d, "onValue") ELSE Field(d, "offValue"),
              <<"FALLTHROUGH_ROLLOUT">>)
=============================================================================
