---------------------------- MODULE Definitions ----------------------------
(***************************************************************************)
(* From the configuration to the decision: the flags of one environment    *)
(* as writers commit them, GET /api/v1/sdk/definitions as it reads them    *)
(* SELECT by SELECT outside a transaction, the ETag that lets the server   *)
(* answer 304, the snapshot an SDK evaluates, and the preview that         *)
(* evaluates the saved definition with a candidate laid over it.           *)
(***************************************************************************)
EXTENDS Evaluate, SequencesExt

CONSTANTS
  FlagOrder,   \* the flag keys by code unit
  UnitOrder,   \* the unit ids that have overrides, by code unit
  Env,         \* the environment of the SDK's key
  Salt,        \* Salt[f]: generated with the flag
  Patches,     \* the column changes clients send
  RuleBodies, OverrideBodies,  \* the PUT bodies
  Contexts,    \* evaluation contexts
  Rollouts,    \* rollouts to compare, in hundredths
  Bootstraps,  \* snapshots an SDK may be started with; Undefined for none
  None,        \* a flag that does not exist
  Existing,    \* the flags that exist at the start
  MaxWrites,   \* bound: commits of all writers together
  MaxLost      \* bound: answers that do not arrive

Flags == Range(FlagOrder)
Columns == {"enabled", "onValue", "offValue", "rollout"}

RuleFields == {"attribute", "operator", "values", "serve", "rollout"}

ASSUME DefinitionsAssumption ==
  /\ FlagOrder \in Seq(Flags) /\ UnitOrder \in Seq(Range(UnitOrder))
  /\ IsInjective(FlagOrder) /\ IsInjective(UnitOrder)
  /\ Salt \in [Flags -> Nat] /\ Existing \subseteq Flags
  /\ \A p \in Patches : DOMAIN p \subseteq Columns
  \* The schemas of the PUT bodies.
  /\ \A b \in RuleBodies : b \in Seq(Range(b)) /\ \A i \in DOMAIN b : b[i] = [k \in RuleFields |-> b[i][k]]
  /\ \A b \in OverrideBodies : b \in Seq(Range(UnitOrder) \X BOOLEAN)
  /\ MaxWrites \in Nat /\ MaxLost \in Nat

VARIABLES
  row,      \* row[f]: the committed flag and its configuration, or None
  past,     \* the values of row so far, the current one last
  listing,  \* the request being served: [todo, piece, cur, got], or Undefined
  sdk,      \* [snapshot, etag] of the SDK
  lost      \* answers lost so far

vars == <<row, past, listing, sdk, lost>>

-----------------------------------------------------------------------------
(* Writers: each commit is atomic and bumps the version, as FlagContract has  *)
(* it for writers of one flag that do not overlap.                           *)

\* createFlag: disabled, on_value true, no rollout.
NewRow == [archived |-> FALSE, version |-> 1,
           config |-> [enabled |-> FALSE, onValue |-> TRUE, offValue |-> FALSE, rollout |-> 0],
           rules |-> <<>>, overrides |-> <<>>]

\* The rows there may be.
Settings(k) == {NewRow.config[k]} \cup {p[k] : p \in {q \in Patches : k \in DOMAIN q}}
Configs ==
  [enabled : Settings("enabled"), onValue : Settings("onValue"), offValue : Settings("offValue"),
   rollout : Settings("rollout")]
Rules == RuleBodies \cup {<<>>}
Overrides == OverrideBodies \cup {<<>>}
Rows == [archived : BOOLEAN, version : Nat, config : Configs, rules : Rules, overrides : Overrides]

ASSUME NoneIsNoRow == None \notin Rows

Write(f, new) ==
  /\ Len(past) <= MaxWrites
  /\ row' = [row EXCEPT ![f] = new]
  /\ past' = Append(past, row')
  /\ UNCHANGED <<listing, sdk, lost>>

Create(f) == row[f] = None /\ Write(f, NewRow)
Archive(f) == row[f] # None /\ Write(f, [row[f] EXCEPT !.archived = TRUE])
Patched(config, p) == [k \in Columns |-> IF k \in DOMAIN p THEN p[k] ELSE config[k]]
Patch(f, p) ==
  row[f] # None /\ Write(f, [row[f] EXCEPT !.config = Patched(@, p), !.version = @ + 1])
PutRules(f, b) == row[f] # None /\ Write(f, [row[f] EXCEPT !.rules = b, !.version = @ + 1])
PutOverrides(f, b) == row[f] # None /\ Write(f, [row[f] EXCEPT !.overrides = b, !.version = @ + 1])

\* toFlagDefinition; `overrides` keeps the order the rows came in.
Definition(f, archived, config, rules, overrides) ==
  [key |-> f, environment |-> Env, archived |-> archived, enabled |-> config.enabled,
   onValue |-> config.onValue, offValue |-> config.offValue, rollout |-> config.rollout,
   salt |-> Salt[f], rules |-> rules, overrides |-> overrides]

\* Override entries as the object evaluate() looks units up in.
AsObject(entries) ==
  [u \in {entries[i][1] : i \in DOMAIN entries} |->
     entries[CHOOSE i \in DOMAIN entries : entries[i][1] = u][2]]
Evaluable(d) == [d EXCEPT !.overrides = AsObject(@)]

-----------------------------------------------------------------------------
(* listDefinitions on Postgres.                                            *)

\* Mutant: the rules are read before the configuration.
PiecesConfigLast == <<"rules", "overrides", "config">>

Pieces == <<"config", "rules", "overrides">>

Idle == listing = Undefined

\* SELECT * FROM flags, in whatever order the table gives.
SelectFlags ==
  /\ Idle
  /\ \E order \in SetToSeqs({f \in Flags : row[f] # None}) :
       listing' = [todo |-> [i \in DOMAIN order |-> [key |-> order[i], archived |-> row[order[i]].archived]],
                   cur |-> <<>>, got |-> <<>>]
  /\ UNCHANGED <<row, past, sdk, lost>>

\* The next SELECT for the flag at the head: its configuration, rules or overrides, the
\* last in whatever order the table gives.
Piece(r, piece) ==
  CASE piece = "config" -> {[version |-> r.version, config |-> r.config]}
    [] piece = "rules" -> {r.rules}
    [] OTHER -> SetToSeqs(Range(r.overrides))

SelectPiece ==
  /\ ~Idle /\ listing.todo # <<>> /\ Len(listing.cur) < Len(Pieces)
  /\ \E piece \in Piece(row[Head(listing.todo).key], Pieces[Len(listing.cur) + 1]) :
       listing' = [listing EXCEPT !.cur = Append(@, piece)]
  /\ UNCHANGED <<row, past, sdk, lost>>

Read(piece) == listing.cur[CHOOSE i \in DOMAIN Pieces : Pieces[i] = piece]

PushDefinition ==
  /\ ~Idle /\ Len(listing.cur) = Len(Pieces)
  /\ LET flag == Head(listing.todo)
         d == Definition(flag.key, flag.archived, Read("config").config, Read("rules"), Read("overrides"))
     IN listing' = [todo |-> Tail(listing.todo), cur |-> <<>>,
                    got |-> Append(listing.got, [def |-> d, version |-> Read("config").version])]
  /\ UNCHANGED <<row, past, sdk, lost>>

-----------------------------------------------------------------------------
(* The ETag and the answer.                                                *)

\* The entries by code unit of their keys, the first of each.
SortBy(order, entries, Key(_)) ==
  LET with(k) == IF \E j \in DOMAIN entries : Key(entries[j]) = k
                 THEN <<entries[CHOOSE j \in DOMAIN entries : Key(entries[j]) = k]>> ELSE <<>>
      upTo[n \in 0 .. Len(order)] == IF n = 0 THEN <<>> ELSE upTo[n - 1] \o with(order[n])
  IN upTo[Len(order)]

sortDefinitions(defs) == SortBy(FlagOrder, defs, LAMBDA d : d.key)

encodeOverrides(overrides) == SortBy(UnitOrder, overrides, LAMBDA o : o[1])

\* Mutant: a field nobody added to the encoder.
encodeRuleWithoutRollout(rule) == <<rule.attribute, rule.operator, rule.values, rule.serve>>

encodeRule(rule) == <<rule.attribute, rule.operator, rule.values, rule.serve, rule.rollout>>

\* Mutant: the rules' order is not part of the encoding.
encodeDefinitionUnordered(d) ==
  <<d.key, d.environment, d.archived, d.enabled, d.onValue, d.offValue, d.rollout, d.salt,
    {encodeRule(d.rules[i]) : i \in DOMAIN d.rules}, encodeOverrides(d.overrides)>>

encodeDefinition(d) ==
  <<d.key, d.environment, d.archived, d.enabled, d.onValue, d.offValue, d.rollout, d.salt,
    [i \in DOMAIN d.rules |-> encodeRule(d.rules[i])], encodeOverrides(d.overrides)>>

\* SHA-256 has no collisions here, so an ETag is the canonical string.
definitionsEtag(sorted) ==
  <<"fs-defs/1", Env, [i \in DOMAIN sorted |-> encodeDefinition(sorted[i])]>>

\* If-None-Match is the SDK's own tag; a weakened or unquoted one reads the same.
parseIfNoneMatch(header) == IF header = Undefined THEN {} ELSE {header}

Listed == [i \in DOMAIN listing.got |-> listing.got[i].def]
Answered == ~Idle /\ listing.todo = <<>>
NotModified == definitionsEtag(sortDefinitions(Listed)) \in parseIfNoneMatch(sdk.etag)

\* 200 with the sorted set and its tag, or 304 and the SDK keeps what it has.
Respond ==
  /\ Answered /\ listing' = Undefined /\ UNCHANGED <<row, past, lost>>
  /\ sdk' = LET sorted == sortDefinitions(Listed)
                etag == definitionsEtag(sorted)
            IN IF etag \in parseIfNoneMatch(sdk.etag) THEN sdk ELSE [snapshot |-> sorted, etag |-> etag]

LoseAnswer ==
  /\ Answered /\ lost < MaxLost
  /\ listing' = Undefined /\ lost' = lost + 1
  /\ UNCHANGED <<row, past, sdk>>

-----------------------------------------------------------------------------
(* POST /evaluate/preview: candidate fields by name over the saved ones.   *)

\* Mutant: a candidate's false or 0 counts as absent.
OverlayTruthy(saved, c) ==
  [k \in DOMAIN saved |->
     IF k \in DOMAIN c /\ (k = "rollout" => c[k] # 0) /\ (k \in Columns \ {"rollout"} => c[k])
     THEN c[k] ELSE saved[k]]

Overlay(saved, c) ==
  [k \in DOMAIN saved |->
     IF k \in DOMAIN c \cap (Columns \cup {"rules", "overrides"}) THEN c[k] ELSE saved[k]]

Saved(r, f) == Evaluable(Definition(f, r.archived, r.config, r.rules, r.overrides))
Preview(f, c, ctx) == evaluate(Overlay(Saved(row[f], f), c), ctx)

-----------------------------------------------------------------------------
Init ==
  /\ row = [f \in Flags |-> IF f \in Existing THEN NewRow ELSE None]
  /\ past = <<row>>
  /\ listing = Undefined
  /\ sdk \in [snapshot : Bootstraps, etag : {Undefined}]
  /\ lost = 0

Change(f) ==
  \/ Create(f)
  \/ Archive(f)
  \/ \E p \in Patches : Patch(f, p)
  \/ \E b \in RuleBodies : PutRules(f, b)
  \/ \E b \in OverrideBodies : PutOverrides(f, b)

Serve == SelectFlags \/ SelectPiece \/ PushDefinition \/ Respond

Next == (\E f \in Flags : Change(f)) \/ Serve \/ LoseAnswer

\* The SDK polls for ever and its transport delivers the answers that are not lost.
Spec == Init /\ [][Next]_vars /\ WF_vars(Serve)

-----------------------------------------------------------------------------
(* Properties.                                                             *)

\* Definitions as evaluate() sees them: what order the overrides came in does not show.
Meaning(defs) == {Evaluable(defs[i]) : i \in DOMAIN defs}

Current == {Saved(row[f], f) : f \in {g \in Flags : row[g] # None}}

\* The server answers 304 exactly when the SDK's snapshot means the same as the set just
\* read, whatever order the tables gave flags and overrides in: a missing 200 freezes an
\* SDK on an old set, a spurious one makes every poll a full download.
NotModifiedExactlyWhenEqual ==
  Answered /\ sdk.etag # Undefined => (NotModified <=> Meaning(Listed) = Meaning(sdk.snapshot))

\* A listed definition never pairs a configuration with older rules or overrides: who
\* puts the rules first and enables the flag afterwards exposes nobody to the old rules,
\* although the listing reads table after table outside a transaction.
NewConfigNeverWithOldRules ==
  ~Idle => \A i \in DOMAIN listing.got :
    LET d == listing.got[i].def
    IN \E j \in DOMAIN past : \E k \in j..Len(past) :
         /\ past[j][d.key] # None /\ past[j][d.key].version >= listing.got[i].version
         /\ past[j][d.key].rules = d.rules
         /\ Range(past[k][d.key].overrides) = Range(d.overrides)

\* The definitions a listing may hold, the overrides in any order.
Orders == UNION {SetToSeqs(Range(o)) : o \in Overrides}
Listable ==
  [key : Flags, environment : {Env}, archived : BOOLEAN, enabled : Settings("enabled"),
   onValue : Settings("onValue"), offValue : Settings("offValue"), rollout : Settings("rollout"),
   salt : Range(Salt), rules : Rules, overrides : Orders]

WithRollout(d, r) == [k \in DOMAIN d \cup {"rollout"} |-> IF k = "rollout" THEN r ELSE d[k]]
WithRuleRollout(d, i, r) == [d EXCEPT !.rules = [@ EXCEPT ![i] = WithRollout(d.rules[i], r)]]

\* What evaluate() may be given is an object, its rules are an array, and murmur3 has a
\* bucket for each of its units.
IsDefinition(d) ==
  /\ \A ctx \in Contexts : Bucket(Field(d, "key"), Field(d, "salt"), ctx.unitId) \in 0 .. TotalBuckets - 1
  /\ \A r \in Rollouts \cup {0, FullRollout} : r # Undefined /\ WithRollout(d, r) # Undefined
  /\ Field(d, "rules") # Undefined =>
       /\ DOMAIN d.rules \subseteq Nat
       /\ \A i \in DOMAIN d.rules, r \in Rollouts : d.rules[i] # Undefined =>
            /\ WithRollout(d.rules[i], r) # Undefined
            /\ WithRuleRollout(d, i, r) # Undefined /\ WithRuleRollout(d, i, r).rules # Undefined

ASSUME RolloutAssumption ==
  /\ Rollouts \subseteq Nat
  /\ \A s \in Bootstraps \ {Undefined} : \A d \in Range(s) \ {Undefined} : IsDefinition(d)
  /\ \A d \in Listable : IsDefinition(Evaluable(d))

\* Raising a rollout, the flag's or one rule's, only ever moves units from offValue to
\* the value being rolled out: nobody who had it loses it and nobody moves elsewhere.  At 0 the
\* fallthrough is offValue for every unit, at 100 onValue.
\* Holds of every snapshot the server serves and of any an SDK is started with.
OnlyIn(d, raised, rolledOut) ==
  \A ctx \in Contexts :
    LET old == evaluate(d, ctx).value
        new == evaluate(raised, ctx).value
    IN old # new => old = Field(d, "offValue") /\ new = rolledOut

NobodyAtZeroAllAtFull(d) ==
  \A ctx \in Contexts :
    LET none == evaluate(WithRollout(d, 0), ctx)
        all == evaluate(WithRollout(d, FullRollout), ctx)
    IN none.reason = <<"FALLTHROUGH_ROLLOUT">> =>
         none.value = Field(d, "offValue") /\ all.value = Field(d, "onValue")

KeepsUnits(d) ==
  NobodyAtZeroAllAtFull(d) /\ \A low, high \in Rollouts : low < high =>
    /\ OnlyIn(WithRollout(d, low), WithRollout(d, high), Field(d, "onValue"))
    /\ Field(d, "rules") # Undefined => \A i \in DOMAIN d.rules : d.rules[i] # Undefined =>
         OnlyIn(WithRuleRollout(d, i, low), WithRuleRollout(d, i, high), Field(d.rules[i], "serve"))

RaisingRolloutKeepsUnits ==
  /\ sdk.snapshot # Undefined => \A d \in Range(sdk.snapshot) \ {Undefined} : KeepsUnits(d)
  /\ [][sdk' # sdk => \A d \in Meaning(sdk'.snapshot) : KeepsUnits(d)]_sdk

\* What the preview of a candidate says of the saved flag is what evaluation says once the
\* same change is committed, for every context and every field a client may send.
Foretold(f, candidate) ==
  \A ctx \in Contexts : Preview(f, candidate, ctx) = evaluate(Saved(row'[f], f), ctx)
PreviewForetellsWrites == [][
  \A f \in Flags :
    /\ \A p \in Patches : Patch(f, p) => Foretold(f, p)
    /\ \A b \in RuleBodies : PutRules(f, b) => Foretold(f, [rules |-> b])
    /\ \A b \in OverrideBodies : PutOverrides(f, b) => Foretold(f, [overrides |-> AsObject(b)])]_vars

\* Once the writers stop and answers arrive, every SDK comes to hold the current set, also
\* when the listing it read last was torn: the next poll sees another tag.
EventuallyCurrent == <>[](sdk.snapshot # Undefined /\ sdk.etag # Undefined /\ Meaning(sdk.snapshot) = Current)
=============================================================================
