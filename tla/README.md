# Feature Semaphore: TLA+ models and proofs

Feature Semaphore is a feature-flag service: a server that stores flags with a
configuration per environment, a Node SDK that evaluates them locally and
reports usage, a dashboard with its own backend-for-frontend (BFF), and a pure
evaluation core. These modules model the parts that are concurrent, that fail
halfway, or that make promises across several steps; TLC checks small instances,
TLAPS proves the theorems for all of them.

- `tlc -config X.cfg M` runs one model (the table under *Runs*); `tlapm M.tla`
  checks the proofs of a `*Proofs` module.
- `PROJECT.json` maps every definition to the source lines it stands for and
  lists the runs, the mutants, the hazards and the theorems.

## 1. The system

All paths are under `src/packages/`.

### Server: flag store (`server/src/application`, `.../persistence/postgres`)

*State.* Tables `flags`, `flag_configs` (one row per flag and environment, with
`version`), `targeting_rules` and `overrides` (rows of a configuration, unique by
position and by unit id), `audit_log`.
*Operations.* `createFlag`, `updateConfig`, `replaceRules`, `replaceOverrides`,
`archiveFlag`; reads `getFlag`, `previewEvaluation`, and the two listings. Every
mutation is one transaction opened by the unit of work: read `before`, check the
client's version (`If-Match`), write, read `after`, insert the audit row, COMMIT.
*Hard.* Postgres runs it at READ COMMITTED: every statement has its own
snapshot, an UPDATE that waited for a row goes on with the row it finds, reads
outside a transaction are torn between statements. Connections drop, COMMIT
takes effect without an acknowledgement, transactions wait for each other.
*Correct when* a mutation is atomic, a version is spent once, the audit log is a
chain of true before/after states, a flag is never half there, a read cannot
lead its reader to overwrite what it has not seen, and every request ends.

### SDK: poller, batcher, client (`sdk-node/src`)

*State.* The snapshot cell, the in-flight guard, the `ready()` promise; the map
from exposure tuples to counts and its `#flushing` flag; `closed`.
*Operations.* The poll interval (conditional GET with an ETag, 200, 304, error),
`isEnabled`/`getEvaluation` (evaluate and record), the flush interval and the
high-water mark, `ready`, `close`.
*Hard.* State read before an `await` and used after it, a slow answer overtaken
by the next, ambiguous failures of an additive counter, timers that race a
transport which never answers, `close()` while a send is in flight.
*Correct when* the snapshot is one the server answered and never goes back, no
call is counted twice, memory is bounded, `ready` and `close` always resolve, and
a closed client is quiet.

### Server: telemetry intake (`.../routes/sdk.routes.ts`, `record-exposures.ts`)

*State.* Table `exposures`. *Operation.* `POST /api/v1/sdk/events`: validate the
batch as a whole, upsert its rows one by one, answer 202 even if that failed.
*Correct when* what was answered is counted once and only failures lose counts.

### Server: startup (`server/src/main`, `.../persistence/migrations`, `seed`)

*State.* `schema_migrations`, the session advisory lock, `api_keys`, the demo
flag, and for each instance how far it got. *Operations.* Lock, compare
checksums, apply the pending migrations, unlock, seed keys, seed the demo flag,
report ready. *Hard.* Several instances at once, with different binaries and
environments, dying at any point. *Correct when* ready means migrated, migrations
apply in order and once, and nobody waits for a dead holder.

### BFF (`bff/src`)

*State.* Sessions and a login counter, both in memory. *Operations.* `/login`
(throttled), `/logout`, and the `/api` scope: session guard, read-only gate,
forward. *Hard.* Delays that overlap, expiry and logout while a request is on its
way, a restart under another configuration, a fetch that fails after the flag
server acted. *Correct when* an ended session never gets in, writes are forwarded
only by a process allowed to, at most once, and the right password always works.

### Server: SQLite and memory stores (`.../persistence/sqlite`, `memory`)

*State.* The same tables on one SQLite connection, or as arrays in one object;
the open transaction, or the clone a unit of work writes to. *Operations.* The
same repositories, `transact`, the exposure and API-key repositories. *Hard.*
The adapters are synchronous but the use cases are not: requests in one process
overlap at their `await`s, share SQLite's one transaction, or clone the memory
store while another unit is open. *Correct when* they keep the contract the
Postgres store keeps, and no transaction stays open.

### Server: API keys (`.../plugins/token-auth.ts`, `auth.ts`, `sdk-auth.ts`)

*State.* `api_keys.last_used_at` and an in-memory stamp that throttles writing it.
*Operations.* Authenticate, admit by kind, touch after the answer. *Correct when*
the stamp in the table follows the use of a key within the throttle.

### Evaluation core and definitions route (`core/src`, `sdk.routes.ts`, `etag/`)

*State.* None of its own: the route reads the flags of one environment, and
the SDK keeps what it is sent. *Operations.* `listDefinitions`, the canonical
encoding and its ETag, 200 or 304, `evaluate`, and the preview that evaluates the
saved definition with a candidate laid over it. *Hard.* The listing is several
SELECTs outside a transaction; definitions from a bootstrap file may be malformed.
*Correct when* 304 means "you have this", torn listings are one-sided and
temporary, a growing rollout keeps its units, a preview foretells the save.

### Dashboard (`dashboard/src`)

*State.* The query cache, per-section drafts, dialogs, mutations under way.
*Operations.* Fetch on mount, focus and invalidation; toggle, drag, edit, confirm,
save; navigate; lose the session and log in. *Hard.* Drafts, cached data and
dialogs age while answers arrive; the version sent is the cache's. *Correct when*
the page catches up with what its replies said, production changes are confirmed
for what is changed, and nothing is sent that the operator did not set.

### Other parts

Audit reads, the list, preview and audit pages, schemas, metrics, packaging.

### How they interact

The dashboard calls the BFF, which forwards to the server's routes with the
admin key; a route runs one use case, a use case one unit of work. The SDK polls
`/sdk/definitions` and posts `/sdk/events`. Server instances share nothing but
the database. A version travels database → read → client → `If-Match` →
database; that loop is what the flag-store modules are about.

## 2. Modules and the code they model

| module | models |
|---|---|
| `FlagData` | rows, requests, queries and snapshots shared by the store modules; the parameters and their assumption |
| `FlagContract` | abstract specification: each mutation takes effect in one step or not at all, as a compare-and-swap, with its audit row; each refusal is justified by the state at that moment |
| `PgFlagStore` | `flag-repository.pg.ts`, `unit-of-work.pg.ts`, `audit-log.pg.ts` and the mutating use cases: one action per SQL statement |
| `PgFlagStoreProofs` | proofs about `PgFlagStore`: types, whole flags, audit rows, row locks and rules; then the refinement of `FlagContract` |
| `ExposureBatcher` | `exposure-batcher.ts` |
| `Telemetry` | the batcher, `http-transport.ts`, the events route and the exposure upsert, composed |
| `TelemetryProofs` | proofs about `ExposureBatcher` and, from those, about `Telemetry` |
| `SdkPoller` | `poller.ts`, `snapshot-store.ts`, the `ready()` part of `client.ts` |
| `SdkClient` | `client.ts`: instantiates `SdkPoller` and `ExposureBatcher` and composes them |
| `SdkClientProofs` | proofs about `SdkClient` and the poller in it |
| `Startup` | `runner.ts`, `connection.ts`, the seeds, `composition-root.ts`, `server.ts`, for several instances |
| `StartupProofs` | proofs about `Startup` |
| `EmbeddedData`, `SqliteStore`, `MemoryStore` | every repository operation of the two embedded adapters, as operators on the tables of each |
| `EmbeddedStore` | the requests of one process on either adapter: both units of work, the use cases await by await, exposures, API keys, crashes |
| `EmbeddedStoreProofs` | proofs about both adapters, the requests on them and their refinement of `FlagContract` |
| `Evaluate` | `evaluate.ts`, `targeting.ts`, `bucketing.ts` |
| `Definitions` | `listDefinitions`, `definitions-etag.ts`, the definitions route, the preview, composed with `Evaluate` and an SDK |
| `DefinitionsProofs` | proofs about `Definitions` and `Evaluate` |
| `Dashboard` | the flag page: `use-versioned-mutation.ts`, `client.ts`, `FlagDetailPage.tsx`, the editors, the slider, the dialogs, `App.tsx` |
| `DashboardProofs` | proofs about `Dashboard` |
| `Bff` | session store, throttle, guard, read-only gate, proxy, boot gate and restart |
| `BffProofs` | proofs about `Bff` |
| `MC*` | the values TLC gives the constants |

A definition whose comment starts with "Mutant:" is a variant of the definition
after it with one plausible bug; no specification uses it. A property has
earned its place only if TLC finds it violated with some variant swapped in.

**`PgFlagStore`.** `pc[r]` is the statement request `r` runs next, `todo[r]` the
SELECTs left of the read it is in, `seen[r]` what they returned, `w[r]` its
uncommitted writes. `Sees(r, q)` is what a SELECT returns at READ COMMITTED:
committed rows overlaid with the transaction's own. Row locks are read off
`w`: who has written a row and not finished holds it (`ConfigHolders`,
`FlagHolders`). DELETE is two actions because it has two moments: rows are
selected by the statement's snapshot (`StartDelete`) and locked, maybe after a
wait, later (`FinishDelete`). INSERT waits for an uncommitted row with its unique
key and then fails or goes on. The values of columns, rule bodies and override
decisions are opaque: the store copies them. A request is also the source of the
row ids and of the timestamp it generates, so `[archivedAt |-> r]` stands for the
moment `r` archived. What was read or written is forgotten when the connection is
released, except what the client was answered.

Postgres itself (snapshots, locks, deadlock detection) is external; it is
modelled from its documented behaviour at the isolation level the code leaves it at.

**`Startup`.** A session-level advisory lock ends with its session, which ends
with the process or with `lockClient.end()`. A migration is its DDL and its
`schema_migrations` row, in one transaction. The demo flag is created by
statements that commit one by one. Admin and server keys are disjoint sets, as
their prefixes tell them apart; a deployment is a binary (its migrations, each a
version with a checksum) and an environment (its keys).

**`Bff`.** Attempts name the random session id they would be given; `clock` is
bounded. A request is admitted by the hooks, then its body arrives, then it is
forwarded: the three are separate because logouts, expiry and restarts fall
between them. `upstream[r]` counts what was sent and what was executed.

**`EmbeddedStore`.** `adapter` is chosen in `Init` and the tables `db` have the shape
that adapter gives them. A repository call is one operator, since both drivers
are synchronous; an action is what runs between two `await`s. `inTx`/`saved` is
the open SQLite transaction with the state ROLLBACK returns to; `draft[r]` is the
clone a memory unit of work writes to. `during[r]` notes what others committed or
recorded while `r`'s unit was open. Any statement of SQLite may throw, COMMIT included:
inside a unit of work that is `Fail(r)`, which leads to ROLLBACK and a 500; in an
exposure batch it leaves the first `batch[r].rows` rows written, and in a last-use write
nothing, and neither reaches the client. Writes to memory cannot fail.

**`Definitions`.** Writers follow `FlagContract` (each commit one step). The route is
SELECT by SELECT; row order is whatever the table gives. `Evaluate` takes murmur3
and the substring tests as constants and lets any field of a definition be missing.

**`Dashboard`.** TanStack Query is external, modelled from how the code uses it: a
mount or a focus fetches unless a fetch is in flight, invalidation cancels and
refetches what is on screen. Rendering is a step of its own (`Render`), because an
answer arrives before React shows it. A gesture that opens a dialog and the
confirmation are separate steps; so are Cancel, which closes one dialog, and Escape,
which closes all.

## 3. Runs

| run | what it shows |
|---|---|
| `PgRace` | two mutations of one configuration (PATCH, PUT rules, PUT overrides in all combinations) race statement by statement: the audited `after` is what is committed, a mutation is audited once, rules never mix, deadlocks end, every request is answered |
| `PgLife` | a flag is created by racing requests, archived and updated while it is read, connections dropping anywhere: no half-made flag is committed |
| `PgTurns` | if clients keep to one mutation of a flag at a time: the audit log is a chain, torn reads are safe, and the store **implements `FlagContract`** |
| `PgLostUpdate` | finding 1 |
| `Embedded` | three requests overlap on either adapter: the contract holds on SQLite and fails on memory only where a unit ends on an outdated clone or a body names one unit twice; exposure totals agree and are exactly what the upserts wrote: a row answered with 202 is missing only if its upsert or one before it threw, or if a unit of work undid it; `last_used_at` follows the key's use; no failing statement, refusal or crash leaves SQLite's transaction open |
| `Definitions` | two flags change under a polling SDK: 304 exactly when the set is the one the SDK has, a configuration never served with rules older than it, the SDK converges; a growing rollout keeps its units; previews foretell saves |
| `Telemetry` | batcher and intake over a lossy network: conservation, no double count, bounded memory, losses only by failures, the batcher never gets stuck |
| `Sdk` | poller, batcher and `close()` together: snapshots the server answered, never backwards, quiet after close, close and ready resolve, the client converges |
| `Startup` | instances of different binaries start, crash and restart: ready means migrated, reads under the lock stay true, order, nobody stuck |
| `Bff` | logins, logouts, expiry, a restart and a proxied request interleave |
| `Dashboard` | an operator, another client, failures and an expired session: the settled page shows what replies told, production changes are confirmed, the slider sends only what was dragged |
| `DashboardOverwrite` | finding 2 |

### Bounds, and why they are enough

- *Flag store.* One flag and two environments: transactions on different flags
  share no row, and the environments of one meet in `createFlag`, `archiveFlag`
  and reads, which `PgLife` runs. Races are between two writers (every hazard
  listed is between a pair), with a third request that reads or follows up.
  Bodies have up to two rows, which is what mixing, swapped insertion orders
  (deadlock) and duplicated keys need. Two columns distinguish a patched column
  from a copied one. Versions reach 3.
- *Embedded stores.* Three requests: `r1` creates the flag, `r3` replaces its rules and
  `r2` does anything else, so that two units of work overlap and a third request, which
  may be a read or a batch, falls anywhere among them; those that come before the
  flag come too early. The batch has three rows, two of one tuple, so that it may be cut
  short before or after either; one body names a unit twice. The clock reaches two
  throttle windows, which is what `LastUsedFollows` speaks about.
- *Definitions.* Two flags, three commits and one lost answer: a listing may be torn
  between flags and inside one, and an SDK may skip a state. Buckets 0, 4999, 5000 and
  9999 against rollouts at, next to and between the ends of the range. Bootstrap
  snapshots hold missing and malformed fields and rules of every operator.
- *Dashboard.* Two flags and both environments; two gestures, one write of the other
  client, two navigations or focus changes and one failure or expiry: enough for an
  answer to one flag to arrive on the page of the other, for a dialog to outlive what
  opened it, and for a draft to outlive its version. Going from one cached flag's page
  straight to another, with the sections kept, takes a third navigation: TLC does not
  reach it here, the theorems of `DashboardProofs` include it. `DashboardOverwrite`
  needs one flag and one environment.
- *Batcher.* A high-water mark and a server cap of two rows stand for 500, a bound of
  three on the map for 5000, and a count of one for the server's million. Four tuples
  let a batch stay below the cap, meet it, and exceed it after piling up behind a
  slow send, and let a new tuple meet a full map. One tuple is recorded twice,
  so that it can be counted in two batches or exceed the count, and two are malformed.
- *SDK.* The server's content changes twice, so that it can return to an earlier
  content whose ETag comes back. Recording is bounded by `MaxCalls` per tuple.
- *Startup.* Two instances, three migrations, four deployments (old binary, new
  binary, edited migration, missing admin key), two crashes or failures: one to
  leave something behind, one more while another instance deals with it.
- *BFF.* One login that succeeds and two that fail, in any order; base delay 2 and
  cap 3 make the second delay the capped one; sessions live two ticks of a clock
  that reaches 4; one restart; one request, which may be for a proxied write, a
  proxied read-only POST, or a write of the flag server that is not proxied.

Deadlock is checked for the flag store, whose only end is that every request has
been answered (`AllAnswered`). The other systems may really stop: clients close
and the bounds on clock, crashes and calls are reached.

### Fairness

- `PgFlagStore!FairSpec`: every request that can run its next statement eventually
  does. A connection processes its statements in order; Postgres breaks up
  deadlocks. New requests and connection losses are not assumed.
- `Telemetry!FullSpec`: the flush interval fires, the server works on what it has
  received, an answer that was produced arrives. Losses need not happen.
- `SdkClient!TimerSpec`: timers fire (`setInterval`, `setTimeout`). Nothing is
  assumed of the network; `Converges` states its assumption in the property
  (`Network`: a server asked again and again answers now and then).
- `Startup!FairSpec`: an instance that runs goes on. Booting, crashing and the
  lock timeout are not assumed.
- `EmbeddedStore!Spec`: while some request in the process has something to do, one of
  them goes on, with its next statement or by that statement's failure: the event loop
  runs. Nothing is assumed of which one.
  Crashes, arrivals and last-use writes are not assumed.
- `Definitions!Spec`: polls go on and are answered (`WF` on `Serve`); at most `MaxLost`
  answers are lost. Writers may stop or not.
- `Bff!FairSpec`: time passes, delays end, hooks and handlers run, and a fetch
  settles. The code sets no timeout on the fetch; no checked liveness property
  depends on that last part.

`Dashboard` has safety properties only and assumes no fairness.

## 4. Findings

1. *Lost update* (`PgLostUpdate`). `updateConfig` compares the version in a SELECT
   and then updates `WHERE id = $1`. At READ COMMITTED two PATCHes with one
   `If-Match` may both pass and both answer 200 with the same new version, and one
   is lost. `README.md:227` promises a 412 when "the version moved since you read it".
   The same happens between a PATCH and a PUT.
2. *Silent overwrite* (`DashboardOverwrite`). `use-versioned-mutation.ts:42` says
   "Concurrent edit surfaces conflict, never silent overwrite". The rule and override
   editors copy what they are given once, at mount, and a save sends the version
   the cache holds when it leaves. Shortest case: leave the page of a flag; another
   client changes its rules; come back. The page mounts from the cache with the old
   rules, the refetch brings the new version, Save answers 200 and the other
   client's rules are gone.

`AuditChain`, `EachVersionWrittenOnce` and the refinement of the contract need
`ExclusiveWriters = TRUE`: finding 1 is precisely that they fail without it. What
holds with overlapping writers is in `PgRace`.

### Known behaviours

Found while modelling; the models reach them, no property forbids them, and a
maintainer should know of them.

- *Overrides merge* (`flag-repository.pg.ts:331`). Two racing PUTs of overrides may
  leave the union of both bodies, where the port says "Replaces the whole ordered
  set". Rules are spared by the uniqueness of positions (`RulesFromOnePut`): unless
  one body is empty, the second PUT fails with a 500.
- *Batch cap* (`exposure-batcher.ts:89`). `highWaterMark` is documented as "the
  server's own batch cap", but what piles up behind a slow send goes out as one
  batch, which the server refuses whole.
- *close()* (`exposure-batcher.ts:86`). With a send in flight the flush of `close()`
  returns at once and what was recorded since is never sent.
- *Demo flag* (`demo-flag.ts:45`). The demo seed is not one transaction and runs
  after the lock was released: a crash inside it leaves a flag without its
  configurations that every later seed takes for done.
- *SQLite.* Only requests that overlap inside one process meet: a second `transact()`
  issues BEGIN inside the first and answers 500; the first goes on. An exposure
  batch or a last-use write accepted while a transaction is open rolls back with it.
  A read may see rows that are not committed. A touch that fails or is undone is
  not tried again within the throttle window.
- *Exposures* (`sdk.routes.ts:79`). The rows of a batch are not one transaction: if an
  upsert throws, those before it stay, the rest is lost, and the answer is 202, as
  the comment at `sdk.routes.ts:67` means it to be.
- *Memory.* A unit of work that ends on a clone taken before another's commit
  replaces that commit, and exposures recorded meanwhile. PUT overrides with one
  unit twice is stored; the SQL adapters refuse it.
- *Torn listings.* Rules put first and a flag enabled afterwards is safe for an SDK at
  every moment. Disabling a flag before changing its rules is not: the old
  configuration may be served with the new rules until the next poll.
- *Dashboard drafts.* Going by history from one flag's page straight to another
  cached flag keeps the sections' state, so drafts made for one can be saved on the
  other. A fetch still in flight from an earlier visit is reused on return, so a page
  may show less than a reply seen elsewhere told. After a 412 or a cancelled
  dialog the slider keeps its draft, and the next Tab keyup sends it or reopens
  the dialog. The production dialog applies the target it was opened with, also if
  the value changed under it. A rule draft loses the type of its values: numbers and
  booleans of `in` and `not_in` come back as strings, and texts with commas as several.
  A 401 that arrives after logging in again leads back to `/login`.

## 5. Proofs

TLC evaluates every assumption on the runs of the modules that declare it.

| assumption | says | because |
|---|---|---|
| `FlagDataAssumption`, `BatcherAssumption`, `TelemetryAssumption` | the constants have their sorts; `None` is not a row, an operation or a request; caps are positive | types of the code |
| `PositionAssumption` | the i-th rule of a body has position i - 1 | `flag-repository.pg.ts:289-307` counts `index` from 0 |
| `StartupAssumption` | a binary lists its migrations in order of version, each once and none left out; no admin key is a server key | `migrations/index.ts` is such a list, and a binary that adds a migration adds it at the end; the keys' prefixes (`seed/admin-key.ts:5`, `seed/server-key.ts:6`) |
| `ClientAssumption`, `BffAssumption` | sorts; `None` is not a snapshot, a session, a status or a configuration; times, bounds and caps are natural numbers | types of the code |
| `DefinitionsAssumption`, `NoneIsNoRow` | `FlagOrder` and `UnitOrder` are lists without repetition, the first of flags; the initial rows are of the flags, patches patch columns, rules have all their fields and overrides are of listed units | the zod schemas of the PUT bodies; the order is that of code units (`definitions-etag.ts:10-12`, `byCodeUnit`), total on strings |
| `RolloutAssumption` | rollouts are numbers; the definitions evaluated are objects, their rules, if any, arrays, and murmur3 puts each of their units into one of `TotalBuckets` buckets | JSON; `bucketing.ts` takes the hash modulo the buckets. Any field may still be missing |
| `DashboardAssumption` | sorts; a flag's page is neither the login screen nor the list; a rollout of 0 exists | the routes of `App.tsx`; the slider's `min` |
| `EmbeddedDataAssumption`, `EmbeddedAssumption` | sorts; the server is started on one of the two adapters; there are finitely many seeded keys and initial flags, and no time is `None` | `composition-root.ts` knows no other; the seeds push or insert their rows one by one |

Nothing is assumed finite or bounded beyond these. `Failures` is arbitrary in every
proof, `ExclusiveWriters` in all but those of the contract, whose theorems name it
as their hypothesis.

### The Postgres flag store

**`PgFlagStoreProofs`: `TypeCorrect`, `WholeFlagsHold`.** The type invariant is
not inductive: `UpdateConfig` writes `Found(r).version + 1`, which is a version
only if the request found a configuration, and `WholeFlags` alone does not survive
a COMMIT, since a transaction that wrote a version without its flag being
committed would break it. The invariant `StoreInv` adds `Protocol(r)` for every
request: its label fits its operation, what it may have written by then, and
what must be committed. As rows are never deleted from `flags` and `flag_configs`
(`RowsStay`), `Protocol` of the other requests survives any step
(`OthersKeepProtocol`). So a step that commits nothing needs only an argument about
its own request (`QuietStep`), action by action; COMMIT is the one step that
needs `WholeFlags` itself (`ApplyWhole`, by cases on the operation).

The audit rows and the rules, in the same module, for any overlap of writers:

- `AuditedOnceHolds`. Every step goes on, rolls back or commits (`GoesOn` and its
  siblings), and only the last appends an entry. `OnceInv` adds that an entry names
  a request that is over and was told "ok" or left in doubt: nothing leads back from
  "done", so nobody commits twice.
- `AuditAfterIsCommittedHolds`. `after` is read before COMMIT, and what it read must
  not move. `LockInv` says that a `flags` row and a `flag_configs` row have at most one
  uncommitted writer, which PATCH and both PUTs become by bumping the version first;
  `AfterInv` follows the second read: what it returned is what the transaction still
  sees.
- `RulesFromOnePutHolds`. The lock does not help here: a DELETE that waited for it
  deletes what its own snapshot found. `RulesInv` says that whoever deleted rows
  has deleted all that are committed or none, that the row at position 0 is the
  first one inserted and collides with any that are left, and that two
  transactions cannot both hold deleted or inserted rows of one configuration. TLC
  checks it on the instances of `PgRace` and `PgLife`.

**`ContractHolds`, `AuditChainHolds`, `ReadVersionNeverAheadHolds`**, under `ExclusiveWriters`. The hypothesis is what
clients do that wait for an answer before they change the same flag again. It is
needed: without it `PgLostUpdate` breaks the contract, and a slow writer may set the
version back below one that was already read.

- `TurnInv` is the invariant: at most one mutation of a flag is under way, what it
  has read so far is what it still sees (`Reading`), what it wrote is what its
  operation asks for, computed from the committed row (`Writing`), and `before` and
  the audit row show the committed aggregate and the one that COMMIT leaves
  (`Auditing`). No locks are argued about; others do not touch the flag.
- *Refinement.* The abstract state is the committed one, with operations and replies of
  mutations only. Statements, reads, rollbacks and failures before COMMIT map to
  stutters or to an arrival; a refusal maps to the contract's refusal, justified
  because the row it compared is still the committed one; COMMIT maps to the one
  atomic step, with its acknowledgement or without (`RefineStep`).
- *Chain and reads.* As every step is now known to leave the tables alone or to be one
  audited mutation (`StepLogs`), the rest is about the contract's steps. `ChainInv`
  adds to `AuditChain` that the last entry on a configuration still shows what
  is committed. `HistoryInv` adds that the committed rows are those of an entry
  with the committed version or later. `ReaderInv` says of a read under way that
  the rules and overrides still follow the version in what is left to read, so what
  it returned for them belongs to that version or a later one.

TLC checks `TurnInv`, `ChainInv`, `HistoryInv` and `ReaderInv` without error on the
instances of `PgTurns` (210,873 states) and on `PgLife` with exclusive writers.

### The embedded stores

**`EmbeddedStoreProofs`: `EmbeddedInvariance`, `ContractUnlessOverlappedHolds`,
`SqliteImplementsContract`, `LastUsedFollowsHolds`.** The two adapters keep
different data: SQLite rows by key, the memory adapter arrays that are searched,
filtered and pushed to. `View(s)` is what the contract sees of either, and
`Outcome` says once what a mutating call does to it: the operation's `Effect` and
its new version, or a refusal the tables justify and no change. `SqliteMutates` and
`MemoryMutates` prove it of every repository operation, `StoreReads` that a read
is the view's snapshot; for the arrays this needs that `find()` stops at the first
match (`FindsAreFirst`), that flags and configurations come and go together, and what
`filter()` keeps (`Without`, by induction through `WFMin`). The proofs about requests
speak of views, and of the adapter only where it decides which tables a unit of work
changes.

- `FlowInv` is the state of the process: on SQLite the open transaction belongs to the
  one request that is inside a unit of work, which holds the tables ROLLBACK returns
  to; on memory each unit has its clone; all of them are well formed. A step of one
  request leaves every other where it was (`OthersKeep`).
- `ContractInv` says of every unit of work, from its label, how its own tables differ
  from the committed ones: not yet, by the `Effect` of its operation, by that and the
  audit row whose `before` and `after` are the snapshots on either side. It speaks
  only of units during which nobody else committed (`Overlapped`), which on SQLite
  is all of them. COMMIT is then the contract's atomic step (`CommitIs`), ROLLBACK
  or a crash its refusal (`RefusalIs`), everything else a stutter or an arrival.
- `SqliteImplementsContract` is the corollary the code's promise is about: without the
  memory adapter there is no exception left. Unlike on Postgres, no assumption on
  the clients is needed.
- `UseInv` follows a key's last use in the live tables and in the ones an open unit
  could still restore or swap in: they agree, or the write that makes the difference
  is on record in `during` and will excuse the lag if it is undone. The factor two in
  the bound is the throttle applied twice, to the stamp and to the row.

TLC checks `FlowInv`, `UseInv` and `ContractInv` without error on the instance of
`Embedded` (245,423 states).

### SDK and telemetry

**`TelemetryProofs`, the batcher: `ConservationHolds` and `DistinctBoundedHolds`.** The
invariant adds that nothing is in flight while `flushing` is false: otherwise
`Send` would overwrite a batch that was not settled. The bound is kept because
`RecordNew` tests it before adding at most one key.

**`TelemetryProofs`, the intake: `NeverDoubleCountedHolds`, `LossNeedsFailureHolds`.** The
invariant compares, tuple by tuple, what was counted and what is still on its way
in all requests with what the batcher has settled or has in flight: at most that
(`AtMostSent`), and exactly that while nothing failed (`ExactlySent`), when only the
last request can be under way. `OnTheWay` sums over a sequence of any length;
its lemmas (`TotalAppend`, `TotalChange`) are proved by induction over the numbers,
through `WFMin`, as the induction theorems that take an operator cannot be used.
`ClientInTelemetry` carries the batcher's theorems into the composition.

**`SdkClientProofs`: `SnapshotWasServedHolds`, `NeverBackwardsHolds`,
`QuietAfterCloseHolds`.** What an answer does to the snapshot is decided by the
snapshot its request was sent with. `PollerInv` says that at most one request is under
way, that its snapshot is still the present one, and that its answer was
produced later; so a 304 refreshes what it is about and a 200 is never older.
`ClosedInv` says that `close()` cancels both timers in its own step.
`ClientImplementsBatcher` shows that the composition drives the batcher only as its
specification allows.

### Startup

**`StartupProofs`: `ReadStaysTrueHolds`, `AppliedInOrderHolds`,
`ReadyMeansMigratedHolds`.** `LockHeld` says that the holder of the advisory lock is
the instance that reads or migrates, also through crashes and failures;
`Progress` says that the migrations behind the loop are in place with the
checksums of this binary, that those ahead are as they were read, and that an
instance past its migrations or its admin seed has them. Another instance cannot
disturb it: rows of `schema_migrations` are never changed, keys are never deleted,
and only the holder adds migrations.

### Backend-for-frontend

**`BffProofs`: `EndedSessionsStayOutHolds`, `WritesNeedWritableHolds`,
`CarriedOutOnceHolds`, `DelayFollowsFailuresHolds`.** Three invariants, of the three
parts of the process. `SessionInv`: a stored session is one this process issued, its
expiry follows from its issue, and nobody has logged out of it; an attempt that led
to a session cannot lead to a second one. `ProxyInv`: a request is in the process
only while there is one, what was sent or executed is at most one, and it was let
through by a configuration that allowed it. `ThrottleInv`: the counter is the length of the
unbroken run of failures before the next attempt. Delays come from `2 ^ n`, which no
prover here can type, so `BffProofs` leaves the delay and the due time of an attempt
untyped and no argument uses that they are numbers.

### Definitions and evaluation

**`DefinitionsProofs`**, from `DefinitionsInv`, which has three parts.

- `NewConfigNeverWithOldRulesHolds`. The property speaks of a finished answer; the
  invariant has to speak of a listing under way. `PastInv` says that flags are
  never deleted and versions never fall. `ListingInv` says of every flag of the
  listing that the rules read for it were its rules at a moment when its version was at
  least the one read before them, and the overrides at that moment or later
  (`Seen`); and that the flags still to come and those done are different flags, so
  that the answer names each once. Commits between two SELECTs only add moments.
- `NotModifiedExactlyWhenEqualHolds`. The encoding that is hashed is shown to be
  injective on what the route can list (`definitionsEtag`), and sorting by key to be
  independent of the order the table gave the rows in, as keys differ. `SdkInv` adds
  that the tag an SDK sends is that of the sorted snapshot it holds.
- `PreviewForetellsWritesHolds`. The candidate laid over the saved definition is the
  definition the PATCH or PUT would leave, so evaluating either gives one result.
- `RaisingRolloutKeepsUnitsHolds`. Whether `evaluate` gets to the rules (`Settled`), and which
  rule is the first that matches (`Hits`), depends on no rollout, and the bucket of a
  unit on neither. So a raised rollout changes one comparison: `OnlyIn` for the flag's
  rollout and for each rule's, and at 0 nobody is in, at 100 everybody.

### Dashboard

**`DashboardProofs`: `SettledShowsRepliesHolds`,
`ProductionNeedsConfirmationHolds`, `SliderSendsOnlyWhatWasDraggedHolds`**, from
`DashboardInv`. `CacheInv` says that what a fetch has read is never older than
anything a reply told of the flag, because a reply makes a fetch that began
before it worthless and it is dropped; `CallsInv` that a reply's version is one the
store has reached. `FormInv` is about the sections: the slider lies on the value
it was rendered with or was dragged from it, a pending rollout exists only where it
needs confirming, and the text of a dialog is empty until something is typed.
The two action properties follow from it, gesture by gesture.

### Only model-checked

- Liveness, under fairness: out of the prover's reach (`EveryRequestAnswered`,
  `EventuallySent`, `Converges`, `EventuallyCurrent`, `CloseAndReadyResolve`,
  `LockNeverStuck`, `CorrectPasswordLogsIn`, `TransactionsEnd`).
- `TotalsAreWhatWasWritten`: totals are sums over sets of rows and of requests, which
  the library defines by folding over a set, a recursion over data. What a batch does
  to the flag tables, nothing, is proved (`StoreBatches`), whole or cut short.

## 6. What is left out, and why

- The HTTP layer's parsing and formatting; statuses are kept as far as they tell
  outcomes apart. A request body that does not parse is a 400 that changes nothing.
- `listFlags` and `listAllEnvironments`: reads of the kind `Definitions` models for
  `listDefinitions`, with nothing kept afterwards. `SdkPoller` takes a definition set
  as read in one piece and an ETag as injective on sets; `Definitions` drops both.
- SHA-256 collisions, and the spread of murmur3: `Bucket` is an arbitrary function.
- A corrupt row (`CorruptRowError`): every body that is stored was validated first.
- A client that disconnects before its answer: the handler goes on regardless.
- Clocks that go back.
- SQLite ending a transaction by itself after a failure (a full disk may roll it back at
  once); `EmbeddedStore` has the code's own ROLLBACK undo it.
- The attribute and the rollout of a rule in `Dashboard`: the editor's checks of them
  only keep more drafts from being saved.
- The dashboard's list, preview, exposure and audit pages, which show what they
  fetch and send no version; creating and archiving a flag there.
- `GET /healthz`, `/metrics`, static files, cookies' attributes: no state.
- Build, lint and vector-generation scripts: no run-time behaviour of the system.

## 7. Plan

Every module of the plan is there, and every safety property but one is proved. What
is left is `TotalsAreWhatWasWritten`: the exposure tables of both adapters would
have to be described by a running total per flag and environment instead of sums over
sets, as `OnTheWay` does for `Telemetry`, where the order of a sequence allows it.
