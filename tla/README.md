# A formal model of DeepCRM

DeepCRM is a headless CRM: an API process that serves tools over MCP, worker
processes, and one PostgreSQL database that both share. What makes it correct is
not in any single function. It is in the order in which transactions, locks,
jobs, caches and retries of many processes meet. This directory holds TLA+
modules of the parts where that order matters, configurations that check them
with TLC, and proofs that TLAPS checks.

`PROJECT.json` lists components, runs, mutants, findings, hazards, theorems and,
for every definition that stands for code, the lines it stands for.

## 1. The system

### Processes and shared state

* **API processes** (`api/src`) authenticate a call, resolve its tenant,
  authorise it, and run it as one database transaction. A transaction takes
  advisory locks in a fixed order of namespaces (`docs/schema-engine.md:1250`):
  the team's topology lock, record and key locks, and last of all the audit
  lock of the organisation. Each process caches loaded schemas and tenants.
* **Worker processes** (`worker/src`) claim rows of `queue_jobs` and run up to
  four handlers at a time.
* **Callers** send calls again when they lose an answer, hold tokens that may be
  outdated, and read the change feed by cursor. **Webhook receivers** answer,
  refuse, or let a request time out. **People** confirm or refuse contact, late
  and in any order.
* **UOA**, the identity provider, says which organisation a team belongs to.

Transactions are READ COMMITTED; what one of them reads before it has the lock
may have changed when it writes. Nearly every property below is about that.

### Components

| component | state | operations | interacts with | what is hard | what makes it correct |
|---|---|---|---|---|---|
| job queue, worker loop | `queue_jobs`; per process the loop and its slots | enqueue, claim, complete, fail, cancel, retention; boot, drain, crash | every component that enqueues; every handler | leases end while handlers run; one worker id for four slots; settlement inside and after the handler | only the holder settles; settled is final; budget kept; all jobs settle |
| change feed, webhooks | `teams.feed_seq`, `record_changes`, `webhooks` | append with a write, pull, register, toggle, delete, deliver | every write; the queue | uncommitted sequence numbers; two delivery runs; receivers inside transactions; key buckets | no consumer skips or repeats; cursors only advance; every change is delivered |
| matching rules, key backfill | rule generations, lookup and block rows, `schema_version`, cached schemas | set, supersede, retry, cancel; write a record; backfill and cut over | record store, queue | batches against writes; overlapping runs; schemas read before the lock | rows sound and complete; block enforced |
| record store, unique keys, idempotency | `records`, `record_unique_keys`, `idempotency_replays` | create, update, assert, delete, restore, recompute, retention | all the above; merge, links | keys given up and taken; lost answers; jobs that read early | keys are those of live data; once per key; a version names a state |
| tenancy, audit chain | `teams.organization_id`, tenant cache, `audit_logs` | resolve, provision, write, reparent | UOA, queue, every write | stale tokens; a move against calls in flight; two heads of a chain | one provisioning; verifiable chains; a feed that follows its team; moves end |
| retention | (the rows of others) | daily removal | queue, records, replays, approvals, proposals | rows still in use | nothing removed that is needed |
| links, projections | `record_links`, projected attributes | link, end, position, project, cascade, restore | record store, merge | cardinality from both sides; positions; what deletion ends and restoration revives | limits hold |
| merge, unmerge | `merged_into_id`, snapshots in change rows | merge, undo | links, lists, keys, matching | undo in any order and after edits | redirects are one hop; an undo is whole or refused |
| approvals | `approval_requests` | request, approve, reject, consume, expire | every guarded operation | deduplication replaces a token; approval and effect commit together | one effect per approval, by a second person |
| intake, proposals | `record_proposals` | submit, pair, amend, supersede, decide | record store, contact points, consent | submissions and decisions take different locks | windows hold; decided is final |
| consent, suppression, contact points, erasure | consent attributes, `suppressions`, `record_contact_points` | act, reach, restore, erase | record store, merge, intake | late answers; erasure of merged records | newest act wins; refusal keeps suppressing; nothing left behind |
| policies, visibility, redaction | policy rows, grants | evaluate, filter | every operation | combination of rules, person and agent | an agent never exceeds its person |
| schema engine, templates | types, attributes, relations, groups, versions | define, evolve, archive, apply, load, cache | all | checks before the transaction; loads while definitions commit | backing relations owned once; caches of one version; schemas load |
| derived attributes, dynamic lists, static lists | derived values, list entries | refresh, redefine, add, remove, page | queue, record store | recomputation from rows read early | settles on what the data gives |
| pipelines | stage history | move, undo, archive, summarise | record store | concurrent and back-dated moves | stages form one timeline |
| bulk assert, export | job results, files | run, resume, cancel, fetch | queue, record store | restart between rows; two runs on one file | every row once; a published file is whole |
| history, timeline; query; search; duplicates | read models | read, page, reindex, scan | change rows | paging and indexing while rows change | steady rows shown once; the past as it was; words and vector agree |
| inbound auth, tools | app keys, request ids seen | authenticate, consume | all | repeated messages, skewed clocks | a message runs once |

Not modelled at all: attribute types and validation of single values; deployment,
scripts and templates' data. `PROJECT.json` gives each component its status and
what is left out of it.

## 2. The modules

| module | what it is | sources (under `src/`) |
|---|---|---|
| `JobLifecycle` | abstract: what the queue promises of one row | `packages/queue` |
| `JobQueue` | the queue statement by statement and the worker loop; implements `JobLifecycle` | `packages/queue`, `worker/src/index.ts` |
| `ChangeFeed` | the feed of one team, its writers, a pull consumer, webhooks, delivery runs | `change-log.ts`, `record-mutation-effects.ts`, `io.ts`, `webhooks.ts`, `change-deliver.ts` |
| `MatchingGenerations` | rule generations, key rows, record writes with cached schemas, backfill runs | `matching-rules.ts`, `matching/keys.ts`, `match-key-backfill.ts` |
| `RecordStore` | records, unique keys, idempotent requests, key recompute, retention | `records/write.ts`, `unique-keys.ts`, `services/records.ts`, `key-recompute.ts` |
| `Tenancy` | teams and organisations, calls, the reparent job, audit chains | `tenancy.ts`, `tenant-reparent.ts`, `db/src/audit.ts` |
| `LinkGraph` | records, links with limits, projections, cascades, restoration, list entries | `links/*.ts`, `records/write.ts`, `lists.ts` |
| `MergeUnmerge` | extends `LinkGraph`: merges, snapshots, undo | `merge/*.ts` |
| `Inbound` -> `Policy` -> `Approvals` | claims of a request; verdicts; approvals and the calls around them (each extends the one before) | `mcp-inbound`, `policy.ts`, `approvals.ts`, `mcp-http.ts`, `principals.ts` |
| `Consent` -> `Intake` | one act about consent and the suppression store; people, forms, proposals, decisions, merges, erasure | `consent*.ts`, `intake*.ts`, `proposal*.ts`, `contact-points*.ts`, `erase.ts` |
| `Schema` | definitions in two steps, batches, loading and caching | `schema/*.ts`, `load.ts`, `templates/apply.ts` |
| `Pipelines` | stage moves, undo, the intervals the summary counts | `pipeline/*.ts` |
| `Paging` -> `Query`, `History` | pages by cursor; filters under SQL's three-valued logic; states, history and timeline from change rows | `query/*.ts`, `records/history.ts`, `timeline/query.ts` |
| `Derived`, `DynamicLists`, `StaticLists`, `SearchIndex`, `Dedup`, `BulkJobs` | one background job each, with what it races against | `derived/refresh.ts`, `dynamic-refresh.ts`, `lists.ts`, `record-reindex.ts`, `dedup-scan.ts`, `bulk-*.ts` |
| `NoValue`, `Team`, `Pool` | the absent value, and the constants shared by callers of one team and by workers | |
| `JobsProofs` | theorems of `JobQueue` and of the jobs it runs: `SearchIndex`, `BulkJobs`, `DynamicLists`, `Derived`, `Dedup` | |
| `RecordStoreProofs` | theorems of `RecordStore`, `Pipelines` and `Intake` | |
| `SchemaProofs` | theorems of `Schema`, `Query` and `History` | |
| `ChangeFeedProofs`, `MatchingProofs`, `TenancyProofs`, `MergeUnmergeProofs`, `ApprovalsProofs` | theorems of the module of the name | |
| `MC*` | symmetry and the finite constants of the runs | |

In every module operators that say what a helper of the code would be with a
guard, a lock or an update missing stand before the definition they change. Each
property is listed with one that violates it.

### How the modules meet

Components meet in three ways. Where two change the same rows in one
transaction, one module extends the other: a merge changes links, keys and list
entries (`MergeUnmerge` over `LinkGraph`), a form carries an act about consent
(`Intake` over `Consent`), an approved call is authenticated, judged and
admitted (`Approvals` over `Policy` over `Inbound`).

Where a component is the handler of a job, its module has that job claimed
again while an old handler still runs, retried, cancelled and given up, and
nothing else: that is what `JobQueue` establishes (only the holder settles, and
a job ends). So each of the job modules has two workers, and `ChangeFeed` and
`Tenancy` let runs die and requeue.

Where two components share no state, they may share a run: `MCRecords`,
`MCSchema` and `MCJobs` extend several modules and choose in the initial state,
by the variable `focus`, which of them the behaviour is about; the variables of
the others never change. This checks each module exhaustively, as a run of its
own would.

### JobQueue

A row is `status`, `attempts`, `lockedBy`, `expired` (is `locked_at` ten minutes
old?) and `visible`; `arrivals` is the order of `created_at`. `Claim` is
`claimNext` with SKIP LOCKED and its ordering. `Complete`, `FailRead` and
`FailWrite` are the statements of `complete` and `fail`, each behind the same
`WHERE`. `Terminalize`, `CommitTerminal` and `AbortTerminal` are a handler that
completes its job inside its own transaction. `Wait`, `PollAgain`, `Stop`,
`Drained` and `Crash` are the loop. All slots of a process share the worker id,
as in the code, so a handler that lost its lease passes the fence of a later
claim of a sibling slot. `outlived` remembers the jobs of which a handler has
outlived its lease. The refinement shows `JobLifecycle` the row and, as `working`,
the claims whose handlers still run (`Working`): it is the abstract module that
says which of them may settle a claim (`MaySettle`). Left out: `progress`. Every
job has the same `MaxAttempts` and one of two priorities.

### ChangeFeed

`Allocate` takes a number under the team row, which stays locked until `Commit`
or `Rollback`. `Effects` counts webhooks and decides about the delivery job
with the bucket of the *start* of the request. A delivery run goes through the
webhooks in id order, each in one transaction (`OpenHook`, then `Accept`,
`Refuse` or `NoRows`, then `CommitHook`), and `RunLost` is a dead worker or the
transaction timeout. `Pull` is `crm_changes_since`, with the three cases of
`next_cursor`. Left out: what an event contains, signatures, filters and
visibility (a set of unwanted rows stands for what they drop), purging of jobs.

### MatchingGenerations

`SetRules` is `setMatchingRules` with its three outcomes. `Write` stores rows
for the generations that the *cached* schema names, refuses what violates the
unique index or the foreign key, and records in the history variable `lagging`
whether that schema was outdated. `Scan` is one backfill batch, `Activate` and
`BlockReplacement` the finalizer. Loading the schema once in `Start` is the same
as loading it later: while the target is pending its version does not change.
Left out: the bootstrap of rules for objects that have none, progress counters,
`cancelMatchingRules`, which nothing calls. A record has one key per rule set.

### RecordStore

A write is one step, because it holds the topology lock throughout: `Put`
changes the row and its keys together. With an idempotency key it is three:
`Send`, `Reserve`, then `Commit` or `Rollback`, in which the answer may be lost.
The recompute job reads a batch (`ReadBatch`) and writes it later
(`WriteBatch`); `skewed` remembers the records that changed in between.
`Retention` removes deleted records and day-old replays. Left out: validation,
links written inline, visibility, more than one unique attribute. Retention is
taken to come after clients have stopped resending a key.

### Tenancy

A call carries a token (`Begin`), resolves its tenant from the cache or under
the lock, writes change rows (`Feed`, which needs the team row in the
organisation it resolved), and extends the audit chain last (`AuditLock`,
`Commit`). The job rewrites the listed tables, the audit rows, and the team row
statement by statement. `touched` and `mixed` are histories: organisations that
a team has joined or left, and teams moved while a call wrote or by a job for
another source. Left out: what else provisioning inserts; subject-attested
calls; leases. The ids of teams and organisations are those of UOA.

### LinkGraph and MergeUnmerge

Every operation takes the topology lock before it reads, so it is one step; list
entries are written without it, so they come in between. A link row keeps its
identity when it ends, because restoration and undo revive it. A projection
moves every link it keeps to a position under zero first and gives positions back
only to the many-valued ones, so a kept to-one link stays at -1 (`PlaceKept`);
an unmerge whose history holds such a link cannot read it (`HistoryReadable`).
`Merge` re-points,
deduplicates, ends and renumbers links, moves the key, compresses redirects and
leaves the snapshot an unmerge reads; `Unmerge` restores all of it or reports
conflicts and changes nothing. Left out: data beyond one unique value, match
keys, and merging more than `MaxLosers` records at a time.

### Approvals, Policy, Inbound

A delivery is one arrival of a message at the server; a client may deliver a
message again (same id) or ask again. `Arrive` authenticates and checks the
clock; `Admit` consumes the id; the verdict of `Policy` lets the call run,
refuses it, or makes it ask. Answers go through `prepareApproval` and
`consumeApproval` with their checks, the latter in one transaction with the
approved operation. Left out: signatures, the list of tools.

### Intake and Consent

A person holds a set of emails and phones and a name. A submission reads before
it places, so a rejection, which takes no lock, may come between; decisions and
acts about consent read first and write later. `Store` in `Consent` is what one
act does to the suppression store. Left out: normalisation, direct writes of the
consent attributes, subject reports.

### Schema, Pipelines, Query, History

A definition is two steps: `Begin` reads and checks, and the action of its kind
writes and commits, because it locks nothing before it raises the version; what
the unique indexes and `WHERE` clauses refuse is a rejected commit. An update of
an attribute merges its options into those it read, not into those of the commit
(`Evolve`). A load reads the version, types and
relations separately. A move in `Pipelines` takes its time when the request
arrives and its lock later. `Query` evaluates filters and sorts as PostgreSQL
does, missing values included, and pages by the values of the last row. In
`History` a change carries a time of its writer's transaction and a sequence of
its commit.

### The background jobs

`Derived`: a refresh reads all its records and writes them one by one.
`DynamicLists`: evaluation and membership against redefinition. Only a write made
for a person asks for a refresh of the lists (`person`); one made for nobody and
the refresh of derived values (`Derive`) change what a list selects silently
(`silent`). `StaticLists`: pages by position and id. `SearchIndex`: words and
vector in two steps. `Dedup`: pairs into groups, with records that go in between;
`Joined` says what a group should be, without the disjoint sets. `BulkJobs`:
batches with progress, leases, files; the transaction that completes an export
may commit without its handler hearing of it (`AnswerLost`, `unheard`). Each is
given by the header of its module.

## 3. What the runs show

All passing runs are exhaustive on their instances.

| run | shows |
|---|---|
| `queue_stale` | handlers outlive their leases, two processes of two slots: attempts are fencing tokens (`ClaimsUnique`), a terminalized row stays held, settled is final, handlers overlap on a job only after one outlived its lease, a spent job goes back to the queue only by an older handler of the same process, and rows and handlers implement `JobLifecycle!Spec` |
| `queue_live` | handlers within their leases: every job settles in spite of crashes, stops and lost completions |
| `feed` | numbers become visible in order and without gaps; a pull consumer gets each wanted row once, whichever of the three cases sets its next cursor; no webhook skips an event its receiver has not accepted; a queued delivery job delivers what is owed or spends its retries |
| `matching` | key rows are sound, and complete but for writes with outdated schemas |
| `records` | keys follow data; a request is applied once; a version names one state. People: open proposals stay within their windows; an erased person leaves no proposal and no contact point; a refusal keeps suppressing; the newest act about consent wins |
| `tenancy` | one provisioning; chains of untouched organisations verify; change rows are written only for the organisation the team is in |
| `graph` | cardinality of both ends, of a relation limited at its targets too; one-hop redirects; an unmerge that succeeds and that nothing came before restores everything |
| `approvals` | an approval carries one execution by a second person; open approvals are bounded; a repeated message runs once |
| `schema` | every reference attribute owns its relation; the cache holds one version; stages form a timeline; paging shows a steady row once; the state at an instant is what it was |
| `jobs` | derived values settle; an undisturbed dynamic list is right about every record that has not changed silently; words and vector agree; duplicate groups are exactly the records that chains of pairs join; a bulk row is counted once and truly; an export that no other run overlapped is there, whole, and fetched once, unless the answer to the commit that completed it was lost |
| `tenancy_move` (violated) | a reparent job that fails for good |
| `schema_archive` (violated) | definitions that no process can load |

### Disagreements between code and documents

Each finding in `PROJECT.json` quotes both. The two runs above are

1. **A move that cannot end** (`tenancy_move`). After moving the audit rows, the
   job must extend a chain that now has two heads, and `writeAudit` refuses. So
   every attempt fails whenever the target has audit rows of its own, and the
   failed job keeps its idempotency key.
2. **A schema that cannot be loaded** (`schema_archive`). A relation that a
   reference attribute owns may be archived; every later load of the team throws.

The others are reproduced by checking a property that the documents ask for and
the code does not keep. Two have a configuration of their own, run as
`tlc -config X.cfg M`:

| configuration | module | property | finding |
|---|---|---|---|
| `ChangeFeed_wakeup.cfg` | `MCChangeFeed` | `EveryChangeDelivered` | a change that nobody delivers: the job key is the bucket in which a request *started* |
| `Jobs_refresh_state.cfg` | `MCJobs` | `FailureShown` | a failed derived value hidden by the next record of the refresh |

For the rest, name the property in place of those of the configuration, and
leave out its SYMMETRY (all of these are INVARIANTS but `OffAfterRetries`):

| in place of the properties of | property | finding |
|---|---|---|
| `ChangeFeed.cfg`, `Hook = {1, 2}` | `OffAfterRetries` | all webhooks share the retries of one job: the second is switched off at its own first refusal |
| `Matching.cfg` | `BlockEnforced` | a write with an old schema lets a blocked duplicate in |
| `Records.cfg` | `UniqueAmongLive` | the recompute job restores the keys of old data |
| `Records.cfg`, `Acts <- MCLateActs` | `ObjectionHolds` | a late confirmation overrides a newer refusal of an address no record holds |
| `Schema.cfg`, `Calls <- CycleCalls`, `MaxCalls = 4` | `DependenciesAcyclic` | two concurrent updates close a cycle of derived attributes |
| `MergeUnmerge.cfg`, `Record = {1, 2}`, `InitialWorlds <- MCCascadeWorlds`, `MaxEffort = 8` | `KeysFollowRecords` | a record that a cascade brought down and back is left without its key |
| `MergeUnmerge.cfg` | `UndoneAtOnce` | an unmerge right after its merge is refused |
| `Approvals.cfg` | `ResolverIsNotRequester` | a repeated request replaces the requester under an approver |
| `Schema.cfg` | `ConversionsFollowMoves` | the summary counts a conversion that never happened |
| `Jobs.cfg` | `WritesSurvive`, `ErasedStaysEmpty` | a refresh writes whole records back |
| `Jobs.cfg` | `ErasedNotSearchable` | a reindex job brings an erased record's search row back |
| `Jobs.cfg` | `ExportDownloadable` | a stale export run unlinks the published file |
| `Jobs.cfg` | `ExportSurvivesItsRun` | a run unlinks the file of the export it completed, because the answer was lost |
| `JobQueue_stale.cfg` | `SpentJobsStayOut` | a handler of an older claim gives a job back whose attempts are spent |
| `Jobs.cfg`, `SPECIFICATION MCDisturbedSpec` | `ReadyMeansCurrent` | a dynamic list shows 'ready' with old members |

Findings that name no property were read from the code while modelling it; where
the model has them, `PROJECT.json` says in what operator.

The undo of `UndoneAtOnce` is one whose history can be read: it excepts the links
at position -1, which are a finding of their own.

The modules state some further properties, which hold on the same instances and
are not listed with a run: `TypeOK` of each module that has one (of `Approvals`
in its proofs), `LatestClaimSettles`, `CursorAdvances`, `SettledTogether`,
`CacheCurrent`, `OnlyRunningActivates`, `QuietMovesAreWhole`,
`VersionSeesChange`, `EventsNameWhatChanged`, `PersonNotExceeded`,
`DecisionIsFinal`, `SubmissionsOnlyAdd`, `KeyMovesOnce` and, of `StaticLists`,
`ListedOnce`. So no listed run checks the pages of a curated list: `ListedOnce`
holds when it is put in place of the properties of `Jobs.cfg`, and is not
proved. `VersionSeesChange` takes no account of positions in relations that are
not ordered. All of the others but some of the types are theorems
(`LatestSettles`, `WebhookCursorAdvances`, `SettleTogether`, `CacheIsCurrent`,
`RunningActivates`, `QuietMoveIsWhole`, `ChangesRaiseVersions`,
`ChangesAreTold`, `PersonStaysBound`, `DecisionsStayFinal`, `SubmissionsAdd`,
`KeyedMovesOnce`).

### Bounds

* `JobQueue`: two worker ids of two slots, `MaxAttempts` 2; one job where handlers
  are slow, since jobs then share nothing but slots, and two, of which one has
  priority, for liveness. `MaxClaims` 4 is more than `MaxAttempts`, so that a lease
  can be lost after the last attempt and a sibling slot can spend more than the budget.
  A process stops or dies only while another id is left (`Replaceable`): the
  code restarts processes without bound, which a finite set of ids cannot.
* `ChangeFeed`: three writes, one of a row that is filtered out, one webhook, two
  thirty-second buckets, batches and pages of one row, a scan budget of two, a
  retry table of length one. The two kinds of consumer read nothing of each other,
  so a behaviour has one (`focus`): the pull consumer meets all three writes, and
  with them a page that is full, a scan that is exhausted, and a budget spent on
  rows of which too few are wanted; webhooks are delivered to with two writes, both
  wanted or one not. Batches of one give the longest runs per row. There is no
  backlog beyond ten batches: after ten the code leaves the rest to the next write.
* `MatchingGenerations`: two records and values, three rule sets (one that
  only warns, one by value, one under which both values collide), three
  generations (active, replacement, one that supersedes it), one retry, two
  jobs, batches of one, two workers for one overlap.
* `RecordStore`: two records, two values, two clients on one key, versions up
  to four, a batch of both records. `MCIntent` has each operation, with and
  without an expected version, and an assert whose values name two records.
* `Intake`: three people, three emails and a phone, four forms that meet by
  email, by phone, by both and not at all; windows of one per queue and two per
  team, which two submissions overflow; two acts of different order and source.
* `Tenancy`: two teams, three organisations, two moves (there and on, or back),
  four audit entries; the violated run has one move, three calls and five.
* `MergeUnmerge`: four records, an ownership that cascades, ordered tags, and
  parts that belong to one whole each; four initial worlds with links that a
  merge makes duplicates of, loops or overfull, at their sources and at their
  targets. `MaxEffort` bounds a behaviour to five, where merges and unmerges
  count once and other operations twice: two merges and both undone in either
  order, or with an edit, a deletion or a link in between.
* `Approvals`: one member with an agent, an admin and two owners, four
  deliveries, two calls open at once, one open approval per requester: a request,
  its repetition by another, and two answers.
* `Schema`: two callers, three calls, one loader. `MCCalls` has each kind of
  definition; `MCHeld` says which options records hold, of the two in `Options`;
  the batches are short sequences, which the proofs take of any length.
  `Pipelines`: three moves of one record with one clock tick and an undo.
  `Query`: three rows with two sort keys that may be missing, pages of two, one
  change between pages. `History`: two overlapping writers, three writes, two
  instants.
* Jobs: two workers, two or three attempts, two to four records; each module's
  case of interest (a row read, changed and overwritten; a page cut between two
  equal positions; four records joined by a chain of three pairs of two rules, or
  two by two; a batch lost after its first row) needs no more.

`MaxWrites`, `MaxChanges`, `MaxAdds`, `MaxTurns`, `MaxEdits`, `MaxTries`,
`MaxRuns`, `MaxLeases`, `MaxCalls`, `MaxLoads`, `MaxSubmits`, `MaxRows`,
`MaxActs`, `MaxInFlight`, `MaxMoves`, `MaxTime`, `MaxNow`, `MaxAlters`,
`MaxDeliveries`, `MaxOpenCalls` and `MaxPairs` cap counters and appear only in guards.

Sets of interchangeable values are symmetric where no liveness is checked.
Deadlock is checked where the system cannot stop (`JobQueue`); elsewhere the
bounds make it stop.

### Fairness

* `JobQueue!FairSpec`: processes keep polling, statements end, the clock goes on.
  The code's loop has no other exit than abort or rejection. Crashes, stops,
  cancellations and producers are not fair.
* `ChangeFeed!FairSpec`: the clock, the end of open transactions, and the queue
  running what is due, which `queue_live` establishes. Receivers, the
  administrator and the subscriber's return are not fair.
* `Tenancy!FairSpec`: calls end, queued jobs run, and a job that fails over and
  over is given up in the end: strong fairness on giving up, because the queue
  counts attempts, which this module does not.

The other modules state safety only. "Settles" in `DerivedSettles` is a state
property: when nothing is left to do, the values are right.

## 4. What is proved

TLAPS proves the following for all values of the constants, under the `ASSUME`
of the module and no other assumption unless stated. Every invariant and every
action property that a passing run checks is stated by a theorem; what is left to TLC
are the two properties that need fairness.

The assumptions say what the constants range over, and what must not be taken
for what: `None` (declared once, in `NoValue`) is no record, number or row;
tables, calls and worlds the checks choose from are of the types of the rows; a
merge world is one without merges in which links keep to their relations
(`WorldAssumption`); a team starts with definitions in which references own
their relations and attributes are in groups of their own type, and the calls it
makes are those the tools make (`SchemaAssumption`). TLC evaluates each of them
in the run of its module.

**JobsProofs: the queue.** Everything holds for any number of slots that share a
worker id, and for handlers of any length. `TypeCorrect`. Then `IInv == TypeOK /\
ClaimsUnique /\ TerminalizerHoldsRow /\ ReadsBehind` is inductive: the last conjunct,
that a failing run has not read more attempts than the row has, is what makes the
others survive `FailRead`. It yields `ClaimsAreTokens` and `TerminalizerExclusive`.
`SettleInv` adds that a handler belongs to a process that is not gone
(`RunsAlive`), that the latest claim of a running job whose process lives has its
handler (`LatestLives`), and that `fail` reads no fewer attempts than its own claim
made (`SeenOwn`). From these: `LatestSettles` (only the process of the latest claim,
and while that claim's handler is at work), `BudgetKept` (a spent job is given back
only by an older handler of that process, which is the exception the code leaves
open), `SettledForGood`, and `LifecycleImplemented`: every step is a step or a
stutter of `JobLifecycle!Spec`. `HandlersAlone` needs `AloneInv`: while no handler
of a job has outlived its lease, the job has one handler at most, which holds a
row that is running and not expired (`Timely`), so no claim finds that row.

**JobsProofs: the jobs.** Each has two workers or more and any number of runs.

* `VectorsMatch` (`SearchIndex`): words and vector stand together because the
  vector is stored only if the row's words are still those it was computed from.
* `RowsOnce` (`BulkJobs`): a row has been asserted if, and only if, its key has
  a result (`KeysTell`), every handler has told exactly the rows before its next
  one, each as its key says (`Progressed`), and so has the result of a completed
  job. Nothing is assumed about leases.
* `ExportWhole` (`BulkJobs`): a file is fetched once whatever overlaps. While no
  two runs have overlapped, `FilesInv` says phase by phase what the lone
  handler has at the temporary and the final name (`FileOk`), and that a job not
  completed leaves nothing (`NothingLeft`). A completed job without its file is
  one whose handler did not hear of the commit (`CompletedWhole`, `unheard`).
* `QuietListIsExact` (`DynamicLists`): the list is right about every record that
  has not changed silently since (`Steady`), while none of the races has happened
  that the code leaves open (`disturbed`). One of three things then holds: a refresh of
  the list's version is queued, or a pass goes whose finds and remaining work
  cover what the definition selects, or the list is ready and exact.
* `DerivedValuesSettle` (`Derived`): a record is *awaited* while a queued job,
  a run that has not yet read, or the exemption of the property names it. A
  value that is not awaited fits its sources twice: as the rows are, unless the
  run that holds the lock covers it (`NowFits`), and as they will be once that
  run has written what it has computed (`ThenFits`). The second becomes the
  first at the commit. In between, what the run has read is what the rows hold,
  unless a write that awaits a refresh of its own came after (`ReadsHold`).
* `GroupsConnect` (`Dedup`): two records are in one group if, and only if, a
  chain of pairs joins them, over records that have gone as well. The parents of
  the disjoint set form a forest, in which each record has a depth (`Falls`) and
  a root (`Climbs`, `Ends`). A union hangs one root under the other
  (`UniteTrees`); two records united have one root (`Together`) and a set that
  no pair leaves holds a record exactly if it holds its root (`Chained`), so
  being joined means having one root (`JoinedMeansRoot`). Root finding is a
  recursive function; that it is well defined, and that there is only one, is
  shown by a record of least depth at which it would fail.

**RecordStoreProofs: records.** The invariant has two independent halves.
`StoreInv` (types, uniqueness of key values, `KeysFollowData`) is kept by every
write because of the lemma `PutKeepsStore`: a record is written together with
its keys and only if no other record has them. A batch of the job keeps it
because `skewed` takes up whatever the batch has got wrong. `RequestInv` says
that at most one client has reserved a key, and only while nothing is stored for
it, and that what has been carried out has left its result. The theorems are
`TypeCorrect`, `KeysAgree`, `AtMostOnce`, `VersionsNameStates`, and
`UniqueWithoutSkew`: live records are unique as long as no batch has been
overtaken, so the job is the only way to a duplicate.

**RecordStoreProofs: stages.** `StagesStayATimeline`, from `TimelineInv`: of the
intervals of a record the last alone is open, each ends where the next begins,
and there are as many as the record has versions. `KeyedMovesOnce`, from
`KeyInv`: nothing is stored under a key that a call still holds, one call holds it,
and whatever a key has moved or answered is what is stored under it.

**RecordStoreProofs: people and proposals.** Four invariants over `Intake`.
`ProposalsInv` gives `OpenRowsStayBounded` and `DecisionsStayFinal`: what a
submission is about to place was not there when it looked (`FoundFor`), and
nobody else can have placed it; which rows overflow a window is decided by
their rank in it. `PeopleInv` gives `RefusalsHold`: a call about consent has
read what still is while it holds the lock of its email (`ReadHolds`), an email
has one holder, a person acted by an email they hold, and a refusal has its
entry. `NewestActsWin` says of each step that consent stays or becomes newer
(`ConsentIsNewer`). `ErasedInv` gives `ErasedStayForgotten`: a submission under
way names living people only (`PlacesLiving`). `SubmissionsAdd` needs no
invariant of its own.

**ChangeFeedProofs.** Three invariants, each resting on the one before.
`FeedInv`: at most one write holds a number, and it is the one after `feed_seq`,
because the team row stays locked until the commit. `HookInv`: at most one run
has a webhook open (`Exclusive`, the advisory lock), that run's cursor is between
the webhook's and the head of the feed, and everything up to either cursor that
the receiver wants has been accepted; a batch extends this because its rows are
the *least* ones above the cursor (`LeastDown`, `TopIsTop`). `PullInv`: each
wanted row up to the cursor has been given once and none beyond; the lemma
`PageIsPrefix` goes through the three cases of `next_cursor`. The theorems are
`FeedIsCommitOrdered`, `NoEventSkipped`, `WebhookCursorAdvances` and
`EveryRowPulledOnce`.

**MatchingProofs.** `MatchingInv` adds to the two run properties: one generation
is active and at most one is its replacement (`RulesInv`); a cached schema, and
the one a run was given, is the stored one or of an earlier version
(`SchemasOk`); and what the run that *owns* the job of the pending generation
has scanned has its rows (`Scanned`). The last is why `Activate` may trust the
scan: a write behind the scan stores the row itself unless its schema is
outdated, and a lost or repeated run does not own the job. Every change of rules
goes through one lemma (`RuleStep`) and every write and batch through another
(`MaterializedKeys`). The theorems are `KeysNeverStale`, `KeysNeverMissing` and
`CacheIsCurrent`. `SettleInv` adds the jobs: a run that has stopped does not own its job
(`StoppedFree`), and a pending generation has a job that is not completed, a blocked
one a job that is (`JobFits`). It gives `SettleTogether` and `RunningActivates`: only
a running job settles its generation.

**TenancyProofs.** `TenancyInv` says of a log that its first N places are taken
(`Filled`), and of the rows of an untouched organisation that they are one chain
in which every row follows an earlier one (`Chain`). The lemma `HeadExtends`
shows that the head `writeAudit` finds then exists and has no successor, because
the last row of a chain is one; `ChainGrows` that appending there keeps the chain;
`RewrittenIs` that the job's rewriting leaves the rows of other organisations as
they are. A call that has taken the chain's lock keeps a head that still extends
it (`CallOk`); a call that has fed keeps its team where it resolved it, because
the team row is locked; a job that has collected audit rows has not moved the
team yet (`RunOk`). The theorems are `ChainsVerify`, `TeamProvisionedOnce` and
`FeedStaysWithTeam`. `QuietMoveIsWhole` has an invariant of its own, `QuietInv`:
while no call has mixed a team's rows, a run of its move finds the team at the
source or at the target, and once it has rewritten the listed rows each of them
is at the target (`RunWhole`). So a move that ends without interference leaves
nothing of the team behind.

**MergeUnmergeProofs.** `GraphInv`: the rows are typed, each merge that may
still be undone names records, and redirects are flat. A merge keeps redirects
flat because it redirects the losers and all that pointed at them to a survivor
that is live; an unmerge because a record it gives back, or leaves pointing at
the loser, points at one that is live again (`RedirectsStayFlat`).

`LinkInv` adds the links. That the active links fit side by side (`Whole`) is
not inductive, because two operations bring ended links back. What a deletion
snapshot holds must fit together and be held once (`Kept`); a merge that may be
undone remembers links that fitted in the graph it found (`Remembers`); and no
unchanged link is in the hands of both (`HeldOnce`). A projection is cut
in two: the links it keeps, at their new positions (`Placed`), and the new ones
beside them. This gives `CardinalityStays`.

`UndoInv` adds what an unmerge gives back: for a merge that was the last
operation, how values, keys, list entries and links stand to what it found
(`AtOnce`). It gives `UndoingIsWhole`, which is about such a merge only: after
other operations an unmerge restores what is left to restore, and what that
should be is a matter of each case.

`ChangesRaiseVersions` holds of every operation: a step either gives a record a
version it did not have, or leaves its value, its being live and the link rows
at it alone (`Told`), but for positions in relations without an order, so a
reader who compares versions misses no change.

**ApprovalsProofs.** `ApprovalInv`: a call beyond the answer has one, a
challenged call owns the row it made or took over, a row that is consumed is
named by one approved call only (`OncePerRow`), whose person is not the
requester the row then named and has the role the tool demands
(`OneExecutionBySecondPerson`). For repeated messages a second invariant follows
the clock: an id that has been consumed is remembered as long as any token that
carries it can be verified. It needs `Life <= ReplayTtl` (`principals.ts:14`:
330 s against 360 s) and gives `RepeatedMessageRunsOnce`. `PendingStaysBounded`
follows the advisory lock: one call at a time is placing a row, and what it
counted, and that no open row is of the same call, stays true until it does
(`PlaceOk`). `PersonStaysBound`, from `PermitInv`: a call that is prepared or
run was so under a verdict, and no verdict allows more than that of the person
alone, whatever their agent or client is allowed (`PersonBounds`).

**SchemaProofs.**

* `CachedWhole`: a load whose version is still the present one has read the
  present definitions (`LoadFollows`), since every commit raises the version.
* `ReferencesBacked`: tables are *sound* if each reference attribute owns one
  relation and nothing else owns any. Definitions only grow (`Follows`): a name
  once taken stays taken, and a relation keeps the type it starts at. So what a
  transaction read of sound tables that have grown since is enough to commit on
  (`AddAttributeSound`): a relation it saw claimed for its own attribute would
  mean that the attribute was there. A batch (a type with its attributes, the
  system attributes, a template) is a recursive function over its definitions;
  that it goes from sound tables to sound tables is shown by the first index at
  which it would not (`CourseExists`, `CourseStays`).
* `ChangesAreTold`: the event of a commit names its types from what the
  transaction read, but a reader sees the tables it commits on. Groups hold
  attributes of their own type (`Grouped`) and no group or pipeline changes its
  type (`Keeps`), so what was read of owners still holds at the commit
  (`NamedInv`); then, call by call, a view can only change at a type the event
  names (`Names`, `OnlyAt`). A new type or a template may leave out active
  targets of its references: the statement excepts them, as the code does.
* `QueriesShowOnce` and `HistoriesShowOnce`: the sort order is a strict total
  order of what is found, missing values last and the id at the end, so a sorted
  page is the list of the elements at their ranks (`RanksSort`) and holds the
  first ones above the cursor (`FetchIsFirst`). Then what stays below the cursor
  has been listed once and what stays above it not yet (`ReadingHolds`).
* `ToldAsItWas`: the change rows explain the past (`Explains`): each write has
  its version, in order, and says of it whatever it changed. So the last row
  about a value before an instant tells the value then.

**Only model-checked.** `EveryJobSettles` and `QueuedJobDelivers`: the prover has
no liveness under fairness and no ENABLED. Induction over data is out of its
reach as a rule, because the library's theorems take operators; where a proof
needs it (`Dedup`, batches of `Schema`, sorted pages) it argues by a least
counterexample. That TLC's instances satisfy the assumptions is checked there.
Findings are counterexamples and are TLC's as well.

## 5. What is not modelled

* **Attribute types and validation.** Normalisation of single values: pure
  functions on strings and numbers, which unit tests enumerate. The modules work
  on normalised values.
* **Deployment, scripts, migrations, template data.** No behaviour at run time.
* **Cryptography and token formats**, signed download addresses, sealed cursors:
  the modules take what verifies as verified, and model what the claims must
  agree on.
* **Reads without a state of their own**: the quality report, aggregation
  queries, ranking of search results, listings of tasks and proposals, views.
* **Redaction and record visibility.** `Query` and `History` take the sets of
  shown rows and hidden values as given.
* **Lock waits.** A lock is a guard, and a deadlock that the database breaks is a
  transaction that fails (`ConsentFails`, `SubmitFails` in `Intake`).
* **Matching bootstrap** and the scoring of candidates; **retention** of
  approvals, superseded proposals and export files.

## 6. Plan

1. In `EventsNameWhatChanged` of `Schema`, the exception (targets of the
   references of a new type) as a set of types computed from the call.
2. The matching bootstrap, which activates a first generation under running
   writes, beside `MatchingGenerations`.
3. Leases inside `Tenancy`, in place of `LostRuns`.
4. The pages of `StaticLists` for all values of the constants. They are built
   with `SetToSortSeq`, whose result needs an induction over data.
