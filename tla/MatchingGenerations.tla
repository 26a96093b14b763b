------------------------ MODULE MatchingGenerations ------------------------
(***************************************************************************)
(* The matching rules of one object type and the keys that enforce them.   *)
(*                                                                         *)
(* A rule set is a generation.  The active generation blocks duplicates:   *)
(* every live record owns a block row for its key.  A new rule set starts  *)
(* as a pending replacement whose lookup rows are written by record writes *)
(* and by a backfill job; when the job has scanned every record it either  *)
(* finds collisions and blocks the replacement, or makes it the active     *)
(* generation.  Rules, backfill batches and record writes are transactions *)
(* under the team's topology lock, and so each is one step here; but a     *)
(* write uses the schema its request loaded, or found cached, before.      *)
(***************************************************************************)
EXTENDS Integers, FiniteSets

CONSTANTS
    Record,         \* record ids, scanned in their order
    Value,          \* what the data of a record tells the rules
    Rule,           \* rule sets
    FirstRule,      \* rule sets an object type may start with
    Hash,
    None,
    KeyOf(_, _),    \* the key a rule set gives a value, or None
    Blocking,       \* rule sets that block; the others only warn
    Proc,           \* processes that write records, with a schema cache each
    Worker,
    BatchSize,      \* records in one backfill batch
    MaxGen,         \* bound: generations ever created
    MaxAttempt,     \* bound: retries of one generation
    MaxJobs         \* bound: jobs ever enqueued

Gen == 1 .. MaxGen
Attempt == 0 .. MaxAttempt
Job == Gen \X Attempt
Gone == None

ASSUME MatchingAssumption ==
    /\ Record \subseteq Nat \ {0} /\ IsFiniteSet(Record)
    /\ None \notin Value \cup Hash
    /\ \A rule \in Rule, v \in Value : KeyOf(rule, v) \in Hash \cup {None}
    /\ Blocking \subseteq Rule /\ FirstRule \subseteq Rule
    /\ BatchSize \in Nat \ {0} /\ MaxGen \in Nat \ {0} /\ MaxAttempt \in Nat /\ MaxJobs \in Nat

VARIABLES
    rec,        \* rec[r]: the value of a live record, or Gone
    gen,        \* gen[g]: the generation
    version,    \* teams.schema_version
    lookup,     \* record_match_lookup_keys: triples <<g, key, r>>
    block,      \* record_match_keys: triples <<g, key, r>>
    schema,     \* schema[p]: what p has cached, and its requests go by
    job,        \* job[j]: the match-key-backfill job of a generation and attempt
    run,        \* run[w]: the handler run of worker w
    lagging     \* history: records whose last keys came from an outdated schema

keyVars == <<lookup, block, lagging>>
rulesVars == <<gen, version>>
vars == <<rec, gen, version, lookup, block, schema, job, run, lagging>>

\* The generations a schema names: its active one and its replacement, if any.
Least(n, S) == {s \in S : Cardinality({t \in S : t < s}) < n}
The(S) == IF S = {} THEN 0 ELSE CHOOSE s \in S : TRUE
Active == The({g \in Gen : gen[g].state = "active"})
Replacement == The({g \in Gen : gen[g].state \in {"pending", "blocked"}})
Stored == [version |-> version, active |-> Active, replacement |-> Replacement]
Exists(g) == gen[g].state \in {"active", "pending", "blocked"}
Live == {r \in Record : rec[r] # Gone}
Keyed(rule) == \E v \in Value : KeyOf(rule, v) # None
KeyIn(g, v) == KeyOf(gen[g].rule, v)

NewGen == [state |-> "absent", rule |-> None, attempt |-> 0]
NewJob == [status |-> "absent", owner |-> None]
IdleRun == [pc |-> "idle", job |-> <<1, 0>>, after |-> 0, schema |-> [version |-> 0, active |-> 0, replacement |-> 0]]

Init == /\ rec = [r \in Record |-> Gone]
        /\ \E rule \in FirstRule :
              gen = [g \in Gen |-> IF g = 1 THEN [NewGen EXCEPT !.state = "active", !.rule = rule]
                                   ELSE NewGen]
        /\ version = 1
        /\ lookup = {} /\ block = {} /\ lagging = {}
        /\ schema = [p \in Proc |-> Stored]
        /\ job = [j \in Job |-> NewJob]
        /\ run = [w \in Worker |-> IdleRun]

-----------------------------------------------------------------------------
(* Mutants: the rules, writes and backfill with a guard or an update lost. *)

ActiveOnly(s) == {s.active} \ {0}
NothingRemoved(rows, r) == rows
AnyOwner(w) == TRUE
SettlesAnyway(w) == job' = [job EXCEPT ![run[w].job].status = "completed"]
NoBump == version
NoneRetired(G) == gen

-----------------------------------------------------------------------------
(* Keys.                                                                   *)

Generations(s) == {s.active, s.replacement} \ {0}
Without(rows, r) == {k \in rows : k[3] # r}

\* materializeMatchingKeys for one record under schema s: its rows of every generation are
\* replaced by those of the generations s names.
LookupRows(s, r, v) == {<<g, KeyIn(g, v), r>> : g \in {h \in Generations(s) : KeyIn(h, v) # None}}
BlockRows(s, r, v) == {k \in LookupRows(s, r, v) : k[1] = s.active /\ gen[k[1]].rule \in Blocking}

SameKey(k, l) == k[1] = l[1] /\ k[2] = l[2]

\* The insert fails on the foreign key of a generation that was deleted, or finds a winner.
KeysFit(s, r, v) ==
    /\ \A k \in LookupRows(s, r, v) : Exists(k[1])
    /\ \A k \in BlockRows(s, r, v), b \in Without(block, r) : ~SameKey(b, k)

DropGenerations(G) == /\ lookup' = {k \in lookup : k[1] \notin G}
                      /\ block' = {k \in block : k[1] \notin G}

-----------------------------------------------------------------------------
(* Record writes.                                                          *)

\* loadSchema of a request: the cached schema if it has the current version.
Load(p) == /\ schema[p].version # version
           /\ schema' = [schema EXCEPT ![p] = Stored]
           /\ UNCHANGED <<rec, rulesVars, keyVars, job, run>>

\* Create, update, restore, or a refresh of the keys with unchanged data, by a request that
\* loaded its schema before.
Write(p, r, v) ==
    LET s == schema[p] IN
    /\ KeysFit(s, r, v)
    /\ rec' = [rec EXCEPT ![r] = v]
    /\ lookup' = Without(lookup, r) \cup LookupRows(s, r, v)
    /\ block' = Without(block, r) \cup BlockRows(s, r, v)
    /\ lagging' = IF s.version = version THEN lagging \ {r} ELSE lagging \cup {r}
    /\ UNCHANGED <<rulesVars, schema, job, run>>

Delete(r) == /\ r \in Live
             /\ rec' = [rec EXCEPT ![r] = Gone]
             /\ lookup' = Without(lookup, r) /\ block' = Without(block, r)
             /\ lagging' = lagging \ {r}
             /\ UNCHANGED <<rulesVars, schema, job, run>>

-----------------------------------------------------------------------------
(* Rules.                                                                  *)

CurrentJob(g) == <<g, gen[g].attempt>>

\* replacementCanBeSuperseded
Supersedable(g) == \/ gen[g].state = "blocked"
                   \/ job[CurrentJob(g)].status \in {"failed", "cancelled"}

\* setMatchingRules first drops a replacement with other rules, if it may.
MayReplace(rule) == \A g \in {Replacement} \ {0} : gen[g].rule # rule /\ Supersedable(g)

Bumped == version + 1
Fresh == {g \in Gen : gen[g].state = "absent"}
MayEnqueue == Cardinality({j \in Job : job[j].status # "absent"}) < MaxJobs
NextGen == CHOOSE g \in Fresh : \A h \in Fresh : g <= h
Retired(G) == [g \in Gen |-> IF g \in G THEN [gen[g] EXCEPT !.state = "gone"] ELSE gen[g]]

\* The rules are those of the active generation: only a replacement is dropped.
KeepActive(rule) ==
    /\ gen[Active].rule = rule /\ Replacement # 0 /\ MayReplace(rule)
    /\ gen' = Retired({Replacement}) /\ version' = Bumped
    /\ DropGenerations({Replacement})
    /\ UNCHANGED <<rec, lagging, schema, job, run>>

\* Live records and exact or normalized rules: a pending replacement and its backfill job.
StartReplacement(rule) ==
    LET old == {Replacement} \ {0} IN
    /\ gen[Active].rule # rule /\ MayReplace(rule) /\ Fresh # {} /\ MayEnqueue
    /\ Live # {} /\ Keyed(rule)
    /\ gen' = [Retired(old) EXCEPT ![NextGen] = [state |-> "pending", rule |-> rule, attempt |-> 0]]
    /\ job' = [job EXCEPT ![<<NextGen, 0>>].status = "queued"]
    /\ version' = Bumped
    /\ DropGenerations(old)
    /\ UNCHANGED <<rec, lagging, schema, run>>

\* Nothing to scan: the active generation is replaced at once.
ReplaceAtOnce(rule) ==
    LET old == {Active, Replacement} \ {0} IN
    /\ gen[Active].rule # rule /\ MayReplace(rule) /\ Fresh # {}
    /\ Live = {} \/ ~Keyed(rule)
    /\ gen' = [Retired(old) EXCEPT ![NextGen] = [state |-> "active", rule |-> rule, attempt |-> 0]]
    /\ version' = Bumped
    /\ DropGenerations(old)
    /\ UNCHANGED <<rec, lagging, schema, job, run>>

SetRules(rule) == KeepActive(rule) \/ StartReplacement(rule) \/ ReplaceAtOnce(rule)

\* retryMatchingRules: a new attempt with a job of its own, without a new version.
Retry(g) ==
    /\ \/ gen[g].state = "blocked"
       \/ gen[g].state = "pending" /\ job[CurrentJob(g)].status \in {"failed", "cancelled"}
    /\ gen[g].attempt < MaxAttempt /\ MayEnqueue
    /\ gen' = [gen EXCEPT ![g].state = "pending", ![g].attempt = @ + 1]
    /\ job' = [job EXCEPT ![<<g, gen[g].attempt + 1>>].status = "queued"]
    /\ UNCHANGED <<rec, version, keyVars, schema, run>>

\* The task is cancelled: its generation stays pending.
CancelTask(j) == /\ job[j].status \in {"queued", "running"}
                 /\ job' = [job EXCEPT ![j].status = "cancelled"]
                 /\ UNCHANGED <<rec, rulesVars, keyVars, schema, run>>

-----------------------------------------------------------------------------
(* The backfill job.                                                       *)

Owns(w) == job[run[w].job] = [status |-> "running", owner |-> w]
Target(w) == run[w].job[1]
\* The generation is still pending at the attempt, and so the job, of this run.
Pending(w) == gen[Target(w)].state = "pending" /\ CurrentJob(Target(w)) = run[w].job

\* What is left of a run that scans no more is its job.
Goto(w, pc) == run' = [run EXCEPT ![w] = [IdleRun EXCEPT !.pc = pc, !.job = run[w].job]]

\* The claim of a queued job, or of one whose lease has expired.
Start(w, j) == /\ run[w].pc = "idle"
               /\ job[j].status = "queued" \/ (job[j].status = "running" /\ job[j].owner # w)
               /\ job' = [job EXCEPT ![j] = [status |-> "running", owner |-> w]]
               /\ run' = [run EXCEPT ![w] = [pc |-> "scan", job |-> j, after |-> 0, schema |-> Stored]]
               /\ UNCHANGED <<rec, rulesVars, keyVars, schema>>

NextBatch(w) == Least(BatchSize, {r \in Live : r > run[w].after})
Exhausted(b) == Cardinality(b) < BatchSize

\* materializeMatchingRecordBatch: the rows of the records are replaced in their order, and the
\* old rows of the later ones count.
BatchLookup(w) == UNION {LookupRows(run[w].schema, r, rec[r]) : r \in NextBatch(w)}
BatchBlock(w) == UNION {BlockRows(run[w].schema, r, rec[r]) : r \in NextBatch(w)}
Outside(rows, b) == {k \in rows : k[3] \notin b}
BatchFits(w) ==
    /\ \A k \in BatchLookup(w) : Exists(k[1])
    /\ \A k, l \in BatchBlock(w) : SameKey(k, l) => k = l
    /\ \A k \in block, l \in BatchBlock(w) :
          SameKey(k, l) => k[3] = l[3] \/ (k[3] \in NextBatch(w) /\ k[3] < l[3])

\* One batch; the conditional progress write tells the run to stop if the job is not its own
\* any more, but the batch is kept.
Scan(w) ==
    LET b == NextBatch(w) IN
    /\ run[w].pc = "scan" /\ Pending(w) /\ b # {} /\ BatchFits(w)
    /\ lookup' = Outside(lookup, b) \cup BatchLookup(w)
    /\ block' = Outside(block, b) \cup BatchBlock(w)
    /\ lagging' = IF run[w].schema.version = version THEN lagging \ b ELSE lagging \cup b
    /\ IF Owns(w) /\ ~Exhausted(b)
       THEN run' = [run EXCEPT ![w].after = CHOOSE r \in b : \A q \in b : q <= r]
       ELSE Goto(w, IF Owns(w) THEN "final" ELSE "stop")
    /\ UNCHANGED <<rec, rulesVars, schema, job>>

ScanEnds(w) == /\ run[w].pc = "scan"
               /\ ~Pending(w) \/ NextBatch(w) = {}
               /\ Goto(w, "final")
               /\ UNCHANGED <<rec, rulesVars, keyVars, schema, job>>

\* The keys of a batch do not fit, or the handler throws for another reason: fail(), if the
\* job is still this run's.
HandlerFails(w) ==
    /\ run[w].pc # "idle"
    /\ \/ Owns(w) /\ \E status \in {"queued", "failed"} :
                        job' = [job EXCEPT ![run[w].job] = [status |-> status, owner |-> None]]
       \/ ~Owns(w) /\ UNCHANGED job
    /\ run' = [run EXCEPT ![w] = IdleRun]
    /\ UNCHANGED <<rec, rulesVars, keyVars, schema>>

Settle(w) == IF Owns(w) THEN job' = [job EXCEPT ![run[w].job].status = "completed"] ELSE UNCHANGED job

\* The handler returns: a stopped run, or one whose generation has moved on.
HandlerReturns(w) == /\ \/ run[w].pc = "stop"
                        \/ run[w].pc = "final" /\ ~Pending(w)
                     /\ Settle(w)
                     /\ run' = [run EXCEPT ![w] = IdleRun]
                     /\ UNCHANGED <<rec, rulesVars, keyVars, schema>>

Collides(g) == /\ gen[g].rule \in Blocking
               /\ \E k, l \in lookup : k[1] = g /\ SameKey(k, l) /\ k # l

\* finalizeMatchingBackfill with collisions: the replacement is blocked.
BlockReplacement(w) ==
    LET g == Target(w) IN
    /\ run[w].pc = "final" /\ Pending(w) /\ Owns(w) /\ Collides(g)
    /\ gen' = [gen EXCEPT ![g].state = "blocked"]
    /\ Settle(w)
    /\ run' = [run EXCEPT ![w] = IdleRun]
    /\ UNCHANGED <<rec, version, keyVars, schema>>

\* The cutover: block rows from the lookup rows, the old generation is deleted.
Activate(w) ==
    LET g == Target(w) IN
    /\ run[w].pc = "final" /\ Pending(w) /\ Owns(w) /\ ~Collides(g)
    /\ gen' = [Retired({Active}) EXCEPT ![g].state = "active"]
    /\ version' = Bumped
    /\ lookup' = {k \in lookup : k[1] # Active}
    /\ block' = {k \in block : k[1] # Active}
                \cup {k \in lookup : k[1] = g /\ gen[g].rule \in Blocking}
    /\ Settle(w)
    /\ run' = [run EXCEPT ![w] = IdleRun]
    /\ UNCHANGED <<rec, lagging, schema>>

-----------------------------------------------------------------------------

Backfill(w) == \/ Scan(w) \/ ScanEnds(w) \/ HandlerReturns(w) \/ BlockReplacement(w) \/ Activate(w)

Next == \/ \E p \in Proc : Load(p) \/ \E r \in Record, v \in Value : Write(p, r, v)
        \/ \E r \in Record : Delete(r)
        \/ \E rule \in Rule : SetRules(rule)
        \/ \E g \in Gen : Retry(g)
        \/ \E j \in Job : CancelTask(j)
        \/ \E w \in Worker : Backfill(w) \/ HandlerFails(w) \/ \E j \in Job : Start(w, j)

Spec == Init /\ [][Next]_vars

-----------------------------------------------------------------------------
(* Properties.                                                             *)

SchemaRecord == [version : Nat, active : Gen \cup {0}, replacement : Gen \cup {0}]

\* Every variable has its type; there is one active generation and at most one replacement,
\* and the unique index of block rows holds.
TypeOK == /\ rec \in [Record -> Value \cup {Gone}]
          /\ gen \in [Gen -> [state : {"absent", "active", "pending", "blocked", "gone"},
                              rule : Rule \cup {None}, attempt : Attempt]]
          /\ version \in Nat
          /\ lookup \subseteq Gen \X Hash \X Record /\ block \subseteq lookup
          /\ \A k, l \in block : SameKey(k, l) => k = l
          /\ schema \in [Proc -> SchemaRecord]
          /\ job \in [Job -> [status : {"absent", "queued", "running", "completed", "failed", "cancelled"},
                              owner : Worker \cup {None}]]
          /\ run \in [Worker -> [pc : {"idle", "scan", "stop", "final"}, job : Job,
                                 after : Record \cup {0}, schema : SchemaRecord]]
          /\ lagging \subseteq Live
          /\ Cardinality({g \in Gen : gen[g].state = "active"}) = 1
          /\ Cardinality({g \in Gen : gen[g].state \in {"pending", "blocked"}}) <= 1

\* Rows belong to live records and are their present keys; block rows belong to the active
\* generation: whatever is written, scanned, deleted, superseded or retried, no row is stale.
KeysSound ==
    /\ \A k \in lookup : Exists(k[1]) /\ k[3] \in Live /\ k[2] = KeyIn(k[1], rec[k[3]])
    /\ \A k \in block : k[1] = Active

\* Every live record has its lookup row, and its block row, in the active generation, unless
\* the schema of its last write was outdated: a backfill misses no record, and none that is
\* written while it runs, however often it is interrupted and retried.
KeysComplete ==
    \A r \in Live \ lagging :
        LET k == <<Active, KeyIn(Active, rec[r]), r>> IN
        k[2] # None => k \in lookup /\ (gen[Active].rule \in Blocking => k \in block)

\* A generation and its job settle together: a pending one never has a completed job (the
\* code refuses to guess then), a blocked one always has.
SettledTogether ==
    \A g \in Gen : /\ gen[g].state = "pending" => job[CurrentJob(g)].status \notin {"absent", "completed"}
                   /\ gen[g].state = "blocked" => job[CurrentJob(g)].status = "completed"

\* A cached schema of the current version is the stored one: every change of the rules that a
\* schema shows comes with a new version.
CacheCurrent == \A p \in Proc : schema[p].version = version => schema[p] = Stored

\* A generation that was pending becomes active only by its own running job: a cancelled or
\* failed task never switches the rules.
OnlyRunningActivates ==
    [][\A g \in Gen : gen[g].state = "pending" /\ gen'[g].state \in {"active", "blocked"}
                      => job[CurrentJob(g)].status = "running"]_vars

\* No two live records have the same key in the active generation, if it blocks.
BlockEnforced ==
    gen[Active].rule \in Blocking =>
        \A r, q \in Live : r # q /\ KeyIn(Active, rec[r]) # None
                           => KeyIn(Active, rec[r]) # KeyIn(Active, rec[q])
=============================================================================
