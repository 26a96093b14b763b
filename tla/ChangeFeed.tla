----------------------------- MODULE ChangeFeed -----------------------------
(***************************************************************************)
(* The change feed of one team and its two kinds of consumer.              *)
(*                                                                         *)
(* A write appends a block of rows to record_changes under sequence        *)
(* numbers it takes from the team row, whose lock it keeps until it        *)
(* commits.  Record and link writes also enqueue a change.deliver job,     *)
(* one per thirty-second bucket, that becomes visible a bucket later.      *)
(* A pull consumer pages through the rows with a cursor.  A change.deliver *)
(* run pushes batches to every active webhook of the team in turn, each    *)
(* webhook in one transaction under its advisory lock, and moves the       *)
(* webhook's cursor when that transaction commits.                         *)
(***************************************************************************)
EXTENDS Integers, FiniteSets

CONSTANTS
    Writer,         \* write transactions; each appends one row
    SchemaWriter,   \* those that change metadata: they notify no webhook
    Unwanted,       \* those whose rows the consumers' filters and visibility drop
    Hook,           \* webhooks of the team, numbered in id order
    None,
    MaxBucket,      \* bound: the clock runs for this many thirty-second buckets
    BatchSize,      \* change rows in one push batch
    MaxBatches,     \* push batches per webhook and run
    Retries,        \* length of the retry table
    PageLimit,      \* events of one page of crm_changes_since
    ScanBudget,     \* rows one page may scan
    SlowWriters,    \* may a write commit after the bucket it started in?
    AdminActs,      \* may webhooks be reactivated or deleted?
    LostRuns        \* may a delivery run die or lose its transaction?

ASSUME FeedAssumption ==
    /\ Hook \subseteq Nat \ {0}
    /\ SchemaWriter \subseteq Writer /\ Unwanted \subseteq Writer
    /\ None \notin Writer
    /\ IsFiniteSet(Writer)
    /\ {MaxBucket, BatchSize, MaxBatches, Retries, PageLimit, ScanBudget} \subseteq Nat \ {0}
    /\ {SlowWriters, AdminActs, LostRuns} \subseteq BOOLEAN

Seqs == 1 .. Cardinality(Writer)
Bucket == 0 .. MaxBucket
JobKey == {"write", "resume"} \X Bucket
MaxAttempts == Retries + 1

VARIABLES
    bucket,     \* the clock, in thirty-second buckets
    feedSeq,    \* teams.feed_seq as committed
    log,        \* log[s]: the write whose committed row has sequence s, or None
    tx,         \* tx[w]: the write transaction
    job,        \* job[k]: the change.deliver job with that idempotency key
    run,        \* run[k]: the handler run of job k
    hook,       \* hook[h]: the webhook row
    fresh,      \* the subscriber has been seen recently
    received,   \* received[h]: sequence numbers the receiver has been sent and accepted
    cursor,     \* the pull consumer's cursor
    pulled      \* pulled[s]: how often the pull consumer was given row s

feedVars == <<feedSeq, log>>
hookVars == <<hook, received>>
pullVars == <<cursor, pulled>>
vars == <<bucket, feedSeq, log, tx, job, run, hook, fresh, received, cursor, pulled>>

IdleRun == [pc |-> "idle", todo |-> {}, hook |-> 0, last |-> 0, batches |-> 0,
            wrote |-> FALSE, off |-> FALSE]

NewTx == [pc |-> "new", bucket |-> 0, seq |-> 0, enqueues |-> FALSE]

Init == /\ bucket = 0 /\ feedSeq = 0
        /\ log = [s \in Seqs |-> None]
        /\ tx = [w \in Writer |-> NewTx]
        /\ job = [k \in JobKey |-> [status |-> "absent", attempts |-> 0, visible |-> FALSE]]
        /\ run = [k \in JobKey |-> IdleRun]
        /\ hook = [h \in Hook |-> [status |-> "none", from |-> 0, last |-> 0, refused |-> 0]]
        /\ fresh \in BOOLEAN
        /\ received = [h \in Hook |-> {}]
        /\ cursor = 0 /\ pulled = [s \in Seqs |-> 0]

\* The n least elements of a set of numbers.
Least(n, S) == {s \in S : Cardinality({t \in S : t < s}) < n}

Top(S) == CHOOSE s \in S : \A t \in S : t <= s

Open(w) == tx[w].pc \in {"open", "allocated", "effects"}
Holding(w) == tx[w].pc \in {"allocated", "effects"}
ActiveHooks == {h \in Hook : hook[h].status = "active"}

-----------------------------------------------------------------------------
(* Mutants: the feed and its consumers with a guard or an update missing.  *)

NobodyWaits(w) == TRUE
LockIgnored(k, h) == TRUE
NextPastBudget(rel, avail, head) == IF Cardinality(rel) > PageLimit THEN Top(Least(PageLimit, rel)) ELSE head
RefusalSkips(k, h, until) ==
    /\ run' = [run EXCEPT ![k].last = until, ![k].wrote = TRUE, ![k].pc = "commit"]
    /\ UNCHANGED job
RequeueForever(k) ==
    /\ job' = [job EXCEPT ![k].status = "queued", ![k].visible = FALSE]
    /\ run' = [run EXCEPT ![k] = IdleRun]
ErrorSwallowed(k) ==
    /\ job' = [job EXCEPT ![k].status = "completed", ![k].visible = FALSE]
    /\ run' = [run EXCEPT ![k] = IdleRun]

-----------------------------------------------------------------------------
(* Writes.                                                                 *)

\* The clock.  Unless writers are slow, a write commits in the bucket it started in.
Tick == /\ bucket < MaxBucket
        /\ SlowWriters \/ \A w \in Writer : ~Open(w)
        /\ bucket' = bucket + 1
        /\ UNCHANGED <<feedVars, tx, job, run, hookVars, fresh, pullVars>>

Begin(w) == /\ tx[w].pc = "new" /\ bucket < MaxBucket
            /\ tx' = [tx EXCEPT ![w].pc = "open", ![w].bucket = bucket]
            /\ UNCHANGED <<bucket, feedVars, job, run, hookVars, fresh, pullVars>>

\* The team row is locked from the first UPDATE of feed_seq until the end of the transaction.
TeamRowFree(w) == \A v \in Writer \ {w} : ~Holding(v)

NextSeq == 1 + Top({feedSeq} \cup {tx[v].seq : v \in {u \in Writer : Holding(u)}})

\* writeChangeRows: the sequence number is taken and the row inserted, uncommitted.
Allocate(w) == /\ tx[w].pc = "open" /\ TeamRowFree(w)
               /\ tx' = [tx EXCEPT ![w].pc = "allocated", ![w].seq = NextSeq]
               /\ UNCHANGED <<bucket, feedVars, job, run, hookVars, fresh, pullVars>>

DeliverKey(b) == <<"write", b>>

\* The tail of the write: with an active webhook, change.deliver is enqueued under the key of
\* the bucket the request started in, unless a job of any status has that key already.
Effects(w) == /\ tx[w].pc = "allocated"
              /\ tx' = [tx EXCEPT ![w].pc = "effects",
                    ![w].enqueues = /\ w \notin SchemaWriter
                                    /\ ActiveHooks # {}
                                    /\ job[DeliverKey(tx[w].bucket)].status = "absent"]
              /\ UNCHANGED <<bucket, feedVars, job, run, hookVars, fresh, pullVars>>

Commit(w) == /\ tx[w].pc = "effects"
             /\ tx' = [tx EXCEPT ![w] = [NewTx EXCEPT !.pc = "committed"]]
             /\ log' = [log EXCEPT ![tx[w].seq] = w]
             /\ feedSeq' = Top({feedSeq, tx[w].seq})
             /\ job' = IF tx[w].enqueues
                       THEN [job EXCEPT ![DeliverKey(tx[w].bucket)].status = "queued"]
                       ELSE job
             /\ UNCHANGED <<bucket, run, hookVars, fresh, pullVars>>

Rollback(w) == /\ Open(w)
               /\ tx' = [tx EXCEPT ![w] = [NewTx EXCEPT !.pc = "aborted"]]
               /\ UNCHANGED <<bucket, feedVars, job, run, hookVars, fresh, pullVars>>

\* recordPrincipalSeen: any authenticated call of the subscriber resumes paused deliveries.
Seen == /\ bucket < MaxBucket
        /\ fresh' = TRUE
        /\ job' = IF ActiveHooks # {} /\ job[<<"resume", bucket>>].status = "absent"
                  THEN [job EXCEPT ![<<"resume", bucket>>].status = "queued",
                                   ![<<"resume", bucket>>].visible = TRUE]
                  ELSE job
        /\ UNCHANGED <<bucket, feedVars, tx, run, hookVars, pullVars>>

-----------------------------------------------------------------------------
(* Webhook administration.                                                 *)

\* A webhook row is locked from the first update of a delivery transaction on.
HookRowLocked(h) == \E k \in JobKey : run[k].hook = h /\ (run[k].wrote \/ run[k].off)

\* setWebhook with a new URL: it starts at the committed sequence.
Register(h) == /\ hook[h].status = "none"
               /\ hook' = [hook EXCEPT ![h] = [status |-> "active", from |-> feedSeq,
                                               last |-> feedSeq, refused |-> 0]]
               /\ UNCHANGED <<bucket, feedVars, tx, job, run, fresh, received, pullVars>>

\* setWebhook on an existing URL; it enqueues nothing.
Toggle(h) == /\ ~HookRowLocked(h)
             /\ \/ hook[h].status = "active"
                   /\ hook' = [hook EXCEPT ![h].status = "inactive"]
                \/ AdminActs /\ hook[h].status = "inactive"
                   /\ hook' = [hook EXCEPT ![h].status = "active", ![h].refused = 0]
             /\ UNCHANGED <<bucket, feedVars, tx, job, run, fresh, received, pullVars>>

Delete(h) == /\ AdminActs /\ ~HookRowLocked(h)
             /\ hook[h].status \in {"active", "inactive"}
             /\ hook' = [hook EXCEPT ![h].status = "deleted"]
             /\ UNCHANGED <<bucket, feedVars, tx, job, run, fresh, received, pullVars>>

-----------------------------------------------------------------------------
(* Delivery runs.                                                          *)

\* visible_at: a bucket after the write, or the retry time of an earlier failure.
BecomeDue(k) == /\ job[k].status = "queued" /\ ~job[k].visible
                /\ job[k].attempts > 0 \/ bucket > k[2]
                /\ job' = [job EXCEPT ![k].visible = TRUE]
                /\ UNCHANGED <<bucket, feedVars, tx, run, hookVars, fresh, pullVars>>

\* The claim, and the list of active webhooks the handler reads first.
Start(k) == /\ job[k].status = "queued" /\ job[k].visible
            /\ job' = [job EXCEPT ![k].status = "running", ![k].attempts = @ + 1, ![k].visible = FALSE]
            /\ run' = [run EXCEPT ![k] = [IdleRun EXCEPT !.pc = "next", !.todo = ActiveHooks]]
            /\ UNCHANGED <<bucket, feedVars, tx, hookVars, fresh, pullVars>>

Done(k) == /\ run[k].pc = "next" /\ run[k].todo = {}
           /\ job' = [job EXCEPT ![k].status = "completed"]
           /\ run' = [run EXCEPT ![k] = IdleRun]
           /\ UNCHANGED <<bucket, feedVars, tx, hookVars, fresh, pullVars>>

\* pg_advisory_xact_lock(4, webhook id)
HookFree(k, h) == \A l \in JobKey \ {k} : run[l].hook # h

NextHook(k) == [IdleRun EXCEPT !.pc = "next", !.todo = run[k].todo \ {run[k].hook}]

\* The transaction of one webhook begins: lock, re-read, and give up if it is inactive or
\* its subscriber has gone.
OpenHook(k) ==
    /\ run[k].pc = "next" /\ run[k].todo # {}
    /\ \E h \in Least(1, run[k].todo) :
          /\ HookFree(k, h)
          /\ run' = IF hook[h].status = "active" /\ fresh
                    THEN [run EXCEPT ![k].pc = "batch", ![k].hook = h, ![k].last = hook[h].last]
                    ELSE [run EXCEPT ![k].todo = @ \ {h}]
    /\ UNCHANGED <<bucket, feedVars, tx, job, hookVars, fresh, pullVars>>

\* The transaction rolls back and the job is retried, if it may be.
Requeue(k) ==
    /\ job' = [job EXCEPT ![k].status = IF @ = "running" /\ job[k].attempts >= MaxAttempts
                                        THEN "failed" ELSE "queued",
                          ![k].visible = FALSE]
    /\ run' = [run EXCEPT ![k] = IdleRun]

Batch(k) == Least(BatchSize, {s \in Seqs : log[s] # None /\ s > run[k].last})
Events(S) == {s \in S : log[s] \notin Unwanted}
Delivering(k) == run[k].pc = "batch"

\* Nothing is left to send.
NoRows(k) == /\ Delivering(k) /\ Batch(k) = {}
             /\ run' = [run EXCEPT ![k].pc = "commit"]
             /\ UNCHANGED <<bucket, feedVars, tx, job, hookVars, fresh, pullVars>>

\* last_delivered_seq is updated in the open transaction; a short batch or the tenth ends it.
Advance(k) ==
    LET rows == Batch(k) IN
    run' = [run EXCEPT ![k].last = Top(rows), ![k].wrote = TRUE, ![k].batches = @ + 1,
                       ![k].pc = IF Cardinality(rows) < BatchSize \/ run[k].batches + 1 = MaxBatches
                                 THEN "commit" ELSE "batch"]

\* The batch is sent unless no event of it is wanted, and the receiver answers 2xx.  If the
\* webhook was deleted meanwhile the update finds no row and the run fails.
Accept(k) ==
    /\ Delivering(k) /\ Batch(k) # {}
    /\ received' = [received EXCEPT ![run[k].hook] = @ \cup Events(Batch(k))]
    /\ IF hook[run[k].hook].status = "deleted" THEN Requeue(k) ELSE Advance(k) /\ UNCHANGED job
    /\ UNCHANGED <<bucket, feedVars, tx, hook, fresh, pullVars>>

\* A refusal within the retry table rolls back what earlier batches of the run had written;
\* beyond it the webhook is switched off.
AfterRefusal(k, h, until) ==
    \/ job[k].attempts <= Retries /\ Requeue(k)
    \/ /\ job[k].attempts > Retries /\ hook[h].status # "deleted"
       /\ run' = [run EXCEPT ![k].off = TRUE, ![k].pc = "commit"]
       /\ UNCHANGED job
    \/ job[k].attempts > Retries /\ hook[h].status = "deleted" /\ Requeue(k)

Refuse(k) ==
    LET h == run[k].hook IN
    /\ Delivering(k) /\ Events(Batch(k)) # {}
    /\ hook' = [hook EXCEPT ![h].refused = @ + 1]
    /\ AfterRefusal(k, h, Top(Batch(k)))
    /\ UNCHANGED <<bucket, feedVars, tx, fresh, received, pullVars>>

CommitHook(k) ==
    LET h == run[k].hook IN
    /\ run[k].pc = "commit"
    /\ hook' = [hook EXCEPT
            ![h].last = IF run[k].wrote THEN run[k].last ELSE @,
            ![h].status = IF run[k].off THEN "inactive" ELSE @,
            ![h].refused = IF run[k].wrote THEN 0 ELSE @]
    /\ run' = [run EXCEPT ![k] = NextHook(k)]
    /\ UNCHANGED <<bucket, feedVars, tx, job, fresh, received, pullVars>>

\* The worker dies, or the transaction times out while a receiver is slow: the answer of the
\* receiver is lost with it.
RunLost(k) == /\ LostRuns /\ run[k].pc # "idle"
              /\ Requeue(k)
              /\ \/ UNCHANGED received
                 \/ /\ Delivering(k)
                    /\ received' = [received EXCEPT ![run[k].hook] = @ \cup Events(Batch(k))]
              /\ UNCHANGED <<bucket, feedVars, tx, hook, fresh, pullVars>>

-----------------------------------------------------------------------------
(* The pull consumer.                                                      *)

NextCursor(rel, avail, head) ==
    IF Cardinality(rel) > PageLimit THEN Top(Least(PageLimit, rel))
    ELSE IF Cardinality(avail) < ScanBudget THEN head
    ELSE Top(Least(ScanBudget, avail))

\* crm_changes_since: the committed sequence is read first, then a bounded scan up to it.
\* head may be any sequence committed since the last call: the page is read later.
Pull == \E head \in cursor .. feedSeq :
          LET avail == {s \in Seqs : log[s] # None /\ cursor < s /\ s <= head}
              rel == Events(Least(ScanBudget, avail))
          IN /\ avail # {}
             /\ pulled' = [s \in Seqs |-> pulled[s] + IF s \in Least(PageLimit, rel) THEN 1 ELSE 0]
             /\ cursor' = NextCursor(rel, avail, head)
             /\ UNCHANGED <<bucket, feedVars, tx, job, run, hookVars, fresh>>

-----------------------------------------------------------------------------

Deliver(k) == \/ Done(k) \/ OpenHook(k) \/ NoRows(k) \/ Accept(k) \/ Refuse(k) \/ CommitHook(k)

Next == \/ Tick \/ Seen \/ Pull
        \/ \E w \in Writer : Begin(w) \/ Allocate(w) \/ Effects(w) \/ Commit(w) \/ Rollback(w)
        \/ \E h \in Hook : Register(h) \/ Toggle(h) \/ Delete(h)
        \/ \E k \in JobKey : BecomeDue(k) \/ Start(k) \/ Deliver(k) \/ RunLost(k)

Spec == Init /\ [][Next]_vars

\* The clock runs, open writes end, and the queue runs what is due (JobQueue).
Fairness == /\ WF_vars(Tick)
            /\ \A w \in Writer : WF_vars(Allocate(w) \/ Effects(w) \/ Commit(w) \/ Rollback(w))
            /\ \A k \in JobKey : WF_vars(BecomeDue(k)) /\ WF_vars(Start(k)) /\ WF_vars(Deliver(k))

FairSpec == Spec /\ Fairness

-----------------------------------------------------------------------------
(* Properties.                                                             *)

TxRecord == [pc : {"new", "open", "allocated", "effects", "committed", "aborted"},
             bucket : Bucket, seq : 0 .. Cardinality(Writer), enqueues : BOOLEAN]
JobRecord == [status : {"absent", "queued", "running", "completed", "failed"},
              attempts : 0 .. MaxAttempts, visible : BOOLEAN]
RunRecord == [pc : {"idle", "next", "batch", "commit"}, todo : SUBSET Hook, hook : Hook \cup {0},
              last : Nat, batches : 0 .. MaxBatches, wrote : BOOLEAN, off : BOOLEAN]
HookRecord == [status : {"none", "active", "inactive", "deleted"}, from : Nat, last : Nat, refused : Nat]

\* Every variable has its type; in particular no job is attempted more often than it may be,
\* and it is running exactly while its handler is.
TypeOK == /\ bucket \in Bucket /\ feedSeq \in 0 .. Cardinality(Writer)
          /\ log \in [Seqs -> Writer \cup {None}]
          /\ tx \in [Writer -> TxRecord]
          /\ job \in [JobKey -> JobRecord]
          /\ run \in [JobKey -> RunRecord]
          /\ \A k \in JobKey : job[k].status = "running" <=> run[k].pc # "idle"
          /\ hook \in [Hook -> HookRecord]
          /\ fresh \in BOOLEAN
          /\ received \in [Hook -> SUBSET Seqs]
          /\ cursor \in Nat /\ pulled \in [Seqs -> Nat]

\* The committed rows are numbered 1 to feed_seq without a gap, and no open write holds a
\* number at or below it: a cursor never passes a row that is still in flight.
CommitOrdered ==
    /\ \A s \in Seqs : log[s] # None <=> s <= feedSeq
    /\ \A w \in Writer : Holding(w) => tx[w].seq > feedSeq

\* A consumer that pages with next_cursor is given every row it wants exactly once, whatever
\* writes commit between and during its calls.
PulledOnce ==
    \A s \in Seqs : pulled[s] = IF s <= cursor /\ log[s] # None /\ log[s] \notin Unwanted
                                THEN 1 ELSE 0

\* A webhook's cursor never moves past an event its receiver has not accepted, and starts at
\* the registration: history is not replayed.
NothingSkipped ==
    \A h \in Hook : /\ Events({s \in Seqs : hook[h].from < s /\ s <= hook[h].last}) \subseteq received[h]
                    /\ \A s \in received[h] : hook[h].from < s

\* Concurrent delivery runs and administration never move a webhook's cursor back.
CursorAdvances == [][\A h \in Hook : hook'[h].last >= hook[h].last]_hook

\* Delivery switches a webhook off only after its receiver refused as often as the retry
\* table says, with no accepted batch in between.
OffAfterRetries ==
    [][\A h \in Hook :
         (\E k \in JobKey : run[k].hook = h /\ run[k].off /\ run'[k].hook # h /\ hook'[h].status = "inactive")
         => hook[h].refused > Retries]_vars

\* What the receiver of webhook h still has to be sent of row s, unless it is switched off.
Owed(s, h) == /\ log[s] \notin SchemaWriter \cup Unwanted \cup {None}
              /\ hook[h].status = "active" /\ fresh
              /\ s > hook[h].from /\ s \notin received[h]

GaveUp == \E k \in JobKey : job[k].status = "failed"

\* A delivery job that is still queued when a row is owed to a webhook delivers it, through
\* lost runs and refusals, unless the webhook is switched off or a job spends its retries.
QueuedJobDelivers ==
    \A s \in Seqs, h \in Hook, k \in JobKey :
        Owed(s, h) /\ job[k].status = "queued" ~> ~Owed(s, h) \/ GaveUp

\* The write path triggers the delivery of every row it commits: none stays owed for good.
EveryChangeDelivered ==
    \A s \in Seqs, h \in Hook : Owed(s, h) ~> ~Owed(s, h) \/ GaveUp
=============================================================================
