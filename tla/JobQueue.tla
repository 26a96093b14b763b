------------------------------ MODULE JobQueue ------------------------------
(***************************************************************************)
(* The PostgreSQL job queue (packages/queue/src/index.ts) and the worker   *)
(* processes that drain it (worker/src/index.ts).                          *)
(*                                                                         *)
(* A row of queue_jobs is changed by single statements, each of them       *)
(* fenced by a WHERE clause; a worker process claims rows in one loop and  *)
(* runs up to |Slot| handlers at a time, all of them under the ONE worker  *)
(* id the process chose when it started.  Leases end by the clock, whether *)
(* or not the handler is still running.  Processes crash, are stopped and  *)
(* are replaced by processes with new ids.                                 *)
(***************************************************************************)
EXTENDS NoValue, Naturals, Sequences

CONSTANTS
    Job,            \* ids of queue rows
    Worker,         \* worker ids: one per process start, never used again
    Slot,           \* the concurrent handler slots of one process
    HighPriority,   \* the jobs enqueued with the higher of two priorities
    MaxAttempts,    \* queue_jobs.max_attempts
    MaxClaims,      \* bound: a row is claimed at most this often
    SlowHandlers    \* may a handler outlive its ten-minute lease, as the code allows?

ASSUME QueueAssumption ==
    /\ None \notin Worker
    /\ None \notin Job
    /\ HighPriority \subseteq Job
    /\ MaxAttempts \in Nat \ {0}
    /\ MaxClaims \in Nat
    /\ SlowHandlers \in BOOLEAN

VARIABLES
    status,     \* queue_jobs.status, and "absent" before, "purged" after the row exists
    attempts,   \* queue_jobs.attempts
    lockedBy,   \* queue_jobs.locked_by
    expired,    \* locked_at is more than ten minutes old
    visible,    \* visible_at has been reached
    arrivals,   \* the jobs in the order of created_at
    outlived,   \* history: a handler has outlived its lease since the job last had none
    proc,       \* where the loop of startWorker stands, per worker id
    run         \* run[r]: what slot r[2] of process r[1] is doing

row == <<status, attempts, lockedBy, expired, visible, arrivals, outlived>>
vars == <<row, proc, run>>

Run == Worker \X Slot

Idle == [pc |-> "idle", job |-> None, attempt |-> 0, seen |-> 0]

\* Mutants: the queue with one of its guards or updates missing.
NothingLocked(j) == FALSE
FencedByWorkerOnly(r) == lockedBy[run[r].job] = r[1]
FencedByStatusOnly(r) == status[run[r].job] = "running"
ClaimableWhileLeased(j) == (status[j] = "queued" /\ visible[j]) \/ status[j] = "running"
ClaimableOnlyQueued(j) == status[j] = "queued" /\ visible[j]
NotCounted(j) == UNCHANGED attempts
ExhaustedLate(n) == n > MaxAttempts

\* Row locks outlive a statement only in the handler transaction that terminalizes its job.
RowLocked(j) == \E r \in Run : run[r].job = j /\ run[r].pc = "terminalizing"

\* WHERE id = ... AND locked_by = workerId AND status = 'running'
Fenced(r) == status[run[r].job] = "running" /\ lockedBy[run[r].job] = r[1]

Alive(w) == proc[w] \notin {"new", "gone"}

Init == /\ status = [j \in Job |-> "absent"]
        /\ attempts = [j \in Job |-> 0]
        /\ lockedBy = [j \in Job |-> None]
        /\ expired = [j \in Job |-> FALSE]
        /\ visible = [j \in Job |-> FALSE]
        /\ arrivals = <<>>
        /\ outlived = [j \in Job |-> FALSE]
        /\ proc = [w \in Worker |-> "new"]
        /\ run = [r \in Run |-> Idle]

-----------------------------------------------------------------------------
(* Producers and the clock.                                                *)

\* The insert of enqueue; visible_at defaults to the epoch, a delayed job has it ahead.
Enqueue(j, now) == /\ status[j] = "absent"
                   /\ status' = [status EXCEPT ![j] = "queued"]
                   /\ visible' = [visible EXCEPT ![j] = now]
                   /\ arrivals' = Append(arrivals, j)
                   /\ UNCHANGED <<attempts, lockedBy, expired, outlived, proc, run>>

BecomeVisible(j) == /\ status[j] = "queued" /\ ~visible[j]
                    /\ visible' = [visible EXCEPT ![j] = TRUE]
                    /\ UNCHANGED <<status, attempts, lockedBy, expired, arrivals, outlived, proc, run>>

HasHandler(j) == \E r \in Run : run[r].job = j

\* The clock ends a lease, whatever its handler is doing; nothing renews it.  Unless handlers
\* are slow, only a lease whose process has died is old enough.
LeaseExpires(j) == /\ status[j] = "running" /\ ~expired[j]
                   /\ HasHandler(j) => SlowHandlers
                   /\ expired' = [expired EXCEPT ![j] = TRUE]
                   /\ outlived' = [outlived EXCEPT ![j] = @ \/ HasHandler(j)]
                   /\ UNCHANGED <<status, attempts, lockedBy, visible, arrivals, proc, run>>

\* tasks/cancel of the API; the lock columns stay as they are.
Cancel(j) == /\ status[j] \in {"queued", "running"}
             /\ ~RowLocked(j)
             /\ status' = [status EXCEPT ![j] = "cancelled"]
             /\ UNCHANGED <<attempts, lockedBy, expired, visible, arrivals, outlived, proc, run>>

\* The retention job deletes completed rows once they are a week old.
Purge(j) == /\ status[j] = "completed"
            /\ status' = [status EXCEPT ![j] = "purged"]
            /\ UNCHANGED <<attempts, lockedBy, expired, visible, arrivals, outlived, proc, run>>

-----------------------------------------------------------------------------
(* The loop of startWorker.                                                *)

Boot(w) == /\ proc[w] = "new"
           /\ proc' = [proc EXCEPT ![w] = "polling"]
           /\ UNCHANGED <<row, run>>

Active(w) == {s \in Slot : run[<<w, s>>].pc # "idle"}

Claimable(j) == \/ status[j] = "queued" /\ visible[j]
                \/ status[j] = "running" /\ expired[j]

Before(j, k) == \E m, n \in DOMAIN arrivals :
                    m < n /\ arrivals[m] = j /\ arrivals[n] = k

\* ORDER BY priority DESC, created_at
Outranks(j, k) == \/ j \in HighPriority /\ k \notin HighPriority
                  \/ (j \in HighPriority) = (k \in HighPriority) /\ Before(j, k)

\* FOR UPDATE SKIP LOCKED
Offered == {j \in Job : Claimable(j) /\ ~RowLocked(j)}

CountClaim(j) == attempts' = [attempts EXCEPT ![j] = @ + 1]

\* claimNext and the start of the handler in a free slot.
Claim(w, s, j) == /\ proc[w] = "polling" /\ run[<<w, s>>].pc = "idle"
                  /\ j \in Offered
                  /\ \A k \in Offered : ~Outranks(k, j)
                  /\ attempts[j] < MaxClaims
                  /\ status' = [status EXCEPT ![j] = "running"]
                  /\ CountClaim(j)
                  /\ lockedBy' = [lockedBy EXCEPT ![j] = w]
                  /\ expired' = [expired EXCEPT ![j] = FALSE]
                  /\ run' = [run EXCEPT ![<<w, s>>] =
                        [pc |-> "handling", job |-> j, attempt |-> attempts'[j], seen |-> 0]]
                  /\ outlived' = [outlived EXCEPT ![j] = @ /\ HasHandler(j)]
                  /\ UNCHANGED <<visible, arrivals, proc>>

\* The inner loop ends: no slot is free or nothing is claimable.  With handlers running the
\* process waits for one of them to end, otherwise for a second.
Wait(w) == /\ proc[w] = "polling"
           /\ Active(w) = Slot \/ Offered = {}
           /\ proc' = [proc EXCEPT ![w] = IF Active(w) = {} THEN "paused" ELSE "racing"]
           /\ UNCHANGED <<row, run>>

PollAgain(w) == /\ proc[w] = "paused"
                /\ proc' = [proc EXCEPT ![w] = "polling"]
                /\ UNCHANGED <<row, run>>

\* Bound: a process is stopped or dies only while another worker id is left to replace it.
Replaceable(w) == \E v \in Worker \ {w} : proc[v] \notin {"draining", "gone"}

\* The abort signal: the process claims nothing more and waits for its handlers.
Stop(w) == /\ proc[w] \in {"polling", "racing", "paused"}
           /\ Replaceable(w)
           /\ proc' = [proc EXCEPT ![w] = "draining"]
           /\ UNCHANGED <<row, run>>

Drained(w) == /\ proc[w] = "draining" /\ Active(w) = {}
              /\ proc' = [proc EXCEPT ![w] = "gone"]
              /\ UNCHANGED <<row, run>>

\* The process is killed, or startWorker rejects because claimNext or fail did.
Crash(w) == /\ Alive(w) /\ Replaceable(w)
            /\ proc' = [proc EXCEPT ![w] = "gone"]
            /\ run' = [r \in Run |-> IF r[1] = w THEN Idle ELSE run[r]]
            /\ UNCHANGED row

-----------------------------------------------------------------------------
(* One claimed job: run(job) of startWorker.                               *)

Goto(r, pc) == run' = [run EXCEPT ![r].pc = pc]

\* The handler's promise is removed from `active`; a loop waiting in Promise.race wakes up.
Finish(r) == /\ run' = [run EXCEPT ![r] = Idle]
             /\ proc' = [proc EXCEPT ![r[1]] = IF @ = "racing" THEN "polling" ELSE @]

Handling(r) == run[r].pc = "handling"

HandlerReturns(r) == Handling(r) /\ Goto(r, "completing") /\ UNCHANGED <<row, proc>>

HandlerThrows(r) == Handling(r) /\ Goto(r, "failing") /\ UNCHANGED <<row, proc>>

\* complete inside a transaction of the handler: the row stays locked until it commits.
Terminalize(r) == /\ Handling(r) /\ Fenced(r) /\ ~RowLocked(run[r].job)
                  /\ Goto(r, "terminalizing")
                  /\ UNCHANGED <<row, proc>>

MarkCompleted(j) == /\ status' = [status EXCEPT ![j] = "completed"]
                    /\ lockedBy' = [lockedBy EXCEPT ![j] = None]
                    /\ expired' = [expired EXCEPT ![j] = FALSE]
                    /\ UNCHANGED <<attempts, visible, arrivals, outlived>>

CommitTerminal(r) == /\ run[r].pc = "terminalizing"
                     /\ MarkCompleted(run[r].job)
                     /\ Finish(r)

AbortTerminal(r) == /\ run[r].pc = "terminalizing"
                    /\ Goto(r, "failing")
                    /\ UNCHANGED <<row, proc>>

Completing(r) == run[r].pc = "completing" /\ ~RowLocked(run[r].job)

CompleteRow(r) == IF Fenced(r) THEN MarkCompleted(run[r].job) ELSE UNCHANGED row

\* complete after the handler; a lost fence is not noticed.
Complete(r) == Completing(r) /\ CompleteRow(r) /\ Finish(r)

\* The statement fails, or its answer is lost after it committed: the catch calls fail.
CompleteThrows(r) == /\ Completing(r)
                     /\ CompleteRow(r) \/ UNCHANGED row
                     /\ Goto(r, "failing")
                     /\ UNCHANGED proc

\* fail, first statement: attempts and maxAttempts are read.
FailRead(r) == /\ run[r].pc = "failing"
               /\ \/ /\ ~Fenced(r)
                     /\ Finish(r)
                  \/ /\ Fenced(r)
                     /\ run' = [run EXCEPT ![r].pc = "failWrite",
                                           ![r].seen = attempts[run[r].job]]
                     /\ UNCHANGED proc
               /\ UNCHANGED row

Exhausted(n) == n >= MaxAttempts

\* fail, second statement: what to write was decided from the values read before.
FailWrite(r) ==
    LET j == run[r].job
        terminal == Exhausted(run[r].seen)
    IN /\ run[r].pc = "failWrite" /\ ~RowLocked(j)
       /\ \/ /\ ~Fenced(r)
             /\ UNCHANGED row
          \/ /\ Fenced(r) /\ terminal
             /\ status' = [status EXCEPT ![j] = "failed"]
             /\ UNCHANGED <<attempts, lockedBy, expired, visible, arrivals, outlived>>
          \/ /\ Fenced(r) /\ ~terminal
             /\ status' = [status EXCEPT ![j] = "queued"]
             /\ visible' = [visible EXCEPT ![j] = FALSE]
             /\ lockedBy' = [lockedBy EXCEPT ![j] = None]
             /\ expired' = [expired EXCEPT ![j] = FALSE]
             /\ UNCHANGED <<attempts, arrivals, outlived>>
       /\ Finish(r)

-----------------------------------------------------------------------------

Outside(j) == \/ \E now \in BOOLEAN : Enqueue(j, now)
              \/ BecomeVisible(j) \/ LeaseExpires(j) \/ Cancel(j) \/ Purge(j)

Loop(w) == \/ \E s \in Slot, j \in Job : Claim(w, s, j)
           \/ Wait(w) \/ PollAgain(w) \/ Drained(w)

RunStep(r) == \/ HandlerReturns(r) \/ HandlerThrows(r) \/ Terminalize(r)
              \/ CommitTerminal(r) \/ AbortTerminal(r)
              \/ Complete(r) \/ CompleteThrows(r) \/ FailRead(r) \/ FailWrite(r)

Next == \/ \E j \in Job : Outside(j)
        \/ \E w \in Worker : Boot(w) \/ Loop(w) \/ Stop(w) \/ Crash(w)
        \/ \E r \in Run : RunStep(r)

Spec == Init /\ [][Next]_vars

\* Clocks run, a supervisor keeps a worker process alive, its loop runs, and every handler
\* ends.  Nothing is assumed of producers, cancellation, retention, crashes and stops.
Fairness == /\ \A j \in Job : WF_vars(BecomeVisible(j)) /\ WF_vars(LeaseExpires(j))
            /\ WF_vars((\A w \in Worker : ~Alive(w)) /\ \E w \in Worker : Boot(w))
            /\ \A w \in Worker : WF_vars(Loop(w))
            /\ \A r \in Run : WF_vars(RunStep(r))

FairSpec == Spec /\ Fairness

-----------------------------------------------------------------------------
(* Properties.                                                             *)

Status == {"absent", "queued", "running", "completed", "failed", "cancelled", "purged"}
ProcState == {"new", "polling", "racing", "paused", "draining", "gone"}
RunState == {"idle", "handling", "terminalizing", "completing", "failing", "failWrite"}
RunRecord == [pc : RunState, job : Job \cup {None}, attempt : Nat, seen : Nat]

\* Every variable has the type of the column or of the loop state it stands for, and a slot
\* has a job exactly while it is not idle.
TypeOK == /\ status \in [Job -> Status]
          /\ attempts \in [Job -> Nat]
          /\ lockedBy \in [Job -> Worker \cup {None}]
          /\ expired \in [Job -> BOOLEAN]
          /\ visible \in [Job -> BOOLEAN]
          /\ arrivals \in Seq(Job)
          /\ outlived \in [Job -> BOOLEAN]
          /\ proc \in [Worker -> ProcState]
          /\ run \in [Run -> RunRecord]
          /\ \A r \in Run : run[r].pc = "idle" <=> run[r].job = None

\* The attempt number is a fencing token: no two live handlers of a job ever share one, and
\* none is ahead of the row.
ClaimsUnique ==
    /\ \A r \in Run : run[r].pc # "idle" => run[r].attempt \in 1 .. attempts[run[r].job]
    /\ \A q, r \in Run : /\ q # r /\ run[q].pc # "idle" /\ run[r].pc # "idle"
                         /\ run[q].job = run[r].job
                         => run[q].attempt # run[r].attempt

\* A handler transaction that has terminalized its job still holds the row when it commits,
\* alone: no claim, cancellation or settlement gets between the two.
TerminalizerHoldsRow ==
    \A r \in Run : run[r].pc = "terminalizing" =>
        /\ Fenced(r)
        /\ \A q \in Run \ {r} : run[q].pc = "terminalizing" => run[q].job # run[r].job

\* Once settled a job never runs again: whatever late handlers, failed completions and lease
\* expiries do, only retention touches the row.
TerminalIsFinal ==
    [][\A j \in Job :
          /\ status[j] \in {"failed", "cancelled", "purged"} => status'[j] = status[j]
          /\ status[j] = "completed" => status'[j] \in {"completed", "purged"}]_status

\* Crashes, drains, retries and cancellations alone never put two handlers on one job: it takes
\* one of them, or one the job had while they overlapped, that has outlived its lease.
NoOverlap == \A q, r \in Run :
    q # r /\ run[q].pc # "idle" /\ run[q].job = run[r].job => outlived[run[q].job]

\* The handler of the latest claim of job j, in process w.
LatestIn(q, w, j) == q[1] = w /\ run[q].job = j /\ run[q].attempt = attempts[j]

\* A running job is completed, failed or given back only by a handler of the process that made
\* the latest claim, and while the handler of that claim is at work in it: from other processes,
\* and after its own handler has gone, nothing settles a claim.
LatestClaimSettles ==
    [][\A j \in Job :
          status[j] = "running" /\ status'[j] \in {"queued", "completed", "failed"}
          => \E q, r \in Run : /\ LatestIn(q, lockedBy[j], j)
                               /\ r[1] = lockedBy[j] /\ run[r].job = j
                               /\ run'[r] # run[r]]_vars

\* A job whose attempts are spent goes back to the queue in one way only: a handler of an older
\* claim, whose slot shares the worker id with that of the latest one, gives the job back over
\* the head of the latest handler.
RetryBudget ==
    [][\A j \in Job :
          status[j] = "running" /\ status'[j] = "queued" /\ attempts[j] >= MaxAttempts
          => \E q, r \in Run : /\ LatestIn(q, lockedBy[j], j)
                               /\ r[1] = lockedBy[j] /\ run[r].job = j
                               /\ run[r].attempt < run[q].attempt
                               /\ run'[r] # run[r]]_vars

\* What fail is written for and the shared worker id breaks: a queued job has attempts left.
\* No run checks it; TLC refutes it in the instance of JobQueue_stale.cfg.
SpentJobsStayOut == \A j \in Job : status[j] = "queued" => attempts[j] < MaxAttempts

\* Every enqueued job is eventually completed, failed or cancelled, whatever crashes and
\* failing statements come in between.
EveryJobSettles ==
    \A j \in Job : status[j] \in {"queued", "running"}
                   ~> status[j] \in {"completed", "failed", "cancelled", "purged"}

\* Rows and handlers, seen without slots and statements, behave as JobLifecycle promises.
Working == [j \in Job |-> {<<r[1], run[r].attempt>> : r \in {q \in Run : run[q].job = j}}]
Lifecycle == INSTANCE JobLifecycle WITH holder <- lockedBy, working <- Working
ImplementsLifecycle == Lifecycle!Spec
=============================================================================
