------------------------------ MODULE BulkJobs ------------------------------
(***************************************************************************)
(* One job of the kinds a caller waits for: a bulk assert (jobs/           *)
(* bulk-assert.ts) or an export (jobs/bulk-export.ts), run by worker       *)
(* processes, cancelled by the caller (services/queue-tasks.ts), the file  *)
(* of an export fetched once (routes/exports.ts).                          *)
(*                                                                         *)
(* A process runs several handlers under one id, and a lease of ten        *)
(* minutes may end while its handler goes on.  Rows and pages are numbers; *)
(* a file is the set of pages written to it, known by the claim that       *)
(* created it.                                                             *)
(***************************************************************************)
EXTENDS Pool, Integers, FiniteSets

CONSTANTS
    Processes,      \* ids of worker processes
    RowCount,       \* rows to assert, pages to export
    BatchSize,      \* rows asserted between two looks at the job
    MaxRuns,        \* queue_jobs.max_attempts
    MaxLeases,      \* bound on claims
    Readers         \* requests for the file

Positions == 1..RowCount

\* A handler: the rows or pages before next are done; ok and failed are what it tells of rows, file
\* what it opened.
Handlers ==
    [process : Processes, next : 1..RowCount + 1, file : 1..MaxLeases, keep : BOOLEAN,
     phase : {"opening", "batch", "working", "progress", "renaming", "settling", "cleaning", "returned"},
     ok : UNION {[S -> {"created", "updated"}] : S \in SUBSET Positions}, failed : SUBSET Positions,
     outcome : {"void", "thrown", "terminalized"}]

ASSUME BulkAssumption ==
    /\ RowCount \in Nat \ {0} /\ BatchSize \in Nat \ {0} /\ MaxRuns \in Nat /\ MaxLeases \in Nat
    /\ None \notin Nat \cup Processes \cup {"created", "updated"} \cup Handlers

VARIABLES
    purpose,    \* "assert" or "export"
    task,       \* the row of queue_jobs: [status, holder, tries, result]
    work,       \* the handlers that run, in the slots of all processes
    dead,       \* processes that have died
    replays,    \* idempotency_replays: what asserting the row returned
    applied,    \* history: how often the row was asserted
    temporary, final, \* the two names in the export directory: a file or None
    content,    \* pages in each file
    fetch,      \* requests for the file: [phase, file, got]
    fetched,    \* queue_jobs.export_downloaded_at is set
    overlapped, \* history: a run was claimed while another one went on
    unheard     \* history: the job was completed, and the run that did so was not told

files == <<temporary, final, content>>
bulkVars == <<purpose, task, work, dead, replays, applied, files, fetch, fetched, overlapped, unheard>>

BulkInit ==
    /\ purpose \in {"assert", "export"}
    /\ task = [status |-> "queued", holder |-> None, tries |-> 0, result |-> None]
    /\ work = [w \in Workers |-> None]
    /\ dead = {}
    /\ replays = [r \in Positions |-> None]
    /\ applied = [r \in Positions |-> 0]
    /\ temporary = None
    /\ final = None
    /\ content = [c \in 1..MaxLeases |-> {}]
    /\ fetch = [d \in Readers |-> [phase |-> "ready", file |-> None, got |-> None]]
    /\ fetched = FALSE
    /\ overlapped = FALSE
    /\ unheard = FALSE

At(w, phase) == work[w] # None /\ work[w].phase = phase
Continue(w, phase) == work' = [work EXCEPT ![w].phase = phase]
\* WHERE locked_by = workerId AND status = 'running'
Held(w) == task.status = "running" /\ task.holder = work[w].process

-----------------------------------------------------------------------------
\* claimNext: a queued job, or one whose lease has ended.
Take(w, p) ==
    /\ work[w] = None /\ p \notin dead
    /\ task.status \in {"queued", "running"} /\ task.tries < MaxLeases
    /\ task' = [task EXCEPT !.status = "running", !.holder = p, !.tries = @ + 1]
    /\ work' = [work EXCEPT ![w] = [process |-> p, phase |-> IF purpose = "assert" THEN "batch" ELSE "opening",
                                    next |-> 1, ok |-> <<>>, failed |-> {}, file |-> task.tries + 1,
                                    keep |-> FALSE, outcome |-> "void"]]
    /\ overlapped' = (overlapped \/ \E v \in Workers : work[v] # None)
    /\ UNCHANGED <<purpose, dead, replays, applied, files, fetch, fetched, unheard>>

\* The handler has returned or thrown; the loop completes the job with no result, or fails it.
Return(w) ==
    /\ At(w, "returned")
    /\ task' = IF ~Held(w) \/ work[w].outcome = "terminalized" THEN task
               ELSE IF work[w].outcome = "void" THEN [task EXCEPT !.status = "completed", !.holder = None]
               ELSE IF task.tries < MaxRuns THEN [task EXCEPT !.status = "queued", !.holder = None]
               ELSE [task EXCEPT !.status = "failed"]
    /\ work' = [work EXCEPT ![w] = None]
    /\ UNCHANGED <<purpose, dead, replays, applied, files, fetch, fetched, overlapped, unheard>>

CancelTask ==
    /\ task.status \in {"queued", "running"}
    /\ task' = [task EXCEPT !.status = "cancelled"]
    /\ UNCHANGED <<purpose, work, dead, replays, applied, files, fetch, fetched, overlapped, unheard>>

Die(p) ==
    /\ p \notin dead
    /\ dead' = dead \cup {p}
    /\ work' = [w \in Workers |-> IF work[w] # None /\ work[w].process = p THEN None ELSE work[w]]
    /\ UNCHANGED <<purpose, task, replays, applied, files, fetch, fetched, overlapped, unheard>>

\* Where a handler goes when it gives up: an export cleans up first.
Leave(w, outcome) ==
    work' = [work EXCEPT ![w].phase = IF purpose = "export" THEN "cleaning" ELSE "returned",
                         ![w].outcome = outcome]

\* The database, or the disk, fails.
Throw(w) ==
    /\ work[w] # None /\ work[w].phase \notin {"opening", "cleaning", "returned"}
    /\ Leave(w, "thrown")
    /\ UNCHANGED <<purpose, task, dead, replays, applied, files, fetch, fetched, overlapped, unheard>>

\* stillRunning compares the status, not the holder.
LookAtJob(w) ==
    /\ At(w, "batch")
    /\ IF task.status = "running" THEN Continue(w, "working") ELSE Leave(w, "void")
    /\ UNCHANGED <<purpose, task, dead, replays, applied, files, fetch, fetched, overlapped, unheard>>

-----------------------------------------------------------------------------
\* Mutant: the key of a row is made anew by each run.
NeverAsserted(r) == TRUE

\* The key of a row depends on the request and its index: a later run is told what the first was.
NotYetAsserted(r) == replays[r] = None

Accept(w, said) ==
    LET r == work[w].next
        fresh == NotYetAsserted(r)
        answer == IF fresh THEN said ELSE replays[r]
    IN  /\ replays' = [replays EXCEPT ![r] = answer]
        /\ applied' = [applied EXCEPT ![r] = IF fresh THEN @ + 1 ELSE @]
        /\ work' = [work EXCEPT ![w].next = r + 1,
                                ![w].ok = [q \in DOMAIN @ \cup {r} |-> IF q = r THEN answer ELSE @[q]],
                                ![w].phase = IF r = RowCount \/ r % BatchSize = 0 THEN "progress" ELSE @]

AssertRow(w, said) ==
    /\ purpose = "assert" /\ At(w, "working")
    /\ Accept(w, said)
    /\ UNCHANGED <<purpose, task, dead, files, fetch, fetched, overlapped, unheard>>

\* An error of the service is a failed row, also where an earlier run has asserted it.
RefuseRow(w) ==
    /\ purpose = "assert" /\ At(w, "working")
    /\ LET r == work[w].next
       IN  work' = [work EXCEPT ![w].next = r + 1, ![w].failed = @ \cup {r},
                                ![w].phase = IF r = RowCount \/ r % BatchSize = 0 THEN "progress" ELSE @]
    /\ UNCHANGED <<purpose, task, dead, replays, applied, files, fetch, fetched, overlapped, unheard>>

\* After a batch, or a page; then the next one, or the result.
Progress(w) ==
    /\ At(w, "progress")
    /\ IF ~Held(w) THEN Leave(w, "void")
       ELSE Continue(w, IF work[w].next <= RowCount THEN "batch"
                    ELSE IF purpose = "export" THEN "renaming" ELSE "settling")
    /\ UNCHANGED <<purpose, task, dead, replays, applied, files, fetch, fetched, overlapped, unheard>>

CompletedBy(w) == [task EXCEPT !.status = "completed", !.holder = None,
                               !.result = [ok |-> work[w].ok, failed |-> work[w].failed]]

Settle(w) ==
    /\ At(w, "settling")
    /\ task' = IF Held(w) THEN CompletedBy(w) ELSE task
    /\ work' = [work EXCEPT ![w].phase = IF purpose = "export" THEN "cleaning" ELSE "returned",
                            ![w].keep = Held(w),
                            ![w].outcome = IF Held(w) THEN "terminalized" ELSE "void"]
    /\ UNCHANGED <<purpose, dead, replays, applied, files, fetch, fetched, overlapped, unheard>>

\* The transaction commits and its answer is lost: the handler throws, and takes the job for unfinished.
AnswerLost(w) ==
    /\ At(w, "settling") /\ Held(w)
    /\ task' = CompletedBy(w)
    /\ Leave(w, "thrown")
    /\ unheard' = TRUE
    /\ UNCHANGED <<purpose, dead, replays, applied, files, fetch, fetched, overlapped>>

-----------------------------------------------------------------------------
\* The temporary name is made, or the file it names is emptied.
OpenFile(w) ==
    /\ At(w, "opening")
    /\ LET f == IF temporary = None THEN work[w].file ELSE temporary
       IN  /\ temporary' = f
           /\ content' = [content EXCEPT ![f] = {}]
           /\ work' = [work EXCEPT ![w].phase = "batch", ![w].file = f]
    /\ UNCHANGED <<purpose, task, dead, replays, applied, final, fetch, fetched, overlapped, unheard>>

WritePage(w) ==
    /\ purpose = "export" /\ At(w, "working")
    /\ content' = [content EXCEPT ![work[w].file] = @ \cup {work[w].next}]
    /\ work' = [work EXCEPT ![w].phase = "progress", ![w].next = @ + 1]
    /\ UNCHANGED <<purpose, task, dead, replays, applied, temporary, final, fetch, fetched, overlapped, unheard>>

\* A rename of what is no longer there throws.
Publish(w) ==
    /\ At(w, "renaming")
    /\ IF temporary = None THEN Leave(w, "thrown") /\ UNCHANGED <<temporary, final>>
       ELSE Continue(w, "settling") /\ final' = temporary /\ temporary' = None
    /\ UNCHANGED <<purpose, task, dead, replays, applied, content, fetch, fetched, overlapped, unheard>>

\* Mutant: the file is left whether or not the job was completed.
AlwaysKept(w) == TRUE

KeepsFinal(w) == work[w].keep

\* The finally block.
CleanUp(w) ==
    /\ At(w, "cleaning")
    /\ temporary' = None
    /\ final' = IF KeepsFinal(w) THEN final ELSE None
    /\ Continue(w, "returned")
    /\ UNCHANGED <<purpose, task, dead, replays, applied, content, fetch, fetched, overlapped, unheard>>

\* GET /exports/:jobId opens the file, and then claims the only download.
OpenDownload(d) ==
    /\ fetch[d].phase = "ready"
    /\ task.status = "completed" /\ task.result # None /\ ~fetched
    /\ final # None
    /\ fetch' = [fetch EXCEPT ![d].phase = "open", ![d].file = final]
    /\ UNCHANGED <<purpose, task, work, dead, replays, applied, files, fetched, overlapped, unheard>>

ConsumeDownload(d) ==
    /\ fetch[d].phase = "open"
    /\ fetch' = [fetch EXCEPT ![d].phase = "done", ![d].got = IF fetched THEN None ELSE content[fetch[d].file]]
    /\ fetched' = TRUE
    /\ UNCHANGED <<purpose, task, work, dead, replays, applied, files, overlapped, unheard>>

BulkNext ==
    \/ \E w \in Workers, p \in Processes : Take(w, p)
    \/ \E w \in Workers, said \in {"created", "updated"} : AssertRow(w, said)
    \/ \E w \in Workers :
          \/ Return(w) \/ Throw(w) \/ LookAtJob(w) \/ RefuseRow(w) \/ Progress(w) \/ Settle(w) \/ AnswerLost(w)
          \/ OpenFile(w) \/ WritePage(w) \/ Publish(w) \/ CleanUp(w)
    \/ CancelTask
    \/ \E p \in Processes : Die(p)
    \/ \E d \in Readers : OpenDownload(d) \/ ConsumeDownload(d)

BulkSpec == BulkInit /\ [][BulkNext]_bulkVars
-----------------------------------------------------------------------------
\* However often the job was run, by whom and at once: no row is asserted twice, and a completed
\* job's result counts each row once, as created or updated exactly as it was.
RowsCountedOnce ==
    purpose = "assert" =>
        /\ \A r \in Positions : applied[r] <= 1
        /\ task.result # None =>
              /\ DOMAIN task.result.ok \cup task.result.failed = Positions
              /\ DOMAIN task.result.ok \cap task.result.failed = {}
              /\ \A r \in DOMAIN task.result.ok : applied[r] = 1 /\ replays[r] = task.result.ok[r]

\* As long as no run was claimed while another went on: a completed export has its file, whole, unless
\* the run that completed it was not told and removed it; whoever gets a file gets all of it; a run that
\* ended otherwise leaves no file, unless its process died.  And the file is handed out once.
ExportAlone ==
    purpose = "export" =>
        /\ Cardinality({d \in Readers : fetch[d].got # None}) <= 1
        /\ ~overlapped =>
              /\ task.status = "completed" => IF final = None THEN unheard ELSE content[final] = Positions
              /\ \A d \in Readers : fetch[d].got \in {None, Positions}
              /\ (task.status # "completed" /\ dead = {} /\ \A w \in Workers : work[w] = None) =>
                    temporary = None /\ final = None

\* A completed export can be fetched.  Violated: a run that lost its lease shares both names with the
\* run that completes the job, and its clean-up removes that run's file.  (Two runs of one process also
\* share its id: the one that gave up completes the job, with no result, for the one that goes on.)
ExportDownloadable ==
    (purpose = "export" /\ task.result # None /\ \A w \in Workers : work[w] = None) =>
        final # None /\ content[final] = Positions

\* The same where no two runs were ever at work.  Violated: when the answer to the commit that completes
\* the job is lost, the run throws and its clean-up removes the file of the job it has completed.
ExportSurvivesItsRun == ~overlapped => ExportDownloadable
=============================================================================
