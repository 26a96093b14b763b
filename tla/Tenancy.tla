------------------------------- MODULE Tenancy -------------------------------
(***************************************************************************)
(* Tenants: teams, the organisations that UOA says they belong to, the     *)
(* first call that provisions a team, and the tenant.reparent job that     *)
(* rewrites the rows of a team for another organisation.  With them the    *)
(* audit log, one hash chain per organisation, which every transaction     *)
(* extends in its last statement.                                          *)
(*                                                                         *)
(* A call resolves its tenant once and then writes under what it resolved. *)
(* Transactions are READ COMMITTED: a statement of the job sees the rows   *)
(* that are committed when it runs.                                        *)
(***************************************************************************)
EXTENDS Integers, FiniteSets

CONSTANTS
    Org, Team, None,
    Mobile,         \* teams that UOA may move
    Call,           \* calls; each writes one row
    Feedless,       \* those that write no change rows (views, lists, policies)
    Unlisted,       \* those whose table is not in TENANT_TABLES
    MaxMoves,       \* bound: how often UOA moves a team
    MaxEntries,     \* bound: audit entries
    LostRuns        \* may a call or a run of the job die?

ASSUME TenancyAssumption ==
    /\ None \notin Org /\ Mobile \subseteq Team
    /\ Feedless \subseteq Call /\ Unlisted \subseteq Call
    /\ MaxMoves \in Nat /\ MaxEntries \in Nat
    /\ LostRuns \in BOOLEAN

JobKey == Team \X Org   \* idempotency key: the team and the organisation it moves to
Entry == 1 .. MaxEntries

VARIABLES
    home,       \* home[t]: the organisation of team t at UOA
    moves,      \* how often UOA has moved a team
    team,       \* team[t]: organization_id of the team row, or None without a row
    cached,     \* pairs in the tenant cache
    call,       \* call[c]: a call and what its token says
    row,        \* row[c]: the row that call c has committed
    audit,      \* audit[n]: the n-th committed audit row
    job,        \* job[k]: the tenant.reparent job with that key
    run,        \* run[k]: the transaction of its handler
    touched,    \* history: organisations that a team has left or joined
    mixed       \* history: teams moved while a call wrote, or by a job for another source

authority == <<home, moves>>
vars == <<authority, team, cached, call, row, audit, job, run, touched, mixed>>

NoEntry == [team |-> None, org |-> None, prev |-> 0, hashed |-> None, event |-> "none"]
NoRow == [team |-> None, org |-> None]
NoCall == [pc |-> "idle", team |-> None, org |-> None, prev |-> 0]
NoJob == [status |-> "absent", source |-> None]
NoRun == [pc |-> "idle", rows |-> {}, entries |-> {}]

Init == /\ home \in [Team -> Org] /\ moves = 0
        /\ team = [t \in Team |-> None]
        /\ cached = {}
        /\ call = [c \in Call |-> NoCall]
        /\ row = [c \in Call |-> NoRow]
        /\ audit = [n \in Entry |-> NoEntry]
        /\ job = [k \in JobKey |-> NoJob]
        /\ run = [k \in JobKey |-> NoRun]
        /\ touched = {} /\ mixed = {}

-----------------------------------------------------------------------------
(* Mutants: a lock, a condition or a statement of the code missing.        *)

ChainUnlocked(o) == TRUE
NotLookedUp(t) == TRUE
TeamRowById(c) == team[call[c].team] # None
NoRowsOf(k) == {}
TeamUnlocked(t) == TRUE

-----------------------------------------------------------------------------
(* Locks.                                                                  *)

\* Namespace 3, per team: provisioning and the job.
TeamFree(t) == \A k \in JobKey : k[1] = t => run[k].pc = "idle"

\* Namespace 5, per organisation: taken by a call that is about to commit.
ChainFree(o) == \A c \in Call : call[c].pc = "audited" => call[c].org # o

Writing(c) == call[c].pc \in {"fed", "audited"}

\* The team row, which an allocation of sequence numbers locks until the commit.
RowFree(t) == \A c \in Call \ Feedless : Writing(c) => call[c].team # t

-----------------------------------------------------------------------------
(* The audit log.                                                          *)

Written(log) == {n \in Entry : log[n] # NoEntry}
EntriesOf(log, o) == {n \in Written(log) : log[n].org = o}
Heads(log, o) == {n \in EntriesOf(log, o) : \A m \in EntriesOf(log, o) : log[m].prev # n}

\* writeAudit throws when the chain of the organisation has more than one head.
Extensible(log, o) == Cardinality(Heads(log, o)) <= 1

Head(log, o) == IF Heads(log, o) = {} THEN 0 ELSE CHOOSE h \in Heads(log, o) : TRUE

Append(log, o, t, prev, event) ==
    [log EXCEPT ![Cardinality(Written(log)) + 1] =
        [team |-> t, org |-> o, prev |-> prev, hashed |-> o, event |-> event]]

RoomFor(n) == Cardinality(Written(audit)) + n <= MaxEntries

-----------------------------------------------------------------------------
(* Calls.                                                                  *)

Goto(c, pc) == call' = [call EXCEPT ![c].pc = pc]
EndCall(c) == call' = [call EXCEPT ![c] = NoCall]

MoveAtUOA(t) == /\ t \in Mobile /\ moves < MaxMoves
                /\ \E o \in Org \ {home[t]} : home' = [home EXCEPT ![t] = o]
                /\ moves' = moves + 1
                /\ UNCHANGED <<team, cached, call, row, audit, job, run, touched, mixed>>

\* A call comes with a token that names the team and its organisation of the time.
Begin(c) == /\ call[c].pc = "idle" /\ row[c] = NoRow
            /\ \E t \in Team : call' = [call EXCEPT ![c] = [NoCall EXCEPT !.pc = "resolve", !.team = t, !.org = home[t]]]
            /\ UNCHANGED <<authority, team, cached, row, audit, job, run, touched, mixed>>

\* The cache saves the lock: the row is read as it is committed, and must still fit.
ResolveCached(c) == /\ call[c].pc = "resolve"
                    /\ <<call[c].team, call[c].org>> \in cached
                    /\ team[call[c].team] = call[c].org
                    /\ Goto(c, "open")
                    /\ UNCHANGED <<authority, team, cached, row, audit, job, run, touched, mixed>>

Resolve(c, t, o) == /\ team[t] = o
                    /\ cached' = cached \cup {<<t, o>>}
                    /\ Goto(c, "open")
                    /\ UNCHANGED <<team, audit, job>>

Unprovisioned(t) == team[t] = None

Provision(c, t, o) == /\ Unprovisioned(t)
                      /\ ChainFree(o) /\ Extensible(audit, o) /\ RoomFor(1)
                      /\ team' = [team EXCEPT ![t] = o]
                      /\ audit' = Append(audit, o, t, Head(audit, o), "provisioned")
                      /\ cached' = cached \cup {<<t, o>>}
                      /\ Goto(c, "open")
                      /\ UNCHANGED job

\* Without a job of that key, of any status, one is enqueued: TENANT_REPARENTING.
Reparent(c, t, o) == /\ team[t] \notin {None, o}
                     /\ job[<<t, o>>].status = "absent"
                     /\ job' = [job EXCEPT ![<<t, o>>] = [status |-> "queued", source |-> team[t]]]
                     /\ EndCall(c)
                     /\ UNCHANGED <<team, cached, audit>>

\* A job with that key was enqueued by another request, so its payload never fits: INTERNAL.
\* The same when the provisioning transaction cannot extend the chain.
RefuseCall(c, t, o) == /\ \/ team[t] \notin {None, o} /\ job[<<t, o>>].status # "absent"
                          \/ team[t] = None /\ ChainFree(o) /\ ~Extensible(audit, o)
                       /\ EndCall(c)
                       /\ UNCHANGED <<team, cached, audit, job>>

ResolveLocked(c) ==
    LET t == call[c].team
        o == call[c].org
    IN /\ call[c].pc = "resolve" /\ TeamFree(t)
       /\ Resolve(c, t, o) \/ Provision(c, t, o) \/ Reparent(c, t, o) \/ RefuseCall(c, t, o)
       /\ UNCHANGED <<authority, row, run, touched, mixed>>

\* UPDATE teams ... WHERE id and organization_id: no row, no write.
TeamRowFits(c) == team[call[c].team] = call[c].org

\* A job moves the team while this call writes.
Mixing(c) == {t \in {call[c].team} : ~TeamFree(t) \/ team[t] # call[c].org}

Feed(c) == /\ call[c].pc = "open"
           /\ \/ c \in Feedless
              \/ RowFree(call[c].team) /\ TeamRowFits(c)
           /\ Goto(c, "fed")
           /\ mixed' = mixed \cup Mixing(c)
           /\ UNCHANGED <<authority, team, cached, row, audit, job, run, touched>>

\* writeAudit comes last: the lock of the chain, its head, and the row that extends it.
AuditLock(c) == /\ call[c].pc = "fed"
                /\ ChainFree(call[c].org) /\ Extensible(audit, call[c].org)
                /\ call' = [call EXCEPT ![c].pc = "audited", ![c].prev = Head(audit, call[c].org)]
                /\ UNCHANGED <<authority, team, cached, row, audit, job, run, touched, mixed>>

Commit(c) == /\ call[c].pc = "audited" /\ RoomFor(1)
             /\ row' = [row EXCEPT ![c] = [team |-> call[c].team, org |-> call[c].org]]
             /\ audit' = Append(audit, call[c].org, call[c].team, call[c].prev, "write")
             /\ EndCall(c)
             /\ mixed' = mixed \cup Mixing(c)
             /\ UNCHANGED <<authority, team, cached, job, run, touched>>

\* The write finds no team row or no single head, or it fails for another reason.
Abort(c) == /\ \/ LostRuns /\ Writing(c)
               \/ call[c].pc = "open" /\ c \notin Feedless /\ ~TeamRowFits(c)
               \/ call[c].pc = "fed" /\ ~Extensible(audit, call[c].org)
            /\ EndCall(c)
            /\ UNCHANGED <<authority, team, cached, row, audit, job, run, touched, mixed>>

-----------------------------------------------------------------------------
(* The tenant.reparent job.                                                *)

\* The claim, the lock, and the check that team and target are the ones of the payload.
Start(k) == /\ job[k].status = "queued" /\ TeamFree(k[1])
            /\ job' = [job EXCEPT ![k].status = "running"]
            /\ run' = [run EXCEPT ![k].pc = IF team[k[1]] = k[2] THEN "finish" ELSE "rows"]
            /\ mixed' = mixed \cup
                  {t \in {k[1]} : team[t] \notin {job[k].source, k[2]} \/ \E c \in Call : Writing(c) /\ call[c].team = t}
            /\ UNCHANGED <<authority, team, cached, call, row, audit, touched>>

ListedRows(k) == {c \in Call \ Unlisted : row[c] = [team |-> k[1], org |-> job[k].source]}

RewriteRows(k) == /\ run[k].pc = "rows"
                  /\ run' = [run EXCEPT ![k].pc = "entries", ![k].rows = ListedRows(k)]
                  /\ UNCHANGED <<authority, team, cached, call, row, audit, job, touched, mixed>>

RewriteAudit(k) ==
    /\ run[k].pc = "entries"
    /\ run' = [run EXCEPT ![k].pc = "finish",
                          ![k].entries = {n \in EntriesOf(audit, job[k].source) : audit[n].team = k[1]}]
    /\ UNCHANGED <<authority, team, cached, call, row, audit, job, touched, mixed>>

Rewritten(k) == [n \in Entry |-> IF n \in run[k].entries THEN [audit[n] EXCEPT !.org = k[2]] ELSE audit[n]]

\* The team row follows last; the audit row of the job extends the chain of the target.
Finish(k) ==
    /\ run[k].pc = "finish"
    /\ team[k[1]] = k[2] \/ RowFree(k[1])
    /\ ChainFree(k[2]) /\ Extensible(Rewritten(k), k[2]) /\ RoomFor(1)
    /\ row' = [c \in Call |-> IF c \in run[k].rows THEN [row[c] EXCEPT !.org = k[2]] ELSE row[c]]
    /\ audit' = Append(Rewritten(k), k[2], k[1], Head(Rewritten(k), k[2]), "reparented")
    /\ team' = [team EXCEPT ![k[1]] = k[2]]
    /\ touched' = touched \cup {o \in {team[k[1]], job[k].source, k[2]} : team[k[1]] # k[2]}
    /\ job' = [job EXCEPT ![k].status = "completed"]
    /\ run' = [run EXCEPT ![k] = NoRun]
    /\ UNCHANGED <<authority, cached, call, mixed>>

\* writeAudit finds two heads, or the run dies: the transaction rolls back, and the queue
\* retries the job or gives it up (JobQueue).
FailRun(k, status) ==
    /\ \/ LostRuns /\ run[k].pc # "idle"
       \/ run[k].pc = "finish" /\ ChainFree(k[2]) /\ ~Extensible(Rewritten(k), k[2])
    /\ job' = [job EXCEPT ![k].status = status]
    /\ run' = [run EXCEPT ![k] = NoRun]
    /\ UNCHANGED <<authority, team, cached, call, row, audit, touched, mixed>>

\* system.retention removes completed jobs; the cache forgets after a minute.
Purge(k) == /\ job[k].status = "completed"
            /\ job' = [job EXCEPT ![k] = NoJob]
            /\ UNCHANGED <<authority, team, cached, call, row, audit, run, touched, mixed>>

-----------------------------------------------------------------------------

CallStep(c) == \/ ResolveCached(c) \/ ResolveLocked(c) \/ Feed(c) \/ AuditLock(c) \/ Commit(c) \/ Abort(c)
RunStep(k) == \/ Start(k) \/ RewriteRows(k) \/ RewriteAudit(k) \/ Finish(k)
              \/ FailRun(k, "queued") \/ FailRun(k, "failed")

Next == \/ \E t \in Team : MoveAtUOA(t)
        \/ \E c \in Call : Begin(c) \/ CallStep(c)
        \/ \E k \in JobKey : RunStep(k) \/ Purge(k)

Spec == Init /\ [][Next]_vars

\* Calls run on; the queue claims what is queued, runs it, and gives up a job that fails over
\* and over (JobQueue).
Fairness == /\ \A c \in Call : WF_vars(CallStep(c))
            /\ \A k \in JobKey : WF_vars(RunStep(k)) /\ SF_vars(FailRun(k, "failed"))

FairSpec == Spec /\ Fairness

-----------------------------------------------------------------------------
(* Properties.                                                             *)

\* Every variable has its type, and the job of a team has one transaction at a time.
TypeOK ==
    /\ home \in [Team -> Org] /\ moves \in 0 .. MaxMoves
    /\ team \in [Team -> Org \cup {None}]
    /\ cached \subseteq Team \X Org
    /\ call \in [Call -> [pc : {"idle", "resolve", "open", "fed", "audited"},
                          team : Team \cup {None}, org : Org \cup {None}, prev : Entry \cup {0}]]
    /\ row \in [Call -> [team : Team \cup {None}, org : Org \cup {None}]]
    /\ audit \in [Entry -> [team : Team \cup {None}, org : Org \cup {None}, prev : Entry \cup {0},
                            hashed : Org \cup {None},
                            event : {"none", "provisioned", "write", "reparented"}]]
    /\ job \in [JobKey -> [status : {"absent", "queued", "running", "completed", "failed"},
                           source : Org \cup {None}]]
    /\ run \in [JobKey -> [pc : {"idle", "rows", "entries", "finish"}, rows : SUBSET Call, entries : SUBSET Entry]]
    /\ \A k \in JobKey : job[k].status = "running" <=> run[k].pc # "idle"
    /\ \A k, l \in JobKey : k[1] = l[1] /\ run[k].pc # "idle" /\ run[l].pc # "idle" => k = l
    /\ touched \subseteq Org /\ mixed \subseteq Team

\* Of any number of first calls, with whatever tokens, exactly one provisions the team.
ProvisionedOnce ==
    \A t \in Team :
        Cardinality({n \in Written(audit) : audit[n].team = t /\ audit[n].event = "provisioned"})
            = (IF team[t] = None THEN 0 ELSE 1)

\* What scripts/verify-audit-chain.mjs checks of the rows of an organisation.
Verifies(o) ==
    LET rows == EntriesOf(audit, o) IN
    /\ \A n \in rows : audit[n].hashed = o
    /\ rows # {} => Cardinality({n \in rows : audit[n].prev = 0}) = 1
    /\ \A n, m \in rows : audit[n].prev = audit[m].prev => n = m
    /\ \A n \in rows : audit[n].prev \in rows \cup {0}

\* Transactions of several teams that commit at the same time extend one chain: it stays
\* verifiable, in an organisation that no team has left or joined.
UntouchedChainVerifies == \A o \in Org \ touched : Verifies(o)

\* A job that finds its team where it was enqueued for, with no write of the team in flight,
\* moves all of it: no row of a listed table is left behind in another organisation.
QuietMovesAreWhole ==
    \A c \in Call \ Unlisted :
        LET t == row[c].team IN row[c] # NoRow /\ t \notin mixed => row[c].org = team[t]

\* A call that resolved its tenant before a move and writes records after it is refused: the
\* feed gets rows only in the organisation that the team has when they commit.
FeedFollowsTeam ==
    [][\A c \in Call \ Feedless : row'[c] # row[c] /\ row[c] = NoRow => row'[c].org = team[row'[c].team]]_vars

\* A call that is answered TENANT_REPARENTING may be retried: the job it has enqueued brings
\* the team to its organisation, unless UOA names another one meanwhile.
ReparentingEnds ==
    \A t \in Team, o \in Org :
        job[<<t, o>>].status = "queued" ~> team[t] = o \/ home[t] # o
=============================================================================
