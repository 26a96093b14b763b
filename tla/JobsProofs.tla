------------------------------ MODULE JobsProofs ------------------------------
(***************************************************************************)
(* What holds of the job queue and of the jobs it runs, for every number   *)
(* of jobs, processes, slots, runs and rows: claims are fenced and a job   *)
(* that settled stays settled; a search row never pairs words with the     *)
(* vector of other words; a bulk assert counts each row once and as what   *)
(* it was; an export is published whole; a list nobody disturbs is exact;  *)
(* derived values are those of their sources once no refresh is due; and   *)
(* duplicate groups are what the pairs join.                               *)
(***************************************************************************)
EXTENDS JobQueue, Derived, DynamicLists, SearchIndex, Dedup, BulkJobs, FiniteSetTheorems, WellFoundedInduction, TLAPS

-----------------------------------------------------------------------------
(* JobQueue                                                                *)

\* The typing facts a step of run r needs: its job exists while it is not idle.
LEMMA BusyRun ==
    ASSUME TypeOK, NEW r \in Run, run[r].pc # "idle"
    PROVE  /\ run[r].job \in Job
           /\ run[r].attempt \in Nat
           /\ run[r].seen \in Nat
           /\ r \in Worker \X Slot
           /\ r[1] \in Worker
BY DEF TypeOK, RunRecord, Run

LEMMA InitType == Init => TypeOK
BY QueueAssumption DEF Init, TypeOK, Idle, RunRecord, RunState, Status, ProcState, QueueAssumption

\* Every action keeps the types.
LEMMA TypeStep == TypeOK /\ [Next]_vars => TypeOK'
<1> SUFFICES ASSUME TypeOK, [Next]_vars PROVE TypeOK'
    OBVIOUS
<1>1. ASSUME NEW j \in Job, Outside(j) PROVE TypeOK'
    <2>1. ASSUME NEW now \in BOOLEAN, Enqueue(j, now) PROVE TypeOK'
        BY <2>1 DEF TypeOK, Enqueue, Status
    <2>2. CASE BecomeVisible(j)
        BY <2>2 DEF TypeOK, BecomeVisible
    <2>3. CASE LeaseExpires(j)
        BY <2>3 DEF TypeOK, LeaseExpires
    <2>4. CASE Cancel(j) \/ Purge(j)
        BY <2>4 DEF TypeOK, Cancel, Purge, Status
    <2> QED BY <1>1, <2>1, <2>2, <2>3, <2>4 DEF Outside
<1>2. ASSUME NEW w \in Worker, NEW s \in Slot, NEW j \in Job, Claim(w, s, j) PROVE TypeOK'
    <2>1. <<w, s>> \in Run
        BY DEF Run
    <2>2. /\ status' \in [Job -> Status]
          /\ attempts' \in [Job -> Nat] /\ attempts'[j] \in Nat
          /\ lockedBy' \in [Job -> Worker \cup {None}]
          /\ expired' \in [Job -> BOOLEAN] /\ outlived' \in [Job -> BOOLEAN]
          /\ UNCHANGED <<visible, arrivals, proc>>
        BY <1>2 DEF TypeOK, Claim, CountClaim, Status
    <2>3. /\ run' \in [Run -> RunRecord]
          /\ \A r \in Run : run'[r].pc = "idle" <=> run'[r].job = None
        BY <1>2, <2>1, <2>2, QueueAssumption DEF TypeOK, Claim, RunRecord, RunState, QueueAssumption
    <2> QED BY <2>2, <2>3 DEF TypeOK
<1>3. ASSUME NEW w \in Worker, Boot(w) \/ Wait(w) \/ PollAgain(w) \/ Drained(w) \/ Stop(w)
      PROVE  TypeOK'
    BY <1>3 DEF TypeOK, Boot, Wait, PollAgain, Drained, Stop, ProcState, row
<1>4. ASSUME NEW w \in Worker, Crash(w) PROVE TypeOK'
    <2>1. run' \in [Run -> RunRecord] /\ \A r \in Run : run'[r].pc = "idle" <=> run'[r].job = None
        BY <1>4 DEF TypeOK, Crash, Idle, RunRecord, RunState
    <2>2. proc' \in [Worker -> ProcState]
        BY <1>4 DEF TypeOK, Crash, ProcState
    <2> QED BY <1>4, <2>1, <2>2 DEF TypeOK, Crash, row
<1>5. ASSUME NEW r \in Run, RunStep(r) PROVE TypeOK'
    <2> run[r].pc # "idle"
        BY <1>5 DEF RunStep, HandlerReturns, HandlerThrows, Terminalize, CommitTerminal, AbortTerminal,
                    Complete, CompleteThrows, FailRead, FailWrite, Handling, Completing
    <2>0. run[r].job \in Job /\ run[r] \in RunRecord /\ r[1] \in Worker
        BY BusyRun DEF TypeOK
    <2>1. ASSUME NEW pc \in RunState \ {"idle"}, Goto(r, pc)
          PROVE  run' \in [Run -> RunRecord] /\ \A q \in Run : run'[q].pc = "idle" <=> run'[q].job = None
        <3>1. run' = [run EXCEPT ![r] = [run[r] EXCEPT !.pc = pc]]
            BY <2>1 DEF TypeOK, Goto
        <3>2. [run[r] EXCEPT !.pc = pc] \in RunRecord
            BY <2>0 DEF RunRecord
        <3>3. run[r].job # None /\ [run[r] EXCEPT !.pc = pc].job = run[r].job
              /\ [run[r] EXCEPT !.pc = pc].pc = pc
            BY <2>0, QueueAssumption DEF RunRecord
        <3> QED BY <3>1, <3>2, <3>3 DEF TypeOK
    <2>2. ASSUME Finish(r)
          PROVE  /\ run' \in [Run -> RunRecord] /\ \A q \in Run : run'[q].pc = "idle" <=> run'[q].job = None
                 /\ proc' \in [Worker -> ProcState]
        BY <2>2 DEF TypeOK, Finish, Idle, RunRecord, RunState, ProcState
    <2>3. ASSUME MarkCompleted(run[r].job)
          PROVE  /\ status' \in [Job -> Status] /\ attempts' \in [Job -> Nat]
                 /\ lockedBy' \in [Job -> Worker \cup {None}]
                 /\ expired' \in [Job -> BOOLEAN] /\ visible' \in [Job -> BOOLEAN]
                 /\ arrivals' \in Seq(Job) /\ outlived' \in [Job -> BOOLEAN]
        BY <2>3, <2>0 DEF TypeOK, MarkCompleted, Status
    <2>4. CASE HandlerReturns(r) \/ HandlerThrows(r) \/ Terminalize(r) \/ AbortTerminal(r)
        BY <2>4, <2>1 DEF TypeOK, HandlerReturns, HandlerThrows, Terminalize, AbortTerminal, row, RunState
    <2>5. CASE CommitTerminal(r)
        BY <2>5, <2>2, <2>3 DEF TypeOK, CommitTerminal
    <2>6. CASE Complete(r)
        BY <2>6, <2>2, <2>3 DEF TypeOK, Complete, CompleteRow, row
    <2>7. CASE CompleteThrows(r)
        BY <2>7, <2>1, <2>3 DEF TypeOK, CompleteThrows, CompleteRow, row, RunState
    <2>8. CASE FailRead(r)
        <3>1. CASE Finish(r)
            BY <2>8, <3>1, <2>2 DEF TypeOK, FailRead, row
        <3>2. CASE ~Finish(r)
            <4>1. run' = [run EXCEPT ![r] = [run[r] EXCEPT !.pc = "failWrite",
                                                            !.seen = attempts[run[r].job]]]
                BY <2>8, <3>2 DEF TypeOK, FailRead
            <4>2. [run[r] EXCEPT !.pc = "failWrite", !.seen = attempts[run[r].job]] \in RunRecord
                BY <2>0 DEF RunRecord, RunState, TypeOK
            <4> QED BY <2>8, <3>2, <2>0, <4>1, <4>2, QueueAssumption DEF TypeOK, FailRead, row, RunRecord
        <3> QED BY <3>1, <3>2
    <2>9. CASE FailWrite(r)
        <3>1. /\ status' \in [Job -> Status] /\ attempts' \in [Job -> Nat]
              /\ lockedBy' \in [Job -> Worker \cup {None}]
              /\ expired' \in [Job -> BOOLEAN] /\ visible' \in [Job -> BOOLEAN]
              /\ arrivals' \in Seq(Job) /\ outlived' \in [Job -> BOOLEAN]
            BY <2>9, <2>0 DEF TypeOK, FailWrite, row, Status
        <3> QED BY <2>9, <3>1, <2>2 DEF TypeOK, FailWrite
    <2> QED BY <1>5, <2>4, <2>5, <2>6, <2>7, <2>8, <2>9 DEF RunStep
<1>6. CASE UNCHANGED vars
    BY <1>6 DEF TypeOK, vars, row
<1> QED BY <1>1, <1>2, <1>3, <1>4, <1>5, <1>6 DEF Next, Loop

-----------------------------------------------------------------------------

\* In every reachable state the columns and the loops' states have their types.
THEOREM TypeCorrect == Spec => []TypeOK
BY InitType, TypeStep, PTL DEF Spec
-----------------------------------------------------------------------------
(* Claims are fencing tokens, whatever the number of slots.                *)

\* The attempts a failing run has read are not ahead of the row.
ReadsBehind == \A r \in Run : run[r].pc # "idle" => run[r].seen <= attempts[run[r].job]

IInv == TypeOK /\ ClaimsUnique /\ TerminalizerHoldsRow /\ ReadsBehind

\* No claim is added or renumbered.
ClaimsKept == /\ attempts' = attempts
              /\ \A r \in Run : \/ run'[r].pc = "idle"
                                \/ /\ run[r].pc # "idle"
                                   /\ run'[r].job = run[r].job
                                   /\ run'[r].attempt = run[r].attempt
                                   /\ run'[r].seen \in {run[r].seen, attempts[run[r].job]}

\* No terminalizing transaction begins, and the rows of those that are open are not touched.
LocksKept == \A r \in Run : run'[r].pc = "terminalizing" =>
                /\ run[r].pc = "terminalizing"
                /\ run'[r].job = run[r].job
                /\ status'[run[r].job] = status[run[r].job]
                /\ lockedBy'[run[r].job] = lockedBy[run[r].job]

LEMMA KeptClaims == IInv /\ ClaimsKept => ClaimsUnique' /\ ReadsBehind'
<1> SUFFICES ASSUME IInv, ClaimsKept PROVE ClaimsUnique' /\ ReadsBehind'
    OBVIOUS
<1>1. ClaimsUnique'
    BY DEF IInv, ClaimsKept, ClaimsUnique
<1>2. \A r \in Run : run[r].pc # "idle" => attempts[run[r].job] \in Nat
    BY BusyRun DEF IInv, TypeOK
<1>3. ReadsBehind'
    BY <1>2 DEF IInv, ClaimsKept, ReadsBehind
<1> QED BY <1>1, <1>3

LEMMA KeptLocks == IInv /\ LocksKept => TerminalizerHoldsRow'
BY DEF IInv, LocksKept, TerminalizerHoldsRow, Fenced

\* What a step of a run may change: its own slot, and the row of its own job unless another
\* transaction has that row locked.
LEMMA RunStepLocal ==
    ASSUME IInv, NEW r \in Run, RunStep(r)
    PROVE  /\ run[r].pc # "idle" /\ run[r].job \in Job
           /\ \A q \in Run \ {r} : run'[q] = run[q]
           /\ \/ run'[r].pc = "idle"
              \/ /\ run'[r].job = run[r].job /\ run'[r].attempt = run[r].attempt
                 /\ run'[r].seen \in {run[r].seen, attempts[run[r].job]}
           /\ run'[r].pc = "terminalizing" =>
                Terminalize(r) /\ status' = status /\ lockedBy' = lockedBy
           /\ attempts' = attempts
           /\ \A j \in Job : j # run[r].job => status'[j] = status[j] /\ lockedBy'[j] = lockedBy[j]
           /\ \A q \in Run \ {r} : run[q].pc = "terminalizing" /\ run[q].job = run[r].job
                => status'[run[r].job] = status[run[r].job] /\ lockedBy'[run[r].job] = lockedBy[run[r].job]
<1>1. run[r].pc # "idle"
    BY DEF RunStep, HandlerReturns, HandlerThrows, Terminalize, CommitTerminal, AbortTerminal,
           Complete, CompleteThrows, FailRead, FailWrite, Handling, Completing
<1>2. run[r].job \in Job /\ TypeOK
    BY <1>1, BusyRun DEF IInv
<1>3. CASE HandlerReturns(r) \/ HandlerThrows(r) \/ Terminalize(r) \/ AbortTerminal(r)
    <2>1. PICK pc \in RunState : Goto(r, pc) /\ (pc = "terminalizing" => Terminalize(r))
        BY <1>3 DEF HandlerReturns, HandlerThrows, Terminalize, AbortTerminal, RunState
    <2>2. status' = status /\ lockedBy' = lockedBy /\ attempts' = attempts
        BY <1>3 DEF HandlerReturns, HandlerThrows, Terminalize, AbortTerminal, row
    <2>3. /\ \A q \in Run \ {r} : run'[q] = run[q]
          /\ run'[r].pc = pc /\ run'[r].job = run[r].job /\ run'[r].attempt = run[r].attempt
          /\ run'[r].seen = run[r].seen
        BY <1>2, <2>1 DEF TypeOK, RunRecord, Goto
    <2> QED BY <1>1, <1>2, <2>1, <2>2, <2>3
<1>4. CASE CommitTerminal(r)
    BY <1>1, <1>2, <1>4 DEF TypeOK, IInv, TerminalizerHoldsRow, CommitTerminal, MarkCompleted, Finish, Idle
<1>5. CASE Complete(r)
    BY <1>1, <1>2, <1>5 DEF TypeOK, Complete, Completing, CompleteRow, MarkCompleted, Finish, Idle, row, RowLocked
<1>6. CASE CompleteThrows(r)
    BY <1>1, <1>2, <1>6 DEF TypeOK, CompleteThrows, Completing, CompleteRow, MarkCompleted, Goto, row, RowLocked
<1>7. CASE FailRead(r)
    <2>1. status' = status /\ lockedBy' = lockedBy /\ attempts' = attempts
        BY <1>7 DEF FailRead, row
    <2>2. CASE run' = [run EXCEPT ![r] = Idle]
        BY <1>1, <1>2, <2>1, <2>2 DEF TypeOK, Idle
    <2>3. CASE run' = [run EXCEPT ![r].pc = "failWrite", ![r].seen = attempts[run[r].job]]
        <3>1. /\ \A q \in Run \ {r} : run'[q] = run[q]
              /\ run'[r].pc = "failWrite" /\ run'[r].job = run[r].job
              /\ run'[r].attempt = run[r].attempt /\ run'[r].seen = attempts[run[r].job]
            BY <1>2, <2>3 DEF TypeOK, RunRecord
        <3> QED BY <1>1, <1>2, <2>1, <3>1
    <2> QED BY <1>7, <2>2, <2>3 DEF FailRead, Finish
<1>8. CASE FailWrite(r)
    <2>1. /\ run' = [run EXCEPT ![r] = Idle] /\ attempts' = attempts
          /\ \A j \in Job : j # run[r].job => status'[j] = status[j] /\ lockedBy'[j] = lockedBy[j]
        BY <1>2, <1>8 DEF TypeOK, FailWrite, Finish, row
    <2>2. ~RowLocked(run[r].job)
        BY <1>8 DEF FailWrite
    <2> QED BY <1>1, <1>2, <2>1, <2>2 DEF TypeOK, RowLocked, Idle
<1> QED BY <1>3, <1>4, <1>5, <1>6, <1>7, <1>8 DEF RunStep

LEMMA InvStep == IInv /\ [Next]_vars => IInv'
<1> SUFFICES ASSUME IInv, [Next]_vars PROVE ClaimsUnique' /\ TerminalizerHoldsRow' /\ ReadsBehind'
    BY TypeStep DEF IInv
<1>0. TypeOK /\ TypeOK'
    BY TypeStep DEF IInv
<1>1. ASSUME NEW j \in Job, Outside(j) PROVE ClaimsKept /\ LocksKept
    <2>1. run' = run /\ attempts' = attempts
        BY <1>1 DEF Outside, Enqueue, BecomeVisible, LeaseExpires, Cancel, Purge
    <2>2. \A k \in Job : RowLocked(k) => status'[k] = status[k] /\ lockedBy'[k] = lockedBy[k]
        <3>1. \A k \in Job : RowLocked(k) => status[k] = "running"
            BY DEF IInv, RowLocked, TerminalizerHoldsRow, Fenced
        <3> QED BY <1>0, <1>1, <3>1 DEF TypeOK, Outside, Enqueue, BecomeVisible, LeaseExpires, Cancel, Purge
    <2>3. \A r \in Run : run[r].pc = "terminalizing" => run[r].job \in Job /\ RowLocked(run[r].job)
        BY <1>0, BusyRun DEF RowLocked
    <2> QED BY <2>1, <2>2, <2>3 DEF ClaimsKept, LocksKept
<1>2. ASSUME NEW w \in Worker, NEW s \in Slot, NEW j \in Job, Claim(w, s, j)
      PROVE  ClaimsUnique' /\ TerminalizerHoldsRow' /\ ReadsBehind'
    <2> DEFINE me == <<w, s>>
    <2>1. /\ me \in Run /\ run[me].pc = "idle"
          /\ run'[me].pc = "handling" /\ run'[me].job = j /\ run'[me].attempt = attempts[j] + 1
          /\ run'[me].seen = 0
          /\ \A q \in Run \ {me} : run'[q] = run[q]
          /\ attempts'[j] = attempts[j] + 1 /\ attempts[j] \in Nat
          /\ \A k \in Job \ {j} : /\ attempts'[k] = attempts[k] /\ status'[k] = status[k]
                                  /\ lockedBy'[k] = lockedBy[k]
        BY <1>0, <1>2 DEF TypeOK, Claim, CountClaim, Run
    <2>2. \A q \in Run : run[q].pc # "idle" => run[q].job \in Job /\ run[q].attempt \in 1 .. attempts[run[q].job]
        BY <1>0, BusyRun DEF IInv, ClaimsUnique
    <2>3. \A k \in Job : attempts[k] \in Nat
        BY <1>0 DEF TypeOK
    <2>4. ClaimsUnique'
        <3>1. \A q \in Run : run'[q].pc # "idle" => run'[q].attempt \in 1 .. attempts'[run'[q].job]
            BY <2>1, <2>2, <2>3
        <3>2. ASSUME NEW q \in Run, NEW p \in Run, q # p, run'[q].pc # "idle", run'[p].pc # "idle",
                     run'[q].job = run'[p].job
              PROVE  run'[q].attempt # run'[p].attempt
            <4>1. CASE q # me /\ p # me
                BY <4>1, <3>2, <2>1 DEF IInv, ClaimsUnique
            <4>2. CASE p = me
                BY <4>2, <3>2, <2>1, <2>2, <2>3
            <4>3. CASE q = me
                BY <4>3, <3>2, <2>1, <2>2, <2>3
            <4> QED BY <4>1, <4>2, <4>3
        <3> QED BY <3>1, <3>2 DEF ClaimsUnique
    <2>5. LocksKept
        <3>1. \A r \in Run : run[r].pc = "terminalizing" => run[r].job # j
            BY <1>2 DEF Claim, Offered, RowLocked
        <3> QED BY <3>1, <2>1, <2>2 DEF LocksKept
    <2>6. ReadsBehind'
        <3>1. \A q \in Run : run[q].pc # "idle" => run[q].seen \in Nat
            BY <1>0, BusyRun
        <3>2. \A k \in Job : attempts[k] \in Nat /\ attempts'[k] \in Nat /\ attempts[k] <= attempts'[k]
            BY <2>1, <2>3
        <3> QED BY <2>1, <2>2, <3>1, <3>2 DEF IInv, ReadsBehind
    <2> QED BY <2>4, <2>5, <2>6, KeptLocks
<1>3. ASSUME NEW w \in Worker, Boot(w) \/ Wait(w) \/ PollAgain(w) \/ Drained(w) \/ Stop(w) \/ Crash(w)
      PROVE  ClaimsKept /\ LocksKept
    BY <1>0, <1>3 DEF TypeOK, Boot, Wait, PollAgain, Drained, Stop, Crash, row, ClaimsKept, LocksKept, Idle
<1>4. ASSUME NEW r \in Run, RunStep(r) PROVE ClaimsKept
    BY <1>4, RunStepLocal DEF ClaimsKept
<1>5. ASSUME NEW r \in Run, RunStep(r) PROVE TerminalizerHoldsRow'
    <2>1. CASE run'[r].pc # "terminalizing"
        <3>1. \A q \in Run : run[q].pc = "terminalizing" => run[q].job \in Job
            BY <1>0, BusyRun
        <3>2. LocksKept
            BY <1>5, <2>1, <3>1, RunStepLocal DEF LocksKept
        <3> QED BY <3>2, KeptLocks
    <2>2. CASE run'[r].pc = "terminalizing"
        <3>1. /\ Fenced(r) /\ ~RowLocked(run[r].job)
              /\ run'[r].job = run[r].job /\ status' = status /\ lockedBy' = lockedBy
              /\ \A q \in Run \ {r} : run'[q] = run[q]
            BY <1>5, <2>2, RunStepLocal DEF Terminalize
        <3> QED BY <3>1 DEF IInv, TerminalizerHoldsRow, RowLocked, Fenced
    <2> QED BY <2>1, <2>2
<1>6. CASE UNCHANGED vars
    BY <1>6 DEF IInv, ClaimsUnique, TerminalizerHoldsRow, ReadsBehind, Fenced, vars, row
<1> QED BY <1>1, <1>2, <1>3, <1>4, <1>5, <1>6, KeptClaims, KeptLocks DEF Next, Loop

LEMMA InitInv == Init => IInv
BY InitType DEF Init, IInv, ClaimsUnique, TerminalizerHoldsRow, ReadsBehind, Idle

\* The inductive invariant holds of the queue with any number of slots per process.
LEMMA Inductive == Spec => []IInv
BY InitInv, InvStep, PTL DEF Spec

\* No two live handlers of a job share an attempt number (claimNext counts every claim).
THEOREM ClaimsAreTokens == Spec => []ClaimsUnique
BY Inductive, PTL DEF IInv

\* A terminalizing handler transaction keeps its row to itself until it commits.
THEOREM TerminalizerExclusive == Spec => []TerminalizerHoldsRow
BY Inductive, PTL DEF IInv
-----------------------------------------------------------------------------
(* Who settles a job.                                                      *)

\* A process that is gone has left nothing at work.
RunsAlive == \A r \in Run : run[r].pc # "idle" => proc[r[1]] # "gone"

\* The handler of the latest claim is at work as long as its process lives and the job runs.
LatestLives == \A j \in Job : status[j] = "running" =>
                  /\ lockedBy[j] \in Worker
                  /\ \/ proc[lockedBy[j]] = "gone"
                     \/ \E q \in Run : LatestIn(q, lockedBy[j], j)

\* A failing run has read at least the attempt it is itself.
SeenOwn == \A r \in Run : run[r].pc = "failWrite" => run[r].attempt <= run[r].seen

SettleInv == IInv /\ RunsAlive /\ LatestLives /\ SeenOwn

\* A run keeps its job while the row is still its claim, and a row only stops running by it.
LEMMA RunStepFence ==
    ASSUME IInv, NEW r \in Run, RunStep(r)
    PROVE  /\ \A j \in Job : status'[j] = "running" => status[j] = "running" /\ lockedBy'[j] = lockedBy[j]
           /\ run'[r].pc = "failWrite" /\ run[r].pc # "failWrite" => run'[r].seen = attempts[run[r].job]
           /\ run'[r].pc = "failWrite" /\ run[r].pc = "failWrite" => run'[r].seen = run[r].seen
           /\ Fenced(r) /\ run'[r].pc = "idle" => status'[run[r].job] # "running"
           /\ \A w \in Worker : proc'[w] = "gone" <=> proc[w] = "gone"
<1>1. /\ run[r].pc # "idle" /\ run[r].job \in Job /\ TypeOK
      /\ run[r] \in RunRecord /\ r[1] \in Worker
    BY RunStepLocal, BusyRun DEF IInv, TypeOK
<1>a. ASSUME Finish(r) PROVE \A w \in Worker : proc'[w] = "gone" <=> proc[w] = "gone"
    BY <1>1, <1>a DEF Finish, TypeOK
<1>2. CASE HandlerReturns(r) \/ HandlerThrows(r) \/ Terminalize(r) \/ AbortTerminal(r)
    <2>1. PICK pc \in RunState \ {"failWrite", "idle"} : Goto(r, pc)
        BY <1>2 DEF HandlerReturns, HandlerThrows, Terminalize, AbortTerminal, RunState
    <2>2. run'[r].pc = pc
        BY <1>1, <2>1 DEF TypeOK, Goto, RunRecord
    <2> QED BY <1>2, <2>1, <2>2 DEF HandlerReturns, HandlerThrows, Terminalize, AbortTerminal, row
<1>3. CASE CommitTerminal(r) \/ Complete(r)
    <2>1. /\ \A j \in Job : status'[j] = "running" => status[j] = "running" /\ lockedBy'[j] = lockedBy[j]
          /\ run'[r].pc = "idle"
          /\ Fenced(r) => status'[run[r].job] # "running"
        BY <1>1, <1>3 DEF TypeOK, CommitTerminal, Complete, CompleteRow, MarkCompleted, Finish, Idle, row
    <2> QED BY <2>1, <1>a, <1>3 DEF CommitTerminal, Complete
<1>4. CASE CompleteThrows(r)
    BY <1>1, <1>4 DEF TypeOK, CompleteThrows, CompleteRow, MarkCompleted, Goto, RunRecord, row
<1>5. CASE FailRead(r)
    <2>1. CASE ~Fenced(r) /\ Finish(r)
        BY <1>1, <1>5, <2>1, <1>a DEF TypeOK, FailRead, Finish, Idle, row
    <2>2. CASE Fenced(r) /\ run' = [run EXCEPT ![r].pc = "failWrite", ![r].seen = attempts[run[r].job]]
                         /\ proc' = proc
        <3>1. run'[r].pc = "failWrite" /\ run'[r].seen = attempts[run[r].job]
            BY <1>1, <2>2 DEF TypeOK, RunRecord
        <3> QED BY <1>5, <2>2, <3>1 DEF FailRead, row
    <2> QED BY <1>5, <2>1, <2>2 DEF FailRead
<1>6. CASE FailWrite(r)
    <2>1. run'[r].pc = "idle" /\ Finish(r)
        BY <1>1, <1>6 DEF TypeOK, FailWrite, Finish, Idle
    <2>2. /\ \A j \in Job : status'[j] = "running" => status[j] = "running" /\ lockedBy'[j] = lockedBy[j]
          /\ Fenced(r) => status'[run[r].job] # "running"
        BY <1>1, <1>6 DEF TypeOK, FailWrite, row
    <2> QED BY <2>1, <2>2, <1>a
<1> QED BY <1>2, <1>3, <1>4, <1>5, <1>6 DEF RunStep

LEMMA SettleStep0 ==
    ASSUME SettleInv, [Next]_vars
    PROVE  RunsAlive' /\ LatestLives' /\ SeenOwn'
<1>0. TypeOK /\ IInv
    BY DEF SettleInv, IInv
<1>a. \A r \in Run : run[r].pc # "idle" => run[r].job \in Job /\ r[1] \in Worker
    BY <1>0, BusyRun
<1>b. \A r \in Run : r[1] \in Worker
    BY DEF Run
<1>c. \A r \in Run : run[r].pc = "idle" <=> run[r].job = None
    BY <1>0 DEF TypeOK
<1>d. None \notin Job
    BY QueueAssumption DEF QueueAssumption
<1>1. ASSUME NEW j \in Job, Outside(j) PROVE RunsAlive' /\ LatestLives' /\ SeenOwn'
    <2>1. run' = run /\ attempts' = attempts /\ proc' = proc
        BY <1>1 DEF Outside, Enqueue, BecomeVisible, LeaseExpires, Cancel, Purge
    <2>2. \A k \in Job : status'[k] = "running" => status[k] = "running" /\ lockedBy'[k] = lockedBy[k]
        BY <1>0, <1>1 DEF TypeOK, Outside, Enqueue, BecomeVisible, LeaseExpires, Cancel, Purge
    <2> QED BY <2>1, <2>2 DEF SettleInv, RunsAlive, LatestLives, LatestIn, SeenOwn
<1>2. ASSUME NEW w \in Worker, NEW s \in Slot, NEW j \in Job, Claim(w, s, j)
      PROVE  RunsAlive' /\ LatestLives' /\ SeenOwn'
    <2> DEFINE me == <<w, s>>
    <2>1. /\ me \in Run /\ me[1] = w /\ run[me].pc = "idle"
          /\ run'[me].pc = "handling" /\ run'[me].job = j /\ run'[me].attempt = attempts'[j]
          /\ \A q \in Run \ {me} : run'[q] = run[q]
          /\ lockedBy'[j] = w /\ proc' = proc /\ proc[w] # "gone"
          /\ \A k \in Job \ {j} : /\ attempts'[k] = attempts[k] /\ status'[k] = status[k]
                                  /\ lockedBy'[k] = lockedBy[k]
        BY <1>0, <1>2 DEF TypeOK, Claim, CountClaim, Run
    <2>2. RunsAlive' /\ SeenOwn'
        BY <2>1 DEF SettleInv, RunsAlive, SeenOwn
    <2>3. LatestIn(me, lockedBy[j], j)'
        BY <2>1 DEF LatestIn
    <2>4. ASSUME NEW k \in Job \ {j}, status'[k] = "running"
          PROVE  /\ lockedBy'[k] \in Worker
                 /\ \/ proc'[lockedBy'[k]] = "gone"
                    \/ \E q \in Run : LatestIn(q, lockedBy[k], k)'
        <3>1. ASSUME NEW q \in Run, LatestIn(q, lockedBy[k], k) PROVE LatestIn(q, lockedBy[k], k)'
            BY <1>c, <1>d, <2>1, <2>4, <3>1 DEF LatestIn
        <3> QED BY <2>1, <2>4, <3>1 DEF SettleInv, LatestLives
    <2> QED BY <2>1, <2>2, <2>3, <2>4 DEF LatestLives
<1>3. ASSUME NEW w \in Worker, Boot(w) \/ Wait(w) \/ PollAgain(w) \/ Stop(w)
      PROVE  RunsAlive' /\ LatestLives' /\ SeenOwn'
    <2>1. /\ UNCHANGED row /\ run' = run
          /\ \A v \in Worker : proc'[v] = "gone" <=> proc[v] = "gone"
        BY <1>0, <1>3 DEF TypeOK, Boot, Wait, PollAgain, Stop
    <2> QED BY <1>b, <2>1 DEF SettleInv, RunsAlive, LatestLives, LatestIn, SeenOwn, row
<1>4. ASSUME NEW w \in Worker, Drained(w) \/ Crash(w)
      PROVE  RunsAlive' /\ LatestLives' /\ SeenOwn'
    <2>1. /\ UNCHANGED row
          /\ proc' = [proc EXCEPT ![w] = "gone"]
          /\ \A r \in Run : r[1] # w => run'[r] = run[r]
          /\ \A r \in Run : r[1] = w => run'[r].pc = "idle"
        <3>1. CASE Drained(w)
            <4>1. \A r \in Run : r[1] = w => run[r].pc = "idle"
                BY <3>1 DEF Drained, Active, Run
            <4> QED BY <1>0, <3>1, <4>1 DEF TypeOK, Drained, row
        <3>2. CASE Crash(w)
            BY <1>0, <3>2 DEF TypeOK, Crash, Idle, row
        <3> QED BY <1>4, <3>1, <3>2
    <2>2. /\ proc'[w] = "gone"
          /\ \A v \in Worker : v # w => proc'[v] = proc[v]
          /\ \A v \in Worker : proc[v] = "gone" => proc'[v] = "gone"
        BY <1>0, <2>1 DEF TypeOK
    <2>3. RunsAlive' /\ SeenOwn'
        BY <1>b, <2>1, <2>2 DEF SettleInv, RunsAlive, SeenOwn
    <2>4. ASSUME NEW j \in Job, status'[j] = "running"
          PROVE  /\ lockedBy'[j] \in Worker
                 /\ \/ proc'[lockedBy'[j]] = "gone"
                    \/ \E q \in Run : LatestIn(q, lockedBy[j], j)'
        <3>1. lockedBy'[j] = lockedBy[j] /\ attempts'[j] = attempts[j] /\ status[j] = "running"
            BY <2>1, <2>4 DEF row
        <3>2. ASSUME NEW q \in Run, LatestIn(q, lockedBy[j], j), lockedBy[j] # w
              PROVE  LatestIn(q, lockedBy[j], j)'
            BY <2>1, <3>1, <3>2 DEF LatestIn
        <3> QED BY <2>2, <3>1, <3>2 DEF SettleInv, LatestLives
    <2> QED BY <2>3, <2>4 DEF LatestLives
<1>5. ASSUME NEW r \in Run, RunStep(r) PROVE RunsAlive' /\ LatestLives' /\ SeenOwn'
    <2>1. /\ run[r].pc # "idle" /\ run[r].job \in Job
          /\ \A q \in Run \ {r} : run'[q] = run[q]
          /\ \/ run'[r].pc = "idle"
             \/ run'[r].job = run[r].job /\ run'[r].attempt = run[r].attempt
          /\ attempts' = attempts
        BY <1>0, <1>5, RunStepLocal
    <2>2. /\ \A j \in Job : status'[j] = "running" => status[j] = "running" /\ lockedBy'[j] = lockedBy[j]
          /\ run'[r].pc = "failWrite" /\ run[r].pc # "failWrite" => run'[r].seen = attempts[run[r].job]
          /\ run'[r].pc = "failWrite" /\ run[r].pc = "failWrite" => run'[r].seen = run[r].seen
          /\ Fenced(r) /\ run'[r].pc = "idle" => status'[run[r].job] # "running"
          /\ \A w \in Worker : proc'[w] = "gone" <=> proc[w] = "gone"
        BY <1>0, <1>5, RunStepFence
    <2>3. run[r].attempt <= attempts[run[r].job]
        BY <1>0, <2>1, BusyRun DEF IInv, ClaimsUnique, TypeOK
    <2>4. RunsAlive'
        BY <1>b, <2>1, <2>2 DEF SettleInv, RunsAlive
    <2>5. SeenOwn'
        BY <2>1, <2>2, <2>3 DEF SettleInv, SeenOwn
    <2>6. ASSUME NEW j \in Job, status'[j] = "running"
          PROVE  /\ lockedBy'[j] \in Worker
                 /\ \/ proc'[lockedBy'[j]] = "gone"
                    \/ \E q \in Run : LatestIn(q, lockedBy[j], j)'
        <3>1. lockedBy'[j] = lockedBy[j] /\ attempts'[j] = attempts[j] /\ status[j] = "running"
            BY <2>1, <2>2, <2>6
        <3>2. ASSUME NEW q \in Run, LatestIn(q, lockedBy[j], j) PROVE LatestIn(q, lockedBy[j], j)'
            <4>1. CASE q # r
                BY <2>1, <3>1, <3>2, <4>1 DEF LatestIn
            <4>2. CASE q = r
                <5>1. Fenced(r) /\ run[r].job = j
                    BY <3>1, <3>2, <4>2 DEF LatestIn, Fenced
                <5>2. run'[r].pc # "idle"
                    BY <2>2, <2>6, <5>1
                <5> QED BY <2>1, <3>1, <3>2, <4>2, <5>2 DEF LatestIn
            <4> QED BY <4>1, <4>2
        <3> QED BY <2>2, <3>1, <3>2 DEF SettleInv, LatestLives
    <2> QED BY <2>4, <2>5, <2>6 DEF LatestLives
<1>6. CASE UNCHANGED vars
    BY <1>6 DEF SettleInv, RunsAlive, LatestLives, LatestIn, SeenOwn, vars, row
<1> QED BY <1>1, <1>2, <1>3, <1>4, <1>5, <1>6 DEF Next, Loop

LEMMA SettlesInductive == Spec => []SettleInv
<1>1. Init => SettleInv
    BY InitInv DEF Init, SettleInv, RunsAlive, LatestLives, SeenOwn, Idle
<1>2. SettleInv /\ [Next]_vars => SettleInv'
    BY SettleStep0, InvStep DEF SettleInv
<1> QED BY <1>1, <1>2, PTL DEF Spec

\* A run that passes the fence works beside the handler of the latest claim of its job, or is it.
LEMMA FencedBesideLatest ==
    ASSUME SettleInv, NEW r \in Run, run[r].pc # "idle", Fenced(r)
    PROVE  \E q \in Run : /\ LatestIn(q, lockedBy[run[r].job], run[r].job)
                          /\ run[q].pc # "idle"
                          /\ q = r \/ run[r].attempt < run[q].attempt
                          /\ run[r].attempt = attempts[run[r].job] => q = r
<1> DEFINE j == run[r].job
<1>1. j \in Job /\ r[1] \in Worker /\ status[j] = "running" /\ lockedBy[j] = r[1] /\ TypeOK
    BY BusyRun DEF SettleInv, IInv, Fenced
<1>2. PICK q \in Run : LatestIn(q, lockedBy[j], j)
    BY <1>1 DEF SettleInv, LatestLives, RunsAlive
<1>3. run[q].job = j /\ run[q].pc # "idle" /\ run[q].attempt = attempts[j]
    BY <1>1, <1>2, QueueAssumption DEF LatestIn, TypeOK, QueueAssumption
<1>4. run[r].attempt \in 1 .. attempts[j] /\ attempts[j] \in Nat
    BY <1>1 DEF SettleInv, IInv, ClaimsUnique, TypeOK
<1>5. q # r => run[r].attempt # run[q].attempt
    BY <1>3 DEF SettleInv, IInv, ClaimsUnique
<1> QED BY <1>2, <1>3, <1>4, <1>5

-----------------------------------------------------------------------------
(* The queue implements JobLifecycle.                                      *)

Claimed(r) == <<r[1], run[r].attempt>>

\* A handler that ends takes its own claim out of the work, and no other.
LEMMA EndTakesOne ==
    ASSUME IInv, NEW r \in Run, run[r].pc # "idle", run' = [run EXCEPT ![r] = Idle]
    PROVE  /\ Claimed(r) \in Working[run[r].job]
           /\ Lifecycle!Ends(run[r].job, Claimed(r))
<1> DEFINE j == run[r].job
           c == Claimed(r)
<1>1. TypeOK /\ j \in Job /\ None \notin Job
    BY BusyRun, QueueAssumption DEF IInv, QueueAssumption
<1>2. /\ \A q \in Run \ {r} : run'[q] = run[q]
      /\ run'[r].job = None
    BY <1>1 DEF TypeOK, Idle
<1>3. c \in Working[j]
    BY <1>1 DEF Working, Claimed
<1>4. ASSUME NEW k \in Job, k # j PROVE Working'[k] = Working[k]
    BY <1>1, <1>2, <1>4 DEF Working
<1>5. Working'[j] = Working[j] \ {c}
    <2>1. ASSUME NEW q \in Run \ {r}, run[q].job = j PROVE <<q[1], run[q].attempt>> # c
        <3>1. run[q].pc # "idle"
            BY <1>1, <2>1 DEF TypeOK
        <3>2. run[q].attempt # run[r].attempt
            BY <2>1, <3>1 DEF IInv, ClaimsUnique
        <3> QED BY <3>2 DEF Claimed
    <2>2. \A x : x \in Working[j] <=> \E q \in Run : run[q].job = j /\ x = <<q[1], run[q].attempt>>
        BY <1>1 DEF Working
    <2>3. \A x : x \in Working'[j] <=> \E q \in Run : run'[q].job = j /\ x = <<q[1], run'[q].attempt>>
        BY <1>1 DEF Working
    <2>4. \A x : x \in Working'[j] => x \in Working[j] /\ x # c
        BY <1>1, <1>2, <2>1, <2>2, <2>3
    <2>5. \A x : x \in Working[j] /\ x # c => x \in Working'[j]
        BY <1>1, <1>2, <2>2, <2>3 DEF Claimed
    <2> QED BY <2>4, <2>5
<1>6. Working' = [k \in Job |-> Working'[k]] /\ Working = [k \in Job |-> Working[k]]
    BY DEF Working
<1>7. Working' = [Working EXCEPT ![j] = @ \ {c}]
    BY <1>1, <1>4, <1>5, <1>6
<1> QED BY <1>3, <1>7 DEF Lifecycle!Ends

LEMMA SameClaims ==
    ASSUME \A r \in Run : run'[r].job = run[r].job /\ run'[r].attempt = run[r].attempt
    PROVE  Working' = Working
BY DEF Working

LEMMA FenceMaySettle ==
    ASSUME SettleInv, NEW r \in Run, run[r].pc # "idle", Fenced(r)
    PROVE  /\ Lifecycle!MaySettle(run[r].job, Claimed(r))
           /\ Claimed(r) = Lifecycle!Latest(run[r].job) => run[r].attempt = attempts[run[r].job]
<1> DEFINE j == run[r].job
<1>1. j \in Job /\ status[j] = "running" /\ lockedBy[j] = r[1]
    BY BusyRun DEF SettleInv, IInv, Fenced
<1>2. PICK q \in Run : LatestIn(q, lockedBy[j], j)
    BY FencedBesideLatest
<1>3. Lifecycle!Latest(j) = <<q[1], run[q].attempt>> /\ run[q].job = j
    BY <1>2 DEF Lifecycle!Latest, LatestIn
<1>4. Lifecycle!Latest(j) \in Working[j] /\ Claimed(r) \in Working[j]
    BY <1>1, <1>3 DEF Working, Claimed
<1> QED BY <1>1, <1>4 DEF Lifecycle!MaySettle, Claimed, Lifecycle!Latest

LEMMA StepMaps ==
    ASSUME SettleInv, [Next]_vars
    PROVE  [Lifecycle!Next]_(Lifecycle!vars)
<1> USE DEF Lifecycle!vars
<1>0. TypeOK /\ IInv
    BY DEF SettleInv, IInv
<1>1. ASSUME NEW j \in Job, Outside(j) PROVE Lifecycle!Next \/ UNCHANGED Lifecycle!vars
    <2>1. Working' = Working
        BY <1>1 DEF Outside, Enqueue, BecomeVisible, LeaseExpires, Cancel, Purge, Working
    <2> QED BY <1>1, <2>1 DEF Outside, Enqueue, BecomeVisible, LeaseExpires, Cancel, Purge, Lifecycle!Next,
                Lifecycle!Step, Lifecycle!Submit, Lifecycle!Cancel, Lifecycle!Remove
<1>2. ASSUME NEW w \in Worker, NEW s \in Slot, NEW j \in Job, Claim(w, s, j)
      PROVE  Lifecycle!Next
    <2> DEFINE me == <<w, s>>
    <2>1. /\ me \in Run /\ me[1] = w /\ run[me].job = None
          /\ run'[me].job = j /\ run'[me].attempt = attempts[j] + 1
          /\ \A q \in Run \ {me} : run'[q] = run[q]
        BY <1>0, <1>2 DEF TypeOK, Claim, CountClaim, Run
    <2>2. None \notin Job
        BY QueueAssumption DEF QueueAssumption
    <2>3. \A k \in Job : k # j => Working'[k] = Working[k]
        BY <2>1, <2>2 DEF Working
    <2>4. Working'[j] = Working[j] \cup {<<w, attempts[j] + 1>>}
        <3>1. \A x : x \in Working[j] <=> \E q \in Run : run[q].job = j /\ x = <<q[1], run[q].attempt>>
            BY DEF Working
        <3>2. \A x : x \in Working'[j] <=> \E q \in Run : run'[q].job = j /\ x = <<q[1], run'[q].attempt>>
            BY DEF Working
        <3>3. \A x : x \in Working'[j] => x \in Working[j] \/ x = <<w, attempts[j] + 1>>
            BY <2>1, <3>1, <3>2
        <3>4. \A x : x \in Working[j] \/ x = <<w, attempts[j] + 1>> => x \in Working'[j]
            BY <2>1, <2>2, <3>1, <3>2
        <3> QED BY <3>3, <3>4
    <2>5. Working' = [k \in Job |-> Working'[k]] /\ Working = [k \in Job |-> Working[k]]
        BY DEF Working
    <2>6. Working' = [Working EXCEPT ![j] = @ \cup {<<w, attempts[j] + 1>>}]
        BY <2>3, <2>4, <2>5
    <2>7. Lifecycle!Take(j, w)
        BY <1>2, <2>6 DEF Claim, CountClaim, Offered, Claimable, Lifecycle!Take
    <2> QED BY <2>7 DEF Lifecycle!Next, Lifecycle!Step
<1>3. ASSUME NEW w \in Worker, Boot(w) \/ Wait(w) \/ PollAgain(w) \/ Drained(w) \/ Stop(w)
      PROVE  UNCHANGED Lifecycle!vars
    BY <1>3 DEF Boot, Wait, PollAgain, Drained, Stop, row, Working
<1>4. ASSUME NEW w \in Worker, Crash(w) PROVE Lifecycle!Next
    <2>1. /\ UNCHANGED <<status, attempts, lockedBy>>
          /\ \A r \in Run : run'[r] = IF r[1] = w THEN Idle ELSE run[r]
        BY <1>4 DEF Crash, row
    <2>2. \A r \in Run : run'[r].job \in Job => r[1] # w /\ run'[r] = run[r]
        BY <2>1, QueueAssumption DEF Idle, QueueAssumption
    <2>3. ASSUME NEW j \in Job PROVE Working'[j] = {c \in Working[j] : c[1] # w}
        <3>1. \A x : x \in Working[j] <=> \E q \in Run : run[q].job = j /\ x = <<q[1], run[q].attempt>>
            BY DEF Working
        <3>2. \A x : x \in Working'[j] <=> \E q \in Run : run'[q].job = j /\ x = <<q[1], run'[q].attempt>>
            BY DEF Working
        <3>3. \A x : x \in Working'[j] => x \in Working[j] /\ x[1] # w
            BY <2>2, <3>1, <3>2
        <3>4. \A x : x \in Working[j] /\ x[1] # w => x \in Working'[j]
            BY <2>1, <3>1, <3>2
        <3> QED BY <3>3, <3>4
    <2>4. Working' = [k \in Job |-> Working'[k]]
        BY DEF Working
    <2>5. Working' = [j \in Job |-> {c \in Working[j] : c[1] # w}]
        BY <2>3, <2>4
    <2>6. Lifecycle!Die(w)
        BY <2>1, <2>5 DEF Lifecycle!Die
    <2> QED BY <2>6 DEF Lifecycle!Next
<1>5. ASSUME NEW r \in Run, RunStep(r) PROVE Lifecycle!Next \/ UNCHANGED Lifecycle!vars
    <2> DEFINE j == run[r].job
               c == Claimed(r)
    <2>1. j \in Job /\ r[1] \in Worker /\ run[r].pc # "idle" /\ c \in Working[j]
        <3>1. j \in Job /\ r[1] \in Worker /\ run[r].pc # "idle"
            BY <1>0, <1>5, RunStepLocal, BusyRun
        <3> QED BY <3>1 DEF Working, Claimed
    <2>2. ASSUME Lifecycle!Settle(j, c) PROVE Lifecycle!Next
        BY <2>1, <2>2 DEF Lifecycle!Next, Lifecycle!Step
    <2>3. ASSUME Finish(r) PROVE Lifecycle!Ends(j, c)
        BY <1>0, <2>1, <2>3, EndTakesOne DEF Finish
    <2>4. ASSUME Finish(r), UNCHANGED <<status, attempts, lockedBy>> PROVE Lifecycle!Next
        <3>1. Lifecycle!Leave(j, c)
            BY <2>1, <2>3, <2>4 DEF Lifecycle!Leave
        <3> QED BY <2>2, <3>1 DEF Lifecycle!Settle
    <2>5. ASSUME MarkCompleted(j), Fenced(r), Finish(r) \/ Working' = Working PROVE Lifecycle!Next
        <3>1. Lifecycle!Complete(j, c)
            BY <2>1, <2>3, <2>5, FenceMaySettle DEF MarkCompleted, Lifecycle!Complete
        <3> QED BY <2>2, <3>1 DEF Lifecycle!Settle
    <2>6. ASSUME NEW pc \in RunState, Goto(r, pc) PROVE Working' = Working
        <3>1. \A q \in Run : run'[q].job = run[q].job /\ run'[q].attempt = run[q].attempt
            BY <1>0, <2>6 DEF TypeOK, Goto, RunRecord
        <3> QED BY <3>1, SameClaims
    <2>7. CASE HandlerReturns(r) \/ HandlerThrows(r) \/ Terminalize(r) \/ AbortTerminal(r)
        <3>1. Working' = Working
            BY <2>6, <2>7 DEF HandlerReturns, HandlerThrows, Terminalize, AbortTerminal, RunState
        <3> QED BY <2>7, <3>1 DEF HandlerReturns, HandlerThrows, Terminalize, AbortTerminal, row
    <2>8. CASE FailRead(r)
        <3>1. CASE Finish(r)
            BY <2>4, <2>8, <3>1 DEF FailRead, row
        <3>2. CASE run' = [run EXCEPT ![r].pc = "failWrite", ![r].seen = attempts[run[r].job]]
            <4>1. \A q \in Run : run'[q].job = run[q].job /\ run'[q].attempt = run[q].attempt
                BY <1>0, <3>2 DEF TypeOK, RunRecord
            <4> QED BY <2>8, <4>1, SameClaims DEF FailRead, row
        <3> QED BY <2>8, <3>1, <3>2 DEF FailRead
    <2>9. CASE CommitTerminal(r)
        BY <1>0, <2>5, <2>9 DEF CommitTerminal, IInv, TerminalizerHoldsRow
    <2>10. CASE Complete(r)
        BY <2>4, <2>5, <2>10 DEF Complete, CompleteRow, row
    <2>11. CASE CompleteThrows(r)
        <3>1. Working' = Working
            BY <2>6, <2>11 DEF CompleteThrows, RunState
        <3> QED BY <2>5, <2>11, <3>1 DEF CompleteThrows, CompleteRow, row
    <2>12. CASE FailWrite(r)
        <3>0. Finish(r) /\ run[r].pc = "failWrite"
            BY <2>12 DEF FailWrite
        <3>1. CASE Fenced(r) /\ Exhausted(run[r].seen)
            <4>1. attempts[j] >= MaxAttempts
                BY <1>0, <2>1, <3>1, BusyRun, QueueAssumption DEF IInv, TypeOK, ReadsBehind, Exhausted,
                   QueueAssumption
            <4>2. Lifecycle!Exhaust(j, c)
                BY <2>1, <2>3, <2>12, <3>0, <3>1, <4>1, FenceMaySettle DEF FailWrite, Lifecycle!Exhaust
            <4> QED BY <2>2, <4>2 DEF Lifecycle!Settle
        <3>2. CASE Fenced(r) /\ ~Exhausted(run[r].seen)
            <4>1. attempts[j] < MaxAttempts \/ run[r].attempt # attempts[j]
                <5>1. run[r].attempt <= run[r].seen /\ run[r].attempt \in Nat /\ run[r].seen \in Nat
                    BY <1>0, <2>1, <3>0, BusyRun DEF SettleInv, SeenOwn
                <5>2. MaxAttempts \in Nat /\ attempts[j] \in Nat
                    BY <1>0, <2>1, QueueAssumption DEF TypeOK, QueueAssumption
                <5> QED BY <3>2, <5>1, <5>2 DEF Exhausted
            <4>2. Lifecycle!Retry(j, c)
                BY <2>1, <2>3, <2>12, <3>0, <3>2, <4>1, FenceMaySettle DEF FailWrite, Lifecycle!Retry
            <4> QED BY <2>2, <4>2 DEF Lifecycle!Settle
        <3>3. CASE ~Fenced(r)
            BY <2>4, <2>12, <3>0, <3>3 DEF FailWrite, row
        <3> QED BY <3>1, <3>2, <3>3
    <2> QED BY <1>5, <2>7, <2>8, <2>9, <2>10, <2>11, <2>12 DEF RunStep
<1>6. CASE UNCHANGED vars
    BY <1>6 DEF vars, row, Working
<1> QED BY <1>1, <1>2, <1>3, <1>4, <1>5, <1>6 DEF Next, Loop

\* Every behaviour of the queue, with any number of slots and with handlers that outlive their
\* leases, is one JobLifecycle allows.
THEOREM LifecycleImplemented == Spec => ImplementsLifecycle
<1>1. Init => Lifecycle!Init
    <2>1. ASSUME Init PROVE Working = [j \in Job |-> {}]
        <3>1. \A r \in Run : run[r].job \notin Job
            BY <2>1, QueueAssumption DEF Init, Idle, QueueAssumption
        <3> QED BY <3>1 DEF Working
    <2> QED BY <2>1 DEF Init, Lifecycle!Init
<1> QED BY <1>1, SettlesInductive, StepMaps, PTL DEF Spec, ImplementsLifecycle, Lifecycle!Spec

\* Late handlers, failed completions and expired leases never revive a settled job.
THEOREM SettledForGood == Spec => TerminalIsFinal
<1>1. ASSUME SettleInv, [Next]_vars
      PROVE  [\A j \in Job :
                 /\ status[j] \in {"failed", "cancelled", "purged"} => status'[j] = status[j]
                 /\ status[j] = "completed" => status'[j] \in {"completed", "purged"}]_status
    <2>1. [Lifecycle!Next]_(Lifecycle!vars) /\ TypeOK
        BY <1>1, StepMaps DEF SettleInv, IInv
    <2>2. ASSUME Lifecycle!Next, NEW j \in Job
          PROVE  /\ status[j] \in {"failed", "cancelled", "purged"} => status'[j] = status[j]
                 /\ status[j] = "completed" => status'[j] \in {"completed", "purged"}
        BY <2>1, <2>2 DEF TypeOK, Lifecycle!Next, Lifecycle!Step, Lifecycle!Submit, Lifecycle!Take,
            Lifecycle!Settle, Lifecycle!Complete, Lifecycle!Retry, Lifecycle!Exhaust, Lifecycle!Leave,
            Lifecycle!Die, Lifecycle!Cancel, Lifecycle!Remove, Lifecycle!MaySettle
    <2> QED BY <2>1, <2>2 DEF Lifecycle!vars
<1> QED BY <1>1, SettlesInductive, PTL DEF Spec, TerminalIsFinal

-----------------------------------------------------------------------------
(* Spent jobs, and the handlers that settle a job.                          *)

\* What a step that takes a job out of its running state by other means than cancellation is.
LEMMA SettlingStep ==
    ASSUME SettleInv, Next, NEW j \in Job, status[j] = "running",
           status'[j] \in {"queued", "completed", "failed"}
    PROVE  \E r \in Run : /\ RunStep(r) /\ run[r].pc # "idle" /\ run[r].job = j
                          /\ Fenced(r) /\ run'[r] # run[r]
                          /\ status'[j] = "queued" =>
                                run[r].pc = "failWrite" /\ ~Exhausted(run[r].seen)
<1>0. TypeOK /\ IInv
    BY DEF SettleInv, IInv
<1>1. ASSUME NEW k \in Job, Outside(k) PROVE FALSE
    BY <1>0, <1>1 DEF TypeOK, Outside, Enqueue, BecomeVisible, LeaseExpires, Cancel, Purge
<1>2. ASSUME NEW w \in Worker, Boot(w) \/ Loop(w) \/ Stop(w) \/ Crash(w) PROVE FALSE
    BY <1>0, <1>2 DEF TypeOK, Boot, Loop, Claim, Wait, PollAgain, Drained, Stop, Crash, row
<1>3. PICK r \in Run : RunStep(r)
    BY <1>1, <1>2 DEF Next
<1>4. run[r].pc # "idle" /\ run[r].job = j
    BY <1>0, <1>3, RunStepLocal
<1>5. /\ Fenced(r) /\ (run'[r].pc = "idle" \/ CompleteThrows(r))
      /\ status'[j] = "queued" => run[r].pc = "failWrite" /\ ~Exhausted(run[r].seen)
    BY <1>0, <1>3, <1>4 DEF TypeOK, IInv, TerminalizerHoldsRow, RunStep, HandlerReturns, HandlerThrows,
       Terminalize, CommitTerminal, AbortTerminal, Complete, CompleteThrows, CompleteRow, MarkCompleted,
       FailRead, FailWrite, Finish, Idle, row
<1>6. ASSUME CompleteThrows(r) PROVE run'[r].pc # run[r].pc
    BY <1>0, <1>4, <1>6 DEF TypeOK, CompleteThrows, Completing, Goto, RunRecord
<1> QED BY <1>3, <1>4, <1>5, <1>6

\* A job whose attempts are spent is given back only over the head of its latest handler, by an
\* older one of the same process.
THEOREM BudgetKept == Spec => RetryBudget
<1>1. ASSUME SettleInv, [Next]_vars
      PROVE  [\A j \in Job :
                status[j] = "running" /\ status'[j] = "queued" /\ attempts[j] >= MaxAttempts
                => \E q, r \in Run : /\ LatestIn(q, lockedBy[j], j)
                                     /\ r[1] = lockedBy[j] /\ run[r].job = j
                                     /\ run[r].attempt < run[q].attempt
                                     /\ run'[r] # run[r]]_vars
    <2> SUFFICES ASSUME NEW j \in Job, status[j] = "running", Next, status'[j] = "queued",
                        attempts[j] >= MaxAttempts
                 PROVE  \E q, r \in Run : /\ LatestIn(q, lockedBy[j], j)
                                          /\ r[1] = lockedBy[j] /\ run[r].job = j
                                          /\ run[r].attempt < run[q].attempt
                                          /\ run'[r] # run[r]
        BY <1>1
    <2>1. PICK r \in Run : /\ run[r].pc = "failWrite" /\ run[r].job = j /\ Fenced(r)
                           /\ ~Exhausted(run[r].seen) /\ run'[r] # run[r]
        BY <1>1, SettlingStep
    <2>2. /\ run[r].attempt <= run[r].seen /\ run[r].attempt \in Nat /\ run[r].seen \in Nat
          /\ attempts[j] \in Nat /\ MaxAttempts \in Nat
        BY <1>1, <2>1, BusyRun, QueueAssumption DEF SettleInv, SeenOwn, IInv, TypeOK, QueueAssumption
    <2>3. PICK q \in Run : /\ LatestIn(q, lockedBy[j], j)
                           /\ q = r \/ run[r].attempt < run[q].attempt
        BY <1>1, <2>1, FencedBesideLatest
    <2>4. q # r
        BY <2>1, <2>2, <2>3 DEF LatestIn, Exhausted
    <2> QED BY <2>1, <2>3, <2>4 DEF Fenced
<1> QED BY <1>1, SettlesInductive, PTL DEF Spec, RetryBudget

\* Whoever completes, fails or gives back a running job works in the process of the latest
\* claim, beside the handler of that claim or as that handler.
THEOREM LatestSettles == Spec => LatestClaimSettles
<1>1. ASSUME SettleInv, [Next]_vars
      PROVE  [\A j \in Job :
                status[j] = "running" /\ status'[j] \in {"queued", "completed", "failed"}
                => \E q, r \in Run : /\ LatestIn(q, lockedBy[j], j)
                                     /\ r[1] = lockedBy[j] /\ run[r].job = j
                                     /\ run'[r] # run[r]]_vars
    <2> SUFFICES ASSUME NEW j \in Job, status[j] = "running", Next,
                        status'[j] \in {"queued", "completed", "failed"}
                 PROVE  \E q, r \in Run : /\ LatestIn(q, lockedBy[j], j)
                                          /\ r[1] = lockedBy[j] /\ run[r].job = j
                                          /\ run'[r] # run[r]
        BY <1>1
    <2>1. PICK r \in Run : run[r].pc # "idle" /\ run[r].job = j /\ Fenced(r) /\ run'[r] # run[r]
        BY <1>1, SettlingStep
    <2> QED BY <1>1, <2>1, FencedBesideLatest DEF Fenced
<1> QED BY <1>1, SettlesInductive, PTL DEF Spec, LatestClaimSettles

-----------------------------------------------------------------------------
(* Handlers of one job beside each other.                                  *)

\* As long as no handler of a job has outlived its lease: one handler at most is at work on it,
\* the job has left the queue while there is one, and its lease has not run out.
Timely(j) == /\ \A q, r \in Run : run[q].job = j /\ run[r].job = j => q = r
             /\ HasHandler(j) => /\ status[j] \notin {"absent", "queued"}
                                 /\ status[j] = "running" => ~expired[j]

AloneInv == IInv /\ \A j \in Job : ~outlived[j] => Timely(j)

\* No slot takes up job j, and the row returns to the queue or loses its lease only as its last
\* handler ends.
NotTakenUp(j) == /\ \A r \in Run : run'[r].job = j => run[r].job = j
                 /\ (\E r \in Run : run'[r].job = j) =>
                        /\ status'[j] \in {"absent", "queued"} => status[j] = status'[j]
                        /\ status'[j] = "running" => status[j] = "running"
                        /\ expired'[j] => expired[j]

LEMMA NotTakenUpTimely == ASSUME NEW j \in Job, Timely(j), NotTakenUp(j) PROVE Timely(j)'
BY DEF Timely, NotTakenUp, HasHandler

\* A step of a run leaves the lease of a job alone, or ends the run that had the job.
LEMMA RunStepLease ==
    ASSUME IInv, NEW r \in Run, RunStep(r), NEW j \in Job, Timely(j)
    PROVE  NotTakenUp(j) /\ outlived' = outlived
<1>1. /\ run[r].pc # "idle" /\ run[r].job \in Job /\ TypeOK
      /\ \A q \in Run \ {r} : run'[q] = run[q]
      /\ run'[r].pc = "idle" \/ run'[r].job = run[r].job
      /\ \A k \in Job : k # run[r].job => status'[k] = status[k]
    BY RunStepLocal DEF IInv
<1>2. expired'[j] => expired[j]
    BY <1>1 DEF TypeOK, RunStep, HandlerReturns, HandlerThrows, Terminalize, CommitTerminal, AbortTerminal,
                Complete, CompleteThrows, CompleteRow, MarkCompleted, FailRead, FailWrite, row
<1>3. run'[r].pc = "idle" \/ status'[run[r].job] \in {status[run[r].job], "completed"}
    BY <1>1 DEF TypeOK, RunStep, HandlerReturns, HandlerThrows, Terminalize, CommitTerminal, AbortTerminal,
                Complete, CompleteThrows, CompleteRow, MarkCompleted, FailRead, FailWrite, Finish, Idle, row
<1>4. outlived' = outlived
    BY DEF RunStep, HandlerReturns, HandlerThrows, Terminalize, CommitTerminal, AbortTerminal,
           Complete, CompleteThrows, CompleteRow, MarkCompleted, FailRead, FailWrite, row
<1>5. run'[r].pc = "idle" => run'[r].job = None
    BY <1>1, TypeStep DEF TypeOK, Next
<1>6. None \notin Job
    BY QueueAssumption DEF QueueAssumption
<1>7. run[r].job = j => \A q \in Run \ {r} : run[q].job # j
    BY DEF Timely
<1> QED BY <1>1, <1>2, <1>3, <1>4, <1>5, <1>6, <1>7 DEF NotTakenUp

LEMMA AloneStep == AloneInv /\ [Next]_vars => AloneInv'
<1> SUFFICES ASSUME AloneInv, [Next]_vars, NEW j \in Job, ~outlived'[j] PROVE Timely(j)'
    BY InvStep DEF AloneInv
<1>0. TypeOK /\ IInv
    BY DEF AloneInv, IInv
<1>1. ASSUME NEW k \in Job, Outside(k) PROVE Timely(j)'
    <2>1. run' = run
        BY <1>1 DEF Outside, Enqueue, BecomeVisible, LeaseExpires, Cancel, Purge
    <2>2. ~outlived[j] /\ (expired'[j] /\ ~expired[j] => ~HasHandler(j))
        BY <1>0, <1>1 DEF TypeOK, Outside, Enqueue, BecomeVisible, LeaseExpires, Cancel, Purge
    <2>3. Timely(j)
        BY <2>2 DEF AloneInv
    <2>4. /\ status'[j] \in {"absent", "queued"} => status[j] \in {"absent", "queued"}
          /\ status'[j] = "running" => status[j] = "running"
        BY <1>0, <1>1 DEF TypeOK, Outside, Enqueue, BecomeVisible, LeaseExpires, Cancel, Purge
    <2> QED BY <2>1, <2>2, <2>3, <2>4 DEF Timely, HasHandler
<1>2. ASSUME NEW w \in Worker, NEW s \in Slot, NEW k \in Job, Claim(w, s, k) PROVE Timely(j)'
    <2> DEFINE me == <<w, s>>
    <2>1. /\ me \in Run /\ run'[me].job = k
          /\ \A q \in Run \ {me} : run'[q] = run[q]
          /\ run[me].job = None
          /\ status'[k] = "running" /\ ~expired'[k]
          /\ \A i \in Job \ {k} : status'[i] = status[i] /\ expired'[i] = expired[i] /\ outlived'[i] = outlived[i]
          /\ outlived'[k] = (outlived[k] /\ HasHandler(k))
        BY <1>0, <1>2 DEF TypeOK, Claim, CountClaim, Run
    <2>2. Claimable(k)
        BY <1>2 DEF Claim, Offered
    <2>3. None \notin Job
        BY QueueAssumption DEF QueueAssumption
    <2>4. CASE k # j
        <3>1. Timely(j)
            BY <2>1, <2>4 DEF AloneInv
        <3>2. NotTakenUp(j)
            BY <2>1, <2>3, <2>4 DEF NotTakenUp
        <3> QED BY <3>1, <3>2, NotTakenUpTimely
    <2>5. CASE k = j
        <3>1. ~HasHandler(j)
            <4>1. CASE outlived[j]
                BY <2>1, <2>5, <4>1
            <4>2. CASE ~outlived[j]
                BY <2>2, <2>5, <4>2 DEF AloneInv, Timely, Claimable
            <4> QED BY <1>0, <4>1, <4>2 DEF TypeOK
        <3>2. \A q \in Run : run'[q].job = j => q = me
            BY <2>1, <3>1 DEF HasHandler
        <3> QED BY <2>1, <2>5, <3>2 DEF Timely
    <2> QED BY <2>4, <2>5
<1>3. ASSUME NEW w \in Worker, Boot(w) \/ Wait(w) \/ PollAgain(w) \/ Drained(w) \/ Stop(w) \/ Crash(w)
      PROVE  Timely(j)'
    <2>1. UNCHANGED row
        BY <1>3 DEF Boot, Wait, PollAgain, Drained, Stop, Crash
    <2>2. \A r \in Run : run'[r].job = j => run[r].job = j
        <3>1. None \notin Job
            BY QueueAssumption DEF QueueAssumption
        <3>2. CASE Crash(w)
            <4>1. \A r \in Run : run'[r] = IF r[1] = w THEN Idle ELSE run[r]
                BY <3>2 DEF Crash
            <4>2. Idle.job = None
                BY DEF Idle
            <4> QED BY <3>1, <4>1, <4>2
        <3>3. CASE ~Crash(w)
            BY <1>3, <3>3 DEF Boot, Wait, PollAgain, Drained, Stop
        <3> QED BY <3>2, <3>3
    <2>3. Timely(j)
        BY <2>1 DEF AloneInv, row
    <2> QED BY <2>1, <2>2, <2>3, NotTakenUpTimely DEF NotTakenUp, row
<1>4. ASSUME NEW r \in Run, RunStep(r) PROVE Timely(j)'
    <2>1. outlived' = outlived
        BY <1>4 DEF RunStep, HandlerReturns, HandlerThrows, Terminalize, CommitTerminal, AbortTerminal,
               Complete, CompleteThrows, CompleteRow, MarkCompleted, FailRead, FailWrite, row
    <2> QED BY <1>0, <1>4, <2>1, RunStepLease, NotTakenUpTimely DEF AloneInv
<1>5. CASE UNCHANGED vars
    BY <1>5 DEF AloneInv, Timely, HasHandler, vars, row
<1> QED BY <1>1, <1>2, <1>3, <1>4, <1>5 DEF Next, Loop

\* Two handlers work on one job only if one has outlived its lease since the job last had none:
\* crashes, stops, retries and cancellations alone do not do it.
THEOREM HandlersAlone == Spec => []NoOverlap
<1>1. Init => AloneInv
    <2>1. Init => \A j \in Job, r \in Run : run[r].job # j
        BY QueueAssumption DEF Init, Idle, QueueAssumption
    <2> QED BY <2>1, InitInv DEF AloneInv, Timely, HasHandler
<1>2. AloneInv /\ [Next]_vars => AloneInv'
    BY AloneStep
<1>3. AloneInv => NoOverlap
    BY BusyRun DEF AloneInv, NoOverlap, Timely, IInv
<1> QED BY <1>1, <1>2, <1>3, PTL DEF Spec

-----------------------------------------------------------------------------
(* SearchIndex                                                             *)

\* A search row has its two columns.
SearchTyped == \A x \in {search} \ {None} : \E c, e : x = [content |-> c, embedding |-> e]

SearchInv == SearchTyped /\ EmbeddingMatchesContent

\* The step that stores a vector keeps the row whole: the vector it stores is that of the words the
\* row holds by then.
LEMMA VectorOfTheWords ==
    ASSUME SearchInv, NEW w \in Workers, StoreEmbedding(w)
    PROVE  SearchInv'
<1>1. CASE ~SameContent(w)
    BY <1>1 DEF StoreEmbedding, SearchInv, SearchTyped, EmbeddingMatchesContent
<1>2. CASE SameContent(w)
    <2>1. PICK c, e : search = [content |-> c, embedding |-> e]
        BY <1>2 DEF SearchInv, SearchTyped, SameContent
    <2>2. search' = [content |-> c, embedding |-> c]
        BY <1>2, <2>1 DEF StoreEmbedding, SameContent
    <2> QED BY <2>2 DEF SearchInv, SearchTyped, EmbeddingMatchesContent
<1> QED BY <1>1, <1>2

LEMMA SearchStep ==
    ASSUME SearchInv, [SearchNext]_searchVars
    PROVE  SearchInv'
<1> USE DEF SearchInv, SearchTyped, EmbeddingMatchesContent
<1>1. CASE UNCHANGED search
    BY <1>1
<1>2. ASSUME NEW how \in Gone, Vanish(how) PROVE SearchInv'
    BY <1>2 DEF Vanish
<1>3. ASSUME NEW w \in Workers, RemoveSearch(w) PROVE SearchInv'
    BY <1>3 DEF RemoveSearch
<1>4. ASSUME NEW w \in Workers, StoreContent(w) PROVE SearchInv'
    <2>1. search' = [content |-> indexing[w].content, embedding |-> None]
        BY <1>4 DEF StoreContent
    <2> QED BY <2>1
<1>5. ASSUME NEW w \in Workers, StoreEmbedding(w) PROVE SearchInv'
    BY <1>5, VectorOfTheWords
<1>6. CASE UNCHANGED searchVars
    BY <1>1, <1>6 DEF searchVars
<1>7. CASE SearchNext
    BY <1>1, <1>2, <1>3, <1>4, <1>5, <1>7
       DEF SearchNext, Say, NeighbourErased, ReadRecord, BuildContent, Retry
<1> QED BY <1>6, <1>7

\* Whatever two jobs of one record read and in whatever order they store, the vector of a search row is
\* that of its words (jobs/record-reindex.ts, storeEmbedding).
THEOREM VectorsMatch == SearchSpec => []EmbeddingMatchesContent
<1>1. SearchInit => SearchInv
    BY DEF SearchInit, SearchInv, SearchTyped, EmbeddingMatchesContent
<1>2. SearchInv /\ [SearchNext]_searchVars => SearchInv'
    BY SearchStep
<1>3. SearchInv => EmbeddingMatchesContent
    BY DEF SearchInv
<1> QED BY <1>1, <1>2, <1>3, PTL DEF SearchSpec

-----------------------------------------------------------------------------
(* BulkJobs, as a bulk assert                                              *)

Answers == {"created", "updated"}
Partial == UNION {[S -> Answers] : S \in SUBSET Positions}

Handler == [process : Processes, phase : {"batch", "working", "progress", "settling", "returned"},
            next : 1..RowCount + 1, ok : Partial, failed : SUBSET Positions, file : Nat,
            keep : BOOLEAN, outcome : {"void", "thrown", "terminalized"}]

Results == [ok : Partial, failed : SUBSET Positions]
TaskRow == [status : {"queued", "running", "completed", "failed", "cancelled"},
            holder : Processes \cup {None}, tries : Nat, result : Results \cup {None}]

RowsTyped ==
    /\ work \in [Workers -> Handler \cup {None}]
    /\ task \in TaskRow
    /\ replays \in [Positions -> Answers \cup {None}]
    /\ applied \in [Positions -> Nat]

\* A row was asserted if, and only if, its key has a result.
KeysTell == \A r \in Positions : applied[r] = IF replays[r] = None THEN 0 ELSE 1

\* The first n rows, each either refused or answered as its key says.
Tally(ok, failed, n) ==
    /\ DOMAIN ok \cup failed = 1..n /\ DOMAIN ok \cap failed = {}
    /\ \A r \in DOMAIN ok : ok[r] = replays[r]

\* A handler has told the rows before its next one, and settles when it has told all.
Progressed(x) ==
    /\ Tally(x.ok, x.failed, x.next - 1)
    /\ x.phase \in {"batch", "working"} => x.next <= RowCount
    /\ x.phase = "settling" => x.next = RowCount + 1

HandlersTell == \A w \in Workers : work[w] # None => Progressed(work[w])
ResultTells == task.result # None => Tally(task.result.ok, task.result.failed, RowCount)

RowsInv == purpose = "assert" => RowsTyped /\ KeysTell /\ HandlersTell /\ ResultTells

\* Results of keys are only ever added.
ResultsStay == \A r \in Positions : replays[r] # None => replays'[r] = replays[r]

\* What has been told stays true.
LEMMA TallyStays ==
    ASSUME NEW ok \in Partial, NEW failed, NEW n, Tally(ok, failed, n), ResultsStay
    PROVE  Tally(ok, failed, n)'
<1>1. ASSUME NEW r \in DOMAIN ok PROVE ok[r] = replays'[r]
    <2>1. r \in Positions /\ ok[r] \in Answers
        BY DEF Partial
    <2>2. ok[r] # None
        BY <2>1, BulkAssumption DEF Answers, BulkAssumption
    <2> QED BY <2>1, <2>2 DEF Tally, ResultsStay
<1> QED BY <1>1 DEF Tally

\* A step that concerns one handler leaves the others as they are.
LEMMA HandlerStep ==
    ASSUME RowsTyped, HandlersTell, ResultsStay, NEW w \in Workers, NEW x \in Handler \cup {None},
           x # None => Progressed(x)', work' = [work EXCEPT ![w] = x]
    PROVE  work' \in [Workers -> Handler \cup {None}] /\ HandlersTell'
<1>1. work' \in [Workers -> Handler \cup {None}]
    BY DEF RowsTyped
<1>2. ASSUME NEW v \in Workers, work'[v] # None PROVE Progressed(work[v])'
    <2>1. CASE v = w
        BY <1>2, <2>1 DEF RowsTyped, Progressed
    <2>2. CASE v # w
        <3>1. work'[v] = work[v] /\ Progressed(work[v]) /\ work[v] \in Handler
            BY <1>2, <2>2 DEF RowsTyped, HandlersTell
        <3>2. Tally(work[v].ok, work[v].failed, work[v].next - 1)'
            BY <3>1, TallyStays DEF Progressed, Handler, Tally
        <3> QED BY <3>1, <3>2 DEF Progressed
    <2> QED BY <2>1, <2>2
<1> QED BY <1>1, <1>2 DEF HandlersTell

AssertInv == RowsTyped /\ KeysTell /\ HandlersTell /\ ResultTells

\* A step that moves one handler on without telling rows.
LEMMA MoveOn ==
    ASSUME AssertInv, NEW w \in Workers, NEW x \in Handler, Progressed(x),
           work' = [work EXCEPT ![w] = x], UNCHANGED <<task, replays, applied>>
    PROVE  AssertInv'
<1>1. ResultsStay /\ Progressed(x)'
    BY DEF ResultsStay, Progressed, Tally
<1>2. work' \in [Workers -> Handler \cup {None}] /\ HandlersTell'
    BY <1>1, HandlerStep DEF AssertInv
<1> QED BY <1>2 DEF AssertInv, RowsTyped, KeysTell, ResultTells, Tally

\* So does one that ends it.
LEMMA GiveUp ==
    ASSUME AssertInv, NEW w \in Workers, work' = [work EXCEPT ![w] = None], UNCHANGED <<replays, applied>>
    PROVE  work' \in [Workers -> Handler \cup {None}] /\ HandlersTell'
<1>1. ResultsStay
    BY DEF ResultsStay
<1> DEFINE x == None
<1>2. x \in Handler \cup {None} /\ (x # None => Progressed(x)') /\ work' = [work EXCEPT ![w] = x]
    OBVIOUS
<1> HIDE DEF x
<1> QED BY <1>1, <1>2, HandlerStep DEF AssertInv

LEMMA TakeStep ==
    ASSUME AssertInv, purpose = "assert", NEW w \in Workers, NEW p \in Processes, Take(w, p)
    PROVE  AssertInv'
<1> PICK x : x = [process |-> p, phase |-> "batch", next |-> 1, ok |-> <<>>, failed |-> {},
                  file |-> task.tries + 1, keep |-> FALSE, outcome |-> "void"]
    OBVIOUS
<1>1. work' = [work EXCEPT ![w] = x] /\ UNCHANGED <<replays, applied>>
    BY DEF Take
<1>2. task' = [task EXCEPT !.status = "running", !.holder = p, !.tries = @ + 1]
    BY DEF Take
<1>3. <<>> \in [{} -> Answers] /\ DOMAIN <<>> = {}
    OBVIOUS
<1>4. <<>> \in Partial
    BY <1>3 DEF Partial
<1>5. x \in Handler
    BY <1>4, BulkAssumption DEF Handler, BulkAssumption, AssertInv, RowsTyped, TaskRow
<1>6. Progressed(x)'
    BY <1>3, BulkAssumption DEF Progressed, Tally, BulkAssumption
<1>7. ResultsStay
    BY <1>1 DEF ResultsStay
<1>8. work' \in [Workers -> Handler \cup {None}] /\ HandlersTell'
    BY <1>1, <1>5, <1>6, <1>7, HandlerStep DEF AssertInv
<1>9. task' \in TaskRow /\ task'.result = task.result
    <2>1. task \in TaskRow /\ task.tries + 1 \in Nat
        BY DEF AssertInv, RowsTyped, TaskRow
    <2>2. PICK n \in Nat : n = task.tries + 1
        BY <2>1
    <2>3. task' = [task EXCEPT !.status = "running", !.holder = p, !.tries = n]
        BY <1>2, <2>2
    <2> QED BY <2>1, <2>3 DEF TaskRow
<1> QED BY <1>1, <1>8, <1>9 DEF AssertInv, RowsTyped, KeysTell, ResultTells, Tally

LEMMA ReturnStep ==
    ASSUME AssertInv, NEW w \in Workers, Return(w)
    PROVE  AssertInv'
<1>1. work' = [work EXCEPT ![w] = None] /\ UNCHANGED <<replays, applied>>
    BY DEF Return
<1>2. work' \in [Workers -> Handler \cup {None}] /\ HandlersTell'
    BY <1>1, GiveUp
<1>3. work[w] \in Handler
    BY DEF Return, At, AssertInv, RowsTyped
<1>4. \/ task' = task
      \/ task' = [task EXCEPT !.status = "completed", !.holder = None]
      \/ task' = [task EXCEPT !.status = "queued", !.holder = None]
      \/ task' = [task EXCEPT !.status = "failed"]
    <2>1. work[w].outcome \in {"void", "thrown", "terminalized"}
        BY <1>3 DEF Handler
    <2> QED BY <2>1 DEF Return
<1>5. task' \in TaskRow /\ task'.result = task.result
    BY <1>4 DEF AssertInv, RowsTyped, TaskRow
<1> QED BY <1>1, <1>2, <1>5 DEF AssertInv, RowsTyped, KeysTell, ResultTells, Tally

LEMMA DieStep ==
    ASSUME AssertInv, NEW p \in Processes, Die(p)
    PROVE  AssertInv'
<1>1. \A w \in Workers : work'[w] = None \/ work'[w] = work[w]
    BY DEF Die
<1>2. work' \in [Workers -> Handler \cup {None}] /\ UNCHANGED <<task, replays, applied>>
    BY DEF Die, AssertInv, RowsTyped
<1>3. HandlersTell'
    BY <1>1, <1>2 DEF AssertInv, HandlersTell, Progressed, Tally
<1> QED BY <1>2, <1>3 DEF AssertInv, RowsTyped, KeysTell, ResultTells, Tally

LEMMA CancelStep ==
    ASSUME AssertInv, CancelTask
    PROVE  AssertInv'
<1>1. task' = [task EXCEPT !.status = "cancelled"] /\ UNCHANGED <<work, replays, applied>>
    BY DEF CancelTask
<1>2. task' \in TaskRow /\ task'.result = task.result
    BY <1>1 DEF AssertInv, RowsTyped, TaskRow
<1> QED BY <1>1, <1>2 DEF AssertInv, RowsTyped, KeysTell, HandlersTell, ResultTells, Progressed, Tally

\* A bulk assert gives up without cleaning up.
LEMMA LeaveStep ==
    ASSUME AssertInv, purpose = "assert", NEW w \in Workers, work[w] # None,
           NEW outcome \in {"void", "thrown"}, Leave(w, outcome), UNCHANGED <<task, replays, applied>>
    PROVE  AssertInv'
<1>1. work[w] \in Handler /\ Progressed(work[w])
    BY DEF AssertInv, RowsTyped, HandlersTell
<1> PICK x : x = [work[w] EXCEPT !.phase = "returned", !.outcome = outcome]
    OBVIOUS
<1>2. work' = [work EXCEPT ![w] = x]
    BY DEF Leave, AssertInv, RowsTyped
<1>3. x \in Handler
    BY <1>1 DEF Handler
<1>4. /\ x.phase = "returned" /\ x.ok = work[w].ok
      /\ x.failed = work[w].failed /\ x.next = work[w].next
    BY <1>1 DEF Handler
<1>5. Progressed(x)
    BY <1>1, <1>4 DEF Progressed
<1> QED BY <1>2, <1>3, <1>5, MoveOn

LEMMA PhaseStep ==
    ASSUME AssertInv, NEW w \in Workers, work[w] # None, NEW phase \in {"batch", "working", "settling"},
           Continue(w, phase), UNCHANGED <<task, replays, applied>>,
           phase \in {"batch", "working"} => work[w].next <= RowCount,
           phase = "settling" => work[w].next = RowCount + 1
    PROVE  AssertInv'
<1>1. work[w] \in Handler /\ Progressed(work[w])
    BY DEF AssertInv, RowsTyped, HandlersTell
<1> PICK x : x = [work[w] EXCEPT !.phase = phase]
    OBVIOUS
<1>2. work' = [work EXCEPT ![w] = x]
    BY DEF Continue, AssertInv, RowsTyped
<1>3. x \in Handler
    BY <1>1 DEF Handler
<1>4. x.phase = phase /\ x.ok = work[w].ok /\ x.failed = work[w].failed /\ x.next = work[w].next
    BY <1>1 DEF Handler
<1>5. Progressed(x)
    BY <1>1, <1>4 DEF Progressed
<1> QED BY <1>2, <1>3, <1>5, MoveOn

LEMMA LookStep ==
    ASSUME AssertInv, purpose = "assert", NEW w \in Workers, LookAtJob(w)
    PROVE  AssertInv'
<1>1. work[w] # None /\ work[w].next <= RowCount /\ UNCHANGED <<task, replays, applied>>
    BY DEF LookAtJob, At, AssertInv, HandlersTell, Progressed
<1>2. CASE Continue(w, "working")
    BY <1>1, <1>2, PhaseStep
<1>3. CASE Leave(w, "void")
    BY <1>1, <1>3, LeaveStep
<1> QED BY <1>2, <1>3 DEF LookAtJob

LEMMA ThrowStep ==
    ASSUME AssertInv, purpose = "assert", NEW w \in Workers, Throw(w)
    PROVE  AssertInv'
<1>1. work[w] # None /\ Leave(w, "thrown") /\ UNCHANGED <<task, replays, applied>>
    BY DEF Throw
<1> QED BY <1>1, LeaveStep

LEMMA ProgressStep ==
    ASSUME AssertInv, purpose = "assert", NEW w \in Workers, Progress(w)
    PROVE  AssertInv'
<1>1. work[w] # None /\ work[w] \in Handler /\ UNCHANGED <<task, replays, applied>>
    BY DEF Progress, At, AssertInv, RowsTyped
<1>2. work[w].next \in 1..RowCount + 1
    BY <1>1 DEF Handler
<1>3. \/ Leave(w, "void")
      \/ work[w].next <= RowCount /\ Continue(w, "batch")
      \/ ~(work[w].next <= RowCount) /\ Continue(w, "settling")
    BY DEF Progress
<1>4. CASE Leave(w, "void")
    BY <1>1, <1>4, LeaveStep
<1>5. CASE work[w].next <= RowCount /\ Continue(w, "batch")
    BY <1>1, <1>5, PhaseStep
<1>6. CASE ~(work[w].next <= RowCount) /\ Continue(w, "settling")
    <2>1. work[w].next = RowCount + 1
        BY <1>2, <1>6, BulkAssumption DEF BulkAssumption
    <2> QED BY <1>1, <1>6, <2>1, PhaseStep
<1> QED BY <1>3, <1>4, <1>5, <1>6

\* The next row of a handler that works, and where it goes from there.
LEMMA NextRow ==
    ASSUME AssertInv, NEW w \in Workers, At(w, "working")
    PROVE  /\ work[w] \in Handler /\ work[w].phase = "working" /\ work[w].next \in Positions
           /\ work[w].next + 1 \in 1..RowCount + 1 /\ 1..work[w].next = (1..work[w].next - 1) \cup {work[w].next}
           /\ Tally(work[w].ok, work[w].failed, work[w].next - 1)
<1>1. work[w] # None /\ work[w] \in Handler /\ work[w].phase = "working" /\ Progressed(work[w])
    BY DEF At, AssertInv, RowsTyped, HandlersTell
<1>2. work[w].next \in 1..RowCount + 1 /\ work[w].next <= RowCount
    BY <1>1 DEF Handler, Progressed
<1>3. work[w].next \in Positions /\ work[w].next + 1 \in 1..RowCount + 1
    BY <1>2, BulkAssumption DEF Positions, BulkAssumption
<1>4. 1..work[w].next = (1..work[w].next - 1) \cup {work[w].next}
    BY <1>2, BulkAssumption DEF BulkAssumption
<1> QED BY <1>1, <1>3, <1>4 DEF Progressed

PhaseAfter(r) == IF r = RowCount \/ r % BatchSize = 0 THEN "progress" ELSE "working"

LEMMA RefuseStep ==
    ASSUME AssertInv, NEW w \in Workers, RefuseRow(w)
    PROVE  AssertInv'
<1>1. At(w, "working") /\ UNCHANGED <<task, replays, applied>>
    BY DEF RefuseRow
<1> PICK r : r = work[w].next
    OBVIOUS
<1>2. /\ work[w] \in Handler /\ work[w].phase = "working" /\ r \in Positions /\ r + 1 \in 1..RowCount + 1
      /\ 1..r = (1..r - 1) \cup {r} /\ Tally(work[w].ok, work[w].failed, r - 1)
    BY <1>1, NextRow
<1> PICK x : x = [work[w] EXCEPT !.next = r + 1, !.failed = work[w].failed \cup {r}, !.phase = PhaseAfter(r)]
    OBVIOUS
<1>3. work' = [work EXCEPT ![w] = x]
    BY <1>2 DEF RefuseRow, PhaseAfter, AssertInv, RowsTyped
<1>4. x \in Handler /\ x.next = r + 1 /\ x.ok = work[w].ok /\ x.failed = work[w].failed \cup {r}
      /\ x.phase = PhaseAfter(r)
    BY <1>2 DEF Handler, PhaseAfter
<1>5. r \notin DOMAIN work[w].ok
    BY <1>2 DEF Tally, Positions
<1>6. Tally(x.ok, x.failed, r) /\ x.next - 1 = r
    BY <1>2, <1>4, <1>5 DEF Tally, Positions
<1>7. x.phase \in {"batch", "working"} => x.next <= RowCount
    BY <1>2, <1>4, BulkAssumption DEF PhaseAfter, Positions, BulkAssumption
<1>8. Progressed(x)
    BY <1>4, <1>6, <1>7 DEF Progressed, PhaseAfter
<1> QED BY <1>1, <1>3, <1>4, <1>8, MoveOn

LEMMA AssertStep ==
    ASSUME AssertInv, NEW w \in Workers, NEW reply \in Answers, AssertRow(w, reply)
    PROVE  AssertInv'
<1>1. At(w, "working") /\ Accept(w, reply) /\ UNCHANGED task
    BY DEF AssertRow
<1> PICK r : r = work[w].next
    OBVIOUS
<1>2. /\ work[w] \in Handler /\ work[w].phase = "working" /\ r \in Positions /\ r + 1 \in 1..RowCount + 1
      /\ 1..r = (1..r - 1) \cup {r} /\ Tally(work[w].ok, work[w].failed, r - 1)
    BY <1>1, NextRow
<1> PICK answer : answer = IF NotYetAsserted(r) THEN reply ELSE replays[r]
    OBVIOUS
<1>3. answer \in Answers /\ answer # None
    BY <1>2, BulkAssumption DEF NotYetAsserted, AssertInv, RowsTyped, Answers, BulkAssumption
<1>4. /\ replays' = [replays EXCEPT ![r] = answer]
      /\ applied' = [applied EXCEPT ![r] = IF NotYetAsserted(r) THEN applied[r] + 1 ELSE applied[r]]
    BY <1>1 DEF Accept
<1>5. replays' \in [Positions -> Answers \cup {None}] /\ replays'[r] = answer
    BY <1>2, <1>3, <1>4 DEF AssertInv, RowsTyped
<1>6. applied' \in [Positions -> Nat] /\ KeysTell'
    BY <1>2, <1>3, <1>4 DEF AssertInv, RowsTyped, KeysTell, NotYetAsserted
<1>7. ResultsStay
    BY <1>2, <1>4 DEF ResultsStay, NotYetAsserted, AssertInv, RowsTyped
<1> PICK ok : ok = [q \in DOMAIN work[w].ok \cup {r} |-> IF q = r THEN answer ELSE work[w].ok[q]]
    OBVIOUS
<1>8. work[w].ok \in Partial
    BY <1>2 DEF Handler
<1>9. r \notin DOMAIN work[w].ok
    BY <1>2 DEF Tally, Positions
<1>10. DOMAIN ok = DOMAIN work[w].ok \cup {r} /\ ok[r] = answer /\ \A q \in DOMAIN work[w].ok : ok[q] = work[w].ok[q]
    BY <1>9
<1>11. ok \in Partial
    <2>1. PICK S \in SUBSET Positions : work[w].ok \in [S -> Answers]
        BY <1>8 DEF Partial
    <2>2. S \cup {r} \in SUBSET Positions /\ ok \in [S \cup {r} -> Answers]
        BY <1>2, <1>3, <1>10, <2>1
    <2> QED BY <2>2 DEF Partial
<1> PICK x : x = [work[w] EXCEPT !.next = r + 1, !.ok = ok, !.phase = PhaseAfter(r)]
    OBVIOUS
<1>12. work' = [work EXCEPT ![w] = x]
    BY <1>1, <1>2 DEF Accept, PhaseAfter, AssertInv, RowsTyped
<1>13. x \in Handler /\ x.next = r + 1 /\ x.ok = ok /\ x.failed = work[w].failed /\ x.phase = PhaseAfter(r)
    BY <1>2, <1>11 DEF Handler, PhaseAfter
<1>14. Tally(work[w].ok, work[w].failed, r - 1)
    BY <1>2
<1>15. \A q \in DOMAIN work[w].ok : ok[q] = replays'[q]
    <2> SUFFICES ASSUME NEW q \in DOMAIN work[w].ok PROVE ok[q] = replays'[q]
        OBVIOUS
    <2>1. q # r /\ ok[q] = work[w].ok[q] /\ work[w].ok[q] = replays[q]
        BY <1>9, <1>10, <1>14 DEF Tally
    <2>2. replays'[q] = replays[q]
        BY <1>4, <2>1
    <2> QED BY <2>1, <2>2
<1>16. Tally(x.ok, x.failed, r)' /\ x.next - 1 = r
    <2>1. r \notin x.failed
        BY <1>13, <1>14, <1>2 DEF Tally, Positions
    <2>2. DOMAIN x.ok \cup x.failed = 1..r /\ DOMAIN x.ok \cap x.failed = {}
        BY <1>2, <1>10, <1>13, <1>14, <2>1 DEF Tally
    <2>3. \A q \in DOMAIN x.ok : x.ok[q] = replays'[q]
        BY <1>5, <1>10, <1>13, <1>15
    <2>4. Tally(x.ok, x.failed, r)'
        BY <2>2, <2>3 DEF Tally
    <2>5. x.next - 1 = r
        BY <1>2, <1>13, BulkAssumption DEF Positions, BulkAssumption
    <2> QED BY <2>4, <2>5
<1>17. x.phase \in {"batch", "working"} => x.next <= RowCount
    BY <1>2, <1>13, BulkAssumption DEF PhaseAfter, Positions, BulkAssumption
<1>18. Progressed(x)'
    BY <1>13, <1>16, <1>17 DEF Progressed, PhaseAfter
<1>19. work' \in [Workers -> Handler \cup {None}] /\ HandlersTell'
    BY <1>7, <1>12, <1>13, <1>18, HandlerStep DEF AssertInv
<1>20. ResultTells'
    <2> SUFFICES ASSUME task.result # None
                 PROVE  Tally(task.result.ok, task.result.failed, RowCount)'
        BY <1>1 DEF ResultTells
    <2>1. task.result.ok \in Partial /\ Tally(task.result.ok, task.result.failed, RowCount)
        BY DEF AssertInv, RowsTyped, TaskRow, Results, ResultTells
    <2> PICK done, failed : done = task.result.ok /\ failed = task.result.failed
        OBVIOUS
    <2>2. Tally(done, failed, RowCount)'
        BY <1>7, <2>1, TallyStays
    <2> QED BY <1>1, <2>2
<1> QED BY <1>1, <1>5, <1>6, <1>19, <1>20 DEF AssertInv, RowsTyped

\* The result of a job is what its handler has told, of all rows.
LEMMA CompleteStep ==
    ASSUME AssertInv, NEW w \in Workers, work[w] # None, work[w].phase = "settling", task' = CompletedBy(w),
           NEW x \in Handler, x.phase = "returned", x.next = work[w].next, x.ok = work[w].ok,
           x.failed = work[w].failed, work' = [work EXCEPT ![w] = x], UNCHANGED <<replays, applied>>
    PROVE  AssertInv'
<1>1. work[w] \in Handler /\ Progressed(work[w])
    BY DEF AssertInv, RowsTyped, HandlersTell
<1>2. Tally(work[w].ok, work[w].failed, RowCount)
    BY <1>1, BulkAssumption DEF Progressed, BulkAssumption
<1>3. Progressed(x)' /\ ResultsStay
    BY <1>1 DEF Progressed, Tally, ResultsStay
<1>4. work' \in [Workers -> Handler \cup {None}] /\ HandlersTell'
    BY <1>3, HandlerStep DEF AssertInv
<1> PICK result : result = [ok |-> work[w].ok, failed |-> work[w].failed]
    OBVIOUS
<1>5. task' = [task EXCEPT !.status = "completed", !.holder = None, !.result = result]
    BY DEF CompletedBy
<1>6. result \in Results
    BY <1>1 DEF Handler, Results
<1>7. task' \in TaskRow /\ task'.result = result
    BY <1>5, <1>6 DEF AssertInv, RowsTyped, TaskRow
<1>8. Tally(result.ok, result.failed, RowCount)'
    BY <1>1, <1>2 DEF Tally
<1>9. ResultTells'
    BY <1>7, <1>8 DEF ResultTells
<1> QED BY <1>4, <1>7, <1>9 DEF AssertInv, RowsTyped, KeysTell

LEMMA SettleStep ==
    ASSUME AssertInv, purpose = "assert", NEW w \in Workers, Settle(w)
    PROVE  AssertInv'
<1>1. work[w] # None /\ work[w] \in Handler /\ work[w].phase = "settling" /\ Progressed(work[w])
      /\ UNCHANGED <<replays, applied>>
    BY DEF Settle, At, AssertInv, RowsTyped, HandlersTell
<1> PICK x : x = [work[w] EXCEPT !.phase = "returned", !.keep = Held(w),
                                 !.outcome = IF Held(w) THEN "terminalized" ELSE "void"]
    OBVIOUS
<1>2. work' = [work EXCEPT ![w] = x]
    BY DEF Settle, AssertInv, RowsTyped
<1>3. Held(w) \in BOOLEAN
    BY DEF Held
<1>4. x \in Handler /\ x.phase = "returned" /\ x.next = work[w].next /\ x.ok = work[w].ok
      /\ x.failed = work[w].failed
    BY <1>1, <1>3 DEF Handler
<1>5. CASE ~Held(w)
    <2>1. UNCHANGED task
        BY <1>5 DEF Settle
    <2>2. Progressed(x)
        BY <1>1, <1>4 DEF Progressed
    <2> QED BY <1>1, <1>2, <1>4, <2>1, <2>2, MoveOn
<1>6. CASE Held(w)
    <2>1. task' = CompletedBy(w)
        BY <1>6 DEF Settle
    <2> QED BY <1>1, <1>2, <1>4, <2>1, CompleteStep
<1> QED BY <1>5, <1>6

\* A handler that does not hear of it has completed the job all the same.
LEMMA AnswerLostStep ==
    ASSUME AssertInv, purpose = "assert", NEW w \in Workers, AnswerLost(w)
    PROVE  AssertInv'
<1>1. work[w] # None /\ work[w] \in Handler /\ work[w].phase = "settling" /\ task' = CompletedBy(w)
      /\ UNCHANGED <<replays, applied>>
    BY DEF AnswerLost, At, AssertInv, RowsTyped
<1> PICK x : x = [work[w] EXCEPT !.phase = "returned", !.outcome = "thrown"]
    OBVIOUS
<1>2. work' = [work EXCEPT ![w] = x]
    BY DEF AnswerLost, Leave, AssertInv, RowsTyped
<1>3. x \in Handler /\ x.phase = "returned" /\ x.next = work[w].next /\ x.ok = work[w].ok
      /\ x.failed = work[w].failed
    BY <1>1 DEF Handler
<1> QED BY <1>1, <1>2, <1>3, CompleteStep

\* What concerns only exports, or only the file.
LEMMA FileStep ==
    ASSUME AssertInv, purpose = "assert",
           \/ \E w \in Workers : OpenFile(w) \/ WritePage(w) \/ Publish(w) \/ CleanUp(w)
           \/ \E d \in Readers : OpenDownload(d) \/ ConsumeDownload(d)
    PROVE  AssertInv'
<1>1. \A w \in Workers : At(w, "opening") \/ At(w, "renaming") \/ At(w, "cleaning") => FALSE
    BY DEF At, AssertInv, RowsTyped, Handler
<1>2. UNCHANGED <<task, work, replays, applied>>
    BY <1>1 DEF OpenFile, WritePage, Publish, CleanUp, OpenDownload, ConsumeDownload
<1> QED BY <1>2 DEF AssertInv, RowsTyped, KeysTell, HandlersTell, ResultTells, Progressed, Tally

LEMMA BulkStep ==
    ASSUME AssertInv, purpose = "assert", BulkNext
    PROVE  AssertInv'
<1>1. ASSUME NEW w \in Workers, NEW p \in Processes, Take(w, p) PROVE AssertInv'
    BY <1>1, TakeStep
<1>2. ASSUME NEW w \in Workers, NEW reply \in {"created", "updated"}, AssertRow(w, reply) PROVE AssertInv'
    BY <1>2, AssertStep DEF Answers
<1>3. ASSUME NEW w \in Workers,
             Return(w) \/ Throw(w) \/ LookAtJob(w) \/ RefuseRow(w) \/ Progress(w) \/ Settle(w) \/ AnswerLost(w)
      PROVE  AssertInv'
    BY <1>3, ReturnStep, ThrowStep, LookStep, RefuseStep, ProgressStep, SettleStep, AnswerLostStep
<1>4. CASE CancelTask
    BY <1>4, CancelStep
<1>5. ASSUME NEW p \in Processes, Die(p) PROVE AssertInv'
    BY <1>5, DieStep
<1> QED BY <1>1, <1>2, <1>3, <1>4, <1>5, FileStep DEF BulkNext

\* Purpose is what the job was made for.
LEMMA PurposeStays == ASSUME [BulkNext]_bulkVars PROVE purpose' = purpose
BY DEF BulkNext, bulkVars, Take, Return, CancelTask, Die, Throw, LookAtJob, AssertRow, RefuseRow, Progress, Settle, AnswerLost,
       OpenFile, WritePage, Publish, CleanUp, OpenDownload, ConsumeDownload

LEMMA RowsCounted == ASSUME RowsInv PROVE RowsCountedOnce
<1> SUFFICES ASSUME purpose = "assert", AssertInv
             PROVE  /\ \A r \in Positions : applied[r] <= 1
                    /\ task.result # None =>
                          /\ DOMAIN task.result.ok \cup task.result.failed = Positions
                          /\ DOMAIN task.result.ok \cap task.result.failed = {}
                          /\ \A r \in DOMAIN task.result.ok : applied[r] = 1 /\ replays[r] = task.result.ok[r]
    BY DEF RowsInv, RowsCountedOnce, AssertInv
<1>1. \A r \in Positions : applied[r] <= 1
    BY DEF AssertInv, KeysTell
<1>2. ASSUME task.result # None
      PROVE  /\ DOMAIN task.result.ok \cup task.result.failed = Positions
             /\ DOMAIN task.result.ok \cap task.result.failed = {}
             /\ \A r \in DOMAIN task.result.ok : applied[r] = 1 /\ replays[r] = task.result.ok[r]
    <2>1. Tally(task.result.ok, task.result.failed, RowCount) /\ task.result.ok \in Partial
        BY <1>2 DEF AssertInv, ResultTells, RowsTyped, TaskRow, Results
    <2>2. ASSUME NEW r \in DOMAIN task.result.ok
          PROVE  applied[r] = 1 /\ replays[r] = task.result.ok[r]
        <3>1. r \in Positions /\ task.result.ok[r] \in Answers /\ replays[r] = task.result.ok[r]
            BY <2>1 DEF Partial, Tally
        <3>2. replays[r] # None
            BY <3>1, BulkAssumption DEF Answers, BulkAssumption
        <3> QED BY <3>1, <3>2 DEF AssertInv, KeysTell
    <2> QED BY <2>1, <2>2 DEF Tally, Positions
<1> QED BY <1>1, <1>2

\* However many runs of a bulk assert there are, at once and after one another, cancelled, failing or dead:
\* no row is asserted twice, and a result counts every row once (jobs/bulk-assert.ts).
THEOREM RowsOnce == BulkSpec => []RowsCountedOnce
<1>1. BulkInit => RowsInv
    <2> SUFFICES ASSUME BulkInit, purpose = "assert" PROVE AssertInv
        BY DEF RowsInv, AssertInv
    <2>1. RowsTyped
        BY BulkAssumption DEF BulkInit, RowsTyped, TaskRow
    <2>2. KeysTell
        BY DEF BulkInit, KeysTell
    <2> QED BY <2>1, <2>2 DEF BulkInit, AssertInv, HandlersTell, ResultTells
<1>2. RowsInv /\ [BulkNext]_bulkVars => RowsInv'
    <2> SUFFICES ASSUME RowsInv, [BulkNext]_bulkVars, purpose' = "assert" PROVE AssertInv'
        BY DEF RowsInv, AssertInv
    <2>1. purpose = "assert" /\ AssertInv
        BY PurposeStays DEF RowsInv, AssertInv
    <2>2. CASE BulkNext
        BY <2>1, <2>2, BulkStep
    <2>3. CASE UNCHANGED bulkVars
        BY <2>1, <2>3 DEF bulkVars, AssertInv, RowsTyped, KeysTell, HandlersTell, ResultTells, Progressed, Tally
    <2> QED BY <2>2, <2>3
<1>3. RowsInv => RowsCountedOnce
    BY RowsCounted
<1> QED BY <1>1, <1>2, <1>3, PTL DEF BulkSpec
-----------------------------------------------------------------------------
(* BulkJobs, as an export.  What is said of files needs that no run was    *)
(* claimed while another one went on; that a file is handed out once does  *)
(* not.                                                                    *)

Files == 1..MaxLeases

PageWriting == {"batch", "working", "progress", "renaming"}
Ending == {"cleaning", "returned"}

ExportHandler == {x \in Handlers : /\ x.ok = <<>> /\ x.failed = {}
                                   /\ x.phase = "opening" => x.next = 1
                                   /\ x.phase \in {"batch", "working"} => x.next <= RowCount}

ExportTask == [status : {"queued", "running", "completed", "failed", "cancelled"},
               holder : Processes \cup {None}, tries : 0..MaxLeases, result : {[ok |-> <<>>, failed |-> {}], None}]

Request == [phase : {"ready", "open", "done"}, file : Files \cup {None}, got : (SUBSET Positions) \cup {None}]

ExportTyped ==
    /\ work \in [Workers -> ExportHandler \cup {None}]
    /\ task \in ExportTask
    /\ {temporary, final} \subseteq Files \cup {None}
    /\ content \in [Files -> SUBSET Positions]
    /\ fetch \in [Readers -> Request]
    /\ \A d \in Readers : fetch[d].phase = "open" => fetch[d].file \in Files
    /\ fetched \in BOOLEAN /\ overlapped \in BOOLEAN /\ unheard \in BOOLEAN

HandedOnce ==
    /\ ~fetched => \A d \in Readers : fetch[d].got = None
    /\ \A d, e \in Readers : fetch[d].got # None /\ fetch[e].got # None => d = e

\* The handler that is alone: the temporary name is its file until it publishes it, the file holds the
\* pages before the next, and a handler that has not completed the job cleans up behind itself.
FileOk(x) ==
    /\ x.keep => task.status = "completed"
    /\ task.status = "completed" => x.phase \in Ending /\ (x.keep \/ unheard)
    /\ x.phase = "opening" /\ dead = {} => temporary = None /\ final = None
    /\ x.phase \in PageWriting => /\ temporary = x.file /\ content[x.file] = 1..x.next - 1
                                  /\ dead = {} => final = None
    /\ x.phase = "renaming" => x.next = RowCount + 1
    /\ x.phase = "settling" => temporary = None /\ final = x.file /\ content[x.file] = Positions
    /\ x.phase = "returned" => temporary = None /\ (~x.keep => final = None)
    /\ x.phase \in Ending /\ x.outcome = "void" => ~(task.status = "running" /\ task.holder = x.process)

AtMostOne == \A v, w \in Workers : work[v] # None /\ work[w] # None => v = w

NothingLeft == (task.status # "completed" /\ dead = {} /\ \A w \in Workers : work[w] = None) =>
                  temporary = None /\ final = None

CompletedWhole == task.status = "completed" => IF final = None THEN unheard ELSE content[final] = Positions

ReadersWhole ==
    \A d \in Readers : /\ fetch[d].phase = "open" => task.status = "completed" /\ content[fetch[d].file] = Positions
                       /\ fetch[d].got \in {None, Positions}

FilesInv == /\ AtMostOne
            /\ \A w \in Workers : work[w] # None => FileOk(work[w])
            /\ NothingLeft /\ CompletedWhole /\ ReadersWhole

ExportInv == ExportTyped /\ HandedOnce /\ (~overlapped => FilesInv)

ExportsInv == purpose = "export" => ExportInv

LEMMA HandlerThere ==
    ASSUME ExportTyped, NEW w \in Workers, work[w] # None
    PROVE  /\ work[w] \in Handlers /\ work[w] \in ExportHandler
           /\ work[w].ok = <<>> /\ work[w].failed = {}
           /\ work[w].phase = "opening" => work[w].next = 1
           /\ work[w].phase \in {"batch", "working"} => work[w].next <= RowCount
BY DEF ExportTyped, ExportHandler

\* A step that moves one handler on, or replaces what it holds, keeps the invariant if it keeps what is
\* said of that handler, of the completed job and of who reads the file.
LEMMA ExportMoves ==
    ASSUME ExportInv, NEW w \in Workers, work[w] # None, NEW x \in ExportHandler,
           work' = [work EXCEPT ![w] = x], UNCHANGED <<dead, fetch, fetched, overlapped>>,
           unheard' \in BOOLEAN, task' \in ExportTask, {temporary', final'} \subseteq Files \cup {None},
           content' \in [Files -> SUBSET Positions],
           ~overlapped => FileOk(x)' /\ CompletedWhole' /\ ReadersWhole'
    PROVE  ExportInv'
<1>1. x # None
    BY BulkAssumption DEF ExportHandler, BulkAssumption
<1>2. work' \in [Workers -> ExportHandler \cup {None}] /\ work'[w] = x
      /\ \A v \in Workers : v # w => work'[v] = work[v]
    BY DEF ExportInv, ExportTyped
<1>3. ExportTyped' /\ HandedOnce'
    BY <1>2 DEF ExportInv, ExportTyped, HandedOnce
<1>4. ASSUME ~overlapped PROVE FilesInv'
    <2>1. \A v \in Workers : v # w => work'[v] = None
        BY <1>2, <1>4 DEF ExportInv, FilesInv, AtMostOne
    <2>2. AtMostOne' /\ NothingLeft'
        BY <1>1, <1>2, <2>1 DEF AtMostOne, NothingLeft
    <2>3. \A v \in Workers : work'[v] # None => FileOk(work[v])'
        BY <1>2, <1>4, <2>1 DEF FileOk
    <2> QED BY <1>4, <2>2, <2>3 DEF FilesInv
<1> QED BY <1>3, <1>4 DEF ExportInv

\* Nothing but a handler changes: what is said of the completed job and of readers stays.
LEMMA OnlyHandlerMoves ==
    ASSUME ExportInv, NEW w \in Workers, work[w] # None, NEW x \in ExportHandler,
           work' = [work EXCEPT ![w] = x],
           UNCHANGED <<task, dead, temporary, final, content, fetch, fetched, overlapped, unheard>>,
           ~overlapped => FileOk(x)
    PROVE  ExportInv'
<1>1. task' \in ExportTask /\ {temporary', final'} \subseteq Files \cup {None}
      /\ content' \in [Files -> SUBSET Positions] /\ UNCHANGED <<dead, fetch, fetched, overlapped>>
      /\ unheard' \in BOOLEAN
    BY DEF ExportInv, ExportTyped
<1>2. ~overlapped => FileOk(x)' /\ CompletedWhole' /\ ReadersWhole'
    BY DEF ExportInv, FilesInv, FileOk, CompletedWhole, ReadersWhole
<1> QED BY <1>1, <1>2, ExportMoves

\* A handler that gives up has not completed the job, and goes on to clean up.
LEMMA LeaveExport ==
    ASSUME ExportInv, purpose = "export", NEW w \in Workers, work[w] # None,
           work[w].phase \notin Ending, NEW outcome \in {"void", "thrown"}, Leave(w, outcome),
           outcome = "void" => ~Held(w),
           UNCHANGED <<task, dead, temporary, final, content, fetch, fetched, overlapped, unheard>>
    PROVE  ExportInv'
<1>1. work[w] \in Handlers /\ work[w].ok = <<>> /\ work[w].failed = {}
    BY HandlerThere DEF ExportInv
<1> PICK x : x = [work[w] EXCEPT !.phase = "cleaning", !.outcome = outcome]
    OBVIOUS
<1>2. work' = [work EXCEPT ![w] = x]
    BY DEF Leave, ExportInv, ExportTyped
<1>3. x \in Handlers /\ x.phase = "cleaning" /\ x.outcome = outcome /\ x.keep = work[w].keep
      /\ x.process = work[w].process /\ x.ok = <<>> /\ x.failed = {}
    BY <1>1 DEF Handlers
<1>4. x \in ExportHandler
    BY <1>3 DEF ExportHandler
<1>5. ASSUME ~overlapped PROVE FileOk(x)
    <2>1. FileOk(work[w])
        BY <1>5 DEF ExportInv, FilesInv
    <2>2. ~work[w].keep /\ task.status # "completed"
        BY <2>1 DEF FileOk
    <2> QED BY <1>3, <2>2 DEF FileOk, Held, PageWriting, Ending
<1> QED BY <1>2, <1>4, <1>5, OnlyHandlerMoves

LEMMA ThrowExport ==
    ASSUME ExportInv, purpose = "export", NEW w \in Workers, Throw(w)
    PROVE  ExportInv'
<1>1. work[w] # None /\ work[w].phase \notin Ending /\ Leave(w, "thrown")
      /\ UNCHANGED <<task, dead, temporary, final, content, fetch, fetched, overlapped, unheard>>
    BY DEF Throw, Ending, files
<1> QED BY <1>1, LeaveExport

\* A handler that goes on to the next phase of its work.
LEMMA PhaseExport ==
    ASSUME ExportInv, NEW w \in Workers, work[w] # None,
           NEW phase \in {"working", "batch", "renaming"}, Continue(w, phase),
           work[w].phase \in PageWriting,
           phase \in {"batch", "working"} => work[w].next <= RowCount,
           phase = "renaming" => work[w].next = RowCount + 1,
           UNCHANGED <<task, dead, temporary, final, content, fetch, fetched, overlapped, unheard>>
    PROVE  ExportInv'
<1>1. work[w] \in Handlers /\ work[w].ok = <<>> /\ work[w].failed = {}
    BY HandlerThere DEF ExportInv
<1> PICK x : x = [work[w] EXCEPT !.phase = phase]
    OBVIOUS
<1>2. work' = [work EXCEPT ![w] = x]
    BY DEF Continue, ExportInv, ExportTyped
<1>3. x \in Handlers /\ x.phase = phase /\ x.next = work[w].next /\ x.file = work[w].file
      /\ x.keep = work[w].keep /\ x.ok = <<>> /\ x.failed = {}
    BY <1>1 DEF Handlers
<1>4. x \in ExportHandler
    BY <1>3 DEF ExportHandler
<1>5. ASSUME ~overlapped PROVE FileOk(x)
    <2>1. FileOk(work[w])
        BY <1>5 DEF ExportInv, FilesInv
    <2> QED BY <1>3, <2>1 DEF FileOk, PageWriting, Ending
<1> QED BY <1>2, <1>4, <1>5, OnlyHandlerMoves

LEMMA LookExport ==
    ASSUME ExportInv, purpose = "export", NEW w \in Workers, LookAtJob(w)
    PROVE  ExportInv'
<1>1. work[w] # None /\ work[w].phase = "batch"
      /\ UNCHANGED <<task, dead, temporary, final, content, fetch, fetched, overlapped, unheard>>
    BY DEF LookAtJob, At, files
<1>2. work[w].next <= RowCount
    BY <1>1, HandlerThere DEF ExportInv
<1>3. CASE Continue(w, "working")
    BY <1>1, <1>2, <1>3, PhaseExport DEF PageWriting
<1>4. CASE ~(task.status = "running") /\ Leave(w, "void")
    BY <1>1, <1>4, LeaveExport DEF Held, Ending
<1> QED BY <1>3, <1>4 DEF LookAtJob

LEMMA ProgressExport ==
    ASSUME ExportInv, purpose = "export", NEW w \in Workers, Progress(w)
    PROVE  ExportInv'
<1>1. work[w] # None /\ work[w].phase = "progress"
      /\ UNCHANGED <<task, dead, temporary, final, content, fetch, fetched, overlapped, unheard>>
    BY DEF Progress, At, files
<1>2. work[w].next \in 1..RowCount + 1
    BY <1>1, HandlerThere DEF ExportInv, Handlers
<1>3. \/ ~Held(w) /\ Leave(w, "void")
      \/ work[w].next <= RowCount /\ Continue(w, "batch")
      \/ ~(work[w].next <= RowCount) /\ Continue(w, "renaming")
    BY DEF Progress
<1>4. CASE ~Held(w) /\ Leave(w, "void")
    BY <1>1, <1>4, LeaveExport DEF Ending
<1>5. CASE work[w].next <= RowCount /\ Continue(w, "batch")
    BY <1>1, <1>5, PhaseExport DEF PageWriting
<1>6. CASE ~(work[w].next <= RowCount) /\ Continue(w, "renaming")
    <2>1. work[w].next = RowCount + 1
        BY <1>2, <1>6, BulkAssumption DEF BulkAssumption
    <2> QED BY <1>1, <1>6, <2>1, PhaseExport DEF PageWriting
<1> QED BY <1>3, <1>4, <1>5, <1>6

\* The temporary name is this handler's from now on, and its file is empty.
LEMMA OpenExport ==
    ASSUME ExportInv, NEW w \in Workers, OpenFile(w)
    PROVE  ExportInv'
<1>1. work[w] # None /\ work[w].phase = "opening"
      /\ UNCHANGED <<task, dead, final, fetch, fetched, overlapped, unheard>>
    BY DEF OpenFile, At
<1>2. work[w] \in Handlers /\ work[w].ok = <<>> /\ work[w].failed = {} /\ work[w].next = 1
    BY <1>1, HandlerThere DEF ExportInv
<1> PICK f : f = IF temporary = None THEN work[w].file ELSE temporary
    OBVIOUS
<1>3. f \in Files
    BY <1>2 DEF Handlers, Files, ExportInv, ExportTyped
<1>4. temporary' = f /\ content' = [content EXCEPT ![f] = {}]
    BY DEF OpenFile
<1>5. content' \in [Files -> SUBSET Positions] /\ content'[f] = {} /\ {temporary', final'} \subseteq Files \cup {None}
    BY <1>1, <1>3, <1>4 DEF ExportInv, ExportTyped
<1> PICK x : x = [work[w] EXCEPT !.phase = "batch", !.file = f]
    OBVIOUS
<1>6. x \in Handlers /\ x.phase = "batch" /\ x.file = f /\ x.next = work[w].next
      /\ x.keep = work[w].keep /\ x.ok = <<>> /\ x.failed = {}
    BY <1>2, <1>3 DEF Handlers, Files
<1>7. x \in ExportHandler
    <2>1. x.phase # "opening" /\ x.next <= RowCount
        BY <1>2, <1>6, BulkAssumption DEF BulkAssumption
    <2> QED BY <1>6, <2>1 DEF ExportHandler
<1>8. work' = [work EXCEPT ![w] = x]
    BY <1>1, <1>4 DEF OpenFile, ExportInv, ExportTyped
<1>9. ASSUME ~overlapped PROVE FileOk(x)' /\ CompletedWhole' /\ ReadersWhole'
    <2>1. FileOk(work[w]) /\ ReadersWhole
        BY <1>1, <1>9 DEF ExportInv, FilesInv
    <2>2. task.status # "completed" /\ ~work[w].keep /\ (dead = {} => final = None)
        BY <1>1, <2>1 DEF FileOk, Ending
    <2>3. FileOk(x)'
        BY <1>1, <1>2, <1>4, <1>5, <1>6, <2>2 DEF FileOk, PageWriting, Ending
    <2> QED BY <1>1, <2>1, <2>2, <2>3 DEF CompletedWhole, ReadersWhole
<1>10. task' \in ExportTask /\ unheard' \in BOOLEAN
    BY <1>1 DEF ExportInv, ExportTyped
<1> QED BY <1>1, <1>5, <1>7, <1>8, <1>9, <1>10, ExportMoves

\* One more page is in the file.
LEMMA WriteExport ==
    ASSUME ExportInv, NEW w \in Workers, WritePage(w)
    PROVE  ExportInv'
<1>1. work[w] # None /\ work[w].phase = "working"
      /\ UNCHANGED <<task, dead, temporary, final, fetch, fetched, overlapped, unheard>>
    BY DEF WritePage, At
<1> PICK n : n = work[w].next
    OBVIOUS
<1>2. work[w] \in Handlers /\ work[w].ok = <<>> /\ work[w].failed = {} /\ n \in 1..RowCount + 1 /\ n <= RowCount
    BY <1>1, HandlerThere DEF ExportInv, Handlers
<1>3. n \in Positions /\ n + 1 \in 1..RowCount + 1 /\ (1..n - 1) \cup {n} = 1..(n + 1) - 1
    BY <1>2, BulkAssumption DEF Positions, BulkAssumption
<1> PICK f : f = work[w].file
    OBVIOUS
<1>4. f \in Files
    BY <1>2 DEF Handlers, Files
<1>5. content' = [content EXCEPT ![f] = content[f] \cup {n}]
    BY DEF WritePage
<1>6. content' \in [Files -> SUBSET Positions] /\ content'[f] = content[f] \cup {n}
    BY <1>3, <1>4, <1>5 DEF ExportInv, ExportTyped
<1> PICK x : x = [work[w] EXCEPT !.phase = "progress", !.next = n + 1]
    OBVIOUS
<1>7. x \in Handlers /\ x.phase = "progress" /\ x.file = f /\ x.next = n + 1
      /\ x.keep = work[w].keep /\ x.ok = <<>> /\ x.failed = {}
    BY <1>2, <1>3 DEF Handlers
<1>8. x \in ExportHandler
    BY <1>7 DEF ExportHandler
<1>9. work' = [work EXCEPT ![w] = x]
    BY DEF WritePage, ExportInv, ExportTyped
<1>10. ASSUME ~overlapped PROVE FileOk(x)' /\ CompletedWhole' /\ ReadersWhole'
    <2>1. FileOk(work[w]) /\ ReadersWhole
        BY <1>1, <1>10 DEF ExportInv, FilesInv
    <2>2. /\ task.status # "completed" /\ ~work[w].keep /\ (dead = {} => final = None)
          /\ temporary = f /\ content[f] = 1..n - 1
        BY <1>1, <2>1 DEF FileOk, PageWriting, Ending
    <2>3. content'[f] = 1..(n + 1) - 1
        BY <1>3, <1>6, <2>2
    <2>4. FileOk(x)'
        BY <1>1, <1>7, <2>2, <2>3 DEF FileOk, PageWriting, Ending
    <2> QED BY <1>1, <2>1, <2>2, <2>4 DEF CompletedWhole, ReadersWhole
<1>11. task' \in ExportTask /\ {temporary', final'} \subseteq Files \cup {None} /\ unheard' \in BOOLEAN
    BY <1>1 DEF ExportInv, ExportTyped
<1> QED BY <1>1, <1>6, <1>8, <1>9, <1>10, <1>11, ExportMoves

\* The temporary file becomes the final one; alone, the handler publishes its own and whole.
LEMMA PublishExport ==
    ASSUME ExportInv, purpose = "export", NEW w \in Workers, Publish(w)
    PROVE  ExportInv'
<1>1. work[w] # None /\ work[w].phase = "renaming"
      /\ UNCHANGED <<task, dead, content, fetch, fetched, overlapped, unheard>>
    BY DEF Publish, At
<1>2. CASE temporary = None
    <2>1. Leave(w, "thrown") /\ UNCHANGED <<temporary, final>>
        BY <1>2 DEF Publish
    <2> QED BY <1>1, <2>1, LeaveExport DEF Ending
<1>3. CASE temporary # None
    <2>1. Continue(w, "settling") /\ final' = temporary /\ temporary' = None
        BY <1>3 DEF Publish
    <2>2. work[w] \in Handlers /\ work[w].ok = <<>> /\ work[w].failed = {}
        BY <1>1, HandlerThere DEF ExportInv
    <2> PICK x : x = [work[w] EXCEPT !.phase = "settling"]
        OBVIOUS
    <2>3. work' = [work EXCEPT ![w] = x]
        BY <2>1 DEF Continue, ExportInv, ExportTyped
    <2>4. x \in Handlers /\ x.phase = "settling" /\ x.next = work[w].next /\ x.file = work[w].file
          /\ x.keep = work[w].keep /\ x.ok = <<>> /\ x.failed = {}
        BY <2>2 DEF Handlers
    <2>5. x \in ExportHandler
        BY <2>4 DEF ExportHandler
    <2>6. ASSUME ~overlapped PROVE FileOk(x)' /\ CompletedWhole' /\ ReadersWhole'
        <3>1. FileOk(work[w]) /\ ReadersWhole
            BY <1>1, <2>6 DEF ExportInv, FilesInv
        <3>2. /\ task.status # "completed" /\ ~work[w].keep
              /\ temporary = work[w].file /\ content[work[w].file] = 1..work[w].next - 1
              /\ work[w].next = RowCount + 1
            BY <1>1, <3>1 DEF FileOk, PageWriting, Ending
        <3>3. 1..work[w].next - 1 = Positions
            BY <3>2, BulkAssumption DEF Positions, BulkAssumption
        <3>4. FileOk(x)'
            BY <1>1, <2>1, <2>4, <3>2, <3>3 DEF FileOk, PageWriting, Ending
        <3> QED BY <1>1, <3>1, <3>2, <3>4 DEF CompletedWhole, ReadersWhole
    <2>7. task' \in ExportTask /\ {temporary', final'} \subseteq Files \cup {None}
          /\ content' \in [Files -> SUBSET Positions] /\ unheard' \in BOOLEAN
        BY <1>1, <2>1 DEF ExportInv, ExportTyped
    <2> QED BY <1>1, <2>3, <2>5, <2>6, <2>7, ExportMoves
<1> QED BY <1>2, <1>3

\* Alone, a handler that settles completes the job with its own whole file, and keeps it.
LEMMA SettleExport ==
    ASSUME ExportInv, purpose = "export", NEW w \in Workers, Settle(w)
    PROVE  ExportInv'
<1>1. work[w] # None /\ work[w].phase = "settling"
      /\ UNCHANGED <<dead, temporary, final, content, fetch, fetched, overlapped, unheard>>
    BY DEF Settle, At, files
<1>2. work[w] \in Handlers /\ work[w].ok = <<>> /\ work[w].failed = {}
    BY <1>1, HandlerThere DEF ExportInv
<1> PICK held \in BOOLEAN : held = Held(w)
    BY DEF Held
<1> PICK x : x = [work[w] EXCEPT !.phase = "cleaning", !.keep = held,
                                 !.outcome = IF held THEN "terminalized" ELSE "void"]
    OBVIOUS
<1>3. work' = [work EXCEPT ![w] = x]
    BY DEF Settle, ExportInv, ExportTyped
<1>4. x \in Handlers /\ x.phase = "cleaning" /\ x.keep = held /\ x.process = work[w].process
      /\ x.outcome = (IF held THEN "terminalized" ELSE "void") /\ x.ok = <<>> /\ x.failed = {}
    BY <1>2 DEF Handlers
<1>5. x \in ExportHandler
    BY <1>4 DEF ExportHandler
<1>6. /\ task' \in ExportTask
      /\ held => task'.status = "completed"
      /\ ~held => task' = task
    <2>1. CASE held
        <3> PICK result : result = [ok |-> work[w].ok, failed |-> work[w].failed]
            OBVIOUS
        <3>1. task' = [task EXCEPT !.status = "completed", !.holder = None, !.result = result]
            BY <2>1 DEF Settle, CompletedBy
        <3>2. result \in {[ok |-> <<>>, failed |-> {}], None}
            BY <1>2
        <3> QED BY <2>1, <3>1, <3>2 DEF ExportInv, ExportTyped, ExportTask
    <2>2. CASE ~held
        BY <2>2 DEF Settle, ExportInv, ExportTyped
    <2> QED BY <2>1, <2>2
<1>7. {temporary', final'} \subseteq Files \cup {None} /\ content' \in [Files -> SUBSET Positions] /\ unheard' \in BOOLEAN
    BY <1>1 DEF ExportInv, ExportTyped
<1>8. ASSUME ~overlapped PROVE FileOk(x)' /\ CompletedWhole' /\ ReadersWhole'
    <2>1. FileOk(work[w]) /\ ReadersWhole
        BY <1>1, <1>8 DEF ExportInv, FilesInv
    <2>2. /\ task.status # "completed" /\ temporary = None
          /\ final = work[w].file /\ content[work[w].file] = Positions /\ work[w].file \in Files
        BY <1>1, <1>2, <2>1 DEF FileOk, Ending, Handlers, Files
    <2>3. ~held => ~(task.status = "running" /\ task.holder = x.process)
        BY <1>4 DEF Held
    <2>4. FileOk(x)'
        BY <1>1, <1>4, <1>6, <2>2, <2>3 DEF FileOk, PageWriting, Ending
    <2>5. final # None
        BY <2>2, BulkAssumption DEF Files, BulkAssumption
    <2> QED BY <1>1, <2>1, <2>2, <2>4, <2>5 DEF CompletedWhole, ReadersWhole
<1> QED BY <1>1, <1>3, <1>5, <1>6, <1>7, <1>8, ExportMoves

\* Alone, a handler whose answer is lost has completed the job with its own whole file, and will remove it.
LEMMA AnswerLostExport ==
    ASSUME ExportInv, purpose = "export", NEW w \in Workers, AnswerLost(w)
    PROVE  ExportInv'
<1>1. work[w] # None /\ work[w].phase = "settling" /\ task' = CompletedBy(w) /\ unheard' = TRUE
      /\ UNCHANGED <<dead, temporary, final, content, fetch, fetched, overlapped>>
    BY DEF AnswerLost, At, files
<1>2. work[w] \in Handlers /\ work[w].ok = <<>> /\ work[w].failed = {}
    BY <1>1, HandlerThere DEF ExportInv
<1> PICK x : x = [work[w] EXCEPT !.phase = "cleaning", !.outcome = "thrown"]
    OBVIOUS
<1>3. work' = [work EXCEPT ![w] = x]
    BY DEF AnswerLost, Leave, ExportInv, ExportTyped
<1>4. x \in Handlers /\ x.phase = "cleaning" /\ x.keep = work[w].keep /\ x.outcome = "thrown"
      /\ x.ok = <<>> /\ x.failed = {}
    BY <1>2 DEF Handlers
<1>5. x \in ExportHandler
    BY <1>4 DEF ExportHandler
<1> PICK result : result = [ok |-> work[w].ok, failed |-> work[w].failed]
    OBVIOUS
<1>6. task' = [task EXCEPT !.status = "completed", !.holder = None, !.result = result]
    BY <1>1 DEF CompletedBy
<1>7. result \in {[ok |-> <<>>, failed |-> {}], None}
    BY <1>2
<1>8. task' \in ExportTask /\ task'.status = "completed"
    BY <1>6, <1>7 DEF ExportInv, ExportTyped, ExportTask
<1>9. {temporary', final'} \subseteq Files \cup {None} /\ content' \in [Files -> SUBSET Positions] /\ unheard' \in BOOLEAN
    BY <1>1 DEF ExportInv, ExportTyped
<1>10. ASSUME ~overlapped PROVE FileOk(x)' /\ CompletedWhole' /\ ReadersWhole'
    <2>1. FileOk(work[w]) /\ ReadersWhole
        BY <1>1, <1>10 DEF ExportInv, FilesInv
    <2>2. /\ task.status # "completed" /\ final = work[w].file /\ content[work[w].file] = Positions
        BY <1>1, <2>1 DEF FileOk, Ending
    <2>3. FileOk(x)'
        BY <1>1, <1>4, <1>8, <2>2 DEF FileOk, PageWriting, Ending
    <2> QED BY <1>1, <2>1, <2>2, <2>3, <1>8 DEF CompletedWhole, ReadersWhole
<1> QED BY <1>1, <1>3, <1>5, <1>8, <1>9, <1>10, ExportMoves

\* The final file is removed unless the job was completed with it; the temporary one always.
LEMMA CleanUpExport ==
    ASSUME ExportInv, NEW w \in Workers, CleanUp(w)
    PROVE  ExportInv'
<1>1. work[w] # None /\ work[w].phase = "cleaning"
      /\ UNCHANGED <<task, dead, content, fetch, fetched, overlapped, unheard>>
      /\ temporary' = None /\ final' = IF work[w].keep THEN final ELSE None
    BY DEF CleanUp, At, KeepsFinal
<1>2. work[w] \in Handlers /\ work[w].ok = <<>> /\ work[w].failed = {}
    BY <1>1, HandlerThere DEF ExportInv
<1> PICK x : x = [work[w] EXCEPT !.phase = "returned"]
    OBVIOUS
<1>3. work' = [work EXCEPT ![w] = x]
    BY DEF CleanUp, Continue, ExportInv, ExportTyped
<1>4. x \in Handlers /\ x.phase = "returned" /\ x.keep = work[w].keep /\ x.process = work[w].process
      /\ x.outcome = work[w].outcome /\ x.ok = <<>> /\ x.failed = {}
    BY <1>2 DEF Handlers
<1>5. x \in ExportHandler
    BY <1>4 DEF ExportHandler
<1>6. task' \in ExportTask /\ {temporary', final'} \subseteq Files \cup {None}
      /\ content' \in [Files -> SUBSET Positions] /\ unheard' \in BOOLEAN
    BY <1>1 DEF ExportInv, ExportTyped
<1>7. ASSUME ~overlapped PROVE FileOk(x)' /\ CompletedWhole' /\ ReadersWhole'
    <2>1. FileOk(work[w]) /\ CompletedWhole /\ ReadersWhole
        BY <1>1, <1>7 DEF ExportInv, FilesInv
    <2>2. /\ x.keep => task.status = "completed"
          /\ task.status = "completed" => x.keep \/ unheard
        BY <1>1, <1>4, <2>1 DEF FileOk, Ending
    <2>3. FileOk(x)'
        BY <1>1, <1>4, <2>1, <2>2 DEF FileOk, PageWriting, Ending
    <2> QED BY <1>1, <1>4, <2>1, <2>2, <2>3 DEF CompletedWhole, ReadersWhole
<1> QED BY <1>1, <1>3, <1>5, <1>6, <1>7, ExportMoves

-----------------------------------------------------------------------------
(* The steps with which handlers come and go, and those of others.         *)

\* A claim while another run goes on ends what is said of files.
LEMMA TakeExport ==
    ASSUME ExportInv, purpose = "export", NEW w \in Workers, NEW p \in Processes, Take(w, p)
    PROVE  ExportInv'
<1>1. /\ work[w] = None /\ task.status \in {"queued", "running"} /\ task.tries < MaxLeases
      /\ UNCHANGED <<dead, temporary, final, content, fetch, fetched, unheard>>
      /\ overlapped' = (overlapped \/ \E v \in Workers : work[v] # None)
    BY DEF Take, files
<1> PICK n : n = task.tries + 1
    OBVIOUS
<1>2. n \in Files /\ n \in 0..MaxLeases
    BY <1>1, BulkAssumption DEF Files, BulkAssumption, ExportInv, ExportTyped, ExportTask
<1>3. task' = [task EXCEPT !.status = "running", !.holder = p, !.tries = n]
    BY DEF Take
<1>4. task' \in ExportTask /\ task'.status = "running"
    BY <1>2, <1>3 DEF ExportInv, ExportTyped, ExportTask
<1> PICK x : x = [process |-> p, phase |-> "opening", next |-> 1, ok |-> <<>>, failed |-> {},
                  file |-> n, keep |-> FALSE, outcome |-> "void"]
    OBVIOUS
<1>5. work' = [work EXCEPT ![w] = x]
    BY DEF Take
<1>6. <<>> \in UNION {[S -> {"created", "updated"}] : S \in SUBSET Positions}
    <2>1. <<>> \in [{} -> {"created", "updated"}] /\ {} \in SUBSET Positions
        OBVIOUS
    <2> QED BY <2>1
<1>7. 1 \in 1..RowCount + 1
    BY BulkAssumption DEF BulkAssumption
<1>8. x \in Handlers
    <2>1. n \in 1..MaxLeases
        BY <1>2 DEF Files
    <2> QED BY <1>6, <1>7, <2>1 DEF Handlers
<1>9. x \in ExportHandler /\ x # None
    <2>1. x.ok = <<>> /\ x.failed = {} /\ x.phase = "opening" /\ x.next = 1
        OBVIOUS
    <2>2. x # None
        BY <1>8, BulkAssumption DEF BulkAssumption
    <2> QED BY <1>8, <2>1, <2>2 DEF ExportHandler
<1>10. work' \in [Workers -> ExportHandler \cup {None}] /\ work'[w] = x
      /\ \A v \in Workers : v # w => work'[v] = work[v]
    BY <1>5, <1>9 DEF ExportInv, ExportTyped
<1>11. ExportTyped' /\ HandedOnce'
    <2>1. overlapped' \in BOOLEAN
        BY <1>1
    <2> QED BY <1>1, <1>4, <1>10, <2>1 DEF ExportInv, ExportTyped, HandedOnce
<1>12. ASSUME ~overlapped' PROVE FilesInv'
    <2>1. FilesInv /\ \A v \in Workers : work[v] = None
        BY <1>1, <1>12 DEF ExportInv
    <2>2. \A v \in Workers : v # w => work'[v] = None
        BY <1>10, <2>1
    <2>3. dead = {} => temporary = None /\ final = None
        BY <1>1, <2>1 DEF FilesInv, NothingLeft
    <2>4. FileOk(x)'
        BY <1>1, <1>4, <2>3 DEF FileOk, PageWriting, Ending
    <2>5. \A v \in Workers : work'[v] # None => FileOk(work[v])'
        BY <1>10, <2>2, <2>4 DEF FileOk
    <2>6. CompletedWhole' /\ ReadersWhole'
        BY <1>1, <1>4, <2>1 DEF FilesInv, CompletedWhole, ReadersWhole
    <2> QED BY <1>9, <1>10, <2>2, <2>5, <2>6 DEF FilesInv, AtMostOne, NothingLeft
<1> QED BY <1>11, <1>12 DEF ExportInv

\* Alone, a handler returns with the job completed by it or with nothing left behind.
LEMMA ReturnExport ==
    ASSUME ExportInv, NEW w \in Workers, Return(w)
    PROVE  ExportInv'
<1>1. work[w] # None /\ work[w].phase = "returned" /\ work' = [work EXCEPT ![w] = None]
      /\ UNCHANGED <<dead, temporary, final, content, fetch, fetched, overlapped, unheard>>
    BY DEF Return, At, files
<1>2. work[w] \in Handlers
    BY <1>1, HandlerThere DEF ExportInv
<1>3. \/ task' = task
      \/ Held(w) /\ work[w].outcome = "void" /\ task' = [task EXCEPT !.status = "completed", !.holder = None]
      \/ Held(w) /\ task' = [task EXCEPT !.status = "queued", !.holder = None]
      \/ Held(w) /\ task' = [task EXCEPT !.status = "failed"]
    BY DEF Return
<1>4. /\ task' \in ExportTask
      /\ task'.status = "completed" => task.status = "completed" \/ (Held(w) /\ work[w].outcome = "void")
      /\ task'.status # "completed" => task.status # "completed"
    BY <1>3 DEF ExportInv, ExportTyped, ExportTask, Held
<1>5. work' \in [Workers -> ExportHandler \cup {None}] /\ work'[w] = None
      /\ \A v \in Workers : v # w => work'[v] = work[v]
    BY <1>1 DEF ExportInv, ExportTyped
<1>6. ExportTyped' /\ HandedOnce'
    BY <1>1, <1>4, <1>5 DEF ExportInv, ExportTyped, HandedOnce
<1>7. ASSUME ~overlapped PROVE FilesInv'
    <2>1. FilesInv /\ FileOk(work[w])
        BY <1>1, <1>7 DEF ExportInv, FilesInv
    <2>2. \A v \in Workers : work'[v] = None
        BY <1>1, <1>5, <2>1 DEF FilesInv, AtMostOne
    <2>3. task'.status = "completed" <=> task.status = "completed"
        BY <1>1, <1>4, <2>1 DEF FileOk, Held, Ending
    <2>4. NothingLeft'
        BY <1>1, <2>1, <2>3 DEF FileOk, NothingLeft
    <2>5. CompletedWhole' /\ ReadersWhole'
        BY <1>1, <2>1, <2>3 DEF FilesInv, CompletedWhole, ReadersWhole
    <2> QED BY <2>2, <2>4, <2>5 DEF FilesInv, AtMostOne
<1> QED BY <1>1, <1>6, <1>7 DEF ExportInv

LEMMA CancelExport ==
    ASSUME ExportInv, CancelTask
    PROVE  ExportInv'
<1>1. task' = [task EXCEPT !.status = "cancelled"] /\ task.status \in {"queued", "running"}
      /\ UNCHANGED <<work, dead, temporary, final, content, fetch, fetched, overlapped, unheard>>
    BY DEF CancelTask, files
<1>2. task' \in ExportTask /\ task'.status = "cancelled"
    BY <1>1 DEF ExportInv, ExportTyped, ExportTask
<1>3. ExportTyped' /\ HandedOnce'
    BY <1>1, <1>2 DEF ExportInv, ExportTyped, HandedOnce
<1>4. ASSUME ~overlapped PROVE FilesInv'
    BY <1>1, <1>2, <1>4 DEF ExportInv, FilesInv, AtMostOne, FileOk, NothingLeft, CompletedWhole, ReadersWhole
<1> QED BY <1>1, <1>3, <1>4 DEF ExportInv

\* The handlers of a process that dies leave their files.
LEMMA DieExport ==
    ASSUME ExportInv, NEW p \in Processes, Die(p)
    PROVE  ExportInv'
<1>1. /\ \A w \in Workers : work'[w] = None \/ work'[w] = work[w]
      /\ dead' # {} /\ UNCHANGED <<task, temporary, final, content, fetch, fetched, overlapped, unheard>>
    BY DEF Die, files
<1>2. work' \in [Workers -> ExportHandler \cup {None}]
    BY DEF Die, ExportInv, ExportTyped
<1>3. ExportTyped' /\ HandedOnce'
    BY <1>1, <1>2 DEF ExportInv, ExportTyped, HandedOnce
<1>4. ASSUME ~overlapped PROVE FilesInv'
    <2>1. FilesInv
        BY <1>4 DEF ExportInv
    <2>2. AtMostOne' /\ NothingLeft' /\ CompletedWhole' /\ ReadersWhole'
        BY <1>1, <2>1 DEF FilesInv, AtMostOne, NothingLeft, CompletedWhole, ReadersWhole
    <2>3. ASSUME NEW w \in Workers, work'[w] # None PROVE FileOk(work[w])'
        <3>1. work'[w] = work[w] /\ FileOk(work[w])
            BY <1>1, <2>1, <2>3 DEF FilesInv
        <3> QED BY <1>1, <3>1 DEF FileOk
    <2> QED BY <2>2, <2>3 DEF FilesInv
<1> QED BY <1>1, <1>3, <1>4 DEF ExportInv

LEMMA DownloadExport ==
    ASSUME ExportInv, NEW d \in Readers, OpenDownload(d) \/ ConsumeDownload(d)
    PROVE  ExportInv'
<1>1. UNCHANGED <<task, work, dead, temporary, final, content, overlapped, unheard>>
    BY DEF OpenDownload, ConsumeDownload, files
<1>2. fetch[d] \in Request
    BY DEF ExportInv, ExportTyped
<1>3. CASE OpenDownload(d)
    <2> PICK x : x = [fetch[d] EXCEPT !.phase = "open", !.file = final]
        OBVIOUS
    <2>1. fetch' = [fetch EXCEPT ![d] = x] /\ final \in Files /\ final # None /\ fetched' = fetched /\ task.status = "completed"
        BY <1>3 DEF OpenDownload, ExportInv, ExportTyped
    <2>2. x \in Request /\ x.file = final /\ x.got = fetch[d].got
        BY <1>2, <2>1 DEF Request
    <2>3. fetch' \in [Readers -> Request] /\ fetch'[d] = x /\ \A e \in Readers : e # d => fetch'[e] = fetch[e]
        BY <2>1, <2>2 DEF ExportInv, ExportTyped
    <2>4. ExportTyped' /\ HandedOnce'
        BY <1>1, <2>1, <2>2, <2>3 DEF ExportInv, ExportTyped, HandedOnce
    <2>5. ASSUME ~overlapped PROVE FilesInv'
        <3>1. FilesInv /\ content[final] = Positions
            BY <2>1, <2>5 DEF ExportInv, FilesInv, CompletedWhole
        <3>2. ReadersWhole'
            BY <1>1, <2>1, <2>2, <2>3, <3>1 DEF FilesInv, ReadersWhole
        <3> QED BY <1>1, <3>1, <3>2 DEF FilesInv, AtMostOne, FileOk, NothingLeft, CompletedWhole
    <2> QED BY <1>1, <2>4, <2>5 DEF ExportInv
<1>4. CASE ConsumeDownload(d)
    <2> PICK got : got = IF fetched THEN None ELSE content[fetch[d].file]
        OBVIOUS
    <2> PICK x : x = [fetch[d] EXCEPT !.phase = "done", !.got = got]
        OBVIOUS
    <2>1. fetch' = [fetch EXCEPT ![d] = x] /\ fetch[d].phase = "open" /\ fetched' = TRUE
        BY <1>4 DEF ConsumeDownload, ExportInv, ExportTyped
    <2>2. got \in (SUBSET Positions) \cup {None} /\ (fetched => got = None)
        BY <2>1 DEF ExportInv, ExportTyped
    <2>3. x \in Request /\ x.phase = "done" /\ x.got = got
        BY <1>2, <2>2 DEF Request
    <2>4. fetch' \in [Readers -> Request] /\ fetch'[d] = x /\ \A e \in Readers : e # d => fetch'[e] = fetch[e]
        BY <2>1, <2>3 DEF ExportInv, ExportTyped
    <2>5. ExportTyped' /\ HandedOnce'
        BY <1>1, <2>1, <2>2, <2>3, <2>4 DEF ExportInv, ExportTyped, HandedOnce
    <2>6. ASSUME ~overlapped PROVE FilesInv'
        <3>1. FilesInv /\ content[fetch[d].file] = Positions
            BY <2>1, <2>6 DEF ExportInv, FilesInv, ReadersWhole
        <3>2. ReadersWhole'
            BY <1>1, <2>3, <2>4, <3>1 DEF FilesInv, ReadersWhole
        <3> QED BY <1>1, <3>1, <3>2 DEF FilesInv, AtMostOne, FileOk, NothingLeft, CompletedWhole
    <2> QED BY <1>1, <2>5, <2>6 DEF ExportInv
<1> QED BY <1>3, <1>4

LEMMA ExportStep ==
    ASSUME ExportInv, purpose = "export", BulkNext
    PROVE  ExportInv'
<1>1. ASSUME NEW w \in Workers, NEW p \in Processes, Take(w, p) PROVE ExportInv'
    BY <1>1, TakeExport
<1>2. ASSUME NEW w \in Workers,
             Return(w) \/ Throw(w) \/ LookAtJob(w) \/ Progress(w) \/ Settle(w) \/ AnswerLost(w)
      PROVE  ExportInv'
    BY <1>2, ReturnExport, ThrowExport, LookExport, ProgressExport, SettleExport, AnswerLostExport
<1>3. ASSUME NEW w \in Workers, OpenFile(w) \/ WritePage(w) \/ Publish(w) \/ CleanUp(w) PROVE ExportInv'
    BY <1>3, OpenExport, WriteExport, PublishExport, CleanUpExport
<1>4. CASE CancelTask
    BY <1>4, CancelExport
<1>5. ASSUME NEW p \in Processes, Die(p) PROVE ExportInv'
    BY <1>5, DieExport
<1>6. ASSUME NEW d \in Readers, OpenDownload(d) \/ ConsumeDownload(d) PROVE ExportInv'
    BY <1>6, DownloadExport
<1>7. \A w \in Workers : ~RefuseRow(w) /\ \A reply \in {"created", "updated"} : ~AssertRow(w, reply)
    BY DEF RefuseRow, AssertRow
<1> QED BY <1>1, <1>2, <1>3, <1>4, <1>5, <1>6, <1>7 DEF BulkNext

\* A set without two elements has at most one.
LEMMA AtMostOneElement ==
    ASSUME NEW S, \A x, y \in S : x = y
    PROVE  Cardinality(S) <= 1
<1>1. CASE S = {}
    BY <1>1, FS_EmptySet
<1>2. CASE S # {}
    <2>1. PICK x \in S : S = {x}
        BY <1>2
    <2> QED BY <2>1, FS_Singleton
<1> QED BY <1>1, <1>2

\* However often an export is cancelled, fails, loses its process or is run again, its file is handed
\* out once; and with runs that do not overlap it is there, whole, exactly if the job was completed, but
\* where the completing run was not told of it (jobs/bulk-export.ts, routes/exports.ts).
THEOREM ExportWhole == BulkSpec => []ExportAlone
<1>1. BulkInit => ExportsInv
    <2> SUFFICES ASSUME BulkInit, purpose = "export" PROVE ExportInv
        BY DEF ExportsInv
    <2>1. task \in ExportTask /\ task.status = "queued"
        BY BulkAssumption DEF BulkInit, ExportTask, BulkAssumption
    <2>2. ExportTyped /\ HandedOnce
        BY <2>1 DEF BulkInit, ExportTyped, HandedOnce, Files, Request
    <2>3. FilesInv
        BY <2>1 DEF BulkInit, FilesInv, AtMostOne, NothingLeft, CompletedWhole, ReadersWhole
    <2> QED BY <2>2, <2>3 DEF ExportInv
<1>2. ExportsInv /\ [BulkNext]_bulkVars => ExportsInv'
    <2> SUFFICES ASSUME ExportsInv, [BulkNext]_bulkVars, purpose' = "export" PROVE ExportInv'
        BY DEF ExportsInv
    <2>1. purpose = "export" /\ ExportInv
        BY PurposeStays DEF ExportsInv
    <2>2. CASE BulkNext
        BY <2>1, <2>2, ExportStep
    <2>3. CASE UNCHANGED bulkVars
        BY <2>1, <2>3 DEF bulkVars, files, ExportInv, ExportTyped, HandedOnce, FilesInv, AtMostOne, FileOk,
                          NothingLeft, CompletedWhole, ReadersWhole
    <2> QED BY <2>2, <2>3
<1>3. ExportsInv => ExportAlone
    <2> SUFFICES ASSUME purpose = "export", ExportInv PROVE ExportAlone
        BY DEF ExportsInv, ExportAlone
    <2> DEFINE got == {d \in Readers : fetch[d].got # None}
    <2>1. \A d, e \in got : d = e
        BY DEF ExportInv, HandedOnce
    <2>2. Cardinality(got) <= 1
        <3> HIDE DEF got
        <3> QED BY <2>1, AtMostOneElement
    <2>3. ASSUME ~overlapped
          PROVE  /\ task.status = "completed" => IF final = None THEN unheard ELSE content[final] = Positions
                 /\ \A d \in Readers : fetch[d].got \in {None, Positions}
                 /\ (task.status # "completed" /\ dead = {} /\ \A w \in Workers : work[w] = None) =>
                       temporary = None /\ final = None
        BY <2>3 DEF ExportInv, FilesInv, NothingLeft, CompletedWhole, ReadersWhole
    <2> QED BY <2>2, <2>3 DEF ExportAlone
<1> QED BY <1>1, <1>2, <1>3, PTL DEF BulkSpec
-----------------------------------------------------------------------------
(* DynamicLists: what a list has when nothing is asked for, of the records *)
(* that nothing has changed without asking for a refresh.                  *)

ListTyped ==
    /\ kind \in [Everyone -> Kinds]
    /\ list \in ListRows
    /\ rows.members \subseteq Everyone /\ rows.written \in Nat
    /\ asked \subseteq ListJobs
    /\ passes \in [Workers -> Passes \cup {None}]
    /\ edits \in [Editors -> ListEdits \cup {None}]
    /\ stores \in [Writers -> ListStores \cup {None}]
    /\ silent \subseteq Everyone
    /\ changes \in Nat /\ disturbed \in BOOLEAN

Selected == {m \in Everyone : kind[m] \in list.def}

\* The records a refresh asked for before now still finds as it would have then.
Steady == Everyone \ silent

\* A refresh of the version the list has is queued.
ListDue == \E job \in asked : job.version = list.version

\* A refresh that will write what the definition selects now: it is of the list's version, what it has
\* found of the steady records is selected and what is selected of them it has found or will look at.
PassGood(x) ==
    /\ x.job.version = list.version /\ x.def = list.def
    /\ x.found \cap Steady \subseteq Selected
    /\ Selected \cap Steady \subseteq x.found \cup Range(x.left)
    /\ x.phase = "writing" => x.left = <<>> /\ x.written = rows.written

PassGoes == \E w \in Workers : passes[w] # None /\ PassGood(passes[w])

OnePass == \A v, w \in Workers : passes[v] # None /\ passes[w] # None => v = w

ListSettled == /\ \A w \in Workers : passes[w] = None
               /\ list.state = "ready" /\ rows.members \cap Steady = Selected \cap Steady

ListInv == ListTyped /\ (~disturbed => OnePass /\ (ListDue \/ PassGoes \/ ListSettled))

LEMMA HeadAndTail ==
    ASSUME NEW S, NEW s \in Seq(S), s # <<>>
    PROVE  Head(s) \in S /\ Tail(s) \in Seq(S) /\ Range(s) = {Head(s)} \cup Range(Tail(s))
<1>1. Head(s) = s[1] /\ Head(s) \in S /\ Tail(s) \in Seq(S) /\ Len(s) \in Nat \ {0}
    OBVIOUS
<1>2. Len(Tail(s)) = Len(s) - 1 /\ \A i \in 1..Len(s) - 1 : Tail(s)[i] = s[i + 1]
    OBVIOUS
<1>3. DOMAIN s = 1..Len(s) /\ DOMAIN Tail(s) = 1..Len(s) - 1
    BY <1>1, <1>2
<1>4. ASSUME NEW i \in 1..Len(s) PROVE s[i] \in {Head(s)} \cup Range(Tail(s))
    <2>1. CASE i = 1
        BY <1>1, <2>1
    <2>2. CASE i # 1
        <3>1. i - 1 \in 1..Len(s) - 1 /\ (i - 1) + 1 = i
            BY <1>1, <2>2
        <3>2. Tail(s)[i - 1] = s[i]
            BY <1>2, <3>1
        <3> QED BY <1>3, <3>1, <3>2 DEF Range
    <2> QED BY <2>1, <2>2
<1>5. ASSUME NEW i \in 1..Len(s) - 1 PROVE Tail(s)[i] \in Range(s)
    <2>1. i + 1 \in 1..Len(s)
        BY <1>1
    <2> QED BY <1>2, <1>3, <2>1 DEF Range
<1>6. Head(s) \in Range(s)
    BY <1>1, <1>3 DEF Range
<1> QED BY <1>3, <1>4, <1>5, <1>6 DEF Range

\* What callers do to the list: a new definition asks for a refresh of the version it makes; undisturbed,
\* a rename changes nothing and a record write asks for a refresh of the version there is.
LEMMA ReadListStep ==
    ASSUME ListInv, NEW e \in Editors, NEW def \in Definitions \cup {None}, ReadList(e, def)
    PROVE  ListInv'
<1>1. /\ edits' = [edits EXCEPT ![e] = [id |-> changes, def |-> def, read |-> list]]
      /\ changes' = changes + 1 /\ UNCHANGED <<kind, list, rows, asked, passes, stores, silent, disturbed>>
    BY DEF ReadList, Budget
<1>2. [id |-> changes, def |-> def, read |-> list] \in ListEdits
    BY DEF ListInv, ListTyped, ListEdits
<1>3. ListTyped'
    BY <1>1, <1>2 DEF ListInv, ListTyped
<1> QED BY <1>1, <1>3 DEF ListInv, OnePass, ListDue, PassGoes, PassGood, ListSettled, Selected, Steady

LEMMA RenameStep ==
    ASSUME ListInv, NEW e \in Editors, Rename(e)
    PROVE  ListInv'
<1>1. /\ list' = [list EXCEPT !.version = edits[e].read.version, !.state = edits[e].read.state]
      /\ disturbed' = (disturbed \/ list' # list) /\ edits' = [edits EXCEPT ![e] = None]
      /\ UNCHANGED <<kind, rows, asked, passes, stores, silent, changes>>
    BY DEF Rename
<1>2. edits[e] \in ListEdits
    BY DEF Rename, ListInv, ListTyped
<1>3. list' \in ListRows
    <2>1. edits[e].read \in ListRows
        BY <1>2 DEF ListEdits
    <2> PICK version, mark : version = edits[e].read.version /\ mark = edits[e].read.state
        OBVIOUS
    <2>2. version \in Nat /\ mark \in {"ready", "refreshing", "failed"}
        BY <2>1 DEF ListRows
    <2>3. list' = [list EXCEPT !.version = version, !.state = mark]
        BY <1>1
    <2> QED BY <2>2, <2>3 DEF ListInv, ListTyped, ListRows
<1>4. ListTyped'
    BY <1>1, <1>3 DEF ListInv, ListTyped
<1>5. ASSUME ~disturbed' PROVE UNCHANGED <<list, disturbed>>
    BY <1>1, <1>5 DEF ListInv, ListTyped
<1> QED BY <1>1, <1>4, <1>5 DEF ListInv, OnePass, ListDue, PassGoes, PassGood, ListSettled, Selected, Steady

LEMMA RedefineStep ==
    ASSUME ListInv, NEW e \in Editors, Redefine(e)
    PROVE  ListInv'
<1>1. edits[e] \in ListEdits /\ edits[e].def # None
    BY DEF Redefine, ListInv, ListTyped
<1> PICK next, job : next = edits[e].read.version + 1 /\ job = [id |-> edits[e].id, version |-> next, tries |-> 0]
    OBVIOUS
<1>2. /\ list' = [def |-> edits[e].def, version |-> next, state |-> "refreshing"]
      /\ asked' = asked \cup {job} /\ silent' = {}
      /\ disturbed' = (disturbed \/ list.version # edits[e].read.version)
      /\ edits' = [edits EXCEPT ![e] = None] /\ UNCHANGED <<kind, rows, passes, stores, changes>>
    BY DEF Redefine, Ask
<1>3. next \in Nat /\ edits[e].id \in Nat /\ edits[e].def \in Definitions
    BY <1>1 DEF ListEdits, ListRows
<1>4. job \in ListJobs /\ list' \in ListRows
    BY <1>2, <1>3 DEF ListJobs, ListRows
<1>5. ListTyped'
    BY <1>2, <1>4 DEF ListInv, ListTyped
<1>6. ListDue'
    BY <1>2 DEF ListDue
<1>7. ~disturbed' => OnePass'
    BY <1>2 DEF ListInv, OnePass
<1> QED BY <1>5, <1>6, <1>7 DEF ListInv

LEMMA BeginStoreStep ==
    ASSUME ListInv, NEW s \in Writers, NEW m \in Everyone, NEW k \in Kinds, NEW person \in BOOLEAN, BeginStore(s, m, k, person)
    PROVE  ListInv'
<1>1. /\ stores' = [stores EXCEPT ![s] =
                        [id |-> changes, of |-> m, kind |-> k, version |-> list.version, person |-> person]]
      /\ changes' = changes + 1 /\ UNCHANGED <<kind, list, rows, asked, passes, edits, silent, disturbed>>
    BY DEF BeginStore, Budget
<1>2. [id |-> changes, of |-> m, kind |-> k, version |-> list.version, person |-> person] \in ListStores
    BY DEF ListInv, ListTyped, ListStores, ListRows
<1>3. ListTyped'
    BY <1>1, <1>2 DEF ListInv, ListTyped
<1> QED BY <1>1, <1>3 DEF ListInv, OnePass, ListDue, PassGoes, PassGood, ListSettled, Selected, Steady

\* A change of one record that asks for no refresh: what is due, goes on or is settled stays so, for the
\* record is not steady any more.
LEMMA SilentChange ==
    ASSUME ListInv, NEW m \in Everyone, NEW k \in Kinds, kind' = [kind EXCEPT ![m] = k],
           silent' = silent \cup {m}, stores' \in [Writers -> ListStores \cup {None}], changes' \in Nat,
           UNCHANGED <<list, rows, asked, passes, edits, disturbed>>
    PROVE  ListInv'
<1>1. ListTyped'
    BY DEF ListInv, ListTyped
<1>2. \A n \in Steady' : n \in Steady /\ (n \in Selected' <=> n \in Selected)
    BY DEF ListInv, ListTyped, Steady, Selected
<1>3. Steady' \subseteq Steady /\ Selected' \cap Steady' = Selected \cap Steady'
    BY <1>2 DEF Selected, Steady
<1>4. ASSUME NEW x, PassGood(x) PROVE PassGood(x)'
    BY <1>3, <1>4 DEF PassGood
<1>5. PassGoes => PassGoes'
    BY <1>4 DEF PassGoes
<1>6. ListSettled => ListSettled'
    BY <1>3 DEF ListSettled
<1> QED BY <1>1, <1>5, <1>6 DEF ListInv, OnePass, ListDue

LEMMA DeriveStep ==
    ASSUME ListInv, NEW m \in Everyone, NEW k \in Kinds, Derive(m, k)
    PROVE  ListInv'
<1>1. /\ kind' = [kind EXCEPT ![m] = k] /\ silent' = silent \cup {m}
      /\ changes' = changes + 1 /\ UNCHANGED <<list, rows, asked, passes, edits, stores, disturbed>>
    BY DEF Derive, Budget
<1>2. stores' \in [Writers -> ListStores \cup {None}] /\ changes' \in Nat
    BY <1>1 DEF ListInv, ListTyped
<1> QED BY <1>1, <1>2, SilentChange

LEMMA EndStoreStep ==
    ASSUME ListInv, NEW s \in Writers, EndStore(s)
    PROVE  ListInv'
<1>1. stores[s] \in ListStores
    BY DEF EndStore, ListInv, ListTyped
<1>2. /\ kind' = [kind EXCEPT ![stores[s].of] = stores[s].kind]
      /\ stores' = [stores EXCEPT ![s] = None] /\ UNCHANGED <<list, rows, passes, edits, changes>>
    BY DEF EndStore
<1>3. stores[s].of \in Everyone /\ stores[s].kind \in Kinds /\ stores[s].id \in Nat /\ stores[s].version \in Nat
    BY <1>1 DEF ListStores
<1>4. kind' \in [Everyone -> Kinds] /\ stores' \in [Writers -> ListStores \cup {None}] /\ changes' \in Nat
    BY <1>2, <1>3 DEF ListInv, ListTyped
<1>5. CASE stores[s].person
    <2> PICK job : job = [id |-> stores[s].id, version |-> stores[s].version, tries |-> 0]
        OBVIOUS
    <2>1. asked' = asked \cup {job} /\ silent' = {} /\ disturbed' = (disturbed \/ list.version # stores[s].version)
        BY <1>5 DEF EndStore, Ask
    <2>2. job \in ListJobs /\ job.version = stores[s].version
        BY <1>3 DEF ListJobs
    <2>3. ListTyped'
        BY <1>2, <1>4, <2>1, <2>2 DEF ListInv, ListTyped
    <2>4. ASSUME ~disturbed' PROVE OnePass' /\ ListDue'
        <3>1. OnePass /\ list.version = stores[s].version
            BY <2>1, <2>4 DEF ListInv
        <3> QED BY <1>2, <2>1, <2>2, <3>1 DEF OnePass, ListDue
    <2> QED BY <2>3, <2>4 DEF ListInv
<1>6. CASE ~stores[s].person
    <2>1. silent' = silent \cup {stores[s].of} /\ UNCHANGED <<asked, disturbed>>
        BY <1>6 DEF EndStore
    <2> QED BY <1>2, <1>3, <1>4, <2>1, SilentChange
<1> QED BY <1>5, <1>6

-----------------------------------------------------------------------------
(* The steps of refreshes.                                                 *)

LEMMA StartPassStep ==
    ASSUME ListInv, NEW w \in Workers, NEW job \in asked, StartPass(w, job)
    PROVE  ListInv'
<1>1. passes[w] = None /\ asked' = asked \ {job} /\ UNCHANGED <<kind, list, rows, edits, stores, silent, changes>>
    BY DEF StartPass
<1>2. CASE job.version # list.version
    <2>1. UNCHANGED <<passes, disturbed>> /\ (ListDue => ListDue')
        BY <1>1, <1>2 DEF StartPass, ListDue
    <2> QED BY <1>1, <2>1 DEF ListInv, ListTyped, OnePass, PassGoes, PassGood, ListSettled, Selected, Steady
<1>3. CASE job.version = list.version
    <2> PICK x : x = [job |-> job, def |-> list.def, phase |-> "loaded", left |-> Members, found |-> {}, written |-> 0]
        OBVIOUS
    <2>1. passes' = [passes EXCEPT ![w] = x] /\ disturbed' = (disturbed \/ \E v \in Workers : passes[v] # None)
        BY <1>3 DEF StartPass
    <2>2. x \in Passes
        BY ListAssumption DEF ListAssumption, Passes, ListInv, ListTyped, ListRows
    <2>3. x # None
        BY <2>2, ListAssumption DEF ListAssumption
    <2>4. passes' \in [Workers -> Passes \cup {None}] /\ passes'[w] = x /\ \A v \in Workers : v # w => passes'[v] = passes[v]
        BY <2>1, <2>2 DEF ListInv, ListTyped
    <2>5. disturbed' \in BOOLEAN
        BY <2>1
    <2>6. ListTyped'
        BY <1>1, <2>4, <2>5 DEF ListInv, ListTyped
    <2>7. PassGood(x)'
        BY <1>1, <1>3 DEF PassGood, Selected, Steady, Everyone
    <2>8. PassGoes'
        BY <2>3, <2>4, <2>7 DEF PassGoes, PassGood
    <2>9. ~disturbed' => OnePass'
        BY <2>1, <2>4 DEF OnePass
    <2> QED BY <2>6, <2>8, <2>9 DEF ListInv
<1> QED BY <1>2, <1>3

\* A refresh that goes on as good as it was, with the queue as it was.
LEMMA PassGoesOn ==
    ASSUME ListInv, NEW w \in Workers, passes[w] # None, NEW x \in Passes,
           passes' = [passes EXCEPT ![w] = x], list' \in ListRows,
           list'.version = list.version, list'.def = list.def,
           UNCHANGED <<kind, rows, asked, edits, stores, silent, disturbed, changes>>,
           PassGood(passes[w]) => PassGood(x)
    PROVE  ListInv'
<1>1. x # None
    BY ListAssumption DEF ListAssumption
<1>2. passes' \in [Workers -> Passes \cup {None}] /\ passes'[w] = x /\ \A v \in Workers : v # w => passes'[v] = passes[v]
    BY DEF ListInv, ListTyped
<1>3. ListTyped'
    BY <1>2 DEF ListInv, ListTyped
<1>4. ASSUME ~disturbed PROVE OnePass' /\ (ListDue' \/ PassGoes')
    <2>1. OnePass /\ (ListDue \/ PassGoes)
        BY <1>4 DEF ListInv, ListSettled
    <2>2. OnePass'
        BY <1>2, <2>1 DEF OnePass
    <2>3. ListDue => ListDue'
        BY DEF ListDue
    <2>4. ASSUME PassGoes PROVE PassGoes'
        <3>1. PassGood(x)
            BY <2>1, <2>4 DEF PassGoes, OnePass
        <3>2. PassGood(x)'
            BY <3>1 DEF PassGood, Selected, Steady
        <3> QED BY <1>1, <1>2, <3>2 DEF PassGoes, PassGood
    <2> QED BY <2>1, <2>2, <2>3, <2>4
<1> QED BY <1>3, <1>4 DEF ListInv

LEMMA MarkStep ==
    ASSUME ListInv, NEW w \in Workers, MarkRefreshing(w)
    PROVE  ListInv'
<1>1. passes[w] # None /\ passes[w] \in Passes /\ list' = [list EXCEPT !.state = "refreshing"]
      /\ UNCHANGED <<kind, rows, asked, edits, stores, silent, disturbed, changes>>
    BY DEF MarkRefreshing, ListInv, ListTyped
<1> PICK x : x = [passes[w] EXCEPT !.phase = "evaluating"]
    OBVIOUS
<1>2. passes' = [passes EXCEPT ![w] = x]
    BY DEF MarkRefreshing, ListInv, ListTyped
<1>3. x \in Passes /\ x.phase = "evaluating" /\ x.job = passes[w].job /\ x.def = passes[w].def
      /\ x.found = passes[w].found /\ x.left = passes[w].left
    BY <1>1 DEF Passes
<1>4. PassGood(passes[w]) => PassGood(x)
    BY <1>3 DEF PassGood
<1>5. list' \in ListRows /\ list'.version = list.version /\ list'.def = list.def
    BY <1>1 DEF ListInv, ListTyped, ListRows
<1> QED BY <1>1, <1>2, <1>3, <1>4, <1>5, PassGoesOn

LEMMA EvaluateStep ==
    ASSUME ListInv, NEW w \in Workers, EvaluatePage(w)
    PROVE  ListInv'
<1>1. passes[w] # None /\ passes[w] \in Passes /\ passes[w].phase = "evaluating" /\ passes[w].left # <<>>
      /\ UNCHANGED <<kind, list, rows, asked, edits, stores, silent, disturbed, changes>>
    BY DEF EvaluatePage, ListInv, ListTyped
<1> PICK left, found : left = passes[w].left /\ found = passes[w].found
    OBVIOUS
<1> PICK more : more = IF kind[Head(left)] \in passes[w].def THEN found \cup {Head(left)} ELSE found
    OBVIOUS
<1> PICK x : x = [passes[w] EXCEPT !.left = Tail(left), !.found = more]
    OBVIOUS
<1>2. passes' = [passes EXCEPT ![w] = x]
    BY DEF EvaluatePage, ListInv, ListTyped
<1>3. left \in Seq(Everyone) /\ left # <<>> /\ found \subseteq Everyone
    BY <1>1 DEF Passes
<1>4. Head(left) \in Everyone /\ Tail(left) \in Seq(Everyone) /\ Range(left) = {Head(left)} \cup Range(Tail(left))
    BY <1>3, HeadAndTail
<1>5. x \in Passes /\ x.phase = "evaluating" /\ x.job = passes[w].job /\ x.def = passes[w].def
      /\ x.found = more /\ x.left = Tail(left)
    BY <1>1, <1>3, <1>4 DEF Passes
<1>6. ASSUME PassGood(passes[w]) PROVE PassGood(x)
    <2>1. /\ passes[w].job.version = list.version /\ passes[w].def = list.def
          /\ found \cap Steady \subseteq Selected /\ Selected \cap Steady \subseteq found \cup Range(left)
        BY <1>6 DEF PassGood
    <2>2. more \cap Steady \subseteq Selected /\ Selected \cap Steady \subseteq more \cup Range(Tail(left))
        BY <1>4, <2>1 DEF Selected
    <2> QED BY <1>5, <2>1, <2>2 DEF PassGood
<1>7. list' \in ListRows /\ list'.version = list.version /\ list'.def = list.def
    BY <1>1 DEF ListInv, ListTyped
<1> QED BY <1>1, <1>2, <1>5, <1>6, <1>7, PassGoesOn

\* A refresh that ends: what it leaves is due again, or settled, if it was good.
LEMMA PassEnds ==
    ASSUME ListInv, NEW w \in Workers, passes[w] # None, passes' = [passes EXCEPT ![w] = None],
           asked' \subseteq ListJobs, list' \in ListRows, list'.version = list.version, list'.def = list.def,
           rows'.members \subseteq Everyone, rows'.written \in Nat, disturbed' \in BOOLEAN,
           UNCHANGED <<kind, edits, stores, silent, changes>>,
           asked \subseteq asked', disturbed => disturbed',
           PassGood(passes[w]) /\ ~disturbed' => ListDue' \/ (list'.state = "ready" /\ rows'.members \cap Steady = Selected \cap Steady)
    PROVE  ListInv'
<1>1. passes' \in [Workers -> Passes \cup {None}] /\ passes'[w] = None /\ \A v \in Workers : v # w => passes'[v] = passes[v]
    BY DEF ListInv, ListTyped
<1>2. ListTyped'
    BY <1>1 DEF ListInv, ListTyped
<1>3. ASSUME ~disturbed' PROVE OnePass' /\ (ListDue' \/ ListSettled')
    <2>1. OnePass /\ (ListDue \/ PassGoes)
        BY <1>3 DEF ListInv, ListSettled
    <2>2. \A v \in Workers : passes'[v] = None
        BY <1>1, <2>1 DEF OnePass
    <2>3. ListDue => ListDue'
        BY DEF ListDue
    <2>4. PassGoes => PassGood(passes[w])
        BY <2>1 DEF PassGoes, OnePass
    <2>5. Selected' = Selected /\ Steady' = Steady
        BY DEF Selected, Steady
    <2> QED BY <1>3, <2>1, <2>2, <2>3, <2>4, <2>5 DEF OnePass, ListSettled
<1> QED BY <1>2, <1>3 DEF ListInv

LEMMA BeginWritingStep ==
    ASSUME ListInv, NEW w \in Workers, BeginWriting(w)
    PROVE  ListInv'
<1>1. passes[w] # None /\ passes[w] \in Passes /\ passes[w].phase = "evaluating" /\ passes[w].left = <<>>
      /\ UNCHANGED <<kind, list, rows, asked, edits, stores, silent, disturbed, changes>>
    BY DEF BeginWriting, ListInv, ListTyped
<1>2. asked' \subseteq ListJobs /\ list' \in ListRows /\ list'.version = list.version /\ list'.def = list.def
      /\ rows'.members \subseteq Everyone /\ rows'.written \in Nat /\ disturbed' \in BOOLEAN
    BY <1>1 DEF ListInv, ListTyped
<1>3. CASE passes[w].job.version # list.version
    <2>1. passes' = [passes EXCEPT ![w] = None]
        BY <1>3 DEF BeginWriting
    <2>2. ~PassGood(passes[w])
        BY <1>3 DEF PassGood
    <2> QED BY <1>1, <1>2, <2>1, <2>2, PassEnds
<1>4. CASE passes[w].job.version = list.version
    <2> PICK x : x = [passes[w] EXCEPT !.phase = "writing", !.written = rows.written]
        OBVIOUS
    <2>1. passes' = [passes EXCEPT ![w] = x]
        BY <1>4 DEF BeginWriting
    <2>2. x \in Passes /\ x.phase = "writing" /\ x.job = passes[w].job /\ x.def = passes[w].def
          /\ x.found = passes[w].found /\ x.left = <<>> /\ x.written = rows.written
        BY <1>1 DEF Passes, ListInv, ListTyped
    <2>3. PassGood(passes[w]) => PassGood(x)
        BY <1>1, <2>2 DEF PassGood
    <2> QED BY <1>1, <1>2, <2>1, <2>2, <2>3, PassGoesOn
<1> QED BY <1>3, <1>4

\* The rows of the list become what the refresh has found, if no other has written since it counted them.
LEMMA EndWritingStep ==
    ASSUME ListInv, NEW w \in Workers, EndWriting(w)
    PROVE  ListInv'
<1>1. passes[w] # None /\ passes[w] \in Passes /\ passes[w].phase = "writing"
      /\ rows' = [members |-> NotDeleted(w) \cup passes[w].found, written |-> rows.written + 1]
      /\ list' = [list EXCEPT !.state = "ready"] /\ passes' = [passes EXCEPT ![w] = None]
      /\ UNCHANGED <<kind, asked, edits, stores, silent, disturbed, changes>>
    BY DEF EndWriting, ListInv, ListTyped
<1>2. rows.members \subseteq Everyone /\ rows.written \in Nat /\ passes[w].found \subseteq Everyone
    BY <1>1 DEF ListInv, ListTyped, Passes
<1>3. rows'.members \subseteq Everyone /\ rows'.written \in Nat
    BY <1>1, <1>2 DEF NotDeleted
<1>4. list' \in ListRows /\ list'.version = list.version /\ list'.def = list.def /\ list'.state = "ready"
    BY <1>1 DEF ListInv, ListTyped, ListRows
<1>5. ASSUME PassGood(passes[w]) PROVE rows'.members \cap Steady = Selected \cap Steady
    <2>1. passes[w].left = <<>> /\ passes[w].written = rows.written
          /\ passes[w].found \cap Steady \subseteq Selected
          /\ Selected \cap Steady \subseteq passes[w].found \cup Range(passes[w].left)
        BY <1>1, <1>5 DEF PassGood
    <2>2. Range(<<>>) = {}
        BY DEF Range
    <2>3. NotDeleted(w) = {}
        BY <2>1 DEF NotDeleted
    <2> QED BY <1>1, <2>1, <2>2, <2>3
<1>6. asked' \subseteq ListJobs /\ disturbed' \in BOOLEAN
    BY <1>1 DEF ListInv, ListTyped
<1> QED BY <1>1, <1>3, <1>4, <1>5, <1>6, PassEnds

LEMMA FailStep ==
    ASSUME ListInv, NEW w \in Workers, FailPass(w)
    PROVE  ListInv'
<1>1. passes[w] # None /\ passes[w] \in Passes /\ passes' = [passes EXCEPT ![w] = None]
      /\ UNCHANGED <<kind, rows, edits, stores, silent, changes>>
    BY DEF FailPass, ListInv, ListTyped
<1> PICK job : job = passes[w].job
    OBVIOUS
<1> PICK next : next = [job EXCEPT !.tries = @ + 1]
    OBVIOUS
<1>2. job \in ListJobs
    BY <1>1 DEF Passes
<1>3. next \in ListJobs /\ next.version = job.version
    <2> PICK n : n = job.tries + 1
        OBVIOUS
    <2>1. n \in Nat /\ next = [job EXCEPT !.tries = n]
        BY <1>2 DEF ListJobs
    <2> QED BY <1>2, <2>1 DEF ListJobs
<1>4. asked' = asked \/ asked' = asked \cup {next}
    BY DEF FailPass
<1>5. list' = [list EXCEPT !.state = "failed"] \/ list' = list
    BY DEF FailPass
<1>6. list' \in ListRows /\ list'.version = list.version /\ list'.def = list.def
    BY <1>5 DEF ListInv, ListTyped, ListRows
<1>7. disturbed' = (disturbed \/ ~(job.tries + 1 < MaxRefreshes)) /\ (job.tries + 1 < MaxRefreshes => asked' = asked \cup {next})
    BY DEF FailPass
<1>8. ASSUME PassGood(passes[w]), ~disturbed' PROVE ListDue'
    <2>1. asked' = asked \cup {next} /\ job.version = list.version
        BY <1>7, <1>8 DEF PassGood
    <2> QED BY <1>3, <1>6, <2>1 DEF ListDue
<1>9. asked' \subseteq ListJobs /\ disturbed' \in BOOLEAN /\ rows'.members \subseteq Everyone /\ rows'.written \in Nat
      /\ asked \subseteq asked' /\ (disturbed => disturbed')
    BY <1>1, <1>3, <1>4, <1>7 DEF ListInv, ListTyped
<1> QED BY <1>1, <1>6, <1>8, <1>9, PassEnds

LEMMA ListStep == ListInv /\ [ListNext]_listVars => ListInv'
<1> SUFFICES ASSUME ListInv, [ListNext]_listVars PROVE ListInv'
    OBVIOUS
<1>1. ASSUME NEW e \in Editors, NEW def \in Definitions \cup {None}, ReadList(e, def) PROVE ListInv'
    BY <1>1, ReadListStep
<1>2. ASSUME NEW e \in Editors, Rename(e) \/ Redefine(e) PROVE ListInv'
    BY <1>2, RenameStep, RedefineStep
<1>3. ASSUME NEW s \in Writers, NEW m \in Everyone, NEW k \in Kinds, NEW person \in BOOLEAN,
             BeginStore(s, m, k, person) PROVE ListInv'
    BY <1>3, BeginStoreStep
<1>4. ASSUME NEW s \in Writers, EndStore(s) PROVE ListInv'
    BY <1>4, EndStoreStep
<1>8. ASSUME NEW m \in Everyone, NEW k \in Kinds, Derive(m, k) PROVE ListInv'
    BY <1>8, DeriveStep
<1>5. ASSUME NEW w \in Workers, NEW job \in asked, StartPass(w, job) PROVE ListInv'
    BY <1>5, StartPassStep
<1>6. ASSUME NEW w \in Workers, MarkRefreshing(w) \/ EvaluatePage(w) \/ BeginWriting(w) \/ EndWriting(w) \/ FailPass(w)
      PROVE  ListInv'
    BY <1>6, MarkStep, EvaluateStep, BeginWritingStep, EndWritingStep, FailStep
<1>7. CASE UNCHANGED listVars
    BY <1>7 DEF listVars, ListInv, ListTyped, OnePass, ListDue, PassGoes, PassGood, ListSettled, Selected, Steady
<1> QED BY <1>1, <1>2, <1>3, <1>4, <1>5, <1>6, <1>7, <1>8 DEF ListNext

\* Whatever updates, record writes, derived values, refreshes, failures and retries there were: a list
\* nobody asks to refresh any more is ready and tells of every record whether its definition selects it,
\* apart from those changed since by who asks for no refresh, and if none of the races that the code
\* does not order has happened (lists/dynamic-refresh.ts).
THEOREM QuietListIsExact == ListSpec => []QuietListExact
<1>1. ListInit => ListInv
    <2> SUFFICES ASSUME ListInit PROVE ListInv
        OBVIOUS
    <2>1. list \in ListRows /\ list.version = 1
        BY DEF ListInit, ListRows
    <2>2. [id |-> 0, version |-> 1, tries |-> 0] \in ListJobs
        BY DEF ListJobs
    <2>3. kind \in [Everyone -> Kinds]
        BY DEF ListInit
    <2>4. ListTyped /\ OnePass
        BY <2>1, <2>2, <2>3 DEF ListInit, ListTyped, OnePass
    <2>5. ListDue
        BY <2>1 DEF ListInit, ListDue
    <2> QED BY <2>4, <2>5 DEF ListInv
<1>2. ListInv /\ [ListNext]_listVars => ListInv'
    BY ListStep
<1>3. ListInv => QuietListExact
    BY DEF ListInv, QuietListExact, ListDue, PassGoes, ListSettled, Selected, Steady
<1> QED BY <1>1, <1>2, <1>3, PTL DEF ListSpec
-----------------------------------------------------------------------------
(* Derived: what keeps a derived value from being forgotten.  A record is   *)
(* awaited if a queued job or one that has only begun will read it; the     *)
(* one run that holds the lock has some still to handle; of every other     *)
(* record the value fits its sources, as they will be when that run commits. *)

Covering(it) == it.ids \cap (it.job.of \cup Neighbours(it.job.of))
Begun(w) == runs[w] # None /\ runs[w].phase = "begun"
HasLock(w) == runs[w] # None /\ runs[w].phase # "begun"
Awaited(r) == \/ r \in owed
              \/ \E job \in waiting : r \in job.of \cup Neighbours(job.of)
              \/ \E w \in Workers : Begun(w) /\ r \in Covering(runs[w])
Tied(x, y) == <<x, y>> \in tied \/ <<y, x>> \in tied
Live(r) == item[r].status = "live"

\* The derived value of r fits the own values O, where L are the records linked to it.
Fits(r, L, O, out) ==
    IF r \notin Parents THEN out = O[r]
    ELSE (L = {} => out = None) /\ \A c \in L : L = {c} => out = O[c]
OwnNow == [c \in Records |-> item[c].own]
OwnThen(w) == [c \in Records |-> IF c \in DOMAIN runs[w].wrote THEN runs[w].wrote[c].own ELSE item[c].own]
OutThen(w, r) == IF r \in DOMAIN runs[w].wrote THEN runs[w].wrote[r].out ELSE item[r].out
ToHandle(it) == IF it.phase = "reading" THEN it.ids ELSE it.todo

DerivedTyped ==
    /\ item \in [Records -> ItemStates] /\ tied \subseteq Records \X Records
    /\ waiting \subseteq Requests /\ runs \in [Workers -> Refreshes \cup {None}] /\ writes \in Nat
OneHolder == \A v, w \in Workers : HasLock(v) /\ HasLock(w) => v = w
RunGoes(w) ==
    /\ Begun(w) => runs[w].unread = Types /\ DOMAIN runs[w].read = {} /\ DOMAIN runs[w].wrote = {}
    /\ HasLock(w) =>
          /\ \A c \in DOMAIN runs[w].wrote : c \in DOMAIN runs[w].read \ runs[w].todo /\ runs[w].wrote[c].own = runs[w].read[c].own
          /\ runs[w].phase = "reading" => DOMAIN runs[w].wrote = {}
          /\ runs[w].phase = "computing" => runs[w].unread = {} /\ runs[w].todo \subseteq DOMAIN runs[w].read
          /\ \A r \in runs[w].ids : Live(r) /\ (\A T \in runs[w].unread : r \notin T) => r \in DOMAIN runs[w].read
RunsGo == \A w \in Workers : RunGoes(w)
\* Unless it is awaited, a record is as the run that holds the lock has read it.
ReadsHold ==
    \A w \in Workers : HasLock(w) =>
        \A c \in DOMAIN runs[w].read :
            Live(c) => \/ item[c] = runs[w].read[c]
                       \/ Awaited(c) /\ \A y \in Records : Tied(c, y) => Awaited(y)
NowFits ==
    \A r \in Records : Live(r) =>
        \/ Awaited(r) \/ \E w \in Workers : HasLock(w) /\ r \in Covering(runs[w])
        \/ Fits(r, Linked(r), OwnNow, item[r].out)
ThenFits ==
    \A w \in Workers : HasLock(w) =>
        \A r \in Records : Live(r) =>
            Awaited(r) \/ r \in ToHandle(runs[w]) \/ Fits(r, Linked(r), OwnThen(w), OutThen(w, r))
DerivedInv == DerivedTyped /\ OneHolder /\ RunsGo /\ ReadsHold /\ NowFits /\ ThenFits

LEMMA PartIs ==
    ASSUME NEW T, NEW f
    PROVE  /\ \A S \in SUBSET Records : f \in [S -> T] => f \in PartOf(T)
           /\ f \in PartOf(T) => f \in [DOMAIN f -> T] /\ DOMAIN f \subseteq Records
BY DEF PartOf

LEMMA RunTyped ==
    ASSUME NEW it \in Refreshes
    PROVE  /\ it = [job |-> it.job, ids |-> it.ids, phase |-> it.phase, unread |-> it.unread, read |-> it.read,
                     todo |-> it.todo, wrote |-> it.wrote, state |-> it.state]
           /\ it.job \in Requests /\ it.ids \subseteq Records /\ it.phase \in {"begun", "reading", "computing"}
           /\ it.unread \subseteq Types /\ it.read \in PartOf(ItemStates) /\ it.todo \subseteq Records
           /\ it.wrote \in PartOf([own : Values \cup {None}, out : Values \cup {None}])
           /\ it.state \in {None, "ready", "failed"} /\ it # None
BY DerivedAssumption DEF Refreshes

LEMMA BusyTyped ==
    ASSUME DerivedTyped, NEW w \in Workers PROVE runs[w] # None <=> runs[w] \in Refreshes
BY DerivedAssumption DEF DerivedTyped

LEMMA NeighboursJoin ==
    ASSUME NEW S, NEW r PROVE r \in Neighbours(S) <=> r \in Records /\ \E s \in S : Tied(r, s)
BY DEF Neighbours, Tied

-----------------------------------------------------------------------------
(* Steps of callers *)

\* What they have in common: who loses or gets a link, and who changes and its neighbours, is awaited.
CallersStep ==
    /\ UNCHANGED <<runs, state>> /\ waiting \subseteq waiting' /\ owed \subseteq owed'
    /\ waiting' \subseteq Requests /\ item' \in [Records -> ItemStates] /\ tied' \subseteq Records \X Records /\ writes' \in Nat
    /\ \A x, y \in Records : (<<x, y>> \in tied) # (<<x, y>> \in tied') => Awaited(x)' /\ Awaited(y)'
    /\ \A x \in Records : item'[x] # item[x] =>
          /\ Awaited(x)' /\ \A y \in Records : Tied(x, y) => Awaited(y)'
          /\ \A w \in Workers : runs[w] # None => x \notin DOMAIN runs[w].wrote
          /\ item'[x].status = "live" => item[x].status = "live"

LEMMA CallersKeepAwaited ==
    ASSUME DerivedTyped, CallersStep, NEW r \in Records
    PROVE  /\ Awaited(r) => Awaited(r)'
           /\ \A w \in Workers : runs[w] # None /\ r \in Covering(runs[w]) => r \in Covering(runs[w])' \/ Awaited(r)'
           /\ \A y \in Records : Tied(r, y)' => Tied(r, y) \/ (Awaited(r)' /\ Awaited(y)')
<1>1. ASSUME NEW S \in SUBSET Records, r \in S \cup Neighbours(S) PROVE r \in S \cup Neighbours(S)' \/ Awaited(r)'
    <2>1. CASE r \in S
        BY <2>1
    <2>2. CASE r \notin S
        <3>1. PICK s \in S : Tied(r, s)
            BY <1>1, <2>2, NeighboursJoin
        <3>2. s \in Records
            OBVIOUS
        <3>3. CASE Tied(r, s)'
            BY <3>3 DEF Neighbours, Tied
        <3>4. CASE ~Tied(r, s)'
            BY <3>1, <3>2, <3>4 DEF Tied, CallersStep
        <3> QED BY <3>3, <3>4
    <2> QED BY <2>1, <2>2
<1>2. \A job \in waiting : job.of \in SUBSET Records
    BY DEF DerivedTyped, Requests
<1>3. \A w \in Workers : runs[w] # None => runs[w].job.of \in SUBSET Records
    BY BusyTyped, RunTyped DEF Requests
<1>4. ASSUME NEW w \in Workers, r \in Covering(runs[w]), runs[w] # None PROVE r \in Covering(runs[w])' \/ Awaited(r)'
    <2>1. runs[w].job.of \in SUBSET Records /\ r \in runs[w].ids /\ r \in runs[w].job.of \cup Neighbours(runs[w].job.of)
        BY <1>3, <1>4 DEF Covering
    <2>2. runs'[w] = runs[w]
        BY DEF CallersStep
    <2>3. PICK S \in SUBSET Records : S = runs[w].job.of
        BY <2>1
    <2>4. r \in S \cup Neighbours(S)' \/ Awaited(r)'
        BY <1>1, <2>1, <2>3
    <2>5. Neighbours(S)' = Neighbours(runs[w].job.of)'
        BY <2>2, <2>3
    <2> QED BY <2>1, <2>2, <2>3, <2>4, <2>5 DEF Covering
<1>5. ASSUME Awaited(r) PROVE Awaited(r)'
    <2>1. CASE r \in owed
        BY <2>1 DEF CallersStep, Awaited
    <2>2. ASSUME NEW job \in waiting, r \in job.of \cup Neighbours(job.of) PROVE Awaited(r)'
        <3>1. PICK S \in SUBSET Records : S = job.of
            BY <1>2
        <3>2. r \in S \cup Neighbours(S)' \/ Awaited(r)'
            BY <1>1, <2>2, <3>1
        <3>3. job \in waiting'
            BY DEF CallersStep
        <3> QED BY <3>1, <3>2, <3>3 DEF Awaited
    <2>3. ASSUME NEW w \in Workers, Begun(w), r \in Covering(runs[w]) PROVE Awaited(r)'
        <3>1. Begun(w)'
            BY <2>3 DEF CallersStep, Begun
        <3> QED BY <1>4, <2>3, <3>1 DEF Awaited, Begun
    <2> QED BY <1>5, <2>1, <2>2, <2>3 DEF Awaited
<1>6. ASSUME NEW y \in Records, Tied(r, y)' PROVE Tied(r, y) \/ (Awaited(r)' /\ Awaited(y)')
    BY <1>6 DEF Tied, CallersStep
<1> QED BY <1>4, <1>5, <1>6

LEMMA CallersKeep == DerivedInv /\ CallersStep => DerivedInv'
<1> SUFFICES ASSUME DerivedInv, CallersStep PROVE DerivedInv'
    OBVIOUS
<1>0. DerivedTyped
    BY DEF DerivedInv
<1>1. runs' = runs /\ (\A w \in Workers : (Begun(w)' <=> Begun(w)) /\ (HasLock(w)' <=> HasLock(w)))
    BY DEF CallersStep, Begun, HasLock
<1>2. \A r \in Records : Live(r)' => Live(r)
    BY DEF CallersStep, Live
<1>3. DerivedTyped' /\ OneHolder'
    BY <1>1 DEF DerivedInv, CallersStep, DerivedTyped, OneHolder
<1>4. RunsGo'
    <2>1. ASSUME NEW w \in Workers, HasLock(w), NEW r \in runs[w].ids, Live(r)', \A T \in runs[w].unread : r \notin T
          PROVE  r \in DOMAIN runs[w].read
        <3>1. r \in Records
            BY <1>0, <2>1, BusyTyped, RunTyped DEF HasLock
        <3> QED BY <1>2, <2>1, <3>1 DEF DerivedInv, RunsGo, RunGoes
    <2>2. ASSUME NEW w \in Workers, HasLock(w)
          PROVE  /\ \A c \in DOMAIN runs[w].wrote : c \in DOMAIN runs[w].read \ runs[w].todo /\ runs[w].wrote[c].own = runs[w].read[c].own
                 /\ runs[w].phase = "reading" => DOMAIN runs[w].wrote = {}
                 /\ runs[w].phase = "computing" => runs[w].unread = {} /\ runs[w].todo \subseteq DOMAIN runs[w].read
        BY <2>2 DEF DerivedInv, RunsGo, RunGoes
    <2>3. ASSUME NEW w \in Workers, Begun(w)
          PROVE  runs[w].unread = Types /\ DOMAIN runs[w].read = {} /\ DOMAIN runs[w].wrote = {}
        BY <2>3 DEF DerivedInv, RunsGo, RunGoes
    <2> QED BY <1>1, <2>1, <2>2, <2>3 DEF RunsGo, RunGoes
\* Of a record that is not awaited afterwards, nothing has changed.
<1>5. ASSUME NEW r \in Records, ~Awaited(r)'
      PROVE  /\ ~Awaited(r) /\ item'[r] = item[r]
             /\ \A y \in Records : Tied(r, y)' <=> Tied(r, y)
             /\ \A y \in Records : Tied(r, y) => item'[y] = item[y]
    <2>1. ~Awaited(r)
        BY <1>0, <1>5, CallersKeepAwaited
    <2>2. \A y \in Records : Tied(r, y)' <=> Tied(r, y)
        BY <1>5 DEF Tied, CallersStep
    <2>3. \A y \in Records : Tied(r, y) => Tied(y, r)
        BY DEF Tied
    <2> QED BY <1>5, <2>1, <2>2, <2>3 DEF CallersStep
<1>6. ReadsHold'
    <2> SUFFICES ASSUME NEW w \in Workers, HasLock(w)', NEW c \in DOMAIN runs'[w].read, Live(c)', ~(item'[c] = runs'[w].read[c])
                 PROVE  Awaited(c)' /\ \A y \in Records : Tied(c, y)' => Awaited(y)'
        BY DEF ReadsHold
    <2>1. HasLock(w) /\ c \in DOMAIN runs[w].read /\ item'[c] # runs[w].read[c]
        BY <1>1
    <2>2. c \in Records
        <3>1. runs[w].read \in PartOf(ItemStates)
            BY <1>0, <2>1, BusyTyped, RunTyped DEF HasLock
        <3> QED BY <2>1, <3>1, PartIs
    <2>3. CASE item'[c] = item[c]
        <3>1. Awaited(c) /\ \A y \in Records : Tied(c, y) => Awaited(y)
            BY <1>2, <2>1, <2>2, <2>3 DEF DerivedInv, ReadsHold
        <3> QED BY <1>0, <2>2, <3>1, CallersKeepAwaited
    <2>4. CASE item'[c] # item[c]
        <3>1. Awaited(c)' /\ \A y \in Records : Tied(c, y) => Awaited(y)'
            BY <2>2, <2>4 DEF CallersStep
        <3> QED BY <1>0, <2>2, <3>1, CallersKeepAwaited
    <2> QED BY <2>3, <2>4
<1>7. ASSUME NEW r \in Records, ~Awaited(r)' PROVE Linked(r)' = Linked(r) /\ \A c \in Linked(r) : item'[c] = item[c]
    <2>1. \A c \in Linked(r) : c \in Records /\ Tied(r, c)
        BY DEF Linked, Tied
    <2>2. \A c \in Linked(r) : item'[c] = item[c]
        BY <1>5, <1>7, <2>1
    <2>3. \A c \in Records : <<c, r>> \in tied' <=> <<c, r>> \in tied
        BY <1>7 DEF CallersStep
    <2>4. ASSUME NEW c \in Records PROVE c \in Linked(r)' <=> c \in Linked(r)
        <3>1. CASE <<c, r>> \in tied
            <4>1. item'[c] = item[c]
                BY <1>5, <1>7, <3>1 DEF Tied
            <4> QED BY <2>3, <3>1, <4>1 DEF Linked
        <3>2. CASE <<c, r>> \notin tied
            BY <2>3, <3>2 DEF Linked
        <3> QED BY <3>1, <3>2
    <2>5. Linked(r)' \subseteq Records /\ Linked(r) \subseteq Records
        BY DEF Linked
    <2> QED BY <2>2, <2>4, <2>5
<1>8. ASSUME NEW r \in Records, NEW L \in SUBSET Records, NEW O, NEW P, NEW out, Fits(r, L, O, out), O[r] = P[r], \A c \in L : O[c] = P[c]
      PROVE  Fits(r, L, P, out)
    BY <1>8 DEF Fits
<1>9. NowFits'
    <2> SUFFICES ASSUME NEW r \in Records, Live(r)', ~Awaited(r)', \A w \in Workers : HasLock(w)' => r \notin Covering(runs[w])'
                 PROVE  Fits(r, Linked(r)', OwnNow', item'[r].out)
        BY DEF NowFits, Fits
    <2>1. ~Awaited(r) /\ item'[r] = item[r] /\ Live(r)
        BY <1>2, <1>5
    <2>2. \A w \in Workers : HasLock(w) => r \notin Covering(runs[w])
        BY <1>0, <1>1, CallersKeepAwaited DEF HasLock
    <2>3. Fits(r, Linked(r), OwnNow, item[r].out)
        BY <2>1, <2>2 DEF DerivedInv, NowFits
    <2>4. Linked(r)' = Linked(r) /\ Linked(r) \subseteq Records /\ \A c \in Linked(r) : item'[c] = item[c]
        BY <1>7 DEF Linked
    <2>5. OwnNow'[r] = OwnNow[r] /\ \A c \in Linked(r) : OwnNow'[c] = OwnNow[c]
        BY <2>1, <2>4 DEF OwnNow
    <2> QED BY <1>8, <2>1, <2>3, <2>4, <2>5
<1>10. ThenFits'
    <2> SUFFICES ASSUME NEW w \in Workers, HasLock(w)', NEW r \in Records, Live(r)', ~Awaited(r)', r \notin ToHandle(runs[w])'
                 PROVE  Fits(r, Linked(r)', OwnThen(w)', OutThen(w, r)')
        BY DEF ThenFits, Fits
    <2>1. ~Awaited(r) /\ item'[r] = item[r] /\ Live(r) /\ HasLock(w) /\ r \notin ToHandle(runs[w])
        BY <1>1, <1>2, <1>5 DEF ToHandle
    <2>2. Fits(r, Linked(r), OwnThen(w), OutThen(w, r))
        BY <2>1 DEF DerivedInv, ThenFits
    <2>3. Linked(r)' = Linked(r) /\ Linked(r) \subseteq Records /\ \A c \in Linked(r) : item'[c] = item[c]
        BY <1>7 DEF Linked
    <2>4. OwnThen(w)'[r] = OwnThen(w)[r] /\ \A c \in Linked(r) : OwnThen(w)'[c] = OwnThen(w)[c]
        BY <1>1, <2>1, <2>3 DEF OwnThen
    <2>5. OutThen(w, r)' = OutThen(w, r)
        BY <1>1, <2>1 DEF OutThen
    <2> QED BY <1>8, <2>2, <2>3, <2>4, <2>5
<1> QED BY <1>3, <1>4, <1>6, <1>9, <1>10 DEF DerivedInv

LEMMA QueuedAwaited ==
    ASSUME NEW S \in SUBSET Records, writes \in Nat, Queued(S, 0) \in waiting'
    PROVE  /\ Queued(S, 0) \in Requests
           /\ \A x \in S : Awaited(x)'
           /\ \A x \in Neighbours(S)' : Awaited(x)'
<1>1. Queued(S, 0) \in Requests /\ Queued(S, 0).of = S
    BY DEF Queued, Requests
<1>2. PICK job \in waiting' : job.of = S
    BY <1>1
<1> QED BY <1>1, <1>2 DEF Awaited

LEMMA StoreStep ==
    ASSUME DerivedTyped, NEW r \in Records, NEW v \in Values, NEW person \in BOOLEAN, Store(r, v, person)
    PROVE  CallersStep
<1>1. writes \in Nat /\ writes' \in Nat
    BY DEF DerivedTyped, Store, Count
<1>2. item[r] \in ItemStates /\ item' = [item EXCEPT ![r].own = v] /\ UNCHANGED <<tied, runs, state>>
    BY DEF DerivedTyped, Store
<1>3. item' \in [Records -> ItemStates] /\ item'[r].status = item[r].status /\ \A x \in Records \ {r} : item'[x] = item[x]
    <2>1. [item[r] EXCEPT !.own = v] \in ItemStates
        BY <1>2 DEF ItemStates
    <2> QED BY <1>2, <2>1 DEF DerivedTyped, ItemStates
<1>4. waiting' \subseteq waiting \cup {Queued({r}, 0)} /\ waiting \subseteq waiting' /\ owed \subseteq owed'
    BY DEF Store
<1>5. Queued({r}, 0) \in Requests
    BY <1>1 DEF Queued, Requests
<1>6. Awaited(r)' /\ \A y \in Records : Tied(r, y) => Awaited(y)'
    <2>1. \A y \in Records : Tied(r, y) => y \in Neighbours({r}) /\ y \in Neighbours({r})'
        BY <1>2 DEF Tied, Neighbours
    <2>2. CASE person
        BY <1>1, <2>1, <2>2, QueuedAwaited DEF Store
    <2>3. CASE ~person
        BY <2>1, <2>3 DEF Store, Awaited
    <2> QED BY <2>2, <2>3
<1>7. \A w \in Workers : runs[w] # None => r \notin DOMAIN runs[w].wrote
    BY DEF Store, Unlocked
<1> QED BY <1>1, <1>2, <1>3, <1>4, <1>5, <1>6, <1>7 DEF CallersStep, DerivedTyped

LEMMA TieStep ==
    ASSUME DerivedTyped, NEW c \in Records, NEW p \in Records, Tie(c, p)
    PROVE  CallersStep
<1>1. writes \in Nat /\ writes' \in Nat
    BY DEF DerivedTyped, Tie, Count
<1>2. tied' \subseteq Records \X Records /\ UNCHANGED <<item, runs, state, owed>>
    BY DEF DerivedTyped, Tie
<1>3. waiting' = waiting \cup {Queued({c, p}, 0)}
    BY DEF Tie
<1>4. Queued({c, p}, 0) \in Requests /\ Awaited(c)' /\ Awaited(p)'
    BY <1>1, <1>3, QueuedAwaited
<1>5. \A x, y \in Records : (<<x, y>> \in tied) # (<<x, y>> \in tied') => x = c /\ y = p
    BY DEF Tie
<1> QED BY <1>1, <1>2, <1>3, <1>4, <1>5 DEF CallersStep, DerivedTyped

\* Deleting and erasing end the record's links.
LEMMA EndedTies ==
    ASSUME DerivedTyped, NEW r \in Records, tied' = {t \in tied : r \notin {t[1], t[2]}}
    PROVE  /\ tied' \subseteq Records \X Records
           /\ \A x, y \in Records : (<<x, y>> \in tied) # (<<x, y>> \in tied') =>
                 x \in {r} \cup Neighbours({r}) /\ y \in {r} \cup Neighbours({r})
<1>1. \A x, y \in Records : <<x, y>> \in tied' <=> <<x, y>> \in tied /\ r # x /\ r # y
    OBVIOUS
<1> QED BY <1>1 DEF DerivedTyped, Neighbours

LEMMA DeleteStep ==
    ASSUME DerivedTyped, NEW r \in Records, Delete(r)
    PROVE  CallersStep
<1>1. writes \in Nat /\ writes' \in Nat
    BY DEF DerivedTyped, Delete, Count
<1>2. item' = [item EXCEPT ![r].status = "deleted"] /\ item[r] \in ItemStates /\ item[r].status = "live" /\ UNCHANGED <<runs, state, owed>>
    BY DEF DerivedTyped, Delete
<1>3. item' \in [Records -> ItemStates] /\ \A x \in Records \ {r} : item'[x] = item[x]
    <2>1. [item[r] EXCEPT !.status = "deleted"] \in ItemStates
        BY <1>2 DEF ItemStates
    <2> QED BY <1>2, <2>1 DEF DerivedTyped
<1>4. waiting' = waiting \cup {Queued({r} \cup Neighbours({r}), 0)}
    BY DEF Delete
<1>5. {r} \cup Neighbours({r}) \in SUBSET Records
    BY DEF Neighbours
<1>6. Queued({r} \cup Neighbours({r}), 0) \in Requests /\ \A x \in {r} \cup Neighbours({r}) : Awaited(x)'
    <2>1. PICK S \in SUBSET Records : S = {r} \cup Neighbours({r})
        BY <1>5
    <2>2. Queued(S, 0) \in waiting'
        BY <1>4, <2>1
    <2>3. Queued(S, 0) \in Requests /\ \A x \in S : Awaited(x)'
        BY <1>1, <2>2, QueuedAwaited
    <2> QED BY <2>1, <2>3
<1>7. tied' \subseteq Records \X Records /\ \A x, y \in Records : (<<x, y>> \in tied) # (<<x, y>> \in tied') => Awaited(x)' /\ Awaited(y)'
    <2>1. tied' = {t \in tied : r \notin {t[1], t[2]}}
        BY DEF Delete
    <2> QED BY <1>6, <2>1, EndedTies
<1>8. \A y \in Records : Tied(r, y) => y \in Neighbours({r})
    BY DEF Tied, Neighbours
<1>9. \A w \in Workers : runs[w] # None => r \notin DOMAIN runs[w].wrote
    BY DEF Delete, Unlocked
<1> QED BY <1>1, <1>2, <1>3, <1>4, <1>6, <1>7, <1>8, <1>9 DEF CallersStep, DerivedTyped

LEMMA EraseStep ==
    ASSUME DerivedTyped, NEW r \in Records, Erase(r)
    PROVE  CallersStep
<1>1. writes \in Nat /\ writes' \in Nat
    BY DEF DerivedTyped, Erase, Count
<1>2. item' = [item EXCEPT ![r] = [status |-> "erased", own |-> None, out |-> None]] /\ UNCHANGED <<runs, state>>
    BY DEF Erase
<1>3. item' \in [Records -> ItemStates] /\ item'[r].status = "erased" /\ \A x \in Records \ {r} : item'[x] = item[x]
    <2>1. [status |-> "erased", own |-> None, out |-> None] \in ItemStates
        BY DEF ItemStates
    <2> QED BY <1>2, <2>1 DEF DerivedTyped
<1>4. waiting' = waiting \cup {Queued({r}, 0)} /\ owed' = owed \cup Neighbours({r})
    BY DEF Erase
<1>5. Queued({r}, 0) \in Requests /\ Awaited(r)'
    BY <1>1, <1>4, QueuedAwaited
<1>6. \A x \in {r} \cup Neighbours({r}) : Awaited(x)'
    BY <1>4, <1>5 DEF Awaited
<1>7. tied' \subseteq Records \X Records /\ \A x, y \in Records : (<<x, y>> \in tied) # (<<x, y>> \in tied') => Awaited(x)' /\ Awaited(y)'
    <2>1. tied' = {t \in tied : r \notin {t[1], t[2]}}
        BY DEF Erase
    <2> QED BY <1>6, <2>1, EndedTies
<1>8. \A y \in Records : Tied(r, y) => y \in Neighbours({r})
    BY DEF Tied, Neighbours
<1>9. \A w \in Workers : runs[w] # None => r \notin DOMAIN runs[w].wrote
    BY DEF Erase, Unlocked
<1> QED BY <1>1, <1>2, <1>3, <1>4, <1>5, <1>6, <1>7, <1>8, <1>9 DEF CallersStep, DerivedTyped

-----------------------------------------------------------------------------
(* Steps of workers *)

LEMMA CoveringStays ==
    ASSUME UNCHANGED tied, NEW v, runs'[v] = runs[v], NEW r PROVE r \in Covering(runs[v])' <=> r \in Covering(runs[v])
<1>1. PICK it : it = runs[v]
    OBVIOUS
<1>2. \A S : Neighbours(S)' = Neighbours(S)
    BY DEF Neighbours
<1>3. r \in Covering(it)' <=> r \in Covering(it)
    BY <1>2 DEF Covering
<1>4. Covering(runs[v])' = Covering(it)' /\ Covering(runs[v]) = Covering(it)
    BY <1>1 DEF Covering
<1> QED BY <1>3, <1>4

\* What a step that moves no data has to show: a lock is only given back, and whom it covered is awaited.
LEMMA HoldersKeep ==
    ASSUME DerivedInv, UNCHANGED <<item, tied>>,
           \A v \in Workers : HasLock(v)' => HasLock(v) /\ runs'[v] = runs[v],
           \A v \in Workers : HasLock(v) /\ ~HasLock(v)' => \A r \in Covering(runs[v]) : Awaited(r)',
           \A r \in Records : Awaited(r) => Awaited(r)'
    PROVE  OneHolder' /\ ReadsHold' /\ NowFits' /\ ThenFits'
<1>1. OneHolder'
    BY DEF DerivedInv, OneHolder
<1>2. ReadsHold'
    <2> SUFFICES ASSUME NEW w \in Workers, HasLock(w)', NEW c \in DOMAIN runs'[w].read, Live(c)', ~(item'[c] = runs'[w].read[c])
                 PROVE  Awaited(c)' /\ \A y \in Records : Tied(c, y)' => Awaited(y)'
        BY DEF ReadsHold
    <2>1. HasLock(w) /\ runs'[w] = runs[w]
        OBVIOUS
    <2>2. Awaited(c) /\ \A y \in Records : Tied(c, y) => Awaited(y)
        BY <2>1 DEF DerivedInv, ReadsHold, Live
    <2>3. c \in Records
        BY <2>1, BusyTyped, RunTyped, PartIs DEF DerivedInv, HasLock
    <2> QED BY <2>2, <2>3 DEF Tied
<1>3. NowFits'
    <2> SUFFICES ASSUME NEW r \in Records, Live(r)', ~Awaited(r)', \A w \in Workers : HasLock(w)' => r \notin Covering(runs[w])'
                 PROVE  Fits(r, Linked(r)', OwnNow', item'[r].out)
        BY DEF NowFits, Fits
    <2>1. ~Awaited(r) /\ Live(r)
        BY DEF Live
    <2>2. ASSUME NEW w \in Workers, HasLock(w) PROVE r \notin Covering(runs[w])
        <3>1. HasLock(w)' => r \notin Covering(runs[w])' /\ runs'[w] = runs[w]
            BY DEF HasLock
        <3> QED BY <2>2, <3>1, CoveringStays
    <2>3. Fits(r, Linked(r), OwnNow, item[r].out)
        BY <2>1, <2>2 DEF DerivedInv, NowFits
    <2> QED BY <2>3 DEF Linked, OwnNow
<1>4. ThenFits'
    <2> SUFFICES ASSUME NEW w \in Workers, HasLock(w)', NEW r \in Records, Live(r)', ~Awaited(r)', r \notin ToHandle(runs'[w])
                 PROVE  Fits(r, Linked(r)', OwnThen(w)', OutThen(w, r)')
        BY DEF ThenFits, Fits, ToHandle
    <2>1. ~Awaited(r) /\ Live(r) /\ HasLock(w) /\ runs'[w] = runs[w]
        BY DEF Live
    <2>2. Fits(r, Linked(r), OwnThen(w), OutThen(w, r))
        BY <2>1 DEF DerivedInv, ThenFits
    <2> QED BY <2>1, <2>2 DEF Linked, OwnThen, OutThen
<1> QED BY <1>1, <1>2, <1>3, <1>4

LEMMA TakeUpKeeps ==
    ASSUME DerivedInv, NEW w \in Workers, NEW job \in waiting, TakeUp(w, job)
    PROVE  DerivedInv'
<1>0. DerivedTyped /\ UNCHANGED <<item, tied, owed, writes>> /\ runs[w] = None /\ waiting' = waiting \ {job} /\ job \in Requests
    BY DEF DerivedInv, DerivedTyped, TakeUp
<1>a. PICK it : it = [job |-> job, ids |-> job.of \cup Neighbours(job.of), phase |-> "begun", unread |-> Types,
                      read |-> <<>>, todo |-> {}, wrote |-> <<>>, state |-> None]
    OBVIOUS
<1>1. runs' = [runs EXCEPT ![w] = it]
    BY <1>a DEF TakeUp
<1>2. it \in Refreshes
    <2>1. job.of \cup Neighbours(job.of) \subseteq Records
        BY <1>0 DEF Requests, Neighbours
    <2>2. <<>> \in PartOf(ItemStates) /\ <<>> \in PartOf([own : Values \cup {None}, out : Values \cup {None}])
        <3>1. \A T : <<>> \in [{} -> T]
            OBVIOUS
        <3> QED BY <3>1, PartIs
    <2> QED BY <1>0, <1>a, <2>1, <2>2 DEF Refreshes
<1>3. it # None /\ it.phase = "begun" /\ it.unread = Types /\ DOMAIN it.read = {} /\ DOMAIN it.wrote = {}
      /\ it.job = job /\ it.ids = job.of \cup Neighbours(job.of)
    <2>1. it # None
        BY <1>2, DerivedAssumption
    <2> QED BY <1>a, <2>1
<1>4. DerivedTyped'
    BY <1>0, <1>1, <1>2 DEF DerivedTyped
<1>5. /\ runs'[w] = it /\ \A v \in Workers \ {w} : runs'[v] = runs[v]
    BY <1>0, <1>1 DEF DerivedTyped
<1>6. /\ Begun(w)' /\ ~HasLock(w)' /\ ~HasLock(w) /\ ~Begun(w)
      /\ \A v \in Workers \ {w} : (HasLock(v)' <=> HasLock(v)) /\ (Begun(v)' <=> Begun(v))
    BY <1>0, <1>3, <1>5 DEF Begun, HasLock
<1>7. RunsGo'
    <2> SUFFICES ASSUME NEW v \in Workers
                 PROVE  /\ Begun(v)' => runs'[v].unread = Types /\ DOMAIN runs'[v].read = {} /\ DOMAIN runs'[v].wrote = {}
                        /\ HasLock(v)' =>
                             /\ \A c \in DOMAIN runs'[v].wrote : c \in DOMAIN runs'[v].read \ runs'[v].todo /\ runs'[v].wrote[c].own = runs'[v].read[c].own
                             /\ runs'[v].phase = "reading" => DOMAIN runs'[v].wrote = {}
                             /\ runs'[v].phase = "computing" => runs'[v].unread = {} /\ runs'[v].todo \subseteq DOMAIN runs'[v].read
                             /\ \A r \in runs'[v].ids : Live(r) /\ (\A T \in runs'[v].unread : r \notin T) => r \in DOMAIN runs'[v].read
        BY <1>0 DEF RunsGo, RunGoes, Live
    <2>1. CASE v = w
        BY <1>3, <1>5, <1>6, <2>1
    <2>2. CASE v # w
        BY <1>5, <1>6, <2>2 DEF DerivedInv, RunsGo, RunGoes
    <2> QED BY <2>1, <2>2
<1>8. ASSUME NEW r \in Records, Awaited(r) PROVE Awaited(r)'
    <2>1. \A S : Neighbours(S)' = Neighbours(S)
        BY <1>0 DEF Neighbours
    <2>2. CASE r \in owed
        BY <1>0, <2>2 DEF Awaited
    <2>3. ASSUME NEW j \in waiting, j # job, r \in j.of \cup Neighbours(j.of) PROVE Awaited(r)'
        <3>1. j \in waiting' /\ r \in j.of \cup Neighbours(j.of)'
            BY <1>0, <2>1, <2>3
        <3> QED BY <3>1 DEF Awaited
    <2>4. ASSUME r \in job.of \cup Neighbours(job.of) PROVE Awaited(r)'
        <3>1. r \in it.ids \cap (it.job.of \cup Neighbours(it.job.of)')
            BY <1>3, <2>1, <2>4
        <3>2. r \in Covering(runs[w])'
            BY <1>5, <3>1 DEF Covering
        <3> QED BY <1>6, <3>2 DEF Awaited
    <2>5. ASSUME NEW v \in Workers, Begun(v), r \in Covering(runs[v]) PROVE Awaited(r)'
        <3>1. v # w /\ Begun(v)' /\ runs'[v] = runs[v]
            BY <1>5, <1>6, <2>5
        <3>2. r \in Covering(runs[v])'
            BY <1>0, <2>5, <3>1, CoveringStays
        <3> QED BY <3>1, <3>2 DEF Awaited
    <2> QED BY <1>8, <2>2, <2>3, <2>4, <2>5 DEF Awaited
<1>9. OneHolder' /\ ReadsHold' /\ NowFits' /\ ThenFits'
    BY <1>0, <1>5, <1>6, <1>8, HoldersKeep
<1> QED BY <1>4, <1>7, <1>9 DEF DerivedInv

LEMMA AbandonKeeps ==
    ASSUME DerivedInv, NEW w \in Workers, Abandon(w)
    PROVE  DerivedInv'
<1>0. DerivedTyped /\ UNCHANGED <<item, tied, writes>> /\ runs[w] \in Refreshes /\ runs' = [runs EXCEPT ![w] = None]
    BY BusyTyped DEF DerivedInv, Abandon
<1>a. PICK it \in Refreshes : it = runs[w]
    BY <1>0
<1>b. PICK again \in BOOLEAN : again <=> it.job.tries + 1 < MaxTries
    OBVIOUS
<1>1. /\ waiting' = IF again THEN waiting \cup {[it.job EXCEPT !.tries = @ + 1]} ELSE waiting
      /\ owed' = IF again THEN owed ELSE owed \cup it.ids
    BY <1>a, <1>b DEF Abandon
<1>2. it.job \in Requests /\ it.ids \subseteq Records
    BY RunTyped
<1>3. [it.job EXCEPT !.tries = @ + 1] \in Requests /\ [it.job EXCEPT !.tries = @ + 1].of = it.job.of
    BY <1>2 DEF Requests
<1>4. DerivedTyped'
    BY <1>0, <1>1, <1>3 DEF DerivedTyped
<1>5. runs'[w] = None /\ \A v \in Workers \ {w} : runs'[v] = runs[v]
    BY <1>0 DEF DerivedTyped
<1>6. ~Begun(w)' /\ ~HasLock(w)' /\ \A v \in Workers \ {w} : (HasLock(v)' <=> HasLock(v)) /\ (Begun(v)' <=> Begun(v))
    BY <1>5 DEF Begun, HasLock
<1>7. RunsGo'
    <2> SUFFICES ASSUME NEW v \in Workers \ {w}
                 PROVE  /\ Begun(v) => runs'[v].unread = Types /\ DOMAIN runs'[v].read = {} /\ DOMAIN runs'[v].wrote = {}
                        /\ HasLock(v) =>
                             /\ \A c \in DOMAIN runs'[v].wrote : c \in DOMAIN runs'[v].read \ runs'[v].todo /\ runs'[v].wrote[c].own = runs'[v].read[c].own
                             /\ runs'[v].phase = "reading" => DOMAIN runs'[v].wrote = {}
                             /\ runs'[v].phase = "computing" => runs'[v].unread = {} /\ runs'[v].todo \subseteq DOMAIN runs'[v].read
                             /\ \A r \in runs'[v].ids : Live(r) /\ (\A T \in runs'[v].unread : r \notin T) => r \in DOMAIN runs'[v].read
        BY <1>0, <1>6 DEF RunsGo, RunGoes, Live
    <2> QED BY <1>5 DEF DerivedInv, RunsGo, RunGoes
<1>8. \A r \in Covering(it) : Awaited(r)'
    <2> SUFFICES ASSUME NEW r \in Covering(it) PROVE Awaited(r)'
        OBVIOUS
    <2>1. r \in it.job.of \cup Neighbours(it.job.of)' /\ r \in it.ids
        BY <1>0 DEF Covering, Neighbours
    <2>2. CASE again
        <3>1. PICK job \in waiting' : job.of = it.job.of
            BY <1>1, <1>3, <2>2
        <3> QED BY <2>1, <3>1 DEF Awaited
    <2>3. CASE ~again
        BY <1>1, <2>1, <2>3 DEF Awaited
    <2> QED BY <2>2, <2>3
<1>9. ASSUME NEW r \in Records, Awaited(r) PROVE Awaited(r)'
    <2>2. CASE r \in owed
        BY <1>1, <2>2 DEF Awaited
    <2>3. ASSUME NEW j \in waiting, r \in j.of \cup Neighbours(j.of) PROVE Awaited(r)'
        <3>1. j \in waiting' /\ r \in j.of \cup Neighbours(j.of)'
            BY <1>0, <1>1, <2>3 DEF Neighbours
        <3> QED BY <3>1 DEF Awaited
    <2>5. ASSUME NEW v \in Workers, Begun(v), r \in Covering(runs[v]) PROVE Awaited(r)'
        <3>1. CASE v = w
            BY <1>8, <1>a, <2>5, <3>1
        <3>2. CASE v # w
            <4>1. Begun(v)' /\ r \in Covering(runs[v])'
                BY <1>0, <1>5, <1>6, <2>5, <3>2, CoveringStays
            <4> QED BY <4>1 DEF Awaited
        <3> QED BY <3>1, <3>2
    <2> QED BY <1>9, <2>2, <2>3, <2>5 DEF Awaited
<1>10. OneHolder' /\ ReadsHold' /\ NowFits' /\ ThenFits'
    <2>1. \A v \in Workers : HasLock(v)' => HasLock(v) /\ runs'[v] = runs[v]
        BY <1>5, <1>6
    <2>2. \A v \in Workers : HasLock(v) /\ ~HasLock(v)' => \A r \in Covering(runs[v]) : Awaited(r)'
        BY <1>6, <1>8, <1>a
    <2> QED BY <1>0, <1>9, <2>1, <2>2, HoldersKeep
<1> QED BY <1>4, <1>7, <1>10 DEF DerivedInv

\* A worker that goes on: the run it has becomes another run of the same job.
LEMMA GoesOn ==
    ASSUME DerivedInv, NEW w \in Workers, runs[w] # None, NEW it \in Refreshes, runs' = [runs EXCEPT ![w] = it],
           UNCHANGED <<item, tied, waiting, owed, writes>>, it.job = runs[w].job, it.ids = runs[w].ids, it.phase # "begun"
    PROVE  /\ DerivedTyped' /\ runs'[w] = it /\ \A v \in Workers \ {w} : runs'[v] = runs[v]
           /\ HasLock(w)' /\ ~Begun(w)' /\ \A v \in Workers \ {w} : (HasLock(v)' <=> HasLock(v)) /\ (Begun(v)' <=> Begun(v))
           /\ \A r \in Covering(runs[w]) : r \in Covering(runs[w])'
           /\ \A r \in Records : Awaited(r) => Awaited(r)' \/ (Begun(w) /\ r \in Covering(runs[w]))
<1>1. DerivedTyped'
    BY DEF DerivedInv, DerivedTyped
<1>2. runs'[w] = it /\ \A v \in Workers \ {w} : runs'[v] = runs[v]
    BY DEF DerivedInv, DerivedTyped
<1>3. HasLock(w)' /\ ~Begun(w)' /\ \A v \in Workers \ {w} : (HasLock(v)' <=> HasLock(v)) /\ (Begun(v)' <=> Begun(v))
    BY <1>2, RunTyped DEF HasLock, Begun
<1>4. ASSUME NEW r \in Covering(runs[w]) PROVE r \in Covering(runs[w])'
    <2>1. r \in it.ids \cap (it.job.of \cup Neighbours(it.job.of)')
        BY DEF Covering, Neighbours
    <2> QED BY <1>2, <2>1 DEF Covering
<1>5. ASSUME NEW r \in Records, Awaited(r), ~(Begun(w) /\ r \in Covering(runs[w])) PROVE Awaited(r)'
    <2>2. CASE r \in owed
        BY <2>2 DEF Awaited
    <2>3. ASSUME NEW j \in waiting, r \in j.of \cup Neighbours(j.of) PROVE Awaited(r)'
        <3>1. j \in waiting' /\ r \in j.of \cup Neighbours(j.of)'
            BY <2>3 DEF Neighbours
        <3> QED BY <3>1 DEF Awaited
    <2>5. ASSUME NEW v \in Workers, Begun(v), r \in Covering(runs[v]) PROVE Awaited(r)'
        <3>1. v # w
            BY <1>5, <2>5
        <3>2. Begun(v)' /\ r \in Covering(runs[v])'
            BY <1>2, <1>3, <2>5, <3>1, CoveringStays
        <3> QED BY <3>2 DEF Awaited
    <2> QED BY <1>5, <2>2, <2>3, <2>5 DEF Awaited
<1> QED BY <1>1, <1>2, <1>3, <1>4, <1>5

LEMMA LockKeeps ==
    ASSUME DerivedInv, NEW w \in Workers, Lock(w)
    PROVE  DerivedInv'
<1>a. PICK it : it = [runs[w] EXCEPT !.phase = "reading"]
    OBVIOUS
<1>0. /\ DerivedTyped /\ UNCHANGED <<item, tied, waiting, owed, writes>> /\ runs[w] \in Refreshes /\ runs' = [runs EXCEPT ![w] = it]
      /\ Begun(w) /\ \A v \in Workers \ {w} : ~HasLock(v)
    BY <1>a, BusyTyped DEF DerivedInv, Lock, LockFree, HasLock, Begun, DerivedTyped
<1>1. it \in Refreshes /\ it.job = runs[w].job /\ it.ids = runs[w].ids /\ it.phase = "reading" /\ it.unread = runs[w].unread
      /\ it.read = runs[w].read /\ it.wrote = runs[w].wrote
    <2>1. \A e \in Refreshes : [e EXCEPT !.phase = "reading"] \in Refreshes
        BY DEF Refreshes
    <2>2. it.job = runs[w].job /\ it.ids = runs[w].ids /\ it.phase = "reading" /\ it.unread = runs[w].unread
          /\ it.read = runs[w].read /\ it.wrote = runs[w].wrote
        BY <1>0, <1>a DEF Refreshes
    <2> QED BY <1>0, <1>a, <2>1, <2>2
<1>2. /\ DerivedTyped' /\ runs'[w] = it /\ \A v \in Workers \ {w} : runs'[v] = runs[v]
      /\ HasLock(w)' /\ ~Begun(w)' /\ \A v \in Workers \ {w} : (HasLock(v)' <=> HasLock(v)) /\ (Begun(v)' <=> Begun(v))
      /\ \A r \in Covering(runs[w]) : r \in Covering(runs[w])'
      /\ \A r \in Records : Awaited(r) => Awaited(r)' \/ (Begun(w) /\ r \in Covering(runs[w]))
    <2>1. runs[w] # None
        BY <1>0 DEF Begun
    <2> QED BY <1>0, <1>1, <2>1, GoesOn
<1>3. it.unread = Types /\ DOMAIN it.read = {} /\ DOMAIN it.wrote = {}
    BY <1>0, <1>1 DEF DerivedInv, RunsGo, RunGoes
<1>4. OneHolder'
    BY <1>0, <1>2 DEF OneHolder
<1>5. RunsGo'
    <2>1. RunGoes(w)'
        <3>1. \A r \in it.ids : \E T \in Types : r \in T
            BY <1>1, RunTyped, Zenon DEF Types
        <3>2. ASSUME NEW r \in it.ids, \A T \in it.unread : r \notin T PROVE FALSE
            BY <1>3, <3>1, <3>2
        <3>3. (~Begun(w))' /\ DOMAIN it.wrote = {} /\ it.phase = "reading"
            BY <1>1, <1>2, <1>3
        <3> QED BY <1>2, <3>2, <3>3 DEF RunGoes
    <2>2. ASSUME NEW v \in Workers \ {w} PROVE RunGoes(v)'
        BY <1>0, <1>2 DEF RunGoes, DerivedInv, RunsGo
    <2> QED BY <2>1, <2>2 DEF RunsGo
<1>6. ReadsHold'
    BY <1>0, <1>2, <1>3 DEF ReadsHold
<1>7. ASSUME NEW r \in Records, Live(r)', ~Awaited(r)', r \notin Covering(runs[w])' PROVE Fits(r, Linked(r), OwnNow, item[r].out)
    <2>1. Live(r) /\ ~Awaited(r) /\ ~HasLock(w) /\ r \notin Covering(runs[w])
        BY <1>0, <1>2, <1>7 DEF Live, HasLock, Begun
    <2> QED BY <1>0, <2>1 DEF DerivedInv, NowFits
<1>9. NowFits'
    <2> SUFFICES ASSUME NEW r \in Records, Live(r)', ~Awaited(r)', r \notin Covering(runs[w])'
                 PROVE  Fits(r, Linked(r)', OwnNow', item'[r].out)
        BY <1>2 DEF NowFits, Fits
    <2>1. Linked(r)' = Linked(r) /\ OwnNow' = OwnNow
        BY <1>0 DEF Linked, OwnNow
    <2> QED BY <1>0, <1>7, <2>1
<1>10. ThenFits'
    <2> SUFFICES ASSUME NEW v \in Workers, HasLock(v)', NEW r \in Records, Live(r)', ~Awaited(r)', r \notin ToHandle(runs[v])'
                 PROVE  Fits(r, Linked(r)', OwnThen(v)', OutThen(v, r)')
        BY DEF ThenFits, Fits
    <2>1. v = w
        BY <1>0, <1>2
    <2>2. r \notin Covering(runs[w])'
        BY <1>1, <1>2, <2>1 DEF Covering, ToHandle
    <2>3. Linked(r)' = Linked(r) /\ OwnThen(w)' = OwnNow /\ OutThen(w, r)' = item[r].out
        BY <1>0, <1>2, <1>3 DEF Linked, OwnNow, OwnThen, OutThen
    <2> QED BY <1>7, <2>1, <2>2, <2>3
<1> QED BY <1>2, <1>4, <1>5, <1>6, <1>9, <1>10 DEF DerivedInv

LEMMA ReadKeeps ==
    ASSUME DerivedInv, NEW w \in Workers, NEW T \in Types, Read(w, T)
    PROVE  DerivedInv'
<1>a. PICK was : was = runs[w]
    OBVIOUS
<1>b. PICK found : found = {r \in was.ids \cap T : item[r].status = "live"}
    OBVIOUS
<1>c. PICK read : read = [r \in DOMAIN was.read \cup found |-> IF r \in found THEN item[r] ELSE was.read[r]]
    OBVIOUS
<1>d. PICK last \in BOOLEAN : last <=> was.unread = {T}
    OBVIOUS
<1>e. PICK it : it = [was EXCEPT !.read = read, !.unread = @ \ {T}, !.phase = IF last THEN "computing" ELSE @,
                                 !.todo = IF last THEN DOMAIN read ELSE @]
    OBVIOUS
<1>0. DerivedTyped /\ UNCHANGED <<item, tied, waiting, owed, writes>> /\ was \in Refreshes /\ was.phase = "reading"
    BY <1>a, BusyTyped DEF DerivedInv, Read
<1>1. runs' = [runs EXCEPT ![w] = it]
    <2>1. runs' = [runs EXCEPT ![w].read = read, ![w].unread = @ \ {T}, ![w].phase = IF last THEN "computing" ELSE @,
                               ![w].todo = IF last THEN DOMAIN read ELSE @]
        BY <1>a, <1>b, <1>c, <1>d DEF Read
    <2> QED BY <1>0, <1>a, <1>e, <2>1 DEF DerivedTyped
<1>2. /\ HasLock(w) /\ ~Begun(w) /\ RunGoes(w) /\ runs[w] # None
    BY <1>0, <1>a, RunTyped DEF HasLock, Begun, DerivedInv, RunsGo
<1>3. DOMAIN was.wrote = {} /\ \A r \in was.ids : Live(r) /\ (\A U \in was.unread : r \notin U) => r \in DOMAIN was.read
    BY <1>0, <1>2, <1>a DEF RunGoes
<1>4. was.read \in [DOMAIN was.read -> ItemStates] /\ DOMAIN was.read \subseteq Records /\ was.ids \subseteq Records
    BY <1>0, RunTyped, PartIs
<1>5. found \subseteq Records /\ found \subseteq was.ids
    BY <1>4, <1>b
<1>6. DOMAIN read = DOMAIN was.read \cup found /\ (\A r \in found : read[r] = item[r]) /\ \A r \in DOMAIN read \ found : read[r] = was.read[r]
    BY <1>c
<1>7. read \in PartOf(ItemStates) /\ DOMAIN read \subseteq Records
    <2>1. \A r \in DOMAIN was.read \cup found : (IF r \in found THEN item[r] ELSE was.read[r]) \in ItemStates
        BY <1>0, <1>4, <1>5 DEF DerivedTyped
    <2>2. read \in [DOMAIN was.read \cup found -> ItemStates]
        BY <1>c, <2>1
    <2> QED BY <1>4, <1>5, <1>6, <2>2, PartIs
<1>8. /\ it.job = was.job /\ it.ids = was.ids /\ it.read = read /\ it.unread = was.unread \ {T} /\ it.wrote = was.wrote
      /\ it.phase = (IF last THEN "computing" ELSE "reading") /\ it.todo = (IF last THEN DOMAIN read ELSE was.todo)
      /\ it.state = was.state
      /\ it = [job |-> it.job, ids |-> it.ids, phase |-> it.phase, unread |-> it.unread, read |-> it.read,
               todo |-> it.todo, wrote |-> it.wrote, state |-> it.state]
    <2>1. was = [job |-> was.job, ids |-> was.ids, phase |-> was.phase, unread |-> was.unread, read |-> was.read,
                 todo |-> was.todo, wrote |-> was.wrote, state |-> was.state]
        BY <1>0, RunTyped
    <2> QED BY <1>0, <1>e, <2>1
<1>9. it \in Refreshes
    <2>1. /\ was.job \in Requests /\ was.unread \subseteq Types /\ was.todo \subseteq Records
          /\ was.wrote \in PartOf([own : Values \cup {None}, out : Values \cup {None}]) /\ was.state \in {None, "ready", "failed"}
        BY <1>0, RunTyped
    <2>2. it.unread \subseteq Types /\ it.todo \subseteq Records /\ it.phase \in {"begun", "reading", "computing"}
        BY <1>7, <1>8, <2>1
    <2> QED BY <1>4, <1>7, <1>8, <2>1, <2>2 DEF Refreshes
<1>10. /\ DerivedTyped' /\ runs'[w] = it /\ \A v \in Workers \ {w} : runs'[v] = runs[v]
       /\ HasLock(w)' /\ ~Begun(w)' /\ \A v \in Workers \ {w} : (HasLock(v)' <=> HasLock(v)) /\ (Begun(v)' <=> Begun(v))
       /\ \A r \in Covering(runs[w]) : r \in Covering(runs[w])'
       /\ \A r \in Records : Awaited(r) => Awaited(r)'
    BY <1>0, <1>1, <1>2, <1>8, <1>9, <1>a, GoesOn
<1>11. \A v \in Workers \ {w} : ~HasLock(v)
    BY <1>2 DEF DerivedInv, OneHolder
<1>12. OneHolder'
    BY <1>10, <1>11 DEF OneHolder
<1>13. \A r \in it.ids : Live(r) /\ (\A U \in it.unread : r \notin U) => r \in DOMAIN read
    <2> SUFFICES ASSUME NEW r \in was.ids, Live(r), \A U \in was.unread \ {T} : r \notin U PROVE r \in DOMAIN read
        BY <1>8
    <2>1. CASE r \in T
        BY <1>6, <1>b, <2>1 DEF Live
    <2>2. CASE r \notin T
        BY <1>3, <1>6, <2>2
    <2> QED BY <2>1, <2>2
<1>14. RunsGo'
    <2>1. RunGoes(w)'
        <3>1. \A r \in it.ids : Live(r)' /\ (\A U \in it.unread : r \notin U) => r \in DOMAIN it.read
            BY <1>0, <1>8, <1>13 DEF Live
        <3>2. it.phase = "computing" => it.unread = {} /\ it.todo \subseteq DOMAIN it.read
            BY <1>8, <1>d
        <3> QED BY <1>3, <1>8, <1>10, <3>1, <3>2 DEF RunGoes
    <2>2. ASSUME NEW v \in Workers \ {w} PROVE RunGoes(v)'
        BY <1>10, <1>11, <2>1 DEF RunGoes, DerivedInv, RunsGo
    <2> QED BY <2>1, <2>2 DEF RunsGo
<1>15. ReadsHold'
    <2> SUFFICES ASSUME NEW c \in DOMAIN it.read, Live(c)', ~(item'[c] = it.read[c])
                 PROVE  Awaited(c)' /\ \A y \in Records : Tied(c, y)' => Awaited(y)'
        BY <1>10, <1>11 DEF ReadsHold
    <2>1. c \in DOMAIN was.read /\ c \notin found /\ it.read[c] = was.read[c] /\ c \in Records /\ Live(c)
        BY <1>0, <1>6, <1>7, <1>8 DEF Live
    <2>2. Awaited(c) /\ \A y \in Records : Tied(c, y) => Awaited(y)
        BY <1>0, <1>2, <1>a, <2>1 DEF DerivedInv, ReadsHold
    <2> QED BY <1>0, <1>10, <2>1, <2>2 DEF Tied
<1>16. NowFits'
    <2> SUFFICES ASSUME NEW r \in Records, Live(r)', ~Awaited(r)', r \notin Covering(runs[w])'
                 PROVE  Fits(r, Linked(r)', OwnNow', item'[r].out)
        BY <1>10 DEF NowFits, Fits
    <2>1. Linked(r)' = Linked(r) /\ OwnNow' = OwnNow /\ item'[r].out = item[r].out
        BY <1>0 DEF Linked, OwnNow
    <2>2. Live(r) /\ ~Awaited(r) /\ \A v \in Workers : HasLock(v) => r \notin Covering(runs[v])
        BY <1>0, <1>10, <1>11 DEF Live
    <2> QED BY <2>1, <2>2 DEF DerivedInv, NowFits
<1>17. ThenFits'
    <2> SUFFICES ASSUME NEW r \in Records, Live(r)', ~Awaited(r)', r \notin ToHandle(it)
                 PROVE  Fits(r, Linked(r)', OwnThen(w)', OutThen(w, r)')
        BY <1>10, <1>11 DEF ThenFits, Fits, ToHandle
    <2>1. Linked(r)' = Linked(r) /\ OwnThen(w)' = OwnThen(w) /\ OutThen(w, r)' = OutThen(w, r)
        BY <1>0, <1>3, <1>8, <1>10, <1>a DEF Linked, OwnThen, OutThen
    <2>2. r \notin was.ids
        <3>1. CASE last
            <4>1. r \notin DOMAIN read /\ it.unread = {}
                BY <1>8, <1>d, <3>1 DEF ToHandle
            <4> QED BY <1>0, <1>8, <1>13, <4>1 DEF Live
        <3>2. CASE ~last
            BY <1>8, <3>2 DEF ToHandle
        <3> QED BY <3>1, <3>2
    <2>3. Live(r) /\ ~Awaited(r) /\ r \notin ToHandle(runs[w])
        BY <1>0, <1>10, <1>a, <2>2 DEF Live, ToHandle
    <2> QED BY <1>2, <2>1, <2>3 DEF DerivedInv, ThenFits
<1> QED BY <1>10, <1>12, <1>14, <1>15, <1>16, <1>17 DEF DerivedInv

\* What Refresh computes of a record that is as it was read fits the sources this run sees.
LEMMA ComputedFits ==
    ASSUME DerivedTyped, NEW w \in Workers, NEW r \in Records, NEW own,
           own = OwnThen(w)[r], Computable(r)
    PROVE  Fits(r, Linked(r), OwnThen(w), Computed(runs[w], r, own))
<1>1. CASE r \notin Parents
    BY <1>1 DEF Fits, Computed
<1>2. CASE r \in Parents /\ Linked(r) = {}
    BY <1>2 DEF Fits, Computed
<1>3. CASE r \in Parents /\ Linked(r) # {}
    <2>1. ASSUME NEW c \in Linked(r), Linked(r) = {c} PROVE Computed(runs[w], r, own) = OwnThen(w)[c]
        <3>1. \E x \in Linked(r) : TRUE
            OBVIOUS
        <3>2. (CHOOSE x \in Linked(r) : TRUE) = c
            BY <2>1, <3>1
        <3>3. Computed(runs[w], r, own) = Seen(runs[w], c)
            BY <1>3, <3>2 DEF Computed
        <3>4. c \in Records
            BY DEF Linked
        <3> QED BY <3>3, <3>4 DEF Seen, OwnThen
    <2> QED BY <1>3, <2>1 DEF Fits
<1> QED BY <1>1, <1>2, <1>3

\* Of no or one child there is a value.
LEMMA FewComputable ==
    ASSUME NEW r, Linked(r) = {} \/ \E c : Linked(r) = {c} PROVE Computable(r)
<1>1. Cardinality(Linked(r)) = 0 \/ Cardinality(Linked(r)) = 1
    <2>1. CASE Linked(r) = {}
        BY <2>1, FS_EmptySet
    <2>2. ASSUME NEW c, Linked(r) = {c} PROVE Cardinality(Linked(r)) = 1
        BY <2>2, FS_Singleton, Zenon
    <2> QED BY <2>1, <2>2
<1> QED BY <1>1 DEF Computable

LEMMA RefreshKeeps ==
    ASSUME DerivedInv, NEW w \in Workers, Refresh(w)
    PROVE  DerivedInv'
<1>a. PICK was : was = runs[w]
    OBVIOUS
<1>b. PICK r \in was.todo :
        LET old == was.read[r]
            out == IF Computable(r) THEN Computed(was, r, old.own) ELSE old.out
            wrote == [x \in DOMAIN was.wrote \cup {r} |-> IF x = r THEN [own |-> old.own, out |-> out] ELSE was.wrote[x]]
        IN  runs' = [runs EXCEPT ![w].todo = @ \ {r}, ![w].wrote = IF out = old.out THEN @ ELSE wrote,
                                 ![w].state = IF r \notin Parents THEN @ ELSE IF Computable(r) THEN "ready" ELSE "failed"]
    BY <1>a DEF Refresh
<1>c. PICK old : old = was.read[r]
    OBVIOUS
<1>d. PICK out : out = IF Computable(r) THEN Computed(was, r, old.own) ELSE old.out
    OBVIOUS
<1>e. PICK more : more = [x \in DOMAIN was.wrote \cup {r} |-> IF x = r THEN [own |-> old.own, out |-> out] ELSE was.wrote[x]]
    OBVIOUS
<1>f. PICK wrote : wrote = IF out = old.out THEN was.wrote ELSE more
    OBVIOUS
<1>g. PICK then : then = IF r \notin Parents THEN was.state ELSE IF Computable(r) THEN "ready" ELSE "failed"
    OBVIOUS
<1>h. PICK it : it = [was EXCEPT !.todo = @ \ {r}, !.wrote = wrote, !.state = then]
    OBVIOUS
<1>0. DerivedTyped /\ UNCHANGED <<item, tied, waiting, owed, writes>> /\ was \in Refreshes /\ was.phase = "computing"
    BY <1>a, BusyTyped DEF DerivedInv, Refresh
<1>i. was = [job |-> was.job, ids |-> was.ids, phase |-> was.phase, unread |-> was.unread, read |-> was.read,
             todo |-> was.todo, wrote |-> was.wrote, state |-> was.state]
    BY <1>0, RunTyped
<1>1. runs' = [runs EXCEPT ![w] = it]
    <2>1. runs' = [runs EXCEPT ![w].todo = @ \ {r}, ![w].wrote = IF out = old.out THEN @ ELSE more, ![w].state = then]
        <3>1. runs' = [runs EXCEPT ![w].todo = @ \ {r}, ![w].wrote = IF out = old.out THEN @ ELSE more,
                                   ![w].state = IF r \notin Parents THEN @ ELSE IF Computable(r) THEN "ready" ELSE "failed"]
            BY <1>b, <1>c, <1>d, <1>e
        <3>2. was.state = runs[w].state
            BY <1>a
        <3> QED BY <1>0, <1>g, <3>1, <3>2 DEF DerivedTyped
    <2>2. runs[w].wrote = was.wrote
        BY <1>a
    <2> QED BY <1>0, <1>a, <1>f, <1>h, <2>1, <2>2 DEF DerivedTyped
<1>2. HasLock(w) /\ ~Begun(w) /\ RunGoes(w) /\ runs[w] # None
    BY <1>0, <1>a, RunTyped DEF HasLock, Begun, DerivedInv, RunsGo
<1>3. /\ \A c \in DOMAIN was.wrote : c \in DOMAIN was.read \ was.todo /\ was.wrote[c].own = was.read[c].own
      /\ was.unread = {} /\ was.todo \subseteq DOMAIN was.read
      /\ \A x \in was.ids : Live(x) => x \in DOMAIN was.read
    BY <1>0, <1>2, <1>a DEF RunGoes
<1>4. was.read \in [DOMAIN was.read -> ItemStates] /\ DOMAIN was.read \subseteq Records /\ r \in DOMAIN was.read /\ old \in ItemStates
    BY <1>0, <1>3, <1>c, RunTyped, PartIs
<1>5. DOMAIN wrote \subseteq DOMAIN was.wrote \cup {r} /\ (\A c \in DOMAIN was.wrote : c # r /\ c \in DOMAIN wrote /\ wrote[c] = was.wrote[c])
      /\ (r \in DOMAIN wrote <=> out # old.out) /\ (r \in DOMAIN wrote => wrote[r] = [own |-> old.own, out |-> out])
    BY <1>3, <1>e, <1>f
<1>6. /\ it.job = was.job /\ it.ids = was.ids /\ it.read = was.read /\ it.unread = was.unread /\ it.wrote = wrote
      /\ it.phase = was.phase /\ it.todo = was.todo \ {r} /\ it.state = then
      /\ it = [job |-> it.job, ids |-> it.ids, phase |-> it.phase, unread |-> it.unread, read |-> it.read,
               todo |-> it.todo, wrote |-> it.wrote, state |-> it.state]
    BY <1>h, <1>i
<1>7. out \in Values \cup {None}
    <2>1. \A c \in Records : Seen(was, c) \in Values \cup {None}
        <3>1. was.wrote \in [DOMAIN was.wrote -> [own : Values \cup {None}, out : Values \cup {None}]]
            BY <1>0, RunTyped, PartIs
        <3>2. \A c \in Records : item[c].own \in Values \cup {None}
            BY <1>0 DEF DerivedTyped, ItemStates
        <3> QED BY <3>1, <3>2 DEF Seen
    <2>2. Linked(r) # {} => (CHOOSE c \in Linked(r) : TRUE) \in Records
        <3>1. Linked(r) \subseteq Records /\ (Linked(r) # {} => \E c \in Linked(r) : TRUE)
            BY DEF Linked
        <3> QED BY <3>1
    <2>3. old.own \in Values \cup {None} /\ old.out \in Values \cup {None}
        BY <1>4 DEF ItemStates
    <2> QED BY <1>d, <2>1, <2>2, <2>3 DEF Computed
<1>8. it \in Refreshes
    <2>1. /\ was.job \in Requests /\ was.ids \subseteq Records /\ was.unread \subseteq Types /\ was.todo \subseteq Records
          /\ was.read \in PartOf(ItemStates) /\ was.state \in {None, "ready", "failed"}
          /\ was.wrote \in [DOMAIN was.wrote -> [own : Values \cup {None}, out : Values \cup {None}]]
          /\ DOMAIN was.wrote \subseteq Records
        BY <1>0, RunTyped, PartIs
    <2>2. [own |-> old.own, out |-> out] \in [own : Values \cup {None}, out : Values \cup {None}]
        BY <1>4, <1>7 DEF ItemStates
    <2>3. \A x \in DOMAIN was.wrote \cup {r} :
              (IF x = r THEN [own |-> old.own, out |-> out] ELSE was.wrote[x]) \in [own : Values \cup {None}, out : Values \cup {None}]
        BY <2>1, <2>2
    <2>4. more \in [DOMAIN was.wrote \cup {r} -> [own : Values \cup {None}, out : Values \cup {None}]]
        BY <1>e, <2>3
    <2>5. more \in PartOf([own : Values \cup {None}, out : Values \cup {None}]) /\ was.wrote \in PartOf([own : Values \cup {None}, out : Values \cup {None}])
        <3>1. \A T, f : (\A S \in SUBSET Records : f \in [S -> T] => f \in PartOf(T))
            BY PartIs
        <3>2. DOMAIN was.wrote \in SUBSET Records /\ DOMAIN was.wrote \cup {r} \in SUBSET Records
            BY <1>4, <2>1
        <3> QED BY <2>1, <2>4, <3>1, <3>2, Zenon
    <2>6. wrote \in PartOf([own : Values \cup {None}, out : Values \cup {None}]) /\ then \in {None, "ready", "failed"}
        BY <1>f, <1>g, <2>1, <2>5
    <2> QED BY <1>0, <1>6, <2>1, <2>6 DEF Refreshes
<1>10. /\ DerivedTyped' /\ runs'[w] = it /\ \A v \in Workers \ {w} : runs'[v] = runs[v]
       /\ HasLock(w)' /\ ~Begun(w)' /\ \A v \in Workers \ {w} : (HasLock(v)' <=> HasLock(v)) /\ (Begun(v)' <=> Begun(v))
       /\ \A x \in Covering(runs[w]) : x \in Covering(runs[w])'
       /\ \A x \in Records : Awaited(x) => Awaited(x)'
    BY <1>0, <1>1, <1>2, <1>6, <1>8, <1>a, GoesOn
<1>11. \A v \in Workers \ {w} : ~HasLock(v)
    BY <1>2 DEF DerivedInv, OneHolder
<1>12. OneHolder'
    BY <1>10, <1>11 DEF OneHolder
<1>14. RunsGo'
    <2>1. RunGoes(w)'
        <3>1. \A x \in it.ids : Live(x)' => x \in DOMAIN it.read
            BY <1>0, <1>3, <1>6 DEF Live
        <3>2. ASSUME NEW c \in DOMAIN wrote PROVE c \in DOMAIN it.read \ it.todo /\ wrote[c].own = it.read[c].own
            <4>1. CASE c = r
                BY <1>4, <1>5, <1>6, <1>c, <3>2, <4>1
            <4>2. CASE c # r
                <5>1. c \in DOMAIN was.wrote
                    BY <1>5, <3>2, <4>2
                <5> QED BY <1>3, <1>5, <1>6, <5>1
            <4> QED BY <4>1, <4>2
        <3> QED BY <1>0, <1>3, <1>6, <1>10, <3>1, <3>2 DEF RunGoes
    <2>2. ASSUME NEW v \in Workers \ {w} PROVE RunGoes(v)'
        BY <1>10, <1>11, <2>1 DEF RunGoes, DerivedInv, RunsGo
    <2> QED BY <2>1, <2>2 DEF RunsGo
<1>15. ReadsHold'
    <2> SUFFICES ASSUME NEW c \in DOMAIN was.read, Live(c)', ~(item'[c] = was.read[c])
                 PROVE  Awaited(c)' /\ \A y \in Records : Tied(c, y)' => Awaited(y)'
        BY <1>6, <1>10, <1>11 DEF ReadsHold
    <2>1. c \in Records /\ Live(c)
        BY <1>0, <1>4 DEF Live
    <2>2. Awaited(c) /\ \A y \in Records : Tied(c, y) => Awaited(y)
        BY <1>0, <1>2, <1>a, <2>1 DEF DerivedInv, ReadsHold
    <2> QED BY <1>0, <1>10, <2>1, <2>2 DEF Tied
<1>16. NowFits'
    <2> SUFFICES ASSUME NEW x \in Records, Live(x)', ~Awaited(x)', x \notin Covering(runs[w])'
                 PROVE  Fits(x, Linked(x)', OwnNow', item'[x].out)
        BY <1>10 DEF NowFits, Fits
    <2>1. Linked(x)' = Linked(x) /\ OwnNow' = OwnNow /\ item'[x].out = item[x].out
        BY <1>0 DEF Linked, OwnNow
    <2>2. Live(x) /\ ~Awaited(x) /\ \A v \in Workers : HasLock(v) => x \notin Covering(runs[v])
        BY <1>0, <1>10, <1>11 DEF Live
    <2> QED BY <2>1, <2>2 DEF DerivedInv, NowFits
<1>17. ThenFits'
    <2> SUFFICES ASSUME NEW x \in Records, Live(x)', ~Awaited(x)', x \notin ToHandle(it)
                 PROVE  Fits(x, Linked(x)', OwnThen(w)', OutThen(w, x)')
        BY <1>10, <1>11 DEF ThenFits, Fits, ToHandle
    <2>1. Linked(x)' = Linked(x) /\ Linked(x) \subseteq Records /\ Live(x) /\ ~Awaited(x)
        BY <1>0, <1>10 DEF Linked, Live
    <2>2. \A c \in Records \ {r} : OwnThen(w)'[c] = OwnThen(w)[c]
        BY <1>0, <1>5, <1>6, <1>10, <1>a DEF OwnThen
    <2>3. OwnThen(w)[r] = item[r].own /\ OwnThen(w)'[r] \in {old.own, item[r].own}
        BY <1>0, <1>3, <1>4, <1>5, <1>6, <1>10, <1>a DEF OwnThen
    <2>4. CASE x = r
        <3>1. item[r] = old
            BY <1>2, <1>4, <1>a, <1>c, <2>1, <2>4 DEF DerivedInv, ReadsHold
        <3>2. \A c \in Records : OwnThen(w)'[c] = OwnThen(w)[c]
            BY <2>2, <2>3, <3>1
        <3>3. OutThen(w, r)' = out
            BY <1>0, <1>5, <1>6, <1>10, <3>1 DEF OutThen
        <3>4. CASE Computable(r)
            <4>1. out = Computed(runs[w], r, old.own) /\ old.own = OwnThen(w)[r] /\ r \in Records
                BY <1>4, <1>a, <1>d, <2>3, <3>1, <3>4
            <4>2. Fits(r, Linked(r), OwnThen(w), out)
                BY <1>0, <3>4, <4>1, ComputedFits
            <4> QED BY <1>4, <2>1, <2>4, <3>2, <3>3, <4>2 DEF Fits
        <3>5. CASE ~Computable(r)
            <4>1. r \in Parents /\ Linked(r) # {} /\ ~ \E c : Linked(r) = {c}
                BY <3>5, FewComputable DEF Computable
            <4> QED BY <2>1, <2>4, <4>1 DEF Fits
        <3> QED BY <3>4, <3>5
    <2>5. CASE x # r
        <3>1. Fits(x, Linked(x), OwnThen(w), OutThen(w, x))
            BY <1>0, <1>2, <1>6, <1>a, <2>1, <2>5 DEF ToHandle, DerivedInv, ThenFits
        <3>2. OutThen(w, x)' = OutThen(w, x)
            BY <1>0, <1>5, <1>6, <1>10, <1>a, <2>5 DEF OutThen
        <3>3. r \in Linked(x) => OwnThen(w)'[r] = OwnThen(w)[r]
            <4> SUFFICES ASSUME r \in Linked(x) PROVE item[r] = old
                BY <2>3
            <4>1. Live(r) /\ Tied(r, x)
                BY DEF Linked, Live, Tied
            <4> QED BY <1>2, <1>4, <1>a, <1>c, <2>1, <4>1 DEF DerivedInv, ReadsHold
        <3>4. \A c \in Linked(x) \cup {x} : OwnThen(w)'[c] = OwnThen(w)[c]
            BY <2>1, <2>2, <2>5, <3>3
        <3> QED BY <2>1, <3>1, <3>2, <3>4 DEF Fits
    <2> QED BY <2>4, <2>5
<1> QED BY <1>10, <1>12, <1>14, <1>15, <1>16, <1>17 DEF DerivedInv

LEMMA CommitKeeps ==
    ASSUME DerivedInv, NEW w \in Workers, Commit(w)
    PROVE  DerivedInv'
<1>a. PICK was : was = runs[w]
    OBVIOUS
<1>0. /\ DerivedTyped /\ UNCHANGED <<tied, waiting, owed, writes>> /\ was \in Refreshes /\ was.phase = "computing" /\ was.todo = {}
      /\ runs' = [runs EXCEPT ![w] = None]
      /\ item' = [r \in Records |-> IF r \in DOMAIN was.wrote
                                    THEN [item[r] EXCEPT !.own = was.wrote[r].own, !.out = was.wrote[r].out] ELSE item[r]]
    BY <1>a, BusyTyped DEF DerivedInv, Commit
<1>1. HasLock(w) /\ ~Begun(w)
    BY <1>0, <1>a, RunTyped DEF HasLock, Begun
<1>2. was.wrote \in [DOMAIN was.wrote -> [own : Values \cup {None}, out : Values \cup {None}]]
    BY <1>0, RunTyped, PartIs
<1>3. \A r \in Records : /\ item'[r] \in ItemStates /\ item'[r].status = item[r].status
                         /\ item'[r].own = OwnThen(w)[r] /\ item'[r].out = OutThen(w, r)
    <2> SUFFICES ASSUME NEW r \in Records
                 PROVE  /\ item'[r] \in ItemStates /\ item'[r].status = item[r].status
                        /\ item'[r].own = OwnThen(w)[r] /\ item'[r].out = OutThen(w, r)
        OBVIOUS
    <2>1. item[r] \in ItemStates
        BY <1>0 DEF DerivedTyped
    <2>2. CASE r \in DOMAIN was.wrote
        <3>1. PICK own \in Values \cup {None} : own = was.wrote[r].own
            BY <1>2, <2>2
        <3>2. PICK out \in Values \cup {None} : out = was.wrote[r].out
            BY <1>2, <2>2
        <3>3. item'[r] = [item[r] EXCEPT !.own = own, !.out = out]
            BY <1>0, <2>2, <3>1, <3>2
        <3>4. item'[r] \in ItemStates /\ item'[r].status = item[r].status /\ item'[r].own = own /\ item'[r].out = out
            BY <2>1, <3>3 DEF ItemStates
        <3> QED BY <1>a, <2>2, <3>1, <3>2, <3>4 DEF OwnThen, OutThen
    <2>3. CASE r \notin DOMAIN was.wrote
        BY <1>0, <1>a, <2>1, <2>3 DEF OwnThen, OutThen
    <2> QED BY <2>2, <2>3
<1>4. DerivedTyped'
    BY <1>0, <1>3 DEF DerivedTyped
<1>5. runs'[w] = None /\ \A v \in Workers \ {w} : runs'[v] = runs[v]
    BY <1>0 DEF DerivedTyped
<1>6. \A v \in Workers : ~HasLock(v)' /\ (Begun(v)' <=> Begun(v)) /\ (Begun(v) => v # w)
    <2>1. \A v \in Workers \ {w} : ~HasLock(v)
        BY <1>1 DEF DerivedInv, OneHolder
    <2> QED BY <1>1, <1>5, <2>1 DEF Begun, HasLock
<1>7. OneHolder' /\ ReadsHold' /\ ThenFits'
    BY <1>6 DEF OneHolder, ReadsHold, ThenFits
<1>8. RunsGo'
    BY <1>5, <1>6 DEF RunsGo, RunGoes, DerivedInv
<1>9. ASSUME NEW r \in Records, Awaited(r) PROVE Awaited(r)'
    <2>2. CASE r \in owed
        BY <1>0, <2>2 DEF Awaited
    <2>3. ASSUME NEW j \in waiting, r \in j.of \cup Neighbours(j.of) PROVE Awaited(r)'
        <3>1. j \in waiting' /\ r \in j.of \cup Neighbours(j.of)'
            BY <1>0, <2>3 DEF Neighbours
        <3> QED BY <3>1 DEF Awaited
    <2>5. ASSUME NEW v \in Workers, Begun(v), r \in Covering(runs[v]) PROVE Awaited(r)'
        <3>1. Begun(v)' /\ r \in Covering(runs[v])'
            BY <1>0, <1>5, <1>6, <2>5, CoveringStays
        <3> QED BY <3>1 DEF Awaited
    <2> QED BY <1>9, <2>2, <2>3, <2>5 DEF Awaited
<1>10. NowFits'
    <2> SUFFICES ASSUME NEW r \in Records, Live(r)', ~Awaited(r)'
                 PROVE  Fits(r, Linked(r)', OwnNow', item'[r].out)
        BY DEF NowFits, Fits
    <2>1. Linked(r)' = Linked(r)
        BY <1>0, <1>3 DEF Linked
    <2>2. OwnNow' = OwnThen(w)
        BY <1>3 DEF OwnNow, OwnThen
    <2>3. Live(r) /\ ~Awaited(r) /\ r \notin ToHandle(runs[w])
        BY <1>0, <1>3, <1>9, <1>a DEF Live, ToHandle
    <2>4. Fits(r, Linked(r), OwnThen(w), OutThen(w, r))
        BY <1>1, <2>3 DEF DerivedInv, ThenFits
    <2> QED BY <1>3, <2>1, <2>2, <2>4
<1> QED BY <1>4, <1>7, <1>8, <1>10 DEF DerivedInv

LEMMA DerivedStutters == DerivedInv /\ UNCHANGED derivedVars => DerivedInv'
<1> SUFFICES ASSUME DerivedInv, UNCHANGED derivedVars PROVE DerivedInv'
    OBVIOUS
<1>1. UNCHANGED <<item, tied, waiting, runs, state, owed, writes>>
    BY DEF derivedVars
<1>2. CallersStep
    BY <1>1 DEF CallersStep, DerivedInv, DerivedTyped
<1> QED BY <1>2, CallersKeep

LEMMA DerivedStep == DerivedInv /\ [DerivedNext]_derivedVars => DerivedInv'
<1> SUFFICES ASSUME DerivedInv, [DerivedNext]_derivedVars PROVE DerivedInv'
    OBVIOUS
<1>0. DerivedTyped
    BY DEF DerivedInv
<1>1. ASSUME NEW r \in Records, NEW v \in Values, NEW person \in BOOLEAN, Store(r, v, person) PROVE DerivedInv'
    BY <1>0, <1>1, StoreStep, CallersKeep
<1>2. ASSUME NEW c \in Records \ Parents, NEW p \in Parents, Tie(c, p) PROVE DerivedInv'
    BY <1>0, <1>2, TieStep, CallersKeep, DerivedAssumption
<1>3. ASSUME NEW r \in Records, Delete(r) \/ Erase(r) PROVE DerivedInv'
    BY <1>0, <1>3, DeleteStep, EraseStep, CallersKeep
<1>4. ASSUME NEW w \in Workers, NEW job \in waiting, TakeUp(w, job) PROVE DerivedInv'
    BY <1>4, TakeUpKeeps
<1>5. ASSUME NEW w \in Workers, NEW T \in Types, Read(w, T) PROVE DerivedInv'
    BY <1>5, ReadKeeps
<1>6. ASSUME NEW w \in Workers, Lock(w) \/ Refresh(w) \/ Commit(w) \/ Abandon(w) PROVE DerivedInv'
    BY <1>6, LockKeeps, RefreshKeeps, CommitKeeps, AbandonKeeps
<1>7. CASE UNCHANGED derivedVars
    BY <1>7, DerivedStutters
<1> QED BY <1>1, <1>2, <1>3, <1>4, <1>5, <1>6, <1>7 DEF DerivedNext

LEMMA DerivedStart == DerivedInit => DerivedInv
<1> SUFFICES ASSUME DerivedInit PROVE DerivedInv
    OBVIOUS
<1>1. DerivedTyped
    BY DEF DerivedInit, DerivedTyped, ItemStates
<1>2. \A w \in Workers : ~Begun(w) /\ ~HasLock(w)
    BY DEF DerivedInit, Begun, HasLock
<1>3. OneHolder /\ RunsGo /\ ReadsHold /\ ThenFits
    BY <1>2 DEF OneHolder, RunsGo, RunGoes, ReadsHold, ThenFits
<1>4. NowFits
    <2> SUFFICES ASSUME NEW r \in Records PROVE Fits(r, Linked(r), OwnNow, item[r].out)
        BY DEF NowFits
    <2>1. Linked(r) = {} /\ OwnNow[r] = None /\ item[r].out = None
        BY DEF DerivedInit, Linked, OwnNow
    <2> QED BY <2>1 DEF Fits
<1> QED BY <1>1, <1>3, <1>4 DEF DerivedInv

\* However callers write, link, delete and erase, and whichever jobs run, race for the lock, fail or
\* die: when no refresh is queued or runs, a derived value is the one its sources give, but for
\* the records nobody asked a refresh for (derived/refresh.ts, jobs/derived-refresh.ts).
THEOREM DerivedValuesSettle == DerivedSpec => []DerivedSettles
<1>1. DerivedInv => DerivedSettles
    <2> SUFFICES ASSUME DerivedInv, waiting = {}, \A w \in Workers : runs[w] = None, NEW r \in Records \ owed, Live(r),
                        NEW S, S = {c \in Records : <<c, r>> \in tied /\ item[c].status = "live"}
                 PROVE  IF r \notin Parents THEN item[r].out = item[r].own
                        ELSE CASE S = {} -> item[r].out = None
                               [] Cardinality(S) = 1 -> \A c \in S : item[r].out = item[c].own
                               [] OTHER -> TRUE
        BY DEF DerivedSettles, Live
    <2>1. ~Awaited(r) /\ \A w \in Workers : ~HasLock(w)
        BY DEF Awaited, Begun, HasLock
    <2>2. Fits(r, Linked(r), OwnNow, item[r].out)
        BY <2>1 DEF DerivedInv, NowFits
    <2>3. S = Linked(r) /\ S \subseteq Records
        BY DEF Linked
    <2>4. r \notin Parents => item[r].out = item[r].own
        BY <2>2 DEF Fits, OwnNow
    <2>5. r \in Parents /\ S = {} => item[r].out = None
        BY <2>2, <2>3 DEF Fits
    <2>6. ASSUME r \in Parents, Cardinality(S) = 1, NEW c \in S PROVE item[r].out = item[c].own
        <3>1. IsFiniteSet(S)
            BY <2>3, DerivedAssumption, FS_Subset
        <3>2. PICK x : S = {x}
            BY <2>6, <3>1, FS_Singleton
        <3>3. S = {c} /\ c \in Records
            BY <2>3, <2>6, <3>2
        <3> QED BY <2>2, <2>3, <2>6, <3>3 DEF Fits, OwnNow
    <2>7. Cardinality({}) = 0
        BY FS_EmptySet
    <2> QED BY <2>4, <2>5, <2>6, <2>7
<1> QED BY <1>1, DerivedStart, DerivedStep, PTL DEF DerivedSpec

-----------------------------------------------------------------------------
(* Dedup: the disjoint set.  R gives each record the end of its chain, d a  *)
(* depth that falls along the chain, so that there is one such R.           *)

Climbs(P, R) == R = [x \in Candidates |-> IF x \notin DOMAIN P THEN x ELSE IF P[x] = x THEN x ELSE R[P[x]]]
Parenting(P) == DOMAIN P \subseteq Candidates /\ P = [x \in DOMAIN P |-> P[x]] /\ \A x \in DOMAIN P : P[x] \in DOMAIN P
Falls(P, d) == d \in [Candidates -> Nat] /\ \A x \in DOMAIN P : P[x] = x \/ d[P[x]] < d[x]
\* Roots: ends of chains.
Ends(P, R) ==
    \A x \in Candidates : /\ R[x] \in Candidates /\ R[R[x]] = R[x] /\ (R[x] \in DOMAIN P => P[R[x]] = R[x])
                          /\ x \in DOMAIN P => R[x] \in DOMAIN P
                          /\ x \notin DOMAIN P => R[x] = x
Together(R) == \A u \in united : u \subseteq DOMAIN parent /\ \A x, y \in u : R[x] = R[y]
Chained(R) == \A x \in Candidates, S \in SUBSET Candidates : Closed(S) => (x \in S <=> R[x] \in S)
Forest == \E d, R : Falls(parent, d) /\ Climbs(parent, R) /\ Ends(parent, R) /\ Together(R) /\ Chained(R)
PairsTyped == \A p \in pairs : p.of \in kSubset(2, Candidates)
DedupInv ==
    /\ PairsTyped /\ eligible \subseteq Candidates /\ Parenting(parent) /\ Forest
    /\ (united # {} \/ groups # None) => remaining = {}
    /\ groups # None => united = {p.of : p \in pairs}
    /\ GroupsAreComponents

LEMMA LowestOf ==
    ASSUME NEW S, S \subseteq Nat, S # {}
    PROVE  \E x \in S : \A y \in S : x <= y
<1>1. PICK x \in S : \A y \in S : ~ (<<y, x>> \in OpToRel(<, Nat))
    BY NatLessThanWellFounded, WFMin
<1>2. \A y \in S : ~ (y < x)
    BY <1>1 DEF OpToRel
<1> QED BY <1>2

\* Chains that end have one end each.
LEMMA OneClimb ==
    ASSUME NEW P, NEW d, NEW Q, NEW R, Parenting(P), Falls(P, d), Climbs(P, Q), Climbs(P, R)
    PROVE  Q = R
<1>1. ASSUME NEW x \in Candidates PROVE /\ Q[x] = IF x \notin DOMAIN P THEN x ELSE IF P[x] = x THEN x ELSE Q[P[x]]
                                        /\ R[x] = IF x \notin DOMAIN P THEN x ELSE IF P[x] = x THEN x ELSE R[P[x]]
    BY DEF Climbs
<1>2. ASSUME NEW z \in Candidates, Q[z] # R[z] PROVE FALSE
    <2>1. PICK T : T = {x \in Candidates : Q[x] # R[x]}
        OBVIOUS
    <2>2. PICK S : S = {d[x] : x \in T}
        OBVIOUS
    <2>3. S \subseteq Nat /\ S # {}
        BY <1>2, <2>1, <2>2 DEF Falls
    <2>4. PICK n \in S : \A m \in S : n <= m
        BY <2>3, LowestOf
    <2>5. PICK x \in T : d[x] = n
        BY <2>2
    <2>6. x \in Candidates /\ Q[x] # R[x]
        BY <2>1
    <2>7. x \in DOMAIN P /\ P[x] # x /\ Q[P[x]] # R[P[x]]
        BY <1>1, <2>6
    <2>8. P[x] \in T /\ d[P[x]] < d[x]
        BY <2>1, <2>7 DEF Parenting, Falls
    <2>9. d[P[x]] \in S /\ d[P[x]] \in Nat /\ d[x] \in Nat
        BY <2>1, <2>2, <2>6, <2>8 DEF Falls
    <2> QED BY <2>4, <2>5, <2>8, <2>9
<1>3. \A x \in Candidates : Q[x] = R[x]
    BY <1>2
<1>4. Q = [x \in Candidates |-> Q[x]] /\ R = [x \in Candidates |-> R[x]]
    BY DEF Climbs
<1> QED BY <1>3, <1>4

LEMMA RootIs ==
    ASSUME NEW d, NEW R, Parenting(parent), Falls(parent, d), Climbs(parent, R), NEW c PROVE Root(c) = R[c]
<1> DEFINE U == CHOOSE up : up = [x \in Candidates |-> IF x \notin DOMAIN parent THEN x ELSE IF parent[x] = x THEN x ELSE up[parent[x]]]
<1>1. Root(c) = U[c]
    BY DEF Root
<1>2. \E up : up = [x \in Candidates |-> IF x \notin DOMAIN parent THEN x ELSE IF parent[x] = x THEN x ELSE up[parent[x]]]
    BY DEF Climbs
<1>3. U = [x \in Candidates |-> IF x \notin DOMAIN parent THEN x ELSE IF parent[x] = x THEN x ELSE U[parent[x]]]
    BY <1>2
<1> HIDE DEF U
<1>4. Climbs(parent, U)
    BY <1>3 DEF Climbs
<1>5. U = R
    BY <1>4, OneClimb
<1> QED BY <1>1, <1>5

\* What a union makes of the parents and of the roots.
NewParents(P, R, a, b) == [x \in DOMAIN P \cup {a, b} |-> IF x = R[b] THEN R[a] ELSE IF x \in DOMAIN P THEN P[x] ELSE x]
NewRoots(R, a, b) == [x \in Candidates |-> IF R[x] = R[b] THEN R[a] ELSE R[x]]

\* Uniting two trees: the chains of the right one go on to the left one's root.
LEMMA UniteTrees ==
    ASSUME NEW P, NEW Q, NEW d, NEW R, NEW a \in Candidates, NEW b \in Candidates,
           Parenting(P), Falls(P, d), Climbs(P, R), Ends(P, R),
           Q = NewParents(P, R, a, b), NEW new, new = NewRoots(R, a, b)
    PROVE  Parenting(Q) /\ Climbs(Q, new) /\ Ends(Q, new) /\ \E e : Falls(Q, e)
<1>1. R[a] \in DOMAIN P \cup {a} /\ R[b] \in DOMAIN P \cup {b} /\ R[R[a]] = R[a] /\ R[R[b]] = R[b] /\ R[a] \in Candidates /\ R[b] \in Candidates
    BY DEF Ends
<1>2. \A x \in DOMAIN P : x \in Candidates /\ P[x] \in DOMAIN P /\ P[x] \in Candidates /\ R[x] = IF P[x] = x THEN x ELSE R[P[x]]
    BY DEF Parenting, Climbs
<1>3. \A x \in Candidates \ DOMAIN P : R[x] = x
    BY DEF Ends
<1>4. DOMAIN Q = DOMAIN P \cup {a, b} /\ \A x \in DOMAIN Q : Q[x] = IF x = R[b] THEN R[a] ELSE IF x \in DOMAIN P THEN P[x] ELSE x
    BY DEF NewParents
<1>n. new = [x \in Candidates |-> IF R[x] = R[b] THEN R[a] ELSE R[x]]
    BY DEF NewRoots
<1>5. Parenting(Q)
    <2>1. DOMAIN Q \subseteq Candidates
        BY <1>4 DEF Parenting
    <2>2. Q = [x \in DOMAIN Q |-> Q[x]]
        BY DEF NewParents
    <2>3. \A x \in DOMAIN Q : Q[x] \in DOMAIN Q
        BY <1>1, <1>2, <1>4
    <2> QED BY <2>1, <2>2, <2>3 DEF Parenting
<1>6. ASSUME NEW x \in Candidates PROVE new[x] = IF x \notin DOMAIN Q THEN x ELSE IF Q[x] = x THEN x ELSE new[Q[x]]
    <2>1. CASE x \notin DOMAIN Q
        BY <1>n, <1>1, <1>3, <1>4, <2>1
    <2>2. CASE x = R[b]
        BY <1>n, <1>1, <1>4, <2>2
    <2>3. CASE x # R[b] /\ x \in DOMAIN P
        BY <1>n, <1>2, <1>4, <2>3
    <2>4. CASE x # R[b] /\ x \in DOMAIN Q \ DOMAIN P
        BY <1>n, <1>3, <1>4, <2>4
    <2> QED BY <2>1, <2>2, <2>3, <2>4
<1>7. Climbs(Q, new)
    BY <1>n, <1>6 DEF Climbs
<1>8. Ends(Q, new)
    <2> SUFFICES ASSUME NEW x \in Candidates
                 PROVE  /\ new[x] \in Candidates /\ new[new[x]] = new[x] /\ (new[x] \in DOMAIN Q => Q[new[x]] = new[x])
                        /\ x \in DOMAIN Q => new[x] \in DOMAIN Q
                        /\ x \notin DOMAIN Q => new[x] = x
        BY DEF Ends
    <2>1. /\ R[x] \in Candidates /\ R[R[x]] = R[x] /\ (R[x] \in DOMAIN P => P[R[x]] = R[x])
          /\ x \in DOMAIN P => R[x] \in DOMAIN P
          /\ x \notin DOMAIN P => R[x] = x
        BY DEF Ends
    <2>2. R[a] \in DOMAIN P => P[R[a]] = R[a]
        BY DEF Ends
    <2>3. new[x] \in Candidates /\ new[new[x]] = new[x]
        BY <1>n, <1>1, <2>1
    <2>4. new[x] \in DOMAIN Q => Q[new[x]] = new[x]
        BY <1>n, <1>1, <1>4, <2>1, <2>2
    <2>5. x \in DOMAIN Q => new[x] \in DOMAIN Q
        BY <1>n, <1>1, <1>4, <2>1
    <2>6. x \notin DOMAIN Q => new[x] = x
        BY <1>n, <1>1, <1>4, <2>1
    <2> QED BY <2>3, <2>4, <2>5, <2>6
<1>9. \E e : Falls(Q, e)
    <2>1. CASE R[a] = R[b]
        <3>1. ASSUME NEW x \in DOMAIN Q PROVE Q[x] = x \/ (x \in DOMAIN P /\ Q[x] = P[x])
            BY <1>4, <2>1
        <3>2. \A x \in DOMAIN Q : Q[x] = x \/ d[Q[x]] < d[x]
            BY <3>1 DEF Falls
        <3> QED BY <3>2 DEF Falls
    <2>2. CASE R[a] # R[b]
        <3>1. PICK e : e = [x \in Candidates |-> IF R[x] = R[b] THEN d[x] + d[R[a]] + 1 ELSE d[x]]
            OBVIOUS
        <3>2. d \in [Candidates -> Nat] /\ d[R[a]] \in Nat
            BY <1>1 DEF Falls
        <3>3. e \in [Candidates -> Nat]
            BY <3>1, <3>2
        <3>4. ASSUME NEW x \in DOMAIN Q, Q[x] # x PROVE e[Q[x]] < e[x]
            <4>1. x \in Candidates /\ Q[x] \in Candidates
                BY <1>5 DEF Parenting
            <4>2. CASE x = R[b]
                <5>1. Q[x] = R[a] /\ e[Q[x]] = d[R[a]] /\ e[x] = d[x] + d[R[a]] + 1
                    BY <1>1, <1>4, <2>2, <3>1, <4>1, <4>2
                <5>2. d[x] \in Nat
                    BY <3>2, <4>1
                <5> QED BY <3>2, <5>1, <5>2
            <4>3. CASE x # R[b]
                <5>1. x \in DOMAIN P /\ Q[x] = P[x] /\ P[x] # x
                    BY <1>4, <3>4, <4>3
                <5>2. R[Q[x]] = R[x] /\ d[Q[x]] < d[x] /\ d[Q[x]] \in Nat /\ d[x] \in Nat
                    BY <1>2, <3>2, <4>1, <5>1 DEF Falls
                <5> QED BY <3>1, <3>2, <4>1, <5>2
            <4> QED BY <4>2, <4>3
        <3> QED BY <3>3, <3>4 DEF Falls
    <2> QED BY <2>1, <2>2
<1> QED BY <1>5, <1>7, <1>8, <1>9

LEMMA PairTyped ==
    ASSUME NEW u \in kSubset(2, Candidates)
    PROVE  u \subseteq Candidates /\ IsFiniteSet(u) /\ Cardinality(u) = 2 /\ \E a, b \in Candidates : u = {a, b}
<1>1. u \subseteq Candidates /\ Cardinality(u) = 2
    BY DEF kSubset
<1>2. IsFiniteSet(u)
    BY <1>1, DedupAssumption, FS_Subset
<1>3. u # {}
    BY <1>1, FS_EmptySet
<1>4. PICK a : a \in u
    BY <1>3
<1>5. IsFiniteSet(u \ {a}) /\ Cardinality(u \ {a}) = 1
    BY <1>1, <1>2, <1>4, FS_RemoveElement
<1>6. PICK b : u \ {a} = {b}
    BY <1>5, FS_Singleton
<1>7. u = {a, b}
    BY <1>4, <1>6
<1> QED BY <1>1, <1>2, <1>7

LEMMA DedupStart == DedupInit => DedupInv
<1> SUFFICES ASSUME DedupInit PROVE DedupInv
    OBVIOUS
<1>1. DOMAIN parent = {} /\ parent = [x \in DOMAIN parent |-> parent[x]]
    BY DEF DedupInit
<1>2. PICK d : d = [x \in Candidates |-> 0]
    OBVIOUS
<1>3. PICK R : R = [x \in Candidates |-> x]
    OBVIOUS
<1>4. Falls(parent, d) /\ Climbs(parent, R) /\ Ends(parent, R) /\ Together(R) /\ Chained(R)
    BY <1>1, <1>2, <1>3 DEF DedupInit, Falls, Climbs, Ends, Together, Chained
<1>5. Forest
    BY <1>4 DEF Forest
<1>6. Parenting(parent)
    BY <1>1 DEF Parenting
<1> QED BY <1>5, <1>6 DEF DedupInit, DedupInv, PairsTyped, GroupsAreComponents

LEMMA UniteKeeps ==
    ASSUME DedupInv, NEW a \in Candidates, NEW b \in Candidates, Unite(a, b) PROVE DedupInv'
<1>1. PICK d, R : Falls(parent, d) /\ Climbs(parent, R) /\ Ends(parent, R) /\ Together(R) /\ Chained(R)
    BY DEF DedupInv, Forest
<1>2. Root(a) = R[a] /\ Root(b) = R[b]
    BY <1>1, RootIs DEF DedupInv
<1>3. parent' = [x \in DOMAIN parent \cup {a, b} |-> IF x = R[b] THEN R[a] ELSE IF x \in DOMAIN parent THEN parent[x] ELSE x]
    BY <1>2 DEF Unite, Union
<1>4. PICK new : new = [x \in Candidates |-> IF R[x] = R[b] THEN R[a] ELSE R[x]]
    OBVIOUS
<1>5. PICK P : P = parent
    OBVIOUS
<1>6. PICK Q : Q = parent'
    OBVIOUS
<1>7. Parenting(Q) /\ Climbs(Q, new) /\ Ends(Q, new) /\ \E e : Falls(Q, e)
    <2>1. Parenting(P) /\ Falls(P, d) /\ Climbs(P, R) /\ Ends(P, R)
        BY <1>1, <1>5 DEF DedupInv
    <2>2. Q = NewParents(P, R, a, b) /\ new = NewRoots(R, a, b)
        BY <1>3, <1>4, <1>5, <1>6 DEF NewParents, NewRoots
    <2> QED BY <2>1, <2>2, UniteTrees
<1>8. united' = united \cup {{a, b}} /\ DOMAIN parent' = DOMAIN parent \cup {a, b} /\ UNCHANGED <<eligible, pairs, remaining, groups>>
    BY <1>3 DEF Unite
<1>9. Together(new)'
    <2>1. \A x, y \in Candidates : R[x] = R[y] => new[x] = new[y]
        BY <1>4
    <2>2. new[a] = new[b]
        BY <1>4
    <2>3. DOMAIN parent \subseteq Candidates
        BY DEF DedupInv, Parenting
    <2> QED BY <1>1, <1>8, <2>1, <2>2, <2>3 DEF Together
<1>10. Chained(new)'
    <2> SUFFICES ASSUME NEW x \in Candidates, NEW S \in SUBSET Candidates, Closed(S) PROVE x \in S <=> new[x] \in S
        BY <1>8 DEF Chained, Closed
    <2>1. PICK p \in pairs : p.of = {a, b}
        BY DEF Unite
    <2>2. a \in S <=> b \in S
        BY <2>1 DEF Closed
    <2>3. (x \in S <=> R[x] \in S) /\ (a \in S <=> R[a] \in S) /\ (b \in S <=> R[b] \in S)
        BY <1>1 DEF Chained
    <2> QED BY <1>4, <2>2, <2>3
<1>11. Forest'
    <2>1. PICK e : Falls(parent, e)'
        BY <1>6, <1>7
    <2> QED BY <1>6, <1>7, <1>9, <1>10, <2>1 DEF Forest
<1>12. Parenting(parent)'
    BY <1>6, <1>7
<1>13. remaining = {} /\ {a, b} \notin united /\ {a, b} \in {p.of : p \in pairs}
    BY DEF Unite
<1>14. groups = None
    BY <1>13 DEF DedupInv
<1> QED BY <1>8, <1>11, <1>12, <1>13, <1>14 DEF DedupInv, PairsTyped, GroupsAreComponents

\* A set with two elements has two at least.
LEMMA TwoElements ==
    ASSUME NEW S, IsFiniteSet(S), NEW a \in S, NEW b \in S, a # b
    PROVE  Cardinality(S) >= 2
<1>1. IsFiniteSet({a}) /\ Cardinality({a}) = 1
    BY FS_Singleton
<1>2. IsFiniteSet({a, b}) /\ Cardinality({a, b}) = 2
    <2>1. {a, b} = {a} \cup {b}
        OBVIOUS
    <2>2. b \notin {a}
        OBVIOUS
    <2>3. IsFiniteSet({a} \cup {b}) /\ Cardinality({a} \cup {b}) = 1 + 1
        BY <1>1, <2>2, FS_AddElement
    <2> QED BY <2>1, <2>3
<1>3. {a, b} \subseteq S
    OBVIOUS
<1> QED BY <1>2, <1>3, FS_Subset, FS_CardinalityType

\* Once all pairs are united, two records are joined exactly if their chains have one end: the records
\* with one end are a closed set.
LEMMA JoinedMeansRoot ==
    ASSUME Parenting(parent), NEW R, Ends(parent, R), Together(R), Chained(R), united = {p.of : p \in pairs},
           NEW a \in Candidates, NEW b \in Candidates, a # b
    PROVE  Joined(a, b) <=> a \in DOMAIN parent /\ b \in DOMAIN parent /\ R[a] = R[b]
<1>1. ASSUME R[a] = R[b] PROVE Joined(a, b)
    BY <1>1 DEF Chained, Joined
<1>2. ASSUME Joined(a, b) PROVE a \in DOMAIN parent /\ b \in DOMAIN parent /\ R[a] = R[b]
    <2> PICK S : S = {x \in Candidates : R[x] = R[a]}
        OBVIOUS
    <2>1. ASSUME NEW p \in pairs PROVE p.of \subseteq S \/ p.of \cap S = {}
        <3>1. p.of \in united
            BY <2>1
        <3>2. p.of \subseteq DOMAIN parent /\ \A x, y \in p.of : R[x] = R[y]
            BY <3>1 DEF Together
        <3>3. p.of \subseteq Candidates
            BY <3>2 DEF Parenting
        <3> QED BY <3>2, <3>3
    <2>2. Closed(S) /\ S \in SUBSET Candidates /\ a \in S
        BY <2>1 DEF Closed
    <2>3. R[b] = R[a]
        BY <1>2, <2>2 DEF Joined
    <2>4. \A x \in Candidates : (x \in DOMAIN parent => R[x] \in DOMAIN parent) /\ (x \notin DOMAIN parent => R[x] = x)
        BY DEF Ends
    <2>5. a \in DOMAIN parent /\ b \in DOMAIN parent
        BY <2>3, <2>4
    <2> QED BY <2>3, <2>5
<1> QED BY <1>1, <1>2

LEMMA ReportKeeps ==
    ASSUME DedupInv, Report PROVE DedupInv'
<1>1. PICK d, R : Falls(parent, d) /\ Climbs(parent, R) /\ Ends(parent, R) /\ Together(R) /\ Chained(R)
    BY DEF DedupInv, Forest
<1>2. \A c : Root(c) = R[c]
    BY <1>1, RootIs DEF DedupInv
<1>3. PICK G : G = [c \in Candidates |-> {x \in DOMAIN parent : R[x] = c}]
    OBVIOUS
<1>4. \A c \in Candidates : Grouped(c) = G[c]
    BY <1>2, <1>3 DEF Grouped
<1>5. DOMAIN parent \subseteq Candidates
    BY DEF DedupInv, Parenting
<1>6. PICK ends : ends = {R[x] : x \in DOMAIN parent}
    OBVIOUS
<1>7. ends \subseteq Candidates
    BY <1>1, <1>5, <1>6 DEF Ends
<1>8. UNCHANGED <<eligible, pairs, remaining, parent, united>> /\ remaining = {} /\ united = {p.of : p \in pairs}
    BY DEF Report
<1>9. groups' = {g \in {[records |-> G[c] \cap eligible,
                         evidence |-> {p.rule : p \in {q \in pairs : q.of \subseteq G[c]}}] : c \in ends} : Cardinality(g.records) >= 2}
    <2>1. ends = {Root(x) : x \in DOMAIN parent}
        BY <1>2, <1>6
    <2>2. PICK built : built = [c \in Candidates |-> [records |-> Grouped(c) \cap eligible,
                                                     evidence |-> {p.rule : p \in {q \in pairs : q.of \subseteq Grouped(c)}}]]
        OBVIOUS
    <2>3. groups' = {g \in {built[c] : c \in ends} : Cardinality(g.records) >= 2}
        BY <1>7, <2>1, <2>2 DEF Report
    <2>4. \A c \in ends : built[c] = [records |-> G[c] \cap eligible,
                                      evidence |-> {p.rule : p \in {q \in pairs : q.of \subseteq G[c]}}]
        BY <1>4, <1>7, <2>2
    <2> QED BY <2>3, <2>4
<1>10. PICK built : built = [c \in Candidates |-> [records |-> G[c] \cap eligible,
                                                   evidence |-> {p.rule : p \in {q \in pairs : q.of \subseteq G[c]}}]]
    OBVIOUS
<1>11. groups' = {g \in {built[c] : c \in ends} : Cardinality(g.records) >= 2}
    <2>1. \A c \in ends : built[c] = [records |-> G[c] \cap eligible,
                                      evidence |-> {p.rule : p \in {q \in pairs : q.of \subseteq G[c]}}]
        BY <1>7, <1>10
    <2> QED BY <1>9, <2>1
<1>12. \A a, b \in Candidates : a # b => (Joined(a, b) <=> \E c \in ends : {a, b} \subseteq G[c])
    <2>1. ASSUME NEW a \in Candidates, NEW b \in Candidates, a # b
          PROVE  Joined(a, b) <=> a \in DOMAIN parent /\ b \in DOMAIN parent /\ R[a] = R[b]
        BY <1>1, <1>8, <2>1, JoinedMeansRoot DEF DedupInv
    <2>2. ASSUME NEW a \in Candidates, NEW b \in Candidates
          PROVE  (a \in DOMAIN parent /\ b \in DOMAIN parent /\ R[a] = R[b]) <=> \E c \in ends : {a, b} \subseteq G[c]
        BY <1>3, <1>6, <1>7
    <2> QED BY <2>1, <2>2
<1>13. \A c, a, b \in Candidates : a \in G[c] /\ b \in G[c] => Joined(a, b)
    BY <1>1, <1>3 DEF Chained, Joined
<1>14. eligible \subseteq Candidates /\ \A c \in Candidates : G[c] \subseteq Candidates
    BY <1>3, <1>5 DEF DedupInv
<1>15. ASSUME NEW g \in groups'
       PROVE  \E c \in ends : /\ g = built[c] /\ g.records = G[c] \cap eligible /\ Cardinality(g.records) >= 2
                              /\ g.evidence = {p.rule : p \in {q \in pairs : q.of \subseteq G[c]}}
    <2>1. PICK c \in ends : g = built[c] /\ Cardinality(g.records) >= 2
        BY <1>11
    <2> QED BY <1>7, <1>10, <2>1
<1>16. ASSUME NEW a \in eligible, NEW b \in eligible, a # b
       PROVE  (\E g \in groups' : {a, b} \subseteq g.records) <=> Joined(a, b)
    <2>1. ASSUME NEW g \in groups', {a, b} \subseteq g.records PROVE Joined(a, b)
        <3>1. PICK c \in ends : g.records = G[c] \cap eligible
            BY <1>15
        <3> QED BY <1>7, <1>13, <1>14, <2>1, <3>1
    <2>2. ASSUME Joined(a, b) PROVE \E g \in groups' : {a, b} \subseteq g.records
        <3>1. PICK c \in ends : {a, b} \subseteq G[c]
            BY <1>12, <1>14, <1>16, <2>2
        <3>2. built[c].records = G[c] \cap eligible /\ {a, b} \subseteq built[c].records
            BY <1>7, <1>10, <1>16, <3>1
        <3>3. Cardinality(built[c].records) >= 2
            BY <1>7, <1>14, <1>16, <3>2, TwoElements, DedupAssumption, FS_Subset DEF DedupAssumption
        <3> QED BY <1>11, <3>2, <3>3
    <2> QED BY <2>1, <2>2
<1>17. ASSUME NEW g \in groups', NEW h \in groups', g.records \cap h.records # {} PROVE g = h
    <2>1. PICK c \in ends : g = built[c] /\ g.records = G[c] \cap eligible
        BY <1>15
    <2>2. PICK e \in ends : h = built[e] /\ h.records = G[e] \cap eligible
        BY <1>15
    <2>3. PICK x : x \in G[c] /\ x \in G[e]
        BY <1>17, <2>1, <2>2
    <2>4. c = e
        BY <1>3, <1>7, <2>3
    <2> QED BY <2>1, <2>2, <2>4
<1>18. ASSUME NEW g \in groups'
       PROVE  g.evidence = {p.rule : p \in {q \in pairs : \A a \in q.of, b \in g.records : Joined(a, b)}}
    <2>1. PICK c \in ends : /\ g.records = G[c] \cap eligible /\ Cardinality(g.records) >= 2
                            /\ g.evidence = {p.rule : p \in {q \in pairs : q.of \subseteq G[c]}}
        BY <1>15
    <2>2. ASSUME NEW q \in pairs PROVE q.of \subseteq G[c] <=> \A a \in q.of, b \in g.records : Joined(a, b)
        <3>1. q.of \subseteq Candidates /\ q.of \subseteq DOMAIN parent
            BY <1>1, <1>8, PairTyped DEF DedupInv, PairsTyped, Together
        <3>2. ASSUME q.of \subseteq G[c] PROVE \A a \in q.of, b \in g.records : Joined(a, b)
            BY <1>7, <1>13, <1>14, <2>1, <3>1, <3>2
        <3>3. ASSUME \A a \in q.of, b \in g.records : Joined(a, b) PROVE q.of \subseteq G[c]
            <4>1. g.records # {}
                BY <2>1, FS_EmptySet
            <4>2. PICK b \in g.records : b \in G[c] /\ b \in Candidates
                BY <1>14, <2>1, <4>1
            <4>3. ASSUME NEW a \in q.of PROVE a \in G[c]
                <5>1. CASE a = b
                    BY <4>2, <5>1
                <5>2. CASE a # b
                    <6>1. PICK e \in ends : {a, b} \subseteq G[e]
                        BY <1>12, <3>1, <3>3, <4>2, <5>2
                    <6>2. e = c
                        BY <1>3, <1>7, <4>2, <6>1
                    <6> QED BY <6>1, <6>2
                <5> QED BY <5>1, <5>2
            <4> QED BY <4>3
        <3> QED BY <3>2, <3>3
    <2> QED BY <2>1, <2>2
<1>19. GroupsAreComponents'
    <2>1. \A a, b : Joined(a, b)' <=> Joined(a, b)
        BY <1>8 DEF Joined, Closed
    <2>2. \A g \in groups' : g.records \subseteq eligible /\ Cardinality(g.records) >= 2
        BY <1>15
    <2> QED BY <1>8, <1>16, <1>17, <1>18, <2>1, <2>2 DEF GroupsAreComponents
<1>20. Forest'
    BY <1>1, <1>8 DEF Forest, Together, Chained, Closed
<1> QED BY <1>8, <1>19, <1>20 DEF DedupInv, PairsTyped

LEMMA QueryRuleKeeps ==
    ASSUME DedupInv, NEW rule \in Rules, NEW found \in SUBSET kSubset(2, eligible), QueryRule(rule, found) PROVE DedupInv'
<1>1. united = {} /\ groups = None /\ UNCHANGED <<eligible, parent, united, groups>> /\ pairs \subseteq pairs'
    BY DEF DedupInv, QueryRule
<1>2. PairsTyped'
    <2>1. kSubset(2, eligible) \subseteq kSubset(2, Candidates)
        BY DEF kSubset, DedupInv
    <2>2. \A p \in pairs' : p \in pairs \/ p.of \in found
        BY DEF QueryRule
    <2> QED BY <2>1, <2>2 DEF DedupInv, PairsTyped
<1>3. \A S : Closed(S)' => Closed(S)
    BY <1>1 DEF Closed
<1>4. Forest'
    <2>1. PICK d, R : Falls(parent, d) /\ Climbs(parent, R) /\ Ends(parent, R) /\ Together(R) /\ Chained(R)
        BY DEF DedupInv, Forest
    <2>2. Falls(parent, d)' /\ Climbs(parent, R)' /\ Ends(parent, R)' /\ Together(R)'
        BY <1>1, <2>1 DEF Together
    <2>3. Chained(R)'
        BY <1>3, <2>1 DEF Chained
    <2> QED BY <2>2, <2>3 DEF Forest
<1> QED BY <1>1, <1>2, <1>4 DEF DedupInv, GroupsAreComponents

LEMMA DedupQuiet ==
    ASSUME DedupInv, UNCHANGED <<pairs, remaining, parent, united, groups>>, eligible' \subseteq eligible,
           groups # None => eligible' = eligible
    PROVE  DedupInv'
<1>1. Forest'
    <2>1. PICK d, R : Falls(parent, d) /\ Climbs(parent, R) /\ Ends(parent, R) /\ Together(R) /\ Chained(R)
        BY DEF DedupInv, Forest
    <2>2. Falls(parent, d)' /\ Climbs(parent, R)' /\ Ends(parent, R)' /\ Together(R)' /\ Chained(R)'
        BY <2>1 DEF Together, Chained, Closed
    <2> QED BY <2>2 DEF Forest
<1>2. GroupsAreComponents'
    BY DEF DedupInv, GroupsAreComponents, Joined, Closed
<1> QED BY <1>1, <1>2 DEF DedupInv, PairsTyped

\* For any candidates, rules and pairs, united in any order while records go: the groups reported
\* are exactly the connected components of the pairs among the records still there, each once, with the
\* evidence of their chains (DisjointSet, groups).
THEOREM GroupsConnect == DedupSpec => []GroupsAreComponents
<1>1. DedupInv /\ [DedupNext]_dedupVars => DedupInv'
    <2> SUFFICES ASSUME DedupInv, [DedupNext]_dedupVars PROVE DedupInv'
        OBVIOUS
    <2>1. ASSUME NEW c \in Candidates, Disappear(c) PROVE DedupInv'
        BY <2>1, DedupQuiet DEF Disappear
    <2>2. CASE UNCHANGED dedupVars
        BY <2>2, DedupQuiet DEF dedupVars
    <2> QED BY <2>1, <2>2, QueryRuleKeeps, UniteKeeps, ReportKeeps DEF DedupNext
<1>2. DedupInv => GroupsAreComponents
    BY DEF DedupInv
<1> QED BY <1>1, <1>2, DedupStart, PTL DEF DedupSpec
====
