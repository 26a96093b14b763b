---------------------------- MODULE JobLifecycle ----------------------------
(***************************************************************************)
(* What the job queue promises to the code that enqueues and polls jobs:   *)
(* the life of a row of queue_jobs and the handlers at work on it, seen    *)
(* without slots, statements, leases or transactions.  A claim is a worker *)
(* and the number it was given; a job is claimed any number of times, over *)
(* the head of those still at work.  A running job is settled by a handler *)
(* of the worker that holds it, and only while the handler of the latest   *)
(* claim is at work.  The latest claim gives a job back only if attempts   *)
(* are left; an older claim of the same worker may do so at any time.  A   *)
(* settled job is never worked on again, and only a completed one is       *)
(* removed.                                                                *)
(***************************************************************************)
EXTENDS Naturals

CONSTANTS Job, Worker, None, MaxAttempts

VARIABLES
    status,     \* status[j]: where job j is in its life
    attempts,   \* attempts[j]: how often j has been claimed
    holder,     \* holder[j]: the worker of the current claim, or None
    working     \* working[j]: the claims whose handlers are at work

vars == <<status, attempts, holder, working>>

Init == /\ status = [j \in Job |-> "absent"]
        /\ attempts = [j \in Job |-> 0]
        /\ holder = [j \in Job |-> None]
        /\ working = [j \in Job |-> {}]

Submit(j) == /\ status[j] = "absent"
             /\ status' = [status EXCEPT ![j] = "queued"]
             /\ UNCHANGED <<attempts, holder, working>>

\* A running job may be claimed over the head of its holder: a lease is no promise.
Take(j, w) == /\ status[j] \in {"queued", "running"}
              /\ status' = [status EXCEPT ![j] = "running"]
              /\ attempts' = [attempts EXCEPT ![j] = @ + 1]
              /\ holder' = [holder EXCEPT ![j] = w]
              /\ working' = [working EXCEPT ![j] = @ \cup {<<w, attempts[j] + 1>>}]

Latest(j) == <<holder[j], attempts[j]>>

MaySettle(j, c) == /\ status[j] = "running"
                   /\ {c, Latest(j)} \subseteq working[j]
                   /\ c[1] = holder[j]

Ends(j, c) == working' = [working EXCEPT ![j] = @ \ {c}]

\* A handler that does not hear of its success is still at work.
Complete(j, c) == /\ MaySettle(j, c)
                  /\ status' = [status EXCEPT ![j] = "completed"]
                  /\ holder' = [holder EXCEPT ![j] = None]
                  /\ Ends(j, c) \/ UNCHANGED working
                  /\ UNCHANGED attempts

Retry(j, c) == /\ MaySettle(j, c)
               /\ attempts[j] < MaxAttempts \/ c # Latest(j)
               /\ status' = [status EXCEPT ![j] = "queued"]
               /\ holder' = [holder EXCEPT ![j] = None]
               /\ Ends(j, c)
               /\ UNCHANGED attempts

Exhaust(j, c) == /\ MaySettle(j, c)
                 /\ attempts[j] >= MaxAttempts
                 /\ status' = [status EXCEPT ![j] = "failed"]
                 /\ Ends(j, c)
                 /\ UNCHANGED <<attempts, holder>>

Cancel(j) == /\ status[j] \in {"queued", "running"}
             /\ status' = [status EXCEPT ![j] = "cancelled"]
             /\ UNCHANGED <<attempts, holder, working>>

Remove(j) == /\ status[j] = "completed"
             /\ status' = [status EXCEPT ![j] = "purged"]
             /\ UNCHANGED <<attempts, holder, working>>

\* A handler ends without effect on the row.
Leave(j, c) == /\ c \in working[j]
               /\ Ends(j, c)
               /\ UNCHANGED <<status, attempts, holder>>

\* A worker is gone, and all its handlers with it.
Die(w) == /\ working' = [j \in Job |-> {c \in working[j] : c[1] # w}]
          /\ UNCHANGED <<status, attempts, holder>>

Settle(j, c) == Complete(j, c) \/ Retry(j, c) \/ Exhaust(j, c) \/ Leave(j, c)

Step(j) == \/ Submit(j) \/ Cancel(j) \/ Remove(j)
           \/ \E w \in Worker : Take(j, w)
           \/ \E c \in working[j] : Settle(j, c)

Next == (\E j \in Job : Step(j)) \/ \E w \in Worker : Die(w)

Spec == Init /\ [][Next]_vars
=============================================================================
