------------------------------ MODULE Derived ------------------------------
(***************************************************************************)
(* Derived attributes and the derived.refresh job (derived/refresh.ts,     *)
(* jobs/derived-refresh.ts, enqueueDerivedRefresh).                        *)
(*                                                                         *)
(* A child's derived attribute is a formula over its own value; a parent's *)
(* is a relation_sync: the value of the one child linked to it, an error   *)
(* when there are more.  A job finds the records it concerns, begins a     *)
(* transaction, takes the team's lock of namespace 9, reads those records  *)
(* type by type, and computes and writes them one after the other.  A row  *)
(* it has written stays locked until it commits; writers come with one     *)
(* statement and their commit, so a write is one step.  The person a job   *)
(* runs for sees every record.                                             *)
(***************************************************************************)
EXTENDS Pool, Integers, FiniteSets, Functions

CONSTANTS
    Ids,                \* the records, in the order of their ids
    Parents,            \* those of the type with the relation_sync attribute
    Values,
    MaxTries,           \* attempts of a job
    MaxWrites           \* bound on what callers do

Records == Range(Ids)
Types == {Parents, Records \ Parents}

\* Jobs, what a refresh reads and writes of a record, and what a worker is about.
ItemStates == [status : {"live", "deleted", "erased"}, own : Values \cup {None}, out : Values \cup {None}]
Requests == [id : Nat, of : SUBSET Records, tries : Nat]
PartOf(T) == UNION {[S -> T] : S \in SUBSET Records}
Refreshes == [job : Requests, ids : SUBSET Records, phase : {"begun", "reading", "computing"}, unread : SUBSET Types,
         read : PartOf(ItemStates), todo : SUBSET Records, wrote : PartOf([own : Values \cup {None}, out : Values \cup {None}]),
         state : {None, "ready", "failed"}]
ASSUME DerivedAssumption == IsFiniteSet(Records) /\ Parents \subseteq Records /\ None \notin Refreshes

VARIABLES
    item,      \* records: [status, own, out], out the derived attribute
    tied,      \* active links, a child and a parent
    waiting,   \* derived.refresh jobs queued: [id, of, tries]
    runs,      \* the jobs that run
    state,     \* attribute_derivations.refresh_state of the parents' attribute
    latest,    \* history: what a caller last stored in a record
    owed,      \* history: records for which no refresh was asked for, or it failed for good
    writes     \* bound; also the number of the next job

derivedVars == <<item, tied, waiting, runs, state, latest, owed, writes>>

DerivedInit ==
    /\ item = [r \in Records |-> [status |-> "live", own |-> None, out |-> None]]
    /\ tied = {}
    /\ waiting = {}
    /\ runs = [w \in Workers |-> None]
    /\ state = "ready"
    /\ latest = [r \in Records |-> None]
    /\ owed = {}
    /\ writes = 0

Neighbours(S) == {r \in Records : \E s \in S : <<r, s>> \in tied \/ <<s, r>> \in tied}

-----------------------------------------------------------------------------
\* What callers do.
Queued(S, tries) == [id |-> writes, of |-> S, tries |-> tries]
Count == writes < MaxWrites /\ writes' = writes + 1

\* No refresh has written the row and not committed.
Unlocked(r) == \A w \in Workers : runs[w] # None => r \notin DOMAIN runs[w].wrote

\* A write of a record for a person, or one that nobody stands behind: that asks for no refresh.
Store(r, v, person) ==
    /\ Count
    /\ item[r].status = "live" /\ item[r].own # v /\ Unlocked(r)
    /\ item' = [item EXCEPT ![r].own = v]
    /\ latest' = [latest EXCEPT ![r] = v]
    /\ waiting' = IF person THEN waiting \cup {Queued({r}, 0)} ELSE waiting
    /\ owed' = IF person THEN owed ELSE owed \cup {r} \cup Neighbours({r})
    /\ UNCHANGED <<tied, runs, state>>

\* linkRecords and unlinkRecords: a refresh of both ends.
Tie(c, p) ==
    /\ Count
    /\ item[c].status = "live" /\ item[p].status = "live"
    /\ tied' = IF <<c, p>> \in tied THEN tied \ {<<c, p>>} ELSE tied \cup {<<c, p>>}
    /\ waiting' = waiting \cup {Queued({c, p}, 0)}
    /\ UNCHANGED <<item, runs, state, latest, owed>>

\* deleteRecord ends the links and touches the records at their other ends.
Delete(r) ==
    /\ Count
    /\ item[r].status = "live" /\ Unlocked(r)
    /\ item' = [item EXCEPT ![r].status = "deleted"]
    /\ tied' = {t \in tied : r \notin {t[1], t[2]}}
    /\ waiting' = waiting \cup {Queued({r} \cup Neighbours({r}), 0)}
    /\ UNCHANGED <<runs, state, latest, owed>>

\* eraseRecord empties the record, ends the links and touches only the record.
Erase(r) ==
    /\ Count
    /\ item[r].status # "erased" /\ Unlocked(r)
    /\ item' = [item EXCEPT ![r] = [status |-> "erased", own |-> None, out |-> None]]
    /\ latest' = [latest EXCEPT ![r] = None]
    /\ tied' = {t \in tied : r \notin {t[1], t[2]}}
    /\ waiting' = waiting \cup {Queued({r}, 0)}
    /\ owed' = owed \cup Neighbours({r})
    /\ UNCHANGED <<runs, state>>

-----------------------------------------------------------------------------
\* A worker claims a job; impactedRecords follows the links of this moment.
TakeUp(w, job) ==
    /\ runs[w] = None /\ job \in waiting
    /\ waiting' = waiting \ {job}
    /\ runs' = [runs EXCEPT ![w] = [job |-> job, ids |-> job.of \cup Neighbours(job.of), phase |-> "begun",
                                    unread |-> Types, read |-> <<>>, todo |-> {}, wrote |-> <<>>,
                                    state |-> None]]
    /\ UNCHANGED <<item, tied, state, latest, owed, writes>>

\* Mutant: the transaction starts without the team's lock.
Unguarded(w) == TRUE

\* lockDerivedRefresh: no other refresh holds namespace 9 for the team.
LockFree(w) == \A v \in Workers \ {w} : runs[v] # None => runs[v].phase = "begun"

Lock(w) ==
    /\ runs[w] # None /\ runs[w].phase = "begun"
    /\ LockFree(w)
    /\ runs' = [runs EXCEPT ![w].phase = "reading"]
    /\ UNCHANGED <<item, tied, waiting, state, latest, owed, writes>>

\* recordsForRefresh: one statement for the live records of a type, then the order of the ids.
Read(w, T) ==
    /\ runs[w] # None /\ runs[w].phase = "reading" /\ T \in runs[w].unread
    /\ LET run == runs[w]
           rows == {r \in run.ids \cap T : item[r].status = "live"}
           read == [r \in DOMAIN run.read \cup rows |-> IF r \in rows THEN item[r] ELSE run.read[r]]
           last == run.unread = {T}
       IN  runs' = [runs EXCEPT ![w].read = read, ![w].unread = @ \ {T},
                                ![w].phase = IF last THEN "computing" ELSE @,
                                ![w].todo = IF last THEN DOMAIN read ELSE @]
    /\ UNCHANGED <<item, tied, waiting, state, latest, owed, writes>>

\* relatedRecords: the live records at the other end of the active links.
Linked(r) == {c \in Records : <<c, r>> \in tied /\ item[c].status = "live"}

\* The value a transaction sees: what it wrote itself, else what is committed.
Seen(run, c) == IF c \in DOMAIN run.wrote THEN run.wrote[c].own ELSE item[c].own

\* computeDerived of a record that was read with these data; on_multiple is error.
Computable(r) == r \in Parents => Cardinality(Linked(r)) <= 1
Computed(run, r, own) ==
    IF r \notin Parents THEN own
    ELSE IF Linked(r) = {} THEN None ELSE Seen(run, CHOOSE c \in Linked(r) : TRUE)

\* One record, the first in the order of the ids: its attribute's state, and the whole of its data
\* when the value is new.
IsFirst(r, S) == \E i \in DOMAIN Ids : Ids[i] = r /\ r \in S /\ \A j \in 1 .. i - 1 : Ids[j] \notin S
Refresh(w) ==
    /\ runs[w] # None /\ runs[w].phase = "computing"
    /\ \E r \in runs[w].todo : IsFirst(r, runs[w].todo) /\
       LET run == runs[w]
           old == run.read[r]
           out == IF Computable(r) THEN Computed(run, r, old.own) ELSE old.out
           wrote == [x \in DOMAIN run.wrote \cup {r} |->
                        IF x = r THEN [own |-> old.own, out |-> out] ELSE run.wrote[x]]
       IN  runs' = [runs EXCEPT ![w].todo = @ \ {r},
                                ![w].wrote = IF out = old.out THEN @ ELSE wrote,
                                ![w].state = IF r \notin Parents THEN @
                                             ELSE IF Computable(r) THEN "ready" ELSE "failed"]
    /\ UNCHANGED <<item, tied, waiting, state, latest, owed, writes>>

Commit(w) ==
    /\ runs[w] # None /\ runs[w].phase = "computing" /\ runs[w].todo = {}
    /\ LET wrote == runs[w].wrote
       IN  item' = [r \in Records |-> IF r \in DOMAIN wrote
                                      THEN [item[r] EXCEPT !.own = wrote[r].own, !.out = wrote[r].out]
                                      ELSE item[r]]
    /\ state' = IF runs[w].state = None THEN state ELSE runs[w].state
    /\ runs' = [runs EXCEPT ![w] = None]
    /\ UNCHANGED <<tied, waiting, latest, owed, writes>>

\* The handler throws, or its process dies: nothing is kept, and the job is tried again.
Abandon(w) ==
    /\ runs[w] # None
    /\ LET job == runs[w].job
           again == job.tries + 1 < MaxTries
       IN  /\ waiting' = IF again THEN waiting \cup {[job EXCEPT !.tries = @ + 1]} ELSE waiting
           /\ owed' = IF again THEN owed ELSE owed \cup runs[w].ids
    /\ runs' = [runs EXCEPT ![w] = None]
    /\ UNCHANGED <<item, tied, state, latest, writes>>

DerivedNext ==
    \/ \E r \in Records, v \in Values, person \in BOOLEAN : Store(r, v, person)
    \/ \E c \in Records \ Parents, p \in Parents : Tie(c, p)
    \/ \E r \in Records : Delete(r) \/ Erase(r)
    \/ \E w \in Workers, job \in waiting : TakeUp(w, job)
    \/ \E w \in Workers, T \in Types : Read(w, T)
    \/ \E w \in Workers : Lock(w) \/ Refresh(w) \/ Commit(w) \/ Abandon(w)

DerivedSpec == DerivedInit /\ [][DerivedNext]_derivedVars

-----------------------------------------------------------------------------
\* When no refresh is queued or runs, every derived value is the one its sources give - apart from
\* records nobody asked a refresh for: writes that no person stands behind, and neighbours of an
\* erased record - or whose value cannot be computed.
DerivedSettles ==
    (waiting = {} /\ \A w \in Workers : runs[w] = None) =>
        \A r \in Records \ owed : item[r].status = "live" =>
            IF r \notin Parents THEN item[r].out = item[r].own
            ELSE LET S == {c \in Records : <<c, r>> \in tied /\ item[c].status = "live"}
                 IN  CASE S = {} -> item[r].out = None
                       [] Cardinality(S) = 1 -> \A c \in S : item[r].out = item[c].own
                       [] OTHER -> TRUE

\* A value a caller stored stays until a caller stores another.  Violated: a refresh writes back the
\* whole data it read before the caller's write.
WritesSurvive == \A r \in Records : item[r].own = latest[r]

\* An erased record stays empty.  Violated: a refresh that read the record before writes its data back.
ErasedStaysEmpty == \A r \in Records : item[r].status = "erased" => item[r].own = None /\ item[r].out = None

\* The attribute is not shown ready while the value of a record cannot be computed.  Violated: the
\* state is the attribute's, and the record evaluated last decides it.
FailureShown ==
    (waiting = {} /\ owed = {} /\ \A w \in Workers : runs[w] = None) =>
        ((\E p \in Parents : item[p].status = "live" /\ Cardinality(Linked(p)) > 1) => state = "failed")
=============================================================================
