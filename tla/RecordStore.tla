---------------------------- MODULE RecordStore ----------------------------
(***************************************************************************)
(* The records of one object type with a unique, multi-valued attribute:   *)
(* create, update, assert, delete and restore with expected versions and   *)
(* idempotency keys, and the background job that recomputes unique keys.   *)
(*                                                                         *)
(* A write is one transaction under the team's topology lock, and so one   *)
(* step; with an idempotency key it first reserves the key, and requests   *)
(* of other callers may come in between.  The job reads a batch of records *)
(* before the transaction that writes their keys.                          *)
(***************************************************************************)
EXTENDS Team, Integers, FiniteSets

CONSTANTS
    Record,         \* record ids; the job goes through them in their order
    Value,          \* normalised values of the unique attribute
    Intent,         \* the requests that callers make
    Key,            \* idempotency keys of one principal and tool
    BatchSize,      \* records in one batch of the job
    MaxVersion      \* bound: changes of one record

Op == {"create", "update", "assert", "delete", "restore"}
Version == 1 .. MaxVersion

\* id: the record updated, deleted or restored; first: the value an assert goes by.
AnyIntent == [op : Op, id : Record \cup {None}, data : SUBSET Value,
              first : Value \cup {None}, expect : Version \cup {None}]

ASSUME RecordAssumption ==
    /\ Record \subseteq Nat \ {0} /\ IsFiniteSet(Record)
    /\ None \notin Record /\ None \notin Value /\ None \notin Version
    /\ Intent \subseteq AnyIntent /\ None \notin Intent
    /\ \A i \in Intent : i.op \in {"update", "delete", "restore"} => i.id \in Record
    /\ \A i \in Intent : i.op = "assert" => i.first \in i.data
    /\ BatchSize \in Nat \ {0} /\ MaxVersion \in Nat \ {0}

VARIABLES
    rec,        \* rec[r]: the record
    keys,       \* record_unique_keys: pairs <<value, record>>
    req,        \* req[c]: the request of caller c
    replay,     \* replay[k]: the intent whose result idempotency key k replays
    job,        \* the run of the schema.key_recompute job
    applied,    \* history: how often a request with key k was carried out since k was free
    skewed      \* history: records whose keys the job wrote from data they have no more

requestVars == <<req, replay, applied>>
vars == <<rec, keys, req, replay, job, applied, skewed>>

NoRecord == [status |-> "absent", data |-> {}, version |-> 0]
NoRequest == [pc |-> "idle", intent |-> None, key |-> None]
NoJob == [pc |-> "idle", after |-> 0, batch |-> {}]

Init == /\ rec = [r \in Record |-> NoRecord]
        /\ keys = {}
        /\ req = [c \in Callers |-> NoRequest]
        /\ replay = [k \in Key |-> None]
        /\ job = NoJob
        /\ applied = [k \in Key |-> 0]
        /\ skewed = {}

Live(r) == rec[r].status = "live"

-----------------------------------------------------------------------------
(* Mutants: the code with a release, a check or a write lost.              *)

NoneDropped(r) == keys
FreeOfLive(r, data) == \A k \in keys : k[2] # r /\ Live(k[2]) => k[1] \notin data
SameVersion(r) == rec[r].version
NothingStored(c) == UNCHANGED replay

-----------------------------------------------------------------------------
(* Unique keys.                                                            *)

Claims(state) == IF state.status = "live" THEN state.data ELSE {}
KeysOf(r, data) == {<<v, r>> : v \in data}
Others(r) == {k \in keys : k[2] # r}
Holders(v) == {k[2] : k \in {l \in keys : l[1] = v}}

\* The insert of the keys finds no row of another record.
Free(r, data) == \A k \in Others(r) : k[1] \notin data

\* A record is written with its keys: syncUniqueKeys replaces all of them.
Put(r, state) == /\ Free(r, Claims(state))
                 /\ rec' = [rec EXCEPT ![r] = state]
                 /\ keys' = Others(r) \cup KeysOf(r, Claims(state))
                 /\ skewed' = skewed \ {r}

-----------------------------------------------------------------------------
(* The five writes.                                                        *)

VersionFits(r, expect) == expect \in {None, rec[r].version}
NextVersion(r) == rec[r].version + 1
Unbounded(r) == rec[r].version < MaxVersion

Create(data) == \E r \in Record : /\ rec[r] = NoRecord
                                  /\ \A q \in Record : q < r => rec[q] # NoRecord
                                  /\ Put(r, [status |-> "live", data |-> data, version |-> 1])

\* A patch that changes nothing writes nothing.
Update(r, data, expect) ==
    /\ Live(r) /\ VersionFits(r, expect) /\ Unbounded(r)
    /\ \/ data = rec[r].data /\ UNCHANGED <<rec, keys, skewed>>
       \/ /\ data # rec[r].data
          /\ Put(r, [status |-> "live", data |-> data, version |-> NextVersion(r)])

Delete(r, expect) == /\ Live(r) /\ VersionFits(r, expect) /\ Unbounded(r)
                     /\ Put(r, [rec[r] EXCEPT !.status = "deleted", !.version = NextVersion(r)])

\* Refused with RESTORE_CONFLICT when a key has been taken meanwhile.
Restore(r, expect) == /\ rec[r].status = "deleted" /\ VersionFits(r, expect) /\ Unbounded(r)
                      /\ Put(r, [rec[r] EXCEPT !.status = "live", !.version = NextVersion(r)])

\* The holder of the first value is updated, unless other values name other records.  (An
\* expected version that is too old is refused before the update would refuse it.)
AssertRecord(data, first, expect) ==
    LET found == Holders(first) IN
    /\ \A v \in data : Holders(v) \subseteq found
    /\ \/ found = {} /\ Create(data)
       \/ \E r \in found : Update(r, data, expect)

Applies(i) == \/ i.op = "create" /\ Create(i.data)
              \/ i.op = "update" /\ Update(i.id, i.data, i.expect)
              \/ i.op = "assert" /\ AssertRecord(i.data, i.first, i.expect)
              \/ i.op = "delete" /\ Delete(i.id, i.expect)
              \/ i.op = "restore" /\ Restore(i.id, i.expect)

\* A request without an idempotency key.
Write(i) == Applies(i) /\ UNCHANGED <<requestVars, job>>

-----------------------------------------------------------------------------
(* Requests with an idempotency key.                                       *)

Send(c, i, k) == /\ req[c].pc = "idle"
                 /\ req' = [req EXCEPT ![c] = [pc |-> "sent", intent |-> i, key |-> k]]
                 /\ UNCHANGED <<rec, keys, replay, job, applied, skewed>>

Locked(k) == \E d \in Callers : req[d].pc = "reserved" /\ req[d].key = k

\* IDEMPOTENCY_IN_PROGRESS, while another transaction holds the lock, leaves the request sent.
Reserve(c) == /\ req[c].pc = "sent" /\ ~Locked(req[c].key) /\ replay[req[c].key] = None
              /\ req' = [req EXCEPT ![c].pc = "reserved"]
              /\ UNCHANGED <<rec, keys, replay, job, applied, skewed>>

\* The stored result, or IDEMPOTENCY_MISMATCH for other arguments.
Replay(c) == /\ req[c].pc = "sent" /\ ~Locked(req[c].key) /\ replay[req[c].key] # None
             /\ req' = [req EXCEPT ![c] = NoRequest]
             /\ UNCHANGED <<rec, keys, replay, job, applied, skewed>>

StoreReplay(c) == replay' = [replay EXCEPT ![req[c].key] = req[c].intent]

\* The client has its answer, or the answer is lost and the client sends the request again.
Answered(c) == \/ req' = [req EXCEPT ![c] = NoRequest]
               \/ req' = [req EXCEPT ![c].pc = "sent"]

Commit(c) == /\ req[c].pc = "reserved"
             /\ Applies(req[c].intent)
             /\ StoreReplay(c)
             /\ applied' = [applied EXCEPT ![req[c].key] = @ + 1]
             /\ Answered(c)
             /\ UNCHANGED job

\* The write is refused, or the process dies: the reservation is rolled back too.
Rollback(c) == /\ req[c].pc = "reserved"
               /\ Answered(c)
               /\ UNCHANGED <<rec, keys, replay, job, applied, skewed>>

-----------------------------------------------------------------------------
(* The schema.key_recompute job.                                           *)

StartJob == /\ job.pc = "idle"
            /\ job' = [NoJob EXCEPT !.pc = "read"]
            /\ UNCHANGED <<rec, keys, skewed, requestVars>>

FirstOf(n, S) == {r \in S : Cardinality({q \in S : q < r}) < n}
NextBatch == FirstOf(BatchSize, {r \in Record : r > job.after /\ Live(r) /\ rec[r].data # {}})

\* The records are read outside of any transaction.
ReadBatch == /\ job.pc = "read" /\ NextBatch # {}
             /\ job' = [job EXCEPT !.pc = "write",
                                   !.batch = {[id |-> r, data |-> rec[r].data] : r \in NextBatch}]
             /\ UNCHANGED <<rec, keys, skewed, requestVars>>

BatchIds == {b.id : b \in job.batch}
BatchKeys == UNION {KeysOf(b.id, b.data) : b \in job.batch}
Outside == {k \in keys : k[2] \notin BatchIds}
Stale == {b.id : b \in {c \in job.batch : c.data # Claims(rec[c.id])}}

\* The records are written in their order, so that the old keys of the later ones count.
BatchFits ==
    /\ \A k, l \in BatchKeys : k[1] = l[1] => k = l
    /\ \A k \in keys, l \in BatchKeys :
          k[1] = l[1] => k[2] = l[2] \/ (k[2] \in BatchIds /\ k[2] < l[2])

WriteBatch == /\ job.pc = "write" /\ BatchFits
              /\ keys' = Outside \cup BatchKeys
              /\ skewed' = (skewed \ BatchIds) \cup Stale
              /\ \E last \in BatchIds :
                    /\ \A r \in BatchIds : r <= last
                    /\ job' = [pc |-> "read", after |-> last, batch |-> {}]
              /\ UNCHANGED <<rec, requestVars>>

\* The last batch is done, or a batch fails: a key is taken, or the transaction is the victim
\* of a deadlock with a write, which takes the topology lock before key locks.
EndJob == /\ \/ job.pc = "read" /\ NextBatch = {}
             \/ job.pc = "write"
          /\ job' = NoJob
          /\ UNCHANGED <<rec, keys, skewed, requestVars>>

-----------------------------------------------------------------------------
(* The system.retention job.                                               *)

\* Long after: records deleted days ago are removed, and replays a day old, when clients have
\* stopped sending their requests; a key may then be used anew.
Retention ==
    \E R \in SUBSET {r \in Record \ BatchIds : rec[r].status = "deleted"},
      K \in SUBSET {k \in Key : replay[k] # None /\ \A c \in Callers : req[c].key # k} :
        /\ R # {} \/ K # {}
        /\ rec' = [r \in Record |-> IF r \in R THEN [rec[r] EXCEPT !.status = "purged", !.data = {}] ELSE rec[r]]
        /\ replay' = [k \in Key |-> IF k \in K THEN None ELSE replay[k]]
        /\ applied' = [k \in Key |-> IF k \in K THEN 0 ELSE applied[k]]
        /\ UNCHANGED <<keys, req, job, skewed>>

-----------------------------------------------------------------------------

Next == \/ \E i \in Intent : Write(i) \/ \E c \in Callers, k \in Key : Send(c, i, k)
        \/ \E c \in Callers : Reserve(c) \/ Replay(c) \/ Commit(c) \/ Rollback(c)
        \/ StartJob \/ ReadBatch \/ WriteBatch \/ EndJob \/ Retention

Spec == Init /\ [][Next]_vars

-----------------------------------------------------------------------------
(* Properties.                                                             *)

\* Every variable has its type, and the unique index of the keys holds.
TypeOK == /\ rec \in [Record -> [status : {"absent", "live", "deleted", "purged"}, data : SUBSET Value,
                                 version : Version \cup {0}]]
          /\ keys \subseteq Value \X Record
          /\ \A k, l \in keys : k[1] = l[1] => k = l
          /\ req \in [Callers -> [pc : {"idle", "sent", "reserved"}, intent : Intent \cup {None},
                                 key : Key \cup {None}]]
          /\ replay \in [Key -> Intent \cup {None}]
          /\ job \in [pc : {"idle", "read", "write"}, after : Record \cup {0},
                      batch : SUBSET [id : Record, data : SUBSET Value]]
          /\ applied \in [Key -> Nat]
          /\ skewed \subseteq Record

\* A record has the keys of its data while it is live and none otherwise, after any sequence
\* of writes, deletions, refused and successful restores; the job's stale batches apart.
KeysFollowData ==
    \A r \in Record \ skewed : {v \in Value : <<v, r>> \in keys} = Claims(rec[r])

\* A request with an idempotency key is carried out at most once, however often it is sent,
\* by however many clients at a time, and whenever its answer is lost, until retention
\* forgets the key.
AppliedOnce == \A k \in Key : applied[k] <= 1

\* What a step may do to a record: nothing, remove it, or change it under the next version.
VersionStep(r) == \/ rec'[r] = rec[r] \/ rec'[r].status = "purged"
                  \/ /\ rec'[r].version = rec[r].version + 1
                     /\ rec'[r].status # rec[r].status \/ rec'[r].data # rec[r].data

\* A version names one state of a record: any change of it raises the version, and nothing
\* else does, so that an expected version that fits is proof that nothing has changed.
VersionNamesState == [][\A r \in Record : VersionStep(r)]_vars

\* No two live records have a value of the unique attribute in common.
UniqueAmongLive ==
    \A r, q \in Record : r # q => Claims(rec[r]) \cap Claims(rec[q]) = {}
=============================================================================
