-------------------------- MODULE RecordStoreProofs --------------------------
(***************************************************************************)
(* What holds for every set of records, values, clients, keys and requests *)
(* of RecordStore (rows and unique keys agree, an idempotency key carries  *)
(* its request out at most once), of Pipelines (the stages of a record are *)
(* one timeline, and a repeated move is made once) and, for every set of   *)
(* people, emails, submissions, acts, decisions and edits, of Intake: its  *)
(* windows, the finality of decisions, what erasure leaves, and the        *)
(* consent and suppression of a person.                                    *)
(***************************************************************************)
EXTENDS RecordStore, Pipelines, Intake, FiniteSetTheorems, TLAPS, WellFoundedInduction

RecordState == [status : {"absent", "live", "deleted", "purged"}, data : SUBSET Value,
                version : Version \cup {0}]

RecordsTyped == rec \in [Record -> RecordState]

KeysUnique == /\ keys \subseteq Value \X Record
              /\ \A k, l \in keys : k[1] = l[1] => k = l

JobTyped == job \in [pc : {"idle", "read", "write"}, after : Record \cup {0},
                     batch : SUBSET [id : Record, data : SUBSET Value]]

\* The rows, the keys and the job, which requests and replays do not affect.
StoreInv == RecordsTyped /\ KeysUnique /\ JobTyped /\ skewed \subseteq Record /\ KeysFollowData

ReqTyped == req \in [Callers -> [pc : {"idle", "sent", "reserved"}, intent : Intent \cup {None},
                                key : Key \cup {None}]]

\* A request that was sent has its arguments and its key.
Sent == \A c \in Callers : req[c].pc # "idle" => req[c].intent \in Intent /\ req[c].key \in Key

\* One transaction at a time holds the lock of a key, and only while nothing is stored for it.
KeyLock == \A c \in Callers : req[c].pc = "reserved" =>
              /\ replay[req[c].key] = None
              /\ \A d \in Callers : req[d].pc = "reserved" /\ req[d].key = req[c].key => c = d

\* Whatever has been carried out has left its result behind.
ReplayTyped == replay \in [Key -> Intent \cup {None}]
CarriedOut == /\ applied \in [Key -> Nat]
              /\ \A k \in Key : applied[k] <= 1 /\ (replay[k] = None => applied[k] = 0)

RequestInv == ReqTyped /\ Sent /\ KeyLock /\ ReplayTyped /\ CarriedOut

-----------------------------------------------------------------------------
(* A single write.                                                         *)

\* Writing a record together with its keys keeps rows and keys in agreement.
LEMMA PutKeepsStore ==
    ASSUME StoreInv, UNCHANGED job, NEW r \in Record, NEW state \in RecordState, Put(r, state)
    PROVE  StoreInv'
<1>1. Claims(state) \subseteq Value
    BY DEF Claims, RecordState
<1>2. RecordsTyped' /\ JobTyped' /\ skewed' \subseteq Record
    BY DEF StoreInv, RecordsTyped, JobTyped, Put
<1>3. KeysUnique'
    BY <1>1 DEF StoreInv, KeysUnique, Put, Others, KeysOf, Free
<1>4. KeysFollowData'
    <2> SUFFICES ASSUME NEW q \in Record \ skewed'
                 PROVE  {v \in Value : <<v, q>> \in keys'} = Claims(rec'[q])
        BY DEF KeysFollowData, Claims
    <2>1. CASE q = r
        <3>1. rec'[q] = state
            BY <2>1 DEF StoreInv, RecordsTyped, Put
        <3>2. {v \in Value : <<v, q>> \in keys'} = Claims(state)
            BY <1>1, <2>1 DEF Put, Others, KeysOf
        <3> QED BY <3>1, <3>2
    <2>2. CASE q # r
        <3>1. rec'[q] = rec[q] /\ q \notin skewed
            BY <2>2 DEF StoreInv, RecordsTyped, Put
        <3>2. \A v \in Value : <<v, q>> \in keys' <=> <<v, q>> \in keys
            BY <2>2 DEF Put, Others, KeysOf
        <3> QED BY <3>1, <3>2 DEF StoreInv, KeysFollowData, Claims
    <2> QED BY <2>1, <2>2
<1> QED BY <1>2, <1>3, <1>4 DEF StoreInv

\* So does a write that changes no row.
LEMMA StoreUnchanged ==
    ASSUME StoreInv, UNCHANGED <<rec, keys, job, skewed>>
    PROVE  StoreInv'
BY DEF StoreInv, RecordsTyped, KeysUnique, JobTyped, KeysFollowData, Claims

LEMMA NextVersionTyped ==
    ASSUME RecordsTyped, NEW r \in Record, Unbounded(r)
    PROVE  NextVersion(r) \in Version
BY RecordAssumption DEF RecordsTyped, RecordState, Unbounded, NextVersion, Version, RecordAssumption

LEMMA CreateKeepsStore ==
    ASSUME StoreInv, UNCHANGED job, NEW data \in SUBSET Value, Create(data)
    PROVE  StoreInv'
<1> PICK r \in Record : Put(r, [status |-> "live", data |-> data, version |-> 1])
    BY DEF Create
<1>1. [status |-> "live", data |-> data, version |-> 1] \in RecordState
    BY RecordAssumption DEF RecordState, Version, RecordAssumption
<1> QED BY <1>1, PutKeepsStore

LEMMA UpdateKeepsStore ==
    ASSUME StoreInv, UNCHANGED job, NEW r \in Record, NEW data \in SUBSET Value, NEW expect,
           Update(r, data, expect)
    PROVE  StoreInv'
<1>1. CASE UNCHANGED <<rec, keys, skewed>>
    BY <1>1, StoreUnchanged
<1>2. CASE Put(r, [status |-> "live", data |-> data, version |-> NextVersion(r)])
    <2>1. NextVersion(r) \in Version
        BY NextVersionTyped DEF Update, StoreInv
    <2>2. [status |-> "live", data |-> data, version |-> NextVersion(r)] \in RecordState
        BY <2>1 DEF RecordState
    <2> QED BY <1>2, <2>2, PutKeepsStore
<1> QED BY <1>1, <1>2 DEF Update

LEMMA StatusKeepsStore ==
    ASSUME StoreInv, UNCHANGED job, NEW r \in Record, Unbounded(r),
           NEW status \in {"live", "deleted"},
           Put(r, [rec[r] EXCEPT !.status = status, !.version = NextVersion(r)])
    PROVE  StoreInv'
<1>1. NextVersion(r) \in Version
    BY NextVersionTyped DEF StoreInv
<1>2. [rec[r] EXCEPT !.status = status, !.version = NextVersion(r)] \in RecordState
    BY <1>1 DEF StoreInv, RecordsTyped, RecordState
<1> QED BY <1>2, PutKeepsStore

\* Whatever a client asks for.
LEMMA AppliesKeepsStore ==
    ASSUME StoreInv, UNCHANGED job, NEW i \in Intent, Applies(i)
    PROVE  StoreInv'
<1>1. /\ i.data \in SUBSET Value
      /\ i.op \in {"update", "delete", "restore"} => i.id \in Record
    BY RecordAssumption DEF RecordAssumption, AnyIntent
<1>2. CASE i.op = "create" /\ Create(i.data)
    BY <1>1, <1>2, CreateKeepsStore
<1>3. CASE i.op = "update" /\ Update(i.id, i.data, i.expect)
    BY <1>1, <1>3, UpdateKeepsStore
<1>4. CASE i.op = "assert" /\ AssertRecord(i.data, i.first, i.expect)
    <2>1. CASE Create(i.data)
        BY <1>1, <2>1, CreateKeepsStore
    <2>2. CASE \E r \in Holders(i.first) : Update(r, i.data, i.expect)
        <3> PICK r \in Holders(i.first) : Update(r, i.data, i.expect)
            BY <2>2
        <3>1. r \in Record
            BY DEF Holders, StoreInv, KeysUnique
        <3> QED BY <1>1, <3>1, UpdateKeepsStore
    <2> QED BY <1>4, <2>1, <2>2 DEF AssertRecord
<1>5. CASE i.op = "delete" /\ Delete(i.id, i.expect)
    BY <1>1, <1>5, StatusKeepsStore DEF Delete
<1>6. CASE i.op = "restore" /\ Restore(i.id, i.expect)
    BY <1>1, <1>6, StatusKeepsStore DEF Restore
<1> QED BY <1>2, <1>3, <1>4, <1>5, <1>6 DEF Applies

-----------------------------------------------------------------------------
(* The job and retention.                                                  *)

\* The keys of a batch replace those of its records; records that have changed since the batch
\* was read are skewed.
LEMMA BatchKeepsStore == ASSUME StoreInv, WriteBatch PROVE StoreInv'
<1>1. BatchIds \subseteq Record /\ BatchKeys \subseteq Value \X Record /\ Outside \subseteq keys
    BY DEF StoreInv, JobTyped, BatchIds, BatchKeys, KeysOf, Outside
<1>2. RecordsTyped' /\ skewed' \subseteq Record
    BY <1>1 DEF StoreInv, RecordsTyped, WriteBatch, Stale, BatchIds
<1>3. JobTyped'
    BY <1>1 DEF StoreInv, JobTyped, WriteBatch
<1>4. KeysUnique'
    <2> SUFFICES ASSUME NEW k \in keys', NEW l \in keys', k[1] = l[1] PROVE k = l
        BY <1>1 DEF StoreInv, KeysUnique, WriteBatch
    <2>1. k \in Outside \cup BatchKeys /\ l \in Outside \cup BatchKeys
        BY DEF WriteBatch
    <2>2. CASE k \in Outside /\ l \in Outside
        BY <2>2 DEF Outside, StoreInv, KeysUnique
    <2>3. CASE k \in BatchKeys /\ l \in BatchKeys
        BY <2>3 DEF WriteBatch, BatchFits
    <2>4. ASSUME NEW m \in Outside, NEW n \in BatchKeys, m[1] = n[1] PROVE FALSE
        <3>1. m \in keys /\ m[2] \notin BatchIds
            BY DEF Outside
        <3>2. n[2] \in BatchIds
            BY DEF BatchKeys, KeysOf, BatchIds
        <3> QED BY <2>4, <3>1, <3>2 DEF WriteBatch, BatchFits
    <2> QED BY <2>1, <2>2, <2>3, <2>4
<1>5. KeysFollowData'
    <2> SUFFICES ASSUME NEW r \in Record \ skewed'
                 PROVE  {v \in Value : <<v, r>> \in keys'} = Claims(rec[r])
        BY DEF KeysFollowData, Claims, WriteBatch
    <2>1. CASE r \notin BatchIds
        <3>1. r \notin skewed
            BY <2>1 DEF WriteBatch
        <3>2. \A v \in Value : <<v, r>> \notin BatchKeys
            BY <2>1 DEF BatchKeys, KeysOf, BatchIds
        <3>3. \A v \in Value : <<v, r>> \in Outside <=> <<v, r>> \in keys
            BY <2>1 DEF Outside
        <3> QED BY <3>1, <3>2, <3>3 DEF WriteBatch, StoreInv, KeysFollowData
    <2>2. CASE r \in BatchIds
        <3>1. \A b \in job.batch : b.id = r => b.data = Claims(rec[r])
            BY DEF WriteBatch, Stale
        <3>2. PICK b \in job.batch : b.id = r
            BY <2>2 DEF BatchIds
        <3>3. \A v \in Value : <<v, r>> \notin Outside
            BY <2>2 DEF Outside
        <3>4. \A v \in Value : <<v, r>> \in BatchKeys <=> v \in Claims(rec[r])
            BY <3>1, <3>2 DEF BatchKeys, KeysOf
        <3>5. Claims(rec[r]) \subseteq Value
            BY DEF Claims, StoreInv, RecordsTyped, RecordState
        <3> QED BY <3>3, <3>4, <3>5 DEF WriteBatch
    <2> QED BY <2>1, <2>2
<1> QED BY <1>2, <1>3, <1>4, <1>5 DEF StoreInv

\* Reading, starting and ending touch the job alone.
LEMMA JobKeepsStore == ASSUME StoreInv, StartJob \/ ReadBatch \/ EndJob PROVE StoreInv'
<1>1. UNCHANGED <<rec, keys, skewed>>
    BY DEF StartJob, ReadBatch, EndJob
<1>2. NextBatch \subseteq Record
    BY DEF NextBatch, FirstOf
<1>3. \A r \in Record : rec[r].data \in SUBSET Value
    BY DEF StoreInv, RecordsTyped, RecordState
<1>4. JobTyped'
    <2>1. CASE StartJob \/ EndJob
        BY <2>1 DEF JobTyped, StartJob, EndJob, NoJob
    <2>2. CASE ReadBatch
        <3>1. {[id |-> r, data |-> rec[r].data] : r \in NextBatch} \subseteq [id : Record, data : SUBSET Value]
            BY <1>2, <1>3
        <3> QED BY <2>2, <3>1 DEF ReadBatch, StoreInv, JobTyped
    <2> QED BY <2>1, <2>2
<1> QED BY <1>1, <1>4 DEF StoreInv, RecordsTyped, KeysUnique, KeysFollowData, Claims

\* A deleted record has no keys, so that removing it leaves none behind.
LEMMA RetentionKeepsStore == ASSUME StoreInv, Retention PROVE StoreInv'
<1> PICK R \in SUBSET {r \in Record \ BatchIds : rec[r].status = "deleted"} :
         /\ rec' = [r \in Record |-> IF r \in R THEN [rec[r] EXCEPT !.status = "purged", !.data = {}] ELSE rec[r]]
         /\ UNCHANGED <<keys, job, skewed>>
    BY DEF Retention
<1>1. RecordsTyped'
    <2> SUFFICES ASSUME NEW r \in Record PROVE rec'[r] \in RecordState
        BY DEF RecordsTyped
    <2>1. rec[r] \in RecordState
        BY DEF StoreInv, RecordsTyped
    <2>2. [rec[r] EXCEPT !.status = "purged", !.data = {}] \in RecordState
        BY <2>1 DEF RecordState
    <2> QED BY <2>1, <2>2
<1>2. \A r \in Record : Claims(rec'[r]) = Claims(rec[r])
    <2> TAKE r \in Record
    <2>1. CASE r \in R
        <3>1. rec[r] \in RecordState /\ rec[r].status = "deleted"
            BY <2>1 DEF StoreInv, RecordsTyped
        <3>2. rec'[r].status = "purged"
            BY <2>1, <3>1 DEF RecordState
        <3> QED BY <3>1, <3>2 DEF Claims
    <2>2. CASE r \notin R
        BY <2>2
    <2> QED BY <2>1, <2>2
<1> QED BY <1>1, <1>2 DEF StoreInv, KeysUnique, JobTyped, KeysFollowData

LEMMA InitStore == Init => StoreInv
BY RecordAssumption
DEF Init, StoreInv, RecordsTyped, RecordState, KeysUnique, JobTyped, KeysFollowData, Claims, NoRecord, NoJob, RecordAssumption

\* Every step keeps the agreement.
LEMMA StoreStep == ASSUME StoreInv, Sent, [Next]_vars PROVE StoreInv'
<1>1. ASSUME NEW i \in Intent, Write(i) PROVE StoreInv'
    BY <1>1, AppliesKeepsStore DEF Write
<1>2. ASSUME NEW c \in Callers, NEW k \in Key, NEW i \in Intent, Send(c, i, k) PROVE StoreInv'
    BY <1>2, StoreUnchanged DEF Send
<1>3. ASSUME NEW c \in Callers, Reserve(c) \/ Replay(c) \/ Rollback(c) PROVE StoreInv'
    BY <1>3, StoreUnchanged DEF Reserve, Replay, Rollback
<1>4. ASSUME NEW c \in Callers, Commit(c) PROVE StoreInv'
    <2>1. req[c].intent \in Intent
        BY <1>4 DEF Commit, Sent
    <2> QED BY <1>4, <2>1, AppliesKeepsStore DEF Commit
<1>5. CASE StartJob \/ ReadBatch \/ EndJob
    BY <1>5, JobKeepsStore
<1>6. CASE WriteBatch
    BY <1>6, BatchKeepsStore
<1>7. CASE Retention
    BY <1>7, RetentionKeepsStore
<1>8. CASE UNCHANGED vars
    BY <1>8, StoreUnchanged DEF vars
<1> QED BY <1>1, <1>2, <1>3, <1>4, <1>5, <1>6, <1>7, <1>8 DEF Next

-----------------------------------------------------------------------------
(* Idempotency keys.                                                       *)

LEMMA InitRequests == Init => RequestInv
BY RecordAssumption
DEF Init, RequestInv, ReqTyped, Sent, KeyLock, ReplayTyped, CarriedOut, NoRequest, RecordAssumption

\* A reservation is made by one client, alone, for a key without a result; a commit stores the
\* result in the step that carries the request out.
LEMMA RequestStep == ASSUME RequestInv, [Next]_vars PROVE RequestInv'
<1> USE DEF RequestInv, ReqTyped, Sent, KeyLock, ReplayTyped, CarriedOut
<1>1. ASSUME UNCHANGED requestVars PROVE RequestInv'
    BY <1>1 DEF requestVars
<1>2. ASSUME NEW i \in Intent, Write(i) PROVE RequestInv'
    BY <1>1, <1>2 DEF Write
<1>3. CASE StartJob \/ ReadBatch \/ WriteBatch \/ EndJob
    BY <1>1, <1>3 DEF StartJob, ReadBatch, WriteBatch, EndJob
<1>4. ASSUME NEW c \in Callers, NEW k \in Key, NEW i \in Intent, Send(c, i, k) PROVE RequestInv'
    BY <1>4 DEF Send
<1>5. ASSUME NEW c \in Callers, Reserve(c) PROVE RequestInv'
    BY <1>5 DEF Reserve, Locked
<1>6. ASSUME NEW c \in Callers, Replay(c) PROVE RequestInv'
    BY <1>6 DEF Replay, NoRequest
<1>7. ASSUME NEW c \in Callers, req[c].pc = "reserved",
             req' = [req EXCEPT ![c] = NoRequest] \/ req' = [req EXCEPT ![c].pc = "sent"]
      PROVE  /\ ReqTyped' /\ Sent'
             /\ \A d \in Callers : req'[d].pc = "reserved" => d # c /\ req'[d] = req[d] /\ req'[d].key # req[c].key
    BY <1>7 DEF NoRequest
<1>8. ASSUME NEW c \in Callers, Commit(c) PROVE RequestInv'
    <2>1. req[c].pc = "reserved" /\ req[c].key \in Key /\ req[c].intent \in Intent
        BY <1>8 DEF Commit
    <2>2. /\ ReqTyped' /\ Sent'
          /\ \A d \in Callers : req'[d].pc = "reserved" => d # c /\ req'[d] = req[d] /\ req'[d].key # req[c].key
        BY <1>7, <1>8, <2>1 DEF Commit, Answered
    <2>3. /\ replay' = [replay EXCEPT ![req[c].key] = req[c].intent]
          /\ applied' = [applied EXCEPT ![req[c].key] = @ + 1]
        BY <1>8 DEF Commit, StoreReplay
    <2>4. applied[req[c].key] = 0
        BY <2>1
    <2>5. ReplayTyped' /\ CarriedOut'
        BY <2>1, <2>3, <2>4, RecordAssumption DEF RecordAssumption
    <2>6. KeyLock'
        BY <2>2, <2>3
    <2> QED BY <2>2, <2>5, <2>6
<1>9. ASSUME NEW c \in Callers, Rollback(c) PROVE RequestInv'
    <2>1. /\ ReqTyped' /\ Sent'
          /\ \A d \in Callers : req'[d].pc = "reserved" => d # c /\ req'[d] = req[d]
        BY <1>7, <1>9 DEF Rollback, Answered
    <2> QED BY <1>9, <2>1 DEF Rollback
<1>10. CASE Retention
    <2> PICK K \in SUBSET {k \in Key : replay[k] # None /\ \A c \in Callers : req[c].key # k} :
            /\ replay' = [k \in Key |-> IF k \in K THEN None ELSE replay[k]]
            /\ applied' = [k \in Key |-> IF k \in K THEN 0 ELSE applied[k]]
            /\ UNCHANGED req
        BY <1>10 DEF Retention
    <2>1. ReplayTyped' /\ CarriedOut'
        OBVIOUS
    <2> QED BY <2>1
<1>11. CASE UNCHANGED vars
    BY <1>1, <1>11 DEF vars, requestVars
<1> QED BY <1>2, <1>3, <1>4, <1>5, <1>6, <1>8, <1>9, <1>10, <1>11 DEF Next

-----------------------------------------------------------------------------
(* The theorems.                                                           *)

Inv == StoreInv /\ RequestInv

LEMMA Invariance == Spec => []Inv
<1>1. Init => Inv
    BY InitStore, InitRequests DEF Inv
<1>2. Inv /\ [Next]_vars => Inv'
    BY StoreStep, RequestStep DEF Inv, RequestInv
<1> QED BY <1>1, <1>2, PTL DEF Spec

\* Every variable has its type, and no value of the unique attribute has two holders.
THEOREM TypeCorrect == Spec => []TypeOK
<1>1. Inv => TypeOK
    BY DEF Inv, StoreInv, RequestInv, RecordsTyped, RecordState, KeysUnique, JobTyped, ReqTyped, ReplayTyped,
           CarriedOut, TypeOK
<1> QED BY <1>1, Invariance, PTL

\* A record has the keys of its data while it is live and none otherwise, save where the
\* recomputation job wrote keys from rows it had read earlier.
THEOREM KeysAgree == Spec => []KeysFollowData
<1>1. Inv => KeysFollowData
    BY DEF Inv, StoreInv
<1> QED BY <1>1, Invariance, PTL

\* As long as no batch of the job has been overtaken, live records are unique.
THEOREM UniqueWithoutSkew == Spec => [](skewed = {} => UniqueAmongLive)
<1>1. ASSUME Inv, skewed = {}, NEW r \in Record, NEW q \in Record, r # q,
             NEW v \in Claims(rec[r]) \cap Claims(rec[q])
      PROVE  FALSE
    <2>1. v \in Value
        BY <1>1 DEF Inv, StoreInv, RecordsTyped, RecordState, Claims
    <2>2. <<v, r>> \in keys /\ <<v, q>> \in keys
        BY <1>1, <2>1 DEF Inv, StoreInv, KeysFollowData
    <2> QED BY <1>1, <2>2 DEF Inv, StoreInv, KeysUnique
<1>2. Inv => (skewed = {} => UniqueAmongLive)
    BY <1>1 DEF UniqueAmongLive
<1> QED BY <1>2, Invariance, PTL

\* A request with an idempotency key is carried out at most once.
THEOREM AtMostOnce == Spec => []AppliedOnce
<1>1. Inv => AppliedOnce
    BY DEF Inv, RequestInv, CarriedOut, AppliedOnce
<1> QED BY <1>1, Invariance, PTL

\* Any change of a record raises its version by one, and nothing else does.
THEOREM VersionsNameStates == Spec => VersionNamesState
<1>1. ASSUME Inv, NEW r \in Record, NEW s \in Record, NEW state, Put(s, state),
             /\ state.version = rec[s].version + 1
             /\ state.status # rec[s].status \/ state.data # rec[s].data
      PROVE  VersionStep(r)
    BY <1>1 DEF Put, Inv, StoreInv, RecordsTyped, VersionStep
<1>2. ASSUME Inv, NEW r \in Record, NEW data, Create(data) PROVE VersionStep(r)
    BY <1>1, <1>2 DEF Create, NoRecord
<1>3. ASSUME Inv, NEW r \in Record, NEW s \in Record, NEW data, NEW expect, Update(s, data, expect)
      PROVE  VersionStep(r)
    BY <1>1, <1>3 DEF Update, NextVersion, VersionStep
<1>4. ASSUME Inv, NEW r \in Record, NEW s \in Record, NEW status, rec[s].status # status,
             Put(s, [rec[s] EXCEPT !.status = status, !.version = NextVersion(s)])
      PROVE  VersionStep(r)
    <2>1. rec[s] \in RecordState
        BY <1>4 DEF Inv, StoreInv, RecordsTyped
    <2>2. /\ [rec[s] EXCEPT !.status = status, !.version = NextVersion(s)].version = rec[s].version + 1
          /\ [rec[s] EXCEPT !.status = status, !.version = NextVersion(s)].status = status
        BY <2>1 DEF RecordState, NextVersion
    <2> QED BY <1>1, <1>4, <2>2
<1>5. ASSUME Inv, NEW r \in Record, NEW i \in Intent, Applies(i) PROVE VersionStep(r)
    <2>1. i.op \in {"update", "delete", "restore"} => i.id \in Record
        BY RecordAssumption DEF RecordAssumption
    <2>2. Holders(i.first) \subseteq Record
        BY <1>5 DEF Holders, Inv, StoreInv, KeysUnique
    <2>3. CASE i.op = "create" /\ Create(i.data)
        BY <1>2, <1>5, <2>3
    <2>4. CASE i.op = "update" /\ Update(i.id, i.data, i.expect)
        BY <1>3, <1>5, <2>1, <2>4
    <2>5. CASE i.op = "assert" /\ AssertRecord(i.data, i.first, i.expect)
        BY <1>2, <1>3, <1>5, <2>2, <2>5 DEF AssertRecord
    <2>6. CASE i.op = "delete" /\ Delete(i.id, i.expect)
        BY <1>4, <1>5, <2>1, <2>6 DEF Delete, Live
    <2>7. CASE i.op = "restore" /\ Restore(i.id, i.expect)
        BY <1>4, <1>5, <2>1, <2>7 DEF Restore
    <2> QED BY <1>5, <2>3, <2>4, <2>5, <2>6, <2>7 DEF Applies
<1>6. ASSUME Inv, NEW r \in Record, Retention PROVE VersionStep(r)
    <2>1. rec[r] \in RecordState
        BY <1>6 DEF Inv, StoreInv, RecordsTyped
    <2>2. PICK R \in SUBSET Record :
            rec' = [q \in Record |-> IF q \in R THEN [rec[q] EXCEPT !.status = "purged", !.data = {}] ELSE rec[q]]
        BY <1>6 DEF Retention
    <2>3. [rec[r] EXCEPT !.status = "purged", !.data = {}].status = "purged"
        BY <2>1 DEF RecordState
    <2>4. CASE r \in R
        BY <2>2, <2>3, <2>4 DEF VersionStep
    <2>5. CASE r \notin R
        BY <2>2, <2>5 DEF VersionStep
    <2> QED BY <2>4, <2>5
<1>7. ASSUME Inv, [Next]_vars, NEW r \in Record PROVE VersionStep(r)
    <2>1. CASE rec' = rec
        BY <2>1 DEF VersionStep
    <2>2. ASSUME NEW i \in Intent, Write(i) PROVE VersionStep(r)
        BY <1>5, <1>7, <2>2 DEF Write
    <2>3. ASSUME NEW c \in Callers, Commit(c) PROVE VersionStep(r)
        <3>1. req[c].intent \in Intent
            BY <1>7, <2>3 DEF Commit, Inv, RequestInv, Sent
        <3> QED BY <1>5, <1>7, <2>3, <3>1 DEF Commit
    <2>4. CASE Retention
        BY <1>6, <1>7, <2>4
    <2> QED BY <1>7, <2>1, <2>2, <2>3, <2>4
            DEF Next, vars, Send, Reserve, Replay, Rollback, StartJob, ReadBatch, WriteBatch, EndJob
<1>8. Inv /\ [Next]_vars => [\A r \in Record : VersionStep(r)]_vars
    BY <1>7
<1> QED BY <1>8, Invariance, PTL DEF Spec, VersionNamesState

-----------------------------------------------------------------------------
(* The timeline of a record's stages: of its intervals the last one alone  *)
(* is open, and each of them was one version and one refresh.              *)

Interval == [deal : Deals, stage : Stages, from : Times, to : Times \cup {None}, created : Nat, key : Keys \cup {None}]

StageTyped == /\ deal \in [Deals -> [live : BOOLEAN, version : Nat]]
              /\ intervals \in Seq(Interval)
              /\ moves \in [Callers -> StageMoves \cup {None}]
              /\ time \in Times /\ made \in Nat

OpenIsLast == \A i \in DOMAIN intervals :
                 intervals[i].to = None <=> \A j \in DOMAIN intervals : j > i => intervals[j].deal # intervals[i].deal

OneAfterAnother == \A i, j \in DOMAIN intervals : Follows(i, j) =>
                      /\ intervals[i].to = intervals[j].from /\ intervals[i].from <= intervals[j].from
                      /\ intervals[i].stage # intervals[j].stage

VersionCounts == \A d \in Deals : deal[d].version = 1 + Cardinality(IntervalsOf(d)) + (IF deal[d].live THEN 0 ELSE 1)

TimelineInv == StageTyped /\ OpenIsLast /\ OneAfterAnother /\ VersionCounts /\ refreshes = DOMAIN intervals

LEMMA SmallestNumber ==
    ASSUME NEW S, S \subseteq Nat, S # {}
    PROVE  \E x \in S : \A y \in S : x <= y
<1>1. PICK x \in S : \A y \in S : ~ (<<y, x>> \in OpToRel(<, Nat))
    BY NatLessThanWellFounded, WFMin
<1>2. \A y \in S : ~ (y < x)
    BY <1>1 DEF OpToRel
<1> QED BY <1>2

LEMMA IntervalsFinite ==
    ASSUME StageTyped, NEW d \in Deals
    PROVE  IsFiniteSet(IntervalsOf(d)) /\ Cardinality(IntervalsOf(d)) \in Nat
<1>1. IsFiniteSet(1 .. Len(intervals))
    BY FS_Interval DEF StageTyped
<1>2. IntervalsOf(d) \subseteq 1 .. Len(intervals)
    BY DEF IntervalsOf, StageTyped
<1> QED BY <1>1, <1>2, FS_Subset, FS_CardinalityType

\* A step that leaves the intervals, the records and what was refreshed alone.
LEMMA IntervalsStay ==
    ASSUME TimelineInv, UNCHANGED <<deal, intervals, refreshes>>,
           moves' \in [Callers -> StageMoves \cup {None}], time' \in Times, made' \in Nat
    PROVE  TimelineInv'
<1>1. \A d \in Deals : IntervalsOf(d)' = IntervalsOf(d)
    BY DEF IntervalsOf
<1> QED BY <1>1 DEF TimelineInv, StageTyped, OpenIsLast, OneAfterAnother, VersionCounts, Follows

LEMMA BeginMoveStep ==
    ASSUME TimelineInv, NEW c \in Callers, NEW d \in Deals, NEW s \in Stages, NEW at \in Times \cup {None},
           NEW k \in Keys \cup {None}, BeginMove(c, [deal |-> d, stage |-> s, at |-> at], k)
    PROVE  TimelineInv'
<1> PICK m : m = [args |-> [deal |-> d, stage |-> s, at |-> at], key |-> k, now |-> time, began |-> made]
    OBVIOUS
<1>1. moves' = [moves EXCEPT ![c] = m] /\ made' = made + 1 /\ UNCHANGED <<deal, intervals, refreshes, time>>
    BY DEF BeginMove
<1>2. m \in StageMoves
    BY DEF StageMoves, TimelineInv, StageTyped
<1>3. moves' \in [Callers -> StageMoves \cup {None}] /\ time' \in Times /\ made' \in Nat
    BY <1>1, <1>2 DEF TimelineInv, StageTyped
<1> QED BY <1>1, <1>3, IntervalsStay

LEMMA DealGoneStep ==
    ASSUME TimelineInv, NEW d \in Deals, DealGone(d)
    PROVE  TimelineInv'
<1>1. deal[d].live /\ UNCHANGED <<intervals, refreshes, moves, time, made>>
      /\ deal' = [deal EXCEPT ![d].live = FALSE, ![d].version = @ + 1]
    BY DEF DealGone
<1>2. deal[d] \in [live : BOOLEAN, version : Nat] /\ DOMAIN deal = Deals
    BY DEF TimelineInv, StageTyped
<1> PICK old, version : old = deal[d] /\ version = old.version + 1
    OBVIOUS
<1> PICK x : x = [old EXCEPT !.live = FALSE, !.version = version]
    OBVIOUS
<1>3. x \in [live : BOOLEAN, version : Nat] /\ ~x.live /\ x.version = deal[d].version + 1
    <2>1. old \in [live : BOOLEAN, version : Nat] /\ version \in Nat
        BY <1>2
    <2>2. x = [live |-> FALSE, version |-> version]
        BY <2>1
    <2> QED BY <2>1, <2>2
<1>4. deal' = [deal EXCEPT ![d] = x]
    BY <1>1, <1>2
<1>5. deal'[d] = x /\ \A e \in Deals \ {d} : deal'[e] = deal[e]
    BY <1>2, <1>4
<1>6. \A e \in Deals : IntervalsOf(e)' = IntervalsOf(e)
    BY <1>1 DEF IntervalsOf
<1>7. StageTyped'
    BY <1>1, <1>3, <1>4 DEF TimelineInv, StageTyped
<1>8. VersionCounts'
    <2>1. ASSUME NEW e \in Deals
          PROVE  deal'[e].version = 1 + Cardinality(IntervalsOf(e)) + (IF deal'[e].live THEN 0 ELSE 1)
        <3>1. Cardinality(IntervalsOf(e)) \in Nat
            BY IntervalsFinite DEF TimelineInv
        <3>2. deal[e].version = 1 + Cardinality(IntervalsOf(e)) + (IF deal[e].live THEN 0 ELSE 1)
            BY DEF TimelineInv, VersionCounts
        <3>3. CASE e = d
            <4>1. deal[e].version = 1 + Cardinality(IntervalsOf(e))
                BY <1>1, <3>1, <3>2, <3>3
            <4>2. deal'[e].version = deal[e].version + 1 /\ ~deal'[e].live
                BY <1>3, <1>5, <3>3
            <4> QED BY <3>1, <4>1, <4>2
        <3>4. CASE e # d
            BY <1>5, <3>2, <3>4
        <3> QED BY <3>3, <3>4
    <2> QED BY <1>6, <2>1 DEF VersionCounts
<1> QED BY <1>1, <1>7, <1>8 DEF TimelineInv, OpenIsLast, OneAfterAnother, Follows

LEMMA MoveStep ==
    ASSUME TimelineInv, NEW c \in Callers, Move(c)
    PROVE  TimelineInv'
<1> PICK m, d, at, n : m = moves[c] /\ d = m.args.deal /\ at = At(m) /\ n = Len(intervals) + 1
    OBVIOUS
<1>1. m \in StageMoves /\ d \in Deals /\ m.args.stage \in Stages /\ at \in Times /\ n \in Nat \ {0} /\ at # None
    <2>1. m \in StageMoves
        BY DEF Move, TimelineInv, StageTyped
    <2>2. m.args \in [deal : Deals, stage : Stages, at : Times \cup {None}] /\ m.now \in Times
        BY <2>1 DEF StageMoves
    <2>3. at \in Times
        BY <2>2 DEF At
    <2>4. None \notin Times
        BY PipelineAssumption DEF PipelineAssumption, Times
    <2> QED BY <2>1, <2>2, <2>3, <2>4 DEF TimelineInv, StageTyped
<1> PICK new : new = [deal |-> d, stage |-> m.args.stage, from |-> at, to |-> None, created |-> m.began, key |-> m.key]
    OBVIOUS
<1>2. new \in Interval /\ new.deal = d /\ new.stage = m.args.stage /\ new.from = at /\ new.to = None
    BY <1>1 DEF Interval, StageMoves
<1> PICK closed : closed = [i \in DOMAIN intervals |->
                               IF i \in OpenAt(d) THEN [intervals[i] EXCEPT !.to = at] ELSE intervals[i]]
    OBVIOUS
<1>3. /\ moves[c] # None /\ deal[d].live
      /\ \A i \in OpenAt(d) : at >= intervals[i].from /\ intervals[i].stage # m.args.stage
      /\ intervals' = Append(closed, new)
      /\ deal' = [deal EXCEPT ![d].version = @ + 1]
      /\ refreshes' = refreshes \cup {n}
      /\ moves' = [moves EXCEPT ![c] = None] /\ UNCHANGED <<time, made>>
    BY DEF Move, Answer, InOrder
<1>4. DOMAIN intervals = 1 .. n - 1 /\ \A i \in 1 .. n - 1 : intervals[i] \in Interval
    BY DEF TimelineInv, StageTyped
<1>5. OpenAt(d) = {i \in 1 .. n - 1 : intervals[i].deal = d /\ intervals[i].to = None}
    BY <1>4 DEF OpenAt
<1>6. \A i \in 1 .. n - 1 : /\ closed[i] \in Interval
                            /\ closed[i].deal = intervals[i].deal /\ closed[i].from = intervals[i].from
                            /\ closed[i].stage = intervals[i].stage
                            /\ i \in OpenAt(d) => closed[i].to = at
                            /\ i \notin OpenAt(d) => closed[i].to = intervals[i].to
    <2>1. ASSUME NEW i \in 1 .. n - 1
          PROVE  /\ closed[i] \in Interval
                 /\ closed[i].deal = intervals[i].deal /\ closed[i].from = intervals[i].from
                 /\ closed[i].stage = intervals[i].stage
                 /\ i \in OpenAt(d) => closed[i].to = at
                 /\ i \notin OpenAt(d) => closed[i].to = intervals[i].to
        <3> PICK y : y = intervals[i]
            OBVIOUS
        <3>1. y \in Interval
            BY <1>4
        <3>2. [y EXCEPT !.to = at] \in Interval /\ [y EXCEPT !.to = at].to = at /\ [y EXCEPT !.to = at].deal = y.deal
              /\ [y EXCEPT !.to = at].from = y.from /\ [y EXCEPT !.to = at].stage = y.stage
            BY <1>1, <3>1 DEF Interval
        <3> QED BY <1>4, <3>1, <3>2
    <2> QED BY <2>1
<1>7. closed \in [1 .. n - 1 -> Interval]
    BY <1>4, <1>6
<1>8. intervals' \in Seq(Interval) /\ DOMAIN intervals' = 1 .. n /\ intervals'[n] = new
      /\ \A i \in 1 .. n - 1 : intervals'[i] = closed[i]
    <2>1. closed \in Seq(Interval) /\ Len(closed) = n - 1
        BY <1>1, <1>7
    <2> QED BY <1>2, <1>3, <2>1
<1>9. \A i \in 1 .. n - 1 : intervals'[i].deal = intervals[i].deal /\ intervals'[i].from = intervals[i].from
                            /\ intervals'[i].stage = intervals[i].stage
    BY <1>6, <1>8
<1>10. \A i \in 1 .. n - 1 : i \notin OpenAt(d) => intervals'[i].to = intervals[i].to
    BY <1>6, <1>8
<1>11. \A i \in OpenAt(d) : intervals'[i].to = at
    BY <1>5, <1>6, <1>8
<1>12. moves' \in [Callers -> StageMoves \cup {None}] /\ deal' \in [Deals -> [live : BOOLEAN, version : Nat]]
       /\ deal'[d].version = deal[d].version + 1 /\ deal'[d].live = deal[d].live
       /\ \A e \in Deals \ {d} : deal'[e] = deal[e]
    <2> PICK old, version : old = deal[d] /\ version = old.version + 1
        OBVIOUS
    <2> PICK x : x = [old EXCEPT !.version = version]
        OBVIOUS
    <2>1. old \in [live : BOOLEAN, version : Nat] /\ DOMAIN deal = Deals
        BY <1>1 DEF TimelineInv, StageTyped
    <2>2. x \in [live : BOOLEAN, version : Nat] /\ x.version = version /\ x.live = old.live
        BY <2>1
    <2>3. deal' = [deal EXCEPT ![d] = x]
        BY <1>3, <2>1
    <2>4. deal'[d] = x /\ \A e \in Deals \ {d} : deal'[e] = deal[e]
        BY <1>1, <2>1, <2>3
    <2>5. deal' \in [Deals -> [live : BOOLEAN, version : Nat]]
        BY <2>2, <2>3 DEF TimelineInv, StageTyped
    <2>6. moves' \in [Callers -> StageMoves \cup {None}]
        BY <1>3 DEF TimelineInv, StageTyped
    <2> QED BY <2>2, <2>4, <2>5, <2>6
<1>13. StageTyped'
    BY <1>3, <1>8, <1>12 DEF TimelineInv, StageTyped
<1>14. OpenIsLast'
    <2>1. ASSUME NEW i \in 1 .. n
          PROVE  intervals'[i].to = None <=> \A j \in 1 .. n : j > i => intervals'[j].deal # intervals'[i].deal
        <3>1. CASE i = n
            BY <1>1, <1>2, <1>8, <3>1
        <3>2. CASE i # n /\ intervals[i].deal = d
            <4>1. intervals'[i].to # None
                <5>1. CASE i \in OpenAt(d)
                    BY <1>1, <1>11, <5>1
                <5>2. CASE i \notin OpenAt(d)
                    BY <1>1, <1>5, <1>10, <3>2, <5>2
                <5> QED BY <5>1, <5>2
            <4>2. intervals'[n].deal = intervals'[i].deal /\ n > i /\ n \in 1 .. n
                BY <1>1, <1>2, <1>8, <1>9, <3>2
            <4> QED BY <4>1, <4>2
        <3>3. CASE i # n /\ intervals[i].deal # d
            <4>1. i \in 1 .. n - 1 /\ intervals'[i].to = intervals[i].to /\ intervals'[i].deal = intervals[i].deal
                BY <1>1, <1>5, <1>9, <1>10, <3>3
            <4>2. intervals[i].to = None <=> \A j \in 1 .. n - 1 : j > i => intervals[j].deal # intervals[i].deal
                BY <1>4, <4>1 DEF TimelineInv, OpenIsLast
            <4>3. \A j \in 1 .. n : j \in 1 .. n - 1 \/ j = n
                BY <1>1
            <4>4. \A j \in 1 .. n - 1 : j \in 1 .. n
                BY <1>1
            <4> QED BY <1>2, <1>8, <1>9, <3>3, <4>1, <4>2, <4>3, <4>4
        <3> QED BY <3>1, <3>2, <3>3
    <2> QED BY <1>8, <2>1 DEF OpenIsLast
<1>15. OneAfterAnother'
    <2>1. ASSUME NEW i \in 1 .. n, NEW j \in 1 .. n, Follows(i, j)'
          PROVE  /\ intervals'[i].to = intervals'[j].from /\ intervals'[i].from <= intervals'[j].from
                 /\ intervals'[i].stage # intervals'[j].stage
        <3>1. i < j /\ intervals'[j].deal = intervals'[i].deal
              /\ \A k \in i + 1 .. j - 1 : intervals'[k].deal # intervals'[i].deal
            BY <2>1 DEF Follows
        <3>2. i \in 1 .. n - 1 /\ intervals'[i].deal = intervals[i].deal
              /\ \A k \in i + 1 .. j - 1 : k \in 1 .. n - 1 /\ intervals'[k].deal = intervals[k].deal
            BY <1>1, <1>9, <3>1
        <3>3. CASE j = n
            <4>1. intervals[i].deal = d
                BY <1>2, <1>8, <3>1, <3>2, <3>3
            <4>2. \A k \in 1 .. n - 1 : k > i => intervals[k].deal # intervals[i].deal
                BY <1>1, <3>1, <3>2, <3>3
            <4>3. i \in OpenAt(d)
                BY <1>4, <1>5, <3>2, <4>1, <4>2 DEF TimelineInv, OpenIsLast
            <4> QED BY <1>2, <1>3, <1>8, <1>9, <1>11, <3>2, <3>3, <4>3
        <3>4. CASE j # n
            <4>1. j \in 1 .. n - 1
                BY <1>1, <3>4
            <4>2. Follows(i, j)
                BY <1>9, <3>1, <3>2, <4>1 DEF Follows
            <4>3. i \notin OpenAt(d)
                <5>1. intervals[i].to # None
                    BY <1>4, <3>1, <3>2, <4>1, <4>2 DEF TimelineInv, OpenIsLast, Follows
                <5> QED BY <1>5, <5>1
            <4> QED BY <1>4, <1>9, <1>10, <3>2, <4>1, <4>2, <4>3 DEF TimelineInv, OneAfterAnother
        <3> QED BY <3>3, <3>4
    <2> QED BY <1>8, <2>1 DEF OneAfterAnother
<1>16. VersionCounts'
    <2>1. ASSUME NEW e \in Deals
          PROVE  deal'[e].version = 1 + Cardinality(IntervalsOf(e)') + (IF deal'[e].live THEN 0 ELSE 1)
        <3>1. deal[e].version = 1 + Cardinality(IntervalsOf(e)) + (IF deal[e].live THEN 0 ELSE 1)
            BY DEF TimelineInv, VersionCounts
        <3>2. IsFiniteSet(IntervalsOf(e)) /\ Cardinality(IntervalsOf(e)) \in Nat
            BY IntervalsFinite DEF TimelineInv
        <3>3. IntervalsOf(e) = {i \in 1 .. n - 1 : intervals[i].deal = e}
            BY <1>4 DEF IntervalsOf
        <3>4. IntervalsOf(e)' = {i \in 1 .. n : intervals'[i].deal = e}
            BY <1>8 DEF IntervalsOf
        <3>5. CASE e = d
            <4>1. n \notin IntervalsOf(e) /\ IntervalsOf(e)' = IntervalsOf(e) \cup {n}
                BY <1>1, <1>2, <1>8, <1>9, <3>3, <3>4, <3>5
            <4>2. Cardinality(IntervalsOf(e)') = Cardinality(IntervalsOf(e)) + 1
                BY <3>2, <4>1, FS_AddElement
            <4> QED BY <1>3, <1>12, <3>1, <3>2, <3>5, <4>2
        <3>6. CASE e # d
            <4>1. IntervalsOf(e)' = IntervalsOf(e)
                BY <1>1, <1>2, <1>8, <1>9, <3>3, <3>4, <3>6
            <4> QED BY <1>12, <3>1, <3>6, <4>1
        <3> QED BY <3>5, <3>6
    <2> QED BY <2>1 DEF VersionCounts
<1>17. refreshes' = DOMAIN intervals'
    BY <1>1, <1>3, <1>4, <1>8 DEF TimelineInv
<1> QED BY <1>13, <1>14, <1>15, <1>16, <1>17 DEF TimelineInv

LEMMA TimelineInvStep == TimelineInv /\ [StageNext]_stageVars => TimelineInv'
<1> SUFFICES ASSUME TimelineInv, [StageNext]_stageVars PROVE TimelineInv'
    OBVIOUS
<1>1. CASE PassTime
    <2>1. time' \in Times
        BY <1>1, PipelineAssumption DEF PassTime, TimelineInv, StageTyped, Times, PipelineAssumption
    <2> QED BY <1>1, <2>1, IntervalsStay DEF PassTime, TimelineInv, StageTyped
<1>2. ASSUME NEW c \in Callers, NoMove(c) \/ DropMove(c) PROVE TimelineInv'
    <2>1. moves' = [moves EXCEPT ![c] = None] /\ UNCHANGED <<deal, intervals, refreshes, time, made>>
        BY <1>2 DEF NoMove, DropMove, Answer
    <2> QED BY <2>1, IntervalsStay DEF TimelineInv, StageTyped
<1>3. ASSUME NEW c \in Callers, NEW d \in Deals, NEW s \in Stages, NEW at \in Times \cup {None},
             NEW k \in Keys \cup {None}, Replayed(c, [deal |-> d, stage |-> s, at |-> at], k)
      PROVE  TimelineInv'
    <2>1. made' = made + 1 /\ UNCHANGED <<deal, intervals, refreshes, moves, time>>
        BY <1>3 DEF Replayed
    <2> QED BY <2>1, IntervalsStay DEF TimelineInv, StageTyped
<1>4. CASE UNCHANGED stageVars
    BY <1>4, IntervalsStay DEF stageVars, TimelineInv, StageTyped
<1> QED BY <1>1, <1>2, <1>3, <1>4, BeginMoveStep, DealGoneStep, MoveStep DEF StageNext

LEMMA StageInitTimeline == StageInit => TimelineInv
<1> SUFFICES ASSUME StageInit PROVE TimelineInv
    OBVIOUS
<1>1. intervals = <<>> /\ DOMAIN intervals = {} /\ refreshes = {} /\ intervals \in Seq(Interval)
    BY DEF StageInit
<1>2. StageTyped
    <2>1. 0 \in Times
        BY PipelineAssumption DEF PipelineAssumption, Times
    <2>2. deal \in [Deals -> [live : BOOLEAN, version : Nat]]
        BY DEF StageInit
    <2> QED BY <1>1, <2>1, <2>2 DEF StageInit, StageTyped
<1>3. ASSUME NEW d \in Deals PROVE deal[d].version = 1 + Cardinality(IntervalsOf(d)) + (IF deal[d].live THEN 0 ELSE 1)
    <2>1. Cardinality(IntervalsOf(d)) = 0
        <3>1. IntervalsOf(d) = {}
            BY <1>1 DEF IntervalsOf
        <3> QED BY <3>1, FS_EmptySet
    <2> QED BY <2>1 DEF StageInit
<1> QED BY <1>1, <1>2, <1>3 DEF TimelineInv, OpenIsLast, OneAfterAnother, VersionCounts

LEMMA InvIsTimeline == TimelineInv => StagesAreATimeline
<1> SUFFICES ASSUME TimelineInv PROVE StagesAreATimeline
    OBVIOUS
<1>1. ASSUME NEW i \in DOMAIN intervals, intervals[i].to # None
      PROVE  \E j \in DOMAIN intervals : Follows(i, j)
    <2> PICK Later : Later = {j \in DOMAIN intervals : j > i /\ intervals[j].deal = intervals[i].deal}
        OBVIOUS
    <2>1. Later # {} /\ Later \subseteq Nat
        BY <1>1 DEF TimelineInv, StageTyped, OpenIsLast
    <2>2. PICK j \in Later : \A k \in Later : j <= k
        BY <2>1, SmallestNumber
    <2>3. Follows(i, j)
        BY <2>2 DEF Follows, TimelineInv, StageTyped
    <2> QED BY <2>2, <2>3
<1> QED BY <1>1 DEF TimelineInv, OneAfterAnother, VersionCounts, StagesAreATimeline

\* For any number of deals, callers and moves, dated in whatever way and repeated under keys, the
\* intervals of a record are one timeline and as many as its versions (setRecordStage, manage.ts).
THEOREM StagesStayATimeline == StageSpec => []StagesAreATimeline
BY StageInitTimeline, TimelineInvStep, InvIsTimeline, PTL DEF StageSpec

\* Who holds a key has no result stored under it, and what is recorded or answered under one is its result.
KeyInv ==
    /\ replays \in [Keys -> StageReplays \cup {None}]
    /\ \A c \in Callers : moves[c] # None /\ moves[c].key # None =>
          /\ replays[moves[c].key] = None
          /\ \A e \in Callers \ {c} : moves[e] # None => moves[e].key # moves[c].key
    /\ \A i \in DOMAIN intervals : intervals[i].key # None =>
          /\ replays[intervals[i].key] # None
          /\ \A j \in DOMAIN intervals : intervals[j].key = intervals[i].key => j = i
    /\ \A a \in answers : /\ a.key \in Keys /\ replays[a.key] # None
                          /\ a = [key |-> a.key, result |-> replays[a.key].result]

\* A move that ends leaves its result, and its key to no other call.
LEMMA AnswerKeys ==
    ASSUME StageTyped, KeyInv, NEW c \in Callers, moves[c] # None, NEW result \in Nat, Answer(c, result)
    PROVE  /\ replays' \in [Keys -> StageReplays \cup {None}]
           /\ moves[c].key # None => replays'[moves[c].key] # None
           /\ \A k \in Keys : k # moves[c].key => replays'[k] = replays[k]
           /\ \A e \in Callers : moves'[e] # None /\ moves'[e].key # None =>
                 /\ replays'[moves'[e].key] = None
                 /\ \A f \in Callers \ {e} : moves'[f] # None => moves'[f].key # moves'[e].key
           /\ \A a \in answers' : /\ a.key \in Keys /\ replays'[a.key] # None
                                  /\ a = [key |-> a.key, result |-> replays'[a.key].result]
<1> PICK m, k, x : m = moves[c] /\ k = m.key /\ x = [args |-> m.args, result |-> result]
    OBVIOUS
<1>1. m \in StageMoves /\ k \in Keys \cup {None} /\ None \notin Keys
    <2>1. m \in StageMoves
        BY DEF StageTyped
    <2> QED BY <2>1, PipelineAssumption DEF StageMoves, PipelineAssumption
<1>2. x \in StageReplays /\ x # None /\ x.result = result
    <2>1. x \in StageReplays
        BY <1>1 DEF StageMoves, StageReplays
    <2> QED BY <2>1, PipelineAssumption DEF PipelineAssumption
<1>3. /\ moves' = [moves EXCEPT ![c] = None]
      /\ k = None => replays' = replays /\ answers' = answers
      /\ k # None => /\ replays' = [replays EXCEPT ![k] = x]
                     /\ answers' = answers \cup {[key |-> k, result |-> result]}
    BY DEF Answer, Unkeyed
<1>4. /\ replays' \in [Keys -> StageReplays \cup {None}]
      /\ k # None => replays'[k] = x
      /\ \A q \in Keys : q # k => replays'[q] = replays[q]
    BY <1>1, <1>2, <1>3 DEF KeyInv
<1>5. moves'[c] = None /\ \A e \in Callers \ {c} : moves'[e] = moves[e]
    BY <1>3 DEF StageTyped
<1>6. ASSUME NEW e \in Callers, moves'[e] # None, moves'[e].key # None
      PROVE  /\ replays'[moves'[e].key] = None
             /\ \A f \in Callers \ {e} : moves'[f] # None => moves'[f].key # moves'[e].key
    <2>1. e # c /\ moves'[e] = moves[e] /\ moves[e] \in StageMoves
        BY <1>5, <1>6 DEF StageTyped
    <2>2. moves[e].key \in Keys
        BY <1>6, <2>1 DEF StageMoves
    <2>3. /\ replays[moves[e].key] = None
          /\ \A f \in Callers \ {e} : moves[f] # None => moves[f].key # moves[e].key
        BY <1>6, <2>1 DEF KeyInv
    <2>4. moves[e].key # k
        BY <2>1, <2>3
    <2> QED BY <1>4, <1>5, <2>1, <2>2, <2>3, <2>4
<1>7. ASSUME NEW a \in answers'
      PROVE  /\ a.key \in Keys /\ replays'[a.key] # None
             /\ a = [key |-> a.key, result |-> replays'[a.key].result]
    <2>1. CASE a \in answers
        <3>1. /\ a.key \in Keys /\ replays[a.key] # None
              /\ a = [key |-> a.key, result |-> replays[a.key].result]
            BY <2>1 DEF KeyInv
        <3>2. k # None => replays[k] = None
            BY DEF KeyInv
        <3>3. a.key # k
            BY <1>1, <3>1, <3>2
        <3> QED BY <1>4, <3>1, <3>3
    <2>2. CASE a \notin answers
        <3>1. k # None /\ a = [key |-> k, result |-> result]
            BY <1>3, <1>7, <2>2
        <3> QED BY <1>1, <1>2, <1>4, <3>1
    <2> QED BY <2>1, <2>2
<1> QED BY <1>2, <1>4, <1>6, <1>7

LEMMA MoveKeys ==
    ASSUME StageTyped, KeyInv, NEW c \in Callers, Move(c)
    PROVE  KeyInv'
<1> PICK m, k, n : m = moves[c] /\ k = m.key /\ n = Len(intervals) + 1
    OBVIOUS
<1>1. m # None /\ k \in Keys \cup {None} /\ n \in Nat \ {0} /\ Answer(c, n)
    <2>1. m # None /\ m \in StageMoves
        BY DEF Move, StageTyped
    <2> QED BY <2>1 DEF Move, StageMoves, StageTyped
<1>2. /\ replays' \in [Keys -> StageReplays \cup {None}]
      /\ k # None => replays'[k] # None
      /\ \A q \in Keys : q # k => replays'[q] = replays[q]
      /\ \A e \in Callers : moves'[e] # None /\ moves'[e].key # None =>
            /\ replays'[moves'[e].key] = None
            /\ \A f \in Callers \ {e} : moves'[f] # None => moves'[f].key # moves'[e].key
      /\ \A a \in answers' : /\ a.key \in Keys /\ replays'[a.key] # None
                             /\ a = [key |-> a.key, result |-> replays'[a.key].result]
    BY <1>1, AnswerKeys
<1>3. DOMAIN intervals = 1 .. n - 1 /\ \A i \in 1 .. n - 1 : intervals[i] \in Interval
    BY DEF StageTyped
<1>4. DOMAIN intervals' = 1 .. n /\ intervals'[n].key = k /\ \A i \in 1 .. n - 1 : intervals'[i].key = intervals[i].key
    <2> PICK new, at, Ends :
            /\ new = [deal |-> m.args.deal, stage |-> m.args.stage, from |-> At(m), to |-> None,
                      created |-> m.began, key |-> m.key]
            /\ at = At(m) /\ Ends = OpenAt(m.args.deal)
        OBVIOUS
    <2> PICK closed :
            closed = [i \in DOMAIN intervals |-> IF i \in Ends THEN [intervals[i] EXCEPT !.to = at] ELSE intervals[i]]
        OBVIOUS
    <2>1. intervals' = Append(closed, new) /\ new.key = k
        BY DEF Move
    <2>2. \A i \in 1 .. n - 1 : closed[i].key = intervals[i].key
        <3>1. ASSUME NEW y \in Interval PROVE [y EXCEPT !.to = at].key = y.key
            BY DEF Interval
        <3> QED BY <1>3, <3>1
    <2> PICK V : V = {closed[i] : i \in 1 .. n - 1} \cup {new}
        OBVIOUS
    <2>3. closed \in Seq(V) /\ Len(closed) = n - 1 /\ new \in V
        <3>1. closed \in [1 .. n - 1 -> V]
            BY <1>3, <2>1
        <3> QED BY <1>1, <3>1
    <2>4. DOMAIN intervals' = 1 .. n /\ intervals'[n] = new /\ \A i \in 1 .. n - 1 : intervals'[i] = closed[i]
        BY <1>1, <2>1, <2>3
    <2> QED BY <2>1, <2>2, <2>4
<1>5. ASSUME NEW i \in 1 .. n, intervals'[i].key # None
      PROVE  /\ replays'[intervals'[i].key] # None
             /\ \A j \in 1 .. n : intervals'[j].key = intervals'[i].key => j = i
    <2>1. \A j \in 1 .. n - 1 : k # None => intervals[j].key # k
        <3>1. k # None => replays[k] = None
            BY <1>1 DEF KeyInv
        <3> QED BY <1>3, <3>1 DEF KeyInv
    <2>2. \A j \in 1 .. n : j # n => j \in 1 .. n - 1
        BY <1>1
    <2>3. CASE i = n
        BY <1>2, <1>4, <1>5, <2>1, <2>2, <2>3
    <2>4. CASE i # n
        <3>1. i \in 1 .. n - 1 /\ intervals'[i].key = intervals[i].key
            BY <1>4, <2>2, <2>4
        <3>2. /\ replays[intervals[i].key] # None
              /\ \A j \in 1 .. n - 1 : intervals[j].key = intervals[i].key => j = i
            BY <1>3, <1>5, <3>1 DEF KeyInv
        <3>3. intervals[i].key \in Keys /\ intervals[i].key # k
            BY <1>3, <1>5, <2>1, <3>1 DEF Interval
        <3> QED BY <1>2, <1>4, <2>2, <3>1, <3>2, <3>3
    <2> QED BY <2>3, <2>4
<1> QED BY <1>2, <1>4, <1>5 DEF KeyInv

LEMMA KeyInvStep == StageTyped /\ KeyInv /\ [StageNext]_stageVars => KeyInv'
<1> SUFFICES ASSUME StageTyped, KeyInv, [StageNext]_stageVars PROVE KeyInv'
    OBVIOUS
<1>1. ASSUME UNCHANGED <<intervals, replays, answers, moves>> PROVE KeyInv'
    BY <1>1 DEF KeyInv
<1>2. ASSUME NEW c \in Callers, NEW args, NEW k \in Keys \cup {None}, BeginMove(c, args, k) PROVE KeyInv'
    <2> PICK m : m = [args |-> args, key |-> k, now |-> time, began |-> made]
        OBVIOUS
    <2>1. /\ moves' = [moves EXCEPT ![c] = m] /\ m.key = k /\ UNCHANGED <<intervals, replays, answers>>
          /\ k # None => replays[k] = None
          /\ \A e \in Callers \ {c} : moves[e] # None => k = None \/ moves[e].key # k
        BY <1>2 DEF BeginMove, KeyFree, Unkeyed
    <2>2. moves'[c] = m /\ \A e \in Callers \ {c} : moves'[e] = moves[e]
        BY <2>1 DEF StageTyped
    <2>3. ASSUME NEW e \in Callers, moves'[e] # None, moves'[e].key # None
          PROVE  /\ replays[moves'[e].key] = None
                 /\ \A f \in Callers \ {e} : moves'[f] # None => moves'[f].key # moves'[e].key
        <3>1. CASE e = c
            BY <2>1, <2>2, <2>3, <3>1
        <3>2. CASE e # c
            <4>1. /\ moves'[e] = moves[e] /\ replays[moves[e].key] = None
                  /\ \A f \in Callers \ {e} : moves[f] # None => moves[f].key # moves[e].key
                BY <2>2, <2>3, <3>2 DEF KeyInv
            <4> QED BY <2>1, <2>2, <2>3, <3>2, <4>1
        <3> QED BY <3>1, <3>2
    <2> QED BY <2>1, <2>3 DEF KeyInv
<1>3. ASSUME NEW c \in Callers, NEW args, NEW k \in Keys \cup {None}, Replayed(c, args, k) PROVE KeyInv'
    <2>1. /\ UNCHANGED <<intervals, replays, moves>> /\ k \in Keys /\ replays[k] # None
          /\ answers' = answers \/ answers' = answers \cup {[key |-> k, result |-> replays[k].result]}
        BY <1>3 DEF Replayed
    <2>2. \A a \in answers' : /\ a.key \in Keys /\ replays[a.key] # None
                              /\ a = [key |-> a.key, result |-> replays[a.key].result]
        BY <2>1 DEF KeyInv
    <2> QED BY <2>1, <2>2 DEF KeyInv
<1>4. ASSUME NEW c \in Callers, NoMove(c) PROVE KeyInv'
    <2>1. PICK i \in OpenAt(moves[c].args.deal) : Answer(c, i) /\ moves[c] # None /\ intervals' = intervals
        BY <1>4 DEF NoMove
    <2>2. i \in Nat
        BY <2>1 DEF OpenAt, StageTyped
    <2>3. /\ replays' \in [Keys -> StageReplays \cup {None}]
          /\ moves[c].key # None => replays'[moves[c].key] # None
          /\ \A q \in Keys : q # moves[c].key => replays'[q] = replays[q]
          /\ \A e \in Callers : moves'[e] # None /\ moves'[e].key # None =>
                /\ replays'[moves'[e].key] = None
                /\ \A f \in Callers \ {e} : moves'[f] # None => moves'[f].key # moves'[e].key
          /\ \A a \in answers' : /\ a.key \in Keys /\ replays'[a.key] # None
                                 /\ a = [key |-> a.key, result |-> replays'[a.key].result]
        BY <2>1, <2>2, AnswerKeys
    <2>4. ASSUME NEW j \in DOMAIN intervals, intervals[j].key # None PROVE replays'[intervals[j].key] # None
        <3>1. intervals[j] \in Interval
            BY DEF StageTyped
        <3>2. intervals[j].key \in Keys /\ replays[intervals[j].key] # None
            BY <2>4, <3>1 DEF Interval, KeyInv
        <3>3. CASE intervals[j].key = moves[c].key
            BY <2>3, <2>4, <3>3
        <3>4. CASE intervals[j].key # moves[c].key
            BY <2>3, <3>2, <3>4
        <3> QED BY <3>3, <3>4
    <2> QED BY <2>1, <2>3, <2>4 DEF KeyInv
<1>5. ASSUME NEW c \in Callers, DropMove(c) PROVE KeyInv'
    <2>1. moves'[c] = None /\ (\A e \in Callers \ {c} : moves'[e] = moves[e]) /\ UNCHANGED <<intervals, replays, answers>>
        BY <1>5 DEF DropMove, StageTyped
    <2>2. \A e \in Callers : moves'[e] # None => moves'[e] = moves[e]
        BY <2>1
    <2>3. \A e \in Callers : moves'[e] # None /\ moves'[e].key # None =>
            /\ replays[moves'[e].key] = None
            /\ \A f \in Callers \ {e} : moves'[f] # None => moves'[f].key # moves'[e].key
        BY <2>2 DEF KeyInv
    <2> QED BY <2>1, <2>3 DEF KeyInv
<1> QED BY <1>1, <1>2, <1>3, <1>4, <1>5, MoveKeys DEF StageNext, stageVars, PassTime, DealGone

\* However often a call is repeated with its key, and whether the first one is still under way, was undone or has
\* committed, it moves its record once and is always answered the same (reserveStageSet, services/pipeline.ts).
THEOREM KeyedMovesOnce == StageSpec => []KeyMovesOnce
<1>1. StageInit => KeyInv
    <2> SUFFICES ASSUME StageInit PROVE KeyInv
        OBVIOUS
    <2>1. replays \in [Keys -> StageReplays \cup {None}] /\ DOMAIN intervals = {} /\ answers = {}
        BY DEF StageInit
    <2>2. \A c \in Callers : moves[c] = None
        BY DEF StageInit
    <2> QED BY <2>1, <2>2 DEF KeyInv
<1>2. TimelineInv /\ KeyInv /\ [StageNext]_stageVars => (TimelineInv /\ KeyInv)'
    BY TimelineInvStep, KeyInvStep DEF TimelineInv
<1>3. KeyInv => KeyMovesOnce
    <2> SUFFICES ASSUME KeyInv, NEW k \in Keys
                 PROVE  /\ Cardinality({i \in DOMAIN intervals : intervals[i].key = k}) <= 1
                        /\ Cardinality({a \in answers : a.key = k}) <= 1
        BY DEF KeyMovesOnce
    <2>1. ASSUME NEW S, \A x, y \in S : x = y PROVE Cardinality(S) <= 1
        <3>1. CASE S = {}
            BY <3>1, FS_EmptySet
        <3>2. CASE S # {}
            <4>1. PICK x : S = {x}
                BY <2>1, <3>2
            <4>2. Cardinality({x}) = 1
                BY FS_Singleton
            <4> QED BY <4>1, <4>2
        <3> QED BY <3>1, <3>2
    <2>2. k # None
        BY PipelineAssumption DEF PipelineAssumption
    <2>3. \A i, j \in {h \in DOMAIN intervals : intervals[h].key = k} : i = j
        BY <2>2 DEF KeyInv
    <2>4. \A a, b \in {h \in answers : h.key = k} : a = b
        BY DEF KeyInv
    <2> QED BY <2>1, <2>3, <2>4
<1> QED BY <1>1, <1>2, <1>3, StageInitTimeline, PTL DEF StageSpec

-----------------------------------------------------------------------------
(* Intake: the proposals *)

Forms == [email : Email, phone : Phone \cup {None}, name : Names, act : ConsentActs \cup {None}]

Statuses == {"pending", "superseded", "approved", "rejected", "gone"}
Queues == Seq(Person \cup Contact \cup {None})

\* An amendment is about a person, a match stores the submission.
Row == [queue : Queues, value : Names, on : Person, sub : {None}, cands : SUBSET Person,
        status : Statuses, result : Person \cup {None}]
       \cup [queue : Queues, value : Names, on : {None}, sub : Forms, cands : SUBSET Person,
             status : Statuses, result : Person \cup {None}]

\* A set of pairs that puts the members of S one after another.
InLine(R, S) ==
    /\ R \subseteq S \X S
    /\ \A r \in S : <<r, r>> \notin R
    /\ \A r, q \in S : r # q => <<r, q>> \in R \/ <<q, r>> \in R
    /\ \A r, q, t \in S : <<r, q>> \in R /\ <<q, t>> \in R => <<r, t>> \in R

\* Rows in the order of submission, one open row for identical ones.
RowsInOrder(P) ==
    /\ P.rows \in Seq(Row)
    /\ InLine(P.order, OpenRows(P))
    /\ \A r, q \in OpenRows(P) :
         P.rows[r].queue = P.rows[q].queue /\ P.rows[r].value = P.rows[q].value => r = q

SameQueue(P, r) == Queued(P, P.rows[r].queue)

\* The windows.
InWindows(P) ==
    /\ Cardinality(PendingOf(P, 1 .. Len(P.rows))) <= PerTeam
    /\ \A r \in 1 .. Len(P.rows) : Cardinality(PendingOf(P, SameQueue(P, r))) <= PerQueue

\* What was found for a new row is the open row that is identical to it.
FoundFor(P, found, new) ==
    /\ found \in 1 .. Len(P.rows) \cup {None}
    /\ found # None => P.rows[found].queue = new.queue /\ P.rows[found].value = new.value
    /\ \A r \in OpenRows(P) : P.rows[r].queue = new.queue /\ P.rows[r].value = new.value => r = found

About(row, p) == row.on = p \/ row.result = p \/ p \in row.cands
Forgets(P, p) == \A r \in 1 .. Len(P.rows) : P.rows[r].status # "gone" => ~About(P.rows[r], p)

\* From P to Q nothing that was decided is touched.
KeepsDecided(P, Q) == /\ Len(P.rows) <= Len(Q.rows)
               /\ \A r \in 1 .. Len(P.rows) : ~Open(P, r) => Q.rows[r] = P.rows[r]

-----------------------------------------------------------------------------
(* Lines and windows *)

LEMMA LastInLine ==
    ASSUME NEW R, NEW S, InLine(R, S), NEW r
    PROVE  InLine(Without(R, {r}) \cup ((S \ {r}) \X {r}), S \cup {r})
<1> PICK T : T = Without(R, {r}) \cup ((S \ {r}) \X {r})
    OBVIOUS
<1>1. ASSUME NEW a, NEW b
      PROVE  <<a, b>> \in T <=> \/ <<a, b>> \in R /\ a # r /\ b # r
                                \/ a \in S \ {r} /\ b = r
    BY DEF Without
<1>2. T \subseteq (S \cup {r}) \X (S \cup {r})
    BY DEF Without, InLine
<1> HIDE DEF Without
<1>3. \A q \in S \cup {r} : <<q, q>> \notin T
    BY <1>1 DEF InLine
<1>4. \A a, b \in S \cup {r} : a # b => <<a, b>> \in T \/ <<b, a>> \in T
    BY <1>1 DEF InLine
<1>5. \A a, b, c \in S \cup {r} : <<a, b>> \in T /\ <<b, c>> \in T => <<a, c>> \in T
    <2> SUFFICES ASSUME NEW a \in S \cup {r}, NEW b \in S \cup {r}, NEW c \in S \cup {r},
                        <<a, b>> \in T, <<b, c>> \in T
                 PROVE  <<a, c>> \in T
        OBVIOUS
    <2>1. a \in S /\ b # r /\ a # r
        BY <1>1
    <2> QED BY <1>1, <2>1 DEF InLine
<1> QED BY <1>2, <1>3, <1>4, <1>5 DEF InLine

LEMMA FewerInLine ==
    ASSUME NEW R, NEW S, InLine(R, S), NEW X
    PROVE  InLine(Without(R, X), S \ X)
<1> PICK T : T = Without(R, X)
    OBVIOUS
<1>1. ASSUME NEW a, NEW b
      PROVE  <<a, b>> \in T <=> <<a, b>> \in R /\ a \notin X /\ b \notin X
    BY DEF Without
<1>2. T \subseteq (S \ X) \X (S \ X)
    BY DEF Without, InLine
<1> QED BY <1>1, <1>2 DEF InLine

LEMMA PartInLine ==
    ASSUME NEW R, NEW S, InLine(R, S), NEW K, K \subseteq S
    PROVE  /\ \A r \in K : <<r, r>> \notin R
           /\ \A r, q \in K : r # q => <<r, q>> \in R \/ <<q, r>> \in R
           /\ \A r, q, t \in K : <<r, q>> \in R /\ <<q, t>> \in R => <<r, t>> \in R
BY DEF InLine

\* Of a line only w members have fewer than w behind them.
FewBehind(R, S, w) == {r \in S : ~ (Cardinality({q \in S : <<r, q>> \in R}) >= w)}

LEMMA WindowHolds ==
    ASSUME NEW R, NEW S, IsFiniteSet(S), NEW w \in Nat,
           \A r \in S : <<r, r>> \notin R,
           \A r, q \in S : r # q => <<r, q>> \in R \/ <<q, r>> \in R,
           \A r, q, t \in S : <<r, q>> \in R /\ <<q, t>> \in R => <<r, t>> \in R
    PROVE  Cardinality(FewBehind(R, S, w)) <= w
<1> DEFINE After(r) == {q \in S : <<r, q>> \in R}
           Few == {r \in S : ~ (Cardinality(After(r)) >= w)}
           f == [r \in Few |-> Cardinality(After(r))]
<1>1. ASSUME NEW r \in S
      PROVE  After(r) \subseteq S /\ IsFiniteSet(After(r)) /\ Cardinality(After(r)) \in Nat
    <2>1. After(r) \subseteq S
        OBVIOUS
    <2> HIDE DEF After
    <2> QED BY <2>1, FS_Subset, FS_CardinalityType
<1>2. ASSUME NEW r \in S, NEW q \in S, <<r, q>> \in R
      PROVE  Cardinality(After(q)) < Cardinality(After(r))
    <2>1. After(q) \subseteq After(r) /\ q \in After(r) /\ q \notin After(q)
        BY <1>2
    <2> HIDE DEF After
    <2>2. Cardinality(After(q)) <= Cardinality(After(r)) /\ Cardinality(After(q)) # Cardinality(After(r))
        BY <1>1, <2>1, FS_Subset
    <2> QED BY <1>1, <2>2
<1>3. f \in Injection(Few, 0 .. w - 1)
    <2>1. ASSUME NEW r \in Few PROVE Cardinality(After(r)) \in 0 .. w - 1
        <3>1. r \in S /\ ~ (Cardinality(After(r)) >= w)
            BY <2>1
        <3> HIDE DEF After
        <3> QED BY <1>1, <3>1
    <2>2. ASSUME NEW r \in Few, NEW q \in Few, r # q PROVE Cardinality(After(r)) # Cardinality(After(q))
        <3>1. <<r, q>> \in R \/ <<q, r>> \in R
            BY <2>2
        <3> HIDE DEF After
        <3> QED BY <1>1, <1>2, <2>2, <3>1
    <2> HIDE DEF After, Few
    <2> QED BY <2>1, <2>2 DEF Injection, IsInjective
<1>4. IsFiniteSet(0 .. w - 1) /\ Cardinality(0 .. w - 1) = w
    BY FS_Interval
<1>5. Cardinality(Few) <= w
    <2> HIDE DEF After, Few, f
    <2> QED BY <1>3, <1>4, FS_Injection
<1> QED BY <1>5 DEF FewBehind

-----------------------------------------------------------------------------
(* What the operations on the rows do *)

LEMMA OpenAreRows ==
    ASSUME NEW P, P.rows \in Seq(Row)
    PROVE  /\ OpenRows(P) \subseteq 1 .. Len(P.rows) /\ Len(P.rows) \in Nat
           /\ IsFiniteSet(1 .. Len(P.rows))
           /\ \A r \in 1 .. Len(P.rows) : P.rows[r] \in Row
<1>1. Len(P.rows) \in Nat /\ DOMAIN P.rows = 1 .. Len(P.rows)
    OBVIOUS
<1>2. IsFiniteSet(1 .. Len(P.rows))
    BY <1>1, FS_Interval
<1> QED BY <1>1, <1>2 DEF OpenRows

\* Of the pending rows R, those that are superseded only change their status.
LEMMA SupersededOk ==
    ASSUME NEW P, RowsInOrder(P), NEW R, \A r \in R : r \in 1 .. Len(P.rows) /\ P.rows[r].status = "pending"
    PROVE  LET Q == SupersededIn(P, R) IN
           /\ RowsInOrder(Q) /\ KeepsDecided(P, Q) /\ Q.order = P.order
           /\ Len(Q.rows) = Len(P.rows)
           /\ \A r \in 1 .. Len(P.rows) :
                /\ Q.rows[r].queue = P.rows[r].queue
                /\ Q.rows[r].status = "pending" <=> P.rows[r].status = "pending" /\ r \notin R
           /\ \A p : Forgets(P, p) => Forgets(Q, p)
<1> PICK Q : Q = SupersededIn(P, R)
    OBVIOUS
<1> PICK n : n = Len(P.rows)
    OBVIOUS
<1>1. n \in Nat /\ DOMAIN P.rows = 1 .. n /\ \A r \in 1 .. n : P.rows[r] \in Row
    BY DEF RowsInOrder
<1>2. Q.order = P.order /\ Q.rows = [r \in 1 .. n |-> IF r \in R THEN [P.rows[r] EXCEPT !.status = "superseded"] ELSE P.rows[r]]
    BY DEF SupersededIn
<1>3. ASSUME NEW r \in 1 .. n
      PROVE  /\ Q.rows[r] \in Row
             /\ Q.rows[r].queue = P.rows[r].queue /\ Q.rows[r].value = P.rows[r].value
             /\ Q.rows[r].on = P.rows[r].on /\ Q.rows[r].cands = P.rows[r].cands
             /\ Q.rows[r].result = P.rows[r].result
             /\ Q.rows[r].status = IF r \in R THEN "superseded" ELSE P.rows[r].status
             /\ r \notin R => Q.rows[r] = P.rows[r]
    <2> PICK old : old = P.rows[r]
        OBVIOUS
    <2> PICK x : x = [old EXCEPT !.status = "superseded"]
        OBVIOUS
    <2>1. old \in Row
        BY <1>1
    <2>2. /\ x \in Row /\ x.queue = old.queue /\ x.value = old.value /\ x.on = old.on /\ x.cands = old.cands
          /\ x.result = old.result /\ x.status = "superseded"
        BY <2>1 DEF Row, Statuses
    <2>3. Q.rows[r] = IF r \in R THEN x ELSE old
        BY <1>2
    <2> QED BY <2>1, <2>2, <2>3
<1>4. Q.rows \in Seq(Row) /\ Len(Q.rows) = n
    <2> PICK seq : seq = Q.rows
        OBVIOUS
    <2>1. seq \in [1 .. n -> Row]
        BY <1>1, <1>2, <1>3
    <2>2. seq \in Seq(Row) /\ Len(seq) = n
        BY <1>1, <2>1
    <2> QED BY <2>2
<1>5. OpenRows(Q) = OpenRows(P)
    BY <1>3, <1>4 DEF OpenRows, Open
<1>6. RowsInOrder(Q)
    <2>1. InLine(Q.order, OpenRows(Q))
        BY <1>2, <1>5 DEF RowsInOrder
    <2>2. OpenRows(P) \subseteq 1 .. n
        BY DEF OpenRows
    <2>3. \A r, q \in OpenRows(Q) : Q.rows[r].queue = Q.rows[q].queue /\ Q.rows[r].value = Q.rows[q].value => r = q
        BY <1>3, <1>5, <2>2 DEF RowsInOrder
    <2> QED BY <1>4, <2>1, <2>3 DEF RowsInOrder
<1>7. KeepsDecided(P, Q)
    BY <1>3, <1>4 DEF KeepsDecided, Open
<1>8. \A r \in 1 .. n : Q.rows[r].queue = P.rows[r].queue
           /\ (Q.rows[r].status = "pending" <=> P.rows[r].status = "pending" /\ r \notin R)
    BY <1>3
<1>9. ASSUME NEW p, Forgets(P, p) PROVE Forgets(Q, p)
    BY <1>3, <1>4, <1>9 DEF Forgets, About
<1> QED BY <1>2, <1>4, <1>6, <1>7, <1>8, <1>9

\* What is beyond a window of the pending rows R is superseded: the rest fits.
LEMMA WindowKept ==
    ASSUME NEW P, RowsInOrder(P), NEW X, X \subseteq 1 .. Len(P.rows), NEW w \in Nat
    PROVE  LET K == PendingOf(P, X)
               R == Beyond(P, K, w)
               Q == SupersededIn(P, R)
           IN  /\ \A r \in R : r \in 1 .. Len(P.rows) /\ P.rows[r].status = "pending"
               /\ Cardinality(PendingOf(Q, X)) <= w
<1>01. PICK K : K = PendingOf(P, X)
    OBVIOUS
<1>02. PICK R : R = Beyond(P, K, w)
    OBVIOUS
<1>0. PICK Q : Q = SupersededIn(P, R)
    OBVIOUS
<1>1. K \subseteq X /\ R \subseteq K /\ \A r \in K : r \in 1 .. Len(P.rows) /\ P.rows[r].status = "pending"
    BY <1>01, <1>02 DEF PendingOf, Beyond
<1>2. IsFiniteSet(K) /\ K \subseteq OpenRows(P)
    <2>1. IsFiniteSet(1 .. Len(P.rows))
        BY OpenAreRows DEF RowsInOrder
    <2>2. K \subseteq 1 .. Len(P.rows) /\ K \subseteq OpenRows(P)
        BY <1>1 DEF OpenRows, Open
    <2> QED BY <2>1, <2>2, FS_Subset
<1>3. Cardinality(FewBehind(P.order, K, w)) <= w
    <2>1. /\ \A r \in K : <<r, r>> \notin P.order
          /\ \A r, q \in K : r # q => <<r, q>> \in P.order \/ <<q, r>> \in P.order
          /\ \A r, q, t \in K : <<r, q>> \in P.order /\ <<q, t>> \in P.order => <<r, t>> \in P.order
        BY <1>2, PartInLine DEF RowsInOrder
    <2> PICK T : T = P.order
        OBVIOUS
    <2>2. /\ \A r \in K : <<r, r>> \notin T
          /\ \A r, q \in K : r # q => <<r, q>> \in T \/ <<q, r>> \in T
          /\ \A r, q, t \in K : <<r, q>> \in T /\ <<q, t>> \in T => <<r, t>> \in T
        BY <2>1
    <2>3. Cardinality(FewBehind(T, K, w)) <= w
        BY <1>2, <2>2, WindowHolds
    <2> QED BY <2>3
<1>4. PendingOf(Q, X) = K \ R
    <2>1. \A r \in 1 .. Len(P.rows) :
             Q.rows[r].status = "pending" <=> P.rows[r].status = "pending" /\ r \notin R
        <3>1. \A r \in R : r \in 1 .. Len(P.rows) /\ P.rows[r].status = "pending"
            BY <1>1
        <3> QED BY <1>0, <3>1, SupersededOk
    <2> QED BY <1>01, <1>1, <2>1 DEF PendingOf
<1>5. K \ R = FewBehind(P.order, K, w)
    BY <1>02 DEF Beyond, FewBehind
<1> QED BY <1>0, <1>01, <1>02, <1>1, <1>3, <1>4, <1>5

LEMMA RowReplaced ==
    ASSUME NEW rs \in Seq(Row), NEW i \in 1 .. Len(rs), NEW row \in Row
    PROVE  LET out == [rs EXCEPT ![i] = row] IN
           /\ out \in Seq(Row) /\ Len(out) = Len(rs) /\ out[i] = row
           /\ \A r \in 1 .. Len(rs) : r # i => out[r] = rs[r]
<1> PICK n : n = Len(rs)
    OBVIOUS
<1> PICK out : out = [rs EXCEPT ![i] = row]
    OBVIOUS
<1>1. n \in Nat /\ rs \in [1 .. n -> Row] /\ i \in 1 .. n
    OBVIOUS
<1>2. out \in [1 .. n -> Row] /\ out[i] = row /\ \A r \in 1 .. n : r # i => out[r] = rs[r]
    BY <1>1
<1>3. out \in Seq(Row) /\ Len(out) = n
    BY <1>1, <1>2
<1> QED BY <1>2, <1>3

LEMMA NewestInLine ==
    ASSUME NEW P, InLine(P.order, OpenRows(P)), NEW r
    PROVE  InLine(Newest(P, r), OpenRows(P) \cup {r})
<1>0. PICK R, S : R = P.order /\ S = OpenRows(P)
    OBVIOUS
<1>1. InLine(R, S)
    BY <1>0
<1>2. InLine(Without(R, {r}) \cup ((S \ {r}) \X {r}), S \cup {r})
    BY <1>1, LastInLine
<1> QED BY <1>0, <1>2 DEF Newest

\* A row that is placed: the one that was found, or a new one at the end.
LEMMA PlaceOk ==
    ASSUME NEW P, RowsInOrder(P), NEW new \in Row, new.status = "pending", NEW found, FoundFor(P, found, new)
    PROVE  LET Q == Place(P, found, new) IN
           /\ RowsInOrder(Q) /\ KeepsDecided(P, Q)
           /\ \A r \in 1 .. Len(Q.rows) : Q.rows[r].queue # new.queue => r \in 1 .. Len(P.rows) /\ Q.rows[r] = P.rows[r]
           /\ \A p : Forgets(P, p) /\ ~About(new, p) => Forgets(Q, p)
<1> PICK n : n = Len(P.rows)
    OBVIOUS
<1>0. n \in Nat /\ DOMAIN P.rows = 1 .. n /\ (\A r \in 1 .. n : P.rows[r] \in Row) /\ None \notin Nat
      /\ OpenRows(P) \subseteq 1 .. n
    BY IntakeAssumption DEF RowsInOrder, OpenRows, IntakeAssumption
<1>1. PICK Q : Q = Place(P, found, new)
    OBVIOUS
<1>2. \A p : Forgets(P, p) <=> \A r \in 1 .. n : P.rows[r].status # "gone" => ~About(P.rows[r], p)
    BY DEF Forgets
<1>3. CASE found # None /\ Open(P, found)
    <2>1. found \in 1 .. n
        BY <1>3 DEF FoundFor
    <2>a. PICK old, row : old = P.rows[found] /\ row = [old EXCEPT !.status = "pending", !.cands = new.cands]
        OBVIOUS
    <2>2. old \in Row /\ new.cands \subseteq Person
        BY <1>0, <2>1, <2>a DEF Row, Statuses
    <2>3. /\ row \in Row /\ row.queue = old.queue /\ row.value = old.value /\ row.on = old.on
          /\ row.result = old.result /\ row.cands = new.cands /\ row.status = "pending"
        BY <2>2, <2>a DEF Row, Statuses
    <2>4. Q.rows = [P.rows EXCEPT ![found] = row] /\ Q.order = Newest(P, found)
        BY <1>0, <1>1, <1>3, <2>1, <2>a DEF Place, Collapsible
    <2>5. Q.rows \in Seq(Row) /\ Len(Q.rows) = n /\ Q.rows[found] = row
          /\ \A r \in 1 .. n : r # found => Q.rows[r] = P.rows[r]
        <3> PICK seq : seq = Q.rows
            OBVIOUS
        <3> PICK rs : rs = P.rows
            OBVIOUS
        <3>1. rs \in Seq(Row) /\ found \in 1 .. Len(rs) /\ seq = [rs EXCEPT ![found] = row]
            BY <2>1, <2>4 DEF RowsInOrder
        <3>2. seq \in Seq(Row) /\ Len(seq) = Len(rs) /\ seq[found] = row /\ \A r \in 1 .. Len(rs) : r # found => seq[r] = rs[r]
            BY <2>3, <3>1, RowReplaced
        <3> QED BY <3>2
    <2>6. OpenRows(Q) = OpenRows(P) /\ OpenRows(P) = OpenRows(P) \cup {found}
        <3>1. \A r \in 1 .. n : Open(Q, r) <=> Open(P, r)
            BY <1>3, <2>1, <2>3, <2>5 DEF Open
        <3>2. found \in OpenRows(P)
            BY <1>3, <2>1 DEF OpenRows
        <3> QED BY <2>5, <3>1, <3>2 DEF OpenRows
    <2>7. InLine(Q.order, OpenRows(Q))
        BY <2>4, <2>6, NewestInLine DEF RowsInOrder
    <2>8. \A r \in 1 .. n : Q.rows[r].queue = P.rows[r].queue /\ Q.rows[r].value = P.rows[r].value
        BY <2>3, <2>5, <2>a
    <2>9. \A r, q \in OpenRows(Q) : Q.rows[r].queue = Q.rows[q].queue /\ Q.rows[r].value = Q.rows[q].value => r = q
        BY <1>0, <2>6, <2>8 DEF RowsInOrder
    <2>10. RowsInOrder(Q)
        BY <2>5, <2>7, <2>9 DEF RowsInOrder
    <2>11. KeepsDecided(P, Q)
        BY <1>3, <2>5 DEF KeepsDecided
    <2>12. \A r \in 1 .. Len(Q.rows) : Q.rows[r].queue # new.queue => r \in 1 .. n /\ Q.rows[r] = P.rows[r]
        BY <1>3, <2>3, <2>5, <2>a DEF FoundFor
    <2>13. ASSUME NEW p, Forgets(P, p), ~About(new, p) PROVE Forgets(Q, p)
        <3>1. P.rows[found].status # "gone"
            BY <1>3 DEF Open
        <3>2. ~About(old, p) /\ ~About(row, p)
            BY <1>2, <2>1, <2>3, <2>13, <2>a, <3>1 DEF About
        <3> QED BY <1>2, <2>5, <2>13, <3>2 DEF Forgets
    <2> QED BY <1>1, <2>10, <2>11, <2>12, <2>13
<1>4. CASE ~(found # None /\ Open(P, found))
    <2>1. Q.rows = Append(P.rows, new) /\ Q.order = Newest(P, n + 1)
        BY <1>1, <1>4 DEF Place, Collapsible
    <2>2. Q.rows \in Seq(Row) /\ Len(Q.rows) = n + 1 /\ Q.rows[n + 1] = new /\ \A r \in 1 .. n : Q.rows[r] = P.rows[r]
        <3> PICK seq, rs : seq = Q.rows /\ rs = P.rows
            OBVIOUS
        <3>1. seq = Append(rs, new) /\ rs \in Seq(Row) /\ Len(rs) = n
            BY <2>1 DEF RowsInOrder
        <3>2. seq \in Seq(Row) /\ Len(seq) = n + 1 /\ seq[n + 1] = new /\ \A r \in 1 .. n : seq[r] = rs[r]
            BY <3>1
        <3> QED BY <3>2
    <2>3. 1 .. n + 1 = 1 .. n \cup {n + 1} /\ n + 1 \notin 1 .. n
        BY <1>0
    <2>4. OpenRows(Q) = OpenRows(P) \cup {n + 1}
        BY <2>2, <2>3 DEF OpenRows, Open
    <2>5. InLine(Q.order, OpenRows(Q))
        BY <2>1, <2>4, NewestInLine DEF RowsInOrder
    <2>6. \A r \in OpenRows(P) : ~(P.rows[r].queue = new.queue /\ P.rows[r].value = new.value)
        <3>1. \A r \in OpenRows(P) : P.rows[r].queue = new.queue /\ P.rows[r].value = new.value => r = found
            BY DEF FoundFor
        <3>2. found \notin OpenRows(P)
            BY <1>0, <1>4 DEF OpenRows
        <3> QED BY <3>1, <3>2
    <2>7. \A r, q \in OpenRows(Q) : Q.rows[r].queue = Q.rows[q].queue /\ Q.rows[r].value = Q.rows[q].value => r = q
        BY <1>0, <2>2, <2>4, <2>6 DEF RowsInOrder
    <2>8. RowsInOrder(Q)
        BY <2>2, <2>5, <2>7 DEF RowsInOrder
    <2>9. KeepsDecided(P, Q)
        BY <1>0, <2>2 DEF KeepsDecided
    <2>10. \A r \in 1 .. Len(Q.rows) : Q.rows[r].queue # new.queue => r \in 1 .. n /\ Q.rows[r] = P.rows[r]
        BY <2>2, <2>3
    <2>11. ASSUME NEW p, Forgets(P, p), ~About(new, p) PROVE Forgets(Q, p)
        BY <1>2, <2>2, <2>3, <2>11 DEF Forgets
    <2> QED BY <1>1, <2>8, <2>9, <2>10, <2>11
<1> QED BY <1>3, <1>4

LEMMA KeptTwice ==
    ASSUME NEW P, NEW Q, NEW Z, Len(P.rows) \in Nat, Len(Q.rows) \in Nat, Len(Z.rows) \in Nat,
           KeepsDecided(P, Q), KeepsDecided(Q, Z)
    PROVE  KeepsDecided(P, Z)
BY DEF KeepsDecided, Open

\* Rows that stay in their queues, none of them pending again.
Settles(P, Q) ==
    /\ Len(Q.rows) = Len(P.rows)
    /\ \A r \in 1 .. Len(P.rows) : /\ Q.rows[r].queue = P.rows[r].queue
                                   /\ Q.rows[r].status = "pending" => P.rows[r].status = "pending"

LEMMA SettlesPending ==
    ASSUME NEW P, RowsInOrder(P), NEW Q, Settles(P, Q)
    PROVE  /\ \A k : Queued(Q, k) = Queued(P, k)
           /\ \A X : X \subseteq 1 .. Len(P.rows) =>
                /\ Cardinality(PendingOf(Q, X)) <= Cardinality(PendingOf(P, X))
                /\ Cardinality(PendingOf(Q, X)) \in Nat /\ Cardinality(PendingOf(P, X)) \in Nat
<1>1. ASSUME NEW X, X \subseteq 1 .. Len(P.rows)
      PROVE  /\ Cardinality(PendingOf(Q, X)) <= Cardinality(PendingOf(P, X))
             /\ Cardinality(PendingOf(Q, X)) \in Nat /\ Cardinality(PendingOf(P, X)) \in Nat
    <2>1. PendingOf(Q, X) \subseteq PendingOf(P, X) /\ PendingOf(P, X) \subseteq 1 .. Len(P.rows)
        BY <1>1 DEF PendingOf, Settles
    <2>2. IsFiniteSet(1 .. Len(P.rows))
        BY OpenAreRows DEF RowsInOrder
    <2> QED BY <2>1, <2>2, FS_Subset, FS_CardinalityType
<1>2. \A k : Queued(Q, k) = Queued(P, k)
    BY DEF Queued, Settles
<1> QED BY <1>1, <1>2

LEMMA WindowsStay ==
    ASSUME NEW P, RowsInOrder(P), InWindows(P), NEW Q, Settles(P, Q)
    PROVE  InWindows(Q)
<1>1. 1 .. Len(Q.rows) = 1 .. Len(P.rows)
    BY DEF Settles
<1>2. Cardinality(PendingOf(Q, 1 .. Len(Q.rows))) <= PerTeam
    <2>1. /\ Cardinality(PendingOf(Q, 1 .. Len(P.rows))) <= Cardinality(PendingOf(P, 1 .. Len(P.rows)))
          /\ Cardinality(PendingOf(Q, 1 .. Len(P.rows))) \in Nat /\ Cardinality(PendingOf(P, 1 .. Len(P.rows))) \in Nat
        BY SettlesPending
    <2>2. Cardinality(PendingOf(P, 1 .. Len(P.rows))) <= PerTeam
        BY DEF InWindows
    <2> QED BY <1>1, <2>1, <2>2, IntakeAssumption DEF IntakeAssumption
<1>3. ASSUME NEW r \in 1 .. Len(Q.rows)
      PROVE  Cardinality(PendingOf(Q, SameQueue(Q, r))) <= PerQueue
    <2> PICK X : X = SameQueue(P, r)
        OBVIOUS
    <2>1. X \subseteq 1 .. Len(P.rows)
        BY DEF SameQueue, Queued
    <2>2. SameQueue(Q, r) = X
        BY <1>1, SettlesPending DEF SameQueue, Settles
    <2>3. Cardinality(PendingOf(P, X)) <= PerQueue
        BY <1>1 DEF InWindows
    <2>4. /\ Cardinality(PendingOf(Q, X)) <= Cardinality(PendingOf(P, X))
          /\ Cardinality(PendingOf(Q, X)) \in Nat /\ Cardinality(PendingOf(P, X)) \in Nat
        BY <2>1, SettlesPending
    <2> QED BY <2>2, <2>3, <2>4, IntakeAssumption DEF IntakeAssumption
<1> QED BY <1>2, <1>3 DEF InWindows

LEMMA OverflowOk ==
    ASSUME NEW P, RowsInOrder(P), NEW k,
           \A r \in 1 .. Len(P.rows) : P.rows[r].queue # k => Cardinality(PendingOf(P, SameQueue(P, r))) <= PerQueue
    PROVE  LET Z == SupersedeOverflow(P, k) IN
           RowsInOrder(Z) /\ InWindows(Z) /\ KeepsDecided(P, Z) /\ \A p : Forgets(P, p) => Forgets(Z, p)
<1> PICK n : n = Len(P.rows)
    OBVIOUS
<1>0. n \in Nat /\ PerQueue \in Nat /\ PerTeam \in Nat /\ Queued(P, k) \subseteq 1 .. n
    BY IntakeAssumption DEF RowsInOrder, IntakeAssumption, Queued
<1>1. PICK R : R = Beyond(P, PendingOf(P, Queued(P, k)), PerQueue)
    OBVIOUS
<1>2. PICK Q : Q = SupersededIn(P, R)
    OBVIOUS
<1>3. PICK T : T = Beyond(Q, PendingOf(Q, 1 .. Len(Q.rows)), PerTeam)
    OBVIOUS
<1>4. PICK Z : Z = SupersededIn(Q, T)
    OBVIOUS
<1>5. Z = SupersedeOverflow(P, k)
    BY <1>1, <1>2, <1>3, <1>4 DEF SupersedeOverflow
<1>6. /\ \A r \in R : r \in 1 .. Len(P.rows) /\ P.rows[r].status = "pending"
      /\ Cardinality(PendingOf(Q, Queued(P, k))) <= PerQueue
    BY <1>0, <1>1, <1>2, WindowKept
<1>7. RowsInOrder(Q) /\ KeepsDecided(P, Q) /\ Settles(P, Q) /\ \A p : Forgets(P, p) => Forgets(Q, p)
    BY <1>2, <1>6, SupersededOk DEF Settles
<1>8. /\ \A r \in T : r \in 1 .. Len(Q.rows) /\ Q.rows[r].status = "pending"
      /\ Cardinality(PendingOf(Z, 1 .. Len(Q.rows))) <= PerTeam
    BY <1>0, <1>3, <1>4, <1>7, WindowKept
<1>9. RowsInOrder(Z) /\ KeepsDecided(Q, Z) /\ Settles(Q, Z) /\ \A p : Forgets(Q, p) => Forgets(Z, p)
    BY <1>4, <1>7, <1>8, SupersededOk DEF Settles
<1>10. Len(Q.rows) = n /\ Len(Z.rows) = n
    BY <1>7, <1>9 DEF Settles
<1>11. KeepsDecided(P, Z)
    BY <1>0, <1>7, <1>9, <1>10, KeptTwice
<1>12. ASSUME NEW r \in 1 .. n PROVE Cardinality(PendingOf(Z, SameQueue(Z, r))) <= PerQueue
    <2> PICK X : X = SameQueue(P, r)
        OBVIOUS
    <2>1. X \subseteq 1 .. n /\ X = Queued(P, P.rows[r].queue)
        BY DEF SameQueue, Queued
    <2>2. SameQueue(Z, r) = X
        BY <1>7, <1>9, <1>10, SettlesPending DEF SameQueue, Settles
    <2>3. /\ Cardinality(PendingOf(Z, X)) <= Cardinality(PendingOf(Q, X))
          /\ Cardinality(PendingOf(Q, X)) <= Cardinality(PendingOf(P, X))
          /\ Cardinality(PendingOf(Z, X)) \in Nat /\ Cardinality(PendingOf(Q, X)) \in Nat
          /\ Cardinality(PendingOf(P, X)) \in Nat
        BY <1>7, <1>9, <1>10, <2>1, SettlesPending
    <2>4. CASE P.rows[r].queue = k
        BY <1>0, <1>6, <2>1, <2>2, <2>3, <2>4
    <2>5. CASE P.rows[r].queue # k
        BY <1>0, <2>2, <2>3, <2>5
    <2> QED BY <2>4, <2>5
<1>13. InWindows(Z)
    BY <1>8, <1>10, <1>12 DEF InWindows
<1> QED BY <1>5, <1>7, <1>9, <1>11, <1>13

\* proposeAmendments and proposeMatch.
LEMMA ProposedOk ==
    ASSUME NEW P, RowsInOrder(P), InWindows(P), NEW new \in Row, new.status = "pending", NEW found, FoundFor(P, found, new)
    PROVE  LET Z == Proposed(P, found, new) IN
           /\ RowsInOrder(Z) /\ InWindows(Z) /\ KeepsDecided(P, Z)
           /\ \A p : Forgets(P, p) /\ ~About(new, p) => Forgets(Z, p)
<1>1. PICK Q : Q = Place(P, found, new)
    OBVIOUS
<1>2. PICK Z : Z = SupersedeOverflow(Q, new.queue)
    OBVIOUS
<1>3. /\ RowsInOrder(Q) /\ KeepsDecided(P, Q)
      /\ \A r \in 1 .. Len(Q.rows) : Q.rows[r].queue # new.queue => r \in 1 .. Len(P.rows) /\ Q.rows[r] = P.rows[r]
      /\ \A p : Forgets(P, p) /\ ~About(new, p) => Forgets(Q, p)
    BY <1>1, PlaceOk
<1>4. ASSUME NEW r \in 1 .. Len(Q.rows), Q.rows[r].queue # new.queue
      PROVE  Cardinality(PendingOf(Q, SameQueue(Q, r))) <= PerQueue
    <2>1. r \in 1 .. Len(P.rows) /\ Q.rows[r] = P.rows[r]
        BY <1>3, <1>4
    <2>2. PendingOf(Q, SameQueue(Q, r)) \subseteq PendingOf(P, SameQueue(P, r))
        BY <1>3, <1>4, <2>1 DEF PendingOf, SameQueue, Queued
    <2>3. PendingOf(P, SameQueue(P, r)) \subseteq 1 .. Len(P.rows) /\ IsFiniteSet(1 .. Len(P.rows))
        BY OpenAreRows DEF PendingOf, SameQueue, Queued, RowsInOrder
    <2>4. Cardinality(PendingOf(P, SameQueue(P, r))) <= PerQueue
        BY <2>1 DEF InWindows
    <2>5. IsFiniteSet(PendingOf(P, SameQueue(P, r)))
        BY <2>3, FS_Subset
    <2>6. Cardinality(PendingOf(Q, SameQueue(Q, r))) <= Cardinality(PendingOf(P, SameQueue(P, r)))
          /\ Cardinality(PendingOf(Q, SameQueue(Q, r))) \in Nat /\ Cardinality(PendingOf(P, SameQueue(P, r))) \in Nat
        BY <2>2, <2>5, FS_Subset, FS_CardinalityType
    <2> QED BY <2>4, <2>6, IntakeAssumption DEF IntakeAssumption
<1>5. RowsInOrder(Z) /\ InWindows(Z) /\ KeepsDecided(Q, Z) /\ \A p : Forgets(Q, p) => Forgets(Z, p)
    BY <1>2, <1>3, <1>4, OverflowOk
<1>6. KeepsDecided(P, Z)
    <2>1. Len(P.rows) \in Nat /\ Len(Q.rows) \in Nat /\ Len(Z.rows) \in Nat
        BY <1>3, <1>5 DEF RowsInOrder
    <2> QED BY <1>3, <1>5, <2>1, KeptTwice
<1>7. Z = Proposed(P, found, new)
    BY <1>1, <1>2 DEF Proposed
<1> QED BY <1>3, <1>5, <1>6, <1>7

\* Rows that are closed: what stays open keeps its place in the line.
Closes(P, Q, X) ==
    /\ Len(Q.rows) = Len(P.rows)
    /\ \A r \in 1 .. Len(P.rows) : /\ Q.rows[r] \in Row
                                   /\ Q.rows[r].queue = P.rows[r].queue /\ Q.rows[r].value = P.rows[r].value
                                   /\ IF r \in X THEN ~Open(Q, r) ELSE Q.rows[r] = P.rows[r]
    /\ Q.order = Without(P.order, X)

LEMMA ClosedOk ==
    ASSUME NEW P, RowsInOrder(P), InWindows(P), NEW Q, Q.rows \in Seq(Row), NEW X, Closes(P, Q, X)
    PROVE  RowsInOrder(Q) /\ InWindows(Q) /\ OpenRows(Q) = OpenRows(P) \ X
<1>1. OpenRows(Q) = OpenRows(P) \ X
    BY DEF Closes, OpenRows, Open
<1>2. InLine(Q.order, OpenRows(Q))
    <2>1. InLine(Without(P.order, X), OpenRows(P) \ X)
        <3> PICK R, S : R = P.order /\ S = OpenRows(P)
            OBVIOUS
        <3>1. InLine(R, S)
            BY DEF RowsInOrder
        <3>2. InLine(Without(R, X), S \ X)
            BY <3>1, FewerInLine
        <3> QED BY <3>2
    <2> QED BY <1>1, <2>1 DEF Closes
<1>3. OpenRows(P) \subseteq 1 .. Len(P.rows)
    BY DEF OpenRows
<1>4. \A r, q \in OpenRows(Q) : Q.rows[r].queue = Q.rows[q].queue /\ Q.rows[r].value = Q.rows[q].value => r = q
    BY <1>1, <1>3 DEF RowsInOrder, Closes
<1>5. Settles(P, Q)
    BY DEF Settles, Closes, Open
<1>6. InWindows(Q)
    BY <1>5, WindowsStay
<1> QED BY <1>1, <1>2, <1>4, <1>6 DEF RowsInOrder

LEMMA SettledOk ==
    ASSUME NEW P, RowsInOrder(P), InWindows(P), NEW r \in 1 .. Len(P.rows), NEW status \in {"approved", "rejected"},
           NEW result \in Person \cup {None}, NEW Q, Q = Settled(P, r, status, result), Q # None
    PROVE  /\ RowsInOrder(Q) /\ InWindows(Q) /\ KeepsDecided(P, Q) /\ Closes(P, Q, {r}) /\ Open(P, r)
           /\ \A p : Forgets(P, p) /\ p # result => Forgets(Q, p)
<1>a. PICK old, row : old = P.rows[r] /\ row = [old EXCEPT !.status = status, !.result = result]
    OBVIOUS
<1>1. old \in Row
    BY <1>a DEF RowsInOrder
<1>2. /\ row \in Row /\ row.queue = old.queue /\ row.value = old.value /\ row.on = old.on /\ row.cands = old.cands
      /\ row.result = result /\ row.status = status
    BY <1>1, <1>a DEF Row, Statuses
<1>3. Open(P, r) /\ Q = [rows |-> [P.rows EXCEPT ![r] = row], order |-> Without(P.order, {r})]
    BY <1>1, <1>a DEF Settled, Row, Statuses
<1> PICK out, rs : out = Q.rows /\ rs = P.rows
    OBVIOUS
<1>4. out = [rs EXCEPT ![r] = row] /\ rs \in Seq(Row) /\ r \in 1 .. Len(rs) /\ Q.order = Without(P.order, {r})
    BY <1>3 DEF RowsInOrder
<1>5. out \in Seq(Row) /\ Len(out) = Len(rs) /\ out[r] = row /\ \A q \in 1 .. Len(rs) : q # r => out[q] = rs[q]
    BY <1>2, <1>4, RowReplaced
<1>6. Closes(P, Q, {r})
    <2>1. \A q \in 1 .. Len(rs) : out[q] \in Row /\ out[q].queue = rs[q].queue /\ out[q].value = rs[q].value
        BY <1>2, <1>4, <1>5, <1>a
    <2>2. ~Open(Q, r)
        BY <1>2, <1>5 DEF Open
    <2> QED BY <1>4, <1>5, <2>1, <2>2 DEF Closes
<1>7. KeepsDecided(P, Q)
    BY <1>3, <1>4, <1>5 DEF KeepsDecided
<1>8. RowsInOrder(Q) /\ InWindows(Q)
    BY <1>5, <1>6, ClosedOk
<1>9. ASSUME NEW p, Forgets(P, p), p # result PROVE Forgets(Q, p)
    <2>1. rs[r].status # "gone" /\ rs[r] = old
        BY <1>3, <1>a DEF Open
    <2>2. ~About(old, p)
        BY <1>9, <2>1 DEF Forgets
    <2>3. ~About(row, p)
        BY <1>2, <1>9, <2>2 DEF About
    <2> QED BY <1>5, <1>9, <2>3 DEF Forgets
<1> QED BY <1>3, <1>6, <1>7, <1>8, <1>9

LEMMA FindOpenFinds ==
    ASSUME NEW P, RowsInOrder(P), NEW new \in Row
    PROVE  FoundFor(P, FindOpen(P, new), new)
<1> PICK same : same = {r \in OpenRows(P) : P.rows[r].queue = new.queue /\ P.rows[r].value = new.value}
    OBVIOUS
<1> PICK found : found = FindOpen(P, new)
    OBVIOUS
<1>1. OpenRows(P) \subseteq 1 .. Len(P.rows)
    BY DEF OpenRows
<1>2. CASE same = {}
    <2>1. found = None
        BY <1>2 DEF FindOpen
    <2> QED BY <1>2, <2>1 DEF FoundFor
<1>3. CASE same # {}
    <2>1. PICK r \in same : TRUE
        BY <1>3
    <2>2. same = {r}
        BY <2>1 DEF RowsInOrder
    <2>3. \E q \in same : \A t \in same \ {q} : <<t, q>> \in P.order
        BY <2>2
    <2>4. found \in same
        BY <1>3, <2>3 DEF FindOpen
    <2>5. found = r
        BY <2>2, <2>4
    <2> QED BY <1>1, <2>2, <2>5 DEF FoundFor
<1> QED BY <1>2, <1>3

LEMMA SameStore ==
    ASSUME NEW P, NEW Q, Q.rows = P.rows, Q.order = P.order
    PROVE  /\ RowsInOrder(P) => RowsInOrder(Q)
           /\ InWindows(P) => InWindows(Q)
           /\ OpenRows(Q) = OpenRows(P)
           /\ \A O : KeepsDecided(O, P) => KeepsDecided(O, Q)
           /\ \A p : Forgets(P, p) => Forgets(Q, p)
           /\ \A found, new : FoundFor(P, found, new) => FoundFor(Q, found, new)
<1>1. OpenRows(Q) = OpenRows(P)
    BY DEF OpenRows, Open
<1>2. \A X : PendingOf(Q, X) = PendingOf(P, X)
    BY DEF PendingOf
<1>3. \A r : SameQueue(Q, r) = SameQueue(P, r)
    BY DEF SameQueue, Queued
<1>4. InWindows(P) => InWindows(Q)
    BY <1>2, <1>3 DEF InWindows
<1>5. RowsInOrder(P) => RowsInOrder(Q)
    BY <1>1 DEF RowsInOrder
<1>6. \A O : KeepsDecided(O, P) => KeepsDecided(O, Q)
    BY DEF KeepsDecided
<1>7. \A p : Forgets(P, p) => Forgets(Q, p)
    BY DEF Forgets
<1>8. \A found, new : FoundFor(P, found, new) => FoundFor(Q, found, new)
    BY <1>1 DEF FoundFor
<1> QED BY <1>1, <1>4, <1>5, <1>6, <1>7, <1>8

-----------------------------------------------------------------------------
(* The invariant of the proposals *)

SubPlaces == sub # None =>
    /\ sub.s \in Submissions
    /\ sub.new # None => sub.new \in Row /\ sub.new.status = "pending" /\ FoundFor(Store, sub.found, sub.new)
DecidesRows == \A d \in deciding : d.row \in 1 .. Len(rows) /\ d.with \in Person \cup {None}

ProposalsInv == RowsInOrder(Store) /\ InWindows(Store) /\ SubPlaces /\ DecidesRows

LEMMA StoreIs == Store.rows = rows /\ Store.order = order
BY DEF Store

LEMMA PeopleArePersons ==
    /\ LivePeople \subseteq Person /\ Fresh \subseteq Person
    /\ \A s : Active(s) \subseteq Person /\ Candidates(s) \subseteq Person
<1>1. LivePeople \subseteq Person /\ Fresh \subseteq Person /\ (\A v : HoldersOf(v) \subseteq Person /\ ArchivedHolders(v) \subseteq Person)
    BY DEF LivePeople, Fresh, HoldersOf, ArchivedHolders
<1> QED BY <1>1 DEF Active, Candidates

LEMMA AmendmentIsRow ==
    ASSUME NEW p \in Person, NEW name \in Names
    PROVE  /\ Amendment(p, name) \in Row /\ Amendment(p, name).status = "pending"
           /\ \A q : About(Amendment(p, name), q) => q \in {p, None}
<1>1. <<p>> \in Seq(Person \cup Contact \cup {None})
    OBVIOUS
<1> QED BY <1>1 DEF Amendment, Row, Statuses, Queues, About

LEMMA MatchIsRow ==
    ASSUME NEW s \in Forms, NEW cands \in SUBSET Person
    PROVE  /\ Match(s, cands) \in Row /\ Match(s, cands).status = "pending"
           /\ \A q : About(Match(s, cands), q) => q \in cands \cup {None}
<1>1. s.email \in Contact /\ s.phone \in Contact \cup {None} /\ s.name \in Names
    BY DEF Forms, Contact
<1>2. <<s.email, s.phone>> \in Seq(Person \cup Contact \cup {None})
    BY <1>1
<1> QED BY <1>1, <1>2 DEF Match, Row, Statuses, Queues, About

LEMMA LeavesRow ==
    ASSUME NEW s \in Submissions, Leaves(s) # None
    PROVE  /\ Leaves(s) \in Row /\ Leaves(s).status = "pending"
           /\ \A q : About(Leaves(s), q) => q \in Candidates(s) \cup {None}
<1>1. s \in Forms
    BY IntakeAssumption DEF IntakeAssumption, Forms
<1>2. CASE ~Certain(s)
    <2>1. Leaves(s) = Match(s, Candidates(s))
        BY <1>2 DEF Leaves
    <2> QED BY <1>1, <2>1, MatchIsRow, PeopleArePersons
<1>3. CASE Certain(s)
    <2> PICK p : p = CHOOSE q \in Active(s) : TRUE
        OBVIOUS
    <2>1. p \in Active(s)
        BY <1>3 DEF Certain
    <2>2. Leaves(s) = Amendment(p, s.name)
        BY <1>3 DEF Leaves
    <2>3. p \in Person /\ p \in Candidates(s) /\ s.name \in Names
        BY <1>1, <2>1, PeopleArePersons DEF Candidates, Forms
    <2> PICK name : name = s.name
        OBVIOUS
    <2> PICK row : row = Amendment(p, name)
        OBVIOUS
    <2>4. row \in Row /\ row.status = "pending" /\ \A q : About(row, q) => q \in {p, None}
        BY <2>3, AmendmentIsRow
    <2> QED BY <2>2, <2>3, <2>4
<1> QED BY <1>2, <1>3

\* A step that leaves the rows alone.
LEMMA ProposalsStay ==
    ASSUME ProposalsInv, rows' = rows, order' = order, SubPlaces', DecidesRows'
    PROVE  ProposalsInv' /\ KeepsDecided(Store, Store')
<1> PICK P, Q : P = Store /\ Q = Store'
    OBVIOUS
<1>1. P.rows = Q.rows /\ P.order = Q.order
    BY DEF Store
<1>2. RowsInOrder(Q) /\ InWindows(Q)
    BY <1>1, SameStore DEF ProposalsInv
<1>3. Len(P.rows) \in Nat
    BY DEF ProposalsInv, RowsInOrder
<1>4. KeepsDecided(P, Q)
    BY <1>1, <1>3 DEF KeepsDecided
<1> QED BY <1>2, <1>4 DEF ProposalsInv

LEMMA SubStays ==
    ASSUME SubPlaces, sub' \in {sub, None}, sub' # None => rows' = rows /\ order' = order
    PROVE  SubPlaces'
<1>1. CASE sub' = None
    BY <1>1 DEF SubPlaces
<1>2. CASE sub' # None
    <2>1. sub' = sub /\ Store' = Store
        BY <1>2 DEF Store
    <2> QED BY <1>2, <2>1 DEF SubPlaces
<1> QED BY <1>1, <1>2

LEMMA SubmitFindsRows ==
    ASSUME ProposalsInv, NEW s \in Submissions, SubmitFinds(s)
    PROVE  ProposalsInv' /\ KeepsDecided(Store, Store')
<1> PICK new : new = Leaves(s)
    OBVIOUS
<1> PICK found : found = IF new = None THEN None ELSE FindOpen(Store, new)
    OBVIOUS
<1>1. sub' = [s |-> s, new |-> new, found |-> found] /\ rows' = rows /\ order' = order /\ deciding' = deciding
    BY DEF SubmitFinds
<1>2. new # None => new \in Row /\ new.status = "pending" /\ FoundFor(Store, found, new)
    BY LeavesRow, FindOpenFinds DEF ProposalsInv
<1>3. Store' = Store
    BY <1>1 DEF Store
<1>4. SubPlaces'
    BY <1>1, <1>2, <1>3 DEF SubPlaces
<1>5. DecidesRows'
    BY <1>1 DEF ProposalsInv, DecidesRows
<1> QED BY <1>1, <1>4, <1>5, ProposalsStay

\* A step that puts a store with the same rows and more in place.
LEMMA StoreReplaced ==
    ASSUME ProposalsInv, NEW Q, RowsInOrder(Q), InWindows(Q), KeepsDecided(Store, Q), rows' = Q.rows, order' = Q.order,
           deciding' \subseteq deciding, SubPlaces'
    PROVE  ProposalsInv' /\ KeepsDecided(Store, Store') /\ \A q : Forgets(Q, q) => Forgets(Store', q)
<1> PICK Z : Z = Store'
    OBVIOUS
<1>1. Z.rows = Q.rows /\ Z.order = Q.order
    BY DEF Store
<1>2. RowsInOrder(Z) /\ InWindows(Z) /\ KeepsDecided(Store, Z)
    BY <1>1, SameStore
<1>3. Len(rows) <= Len(rows') /\ Len(rows) \in Nat /\ Len(rows') \in Nat
    BY StoreIs DEF KeepsDecided, ProposalsInv, RowsInOrder
<1>4. DecidesRows'
    BY <1>3 DEF ProposalsInv, DecidesRows
<1>5. \A q : Forgets(Q, q) => Forgets(Z, q)
    BY <1>1 DEF Forgets
<1> QED BY <1>2, <1>4, <1>5 DEF ProposalsInv

LEMMA SubmitWritesRows ==
    ASSUME ProposalsInv, SubmitWrites
    PROVE  /\ ProposalsInv' /\ KeepsDecided(Store, Store')
           /\ \A q : Forgets(Store, q) /\ (sub.new # None => ~About(sub.new, q)) => Forgets(Store', q)
<1> PICK P : P = IF sub.new = None THEN Store ELSE Proposed(Store, sub.found, sub.new)
    OBVIOUS
<1>1. sub # None /\ sub' = None /\ rows' = P.rows /\ order' = P.order /\ deciding' = deciding
    BY DEF SubmitWrites
<1>2. /\ RowsInOrder(P) /\ InWindows(P) /\ KeepsDecided(Store, P)
      /\ \A q : Forgets(Store, q) /\ (sub.new # None => ~About(sub.new, q)) => Forgets(P, q)
    <2>1. CASE sub.new = None
        BY <2>1 DEF ProposalsInv, KeepsDecided, RowsInOrder
    <2>2. CASE sub.new # None
        <3> PICK new, found : new = sub.new /\ found = sub.found
            OBVIOUS
        <3>1. new \in Row /\ new.status = "pending" /\ FoundFor(Store, found, new) /\ P = Proposed(Store, found, new)
            BY <1>1, <2>2 DEF ProposalsInv, SubPlaces
        <3> QED BY <3>1, ProposedOk DEF ProposalsInv
    <2> QED BY <2>1, <2>2
<1>3. SubPlaces'
    BY <1>1 DEF SubPlaces
<1> QED BY <1>1, <1>2, <1>3, StoreReplaced

LEMMA RejectRows ==
    ASSUME ProposalsInv, NEW d \in deciding, Reject(d), deciding' \subseteq deciding, sub' = sub
    PROVE  /\ ProposalsInv' /\ KeepsDecided(Store, Store')
           /\ \A q : Forgets(Store, q) /\ q # None => Forgets(Store', q)
<1>a. PICK r, status, result : r = d.row /\ status = "rejected" /\ result = None
    OBVIOUS
<1>b. PICK Q : Q = Settled(Store, r, status, result)
    OBVIOUS
<1>1. Q # None /\ rows' = Q.rows /\ order' = Q.order
    BY <1>a, <1>b DEF Reject
<1>2. /\ RowsInOrder(Q) /\ InWindows(Q) /\ KeepsDecided(Store, Q) /\ Closes(Store, Q, {r}) /\ OpenRows(Q) = OpenRows(Store) \ {r}
      /\ \A q : Forgets(Store, q) /\ q # None => Forgets(Q, q)
    <2>0. r \in 1 .. Len(Store.rows) /\ status \in {"approved", "rejected"} /\ result \in Person \cup {None}
        BY <1>a, StoreIs DEF ProposalsInv, DecidesRows
    <2>1. /\ RowsInOrder(Q) /\ InWindows(Q) /\ KeepsDecided(Store, Q) /\ Closes(Store, Q, {r})
          /\ \A q : Forgets(Store, q) /\ q # None => Forgets(Q, q)
        BY <1>1, <1>a, <1>b, <2>0, SettledOk DEF ProposalsInv
    <2> QED BY <2>1, ClosedOk DEF ProposalsInv, RowsInOrder
<1>3. ASSUME NEW found, NEW new, FoundFor(Store, found, new)
      PROVE  FoundFor(Store', found, new)
    <2>1. OpenRows(Store) \subseteq 1 .. Len(Store.rows)
        BY DEF OpenRows
    <2>2. FoundFor(Q, found, new)
        BY <1>2, <1>3, <2>1 DEF FoundFor, Closes
    <2>3. Store'.rows = Q.rows /\ Store'.order = Q.order
        BY <1>1 DEF Store
    <2> QED BY <2>2, <2>3, SameStore
<1>4. SubPlaces'
    BY <1>3 DEF ProposalsInv, SubPlaces
<1> QED BY <1>1, <1>2, <1>4, StoreReplaced

LEMMA ApproveAmendmentRows ==
    ASSUME ProposalsInv, NEW d \in deciding, ApproveAmendment(d), deciding' \subseteq deciding, sub' = sub
    PROVE  /\ ProposalsInv' /\ KeepsDecided(Store, Store')
           /\ Open(Store, d.row)
           /\ \A q : Forgets(Store, q) /\ q # rows[d.row].on => Forgets(Store', q)
<1>a. PICK r, status, p : r = d.row /\ status = "approved" /\ p = rows[r].on
    OBVIOUS
<1>b. PICK Q : Q = Settled(Store, r, status, p)
    OBVIOUS
<1>1. Q # None /\ rows' = Q.rows /\ order' = Q.order /\ sub = None /\ p # None
    BY <1>a, <1>b DEF ApproveAmendment
<1>2. r \in 1 .. Len(Store.rows) /\ status \in {"approved", "rejected"}
    BY <1>a, StoreIs DEF ProposalsInv, DecidesRows
<1>3. p \in Person \cup {None}
    <2> PICK row : row = rows[r]
        OBVIOUS
    <2>1. row \in Row
        BY <1>2, StoreIs DEF ProposalsInv, RowsInOrder
    <2> QED BY <1>a, <2>1 DEF Row, Statuses
<1>4. /\ RowsInOrder(Q) /\ InWindows(Q) /\ KeepsDecided(Store, Q)
      /\ \A q : Forgets(Store, q) /\ q # p => Forgets(Q, q)
    BY <1>1, <1>2, <1>3, <1>b, SettledOk DEF ProposalsInv
<1>5. SubPlaces'
    BY <1>1 DEF SubPlaces
<1>6. Open(Store, r)
    BY <1>1, <1>b DEF Settled
<1> QED BY <1>1, <1>4, <1>5, <1>6, <1>a, StoreReplaced

LEMMA ApproveMatchRows ==
    ASSUME ProposalsInv, NEW d \in deciding, ApproveMatch(d), deciding' \subseteq deciding, sub' = sub
    PROVE  /\ ProposalsInv' /\ KeepsDecided(Store, Store')
           /\ \A q : Forgets(Store, q) /\ q # None /\ q # (IF d.with = None THEN Least(Fresh) ELSE d.with) => Forgets(Store', q)
<1>a. PICK r, status : r = d.row /\ status = "approved"
    OBVIOUS
<1>b. PICK s : s = [rows[r].sub EXCEPT !.act = None]
    OBVIOUS
<1>c. PICK p, name : p = (IF d.with = None THEN Least(Fresh) ELSE d.with) /\ name = s.name
    OBVIOUS
<1>d. PICK am : am = Amendment(p, name)
    OBVIOUS
<1>e. PICK found : found = FindOpen(Store, am)
    OBVIOUS
<1>f. PICK P : P = IF d.with # None /\ Amends(p, s) THEN Proposed(Store, found, am) ELSE Store
    OBVIOUS
<1>g. PICK Q : Q = Settled(P, r, status, p)
    OBVIOUS
<1>1. /\ rows[r].on = None /\ sub = None /\ Q # None /\ rows' = Q.rows /\ order' = Q.order
      /\ d.with = None => Fresh # {}
    BY <1>a, <1>b, <1>c, <1>d, <1>e, <1>f, <1>g DEF ApproveMatch
<1>2. r \in 1 .. Len(Store.rows) /\ status \in {"approved", "rejected"} /\ d.with \in Person \cup {None}
    BY <1>a, StoreIs DEF ProposalsInv, DecidesRows
<1>3. s \in Forms /\ s.act = None /\ name \in Names
    <2> PICK row, old : row = rows[r] /\ old = row.sub
        OBVIOUS
    <2>1. row \in Row /\ row.on = None
        BY <1>1, <1>2, StoreIs DEF ProposalsInv, RowsInOrder
    <2>2. old \in Forms
        BY <2>1, IntakeAssumption DEF Row, IntakeAssumption
    <2>3. [old EXCEPT !.act = None] \in Forms /\ [old EXCEPT !.act = None].act = None
        BY <2>2 DEF Forms
    <2> QED BY <1>b, <1>c, <2>3 DEF Forms
<1>4. p \in Person
    <2>1. CASE d.with = None
        <3>1. Fresh # {} /\ Fresh \subseteq Nat
            BY <1>1, <2>1, IntakeAssumption, PeopleArePersons DEF IntakeAssumption
        <3>2. PICK q \in Fresh : \A t \in Fresh : q <= t
            BY <3>1, SmallestNumber
        <3>3. Least(Fresh) \in Fresh
            BY <3>2 DEF Least
        <3> QED BY <1>c, <2>1, <3>3, PeopleArePersons
    <2> QED BY <1>2, <1>c, <2>1
<1>5. /\ RowsInOrder(P) /\ InWindows(P) /\ KeepsDecided(Store, P)
      /\ \A q : Forgets(Store, q) /\ q \notin {p, None} => Forgets(P, q)
    <2>1. CASE P = Store
        BY <2>1 DEF ProposalsInv, KeepsDecided, RowsInOrder
    <2>2. CASE P = Proposed(Store, found, am)
        <3>1. am \in Row /\ am.status = "pending" /\ \A q : About(am, q) => q \in {p, None}
            BY <1>3, <1>4, <1>d, AmendmentIsRow
        <3>2. FoundFor(Store, found, am)
            BY <1>e, <3>1, FindOpenFinds DEF ProposalsInv
        <3> QED BY <2>2, <3>1, <3>2, ProposedOk DEF ProposalsInv
    <2> QED BY <1>f, <2>1, <2>2
<1>6. r \in 1 .. Len(P.rows)
    BY <1>2, <1>5 DEF KeepsDecided, ProposalsInv, RowsInOrder
<1>7. RowsInOrder(Q) /\ InWindows(Q) /\ KeepsDecided(P, Q) /\ \A q : Forgets(P, q) /\ q # p => Forgets(Q, q)
    BY <1>1, <1>2, <1>4, <1>5, <1>6, <1>g, SettledOk
<1>8. KeepsDecided(Store, Q)
    BY <1>5, <1>7, KeptTwice DEF ProposalsInv, RowsInOrder
<1>9. SubPlaces'
    BY <1>1 DEF SubPlaces
<1>10. ProposalsInv' /\ KeepsDecided(Store, Store') /\ \A q : Forgets(Q, q) => Forgets(Store', q)
    BY <1>1, <1>7, <1>8, <1>9, StoreReplaced
<1> QED BY <1>5, <1>7, <1>10, <1>c

\* What has been decided about a person goes with them.
LEMMA EraseRows ==
    ASSUME ProposalsInv, NEW p \in Person, NEW suppress \in BOOLEAN, Erase(p, suppress)
    PROVE  /\ ProposalsInv'
           /\ Len(rows') = Len(rows)
           /\ \A r \in 1 .. Len(rows) : rows'[r] = IF HoldsValuesOf(r, p) THEN [rows[r] EXCEPT !.status = "gone"] ELSE rows[r]
<1> PICK gone : gone = {r \in 1 .. Len(rows) : HoldsValuesOf(r, p)}
    OBVIOUS
<1> PICK n : n = Len(rows)
    OBVIOUS
<1>1. /\ rows' = [r \in 1 .. n |-> IF r \in gone THEN [rows[r] EXCEPT !.status = "gone"] ELSE rows[r]]
      /\ order' = Without(order, gone) /\ sub = None /\ sub' = None /\ deciding' = deciding
    BY DEF Erase, Edit
<1>2. rows \in Seq(Row) /\ n \in Nat /\ \A r \in 1 .. n : rows[r] \in Row
    BY StoreIs DEF ProposalsInv, RowsInOrder
<1>3. ASSUME NEW r \in 1 .. n
      PROVE  /\ rows'[r] \in Row /\ rows'[r].queue = rows[r].queue /\ rows'[r].value = rows[r].value
             /\ IF r \in gone THEN rows'[r].status = "gone" ELSE rows'[r] = rows[r]
    <2>a. PICK old, x : old = rows[r] /\ x = [old EXCEPT !.status = "gone"]
        OBVIOUS
    <2>1. old \in Row
        BY <1>2, <2>a
    <2>2. x \in Row /\ x.queue = old.queue /\ x.value = old.value /\ x.status = "gone"
        BY <2>1, <2>a DEF Row, Statuses
    <2>3. rows'[r] = IF r \in gone THEN x ELSE old
        BY <1>1, <2>a
    <2> QED BY <2>1, <2>2, <2>3, <2>a
<1>4. rows' \in Seq(Row) /\ Len(rows') = n
    <2> PICK seq : seq = rows'
        OBVIOUS
    <2>1. seq \in [1 .. n -> Row]
        BY <1>1, <1>3
    <2>2. seq \in Seq(Row) /\ Len(seq) = n
        BY <1>2, <2>1
    <2> QED BY <2>2
<1> PICK Q : Q = Store'
    OBVIOUS
<1>5. Q.rows = rows' /\ Q.order = order' /\ Store.rows = rows /\ Store.order = order
    BY DEF Store
<1>6. Closes(Store, Q, gone)
    <2>1. \A r \in 1 .. n : r \in gone => ~Open(Q, r)
        BY <1>3, <1>5 DEF Open
    <2> QED BY <1>1, <1>3, <1>4, <1>5, <2>1 DEF Closes
<1>7. RowsInOrder(Q) /\ InWindows(Q)
    BY <1>4, <1>5, <1>6, ClosedOk DEF ProposalsInv
<1>8. SubPlaces' /\ DecidesRows'
    BY <1>1, <1>4 DEF SubPlaces, ProposalsInv, DecidesRows
<1> QED BY <1>1, <1>4, <1>7, <1>8 DEF ProposalsInv

LEMMA DecideReadsRows ==
    ASSUME ProposalsInv, NEW r \in 1 .. Len(rows), DecideReads(r)
    PROVE  ProposalsInv' /\ KeepsDecided(Store, Store')
<1>1. UNCHANGED <<rows, order, sub>>
    BY DEF DecideReads
<1>2. PICK yes \in BOOLEAN, with \in IF rows[r].on = None THEN LivePeople \cup {None} ELSE {rows[r].on} :
          deciding' = deciding \cup
               {[row |-> r, yes |-> yes, with |-> IF yes THEN with ELSE None,
                 saw |-> IF rows[r].on = None THEN None ELSE people[rows[r].on]]}
    BY DEF DecideReads
<1>3. with \in Person \cup {None}
    <2> PICK row : row = rows[r]
        OBVIOUS
    <2>1. row \in Row
        BY StoreIs DEF ProposalsInv, RowsInOrder
    <2> QED BY <1>2, <2>1, PeopleArePersons DEF Row
<1>4. DecidesRows'
    BY <1>1, <1>2, <1>3 DEF ProposalsInv, DecidesRows
<1>5. SubPlaces'
    BY <1>1, SubStays DEF ProposalsInv
<1> QED BY <1>1, <1>4, <1>5, ProposalsStay

\* Any step is one that keeps what was decided, or the erasure of a person.
LEMMA ProposalsStep ==
    ASSUME ProposalsInv, [IntakeNext]_intakeVars
    PROVE  /\ ProposalsInv'
           /\ \/ KeepsDecided(Store, Store')
              \/ \E p \in Person, suppress \in BOOLEAN : Erase(p, suppress)
<1>1. ASSUME UNCHANGED <<rows, order>>, deciding' \subseteq deciding,
             sub' \in {sub, None}
      PROVE  ProposalsInv' /\ KeepsDecided(Store, Store')
    <2>1. SubPlaces' /\ DecidesRows'
        BY <1>1, SubStays DEF ProposalsInv, DecidesRows
    <2> QED BY <1>1, <2>1, ProposalsStay
<1>2. CASE UNCHANGED intakeVars
    BY <1>1, <1>2 DEF intakeVars
<1>3. CASE Submits
    <2>1. CASE SubmitFails
        BY <1>1, <2>1 DEF SubmitFails
    <2> QED BY <1>3, <2>1, SubmitFindsRows, SubmitWritesRows DEF Submits
<1>4. ASSUME NEW act \in Acts, NEW create \in BOOLEAN, ConsentReads(act, create) PROVE ProposalsInv' /\ KeepsDecided(Store, Store')
    BY <1>1, <1>4 DEF ConsentReads
<1>5. ASSUME NEW c \in acting, ConsentFinishes(c) \/ ConsentFails(c) PROVE ProposalsInv' /\ KeepsDecided(Store, Store')
    BY <1>1, <1>5 DEF ConsentFinishes, ConsentFails
<1>6. ASSUME NEW r \in 1 .. Len(rows), DecideReads(r) PROVE ProposalsInv' /\ KeepsDecided(Store, Store')
    BY <1>6, DecideReadsRows
<1>7. ASSUME NEW d \in deciding, Decide(d) \/ DecideFails(d) PROVE ProposalsInv' /\ KeepsDecided(Store, Store')
    <2>1. CASE DecideFails(d)
        BY <1>1, <2>1 DEF DecideFails
    <2>2. CASE Decide(d)
        <3>1. deciding' \subseteq deciding /\ sub' = sub
            BY <2>2 DEF Decide
        <3> QED BY <2>2, <3>1, RejectRows, ApproveAmendmentRows, ApproveMatchRows DEF Decide
    <2> QED BY <1>7, <2>1, <2>2
<1>8. ASSUME NEW p \in Person, NEW v \in Contact, UpdateValues(p, v) \/ ReplaceOthers(p, v) \/ RestoreValue(p, v)
      PROVE  ProposalsInv' /\ KeepsDecided(Store, Store')
    BY <1>1, <1>8 DEF UpdateValues, ReplaceOthers, RestoreValue, Edit, SetValues
<1>9. ASSUME NEW p \in Person, NEW q \in Person, Merge(p, q) PROVE ProposalsInv' /\ KeepsDecided(Store, Store')
    BY <1>1, <1>9 DEF Merge, Edit
<1>10. ASSUME NEW p \in Person, NEW suppress \in BOOLEAN, Erase(p, suppress) PROVE ProposalsInv'
    BY <1>10, EraseRows
<1>11. ASSUME NEW e \in Email, Suppressions(e) \/ Expires(e) PROVE ProposalsInv' /\ KeepsDecided(Store, Store')
    BY <1>1, <1>11 DEF Suppressions, Expires
<1> QED BY <1>2, <1>3, <1>4, <1>5, <1>6, <1>7, <1>8, <1>9, <1>10, <1>11 DEF IntakeNext

LEMMA ProposalsInit == IntakeInit => ProposalsInv
<1> SUFFICES ASSUME IntakeInit PROVE ProposalsInv
    OBVIOUS
<1> PICK P : P = Store
    OBVIOUS
<1>1. P.rows = <<>> /\ P.order = {} /\ Len(P.rows) = 0 /\ P.rows \in Seq(Row)
    BY DEF Store, IntakeInit
<1>2. OpenRows(P) = {}
    BY <1>1 DEF OpenRows
<1>3. RowsInOrder(P)
    BY <1>1, <1>2 DEF RowsInOrder, InLine
<1>4. InWindows(P)
    <2>1. PendingOf(P, 1 .. Len(P.rows)) = {}
        BY <1>1 DEF PendingOf
    <2>2. Cardinality(PendingOf(P, 1 .. Len(P.rows))) = 0
        BY <2>1, FS_EmptySet
    <2>3. PerTeam \in Nat /\ 1 .. Len(P.rows) = {}
        BY <1>1, IntakeAssumption DEF IntakeAssumption
    <2> QED BY <2>2, <2>3 DEF InWindows
<1> QED BY <1>3, <1>4 DEF ProposalsInv, SubPlaces, DecidesRows, IntakeInit

LEMMA ProposalsAreBounded == ProposalsInv => OpenRowsBounded
<1> SUFFICES ASSUME ProposalsInv PROVE OpenRowsBounded
    OBVIOUS
<1> PICK P : P = Store
    OBVIOUS
<1>1. P.rows = rows /\ RowsInOrder(P) /\ InWindows(P)
    BY StoreIs DEF ProposalsInv
<1>2. Pending = PendingOf(P, 1 .. Len(P.rows))
    BY <1>1 DEF Pending, PendingOf
<1>3. ASSUME NEW r \in Pending PROVE Cardinality({q \in Pending : rows[q].queue = rows[r].queue}) <= PerQueue
    <2>1. {q \in Pending : rows[q].queue = rows[r].queue} = PendingOf(P, SameQueue(P, r))
        BY <1>1 DEF Pending, PendingOf, SameQueue, Queued
    <2>2. r \in 1 .. Len(P.rows)
        BY <1>1 DEF Pending
    <2> QED BY <1>1, <2>1, <2>2 DEF InWindows
<1>4. \A r, q \in 1 .. Len(rows) :
         Open(P, r) /\ Open(P, q) /\ rows[r].queue = rows[q].queue /\ rows[r].value = rows[q].value => r = q
    BY <1>1 DEF RowsInOrder, OpenRows
<1> QED BY <1>1, <1>2, <1>3, <1>4 DEF InWindows, OpenRowsBounded

\* For any windows, submissions and decisions at a time: identical submissions share one open row,
\* and no queue and no team holds more pending rows than its window (proposal-store.ts).
THEOREM OpenRowsStayBounded == IntakeSpec => []OpenRowsBounded
BY ProposalsInit, ProposalsStep, ProposalsAreBounded, PTL DEF IntakeSpec

\* What a person decided is reopened by no later submission, decision or window (settle,
\* proposal-decide.ts): only the erasure of the person takes it away.
THEOREM DecisionsStayFinal == IntakeSpec => DecisionIsFinal
<1>1. ASSUME ProposalsInv, [IntakeNext]_intakeVars, NEW r \in 1 .. Len(rows), rows[r].status \in {"approved", "rejected"}
      PROVE  rows'[r] = rows[r] \/ rows'[r] = [rows[r] EXCEPT !.status = "gone"]
    <2>1. CASE KeepsDecided(Store, Store')
        <3>1. ~Open(Store, r) /\ Store'.rows = rows' /\ Store.rows = rows
            BY <1>1, StoreIs DEF Open, Store
        <3> QED BY <2>1, <3>1 DEF KeepsDecided
    <2>2. CASE \E p \in Person, suppress \in BOOLEAN : Erase(p, suppress)
        BY <1>1, <2>2, EraseRows
    <2> QED BY <1>1, <2>1, <2>2, ProposalsStep
<1>2. ProposalsInv /\ [IntakeNext]_intakeVars =>
        [\A r \in 1 .. Len(rows) : rows[r].status \in {"approved", "rejected"} =>
            rows'[r] = rows[r] \/ rows'[r] = [rows[r] EXCEPT !.status = "gone"]]_intakeVars
    BY <1>1
<1> QED BY <1>2, ProposalsInit, ProposalsStep, PTL DEF IntakeSpec, DecisionIsFinal

-----------------------------------------------------------------------------
(* Intake: people, keys and consent *)

ActingState == [act : ConsentActs, create : BOOLEAN, on : Person \cup {None}, writes : BOOLEAN]

Reasons == {None, "opt_out", "hold", "complaint", "erasure"}


PeopleTyped == /\ people \in [Person -> PersonState]
               /\ points \in [Person -> [Contact -> {None, "held", "archived"}]]
               /\ entries \in [Email -> [Channel -> Reasons]]
               /\ acting \subseteq ActingState
               /\ waived \subseteq Email

\* The email a person acted by is one they hold; a time belongs to a state.
ActedBy == \A p \in Person : /\ people[p].via \in people[p].vals \cup {None}
                             /\ people[p].state = None => people[p].at = None

\* Unique keys.
OneHolder == \A e \in Email, p, q \in Person : p \in HoldersOf(e) /\ q \in HoldersOf(e) => p = q

\* What a consent call has read, as long as it holds the lock of its email.
ReadHolds(c) ==
    /\ \A d \in acting : d.act.email = c.act.email => d = c
    /\ c.on # None => /\ HoldersOf(c.act.email) \subseteq {c.on}
                      /\ c.on \in HoldersOf(c.act.email) => c.writes = ConsentWrites(c.act, people[c.on])
    /\ c.on = None => ~c.writes
ReadsHold == \A c \in acting : ReadHolds(c)

\* A refusal is an opt-out or the permanent entry that was there.
Refused(e) == entries[e]["email"] \notin {None, "hold"}
RefusalsEntered == \A p \in LivePeople, e \in Email \ waived :
    people[p].state = "declined" /\ people[p].via = e => Refused(e)

\* There is an identity for the person a submission creates.
RoomForOne == sub # None => sub.s \in Submissions /\ (Candidates(sub.s) = {} => Fresh # {})

PeopleInv == PeopleTyped /\ ActedBy /\ OneHolder /\ ReadsHold /\ RefusalsEntered /\ RoomForOne

-----------------------------------------------------------------------------
LEMMA ValuesAreContacts ==
    ASSUME PeopleTyped, NEW s \in Forms
    PROVE  /\ Identifiers(s) \subseteq Contact /\ s.email \in Identifiers(s) /\ s.email \in Email
           /\ None \notin Contact
           /\ \A v : HoldersOf(v) \subseteq LivePeople
           /\ LivePeople \subseteq Person /\ \A p \in LivePeople : people[p].vals \subseteq Contact
BY IntakeAssumption DEF IntakeAssumption, PeopleTyped, PersonState, Forms, Identifiers, Contact, HoldersOf, LivePeople

LEMMA ConsentOfPerson ==
    ASSUME NEW person \in PersonState, NEW act \in ConsentActs
    PROVE  LET x == WithConsent(person, act) IN
           /\ x \in PersonState
           /\ x.status = person.status /\ x.into = person.into /\ x.vals = person.vals /\ x.name = person.name
           /\ x.state = act.state /\ x.at = act.at /\ x.state # None
           /\ x.via = IF act.email \in person.vals THEN act.email ELSE None
<1> PICK x : x = WithConsent(person, act)
    OBVIOUS
<1>1. act.state \in ConsentStates /\ act.at \in Nat /\ act.email \in Email /\ act.state # None
    BY IntakeAssumption DEF ConsentActs, IntakeAssumption
<1> PICK via : via = StillVia(act.email, person.vals)
    OBVIOUS
<1>2. via \in Email \cup {None} /\ via = IF act.email \in person.vals THEN act.email ELSE None
    BY <1>1 DEF StillVia
<1>3. x = [person EXCEPT !.state = act.state, !.at = act.at, !.via = via]
    BY DEF WithConsent
<1> QED BY <1>1, <1>2, <1>3 DEF PersonState

LEMMA PersonOfForm ==
    ASSUME PeopleTyped, NEW s \in Forms, s.act # None => s.act.email = s.email
    PROVE  LET x == NewPerson(s) IN
           /\ x \in PersonState
           /\ x.status = "live" /\ x.into = None /\ x.vals = Identifiers(s) /\ x.state # None
           /\ IF s.act = None THEN x.via = None ELSE x.state = s.act.state /\ x.via = s.email
<1> PICK y : y = [NoPerson EXCEPT !.status = "live", !.vals = Identifiers(s), !.name = s.name]
    OBVIOUS
<1>1. y \in PersonState /\ y.status = "live" /\ y.into = None /\ y.vals = Identifiers(s) /\ y.via = None
      /\ y.at = None
    <2>1. NoPerson \in PersonState
        <3>1. None \in Names
            BY DEF Names
        <3> QED BY <3>1 DEF NoPerson, PersonState
    <2>2. Identifiers(s) \subseteq Contact /\ s.name \in Names
        BY ValuesAreContacts DEF Forms
    <2> QED BY <2>1, <2>2 DEF NoPerson, PersonState
<1>2. CASE s.act = None
    <2>1. NewPerson(s) = [y EXCEPT !.state = "not_confirmed"]
        BY <1>2 DEF NewPerson
    <2> PICK x : x = [y EXCEPT !.state = "not_confirmed"]
        OBVIOUS
    <2>2. /\ x \in PersonState /\ x.state = "not_confirmed" /\ x.status = y.status /\ x.into = y.into
          /\ x.vals = y.vals /\ x.via = y.via
        BY <1>1 DEF PersonState, ConsentStates
    <2>3. "not_confirmed" # None
        BY IntakeAssumption DEF IntakeAssumption, ConsentStates
    <2> QED BY <1>1, <1>2, <2>1, <2>2, <2>3
<1>3. CASE s.act # None
    <2> PICK act : act = s.act
        OBVIOUS
    <2>1. NewPerson(s) = WithConsent(y, act) /\ act \in ConsentActs /\ act.email \in y.vals /\ act.email = s.email
        BY <1>1, <1>3, ValuesAreContacts DEF NewPerson, Forms
    <2> PICK x : x = WithConsent(y, act)
        OBVIOUS
    <2>2. /\ x \in PersonState /\ x.status = y.status /\ x.into = y.into /\ x.vals = y.vals
          /\ x.state = act.state /\ x.state # None /\ x.via = act.email
        BY <1>1, <2>1, ConsentOfPerson
    <2> QED BY <1>1, <1>3, <2>1, <2>2
<1> QED BY <1>2, <1>3

Writes(p, s) == s.act # None /\ p \in HoldersOf(s.email) /\ ConsentWrites(s.act, people[p])

LEMMA PairOfForm ==
    ASSUME PeopleTyped, NEW s \in Forms, s.act # None => s.act.email = s.email, NEW p \in Person
    PROVE  LET x == Paired(p, s) IN
           /\ x \in PersonState
           /\ x.status = people[p].status /\ x.into = people[p].into /\ x.vals = Filled(p, s)
           /\ people[p].vals \subseteq x.vals
           /\ IF Writes(p, s) THEN x.state = s.act.state /\ x.at = s.act.at /\ x.via = s.email /\ x.state # None
              ELSE x.state = people[p].state /\ x.at = people[p].at /\ x.via = people[p].via
<1> PICK old, vals, name : old = people[p] /\ vals = Filled(p, s) /\ name = (IF old.name = None THEN s.name ELSE old.name)
    OBVIOUS
<1>0. PICK y : y = [old EXCEPT !.vals = vals, !.name = name]
    OBVIOUS
<1>1. old \in PersonState /\ vals \subseteq Contact /\ name \in Names /\ old.vals \subseteq vals
    BY ValuesAreContacts DEF PeopleTyped, Filled, PersonState, Forms
<1>2. y \in PersonState /\ y.vals = vals /\ y.status = old.status /\ y.into = old.into /\ y.state = old.state
      /\ y.at = old.at /\ y.via = old.via
    BY <1>0, <1>1 DEF PersonState
<1>3. Paired(p, s) = IF Writes(p, s) THEN WithConsent(y, s.act) ELSE y
    <2>1. [people[p] EXCEPT !.vals = Filled(p, s), !.name = IF @ = None THEN s.name ELSE @] = y
        BY <1>0, <1>1 DEF PersonState
    <2> QED BY <2>1 DEF Paired, Writes
<1>4. CASE ~Writes(p, s)
    BY <1>1, <1>2, <1>3, <1>4
<1>5. CASE Writes(p, s)
    <2> PICK act : act = s.act
        OBVIOUS
    <2>1. act \in ConsentActs /\ act.email = s.email /\ s.email \in y.vals
        BY <1>1, <1>2, <1>5 DEF Writes, Forms, HoldersOf
    <2> PICK x : x = WithConsent(y, act)
        OBVIOUS
    <2>2. /\ x \in PersonState /\ x.status = y.status /\ x.into = y.into /\ x.vals = y.vals
          /\ x.state = act.state /\ x.at = act.at /\ x.state # None /\ x.via = act.email
        BY <1>2, <2>1, ConsentOfPerson
    <2> QED BY <1>1, <1>2, <1>3, <1>5, <2>1, <2>2
<1> QED BY <1>4, <1>5

\* What a step does to one person, as far as keys and consent go.
SameFor(q) == /\ people'[q].vals = people[q].vals /\ people'[q].state = people[q].state
              /\ people'[q].at = people[q].at /\ people'[q].via = people[q].via
              /\ people'[q].status = people[q].status \/ people'[q].status # "live"

\* The keys of a person who is written are theirs alone, and no consent call holds them.
WellWritten(p) ==
    /\ people'[p].via \in people'[p].vals \cup {None}
    /\ people'[p].state = None => people'[p].at = None
    /\ people'[p].status = "live" =>
         /\ \A c \in acting' : c.act.email \notin people'[p].vals
         /\ \A e \in people'[p].vals \cap Email : \A q \in HoldersOf(e) : q = p \/ people'[q].status # "live"

LEMMA OneIsWritten ==
    ASSUME PeopleTyped, ActedBy, OneHolder, ReadsHold, acting' \subseteq acting,
           NEW p \in Person, WellWritten(p), \A q \in Person \ {p} : SameFor(q)
    PROVE  ActedBy' /\ OneHolder' /\ ReadsHold'
<1>1. ASSUME NEW q \in Person, q # p, NEW v, q \in HoldersOf(v)'
      PROVE  q \in HoldersOf(v)
    BY <1>1 DEF HoldersOf, LivePeople, SameFor
<1>2. ActedBy'
    BY DEF ActedBy, SameFor, WellWritten
<1>3. OneHolder'
    <2>1. ASSUME NEW e \in Email, NEW q \in Person, q # p, p \in HoldersOf(e)', q \in HoldersOf(e)' PROVE FALSE
        BY <1>1, <2>1 DEF WellWritten, HoldersOf, LivePeople
    <2> QED BY <1>1, <2>1 DEF OneHolder
<1>4. ASSUME NEW c \in acting' PROVE ReadHolds(c)'
    <2>1. ReadHolds(c) /\ c \in ActingState /\ c.on \in Person \cup {None} /\ p \notin HoldersOf(c.act.email)'
        BY <1>4 DEF ReadsHold, PeopleTyped, ActingState, WellWritten, HoldersOf, LivePeople
    <2>2. HoldersOf(c.act.email)' \subseteq HoldersOf(c.act.email)
        BY <1>1, <2>1 DEF HoldersOf, LivePeople
    <2>3. c.on # None /\ c.on \in HoldersOf(c.act.email)' => c.writes = ConsentWrites(c.act, people'[c.on])
        BY <2>1, <2>2 DEF ReadHolds, SameFor, ConsentWrites, Supersedes, UnverifiedOverDeclined
    <2> QED BY <2>1, <2>2, <2>3 DEF ReadHolds
<1> QED BY <1>2, <1>3, <1>4 DEF ReadsHold

LEMMA NobodyIsWritten ==
    ASSUME PeopleTyped, ActedBy, OneHolder, ReadsHold, acting' \subseteq acting, people' = people
    PROVE  ActedBy' /\ OneHolder' /\ ReadsHold'
<1>1. \A v : HoldersOf(v)' = HoldersOf(v)
    BY DEF HoldersOf, LivePeople
<1>2. ASSUME NEW c \in acting' PROVE ReadHolds(c)'
    <2>1. ReadHolds(c)
        BY <1>2 DEF ReadsHold
    <2> QED BY <1>1, <2>1 DEF ReadHolds
<1> QED BY <1>1, <1>2 DEF ActedBy, OneHolder, ReadsHold

\* While a submission holds the topology lock the people and their contact points stay.
LEMMA RoomStays ==
    ASSUME RoomForOne, sub' \in {sub, None}, sub' # None => people' = people /\ points' = points
    PROVE  RoomForOne'
<1> SUFFICES ASSUME sub' # None PROVE RoomForOne'
    BY DEF RoomForOne
<1>1. sub' = sub /\ people' = people /\ points' = points /\ sub # None
    OBVIOUS
<1>2. Candidates(sub.s)' = Candidates(sub.s) /\ Fresh' = Fresh
    BY <1>1 DEF Candidates, Active, ArchivedHolders, MergedInto, HoldersOf, LivePeople, Fresh
<1> QED BY <1>1, <1>2 DEF RoomForOne

LEMMA RefusalsStay ==
    ASSUME PeopleTyped, RefusalsEntered, PeopleTyped', entries' = entries, waived \subseteq waived',
           \A q \in LivePeople' : people'[q].state = "declined" /\ people'[q].via # None =>
              \E p \in LivePeople : people[p].state = "declined" /\ people[p].via = people'[q].via
    PROVE  RefusalsEntered'
<1> SUFFICES ASSUME NEW q \in LivePeople', NEW e \in Email \ waived', people'[q].state = "declined", people'[q].via = e
             PROVE  Refused(e)'
    BY DEF RefusalsEntered
<1>1. e # None
    BY IntakeAssumption DEF IntakeAssumption, Contact
<1>2. PICK p \in LivePeople : people[p].state = "declined" /\ people[p].via = e
    BY <1>1
<1>3. Refused(e)
    BY <1>2 DEF RefusalsEntered
<1> QED BY <1>3 DEF Refused

LEMMA PeopleStay ==
    ASSUME PeopleInv, UNCHANGED <<people, points, entries, waived>>, acting' \subseteq acting, RoomForOne'
    PROVE  PeopleInv'
<1>1. PeopleTyped'
    BY DEF PeopleInv, PeopleTyped
<1>2. ActedBy' /\ OneHolder' /\ ReadsHold'
    BY NobodyIsWritten DEF PeopleInv
<1>3. RefusalsEntered'
    BY <1>1, RefusalsStay DEF PeopleInv, LivePeople
<1> QED BY <1>1, <1>2, <1>3 DEF PeopleInv

\* A person as one may be written: no call holds one of the keys, no other person has one, and no
\* refusal appears.
MayBecome(p, new) ==
    /\ new \in PersonState
    /\ new.via \in new.vals \cup {None}
    /\ new.state = None => new.at = None
    /\ new.status = "live" => /\ \A c \in acting : c.act.email \notin new.vals
                              /\ \A e \in new.vals \cap Email : HoldersOf(e) \subseteq {p}
                              /\ new.state = "declined" /\ new.via # None =>
                                   p \in LivePeople /\ people[p].state = "declined" /\ people[p].via = new.via

\* One person is written under the topology lock, and what is suppressed stays.
LEMMA PersonWritten ==
    ASSUME PeopleInv, NEW p \in Person, NEW new, MayBecome(p, new), people' = [people EXCEPT ![p] = new],
           points' \in [Person -> [Contact -> {None, "held", "archived"}]],
           UNCHANGED <<entries, acting, waived>>, sub = None, sub' = None
    PROVE  PeopleInv'
<1>1. people'[p] = new /\ (\A q \in Person \ {p} : people'[q] = people[q]) /\ people' \in [Person -> PersonState]
    BY DEF PeopleInv, PeopleTyped, MayBecome
<1>2. PeopleTyped'
    BY <1>1 DEF PeopleInv, PeopleTyped
<1>3. WellWritten(p) /\ \A q \in Person \ {p} : SameFor(q)
    BY <1>1 DEF WellWritten, SameFor, MayBecome
<1>4. ActedBy' /\ OneHolder' /\ ReadsHold'
    BY <1>2, <1>3, OneIsWritten DEF PeopleInv
<1>5. RefusalsEntered'
    <2>1. \A q \in LivePeople' : people'[q].state = "declined" /\ people'[q].via # None =>
              \E r \in LivePeople : people[r].state = "declined" /\ people[r].via = people'[q].via
        BY <1>1 DEF LivePeople, MayBecome
    <2> QED BY <1>2, <2>1, RefusalsStay DEF PeopleInv
<1> QED BY <1>2, <1>4, <1>5 DEF PeopleInv, RoomForOne

\* KeysFree, as those who hold the lock of a key see it.
LEMMA FreeKeys ==
    ASSUME PeopleTyped, NEW vals, KeysFree(vals, {}), NEW c \in acting
    PROVE  c.act.email \notin vals
BY DEF KeysFree, Busy, PeopleTyped, ActingState, ConsentActs

LEMMA SyncedPoints ==
    ASSUME PeopleTyped, NEW p \in Person, NEW before, NEW after
    PROVE  Synced(p, before, after) \in [Contact -> {None, "held", "archived"}]
BY DEF Synced, PeopleTyped

LEMMA ValuesSet ==
    ASSUME PeopleInv, NEW p \in LivePeople, NEW vals \in SUBSET Contact, SetValues(p, vals), Edit,
           NEW row \in [Contact -> {None, "held", "archived"}], points' = [points EXCEPT ![p] = row],
           \A e \in vals \cap Email : HoldersOf(e) \subseteq {p}
    PROVE  PeopleInv'
<1> PICK old, via : old = people[p] /\ via = StillVia(old.via, vals)
    OBVIOUS
<1> PICK new : new = [old EXCEPT !.vals = vals, !.via = via]
    OBVIOUS
<1>1. p \in Person /\ old \in PersonState /\ old.status = "live"
    BY DEF LivePeople, PeopleInv, PeopleTyped
<1>2. via \in Email \cup {None} /\ via \in {old.via, None} /\ via \in vals \cup {None}
    BY <1>1 DEF StillVia, PersonState
<1>3. /\ new \in PersonState /\ new.status = "live" /\ new.vals = vals /\ new.via = via
      /\ new.state = old.state /\ new.at = old.at
    BY <1>1, <1>2 DEF PersonState
<1>4. people' = [people EXCEPT ![p] = new]
    BY <1>1 DEF SetValues, PeopleInv, PeopleTyped, PersonState
<1>5. points' \in [Person -> [Contact -> {None, "held", "archived"}]]
    BY <1>1 DEF PeopleInv, PeopleTyped
<1>6. \A c \in acting : c.act.email \notin new.vals
    BY <1>3, FreeKeys DEF SetValues, PeopleInv
<1>7. old.state = None => old.at = None
    BY <1>1 DEF PeopleInv, ActedBy
<1>8. MayBecome(p, new)
    BY <1>1, <1>2, <1>3, <1>6, <1>7 DEF MayBecome
<1>9. UNCHANGED <<entries, acting, waived>> /\ sub = None /\ sub' = None
    BY DEF SetValues, Edit
<1> QED BY <1>1, <1>4, <1>5, <1>8, <1>9, PersonWritten

LEMMA HeldAlone ==
    ASSUME PeopleInv, NEW p \in LivePeople, NEW e \in people[p].vals \cap Email
    PROVE  HoldersOf(e) \subseteq {p}
BY DEF PeopleInv, OneHolder, HoldersOf, LivePeople

LEMMA UpdateValuesStep ==
    ASSUME PeopleInv, NEW p \in Person, NEW v \in Contact, UpdateValues(p, v) PROVE PeopleInv'
<1>01. PICK vals : vals = IF v \in people[p].vals THEN people[p].vals \ {v} ELSE people[p].vals \cup {v}
    OBVIOUS
<1>02. PICK row : row = Synced(p, people[p].vals, vals)
    OBVIOUS
<1>1. Edit /\ p \in LivePeople /\ Takes(p, v) /\ SetValues(p, vals) /\ points' = [points EXCEPT ![p] = row]
    BY <1>01, <1>02 DEF UpdateValues
<1>2. vals \subseteq Contact
    BY <1>01, <1>02 DEF PeopleInv, PeopleTyped, PersonState
<1>3. row \in [Contact -> {None, "held", "archived"}]
    BY <1>01, <1>02, SyncedPoints DEF PeopleInv
<1>4. \A e \in vals \cap Email : HoldersOf(e) \subseteq {p}
    BY <1>01, <1>02, <1>1, HeldAlone DEF Takes
<1> QED BY <1>1, <1>2, <1>3, <1>4, ValuesSet

LEMMA ReplaceOthersStep ==
    ASSUME PeopleInv, NEW p \in Person, NEW v \in Contact, ReplaceOthers(p, v) PROVE PeopleInv'
<1>03. PICK kind : kind = IF v \in Email THEN Email ELSE Phone
    OBVIOUS
<1>04. PICK others : others = (people[p].vals \cap kind) \ {v}
    OBVIOUS
<1>01. PICK vals : vals = people[p].vals \ others
    OBVIOUS
<1>02. PICK row : row = [w \in Contact |-> IF w \in others THEN "archived" ELSE points[p][w]]
    OBVIOUS
<1>1. Edit /\ p \in LivePeople /\ SetValues(p, vals) /\ points' = [points EXCEPT ![p] = row]
    BY <1>01, <1>02, <1>03, <1>04 DEF ReplaceOthers, PeopleInv, PeopleTyped
<1>2. vals \subseteq Contact
    BY <1>01, <1>02, <1>03, <1>04 DEF PeopleInv, PeopleTyped, PersonState
<1>3. row \in [Contact -> {None, "held", "archived"}]
    BY <1>01, <1>02, <1>03, <1>04 DEF PeopleInv, PeopleTyped
<1>4. \A e \in vals \cap Email : HoldersOf(e) \subseteq {p}
    BY <1>01, <1>02, <1>03, <1>04, <1>1, HeldAlone
<1> QED BY <1>1, <1>2, <1>3, <1>4, ValuesSet

LEMMA RestoreValueStep ==
    ASSUME PeopleInv, NEW p \in Person, NEW v \in Contact, RestoreValue(p, v) PROVE PeopleInv'
<1>01. PICK vals : vals = people[p].vals \cup {v}
    OBVIOUS
<1>02. PICK row : row = [points[p] EXCEPT ![v] = "held"]
    OBVIOUS
<1>1. Edit /\ p \in LivePeople /\ SetValues(p, vals) /\ points' = [points EXCEPT ![p] = row] /\ Takes(p, v)
    BY <1>01, <1>02 DEF RestoreValue, PeopleInv, PeopleTyped
<1>2. vals \subseteq Contact
    BY <1>01, <1>02 DEF PeopleInv, PeopleTyped, PersonState
<1>3. row \in [Contact -> {None, "held", "archived"}]
    BY <1>01, <1>02 DEF PeopleInv, PeopleTyped
<1>4. \A e \in vals \cap Email : HoldersOf(e) \subseteq {p}
    BY <1>01, <1>02, <1>1, HeldAlone DEF Takes
<1> QED BY <1>1, <1>2, <1>3, <1>4, ValuesSet

LEMMA EraseStep ==
    ASSUME PeopleInv, NEW p \in Person, NEW suppress \in BOOLEAN, Erase(p, suppress) PROVE PeopleInv'
<1> PICK gone : gone = Email \cap (people[p].vals \cup {v \in Contact : points[p][v] = "archived"})
    OBVIOUS
<1>1. /\ sub = None /\ sub' = None /\ UNCHANGED <<acting, waived>>
      /\ p \in LivePeople /\ entries' \in {SuppressContacts(entries, gone), entries}
      /\ people' = [people EXCEPT ![p] = [NoPerson EXCEPT !.status = "erased"]]
      /\ points' = [points EXCEPT ![p] = NoPoints]
    BY DEF Erase, Edit
<1> PICK new : new = [NoPerson EXCEPT !.status = "erased"]
    OBVIOUS
<1>2. new \in PersonState /\ new.status = "erased" /\ new.via = None /\ new.at = None
    <2>1. None \in Names
        BY DEF Names
    <2> QED BY <2>1 DEF NoPerson, PersonState
<1>3. \A q \in Person \ {p} : people'[q] = people[q]
    BY <1>1 DEF PeopleInv, PeopleTyped
<1>4. entries' \in [Email -> [Channel -> Reasons]] /\ \A e \in Email : entries'[e]["email"] = entries[e]["email"]
    <2>1. CASE entries' = entries
        BY <2>1 DEF PeopleInv, PeopleTyped
    <2>2. CASE entries' = SuppressContacts(entries, gone)
        <3>1. \A e \in Email : /\ [entries[e] EXCEPT !["all"] = "erasure"] \in [Channel -> Reasons]
                               /\ [entries[e] EXCEPT !["all"] = "erasure"]["email"] = entries[e]["email"]
            BY DEF PeopleInv, PeopleTyped, Channel, Reasons
        <3> QED BY <2>2, <3>1 DEF SuppressContacts, PeopleInv, PeopleTyped
    <2> QED BY <1>1, <2>1, <2>2
<1>5. PeopleTyped'
    <2>1. NoPoints \in [Contact -> {None, "held", "archived"}]
        BY DEF NoPoints
    <2> QED BY <1>1, <1>2, <1>4, <2>1 DEF PeopleInv, PeopleTyped
<1>6. WellWritten(p) /\ \A q \in Person \ {p} : SameFor(q)
    BY <1>1, <1>2, <1>3 DEF WellWritten, SameFor, PeopleInv, PeopleTyped
<1>7. ActedBy' /\ OneHolder' /\ ReadsHold'
    BY <1>1, <1>5, <1>6, OneIsWritten DEF PeopleInv
<1>8. RefusalsEntered'
    <2>1. \A q \in LivePeople' : q \in LivePeople /\ people'[q] = people[q]
        BY <1>1, <1>2, <1>3 DEF LivePeople, PeopleInv, PeopleTyped
    <2> QED BY <1>1, <1>4, <2>1 DEF RefusalsEntered, Refused, PeopleInv
<1> QED BY <1>1, <1>5, <1>7, <1>8 DEF PeopleInv, RoomForOne

LEMMA MergeStep ==
    ASSUME PeopleInv, NEW l \in Person, NEW s \in Person, Merge(l, s) PROVE PeopleInv'
<1> PICK kept, lost : kept = people[s] /\ lost = people[l]
    OBVIOUS
<1>0. PICK new : new = Joined(kept, lost)
    OBVIOUS
<1>1. /\ sub = None /\ sub' = None /\ UNCHANGED <<acting, waived, points, entries>>
      /\ s \in LivePeople /\ l \in LivePeople /\ l # s /\ KeysFree(kept.vals \cup lost.vals, {})
      /\ people' = [p \in Person |->
           IF p = s THEN new
           ELSE IF p = l THEN [people[l] EXCEPT !.status = "merged", !.into = s]
           ELSE IF people[p].into = l THEN [people[p] EXCEPT !.into = s]
           ELSE people[p]]
    BY <1>0 DEF Merge, Edit
<1>2. /\ kept \in PersonState /\ lost \in PersonState /\ kept.status = "live" /\ lost.status = "live"
      /\ \A x \in {kept, lost} : x.via \in x.vals \cup {None} /\ (x.state = None => x.at = None)
    BY <1>1 DEF PeopleInv, PeopleTyped, ActedBy, LivePeople
<1>3. /\ new \in PersonState /\ new.status = "live" /\ new.vals = kept.vals \cup lost.vals
      /\ new.state = (IF kept.state = None THEN lost.state ELSE kept.state)
      /\ new.at = (IF kept.at = None THEN lost.at ELSE kept.at)
      /\ new.via = (IF kept.state = None THEN lost.via ELSE kept.via)
    <2>0. PICK vals, name, state, at, via :
            /\ vals = kept.vals \cup lost.vals
            /\ name = (IF kept.name = None THEN lost.name ELSE kept.name)
            /\ state = (IF kept.state = None THEN lost.state ELSE kept.state)
            /\ at = (IF kept.at = None THEN lost.at ELSE kept.at)
            /\ via = (IF kept.state = None THEN lost.via ELSE kept.via)
        OBVIOUS
    <2>1. /\ vals \subseteq Contact /\ name \in Names /\ state \in ConsentStates \cup {None}
          /\ at \in Nat \cup {None} /\ via \in Email \cup {None}
        BY <1>2, <2>0 DEF PersonState
    <2>2. new = [kept EXCEPT !.vals = vals, !.name = name, !.state = state, !.at = at, !.via = via]
        BY <1>0, <1>2, <2>0 DEF Joined, PersonState
    <2>3. /\ new \in PersonState /\ new.status = kept.status /\ new.vals = vals
          /\ new.state = state /\ new.at = at /\ new.via = via
        BY <1>2, <2>1, <2>2 DEF PersonState
    <2> QED BY <1>2, <2>0, <2>3
<1>4. ASSUME NEW p \in Person, p # s
      PROVE  people'[p] \in PersonState /\ SameFor(p) /\ (people'[p].status = "live" => p \in LivePeople)
    <2> PICK old : old = people[p]
        OBVIOUS
    <2>1. old \in PersonState
        BY DEF PeopleInv, PeopleTyped
    <2>2. CASE p = l
        <3> PICK x : x = [old EXCEPT !.status = "merged", !.into = s]
            OBVIOUS
        <3>1. x \in PersonState /\ x.status = "merged" /\ x.vals = old.vals /\ x.state = old.state /\ x.at = old.at
              /\ x.via = old.via
            BY <2>1 DEF PersonState
        <3>2. people'[p] = x
            BY <1>1, <1>4, <2>2
        <3> QED BY <3>1, <3>2 DEF SameFor
    <2>3. CASE p # l /\ old.into = l
        <3> PICK x : x = [old EXCEPT !.into = s]
            OBVIOUS
        <3>1. x \in PersonState /\ x.status = old.status /\ x.vals = old.vals /\ x.state = old.state /\ x.at = old.at
              /\ x.via = old.via
            BY <2>1 DEF PersonState
        <3>2. people'[p] = x
            BY <1>1, <1>4, <2>3
        <3> QED BY <3>1, <3>2 DEF SameFor, LivePeople
    <2>4. CASE p # l /\ old.into # l
        BY <1>1, <1>4, <2>1, <2>4 DEF SameFor, LivePeople
    <2> QED BY <2>2, <2>3, <2>4
<1>5. people'[s] = new /\ people' \in [Person -> PersonState]
    BY <1>1, <1>3, <1>4
<1>6. PeopleTyped'
    BY <1>1, <1>5 DEF PeopleInv, PeopleTyped
<1>7. WellWritten(s)
    <2>1. new.via \in new.vals \cup {None} /\ (new.state = None => new.at = None)
        BY <1>2, <1>3
    <2>2. \A c \in acting' : c.act.email \notin new.vals
        BY <1>1, <1>3, FreeKeys DEF PeopleInv
    <2>3. people'[l].status # "live"
        BY <1>1, <1>2 DEF PersonState
    <2>4. \A e \in new.vals \cap Email : HoldersOf(e) \subseteq {s, l}
        BY <1>1, <1>3, HeldAlone
    <2> QED BY <1>5, <2>1, <2>2, <2>3, <2>4 DEF WellWritten
<1>8. ActedBy' /\ OneHolder' /\ ReadsHold'
    BY <1>1, <1>4, <1>6, <1>7, OneIsWritten DEF PeopleInv
<1>9. RefusalsEntered'
    <2>1. ASSUME NEW q \in LivePeople', people'[q].state = "declined", people'[q].via # None
          PROVE  \E p \in LivePeople : people[p].state = "declined" /\ people[p].via = people'[q].via
        <3>1. CASE q = s
            BY <1>1, <1>2, <1>3, <1>5, <2>1, <3>1
        <3>2. CASE q # s
            BY <1>4, <2>1, <3>2 DEF SameFor, LivePeople
        <3> QED BY <3>1, <3>2
    <2> QED BY <1>1, <1>6, <2>1, RefusalsStay DEF PeopleInv
<1> QED BY <1>1, <1>6, <1>8, <1>9 DEF PeopleInv, RoomForOne

\* The suppression of one channel of an email changes: nobody relies on it, or it is waived.
LEMMA EntryChanged ==
    ASSUME PeopleInv, UNCHANGED <<people, points, acting, sub>>, waived \subseteq waived', waived' \subseteq Email,
           entries' \in [Email -> [Channel -> Reasons]],
           \A e \in Email \ waived' : Refused(e) => Refused(e)'
    PROVE  PeopleInv'
<1>1. PeopleTyped'
    BY DEF PeopleInv, PeopleTyped
<1>2. ActedBy' /\ OneHolder' /\ ReadsHold'
    BY NobodyIsWritten DEF PeopleInv
<1>3. RefusalsEntered'
    BY DEF PeopleInv, RefusalsEntered, LivePeople
<1>4. RoomForOne'
    BY RoomStays DEF PeopleInv
<1> QED BY <1>1, <1>2, <1>3, <1>4 DEF PeopleInv

LEMMA EntrySet ==
    ASSUME PeopleTyped, NEW e \in Email, NEW c \in Channel, NEW reason \in Reasons
    PROVE  LET new == [entries EXCEPT ![e][c] = reason] IN
           /\ new \in [Email -> [Channel -> Reasons]]
           /\ new[e]["email"] = IF c = "email" THEN reason ELSE entries[e]["email"]
           /\ \A f \in Email \ {e} : new[f] = entries[f]
<1> PICK old, of : old = entries /\ of = old[e]
    OBVIOUS
<1>1. old \in [Email -> [Channel -> Reasons]] /\ of \in [Channel -> Reasons] /\ "email" \in Channel
    BY DEF PeopleTyped, Channel
<1> PICK row : row = [of EXCEPT ![c] = reason]
    OBVIOUS
<1>2. row \in [Channel -> Reasons] /\ row["email"] = IF c = "email" THEN reason ELSE of["email"]
    BY <1>1
<1>3. [entries EXCEPT ![e][c] = reason] = [old EXCEPT ![e] = row]
    BY <1>1
<1> QED BY <1>1, <1>2, <1>3

LEMMA SuppressionsStep ==
    ASSUME PeopleInv, NEW e \in Email, Suppressions(e) PROVE PeopleInv'
<1>1. UNCHANGED <<people, points, acting, sub>>
    BY DEF Suppressions
<1>2. ASSUME NEW c \in Channel, NEW reason \in {"complaint", "hold"}, entries' = AddSuppression(entries, e, c, reason),
             waived' = IF entries[e][c] # None THEN waived \cup {e} ELSE waived
      PROVE  PeopleInv'
    <2>1. reason \in Reasons
        BY DEF Reasons
    <2>2. /\ entries' \in [Email -> [Channel -> Reasons]]
          /\ entries'[e]["email"] = IF c = "email" THEN reason ELSE entries[e]["email"]
          /\ \A f \in Email \ {e} : entries'[f] = entries[f]
        BY <1>2, <2>1, EntrySet DEF PeopleInv, AddSuppression
    <2>3. \A f \in Email \ waived' : Refused(f) => Refused(f)'
        BY <1>2, <2>2 DEF Refused
    <2> QED BY <1>1, <1>2, <2>2, <2>3, EntryChanged DEF PeopleInv, PeopleTyped
<1>3. ASSUME NEW c \in Channel, entries' = RemoveSuppression(entries, e, c), waived' = waived \cup {e}
      PROVE  PeopleInv'
    <2>1. None \in Reasons
        BY DEF Reasons
    <2>2. /\ entries' \in [Email -> [Channel -> Reasons]]
          /\ \A f \in Email \ {e} : entries'[f] = entries[f]
        BY <1>3, <2>1, EntrySet DEF PeopleInv, RemoveSuppression
    <2>3. \A f \in Email \ waived' : Refused(f) => Refused(f)'
        BY <1>3, <2>2 DEF Refused
    <2> QED BY <1>1, <1>3, <2>2, <2>3, EntryChanged DEF PeopleInv, PeopleTyped
<1> QED BY <1>2, <1>3 DEF Suppressions

LEMMA ExpiresStep ==
    ASSUME PeopleInv, NEW e \in Email, Expires(e) PROVE PeopleInv'
<1> PICK row : row = [c \in Channel |-> IF entries[e][c] = "hold" THEN None ELSE entries[e][c]]
    OBVIOUS
<1>1. UNCHANGED <<people, points, acting, sub, waived>>
    BY DEF Expires
<1>2. entries' = [entries EXCEPT ![e] = row]
    BY DEF Expires, ExpireSuppression, PeopleInv, PeopleTyped
<1>3. row \in [Channel -> Reasons] /\ row["email"] = IF entries[e]["email"] = "hold" THEN None ELSE entries[e]["email"]
    BY DEF PeopleInv, PeopleTyped, Reasons, Channel
<1>4. /\ entries' \in [Email -> [Channel -> Reasons]]
      /\ entries'[e] = row
      /\ \A f \in Email \ {e} : entries'[f] = entries[f]
    BY <1>2, <1>3 DEF PeopleInv, PeopleTyped
<1>5. \A f \in Email \ waived' : Refused(f) => Refused(f)'
    BY <1>3, <1>4 DEF Refused
<1> QED BY <1>1, <1>4, <1>5, EntryChanged DEF PeopleInv, PeopleTyped

LEMMA ConsentReadsStep ==
    ASSUME PeopleInv, NEW act \in Acts, NEW create \in BOOLEAN, ConsentReads(act, create) PROVE PeopleInv'
<1>1. UNCHANGED <<people, points, entries, waived, sub>> /\ ~Busy(act.email)
    BY DEF ConsentReads
<1>e. PICK e : e = act.email
    OBVIOUS
<1>2. act \in ConsentActs /\ e \in Email /\ None \notin Person
    BY <1>e, IntakeAssumption DEF IntakeAssumption, ConsentActs
<1>3. PICK sees \in IF act.caller = "subject" THEN {TRUE} ELSE BOOLEAN :
        LET at == IF sees THEN HoldersOf(act.email) ELSE {}
            p  == IF at = {} THEN None ELSE CHOOSE q \in at : TRUE
        IN  acting' = acting \cup
               {[act |-> act, create |-> create, on |-> p,
                 writes |-> IF p = None THEN FALSE ELSE ConsentWrites(act, people[p])]}
    BY DEF ConsentReads
<1>a. PICK at : at = IF sees THEN HoldersOf(e) ELSE {}
    OBVIOUS
<1>b. PICK p : p = IF at = {} THEN None ELSE CHOOSE q \in at : TRUE
    OBVIOUS
<1>c. PICK writes : writes = IF p = None THEN FALSE ELSE ConsentWrites(act, people[p])
    OBVIOUS
<1>d. PICK new : new = [act |-> act, create |-> create, on |-> p, writes |-> writes]
    OBVIOUS
<1>4. acting' = acting \cup {new}
    BY <1>3, <1>a, <1>b, <1>c, <1>d, <1>e
<1>5. p \in Person \cup {None} /\ (p # None => p \in HoldersOf(e)) /\ writes \in BOOLEAN
    BY <1>2, <1>a, <1>b, <1>c DEF HoldersOf, LivePeople, ConsentWrites, Supersedes
<1>6. new \in ActingState /\ new.act = act /\ new.on = p /\ new.writes = writes
    BY <1>2, <1>5, <1>d DEF ActingState
<1>7. PeopleTyped'
    BY <1>1, <1>4, <1>6 DEF PeopleInv, PeopleTyped
<1>8. ActedBy' /\ OneHolder'
    BY <1>1 DEF PeopleInv, ActedBy, OneHolder, HoldersOf, LivePeople
<1>9. \A c \in acting : c.act.email # e
    BY <1>1, <1>e DEF Busy
<1>10. \A v : HoldersOf(v)' = HoldersOf(v)
    BY <1>1 DEF HoldersOf, LivePeople
<1>11. ASSUME NEW c \in acting' PROVE ReadHolds(c)'
    <2>1. CASE c \in acting
        <3>1. ReadHolds(c)
            BY <2>1 DEF PeopleInv, ReadsHold
        <3>2. \A d \in acting' : d.act.email = c.act.email => d = c
            BY <1>4, <1>6, <1>9, <1>e, <2>1, <3>1 DEF ReadHolds
        <3> QED BY <1>1, <1>10, <3>1, <3>2 DEF ReadHolds
    <2>2. CASE c = new
        <3>1. \A d \in acting' : d.act.email = c.act.email => d = c
            BY <1>4, <1>6, <1>9, <1>e, <2>2
        <3>2. p # None => HoldersOf(e) \subseteq {p} /\ writes = ConsentWrites(act, people[p])
            BY <1>2, <1>5, <1>c DEF PeopleInv, OneHolder, HoldersOf, LivePeople
        <3>3. p = None => ~writes
            BY <1>c
        <3> QED BY <1>1, <1>6, <1>10, <1>e, <2>2, <3>1, <3>2, <3>3 DEF ReadHolds
    <2> QED BY <1>4, <2>1, <2>2
<1>12. RefusalsEntered'
    BY <1>1 DEF PeopleInv, RefusalsEntered, Refused, LivePeople
<1>13. RoomForOne'
    BY <1>1, RoomStays DEF PeopleInv
<1> QED BY <1>7, <1>8, <1>11, <1>12, <1>13 DEF PeopleInv, ReadsHold

LEMMA LeastFresh ==
    ASSUME Fresh # {}
    PROVE  Least(Fresh) \in Fresh /\ Least(Fresh) \in Person /\ Least(Fresh) \notin LivePeople
<1>1. Fresh \subseteq Nat
    BY IntakeAssumption, PeopleArePersons DEF IntakeAssumption
<1>2. PICK q \in Fresh : \A t \in Fresh : q <= t
    BY <1>1, SmallestNumber
<1>3. Least(Fresh) \in Fresh
    BY <1>2 DEF Least
<1> QED BY <1>3 DEF Fresh, LivePeople

LEMMA ApproveAmendmentStep ==
    ASSUME PeopleInv, ProposalsInv, NEW d \in deciding, ApproveAmendment(d), UNCHANGED <<entries, sub, acting, waived>>
    PROVE  PeopleInv'
<1>a. PICK p, name : p = rows[d.row].on /\ name = rows[d.row].value
    OBVIOUS
<1>b. PICK old : old = people[p]
    OBVIOUS
<1>c. PICK new : new = [old EXCEPT !.name = name]
    OBVIOUS
<1>1. p # None /\ sub = None /\ KeysFree(old.vals, {}) /\ people' = [people EXCEPT ![p].name = name] /\ points' = points
    BY <1>a, <1>b DEF ApproveAmendment
<1>2. p \in Person /\ name \in Names
    <2> PICK row : row = rows[d.row]
        OBVIOUS
    <2>1. row \in Row /\ row.on # None
        BY <1>1, <1>a, StoreIs DEF ProposalsInv, RowsInOrder, DecidesRows
    <2> QED BY <1>a, <2>1 DEF Row
<1>3. old \in PersonState
    BY <1>2, <1>b DEF PeopleInv, PeopleTyped
<1>4. /\ new \in PersonState /\ new.vals = old.vals /\ new.status = old.status /\ new.state = old.state
      /\ new.at = old.at /\ new.via = old.via
    BY <1>2, <1>3, <1>c DEF PersonState
<1>5. MayBecome(p, new)
    <2>1. new.via \in new.vals \cup {None} /\ (new.state = None => new.at = None)
        BY <1>2, <1>4, <1>b DEF PeopleInv, ActedBy
    <2>2. \A c \in acting : c.act.email \notin new.vals
        BY <1>1, <1>4, FreeKeys DEF PeopleInv
    <2>3. new.status = "live" => p \in LivePeople
        BY <1>2, <1>4, <1>b DEF LivePeople
    <2>4. new.status = "live" => \A e \in new.vals \cap Email : HoldersOf(e) \subseteq {p}
        BY <1>4, <1>b, <2>3, HeldAlone
    <2> QED BY <1>4, <1>b, <2>1, <2>2, <2>3, <2>4 DEF MayBecome
<1>6. people' = [people EXCEPT ![p] = new]
    BY <1>1, <1>b, <1>c
<1>7. points' \in [Person -> [Contact -> {None, "held", "archived"}]]
    BY <1>1 DEF PeopleInv, PeopleTyped
<1> QED BY <1>1, <1>2, <1>5, <1>6, <1>7, PersonWritten

\* A match stores a submission; it is approved without its consent.
LEMMA StoredForm ==
    ASSUME ProposalsInv, NEW d \in deciding, rows[d.row].on = None
    PROVE  LET s == [rows[d.row].sub EXCEPT !.act = None] IN s \in Forms /\ s.act = None
<1>a. PICK at, old : at = rows[d.row] /\ old = at.sub
    OBVIOUS
<1>1. at \in Row /\ at.on = None
    BY <1>a, StoreIs DEF ProposalsInv, RowsInOrder, DecidesRows
<1>2. old \in Forms
    BY <1>a, <1>1, IntakeAssumption DEF Row, IntakeAssumption
<1>3. [old EXCEPT !.act = None] \in Forms /\ [old EXCEPT !.act = None].act = None
    BY <1>2 DEF Forms
<1> QED BY <1>a, <1>3

LEMMA ApproveMatchStep ==
    ASSUME PeopleInv, ProposalsInv, NEW d \in deciding, ApproveMatch(d), UNCHANGED <<entries, sub, acting, waived>>
    PROVE  PeopleInv'
<1>a. PICK s : s = [rows[d.row].sub EXCEPT !.act = None]
    OBVIOUS
<1>b. PICK p : p = (IF d.with = None THEN Least(Fresh) ELSE d.with)
    OBVIOUS
<1>c. PICK new : new = (IF d.with = None THEN NewPerson(s) ELSE Paired(p, s))
    OBVIOUS
<1>d. PICK row : row = Synced(p, people[p].vals, new.vals)
    OBVIOUS
<1>1. /\ rows[d.row].on = None /\ sub = None /\ KeysFree(new.vals \cup {s.email}, {})
      /\ IF d.with = None
         THEN Fresh # {} /\ \A v \in Identifiers(s) : Takes(p, v)
         ELSE p \in LivePeople /\ \A v \in Filled(p, s) : Takes(p, v)
      /\ people' = [people EXCEPT ![p] = new]
      /\ points' = [points EXCEPT ![p] = row]
    BY <1>a, <1>b, <1>c, <1>d DEF ApproveMatch
<1>2. s \in Forms /\ s.act = None
    BY <1>1, <1>a, StoredForm
<1>3. p \in Person
    BY <1>1, <1>b, LeastFresh, PeopleArePersons
<1>4. points' \in [Person -> [Contact -> {None, "held", "archived"}]]
    <2>1. row \in [Contact -> {None, "held", "archived"}]
        BY <1>3, <1>d, SyncedPoints DEF PeopleInv
    <2> QED BY <1>1, <2>1 DEF PeopleInv, PeopleTyped
<1>5. \A c \in acting : c.act.email \notin new.vals
    BY <1>1, FreeKeys DEF PeopleInv
<1>6. CASE d.with = None
    <2>1. /\ new \in PersonState /\ new.status = "live" /\ new.vals = Identifiers(s) /\ new.state # None
          /\ new.via = None
        BY <1>2, <1>6, <1>c, PersonOfForm DEF PeopleInv
    <2>2. \A e \in new.vals \cap Email : HoldersOf(e) \subseteq {p}
        BY <1>1, <1>6, <2>1 DEF Takes
    <2>3. MayBecome(p, new)
        BY <1>5, <2>1, <2>2 DEF MayBecome
    <2> QED BY <1>1, <1>3, <1>4, <2>3, PersonWritten
<1>7. CASE d.with # None
    <2>1. new = Paired(p, s) /\ ~Writes(p, s) /\ p \in LivePeople
        BY <1>1, <1>2, <1>7, <1>c DEF Writes
    <2>2. /\ new \in PersonState /\ new.status = people[p].status /\ new.vals = Filled(p, s)
          /\ people[p].vals \subseteq new.vals
          /\ new.state = people[p].state /\ new.at = people[p].at /\ new.via = people[p].via
        BY <1>2, <1>3, <2>1, PairOfForm DEF PeopleInv
    <2>3. \A e \in new.vals \cap Email : HoldersOf(e) \subseteq {p}
        BY <1>1, <1>7, <2>2 DEF Takes
    <2>4. new.via \in new.vals \cup {None} /\ (new.state = None => new.at = None)
        BY <1>3, <2>2 DEF PeopleInv, ActedBy
    <2>5. MayBecome(p, new)
        BY <1>5, <2>1, <2>2, <2>3, <2>4 DEF MayBecome
    <2> QED BY <1>1, <1>3, <1>4, <2>5, PersonWritten
<1> QED BY <1>6, <1>7

\* What an act leaves in the suppression store.
LEMMA SettledEntries ==
    ASSUME PeopleTyped, NEW act \in ConsentActs, NEW written \in BOOLEAN
    PROVE  LET new == SettleConsentSuppression(entries, act, written) IN
           /\ new \in [Email -> [Channel -> Reasons]]
           /\ \A f \in Email \ {act.email} : new[f] = entries[f]
           /\ act.state = "declined" => new[act.email]["email"] \notin {None, "hold"}
           /\ act.state # "declined" /\ ~written => new = entries
<1>a. PICK e, old : e = act.email /\ old = entries
    OBVIOUS
<1>b. PICK of : of = old[e]
    OBVIOUS
<1>1. /\ e \in Email /\ of \in [Channel -> Reasons] /\ "email" \in Channel /\ "opt_out" # None
      /\ old \in [Email -> [Channel -> Reasons]]
    BY <1>a, <1>b, IntakeAssumption DEF IntakeAssumption, ConsentActs, PeopleTyped, Channel
<1>c. PICK reason : reason = IF of["email"] \in {None, "hold", "opt_out"} THEN "opt_out" ELSE of["email"]
    OBVIOUS
<1>d. PICK adds : adds = [of EXCEPT !["email"] = reason]
    OBVIOUS
<1>e. PICK lifts : lifts = [c \in Channel |-> IF of[c] = "opt_out" THEN None ELSE of[c]]
    OBVIOUS
<1>2. adds \in [Channel -> Reasons] /\ adds["email"] = reason /\ reason \notin {None, "hold"}
    BY <1>1, <1>c, <1>d DEF Reasons
<1>3. lifts \in [Channel -> Reasons]
    BY <1>1, <1>e DEF Reasons
<1>4. ASSUME NEW state
      PROVE  ApplyConsentSuppression(old, e, state) = [old EXCEPT ![e] = IF state = "declined" THEN adds ELSE lifts]
    BY <1>1, <1>b, <1>c, <1>d, <1>e DEF ApplyConsentSuppression
<1>5. ASSUME NEW row \in [Channel -> Reasons]
      PROVE  /\ [old EXCEPT ![e] = row] \in [Email -> [Channel -> Reasons]]
             /\ [old EXCEPT ![e] = row][e] = row
             /\ \A f \in Email \ {e} : [old EXCEPT ![e] = row][f] = old[f]
    BY <1>1
<1>n. PICK new : new = SettleConsentSuppression(old, act, written)
    OBVIOUS
<1>6. CASE act.state = "declined"
    <2>1. new = [old EXCEPT ![e] = adds]
        BY <1>4, <1>6, <1>a, <1>n DEF SettleConsentSuppression
    <2>2. /\ new \in [Email -> [Channel -> Reasons]] /\ new[e] = adds
          /\ \A f \in Email \ {e} : new[f] = old[f]
        BY <1>2, <1>5, <2>1
    <2> QED BY <1>2, <1>6, <1>a, <1>n, <2>2
<1>7. CASE act.state # "declined" /\ written /\ LiftsOptOut(act)
    <2>1. new = [old EXCEPT ![e] = lifts]
        BY <1>4, <1>7, <1>a, <1>n DEF SettleConsentSuppression
    <2>2. /\ new \in [Email -> [Channel -> Reasons]]
          /\ \A f \in Email \ {e} : new[f] = old[f]
        BY <1>3, <1>5, <2>1
    <2> QED BY <1>7, <1>a, <1>n, <2>2
<1>8. CASE act.state # "declined" /\ ~(written /\ LiftsOptOut(act))
    <2>1. new = old
        BY <1>8, <1>n DEF SettleConsentSuppression
    <2> QED BY <1>1, <1>8, <1>a, <1>n, <2>1
<1> QED BY <1>6, <1>7, <1>8

\* Who has declined after the step did so by the act, or before by an email the act leaves alone.
RefusalsKnown(act, written) ==
    \A q \in LivePeople', f \in Email :
       people'[q].state = "declined" /\ people'[q].via = f =>
          \/ f = act.email /\ act.state = "declined"
          \/ /\ f # act.email \/ ~written
             /\ \E p \in LivePeople : people[p].state = "declined" /\ people[p].via = f

\* The act that was kept or written settles what the store says of its own email only.
LEMMA RefusalsSettled ==
    ASSUME PeopleInv, PeopleTyped', NEW act \in ConsentActs, NEW written \in BOOLEAN,
           entries' = SettleConsentSuppression(entries, act, written),
           waived' = IF act.state = "declined" THEN waived \ {act.email} ELSE waived,
           RefusalsKnown(act, written)
    PROVE  RefusalsEntered'
<1> SUFFICES ASSUME NEW q \in LivePeople', NEW f \in Email \ waived', people'[q].state = "declined", people'[q].via = f
             PROVE  Refused(f)'
    BY DEF RefusalsEntered
<1>a. PICK new : new = SettleConsentSuppression(entries, act, written)
    OBVIOUS
<1>1. /\ entries' = new
      /\ \A g \in Email \ {act.email} : new[g] = entries[g]
      /\ act.state = "declined" => new[act.email]["email"] \notin {None, "hold"}
      /\ act.state # "declined" /\ ~written => new = entries
    BY <1>a, SettledEntries DEF PeopleInv
<1>2. CASE f = act.email /\ act.state = "declined"
    BY <1>1, <1>2 DEF Refused
<1>3. CASE f # act.email \/ act.state # "declined"
    <2>1. f \notin waived
        BY <1>3
    <2>2. PICK p \in LivePeople : people[p].state = "declined" /\ people[p].via = f /\ (f # act.email \/ ~written)
        BY <1>3 DEF RefusalsKnown
    <2>3. Refused(f)
        BY <2>1, <2>2 DEF PeopleInv, RefusalsEntered
    <2>4. entries'[f] = entries[f]
        BY <1>1, <1>3, <2>2
    <2> QED BY <2>3, <2>4 DEF Refused
<1> QED BY <1>2, <1>3

LEMMA ConsentKeepsStep ==
    ASSUME PeopleInv, NEW c \in acting, acting' \subseteq acting, people' = people, UNCHANGED <<points, sub>>,
           entries' = SettleConsentSuppression(entries, c.act, FALSE),
           waived' = IF c.act.state = "declined" THEN waived \ {c.act.email} ELSE waived
    PROVE  PeopleInv'
<1>a. PICK act : act = c.act
    OBVIOUS
<1>1. act \in ConsentActs
    BY <1>a DEF PeopleInv, PeopleTyped, ActingState
<1>2. entries' \in [Email -> [Channel -> Reasons]]
    BY <1>1, <1>a, SettledEntries DEF PeopleInv
<1>3. PeopleTyped'
    BY <1>2 DEF PeopleInv, PeopleTyped
<1>4. ActedBy' /\ OneHolder' /\ ReadsHold'
    BY NobodyIsWritten DEF PeopleInv
<1>5. RefusalsEntered'
    <2>1. RefusalsKnown(act, FALSE)
        BY DEF LivePeople, RefusalsKnown
    <2> QED BY <1>1, <1>3, <1>a, <2>1, RefusalsSettled
<1>6. RoomForOne'
    BY RoomStays DEF PeopleInv
<1> QED BY <1>3, <1>4, <1>5, <1>6 DEF PeopleInv

LEMMA ConsentWritesStep ==
    ASSUME PeopleInv, NEW c \in acting, acting' = acting \ {c}, ConsentWritesRecord(c), UNCHANGED <<points, sub>>,
           waived' = IF c.act.state = "declined" THEN waived \ {c.act.email} ELSE waived
    PROVE  PeopleInv'
<1>a. PICK act, e, p : act = c.act /\ e = c.act.email /\ p = (IF c.on = None THEN Least(Fresh) ELSE c.on)
    OBVIOUS
<1>b. PICK old : old = IF c.on = None THEN [NoPerson EXCEPT !.status = "live", !.vals = {e}] ELSE people[p]
    OBVIOUS
<1>c. PICK new : new = WithConsent(old, act)
    OBVIOUS
<1>1. /\ sub = None /\ KeysFree(new.vals, {e}) /\ people' = [people EXCEPT ![p] = new]
      /\ IF c.on = None THEN HoldersOf(e) = {} /\ Fresh # {} ELSE p \in LivePeople
      /\ entries' = SettleConsentSuppression(entries, act, TRUE)
    BY <1>a, <1>b, <1>c DEF ConsentWritesRecord
<1>2. act \in ConsentActs /\ e \in Email /\ act.email = e /\ c.on \in Person \cup {None} /\ ReadHolds(c)
    BY <1>a DEF PeopleInv, PeopleTyped, ActingState, ConsentActs, ReadsHold
<1>3. p \in Person /\ (c.on = None => p \notin LivePeople)
    BY <1>1, <1>a, LeastFresh, PeopleArePersons
<1>4. old \in PersonState /\ old.status = "live" /\ (c.on = None => old.vals = {e}) /\ (c.on # None => old = people[p])
    <2>1. CASE c.on = None
        <3>1. None \in Names /\ {e} \subseteq Contact
            BY <1>2 DEF Names, Contact
        <3> QED BY <1>b, <2>1, <3>1 DEF NoPerson, PersonState
    <2>2. CASE c.on # None
        BY <1>1, <1>3, <1>b, <2>2 DEF PeopleInv, PeopleTyped, LivePeople
    <2> QED BY <2>1, <2>2
<1>5. /\ new \in PersonState /\ new.status = "live" /\ new.vals = old.vals /\ new.state = act.state
      /\ new.state # None /\ new.via = IF e \in old.vals THEN e ELSE None
    BY <1>2, <1>4, <1>c, ConsentOfPerson
<1>6. people'[p] = new /\ people' \in [Person -> PersonState] /\ \A q \in Person \ {p} : people'[q] = people[q]
    BY <1>1, <1>3, <1>5 DEF PeopleInv, PeopleTyped
<1>7. PeopleTyped'
    <2>1. entries' \in [Email -> [Channel -> Reasons]]
        BY <1>1, <1>2, SettledEntries DEF PeopleInv
    <2> QED BY <1>6, <2>1 DEF PeopleInv, PeopleTyped
<1>8. HoldersOf(e) \subseteq {p}
    BY <1>1, <1>2, <1>a DEF ReadHolds
<1>9. WellWritten(p)
    <2>1. new.via \in new.vals \cup {None}
        BY <1>5
    <2>2. ASSUME NEW d \in acting' PROVE d.act.email \notin new.vals
        <3>1. d.act.email # e /\ d.act.email \in Email
            BY <1>2, <1>a, <2>2 DEF ReadHolds, PeopleInv, PeopleTyped, ActingState, ConsentActs
        <3>2. d.act.email \notin (new.vals \cap Email) \ {e}
            BY <1>1, <2>2 DEF KeysFree, Busy
        <3> QED BY <3>1, <3>2
    <2>3. ASSUME NEW f \in new.vals \cap Email PROVE HoldersOf(f) \subseteq {p}
        <3>1. CASE c.on = None
            BY <1>4, <1>5, <1>8, <2>3, <3>1
        <3>2. CASE c.on # None
            BY <1>1, <1>4, <1>5, <2>3, <3>2, HeldAlone
        <3> QED BY <3>1, <3>2
    <2> QED BY <1>5, <1>6, <2>1, <2>2, <2>3 DEF WellWritten
<1>10. \A q \in Person \ {p} : SameFor(q)
    BY <1>6 DEF SameFor
<1>11. ActedBy' /\ OneHolder' /\ ReadsHold'
    BY <1>3, <1>7, <1>9, <1>10, OneIsWritten DEF PeopleInv
<1>12. RefusalsEntered'
    <2>1. ASSUME NEW q \in LivePeople', NEW f \in Email, people'[q].state = "declined", people'[q].via = f
          PROVE  \/ f = act.email /\ act.state = "declined"
                 \/ /\ f # act.email \/ ~TRUE
                    /\ \E r \in LivePeople : people[r].state = "declined" /\ people[r].via = f
        <3>0. f # None /\ q \in Person
            BY IntakeAssumption DEF IntakeAssumption, Contact, LivePeople
        <3>1. CASE q = p
            BY <1>2, <1>5, <1>6, <2>1, <3>0, <3>1
        <3>2. CASE q # p
            <4>1. q \in LivePeople /\ people[q].state = "declined" /\ people[q].via = f
                BY <1>6, <2>1, <3>0, <3>2 DEF LivePeople
            <4>2. q \in HoldersOf(f)
                BY <3>0, <4>1 DEF PeopleInv, ActedBy, HoldersOf
            <4> QED BY <1>2, <1>8, <3>2, <4>1, <4>2
        <3> QED BY <3>1, <3>2
    <2>2. waived' = IF act.state = "declined" THEN waived \ {act.email} ELSE waived
        BY <1>a
    <2>3. RefusalsKnown(act, TRUE)
        BY <2>1 DEF RefusalsKnown
    <2> QED BY <1>1, <1>2, <1>7, <2>2, <2>3, RefusalsSettled
<1> QED BY <1>1, <1>7, <1>11, <1>12 DEF PeopleInv, RoomForOne

LEMMA ConsentFinishesStep ==
    ASSUME PeopleInv, NEW c \in acting, ConsentFinishes(c) PROVE PeopleInv'
<1>1. acting' = acting \ {c} /\ UNCHANGED <<points, sub>>
      /\ waived' = IF c.act.state = "declined" THEN waived \ {c.act.email} ELSE waived
    BY DEF ConsentFinishes
<1>2. CASE people' = people /\ entries' = SettleConsentSuppression(entries, c.act, FALSE)
    BY <1>1, <1>2, ConsentKeepsStep
<1>3. CASE ConsentWritesRecord(c)
    BY <1>1, <1>3, ConsentWritesStep
<1> QED BY <1>2, <1>3 DEF ConsentFinishes

\* What a submission has written: at most one person, the only one who can hold its email.
LEMMA SubmissionWritten ==
    ASSUME PeopleInv, NEW s \in Forms, s.act # None => s.act.email = s.email, sub' = None,
           ActedBy', OneHolder', ReadsHold', acting' = acting,
           people' \in [Person -> PersonState], points' \in [Person -> [Contact -> {None, "held", "archived"}]],
           entries' = IF s.act = None THEN entries ELSE SettleConsentSuppression(entries, s.act, Wrote(s)),
           waived' = IF s.act # None /\ s.act.state = "declined" THEN waived \ {s.email} ELSE waived,
           NEW p \in Person, \A q \in Person \ {p} : people'[q] = people[q], HoldersOf(s.email) \subseteq {p},
           p \in LivePeople' /\ people'[p].state = "declined" /\ people'[p].via # None =>
              \/ s.act # None /\ people'[p].via = s.email /\ s.act.state = "declined"
              \/ /\ p \in LivePeople /\ people[p].state = "declined" /\ people[p].via = people'[p].via
                 /\ ~Writes(p, s),
           s.act # None /\ Wrote(s) /\ p \in LivePeople => Writes(p, s)
    PROVE  PeopleInv'
<1>a. PICK act : act = s.act
    OBVIOUS
<1>1. act # None => act \in ConsentActs /\ act.email = s.email
    BY <1>a DEF Forms
<1>w. PICK wrote \in BOOLEAN : wrote = Wrote(s)
    BY DEF Wrote
<1>2. PeopleTyped'
    <2>1. entries' \in [Email -> [Channel -> Reasons]]
        BY <1>1, <1>a, <1>w, SettledEntries DEF PeopleInv, PeopleTyped
    <2> QED BY <2>1 DEF PeopleInv, PeopleTyped
<1>3. ASSUME NEW q \in LivePeople', people'[q].state = "declined", people'[q].via # None, q # p
      PROVE  q \in LivePeople /\ people[q].state = "declined" /\ people[q].via = people'[q].via /\ people[q].via # s.email
    <2>1. q \in LivePeople /\ people'[q] = people[q] /\ q \in Person
        BY <1>3 DEF LivePeople
    <2>2. q \in HoldersOf(people[q].via)
        BY <1>3, <2>1 DEF PeopleInv, ActedBy, HoldersOf
    <2> QED BY <1>3, <2>1, <2>2
<1>4. RefusalsEntered'
    <2>1. CASE act = None
        <3>1. \A q \in LivePeople' : people'[q].state = "declined" /\ people'[q].via # None =>
                 \E r \in LivePeople : people[r].state = "declined" /\ people[r].via = people'[q].via
            BY <1>3, <1>a, <2>1
        <3> QED BY <1>2, <1>a, <2>1, <3>1, RefusalsStay DEF PeopleInv
    <2>2. CASE act # None
        <3>1. ASSUME NEW q \in LivePeople', NEW f \in Email, people'[q].state = "declined", people'[q].via = f
              PROVE  \/ f = act.email /\ act.state = "declined"
                     \/ /\ f # act.email \/ ~wrote
                        /\ \E r \in LivePeople : people[r].state = "declined" /\ people[r].via = f
            <4>0. f # None
                BY IntakeAssumption DEF IntakeAssumption, Contact
            <4>1. CASE q = p
                BY <1>1, <1>a, <1>w, <2>2, <3>1, <4>0, <4>1
            <4>2. CASE q # p
                BY <1>1, <1>3, <2>2, <3>1, <4>0, <4>2
            <4> QED BY <4>1, <4>2
        <3>2. /\ entries' = SettleConsentSuppression(entries, act, wrote)
              /\ waived' = IF act.state = "declined" THEN waived \ {act.email} ELSE waived
            BY <1>1, <1>a, <1>w, <2>2
        <3>3. RefusalsKnown(act, wrote)
            BY <3>1 DEF RefusalsKnown
        <3> QED BY <1>1, <1>2, <2>2, <3>2, <3>3, RefusalsSettled
    <2> QED BY <2>1, <2>2
<1> QED BY <1>2, <1>4 DEF PeopleInv, RoomForOne

LEMMA WrittenAlone ==
    ASSUME PeopleInv, NEW p \in Person, NEW new \in PersonState, people' = [people EXCEPT ![p] = new],
           acting' = acting, points' \in [Person -> [Contact -> {None, "held", "archived"}]],
           new # people[p] => KeysFree(new.vals, {}), new.status = "live",
           new.via \in new.vals \cup {None}, new.state # None \/ new.at = None,
           \A e \in new.vals \cap Email : HoldersOf(e) \subseteq {p}
    PROVE  /\ ActedBy' /\ OneHolder' /\ ReadsHold'
           /\ people' \in [Person -> PersonState] /\ people'[p] = new
           /\ \A q \in Person \ {p} : people'[q] = people[q]
<1>1. people'[p] = new /\ (\A q \in Person \ {p} : people'[q] = people[q]) /\ people' \in [Person -> PersonState]
    BY DEF PeopleInv, PeopleTyped
<1>2. CASE new = people[p]
    <2>1. people' = people
        BY <1>2 DEF PeopleInv, PeopleTyped
    <2> QED BY <1>1, <2>1, NobodyIsWritten DEF PeopleInv
<1>3. CASE new # people[p]
    <2>1. WellWritten(p)
        <3>1. \A c \in acting : c.act.email \notin new.vals
            BY <1>3, FreeKeys DEF PeopleInv
        <3> QED BY <1>1, <3>1 DEF WellWritten
    <2>2. \A q \in Person \ {p} : SameFor(q)
        BY <1>1 DEF SameFor
    <2>3. ActedBy /\ OneHolder /\ ReadsHold /\ PeopleTyped
        BY DEF PeopleInv
    <2> QED BY <1>1, <2>1, <2>2, <2>3, OneIsWritten
<1> QED BY <1>2, <1>3

LEMMA FormsAre ==
    ASSUME NEW s \in Submissions
    PROVE  s \in Forms /\ (s.act # None => s.act.email = s.email)
BY IntakeAssumption DEF IntakeAssumption, Forms

\* Whoever has a key the submission names is a candidate.
LEMMA HoldersAreCandidates ==
    ASSUME NEW s, NEW v \in Identifiers(s)
    PROVE  HoldersOf(v) \subseteq Active(s) /\ HoldersOf(v) \subseteq Candidates(s)
BY DEF Active, Candidates

\* What the write of a submission has left, whatever it was.
SubmissionLeft(s) ==
    /\ sub # None /\ sub.s = s /\ sub' = None /\ acting' = acting
    /\ points' = [q \in Person |-> Synced(q, people[q].vals, people'[q].vals)]
    /\ entries' = IF s.act = None THEN entries ELSE SettleConsentSuppression(entries, s.act, Wrote(s))
    /\ waived' = IF s.act # None /\ s.act.state = "declined" THEN waived \ {s.email} ELSE waived

LEMMA SubmitCreates ==
    ASSUME PeopleInv, NEW s \in Submissions, SubmissionLeft(s), Candidates(s) = {},
           people' = [people EXCEPT ![Least(Fresh)] = NewPerson(s)],
           \A q \in Person : people'[q] # people[q] => KeysFree(people'[q].vals, {})
    PROVE  PeopleInv'
<1>a. PICK p, new : p = Least(Fresh) /\ new = NewPerson(s)
    OBVIOUS
<1>1. s \in Forms /\ (s.act # None => s.act.email = s.email)
    BY FormsAre
<1>2. p \in Person /\ p \notin LivePeople
    BY <1>a, LeastFresh DEF SubmissionLeft, PeopleInv, RoomForOne
<1>3. /\ new \in PersonState /\ new.status = "live" /\ new.vals = Identifiers(s) /\ new.state # None
      /\ new.via = IF s.act = None THEN None ELSE s.email
      /\ s.act # None => new.state = s.act.state
    BY <1>1, <1>a, PersonOfForm DEF PeopleInv
<1>4. s.email \in Identifiers(s)
    BY <1>1, ValuesAreContacts DEF PeopleInv
<1>5. points' \in [Person -> [Contact -> {None, "held", "archived"}]]
    BY SyncedPoints DEF PeopleInv, SubmissionLeft
<1>6. people' = [people EXCEPT ![p] = new]
    BY <1>a
<1>7. /\ ActedBy' /\ OneHolder' /\ ReadsHold'
      /\ people' \in [Person -> PersonState] /\ people'[p] = new
      /\ \A q \in Person \ {p} : people'[q] = people[q]
    <2>1. \A e \in new.vals \cap Email : HoldersOf(e) \subseteq {p}
        BY <1>3, HoldersAreCandidates
    <2>2. new.via \in new.vals \cup {None}
        BY <1>3, <1>4
    <2>3. people'[p] = new
        BY <1>2, <1>6 DEF PeopleInv, PeopleTyped
    <2>4. new # people[p] => KeysFree(new.vals, {})
        BY <1>2, <2>3
    <2>5. acting' = acting
        BY DEF SubmissionLeft
    <2> QED BY <1>2, <1>3, <1>5, <1>6, <2>1, <2>2, <2>4, <2>5, WrittenAlone
<1>8. HoldersOf(s.email) \subseteq {p}
    BY <1>4, HoldersAreCandidates
<1> QED BY <1>1, <1>2, <1>3, <1>5, <1>7, <1>8, SubmissionWritten DEF SubmissionLeft

LEMMA SubmitPairs ==
    ASSUME PeopleInv, NEW s \in Submissions, SubmissionLeft(s), NEW p \in Active(s), Candidates(s) = {p},
           people' = [people EXCEPT ![p] = Paired(p, s)],
           \A q \in Person : people'[q] # people[q] => KeysFree(people'[q].vals, {})
    PROVE  PeopleInv'
<1>a. PICK new : new = Paired(p, s)
    OBVIOUS
<1>1. s \in Forms /\ (s.act # None => s.act.email = s.email)
    BY FormsAre
<1>2. p \in Person /\ p \in LivePeople
    BY PeopleArePersons DEF Active, HoldersOf
<1>3. /\ new \in PersonState /\ new.status = "live" /\ new.vals = Filled(p, s)
      /\ people[p].vals \subseteq new.vals
      /\ IF Writes(p, s) THEN new.state = s.act.state /\ new.at = s.act.at /\ new.via = s.email /\ new.state # None
         ELSE new.state = people[p].state /\ new.at = people[p].at /\ new.via = people[p].via
    BY <1>1, <1>2, <1>a, PairOfForm DEF PeopleInv, LivePeople
<1>4. s.email \in Identifiers(s)
    BY <1>1, ValuesAreContacts DEF PeopleInv
<1>5. points' \in [Person -> [Contact -> {None, "held", "archived"}]]
    BY SyncedPoints DEF PeopleInv, SubmissionLeft
<1>6. people' = [people EXCEPT ![p] = new]
    BY <1>a
<1>8. HoldersOf(s.email) \subseteq {p}
    BY <1>4, HoldersAreCandidates
<1>7. /\ ActedBy' /\ OneHolder' /\ ReadsHold'
      /\ people' \in [Person -> PersonState] /\ people'[p] = new
      /\ \A q \in Person \ {p} : people'[q] = people[q]
    <2>1. ASSUME NEW e \in new.vals \cap Email PROVE HoldersOf(e) \subseteq {p}
        <3>1. CASE e \in people[p].vals
            BY <1>2, <2>1, <3>1, HeldAlone
        <3>2. CASE e \in Identifiers(s)
            BY <3>2, HoldersAreCandidates
        <3> QED BY <1>3, <2>1, <3>1, <3>2 DEF Filled
    <2>2. new.via \in new.vals \cup {None} /\ (new.state # None \/ new.at = None)
        <3>1. people[p].via \in people[p].vals \cup {None} /\ (people[p].state = None => people[p].at = None)
            BY <1>2 DEF PeopleInv, ActedBy
        <3>2. Writes(p, s) => s.email \in people[p].vals
            BY DEF Writes, HoldersOf
        <3> QED BY <1>3, <3>1, <3>2
    <2>3. people'[p] = new
        BY <1>2, <1>6 DEF PeopleInv, PeopleTyped
    <2>4. new # people[p] => KeysFree(new.vals, {})
        BY <1>2, <2>3
    <2>5. acting' = acting
        BY DEF SubmissionLeft
    <2> QED BY <1>2, <1>3, <1>5, <1>6, <2>1, <2>2, <2>4, <2>5, WrittenAlone
<1>9. s.act # None /\ Wrote(s) /\ p \in LivePeople => Writes(p, s)
    BY <1>8 DEF Wrote, Writes
<1> QED BY <1>1, <1>2, <1>3, <1>5, <1>7, <1>8, <1>9, SubmissionWritten DEF SubmissionLeft, Writes

\* consentWithoutPairing: the act alone reaches the holder of its email.
LEMMA SubmitOnlyConsents ==
    ASSUME PeopleInv, NEW s \in Submissions, SubmissionLeft(s), Candidates(s) # {},
           people' = [q \in Person |-> IF Writes(q, s) THEN WithConsent(people[q], s.act) ELSE people[q]],
           \A q \in Person : people'[q] # people[q] => KeysFree(people'[q].vals, {})
    PROVE  PeopleInv'
<1>1. s \in Forms /\ (s.act # None => s.act.email = s.email)
    BY FormsAre
<1>2. PICK p \in Person : HoldersOf(s.email) \subseteq {p}
    <2>1. CASE HoldersOf(s.email) = {}
        <3>1. PICK p : p \in Candidates(s)
            OBVIOUS
        <3>2. p \in Person
            BY <3>1, PeopleArePersons
        <3> QED BY <2>1, <3>2
    <2>2. CASE HoldersOf(s.email) # {}
        <3>1. PICK p : p \in HoldersOf(s.email)
            BY <2>2
        <3>2. p \in LivePeople /\ p \in Person /\ s.email \in people[p].vals \cap Email
            BY <1>1, <3>1 DEF HoldersOf, LivePeople, Forms
        <3> QED BY <3>2, HeldAlone
    <2> QED BY <2>1, <2>2
<1>3. points' \in [Person -> [Contact -> {None, "held", "archived"}]]
    BY SyncedPoints DEF PeopleInv, SubmissionLeft
<1>4. \A q \in Person \ {p} : people'[q] = people[q]
    BY <1>2 DEF Writes
<1>5. s.act # None /\ Wrote(s) /\ p \in LivePeople => Writes(p, s)
    BY <1>2 DEF Wrote, Writes
<1>6. acting' = acting
    BY DEF SubmissionLeft
<1>7. CASE ~Writes(p, s)
    <2>1. people' = people
        BY <1>4, <1>7 DEF PeopleInv, PeopleTyped
    <2>2. ActedBy' /\ OneHolder' /\ ReadsHold'
        BY <1>6, <2>1, NobodyIsWritten DEF PeopleInv
    <2> QED BY <1>1, <1>2, <1>3, <1>4, <1>5, <1>7, <2>1, <2>2, SubmissionWritten
            DEF SubmissionLeft, PeopleInv, PeopleTyped, LivePeople
<1>8. CASE Writes(p, s)
    <2>a. PICK new, act : act = s.act /\ new = WithConsent(people[p], act)
        OBVIOUS
    <2>1. act \in ConsentActs /\ act.email = s.email /\ s.email \in people[p].vals /\ p \in LivePeople
          /\ people[p] \in PersonState /\ people[p].status = "live"
        BY <1>1, <1>8, <2>a DEF Writes, Forms, HoldersOf, LivePeople, PeopleInv, PeopleTyped
    <2>2. /\ new \in PersonState /\ new.status = "live" /\ new.vals = people[p].vals
          /\ new.state = s.act.state /\ new.state # None /\ new.via = s.email
        BY <2>1, <2>a, ConsentOfPerson
    <2>3. people' = [people EXCEPT ![p] = new] /\ people'[p] = new
        BY <1>2, <1>8, <2>a DEF Writes, PeopleInv, PeopleTyped
    <2>4. \A e \in new.vals \cap Email : HoldersOf(e) \subseteq {p}
        BY <2>1, <2>2, HeldAlone
    <2>5. new # people[p] => KeysFree(new.vals, {})
        BY <2>3
    <2>6. ActedBy' /\ OneHolder' /\ ReadsHold' /\ people' \in [Person -> PersonState]
        BY <1>3, <1>6, <2>1, <2>2, <2>3, <2>4, <2>5, WrittenAlone
    <2> QED BY <1>1, <1>2, <1>3, <1>4, <1>5, <1>8, <2>1, <2>2, <2>3, <2>6, SubmissionWritten DEF SubmissionLeft, Writes
<1> QED BY <1>7, <1>8

LEMMA SubmitWritesStep ==
    ASSUME PeopleInv, SubmitWrites PROVE PeopleInv'
<1>s. PICK s : s = sub.s
    OBVIOUS
<1>p. PICK p : p = IF Candidates(s) = {} THEN Least(Fresh) ELSE CHOOSE q \in Active(s) : TRUE
    OBVIOUS
<1>n. PICK new : new = IF Candidates(s) = {} THEN NewPerson(s) ELSE Paired(p, s)
    OBVIOUS
<1>a. PICK after : after = IF Candidates(s) = {} \/ Certain(s) THEN [people EXCEPT ![p] = new]
                           ELSE [q \in Person |-> IF s.act # None /\ q \in HoldersOf(s.email) /\ ConsentWrites(s.act, people[q])
                                                  THEN WithConsent(people[q], s.act) ELSE people[q]]
    OBVIOUS
<1>1. /\ \A q \in Person : after[q] # people[q] => KeysFree(after[q].vals, {})
      /\ people' = after
      /\ sub # None /\ sub' = None /\ acting' = acting
      /\ points' = [q \in Person |-> Synced(q, people[q].vals, after[q].vals)]
      /\ entries' = IF s.act = None THEN entries ELSE SettleConsentSuppression(entries, s.act, Wrote(s))
      /\ waived' = IF s.act # None /\ s.act.state = "declined" THEN waived \ {s.email} ELSE waived
    BY <1>s, <1>p, <1>n, <1>a DEF SubmitWrites
<1>2. s \in Submissions
    BY <1>1, <1>s DEF PeopleInv, RoomForOne
<1>3. SubmissionLeft(s)
    BY <1>1, <1>s DEF SubmissionLeft
<1>4. \A q \in Person : people'[q] # people[q] => KeysFree(people'[q].vals, {})
    BY <1>1
<1>5. CASE Candidates(s) = {}
    <2>1. people' = [people EXCEPT ![Least(Fresh)] = NewPerson(s)]
        BY <1>1, <1>5, <1>p, <1>n, <1>a
    <2> QED BY <1>2, <1>3, <1>4, <1>5, <2>1, SubmitCreates
<1>6. CASE Candidates(s) # {} /\ Certain(s)
    <2>1. p \in Active(s) /\ Candidates(s) = {p}
        BY <1>6, <1>p DEF Certain, Candidates
    <2>2. people' = [people EXCEPT ![p] = Paired(p, s)]
        BY <1>1, <1>6, <1>n, <1>a
    <2> QED BY <1>2, <1>3, <1>4, <2>1, <2>2, SubmitPairs
<1>7. CASE Candidates(s) # {} /\ ~Certain(s)
    <2>1. people' = [q \in Person |-> IF Writes(q, s) THEN WithConsent(people[q], s.act) ELSE people[q]]
        BY <1>1, <1>7, <1>a DEF Writes
    <2> QED BY <1>2, <1>3, <1>4, <1>7, <2>1, SubmitOnlyConsents
<1> QED BY <1>5, <1>6, <1>7

LEMMA SubmitFindsStep ==
    ASSUME PeopleInv, NEW s \in Submissions, SubmitFinds(s) PROVE PeopleInv'
<1>1. UNCHANGED <<people, points, entries, waived, acting>> /\ (Candidates(s) = {} => Fresh # {}) /\ sub'.s = s
    BY DEF SubmitFinds
<1>2. Candidates(s)' = Candidates(s) /\ Fresh' = Fresh
    BY <1>1 DEF Candidates, Active, ArchivedHolders, MergedInto, HoldersOf, LivePeople, Fresh
<1>3. RoomForOne'
    <2>1. Candidates(sub.s)' = Candidates(sub'.s)
        BY <1>1 DEF Candidates, Active, ArchivedHolders, MergedInto, HoldersOf, LivePeople
    <2> QED BY <1>1, <1>2, <2>1 DEF RoomForOne
<1> QED BY <1>1, <1>3, PeopleStay

LEMMA PeopleStep ==
    ASSUME PeopleInv, ProposalsInv, [IntakeNext]_intakeVars PROVE PeopleInv'
<1>1. ASSUME UNCHANGED <<people, points, entries, waived>>, acting' \subseteq acting, sub' \in {sub, None}
      PROVE  PeopleInv'
    <2>1. RoomForOne'
        BY <1>1, RoomStays DEF PeopleInv
    <2> QED BY <1>1, <2>1, PeopleStay
<1>2. CASE UNCHANGED intakeVars
    BY <1>1, <1>2 DEF intakeVars
<1>3. CASE Submits
    <2>1. CASE SubmitFails
        BY <1>1, <2>1 DEF SubmitFails
    <2> QED BY <1>3, <2>1, SubmitFindsStep, SubmitWritesStep DEF Submits
<1>4. ASSUME NEW act \in Acts, NEW create \in BOOLEAN, ConsentReads(act, create) PROVE PeopleInv'
    BY <1>4, ConsentReadsStep
<1>5. ASSUME NEW c \in acting, ConsentFinishes(c) \/ ConsentFails(c) PROVE PeopleInv'
    <2>1. CASE ConsentFails(c)
        BY <1>1, <2>1 DEF ConsentFails
    <2> QED BY <1>5, <2>1, ConsentFinishesStep
<1>6. ASSUME NEW r \in 1 .. Len(rows), DecideReads(r) PROVE PeopleInv'
    BY <1>1, <1>6 DEF DecideReads
<1>7. ASSUME NEW d \in deciding, Decide(d) \/ DecideFails(d) PROVE PeopleInv'
    <2>1. CASE DecideFails(d)
        BY <1>1, <2>1 DEF DecideFails
    <2>2. CASE Decide(d)
        <3>1. UNCHANGED <<entries, sub, acting, waived>>
            BY <2>2 DEF Decide
        <3>2. CASE Reject(d)
            BY <1>1, <3>1, <3>2 DEF Reject
        <3> QED BY <2>2, <3>1, <3>2, ApproveAmendmentStep, ApproveMatchStep DEF Decide
    <2> QED BY <1>7, <2>1, <2>2
<1>8. ASSUME NEW p \in Person, NEW v \in Contact, UpdateValues(p, v) \/ ReplaceOthers(p, v) \/ RestoreValue(p, v)
      PROVE  PeopleInv'
    BY <1>8, UpdateValuesStep, ReplaceOthersStep, RestoreValueStep
<1>9. ASSUME NEW p \in Person, NEW q \in Person, Merge(p, q) PROVE PeopleInv'
    BY <1>9, MergeStep
<1>10. ASSUME NEW p \in Person, NEW suppress \in BOOLEAN, Erase(p, suppress) PROVE PeopleInv'
    BY <1>10, EraseStep
<1>11. ASSUME NEW e \in Email, Suppressions(e) \/ Expires(e) PROVE PeopleInv'
    BY <1>11, SuppressionsStep, ExpiresStep
<1> QED BY <1>2, <1>3, <1>4, <1>5, <1>6, <1>7, <1>8, <1>9, <1>10, <1>11 DEF IntakeNext

LEMMA PeopleInit == IntakeInit => PeopleInv
<1> SUFFICES ASSUME IntakeInit PROVE PeopleInv
    OBVIOUS
<1>1. /\ people \in [Person -> PersonState]
      /\ \A p \in Person :
           /\ people[p].via = None
           /\ people[p].state = None => people[p].at = None
           /\ \A q \in Person \ {p} : people[p].vals \cap people[q].vals \cap Email = {}
    BY IntakeAssumption DEF IntakeAssumption, IntakeInit
<1>2. PeopleTyped
    <2>1. NoPoints \in [Contact -> {None, "held", "archived"}] /\ NoEntries \in [Email -> [Channel -> Reasons]]
        BY DEF NoPoints, NoEntries, Reasons
    <2> QED BY <1>1, <2>1 DEF PeopleTyped, IntakeInit
<1>3. ActedBy /\ OneHolder
    BY <1>1 DEF ActedBy, OneHolder, HoldersOf, LivePeople
<1>4. RefusalsEntered
    <2>1. None \notin Email
        BY IntakeAssumption DEF IntakeAssumption, Contact
    <2> QED BY <1>1, <2>1 DEF RefusalsEntered, LivePeople
<1> QED BY <1>2, <1>3, <1>4 DEF PeopleInv, ReadsHold, RoomForOne, IntakeInit

LEMMA IntakeInvariant == IntakeSpec => [](PeopleInv /\ ProposalsInv)
<1>1. IntakeInit => PeopleInv /\ ProposalsInv
    BY PeopleInit, ProposalsInit
<1>2. PeopleInv /\ ProposalsInv /\ [IntakeNext]_intakeVars => (PeopleInv /\ ProposalsInv)'
    BY PeopleStep, ProposalsStep
<1> QED BY <1>1, <1>2, PTL DEF IntakeSpec

\* A person who declined by an email they have held ever since is suppressed for it, until a
\* colleague takes the entry away: acts, merges, forms and decisions that overlap leave it.
THEOREM RefusalsHold == IntakeSpec => []RefusalHolds
<1>1. PeopleInv => RefusalHolds
    <2> SUFFICES ASSUME PeopleInv, NEW p \in LivePeople, people[p].state = "declined", people[p].via \notin waived \cup {None}
                 PROVE  EmailSuppressed(entries, people[p].via)
        BY DEF RefusalHolds
    <2>1. people[p].via \in Email
        BY DEF PeopleInv, PeopleTyped, PersonState, LivePeople
    <2>2. Refused(people[p].via)
        BY <2>1 DEF PeopleInv, RefusalsEntered
    <2> QED BY <2>2 DEF Refused, EmailSuppressed, Channel
<1> QED BY <1>1, IntakeInvariant, PTL

-----------------------------------------------------------------------------
\* The consent a step leaves to a person: the same, by no act that counts, or by a newer one.
ConsentSame(p) == people'[p].at = people[p].at /\ people'[p].state = people[p].state
ConsentIsNewer(p) ==
    \/ people'[p].status # "live" \/ people'[p].via = None \/ people[p].at = None
    \/ ConsentSame(p)
    \/ people'[p].at > people[p].at

\* An act that may be written is newer than the time there is.
LEMMA WrittenIsNewer ==
    ASSUME PeopleInv, NEW p \in LivePeople, NEW act \in ConsentActs, ConsentWrites(act, people[p]), people[p].at # None
    PROVE  act.at > people[p].at
BY DEF PeopleInv, ActedBy, LivePeople, ConsentWrites, Supersedes

LEMMA ActIsNewer ==
    ASSUME PeopleInv, NEW c \in acting, ~Keeps(c), ConsentWritesRecord(c), NEW p \in LivePeople
    PROVE  ConsentIsNewer(p)
<1>a. PICK act, e, q : act = c.act /\ e = c.act.email /\ q = (IF c.on = None THEN Least(Fresh) ELSE c.on)
    OBVIOUS
<1>b. PICK old : old = IF c.on = None THEN [NoPerson EXCEPT !.status = "live", !.vals = {e}] ELSE people[q]
    OBVIOUS
<1>c. PICK new : new = WithConsent(old, act)
    OBVIOUS
<1>1. /\ people' = [people EXCEPT ![q] = new]
      /\ IF c.on = None THEN HoldersOf(e) = {} /\ Fresh # {} ELSE q \in LivePeople
    BY <1>a, <1>b, <1>c DEF ConsentWritesRecord
<1>2. act \in ConsentActs /\ e \in Email /\ act.email = e /\ ReadHolds(c)
    BY <1>a DEF PeopleInv, PeopleTyped, ActingState, ConsentActs, ReadsHold
<1>3. CASE p # q
    <2>1. people'[p] = people[p]
        BY <1>1, <1>3 DEF PeopleInv, PeopleTyped, LivePeople
    <2> QED BY <2>1 DEF ConsentIsNewer, ConsentSame
<1>4. CASE p = q
    <2>1. c.on # None /\ c.on = p /\ old = people[p] /\ old \in PersonState
        BY <1>1, <1>4, <1>a, <1>b, LeastFresh DEF PeopleInv, PeopleTyped, LivePeople
    <2>2. /\ people'[p] = new /\ new.at = act.at
          /\ new.via = IF e \in old.vals THEN e ELSE None
        BY <1>1, <1>2, <1>4, <1>c, <2>1, ConsentOfPerson DEF PeopleInv, PeopleTyped, LivePeople
    <2>3. CASE e \in old.vals
        <3>1. p \in HoldersOf(e) /\ c.writes
            BY <2>1, <2>3 DEF HoldersOf, Keeps
        <3>2. ConsentWrites(act, people[p])
            BY <1>2, <1>a, <2>1, <3>1 DEF ReadHolds
        <3>3. people[p].at # None => act.at > people[p].at
            BY <1>2, <3>2, WrittenIsNewer
        <3> QED BY <2>2, <3>3 DEF ConsentIsNewer
    <2>4. CASE e \notin old.vals
        BY <2>2, <2>4 DEF ConsentIsNewer
    <2> QED BY <2>3, <2>4
<1> QED BY <1>3, <1>4

\* A submission writes consent where its act may be written, and nowhere else.
LEMMA SubmissionIsNewer ==
    ASSUME PeopleInv, SubmitWrites, NEW p \in LivePeople
    PROVE  ConsentIsNewer(p)
<1>s. PICK s : s = sub.s
    OBVIOUS
<1>q. PICK q : q = IF Candidates(s) = {} THEN Least(Fresh) ELSE CHOOSE x \in Active(s) : TRUE
    OBVIOUS
<1>n. PICK new : new = IF Candidates(s) = {} THEN NewPerson(s) ELSE Paired(q, s)
    OBVIOUS
<1>1. /\ sub # None
      /\ people' = IF Candidates(s) = {} \/ Certain(s) THEN [people EXCEPT ![q] = new]
                   ELSE [x \in Person |-> IF s.act # None /\ x \in HoldersOf(s.email) /\ ConsentWrites(s.act, people[x])
                                          THEN WithConsent(people[x], s.act) ELSE people[x]]
    BY <1>s, <1>q, <1>n DEF SubmitWrites
<1>2. s \in Submissions /\ (Candidates(s) = {} => Fresh # {})
    BY <1>1, <1>s DEF PeopleInv, RoomForOne
<1>3. s \in Forms /\ (s.act # None => s.act.email = s.email) /\ (s.act # None => s.act \in ConsentActs)
    BY <1>2, FormsAre DEF Forms
<1>4. p \in Person /\ people[p] \in PersonState
    BY DEF PeopleInv, PeopleTyped, LivePeople
<1>5. ASSUME Writes(p, s), people'[p].at = s.act.at PROVE ConsentIsNewer(p)
    <2>1. people[p].at # None => s.act.at > people[p].at
        BY <1>3, <1>5, WrittenIsNewer DEF Writes
    <2> QED BY <1>5, <2>1 DEF ConsentIsNewer
<1>6. ASSUME people'[p] = people[p] PROVE ConsentIsNewer(p)
    BY <1>6 DEF ConsentIsNewer, ConsentSame
<1>7. CASE Candidates(s) = {} \/ Certain(s)
    <2>1. people' = [people EXCEPT ![q] = new]
        BY <1>1, <1>7
    <2>2. CASE p # q
        BY <1>4, <1>6, <2>1, <2>2 DEF PeopleInv, PeopleTyped
    <2>3. CASE p = q
        <3>1. Candidates(s) # {}
            BY <1>2, <1>q, <2>3, LeastFresh
        <3>2. people'[p] = Paired(p, s)
            BY <1>4, <1>n, <2>1, <2>3, <3>1 DEF PeopleInv, PeopleTyped
        <3>a. PICK x : x = Paired(p, s)
            OBVIOUS
        <3>3. IF Writes(p, s) THEN x.at = s.act.at ELSE x.state = people[p].state /\ x.at = people[p].at
            BY <1>3, <1>4, <3>a, PairOfForm DEF PeopleInv
        <3> QED BY <1>5, <3>2, <3>3, <3>a DEF ConsentIsNewer, ConsentSame
    <2> QED BY <2>2, <2>3
<1>8. CASE ~(Candidates(s) = {} \/ Certain(s))
    <2>1. people'[p] = IF Writes(p, s) THEN WithConsent(people[p], s.act) ELSE people[p]
        BY <1>1, <1>4, <1>8 DEF Writes
    <2>2. CASE ~Writes(p, s)
        BY <1>6, <2>1, <2>2
    <2>3. CASE Writes(p, s)
        <3>a. PICK act, x : act = s.act /\ x = WithConsent(people[p], act)
            OBVIOUS
        <3>1. act \in ConsentActs
            BY <1>3, <2>3, <3>a DEF Writes
        <3>2. x.at = act.at
            BY <1>4, <3>1, <3>a, ConsentOfPerson
        <3> QED BY <1>5, <2>1, <2>3, <3>2, <3>a
    <2> QED BY <2>2, <2>3
<1> QED BY <1>7, <1>8

LEMMA ApprovalKeepsConsent ==
    ASSUME PeopleInv, ProposalsInv, NEW d \in deciding, ApproveAmendment(d) \/ ApproveMatch(d), NEW p \in LivePeople
    PROVE  ConsentIsNewer(p)
<1>0. p \in Person /\ people[p] \in PersonState /\ people \in [Person -> PersonState]
    BY DEF PeopleInv, PeopleTyped, LivePeople
<1>1. CASE ApproveAmendment(d)
    <2>1. people' = [people EXCEPT ![rows[d.row].on].name = rows[d.row].value]
        BY <1>1 DEF ApproveAmendment
    <2> QED BY <1>0, <2>1 DEF ConsentIsNewer, ConsentSame, PersonState
<1>2. CASE ApproveMatch(d)
    <2>a. PICK s : s = [rows[d.row].sub EXCEPT !.act = None]
        OBVIOUS
    <2>b. PICK q : q = (IF d.with = None THEN Least(Fresh) ELSE d.with)
        OBVIOUS
    <2>c. PICK new : new = (IF d.with = None THEN NewPerson(s) ELSE Paired(q, s))
        OBVIOUS
    <2>1. /\ rows[d.row].on = None
          /\ d.with = None => Fresh # {}
          /\ people' = [people EXCEPT ![q] = new]
        BY <1>2, <2>a, <2>b, <2>c DEF ApproveMatch
    <2>2. s \in Forms /\ s.act = None
        BY <2>1, <2>a, StoredForm
    <2>3. CASE p # q
        BY <1>0, <2>1, <2>3 DEF ConsentIsNewer, ConsentSame
    <2>4. CASE p = q
        <3>1. d.with # None
            BY <2>1, <2>b, <2>4, LeastFresh
        <3>2. people'[p] = new /\ new = Paired(p, s)
            BY <1>0, <2>1, <2>4, <2>c, <3>1
        <3>3. new.state = people[p].state /\ new.at = people[p].at
            BY <1>0, <2>2, <3>2, PairOfForm DEF PeopleInv, Writes
        <3> QED BY <3>2, <3>3 DEF ConsentIsNewer, ConsentSame
    <2> QED BY <2>3, <2>4
<1> QED BY <1>1, <1>2

LEMMA EditKeepsConsent ==
    ASSUME PeopleInv, NEW q \in Person, NEW vals, SetValues(q, vals), NEW p \in LivePeople
    PROVE  ConsentIsNewer(p)
<1>1. p \in Person /\ people[p] \in PersonState /\ people \in [Person -> PersonState]
    BY DEF PeopleInv, PeopleTyped, LivePeople
<1>a. PICK via : via = StillVia(people[q].via, vals)
    OBVIOUS
<1>2. people' = [people EXCEPT ![q].vals = vals, ![q].via = via]
    BY <1>1, <1>a DEF SetValues, PersonState
<1> QED BY <1>1, <1>2 DEF ConsentIsNewer, ConsentSame, PersonState

LEMMA MergeKeepsConsent ==
    ASSUME PeopleInv, NEW l \in Person, NEW s \in Person, Merge(l, s), NEW p \in LivePeople
    PROVE  ConsentIsNewer(p)
<1>a. PICK kept, lost : kept = people[s] /\ lost = people[l]
    OBVIOUS
<1>b. PICK new : new = Joined(kept, lost)
    OBVIOUS
<1>1. /\ people' = [x \in Person |->
           IF x = s THEN new
           ELSE IF x = l THEN [people[l] EXCEPT !.status = "merged", !.into = s]
           ELSE IF people[x].into = l THEN [people[x] EXCEPT !.into = s]
           ELSE people[x]]
      /\ p \in Person /\ people[p] \in PersonState /\ kept \in PersonState /\ lost \in PersonState
    BY <1>a, <1>b DEF Merge, PeopleInv, PeopleTyped, LivePeople
<1>2. CASE p = s
    <2>1. people'[p] = new /\ kept = people[p]
        BY <1>1, <1>2, <1>a
    <2>2. kept.at # None => kept.state # None
        BY <1>a DEF PeopleInv, ActedBy
    <2>3. kept.at # None => new.at = kept.at /\ new.state = kept.state
        BY <1>1, <1>b, <2>2 DEF Joined, PersonState
    <2> QED BY <2>1, <2>3 DEF ConsentIsNewer, ConsentSame
<1>3. CASE p # s
    <2>1. people'[p].at = people[p].at /\ people'[p].state = people[p].state
        BY <1>1, <1>3, <1>a DEF PersonState
    <2> QED BY <2>1 DEF ConsentIsNewer, ConsentSame
<1> QED BY <1>2, <1>3

LEMMA NewerStep ==
    ASSUME PeopleInv, ProposalsInv, [IntakeNext]_intakeVars, NEW p \in LivePeople PROVE ConsentIsNewer(p)
<1>1. ASSUME people' = people PROVE ConsentIsNewer(p)
    BY <1>1 DEF ConsentIsNewer, ConsentSame
<1>2. CASE UNCHANGED intakeVars
    BY <1>1, <1>2 DEF intakeVars
<1>3. CASE Submits
    BY <1>1, <1>3, SubmissionIsNewer DEF Submits, SubmitFails, SubmitFinds
<1>4. ASSUME NEW act \in Acts, NEW create \in BOOLEAN, ConsentReads(act, create) PROVE ConsentIsNewer(p)
    BY <1>1, <1>4 DEF ConsentReads
<1>5. ASSUME NEW c \in acting, ConsentFinishes(c) \/ ConsentFails(c) PROVE ConsentIsNewer(p)
    <2>1. people' = people \/ (~Keeps(c) /\ ConsentWritesRecord(c))
        BY <1>5 DEF ConsentFinishes, ConsentFails
    <2> QED BY <1>1, <2>1, ActIsNewer
<1>6. ASSUME NEW r \in 1 .. Len(rows), DecideReads(r) PROVE ConsentIsNewer(p)
    BY <1>1, <1>6 DEF DecideReads
<1>7. ASSUME NEW d \in deciding, Decide(d) \/ DecideFails(d) PROVE ConsentIsNewer(p)
    <2>1. people' = people \/ ApproveAmendment(d) \/ ApproveMatch(d)
        BY <1>7 DEF Decide, DecideFails, Reject
    <2> QED BY <1>1, <2>1, ApprovalKeepsConsent
<1>8. ASSUME NEW q \in Person, NEW v \in Contact, UpdateValues(q, v) \/ ReplaceOthers(q, v) \/ RestoreValue(q, v)
      PROVE  ConsentIsNewer(p)
    <2>1. \E vals : SetValues(q, vals)
        BY <1>8 DEF UpdateValues, ReplaceOthers, RestoreValue
    <2> QED BY <2>1, EditKeepsConsent
<1>9. ASSUME NEW l \in Person, NEW q \in Person, Merge(l, q) PROVE ConsentIsNewer(p)
    BY <1>9, MergeKeepsConsent
<1>10. ASSUME NEW q \in Person, NEW suppress \in BOOLEAN, Erase(q, suppress) PROVE ConsentIsNewer(p)
    <2>1. people' = [people EXCEPT ![q] = [NoPerson EXCEPT !.status = "erased"]]
        BY <1>10 DEF Erase
    <2>2. people'[p] = people[p] \/ people'[p].status = "erased"
        BY <2>1 DEF PeopleInv, PeopleTyped, LivePeople, NoPerson
    <2> QED BY <2>2 DEF ConsentIsNewer, ConsentSame
<1>11. ASSUME NEW e \in Email, Suppressions(e) \/ Expires(e) PROVE ConsentIsNewer(p)
    BY <1>1, <1>11 DEF Suppressions, Expires
<1> QED BY <1>2, <1>3, <1>4, <1>5, <1>6, <1>7, <1>8, <1>9, <1>10, <1>11 DEF IntakeNext

\* The consent of a person changes by newer acts only, although calls about two emails they hold
\* read it at the same time: each call holds the lock of its email from what it read to its write.
THEOREM NewestActsWin == IntakeSpec => NewestActWins
<1>1. PeopleInv /\ ProposalsInv /\ [IntakeNext]_intakeVars
      => [\A p \in LivePeople :
          /\ people'[p].status = "live" /\ people'[p].via # None
          /\ people[p].at # None
          /\ people'[p].at # people[p].at \/ people'[p].state # people[p].state
          => people'[p].at > people[p].at]_intakeVars
    BY NewerStep DEF ConsentIsNewer, ConsentSame
<1> QED BY <1>1, IntakeInvariant, PTL DEF IntakeSpec, NewestActWins

-----------------------------------------------------------------------------
\* Nothing is left of an erased person, and what is about to be placed names living people only.
ErasedForgotten == \A p \in Person : people[p].status = "erased" => Forgets(Store, p) /\ points[p] = NoPoints
PlacesLiving == sub # None /\ sub.new # None => \A q : About(sub.new, q) => q \in LivePeople \cup {None}
ErasedInv == ErasedForgotten /\ PlacesLiving

\* No step but an erasure makes an erased person, or touches one.
Untouched(p) == people'[p].status = "erased" => people[p].status = "erased" /\ points'[p] = points[p]

LEMMA ErasedStay ==
    ASSUME ErasedInv, \A p \in Person : Untouched(p), PlacesLiving',
           \A p \in Person : people[p].status = "erased" /\ Forgets(Store, p) => Forgets(Store', p)
    PROVE  ErasedInv'
BY DEF ErasedInv, ErasedForgotten, Untouched

LEMMA ErasedAside ==
    ASSUME ErasedInv, UNCHANGED <<rows>>, \A p \in Person : Untouched(p),
           sub' # None => sub' = sub /\ people' = people
    PROVE  ErasedInv'
<1>1. PlacesLiving'
    BY DEF ErasedInv, PlacesLiving, LivePeople
<1>2. \A p : Forgets(Store, p) => Forgets(Store', p)
    BY DEF Forgets, Store
<1> QED BY <1>1, <1>2, ErasedStay

LEMMA SubmitFindsForgotten ==
    ASSUME PeopleInv, ErasedInv, NEW s \in Submissions, SubmitFinds(s) PROVE ErasedInv'
<1>a. PICK new : new = Leaves(s)
    OBVIOUS
<1>1. sub'.s = s /\ sub'.new = new /\ UNCHANGED <<people, points, rows, order>>
    BY <1>a DEF SubmitFinds
<1>2. Candidates(s) \subseteq LivePeople
    BY DEF Candidates, Active, HoldersOf, ArchivedHolders
<1>3. PlacesLiving'
    BY <1>1, <1>2, <1>a, LeavesRow DEF PlacesLiving, LivePeople
<1>4. \A p : Forgets(Store, p) => Forgets(Store', p)
    BY <1>1 DEF Forgets, Store
<1>5. \A p \in Person : Untouched(p)
    BY <1>1 DEF Untouched
<1> QED BY <1>3, <1>4, <1>5, ErasedStay

\* A value that stays keeps its contact point.
LEMMA SyncedSame ==
    ASSUME PeopleTyped, NEW p \in Person, NEW vals
    PROVE  Synced(p, vals, vals) = points[p]
BY DEF PeopleTyped, Synced

LEMMA SubmitWritesForgotten ==
    ASSUME PeopleInv, ProposalsInv, ErasedInv, SubmitWrites PROVE ErasedInv'
<1>s. PICK s : s = sub.s
    OBVIOUS
<1>q. PICK q : q = IF Candidates(s) = {} THEN Least(Fresh) ELSE CHOOSE x \in Active(s) : TRUE
    OBVIOUS
<1>n. PICK new : new = IF Candidates(s) = {} THEN NewPerson(s) ELSE Paired(q, s)
    OBVIOUS
<1>a. PICK after : after = IF Candidates(s) = {} \/ Certain(s) THEN [people EXCEPT ![q] = new]
                           ELSE [x \in Person |-> IF s.act # None /\ x \in HoldersOf(s.email) /\ ConsentWrites(s.act, people[x])
                                                  THEN WithConsent(people[x], s.act) ELSE people[x]]
    OBVIOUS
<1>1. /\ sub # None /\ sub' = None /\ people' = after
      /\ points' = [x \in Person |-> Synced(x, people[x].vals, after[x].vals)]
    BY <1>s, <1>q, <1>n, <1>a DEF SubmitWrites
<1>2. s \in Submissions /\ (Candidates(s) = {} => Fresh # {})
    BY <1>1, <1>s DEF PeopleInv, RoomForOne
<1>3. s \in Forms /\ (s.act # None => s.act.email = s.email) /\ (s.act # None => s.act \in ConsentActs)
    BY <1>2, FormsAre DEF Forms
<1>4. ASSUME NEW p \in Person PROVE after[p] = people[p] \/ after[p].status = "live"
    <2>0. people[p] \in PersonState /\ people \in [Person -> PersonState]
        BY DEF PeopleInv, PeopleTyped
    <2>1. CASE (Candidates(s) = {} \/ Certain(s)) /\ p # q
        BY <1>4, <1>a, <2>0, <2>1
    <2>2. CASE (Candidates(s) = {} \/ Certain(s)) /\ p = q
        <3>1. after[p] = new
            BY <1>4, <1>a, <2>0, <2>2
        <3>2. CASE Candidates(s) = {}
            BY <1>3, <1>n, <3>1, <3>2, PersonOfForm DEF PeopleInv
        <3>3. CASE Candidates(s) # {}
            <4>1. p \in Active(s)
                BY <1>q, <2>2, <3>3 DEF Certain
            <4>2. people[p].status = "live" /\ new = Paired(p, s)
                BY <1>n, <2>2, <3>3, <4>1 DEF Active, HoldersOf, LivePeople
            <4>3. new.status = people[p].status
                BY <1>3, <4>2, PairOfForm DEF PeopleInv
            <4> QED BY <3>1, <4>2, <4>3
        <3> QED BY <3>2, <3>3
    <2>3. CASE ~(Candidates(s) = {} \/ Certain(s))
        <3>a. PICK x : x = WithConsent(people[p], s.act)
            OBVIOUS
        <3>1. after[p] = people[p] \/ (s.act # None /\ p \in HoldersOf(s.email) /\ after[p] = x)
            BY <1>4, <1>a, <2>3, <3>a
        <3>2. s.act # None /\ p \in HoldersOf(s.email) => x.status = "live"
            BY <1>3, <2>0, <3>a, ConsentOfPerson DEF HoldersOf, LivePeople
        <3> QED BY <3>1, <3>2
    <2> QED BY <2>1, <2>2, <2>3
<1>5. ASSUME NEW p \in Person PROVE Untouched(p)
    <2>1. points'[p] = Synced(p, people[p].vals, after[p].vals)
        BY <1>1
    <2> QED BY <1>1, <1>4, <2>1, SyncedSame DEF Untouched, PeopleInv
<1>6. PlacesLiving'
    BY <1>1 DEF PlacesLiving
<1>7. \A p \in Person : people[p].status = "erased" /\ Forgets(Store, p) => Forgets(Store', p)
    <2>1. None \notin Person
        BY IntakeAssumption DEF IntakeAssumption
    <2>2. \A p \in Person : people[p].status = "erased" /\ sub.new # None => ~About(sub.new, p)
        BY <1>1, <2>1 DEF ErasedInv, PlacesLiving, LivePeople
    <2> QED BY <2>2, SubmitWritesRows
<1> QED BY <1>5, <1>6, <1>7, ErasedStay

LEMMA DecideForgotten ==
    ASSUME PeopleInv, ProposalsInv, ErasedInv, NEW d \in deciding, Decide(d) PROVE ErasedInv'
<1>0. /\ deciding' \subseteq deciding /\ sub' = sub /\ None \notin Person
      /\ people \in [Person -> PersonState] /\ points \in [Person -> [Contact -> {None, "held", "archived"}]]
    BY IntakeAssumption DEF Decide, IntakeAssumption, PeopleInv, PeopleTyped
<1>1. CASE Reject(d)
    <2>1. UNCHANGED <<people, points>>
        BY <1>1 DEF Reject
    <2>2. \A p \in Person : Forgets(Store, p) => Forgets(Store', p)
        BY <1>0, <1>1, RejectRows
    <2>3. PlacesLiving' /\ \A p \in Person : Untouched(p)
        BY <1>0, <2>1 DEF ErasedInv, PlacesLiving, LivePeople, Untouched
    <2> QED BY <2>2, <2>3, ErasedStay
<1>2. CASE ApproveAmendment(d)
    <2>a. PICK q : q = rows[d.row].on
        OBVIOUS
    <2>1. sub = None /\ points' = points /\ people' = [people EXCEPT ![q].name = rows[d.row].value]
        BY <1>2, <2>a DEF ApproveAmendment
    <2>2. \A p \in Person : Untouched(p)
        BY <1>0, <2>1 DEF Untouched, PersonState
    <2>3. Open(Store, d.row) /\ \A p : Forgets(Store, p) /\ p # q => Forgets(Store', p)
        BY <1>0, <1>2, <2>a, ApproveAmendmentRows
    <2>4. ~Forgets(Store, q)
        <3>1. d.row \in 1 .. Len(Store.rows) /\ Store.rows = rows
            BY StoreIs DEF ProposalsInv, DecidesRows
        <3>2. Store.rows[d.row].status # "gone" /\ About(Store.rows[d.row], q)
            BY <2>3, <2>a, <3>1 DEF Open, About
        <3> QED BY <3>1, <3>2 DEF Forgets
    <2>5. PlacesLiving'
        BY <1>0, <2>1 DEF PlacesLiving
    <2> QED BY <2>2, <2>3, <2>4, <2>5, ErasedStay
<1>3. CASE ApproveMatch(d)
    <2>a. PICK s : s = [rows[d.row].sub EXCEPT !.act = None]
        OBVIOUS
    <2>b. PICK q : q = (IF d.with = None THEN Least(Fresh) ELSE d.with)
        OBVIOUS
    <2>c. PICK new : new = (IF d.with = None THEN NewPerson(s) ELSE Paired(q, s))
        OBVIOUS
    <2>d. PICK row : row = Synced(q, people[q].vals, new.vals)
        OBVIOUS
    <2>1. /\ rows[d.row].on = None /\ sub = None
          /\ IF d.with = None THEN Fresh # {} ELSE q \in LivePeople
          /\ people' = [people EXCEPT ![q] = new] /\ points' = [points EXCEPT ![q] = row]
        BY <1>3, <2>a, <2>b, <2>c, <2>d DEF ApproveMatch
    <2>2. s \in Forms /\ s.act = None
        BY <2>1, <2>a, StoredForm
    <2>3. q \in Person /\ people[q].status \in {"live", "absent"}
        BY <2>1, <2>b, LeastFresh DEF LivePeople, Fresh
    <2>4. new.status = "live"
        BY <2>1, <2>2, <2>3, <2>c, PersonOfForm, PairOfForm DEF PeopleInv, LivePeople
    <2>5. \A p \in Person : Untouched(p)
        BY <1>0, <2>1, <2>4 DEF Untouched
    <2>6. \A p : Forgets(Store, p) /\ p # None /\ p # q => Forgets(Store', p)
        BY <1>0, <1>3, <2>b, ApproveMatchRows
    <2>7. PlacesLiving'
        BY <1>0, <2>1 DEF PlacesLiving
    <2>8. \A p \in Person : people[p].status = "erased" => p # q /\ p # None
        BY <1>0, <2>3
    <2> QED BY <2>5, <2>6, <2>7, <2>8, ErasedStay
<1> QED BY <1>1, <1>2, <1>3 DEF Decide

LEMMA EraseForgets ==
    ASSUME PeopleInv, ProposalsInv, ErasedInv, NEW p \in Person, NEW suppress \in BOOLEAN, Erase(p, suppress)
    PROVE  ErasedInv'
<1>1. /\ sub' = None
      /\ people' = [people EXCEPT ![p] = [NoPerson EXCEPT !.status = "erased"]]
      /\ points' = [points EXCEPT ![p] = NoPoints]
    BY DEF Erase, Edit
<1>2. PlacesLiving'
    BY <1>1 DEF PlacesLiving
<1>3. /\ Len(rows') = Len(rows)
      /\ \A r \in 1 .. Len(rows) : rows'[r] = IF About(rows[r], p) THEN [rows[r] EXCEPT !.status = "gone"] ELSE rows[r]
    BY EraseRows DEF About, HoldsValuesOf
<1>4. \A r \in 1 .. Len(rows) : /\ About(rows[r], p) => rows'[r].status = "gone"
                                /\ ~About(rows[r], p) => rows'[r] = rows[r]
    <2> SUFFICES ASSUME NEW r \in 1 .. Len(rows)
                 PROVE  /\ About(rows[r], p) => rows'[r].status = "gone"
                        /\ ~About(rows[r], p) => rows'[r] = rows[r]
        OBVIOUS
    <2>a. PICK old, x : old = rows[r] /\ x = [old EXCEPT !.status = "gone"]
        OBVIOUS
    <2>1. old \in Row
        BY <2>a, StoreIs DEF ProposalsInv, RowsInOrder
    <2>2. x.status = "gone"
        BY <2>1, <2>a DEF Row
    <2> QED BY <1>3, <2>2, <2>a
<1>5. ASSUME NEW q \in Person, people'[q].status = "erased" PROVE Forgets(Store, q)' /\ points'[q] = NoPoints
    <2>1. CASE q = p
        <3>1. Forgets(Store', p)
            BY <1>3, <1>4 DEF Forgets, Store
        <3>2. points'[p] = NoPoints
            BY <1>1 DEF PeopleInv, PeopleTyped
        <3> QED BY <2>1, <3>1, <3>2
    <2>2. CASE q # p
        <3>1. people[q].status = "erased" /\ points'[q] = points[q]
            BY <1>1, <1>5, <2>2 DEF PeopleInv, PeopleTyped
        <3>2. Forgets(Store, q) /\ points[q] = NoPoints
            BY <3>1 DEF ErasedInv, ErasedForgotten
        <3>3. Forgets(Store', q)
            BY <1>3, <1>4, <3>2 DEF Forgets, Store
        <3> QED BY <3>1, <3>2, <3>3
    <2> QED BY <2>1, <2>2
<1> QED BY <1>2, <1>5 DEF ErasedInv, ErasedForgotten

LEMMA EditsForget ==
    ASSUME PeopleInv, ErasedInv, NEW p \in Person, NEW v \in Contact,
           UpdateValues(p, v) \/ ReplaceOthers(p, v) \/ RestoreValue(p, v)
    PROVE  ErasedInv'
<1>1. PICK vals : SetValues(p, vals)
    BY DEF UpdateValues, ReplaceOthers, RestoreValue
<1>2. p \in LivePeople /\ sub' = None /\ rows' = rows
    BY DEF UpdateValues, ReplaceOthers, RestoreValue, Edit, SetValues
<1>3. people' = [people EXCEPT ![p].vals = vals, ![p].via = StillVia(people[p].via, vals)]
    BY <1>1 DEF SetValues, PeopleInv, PeopleTyped, PersonState
<1>4. \A q \in Person \ {p} : points'[q] = points[q]
    BY DEF UpdateValues, ReplaceOthers, RestoreValue, PeopleInv, PeopleTyped
<1>5. \A q \in Person : Untouched(q)
    BY <1>2, <1>3, <1>4 DEF Untouched, LivePeople, PeopleInv, PeopleTyped, PersonState
<1> QED BY <1>2, <1>5, ErasedAside

LEMMA ErasedStep ==
    ASSUME PeopleInv, ProposalsInv, ErasedInv, [IntakeNext]_intakeVars PROVE ErasedInv'
<1>1. ASSUME UNCHANGED <<people, points, rows>>, sub' \in {sub, None}
      PROVE  ErasedInv'
    <2>1. \A p \in Person : Untouched(p)
        BY <1>1 DEF Untouched
    <2> QED BY <1>1, <2>1, ErasedAside
<1>2. CASE UNCHANGED intakeVars
    BY <1>1, <1>2 DEF intakeVars
<1>3. CASE Submits
    BY <1>1, <1>3, SubmitFindsForgotten, SubmitWritesForgotten DEF Submits, SubmitFails
<1>4. ASSUME NEW act \in Acts, NEW create \in BOOLEAN, ConsentReads(act, create) PROVE ErasedInv'
    BY <1>1, <1>4 DEF ConsentReads
<1>5. ASSUME NEW c \in acting, ConsentFinishes(c) \/ ConsentFails(c) PROVE ErasedInv'
    <2>1. UNCHANGED <<points, rows, sub>>
        BY <1>5 DEF ConsentFinishes, ConsentFails
    <2>2. CASE people' = people
        BY <1>1, <2>1, <2>2
    <2>3. CASE ConsentWritesRecord(c)
        <3>a. PICK act, e, q : act = c.act /\ e = c.act.email /\ q = (IF c.on = None THEN Least(Fresh) ELSE c.on)
            OBVIOUS
        <3>b. PICK old : old = IF c.on = None THEN [NoPerson EXCEPT !.status = "live", !.vals = {e}] ELSE people[q]
            OBVIOUS
        <3>c. PICK new : new = WithConsent(old, act)
            OBVIOUS
        <3>1. /\ sub = None /\ people' = [people EXCEPT ![q] = new]
              /\ c.on # None => q \in LivePeople
            BY <2>3, <3>a, <3>b, <3>c DEF ConsentWritesRecord
        <3>2. new.status = "live"
            <4>1. old.status = "live"
                BY <3>1, <3>b DEF NoPerson, LivePeople
            <4> QED BY <3>c, <4>1 DEF WithConsent
        <3>3. \A p \in Person : Untouched(p)
            BY <2>1, <3>1, <3>2 DEF Untouched, PeopleInv, PeopleTyped
        <3> QED BY <2>1, <3>1, <3>3, ErasedAside
    <2> QED BY <1>5, <2>2, <2>3 DEF ConsentFinishes, ConsentFails
<1>6. ASSUME NEW r \in 1 .. Len(rows), DecideReads(r) PROVE ErasedInv'
    BY <1>1, <1>6 DEF DecideReads
<1>7. ASSUME NEW d \in deciding, Decide(d) \/ DecideFails(d) PROVE ErasedInv'
    BY <1>1, <1>7, DecideForgotten DEF DecideFails
<1>8. ASSUME NEW p \in Person, NEW v \in Contact, UpdateValues(p, v) \/ ReplaceOthers(p, v) \/ RestoreValue(p, v)
      PROVE  ErasedInv'
    BY <1>8, EditsForget
<1>9. ASSUME NEW l \in Person, NEW s \in Person, Merge(l, s) PROVE ErasedInv'
    <2>a. PICK new : new = Joined(people[s], people[l])
        OBVIOUS
    <2>1. /\ people' = [x \in Person |->
               IF x = s THEN new
               ELSE IF x = l THEN [people[l] EXCEPT !.status = "merged", !.into = s]
               ELSE IF people[x].into = l THEN [people[x] EXCEPT !.into = s]
               ELSE people[x]]
          /\ sub' = None /\ UNCHANGED <<points, rows>> /\ people[s].status = "live"
        BY <1>9, <2>a DEF Merge, Edit, LivePeople
    <2>2. new.status = "live"
        BY <2>1, <2>a DEF Joined, PeopleInv, PeopleTyped, PersonState
    <2>3. \A p \in Person : Untouched(p)
        BY <2>1, <2>2 DEF Untouched, PeopleInv, PeopleTyped, PersonState
    <2> QED BY <2>1, <2>3, ErasedAside
<1>10. ASSUME NEW p \in Person, NEW suppress \in BOOLEAN, Erase(p, suppress) PROVE ErasedInv'
    BY <1>10, EraseForgets
<1>11. ASSUME NEW e \in Email, Suppressions(e) \/ Expires(e) PROVE ErasedInv'
    BY <1>1, <1>11 DEF Suppressions, Expires
<1> QED BY <1>2, <1>3, <1>4, <1>5, <1>6, <1>7, <1>8, <1>9, <1>10, <1>11 DEF IntakeNext

\* When a person is erased no proposal holds values submitted about them and none comes back: what
\* a submission that is under way will place names people who live, and whoever is named stays
\* until it is written.
THEOREM ErasedStayForgotten == IntakeSpec => []ErasedLeavesNothing
<1>1. IntakeInit => ErasedInv
    <2> SUFFICES ASSUME IntakeInit PROVE ErasedInv
        OBVIOUS
    <2>1. \A p \in Person : people[p].status # "erased"
        BY IntakeAssumption DEF IntakeAssumption, IntakeInit
    <2> QED BY <2>1 DEF ErasedInv, ErasedForgotten, PlacesLiving, IntakeInit
<1>2. PeopleInv /\ ProposalsInv /\ ErasedInv /\ [IntakeNext]_intakeVars => ErasedInv'
    BY ErasedStep
<1>3. ErasedInv => ErasedLeavesNothing
    BY DEF ErasedInv, ErasedForgotten, Forgets, About, ErasedLeavesNothing, Store
<1> QED BY <1>1, <1>2, <1>3, IntakeInvariant, PTL DEF IntakeSpec

-----------------------------------------------------------------------------
\* A submission takes nothing away from anybody, and brings back no email or phone that was archived
\* on the person or on a record merged into them.
THEOREM SubmissionsAdd == IntakeSpec => SubmissionsOnlyAdd
<1>1. ASSUME PeopleInv, SubmitWrites, NEW p \in LivePeople
      PROVE  /\ people[p].vals \subseteq people'[p].vals
             /\ people[p].name \in {None, people'[p].name}
             /\ \A v \in people'[p].vals \ people[p].vals, t \in {p} \cup MergedInto(p) :
                  points[t][v] = "archived" => points[p][v] = "held"
    <2>s. PICK s : s = sub.s
        OBVIOUS
    <2>q. PICK q : q = IF Candidates(s) = {} THEN Least(Fresh) ELSE CHOOSE x \in Active(s) : TRUE
        OBVIOUS
    <2>n. PICK new : new = IF Candidates(s) = {} THEN NewPerson(s) ELSE Paired(q, s)
        OBVIOUS
    <2>1. /\ sub # None
          /\ people' = IF Candidates(s) = {} \/ Certain(s) THEN [people EXCEPT ![q] = new]
                       ELSE [x \in Person |-> IF s.act # None /\ x \in HoldersOf(s.email) /\ ConsentWrites(s.act, people[x])
                                              THEN WithConsent(people[x], s.act) ELSE people[x]]
        BY <1>1, <2>s, <2>q, <2>n DEF SubmitWrites
    <2>2. s \in Submissions /\ (Candidates(s) = {} => Fresh # {})
        BY <1>1, <2>1, <2>s DEF PeopleInv, RoomForOne
    <2>3. s \in Forms /\ (s.act # None => s.act.email = s.email) /\ (s.act # None => s.act \in ConsentActs)
        BY <2>2, FormsAre DEF Forms
    <2>4. p \in Person /\ people[p] \in PersonState /\ people \in [Person -> PersonState]
        BY <1>1 DEF PeopleInv, PeopleTyped, LivePeople
    <2>5. CASE (Candidates(s) = {} \/ Certain(s)) /\ p = q
        <3>1. Candidates(s) # {} /\ new = Paired(p, s) /\ people'[p] = new
            BY <2>1, <2>2, <2>4, <2>5, <2>n, <2>q, <1>1, LeastFresh
        <3>2. new.vals = Filled(p, s)
            BY <1>1, <2>3, <2>4, <3>1, PairOfForm DEF PeopleInv
        <3>3. people[p].name # None => new.name = people[p].name
            <4>a. PICK y, name : name = (IF people[p].name = None THEN s.name ELSE people[p].name)
                             /\ y = [people[p] EXCEPT !.vals = Filled(p, s), !.name = name]
                OBVIOUS
            <4>1. y \in [status : {"absent", "live", "merged", "erased"}, into : Person \cup {None},
                         vals : {Filled(p, s)}, name : {name}, state : ConsentStates \cup {None},
                         at : Nat \cup {None}, via : Email \cup {None}]
                BY <2>4, <4>a DEF PersonState
            <4>b. PICK old, vals : old = people[p] /\ vals = Filled(p, s)
                OBVIOUS
            <4>2. [old EXCEPT !.vals = vals, !.name = IF @ = None THEN s.name ELSE @] = y
                BY <2>4, <4>a, <4>b DEF PersonState
            <4>3. new \in {y, WithConsent(y, s.act)}
                BY <3>1, <4>2, <4>b DEF Paired
            <4>4. WithConsent(y, s.act).name = y.name
                BY <4>1 DEF WithConsent
            <4> QED BY <4>1, <4>3, <4>4, <4>a
        <3>4. ASSUME NEW v \in new.vals \ people[p].vals, NEW t \in {p} \cup MergedInto(p), points[t][v] = "archived"
              PROVE  points[p][v] = "held"
            <4>1. v \in Contact /\ v \notin ArchivedOn(p)
                BY <1>1, <2>3, <3>2, <3>4, ValuesAreContacts DEF Filled, PeopleInv
            <4>2. points[p][v] \in {None, "held", "archived"}
                BY <1>1, <2>4, <4>1 DEF PeopleInv, PeopleTyped
            <4> QED BY <3>4, <4>1, <4>2 DEF ArchivedOn
        <3> QED BY <3>1, <3>2, <3>3, <3>4 DEF Filled
    <2>6. CASE (Candidates(s) = {} \/ Certain(s)) /\ p # q
        BY <2>1, <2>4, <2>6
    <2>7. CASE ~(Candidates(s) = {} \/ Certain(s))
        <3>a. PICK x : x = WithConsent(people[p], s.act)
            OBVIOUS
        <3>1. people'[p] = people[p] \/ (s.act # None /\ people'[p] = x)
            BY <2>1, <2>4, <2>7, <3>a
        <3>2. s.act # None => x.vals = people[p].vals /\ x.name = people[p].name
            BY <2>3, <2>4, <3>a, ConsentOfPerson
        <3> QED BY <3>1, <3>2
    <2> QED BY <2>5, <2>6, <2>7
<1>2. ASSUME PeopleInv, SubmitFails \/ \E s \in Submissions : SubmitFinds(s)
      PROVE  people' = people
    BY <1>2 DEF SubmitFails, SubmitFinds
<1>3. PeopleInv => [Submits => \A p \in LivePeople :
          /\ people[p].vals \subseteq people'[p].vals
          /\ people[p].name \in {None, people'[p].name}
          /\ \A v \in people'[p].vals \ people[p].vals, q \in {p} \cup MergedInto(p) :
               points[q][v] = "archived" => points[p][v] = "held"]_intakeVars
    BY <1>1, <1>2 DEF Submits
<1> QED BY <1>3, IntakeInvariant, PTL DEF IntakeSpec, SubmissionsOnlyAdd
=============================================================================
