----------------------------- MODULE Pipelines -----------------------------
(***************************************************************************)
(* Moving a record through the stages of a pipeline (pipeline/manage.ts    *)
(* setRecordStage, services/pipeline.ts) and the summary over the recorded *)
(* intervals (pipeline/summary.ts).                                        *)
(*                                                                         *)
(* A move takes its time when the request arrives, begins a transaction,   *)
(* reserves its idempotency key, waits for the record's lock and writes.   *)
(* From the lock to the commit nothing another transaction does is seen,   *)
(* so those are one step.                                                  *)
(***************************************************************************)
EXTENDS Team, Integers, FiniteSets, SequencesExt

CONSTANTS
    Deals, Stages,
    Keys,                   \* idempotency keys a client may give
    MaxMoves, MaxTime       \* bounds

VARIABLES
    deal,       \* the records: [live, version]
    intervals,  \* record_stage_history, in the order written
    replays,    \* idempotency_replays of the tool: [key -> [args, result] or None]
    moves,      \* transactions between their reservation and their commit
    answers,    \* history: what keyed calls were answered
    refreshes,  \* derived.refresh jobs enqueued
    time, made  \* the clock; moves begun

Times == 0 .. MaxTime
StageMoves ==
    [args : [deal : Deals, stage : Stages, at : Times \cup {None}], key : Keys \cup {None}, now : Times, began : Nat]
StageReplays == [args : [deal : Deals, stage : Stages, at : Times \cup {None}], result : Nat]

\* Times, keys, moves and stored results are told from their absence.
ASSUME PipelineAssumption == MaxTime \in Nat /\ None \notin Nat \cup Keys \cup StageMoves \cup StageReplays

stageVars == <<deal, intervals, replays, moves, answers, refreshes, time, made>>

StageInit ==
    /\ deal = [d \in Deals |-> [live |-> TRUE, version |-> 1]]
    /\ intervals = <<>>
    /\ replays = [k \in Keys |-> None]
    /\ moves = [c \in Callers |-> None]
    /\ answers = {}
    /\ refreshes = {}
    /\ time = 0
    /\ made = 0

PassTime ==
    /\ time < MaxTime
    /\ time' = time + 1
    /\ UNCHANGED <<deal, intervals, replays, moves, answers, refreshes, made>>

\* Another tool deletes the record, or merges it away.
DealGone(d) ==
    /\ deal[d].live
    /\ deal' = [deal EXCEPT ![d].live = FALSE, ![d].version = @ + 1]
    /\ UNCHANGED <<intervals, replays, moves, answers, refreshes, time, made>>

-----------------------------------------------------------------------------
Unkeyed(key) == key = None

\* Mutant: two calls with the same key are under way at once.
KeyIgnored(c, key) == TRUE

\* pg_try_advisory_xact_lock(6, key): no other transaction holds it.
KeyFree(c, key) == \A d \in Callers \ {c} : moves[d] # None => Unkeyed(key) \/ moves[d].key # key

\* setPipelineStage up to the reservation: the record is there, the key is new.
BeginMove(c, args, key) ==
    /\ moves[c] = None
    /\ made < MaxMoves
    /\ deal[args.deal].live
    /\ KeyFree(c, key)
    /\ key # None => replays[key] = None
    /\ moves' = [moves EXCEPT ![c] = [args |-> args, key |-> key, now |-> time, began |-> made]]
    /\ made' = made + 1
    /\ UNCHANGED <<deal, intervals, replays, answers, refreshes, time>>

\* reserveStageSet finds the stored result of the same arguments.
Replayed(c, args, key) ==
    /\ moves[c] = None
    /\ made < MaxMoves
    /\ deal[args.deal].live
    /\ key # None /\ KeyFree(c, key)
    /\ replays[key] # None
    /\ answers' = IF replays[key].args = args THEN answers \cup {[key |-> key, result |-> replays[key].result]}
                  ELSE answers
    /\ made' = made + 1
    /\ UNCHANGED <<deal, intervals, replays, moves, refreshes, time>>

-----------------------------------------------------------------------------
\* The open interval of a record: record_stage_history_one_open admits one.
OpenAt(d) == {i \in DOMAIN intervals : intervals[i].deal = d /\ intervals[i].to = None}

\* Mutant: any transition time is taken.
AnyOrder(i, at) == TRUE

\* rejectOutOfOrderStage.
InOrder(i, at) == at >= intervals[i].from

At(move) == IF move.args.at = None THEN move.now ELSE move.args.at

\* storeStageSetReplay; the transaction ends with its answer.
Answer(c, result) ==
    /\ replays' = IF Unkeyed(moves[c].key) THEN replays
                  ELSE [replays EXCEPT ![moves[c].key] = [args |-> moves[c].args, result |-> result]]
    /\ answers' = IF Unkeyed(moves[c].key) THEN answers
                  ELSE answers \cup {[key |-> moves[c].key, result |-> result]}
    /\ moves' = [moves EXCEPT ![c] = None]

\* setRecordStage: the open interval ends where the new one begins.
Move(c) ==
    /\ moves[c] # None
    /\ LET move == moves[c]
           d == move.args.deal
           at == At(move)
           new == [deal |-> d, stage |-> move.args.stage, from |-> at, to |-> None, created |-> move.began,
                   key |-> move.key]
       IN  /\ deal[d].live
           /\ \A i \in OpenAt(d) : InOrder(i, at) /\ intervals[i].stage # move.args.stage
           /\ intervals' = Append([i \in DOMAIN intervals |->
                                      IF i \in OpenAt(d) THEN [intervals[i] EXCEPT !.to = at] ELSE intervals[i]],
                                  new)
           /\ deal' = [deal EXCEPT ![d].version = @ + 1]
           /\ refreshes' = refreshes \cup {Len(intervals) + 1}
           /\ Answer(c, Len(intervals) + 1)
    /\ UNCHANGED <<time, made>>

\* The record is in that stage: nothing changes, and the open interval is the answer.
NoMove(c) ==
    /\ moves[c] # None
    /\ deal[moves[c].args.deal].live
    /\ \E i \in OpenAt(moves[c].args.deal) :
          /\ InOrder(i, At(moves[c]))
          /\ intervals[i].stage = moves[c].args.stage
          /\ Answer(c, i)
    /\ UNCHANGED <<deal, intervals, refreshes, time, made>>

\* Refused, or the process went away: the reservation goes with the transaction.
DropMove(c) ==
    /\ moves[c] # None
    /\ moves' = [moves EXCEPT ![c] = None]
    /\ UNCHANGED <<deal, intervals, replays, answers, refreshes, time, made>>

StageNext ==
    \/ PassTime
    \/ \E d \in Deals : DealGone(d)
    \/ \E c \in Callers :
          \/ \E d \in Deals, s \in Stages, at \in Times \cup {None}, k \in Keys \cup {None} :
                LET args == [deal |-> d, stage |-> s, at |-> at] IN BeginMove(c, args, k) \/ Replayed(c, args, k)
          \/ Move(c) \/ NoMove(c) \/ DropMove(c)

StageSpec == StageInit /\ [][StageNext]_stageVars

-----------------------------------------------------------------------------
(* pipelineSummary: adjacent intervals in the order of started_at, created_at *)

Earlier(a, b) == a.from < b.from \/ (a.from = b.from /\ a.created < b.created)
Of(d) == SelectSeq(intervals, LAMBDA i : i.deal = d)
Adjacent(s) == {<<s[i].stage, s[i + 1].stage>> : i \in 1 .. Len(s) - 1}
Conversions(d) == Adjacent(SetToSortSeq(ToSet(Of(d)), Earlier))

-----------------------------------------------------------------------------
(* Properties *)

\* j is the next interval of the record of i.
Follows(i, j) == /\ i < j
                 /\ intervals[j].deal = intervals[i].deal
                 /\ \A k \in i + 1 .. j - 1 : intervals[k].deal # intervals[i].deal
IntervalsOf(d) == {i \in DOMAIN intervals : intervals[i].deal = d}

\* Whatever times the moves of a record give and however they overlap, its intervals
\* are one timeline: each ends where the next begins, no later interval begins
\* earlier, no stage follows itself, the last one only is open, and every interval is
\* one version of the record and one refresh of what is derived (setRecordStage).
StagesAreATimeline ==
    /\ \A i, j \in DOMAIN intervals : Follows(i, j) =>
          /\ intervals[i].to = intervals[j].from /\ intervals[i].from <= intervals[j].from
          /\ intervals[i].stage # intervals[j].stage
    /\ \A i \in DOMAIN intervals : (\A j \in DOMAIN intervals : ~Follows(i, j)) => intervals[i].to = None
    /\ \A d \in Deals :
          deal[d].version = 1 + Cardinality(IntervalsOf(d)) + (IF deal[d].live THEN 0 ELSE 1)
    /\ refreshes = DOMAIN intervals

\* A call that is repeated with its key moves the record once and is answered the
\* same, also when the first one is still under way or was undone (reserveStageSet).
KeyMovesOnce ==
    \A k \in Keys :
        /\ Cardinality({i \in DOMAIN intervals : intervals[i].key = k}) <= 1
        /\ Cardinality({a \in answers : a.key = k}) <= 1

\* Documented, and broken by two moves of one moment: the conversions of the summary
\* are the moves that were made.
ConversionsFollowMoves == \A d \in Deals : Conversions(d) \subseteq Adjacent(Of(d))
=============================================================================
