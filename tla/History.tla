------------------------------ MODULE History -------------------------------
(***************************************************************************)
(* What is read from the change rows of one record: its state at an        *)
(* instant (records/history.ts recordAt), the pages of its history         *)
(* (recordHistory), and its timeline (timeline/query.ts), where changes    *)
(* are mixed with the activities, notes and tasks about it and about the   *)
(* records it is linked to.                                                *)
(*                                                                         *)
(* Sequence numbers follow the order in which writes commit.  The time of  *)
(* a row is a column default, filled by the writing process or by the      *)
(* database at the begin of the transaction: any time since then, so two   *)
(* writes may carry times against their order.                             *)
(***************************************************************************)
EXTENDS Paging, FiniteSetsExt

CONSTANTS
    Writers, Facets, Contents,  \* who writes; attributes of the record and their values
    Notes,                      \* records of the system types: activities, notes, tasks
    KindOf,                     \* [Notes -> kind]
    Anchor, Neighbours,         \* the record, and those it may be linked to
    Asked,                      \* the timelines asked for: [kinds, hops, since]
    MaxNow, MaxWrites           \* bounds

\* The items of a history or a timeline, the change rows and the states of the record.
TimelineItems == [kind : {"activity", "change", "note", "task"}, id : Int, at : Int]
ChangeRows == [at : Nat, kind : {"create", "set", "unset", "delete", "restore"}, slug : Facets \cup {None},
               value : Contents \cup {None}, version : Nat]
HeldStates == [status : {"absent", "live", "deleted"}, data : [Facets -> Contents \cup {None}], version : Nat]
\* What the two tools are asked for, and the readings there can be.
HistoryArgs == [tool : {"history"}, facets : {None} \cup {{f} : f \in Facets}]
TimelineArgs == {[tool |-> "timeline", kinds |-> a.kinds, hops |-> a.hops, since |-> a.since] : a \in Asked}
Readings == [args : HistoryArgs \cup TimelineArgs, limit : Nat, cursor : TimelineItems \cup {None},
             listed : Seq(TimelineItems), steady : SUBSET TimelineItems, open : BOOLEAN]
ASSUME HistoryAssumption ==
    /\ IsFiniteSet(Facets) /\ Facets \subseteq Int
    /\ IsFiniteSet(Notes) /\ Notes \subseteq Int
    /\ KindOf \in [Notes -> {"activity", "note", "task"}]
    /\ None \notin Int \cup Contents \cup TimelineItems \cup ChangeRows \cup HeldStates \cup Readings

VARIABLES
    now, started,       \* the clock; when each writer's transaction began, or None
    held,               \* the record: [status, data, version]
    log,                \* its change rows, by their sequence numbers
    states,             \* history: the record after each write, and the time of the write
    note,               \* the system records: [live, at, about]
    linked,             \* the neighbours the record is linked to
    fetched             \* the timeline page being presented, or None
historyVars == <<now, started, held, log, states, note, linked, fetched>>

HistoryInit ==
    /\ now = 1
    /\ started = [w \in Writers |-> None]
    /\ held = [status |-> "absent", data |-> [f \in Facets |-> None], version |-> 0]
    /\ log = <<>>
    /\ states = <<>>
    /\ note \in [Notes -> [live : {TRUE}, at : {1}, about : {{Anchor}, Neighbours}]]
    /\ linked \in {{}, Neighbours}
    /\ reading = None /\ altered = 0
    /\ fetched = None

\* diffChanges: a row for every attribute that differs, in the order of their names.
Row(at, kind, slug, value, version) == [at |-> at, kind |-> kind, slug |-> slug, value |-> value, version |-> version]
Diff(at, from, to, version) ==
    LET changed == Sorted({f \in Facets : from[f] # to[f]}, LAMBDA f, g : f < g) IN
    [i \in DOMAIN changed |-> Row(at, IF to[changed[i]] = None THEN "unset" ELSE "set",
                                  changed[i], to[changed[i]], version)]

\* Outcomes of a write: [rows, to].
Created(at) ==
    {[rows |-> <<Row(at, "create", None, None, 1)>> \o Diff(at, held.data, d, 1),
      to |-> [status |-> "live", data |-> d, version |-> 1]] : d \in [Facets -> Contents \cup {None}]}
Updated(at) ==
    {[rows |-> Diff(at, held.data, d, held.version + 1),
      to |-> [held EXCEPT !.data = d, !.version = @ + 1]] : d \in [Facets -> Contents \cup {None}] \ {held.data}}
Flipped(at, kind, status) ==
    {[rows |-> <<Row(at, kind, None, None, held.version + 1)>>,
      to |-> [held EXCEPT !.status = status, !.version = @ + 1]]}
Outcomes(at) == CASE held.status = "absent" -> Created(at)
                  [] held.status = "live" -> Updated(at) \cup Flipped(at, "delete", "deleted")
                  [] held.status = "deleted" -> Flipped(at, "restore", "live")

\* ---------------------------------------------------------------- the record at an instant
\* Rows up to the instant, by time and then by sequence.
ReplayOrder(at) == LET S == {k \in DOMAIN log : log[k].at <= at} IN
                Sorted(S, LAMBDA j, k : log[j].at < log[k].at \/ (log[j].at = log[k].at /\ j < k))
LastOf(order, kinds, f) == LET S == {i \in DOMAIN order : log[order[i]].kind \in kinds
                                                           /\ (f = None \/ log[order[i]].slug = f)}
                           IN IF S = {} THEN None ELSE log[order[Max(S)]]
\* Mutant: an unset row is passed over, and the value before it stands.
ReplayDataNoUnset(order) ==
    [f \in Facets |-> LET row == LastOf(order, {"set"}, f) IN IF row = None THEN None ELSE row.value]
ReplayData(order) ==
    [f \in Facets |-> LET row == LastOf(order, {"set", "unset"}, f) IN
                      IF row = None \/ row.kind = "unset" THEN None ELSE row.value]
RecordAt(at) ==
    LET order == ReplayOrder(at)
        last == LastOf(order, {"create", "delete", "restore"}, None)
    IN IF last = None \/ last.kind = "delete" THEN None
       ELSE [data |-> ReplayData(order), version |-> log[Last(order)].version]

\* ---------------------------------------------------------------- pages of the change rows
Change(k) == [kind |-> "change", id |-> k, at |-> log[k].at]
ChangesOf(facets) == {Change(k) : k \in {j \in DOMAIN log : facets = None \/ log[j].slug \in facets}}
Newer(x, y) == x.at > y.at \/ (x.at = y.at /\ x.id > y.id)
\* Mutant: rows of the instant of the last row shown are taken to be shown.
BeforeInstant(item, cursor) == item.at < cursor.at
BeforeCursor(item, cursor) == item.at < cursor.at \/ (item.at = cursor.at /\ item.id < cursor.id)

\* ---------------------------------------------------------------- the timeline
\* The neighbourhood: the record, and with one hop the records it is linked to.
Neighbourhood(hops) == {Anchor} \cup (IF hops = 1 THEN linked ELSE {})
AboutThese(args) ==
    {[kind |-> KindOf[n], id |-> n, at |-> note[n].at] :
        n \in {m \in Notes : /\ note[m].live /\ KindOf[m] \in args.kinds
                             /\ note[m].about \cap Neighbourhood(args.hops) # {}}}
Candidates(args) ==
    {i \in AboutThese(args) \cup (IF "change" \in args.kinds THEN ChangesOf(None) ELSE {}) : i.at >= args.since}
Rank(kind) ==
    CASE kind = "activity" -> 4 [] kind = "change" -> 3 [] kind = "note" -> 2 [] kind = "task" -> 1
Ahead(x, y) == \/ x.at > y.at
               \/ x.at = y.at /\ Rank(x.kind) > Rank(y.kind)
               \/ x.at = y.at /\ x.kind = y.kind /\ x.id > y.id
\* Mutant: the cursor compares ids whatever the kinds.
BehindById(x, c) == x.at < c.at \/ (x.at = c.at /\ x.id < c.id)
Behind(x, c) == \/ x.at < c.at
                \/ x.at = c.at /\ Rank(x.kind) < Rank(c.kind)
                \/ x.at = c.at /\ x.kind = c.kind /\ x.id < c.id

ShownTo(args) == IF args.tool = "history" THEN ChangesOf(args.facets) ELSE Candidates(args)
Shows(tool) == reading # None /\ reading.open /\ reading.args.tool = tool /\ held.status = "live"

-----------------------------------------------------------------------------
\* What changes leaves the reader with the rows that stay.
Rest == IF reading = None THEN UNCHANGED reading
        ELSE \E args \in {reading.args} : StillThere(ShownTo(args)')

ClockTicks ==
    /\ now < MaxNow
    /\ now' = now + 1
    /\ UNCHANGED <<started, held, log, states, note, linked, reading, fetched, altered>>
BeginWrite(w) ==
    /\ started[w] = None
    /\ Len(states) < MaxWrites
    /\ started' = [started EXCEPT ![w] = now]
    /\ UNCHANGED <<now, held, log, states, note, linked, reading, fetched, altered>>
\* The write holds the record and the team's sequence until it commits.
CommitWrite(w) ==
    /\ started[w] # None
    /\ Len(states) < MaxWrites
    /\ started' = [started EXCEPT ![w] = None]
    /\ \E at \in started[w] .. now : \E outcome \in Outcomes(at) :
          /\ held' = outcome.to
          /\ log' = log \o outcome.rows
          /\ states' = Append(states, [at |-> at, record |-> outcome.to])
    /\ UNCHANGED <<now, note, linked, fetched, altered>>
    /\ Rest
AlterNote(n) ==
    /\ Alters
    /\ \/ \E t \in 1 .. now : note[n].live /\ KindOf[n] = "activity" /\ t # note[n].at /\ note' = [note EXCEPT ![n].at = t]
       \/ note' = [note EXCEPT ![n].live = ~@]
       \/ \E S \in {{Anchor}, Neighbours, {}} : S # note[n].about /\ note' = [note EXCEPT ![n].about = S]
    /\ UNCHANGED <<now, started, held, log, states, linked, fetched>>
    /\ Rest
AlterLinks ==
    /\ Alters
    /\ linked' = Neighbours \ linked
    /\ UNCHANGED <<now, started, held, log, states, note, fetched>>
    /\ Rest

OpenHistory ==
    /\ reading = None /\ held.status = "live"
    /\ \E args \in HistoryArgs : StartReading(args, ChangesOf(args.facets))
    /\ UNCHANGED <<historyVars, altered>>
NextHistoryPage ==
    /\ Shows("history")
    /\ LET found == {i \in ChangesOf(reading.args.facets) : reading.cursor = None \/ BeforeCursor(i, reading.cursor)}
       IN Listed(Fetched(found, Newer))
    /\ UNCHANGED <<historyVars, altered>>
OpenTimeline ==
    /\ reading = None /\ held.status = "live"
    /\ \E args \in TimelineArgs : StartReading(args, Candidates(args))
    /\ UNCHANGED <<historyVars, altered>>
FetchTimeline ==
    /\ Shows("timeline") /\ fetched = None
    /\ LET found == {i \in Candidates(reading.args) : reading.cursor = None \/ Behind(i, reading.cursor)}
       IN fetched' = Fetched(found, Ahead)
    /\ UNCHANGED <<now, started, held, log, states, note, linked, reading, altered>>
\* The records of the page are read again to be shown; one that is gone fails the call, and the
\* caller may ask for the page again.
PresentTimeline ==
    /\ fetched # None
    /\ fetched' = None
    /\ LET items == PageOf(fetched)
           gone == {i \in DOMAIN items : items[i].kind # "change" /\ ~note[items[i].id].live}
       IN IF gone = {} THEN Listed(fetched) ELSE UNCHANGED reading
    /\ UNCHANGED <<now, started, held, log, states, note, linked, altered>>

HistoryNext ==
    \/ ClockTicks \/ \E w \in Writers : BeginWrite(w) \/ CommitWrite(w)
    \/ \E n \in Notes : AlterNote(n)
    \/ AlterLinks
    \/ OpenHistory \/ NextHistoryPage \/ OpenTimeline \/ FetchTimeline \/ PresentTimeline

HistorySpec == HistoryInit /\ [][HistoryNext]_<<historyVars, reading, altered>>

-----------------------------------------------------------------------------
StateAt(at) == LET W == {k \in DOMAIN states : states[k].at <= at} IN
               IF W = {} THEN None ELSE states[Max(W)].record

\* Unless writes of the record carry times against their order, what crm_record_at answers for an
\* instant is the data and version the record had after the last write of that instant or before,
\* and it is not found while it was deleted.
AsItWas ==
    (\A j, k \in DOMAIN states : j < k => states[j].at <= states[k].at) =>
        \A at \in 1 .. MaxNow :
            LET was == StateAt(at) IN
            RecordAt(at) = IF was = None \/ was.status # "live" THEN None
                           ELSE [data |-> was.data, version |-> was.version]

\* Not so: asked for the present, crm_record_at answers with the record as it is.  Of two writes at
\* a time, the one that commits last may carry the earlier time.
PresentAsItIs ==
    held.status = "live" => RecordAt(MaxNow) = [data |-> held.data, version |-> held.version]
=============================================================================
