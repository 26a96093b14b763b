--------------------------- MODULE DynamicLists ----------------------------
(***************************************************************************)
(* A dynamic list: its definition (services/lists.ts updateList), the      *)
(* refreshes record writes ask for (record-mutation-effects.ts) and the    *)
(* list.refresh job (lists/dynamic-refresh.ts).                            *)
(*                                                                         *)
(* A definition is the set of values a record may have to be a member.     *)
(* The person a refresh runs for sees every record.                        *)
(***************************************************************************)
EXTENDS Pool, Integers, FiniteSets, SequencesExt, Functions

CONSTANTS
    Members,            \* the records, in the order they were created
    Kinds,              \* values of a record's attribute
    Definitions,        \* filters: sets of kinds
    Editors, Writers,   \* callers that change the list, and records
    MaxRefreshes,       \* attempts of a job
    MaxChanges          \* bound on what callers do

VARIABLES
    kind,       \* the attribute of each record
    list,       \* lists row: [def, version, state]
    rows,       \* list_entries: [members, written], written counts the rewrites
    asked,      \* list.refresh jobs queued: [id, version, tries]
    passes,     \* refreshes that run
    edits,      \* updateList calls that have read the list
    stores,     \* record writes that have read the list's version
    silent,     \* history: records changed since a refresh was last asked for, by who asks for none
    disturbed,  \* history: one of the four races the code does not order has happened
    changes     \* bound; also the number of the next request

listVars == <<kind, list, rows, asked, passes, edits, stores, silent, disturbed, changes>>

Everyone == Range(Members)

\* A job of the queue; a refresh that runs one; what an update or a record write has read.
ListRows == [def : Definitions, version : Nat, state : {"ready", "refreshing", "failed"}]
ListJobs == [id : Nat, version : Nat, tries : Nat]
Passes == [job : ListJobs, def : Definitions, phase : {"loaded", "evaluating", "writing"},
           left : Seq(Everyone), found : SUBSET Everyone, written : Nat]
ListEdits == [id : Nat, def : Definitions \cup {None}, read : ListRows]
ListStores == [id : Nat, of : Everyone, kind : Kinds, version : Nat, person : BOOLEAN]

ASSUME ListAssumption ==
    /\ Members \in Seq(Everyone)
    /\ MaxRefreshes \in Nat /\ MaxChanges \in Nat
    /\ None \notin Definitions \cup Passes \cup ListEdits \cup ListStores

ListInit ==
    /\ kind \in {[m \in Everyone |-> k] : k \in Kinds}
    /\ \E d \in Definitions : list = [def |-> d, version |-> 1, state |-> "refreshing"]
    /\ rows = [members |-> {}, written |-> 0]
    /\ asked = {[id |-> 0, version |-> 1, tries |-> 0]}
    /\ passes = [w \in Workers |-> None]
    /\ edits = [e \in Editors |-> None]
    /\ stores = [s \in Writers |-> None]
    /\ silent = {}
    /\ disturbed = FALSE
    /\ changes = 1

Budget == changes <= MaxChanges /\ changes' = changes + 1

\* enqueueDynamicListRefresh: the idempotency key names the request, so each asks for a job of its own.
Ask(id, version) == /\ asked' = asked \cup {[id |-> id, version |-> version, tries |-> 0]}
                    /\ silent' = {}

-----------------------------------------------------------------------------
\* updateList reads the list before its transaction; no new filter is a change of the name.
ReadList(e, def) ==
    /\ edits[e] = None
    /\ Budget
    /\ edits' = [edits EXCEPT ![e] = [id |-> changes, def |-> def, read |-> list]]
    /\ UNCHANGED <<kind, list, rows, asked, passes, stores, silent, disturbed>>

\* It writes version and state as it read them, or the next version and a refresh of it.
Rename(e) ==
    /\ edits[e] # None /\ edits[e].def = None
    /\ list' = [list EXCEPT !.version = edits[e].read.version, !.state = edits[e].read.state]
    /\ disturbed' = (disturbed \/ list' # list)
    /\ edits' = [edits EXCEPT ![e] = None]
    /\ UNCHANGED <<kind, rows, asked, passes, stores, silent, changes>>

Redefine(e) ==
    /\ edits[e] # None /\ edits[e].def # None
    /\ LET edit == edits[e]
           next == edit.read.version + 1
       IN  /\ list' = [def |-> edit.def, version |-> next, state |-> "refreshing"]
           /\ Ask(edit.id, next)
           /\ disturbed' = (disturbed \/ list.version # edit.read.version)
    /\ edits' = [edits EXCEPT ![e] = None]
    /\ UNCHANGED <<kind, rows, passes, stores, changes>>

\* A record write for a person ends with a refresh of each dynamic list, at the version it read in
\* its transaction; one that is made for nobody asks for none.
BeginStore(s, m, k, person) ==
    /\ stores[s] = None
    /\ \A t \in Writers : stores[t] # None => stores[t].of # m
    /\ Budget
    /\ stores' = [stores EXCEPT ![s] =
                     [id |-> changes, of |-> m, kind |-> k, version |-> list.version, person |-> person]]
    /\ UNCHANGED <<kind, list, rows, asked, passes, edits, silent, disturbed>>

EndStore(s) ==
    /\ stores[s] # None
    /\ kind' = [kind EXCEPT ![stores[s].of] = stores[s].kind]
    /\ \/ /\ stores[s].person
          /\ Ask(stores[s].id, stores[s].version)
          /\ disturbed' = (disturbed \/ list.version # stores[s].version)
       \/ /\ ~stores[s].person
          /\ silent' = silent \cup {stores[s].of}
          /\ UNCHANGED <<asked, disturbed>>
    /\ stores' = [stores EXCEPT ![s] = None]
    /\ UNCHANGED <<list, rows, passes, edits, changes>>

\* A derived.refresh job stores a new value and asks for no refresh of lists, whoever it runs for.
Derive(m, k) ==
    /\ \A t \in Writers : stores[t] # None => stores[t].of # m
    /\ Budget
    /\ kind' = [kind EXCEPT ![m] = k]
    /\ silent' = silent \cup {m}
    /\ UNCHANGED <<list, rows, asked, passes, edits, stores, disturbed>>

-----------------------------------------------------------------------------
\* A worker claims a job and loads the list: nothing to do for another version.
StartPass(w, job) ==
    /\ passes[w] = None /\ job \in asked
    /\ asked' = asked \ {job}
    /\ IF job.version # list.version THEN UNCHANGED <<passes, disturbed>>
       ELSE /\ passes' = [passes EXCEPT ![w] = [job |-> job, def |-> list.def, phase |-> "loaded",
                                                left |-> Members, found |-> {}, written |-> 0]]
            /\ disturbed' = (disturbed \/ \E v \in Workers : passes[v] # None)
    /\ UNCHANGED <<kind, list, rows, edits, stores, silent, changes>>

\* The state is set whatever version the list has by now.
MarkRefreshing(w) ==
    /\ passes[w] # None /\ passes[w].phase = "loaded"
    /\ list' = [list EXCEPT !.state = "refreshing"]
    /\ passes' = [passes EXCEPT ![w].phase = "evaluating"]
    /\ UNCHANGED <<kind, rows, asked, edits, stores, silent, disturbed, changes>>

\* visibleMemberIds: each page is a query of its own, over what follows the one before.
EvaluatePage(w) ==
    /\ passes[w] # None /\ passes[w].phase = "evaluating" /\ passes[w].left # <<>>
    /\ LET m == Head(passes[w].left)
       IN  passes' = [passes EXCEPT ![w].left = Tail(@),
                                    ![w].found = IF kind[m] \in passes[w].def THEN @ \cup {m} ELSE @]
    /\ UNCHANGED <<kind, list, rows, asked, edits, stores, silent, disturbed, changes>>

\* writeMembership: the version is compared, and the rows there are now are deleted.
BeginWriting(w) ==
    /\ passes[w] # None /\ passes[w].phase = "evaluating" /\ passes[w].left = <<>>
    /\ passes' = [passes EXCEPT ![w] = IF passes[w].job.version # list.version THEN None
                                       ELSE [passes[w] EXCEPT !.phase = "writing", !.written = rows.written]]
    /\ UNCHANGED <<kind, list, rows, asked, edits, stores, silent, disturbed, changes>>

\* Mutant: the members of before are kept.
Kept(w) == rows.members

\* Rows another refresh has written since are not among those deleted.
NotDeleted(w) == IF rows.written = passes[w].written THEN {} ELSE rows.members

EndWriting(w) ==
    /\ passes[w] # None /\ passes[w].phase = "writing"
    /\ rows' = [members |-> NotDeleted(w) \cup passes[w].found, written |-> rows.written + 1]
    /\ list' = [list EXCEPT !.state = "ready"]
    /\ passes' = [passes EXCEPT ![w] = None]
    /\ UNCHANGED <<kind, asked, edits, stores, silent, disturbed, changes>>

\* An error sets the state, also whatever the version; a process that dies sets nothing.
FailPass(w) ==
    /\ passes[w] # None
    /\ LET job == passes[w].job
           again == job.tries + 1 < MaxRefreshes
       IN  /\ asked' = IF again THEN asked \cup {[job EXCEPT !.tries = @ + 1]} ELSE asked
           /\ disturbed' = (disturbed \/ ~again)
    /\ \/ passes[w].phase # "loaded" /\ list' = [list EXCEPT !.state = "failed"]
       \/ UNCHANGED list
    /\ passes' = [passes EXCEPT ![w] = None]
    /\ UNCHANGED <<kind, rows, edits, stores, silent, changes>>

ListNext ==
    \/ \E e \in Editors, def \in Definitions \cup {None} : ReadList(e, def)
    \/ \E e \in Editors : Rename(e) \/ Redefine(e)
    \/ \E s \in Writers, m \in Everyone, k \in Kinds, person \in BOOLEAN : BeginStore(s, m, k, person)
    \/ \E m \in Everyone, k \in Kinds : Derive(m, k)
    \/ \E s \in Writers : EndStore(s)
    \/ \E w \in Workers, job \in asked : StartPass(w, job)
    \/ \E w \in Workers : \/ MarkRefreshing(w) \/ EvaluatePage(w)
                          \/ BeginWriting(w) \/ EndWriting(w) \/ FailPass(w)

ListSpec == ListInit /\ [][ListNext]_listVars
-----------------------------------------------------------------------------
\* Once nothing is asked for and nothing runs, the list is ready and tells of every record whether its
\* definition selects it - apart from records that a write for nobody or a derived value has changed
\* since a refresh was last asked for, which wait for the next write for a person; and unless two
\* refreshes overlapped, an update or a write for a person went through on a version of the list that
\* another update had replaced, or a job failed for good: the races behind the findings.
QuietListExact ==
    (/\ ~disturbed /\ asked = {}
     /\ \A w \in Workers : passes[w] = None
     /\ \A e \in Editors : edits[e] = None
     /\ \A s \in Writers : stores[s] = None) =>
        /\ list.state = "ready"
        /\ \A m \in Everyone \ silent : m \in rows.members <=> kind[m] \in list.def

\* The same of all records, whatever happened.  Violated in each of those ways.
ReadyMeansCurrent ==
    (/\ asked = {} /\ list.state = "ready"
     /\ \A w \in Workers : passes[w] = None
     /\ \A s \in Writers : stores[s] = None) =>
        rows.members = {m \in Everyone : kind[m] \in list.def}
=============================================================================
