------------------------------ MODULE LinkGraph ------------------------------
(***************************************************************************)
(* Records and the typed links between them: linking with the cardinality  *)
(* of the relation, the projection of a reference attribute onto ordered   *)
(* links, deletion with its cascade and the restoration from the snapshot  *)
(* the deletion wrote, list membership, and the purge of retention.        *)
(*                                                                         *)
(* Every operation takes the topology lock of the team before it reads     *)
(* (records/locks.ts), so an operation is one step.  List entries are      *)
(* written without that lock, in transactions of their own.                *)
(*                                                                         *)
(* A record carries one unique attribute; a link row keeps its identity    *)
(* when it ends, so that a restoration or an undone merge revives it.      *)
(***************************************************************************)
EXTENDS Integers, FiniteSets, Sequences

CONSTANTS
    Record,         \* record ids, numbered in their sort order
    Value,          \* values of the unique attribute
    Rel,            \* relation types
    ToOne,          \* relations with one active link per source (many_to_one, one_to_one)
    FromOne,        \* relations with one active link per target (one_to_many, one_to_one)
    Cascading,      \* relations with onDelete = cascade
    Restricting,    \* relations with onDelete = restrict
    Projected,      \* relations that carry a reference attribute
    MaxFrom, MaxTo, \* max_active_edges_from and max_active_edges_to of each relation
    None,
    MaxTargets,     \* bound: targets in one write of a reference attribute
    MaxLink,        \* bound: link rows ever created
    MaxClock        \* bound: committed operations

ASSUME GraphAssumption ==
    /\ Record \subseteq Nat /\ IsFiniteSet(Record)
    /\ None \notin Record \cup Value
    /\ ToOne \cup FromOne \cup Cascading \cup Restricting \cup Projected \subseteq Rel
    /\ Projected \cap FromOne = {}
    /\ MaxFrom \in [Rel -> Nat] /\ MaxTo \in [Rel -> Nat]
    /\ MaxLink \in Nat /\ MaxClock \in Nat

VARIABLES
    rec,        \* records: row present, deleted_at set, merged_into_id, value, last set, version
    key,        \* record_unique_keys: the holder of each value
    link,       \* record_links in the order of their creation
    listed,     \* list_entries of one list: when the entry of a record was created, 0 for none
    deletion,   \* the snapshot of the last delete change of each record
    clock       \* sequence number of the last committed change

graphVars == <<rec, key, link, listed, deletion, clock>>

NoSnapshot == [links |-> {}, cascaded |-> {}]

Live(r) == rec[r].exists /\ ~rec[r].dead /\ rec[r].into = None
Present(r) == rec[r].exists /\ ~rec[r].dead

LinkIds == DOMAIN link
Active == {l \in LinkIds : link[l].state = "active"}
Of(rel) == {l \in Active : link[l].rel = rel}
Ends(L) == {link[l].from : l \in L} \cup {link[l].to : l \in L}
Touching(R) == {l \in Active : link[l].from \in R \/ link[l].to \in R}

Bumped(f, R) == [r \in Record |-> IF r \in R THEN [f[r] EXCEPT !.ver = @ + 1] ELSE f[r]]
Ended(L, at) == [l \in LinkIds |-> IF l \in L THEN [link[l] EXCEPT !.state = "ended", !.at = at]
                                             ELSE link[l]]
NewLink(rel, f, t, pos, at) ==
    [rel |-> rel, from |-> f, to |-> t, pos |-> pos, state |-> "active", at |-> at]

Tick == clock < MaxClock /\ clock' = clock + 1

-----------------------------------------------------------------------------
(* crm_link and crm_unlink                                                 *)

\* The active links a new link of the relation would repeat or displace.
Conflicts(rel, f, t) ==
    {l \in Of(rel) : \/ link[l].from = f /\ (link[l].to = t \/ rel \in ToOne)
                     \/ link[l].to = t /\ rel \in FromOne}

\* enforceRelationEdgeLimits, after the conflicts have ended.
RoomFrom(rel, f, gone, n) == Cardinality({l \in Of(rel) \ gone : link[l].from = f}) + n <= MaxFrom[rel]
RoomTo(rel, t, gone) == Cardinality({l \in Of(rel) \ gone : link[l].to = t}) < MaxTo[rel]

\* bumpVersions answers NOT_FOUND for an endpoint that is deleted.
Bumpable(R) == \A r \in R : Present(r)

LinkRecords(rel, f, t) ==
    LET C == Conflicts(rel, f, t)
        R == {f, t} \cup Ends(C)
    IN  /\ Tick
        /\ f # t /\ Live(f) /\ Live(t)
        /\ \A l \in C : ~(link[l].from = f /\ link[l].to = t)
        /\ RoomFrom(rel, f, C, 1) /\ RoomTo(rel, t, C) /\ Bumpable(R)
        /\ Len(link) < MaxLink
        /\ link' = Append(Ended(C, clock + 1), NewLink(rel, f, t, None, clock + 1))
        /\ rec' = Bumped(rec, R)
        /\ UNCHANGED <<key, listed, deletion>>

UnlinkRecords(rel, f, t) ==
    LET L == {l \in Of(rel) : link[l].from = f /\ link[l].to = t}
    IN  /\ Tick
        /\ L # {} /\ Bumpable({f, t})
        /\ link' = Ended(L, clock + 1)
        /\ rec' = Bumped(rec, {f, t})
        /\ UNCHANGED <<key, listed, deletion>>

-----------------------------------------------------------------------------
(* The write of a reference attribute: its value replaces the links        *)

PlaceOf(t, targets) == CHOOSE i \in DOMAIN targets : targets[i] = t
Place(rel, t, targets) == IF rel \in ToOne THEN None ELSE PlaceOf(t, targets) - 1

\* A kept link that is not at its place passes by a negative position; only an ordered one arrives.
PlaceKept(rel, t, targets) == IF rel \in ToOne THEN -1 ELSE PlaceOf(t, targets) - 1

\* What a client submits: distinct targets in an order, one at most for a single reference.
Targets == {s \in UNION {[1..n -> Record] : n \in 0..MaxTargets} :
                \A i, j \in DOMAIN s : s[i] = s[j] => i = j}

Mine(rel, r) == {l \in Of(rel) : link[l].from = r}

\* The submitted targets no link leads to yet, and the rows created for them in the order submitted.
Fresh(rel, r, targets) == {i \in DOMAIN targets : \A l \in Mine(rel, r) : link[l].to # targets[i]}
Ascending(S) == {f \in [1..Cardinality(S) -> S] : \A i, j \in DOMAIN f : i < j => f[i] < f[j]}

CreatedFor(rel, r, targets, order) ==
    [i \in DOMAIN order |-> NewLink(rel, r, targets[order[i]], Place(rel, targets[order[i]], targets), clock + 1)]

\* A write that ends, creates and re-places no link stands for what else of the record it changes;
\* if it changes nothing else it is rolled back.
Project(r, rel, targets) ==
  \E order \in Ascending(Fresh(rel, r, targets)) :
    LET wanted == {targets[i] : i \in DOMAIN targets}
        ending == {l \in Mine(rel, r) : link[l].to \notin wanted}
        moving == {l \in Mine(rel, r) \ ending : link[l].pos # PlaceOf(link[l].to, targets) - 1}
        told == IF rel \in ToOne THEN ending ELSE ending \cup moving
        new == CreatedFor(rel, r, targets, order)
        touched == {link[l].to : l \in told} \cup {new[i].to : i \in DOMAIN new}
    IN  /\ Tick
        /\ Live(r) /\ \A t \in wanted : Live(t)
        /\ rel \in ToOne => Len(targets) <= 1
        /\ new # <<>> => RoomFrom(rel, r, ending, Len(new))
        /\ \A i \in DOMAIN new : RoomTo(rel, new[i].to, ending)
        /\ Bumpable(touched)
        /\ Len(link) + Len(new) <= MaxLink
        /\ link' = [l \in LinkIds |->
                       IF l \in moving
                       THEN [link[l] EXCEPT !.pos = PlaceKept(rel, link[l].to, targets),
                                            !.at = IF l \in told THEN clock + 1 ELSE @]
                       ELSE Ended(ending, clock + 1)[l]] \o new
        /\ rec' = Bumped(rec, touched \cup {r})
        /\ UNCHANGED <<key, listed, deletion>>

\* The write of the unique attribute.
SetValue(r, v) ==
    /\ Tick
    /\ Live(r) /\ v # rec[r].val /\ (v # None => key[v] \in {None, r})
    /\ rec' = Bumped([rec EXCEPT ![r].val = v, ![r].set = clock + 1], {r})
    /\ key' = [w \in Value |-> IF w = v THEN r ELSE IF key[w] = r THEN None ELSE key[w]]
    /\ UNCHANGED <<link, listed, deletion>>

-----------------------------------------------------------------------------
(* Deletion with its cascade, and restoration                              *)

\* Sources of cascading links into R.
Dependents(R) == {link[l].from : l \in {m \in Active : link[m].rel \in Cascading /\ link[m].to \in R}}

Cascaded(r) ==
    LET reach[n \in 0..Cardinality(Record)] ==
            IF n = 0 THEN Dependents({r}) \ {r}
            ELSE reach[n - 1] \cup (Dependents(reach[n - 1]) \ {r})
    IN  {c \in reach[Cardinality(Record)] : Present(c)}

DeleteRecord(r) ==
    LET down == Cascaded(r)
        L == Touching(down \cup {r})
        external == Ends(L) \ (down \cup {r})
        dead == [q \in Record |-> IF q \in down \cup {r} THEN [rec[q] EXCEPT !.dead = TRUE] ELSE rec[q]]
    IN  /\ Tick
        /\ Live(r)
        /\ \A l \in L : link[l].rel \notin Restricting
        /\ Bumpable(external)
        /\ link' = Ended(L, clock + 1)
        /\ rec' = Bumped(dead, down \cup {r} \cup external)
        /\ key' = [v \in Value |-> IF key[v] = r THEN None ELSE key[v]]
        /\ deletion' = [q \in Record |->
                           IF q = r THEN [links |-> L, cascaded |-> down]
                           ELSE IF q \in down THEN NoSnapshot ELSE deletion[q]]
        /\ UNCHANGED listed

\* A link of the snapshot meets an active link that took its place meanwhile.
Displaced(l) ==
    LET k == link[l]
    IN  \E m \in Of(k.rel) \ {l} :
            \/ link[m].from = k.from /\ (link[m].to = k.to \/ k.rel \in ToOne)
            \/ link[m].to = k.to /\ k.rel \in FromOne
            \/ k.rel \notin ToOne \cup FromOne /\ k.pos # None
                 /\ link[m].from = k.from /\ link[m].pos = k.pos

RestoreRecord(r) ==
    LET L == deletion[r].links
        down == deletion[r].cascaded
        external == Ends(L) \ (down \cup {r})
        alive == [q \in Record |-> IF q \in down \cup {r} THEN [rec[q] EXCEPT !.dead = FALSE] ELSE rec[q]]
    IN  /\ Tick
        /\ rec[r].exists /\ rec[r].dead /\ rec[r].into = None
        /\ rec[r].val # None => key[rec[r].val] \in {None, r}
        /\ \A q \in external : Live(q)
        /\ \A q \in down : rec[q].exists /\ rec[q].dead
        /\ \A l \in L : ~Displaced(l)
        /\ link' = [l \in LinkIds |-> IF l \in L THEN [link[l] EXCEPT !.state = "active", !.at = clock + 1]
                                                 ELSE link[l]]
        /\ rec' = Bumped(alive, down \cup {r} \cup external)
        /\ key' = IF rec[r].val = None THEN key ELSE [key EXCEPT ![rec[r].val] = r]
        /\ UNCHANGED <<listed, deletion>>

\* Retention: the row of a record deleted long ago and, by foreign key, what hangs on it.
Purge(r) ==
    /\ Tick
    /\ rec[r].exists /\ rec[r].dead
    /\ rec' = [rec EXCEPT ![r].exists = FALSE]
    /\ link' = [l \in LinkIds |-> IF r \in {link[l].from, link[l].to}
                                  THEN [link[l] EXCEPT !.state = "gone"] ELSE link[l]]
    /\ key' = [v \in Value |-> IF key[v] = r THEN None ELSE key[v]]
    /\ listed' = [listed EXCEPT ![r] = 0]
    /\ UNCHANGED deletion

-----------------------------------------------------------------------------
(* Curated lists                                                           *)

\* A visible record is enough: a deleted or merged one is accepted.
AddListEntry(r) ==
    /\ Tick
    /\ rec[r].exists /\ listed[r] = 0
    /\ listed' = [listed EXCEPT ![r] = clock + 1]
    /\ UNCHANGED <<rec, key, link, deletion>>

RemoveListEntry(r) ==
    /\ Tick
    /\ rec[r].exists /\ listed[r] # 0
    /\ listed' = [listed EXCEPT ![r] = 0]
    /\ UNCHANGED <<rec, key, link, deletion>>

=============================================================================
