---------------------------- MODULE MergeUnmerge ----------------------------
(***************************************************************************)
(* Merging records into a survivor and undoing a merge, over the records,  *)
(* links, keys and list entries of LinkGraph.  A merge re-points links,    *)
(* ends the ones that become duplicates, moves keys and list entries, and  *)
(* leaves a redirect on each loser; the merge change keeps a snapshot.  An *)
(* unmerge may come at any later time, in any order, and either restores   *)
(* everything the snapshot names or reports conflicts and changes nothing. *)
(***************************************************************************)
EXTENDS LinkGraph

CONSTANTS
    MaxLosers,      \* bound: records merged in one call (1 to 10 in the code)
    MaxEffort,      \* bound: operations of a behaviour, where all but merge and unmerge count twice
    InitialWorlds   \* the values of the records and the links the graph may start from

\* The two partial unique indexes of record_links.
IndexesHold(rows) ==
    \A l, m \in DOMAIN rows :
        (l # m /\ rows[l].state = "active" /\ rows[m].state = "active"
            /\ rows[l].rel = rows[m].rel /\ rows[l].from = rows[m].from)
        => rows[l].to # rows[m].to /\ (rows[l].pos = None \/ rows[l].pos # rows[m].pos)

\* At most one active link at an endpoint for which the relation allows one.
OneAtAnEnd(rows) ==
    \A l, m \in DOMAIN rows :
        (l # m /\ rows[l].state = "active" /\ rows[m].state = "active" /\ rows[l].rel = rows[m].rel) =>
           /\ rows[l].rel \in ToOne => rows[l].from # rows[m].from
           /\ rows[l].rel \in FromOne => rows[l].to # rows[m].to

\* The graph starts as the program and the indexes keep it: positions belong to ordered projections.
ASSUME WorldAssumption == \A w \in InitialWorlds :
    /\ w.link \in Seq([rel : Rel, from : Record, to : Record, pos : Nat \cup {-1, None},
                       state : {"active"}, at : {0}])
    /\ \A l \in DOMAIN w.link : w.link[l].pos # None => w.link[l].rel \in Projected
    /\ IndexesHold(w.link) /\ OneAtAnEnd(w.link)

VARIABLE merges     \* the merge changes with their snapshots, in the order of seq

vars == <<rec, key, link, listed, deletion, clock, merges>>

\* validateInput: distinct losers, sorted by id.
Losers == {s \in UNION {[1..n -> Record] : n \in 1..MaxLosers} :
               \A i, j \in DOMAIN s : i < j => s[i] < s[j]}

ElemsOf(s) == {s[i] : i \in DOMAIN s}

-----------------------------------------------------------------------------
(* planMerge: the value of the survivor                                    *)

NewestLoser(losers) ==
    LET with == {r \in ElemsOf(losers) : rec[r].val # None}
    IN  IF with = {} THEN None
        ELSE rec[CHOOSE r \in with : \A q \in with : rec[q].set <= rec[r].set].val

PlannedValue(s, losers, choice) ==
    IF choice # None THEN rec[choice].val
    ELSE IF rec[s].val # None THEN rec[s].val
    ELSE NewestLoser(losers)

-----------------------------------------------------------------------------
(* mergeLinks                                                              *)

Final(r, s, losers) == IF r \in ElemsOf(losers) THEN s ELSE r
FinalFrom(l, s, losers) == Final(link[l].from, s, losers)
FinalTo(l, s, losers) == Final(link[l].to, s, losers)

Affected(losers) == Touching(ElemsOf(losers))

\* Active links of the affected relations at any final endpoint of an affected link.
Candidates(s, losers) ==
    LET A == Affected(losers)
        at == {s} \cup {FinalFrom(l, s, losers) : l \in A} \cup {FinalTo(l, s, losers) : l \in A}
    IN  IF A = {} THEN {} ELSE {l \in Touching(at) : link[l].rel \in {link[a].rel : a \in A}}

\* endDuplicateGroups: links of a record to itself, and all but the oldest of equal links.
Duplicates(s, losers) ==
    LET C == Candidates(s, losers)
    IN  {l \in C : \/ FinalFrom(l, s, losers) = FinalTo(l, s, losers)
                   \/ \E m \in C : /\ m < l /\ link[m].rel = link[l].rel
                                   /\ FinalFrom(m, s, losers) = FinalFrom(l, s, losers)
                                   /\ FinalTo(m, s, losers) = FinalTo(l, s, losers)}

\* endCardinalityConflicts: of the links at one endpoint the survivor's own goes first, then the oldest.
\* (final: the endpoint of each link after the merge; own: the links that are the survivor's already)
Outranked(final, own) ==
    LET rank(l) == IF l \in own THEN 0 ELSE 1
    IN  {l \in DOMAIN final : \E m \in DOMAIN final \ {l} :
            /\ link[m].rel = link[l].rel /\ final[m] = final[l]
            /\ rank(m) < rank(l) \/ (rank(m) = rank(l) /\ m < l)}

\* Mutant: the cardinality is restored at the sources of links only.
EndedAtSources(s, losers) ==
    LET dup == Duplicates(s, losers)
        one == {l \in Candidates(s, losers) \ dup : link[l].rel \in ToOne}
    IN  dup \cup Outranked([l \in one |-> FinalFrom(l, s, losers)], {l \in one : link[l].from = s})

EndedByMerge(s, losers) ==
    LET dup == Duplicates(s, losers)
        one == {l \in Candidates(s, losers) \ dup : link[l].rel \in ToOne}
        from == Outranked([l \in one |-> FinalFrom(l, s, losers)], {l \in one : link[l].from = s})
        other == {l \in Candidates(s, losers) \ (dup \cup from) : link[l].rel \in FromOne}
        to == Outranked([l \in other |-> FinalTo(l, s, losers)], {l \in other : link[l].to = s})
    IN  dup \cup from \cup to

SourceOrder(r, s, losers) ==
    IF r = s THEN 0
    ELSE IF r \in ElemsOf(losers) THEN CHOOSE i \in DOMAIN losers : losers[i] = r
    ELSE MaxLosers + 1

Staying(s, losers) == Candidates(s, losers) \ EndedByMerge(s, losers)

\* The positions of the links that stay, renumbered from 0 within relation and final source.
FinalPos(l, s, losers, staying) ==
    LET group == {m \in staying :
                     /\ link[m].pos # None /\ link[m].rel = link[l].rel
                     /\ FinalFrom(m, s, losers) = FinalFrom(l, s, losers)}
        rank(m) == SourceOrder(link[m].from, s, losers)
        before(m) == \/ rank(m) < rank(l)
                     \/ rank(m) = rank(l) /\ link[m].pos < link[l].pos
                     \/ rank(m) = rank(l) /\ link[m].pos = link[l].pos /\ m < l
    IN  IF link[l].pos = None THEN None ELSE Cardinality({m \in group : before(m)})

Ending(s, losers) ==
    {l \in EndedByMerge(s, losers) : l \in Affected(losers) \/ s \in {link[l].from, link[l].to}}

\* The links a merge ends, and those it changes with the endpoints and the position they get.
LinkPlan(s, losers) ==
    LET staying == Staying(s, losers)
        final == [l \in staying |-> [from |-> FinalFrom(l, s, losers), to |-> FinalTo(l, s, losers),
                                     pos |-> FinalPos(l, s, losers, staying)]]
    IN  [ending |-> Ending(s, losers),
         final |-> [l \in {k \in staying : \/ final[k].from # link[k].from \/ final[k].to # link[k].to
                                           \/ final[k].pos # link[k].pos} |-> final[l]]]

Repointed(plan, losers) ==
    {l \in DOMAIN plan.final : link[l].from \in ElemsOf(losers) \/ link[l].to \in ElemsOf(losers)}

LinksAfterMerge(plan, at) ==
    [l \in LinkIds |->
        IF l \in plan.ending THEN [link[l] EXCEPT !.state = "ended", !.at = at]
        ELSE IF l \in DOMAIN plan.final
        THEN [link[l] EXCEPT !.from = plan.final[l].from, !.to = plan.final[l].to,
                             !.pos = plan.final[l].pos, !.at = at]
        ELSE link[l]]

LinkTouched(plan, s, losers) ==
    LET L == plan.ending \cup DOMAIN plan.final
    IN  Ends(L) \cup {Final(r, s, losers) : r \in Ends(L)}

-----------------------------------------------------------------------------
(* executeMerge                                                            *)

\* mergeListEntries: the first entry of a loser moves if the survivor is not in the list.
EntryMoved(s, losers) ==
    LET with == {i \in DOMAIN losers : listed[losers[i]] # 0}
    IN  IF listed[s] # 0 \/ with = {} THEN None
        ELSE losers[CHOOSE i \in with :
                 \A j \in with : \/ listed[losers[i]] < listed[losers[j]]
                                 \/ listed[losers[i]] = listed[losers[j]] /\ i <= j]

\* Mutant: redirects of earlier merges stay where they are.
RecordsUncompressed(s, losers, v, plan) ==
    LET linked == Bumped(rec, LinkTouched(plan, s, losers))
    IN  [r \in Record |->
            IF r = s THEN [linked[r] EXCEPT !.val = v, !.ver = @ + 1]
            ELSE IF r \in ElemsOf(losers) THEN [linked[r] EXCEPT !.into = s, !.dead = TRUE, !.ver = @ + 1]
            ELSE linked[r]]

\* bumpMergeRecords: redirects of earlier merges follow the losers, without a change row of their own.
RecordsAfterMerge(s, losers, v, plan) ==
    LET gone == ElemsOf(losers)
        linked == Bumped(rec, LinkTouched(plan, s, losers))
    IN  [r \in Record |->
            IF r = s THEN [linked[r] EXCEPT !.val = v, !.ver = @ + 1,
                              !.set = IF v # rec[s].val THEN clock + 1 ELSE @]
            ELSE IF r \in gone THEN [linked[r] EXCEPT !.into = s, !.dead = TRUE, !.ver = @ + 1]
            ELSE IF rec[r].into \in gone THEN [linked[r] EXCEPT !.into = s]
            ELSE linked[r]]

KeysAfterMerge(s, losers, v) ==
    [w \in Value |-> IF w = v THEN s
                     ELSE IF key[w] \in ElemsOf(losers) \cup {s} THEN None ELSE key[w]]

MergeSnapshot(s, losers, plan) ==
    [survivor |-> s, losers |-> losers, at |-> clock + 1, undone |-> FALSE,
     before |-> rec[s].val,
     loserVal |-> [i \in DOMAIN losers |-> rec[losers[i]].val],
     loserKey |-> [i \in DOMAIN losers |-> {v \in Value : key[v] = losers[i]}],
     repointed |-> {[id |-> l, from |-> link[l].from, to |-> link[l].to, pos |-> link[l].pos]
                       : l \in Repointed(plan, losers)},
     ended |-> plan.ending,
     moved |-> EntryMoved(s, losers),
     \* history for the properties, not stored by the program
     world |-> [rec |-> rec, key |-> key, link |-> link, listed |-> listed]]

Mergeable(s, losers) == s \notin ElemsOf(losers) /\ \A r \in {s} \cup ElemsOf(losers) : Live(r)

Merge(s, losers, choice) ==
    LET v == PlannedValue(s, losers, choice)
        m == EntryMoved(s, losers)
    IN  /\ Tick
        /\ Mergeable(s, losers) /\ choice \in {None, s} \cup ElemsOf(losers)
        /\ v # None => key[v] \in {None, s} \cup ElemsOf(losers)
        /\ \E plan \in {LinkPlan(s, losers)} :
              /\ IndexesHold(LinksAfterMerge(plan, clock + 1))
              /\ link' = LinksAfterMerge(plan, clock + 1)
              /\ rec' = RecordsAfterMerge(s, losers, v, plan)
              /\ merges' = Append(merges, MergeSnapshot(s, losers, plan))
        /\ listed' = IF m = None THEN listed ELSE [listed EXCEPT ![s] = listed[m], ![m] = 0]
        /\ key' = KeysAfterMerge(s, losers, v)
        /\ UNCHANGED deletion

-----------------------------------------------------------------------------
(* executeUnmerge                                                          *)

\* loadRecords
Undoable(m) ==
    /\ ~m.undone /\ Live(m.survivor)
    /\ \A i \in DOMAIN m.losers :
          LET r == rec[m.losers[i]] IN r.exists /\ r.dead /\ r.into = m.survivor

Restoring(m) == {k.id : k \in m.repointed} \cup m.ended

\* The endpoints and the position a link of the snapshot returns to.
Original(m, l) ==
    IF \E k \in m.repointed : k.id = l THEN CHOOSE k \in m.repointed : k.id = l
    ELSE [id |-> l, from |-> link[l].from, to |-> link[l].to, pos |-> link[l].pos]

\* loadLinks: a link whose history went on after the merge is a conflict.
ChangedSince(m, l) ==
    \/ link[l].at > m.at
    \/ IF l \in m.ended THEN link[l].state = "active"
       ELSE \/ link[l].state # "active"
            \/ link[l].from # Final(Original(m, l).from, m.survivor, m.losers)
            \/ link[l].to # Final(Original(m, l).to, m.survivor, m.losers)

\* originalPosition: a negative position in the history of a re-pointed link is refused as invalid.
HistoryReadable(m) == \A k \in m.repointed : k.pos # None => k.pos >= 0

\* linkConflict: another active link took the place.
PlaceTaken(m, l) ==
    LET o == Original(m, l)
    IN  \E k \in Of(link[l].rel) \ Restoring(m) :
            \/ link[k].from = o.from /\ (\/ link[k].to = o.to \/ link[l].rel \in ToOne
                                         \/ o.pos # None /\ link[k].pos = o.pos)
            \/ link[k].to = o.to /\ link[l].rel \in FromOne

\* prepareMovedEntries
EntryConflict(m) ==
    m.moved # None /\ (\/ listed[m.survivor] = 0 \/ listed[m.survivor] > m.at
                       \/ listed[m.moved] # 0)

\* prepareUnmergeLinks: the other ordered links of the sources concerned are renumbered around them.
AdjustedPos(m, l) ==
    LET groups == {<<link[k].rel, link[k].from>> : k \in {x \in Restoring(m) : link[x].pos # None}}
                  \cup {<<link[k].rel, Original(m, k).from>> :
                            k \in {x \in Restoring(m) : Original(m, x).pos # None}}
        beside == {k \in Of(link[l].rel) \ Restoring(m) : link[k].from = link[l].from /\ link[k].pos # None}
        back == {k \in Restoring(m) : /\ link[k].rel = link[l].rel /\ Original(m, k).pos # None
                                      /\ Original(m, k).from = link[l].from}
    IN  IF link[l].pos = None \/ <<link[l].rel, link[l].from>> \notin groups THEN link[l].pos
        ELSE Cardinality({k \in beside : link[k].pos < link[l].pos})
             + Cardinality({k \in back : \/ Original(m, k).pos < link[l].pos
                                         \/ Original(m, k).pos = link[l].pos /\ k < l})

Adjusted(m) == {l \in Active \ Restoring(m) : AdjustedPos(m, l) # link[l].pos}

\* Mutant: re-pointed links go back, ended ones stay ended.
RepointedGoBack(m) ==
    [l \in LinkIds |->
        IF l \in Restoring(m)
        THEN [link[l] EXCEPT !.from = Original(m, l).from, !.to = Original(m, l).to,
                             !.pos = Original(m, l).pos, !.at = clock + 1]
        ELSE link[l]]

LinksAfterUnmerge(m) ==
    [l \in LinkIds |->
        IF l \in Restoring(m)
        THEN [link[l] EXCEPT !.from = Original(m, l).from, !.to = Original(m, l).to,
                             !.pos = Original(m, l).pos, !.state = "active", !.at = clock + 1]
        ELSE IF l \in Adjusted(m) THEN [link[l] EXCEPT !.pos = AdjustedPos(m, l), !.at = clock + 1]
        ELSE link[l]]

\* survivorData: the value before the merge, unless the value was written after it.
SurvivorValue(m) == IF rec[m.survivor].set > m.at THEN rec[m.survivor].val ELSE m.before

\* chainedPointers: the last merge change of a record before this merge decides where it returns to.
LastMergeBefore(r, m) ==
    LET own == {i \in DOMAIN merges : merges[i].at < m.at
                    /\ r \in {merges[i].survivor} \cup ElemsOf(merges[i].losers)}
        last == CHOOSE i \in own : \A j \in own : j <= i
    IN  IF own = {} THEN None
        ELSE IF r = merges[last].survivor THEN None ELSE merges[last].survivor

Chained(m) ==
    {r \in Record : rec[r].exists /\ rec[r].into = m.survivor /\ r \notin ElemsOf(m.losers)
                    /\ LastMergeBefore(r, m) \in ElemsOf(m.losers)}

\* Mutant: the far endpoints of restored links keep their version.
OnlyMergedTouched(m) == {m.survivor} \cup ElemsOf(m.losers) \cup Chained(m)

UnmergeTouched(m) ==
    {m.survivor} \cup ElemsOf(m.losers) \cup Chained(m)
    \cup Ends(Restoring(m) \cup Adjusted(m))
    \cup {Original(m, l).from : l \in Restoring(m)} \cup {Original(m, l).to : l \in Restoring(m)}

ValueAfterUnmerge(m, r) ==
    IF r = m.survivor THEN SurvivorValue(m)
    ELSE IF r \in ElemsOf(m.losers)
    THEN m.loserVal[CHOOSE i \in DOMAIN m.losers : m.losers[i] = r] ELSE rec[r].val

RecordsAfterUnmerge(m) ==
    [r \in Record |->
        [rec[r] EXCEPT
            !.val = ValueAfterUnmerge(m, r),
            !.set = IF r = m.survivor /\ ValueAfterUnmerge(m, r) # rec[r].val THEN clock + 1 ELSE @,
            !.dead = @ /\ r \notin ElemsOf(m.losers),
            !.into = IF r \in ElemsOf(m.losers) THEN None
                     ELSE IF r \in Chained(m) THEN LastMergeBefore(r, m) ELSE @,
            !.ver = IF r \in UnmergeTouched(m) THEN @ + 1 ELSE @]]

\* restoreUniqueKeys
LoserWith(m, v) == {i \in DOMAIN m.losers : v \in m.loserKey[i]}
KeysFree(m) ==
    \A v \in Value : (v = SurvivorValue(m) \/ LoserWith(m, v) # {}) =>
        /\ key[v] \in {None, m.survivor} \cup ElemsOf(m.losers)
        /\ ~(v = SurvivorValue(m) /\ LoserWith(m, v) # {})

\* Mutant: the keys of the losers are not given back.
KeysOfSurvivorOnly(m) ==
    [v \in Value |-> IF v = SurvivorValue(m) THEN m.survivor
                     ELSE IF key[v] = m.survivor THEN None ELSE key[v]]

KeysAfterUnmerge(m) ==
    [v \in Value |->
        IF v = SurvivorValue(m) THEN m.survivor
        ELSE IF LoserWith(m, v) # {} THEN m.losers[CHOOSE i \in LoserWith(m, v) : TRUE]
        ELSE IF key[v] \in {m.survivor} \cup ElemsOf(m.losers) THEN None ELSE key[v]]

Conflicting(m) ==
    \/ \E l \in Restoring(m) : ChangedSince(m, l) \/ PlaceTaken(m, l)
    \/ EntryConflict(m) \/ ~KeysFree(m)

Unmerge(i) ==
    LET m == merges[i]
    IN  /\ Tick
        /\ Undoable(m)
        /\ \A l \in Restoring(m) : link[l].state # "gone"
        /\ HistoryReadable(m)
        /\ ~Conflicting(m) /\ IndexesHold(LinksAfterUnmerge(m))
        /\ link' = LinksAfterUnmerge(m)
        /\ listed' = IF m.moved = None THEN listed
                     ELSE [listed EXCEPT ![m.moved] = listed[m.survivor], ![m.survivor] = 0]
        /\ key' = KeysAfterUnmerge(m)
        /\ rec' = RecordsAfterUnmerge(m)
        /\ merges' = [merges EXCEPT ![i].undone = TRUE]
        /\ UNCHANGED deletion

-----------------------------------------------------------------------------

Init ==
    /\ \E w \in InitialWorlds :
          /\ rec = [r \in Record |-> [exists |-> TRUE, dead |-> FALSE, into |-> None,
                                      val |-> w.val[r], set |-> 0, ver |-> 1]]
          /\ key = [v \in Value |-> IF \E r \in Record : w.val[r] = v
                                     THEN CHOOSE r \in Record : w.val[r] = v ELSE None]
          /\ link = w.link
    /\ listed = [r \in Record |-> 0]
    /\ deletion = [r \in Record |-> NoSnapshot]
    /\ clock = 0
    /\ merges = <<>>

Edits == clock - Len(merges) - Cardinality({i \in DOMAIN merges : merges[i].undone})

GraphNext ==
    \/ \E rel \in Rel, f, t \in Record : LinkRecords(rel, f, t)
    \/ \E rel \in Rel, f, t \in Record : UnlinkRecords(rel, f, t)
    \/ \E rel \in Projected, r \in Record, targets \in Targets : Project(r, rel, targets)
    \/ \E r \in Record, v \in Value \cup {None} : SetValue(r, v)
    \/ \E r \in Record : DeleteRecord(r)
    \/ \E r \in Record : RestoreRecord(r)
    \/ \E r \in Record : Purge(r)
    \/ \E r \in Record : AddListEntry(r)
    \/ \E r \in Record : RemoveListEntry(r)

Next ==
    \/ clock + Edits + 2 <= MaxEffort /\ GraphNext /\ UNCHANGED merges
    \/ /\ clock + Edits + 1 <= MaxEffort
       /\ \/ \E s \in Record, losers \in Losers, choice \in Record \cup {None} : Merge(s, losers, choice)
          \/ \E i \in DOMAIN merges : Unmerge(i)

Spec == Init /\ [][Next]_vars

-----------------------------------------------------------------------------
(* Properties                                                              *)

TypeOK ==
    /\ rec \in [Record -> [exists : BOOLEAN, dead : BOOLEAN, into : Record \cup {None},
                           val : Value \cup {None}, set : Nat, ver : Nat]]
    /\ key \in [Value -> Record \cup {None}]
    /\ \A l \in LinkIds : link[l].rel \in Rel /\ link[l].state \in {"active", "ended", "gone"}
    /\ listed \in [Record -> Nat]

\* No sequence of links, projections, merges, restorations and undone merges leaves a record with two
\* active links of a relation that allows one, or two active links at one position.
CardinalityHolds == IndexesHold(link) /\ OneAtAnEnd(link)

\* A live record holds the key of its value and no key it does not carry, whatever merges moved.
KeysFollowRecords ==
    /\ \A r \in Record : Live(r) /\ rec[r].val # None => key[rec[r].val] = r
    /\ \A v \in Value : key[v] # None => rec[key[v]].exists /\ rec[key[v]].val = v

\* A reader that follows one redirect arrives: no survivor of a redirect is itself redirected.
RedirectsFlat ==
    \A r \in Record : rec[r].exists /\ rec[r].into # None => rec[rec[r].into].into = None

\* Values, deletion, keys, list entries and links (endpoints and state) stand as a merge found them.
BackAsFound(m) ==
    LET was == m.world
    IN  /\ listed' = was.listed
        /\ \A v \in Value : \/ key'[v] = was.key[v]
                            \/ /\ was.key[v] = None /\ key'[v] = m.survivor
                               /\ was.rec[key'[v]].val = v
        /\ \A r \in Record : rec'[r].val = was.rec[r].val /\ rec'[r].dead = was.rec[r].dead
        /\ \A l \in LinkIds : /\ link'[l].state = was.link[l].state
                               /\ link'[l].from = was.link[l].from
                               /\ link'[l].to = was.link[l].to

\* Undoing the merge that was the last operation gives everything back as it was.  Only a survivor that
\* had lost the key of its value, as a restoration can leave it, has that key again.
UndoIsWhole ==
    [][\A i \in DOMAIN merges :
          (merges[i].at = clock /\ merges'[i].undone /\ ~merges[i].undone) => BackAsFound(merges[i])]_vars

\* A record whose value, liveness or active links change has a new version, so that a client that
\* read it before is told of the conflict.  (Links that go with a purged record go silently, and the
\* position of a link counts where the relation is ordered: projections set others without a word.)
VersionSeesChange ==
    [][\A r \in Record : Live(r) /\ rec'[r].exists =>
          LET mine(rows) == {[rows[l] EXCEPT !.at = l, !.pos = IF rows[l].rel \in ToOne THEN None ELSE @] :
                                l \in {k \in DOMAIN rows : /\ rows[k].state = "active"
                                                         /\ link'[k].state # "gone"
                                                         /\ r \in {rows[k].from, rows[k].to}}}
          IN  \/ rec'[r].ver > rec[r].ver
              \/ rec'[r].val = rec[r].val /\ Live(r)' /\ mine(link') = mine(link)]_vars

\* docs/plans/05-quality.md:59, invariant (d): a merge undone at once has no conflicts.
UndoneAtOnce ==
    \A i \in DOMAIN merges :
        merges[i].at = clock => HistoryReadable(merges[i]) /\ ~Conflicting(merges[i])

=============================================================================
