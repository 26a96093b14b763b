-------------------------- MODULE MergeUnmergeProofs --------------------------
(***************************************************************************)
(* What holds of LinkGraph and MergeUnmerge for every set of records,      *)
(* relations and links and any number of operations: redirects stay flat,  *)
(* links keep to the cardinality of their relation, a merge undone at once *)
(* leaves everything as it was, and no record or its links change without  *)
(* a new version of the record.                                            *)
(***************************************************************************)
EXTENDS MergeUnmerge, FiniteSetTheorems, TLAPS, WellFoundedInduction

\* A record row has its columns; what its value and its version are does not matter here.
RowIn(V) == [exists : BOOLEAN, dead : BOOLEAN, into : Record \cup {None}, val : V, set : V, ver : V]
Row(x) == \E V : x \in RowIn(V)

LEMMA BumpedRow ==
    ASSUME NEW x, Row(x), NEW n
    PROVE  /\ Row([x EXCEPT !.ver = n])
           /\ [x EXCEPT !.ver = n].exists = x.exists /\ [x EXCEPT !.ver = n].into = x.into
<1>1. PICK V : x \in RowIn(V)
    BY DEF Row
<1>2. [x EXCEPT !.ver = n] \in RowIn(V \cup {n})
    BY <1>1 DEF RowIn
<1>3. [x EXCEPT !.ver = n].exists = x.exists /\ [x EXCEPT !.ver = n].into = x.into
    BY <1>1 DEF RowIn
<1> QED BY <1>2, <1>3 DEF Row

-----------------------------------------------------------------------------
(* The invariant                                                           *)

Rows(f) == f = [r \in Record |-> f[r]] /\ \A r \in Record : Row(f[r])

\* A merge change names its survivor and its losers; what else it keeps does not matter here.
SnapIn(V) == [survivor : Record, losers : V, at : V, undone : BOOLEAN, before : V, loserVal : V, loserKey : V,
              repointed : V, ended : V, moved : V, world : V]

MergesNamed == /\ \E V : merges \in Seq(SnapIn(V))
               /\ \A i \in DOMAIN merges : ElemsOf(merges[i].losers) \subseteq Record

GraphInv == Rows(rec) /\ MergesNamed /\ RedirectsFlat

-----------------------------------------------------------------------------
(* Steps that redirect nobody                                              *)

SameRedirects(f, g) == \A r \in Record : f[r].exists = g[r].exists /\ f[r].into = g[r].into

LEMMA BumpedRows ==
    ASSUME NEW f, \A r \in Record : Row(f[r]), NEW R
    PROVE  Rows(Bumped(f, R)) /\ SameRedirects(Bumped(f, R), f)
<1>1. Bumped(f, R) = [r \in Record |-> Bumped(f, R)[r]]
    BY DEF Bumped
<1>2. ASSUME NEW r \in Record
      PROVE  Row(Bumped(f, R)[r]) /\ Bumped(f, R)[r].exists = f[r].exists /\ Bumped(f, R)[r].into = f[r].into
    <2>1. CASE r \in R
        <3>1. Bumped(f, R)[r] = [f[r] EXCEPT !.ver = f[r].ver + 1]
            BY <2>1 DEF Bumped
        <3>2. Row(f[r])
            OBVIOUS
        <3> QED BY <3>1, <3>2, BumpedRow
    <2>2. CASE r \notin R
        <3>1. Bumped(f, R)[r] = f[r]
            BY <2>2 DEF Bumped
        <3> QED BY <3>1
    <2> QED BY <2>1, <2>2
<1> QED BY <1>1, <1>2 DEF Rows, SameRedirects

LEMMA TargetsAreRecords ==
    ASSUME Rows(rec), NEW r \in Record
    PROVE  rec[r].into \in Record \cup {None}
<1>1. PICK V : rec[r] \in RowIn(V)
    BY DEF Rows, Row
<1> QED BY <1>1 DEF RowIn

LEMMA FlatStays ==
    ASSUME Rows(rec), RedirectsFlat, \A r \in Record : rec'[r].into = rec[r].into /\ (rec'[r].exists => rec[r].exists)
    PROVE  RedirectsFlat'
<1> SUFFICES ASSUME NEW r \in Record, rec'[r].exists, rec'[r].into # None
             PROVE  rec'[rec'[r].into].into = None
    BY DEF RedirectsFlat
<1>1. rec[r].exists /\ rec[r].into # None /\ rec'[r].into = rec[r].into
    OBVIOUS
<1>2. rec[r].into \in Record /\ rec[rec[r].into].into = None
    BY <1>1, TargetsAreRecords DEF RedirectsFlat
<1> QED BY <1>1, <1>2

LEMMA QuietStep ==
    ASSUME GraphInv, NEW f, NEW R, rec' = Bumped(f, R), \A r \in Record : Row(f[r]), SameRedirects(f, rec),
           UNCHANGED merges
    PROVE  GraphInv'
<1>1. Rows(rec') /\ SameRedirects(rec', f)
    BY BumpedRows
<1>2. RedirectsFlat'
    BY <1>1, FlatStays DEF GraphInv, SameRedirects
<1>3. MergesNamed'
    BY DEF GraphInv, MergesNamed
<1> QED BY <1>1, <1>2, <1>3 DEF GraphInv, Rows

\* A row whose date of deletion is set or cleared.
LEMMA DatedRow ==
    ASSUME NEW x, Row(x), NEW b \in BOOLEAN
    PROVE  Row([x EXCEPT !.dead = b]) /\ [x EXCEPT !.dead = b].exists = x.exists /\ [x EXCEPT !.dead = b].into = x.into
<1>1. PICK V : x \in RowIn(V)
    BY DEF Row
<1>2. [x EXCEPT !.dead = b] \in RowIn(V)
    BY <1>1 DEF RowIn
<1>3. [x EXCEPT !.dead = b].exists = x.exists /\ [x EXCEPT !.dead = b].into = x.into
    BY <1>1 DEF RowIn
<1> QED BY <1>2, <1>3 DEF Row

LEMMA LinkSteps ==
    ASSUME GraphInv, UNCHANGED merges, NEW rel, NEW f, NEW t, NEW targets,
           LinkRecords(rel, f, t) \/ UnlinkRecords(rel, f, t) \/ Project(f, rel, targets)
    PROVE  GraphInv'
<1>1. \E R : rec' = Bumped(rec, R)
    <2>1. ASSUME LinkRecords(rel, f, t) PROVE \E R : rec' = Bumped(rec, R)
        <3>1. rec' = Bumped(rec, {f, t} \cup Ends(Conflicts(rel, f, t)))
            BY <2>1 DEF LinkRecords
        <3> QED BY <3>1
    <2>2. ASSUME UnlinkRecords(rel, f, t) PROVE \E R : rec' = Bumped(rec, R)
        <3>1. rec' = Bumped(rec, {f, t})
            BY <2>2 DEF UnlinkRecords
        <3> QED BY <3>1
    <2>3. ASSUME Project(f, rel, targets) PROVE \E R : rec' = Bumped(rec, R)
        BY <2>3 DEF Project
    <2> QED BY <2>1, <2>2, <2>3
<1>2. (\A r \in Record : Row(rec[r])) /\ SameRedirects(rec, rec)
    BY DEF GraphInv, Rows, SameRedirects
<1> QED BY <1>1, <1>2, QuietStep

LEMMA SetValueStep ==
    ASSUME GraphInv, UNCHANGED merges, NEW r \in Record, NEW v, SetValue(r, v)
    PROVE  GraphInv'
<1> PICK now : now = clock + 1
    OBVIOUS
<1> PICK f : f = [rec EXCEPT ![r].val = v, ![r].set = now]
    OBVIOUS
<1>1. rec' = Bumped(f, {r})
    BY DEF SetValue
<1>2. ASSUME NEW q \in Record
      PROVE  Row(f[q]) /\ f[q].exists = rec[q].exists /\ f[q].into = rec[q].into
    <2>1. Row(rec[q]) /\ rec = [p \in Record |-> rec[p]]
        BY DEF GraphInv, Rows
    <2>2. CASE q = r
        <3> PICK x : x = rec[q]
            OBVIOUS
        <3>1. f[q] = [x EXCEPT !.val = v, !.set = now]
            BY <2>1, <2>2
        <3>2. PICK V : x \in RowIn(V)
            BY <2>1 DEF Row
        <3>3. [x EXCEPT !.val = v, !.set = now] \in RowIn(V \cup {v, now})
            BY <3>2 DEF RowIn
        <3>4. f[q].exists = x.exists /\ f[q].into = x.into
            BY <3>1, <3>2 DEF RowIn
        <3>5. f[q] \in RowIn(V \cup {v, now})
            BY <3>1, <3>3, Zenon
        <3> QED BY <3>4, <3>5 DEF Row
    <2>3. CASE q # r
        <3>1. f[q] = rec[q]
            BY <2>1, <2>3
        <3> QED BY <2>1, <3>1
    <2> QED BY <2>2, <2>3
<1> QED BY <1>1, <1>2, QuietStep DEF SameRedirects

\* Setting or clearing dates of deletion, and the versions around them.
LEMMA DatesStep ==
    ASSUME GraphInv, UNCHANGED merges, NEW D, NEW R, NEW b \in BOOLEAN,
           rec' = Bumped([q \in Record |-> IF q \in D THEN [rec[q] EXCEPT !.dead = b] ELSE rec[q]], R)
    PROVE  GraphInv'
<1> PICK f : f = [q \in Record |-> IF q \in D THEN [rec[q] EXCEPT !.dead = b] ELSE rec[q]]
    OBVIOUS
<1>1. rec' = Bumped(f, R)
    OBVIOUS
<1>2. ASSUME NEW q \in Record
      PROVE  Row(f[q]) /\ f[q].exists = rec[q].exists /\ f[q].into = rec[q].into
    <2>1. Row(rec[q])
        BY DEF GraphInv, Rows
    <2>2. CASE q \in D
        <3>1. f[q] = [rec[q] EXCEPT !.dead = b]
            BY <2>2
        <3> QED BY <2>1, <3>1, DatedRow
    <2>3. CASE q \notin D
        <3>1. f[q] = rec[q]
            BY <2>3
        <3> QED BY <2>1, <3>1
    <2> QED BY <2>2, <2>3
<1> QED BY <1>1, <1>2, QuietStep DEF SameRedirects

LEMMA DeletionSteps ==
    ASSUME GraphInv, UNCHANGED merges, NEW r \in Record, DeleteRecord(r) \/ RestoreRecord(r)
    PROVE  GraphInv'
<1>1. CASE DeleteRecord(r)
    <2>1. PICK down : down = Cascaded(r)
        OBVIOUS
    <2>2. rec' = Bumped([q \in Record |-> IF q \in down \cup {r} THEN [rec[q] EXCEPT !.dead = TRUE] ELSE rec[q]],
                        down \cup {r} \cup (Ends(Touching(down \cup {r})) \ (down \cup {r})))
        BY <1>1, <2>1 DEF DeleteRecord
    <2> QED BY <2>2, DatesStep
<1>2. CASE RestoreRecord(r)
    <2>1. PICK down : down = deletion[r].cascaded
        OBVIOUS
    <2>2. rec' = Bumped([q \in Record |-> IF q \in down \cup {r} THEN [rec[q] EXCEPT !.dead = FALSE] ELSE rec[q]],
                        down \cup {r} \cup (Ends(deletion[r].links) \ (down \cup {r})))
        BY <1>2, <2>1 DEF RestoreRecord
    <2> QED BY <2>2, DatesStep
<1> QED BY <1>1, <1>2

\* A redirect to a purged record leads nowhere, but not further.
LEMMA PurgeStep ==
    ASSUME GraphInv, UNCHANGED merges, NEW r \in Record, Purge(r)
    PROVE  GraphInv'
<1>1. rec' = [rec EXCEPT ![r].exists = FALSE] /\ rec = [q \in Record |-> rec[q]]
    BY DEF Purge, GraphInv, Rows
<1>2. ASSUME NEW q \in Record
      PROVE  Row(rec'[q]) /\ rec'[q].into = rec[q].into /\ (rec'[q].exists => rec[q].exists)
    <2>1. PICK V : rec[q] \in RowIn(V)
        BY DEF GraphInv, Rows, Row
    <2>2. CASE q = r
        <3>1. rec'[q] = [rec[q] EXCEPT !.exists = FALSE]
            BY <1>1, <2>2
        <3>2. rec'[q] \in RowIn(V) /\ rec'[q].into = rec[q].into /\ rec'[q].exists = FALSE
            BY <2>1, <3>1 DEF RowIn
        <3> QED BY <3>2 DEF Row
    <2>3. CASE q # r
        <3>1. rec'[q] = rec[q]
            BY <1>1, <2>3
        <3> QED BY <2>1, <3>1 DEF Row
    <2> QED BY <2>2, <2>3
<1>3. Rows(rec') /\ RedirectsFlat'
    BY <1>1, <1>2, FlatStays DEF Rows, GraphInv
<1> QED BY <1>3 DEF GraphInv, MergesNamed, Rows

LEMMA GraphStep ==
    ASSUME GraphInv, GraphNext, UNCHANGED merges
    PROVE  GraphInv'
<1>1. ASSUME NEW r \in Record, AddListEntry(r) \/ RemoveListEntry(r) PROVE GraphInv'
    BY <1>1 DEF AddListEntry, RemoveListEntry, GraphInv, Rows, MergesNamed, RedirectsFlat
<1> QED BY <1>1, LinkSteps, SetValueStep, DeletionSteps, PurgeStep DEF GraphNext

-----------------------------------------------------------------------------
(* Merges                                                                  *)

\* What a merge does to the row of the survivor, of a loser, and of an earlier loser of a loser.
AsSurvivor(x, v, n, t) == [x EXCEPT !.val = v, !.ver = n, !.set = t]
AsLoser(x, s, n) == [x EXCEPT !.into = s, !.dead = TRUE, !.ver = n]
Redirected(x, s) == [x EXCEPT !.into = s]

LEMMA MergedRow ==
    ASSUME NEW x, Row(x), NEW y, NEW s \in Record, NEW v, NEW n, NEW t
    PROVE  /\ y = AsSurvivor(x, v, n, t) => Row(y) /\ y.exists = x.exists /\ y.into = x.into
           /\ y = AsLoser(x, s, n) => Row(y) /\ y.exists = x.exists /\ y.into = s
           /\ y = Redirected(x, s) => Row(y) /\ y.exists = x.exists /\ y.into = s
<1>1. PICK V : x \in RowIn(V)
    BY DEF Row
<1>2. ASSUME y = AsSurvivor(x, v, n, t)
      PROVE  Row(y) /\ y.exists = x.exists /\ y.into = x.into
    <2>1. y \in RowIn(V \cup {v, n, t})
        BY <1>1, <1>2 DEF RowIn, AsSurvivor
    <2>2. y.exists = x.exists /\ y.into = x.into
        BY <1>1, <1>2 DEF RowIn, AsSurvivor
    <2> QED BY <2>1, <2>2 DEF Row
<1>3. ASSUME y = AsLoser(x, s, n)
      PROVE  Row(y) /\ y.exists = x.exists /\ y.into = s
    <2>1. y \in RowIn(V \cup {n})
        BY <1>1, <1>3 DEF RowIn, AsLoser
    <2>2. y.exists = x.exists /\ y.into = s
        BY <1>1, <1>3 DEF RowIn, AsLoser
    <2> QED BY <2>1, <2>2 DEF Row
<1>4. ASSUME y = Redirected(x, s)
      PROVE  Row(y) /\ y.exists = x.exists /\ y.into = s
    <2>1. y \in RowIn(V)
        BY <1>1, <1>4 DEF RowIn, Redirected
    <2>2. y.exists = x.exists /\ y.into = s
        BY <1>1, <1>4 DEF RowIn, Redirected
    <2> QED BY <2>1, <2>2 DEF Row
<1> QED BY <1>2, <1>3, <1>4

\* Redirects after a merge: the losers and whoever was redirected to them lead to the survivor.
LEMMA RedirectsAfterMerge ==
    ASSUME Rows(rec), NEW s \in Record, NEW losers, NEW v, NEW plan, s \notin ElemsOf(losers),
           NEW f, f = RecordsAfterMerge(s, losers, v, plan)
    PROVE  /\ Rows(f)
           /\ \A r \in Record :
                 /\ f[r].exists = rec[r].exists
                 /\ f[r].into = IF r # s /\ (r \in ElemsOf(losers) \/ rec[r].into \in ElemsOf(losers)) THEN s
                               ELSE rec[r].into
<1> PICK gone, linked : gone = ElemsOf(losers) /\ linked = Bumped(rec, LinkTouched(plan, s, losers))
    OBVIOUS
<1>1. Rows(linked) /\ SameRedirects(linked, rec)
    BY BumpedRows DEF Rows
<1>2. f = [r \in Record |-> f[r]]
    BY DEF RecordsAfterMerge
<1>3. ASSUME NEW r \in Record
      PROVE  /\ Row(f[r]) /\ f[r].exists = rec[r].exists
             /\ f[r].into = IF r # s /\ (r \in gone \/ rec[r].into \in gone) THEN s ELSE rec[r].into
    <2> PICK x, n, t, y : x = linked[r] /\ n = linked[r].ver + 1 /\ y = f[r]
                          /\ t = IF v # rec[s].val THEN clock + 1 ELSE linked[r].set
        OBVIOUS
    <2>1. Row(x) /\ x.exists = rec[r].exists /\ x.into = rec[r].into
        BY <1>1 DEF Rows, SameRedirects
    <2>2. CASE r = s
        <3>1. y = AsSurvivor(x, v, n, t)
            BY <2>2 DEF RecordsAfterMerge, AsSurvivor
        <3>2. Row(y) /\ y.exists = x.exists /\ y.into = x.into
            BY <2>1, <3>1, MergedRow
        <3> QED BY <2>1, <2>2, <3>2
    <2>3. CASE r # s /\ r \in gone
        <3>1. y = AsLoser(x, s, n)
            BY <2>3 DEF RecordsAfterMerge, AsLoser
        <3>2. Row(y) /\ y.exists = x.exists /\ y.into = s
            BY <2>1, <3>1, MergedRow
        <3> QED BY <2>1, <2>3, <3>2
    <2>4. CASE r # s /\ r \notin gone /\ rec[r].into \in gone
        <3>1. y = Redirected(x, s)
            BY <2>4 DEF RecordsAfterMerge, Redirected
        <3>2. Row(y) /\ y.exists = x.exists /\ y.into = s
            BY <2>1, <3>1, MergedRow
        <3> QED BY <2>1, <2>4, <3>2
    <2>5. CASE r # s /\ r \notin gone /\ rec[r].into \notin gone
        <3>1. y = x
            BY <2>5 DEF RecordsAfterMerge
        <3> QED BY <2>1, <2>5, <3>1
    <2> QED BY <2>2, <2>3, <2>4, <2>5
<1> QED BY <1>2, <1>3 DEF Rows

LEMMA NamesAfterMerge ==
    ASSUME MergesNamed, NEW s \in Record, NEW losers, ElemsOf(losers) \subseteq Record, NEW plan,
           merges' = Append(merges, MergeSnapshot(s, losers, plan))
    PROVE  MergesNamed'
<1>1. PICK V : merges \in Seq(SnapIn(V))
    BY DEF MergesNamed
<1> PICK m : m = MergeSnapshot(s, losers, plan)
    OBVIOUS
<1> PICK W : W = V \cup {losers, clock + 1, rec[s].val, [i \in DOMAIN losers |-> rec[losers[i]].val],
                         [i \in DOMAIN losers |-> {v \in Value : key[v] = losers[i]}],
                         {[id |-> l, from |-> link[l].from, to |-> link[l].to, pos |-> link[l].pos]
                             : l \in Repointed(plan, losers)},
                         plan.ending, EntryMoved(s, losers),
                         [rec |-> rec, key |-> key, link |-> link, listed |-> listed]}
    OBVIOUS
<1>2. m \in SnapIn(W) /\ m.losers = losers
    BY DEF MergeSnapshot, SnapIn
<1>3. merges \in Seq(SnapIn(W))
    <2>1. SnapIn(V) \subseteq SnapIn(W)
        BY DEF SnapIn
    <2> QED BY <1>1, <2>1
<1>4. merges' \in Seq(SnapIn(W))
    BY <1>2, <1>3
<1>5. ASSUME NEW i \in DOMAIN merges' PROVE ElemsOf(merges'[i].losers) \subseteq Record
    <2>1. CASE i \in DOMAIN merges
        <3>1. merges'[i] = merges[i]
            BY <1>3, <2>1
        <3> QED BY <2>1, <3>1 DEF MergesNamed
    <2>2. CASE i \notin DOMAIN merges
        <3>1. merges'[i] = m
            BY <1>3, <1>5, <2>2
        <3> QED BY <1>2, <3>1
    <2> QED BY <2>1, <2>2
<1> QED BY <1>4, <1>5 DEF MergesNamed

LEMMA MergeStep ==
    ASSUME GraphInv, NEW s \in Record, NEW losers \in Losers, NEW choice, Merge(s, losers, choice)
    PROVE  GraphInv'
<1>1. ElemsOf(losers) \subseteq Record /\ s \notin ElemsOf(losers) /\ rec[s].into = None
    BY DEF Losers, ElemsOf, Merge, Mergeable, Live
<1>2. PICK plan : /\ rec' = RecordsAfterMerge(s, losers, PlannedValue(s, losers, choice), plan)
                  /\ merges' = Append(merges, MergeSnapshot(s, losers, plan))
    BY DEF Merge
<1>3. MergesNamed'
    BY <1>1, <1>2, NamesAfterMerge DEF GraphInv
<1> PICK f, v : f = rec' /\ v = PlannedValue(s, losers, choice)
    OBVIOUS
<1>4. /\ Rows(f)
      /\ \A r \in Record :
            /\ f[r].exists = rec[r].exists
            /\ f[r].into = IF r # s /\ (r \in ElemsOf(losers) \/ rec[r].into \in ElemsOf(losers)) THEN s
                          ELSE rec[r].into
    BY <1>1, <1>2, RedirectsAfterMerge DEF GraphInv
<1>5. f[s].into = None
    BY <1>1, <1>4
<1>6. ASSUME NEW r \in Record, f[r].exists, f[r].into # None PROVE f[f[r].into].into = None
    <2>1. CASE f[r].into = s
        BY <1>5, <2>1
    <2>2. CASE f[r].into # s
        <3>1. r \notin ElemsOf(losers) /\ rec[r].into \notin ElemsOf(losers) /\ f[r].into = rec[r].into
            BY <1>1, <1>4, <1>6, <2>2
        <3>2. rec[r].into \in Record /\ rec[rec[r].into].into = None
            BY <1>4, <1>6, <3>1, TargetsAreRecords DEF GraphInv, RedirectsFlat
        <3>3. None \notin ElemsOf(losers)
            BY <1>1, GraphAssumption DEF GraphAssumption
        <3> QED BY <1>4, <3>1, <3>2, <3>3
    <2> QED BY <2>1, <2>2
<1>7. RedirectsFlat' /\ Rows(rec')
    BY <1>4, <1>6 DEF RedirectsFlat
<1> QED BY <1>3, <1>7 DEF GraphInv, Rows

-----------------------------------------------------------------------------
(* Unmerges                                                                *)

\* What an unmerge does to a row.
Unmerged(x, v, t, b, i, n) == [x EXCEPT !.val = v, !.set = t, !.dead = b, !.into = i, !.ver = n]

LEMMA UnmergedRow ==
    ASSUME NEW x, Row(x), NEW v, NEW t, NEW b \in BOOLEAN, NEW i \in Record \cup {None}, NEW n,
           NEW y, y = Unmerged(x, v, t, b, i, n)
    PROVE  Row(y) /\ y.exists = x.exists /\ y.into = i
<1>1. PICK V : x \in RowIn(V)
    BY DEF Row
<1>2. y \in RowIn(V \cup {v, t, n})
    BY <1>1 DEF RowIn, Unmerged
<1>3. y.exists = x.exists /\ y.into = i
    BY <1>1 DEF RowIn, Unmerged
<1> QED BY <1>2, <1>3 DEF Row

\* Redirects after an unmerge: the losers are free again, and who was redirected to one of them is so again.
LEMMA RedirectsAfterUnmerge ==
    ASSUME Rows(rec), NEW m, ElemsOf(m.losers) \subseteq Record, NEW f, f = RecordsAfterUnmerge(m)
    PROVE  /\ Rows(f)
           /\ \A r \in Record :
                 /\ f[r].exists = rec[r].exists
                 /\ f[r].into = IF r \in ElemsOf(m.losers) THEN None
                               ELSE IF r \in Chained(m) THEN LastMergeBefore(r, m) ELSE rec[r].into
<1>1. f = [r \in Record |-> f[r]]
    BY DEF RecordsAfterUnmerge
<1>2. ASSUME NEW r \in Record
      PROVE  /\ Row(f[r]) /\ f[r].exists = rec[r].exists
             /\ f[r].into = IF r \in ElemsOf(m.losers) THEN None
                           ELSE IF r \in Chained(m) THEN LastMergeBefore(r, m) ELSE rec[r].into
    <2> DEFINE x == rec[r]
               v == ValueAfterUnmerge(m, r)
               t == IF r = m.survivor /\ v # x.val THEN clock + 1 ELSE x.set
               b == x.dead /\ r \notin ElemsOf(m.losers)
               i == IF r \in ElemsOf(m.losers) THEN None
                    ELSE IF r \in Chained(m) THEN LastMergeBefore(r, m) ELSE x.into
               n == IF r \in UnmergeTouched(m) THEN x.ver + 1 ELSE x.ver
    <2>1. f[r] = Unmerged(x, v, t, b, i, n)
        BY DEF RecordsAfterUnmerge, Unmerged
    <2>2. b \in BOOLEAN
        <3>1. PICK V : x \in RowIn(V)
            BY DEF Rows, Row
        <3> QED BY <3>1 DEF RowIn
    <2>3. i \in Record \cup {None}
        BY TargetsAreRecords DEF Chained
    <2>4. Row(x)
        BY DEF Rows
    <2> HIDE DEF x, v, t, b, i, n
    <2>5. Row(f[r]) /\ f[r].exists = x.exists /\ f[r].into = i
        BY <2>1, <2>2, <2>3, <2>4, UnmergedRow
    <2> QED BY <2>5 DEF x, i
<1> QED BY <1>1, <1>2 DEF Rows

LEMMA NamesAfterUnmerge ==
    ASSUME MergesNamed, NEW i \in DOMAIN merges, merges' = [merges EXCEPT ![i].undone = TRUE]
    PROVE  MergesNamed'
<1>1. PICK V : merges \in Seq(SnapIn(V))
    BY DEF MergesNamed
<1> PICK m : m = [merges[i] EXCEPT !.undone = TRUE]
    OBVIOUS
<1>2. merges[i] \in SnapIn(V)
    BY <1>1
<1>3. m \in SnapIn(V) /\ m.losers = merges[i].losers
    BY <1>2 DEF SnapIn
<1>4. merges' = [merges EXCEPT ![i] = m]
    OBVIOUS
<1>5. merges' \in Seq(SnapIn(V)) /\ DOMAIN merges' = DOMAIN merges
    BY <1>1, <1>3, <1>4
<1>6. ASSUME NEW j \in DOMAIN merges' PROVE merges'[j].losers = merges[j].losers
    BY <1>1, <1>3, <1>4, <1>5
<1> QED BY <1>5, <1>6 DEF MergesNamed

LEMMA UnmergeStep ==
    ASSUME GraphInv, NEW i \in DOMAIN merges, Unmerge(i)
    PROVE  GraphInv'
<1> PICK m : m = merges[i]
    OBVIOUS
<1>1. /\ rec' = RecordsAfterUnmerge(m)
      /\ merges' = [merges EXCEPT ![i].undone = TRUE]
    BY DEF Unmerge
<1>2. m.survivor \in Record /\ ElemsOf(m.losers) \subseteq Record
    <2>1. PICK V : merges \in Seq(SnapIn(V))
        BY DEF GraphInv, MergesNamed
    <2>2. m \in SnapIn(V)
        BY <2>1
    <2>3. ElemsOf(m.losers) \subseteq Record
        BY DEF GraphInv, MergesNamed
    <2> QED BY <2>2, <2>3 DEF SnapIn
<1>3. MergesNamed'
    BY <1>1, NamesAfterUnmerge DEF GraphInv
<1> PICK f : f = rec'
    OBVIOUS
<1>4. /\ Rows(f)
      /\ \A r \in Record :
            /\ f[r].exists = rec[r].exists
            /\ f[r].into = IF r \in ElemsOf(m.losers) THEN None
                          ELSE IF r \in Chained(m) THEN LastMergeBefore(r, m) ELSE rec[r].into
    BY <1>1, <1>2, RedirectsAfterUnmerge DEF GraphInv
<1>5. ASSUME NEW r \in Record, f[r].exists, f[r].into # None PROVE f[f[r].into].into = None
    <2>1. CASE f[r].into \in ElemsOf(m.losers)
        BY <1>2, <1>4, <2>1
    <2>2. CASE f[r].into \notin ElemsOf(m.losers)
        <3>1. f[r].into = rec[r].into
            BY <1>4, <1>5, <2>2 DEF Chained
        <3>2. rec[r].into \in Record /\ rec[rec[r].into].into = None
            BY <1>4, <1>5, <3>1, TargetsAreRecords DEF GraphInv, RedirectsFlat
        <3>3. rec[r].into \notin Chained(m)
            BY <1>2, <3>2, GraphAssumption DEF Chained, GraphAssumption
        <3> QED BY <1>4, <2>2, <3>1, <3>2, <3>3
    <2> QED BY <2>1, <2>2
<1>6. RedirectsFlat' /\ Rows(rec')
    BY <1>4, <1>5 DEF RedirectsFlat
<1> QED BY <1>3, <1>6 DEF GraphInv, Rows

-----------------------------------------------------------------------------

LEMMA InitFlat == Init => GraphInv
<1> SUFFICES ASSUME Init PROVE GraphInv
    OBVIOUS
<1>1. PICK w : rec = [r \in Record |-> [exists |-> TRUE, dead |-> FALSE, into |-> None,
                                        val |-> w.val[r], set |-> 0, ver |-> 1]]
    BY DEF Init
<1>2. ASSUME NEW r \in Record PROVE Row(rec[r]) /\ rec[r].into = None
    <2>1. rec[r] \in RowIn({w.val[r], 0, 1}) /\ rec[r].into = None
        BY <1>1 DEF RowIn
    <2> QED BY <2>1 DEF Row
<1>3. Rows(rec) /\ RedirectsFlat
    BY <1>1, <1>2 DEF Rows, RedirectsFlat
<1>4. MergesNamed
    BY DEF Init, MergesNamed
<1> QED BY <1>3, <1>4 DEF GraphInv

LEMMA GraphInvStep == GraphInv /\ [Next]_vars => GraphInv'
<1> SUFFICES ASSUME GraphInv, [Next]_vars PROVE GraphInv'
    OBVIOUS
<1>1. CASE Next
    <2>1. ASSUME GraphNext, UNCHANGED merges PROVE GraphInv'
        BY <2>1, GraphStep
    <2>2. ASSUME NEW s \in Record, NEW losers \in Losers, NEW choice \in Record \cup {None},
                 Merge(s, losers, choice)
          PROVE  GraphInv'
        BY <2>2, MergeStep
    <2>3. ASSUME NEW i \in DOMAIN merges, Unmerge(i) PROVE GraphInv'
        BY <2>3, UnmergeStep
    <2> QED BY <1>1, <2>1, <2>2, <2>3 DEF Next
<1>2. CASE UNCHANGED vars
    BY <1>2 DEF vars, GraphInv, Rows, MergesNamed, RedirectsFlat
<1> QED BY <1>1, <1>2

\* Whatever records are linked, merged, unmerged, deleted, restored and purged, in whatever order, a
\* redirect leads to a record that is not redirected (mergeLinks and bumpMergeRecords in merge/execute.ts,
\* chainedPointers in merge/unmerge.ts).
THEOREM RedirectsStayFlat == Spec => []RedirectsFlat
<1>1. GraphInv => RedirectsFlat
    BY DEF GraphInv
<1> QED BY InitFlat, GraphInvStep, <1>1, PTL DEF Spec

-----------------------------------------------------------------------------
(* Links: what they are, and what fits together                            *)

\* A row of record_links has its columns; its `at` is the seq of its last change.
LinkRow(x) ==
    /\ x = [rel |-> x.rel, from |-> x.from, to |-> x.to, pos |-> x.pos, state |-> x.state, at |-> x.at]
    /\ x.at \in Nat
LinkRows(f) == \E S : f \in Seq(S) /\ \A l \in DOMAIN f : LinkRow(f[l])

SameEnds(a, b) == a.from = b.from /\ a.to = b.to /\ a.pos = b.pos

\* Two links may be active side by side.
Fits(a, b) ==
    a.rel = b.rel =>
        /\ a.from = b.from => a.to # b.to /\ (a.pos = None \/ a.pos # b.pos) /\ a.rel \notin ToOne
        /\ a.to = b.to => a.rel \notin FromOne

Whole(rows) ==
    /\ \A l, k \in DOMAIN rows :
          (l # k /\ rows[l].state = "active" /\ rows[k].state = "active") => Fits(rows[l], rows[k])
    /\ \A l \in DOMAIN rows : rows[l].pos # None => rows[l].rel \in Projected

\* A record whose deletion can still be taken back, and the links that would come back with it.
Restorable(r) == rec[r].exists /\ rec[r].dead /\ rec[r].into = None
Held == [r \in Record |-> IF Restorable(r) THEN deletion[r].links ELSE {}]

\* What the snapshots of restorable records hold: links that are not active, fit together, and are held once.
Kept(rows, held) ==
    \A r \in Record :
        /\ held[r] \subseteq DOMAIN rows
        /\ \A l \in held[r] : rows[l].state # "active"
        /\ \A l, k \in held[r] : l # k => Fits(rows[l], rows[k])
        /\ \A q \in Record : q # r => held[r] \cap held[q] = {}

\* What a merge change keeps of the links it changed: they fitted together in the graph it found, and one
\* that it ended and nobody changed since has the endpoints it had there.
Remembers(m, rows, now) ==
    /\ m.at \in Nat /\ m.at <= now
    /\ Restoring(m) \subseteq DOMAIN rows
    /\ \A l, k \in Restoring(m) : l # k => Fits(m.world.link[l], m.world.link[k])
    /\ \A l \in Restoring(m) : /\ m.world.link[l].rel = rows[l].rel
                               /\ m.world.link[l].pos # None => m.world.link[l].rel \in Projected
    /\ \A k \in m.repointed : SameEnds(k, m.world.link[k.id])
    /\ \A l \in m.ended : rows[l].at <= m.at => rows[l].state # "active" /\ SameEnds(rows[l], m.world.link[l])

\* No link is in the hands of a merge that may be undone and of a deletion that may be taken back at once.
HeldOnce(ms, rows, held) ==
    \A i \in DOMAIN ms, r \in Record : \A l \in ms[i].ended \cap held[r] : rows[l].at > ms[i].at

AllRemember(ms, rows, now) == \A i \in DOMAIN ms : Remembers(ms[i], rows, now)

LinkInv ==
    /\ GraphInv /\ clock \in Nat
    /\ LinkRows(link) /\ Whole(link)
    /\ Kept(link, Held)
    /\ AllRemember(merges, link, clock) /\ HeldOnce(merges, link, Held)

LEMMA WholeIsCardinality ==
    ASSUME LinkRows(link), Whole(link)
    PROVE  CardinalityHolds
BY DEF Whole, Fits, CardinalityHolds, IndexesHold, OneAtAnEnd

LEMMA RowsNumbered ==
    ASSUME NEW f, LinkRows(f)
    PROVE  /\ Len(f) \in Nat /\ DOMAIN f = 1..Len(f)
           /\ \A l \in DOMAIN f : LinkRow(f[l])
BY DEF LinkRows

LEMMA RowsChanged ==
    ASSUME NEW f, LinkRows(f), NEW g, DOMAIN g = DOMAIN f, g = [l \in DOMAIN f |-> g[l]],
           \A l \in DOMAIN f : LinkRow(g[l])
    PROVE  LinkRows(g)
<1> PICK S : S = {g[l] : l \in DOMAIN f}
    OBVIOUS
<1>1. Len(f) \in Nat /\ DOMAIN f = 1..Len(f)
    BY RowsNumbered
<1>2. g \in [1..Len(f) -> S]
    BY <1>1
<1>3. g \in Seq(S)
    BY <1>1, <1>2
<1> QED BY <1>3 DEF LinkRows

\* The rows a step may write: other ends, another place, another state.
Written(x, f, t, p, st, n) == [rel |-> x.rel, from |-> f, to |-> t, pos |-> p, state |-> st, at |-> n]

LEMMA WrittenRow ==
    ASSUME NEW x, NEW f, NEW t, NEW p, NEW st, NEW n \in Nat
    PROVE  /\ LinkRow(Written(x, f, t, p, st, n))
           /\ Written(x, f, t, p, st, n).rel = x.rel /\ Written(x, f, t, p, st, n).from = f
           /\ Written(x, f, t, p, st, n).to = t /\ Written(x, f, t, p, st, n).pos = p
           /\ Written(x, f, t, p, st, n).state = st /\ Written(x, f, t, p, st, n).at = n
BY DEF LinkRow, Written

LEMMA RowEnded ==
    ASSUME NEW x, LinkRow(x), NEW st, NEW n \in Nat, NEW y, y = [x EXCEPT !.state = st, !.at = n]
    PROVE  LinkRow(y) /\ y = Written(x, x.from, x.to, x.pos, st, n)
<1>1. x = [rel |-> x.rel, from |-> x.from, to |-> x.to, pos |-> x.pos, state |-> x.state, at |-> x.at] /\ x.at \in Nat
    BY DEF LinkRow
<1>2. y = Written(x, x.from, x.to, x.pos, st, n)
    BY <1>1 DEF Written
<1> QED BY <1>1, <1>2, WrittenRow

LEMMA RowGone ==
    ASSUME NEW x, LinkRow(x), NEW st, NEW y, y = [x EXCEPT !.state = st]
    PROVE  LinkRow(y) /\ y = Written(x, x.from, x.to, x.pos, st, x.at)
<1>1. x = [rel |-> x.rel, from |-> x.from, to |-> x.to, pos |-> x.pos, state |-> x.state, at |-> x.at] /\ x.at \in Nat
    BY DEF LinkRow
<1>2. y = Written(x, x.from, x.to, x.pos, st, x.at)
    BY <1>1 DEF Written
<1> QED BY <1>1, <1>2, WrittenRow

LEMMA RowPlaced ==
    ASSUME NEW x, LinkRow(x), NEW p, NEW n \in Nat, NEW y, y = [x EXCEPT !.pos = p, !.at = n]
    PROVE  LinkRow(y) /\ y = Written(x, x.from, x.to, p, x.state, n)
<1>1. x = [rel |-> x.rel, from |-> x.from, to |-> x.to, pos |-> x.pos, state |-> x.state, at |-> x.at] /\ x.at \in Nat
    BY DEF LinkRow
<1>2. y = Written(x, x.from, x.to, p, x.state, n)
    BY <1>1 DEF Written
<1> QED BY <1>1, <1>2, WrittenRow

LEMMA RowRepointed ==
    ASSUME NEW x, LinkRow(x), NEW f, NEW t, NEW p, NEW n \in Nat, NEW y, y = [x EXCEPT !.from = f, !.to = t, !.pos = p, !.at = n]
    PROVE  LinkRow(y) /\ y = Written(x, f, t, p, x.state, n)
<1>1. x = [rel |-> x.rel, from |-> x.from, to |-> x.to, pos |-> x.pos, state |-> x.state, at |-> x.at] /\ x.at \in Nat
    BY DEF LinkRow
<1>2. y = Written(x, f, t, p, x.state, n)
    BY <1>1 DEF Written
<1> QED BY <1>1, <1>2, WrittenRow

Returned(x, f, t, p, st, n) == [x EXCEPT !.from = f, !.to = t, !.pos = p, !.state = st, !.at = n]

LEMMA RowRestored ==
    ASSUME NEW x, LinkRow(x), NEW f, NEW t, NEW p, NEW st, NEW n \in Nat, NEW y, y = Returned(x, f, t, p, st, n)
    PROVE  LinkRow(y) /\ y = Written(x, f, t, p, st, n)
<1>1. x = [rel |-> x.rel, from |-> x.from, to |-> x.to, pos |-> x.pos, state |-> x.state, at |-> x.at] /\ x.at \in Nat
    BY DEF LinkRow
<1>2. y = Written(x, f, t, p, st, n)
    BY <1>1 DEF Written, Returned
<1> QED BY <1>1, <1>2, WrittenRow

-----------------------------------------------------------------------------
(* What any step leaves of the invariant                                   *)

\* A step keeps the relation of a link, moves active links only, and dates the ones it revives.
RowStep(x, y, now) ==
    /\ y.rel = x.rel
    /\ y.at = now \/ y.at = x.at
    /\ x.state # "active" => SameEnds(y, x) /\ (y.state = "active" => y.at = now)
RowsStep(f, g, now) == DOMAIN f \subseteq DOMAIN g /\ \A l \in DOMAIN f : RowStep(f[l], g[l], now)
NoneRevived(f, g) == \A l \in DOMAIN f : f[l].state # "active" => g[l].state # "active"

LEMMA RemembersOn ==
    ASSUME NEW m, NEW f, NEW g, NEW now \in Nat, LinkRows(f), Remembers(m, f, now), RowsStep(f, g, now + 1)
    PROVE  Remembers(m, g, now + 1)
<1>1. m.at \in Nat /\ m.at <= now + 1 /\ Restoring(m) \subseteq DOMAIN g /\ m.ended \subseteq DOMAIN f
    BY DEF Remembers, RowsStep, Restoring
<1>2. ASSUME NEW l \in Restoring(m) PROVE m.world.link[l].rel = g[l].rel
    BY DEF Remembers, RowsStep, RowStep
<1>3. ASSUME NEW l \in m.ended, g[l].at <= m.at PROVE g[l].state # "active" /\ SameEnds(g[l], m.world.link[l])
    <2>1. l \in DOMAIN f /\ LinkRow(f[l]) /\ RowStep(f[l], g[l], now + 1)
        BY <1>1, RowsNumbered DEF RowsStep
    <2>2. g[l].at # now + 1
        BY <1>3, <1>1 DEF Remembers
    <2>3. g[l].at = f[l].at
        BY <2>1, <2>2 DEF RowStep
    <2>4. f[l].state # "active" /\ SameEnds(f[l], m.world.link[l])
        BY <1>3, <2>3 DEF Remembers
    <2>5. SameEnds(g[l], f[l]) /\ g[l].state # "active"
        BY <2>1, <2>2, <2>4 DEF RowStep
    <2> QED BY <2>4, <2>5 DEF SameEnds
<1> QED BY <1>1, <1>2, <1>3 DEF Remembers

LEMMA AllRememberOn ==
    ASSUME NEW ms, NEW f, NEW g, NEW now \in Nat, LinkRows(f), AllRemember(ms, f, now), RowsStep(f, g, now + 1)
    PROVE  AllRemember(ms, g, now + 1)
BY RemembersOn DEF AllRemember

\* Snapshots keep what they hold while none of it becomes active again.
LEMMA KeptOn ==
    ASSUME NEW f, NEW g, NEW held, NEW held2, NEW now, Kept(f, held), RowsStep(f, g, now),
           \A r \in Record : held2[r] \subseteq held[r] /\ \A l \in held2[r] : g[l].state # "active"
    PROVE  Kept(g, held2)
<1>1. ASSUME NEW r \in Record, NEW l \in held2[r]
      PROVE  l \in held[r] /\ l \in DOMAIN f /\ l \in DOMAIN g /\ g[l].rel = f[l].rel /\ SameEnds(g[l], f[l])
    BY DEF Kept, RowsStep, RowStep
<1>2. ASSUME NEW r \in Record, NEW l \in held2[r], NEW k \in held2[r], l # k PROVE Fits(g[l], g[k])
    <2>1. Fits(f[l], f[k])
        BY <1>1, <1>2 DEF Kept
    <2>2. g[l].rel = f[l].rel /\ SameEnds(g[l], f[l]) /\ g[k].rel = f[k].rel /\ SameEnds(g[k], f[k])
        BY <1>1
    <2> QED BY <2>1, <2>2 DEF Fits, SameEnds
<1>3. ASSUME NEW r \in Record, NEW q \in Record, q # r PROVE held2[r] \cap held2[q] = {}
    <2>1. held[r] \cap held[q] = {} /\ held2[r] \subseteq held[r] /\ held2[q] \subseteq held[q]
        BY <1>3 DEF Kept
    <2> QED BY <2>1
<1> QED BY <1>1, <1>2, <1>3 DEF Kept

LEMMA HeldOnceOn ==
    ASSUME NEW ms, NEW f, NEW g, NEW held, NEW held2, NEW now \in Nat, LinkRows(f), Kept(f, held),
           AllRemember(ms, f, now), HeldOnce(ms, f, held), RowsStep(f, g, now + 1),
           \A r \in Record : held2[r] \subseteq held[r]
    PROVE  HeldOnce(ms, g, held2)
<1> SUFFICES ASSUME NEW i \in DOMAIN ms, NEW r \in Record, NEW l \in ms[i].ended \cap held2[r]
             PROVE  g[l].at > ms[i].at
    BY DEF HeldOnce
<1>1. l \in ms[i].ended \cap held[r] /\ l \in DOMAIN f
    BY DEF Kept
<1>2. f[l].at > ms[i].at /\ f[l].at \in Nat
    BY <1>1, RowsNumbered DEF HeldOnce, LinkRow
<1>3. ms[i].at \in Nat /\ ms[i].at <= now
    BY DEF AllRemember, Remembers
<1>4. g[l].at = now + 1 \/ g[l].at = f[l].at
    BY <1>1 DEF RowsStep, RowStep
<1> QED BY <1>2, <1>3, <1>4

LEMMA HeldBy ==
    ASSUME NEW r \in Record
    PROVE  Held[r] = IF Restorable(r) THEN deletion[r].links ELSE {}
BY DEF Held

\* A step that revives no link and makes no deletion.
LEMMA QuietLinks ==
    ASSUME LinkInv, GraphInv', clock' = clock + 1, UNCHANGED <<merges, deletion>>,
           LinkRows(link'), Whole(link'), RowsStep(link, link', clock + 1), NoneRevived(link, link'),
           \A r \in Record : Restorable(r)' => Restorable(r)
    PROVE  LinkInv'
<1> PICK g, held2, ms : g = link' /\ held2 = Held' /\ ms = merges
    OBVIOUS
<1>1. \A r \in Record : held2[r] \subseteq Held[r]
    <2>1. ASSUME NEW r \in Record PROVE held2[r] = IF Restorable(r)' THEN deletion'[r].links ELSE {}
        BY DEF Held
    <2>2. ASSUME NEW r \in Record PROVE held2[r] \subseteq Held[r]
        BY <2>1, HeldBy
    <2> QED BY <2>2
<1>2. \A r \in Record : \A l \in held2[r] : g[l].state # "active"
    BY <1>1 DEF LinkInv, Kept, NoneRevived
<1>3. Kept(g, held2)
    BY <1>1, <1>2, KeptOn DEF LinkInv
<1>4. AllRemember(ms, g, clock + 1)
    BY AllRememberOn DEF LinkInv
<1>5. HeldOnce(ms, g, held2)
    BY <1>1, HeldOnceOn DEF LinkInv
<1> QED BY <1>3, <1>4, <1>5 DEF LinkInv
-----------------------------------------------------------------------------
(* Steps that end links, and steps that leave them                         *)

LEMMA EndedRows ==
    ASSUME LinkRows(link), Whole(link), NEW L, NEW n \in Nat, NEW f, f = Ended(L, n)
    PROVE  /\ LinkRows(f) /\ DOMAIN f = LinkIds /\ Whole(f)
           /\ RowsStep(link, f, n) /\ NoneRevived(link, f)
           /\ \A l \in LinkIds : f[l].state = "active" => l \notin L /\ f[l] = link[l]
           /\ \A l \in LinkIds : f[l].rel = link[l].rel /\ SameEnds(f[l], link[l])
           /\ \A l \in LinkIds \cap L : f[l].state # "active" /\ f[l].at = n
<1>1. f = [l \in LinkIds |-> f[l]] /\ DOMAIN f = LinkIds
    BY DEF Ended
<1>2. ASSUME NEW l \in LinkIds
      PROVE  /\ LinkRow(f[l]) /\ RowStep(link[l], f[l], n) /\ f[l].rel = link[l].rel /\ SameEnds(f[l], link[l])
             /\ f[l].state = "active" => l \notin L /\ f[l] = link[l]
             /\ l \in L => f[l].state = "ended" /\ f[l].at = n
    <2>1. LinkRow(link[l])
        BY RowsNumbered DEF LinkIds
    <2>2. CASE l \in L
        <3>1. f[l] = [link[l] EXCEPT !.state = "ended", !.at = n]
            BY <2>2 DEF Ended
        <3>a. PICK x, y : x = link[l] /\ y = f[l]
            OBVIOUS
        <3>b. LinkRow(x) /\ y = [x EXCEPT !.state = "ended", !.at = n]
            BY <2>1, <3>1, <3>a
        <3>2. LinkRow(y) /\ y = Written(x, x.from, x.to, x.pos, "ended", n)
            BY <3>b, RowEnded
        <3>3. y.rel = x.rel /\ y.from = x.from /\ y.to = x.to /\ y.pos = x.pos /\ y.state = "ended" /\ y.at = n
            BY <3>2, WrittenRow
        <3> QED BY <2>2, <3>a, <3>2, <3>3 DEF RowStep, SameEnds
    <2>3. CASE l \notin L
        <3>1. f[l] = link[l]
            BY <2>3 DEF Ended
        <3> QED BY <2>1, <2>3, <3>1 DEF RowStep, SameEnds
    <2> QED BY <2>2, <2>3
<1>3. LinkRows(f)
    BY <1>1, <1>2, RowsChanged DEF LinkIds
<1>4. RowsStep(link, f, n) /\ NoneRevived(link, f)
    BY <1>1, <1>2 DEF RowsStep, NoneRevived, LinkIds
<1>5. Whole(f)
    <2>1. ASSUME NEW l \in DOMAIN f, NEW k \in DOMAIN f, l # k, f[l].state = "active", f[k].state = "active"
          PROVE  Fits(f[l], f[k])
        BY <1>1, <1>2, <2>1 DEF Whole, LinkIds
    <2>2. ASSUME NEW l \in DOMAIN f, f[l].pos # None PROVE f[l].rel \in Projected
        BY <1>1, <1>2, <2>2 DEF Whole, SameEnds, LinkIds
    <2> QED BY <2>1, <2>2 DEF Whole
<1> QED BY <1>1, <1>2, <1>3, <1>4, <1>5

LEMMA DeadStays ==
    ASSUME NEW x, Row(x), NEW n
    PROVE  [x EXCEPT !.ver = n].dead = x.dead /\ x.dead \in BOOLEAN
<1>1. PICK V : x \in RowIn(V)
    BY DEF Row
<1> QED BY <1>1 DEF RowIn

LEMMA BumpedStays ==
    ASSUME NEW f, \A r \in Record : Row(f[r]), NEW R, NEW r \in Record
    PROVE  Bumped(f, R)[r].dead = f[r].dead /\ Bumped(f, R)[r].exists = f[r].exists /\ Bumped(f, R)[r].into = f[r].into
<1>1. Bumped(f, R)[r].exists = f[r].exists /\ Bumped(f, R)[r].into = f[r].into
    BY BumpedRows DEF SameRedirects
<1>2. Bumped(f, R)[r].dead = f[r].dead
    <2>1. CASE r \in R
        <3>1. Bumped(f, R)[r] = [f[r] EXCEPT !.ver = f[r].ver + 1]
            BY <2>1 DEF Bumped
        <3> QED BY <3>1, DeadStays
    <2>2. CASE r \notin R
        <3>1. Bumped(f, R)[r] = f[r]
            BY <2>2 DEF Bumped
        <3> QED BY <3>1
    <2> QED BY <2>1, <2>2
<1> QED BY <1>1, <1>2

LEMMA BumpedRestorable ==
    ASSUME GraphInv, NEW R, rec' = Bumped(rec, R), NEW r \in Record
    PROVE  Restorable(r)' = Restorable(r)
<1>1. \A q \in Record : Row(rec[q])
    BY DEF GraphInv, Rows
<1>2. rec'[r].dead = rec[r].dead /\ rec'[r].exists = rec[r].exists /\ rec'[r].into = rec[r].into
    BY <1>1, BumpedStays
<1> QED BY <1>2 DEF Restorable

LEMMA ClockTicks ==
    ASSUME clock \in Nat, Tick
    PROVE  clock' = clock + 1 /\ clock + 1 \in Nat /\ clock' \in Nat
BY DEF Tick

LEMMA UnlinkStep ==
    ASSUME LinkInv, UNCHANGED merges, NEW rel, NEW f, NEW t, UnlinkRecords(rel, f, t)
    PROVE  LinkInv'
<1> PICK now, L : now = clock + 1 /\ L = {l \in Of(rel) : link[l].from = f /\ link[l].to = t}
    OBVIOUS
<1>1. link' = Ended(L, now) /\ rec' = Bumped(rec, {f, t}) /\ UNCHANGED deletion /\ clock' = now
    BY DEF UnlinkRecords, Tick
<1>2. GraphInv'
    BY LinkSteps DEF LinkInv
<1>3. LinkRows(link') /\ Whole(link') /\ RowsStep(link, link', now) /\ NoneRevived(link, link')
    BY <1>1, EndedRows DEF LinkInv
<1>4. \A r \in Record : Restorable(r)' => Restorable(r)
    BY <1>1, BumpedRestorable DEF LinkInv
<1> QED BY <1>1, <1>2, <1>3, <1>4, QuietLinks

-----------------------------------------------------------------------------
(* Steps that create links                                                 *)

LEMMA FitsBoth ==
    ASSUME NEW a, NEW b, Fits(a, b)
    PROVE  Fits(b, a)
BY DEF Fits

\* Rows are added behind the others.
LEMMA RowsAdded ==
    ASSUME NEW f, LinkRows(f), NEW new, LinkRows(new), NEW g, g = f \o new
    PROVE  /\ LinkRows(g) /\ DOMAIN g = 1..(Len(f) + Len(new)) /\ DOMAIN f \subseteq DOMAIN g
           /\ \A l \in DOMAIN f : g[l] = f[l]
           /\ \A l \in DOMAIN g \ DOMAIN f : l - Len(f) \in DOMAIN new /\ g[l] = new[l - Len(f)]
<1>1. PICK S, T : f \in Seq(S) /\ new \in Seq(T)
    BY DEF LinkRows
<1>2. f \in Seq(S \cup T) /\ new \in Seq(S \cup T)
    BY <1>1
<1>3. g \in Seq(S \cup T) /\ Len(f) \in Nat /\ Len(new) \in Nat /\ DOMAIN f = 1..Len(f) /\ DOMAIN new = 1..Len(new)
    BY <1>2
<1>4. DOMAIN g = 1..(Len(f) + Len(new))
    BY <1>2, <1>3
<1>5. \A l \in DOMAIN f : g[l] = f[l] /\ l \in DOMAIN g
    BY <1>2, <1>3, <1>4
<1>6. \A l \in DOMAIN g \ DOMAIN f : l - Len(f) \in DOMAIN new /\ g[l] = new[l - Len(f)]
    BY <1>2, <1>3, <1>4
<1>7. \A l \in DOMAIN g : LinkRow(g[l])
    BY <1>5, <1>6, RowsNumbered
<1> QED BY <1>3, <1>4, <1>5, <1>6, <1>7 DEF LinkRows

LEMMA WholeAdded ==
    ASSUME NEW f, LinkRows(f), Whole(f), NEW new, LinkRows(new), NEW g, g = f \o new,
           \A i \in DOMAIN new : new[i].pos # None => new[i].rel \in Projected,
           \A i, j \in DOMAIN new : i # j => Fits(new[i], new[j]),
           \A l \in DOMAIN f, i \in DOMAIN new : f[l].state = "active" => Fits(f[l], new[i])
    PROVE  Whole(g)
<1>1. /\ DOMAIN f \subseteq DOMAIN g
      /\ \A l \in DOMAIN f : g[l] = f[l]
      /\ \A l \in DOMAIN g \ DOMAIN f : l - Len(f) \in DOMAIN new /\ g[l] = new[l - Len(f)]
      /\ \A l \in DOMAIN g : l \in Int /\ Len(f) \in Int
    BY RowsAdded, RowsNumbered
<1>2. ASSUME NEW l \in DOMAIN g, NEW k \in DOMAIN g, l # k, g[l].state = "active", g[k].state = "active"
      PROVE  Fits(g[l], g[k])
    <2>1. CASE l \in DOMAIN f /\ k \in DOMAIN f
        BY <1>1, <1>2, <2>1 DEF Whole
    <2>2. CASE l \in DOMAIN f /\ k \notin DOMAIN f
        BY <1>1, <1>2, <2>2
    <2>3. CASE l \notin DOMAIN f /\ k \in DOMAIN f
        <3>1. Fits(g[k], g[l])
            BY <1>1, <1>2, <2>3
        <3> QED BY <3>1, FitsBoth
    <2>4. CASE l \notin DOMAIN f /\ k \notin DOMAIN f
        <3>1. l - Len(f) # k - Len(f)
            BY <1>1, <1>2
        <3> QED BY <1>1, <2>4, <3>1
    <2> QED BY <2>1, <2>2, <2>3, <2>4
<1>3. ASSUME NEW l \in DOMAIN g, g[l].pos # None PROVE g[l].rel \in Projected
    BY <1>1, <1>3 DEF Whole
<1> QED BY <1>2, <1>3 DEF Whole

LEMMA NewLinkRow ==
    ASSUME NEW rel, NEW f, NEW t, NEW p, NEW n \in Nat, NEW x, x = NewLink(rel, f, t, p, n)
    PROVE  /\ LinkRow(x)
           /\ x.rel = rel /\ x.from = f /\ x.to = t /\ x.pos = p /\ x.state = "active" /\ x.at = n
BY DEF NewLink, LinkRow

LEMMA LinkStep ==
    ASSUME LinkInv, UNCHANGED merges, NEW rel, NEW f, NEW t, LinkRecords(rel, f, t)
    PROVE  LinkInv'
<1>a. PICK now, C, R, x, ended : /\ now = clock + 1 /\ C = Conflicts(rel, f, t) /\ R = {f, t} \cup Ends(C)
                                 /\ x = NewLink(rel, f, t, None, now) /\ ended = Ended(C, now)
    OBVIOUS
<1>1. link' = Append(ended, x) /\ rec' = Bumped(rec, R) /\ UNCHANGED deletion /\ clock' = now /\ now \in Nat
    BY <1>a DEF LinkRecords, Tick, LinkInv
<1>2. GraphInv'
    BY LinkSteps DEF LinkInv
<1>3. /\ LinkRows(ended) /\ DOMAIN ended = LinkIds /\ Whole(ended)
      /\ RowsStep(link, ended, now) /\ NoneRevived(link, ended)
      /\ \A l \in LinkIds : ended[l].state = "active" => l \notin C /\ ended[l] = link[l]
    BY <1>1, <1>a, EndedRows DEF LinkInv
<1>4. LinkRow(x) /\ x.rel = rel /\ x.from = f /\ x.to = t /\ x.pos = None
    BY <1>1, <1>a, NewLinkRow
<1>5. link' = ended \o <<x>> /\ LinkRows(<<x>>)
    <2>1. PICK S : ended \in Seq(S)
        BY <1>3 DEF LinkRows
    <2>2. ended \in Seq(S \cup {x}) /\ <<x>> \in Seq(S \cup {x})
        BY <2>1
    <2>3. link' = ended \o <<x>>
        BY <1>1, <2>2
    <2>4. \A i \in DOMAIN <<x>> : <<x>>[i] = x
        OBVIOUS
    <2>5. \A i \in DOMAIN <<x>> : LinkRow(<<x>>[i])
        BY <1>4, <2>4
    <2> QED BY <2>2, <2>3, <2>5 DEF LinkRows
<1>b. PICK new : new = <<x>>
    OBVIOUS
<1>6. LinkRows(new) /\ link' = ended \o new /\ (\A i \in DOMAIN new : new[i] = x /\ i = 1)
    BY <1>5, <1>b
<1>7. Whole(link')
    <2>1. ASSUME NEW l \in DOMAIN ended, ended[l].state = "active" PROVE Fits(ended[l], x)
        <3>1. l \in LinkIds /\ l \notin C /\ ended[l] = link[l]
            BY <1>3, <2>1
        <3>2. link[l].rel = rel => l \in Of(rel)
            BY <2>1, <3>1 DEF Of, Active
        <3>3. link[l].rel = rel => /\ ~(link[l].from = f /\ (link[l].to = t \/ rel \in ToOne))
                                   /\ ~(link[l].to = t /\ rel \in FromOne)
            BY <1>a, <3>1, <3>2 DEF Conflicts
        <3> QED BY <1>4, <3>1, <3>3 DEF Fits
    <2>2. \A i, j \in DOMAIN new : i # j => Fits(new[i], new[j])
        BY <1>6
    <2>3. \A i \in DOMAIN new : new[i].pos # None => new[i].rel \in Projected
        BY <1>4, <1>6
    <2>4. \A l \in DOMAIN ended, i \in DOMAIN new : ended[l].state = "active" => Fits(ended[l], new[i])
        BY <1>6, <2>1
    <2> QED BY <1>3, <1>6, <2>2, <2>3, <2>4, WholeAdded
<1>8. LinkRows(link') /\ RowsStep(link, link', now) /\ NoneRevived(link, link')
    <2>a. PICK g : g = link'
        OBVIOUS
    <2>b. g = ended \o new
        BY <1>6, <2>a
    <2>1. LinkRows(g) /\ DOMAIN ended \subseteq DOMAIN g /\ \A l \in DOMAIN ended : g[l] = ended[l]
        <3>1. LinkRows(ended) /\ LinkRows(new)
            BY <1>3, <1>6
        <3> QED BY <3>1, <2>b, RowsAdded
    <2>2. RowsStep(link, g, now) /\ NoneRevived(link, g)
        BY <1>3, <2>1 DEF RowsStep, NoneRevived, LinkIds
    <2> QED BY <2>a, <2>1, <2>2
<1>9. \A r \in Record : Restorable(r)' => Restorable(r)
    BY <1>1, BumpedRestorable DEF LinkInv
<1> QED BY <1>1, <1>a, <1>2, <1>7, <1>8, <1>9, QuietLinks

-----------------------------------------------------------------------------
(* The write of a reference attribute                                      *)

Named(targets) == {targets[i] : i \in DOMAIN targets}

LEMMA TargetsAreDistinct ==
    ASSUME NEW targets \in Targets
    PROVE  /\ Len(targets) \in Nat /\ DOMAIN targets = 1..Len(targets)
           /\ \A i, j \in DOMAIN targets : targets[i] = targets[j] => i = j
<1>1. PICK n \in Nat : targets \in [1..n -> Record]
    BY DEF Targets
<1>2. targets \in Seq(Record) /\ Len(targets) = n
    BY <1>1
<1> QED BY <1>1, <1>2 DEF Targets

\* Different targets stand at different places, where places are kept.
LEMMA PlacesDiffer ==
    ASSUME NEW targets \in Targets, NEW rel, rel \notin ToOne, NEW t \in Named(targets), NEW u \in Named(targets), t # u
    PROVE  Place(rel, t, targets) # Place(rel, u, targets)
<1>1. ASSUME NEW v \in Named(targets)
      PROVE  PlaceOf(v, targets) \in DOMAIN targets /\ targets[PlaceOf(v, targets)] = v
    BY DEF Named, PlaceOf
<1>2. PlaceOf(t, targets) # PlaceOf(u, targets)
    BY <1>1
<1>3. PlaceOf(t, targets) \in Int /\ PlaceOf(u, targets) \in Int
    BY <1>1, TargetsAreDistinct
<1>4. Place(rel, t, targets) = PlaceOf(t, targets) - 1 /\ Place(rel, u, targets) = PlaceOf(u, targets) - 1
    BY DEF Place
<1> QED BY <1>2, <1>3, <1>4

LEMMA OnlyTarget ==
    ASSUME NEW targets \in Targets, Len(targets) <= 1, NEW t \in Named(targets), NEW u \in Named(targets)
    PROVE  t = u
<1>1. PICK i \in DOMAIN targets, j \in DOMAIN targets : t = targets[i] /\ u = targets[j]
    BY DEF Named
<1>2. i = 1 /\ j = 1
    BY TargetsAreDistinct
<1> QED BY <1>1, <1>2

LEMMA AscendingOrder ==
    ASSUME NEW n \in Nat, NEW S, S \subseteq 1..n, NEW order \in Ascending(S)
    PROVE  /\ Cardinality(S) \in Nat /\ DOMAIN order = 1..Cardinality(S)
           /\ \A i \in DOMAIN order : order[i] \in S
           /\ \A i, j \in DOMAIN order : i # j => order[i] # order[j]
<1>1. IsFiniteSet(1..n)
    BY FS_Interval
<1>2. IsFiniteSet(S)
    BY <1>1, FS_Subset
<1>3. Cardinality(S) \in Nat
    BY <1>2, FS_CardinalityType
<1>4. DOMAIN order = 1..Cardinality(S) /\ \A i \in DOMAIN order : order[i] \in S
    BY DEF Ascending
<1>5. ASSUME NEW i \in DOMAIN order, NEW j \in DOMAIN order, i # j PROVE order[i] # order[j]
    <2>a. order[i] \in 1..n /\ order[j] \in 1..n
        BY <1>4
    <2>b. i \in 1..Cardinality(S) /\ j \in 1..Cardinality(S)
        BY <1>4
    <2>1. order[i] \in Int /\ order[j] \in Int /\ i \in Int /\ j \in Int
        BY <1>3, <2>a, <2>b
    <2>2. i < j \/ j < i
        BY <1>5, <2>1
    <2>3. order[i] < order[j] \/ order[j] < order[i]
        BY <2>2, <1>5 DEF Ascending
    <2> QED BY <2>1, <2>3
<1> QED BY <1>3, <1>4, <1>5

\* The created rows: one for each target without a link, each at its place.
LEMMA CreatedRows ==
    ASSUME NEW rel, NEW r, NEW targets \in Targets, NEW order \in Ascending(Fresh(rel, r, targets)), clock \in Nat,
           NEW new, new = CreatedFor(rel, r, targets, order)
    PROVE  /\ LinkRows(new)
           /\ \A i \in DOMAIN new : /\ new[i].rel = rel /\ new[i].from = r
                                    /\ new[i].to \in Named(targets) /\ new[i].pos = Place(rel, new[i].to, targets)
                                    /\ \A l \in Mine(rel, r) : link[l].to # new[i].to
           /\ \A i, j \in DOMAIN new : i # j => new[i].to # new[j].to
<1>a. PICK S : S = Fresh(rel, r, targets)
    OBVIOUS
<1>1. Len(targets) \in Nat /\ S \subseteq 1..Len(targets) /\ order \in Ascending(S) /\ DOMAIN targets = 1..Len(targets)
    BY <1>a, TargetsAreDistinct DEF Fresh
<1>2. /\ Cardinality(S) \in Nat /\ DOMAIN order = 1..Cardinality(S)
      /\ \A i \in DOMAIN order : order[i] \in S
      /\ \A i, j \in DOMAIN order : i # j => order[i] # order[j]
    BY <1>1, AscendingOrder
<1>3. ASSUME NEW i \in DOMAIN order
      PROVE  /\ LinkRow(new[i]) /\ new[i].rel = rel /\ new[i].from = r /\ new[i].to = targets[order[i]]
             /\ new[i].pos = Place(rel, targets[order[i]], targets)
    <2>1. new[i] = NewLink(rel, r, targets[order[i]], Place(rel, targets[order[i]], targets), clock + 1)
        BY DEF CreatedFor
    <2>2. clock + 1 \in Nat
        OBVIOUS
    <2>a. PICK x, t, p, n : x = new[i] /\ t = targets[order[i]] /\ p = Place(rel, targets[order[i]], targets) /\ n = clock + 1
        OBVIOUS
    <2>3. n \in Nat /\ x = NewLink(rel, r, t, p, n)
        BY <2>1, <2>2, <2>a
    <2>4. LinkRow(x) /\ x.rel = rel /\ x.from = r /\ x.to = t /\ x.pos = p
        BY <2>3, NewLinkRow
    <2> QED BY <2>a, <2>4
<1>4. DOMAIN new = DOMAIN order /\ new = [i \in DOMAIN order |-> new[i]]
    BY DEF CreatedFor
<1>5. LinkRows(new)
    <2>a. PICK T : T = {new[i] : i \in DOMAIN new}
        OBVIOUS
    <2>1. new \in [1..Cardinality(S) -> T]
        BY <1>2, <1>4, <2>a
    <2>2. new \in Seq(T)
        BY <1>2, <2>1
    <2> QED BY <1>3, <1>4, <2>2 DEF LinkRows
<1>6. ASSUME NEW i \in DOMAIN new PROVE new[i].to \in Named(targets) /\ \A l \in Mine(rel, r) : link[l].to # new[i].to
    <2>1. order[i] \in DOMAIN targets /\ order[i] \in Fresh(rel, r, targets)
        BY <1>1, <1>2, <1>4, <1>a
    <2> QED BY <1>3, <1>4, <2>1 DEF Named, Fresh
<1>7. ASSUME NEW i \in DOMAIN new, NEW j \in DOMAIN new, i # j PROVE new[i].to # new[j].to
    <2>1. order[i] \in DOMAIN targets /\ order[j] \in DOMAIN targets /\ order[i] # order[j]
        BY <1>1, <1>2, <1>4, <1>7
    <2> QED BY <1>3, <1>4, <2>1, TargetsAreDistinct
<1> QED BY <1>3, <1>4, <1>5, <1>6, <1>7

\* The links that stay, at their new places.
Placed(rel, targets, moving, told, ending, now) ==
    [l \in LinkIds |->
        IF l \in moving
        THEN [link[l] EXCEPT !.pos = PlaceKept(rel, link[l].to, targets), !.at = IF l \in told THEN now ELSE @]
        ELSE Ended(ending, now)[l]]

LEMMA PlacedRows ==
    ASSUME LinkRows(link), Whole(link), NEW rel \in Projected, NEW targets, NEW now \in Nat, NEW r,
           NEW moving, NEW ending, ending = {l \in Mine(rel, r) : link[l].to \notin Named(targets)},
           moving = {l \in Mine(rel, r) \ ending : link[l].pos # PlaceOf(link[l].to, targets) - 1},
           NEW told, NEW f, f = Placed(rel, targets, moving, told, ending, now)
    PROVE  /\ LinkRows(f) /\ DOMAIN f = LinkIds /\ RowsStep(link, f, now) /\ NoneRevived(link, f)
           /\ \A l \in LinkIds : f[l].pos # None => f[l].rel \in Projected
           /\ \A l \in LinkIds : f[l].state = "active" =>
                 /\ l \in Active /\ f[l].rel = link[l].rel /\ f[l].from = link[l].from /\ f[l].to = link[l].to
                 /\ l \notin Mine(rel, r) => f[l] = link[l]
                 /\ l \in Mine(rel, r) => /\ f[l].to \in Named(targets)
                                          /\ rel \notin ToOne => f[l].pos = Place(rel, f[l].to, targets)
<1>1. f = [l \in LinkIds |-> f[l]] /\ DOMAIN f = LinkIds
    BY DEF Placed
<1>a. PICK e : e = Ended(ending, now)
    OBVIOUS
<1>2. /\ LinkRows(e) /\ DOMAIN e = LinkIds /\ RowsStep(link, e, now) /\ NoneRevived(link, e)
      /\ \A l \in LinkIds : e[l].state = "active" => l \notin ending /\ e[l] = link[l]
      /\ \A l \in LinkIds : e[l].rel = link[l].rel /\ SameEnds(e[l], link[l])
    BY <1>a, EndedRows
<1>3. ASSUME NEW l \in LinkIds
      PROVE  /\ LinkRow(f[l]) /\ RowStep(link[l], f[l], now)
             /\ f[l].rel = link[l].rel /\ f[l].from = link[l].from /\ f[l].to = link[l].to
             /\ f[l].pos # None => f[l].rel \in Projected
             /\ f[l].state = "active" => l \in Active /\ l \notin ending
             /\ l \in moving /\ rel \notin ToOne => f[l].pos = Place(rel, link[l].to, targets)
             /\ f[l].state = "active" /\ l \notin moving => f[l] = link[l]
    <2>1. LinkRow(link[l]) /\ (link[l].pos # None => link[l].rel \in Projected)
        BY RowsNumbered DEF LinkIds, Whole
    <2>2. CASE l \in moving
        <3>a. PICK x, y, p, n : /\ x = link[l] /\ y = f[l] /\ p = PlaceKept(rel, link[l].to, targets)
                                /\ n = IF l \in told THEN now ELSE link[l].at
            OBVIOUS
        <3>0. LinkRow(x) /\ n \in Nat /\ (n = now \/ n = x.at)
            BY <2>1, <3>a DEF LinkRow
        <3>1. y = [x EXCEPT !.pos = p, !.at = n]
            BY <2>2, <3>a DEF Placed
        <3>2. LinkRow(y) /\ y = Written(x, x.from, x.to, p, x.state, n)
            BY <3>0, <3>1, RowPlaced
        <3>3. y.rel = x.rel /\ y.from = x.from /\ y.to = x.to /\ y.pos = p /\ y.state = x.state /\ y.at = n
            BY <3>0, <3>2, WrittenRow
        <3>6. rel \notin ToOne => p = Place(rel, link[l].to, targets)
            BY <3>a DEF Place, PlaceKept
        <3>4. l \in Active /\ link[l].rel = rel /\ l \notin ending
            BY <2>2 DEF Mine, Of
        <3>5. x.state = "active"
            BY <3>a, <3>4 DEF Active
        <3> QED BY <2>1, <2>2, <3>a, <3>0, <3>2, <3>3, <3>4, <3>5, <3>6 DEF RowStep
    <2>3. CASE l \notin moving
        <3>1. f[l] = e[l]
            BY <1>a, <2>3 DEF Placed
        <3>2. LinkRow(e[l]) /\ RowStep(link[l], e[l], now) /\ e[l].rel = link[l].rel /\ SameEnds(e[l], link[l])
            BY <1>2, RowsNumbered DEF RowsStep, LinkIds
        <3>3. e[l].state = "active" => l \in Active /\ l \notin ending /\ e[l] = link[l]
            BY <1>2 DEF Active
        <3> QED BY <2>1, <2>3, <3>1, <3>2, <3>3 DEF SameEnds
    <2> QED BY <2>2, <2>3
<1>4. LinkRows(f)
    BY <1>1, <1>3, RowsChanged DEF LinkIds
<1>5. RowsStep(link, f, now) /\ NoneRevived(link, f)
    BY <1>1, <1>3 DEF RowsStep, NoneRevived, LinkIds, Active
<1>6. ASSUME NEW l \in LinkIds, f[l].state = "active", l \notin Mine(rel, r) PROVE f[l] = link[l]
    BY <1>3, <1>6
<1>7. ASSUME NEW l \in LinkIds, f[l].state = "active", l \in Mine(rel, r)
      PROVE  /\ f[l].to \in Named(targets)
             /\ rel \notin ToOne => f[l].pos = Place(rel, f[l].to, targets)
    <2>1. l \notin ending /\ f[l].to = link[l].to
        BY <1>3, <1>7
    <2>2. link[l].to \in Named(targets)
        BY <1>7, <2>1
    <2>3. CASE l \in moving
        BY <1>3, <2>1, <2>2, <2>3
    <2>4. CASE l \notin moving
        <3>1. f[l] = link[l]
            BY <1>3, <1>7, <2>4
        <3>2. rel \notin ToOne => link[l].pos = Place(rel, link[l].to, targets)
            BY <1>7, <2>1, <2>4 DEF Place
        <3> QED BY <2>1, <2>2, <3>1, <3>2
    <2> QED BY <2>3, <2>4
<1> QED BY <1>1, <1>3, <1>4, <1>5, <1>6, <1>7

LEMMA ProjectStep ==
    ASSUME LinkInv, UNCHANGED merges, NEW rel \in Projected, NEW r, NEW targets \in Targets, Project(r, rel, targets)
    PROVE  LinkInv'
<1>a. PICK now, ending, moving :
         /\ now = clock + 1
         /\ ending = {l \in Mine(rel, r) : link[l].to \notin Named(targets)}
         /\ moving = {l \in Mine(rel, r) \ ending : link[l].pos # PlaceOf(link[l].to, targets) - 1}
    OBVIOUS
<1>g. PICK told : told = IF rel \in ToOne THEN ending ELSE ending \cup moving
    OBVIOUS
<1>d. PICK order \in Ascending(Fresh(rel, r, targets)) :
         LET wanted == {targets[i] : i \in DOMAIN targets}
             out == {l \in Mine(rel, r) : link[l].to \notin wanted}
             about == {l \in Mine(rel, r) \ out : link[l].pos # PlaceOf(link[l].to, targets) - 1}
             said == IF rel \in ToOne THEN out ELSE out \cup about
             new == CreatedFor(rel, r, targets, order)
             touched == {link[l].to : l \in said} \cup {new[i].to : i \in DOMAIN new}
         IN  /\ Tick /\ UNCHANGED deletion /\ rec' = Bumped(rec, touched \cup {r})
             /\ rel \in ToOne => Len(targets) <= 1
             /\ link' = [l \in LinkIds |->
                            IF l \in about
                            THEN [link[l] EXCEPT !.pos = PlaceKept(rel, link[l].to, targets),
                                                 !.at = IF l \in said THEN clock + 1 ELSE @]
                            ELSE Ended(out, clock + 1)[l]] \o new
    BY Zenon DEF Project
<1>e. PICK R : rec' = Bumped(rec, R)
    BY <1>d
<1>b. /\ clock' = now /\ now \in Nat /\ UNCHANGED deletion
      /\ rel \in ToOne => Len(targets) <= 1
    <2>1. Tick /\ UNCHANGED deletion /\ (rel \in ToOne => Len(targets) <= 1)
        BY <1>d, Zenon
    <2>2. clock' = now /\ now \in Nat
        BY <1>a, <2>1 DEF Tick, LinkInv
    <2> QED BY <2>1, <2>2
<1>f. link' = Placed(rel, targets, moving, told, ending, now) \o CreatedFor(rel, r, targets, order)
    BY <1>a, <1>d, <1>g DEF Named, Placed
<1>c. PICK f, new, g : f = Placed(rel, targets, moving, told, ending, now) /\ new = CreatedFor(rel, r, targets, order) /\ g = link'
    OBVIOUS
<1>1. /\ LinkRows(f) /\ DOMAIN f = LinkIds /\ RowsStep(link, f, now) /\ NoneRevived(link, f)
      /\ \A l \in LinkIds : f[l].pos # None => f[l].rel \in Projected
      /\ \A l \in LinkIds : f[l].state = "active" =>
            /\ l \in Active /\ f[l].rel = link[l].rel /\ f[l].from = link[l].from /\ f[l].to = link[l].to
            /\ l \notin Mine(rel, r) => f[l] = link[l]
            /\ l \in Mine(rel, r) => /\ f[l].to \in Named(targets)
                                     /\ rel \notin ToOne => f[l].pos = Place(rel, f[l].to, targets)
    <2>1. LinkRows(link) /\ Whole(link) /\ now \in Nat
        BY <1>b DEF LinkInv
    <2>2. f = Placed(rel, targets, moving, told, ending, now)
        BY <1>c
    <2>3. /\ ending = {l \in Mine(rel, r) : link[l].to \notin Named(targets)}
          /\ moving = {l \in Mine(rel, r) \ ending : link[l].pos # PlaceOf(link[l].to, targets) - 1}
        BY <1>a
    <2>4. /\ LinkRows(f) /\ DOMAIN f = LinkIds /\ RowsStep(link, f, now) /\ NoneRevived(link, f)
          /\ \A l \in LinkIds : f[l].pos # None => f[l].rel \in Projected
        BY <2>1, <2>2, <2>3, PlacedRows
    <2>5. ASSUME NEW l \in LinkIds, f[l].state = "active"
          PROVE  /\ l \in Active /\ f[l].rel = link[l].rel /\ f[l].from = link[l].from /\ f[l].to = link[l].to
                 /\ l \notin Mine(rel, r) => f[l] = link[l]
                 /\ l \in Mine(rel, r) => /\ f[l].to \in Named(targets)
                                          /\ rel \notin ToOne => f[l].pos = Place(rel, f[l].to, targets)
        BY <2>1, <2>2, <2>3, <2>5, PlacedRows
    <2> QED BY <2>4, <2>5
<1>2. /\ LinkRows(new)
      /\ \A i \in DOMAIN new : /\ new[i].rel = rel /\ new[i].from = r
                               /\ new[i].to \in Named(targets) /\ new[i].pos = Place(rel, new[i].to, targets)
                               /\ \A l \in Mine(rel, r) : link[l].to # new[i].to
      /\ \A i, j \in DOMAIN new : i # j => new[i].to # new[j].to
    BY <1>c, CreatedRows DEF LinkInv
<1>3. rel \notin FromOne
    BY GraphAssumption DEF GraphAssumption
\* Two links of the record to different targets fit together.
<1>4. ASSUME NEW x, NEW y, x.rel = rel, y.rel = rel, x.from = r, y.from = r, x.to # y.to,
             x.to \in Named(targets), y.to \in Named(targets),
             rel \notin ToOne => x.pos = Place(rel, x.to, targets) /\ y.pos = Place(rel, y.to, targets)
      PROVE  Fits(x, y)
    <2>1. rel \notin ToOne
        BY <1>b, <1>4, OnlyTarget
    <2>2. x.pos # y.pos
        BY <1>4, <2>1, PlacesDiffer
    <2> QED BY <1>3, <1>4, <2>1, <2>2 DEF Fits
<1>5. ASSUME NEW l \in LinkIds, f[l].state = "active", f[l].rel = rel, f[l].from = r
      PROVE  /\ l \in Mine(rel, r) /\ f[l].to \in Named(targets) /\ f[l].to = link[l].to
             /\ rel \notin ToOne => f[l].pos = Place(rel, f[l].to, targets)
    <2>1. l \in Mine(rel, r)
        BY <1>1, <1>5 DEF Mine, Of
    <2> QED BY <1>1, <1>5, <2>1
<1>6. ASSUME NEW l \in DOMAIN f, NEW k \in DOMAIN f, l # k, f[l].state = "active", f[k].state = "active"
      PROVE  Fits(f[l], f[k])
    <2>1. /\ l \in Active /\ f[l].rel = link[l].rel /\ f[l].from = link[l].from /\ f[l].to = link[l].to
          /\ k \in Active /\ f[k].rel = link[k].rel /\ f[k].from = link[k].from /\ f[k].to = link[k].to
        BY <1>1, <1>6
    <2>2. Fits(link[l], link[k])
        BY <1>6, <2>1 DEF LinkInv, Whole, Active, LinkIds
    <2>3. CASE l \in Mine(rel, r) /\ k \in Mine(rel, r)
        <3>1. f[l].rel = rel /\ f[k].rel = rel /\ f[l].from = r /\ f[k].from = r
            BY <2>1, <2>3 DEF Mine, Of
        <3>2. f[l].to # f[k].to
            BY <2>1, <2>2, <3>1 DEF Fits
        <3>3. /\ f[l].to \in Named(targets) /\ f[k].to \in Named(targets)
              /\ rel \notin ToOne => f[l].pos = Place(rel, f[l].to, targets) /\ f[k].pos = Place(rel, f[k].to, targets)
            BY <1>1, <1>5, <1>6, <3>1
        <3> QED BY <1>4, <3>1, <3>2, <3>3
    <2>4. CASE l \notin Mine(rel, r) /\ k \notin Mine(rel, r)
        BY <1>1, <1>6, <2>2, <2>4
    <2>5. ASSUME NEW x \in Active, NEW y \in Active, x \in Mine(rel, r), y \notin Mine(rel, r)
          PROVE  /\ ~(link[x].rel = link[y].rel /\ link[x].from = link[y].from)
                 /\ link[x].rel = rel
        BY <2>5 DEF Mine, Of
    <2>6. CASE l \in Mine(rel, r) /\ k \notin Mine(rel, r)
        <3>1. ~(f[l].rel = f[k].rel /\ f[l].from = f[k].from) /\ f[l].rel = rel
            BY <2>1, <2>5, <2>6
        <3> QED BY <1>3, <3>1 DEF Fits
    <2>7. CASE l \notin Mine(rel, r) /\ k \in Mine(rel, r)
        <3>1. ~(f[l].rel = f[k].rel /\ f[l].from = f[k].from) /\ f[k].rel = rel
            BY <2>1, <2>5, <2>7
        <3> QED BY <1>3, <3>1 DEF Fits
    <2> QED BY <2>3, <2>4, <2>6, <2>7
<1>7. Whole(f)
    BY <1>1, <1>6 DEF Whole
<1>8. ASSUME NEW l \in DOMAIN f, NEW i \in DOMAIN new, f[l].state = "active" PROVE Fits(f[l], new[i])
    <2>1. CASE f[l].rel = rel /\ f[l].from = r
        <3>1. /\ l \in Mine(rel, r) /\ f[l].to \in Named(targets) /\ f[l].to = link[l].to
              /\ rel \notin ToOne => f[l].pos = Place(rel, f[l].to, targets)
            BY <1>1, <1>5, <1>8, <2>1
        <3>2. f[l].to # new[i].to
            BY <1>2, <3>1
        <3> QED BY <1>2, <1>4, <2>1, <3>1, <3>2
    <2>2. CASE ~(f[l].rel = rel /\ f[l].from = r)
        BY <1>2, <1>3, <2>2 DEF Fits
    <2> QED BY <2>1, <2>2
<1>9. \A i, j \in DOMAIN new : i # j => Fits(new[i], new[j])
    BY <1>2, <1>4
<1>10. \A i \in DOMAIN new : new[i].pos # None => new[i].rel \in Projected
    BY <1>2
<1>11. g = f \o new
    BY <1>c, <1>f
<1>12. Whole(g)
    BY <1>1, <1>2, <1>7, <1>8, <1>9, <1>10, <1>11, WholeAdded
<1>13. LinkRows(g) /\ RowsStep(link, g, now) /\ NoneRevived(link, g)
    <2>1. LinkRows(f) /\ LinkRows(new)
        BY <1>1, <1>2
    <2>2. LinkRows(g) /\ DOMAIN f \subseteq DOMAIN g /\ \A l \in DOMAIN f : g[l] = f[l]
        BY <1>11, <2>1, RowsAdded
    <2> QED BY <1>1, <2>2 DEF RowsStep, NoneRevived, LinkIds
<1>14. GraphInv'
    BY LinkSteps DEF LinkInv
<1>15. \A q \in Record : Restorable(q)' => Restorable(q)
    BY <1>e, BumpedRestorable DEF LinkInv
<1> QED BY <1>a, <1>b, <1>c, <1>12, <1>13, <1>14, <1>15, QuietLinks

-----------------------------------------------------------------------------
(* Values, list entries, and the purge                                     *)

LEMMA SameLinks ==
    ASSUME LinkInv, link' = link, clock' = clock + 1, UNCHANGED <<merges, deletion>>, GraphInv',
           \A r \in Record : Restorable(r)' => Restorable(r)
    PROVE  LinkInv'
<1>1. RowsStep(link, link', clock + 1) /\ NoneRevived(link, link')
    BY DEF RowsStep, RowStep, SameEnds, NoneRevived
<1>2. LinkRows(link') /\ Whole(link')
    BY DEF LinkInv
<1> QED BY <1>1, <1>2, QuietLinks

Valued(x, v, n) == [x EXCEPT !.val = v, !.set = n]

LEMMA ValueKeepsDates ==
    ASSUME NEW x, Row(x), NEW v, NEW n, NEW y, y = Valued(x, v, n)
    PROVE  Row(y) /\ y.dead = x.dead /\ y.exists = x.exists /\ y.into = x.into
<1>1. PICK V : x \in RowIn(V)
    BY DEF Row
<1>2. y \in RowIn(V \cup {v, n}) /\ y.dead = x.dead /\ y.exists = x.exists /\ y.into = x.into
    BY <1>1 DEF RowIn, Valued
<1> QED BY <1>2 DEF Row

LEMMA ValueStep ==
    ASSUME LinkInv, UNCHANGED merges, NEW r \in Record, NEW v, SetValue(r, v)
    PROVE  LinkInv'
<1>a. PICK now, f : now = clock + 1 /\ f = [rec EXCEPT ![r].val = v, ![r].set = now]
    OBVIOUS
<1>1. rec' = Bumped(f, {r}) /\ link' = link /\ clock' = clock + 1 /\ UNCHANGED deletion
    BY <1>a DEF SetValue, Tick
<1>2. \A q \in Record : Row(rec[q]) /\ rec = [p \in Record |-> rec[p]]
    BY DEF LinkInv, GraphInv, Rows
<1>3. ASSUME NEW q \in Record
      PROVE  Row(f[q]) /\ f[q].dead = rec[q].dead /\ f[q].exists = rec[q].exists /\ f[q].into = rec[q].into
    <2>1. CASE q = r
        <3>a. PICK x, y : x = rec[r] /\ y = f[r]
            OBVIOUS
        <3>1. Row(x) /\ y = Valued(x, v, now)
            BY <1>2, <1>a, <3>a DEF Valued
        <3>2. Row(y) /\ y.dead = x.dead /\ y.exists = x.exists /\ y.into = x.into
            BY <3>1, ValueKeepsDates
        <3> QED BY <2>1, <3>a, <3>2
    <2>2. CASE q # r
        <3>1. f[q] = rec[q]
            BY <1>2, <1>a, <2>2
        <3> QED BY <1>2, <3>1
    <2> QED BY <2>1, <2>2
<1>4. ASSUME NEW q \in Record PROVE Restorable(q)' => Restorable(q)
    <2>1. rec'[q].dead = f[q].dead /\ rec'[q].exists = f[q].exists /\ rec'[q].into = f[q].into
        BY <1>1, <1>3, BumpedStays
    <2> QED BY <1>3, <2>1 DEF Restorable
<1>5. GraphInv'
    BY SetValueStep DEF LinkInv
<1> QED BY <1>1, <1>4, <1>5, SameLinks

LEMMA ListStep ==
    ASSUME LinkInv, UNCHANGED merges, NEW r \in Record, AddListEntry(r) \/ RemoveListEntry(r)
    PROVE  LinkInv'
<1>1. link' = link /\ rec' = rec /\ clock' = clock + 1 /\ UNCHANGED deletion
    BY DEF AddListEntry, RemoveListEntry, Tick
<1>2. GraphInv'
    BY <1>1 DEF LinkInv, GraphInv, Rows, MergesNamed, RedirectsFlat
<1>3. \A q \in Record : Restorable(q)' => Restorable(q)
    BY <1>1 DEF Restorable
<1> QED BY <1>1, <1>2, <1>3, SameLinks

LEMMA PurgeLinks ==
    ASSUME LinkRows(link), Whole(link), NEW r, NEW f, NEW now,
           f = [l \in LinkIds |-> IF r \in {link[l].from, link[l].to}
                                  THEN [link[l] EXCEPT !.state = "gone"] ELSE link[l]]
    PROVE  LinkRows(f) /\ Whole(f) /\ RowsStep(link, f, now) /\ NoneRevived(link, f)
<1>1. f = [l \in LinkIds |-> f[l]] /\ DOMAIN f = LinkIds
    OBVIOUS
<1>2. ASSUME NEW l \in LinkIds
      PROVE  /\ LinkRow(f[l]) /\ f[l].rel = link[l].rel /\ f[l].at = link[l].at /\ SameEnds(f[l], link[l])
             /\ f[l].state = "active" => f[l] = link[l]
    <2>1. LinkRow(link[l])
        BY RowsNumbered DEF LinkIds
    <2>2. CASE r \in {link[l].from, link[l].to}
        <3>a. PICK x, y : x = link[l] /\ y = f[l]
            OBVIOUS
        <3>1. LinkRow(x) /\ y = [x EXCEPT !.state = "gone"]
            BY <2>1, <2>2, <3>a
        <3>2. LinkRow(y) /\ y = Written(x, x.from, x.to, x.pos, "gone", x.at) /\ x.at \in Nat
            BY <3>1, RowGone DEF LinkRow
        <3>3. y.rel = x.rel /\ y.from = x.from /\ y.to = x.to /\ y.pos = x.pos /\ y.state = "gone" /\ y.at = x.at
            BY <3>2, WrittenRow
        <3> QED BY <3>a, <3>2, <3>3 DEF SameEnds
    <2>3. CASE r \notin {link[l].from, link[l].to}
        <3>1. f[l] = link[l]
            BY <2>3
        <3> QED BY <2>1, <3>1 DEF SameEnds
    <2> QED BY <2>2, <2>3
<1>3. LinkRows(f)
    BY <1>1, <1>2, RowsChanged DEF LinkIds
<1>4. RowsStep(link, f, now) /\ NoneRevived(link, f)
    BY <1>1, <1>2 DEF RowsStep, RowStep, NoneRevived, LinkIds
<1>5. ASSUME NEW l \in DOMAIN f, NEW k \in DOMAIN f, l # k, f[l].state = "active", f[k].state = "active"
      PROVE  Fits(f[l], f[k])
    BY <1>1, <1>2, <1>5 DEF Whole, LinkIds
<1>6. ASSUME NEW l \in DOMAIN f, f[l].pos # None PROVE f[l].rel \in Projected
    BY <1>1, <1>2, <1>6 DEF Whole, SameEnds, LinkIds
<1> QED BY <1>3, <1>4, <1>5, <1>6 DEF Whole

LEMMA PurgingStep ==
    ASSUME LinkInv, UNCHANGED merges, NEW r \in Record, Purge(r)
    PROVE  LinkInv'
<1>1. /\ clock' = clock + 1 /\ UNCHANGED deletion
      /\ rec' = [rec EXCEPT ![r].exists = FALSE]
      /\ link' = [l \in LinkIds |-> IF r \in {link[l].from, link[l].to}
                                    THEN [link[l] EXCEPT !.state = "gone"] ELSE link[l]]
    BY DEF Purge, Tick
<1>a. PICK g, now : g = link' /\ now = clock + 1
    OBVIOUS
<1>b. LinkRows(link) /\ Whole(link)
    BY DEF LinkInv
<1>2. LinkRows(g) /\ Whole(g) /\ RowsStep(link, g, now) /\ NoneRevived(link, g)
    BY <1>1, <1>a, <1>b, PurgeLinks
<1>3. GraphInv'
    BY PurgeStep DEF LinkInv
<1>4. ASSUME NEW q \in Record PROVE Restorable(q)' => Restorable(q)
    <2>1. rec = [p \in Record |-> rec[p]]
        BY DEF LinkInv, GraphInv, Rows
    <2>2. CASE q # r
        <3>1. rec'[q] = rec[q]
            BY <1>1, <2>1, <2>2
        <3> QED BY <3>1 DEF Restorable
    <2>3. CASE q = r
        <3>a. PICK V : rec[r] \in RowIn(V)
            BY DEF LinkInv, GraphInv, Rows, Row
        <3>1. rec'[r] = [rec[r] EXCEPT !.exists = FALSE]
            BY <1>1, <2>1
        <3>2. rec'[r].exists = FALSE
            BY <3>a, <3>1 DEF RowIn
        <3> QED BY <2>3, <3>2 DEF Restorable
    <2> QED BY <2>2, <2>3
<1> QED BY <1>1, <1>a, <1>2, <1>3, <1>4, QuietLinks

-----------------------------------------------------------------------------
(* Deletions and restorations                                              *)

LEMMA DatesSet ==
    ASSUME GraphInv, NEW D, NEW R, NEW b \in BOOLEAN,
           rec' = Bumped([q \in Record |-> IF q \in D THEN [rec[q] EXCEPT !.dead = b] ELSE rec[q]], R),
           NEW q \in Record
    PROVE  /\ rec'[q].exists = rec[q].exists /\ rec'[q].into = rec[q].into
           /\ rec'[q].dead = IF q \in D THEN b ELSE rec[q].dead
<1>a. PICK f : f = [p \in Record |-> IF p \in D THEN [rec[p] EXCEPT !.dead = b] ELSE rec[p]]
    OBVIOUS
<1>1. ASSUME NEW p \in Record
      PROVE  /\ Row(f[p]) /\ f[p].exists = rec[p].exists /\ f[p].into = rec[p].into
             /\ f[p].dead = IF p \in D THEN b ELSE rec[p].dead
    <2>1. Row(rec[p])
        BY DEF GraphInv, Rows
    <2>2. CASE p \in D
        <3>a. PICK x, y : x = rec[p] /\ y = f[p]
            OBVIOUS
        <3>1. Row(x) /\ y = [x EXCEPT !.dead = b]
            BY <1>a, <2>1, <2>2, <3>a
        <3>2. Row(y) /\ y.exists = x.exists /\ y.into = x.into
            BY <3>1, DatedRow
        <3>3. y.dead = b
            <4>1. PICK V : x \in RowIn(V)
                BY <3>1 DEF Row
            <4> QED BY <3>1, <4>1 DEF RowIn
        <3> QED BY <2>2, <3>a, <3>2, <3>3
    <2>3. CASE p \notin D
        <3>1. f[p] = rec[p]
            BY <1>a, <2>3
        <3> QED BY <2>1, <2>3, <3>1
    <2> QED BY <2>2, <2>3
<1>2. rec' = Bumped(f, R)
    BY <1>a
<1>3. rec'[q].dead = f[q].dead /\ rec'[q].exists = f[q].exists /\ rec'[q].into = f[q].into
    BY <1>1, <1>2, BumpedStays
<1> QED BY <1>1, <1>3

\* A deletion ends links that no snapshot holds, and its own snapshot takes them.
LEMMA KeptByDeletion ==
    ASSUME NEW f, NEW g, NEW held, NEW held2, NEW now, NEW L, NEW r \in Record,
           Kept(f, held), Whole(f), RowsStep(f, g, now), NoneRevived(f, g),
           L \subseteq DOMAIN f, \A l \in L : f[l].state = "active" /\ g[l].state # "active" /\ SameEnds(g[l], f[l]),
           held2[r] \subseteq L, \A q \in Record : q # r => held2[q] \subseteq held[q]
    PROVE  Kept(g, held2)
<1>1. ASSUME NEW q \in Record, NEW l \in held2[q]
      PROVE  /\ l \in DOMAIN g /\ l \in DOMAIN f /\ g[l].state # "active" /\ g[l].rel = f[l].rel /\ SameEnds(g[l], f[l])
             /\ q = r => f[l].state = "active"
             /\ q # r => l \in held[q] /\ f[l].state # "active"
    BY DEF Kept, RowsStep, RowStep, NoneRevived
<1>2. ASSUME NEW q \in Record, NEW l \in held2[q], NEW k \in held2[q], l # k PROVE Fits(g[l], g[k])
    <2>1. Fits(f[l], f[k])
        BY <1>1, <1>2 DEF Whole, Kept
    <2>2. g[l].rel = f[l].rel /\ SameEnds(g[l], f[l]) /\ g[k].rel = f[k].rel /\ SameEnds(g[k], f[k])
        BY <1>1
    <2> QED BY <2>1, <2>2 DEF Fits, SameEnds
<1>3. ASSUME NEW q \in Record, NEW p \in Record, q # p, NEW l \in held2[q] \cap held2[p] PROVE FALSE
    <2>1. CASE q = r \/ p = r
        BY <1>1, <1>3, <2>1
    <2>2. CASE q # r /\ p # r
        BY <1>1, <1>3, <2>2 DEF Kept
    <2> QED BY <2>1, <2>2
<1> QED BY <1>1, <1>2, <1>3 DEF Kept

LEMMA DeletionStep ==
    ASSUME LinkInv, UNCHANGED merges, NEW r \in Record, DeleteRecord(r)
    PROVE  LinkInv'
<1>a. PICK down, L, D, R, now, g, held2, ms :
         /\ down = Cascaded(r) /\ D = down \cup {r} /\ L = Touching(D) /\ R = D \cup (Ends(L) \ D)
         /\ now = clock + 1 /\ g = link' /\ held2 = Held' /\ ms = merges
    OBVIOUS
<1>1. /\ clock' = now /\ now \in Nat /\ g = Ended(L, now)
      /\ rec' = Bumped([q \in Record |-> IF q \in D THEN [rec[q] EXCEPT !.dead = TRUE] ELSE rec[q]], R)
      /\ deletion' = [q \in Record |-> IF q = r THEN [links |-> L, cascaded |-> down]
                                       ELSE IF q \in down THEN NoSnapshot ELSE deletion[q]]
    BY <1>a DEF DeleteRecord, Tick, LinkInv
<1>2. LinkRows(link) /\ Whole(link) /\ GraphInv
    BY DEF LinkInv
<1>3. /\ LinkRows(g) /\ DOMAIN g = LinkIds /\ Whole(g) /\ RowsStep(link, g, now) /\ NoneRevived(link, g)
      /\ \A l \in LinkIds : SameEnds(g[l], link[l])
      /\ \A l \in LinkIds \cap L : g[l].state # "active" /\ g[l].at = now
    BY <1>1, <1>2, EndedRows
<1>4. L \subseteq LinkIds /\ \A l \in L : link[l].state = "active"
    BY <1>a DEF Touching, Active
<1>5. ASSUME NEW q \in Record PROVE held2[q] = IF Restorable(q)' THEN deletion'[q].links ELSE {}
    BY <1>a DEF Held
<1>6. held2[r] \subseteq L
    <2>1. deletion'[r].links = L
        BY <1>1
    <2> QED BY <1>5, <2>1
<1>7. ASSUME NEW q \in Record, q # r PROVE held2[q] \subseteq Held[q]
    <2>1. CASE q \in down
        <3>1. deletion'[q].links = {}
            BY <1>1, <1>7, <2>1 DEF NoSnapshot
        <3> QED BY <1>5, <3>1
    <2>2. CASE q \notin down
        <3>1. deletion'[q] = deletion[q] /\ q \notin D
            BY <1>1, <1>7, <1>a, <2>2
        <3>2. rec'[q].exists = rec[q].exists /\ rec'[q].into = rec[q].into /\ rec'[q].dead = rec[q].dead
            BY <1>1, <1>2, <3>1, DatesSet
        <3>3. Restorable(q)' => Restorable(q)
            BY <3>2 DEF Restorable
        <3> QED BY <1>5, <3>1, <3>3, HeldBy
    <2> QED BY <2>1, <2>2
<1>8. Kept(g, held2)
    <2>1. \A l \in L : link[l].state = "active" /\ g[l].state # "active" /\ SameEnds(g[l], link[l])
        BY <1>3, <1>4
    <2>2. Kept(link, Held) /\ L \subseteq DOMAIN link
        BY <1>4 DEF LinkInv, LinkIds
    <2> QED BY <1>2, <1>3, <1>6, <1>7, <2>1, <2>2, KeptByDeletion
<1>9. AllRemember(ms, g, now)
    BY <1>a, <1>3, AllRememberOn DEF LinkInv
<1>10. HeldOnce(ms, g, held2)
    <2> SUFFICES ASSUME NEW i \in DOMAIN ms, NEW q \in Record, NEW l \in ms[i].ended \cap held2[q]
                 PROVE  g[l].at > ms[i].at
        BY DEF HeldOnce
    <2>1. ms[i].at \in Nat /\ ms[i].at <= clock /\ clock \in Nat
        BY <1>a DEF LinkInv, AllRemember, Remembers
    <2>2. CASE q = r
        <3>1. g[l].at = now
            BY <1>3, <1>4, <1>6, <2>2
        <3>2. now > ms[i].at
            BY <1>a, <2>1
        <3> QED BY <3>1, <3>2
    <2>3. CASE q # r
        <3>1. l \in ms[i].ended \cap Held[q] /\ l \in DOMAIN link
            BY <1>7, <2>3 DEF LinkInv, Kept
        <3>2. link[l].at > ms[i].at /\ link[l].at \in Nat
            BY <1>2, <1>a, <3>1, RowsNumbered DEF LinkInv, HeldOnce, LinkRow
        <3>3. g[l].at = now \/ g[l].at = link[l].at
            BY <1>3, <3>1 DEF RowsStep, RowStep
        <3> QED BY <1>a, <2>1, <3>2, <3>3
    <2> QED BY <2>2, <2>3
<1>11. GraphInv'
    BY DeletionSteps DEF LinkInv
<1> QED BY <1>1, <1>3, <1>8, <1>9, <1>10, <1>11, <1>a DEF LinkInv
\* Links made active again.
Revived(L, now) ==
    [l \in LinkIds |-> IF l \in L THEN [link[l] EXCEPT !.state = "active", !.at = now] ELSE link[l]]

LEMMA RevivedRows ==
    ASSUME LinkRows(link), NEW L, NEW now \in Nat, NEW g, g = Revived(L, now)
    PROVE  /\ LinkRows(g) /\ DOMAIN g = LinkIds /\ RowsStep(link, g, now)
           /\ \A l \in LinkIds : /\ g[l].rel = link[l].rel /\ SameEnds(g[l], link[l])
                                 /\ l \notin L => g[l] = link[l]
<1>1. g = [l \in LinkIds |-> g[l]] /\ DOMAIN g = LinkIds
    BY DEF Revived
<1>2. ASSUME NEW l \in LinkIds
      PROVE  /\ LinkRow(g[l]) /\ g[l].rel = link[l].rel /\ SameEnds(g[l], link[l])
             /\ l \notin L => g[l] = link[l]
             /\ l \in L => g[l].at = now
    <2>1. LinkRow(link[l])
        BY RowsNumbered DEF LinkIds
    <2>2. CASE l \in L
        <3>a. PICK x, y : x = link[l] /\ y = g[l]
            OBVIOUS
        <3>1. LinkRow(x) /\ y = [x EXCEPT !.state = "active", !.at = now]
            BY <2>1, <2>2, <3>a DEF Revived
        <3>2. LinkRow(y) /\ y = Written(x, x.from, x.to, x.pos, "active", now)
            BY <3>1, RowEnded
        <3>3. y.rel = x.rel /\ y.from = x.from /\ y.to = x.to /\ y.pos = x.pos /\ y.at = now
            BY <3>2, WrittenRow
        <3> QED BY <2>2, <3>a, <3>2, <3>3 DEF SameEnds
    <2>3. CASE l \notin L
        <3>1. g[l] = link[l]
            BY <2>3 DEF Revived
        <3> QED BY <2>1, <2>3, <3>1 DEF SameEnds
    <2> QED BY <2>2, <2>3
<1>3. LinkRows(g)
    BY <1>1, <1>2, RowsChanged DEF LinkIds
<1>4. RowsStep(link, g, now)
    BY <1>1, <1>2 DEF RowsStep, RowStep, LinkIds, SameEnds
<1> QED BY <1>1, <1>2, <1>3, <1>4

LEMMA FitsAsBefore ==
    ASSUME NEW a, NEW b, NEW x, NEW y, Fits(a, b), x.rel = a.rel, y.rel = b.rel, SameEnds(x, a), SameEnds(y, b)
    PROVE  Fits(x, y)
BY DEF Fits, SameEnds

\* A link that nothing displaces fits with every active link.
LEMMA UndisplacedFits ==
    ASSUME Whole(link), NEW l \in LinkIds, ~Displaced(l), NEW m \in Active, m # l
    PROVE  Fits(link[l], link[m])
<1> SUFFICES ASSUME link[l].rel = link[m].rel
             PROVE  /\ link[l].from = link[m].from =>
                          /\ link[l].to # link[m].to /\ link[l].rel \notin ToOne
                          /\ link[l].pos = None \/ link[l].pos # link[m].pos
                    /\ link[l].to = link[m].to => link[l].rel \notin FromOne
    BY DEF Fits
<1>1. m \in Of(link[l].rel) \ {l}
    BY DEF Of
<1>2. /\ ~(link[m].from = link[l].from /\ (link[m].to = link[l].to \/ link[l].rel \in ToOne))
      /\ ~(link[m].to = link[l].to /\ link[l].rel \in FromOne)
      /\ ~(/\ link[l].rel \notin ToOne \cup FromOne /\ link[l].pos # None
           /\ link[m].from = link[l].from /\ link[m].pos = link[l].pos)
    BY <1>1 DEF Displaced
<1>3. link[l].pos # None => link[l].rel \notin FromOne
    BY GraphAssumption DEF Whole, LinkIds, GraphAssumption
<1> QED BY <1>2, <1>3

LEMMA RestorationStep ==
    ASSUME LinkInv, UNCHANGED merges, NEW r \in Record, RestoreRecord(r)
    PROVE  LinkInv'
<1>a. PICK down, L, D, R, now, g, held2, ms :
         /\ L = deletion[r].links /\ down = deletion[r].cascaded /\ D = down \cup {r}
         /\ R = D \cup (Ends(L) \ D) /\ now = clock + 1 /\ g = link' /\ held2 = Held' /\ ms = merges
    OBVIOUS
<1>1. /\ clock' = now /\ now \in Nat /\ g = Revived(L, now) /\ UNCHANGED deletion
      /\ rec' = Bumped([q \in Record |-> IF q \in D THEN [rec[q] EXCEPT !.dead = FALSE] ELSE rec[q]], R)
      /\ Restorable(r) /\ \A l \in L : ~Displaced(l)
    <2>1. Tick /\ UNCHANGED deletion /\ Restorable(r)
        BY DEF RestoreRecord, Restorable
    <2>2. clock' = now /\ now \in Nat
        BY <1>a, <2>1 DEF Tick, LinkInv
    <2>3. \A l \in L : ~Displaced(l)
        BY <1>a DEF RestoreRecord
    <2>4. g = Revived(L, now)
        BY <1>a DEF RestoreRecord, Revived
    <2>5. rec' = Bumped([q \in Record |-> IF q \in D THEN [rec[q] EXCEPT !.dead = FALSE] ELSE rec[q]], R)
        BY <1>a DEF RestoreRecord
    <2> QED BY <2>1, <2>2, <2>3, <2>4, <2>5
<1>2. LinkRows(link) /\ Whole(link) /\ GraphInv /\ Kept(link, Held) /\ clock \in Nat
    BY DEF LinkInv
<1>3. /\ LinkRows(g) /\ DOMAIN g = LinkIds /\ RowsStep(link, g, now)
      /\ \A l \in LinkIds : /\ g[l].rel = link[l].rel /\ SameEnds(g[l], link[l])
                            /\ l \notin L => g[l] = link[l]
    BY <1>1, <1>2, RevivedRows
<1>4. Held[r] = L
    BY <1>1, <1>a, HeldBy
<1>5. ASSUME NEW q \in Record
      PROVE  /\ held2[q] \subseteq Held[q]
             /\ \A l \in held2[q] : g[l].state # "active"
    <2>1. held2[q] = IF Restorable(q)' THEN deletion[q].links ELSE {}
        BY <1>1, <1>a DEF Held
    <2>2. rec'[q].exists = rec[q].exists /\ rec'[q].into = rec[q].into /\ rec'[q].dead = IF q \in D THEN FALSE ELSE rec[q].dead
        BY <1>1, <1>2, DatesSet
    <2>3. Restorable(q)' => Restorable(q) /\ q # r
        BY <1>a, <2>2 DEF Restorable
    <2>4. held2[q] \subseteq Held[q]
        BY <2>1, <2>3, HeldBy
    <2>5. ASSUME NEW l \in held2[q] PROVE g[l].state # "active"
        <3>1. l \in Held[q] /\ q # r
            BY <2>1, <2>3, <2>4
        <3>2. l \in LinkIds /\ l \notin L /\ link[l].state # "active"
            BY <1>2, <1>4, <3>1 DEF Kept, LinkIds
        <3> QED BY <1>3, <3>2
    <2> QED BY <2>4, <2>5
<1>6. Kept(g, held2)
    BY <1>2, <1>3, <1>5, KeptOn
<1>7. AllRemember(ms, g, now)
    BY <1>a, <1>3, AllRememberOn DEF LinkInv
<1>8. HeldOnce(ms, g, held2)
    BY <1>a, <1>2, <1>3, <1>5, HeldOnceOn DEF LinkInv
<1>9. Whole(g)
    <2>1. ASSUME NEW l \in L, NEW k \in LinkIds, l # k, k \in L \/ k \in Active PROVE Fits(g[l], g[k])
        <3>1. l \in LinkIds
            BY <1>2, <1>4 DEF Kept, LinkIds
        <3>2. Fits(link[l], link[k])
            <4>1. CASE k \in L
                BY <1>2, <1>4, <2>1, <4>1 DEF Kept
            <4>2. CASE k \in Active
                BY <1>1, <1>2, <2>1, <3>1, <4>2, UndisplacedFits
            <4> QED BY <2>1, <4>1, <4>2
        <3> QED BY <1>3, <3>1, <3>2, FitsAsBefore
    <2>2. ASSUME NEW l \in DOMAIN g, NEW k \in DOMAIN g, l # k, g[l].state = "active", g[k].state = "active"
          PROVE  Fits(g[l], g[k])
        <3>1. l \in L \/ l \in Active
            BY <1>3, <2>2 DEF Active
        <3>2. k \in L \/ k \in Active
            BY <1>3, <2>2 DEF Active
        <3>3. CASE l \in L
            BY <1>3, <2>1, <2>2, <3>2, <3>3
        <3>4. CASE k \in L
            <4>1. Fits(g[k], g[l])
                BY <1>3, <2>1, <2>2, <3>1, <3>4
            <4> QED BY <4>1, FitsBoth
        <3>5. CASE l \notin L /\ k \notin L
            BY <1>2, <1>3, <2>2, <3>1, <3>2, <3>5 DEF Whole, Active, LinkIds
        <3> QED BY <3>3, <3>4, <3>5
    <2>3. ASSUME NEW l \in DOMAIN g, g[l].pos # None PROVE g[l].rel \in Projected
        BY <1>2, <1>3, <2>3 DEF Whole, SameEnds, LinkIds
    <2> QED BY <2>2, <2>3 DEF Whole
<1>10. GraphInv'
    BY DeletionSteps DEF LinkInv
<1> QED BY <1>1, <1>3, <1>6, <1>7, <1>8, <1>9, <1>10, <1>a DEF LinkInv

LEMMA GraphLinks ==
    ASSUME LinkInv, GraphNext, UNCHANGED merges
    PROVE  LinkInv'
BY LinkStep, UnlinkStep, ProjectStep, ValueStep, DeletionStep, RestorationStep, PurgingStep, ListStep DEF GraphNext

-----------------------------------------------------------------------------
(* The links of a merge                                                    *)

LEMMA EndedAreCandidates ==
    ASSUME NEW s, NEW losers
    PROVE  /\ Candidates(s, losers) \subseteq Active /\ EndedByMerge(s, losers) \subseteq Candidates(s, losers)
           /\ Staying(s, losers) \subseteq Active /\ Ending(s, losers) \subseteq Active
           /\ Staying(s, losers) \cap Ending(s, losers) = {}
<1>1. Candidates(s, losers) \subseteq Active
    BY DEF Candidates, Touching
<1>2. Duplicates(s, losers) \subseteq Candidates(s, losers)
    BY DEF Duplicates
<1>3. EndedByMerge(s, losers) \subseteq Candidates(s, losers)
    BY <1>2 DEF EndedByMerge, Outranked
<1> QED BY <1>1, <1>3 DEF Staying, Ending

\* Of two links at one end, one is outranked.
LEMMA OneOutranked ==
    ASSUME NEW final, NEW own, NEW l \in DOMAIN final, NEW k \in DOMAIN final, l # k, l \in Int, k \in Int,
           link[l].rel = link[k].rel, final[l] = final[k]
    PROVE  l \in Outranked(final, own) \/ k \in Outranked(final, own)
BY DEF Outranked

LEMMA StayingApart ==
    ASSUME LinkRows(link), NEW s, NEW losers, NEW l \in Staying(s, losers), NEW k \in Staying(s, losers), l # k,
           link[l].rel = link[k].rel
    PROVE  /\ link[l].rel \in ToOne => FinalFrom(l, s, losers) # FinalFrom(k, s, losers)
           /\ link[l].rel \in FromOne => FinalTo(l, s, losers) # FinalTo(k, s, losers)
<1>a. PICK dup, one, from, other, to :
         /\ dup = Duplicates(s, losers)
         /\ one = {i \in Candidates(s, losers) \ dup : link[i].rel \in ToOne}
         /\ from = Outranked([i \in one |-> FinalFrom(i, s, losers)], {i \in one : link[i].from = s})
         /\ other = {i \in Candidates(s, losers) \ (dup \cup from) : link[i].rel \in FromOne}
         /\ to = Outranked([i \in other |-> FinalTo(i, s, losers)], {i \in other : link[i].to = s})
    OBVIOUS
<1>1. EndedByMerge(s, losers) = dup \cup from \cup to
    BY <1>a DEF EndedByMerge
<1>2. /\ l \in Candidates(s, losers) \ (dup \cup from \cup to)
      /\ k \in Candidates(s, losers) \ (dup \cup from \cup to)
    BY <1>1 DEF Staying
<1>3. l \in Int /\ k \in Int
    <2>1. l \in DOMAIN link /\ k \in DOMAIN link
        BY <1>2, EndedAreCandidates DEF Active, LinkIds
    <2> QED BY <2>1, RowsNumbered
<1>4. ASSUME link[l].rel \in ToOne, FinalFrom(l, s, losers) = FinalFrom(k, s, losers) PROVE FALSE
    <2>a. PICK final, own : final = [i \in one |-> FinalFrom(i, s, losers)] /\ own = {i \in one : link[i].from = s}
        OBVIOUS
    <2>1. l \in one /\ k \in one
        BY <1>2, <1>4, <1>a
    <2>2. l \in DOMAIN final /\ k \in DOMAIN final /\ final[l] = final[k]
        BY <1>4, <2>1, <2>a
    <2>3. l \in Outranked(final, own) \/ k \in Outranked(final, own)
        BY <1>3, <2>2, OneOutranked
    <2>4. from = Outranked(final, own)
        BY <1>a, <2>a
    <2> QED BY <1>2, <2>3, <2>4
<1>5. ASSUME link[l].rel \in FromOne, FinalTo(l, s, losers) = FinalTo(k, s, losers) PROVE FALSE
    <2>a. PICK final, own : final = [i \in other |-> FinalTo(i, s, losers)] /\ own = {i \in other : link[i].to = s}
        OBVIOUS
    <2>1. l \in other /\ k \in other
        BY <1>2, <1>5, <1>a
    <2>2. l \in DOMAIN final /\ k \in DOMAIN final /\ final[l] = final[k]
        BY <1>5, <2>1, <2>a
    <2>3. l \in Outranked(final, own) \/ k \in Outranked(final, own)
        BY <1>3, <2>2, OneOutranked
    <2>4. to = Outranked(final, own)
        BY <1>a, <2>a
    <2> QED BY <1>2, <2>3, <2>4
<1> QED BY <1>4, <1>5

LEMMA RowsAfterMerge ==
    ASSUME LinkRows(link), NEW s, NEW losers, NEW now \in Nat, NEW g,
           g = LinksAfterMerge(LinkPlan(s, losers), now)
    PROVE  /\ LinkRows(g) /\ DOMAIN g = LinkIds /\ RowsStep(link, g, now) /\ NoneRevived(link, g)
           /\ \A l \in LinkIds :
                 /\ g[l].pos # None => link[l].pos # None
                 /\ l \in Ending(s, losers) => g[l].state = "ended" /\ SameEnds(g[l], link[l])
                 /\ l \notin Ending(s, losers) => g[l].state = link[l].state
                 /\ l \in Staying(s, losers) => g[l].from = FinalFrom(l, s, losers) /\ g[l].to = FinalTo(l, s, losers)
                 /\ l \notin Staying(s, losers) => SameEnds(g[l], link[l])
<1>a. PICK staying, ending, final, moved :
         /\ staying = Staying(s, losers) /\ ending = Ending(s, losers)
         /\ final = [l \in staying |-> [from |-> FinalFrom(l, s, losers), to |-> FinalTo(l, s, losers),
                                        pos |-> FinalPos(l, s, losers, staying)]]
         /\ moved = {k \in staying : \/ final[k].from # link[k].from \/ final[k].to # link[k].to
                                     \/ final[k].pos # link[k].pos}
    OBVIOUS
<1>b. PICK plan : plan = LinkPlan(s, losers)
    OBVIOUS
<1>1. plan.ending = ending /\ plan.final = [l \in moved |-> final[l]]
    BY <1>a, <1>b DEF LinkPlan
<1>2. staying \subseteq Active /\ ending \subseteq Active /\ staying \cap ending = {} /\ moved \subseteq staying
    BY <1>a, EndedAreCandidates
<1>3. g = [l \in LinkIds |-> g[l]] /\ DOMAIN g = LinkIds
    BY DEF LinksAfterMerge
<1>4. ASSUME NEW l \in LinkIds
      PROVE  /\ LinkRow(g[l]) /\ RowStep(link[l], g[l], now)
             /\ g[l].pos # None => link[l].pos # None
             /\ l \notin ending => g[l].state = link[l].state
             /\ l \in ending => g[l].state = "ended" /\ SameEnds(g[l], link[l])
             /\ l \in staying => g[l].from = FinalFrom(l, s, losers) /\ g[l].to = FinalTo(l, s, losers)
             /\ l \notin staying => SameEnds(g[l], link[l])
    <2>a. PICK x, y : x = link[l] /\ y = g[l]
        OBVIOUS
    <2>1. LinkRow(x)
        BY <2>a, RowsNumbered DEF LinkIds
    <2>2. CASE l \in ending
        <3>1. y = [x EXCEPT !.state = "ended", !.at = now]
            BY <1>1, <1>b, <2>2, <2>a DEF LinksAfterMerge
        <3>2. LinkRow(y) /\ y = Written(x, x.from, x.to, x.pos, "ended", now)
            BY <2>1, <3>1, RowEnded
        <3>3. y.rel = x.rel /\ y.from = x.from /\ y.to = x.to /\ y.pos = x.pos /\ y.state = "ended" /\ y.at = now
            BY <3>2, WrittenRow
        <3> QED BY <1>2, <2>2, <2>a, <3>2, <3>3 DEF RowStep, SameEnds
    <2>3. CASE l \in moved
        <3>a. PICK f, t, p : f = FinalFrom(l, s, losers) /\ t = FinalTo(l, s, losers) /\ p = FinalPos(l, s, losers, staying)
            OBVIOUS
        <3>b. l \notin ending /\ l \in staying /\ x.state = "active"
            BY <1>2, <2>3, <2>a DEF Active
        <3>1. final[l].from = f /\ final[l].to = t /\ final[l].pos = p
            BY <1>a, <3>a, <3>b
        <3>2. l \in DOMAIN plan.final /\ plan.final[l] = final[l] /\ l \notin plan.ending
            BY <1>1, <2>3, <3>b
        <3>3. y = [x EXCEPT !.from = f, !.to = t, !.pos = p, !.at = now]
            BY <1>b, <2>a, <3>1, <3>2 DEF LinksAfterMerge
        <3>4. LinkRow(y) /\ y = Written(x, f, t, p, x.state, now)
            BY <2>1, <3>3, RowRepointed
        <3>5. y.rel = x.rel /\ y.from = f /\ y.to = t /\ y.pos = p /\ y.state = x.state /\ y.at = now
            BY <3>4, WrittenRow
        <3>6. p # None => x.pos # None
            BY <2>a, <3>a DEF FinalPos
        <3> QED BY <2>a, <3>a, <3>b, <3>4, <3>5, <3>6 DEF RowStep
    <2>4. CASE l \notin ending /\ l \notin moved
        <3>1. y = x
            <4>1. l \notin plan.ending /\ l \notin DOMAIN plan.final
                BY <1>1, <2>4
            <4> QED BY <1>b, <2>a, <4>1 DEF LinksAfterMerge
        <3>2. l \in staying => x.from = FinalFrom(l, s, losers) /\ x.to = FinalTo(l, s, losers)
            <4> SUFFICES ASSUME l \in staying PROVE x.from = FinalFrom(l, s, losers) /\ x.to = FinalTo(l, s, losers)
                OBVIOUS
            <4>1. final[l].from = FinalFrom(l, s, losers) /\ final[l].to = FinalTo(l, s, losers)
                BY <1>a
            <4>2. final[l].from = link[l].from /\ final[l].to = link[l].to
                BY <1>a, <2>4
            <4> QED BY <2>a, <4>1, <4>2
        <3> QED BY <2>1, <2>4, <2>a, <3>1, <3>2 DEF RowStep, SameEnds
    <2> QED BY <2>2, <2>3, <2>4
<1>5. LinkRows(g)
    BY <1>3, <1>4, RowsChanged DEF LinkIds
<1>6. RowsStep(link, g, now) /\ NoneRevived(link, g)
    BY <1>3, <1>4 DEF RowsStep, NoneRevived, LinkIds
<1> QED BY <1>a, <1>3, <1>4, <1>5, <1>6

\* The ends of two links, before the merge, as the plan has them, and after it.  One at a loser is planned
\* at the survivor; a link in the plan gets its planned end, any other keeps its own.
LEMMA EndsStayApart ==
    ASSUME NEW s, NEW E, s \notin E, NEW bl, NEW bk, bl # bk, NEW fl, NEW fk, NEW al, NEW ak,
           NEW pl \in BOOLEAN, NEW pk \in BOOLEAN,
           fl = IF bl \in E THEN s ELSE bl, fk = IF bk \in E THEN s ELSE bk,
           al = IF pl THEN fl ELSE bl, ak = IF pk THEN fk ELSE bk,
           pl /\ pk => fl # fk,
           bl \in E /\ pl /\ bk = s => pk,
           bk \in E /\ pk /\ bl = s => pl
    PROVE  al # ak
<1>1. CASE bl \notin E /\ bk \notin E
    BY <1>1
<1>2. CASE bl \in E /\ bk \in E
    <2>1. CASE pl /\ pk
        BY <1>2, <2>1
    <2>2. CASE ~pl /\ ~pk
        BY <1>2, <2>2
    <2>3. CASE pl /\ ~pk
        BY <1>2, <2>3
    <2>4. CASE ~pl /\ pk
        BY <1>2, <2>4
    <2> QED BY <2>1, <2>2, <2>3, <2>4
<1>3. CASE bl \in E /\ bk \notin E
    <2>1. fk = bk /\ ak = bk /\ fl = s
        BY <1>3
    <2>2. CASE pl
        BY <1>3, <2>1, <2>2
    <2>3. CASE ~pl
        BY <1>3, <2>1, <2>3
    <2> QED BY <2>2, <2>3
<1>4. CASE bl \notin E /\ bk \in E
    <2>1. fl = bl /\ al = bl /\ fk = s
        BY <1>4
    <2>2. CASE pk
        BY <1>4, <2>1, <2>2
    <2>3. CASE ~pk
        BY <1>4, <2>1, <2>3
    <2> QED BY <2>2, <2>3
<1> QED BY <1>1, <1>2, <1>3, <1>4

\* A link of the survivor is in the plan with the links of the losers, and what leaves the plan ends.
LEMMA SurvivorsAreStaying ==
    ASSUME NEW s, NEW losers, NEW l \in Affected(losers), NEW k \in Active, link[k].rel = link[l].rel,
           s \in {link[k].from, link[k].to}
    PROVE  k \in Staying(s, losers) \cup Ending(s, losers)
<1>1. k \in Candidates(s, losers)
    BY DEF Candidates, Touching
<1>2. CASE k \in EndedByMerge(s, losers)
    BY <1>2 DEF Ending
<1>3. CASE k \notin EndedByMerge(s, losers)
    BY <1>1, <1>3 DEF Staying
<1> QED BY <1>2, <1>3

LEMMA MergedApart ==
    ASSUME LinkRows(link), Whole(link), NEW s, NEW losers, s \notin ElemsOf(losers), NEW now \in Nat, NEW g,
           g = LinksAfterMerge(LinkPlan(s, losers), now)
    PROVE  OneAtAnEnd(g)
<1>1. /\ DOMAIN g = LinkIds /\ RowsStep(link, g, now) /\ NoneRevived(link, g)
      /\ \A l \in LinkIds :
            /\ l \in Ending(s, losers) => g[l].state = "ended"
            /\ l \in Staying(s, losers) => g[l].from = FinalFrom(l, s, losers) /\ g[l].to = FinalTo(l, s, losers)
            /\ l \notin Staying(s, losers) => g[l].from = link[l].from /\ g[l].to = link[l].to
    BY RowsAfterMerge DEF SameEnds
<1>a. PICK E, staying : E = ElemsOf(losers) /\ staying = Staying(s, losers)
    OBVIOUS
<1> SUFFICES ASSUME NEW l \in LinkIds, NEW k \in LinkIds, l # k, g[l].state = "active", g[k].state = "active",
                    g[l].rel = g[k].rel
             PROVE  /\ g[l].rel \in ToOne => g[l].from # g[k].from
                    /\ g[l].rel \in FromOne => g[l].to # g[k].to
    BY <1>1 DEF OneAtAnEnd
<1>2. l \in Active /\ k \in Active /\ g[l].rel = link[l].rel /\ g[k].rel = link[k].rel
    BY <1>1 DEF NoneRevived, RowsStep, RowStep, Active, LinkIds
<1>3. Fits(link[l], link[k])
    BY <1>2 DEF Whole, Active, LinkIds
<1>4. ASSUME NEW x \in {l, k}, NEW y \in {l, k}, link[x].from \in E \/ link[x].to \in E, s \in {link[y].from, link[y].to}
      PROVE  y \in staying
    <2>1. x \in Affected(losers)
        BY <1>2, <1>4, <1>a DEF Affected, Touching
    <2>2. y \in Staying(s, losers) \cup Ending(s, losers)
        BY <1>2, <1>4, <2>1, SurvivorsAreStaying
    <2>3. y \notin Ending(s, losers)
        BY <1>1
    <2> QED BY <1>a, <2>2, <2>3
<1>5. l \in staying /\ k \in staying => /\ link[l].rel \in ToOne => FinalFrom(l, s, losers) # FinalFrom(k, s, losers)
                                        /\ link[l].rel \in FromOne => FinalTo(l, s, losers) # FinalTo(k, s, losers)
    BY <1>a, <1>2, StayingApart
<1>6. ASSUME g[l].rel \in ToOne PROVE g[l].from # g[k].from
    <2>a. PICK bl, bk, fl, fk, al, ak, pl, pk :
             /\ bl = link[l].from /\ bk = link[k].from
             /\ fl = FinalFrom(l, s, losers) /\ fk = FinalFrom(k, s, losers)
             /\ al = g[l].from /\ ak = g[k].from /\ pl = (l \in staying) /\ pk = (k \in staying)
        OBVIOUS
    <2>1. bl # bk
        BY <1>2, <1>3, <1>6, <2>a DEF Fits
    <2>2. fl = (IF bl \in E THEN s ELSE bl) /\ fk = (IF bk \in E THEN s ELSE bk)
        BY <1>a, <2>a DEF FinalFrom, Final
    <2>3. al = (IF pl THEN fl ELSE bl) /\ ak = (IF pk THEN fk ELSE bk)
        BY <1>1, <1>a, <2>a
    <2>4. (pl /\ pk => fl # fk) /\ (bl \in E /\ pl /\ bk = s => pk) /\ (bk \in E /\ pk /\ bl = s => pl)
        BY <1>2, <1>4, <1>5, <1>6, <2>a
    <2>5. s \notin E /\ pl \in BOOLEAN /\ pk \in BOOLEAN
        BY <1>a, <2>a
    <2>6. al # ak
        BY <2>1, <2>2, <2>3, <2>4, <2>5, EndsStayApart
    <2> QED BY <2>a, <2>6
<1>7. ASSUME g[l].rel \in FromOne PROVE g[l].to # g[k].to
    <2>a. PICK bl, bk, fl, fk, al, ak, pl, pk :
             /\ bl = link[l].to /\ bk = link[k].to
             /\ fl = FinalTo(l, s, losers) /\ fk = FinalTo(k, s, losers)
             /\ al = g[l].to /\ ak = g[k].to /\ pl = (l \in staying) /\ pk = (k \in staying)
        OBVIOUS
    <2>1. bl # bk
        BY <1>2, <1>3, <1>7, <2>a DEF Fits
    <2>2. fl = (IF bl \in E THEN s ELSE bl) /\ fk = (IF bk \in E THEN s ELSE bk)
        BY <1>a, <2>a DEF FinalTo, Final
    <2>3. al = (IF pl THEN fl ELSE bl) /\ ak = (IF pk THEN fk ELSE bk)
        BY <1>1, <1>a, <2>a
    <2>4. (pl /\ pk => fl # fk) /\ (bl \in E /\ pl /\ bk = s => pk) /\ (bk \in E /\ pk /\ bl = s => pl)
        BY <1>2, <1>4, <1>5, <1>7, <2>a
    <2>5. s \notin E /\ pl \in BOOLEAN /\ pk \in BOOLEAN
        BY <1>a, <2>a
    <2>6. al # ak
        BY <2>1, <2>2, <2>3, <2>4, <2>5, EndsStayApart
    <2> QED BY <2>a, <2>6
<1> QED BY <1>6, <1>7

\* The two indexes and the cardinalities are what it means to fit together.
LEMMA IndexedIsWhole ==
    ASSUME NEW g, IndexesHold(g), OneAtAnEnd(g), \A l \in DOMAIN g : g[l].pos # None => g[l].rel \in Projected
    PROVE  Whole(g)
BY DEF IndexesHold, OneAtAnEnd, Whole, Fits

LEMMA MergedDates ==
    ASSUME NEW x, Row(x), NEW y, NEW v, NEW n, NEW t, y = AsSurvivor(x, v, n, t)
    PROVE  y.dead = x.dead
<1>1. PICK V : x \in RowIn(V)
    BY DEF Row
<1> QED BY <1>1 DEF RowIn, AsSurvivor

\* A merge makes no record restorable: a loser is redirected, and the others keep their dates.
LEMMA MergeRestorable ==
    ASSUME GraphInv, NEW s \in Record, NEW losers, NEW v, NEW plan, s \notin ElemsOf(losers),
           rec' = RecordsAfterMerge(s, losers, v, plan), NEW r \in Record, Restorable(r)'
    PROVE  Restorable(r)
<1>a. PICK f, gone, linked : f = rec' /\ gone = ElemsOf(losers) /\ linked = Bumped(rec, LinkTouched(plan, s, losers))
    OBVIOUS
<1>1. /\ f[r].exists = rec[r].exists
      /\ f[r].into = IF r # s /\ (r \in gone \/ rec[r].into \in gone) THEN s ELSE rec[r].into
    BY <1>a, RedirectsAfterMerge DEF GraphInv
<1>2. f[r].exists /\ f[r].dead /\ f[r].into = None
    BY <1>a DEF Restorable
<1>3. s # None
    BY GraphAssumption DEF GraphAssumption
<1>4. rec[r].exists /\ rec[r].into = None /\ (r = s \/ (r \notin gone /\ rec[r].into \notin gone))
    BY <1>1, <1>2, <1>3
<1>5. Row(linked[r]) /\ linked[r].dead = rec[r].dead
    <2>1. \A q \in Record : Row(rec[q])
        BY DEF GraphInv, Rows
    <2> QED BY <1>a, <2>1, BumpedStays, BumpedRows DEF Rows
<1>6. f[r].dead = linked[r].dead
    <2>1. CASE r = s
        <3>a. PICK x, y, n, t : x = linked[r] /\ y = f[r] /\ n = linked[r].ver + 1
                                /\ t = IF v # rec[s].val THEN clock + 1 ELSE linked[r].set
            OBVIOUS
        <3>1. y = AsSurvivor(x, v, n, t)
            BY <1>a, <2>1, <3>a DEF RecordsAfterMerge, AsSurvivor
        <3>2. y.dead = x.dead
            BY <1>5, <3>a, <3>1, MergedDates
        <3> QED BY <3>a, <3>2
    <2>2. CASE r # s
        <3>1. r \notin gone /\ rec[r].into \notin gone
            BY <1>4, <2>2
        <3>2. f[r] = linked[r]
            BY <1>a, <2>2, <3>1 DEF RecordsAfterMerge
        <3> QED BY <3>2
    <2> QED BY <2>1, <2>2
<1> QED BY <1>2, <1>4, <1>5, <1>6 DEF Restorable

\* What the snapshot of a merge keeps.
LEMMA MergeIsRemembered ==
    ASSUME LinkInv, NEW s, NEW losers, NEW now, now = clock + 1, NEW g, NEW m,
           m = MergeSnapshot(s, losers, LinkPlan(s, losers)), g = LinksAfterMerge(LinkPlan(s, losers), now)
    PROVE  Remembers(m, g, now) /\ m.ended \subseteq Active /\ Restoring(m) \subseteq Active
<1>a. PICK plan : plan = LinkPlan(s, losers)
    OBVIOUS
<1>1. /\ m.at = now /\ m.ended = plan.ending /\ m.world.link = link
      /\ m.repointed = {[id |-> l, from |-> link[l].from, to |-> link[l].to, pos |-> link[l].pos]
                           : l \in Repointed(plan, losers)}
    BY <1>a DEF MergeSnapshot
<1>2. plan.ending = Ending(s, losers) /\ DOMAIN plan.final \subseteq Staying(s, losers)
    BY <1>a DEF LinkPlan
<1>3. m.ended \subseteq Active /\ Repointed(plan, losers) \subseteq Active
    BY <1>1, <1>2, EndedAreCandidates DEF Repointed
<1>4. Restoring(m) \subseteq Active
    <2>1. \A k \in m.repointed : k.id \in Active
        BY <1>1, <1>3
    <2> QED BY <1>3, <2>1 DEF Restoring
<1>5. now \in Nat /\ LinkRows(link) /\ Whole(link)
    BY DEF LinkInv
<1>6. /\ DOMAIN g = LinkIds /\ RowsStep(link, g, now)
      /\ \A l \in LinkIds : l \in Ending(s, losers) => g[l].state = "ended" /\ SameEnds(g[l], link[l])
    BY <1>5, RowsAfterMerge
<1>7. Active \subseteq LinkIds /\ \A l \in Active : link[l].state = "active" /\ l \in DOMAIN link
    BY DEF Active, LinkIds
<1>8. \A l, k \in Restoring(m) : l # k => Fits(link[l], link[k])
    BY <1>4, <1>5, <1>7 DEF Whole
<1>9. \A l \in Restoring(m) : link[l].rel = g[l].rel /\ (link[l].pos # None => link[l].rel \in Projected)
    BY <1>4, <1>5, <1>6, <1>7 DEF Whole, RowsStep, RowStep
<1>10. \A k \in m.repointed : SameEnds(k, link[k.id])
    BY <1>1 DEF SameEnds
<1>11. \A l \in m.ended : g[l].state # "active" /\ SameEnds(g[l], link[l])
    BY <1>1, <1>2, <1>3, <1>6, <1>7
<1>12. Restoring(m) \subseteq DOMAIN g
    BY <1>4, <1>6, <1>7
<1> QED BY <1>1, <1>3, <1>4, <1>5, <1>8, <1>9, <1>10, <1>11, <1>12 DEF Remembers

LEMMA MergingStep ==
    ASSUME LinkInv, NEW s \in Record, NEW losers \in Losers, NEW choice, Merge(s, losers, choice)
    PROVE  LinkInv'
<1>a. PICK now, plan, g, m, held2, ms :
         /\ now = clock + 1 /\ plan = LinkPlan(s, losers) /\ g = link' /\ m = MergeSnapshot(s, losers, plan)
         /\ held2 = Held' /\ ms = merges'
    OBVIOUS
<1>1. /\ Tick /\ UNCHANGED deletion /\ s \notin ElemsOf(losers)
      /\ IndexesHold(LinksAfterMerge(plan, clock + 1)) /\ g = LinksAfterMerge(plan, clock + 1)
      /\ rec' = RecordsAfterMerge(s, losers, PlannedValue(s, losers, choice), plan)
      /\ ms = Append(merges, m)
    BY <1>a DEF Merge, Mergeable
<1>2. clock' = now /\ now \in Nat /\ clock \in Nat
    BY <1>1, <1>a DEF Tick, LinkInv
<1>3. LinkRows(link) /\ Whole(link) /\ Kept(link, Held) /\ GraphInv
    BY DEF LinkInv
<1>4. g = LinksAfterMerge(LinkPlan(s, losers), now)
    BY <1>1, <1>a
<1>5. /\ LinkRows(g) /\ DOMAIN g = LinkIds /\ RowsStep(link, g, now) /\ NoneRevived(link, g)
      /\ \A l \in LinkIds : g[l].pos # None => link[l].pos # None
    BY <1>2, <1>3, <1>4, RowsAfterMerge
<1>6. Whole(g)
    <2>1. OneAtAnEnd(g)
        BY <1>1, <1>2, <1>3, <1>4, MergedApart
    <2>2. \A l \in DOMAIN g : g[l].pos # None => g[l].rel \in Projected
        BY <1>3, <1>5 DEF Whole, RowsStep, RowStep, LinkIds
    <2>3. IndexesHold(g)
        BY <1>1
    <2> QED BY <2>1, <2>2, <2>3, IndexedIsWhole
<1>7. \A r \in Record : held2[r] \subseteq Held[r]
    <2>1. ASSUME NEW r \in Record PROVE held2[r] = IF Restorable(r)' THEN deletion[r].links ELSE {}
        BY <1>1, <1>a DEF Held
    <2>2. ASSUME NEW r \in Record PROVE Restorable(r)' => Restorable(r)
        BY <1>1, <1>3, MergeRestorable
    <2>3. ASSUME NEW r \in Record PROVE held2[r] \subseteq Held[r]
        BY <2>1, <2>2, HeldBy
    <2> QED BY <2>3
<1>8. Kept(g, held2)
    <2>1. \A r \in Record : \A l \in held2[r] : g[l].state # "active"
        BY <1>3, <1>5, <1>7 DEF Kept, NoneRevived
    <2> QED BY <1>3, <1>5, <1>7, <2>1, KeptOn
<1>9. Remembers(m, g, now) /\ m.ended \subseteq Active
    BY <1>a, <1>4, MergeIsRemembered
<1>10. ASSUME NEW i \in DOMAIN ms PROVE (i \in DOMAIN merges /\ ms[i] = merges[i]) \/ ms[i] = m
    <2>a. PICK V : merges \in Seq(SnapIn(V))
        BY <1>3 DEF GraphInv, MergesNamed
    <2> QED BY <1>1, <1>10, <2>a
<1>11. AllRemember(ms, g, now)
    <2>1. AllRemember(merges, g, now)
        BY <1>2, <1>a, <1>5, AllRememberOn DEF LinkInv
    <2> QED BY <1>9, <1>10, <2>1 DEF AllRemember
<1>12. HeldOnce(ms, g, held2)
    <2>1. HeldOnce(merges, g, held2)
        BY <1>2, <1>a, <1>5, <1>7, HeldOnceOn DEF LinkInv
    <2>2. ASSUME NEW r \in Record, NEW l \in m.ended \cap held2[r] PROVE FALSE
        BY <1>3, <1>7, <1>9, <2>2 DEF Kept, Active
    <2>3. ASSUME NEW i \in DOMAIN ms, NEW r \in Record, NEW l \in ms[i].ended \cap held2[r]
          PROVE  g[l].at > ms[i].at
        BY <1>10, <2>1, <2>2, <2>3 DEF HeldOnce
    <2> QED BY <2>3 DEF HeldOnce
<1>13. GraphInv'
    BY MergeStep DEF LinkInv
<1> QED BY <1>2, <1>5, <1>6, <1>8, <1>11, <1>12, <1>13, <1>a DEF LinkInv
-----------------------------------------------------------------------------
(* The links of an unmerge                                                 *)

\* A link without conflict returns to the ends the snapshot names; one that is not active has them still.
LEMMA OriginalEnds ==
    ASSUME LinkRows(link), NEW m, Remembers(m, link, clock), NEW l \in Restoring(m), ~ChangedSince(m, l)
    PROVE  /\ SameEnds(Original(m, l), m.world.link[l])
           /\ link[l].state # "active" => SameEnds(Original(m, l), link[l])
           /\ l \in m.ended => link[l].state # "active" /\ link[l].at <= m.at
           /\ l \notin m.ended => link[l].state = "active"
<1>1. l \in DOMAIN link /\ m.at \in Nat
    BY DEF Remembers
<1>2. link[l].at \in Nat /\ ~(link[l].at > m.at)
    BY <1>1, RowsNumbered DEF LinkRow, ChangedSince
<1>3. link[l].at <= m.at
    BY <1>1, <1>2
<1>4. l \in m.ended => link[l].state # "active" /\ SameEnds(link[l], m.world.link[l])
    BY <1>3 DEF ChangedSince, Remembers
<1>5. l \notin m.ended => link[l].state = "active"
    BY DEF ChangedSince
<1>6. SameEnds(Original(m, l), m.world.link[l])
    <2>1. CASE \E k \in m.repointed : k.id = l
        <3>1. PICK k : k = Original(m, l)
            OBVIOUS
        <3>2. k \in m.repointed /\ k.id = l
            BY <2>1, <3>1 DEF Original
        <3> QED BY <3>1, <3>2 DEF Remembers
    <2>2. CASE ~\E k \in m.repointed : k.id = l
        <3>1. l \in m.ended
            BY <2>2 DEF Restoring
        <3>2. Original(m, l) = [id |-> l, from |-> link[l].from, to |-> link[l].to, pos |-> link[l].pos]
            BY <2>2 DEF Original
        <3> QED BY <1>4, <3>1, <3>2 DEF SameEnds
    <2> QED BY <2>1, <2>2
<1> QED BY <1>3, <1>4, <1>5, <1>6 DEF SameEnds

LEMMA AdjustedPlace ==
    ASSUME NEW m, NEW l, link[l].pos = None
    PROVE  AdjustedPos(m, l) = None
BY DEF AdjustedPos

LEMMA RowsAfterUnmerge ==
    ASSUME LinkRows(link), clock \in Nat, NEW m, Remembers(m, link, clock),
           \A l \in Restoring(m) : ~ChangedSince(m, l), NEW g, g = LinksAfterUnmerge(m)
    PROVE  /\ LinkRows(g) /\ DOMAIN g = LinkIds /\ RowsStep(link, g, clock + 1)
           /\ \A l \in LinkIds :
                 /\ l \in Restoring(m) => SameEnds(g[l], m.world.link[l]) /\ g[l].state = "active"
                 /\ l \notin Restoring(m) => /\ g[l].state = link[l].state
                                             /\ g[l].from = link[l].from /\ g[l].to = link[l].to
                                             /\ g[l].pos # None => link[l].pos # None
<1>1. g = [l \in LinkIds |-> g[l]] /\ DOMAIN g = LinkIds
    BY DEF LinksAfterUnmerge
<1>2. ASSUME NEW l \in LinkIds
      PROVE  /\ LinkRow(g[l]) /\ RowStep(link[l], g[l], clock + 1)
             /\ l \in Restoring(m) => SameEnds(g[l], m.world.link[l]) /\ g[l].state = "active"
             /\ l \notin Restoring(m) => /\ g[l].state = link[l].state
                                         /\ g[l].from = link[l].from /\ g[l].to = link[l].to
                                         /\ g[l].pos # None => link[l].pos # None
    <2>a. PICK x, y, o, p, now : x = link[l] /\ y = g[l] /\ o = Original(m, l) /\ p = AdjustedPos(m, l) /\ now = clock + 1
        OBVIOUS
    <2>1. LinkRow(x) /\ now \in Nat
        BY <2>a, RowsNumbered DEF LinkIds
    <2>2. CASE l \in Restoring(m)
        <3>a. PICK from, to, pos, st : from = o.from /\ to = o.to /\ pos = o.pos /\ st = "active"
            OBVIOUS
        <3>1. y = Returned(x, from, to, pos, st, now)
            BY <2>a, <2>2, <3>a DEF LinksAfterUnmerge, Returned
        <3>2. LinkRow(y) /\ y = Written(x, from, to, pos, st, now)
            BY <2>1, <3>1, RowRestored
        <3>b. y.rel = x.rel /\ y.from = from /\ y.to = to /\ y.pos = pos /\ y.state = st /\ y.at = now
            BY <2>1, <3>2, WrittenRow
        <3>3. y.rel = x.rel /\ y.from = o.from /\ y.to = o.to /\ y.pos = o.pos /\ y.state = "active" /\ y.at = now
            BY <3>a, <3>b
        <3>4. SameEnds(o, m.world.link[l]) /\ (x.state # "active" => SameEnds(o, x))
            BY <2>2, <2>a, OriginalEnds
        <3>5. SameEnds(y, m.world.link[l]) /\ (x.state # "active" => SameEnds(y, x))
            BY <3>3, <3>4 DEF SameEnds
        <3>6. RowStep(x, y, now)
            BY <3>3, <3>5 DEF RowStep
        <3> QED BY <2>2, <2>a, <3>2, <3>3, <3>5, <3>6
    <2>3. CASE l \notin Restoring(m) /\ l \in Adjusted(m)
        <3>1. y = [x EXCEPT !.pos = p, !.at = now]
            BY <2>a, <2>3 DEF LinksAfterUnmerge
        <3>2. LinkRow(y) /\ y = Written(x, x.from, x.to, p, x.state, now)
            BY <2>1, <3>1, RowPlaced
        <3>3. y.rel = x.rel /\ y.from = x.from /\ y.to = x.to /\ y.pos = p /\ y.state = x.state /\ y.at = now
            BY <2>1, <3>2, WrittenRow
        <3>4. x.pos = None => p = None
            BY <2>a, AdjustedPlace
        <3>5. x.state = "active"
            BY <2>a, <2>3 DEF Adjusted, Active
        <3>6. RowStep(x, y, now)
            BY <3>3, <3>5 DEF RowStep
        <3> QED BY <2>3, <2>a, <3>2, <3>3, <3>4, <3>6
    <2>4. CASE l \notin Restoring(m) /\ l \notin Adjusted(m)
        <3>1. y = x
            BY <2>a, <2>4 DEF LinksAfterUnmerge
        <3>2. RowStep(x, y, now)
            BY <3>1 DEF RowStep, SameEnds
        <3> QED BY <2>1, <2>4, <2>a, <3>1, <3>2
    <2> QED BY <2>2, <2>3, <2>4
<1>3. LinkRows(g)
    BY <1>1, <1>2, RowsChanged DEF LinkIds
<1>4. RowsStep(link, g, clock + 1)
    BY <1>1, <1>2 DEF RowsStep, LinkIds
<1> QED BY <1>1, <1>2, <1>3, <1>4

\* Two links an unmerge leaves active keep to the cardinality: both return, one returns, or both stayed.
LEMMA UnmergedApart ==
    ASSUME LinkRows(link), Whole(link), clock \in Nat, NEW m, Remembers(m, link, clock),
           \A l \in Restoring(m) : ~ChangedSince(m, l) /\ ~PlaceTaken(m, l), NEW g, g = LinksAfterUnmerge(m)
    PROVE  OneAtAnEnd(g)
<1>1. /\ DOMAIN g = LinkIds /\ RowsStep(link, g, clock + 1)
      /\ \A l \in LinkIds :
            /\ l \in Restoring(m) => SameEnds(g[l], m.world.link[l]) /\ g[l].state = "active"
            /\ l \notin Restoring(m) => /\ g[l].state = link[l].state
                                        /\ g[l].from = link[l].from /\ g[l].to = link[l].to
    BY RowsAfterUnmerge
<1>2. \A l \in LinkIds : g[l].rel = link[l].rel
    BY <1>1 DEF RowsStep, RowStep, LinkIds
<1>3. Restoring(m) \subseteq LinkIds
    BY DEF Remembers, LinkIds
<1> DEFINE Apart(l, k) == /\ g[l].rel \in ToOne => g[l].from # g[k].from
                          /\ g[l].rel \in FromOne => g[l].to # g[k].to
<1>4. ASSUME NEW l \in Restoring(m), NEW k \in Restoring(m), l # k, g[l].rel = g[k].rel PROVE Apart(l, k)
    <2>a. PICK x, y : x = m.world.link[l] /\ y = m.world.link[k]
        OBVIOUS
    <2>1. Fits(x, y) /\ x.rel = g[l].rel /\ y.rel = g[k].rel
        BY <1>2, <1>3, <1>4, <2>a DEF Remembers
    <2>2. SameEnds(g[l], x) /\ SameEnds(g[k], y)
        BY <1>1, <1>3, <2>a
    <2> QED BY <1>4, <2>1, <2>2 DEF Fits, SameEnds
<1>5. ASSUME NEW l \in Restoring(m), NEW k \in Active \ Restoring(m), g[l].rel = g[k].rel PROVE Apart(l, k)
    <2>a. PICK o : o = Original(m, l)
        OBVIOUS
    <2>1. SameEnds(o, m.world.link[l])
        BY <2>a, OriginalEnds
    <2>2. g[l].from = o.from /\ g[l].to = o.to /\ k \in LinkIds
        BY <1>1, <1>3, <2>1 DEF SameEnds, Active
    <2>3. g[k].from = link[k].from /\ g[k].to = link[k].to /\ link[k].rel = link[l].rel /\ link[l].rel = g[l].rel
        BY <1>1, <1>2, <1>3, <1>5, <2>2
    <2>4. k \in Of(link[l].rel) \ Restoring(m)
        BY <2>3 DEF Of
    <2>5. /\ link[l].rel \in ToOne => link[k].from # o.from
          /\ link[l].rel \in FromOne => link[k].to # o.to
        BY <2>4, <2>a DEF PlaceTaken
    <2> QED BY <2>2, <2>3, <2>5
<1>6. ASSUME NEW l \in Active \ Restoring(m), NEW k \in Active \ Restoring(m), l # k, g[l].rel = g[k].rel
      PROVE  Apart(l, k)
    <2>1. l \in LinkIds /\ k \in LinkIds /\ link[l].state = "active" /\ link[k].state = "active"
        BY DEF Active
    <2>2. Fits(link[l], link[k])
        BY <1>6, <2>1 DEF Whole, LinkIds
    <2> QED BY <1>1, <1>2, <1>6, <2>1, <2>2 DEF Fits
<1>7. ASSUME NEW l \in DOMAIN g, NEW k \in DOMAIN g, l # k, g[l].state = "active", g[k].state = "active",
             g[l].rel = g[k].rel
      PROVE  Apart(l, k)
    <2>1. l \in Restoring(m) \/ l \in Active \ Restoring(m)
        BY <1>1, <1>7 DEF Active
    <2>2. k \in Restoring(m) \/ k \in Active \ Restoring(m)
        BY <1>1, <1>7 DEF Active
    <2>3. CASE l \in Restoring(m) /\ k \in Restoring(m)
        BY <1>4, <1>7, <2>3
    <2>4. CASE l \in Restoring(m) /\ k \in Active \ Restoring(m)
        BY <1>5, <1>7, <2>4
    <2>5. CASE l \in Active \ Restoring(m) /\ k \in Restoring(m)
        <3>1. Apart(k, l)
            BY <1>5, <1>7, <2>5
        <3> QED BY <1>7, <3>1
    <2>6. CASE l \in Active \ Restoring(m) /\ k \in Active \ Restoring(m)
        BY <1>6, <1>7, <2>6
    <2> QED BY <2>1, <2>2, <2>3, <2>4, <2>5, <2>6
<1> QED BY <1>7 DEF OneAtAnEnd

LEMMA UnmergedFields ==
    ASSUME NEW x, Row(x), NEW v, NEW t, NEW b, NEW i, NEW n, NEW y, y = Unmerged(x, v, t, b, i, n)
    PROVE  y.dead = b /\ y.val = v /\ y.set = t
<1>1. PICK V : x \in RowIn(V)
    BY DEF Row
<1> QED BY <1>1 DEF RowIn, Unmerged

\* What an unmerge leaves in a row.
LEMMA UnmergedValues ==
    ASSUME Rows(rec), NEW m, NEW f, f = RecordsAfterUnmerge(m), NEW r \in Record
    PROVE  /\ f[r].dead = (rec[r].dead /\ r \notin ElemsOf(m.losers))
           /\ f[r].val = ValueAfterUnmerge(m, r)
           /\ f[r].set = rec[r].set \/ f[r].set = clock + 1
<1>a. PICK x, y, v, t, b, i, n :
         /\ x = rec[r] /\ y = f[r] /\ v = ValueAfterUnmerge(m, r)
         /\ t = IF r = m.survivor /\ v # x.val THEN clock + 1 ELSE x.set
         /\ b = (x.dead /\ r \notin ElemsOf(m.losers))
         /\ i = (IF r \in ElemsOf(m.losers) THEN None
                 ELSE IF r \in Chained(m) THEN LastMergeBefore(r, m) ELSE x.into)
         /\ n = IF r \in UnmergeTouched(m) THEN x.ver + 1 ELSE x.ver
    OBVIOUS
<1>1. y = Unmerged(x, v, t, b, i, n)
    BY <1>a DEF RecordsAfterUnmerge, Unmerged
<1>2. Row(x)
    BY <1>a DEF Rows
<1>3. y.dead = b /\ y.val = v /\ y.set = t
    BY <1>1, <1>2, UnmergedFields
<1> QED BY <1>a, <1>3

\* An unmerge makes no record restorable: a loser is alive again, and the others keep their dates.
LEMMA UnmergeRestorable ==
    ASSUME GraphInv, NEW m, ElemsOf(m.losers) \subseteq Record, rec' = RecordsAfterUnmerge(m),
           NEW r \in Record, Restorable(r)'
    PROVE  Restorable(r)
<1>a. PICK f : f = rec'
    OBVIOUS
<1>1. /\ f[r].exists = rec[r].exists
      /\ f[r].into = IF r \in ElemsOf(m.losers) THEN None
                     ELSE IF r \in Chained(m) THEN LastMergeBefore(r, m) ELSE rec[r].into
    BY <1>a, RedirectsAfterUnmerge DEF GraphInv
<1>2. f[r].exists /\ f[r].dead /\ f[r].into = None
    BY <1>a DEF Restorable
<1>3. f[r].dead = (rec[r].dead /\ r \notin ElemsOf(m.losers))
    BY <1>a, UnmergedValues DEF GraphInv
<1>4. r \notin ElemsOf(m.losers) /\ rec[r].dead
    BY <1>2, <1>3
<1>5. r \notin Chained(m)
    <2>1. ASSUME r \in Chained(m) PROVE FALSE
        <3>1. LastMergeBefore(r, m) \in Record
            BY <2>1 DEF Chained
        <3>2. f[r].into = LastMergeBefore(r, m)
            BY <1>1, <1>4, <2>1
        <3> QED BY <1>2, <3>1, <3>2, GraphAssumption DEF GraphAssumption
    <2> QED BY <2>1
<1> QED BY <1>1, <1>2, <1>4, <1>5 DEF Restorable

\* An undone merge remembers what it did.
LEMMA StillRemembered ==
    ASSUME MergesNamed, NEW i \in DOMAIN merges, NEW ms, ms = [merges EXCEPT ![i].undone = TRUE]
    PROVE  /\ DOMAIN ms = DOMAIN merges
           /\ \A j \in DOMAIN ms : /\ ms[j].at = merges[j].at /\ ms[j].ended = merges[j].ended
                                   /\ ms[j].repointed = merges[j].repointed /\ ms[j].world = merges[j].world
                                   /\ ms[j].losers = merges[j].losers /\ ms[j].loserKey = merges[j].loserKey
                                   /\ ms[j].loserVal = merges[j].loserVal
                                   /\ j # i => ms[j] = merges[j]
<1>1. PICK V : merges \in Seq(SnapIn(V))
    BY DEF MergesNamed
<1>a. PICK x, y : x = merges[i] /\ y = [x EXCEPT !.undone = TRUE]
    OBVIOUS
<1>2. x \in SnapIn(V)
    BY <1>1, <1>a
<1>3. /\ y.at = x.at /\ y.ended = x.ended /\ y.repointed = x.repointed /\ y.world = x.world
      /\ y.losers = x.losers /\ y.loserKey = x.loserKey /\ y.loserVal = x.loserVal
    BY <1>2, <1>a DEF SnapIn
<1>4. ms = [merges EXCEPT ![i] = y]
    BY <1>a
<1>5. DOMAIN ms = DOMAIN merges
    BY <1>1, <1>4
<1>6. ASSUME NEW j \in DOMAIN ms
      PROVE  /\ ms[j].at = merges[j].at /\ ms[j].ended = merges[j].ended
             /\ ms[j].repointed = merges[j].repointed /\ ms[j].world = merges[j].world
             /\ ms[j].losers = merges[j].losers /\ ms[j].loserKey = merges[j].loserKey
             /\ ms[j].loserVal = merges[j].loserVal
             /\ j # i => ms[j] = merges[j]
    <2>1. CASE j = i
        <3>1. ms[j] = y
            BY <1>1, <1>4, <2>1
        <3> QED BY <1>3, <1>a, <2>1, <3>1
    <2>2. CASE j # i
        <3>1. ms[j] = merges[j]
            BY <1>1, <1>4, <2>2, <1>5
        <3> QED BY <3>1
    <2> QED BY <2>1, <2>2
<1> QED BY <1>5, <1>6

LEMMA SameMemory ==
    ASSUME NEW m, NEW k, k.at = m.at, k.ended = m.ended, k.repointed = m.repointed, k.world = m.world,
           NEW rows, NEW now, Remembers(m, rows, now)
    PROVE  Remembers(k, rows, now)
<1>1. Restoring(k) = Restoring(m)
    BY DEF Restoring
<1> QED BY <1>1 DEF Remembers

LEMMA UnmergingStep ==
    ASSUME LinkInv, NEW i \in DOMAIN merges, Unmerge(i)
    PROVE  LinkInv'
<1>a. PICK now, m, g, held2, ms : now = clock + 1 /\ m = merges[i] /\ g = link' /\ held2 = Held' /\ ms = merges'
    OBVIOUS
<1>1. /\ Tick /\ UNCHANGED deletion /\ ~Conflicting(m)
      /\ IndexesHold(LinksAfterUnmerge(m)) /\ g = LinksAfterUnmerge(m)
      /\ rec' = RecordsAfterUnmerge(m) /\ ms = [merges EXCEPT ![i].undone = TRUE]
    BY <1>a DEF Unmerge
<1>2. clock' = now /\ now \in Nat /\ clock \in Nat
    BY <1>1, <1>a DEF Tick, LinkInv
<1>3. /\ LinkRows(link) /\ Whole(link) /\ Kept(link, Held) /\ GraphInv /\ Remembers(m, link, clock)
      /\ AllRemember(merges, link, clock) /\ HeldOnce(merges, link, Held)
    BY <1>a DEF LinkInv, AllRemember
<1>4. \A l \in Restoring(m) : ~ChangedSince(m, l) /\ ~PlaceTaken(m, l)
    BY <1>1 DEF Conflicting
<1>5. /\ LinkRows(g) /\ DOMAIN g = LinkIds /\ RowsStep(link, g, clock + 1)
      /\ \A l \in LinkIds :
            /\ l \in Restoring(m) => SameEnds(g[l], m.world.link[l]) /\ g[l].state = "active"
            /\ l \notin Restoring(m) => /\ g[l].state = link[l].state
                                        /\ g[l].from = link[l].from /\ g[l].to = link[l].to
                                        /\ g[l].pos # None => link[l].pos # None
    BY <1>1, <1>2, <1>3, <1>4, RowsAfterUnmerge
<1>6. Whole(g)
    <2>1. OneAtAnEnd(g)
        BY <1>1, <1>2, <1>3, <1>4, UnmergedApart
    <2>2. ASSUME NEW l \in DOMAIN g, g[l].pos # None PROVE g[l].rel \in Projected
        <3>1. l \in LinkIds /\ l \in DOMAIN link /\ g[l].rel = link[l].rel
            BY <1>5, <2>2 DEF RowsStep, RowStep, LinkIds
        <3>2. CASE l \in Restoring(m)
            <4>1. m.world.link[l].pos # None /\ m.world.link[l].rel = link[l].rel
                BY <1>3, <1>5, <2>2, <3>1, <3>2 DEF SameEnds, Remembers
            <4> QED BY <1>3, <3>1, <3>2, <4>1 DEF Remembers
        <3>3. CASE l \notin Restoring(m)
            BY <1>3, <1>5, <2>2, <3>1, <3>3 DEF Whole
        <3> QED BY <3>2, <3>3
    <2>3. IndexesHold(g)
        BY <1>1
    <2> QED BY <2>1, <2>2, <2>3, IndexedIsWhole
<1>7. \A r \in Record : held2[r] \subseteq Held[r]
    <2>1. ASSUME NEW r \in Record PROVE held2[r] = IF Restorable(r)' THEN deletion[r].links ELSE {}
        BY <1>1, <1>a DEF Held
    <2>2. ElemsOf(m.losers) \subseteq Record
        BY <1>3, <1>a DEF GraphInv, MergesNamed
    <2>3. ASSUME NEW r \in Record PROVE Restorable(r)' => Restorable(r)
        BY <1>1, <1>3, <2>2, UnmergeRestorable
    <2>4. ASSUME NEW r \in Record PROVE held2[r] \subseteq Held[r]
        BY <2>1, <2>3, HeldBy
    <2> QED BY <2>4
<1>8. ASSUME NEW r \in Record, NEW l \in Held[r] PROVE l \notin Restoring(m)
    <2>1. l \in DOMAIN link /\ link[l].state # "active"
        BY <1>3 DEF Kept
    <2>2. ASSUME l \in Restoring(m) PROVE FALSE
        <3>1. l \in m.ended /\ link[l].at <= m.at
            BY <1>3, <1>4, <2>1, <2>2, OriginalEnds
        <3>2. link[l].at > m.at
            BY <1>3, <1>a, <3>1 DEF HeldOnce
        <3>3. link[l].at \in Nat /\ m.at \in Nat
            BY <1>3, <2>1, RowsNumbered DEF LinkRow, Remembers
        <3> QED BY <3>1, <3>2, <3>3
    <2> QED BY <2>2
<1>9. Kept(g, held2)
    <2>1. ASSUME NEW r \in Record, NEW l \in held2[r] PROVE g[l].state # "active"
        <3>1. l \in Held[r] /\ l \notin Restoring(m)
            BY <1>7, <1>8
        <3>2. l \in LinkIds /\ link[l].state # "active"
            BY <1>3, <3>1 DEF Kept, LinkIds
        <3> QED BY <1>5, <3>1, <3>2
    <2> QED BY <1>3, <1>5, <1>7, <2>1, KeptOn
<1>10. /\ DOMAIN ms = DOMAIN merges
       /\ \A j \in DOMAIN ms : /\ ms[j].at = merges[j].at /\ ms[j].ended = merges[j].ended
                               /\ ms[j].repointed = merges[j].repointed /\ ms[j].world = merges[j].world
    BY <1>1, <1>3, StillRemembered DEF GraphInv
<1>11. AllRemember(ms, g, now)
    <2>1. AllRemember(merges, g, now)
        BY <1>2, <1>3, <1>a, <1>5, AllRememberOn
    <2>2. ASSUME NEW j \in DOMAIN ms PROVE Remembers(ms[j], g, now)
        <3>1. Remembers(merges[j], g, now)
            BY <1>10, <2>1 DEF AllRemember
        <3> QED BY <1>10, <3>1, SameMemory
    <2> QED BY <2>2 DEF AllRemember
<1>12. HeldOnce(ms, g, held2)
    <2>1. HeldOnce(merges, g, held2)
        BY <1>2, <1>3, <1>5, <1>7, HeldOnceOn
    <2> QED BY <1>10, <2>1 DEF HeldOnce
<1>13. GraphInv'
    BY UnmergeStep DEF LinkInv
<1> QED BY <1>2, <1>5, <1>6, <1>9, <1>11, <1>12, <1>13, <1>a DEF LinkInv

-----------------------------------------------------------------------------

LEMMA InitLinks == Init => LinkInv
<1> SUFFICES ASSUME Init PROVE LinkInv
    OBVIOUS
<1>1. PICK w \in InitialWorlds :
         /\ rec = [r \in Record |-> [exists |-> TRUE, dead |-> FALSE, into |-> None,
                                     val |-> w.val[r], set |-> 0, ver |-> 1]]
         /\ link = w.link
    BY DEF Init
<1>2. /\ link \in Seq([rel : Rel, from : Record, to : Record, pos : Nat \cup {-1, None}, state : {"active"}, at : {0}])
      /\ \A l \in DOMAIN link : link[l].pos # None => link[l].rel \in Projected
      /\ IndexesHold(link) /\ OneAtAnEnd(link)
    BY <1>1, WorldAssumption
<1>3. LinkRows(link)
    <2>1. ASSUME NEW l \in DOMAIN link PROVE LinkRow(link[l])
        <3>a. PICK S : S = [rel : Rel, from : Record, to : Record, pos : Nat \cup {-1, None}, state : {"active"}, at : {0}]
            OBVIOUS
        <3>b. link \in Seq(S)
            BY <1>2, <3>a
        <3>c. link[l] \in S
            BY <3>b
        <3>1. link[l] \in [rel : Rel, from : Record, to : Record, pos : Nat \cup {-1, None}, state : {"active"}, at : {0}]
            BY <3>a, <3>c
        <3> QED BY <3>1 DEF LinkRow
    <2> QED BY <1>2, <2>1 DEF LinkRows
<1>4. Whole(link)
    BY <1>2, IndexedIsWhole
<1>5. Kept(link, Held)
    <2>1. ASSUME NEW r \in Record PROVE Held[r] = {}
        <3>1. ~Restorable(r)
            BY <1>1 DEF Restorable
        <3> QED BY <3>1, HeldBy
    <2> QED BY <2>1 DEF Kept
<1>6. merges = <<>> /\ clock = 0
    BY DEF Init
<1>7. AllRemember(merges, link, clock) /\ HeldOnce(merges, link, Held) /\ clock \in Nat
    BY <1>6 DEF AllRemember, HeldOnce
<1> QED BY <1>3, <1>4, <1>5, <1>7, InitFlat DEF LinkInv

LEMMA LinkInvStep == LinkInv /\ [Next]_vars => LinkInv'
<1> SUFFICES ASSUME LinkInv, [Next]_vars PROVE LinkInv'
    OBVIOUS
<1>1. CASE Next
    <2>1. ASSUME GraphNext, UNCHANGED merges PROVE LinkInv'
        BY <2>1, GraphLinks
    <2>2. ASSUME NEW s \in Record, NEW losers \in Losers, NEW choice \in Record \cup {None},
                 Merge(s, losers, choice)
          PROVE  LinkInv'
        BY <2>2, MergingStep
    <2>3. ASSUME NEW i \in DOMAIN merges, Unmerge(i) PROVE LinkInv'
        BY <2>3, UnmergingStep
    <2> QED BY <1>1, <2>1, <2>2, <2>3 DEF Next
<1>2. CASE UNCHANGED vars
    <2>1. UNCHANGED <<rec, link, deletion, clock, merges>>
        BY <1>2 DEF vars
    <2>2. GraphInv'
        BY <1>2, GraphInvStep DEF LinkInv
    <2>3. Held' = Held
        BY <2>1 DEF Held, Restorable
    <2>4. LinkRows(link)' /\ Whole(link)' /\ Kept(link, Held)' /\ AllRemember(merges, link, clock)' /\ HeldOnce(merges, link, Held)'
        BY <2>1, <2>3 DEF LinkInv
    <2> QED BY <2>1, <2>2, <2>4 DEF LinkInv
<1> QED BY <1>1, <1>2

\* Whatever is linked, projected, merged, unmerged, deleted, restored and purged, in whatever order, a
\* record never has two active links where the relation allows one, two to one record, or two at one
\* position (crm_link's conflicts, endCardinalityConflicts in merge/links.ts, linkConflict in
\* merge/unmerge-links.ts, the conflicts of a restoration in links/projection-lifecycle.ts).
THEOREM CardinalityStays == Spec => []CardinalityHolds
<1>1. LinkInv => CardinalityHolds
    BY WholeIsCardinality DEF LinkInv
<1> QED BY InitLinks, LinkInvStep, <1>1, PTL DEF Spec

-----------------------------------------------------------------------------
(* What an unmerge gives back                                              *)

Gone(m) == {m.survivor} \cup ElemsOf(m.losers)

\* A key leads to a record that carries its value.
KeysCarried(f, k) ==
    /\ k = [v \in Value |-> k[v]]
    /\ \A v \in Value : k[v] \in Record \cup {None} /\ (k[v] # None => f[k[v]].val = v)

\* Every value was written by a committed operation.
SetBefore(f, now) == \A r \in Record : f[r].set \in Nat /\ f[r].set <= now

\* The keys in the snapshot of a loser are those of its value there, and no record is merged twice at once.
NamesKeys(m) ==
    /\ \A i, j \in DOMAIN m.losers : m.losers[i] = m.losers[j] => i = j
    /\ \A i \in DOMAIN m.losers, v \in Value : v \in m.loserKey[i] => m.loserVal[i] = v

\* How records, keys, list entries and links stand right after a merge to what it found.
ValuesAtOnce(m, f) ==
    /\ m.before = m.world.rec[m.survivor].val /\ m.survivor \notin ElemsOf(m.losers)
    /\ \A i \in DOMAIN m.losers : m.loserVal[i] = m.world.rec[m.losers[i]].val
    /\ \A r \in Record :
          /\ r \notin Gone(m) => f[r].val = m.world.rec[r].val
          /\ r \in ElemsOf(m.losers) => ~m.world.rec[r].dead /\ m.world.rec[r].dead \in BOOLEAN
          /\ r \notin ElemsOf(m.losers) => f[r].dead = m.world.rec[r].dead

KeysAtOnce(m, k) ==
    \A v \in Value :
        /\ \A i \in DOMAIN m.losers : v \in m.loserKey[i] <=> m.world.key[v] = m.losers[i]
        /\ m.world.key[v] = m.survivor => m.before = v
        /\ k[v] \in Gone(m) => m.world.key[v] \in {None} \cup Gone(m)
        /\ k[v] \notin Gone(m) => k[v] = m.world.key[v] \/ (k[v] = None /\ m.world.key[v] \in Gone(m))

EntriesAtOnce(m, e) ==
    /\ m.world.listed = [r \in Record |-> m.world.listed[r]]
    /\ m.moved = None => e = m.world.listed
    /\ m.moved # None => /\ m.moved \in Record /\ m.moved # m.survivor
                         /\ m.world.listed[m.survivor] = 0 /\ e[m.survivor] = m.world.listed[m.moved]
                         /\ \A r \in Record \ {m.survivor, m.moved} : e[r] = m.world.listed[r]

LinksAtOnce(m, g) ==
    \A l \in DOMAIN g :
        /\ l \in Restoring(m) => m.world.link[l].state = "active"
        /\ l \notin Restoring(m) => /\ g[l].state = m.world.link[l].state
                                    /\ g[l].from = m.world.link[l].from /\ g[l].to = m.world.link[l].to

AtOnce(m, f, k, e, g) == ValuesAtOnce(m, f) /\ KeysAtOnce(m, k) /\ EntriesAtOnce(m, e) /\ LinksAtOnce(m, g)

UndoInv ==
    /\ LinkInv
    /\ listed \in [Record -> Nat]
    /\ KeysCarried(rec, key) /\ SetBefore(rec, clock)
    /\ \A i \in DOMAIN merges : NamesKeys(merges[i])
    /\ \A i \in DOMAIN merges : merges[i].at = clock => AtOnce(merges[i], rec, key, listed, link)

-----------------------------------------------------------------------------
(* Values, keys and entries in the steps of the graph                      *)

\* A step that writes no value.
SameValues(f, g) == \A r \in Record : g[r].val = f[r].val /\ g[r].set = f[r].set

LEMMA RowFields ==
    ASSUME NEW x, Row(x), NEW y, NEW n
    PROVE  /\ y = [x EXCEPT !.ver = n] => y.val = x.val /\ y.set = x.set
           /\ y = [x EXCEPT !.dead = n] => y.val = x.val /\ y.set = x.set
           /\ y = [x EXCEPT !.exists = n] => y.val = x.val /\ y.set = x.set
<1>1. PICK V : x \in RowIn(V)
    BY DEF Row
<1> QED BY <1>1 DEF RowIn

LEMMA BumpedValues ==
    ASSUME NEW f, \A r \in Record : Row(f[r]), NEW R
    PROVE  SameValues(f, Bumped(f, R))
<1> SUFFICES ASSUME NEW r \in Record PROVE Bumped(f, R)[r].val = f[r].val /\ Bumped(f, R)[r].set = f[r].set
    BY DEF SameValues
<1>a. PICK x, y, n : x = f[r] /\ y = Bumped(f, R)[r] /\ n = f[r].ver + 1
    OBVIOUS
<1>1. CASE r \in R
    <2>1. y = [x EXCEPT !.ver = n] /\ Row(x)
        BY <1>1, <1>a DEF Bumped
    <2>2. y.val = x.val /\ y.set = x.set
        BY <2>1, RowFields
    <2> QED BY <1>a, <2>2
<1>2. CASE r \notin R
    <2>1. Bumped(f, R)[r] = f[r]
        BY <1>2 DEF Bumped
    <2> QED BY <2>1
<1> QED BY <1>1, <1>2

LEMMA DatedValues ==
    ASSUME Rows(rec), NEW D, NEW b \in BOOLEAN, NEW R, NEW g,
           g = Bumped([q \in Record |-> IF q \in D THEN [rec[q] EXCEPT !.dead = b] ELSE rec[q]], R)
    PROVE  SameValues(rec, g)
<1>a. PICK f : f = [q \in Record |-> IF q \in D THEN [rec[q] EXCEPT !.dead = b] ELSE rec[q]]
    OBVIOUS
<1>1. ASSUME NEW r \in Record PROVE Row(f[r]) /\ f[r].val = rec[r].val /\ f[r].set = rec[r].set
    <2>a. PICK x, y : x = rec[r] /\ y = f[r]
        OBVIOUS
    <2>1. Row(x)
        BY <2>a DEF Rows
    <2>2. CASE r \in D
        <3>1. y = [x EXCEPT !.dead = b]
            BY <1>a, <2>2, <2>a
        <3>2. Row(y) /\ y.val = x.val /\ y.set = x.set
            BY <2>1, <3>1, DatedRow, RowFields
        <3> QED BY <2>a, <3>2
    <2>3. CASE r \notin D
        <3>1. f[r] = rec[r]
            BY <1>a, <2>3
        <3> QED BY <2>1, <2>a, <3>1
    <2> QED BY <2>2, <2>3
<1>2. g = Bumped(f, R)
    BY <1>a
<1>3. SameValues(f, g)
    BY <1>1, <1>2, BumpedValues
<1> QED BY <1>1, <1>3 DEF SameValues

\* Keys that stay or go lead where they led.
LEMMA KeysCarriedOn ==
    ASSUME NEW f, NEW g, NEW k, NEW n, KeysCarried(f, k), SameValues(f, g), n = [v \in Value |-> n[v]],
           \A v \in Value : n[v] = k[v] \/ n[v] = None
    PROVE  KeysCarried(g, n)
BY DEF KeysCarried, SameValues

LEMMA SetBeforeOn ==
    ASSUME NEW f, NEW g, NEW now \in Nat, SetBefore(f, now), SameValues(f, g)
    PROVE  SetBefore(g, now + 1)
BY DEF SetBefore, SameValues

\* A step of the graph leaves the merges behind it.
LEMMA UndoInvOn ==
    ASSUME UndoInv, LinkInv', clock' = clock + 1, UNCHANGED merges, listed' \in [Record -> Nat],
           KeysCarried(rec', key'), SetBefore(rec', clock')
    PROVE  UndoInv'
<1>1. \A i \in DOMAIN merges : merges[i].at \in Nat /\ merges[i].at <= clock /\ clock \in Nat
    BY DEF UndoInv, LinkInv, AllRemember, Remembers
<1>2. \A i \in DOMAIN merges : merges[i].at # clock'
    BY <1>1
<1> QED BY <1>2 DEF UndoInv

\* ... and a step that writes no value and gives no key keeps the rest.
LEMMA ValuesKept ==
    ASSUME UndoInv, LinkInv', clock' = clock + 1, UNCHANGED merges, listed' \in [Record -> Nat],
           NEW g, g = rec', SameValues(rec, g), NEW n, n = key', n = [v \in Value |-> n[v]],
           \A v \in Value : n[v] = key[v] \/ n[v] = None
    PROVE  UndoInv'
<1>1. KeysCarried(g, n)
    BY KeysCarriedOn DEF UndoInv
<1>2. SetBefore(g, clock + 1)
    BY SetBeforeOn DEF UndoInv, LinkInv
<1> QED BY <1>1, <1>2, UndoInvOn

LEMMA UndoOnLinks ==
    ASSUME UndoInv, UNCHANGED merges, LinkInv', NEW rel, NEW f, NEW t, NEW targets,
           LinkRecords(rel, f, t) \/ UnlinkRecords(rel, f, t) \/ Project(f, rel, targets)
    PROVE  UndoInv'
<1>1. \E R : rec' = Bumped(rec, R)
    <2>1. ASSUME LinkRecords(rel, f, t) PROVE \E R : rec' = Bumped(rec, R)
        <3>1. rec' = Bumped(rec, {f, t} \cup Ends(Conflicts(rel, f, t)))
            BY <2>1 DEF LinkRecords
        <3> QED BY <3>1
    <2>2. ASSUME UnlinkRecords(rel, f, t) PROVE \E R : rec' = Bumped(rec, R)
        <3>1. rec' = Bumped(rec, {f, t})
            BY <2>2 DEF UnlinkRecords
        <3> QED BY <3>1
    <2>3. ASSUME Project(f, rel, targets) PROVE \E R : rec' = Bumped(rec, R)
        BY <2>3 DEF Project
    <2> QED BY <2>1, <2>2, <2>3
<1>2. key' = key /\ listed' = listed /\ clock' = clock + 1
    BY DEF LinkRecords, UnlinkRecords, Project, Tick
<1>a. PICK R, g, n : rec' = Bumped(rec, R) /\ g = rec' /\ n = key'
    BY <1>1
<1>3. SameValues(rec, g)
    <2>1. \A r \in Record : Row(rec[r])
        BY DEF UndoInv, LinkInv, GraphInv, Rows
    <2> QED BY <1>a, <2>1, BumpedValues
<1>4. n = [v \in Value |-> n[v]] /\ \A v \in Value : n[v] = key[v] \/ n[v] = None
    BY <1>2, <1>a DEF UndoInv, KeysCarried
<1>5. listed' \in [Record -> Nat]
    BY <1>2 DEF UndoInv
<1> QED BY <1>2, <1>a, <1>3, <1>4, <1>5, ValuesKept

LEMMA UndoOnLists ==
    ASSUME UndoInv, UNCHANGED merges, LinkInv', NEW r \in Record, AddListEntry(r) \/ RemoveListEntry(r)
    PROVE  UndoInv'
<1>1. key' = key /\ rec' = rec /\ clock' = clock + 1
    BY DEF AddListEntry, RemoveListEntry, Tick
<1>2. listed' \in [Record -> Nat]
    <2>1. PICK n \in Nat : listed' = [listed EXCEPT ![r] = n]
        BY DEF AddListEntry, RemoveListEntry, UndoInv, LinkInv
    <2> QED BY <2>1 DEF UndoInv
<1>a. PICK g, n : g = rec' /\ n = key'
    OBVIOUS
<1>3. SameValues(rec, g)
    BY <1>1, <1>a DEF SameValues
<1>4. n = [v \in Value |-> n[v]] /\ \A v \in Value : n[v] = key[v] \/ n[v] = None
    BY <1>1, <1>a DEF UndoInv, KeysCarried
<1> QED BY <1>1, <1>2, <1>a, <1>3, <1>4, ValuesKept

LEMMA UndoOnPurge ==
    ASSUME UndoInv, UNCHANGED merges, LinkInv', NEW r \in Record, Purge(r)
    PROVE  UndoInv'
<1>1. /\ clock' = clock + 1
      /\ rec' = [rec EXCEPT ![r].exists = FALSE]
      /\ key' = [v \in Value |-> IF key[v] = r THEN None ELSE key[v]]
      /\ listed' = [listed EXCEPT ![r] = 0]
    BY DEF Purge, Tick
<1>2. listed' \in [Record -> Nat]
    BY <1>1 DEF UndoInv
<1>a. PICK g, n : g = rec' /\ n = key'
    OBVIOUS
<1>b. rec = [q \in Record |-> rec[q]] /\ \A q \in Record : Row(rec[q])
    BY DEF UndoInv, LinkInv, GraphInv, Rows
<1>3. SameValues(rec, g)
    <2>1. ASSUME NEW q \in Record PROVE g[q].val = rec[q].val /\ g[q].set = rec[q].set
        <3>1. CASE q = r
            <4>a. PICK x, y, b : x = rec[r] /\ y = g[r] /\ b = FALSE
                OBVIOUS
            <4>1. y = [x EXCEPT !.exists = b] /\ Row(x)
                BY <1>1, <1>a, <1>b, <4>a
            <4>2. y.val = x.val /\ y.set = x.set
                BY <4>1, RowFields
            <4> QED BY <3>1, <4>a, <4>2
        <3>2. CASE q # r
            <4>1. g[q] = rec[q]
                BY <1>1, <1>a, <1>b, <3>2
            <4> QED BY <4>1
        <3> QED BY <3>1, <3>2
    <2> QED BY <2>1 DEF SameValues
<1>4. n = [v \in Value |-> n[v]] /\ \A v \in Value : n[v] = key[v] \/ n[v] = None
    BY <1>1, <1>a
<1> QED BY <1>1, <1>2, <1>a, <1>3, <1>4, ValuesKept

LEMMA UndoOnDelete ==
    ASSUME UndoInv, UNCHANGED merges, LinkInv', NEW r \in Record, DeleteRecord(r)
    PROVE  UndoInv'
<1>a. PICK down, L, external, D, R, g, n :
         /\ down = Cascaded(r) /\ L = Touching(down \cup {r}) /\ external = Ends(L) \ (down \cup {r})
         /\ D = down \cup {r} /\ R = D \cup external /\ g = rec' /\ n = key'
    OBVIOUS
<1>1. g = Bumped([q \in Record |-> IF q \in D THEN [rec[q] EXCEPT !.dead = TRUE] ELSE rec[q]], R)
    BY <1>a DEF DeleteRecord
<1>2. clock' = clock + 1 /\ listed' = listed /\ n = [v \in Value |-> IF key[v] = r THEN None ELSE key[v]]
    BY <1>a DEF DeleteRecord, Tick
<1>3. SameValues(rec, g)
    BY <1>1, DatedValues DEF UndoInv, LinkInv, GraphInv
<1>4. n = [v \in Value |-> n[v]] /\ \A v \in Value : n[v] = key[v] \/ n[v] = None
    BY <1>2
<1>5. listed' \in [Record -> Nat]
    BY <1>2 DEF UndoInv
<1> QED BY <1>2, <1>a, <1>3, <1>4, <1>5, ValuesKept

LEMMA UndoOnRestore ==
    ASSUME UndoInv, UNCHANGED merges, LinkInv', NEW r \in Record, RestoreRecord(r)
    PROVE  UndoInv'
<1>a. PICK L, down, external, D, R, g, n :
         /\ L = deletion[r].links /\ down = deletion[r].cascaded /\ external = Ends(L) \ (down \cup {r})
         /\ D = down \cup {r} /\ R = D \cup external /\ g = rec' /\ n = key'
    OBVIOUS
<1>1. g = Bumped([q \in Record |-> IF q \in D THEN [rec[q] EXCEPT !.dead = FALSE] ELSE rec[q]], R)
    BY <1>a DEF RestoreRecord
<1>2. clock' = clock + 1 /\ listed' = listed
    BY DEF RestoreRecord, Tick
<1>3. n = IF rec[r].val = None THEN key ELSE [key EXCEPT ![rec[r].val] = r]
    BY <1>a DEF RestoreRecord
<1>4. SameValues(rec, g)
    BY <1>1, DatedValues DEF UndoInv, LinkInv, GraphInv
<1>5. KeysCarried(g, n)
    <2>1. KeysCarried(rec, key)
        BY DEF UndoInv
    <2>2. n = [v \in Value |-> n[v]]
        BY <1>3, <2>1 DEF KeysCarried
    <2>3. ASSUME NEW v \in Value PROVE n[v] \in Record \cup {None} /\ (n[v] # None => rec[n[v]].val = v)
        <3>1. n[v] = key[v] \/ (n[v] = r /\ rec[r].val = v)
            BY <1>3, <2>1 DEF KeysCarried
        <3> QED BY <2>1, <3>1 DEF KeysCarried
    <2> QED BY <1>4, <2>2, <2>3 DEF KeysCarried, SameValues
<1>6. SetBefore(g, clock + 1)
    BY <1>4, SetBeforeOn DEF UndoInv, LinkInv
<1>7. listed' \in [Record -> Nat]
    BY <1>2 DEF UndoInv
<1> QED BY <1>2, <1>a, <1>5, <1>6, <1>7, UndoInvOn

LEMMA UndoOnValue ==
    ASSUME UndoInv, UNCHANGED merges, LinkInv', NEW r \in Record, NEW v, SetValue(r, v)
    PROVE  UndoInv'
<1>a. PICK now, f, g, n : now = clock + 1 /\ f = [rec EXCEPT ![r].val = v, ![r].set = now] /\ g = rec' /\ n = key'
    OBVIOUS
<1>1. g = Bumped(f, {r}) /\ listed' = listed /\ clock' = clock + 1
    BY <1>a DEF SetValue, Tick
<1>2. n = [w \in Value |-> IF w = v THEN r ELSE IF key[w] = r THEN None ELSE key[w]]
    BY <1>a DEF SetValue
<1>3. \A q \in Record : Row(rec[q]) /\ rec = [p \in Record |-> rec[p]]
    BY DEF UndoInv, LinkInv, GraphInv, Rows
<1>4. ASSUME NEW q \in Record
      PROVE  /\ Row(f[q])
             /\ q = r => f[q].val = v /\ f[q].set = now
             /\ q # r => f[q].val = rec[q].val /\ f[q].set = rec[q].set
    <2>1. CASE q = r
        <3>a. PICK x, y : x = rec[r] /\ y = f[r]
            OBVIOUS
        <3>1. Row(x) /\ y = Valued(x, v, now)
            BY <1>3, <1>a, <3>a DEF Valued
        <3>2. Row(y)
            BY <3>1, ValueKeepsDates
        <3>3. y.val = v /\ y.set = now
            <4>1. PICK V : x \in RowIn(V)
                BY <3>1 DEF Row
            <4> QED BY <3>1, <4>1 DEF RowIn, Valued
        <3> QED BY <2>1, <3>a, <3>2, <3>3
    <2>2. CASE q # r
        <3>1. f[q] = rec[q]
            BY <1>3, <1>a, <2>2
        <3> QED BY <1>3, <2>2, <3>1
    <2> QED BY <2>1, <2>2
<1>5. SameValues(f, g)
    BY <1>1, <1>4, BumpedValues
<1>6. KeysCarried(g, n)
    <2>1. n = [w \in Value |-> n[w]]
        BY <1>2
    <2>2. ASSUME NEW w \in Value PROVE n[w] \in Record \cup {None} /\ (n[w] # None => g[n[w]].val = w)
        <3>1. key[w] \in Record \cup {None} /\ (key[w] # None => rec[key[w]].val = w)
            BY DEF UndoInv, KeysCarried
        <3>2. CASE w = v
            BY <1>2, <1>4, <1>5, <3>2 DEF SameValues
        <3>3. CASE w # v /\ (key[w] = r \/ key[w] = None)
            BY <1>2, <3>3
        <3>4. CASE w # v /\ key[w] # r /\ key[w] # None
            <4>1. n[w] = key[w] /\ key[w] \in Record
                BY <1>2, <3>1, <3>4
            <4> QED BY <1>4, <1>5, <3>1, <3>4, <4>1 DEF SameValues
        <3> QED BY <3>2, <3>3, <3>4
    <2> QED BY <2>1, <2>2 DEF KeysCarried
<1>7. SetBefore(g, clock + 1)
    <2>1. clock \in Nat /\ SetBefore(rec, clock)
        BY DEF UndoInv, LinkInv
    <2>2. ASSUME NEW q \in Record PROVE g[q].set \in Nat /\ g[q].set <= clock + 1
        <3>1. g[q].set = now \/ g[q].set = rec[q].set
            BY <1>4, <1>5 DEF SameValues
        <3>2. rec[q].set \in Nat /\ rec[q].set <= clock
            BY <2>1 DEF SetBefore
        <3> QED BY <1>a, <2>1, <3>1, <3>2
    <2> QED BY <2>2 DEF SetBefore
<1>8. listed' \in [Record -> Nat]
    BY <1>1 DEF UndoInv
<1> QED BY <1>1, <1>a, <1>6, <1>7, <1>8, UndoInvOn

LEMMA UndoOnGraph ==
    ASSUME UndoInv, GraphNext, UNCHANGED merges
    PROVE  UndoInv'
<1>1. LinkInv'
    BY GraphLinks DEF UndoInv
<1> QED BY <1>1, UndoOnLinks, UndoOnLists, UndoOnPurge, UndoOnDelete, UndoOnRestore, UndoOnValue DEF GraphNext

-----------------------------------------------------------------------------
(* Values, keys and entries in a merge                                     *)

LEMMA MergedFields ==
    ASSUME NEW x, Row(x), NEW y, NEW s, NEW v, NEW n, NEW t
    PROVE  /\ y = AsSurvivor(x, v, n, t) => y.val = v /\ y.set = t /\ y.dead = x.dead
           /\ y = AsLoser(x, s, n) => y.val = x.val /\ y.set = x.set
           /\ y = Redirected(x, s) => y.val = x.val /\ y.set = x.set /\ y.dead = x.dead
<1>1. PICK V : x \in RowIn(V)
    BY DEF Row
<1> QED BY <1>1 DEF RowIn, AsSurvivor, AsLoser, Redirected

\* Only the survivor of a merge gets a value, and only the losers are deleted.
LEMMA ValuesAfterMerge ==
    ASSUME Rows(rec), NEW s \in Record, NEW losers, s \notin ElemsOf(losers), NEW v, NEW plan, NEW f,
           f = RecordsAfterMerge(s, losers, v, plan), NEW r \in Record
    PROVE  /\ r = s => f[r].val = v /\ (f[r].set = rec[r].set \/ f[r].set = clock + 1)
           /\ r # s => f[r].val = rec[r].val /\ f[r].set = rec[r].set
           /\ r \notin ElemsOf(losers) => f[r].dead = rec[r].dead
<1>a. PICK gone, linked : gone = ElemsOf(losers) /\ linked = Bumped(rec, LinkTouched(plan, s, losers))
    OBVIOUS
<1>b. PICK x, n, t, y : x = linked[r] /\ n = linked[r].ver + 1 /\ y = f[r]
                        /\ t = IF v # rec[s].val THEN clock + 1 ELSE linked[r].set
    OBVIOUS
<1>1. \A q \in Record : Row(rec[q])
    BY DEF Rows
<1>2. Row(x) /\ x.val = rec[r].val /\ x.set = rec[r].set /\ x.dead = rec[r].dead
    <2>1. SameValues(rec, linked) /\ Rows(linked)
        BY <1>1, <1>a, BumpedValues, BumpedRows
    <2>2. linked[r].dead = rec[r].dead
        BY <1>1, <1>a, BumpedStays
    <2> QED BY <1>b, <2>1, <2>2 DEF SameValues, Rows
<1>3. CASE r = s
    <2>1. y = AsSurvivor(x, v, n, t)
        BY <1>3, <1>a, <1>b DEF RecordsAfterMerge, AsSurvivor
    <2>2. y.val = v /\ y.set = t /\ y.dead = x.dead
        BY <1>2, <2>1, MergedFields
    <2> QED BY <1>2, <1>3, <1>b, <2>2
<1>4. CASE r # s /\ r \in gone
    <2>1. y = AsLoser(x, s, n)
        BY <1>4, <1>a, <1>b DEF RecordsAfterMerge, AsLoser
    <2>2. y.val = x.val /\ y.set = x.set
        BY <1>2, <2>1, MergedFields
    <2> QED BY <1>2, <1>4, <1>a, <1>b, <2>2
<1>5. CASE r # s /\ r \notin gone /\ rec[r].into \in gone
    <2>1. y = Redirected(x, s)
        BY <1>5, <1>a, <1>b DEF RecordsAfterMerge, Redirected
    <2>2. y.val = x.val /\ y.set = x.set /\ y.dead = x.dead
        BY <1>2, <2>1, MergedFields
    <2> QED BY <1>2, <1>5, <1>b, <2>2
<1>6. CASE r # s /\ r \notin gone /\ rec[r].into \notin gone
    <2>1. y = x
        BY <1>6, <1>a, <1>b DEF RecordsAfterMerge
    <2> QED BY <1>2, <1>6, <1>b, <2>1
<1> QED BY <1>3, <1>4, <1>5, <1>6

LEMMA LosersDiffer ==
    ASSUME NEW losers \in Losers
    PROVE  /\ \A i, j \in DOMAIN losers : losers[i] = losers[j] => i = j
           /\ \A i \in DOMAIN losers : losers[i] \in Record /\ i \in Nat
           /\ ElemsOf(losers) \subseteq Record
<1>1. PICK n \in 1..MaxLosers : losers \in [1..n -> Record]
    BY DEF Losers
<1>2. \A i, j \in DOMAIN losers : i < j => losers[i] < losers[j]
    BY DEF Losers
<1>3. ASSUME NEW i \in DOMAIN losers PROVE i \in Int /\ losers[i] \in Record /\ losers[i] \in Nat /\ i \in Nat
    <2>1. i \in 1..n /\ losers[i] \in Record
        BY <1>1
    <2>2. i \in Nat
        BY <2>1
    <2>3. losers[i] \in Nat
        BY <2>1, GraphAssumption DEF GraphAssumption
    <2> QED BY <2>1, <2>2, <2>3
<1>4. ASSUME NEW i \in DOMAIN losers, NEW j \in DOMAIN losers, losers[i] = losers[j] PROVE i = j
    <2>1. ~(i < j) /\ ~(j < i)
        BY <1>2, <1>3, <1>4
    <2> QED BY <1>3, <2>1
<1> QED BY <1>3, <1>4 DEF ElemsOf

LEMMA SmallestOf ==
    ASSUME NEW S, S \subseteq Nat, S # {}
    PROVE  \E x \in S : \A y \in S : x <= y
<1>1. PICK x \in S : \A y \in S : ~ (<<y, x>> \in OpToRel(<, Nat))
    BY NatLessThanWellFounded, WFMin
<1>2. \A y \in S : ~ (y < x)
    BY <1>1 DEF OpToRel
<1> QED BY <1>2

\* The entry that moves is the oldest of a loser, and the survivor had none.
LEMMA MovedEntry ==
    ASSUME listed \in [Record -> Nat], NEW s, NEW losers \in Losers, NEW q, q = EntryMoved(s, losers), q # None
    PROVE  q \in ElemsOf(losers) /\ listed[s] = 0
<1>a. PICK with, dates : with = {i \in DOMAIN losers : listed[losers[i]] # 0} /\ dates = {listed[losers[i]] : i \in with}
    OBVIOUS
<1>1. listed[s] = 0 /\ with # {}
    BY <1>a DEF EntryMoved
<1>2. with \subseteq Nat /\ with \subseteq DOMAIN losers /\ \A i \in with : listed[losers[i]] \in Nat
    BY <1>a, LosersDiffer
<1>3. PICK d \in dates : \A e \in dates : d <= e
    <2>1. dates \subseteq Nat /\ dates # {}
        BY <1>1, <1>2, <1>a
    <2> QED BY <2>1, SmallestOf
<1>b. PICK first : first = {i \in with : listed[losers[i]] = d}
    OBVIOUS
<1>4. PICK k \in first : \A j \in first : k <= j
    <2>1. first \subseteq Nat /\ first # {}
        BY <1>2, <1>a, <1>b
    <2> QED BY <2>1, SmallestOf
<1>5. \A j \in with : \/ listed[losers[k]] < listed[losers[j]]
                      \/ listed[losers[k]] = listed[losers[j]] /\ k <= j
    <2>1. ASSUME NEW j \in with PROVE d < listed[losers[j]] \/ (d = listed[losers[j]] /\ k <= j)
        <3>1. listed[losers[j]] \in dates /\ listed[losers[j]] \in Nat /\ d \in Nat
            BY <1>2, <1>a
        <3>2. d <= listed[losers[j]]
            BY <1>3, <3>1
        <3>3. CASE d = listed[losers[j]]
            BY <1>4, <1>b, <3>3
        <3> QED BY <3>1, <3>2, <3>3
    <2>2. listed[losers[k]] = d
        BY <1>b
    <2> QED BY <2>1, <2>2
<1>6. PICK i : i = CHOOSE n \in with :
                       \A j \in with : \/ listed[losers[n]] < listed[losers[j]]
                                       \/ listed[losers[n]] = listed[losers[j]] /\ n <= j
    OBVIOUS
<1>7. i \in with
    <2>1. k \in with
        BY <1>b
    <2> QED BY <1>5, <1>6, <2>1
<1>8. q = losers[i]
    BY <1>1, <1>6, <1>a DEF EntryMoved
<1> QED BY <1>1, <1>2, <1>7, <1>8 DEF ElemsOf

LEMMA MergeIsWhole ==
    ASSUME UndoInv, NEW s \in Record, NEW losers \in Losers, NEW choice, Merge(s, losers, choice),
           NEW m, m = MergeSnapshot(s, losers, LinkPlan(s, losers)), NEW f, f = rec', NEW k, k = key',
           NEW e, e = listed', NEW g, g = link'
    PROVE  NamesKeys(m) /\ AtOnce(m, f, k, e, g)
<1>a. PICK v, plan, moved : v = PlannedValue(s, losers, choice) /\ plan = LinkPlan(s, losers) /\ moved = EntryMoved(s, losers)
    OBVIOUS
<1>1. /\ s \notin ElemsOf(losers) /\ \A r \in {s} \cup ElemsOf(losers) : Live(r)
      /\ v # None => key[v] \in {None, s} \cup ElemsOf(losers)
      /\ f = RecordsAfterMerge(s, losers, v, plan) /\ g = LinksAfterMerge(plan, clock + 1)
      /\ e = IF moved = None THEN listed ELSE [listed EXCEPT ![s] = listed[moved], ![moved] = 0]
      /\ k = KeysAfterMerge(s, losers, v)
    BY <1>a DEF Merge, Mergeable
<1>2. /\ m.survivor = s /\ m.losers = losers /\ m.before = rec[s].val /\ m.moved = moved
      /\ m.loserVal = [i \in DOMAIN losers |-> rec[losers[i]].val]
      /\ m.loserKey = [i \in DOMAIN losers |-> {w \in Value : key[w] = losers[i]}]
      /\ m.world.rec = rec /\ m.world.key = key /\ m.world.link = link /\ m.world.listed = listed
    BY <1>a DEF MergeSnapshot
<1>3. /\ \A i, j \in DOMAIN losers : losers[i] = losers[j] => i = j
      /\ \A i \in DOMAIN losers : losers[i] \in Record
      /\ ElemsOf(losers) \subseteq Record /\ None \notin Record
    BY LosersDiffer, GraphAssumption DEF GraphAssumption
<1>4. Rows(rec) /\ LinkInv /\ KeysCarried(rec, key) /\ listed \in [Record -> Nat] /\ LinkRows(link) /\ clock \in Nat
    BY DEF UndoInv, LinkInv, GraphInv
<1>5. NamesKeys(m)
    <2>1. ASSUME NEW i \in DOMAIN losers, NEW w \in Value, key[w] = losers[i] PROVE rec[losers[i]].val = w
        BY <1>3, <1>4, <2>1 DEF KeysCarried
    <2> QED BY <1>2, <1>3, <2>1 DEF NamesKeys
<1>6. ValuesAtOnce(m, f)
    <2>1. ASSUME NEW r \in Record, r \notin Gone(m) PROVE f[r].val = rec[r].val
        BY <1>1, <1>2, <1>4, <2>1, ValuesAfterMerge DEF Gone
    <2>2. ASSUME NEW r \in Record, r \in ElemsOf(losers) PROVE ~rec[r].dead /\ rec[r].dead \in BOOLEAN
        <3>1. Live(r)
            BY <1>1, <2>2
        <3>2. ~rec[r].dead
            BY <3>1 DEF Live
        <3>3. PICK V : rec[r] \in RowIn(V)
            BY <1>4 DEF Rows, Row
        <3>4. rec[r].dead \in BOOLEAN
            BY <3>3 DEF RowIn
        <3> QED BY <3>2, <3>4
    <2>3. ASSUME NEW r \in Record, r \notin ElemsOf(losers) PROVE f[r].dead = rec[r].dead
        BY <1>1, <1>4, <2>3, ValuesAfterMerge
    <2> QED BY <1>1, <1>2, <2>1, <2>2, <2>3 DEF ValuesAtOnce
<1>7. KeysAtOnce(m, k)
    <2>1. Gone(m) = {s} \cup ElemsOf(losers)
        BY <1>2 DEF Gone
    <2>2. ASSUME NEW w \in Value
          PROVE  /\ key[w] = s => rec[s].val = w
                 /\ k[w] \in Gone(m) => key[w] \in {None} \cup Gone(m)
                 /\ k[w] \notin Gone(m) => k[w] = key[w] \/ (k[w] = None /\ key[w] \in Gone(m))
        <3>1. k[w] = IF w = v THEN s ELSE IF key[w] \in ElemsOf(losers) \cup {s} THEN None ELSE key[w]
            BY <1>1 DEF KeysAfterMerge
        <3>2. key[w] = s => rec[s].val = w
            BY <1>3, <1>4 DEF KeysCarried
        <3>3. None \notin Gone(m) /\ w # None
            BY <1>3, <2>1, GraphAssumption DEF GraphAssumption
        <3>4. w = v => key[w] \in {None} \cup Gone(m)
            BY <1>1, <2>1, <3>3
        <3> QED BY <2>1, <3>1, <3>2, <3>3, <3>4
    <2> QED BY <1>2, <2>2 DEF KeysAtOnce
<1>8. EntriesAtOnce(m, e)
    <2>1. ASSUME moved # None PROVE moved \in Record /\ moved # s /\ listed[s] = 0
        <3>1. moved \in ElemsOf(losers) /\ listed[s] = 0
            BY <1>4, <1>a, <2>1, MovedEntry
        <3> QED BY <1>1, <1>3, <3>1
    <2>2. ASSUME moved # None
          PROVE  e[s] = listed[moved] /\ \A r \in Record \ {s, moved} : e[r] = listed[r]
        BY <1>1, <1>4, <2>1, <2>2
    <2> QED BY <1>1, <1>2, <1>4, <2>1, <2>2 DEF EntriesAtOnce
<1>9. LinksAtOnce(m, g)
    <2>1. Restoring(m) \subseteq Active
        BY <1>4, <1>1, <1>a, MergeIsRemembered
    <2>2. /\ DOMAIN g = LinkIds
          /\ \A l \in LinkIds :
                /\ l \notin Ending(s, losers) => g[l].state = link[l].state
                /\ l \in Staying(s, losers) => g[l].from = FinalFrom(l, s, losers) /\ g[l].to = FinalTo(l, s, losers)
                /\ l \notin Staying(s, losers) => SameEnds(g[l], link[l])
        <3>1. clock + 1 \in Nat /\ g = LinksAfterMerge(LinkPlan(s, losers), clock + 1)
            BY <1>1, <1>4, <1>a
        <3> QED BY <1>4, <3>1, RowsAfterMerge
    <2>3. m.ended = Ending(s, losers)
        BY <1>a DEF MergeSnapshot, LinkPlan
    <2>4. ASSUME NEW l \in Staying(s, losers), link[l].from \in ElemsOf(losers) \/ link[l].to \in ElemsOf(losers)
          PROVE  l \in Restoring(m)
        <3>a. PICK staying, final, moving :
                 /\ staying = Staying(s, losers)
                 /\ final = [i \in staying |-> [from |-> FinalFrom(i, s, losers), to |-> FinalTo(i, s, losers),
                                                pos |-> FinalPos(i, s, losers, staying)]]
                 /\ moving = {i \in staying : \/ final[i].from # link[i].from \/ final[i].to # link[i].to
                                              \/ final[i].pos # link[i].pos}
            OBVIOUS
        <3>1. plan.final = [i \in moving |-> final[i]]
            BY <1>a, <3>a DEF LinkPlan
        <3>2. final[l].from = FinalFrom(l, s, losers) /\ final[l].to = FinalTo(l, s, losers) /\ l \in staying
            BY <3>a
        <3>3. FinalFrom(l, s, losers) # link[l].from \/ FinalTo(l, s, losers) # link[l].to
            BY <1>1, <2>4 DEF FinalFrom, FinalTo, Final
        <3>4. l \in DOMAIN plan.final
            BY <3>1, <3>2, <3>3, <3>a
        <3>5. l \in Repointed(plan, losers)
            BY <2>4, <3>4 DEF Repointed
        <3>b. PICK o : o = [id |-> l, from |-> link[l].from, to |-> link[l].to, pos |-> link[l].pos]
            OBVIOUS
        <3>6. o \in m.repointed /\ o.id = l
            BY <1>a, <3>5, <3>b DEF MergeSnapshot
        <3> QED BY <3>6 DEF Restoring
    <2>5. ASSUME NEW l \in LinkIds, l \notin Restoring(m)
          PROVE  g[l].state = link[l].state /\ g[l].from = link[l].from /\ g[l].to = link[l].to
        <3>1. l \notin Ending(s, losers)
            BY <2>3, <2>5 DEF Restoring
        <3>2. CASE l \in Staying(s, losers)
            <4>1. link[l].from \notin ElemsOf(losers) /\ link[l].to \notin ElemsOf(losers)
                BY <2>4, <2>5, <3>2
            <4>2. FinalFrom(l, s, losers) = link[l].from /\ FinalTo(l, s, losers) = link[l].to
                BY <4>1 DEF FinalFrom, FinalTo, Final
            <4> QED BY <2>2, <3>1, <3>2, <4>2
        <3>3. CASE l \notin Staying(s, losers)
            BY <2>2, <3>1, <3>3 DEF SameEnds
        <3> QED BY <3>2, <3>3
    <2> QED BY <1>2, <2>1, <2>2, <2>5 DEF LinksAtOnce, Active
<1> QED BY <1>5, <1>6, <1>7, <1>8, <1>9 DEF AtOnce

LEMMA UndoOnMerge ==
    ASSUME UndoInv, NEW s \in Record, NEW losers \in Losers, NEW choice, Merge(s, losers, choice)
    PROVE  UndoInv'
<1>a. PICK v, plan, moved, m, f, k, e, g, ms :
         /\ v = PlannedValue(s, losers, choice) /\ plan = LinkPlan(s, losers) /\ moved = EntryMoved(s, losers)
         /\ m = MergeSnapshot(s, losers, plan) /\ f = rec' /\ k = key' /\ e = listed' /\ g = link' /\ ms = merges'
    OBVIOUS
<1>1. /\ s \notin ElemsOf(losers) /\ Tick
      /\ f = RecordsAfterMerge(s, losers, v, plan)
      /\ e = IF moved = None THEN listed ELSE [listed EXCEPT ![s] = listed[moved], ![moved] = 0]
      /\ k = KeysAfterMerge(s, losers, v) /\ ms = Append(merges, m)
    BY <1>a DEF Merge, Mergeable
<1>2. /\ Rows(rec) /\ KeysCarried(rec, key) /\ SetBefore(rec, clock) /\ clock \in Nat
      /\ AllRemember(merges, link, clock) /\ listed \in [Record -> Nat]
    BY DEF UndoInv, LinkInv, GraphInv
<1>3. LinkInv'
    BY MergingStep DEF UndoInv
<1>4. NamesKeys(m) /\ AtOnce(m, f, k, e, g)
    BY <1>a, MergeIsWhole
<1>5. KeysCarried(f, k)
    <2>1. k = [w \in Value |-> k[w]]
        BY <1>1 DEF KeysAfterMerge
    <2>2. ASSUME NEW w \in Value PROVE k[w] \in Record \cup {None} /\ (k[w] # None => f[k[w]].val = w)
        <3>1. k[w] = IF w = v THEN s ELSE IF key[w] \in ElemsOf(losers) \cup {s} THEN None ELSE key[w]
            BY <1>1 DEF KeysAfterMerge
        <3>2. key[w] \in Record \cup {None} /\ (key[w] # None => rec[key[w]].val = w)
            BY <1>2 DEF KeysCarried
        <3>3. CASE w = v
            <4>1. f[s].val = v
                BY <1>1, <1>2, ValuesAfterMerge
            <4> QED BY <3>1, <3>3, <4>1
        <3>4. CASE w # v /\ key[w] \in ElemsOf(losers) \cup {s, None}
            BY <3>1, <3>4
        <3>5. CASE w # v /\ key[w] \notin ElemsOf(losers) \cup {s, None}
            <4>1. k[w] = key[w] /\ key[w] \in Record /\ key[w] # s
                BY <3>1, <3>2, <3>5
            <4>a. PICK q : q = key[w]
                OBVIOUS
            <4>2. f[q].val = rec[q].val
                BY <1>1, <1>2, <4>1, <4>a, ValuesAfterMerge
            <4> QED BY <3>2, <4>1, <4>2, <4>a
        <3> QED BY <3>3, <3>4, <3>5
    <2> QED BY <2>1, <2>2 DEF KeysCarried
<1>6. SetBefore(f, clock + 1)
    <2>1. ASSUME NEW r \in Record PROVE f[r].set \in Nat /\ f[r].set <= clock + 1
        <3>1. f[r].set = rec[r].set \/ f[r].set = clock + 1
            BY <1>1, <1>2, ValuesAfterMerge
        <3>2. rec[r].set \in Nat /\ rec[r].set <= clock
            BY <1>2 DEF SetBefore
        <3> QED BY <1>2, <3>1, <3>2
    <2> QED BY <2>1 DEF SetBefore
<1>7. e \in [Record -> Nat]
    <2>1. ASSUME moved # None PROVE moved \in Record
        <3>1. moved \in ElemsOf(losers)
            BY <1>2, <1>a, <2>1, MovedEntry
        <3> QED BY <3>1, LosersDiffer
    <2> QED BY <1>1, <1>2, <2>1
<1>8. ASSUME NEW i \in DOMAIN ms PROVE (i \in DOMAIN merges /\ ms[i] = merges[i]) \/ ms[i] = m
    <2>1. PICK V : merges \in Seq(SnapIn(V))
        BY DEF UndoInv, LinkInv, GraphInv, MergesNamed
    <2> QED BY <1>1, <1>8, <2>1
<1>9. ASSUME NEW i \in DOMAIN ms PROVE NamesKeys(ms[i]) /\ (ms[i].at = clock + 1 => AtOnce(ms[i], f, k, e, g))
    <2>1. CASE i \in DOMAIN merges /\ ms[i] = merges[i]
        <3>1. ms[i].at \in Nat /\ ms[i].at <= clock
            BY <1>2, <2>1 DEF AllRemember, Remembers
        <3>2. NamesKeys(ms[i])
            BY <2>1 DEF UndoInv
        <3>3. ms[i].at # clock + 1
            BY <1>2, <3>1
        <3> QED BY <3>2, <3>3
    <2>2. CASE ms[i] = m
        BY <1>4, <2>2
    <2> QED BY <1>8, <2>1, <2>2
<1>10. clock' = clock + 1
    BY <1>1 DEF Tick
<1> QED BY <1>3, <1>5, <1>6, <1>7, <1>9, <1>10, <1>a DEF UndoInv

-----------------------------------------------------------------------------
(* Values, keys and entries in an unmerge                                  *)

\* A record that is undone is alive and is none of its losers.
LEMMA SurvivorIsNoLoser ==
    ASSUME NEW m, Undoable(m)
    PROVE  m.survivor \notin ElemsOf(m.losers)
BY DEF Undoable, Live, ElemsOf

\* A loser gets the value its snapshot holds.
LEMMA LoserValue ==
    ASSUME NEW m, NamesKeys(m), m.survivor \notin ElemsOf(m.losers), NEW i \in DOMAIN m.losers
    PROVE  ValueAfterUnmerge(m, m.losers[i]) = m.loserVal[i]
<1>1. PICK r : r = m.losers[i]
    OBVIOUS
<1>2. PICK k : k = CHOOSE j \in DOMAIN m.losers : m.losers[j] = r
    OBVIOUS
<1>3. k \in DOMAIN m.losers /\ m.losers[k] = r
    BY <1>1, <1>2
<1>4. k = i
    BY <1>1, <1>3 DEF NamesKeys
<1>5. r \in ElemsOf(m.losers) /\ r # m.survivor
    BY <1>1 DEF ElemsOf
<1>6. ValueAfterUnmerge(m, r) = m.loserVal[k]
    BY <1>2, <1>5 DEF ValueAfterUnmerge
<1> QED BY <1>1, <1>4, <1>6

\* What an unmerge does to a key.
LEMMA KeyAfterUnmerge ==
    ASSUME NEW m, NEW n, n = KeysAfterUnmerge(m), NEW v \in Value
    PROVE  \/ v = SurvivorValue(m) /\ n[v] = m.survivor
           \/ v # SurvivorValue(m) /\ \E i \in LoserWith(m, v) : n[v] = m.losers[i]
           \/ v # SurvivorValue(m) /\ LoserWith(m, v) = {} /\ key[v] \in Gone(m) /\ n[v] = None
           \/ v # SurvivorValue(m) /\ LoserWith(m, v) = {} /\ key[v] \notin Gone(m) /\ n[v] = key[v]
<1>1. CASE v = SurvivorValue(m)
    BY <1>1 DEF KeysAfterUnmerge
<1>2. CASE v # SurvivorValue(m) /\ LoserWith(m, v) # {}
    <2>1. PICK i : i = CHOOSE j \in LoserWith(m, v) : TRUE
        OBVIOUS
    <2>2. i \in LoserWith(m, v) /\ n[v] = m.losers[i]
        BY <1>2, <2>1 DEF KeysAfterUnmerge
    <2> QED BY <1>2, <2>2
<1>3. CASE v # SurvivorValue(m) /\ LoserWith(m, v) = {}
    BY <1>3 DEF KeysAfterUnmerge, Gone
<1> QED BY <1>1, <1>2, <1>3

LEMMA KeysAfterUnmerging ==
    ASSUME Rows(rec), KeysCarried(rec, key), NEW m, NamesKeys(m), Undoable(m), Gone(m) \subseteq Record,
           NEW n, n = KeysAfterUnmerge(m), NEW f, f = RecordsAfterUnmerge(m)
    PROVE  KeysCarried(f, n)
<1>1. n = [v \in Value |-> n[v]]
    BY DEF KeysAfterUnmerge
<1>2. ASSUME NEW v \in Value PROVE n[v] \in Record \cup {None} /\ (n[v] # None => f[n[v]].val = v)
    <2>1. CASE v = SurvivorValue(m) /\ n[v] = m.survivor
        <3>1. m.survivor \in Record
            BY DEF Gone
        <3>2. f[m.survivor].val = ValueAfterUnmerge(m, m.survivor)
            BY <3>1, UnmergedValues
        <3> QED BY <2>1, <3>1, <3>2 DEF ValueAfterUnmerge
    <2>2. ASSUME NEW i \in LoserWith(m, v), n[v] = m.losers[i]
          PROVE  n[v] \in Record \cup {None} /\ (n[v] # None => f[n[v]].val = v)
        <3>1. i \in DOMAIN m.losers /\ v \in m.loserKey[i]
            BY DEF LoserWith
        <3>2. m.losers[i] \in Record /\ m.loserVal[i] = v
            BY <3>1 DEF NamesKeys, Gone, ElemsOf
        <3>3. ValueAfterUnmerge(m, m.losers[i]) = v
            BY <3>1, <3>2, SurvivorIsNoLoser, LoserValue
        <3>4. f[m.losers[i]].val = ValueAfterUnmerge(m, m.losers[i])
            BY <3>2, UnmergedValues
        <3> QED BY <2>2, <3>2, <3>3, <3>4
    <2>3. CASE n[v] = None
        BY <2>3
    <2>4. CASE key[v] \notin Gone(m) /\ n[v] = key[v] /\ n[v] # None
        <3>1. PICK q : q = key[v]
            OBVIOUS
        <3>2. q \in Record /\ rec[q].val = v
            BY <2>4, <3>1 DEF KeysCarried
        <3>3. f[q].val = ValueAfterUnmerge(m, q)
            BY <3>2, UnmergedValues
        <3>4. ValueAfterUnmerge(m, q) = rec[q].val
            BY <2>4, <3>1 DEF ValueAfterUnmerge, Gone
        <3> QED BY <2>4, <3>1, <3>2, <3>3, <3>4
    <2> QED BY <2>1, <2>2, <2>3, <2>4, KeyAfterUnmerge
<1> QED BY <1>1, <1>2 DEF KeysCarried

LEMMA UndoOnUnmerge ==
    ASSUME UndoInv, NEW i \in DOMAIN merges, Unmerge(i)
    PROVE  UndoInv'
<1>a. PICK m, f, k, e, ms : m = merges[i] /\ f = rec' /\ k = key' /\ e = listed' /\ ms = merges'
    OBVIOUS
<1>1. /\ Tick /\ Undoable(m) /\ f = RecordsAfterUnmerge(m) /\ k = KeysAfterUnmerge(m)
      /\ e = IF m.moved = None THEN listed
             ELSE [listed EXCEPT ![m.moved] = listed[m.survivor], ![m.survivor] = 0]
      /\ ms = [merges EXCEPT ![i].undone = TRUE]
    BY <1>a DEF Unmerge
<1>2. /\ GraphInv /\ Rows(rec) /\ KeysCarried(rec, key) /\ SetBefore(rec, clock) /\ clock \in Nat
      /\ AllRemember(merges, link, clock) /\ listed \in [Record -> Nat] /\ MergesNamed
    BY DEF UndoInv, LinkInv, GraphInv
<1>3. LinkInv'
    BY UnmergingStep DEF UndoInv
<1>4. Gone(m) \subseteq Record
    <2>1. PICK V : merges \in Seq(SnapIn(V))
        BY <1>2 DEF MergesNamed
    <2>2. m \in SnapIn(V)
        BY <2>1, <1>a
    <2>3. m.survivor \in Record
        BY <2>2 DEF SnapIn
    <2> QED BY <1>2, <1>a, <2>3 DEF MergesNamed, Gone
<1>5. KeysCarried(f, k)
    <2>1. NamesKeys(m)
        BY <1>a DEF UndoInv
    <2> QED BY <1>1, <1>2, <1>4, <2>1, KeysAfterUnmerging
<1>6. SetBefore(f, clock + 1)
    <2>1. ASSUME NEW r \in Record PROVE f[r].set \in Nat /\ f[r].set <= clock + 1
        <3>1. f[r].set = rec[r].set \/ f[r].set = clock + 1
            BY <1>1, <1>2, UnmergedValues
        <3>2. rec[r].set \in Nat /\ rec[r].set <= clock
            BY <1>2 DEF SetBefore
        <3> QED BY <1>2, <3>1, <3>2
    <2> QED BY <2>1 DEF SetBefore
<1>7. e \in [Record -> Nat]
    <2>1. listed[m.survivor] \in Nat
        BY <1>2, <1>4 DEF Gone
    <2> QED BY <1>1, <1>2, <2>1
<1>8. /\ DOMAIN ms = DOMAIN merges
      /\ \A j \in DOMAIN ms : /\ ms[j].at = merges[j].at /\ ms[j].losers = merges[j].losers
                              /\ ms[j].loserKey = merges[j].loserKey /\ ms[j].loserVal = merges[j].loserVal
    BY <1>1, <1>2, StillRemembered
<1>9. ASSUME NEW j \in DOMAIN ms PROVE NamesKeys(ms[j]) /\ ms[j].at # clock + 1
    <2>1. NamesKeys(merges[j]) /\ j \in DOMAIN merges
        BY <1>8 DEF UndoInv
    <2>2. NamesKeys(ms[j])
        BY <1>8, <2>1 DEF NamesKeys
    <2>3. merges[j].at \in Nat /\ merges[j].at <= clock
        BY <1>2, <2>1 DEF AllRemember, Remembers
    <2> QED BY <1>2, <1>8, <2>2, <2>3
<1>10. clock' = clock + 1
    BY <1>1 DEF Tick
<1> QED BY <1>3, <1>5, <1>6, <1>7, <1>9, <1>10, <1>a DEF UndoInv

\* The merge that was the last operation had its survivor written before: its value goes back.
LEMMA SurvivorGoesBack ==
    ASSUME SetBefore(rec, clock), clock \in Nat, NEW m, m.survivor \in Record, m.at = clock
    PROVE  SurvivorValue(m) = m.before
<1>1. rec[m.survivor].set \in Nat /\ rec[m.survivor].set <= clock
    BY DEF SetBefore
<1>2. ~(rec[m.survivor].set > m.at)
    BY <1>1
<1> QED BY <1>2 DEF SurvivorValue

LEMMA KeysGoBack ==
    ASSUME NEW m, KeysAtOnce(m, key), KeysFree(m), SurvivorValue(m) = m.before, Gone(m) \subseteq Record,
           NEW n, n = KeysAfterUnmerge(m), NEW v \in Value
    PROVE  n[v] = m.world.key[v] \/ (m.world.key[v] = None /\ n[v] = m.survivor /\ m.before = v)
<1>a. PICK w : w = m.world.key[v]
    OBVIOUS
<1>1. /\ \A i \in DOMAIN m.losers : i \in LoserWith(m, v) <=> w = m.losers[i]
      /\ w = m.survivor => m.before = v
      /\ key[v] \in Gone(m) => w \in {None} \cup Gone(m)
      /\ key[v] \notin Gone(m) => key[v] = w \/ (key[v] = None /\ w \in Gone(m))
    BY <1>a DEF KeysAtOnce, LoserWith
<1>2. LoserWith(m, v) = {} => w \notin ElemsOf(m.losers)
    BY <1>1 DEF ElemsOf
<1>3. CASE v = SurvivorValue(m) /\ n[v] = m.survivor
    <2>1. key[v] \in {None} \cup Gone(m) /\ LoserWith(m, v) = {}
        BY <1>3 DEF KeysFree, Gone
    <2>2. w \in {None} \cup Gone(m)
        BY <1>1, <2>1
    <2>3. w = None \/ w = m.survivor
        BY <1>2, <2>1, <2>2 DEF Gone
    <2> QED BY <1>3, <1>a, <2>3
<1>4. CASE v # SurvivorValue(m) /\ \E i \in LoserWith(m, v) : n[v] = m.losers[i]
    <2>1. PICK i \in LoserWith(m, v) : n[v] = m.losers[i]
        BY <1>4
    <2>2. i \in DOMAIN m.losers
        BY DEF LoserWith
    <2> QED BY <1>1, <1>a, <2>1, <2>2
<1>5. CASE v # SurvivorValue(m) /\ LoserWith(m, v) = {} /\ key[v] \in Gone(m) /\ n[v] = None
    <2>1. w \in {None} \cup Gone(m)
        BY <1>1, <1>5
    <2> QED BY <1>1, <1>2, <1>5, <1>a, <2>1 DEF Gone
<1>6. CASE v # SurvivorValue(m) /\ LoserWith(m, v) = {} /\ key[v] \notin Gone(m) /\ n[v] = key[v]
    <2>1. w \notin Gone(m)
        BY <1>1, <1>2, <1>6 DEF Gone
    <2> QED BY <1>1, <1>6, <1>a, <2>1
<1> QED BY <1>3, <1>4, <1>5, <1>6, KeyAfterUnmerge

\* Undoing the merge that was the last operation gives back what it took.
LEMMA UndoneWhole ==
    ASSUME UndoInv, NEW i \in DOMAIN merges, Unmerge(i), NEW m, m = merges[i], m.at = clock,
           NEW f, f = rec', NEW k, k = key', NEW e, e = listed', NEW g, g = link'
    PROVE  /\ e = m.world.listed
           /\ \A v \in Value : \/ k[v] = m.world.key[v]
                               \/ /\ m.world.key[v] = None /\ k[v] = m.survivor
                                  /\ m.world.rec[k[v]].val = v
           /\ \A r \in Record : f[r].val = m.world.rec[r].val /\ f[r].dead = m.world.rec[r].dead
           /\ \A l \in LinkIds : /\ g[l].state = m.world.link[l].state
                                  /\ g[l].from = m.world.link[l].from
                                  /\ g[l].to = m.world.link[l].to
<1>1. /\ Undoable(m) /\ ~Conflicting(m) /\ f = RecordsAfterUnmerge(m) /\ k = KeysAfterUnmerge(m)
      /\ g = LinksAfterUnmerge(m)
      /\ e = IF m.moved = None THEN listed
             ELSE [listed EXCEPT ![m.moved] = listed[m.survivor], ![m.survivor] = 0]
    BY DEF Unmerge
<1>2. /\ Rows(rec) /\ SetBefore(rec, clock) /\ clock \in Nat /\ listed \in [Record -> Nat] /\ MergesNamed
      /\ LinkRows(link) /\ Remembers(m, link, clock)
    BY DEF UndoInv, LinkInv, GraphInv, AllRemember
<1>3. NamesKeys(m) /\ ValuesAtOnce(m, rec) /\ KeysAtOnce(m, key) /\ EntriesAtOnce(m, listed) /\ LinksAtOnce(m, link)
    BY DEF UndoInv, AtOnce
<1>4. Gone(m) \subseteq Record /\ m.survivor \in Record
    <2>1. PICK V : merges \in Seq(SnapIn(V))
        BY <1>2 DEF MergesNamed
    <2>2. m \in SnapIn(V)
        BY <2>1
    <2>3. m.survivor \in Record
        BY <2>2 DEF SnapIn
    <2> QED BY <1>2, <2>3 DEF MergesNamed, Gone
<1>5. SurvivorValue(m) = m.before
    BY <1>2, <1>4, SurvivorGoesBack
<1>6. ASSUME NEW v \in Value
      PROVE  k[v] = m.world.key[v] \/ (m.world.key[v] = None /\ k[v] = m.survivor /\ m.world.rec[k[v]].val = v)
    <2>1. KeysFree(m)
        BY <1>1 DEF Conflicting
    <2>2. k[v] = m.world.key[v] \/ (m.world.key[v] = None /\ k[v] = m.survivor /\ m.before = v)
        BY <1>1, <1>3, <1>4, <1>5, <2>1, KeysGoBack
    <2>3. m.before = m.world.rec[m.survivor].val
        BY <1>3 DEF ValuesAtOnce
    <2> QED BY <2>2, <2>3
<1>7. e = m.world.listed
    <2>1. CASE m.moved = None
        BY <1>1, <1>3, <2>1 DEF EntriesAtOnce
    <2>2. CASE m.moved # None
        <3>a. PICK w : w = m.world.listed
            OBVIOUS
        <3>1. /\ m.moved \in Record /\ m.moved # m.survivor /\ w[m.survivor] = 0 /\ listed[m.survivor] = w[m.moved]
              /\ \A r \in Record \ {m.survivor, m.moved} : listed[r] = w[r]
              /\ w = [r \in Record |-> w[r]]
            BY <1>3, <2>2, <3>a DEF EntriesAtOnce
        <3>2. e = [listed EXCEPT ![m.moved] = listed[m.survivor], ![m.survivor] = 0]
            BY <1>1, <2>2
        <3>3. e = [r \in Record |-> e[r]]
            BY <1>2, <3>2
        <3>4. ASSUME NEW r \in Record PROVE e[r] = w[r]
            BY <1>2, <1>4, <3>1, <3>2
        <3> QED BY <3>1, <3>3, <3>4, <3>a
    <2> QED BY <2>1, <2>2
<1>8. ASSUME NEW r \in Record PROVE f[r].val = m.world.rec[r].val /\ f[r].dead = m.world.rec[r].dead
    <2>1. f[r].dead = (rec[r].dead /\ r \notin ElemsOf(m.losers)) /\ f[r].val = ValueAfterUnmerge(m, r)
        BY <1>1, <1>2, UnmergedValues
    <2>2. f[r].val = m.world.rec[r].val
        <3>1. CASE r = m.survivor
            BY <1>3, <1>5, <2>1, <3>1 DEF ValuesAtOnce, ValueAfterUnmerge
        <3>2. ASSUME NEW j \in DOMAIN m.losers, r = m.losers[j] PROVE f[r].val = m.world.rec[r].val
            <4>1. ValueAfterUnmerge(m, m.losers[j]) = m.loserVal[j]
                BY <1>1, <1>3, SurvivorIsNoLoser, LoserValue
            <4>2. m.loserVal[j] = m.world.rec[m.losers[j]].val
                BY <1>3 DEF ValuesAtOnce
            <4> QED BY <2>1, <3>2, <4>1, <4>2
        <3>3. CASE r \notin Gone(m)
            <4>1. ValueAfterUnmerge(m, r) = rec[r].val
                BY <3>3 DEF ValueAfterUnmerge, Gone
            <4> QED BY <1>3, <2>1, <3>3, <4>1 DEF ValuesAtOnce
        <3> QED BY <3>1, <3>2, <3>3 DEF Gone, ElemsOf
    <2>3. f[r].dead = m.world.rec[r].dead
        <3>1. CASE r \in ElemsOf(m.losers)
            <4>1. ~m.world.rec[r].dead /\ m.world.rec[r].dead \in BOOLEAN
                BY <1>3, <3>1 DEF ValuesAtOnce
            <4> QED BY <2>1, <3>1, <4>1
        <3>2. CASE r \notin ElemsOf(m.losers)
            <4>1. rec[r].dead = m.world.rec[r].dead
                BY <1>3, <3>2 DEF ValuesAtOnce
            <4>2. rec[r].dead \in BOOLEAN
                BY <1>2 DEF Rows, Row, RowIn
            <4> QED BY <2>1, <3>2, <4>1, <4>2
        <3> QED BY <3>1, <3>2
    <2> QED BY <2>2, <2>3
<1>9. ASSUME NEW l \in LinkIds
      PROVE  g[l].state = m.world.link[l].state /\ g[l].from = m.world.link[l].from /\ g[l].to = m.world.link[l].to
    <2>1. \A q \in Restoring(m) : ~ChangedSince(m, q)
        BY <1>1 DEF Conflicting
    <2>2. /\ l \in Restoring(m) => SameEnds(g[l], m.world.link[l]) /\ g[l].state = "active"
          /\ l \notin Restoring(m) => g[l].state = link[l].state /\ g[l].from = link[l].from /\ g[l].to = link[l].to
        BY <1>1, <1>2, <2>1, RowsAfterUnmerge
    <2> QED BY <1>3, <2>2 DEF LinksAtOnce, SameEnds, LinkIds
<1> QED BY <1>6, <1>7, <1>8, <1>9

LEMMA InitUndo == Init => UndoInv
<1> SUFFICES ASSUME Init PROVE UndoInv
    OBVIOUS
<1>1. LinkInv
    BY InitLinks
<1>2. PICK w \in InitialWorlds :
         /\ rec = [r \in Record |-> [exists |-> TRUE, dead |-> FALSE, into |-> None,
                                     val |-> w.val[r], set |-> 0, ver |-> 1]]
         /\ key = [v \in Value |-> IF \E r \in Record : w.val[r] = v
                                    THEN CHOOSE r \in Record : w.val[r] = v ELSE None]
    BY DEF Init
<1>3. listed = [r \in Record |-> 0] /\ merges = <<>> /\ clock = 0
    BY DEF Init
<1>4. KeysCarried(rec, key)
    <2>1. ASSUME NEW v \in Value PROVE key[v] \in Record \cup {None} /\ (key[v] # None => rec[key[v]].val = v)
        <3>1. CASE \E r \in Record : w.val[r] = v
            <4>1. key[v] \in Record /\ w.val[key[v]] = v
                BY <1>2, <3>1
            <4> QED BY <1>2, <4>1
        <3>2. CASE ~\E r \in Record : w.val[r] = v
            BY <1>2, <3>2
        <3> QED BY <3>1, <3>2
    <2> QED BY <1>2, <2>1 DEF KeysCarried
<1>5. SetBefore(rec, clock)
    BY <1>2, <1>3 DEF SetBefore
<1> QED BY <1>1, <1>3, <1>4, <1>5 DEF UndoInv

LEMMA UndoInvStep == UndoInv /\ [Next]_vars => UndoInv'
<1> SUFFICES ASSUME UndoInv, [Next]_vars PROVE UndoInv'
    OBVIOUS
<1>1. CASE Next
    <2>1. ASSUME GraphNext, UNCHANGED merges PROVE UndoInv'
        BY <2>1, UndoOnGraph
    <2>2. ASSUME NEW s \in Record, NEW losers \in Losers, NEW choice \in Record \cup {None},
                 Merge(s, losers, choice)
          PROVE  UndoInv'
        BY <2>2, UndoOnMerge
    <2>3. ASSUME NEW i \in DOMAIN merges, Unmerge(i) PROVE UndoInv'
        BY <2>3, UndoOnUnmerge
    <2> QED BY <1>1, <2>1, <2>2, <2>3 DEF Next
<1>2. CASE UNCHANGED vars
    <2>1. LinkInv'
        BY <1>2, LinkInvStep DEF UndoInv
    <2>2. UNCHANGED <<rec, key, link, listed, clock, merges>>
        BY <1>2 DEF vars
    <2> QED BY <2>1, <2>2 DEF UndoInv
<1> QED BY <1>1, <1>2

\* Only an unmerge marks a merge undone, and only the one it undoes.
LEMMA UndoneByUnmerge ==
    ASSUME MergesNamed, [Next]_vars, NEW i \in DOMAIN merges, merges'[i].undone, ~merges[i].undone
    PROVE  Unmerge(i)
<1>1. PICK V : merges \in Seq(SnapIn(V))
    BY DEF MergesNamed
<1>2. merges' # merges
    OBVIOUS
<1>3. ASSUME NEW s \in Record, NEW losers \in Losers, NEW choice, Merge(s, losers, choice) PROVE FALSE
    <2>1. PICK m : merges' = Append(merges, m)
        BY <1>3 DEF Merge
    <2>2. merges'[i] = merges[i]
        BY <1>1, <2>1
    <2> QED BY <2>2
<1>4. ASSUME NEW j \in DOMAIN merges, Unmerge(j) PROVE j = i
    <2>1. merges' = [merges EXCEPT ![j].undone = TRUE]
        BY <1>4 DEF Unmerge
    <2>a. PICK ms : ms = merges'
        OBVIOUS
    <2>2. j # i => ms[i] = merges[i]
        BY <2>1, <2>a, StillRemembered
    <2> QED BY <2>2, <2>a
<1> QED BY <1>2, <1>3, <1>4 DEF Next, vars

\* A merge undone before anything else happened leaves values, deletion, keys, list entries and links as
\* the merge found them; only a survivor that had no key for its value gets it (executeUnmerge and the
\* restoration of links, keys and entries in merge/unmerge-links.ts and merge/unmerge.ts).
THEOREM UndoingIsWhole == Spec => UndoIsWhole
<1>1. ASSUME UndoInv, [Next]_vars, NEW i \in DOMAIN merges,
             merges[i].at = clock, merges'[i].undone, ~merges[i].undone
      PROVE  BackAsFound(merges[i])
    <2>1. Unmerge(i)
        BY <1>1, UndoneByUnmerge DEF UndoInv, LinkInv, GraphInv
    <2>a. PICK m, f, k, e, g : m = merges[i] /\ f = rec' /\ k = key' /\ e = listed' /\ g = link'
        OBVIOUS
    <2>2. /\ e = m.world.listed
          /\ \A v \in Value : \/ k[v] = m.world.key[v]
                              \/ /\ m.world.key[v] = None /\ k[v] = m.survivor
                                 /\ m.world.rec[k[v]].val = v
          /\ \A r \in Record : f[r].val = m.world.rec[r].val /\ f[r].dead = m.world.rec[r].dead
          /\ \A l \in LinkIds : /\ g[l].state = m.world.link[l].state
                                 /\ g[l].from = m.world.link[l].from
                                 /\ g[l].to = m.world.link[l].to
        BY <1>1, <2>1, <2>a, UndoneWhole
    <2> QED BY <2>a, <2>2 DEF BackAsFound
<1>2. UndoInv /\ [Next]_vars =>
        \A i \in DOMAIN merges :
          (merges[i].at = clock /\ merges'[i].undone /\ ~merges[i].undone) => BackAsFound(merges[i])
    BY <1>1
<1> QED BY InitUndo, UndoInvStep, <1>2, PTL DEF Spec, UndoIsWhole

-----------------------------------------------------------------------------
(* What a client that has read a record is told of                         *)

EndOf(x, r) == r \in {x.from, x.to}

\* Rows that came or changed, unless with a purged record, have no end at r, and had none.
Unseen(f, g, r) ==
    /\ DOMAIN f \subseteq DOMAIN g
    /\ \A l \in DOMAIN g : g[l].state # "gone" =>
           \/ l \in DOMAIN f /\ g[l] = f[l]
           \/ ~EndOf(g[l], r) /\ (l \in DOMAIN f => ~EndOf(f[l], r))

\* A link of a relation that is not ordered looks the same at another position.
SameLook(x, y) == y = x \/ (x.rel \in ToOne /\ \E p : y = [x EXCEPT !.pos = p])
Overlooked(f, g, r) ==
    /\ DOMAIN f \subseteq DOMAIN g
    /\ \A l \in DOMAIN g : g[l].state # "gone" =>
           \/ l \in DOMAIN f /\ SameLook(f[l], g[l])
           \/ ~EndOf(g[l], r) /\ (l \in DOMAIN f => ~EndOf(f[l], r))

\* The step gives r a new version, or leaves its value, its liveness and its links alone.
Told(r) ==
    /\ rec'[r].ver \in Nat
    /\ Live(r) /\ rec'[r].exists =>
           \/ rec'[r].ver > rec[r].ver
           \/ rec'[r].val = rec[r].val /\ Live(r)' /\ (Unseen(link, link', r) \/ Overlooked(link, link', r))

SeenInv == LinkInv /\ \A r \in Record : rec[r].ver \in Nat

LEMMA NextVersion ==
    ASSUME NEW x, Row(x), x.ver \in Nat, NEW y, NEW v, NEW n, NEW t, NEW s
    PROVE  /\ y = [x EXCEPT !.ver = n] =>
                  y.ver = n /\ y.val = x.val /\ y.dead = x.dead /\ y.into = x.into /\ y.exists = x.exists
           /\ y = [x EXCEPT !.dead = v] => y.ver = x.ver
           /\ y = [x EXCEPT !.exists = v] => y.ver = x.ver
           /\ y = AsSurvivor(x, v, n, t) => y.ver = n
           /\ y = AsLoser(x, s, n) => y.ver = n
           /\ y = Redirected(x, s) => y.ver = x.ver
<1>1. PICK V : x \in RowIn(V)
    BY DEF Row
<1> QED BY <1>1 DEF RowIn, AsSurvivor, AsLoser, Redirected

LEMMA BumpedVersion ==
    ASSUME NEW f, NEW r \in Record, Row(f[r]), f[r].ver \in Nat, NEW R, NEW g, g = Bumped(f, R)
    PROVE  /\ g[r].ver \in Nat /\ (r \in R => g[r].ver = f[r].ver + 1) /\ (r \notin R => g[r] = f[r])
           /\ g[r].ver >= f[r].ver
<1>a. PICK x, y, n : x = f[r] /\ y = g[r] /\ n = f[r].ver + 1
    OBVIOUS
<1>1. CASE r \in R
    <2>1. y = [x EXCEPT !.ver = n]
        BY <1>1, <1>a DEF Bumped
    <2>2. y.ver = n
        BY <1>a, <2>1, NextVersion
    <2> QED BY <1>1, <1>a, <2>2
<1>2. CASE r \notin R
    <2>1. g[r] = f[r]
        BY <1>2 DEF Bumped
    <2> QED BY <1>2, <2>1
<1> QED BY <1>1, <1>2

\* Steps that do no more to the records than raise versions.
LEMMA BumpIsTold ==
    ASSUME SeenInv, NEW r \in Record, NEW R, rec' = Bumped(rec, R),
           r \notin R => Unseen(link, link', r) \/ Overlooked(link, link', r)
    PROVE  Told(r)
<1>a. PICK g : g = rec'
    OBVIOUS
<1>1. Row(rec[r]) /\ rec[r].ver \in Nat
    BY DEF SeenInv, LinkInv, GraphInv, Rows
<1>2. g[r].ver \in Nat /\ (r \in R => g[r].ver = rec[r].ver + 1) /\ (r \notin R => g[r] = rec[r])
    BY <1>1, <1>a, BumpedVersion
<1> QED BY <1>1, <1>2, <1>a DEF Told, Live

\* A deletion or a restoration raises the version of whatever it takes down or brings back.
LEMMA DatedIsTold ==
    ASSUME SeenInv, NEW r \in Record, NEW D, NEW R, D \subseteq R, NEW b \in BOOLEAN,
           rec' = Bumped([q \in Record |-> IF q \in D THEN [rec[q] EXCEPT !.dead = b] ELSE rec[q]], R),
           r \notin R => Unseen(link, link', r)
    PROVE  Told(r)
<1>a. PICK f, g, x, y : /\ f = [q \in Record |-> IF q \in D THEN [rec[q] EXCEPT !.dead = b] ELSE rec[q]]
                        /\ g = rec' /\ x = rec[r] /\ y = f[r]
    OBVIOUS
<1>1. Row(x) /\ x.ver \in Nat
    BY <1>a DEF SeenInv, LinkInv, GraphInv, Rows
<1>2. Row(y) /\ y.ver = x.ver /\ (r \notin D => y = x)
    <2>1. CASE r \in D
        <3>1. y = [x EXCEPT !.dead = b]
            BY <1>a, <2>1
        <3> QED BY <1>1, <2>1, <3>1, DatedRow, NextVersion
    <2>2. CASE r \notin D
        BY <1>1, <1>a, <2>2
    <2> QED BY <2>1, <2>2
<1>3. g = Bumped(f, R) /\ Row(f[r]) /\ f[r].ver \in Nat
    BY <1>1, <1>2, <1>a
<1>4. g[r].ver \in Nat /\ (r \in R => g[r].ver = f[r].ver + 1) /\ (r \notin R => g[r] = f[r])
    BY <1>3, BumpedVersion
<1>5. r \in R => g[r].ver > rec[r].ver
    BY <1>1, <1>2, <1>4, <1>a
<1>6. r \notin R => g[r] = rec[r]
    BY <1>2, <1>4, <1>a
<1> QED BY <1>4, <1>5, <1>6, <1>a DEF Told, Live

LEMMA EndedUnseen ==
    ASSUME LinkRows(link), NEW L, NEW n, NEW r, r \notin Ends(L)
    PROVE  Unseen(link, Ended(L, n), r)
<1>a. PICK g : g = Ended(L, n)
    OBVIOUS
<1>1. ASSUME NEW l \in LinkIds PROVE g[l] = link[l] \/ (~EndOf(g[l], r) /\ ~EndOf(link[l], r))
    <2>a. PICK x, y : x = link[l] /\ y = g[l]
        OBVIOUS
    <2>1. LinkRow(x)
        BY <2>a, RowsNumbered DEF LinkIds
    <2>2. CASE l \in L
        <3>1. y = [x EXCEPT !.state = "ended", !.at = n]
            BY <1>a, <2>2, <2>a DEF Ended
        <3>2. y.from = x.from /\ y.to = x.to
            BY <2>1, <3>1 DEF LinkRow
        <3>3. x.from # r /\ x.to # r
            BY <2>2, <2>a DEF Ends
        <3> QED BY <2>a, <3>2, <3>3 DEF EndOf
    <2>3. CASE l \notin L
        BY <1>a, <2>3 DEF Ended
    <2> QED BY <2>2, <2>3
<1>2. DOMAIN g = LinkIds
    BY <1>a DEF Ended
<1>3. Unseen(link, g, r)
    BY <1>1, <1>2 DEF Unseen, LinkIds
<1> QED BY <1>a, <1>3

LEMMA LinkTold ==
    ASSUME SeenInv, NEW rel, NEW f, NEW t, LinkRecords(rel, f, t), NEW r \in Record
    PROVE  Told(r)
<1>a. PICK now, C, R, x, ended : /\ now = clock + 1 /\ C = Conflicts(rel, f, t) /\ R = {f, t} \cup Ends(C)
                                 /\ x = NewLink(rel, f, t, None, now) /\ ended = Ended(C, now)
    OBVIOUS
<1>1. link' = Append(ended, x) /\ rec' = Bumped(rec, R) /\ now \in Nat
    BY <1>a DEF LinkRecords, SeenInv, LinkInv
<1>2. LinkRows(ended) /\ DOMAIN ended = LinkIds
    BY <1>1, <1>a, EndedRows DEF SeenInv, LinkInv
<1>3. x.from = f /\ x.to = t
    BY <1>a DEF NewLink
<1>4. \A l \in DOMAIN link' : link'[l] = x \/ (l \in DOMAIN ended /\ link'[l] = ended[l])
    <2>1. PICK S : ended \in Seq(S)
        BY <1>2 DEF LinkRows
    <2>2. ended \in Seq(S \cup {x}) /\ x \in S \cup {x}
        BY <2>1
    <2> QED BY <1>1, <2>2
<1>5. DOMAIN ended \subseteq DOMAIN link'
    <2>1. PICK S : ended \in Seq(S)
        BY <1>2 DEF LinkRows
    <2>2. ended \in Seq(S \cup {x}) /\ x \in S \cup {x}
        BY <2>1
    <2> QED BY <1>1, <2>2
<1>6. ASSUME r \notin R PROVE Unseen(link, link', r)
    <2>1. r \notin Ends(C) /\ r # f /\ r # t
        BY <1>6, <1>a
    <2>2. Unseen(link, ended, r)
        BY <1>a, <2>1, EndedUnseen DEF SeenInv, LinkInv
    <2>3. ~EndOf(x, r)
        BY <1>3, <2>1 DEF EndOf
    <2>4. ASSUME NEW l \in DOMAIN link', link'[l].state # "gone"
          PROVE  \/ l \in DOMAIN link /\ link'[l] = link[l]
                 \/ ~EndOf(link'[l], r) /\ (l \in DOMAIN link => ~EndOf(link[l], r))
        <3>1. CASE l \in DOMAIN ended /\ link'[l] = ended[l]
            BY <2>2, <2>4, <3>1 DEF Unseen
        <3>2. CASE link'[l] = x /\ l \notin DOMAIN ended
            BY <1>2, <2>3, <3>2 DEF LinkIds
        <3>3. CASE link'[l] = x /\ l \in DOMAIN ended
            <4>1. PICK S : ended \in Seq(S)
                BY <1>2 DEF LinkRows
            <4>2. ended \in Seq(S \cup {x}) /\ x \in S \cup {x}
                BY <4>1
            <4>3. link'[l] = ended[l]
                BY <1>1, <3>3, <4>2
            <4> QED BY <2>2, <2>4, <3>3, <4>3 DEF Unseen
        <3> QED BY <1>4, <3>1, <3>2, <3>3
    <2> QED BY <1>2, <1>5, <2>4 DEF Unseen, LinkIds
<1> QED BY <1>1, <1>6, BumpIsTold

LEMMA UnlinkTold ==
    ASSUME SeenInv, NEW rel, NEW f, NEW t, UnlinkRecords(rel, f, t), NEW r \in Record
    PROVE  Told(r)
<1>a. PICK L : L = {l \in Of(rel) : link[l].from = f /\ link[l].to = t}
    OBVIOUS
<1>1. link' = Ended(L, clock + 1) /\ rec' = Bumped(rec, {f, t})
    BY <1>a DEF UnlinkRecords
<1>2. Ends(L) \subseteq {f, t}
    BY <1>a DEF Ends
<1>3. r \notin {f, t} => Unseen(link, link', r)
    BY <1>1, <1>2, EndedUnseen DEF SeenInv, LinkInv
<1> QED BY <1>1, <1>3, BumpIsTold

LEMMA ProjectTold ==
    ASSUME SeenInv, NEW rel \in Projected, NEW o, NEW targets \in Targets, Project(o, rel, targets), NEW r \in Record
    PROVE  Told(r)
<1>a. PICK now, ending, moving :
         /\ now = clock + 1
         /\ ending = {l \in Mine(rel, o) : link[l].to \notin Named(targets)}
         /\ moving = {l \in Mine(rel, o) \ ending : link[l].pos # PlaceOf(link[l].to, targets) - 1}
    OBVIOUS
<1>g. PICK told : told = IF rel \in ToOne THEN ending ELSE ending \cup moving
    OBVIOUS
<1>d. PICK order \in Ascending(Fresh(rel, o, targets)) :
         LET wanted == {targets[i] : i \in DOMAIN targets}
             out == {l \in Mine(rel, o) : link[l].to \notin wanted}
             about == {l \in Mine(rel, o) \ out : link[l].pos # PlaceOf(link[l].to, targets) - 1}
             said == IF rel \in ToOne THEN out ELSE out \cup about
             new == CreatedFor(rel, o, targets, order)
             touched == {link[l].to : l \in said} \cup {new[i].to : i \in DOMAIN new}
         IN  /\ rec' = Bumped(rec, touched \cup {o})
             /\ link' = [l \in LinkIds |->
                            IF l \in about
                            THEN [link[l] EXCEPT !.pos = PlaceKept(rel, link[l].to, targets),
                                                 !.at = IF l \in said THEN clock + 1 ELSE @]
                            ELSE Ended(out, clock + 1)[l]] \o new
    BY Zenon DEF Project
<1>c. PICK f, new, R : /\ f = Placed(rel, targets, moving, told, ending, now) /\ new = CreatedFor(rel, o, targets, order)
                       /\ R = {link[l].to : l \in told} \cup {new[i].to : i \in DOMAIN new} \cup {o}
    OBVIOUS
<1>1. link' = f \o new
    BY <1>a, <1>c, <1>d, <1>g DEF Named, Placed
<1>2. rec' = Bumped(rec, R)
    BY <1>a, <1>c, <1>d, <1>g DEF Named
<1>3. now \in Nat /\ LinkRows(link) /\ Whole(link)
    BY <1>a DEF SeenInv, LinkInv
<1>4. LinkRows(f) /\ DOMAIN f = LinkIds
    BY <1>3, <1>a, <1>c, PlacedRows
<1>5. LinkRows(new) /\ \A i \in DOMAIN new : new[i].from = o
    BY <1>c, CreatedRows DEF SeenInv, LinkInv
<1>6. /\ DOMAIN f \subseteq DOMAIN link' /\ \A l \in DOMAIN f : link'[l] = f[l]
      /\ \A l \in DOMAIN link' \ DOMAIN f : \E i \in DOMAIN new : link'[l] = new[i]
    <2>a. PICK g : g = link'
        OBVIOUS
    <2>1. g = f \o new
        BY <1>1, <2>a
    <2>2. /\ DOMAIN f \subseteq DOMAIN g /\ \A l \in DOMAIN f : g[l] = f[l]
          /\ \A l \in DOMAIN g \ DOMAIN f : l - Len(f) \in DOMAIN new /\ g[l] = new[l - Len(f)]
        BY <1>4, <1>5, <2>1, RowsAdded
    <2> QED BY <2>2, <2>a
<1>7. ASSUME r \notin R PROVE Overlooked(link, link', r)
    <2>1. ASSUME NEW l \in DOMAIN f
          PROVE  SameLook(link[l], f[l]) \/ (~EndOf(f[l], r) /\ ~EndOf(link[l], r))
        <3>a. PICK x, y : x = link[l] /\ y = f[l]
            OBVIOUS
        <3>1. LinkRow(x) /\ l \in LinkIds
            BY <1>3, <1>4, <2>1, <3>a, RowsNumbered DEF LinkIds
        <3>2. CASE l \in moving /\ rel \notin ToOne
            <4>1. x.from = o /\ x.to \in R
                BY <1>a, <1>c, <1>g, <3>2, <3>a DEF Mine
            <4>2. y = [x EXCEPT !.pos = PlaceKept(rel, x.to, targets), !.at = now]
                BY <1>c, <1>g, <3>1, <3>2, <3>a DEF Placed
            <4>3. y.from = x.from /\ y.to = x.to
                BY <3>1, <4>2 DEF LinkRow
            <4> QED BY <1>7, <1>c, <3>a, <4>1, <4>3 DEF EndOf
        <3>5. CASE l \in moving /\ rel \in ToOne
            <4>1. x.rel = rel /\ l \notin told
                BY <1>a, <1>g, <3>5, <3>a DEF Mine, Of
            <4>2. y = [x EXCEPT !.pos = PlaceKept(rel, x.to, targets), !.at = x.at]
                BY <1>c, <3>1, <3>5, <3>a, <4>1 DEF Placed
            <4>3. y = [x EXCEPT !.pos = PlaceKept(rel, x.to, targets)]
                BY <3>1, <4>2 DEF LinkRow
            <4> QED BY <3>5, <3>a, <4>1, <4>3 DEF SameLook
        <3>3. CASE l \notin moving /\ l \in ending
            <4>1. x.from = o /\ x.to \in R
                BY <1>a, <1>c, <1>g, <3>3, <3>a DEF Mine
            <4>2. y = [x EXCEPT !.state = "ended", !.at = now]
                BY <1>c, <3>1, <3>3, <3>a DEF Placed, Ended
            <4>3. y.from = x.from /\ y.to = x.to
                BY <3>1, <4>2 DEF LinkRow
            <4> QED BY <1>7, <1>c, <3>a, <4>1, <4>3 DEF EndOf
        <3>4. CASE l \notin moving /\ l \notin ending
            BY <1>c, <3>1, <3>4 DEF Placed, Ended, SameLook
        <3> QED BY <3>2, <3>3, <3>4, <3>5
    <2>2. ASSUME NEW i \in DOMAIN new PROVE ~EndOf(new[i], r)
        BY <1>5, <1>7, <1>c DEF EndOf
    <2>3. ASSUME NEW l \in DOMAIN link'
          PROVE  \/ l \in DOMAIN link /\ SameLook(link[l], link'[l])
                 \/ ~EndOf(link'[l], r) /\ (l \in DOMAIN link => ~EndOf(link[l], r))
        <3>1. CASE l \in DOMAIN f
            BY <1>4, <1>6, <2>1, <3>1 DEF LinkIds
        <3>2. CASE l \notin DOMAIN f
            BY <1>4, <1>6, <2>2, <2>3, <3>2 DEF LinkIds
        <3> QED BY <3>1, <3>2
    <2> QED BY <1>4, <1>6, <2>3 DEF Overlooked, LinkIds
<1> QED BY <1>2, <1>7, BumpIsTold

LEMMA ValueTold ==
    ASSUME SeenInv, NEW o \in Record, NEW v, SetValue(o, v), NEW r \in Record
    PROVE  Told(r)
<1>a. PICK f, g : f = [rec EXCEPT ![o].val = v, ![o].set = clock + 1] /\ g = rec'
    OBVIOUS
<1>1. g = Bumped(f, {o}) /\ UNCHANGED link
    BY <1>a DEF SetValue
<1>2. Rows(rec) /\ \A q \in Record : rec[q].ver \in Nat
    BY DEF SeenInv, LinkInv, GraphInv
<1>3. f[r].ver = rec[r].ver /\ Row(f[r]) /\ (r # o => f[r] = rec[r])
    <2>1. CASE r = o
        <3>a. PICK x, y, n : x = rec[r] /\ y = f[r] /\ n = clock + 1
            OBVIOUS
        <3>1. y = [x EXCEPT !.val = v, !.set = n]
            BY <1>2, <1>a, <2>1, <3>a DEF Rows
        <3>2. PICK V : x \in RowIn(V)
            BY <1>2, <3>a DEF Rows, Row
        <3>3. y \in RowIn(V \cup {v, n}) /\ y.ver = x.ver
            BY <3>1, <3>2 DEF RowIn
        <3> QED BY <2>1, <3>a, <3>3 DEF Row
    <2>2. CASE r # o
        BY <1>2, <1>a, <2>2 DEF Rows
    <2> QED BY <2>1, <2>2
<1>4. f[r].ver \in Nat
    BY <1>2, <1>3
<1>5. g[r].ver \in Nat /\ (r \in {o} => g[r].ver = f[r].ver + 1) /\ (r \notin {o} => g[r] = f[r])
    BY <1>1, <1>3, <1>4, BumpedVersion
<1>6. Unseen(link, link', r)
    BY <1>1 DEF Unseen
<1>7. CASE r = o
    BY <1>2, <1>3, <1>5, <1>7, <1>a DEF Told
<1>8. CASE r # o
    <2>1. rec'[r] = rec[r]
        BY <1>3, <1>5, <1>8, <1>a
    <2> QED BY <1>2, <1>6, <2>1 DEF Told, Live
<1> QED BY <1>7, <1>8

LEMMA DeletionTold ==
    ASSUME SeenInv, NEW o \in Record, DeleteRecord(o), NEW r \in Record
    PROVE  Told(r)
<1>a. PICK D, L, R : D = Cascaded(o) \cup {o} /\ L = Touching(D) /\ R = D \cup (Ends(L) \ D)
    OBVIOUS
<1>1. /\ link' = Ended(L, clock + 1)
      /\ rec' = Bumped([q \in Record |-> IF q \in D THEN [rec[q] EXCEPT !.dead = TRUE] ELSE rec[q]], R)
    BY <1>a DEF DeleteRecord
<1>2. D \subseteq R /\ (r \notin R => r \notin Ends(L))
    BY <1>a
<1>3. r \notin R => Unseen(link, link', r)
    BY <1>1, <1>2, EndedUnseen DEF SeenInv, LinkInv
<1> QED BY <1>1, <1>2, <1>3, DatedIsTold

LEMMA RestorationTold ==
    ASSUME SeenInv, NEW o \in Record, RestoreRecord(o), NEW r \in Record
    PROVE  Told(r)
<1>a. PICK L, D, R : L = deletion[o].links /\ D = deletion[o].cascaded \cup {o} /\ R = D \cup (Ends(L) \ D)
    OBVIOUS
<1>1. /\ link' = [l \in LinkIds |-> IF l \in L THEN [link[l] EXCEPT !.state = "active", !.at = clock + 1]
                                    ELSE link[l]]
      /\ rec' = Bumped([q \in Record |-> IF q \in D THEN [rec[q] EXCEPT !.dead = FALSE] ELSE rec[q]], R)
    BY <1>a DEF RestoreRecord
<1>2. D \subseteq R /\ (r \notin R => r \notin Ends(L))
    BY <1>a
<1>3. ASSUME r \notin R PROVE Unseen(link, link', r)
    <2>1. ASSUME NEW l \in LinkIds PROVE link'[l] = link[l] \/ (~EndOf(link'[l], r) /\ ~EndOf(link[l], r))
        <3>a. PICK x, y, n : x = link[l] /\ y = link'[l] /\ n = clock + 1
            OBVIOUS
        <3>1. LinkRow(x)
            BY <3>a, RowsNumbered DEF LinkIds, SeenInv, LinkInv
        <3>2. CASE l \in L
            <4>1. y = [x EXCEPT !.state = "active", !.at = n]
                BY <1>1, <3>2, <3>a
            <4>2. y.from = x.from /\ y.to = x.to
                BY <3>1, <4>1 DEF LinkRow
            <4>3. x.from # r /\ x.to # r
                BY <1>2, <1>3, <3>2, <3>a DEF Ends
            <4> QED BY <3>a, <4>2, <4>3 DEF EndOf
        <3>3. CASE l \notin L
            BY <1>1, <3>3
        <3> QED BY <3>2, <3>3
    <2> QED BY <1>1, <2>1 DEF Unseen, LinkIds
<1> QED BY <1>1, <1>2, <1>3, DatedIsTold

LEMMA PurgeTold ==
    ASSUME SeenInv, NEW o \in Record, Purge(o), NEW r \in Record
    PROVE  Told(r)
<1>1. /\ rec' = [rec EXCEPT ![o].exists = FALSE] /\ rec[o].dead
      /\ link' = [l \in LinkIds |-> IF o \in {link[l].from, link[l].to}
                                    THEN [link[l] EXCEPT !.state = "gone"] ELSE link[l]]
    BY DEF Purge
<1>2. Rows(rec) /\ rec[r].ver \in Nat
    BY DEF SeenInv, LinkInv, GraphInv
<1>3. CASE r = o
    <2>a. PICK x, y : x = rec[r] /\ y = rec'[r]
        OBVIOUS
    <2>1. Row(x) /\ y = [x EXCEPT !.exists = FALSE]
        BY <1>1, <1>2, <1>3, <2>a DEF Rows
    <2>2. y.ver = x.ver
        BY <1>2, <2>1, <2>a, NextVersion
    <2> QED BY <1>1, <1>2, <1>3, <2>2, <2>a DEF Told, Live
<1>4. CASE r # o
    <2>1. rec'[r] = rec[r]
        BY <1>1, <1>2, <1>4 DEF Rows
    <2>2. ASSUME NEW l \in LinkIds, link'[l].state # "gone" PROVE link'[l] = link[l]
        <3>a. PICK x, y : x = link[l] /\ y = link'[l]
            OBVIOUS
        <3>1. LinkRow(x)
            BY <3>a, RowsNumbered DEF LinkIds, SeenInv, LinkInv
        <3>2. CASE o \in {x.from, x.to}
            <4>1. y = [x EXCEPT !.state = "gone"]
                BY <1>1, <3>2, <3>a
            <4>2. y.state = "gone"
                BY <3>1, <4>1 DEF LinkRow
            <4> QED BY <2>2, <3>a, <4>2
        <3>3. CASE o \notin {x.from, x.to}
            BY <1>1, <3>3, <3>a
        <3> QED BY <3>2, <3>3
    <2>3. Unseen(link, link', r)
        BY <1>1, <2>2 DEF Unseen, LinkIds
    <2> QED BY <1>2, <2>1, <2>3 DEF Told, Live
<1> QED BY <1>3, <1>4

LEMMA GraphTold ==
    ASSUME SeenInv, GraphNext, NEW r \in Record
    PROVE  Told(r)
<1>1. ASSUME NEW o \in Record, AddListEntry(o) \/ RemoveListEntry(o) PROVE Told(r)
    <2>1. UNCHANGED <<rec, link>>
        BY <1>1 DEF AddListEntry, RemoveListEntry
    <2> QED BY <2>1 DEF Told, Live, Unseen, SeenInv
<1> QED BY <1>1, LinkTold, UnlinkTold, ProjectTold, ValueTold, DeletionTold, RestorationTold, PurgeTold DEF GraphNext

LEMMA MergeTold ==
    ASSUME SeenInv, NEW s \in Record, NEW losers \in Losers, NEW choice, Merge(s, losers, choice), NEW r \in Record
    PROVE  Told(r)
<1>a. PICK plan, now, v, T, f, g : /\ plan = LinkPlan(s, losers) /\ now = clock + 1 /\ v = PlannedValue(s, losers, choice)
                                   /\ T = LinkTouched(plan, s, losers) /\ f = Bumped(rec, T) /\ g = link'
    OBVIOUS
<1>1. /\ g = LinksAfterMerge(plan, now) /\ rec' = RecordsAfterMerge(s, losers, v, plan)
      /\ now \in Nat /\ LinkRows(link)
    BY <1>a DEF Merge, SeenInv, LinkInv
<1>2. ElemsOf(losers) \subseteq Record /\ None \notin Record
    BY GraphAssumption DEF Losers, ElemsOf, GraphAssumption
<1>3. Rows(rec) /\ rec[r].ver \in Nat
    BY DEF SeenInv, LinkInv, GraphInv
<1>b. PICK x, y, z : x = rec[r] /\ y = f[r] /\ z = rec'[r]
    OBVIOUS
<1>4. y.ver \in Nat /\ y.ver >= x.ver /\ Row(y) /\ (r \notin T => y = x)
    <2>1. y.ver \in Nat /\ y.ver >= x.ver /\ (r \in T => y.ver = x.ver + 1) /\ (r \notin T => y = x)
        BY <1>3, <1>a, <1>b, BumpedVersion DEF Rows
    <2>2. Row(f[r])
        BY <1>3, <1>a, BumpedRows DEF Rows
    <2> QED BY <1>b, <2>1, <2>2
<1>c. PICK n, t : n = y.ver + 1 /\ t = IF v # rec[s].val THEN clock + 1 ELSE y.set
    OBVIOUS
<1>5. CASE r = s \/ r \in ElemsOf(losers)
    <2>1. z = AsSurvivor(y, v, n, t) \/ z = AsLoser(y, s, n)
        BY <1>1, <1>5, <1>a, <1>b, <1>c DEF RecordsAfterMerge, AsSurvivor, AsLoser
    <2>2. z.ver = n
        BY <1>4, <2>1, NextVersion
    <2> QED BY <1>3, <1>4, <1>b, <1>c, <2>2 DEF Told
<1>6. CASE r # s /\ r \notin ElemsOf(losers)
    <2>1. z = Redirected(y, s) \/ z = y
        BY <1>1, <1>6, <1>a, <1>b DEF RecordsAfterMerge, Redirected
    <2>2. z.ver = y.ver
        BY <1>4, <2>1, NextVersion
    <2>3. z.ver \in Nat /\ z.ver >= x.ver
        BY <1>4, <2>2
    <2>4. Live(r) => z = y
        BY <1>1, <1>2, <1>6, <1>a, <1>b DEF RecordsAfterMerge, Live
    <2>5. CASE r \in T
        <3>1. y.ver = x.ver + 1
            BY <1>3, <1>a, <1>b, <2>5, BumpedVersion DEF Rows
        <3> QED BY <1>3, <1>b, <2>2, <2>3, <3>1 DEF Told
    <2>6. CASE r \notin T
        <3>1. ASSUME NEW l \in LinkIds PROVE g[l] = link[l] \/ (~EndOf(g[l], r) /\ ~EndOf(link[l], r))
            <4>a. PICK p, q : p = link[l] /\ q = g[l]
                OBVIOUS
            <4>1. LinkRow(p)
                BY <1>1, <4>a, RowsNumbered DEF LinkIds
            <4>2. \A k \in plan.ending \cup DOMAIN plan.final : link[k].from # r /\ link[k].to # r
                BY <1>a, <2>6 DEF LinkTouched, Ends
            <4>3. CASE l \in plan.ending
                <5>1. q = [p EXCEPT !.state = "ended", !.at = now]
                    BY <1>1, <4>3, <4>a DEF LinksAfterMerge
                <5>2. q.from = p.from /\ q.to = p.to
                    BY <4>1, <5>1 DEF LinkRow
                <5> QED BY <4>2, <4>3, <4>a, <5>2 DEF EndOf
            <4>4. CASE l \notin plan.ending /\ l \in DOMAIN plan.final
                <5>1. q = [p EXCEPT !.from = plan.final[l].from, !.to = plan.final[l].to, !.pos = plan.final[l].pos,
                                    !.at = now]
                    BY <1>1, <4>4, <4>a DEF LinksAfterMerge
                <5>2. q.from = plan.final[l].from /\ q.to = plan.final[l].to
                    BY <4>1, <5>1 DEF LinkRow
                <5>3. plan.final[l].from = Final(p.from, s, losers) /\ plan.final[l].to = Final(p.to, s, losers)
                    BY <1>a, <4>4, <4>a DEF LinkPlan, FinalFrom, FinalTo
                <5>4. Final(p.from, s, losers) \in T /\ Final(p.to, s, losers) \in T
                    BY <1>a, <4>4, <4>a DEF LinkTouched, Ends
                <5>5. q.from # r /\ q.to # r
                    BY <2>6, <5>2, <5>3, <5>4
                <5> QED BY <4>2, <4>4, <4>a, <5>5 DEF EndOf
            <4>5. CASE l \notin plan.ending /\ l \notin DOMAIN plan.final
                BY <1>1, <4>5 DEF LinksAfterMerge
            <4> QED BY <4>3, <4>4, <4>5
        <3>2. DOMAIN g = LinkIds
            BY <1>1 DEF LinksAfterMerge
        <3>3. Unseen(link, g, r)
            BY <3>1, <3>2 DEF Unseen, LinkIds
        <3>4. Live(r) => rec'[r] = rec[r]
            BY <1>4, <1>b, <2>4, <2>6
        <3> QED BY <1>a, <1>b, <2>3, <3>3, <3>4 DEF Told, Live
    <2> QED BY <2>5, <2>6
<1> QED BY <1>5, <1>6

LEMMA UnmergeTold ==
    ASSUME SeenInv, NEW i \in DOMAIN merges, Unmerge(i), NEW r \in Record
    PROVE  Told(r)
<1>a. PICK m, g, T : m = merges[i] /\ g = link' /\ T = UnmergeTouched(m)
    OBVIOUS
<1>1. g = LinksAfterUnmerge(m) /\ rec' = RecordsAfterUnmerge(m) /\ LinkRows(link)
    BY <1>a DEF Unmerge, SeenInv, LinkInv
<1>2. Row(rec[r]) /\ rec[r].ver \in Nat
    BY DEF SeenInv, LinkInv, GraphInv, Rows
<1>b. PICK x, z, v, t, b, into, n :
         /\ x = rec[r] /\ z = rec'[r] /\ v = ValueAfterUnmerge(m, r)
         /\ t = (IF r = m.survivor /\ v # x.val THEN clock + 1 ELSE x.set)
         /\ b = (x.dead /\ r \notin ElemsOf(m.losers))
         /\ into = (IF r \in ElemsOf(m.losers) THEN None
                    ELSE IF r \in Chained(m) THEN LastMergeBefore(r, m) ELSE x.into)
         /\ n = (IF r \in T THEN x.ver + 1 ELSE x.ver)
    OBVIOUS
<1>3. z = [x EXCEPT !.val = v, !.set = t, !.dead = b, !.into = into, !.ver = n]
    BY <1>1, <1>a, <1>b DEF RecordsAfterUnmerge
<1>4. z.ver = n /\ z.val = v /\ z.into = into /\ z.dead = b /\ z.exists = x.exists
    <2>1. PICK V : x \in RowIn(V)
        BY <1>2, <1>b DEF Row
    <2> QED BY <1>3, <2>1 DEF RowIn
<1>5. n \in Nat /\ (r \in T => n > x.ver)
    BY <1>2, <1>b
<1>6. CASE r \in T
    BY <1>4, <1>5, <1>6, <1>b DEF Told
<1>7. CASE r \notin T
    <2>1. r # m.survivor /\ r \notin ElemsOf(m.losers) /\ r \notin Chained(m)
        BY <1>7, <1>a DEF UnmergeTouched
    <2>2. v = x.val /\ into = x.into /\ b = x.dead
        <3>1. x.dead \in BOOLEAN
            BY <1>2, <1>b DEF Row, RowIn
        <3> QED BY <1>b, <2>1, <3>1 DEF ValueAfterUnmerge
    <2>3. ASSUME NEW l \in LinkIds PROVE g[l] = link[l] \/ (~EndOf(g[l], r) /\ ~EndOf(link[l], r))
        <3>a. PICK p, q, now, f, w, c : /\ p = link[l] /\ q = g[l] /\ now = clock + 1 /\ f = Original(m, l).from
                                     /\ w = Original(m, l).to /\ c = Original(m, l).pos
            OBVIOUS
        <3>1. LinkRow(p)
            BY <1>1, <3>a, RowsNumbered DEF LinkIds
        <3>2. l \in Restoring(m) \cup Adjusted(m) => p.from # r /\ p.to # r
            BY <1>7, <1>a, <3>a DEF UnmergeTouched, Ends
        <3>3. CASE l \in Restoring(m)
            <4>1. q = [p EXCEPT !.from = f, !.to = w, !.pos = c, !.state = "active", !.at = now]
                BY <1>1, <3>3, <3>a DEF LinksAfterUnmerge
            <4>2. q.from = f /\ q.to = w
                BY <3>1, <4>1 DEF LinkRow
            <4>3. f # r /\ w # r
                BY <1>7, <1>a, <3>3, <3>a DEF UnmergeTouched
            <4> QED BY <3>2, <3>3, <3>a, <4>2, <4>3 DEF EndOf
        <3>4. CASE l \notin Restoring(m) /\ l \in Adjusted(m)
            <4>1. q = [p EXCEPT !.pos = AdjustedPos(m, l), !.at = now]
                BY <1>1, <3>4, <3>a DEF LinksAfterUnmerge
            <4>2. q.from = p.from /\ q.to = p.to
                BY <3>1, <4>1 DEF LinkRow
            <4> QED BY <3>2, <3>4, <3>a, <4>2 DEF EndOf
        <3>5. CASE l \notin Restoring(m) /\ l \notin Adjusted(m)
            BY <1>1, <3>5 DEF LinksAfterUnmerge
        <3> QED BY <3>3, <3>4, <3>5
    <2>4. DOMAIN g = LinkIds
        BY <1>1 DEF LinksAfterUnmerge
    <2>5. Unseen(link, g, r)
        BY <2>3, <2>4 DEF Unseen, LinkIds
    <2> QED BY <1>4, <1>5, <1>a, <1>b, <2>2, <2>5 DEF Told, Live
<1> QED BY <1>6, <1>7

LEMMA EveryStepTells ==
    ASSUME SeenInv, [Next]_vars, NEW r \in Record
    PROVE  Told(r)
<1>1. CASE Next
    <2>1. ASSUME GraphNext PROVE Told(r)
        BY <2>1, GraphTold
    <2>2. ASSUME NEW s \in Record, NEW losers \in Losers, NEW choice, Merge(s, losers, choice) PROVE Told(r)
        BY <2>2, MergeTold
    <2>3. ASSUME NEW i \in DOMAIN merges, Unmerge(i) PROVE Told(r)
        BY <2>3, UnmergeTold
    <2> QED BY <1>1, <2>1, <2>2, <2>3 DEF Next
<1>2. CASE UNCHANGED vars
    BY <1>2 DEF vars, Told, Live, Unseen, SeenInv
<1> QED BY <1>1, <1>2

\* What VersionSeesChange compares of a link.
Look(x, k) == [x EXCEPT !.at = k, !.pos = IF x.rel \in ToOne THEN None ELSE @]

LEMMA LooksTheSame ==
    ASSUME NEW x, LinkRow(x), NEW y, SameLook(x, y), NEW k
    PROVE  y.state = x.state /\ y.from = x.from /\ y.to = x.to /\ Look(y, k) = Look(x, k)
<1>1. ASSUME NEW p, y = [x EXCEPT !.pos = p], x.rel \in ToOne
      PROVE  y.state = x.state /\ y.from = x.from /\ y.to = x.to /\ Look(y, k) = Look(x, k)
    BY <1>1 DEF LinkRow, Look
<1> QED BY <1>1 DEF SameLook

LEMMA SeenInvStep == SeenInv /\ [Next]_vars => SeenInv'
<1> SUFFICES ASSUME SeenInv, [Next]_vars PROVE SeenInv'
    OBVIOUS
<1>1. LinkInv'
    BY LinkInvStep DEF SeenInv
<1>2. \A r \in Record : rec'[r].ver \in Nat
    BY EveryStepTells DEF Told
<1> QED BY <1>1, <1>2 DEF SeenInv

\* Optimistic concurrency rests on this: whoever has read a record and changes it later names the version read.  No
\* link, projection, cascade, restoration, merge or unmerge of whatever records changes the value, the liveness or
\* the links of a record (the place of a link where the relation is ordered) without a new version, at both ends
\* of each link (bumpVersions in
\* links/mutate.ts, deleteLinks and restoreLinks in links/projection-lifecycle.ts, bumpMergeRecords in merge/execute.ts,
\* executeUnmerge in merge/unmerge.ts).
THEOREM ChangesRaiseVersions == Spec => VersionSeesChange
<1> DEFINE mine(rows, r) == {[rows[l] EXCEPT !.at = l, !.pos = IF rows[l].rel \in ToOne THEN None ELSE @] :
                                l \in {k \in DOMAIN rows : /\ rows[k].state = "active"
                                                         /\ link'[k].state # "gone"
                                                         /\ r \in {rows[k].from, rows[k].to}}}
<1>1. ASSUME SeenInv, [Next]_vars, NEW r \in Record, Live(r), rec'[r].exists
      PROVE  \/ rec'[r].ver > rec[r].ver
             \/ rec'[r].val = rec[r].val /\ Live(r)' /\ mine(link', r) = mine(link, r)
    <2>1. Told(r)
        BY <1>1, EveryStepTells
    <2>2. ASSUME Unseen(link, link', r) \/ Overlooked(link, link', r) PROVE mine(link', r) = mine(link, r)
        <3>a. PICK g : g = link'
            OBVIOUS
        <3> DEFINE seen(rows) == {k \in DOMAIN rows : /\ rows[k].state = "active" /\ g[k].state # "gone"
                                                     /\ r \in {rows[k].from, rows[k].to}}
        <3>0. Overlooked(link, g, r)
            BY <2>2, <3>a DEF Unseen, Overlooked, SameLook
        <3>1. ASSUME NEW k \in DOMAIN link, SameLook(link[k], g[k])
              PROVE  /\ g[k].state = link[k].state /\ (EndOf(g[k], r) <=> EndOf(link[k], r))
                     /\ Look(g[k], k) = Look(link[k], k)
            <4>a. PICK x, y : x = link[k] /\ y = g[k]
                OBVIOUS
            <4>1. LinkRow(x) /\ SameLook(x, y)
                BY <1>1, <3>1, <4>a, RowsNumbered DEF SeenInv, LinkInv
            <4>2. y.state = x.state /\ y.from = x.from /\ y.to = x.to /\ Look(y, k) = Look(x, k)
                BY <4>1, LooksTheSame
            <4> QED BY <4>2, <4>a DEF EndOf
        <3>2. \A k : k \in seen(g) <=> k \in seen(link)
            BY <3>0, <3>1 DEF Overlooked, EndOf
        <3>3. \A k \in seen(g) : Look(g[k], k) = Look(link[k], k)
            BY <3>0, <3>1 DEF Overlooked, EndOf
        <3>4. {Look(g[k], k) : k \in seen(g)} = {Look(link[k], k) : k \in seen(link)}
            BY <3>2, <3>3
        <3>5. mine(g, r) = {Look(g[k], k) : k \in seen(g)} /\ mine(link, r) = {Look(link[k], k) : k \in seen(link)}
            BY <3>a DEF Look
        <3> QED BY <3>4, <3>5, <3>a
    <2> QED BY <1>1, <2>1, <2>2 DEF Told
<1>2. SeenInv /\ [Next]_vars =>
         [\A r \in Record : Live(r) /\ rec'[r].exists =>
              \/ rec'[r].ver > rec[r].ver
              \/ rec'[r].val = rec[r].val /\ Live(r)' /\ mine(link', r) = mine(link, r)]_vars
    BY <1>1
<1>3. Init => SeenInv
    <2> SUFFICES ASSUME Init PROVE \A r \in Record : rec[r].ver \in Nat
        BY InitLinks DEF SeenInv
    <2>1. PICK w : rec = [r \in Record |-> [exists |-> TRUE, dead |-> FALSE, into |-> None,
                                            val |-> w.val[r], set |-> 0, ver |-> 1]]
        BY DEF Init
    <2> QED BY <2>1
<1> QED BY <1>2, <1>3, SeenInvStep, PTL DEF Spec, VersionSeesChange
====
