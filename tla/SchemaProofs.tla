---------------------------- MODULE SchemaProofs -----------------------------
(***************************************************************************)
(* What holds for any definitions, calls and loaders of Schema: a cached   *)
(* schema is of one version, a reference owns one relation, and the event  *)
(* of a change names the types it shows at; for any tables, filters, sort  *)
(* keys and pages of Query and any writes, notes and timelines of History: *)
(* rows that stay are shown once; and what History answers for an instant  *)
(* is what was.                                                            *)
(***************************************************************************)
EXTENDS Schema, Query, History, FiniteSetTheorems, WellFoundedInduction, TLAPS

-----------------------------------------------------------------------------
(* Schema: the cache *)

\* A load that is still of the present version has read the present definitions.
LoadFollows(m, v, l) ==
    /\ l = [version |-> l.version, types |-> l.types, others |-> l.others, left |-> l.left]
    /\ l.version \in Nat /\ l.version <= v
    /\ l.version = v /\ l.types # None => l.types = Types(m)
    /\ l.version = v /\ l.others # None => l.others = Others(m)

LoadInv ==
    /\ version \in Nat
    /\ load = [l \in Loaders |-> load[l]]
    /\ \A l \in Loaders : load[l] # None => LoadFollows(tables, version, load[l])

LEMMA CommitKeepsLoads ==
    ASSUME LoadInv, version' = version + 1, UNCHANGED load PROVE LoadInv'
<1>1. version' \in Nat /\ load' = [l \in Loaders |-> load'[l]]
    BY DEF LoadInv
<1>2. ASSUME NEW l \in Loaders, load'[l] # None PROVE LoadFollows(tables', version', load'[l])
    BY <1>2 DEF LoadInv, LoadFollows
<1> QED BY <1>1, <1>2 DEF LoadInv

LEMMA QuietKeepsLoads ==
    ASSUME LoadInv, UNCHANGED <<tables, version, load>> PROVE LoadInv'
BY DEF LoadInv

\* What a definition transaction does: nothing the loads read, or a new version.
LEMMA DefinitionSteps ==
    ASSUME NEW c \in Callers,
           \/ \E call \in Calls : Begin(c, call)
           \/ Abort(c) \/ NothingToAdd(c)
           \/ DefineObject(c) \/ ArchiveObject(c) \/ UpdateObject(c)
           \/ DefineAttribute(c) \/ UpdateAttribute(c) \/ ArchiveAttribute(c)
           \/ DefineDerived(c) \/ UpdateDerived(c) \/ EnsureSystemAttributes(c)
           \/ DefineRelation(c) \/ UpdateRelation(c) \/ ArchiveRelation(c) \/ UseTemplate(c)
           \/ DefineGroup(c) \/ ReorderGroups(c) \/ ArchiveAttributeGroup(c)
           \/ DefinePipeline(c) \/ UpdatePipeline(c) \/ DefineList(c)
    PROVE  /\ UNCHANGED <<cache, load>>
           /\ version' = version + 1 \/ UNCHANGED <<tables, version>>
<1>1. CASE \E call \in Calls : Begin(c, call)
    BY <1>1 DEF Begin
<1>2. CASE Abort(c) \/ NothingToAdd(c)
    BY <1>2 DEF Abort, NothingToAdd
<1>3. CASE DefineObject(c) \/ ArchiveObject(c) \/ UpdateObject(c)
    BY <1>3 DEF DefineObject, ArchiveObject, UpdateObject, Finish
<1>4. CASE DefineAttribute(c) \/ UpdateAttribute(c) \/ ArchiveAttribute(c)
    BY <1>4 DEF DefineAttribute, UpdateAttribute, ArchiveAttribute, Finish
<1>5. CASE DefineDerived(c) \/ UpdateDerived(c) \/ EnsureSystemAttributes(c)
    BY <1>5 DEF DefineDerived, UpdateDerived, EnsureSystemAttributes, Finish
<1>6. CASE DefineRelation(c) \/ UpdateRelation(c) \/ ArchiveRelation(c) \/ UseTemplate(c)
    BY <1>6 DEF DefineRelation, UpdateRelation, ArchiveRelation, UseTemplate, Finish
<1>7. CASE DefineGroup(c) \/ ReorderGroups(c) \/ ArchiveAttributeGroup(c)
    BY <1>7 DEF DefineGroup, ReorderGroups, ArchiveAttributeGroup, Finish
<1>8. CASE DefinePipeline(c) \/ UpdatePipeline(c) \/ DefineList(c)
    BY <1>8 DEF DefinePipeline, UpdatePipeline, DefineList, Finish
<1> QED BY <1>1, <1>2, <1>3, <1>4, <1>5, <1>6, <1>7, <1>8

LEMMA LoadStep == LoadInv /\ [Next]_vars => LoadInv'
<1> SUFFICES ASSUME LoadInv, [Next]_vars PROVE LoadInv'
    OBVIOUS
<1>1. ASSUME UNCHANGED <<tables, version>>, NEW l \in Loaders, NEW now_, load' = [load EXCEPT ![l] = now_],
             now_ # None => LoadFollows(tables, version, now_)
      PROVE  LoadInv'
    <2>1. version' \in Nat /\ load' = [k \in Loaders |-> load'[k]]
        BY <1>1 DEF LoadInv
    <2>2. ASSUME NEW k \in Loaders, load'[k] # None PROVE LoadFollows(tables', version', load'[k])
        BY <1>1, <2>2 DEF LoadInv
    <2> QED BY <2>1, <2>2 DEF LoadInv
<1>2. ASSUME NEW l \in Loaders, LoadBegin(l) PROVE LoadInv'
    <2>1. LoadFollows(tables, version, [version |-> version, types |-> None, others |-> None, left |-> Attempts])
        BY DEF LoadFollows, LoadInv
    <2> QED BY <1>1, <1>2, <2>1 DEF LoadBegin
<1>3. ASSUME NEW l \in Loaders, LoadTypes(l) PROVE LoadInv'
    <2>1. LoadFollows(tables, version, [load[l] EXCEPT !.types = Types(tables)])
        BY <1>3 DEF LoadFollows, LoadInv, LoadTypes
    <2> QED BY <1>1, <1>3, <2>1 DEF LoadTypes
<1>4. ASSUME NEW l \in Loaders, LoadOthers(l) PROVE LoadInv'
    <2>1. LoadFollows(tables, version, [load[l] EXCEPT !.others = Others(tables)])
        BY <1>4 DEF LoadFollows, LoadInv, LoadOthers
    <2> QED BY <1>1, <1>4, <2>1 DEF LoadOthers
<1>5. ASSUME NEW l \in Loaders, LoadEnds(l) PROVE LoadInv'
    BY <1>1, <1>5 DEF LoadEnds
<1>6. ASSUME NEW l \in Loaders, LoadRetries(l) PROVE LoadInv'
    <2> DEFINE again == [version |-> version, types |-> None, others |-> None, left |-> load[l].left - 1]
    <2>1. LoadFollows(tables, version, again)
        BY DEF LoadFollows, LoadInv
    <2>2. load' = [load EXCEPT ![l] = IF load[l].left = 1 THEN None ELSE again]
        BY <1>6 DEF LoadRetries
    <2> HIDE DEF again
    <2> QED BY <1>1, <1>6, <2>1, <2>2 DEF LoadRetries
<1>7. CASE UNCHANGED vars
    BY <1>7, QuietKeepsLoads DEF vars
<1> QED BY <1>2, <1>3, <1>4, <1>5, <1>6, <1>7, DefinitionSteps, CommitKeepsLoads, QuietKeepsLoads DEF Next

\* However definitions of any kind commit between the reads of any number of loads, what is
\* cached under a version are the definitions of that version (loadSchemaFromSource).
THEOREM CachedWhole == Spec => CacheIsOneVersion
<1>1. Init => LoadInv
    BY DEF Init, LoadInv
<1>2. LoadInv /\ [Next]_vars => LoadInv'
    BY LoadStep
<1>3. LoadInv /\ [Next]_vars =>
        [ cache' # cache => /\ cache'.version = version
                            /\ cache'.types = Types(tables) /\ cache'.others = Others(tables) ]_vars
    <2> SUFFICES ASSUME LoadInv, Next, cache' # cache
                 PROVE  /\ cache'.version = version
                        /\ cache'.types = Types(tables) /\ cache'.others = Others(tables)
        BY DEF vars
    <2>1. PICK l \in Loaders : LoadEnds(l)
        BY DefinitionSteps DEF Next, LoadBegin, LoadTypes, LoadOthers, LoadRetries
    <2>2. cache' = [version |-> load[l].version, types |-> load[l].types, others |-> load[l].others]
        BY <2>1 DEF LoadEnds, Cached
    <2>3. load[l].version = version /\ load[l].types = Types(tables) /\ load[l].others = Others(tables)
        BY <2>1 DEF LoadEnds, Complete, LoadInv, LoadFollows
    <2> QED BY <2>2, <2>3
<1> QED BY <1>1, <1>2, <1>3, PTL DEF Spec, CacheIsOneVersion

-----------------------------------------------------------------------------
(* Sorting: an order is a set of pairs. *)

StrictOn(R, S) == \A x, y, z \in S : /\ <<x, x>> \notin R
                                     /\ <<x, y>> \in R /\ <<y, z>> \in R => <<x, z>> \in R
TotalOn(R, S) == \A x, y \in S : x = y \/ <<x, y>> \in R \/ <<y, x>> \in R
RankIn(S, R, x) == Cardinality({y \in S : <<y, x>> \in R})

\* Fewer elements precede the earlier of two.
LEMMA RanksGrow ==
    ASSUME NEW S, IsFiniteSet(S), NEW R, StrictOn(R, S), NEW x \in S
    PROVE  /\ RankIn(S, R, x) \in 0 .. Cardinality(S) - 1
           /\ \A y \in S : <<x, y>> \in R => RankIn(S, R, x) < RankIn(S, R, y)
<1> DEFINE before(y) == {z \in S : <<z, y>> \in R}
<1>1. \A y \in S : before(y) \subseteq S /\ y \notin before(y)
    BY DEF StrictOn
<1>2. ASSUME NEW T, NEW U, T \subseteq U, U \subseteq S, NEW z \in U, z \notin T
      PROVE  IsFiniteSet(T) /\ Cardinality(T) < Cardinality(U)
    <2>1. IsFiniteSet(U)
        BY <1>2, FS_Subset
    <2>2. IsFiniteSet(T) /\ Cardinality(T) <= Cardinality(U) /\ T # U /\ (Cardinality(U) = Cardinality(T) => U = T)
        BY <1>2, <2>1, FS_Subset
    <2>3. Cardinality(T) \in Nat /\ Cardinality(U) \in Nat
        BY <2>1, <2>2, FS_CardinalityType
    <2> QED BY <2>2, <2>3
<1>3. RankIn(S, R, x) \in 0 .. Cardinality(S) - 1
    <2>1. IsFiniteSet(before(x)) /\ Cardinality(before(x)) < Cardinality(S)
        BY <1>1, <1>2
    <2>2. Cardinality(before(x)) \in Nat /\ Cardinality(S) \in Nat
        BY <2>1, FS_CardinalityType
    <2> QED BY <2>1, <2>2 DEF RankIn
<1>4. ASSUME NEW y \in S, <<x, y>> \in R PROVE RankIn(S, R, x) < RankIn(S, R, y)
    <2>1. before(x) \subseteq before(y) /\ x \in before(y) /\ x \notin before(x) /\ before(y) \subseteq S
        BY <1>4 DEF StrictOn
    <2> HIDE DEF before
    <2>2. Cardinality(before(x)) < Cardinality(before(y))
        BY <1>2, <2>1
    <2> QED BY <2>2 DEF RankIn, before
<1> QED BY <1>3, <1>4

\* Every place of a sorted set is some element's.
LEMMA RanksReached ==
    ASSUME NEW S, IsFiniteSet(S), NEW R, StrictOn(R, S), TotalOn(R, S), NEW k \in 1 .. Cardinality(S)
    PROVE  \E x \in S : RankIn(S, R, x) = k - 1
<1> DEFINE f == [x \in S |-> RankIn(S, R, x)]
           T == {f[x] : x \in S}
<1>1. \A x, y \in S : x # y => f[x] # f[y]
    <2> SUFFICES ASSUME NEW x \in S, NEW y \in S, x # y PROVE f[x] # f[y]
        OBVIOUS
    <2> HIDE DEF T, f
    <2>1. RankIn(S, R, x) \in Int /\ RankIn(S, R, y) \in Int
        BY RanksGrow
    <2>2. CASE <<x, y>> \in R
        BY <2>1, <2>2, RanksGrow DEF f
    <2>3. CASE <<y, x>> \in R
        BY <2>1, <2>3, RanksGrow DEF f
    <2> QED BY <2>2, <2>3 DEF TotalOn
<1>2. f \in Bijection(S, T)
    BY <1>1 DEF Bijection, Injection, Surjection, IsInjective
<1>3. Cardinality(T) = Cardinality(S)
    <2> HIDE DEF f, T
    <2> QED BY <1>2, FS_Bijection DEF ExistsBijection
<1>4. Cardinality(S) \in Nat
    BY FS_CardinalityType
<1>5. T \subseteq 0 .. Cardinality(S) - 1
    BY RanksGrow
<1>6. T = 0 .. Cardinality(S) - 1
    <2> HIDE DEF T
    <2>0. PICK n : n = Cardinality(S)
        OBVIOUS
    <2>a. PICK m \in Int : m = n - 1
        BY <1>4, <2>0
    <2>b. IsFiniteSet(0 .. m) /\ Cardinality(0 .. m) = IF 0 > m THEN 0 ELSE m - 0 + 1
        BY FS_Interval
    <2>1. IsFiniteSet(0 .. n - 1) /\ Cardinality(0 .. n - 1) = n
        BY <1>4, <2>0, <2>a, <2>b
    <2> QED BY <1>3, <1>5, <2>0, <2>1, FS_Subset
<1>7. k - 1 \in T
    <2> HIDE DEF T
    <2> QED BY <1>4, <1>6
<1> QED BY <1>7

AtRanks(s, S, R) == s \in [1 .. Cardinality(S) -> S] /\ \A k \in 1 .. Cardinality(S) : RankIn(S, R, s[k]) = k - 1
Increasing(s, R) == \A i, j \in 1 .. Len(s) : i < j => <<s[i], s[j]>> \in R
Lists(s, x) == \E i \in 1 .. Len(s) : s[i] = x

\* What puts every element at its rank is the set in order.
LEMMA RanksSort ==
    ASSUME NEW S, IsFiniteSet(S), NEW R, StrictOn(R, S), TotalOn(R, S),
           NEW s, AtRanks(s, S, R)
    PROVE  s \in Seq(S) /\ Len(s) = Cardinality(S) /\ Increasing(s, R) /\ \A x \in S : Lists(s, x)
<1>1. Cardinality(S) \in Nat
    BY FS_CardinalityType
<1>2. s \in Seq(S) /\ Len(s) = Cardinality(S) /\ \A k \in 1 .. Cardinality(S) : RankIn(S, R, s[k]) = k - 1
    BY <1>1 DEF AtRanks
<1>3. ASSUME NEW i \in 1 .. Len(s), NEW j \in 1 .. Len(s), i < j PROVE <<s[i], s[j]>> \in R
    <2>1. s[i] \in S /\ s[j] \in S /\ RankIn(S, R, s[i]) = i - 1 /\ RankIn(S, R, s[j]) = j - 1
        BY <1>2
    <2>2. <<s[j], s[i]>> \in R => RankIn(S, R, s[j]) < RankIn(S, R, s[i])
        BY <2>1, RanksGrow
    <2>3. s[i] # s[j] /\ <<s[j], s[i]>> \notin R
        BY <1>3, <2>1, <2>2
    <2> QED BY <2>1, <2>3 DEF TotalOn
<1>4. ASSUME NEW x \in S PROVE Lists(s, x)
    <2> DEFINE k == RankIn(S, R, x) + 1
    <2>1. k \in 1 .. Cardinality(S)
        BY <1>1, RanksGrow
    <2>2. s[k] \in S /\ RankIn(S, R, s[k]) = RankIn(S, R, x)
        BY <1>2, <2>1, RanksGrow
    <2>3. s[k] = x
        <3>1. RankIn(S, R, x) \in Int
            BY RanksGrow
        <3>2. <<s[k], x>> \notin R /\ <<x, s[k]>> \notin R
            BY <2>2, <3>1, RanksGrow
        <3> QED BY <2>2, <3>2 DEF TotalOn
    <2> QED BY <1>2, <2>1, <2>3 DEF Lists
<1> QED BY <1>2, <1>3, <1>4 DEF Increasing
-----------------------------------------------------------------------------
(* Paging: rows are handed out in an order of the items there can be. *)

\* What a fetch returns of what it finds: its first rows, one more than the page holds.
FirstOf(rows, found, R, limit) ==
    /\ rows \in Seq(found) /\ Increasing(rows, R) /\ Len(rows) <= limit + 1
    /\ Len(rows) <= limit => \A x \in found : Lists(rows, x)
    /\ Len(rows) = limit + 1 =>
          \A x \in found : (\E i \in 1 .. limit : rows[i] = x) \/ <<rows[limit], x>> \in R

Page(rows, limit) == IF Len(rows) > limit THEN Front(rows) ELSE rows

LEMMA FetchIsFirst ==
    ASSUME NEW S, IsFiniteSet(S), NEW R, StrictOn(R, S), TotalOn(R, S), NEW s,
           s \in Seq(S), Increasing(s, R), \A x \in S : Lists(s, x), NEW limit \in Nat \ {0}
    PROVE  FirstOf(SubSeq(s, 1, IF Len(s) > limit THEN limit + 1 ELSE Len(s)), S, R, limit)
<1> DEFINE n == IF Len(s) > limit THEN limit + 1 ELSE Len(s)
           rows == SubSeq(s, 1, n)
<1>1. Len(s) \in Nat /\ \A i \in 1 .. Len(s) : s[i] \in S
    OBVIOUS
<1>2. n \in Nat /\ n <= Len(s) /\ n <= limit + 1
    BY <1>1
<1> HIDE DEF n
<1>3. rows \in Seq(S) /\ Len(rows) = n /\ \A i \in 1 .. n : rows[i] = s[i]
    BY <1>1, <1>2
<1> HIDE DEF rows
<1>4. Increasing(rows, R)
    BY <1>1, <1>2, <1>3 DEF Increasing
<1>5. Len(rows) <= limit => \A x \in S : Lists(rows, x)
    <2> SUFFICES ASSUME n <= limit PROVE \A x \in S : Lists(rows, x)
        BY <1>3
    <2>1. n = Len(s)
        BY <1>1 DEF n
    <2> QED BY <1>3, <2>1 DEF Lists
<1>6. ASSUME Len(rows) = limit + 1, NEW x \in S
      PROVE  (\E i \in 1 .. limit : rows[i] = x) \/ <<rows[limit], x>> \in R
    <2>1. PICK i \in 1 .. Len(s) : s[i] = x
        BY DEF Lists
    <2>2. limit \in 1 .. n /\ limit \in 1 .. Len(s) /\ n = limit + 1
        BY <1>1, <1>2, <1>3, <1>6
    <2>3. CASE i <= limit
        BY <1>3, <2>1, <2>2, <2>3
    <2>4. CASE limit < i
        BY <1>3, <2>1, <2>2, <2>4 DEF Increasing
    <2> QED BY <2>1, <2>3, <2>4, <2>2
<1>7. FirstOf(rows, S, R, limit)
    BY <1>2, <1>3, <1>4, <1>5, <1>6 DEF FirstOf
<1> QED BY <1>7 DEF rows, n

\* A page is a part of what is fetched, and all of it if no more follows.
LEMMA PageIsPart ==
    ASSUME NEW found, NEW R, NEW limit \in Nat \ {0}, NEW rows, FirstOf(rows, found, R, limit)
    PROVE  /\ Page(rows, limit) \in Seq(found) /\ Increasing(Page(rows, limit), R)
           /\ Len(rows) > limit => /\ Len(Page(rows, limit)) = limit
                                   /\ \A x \in found : \/ Lists(Page(rows, limit), x)
                                                       \/ <<Last(Page(rows, limit)), x>> \in R
           /\ ~(Len(rows) > limit) => \A x \in found : Lists(Page(rows, limit), x)
<1>1. rows \in Seq(found) /\ Increasing(rows, R) /\ Len(rows) \in Nat /\ Len(rows) <= limit + 1
    BY DEF FirstOf
<1>2. CASE Len(rows) > limit
    <2>1. Len(rows) = limit + 1
        BY <1>1, <1>2
    <2>2. PICK page : page = Page(rows, limit)
        OBVIOUS
    <2>3. page \in Seq(found) /\ Len(page) = limit /\ \A i \in 1 .. limit : page[i] = rows[i]
        <3>1. \A i \in 1 .. limit : rows[i] \in found
            BY <1>1, <2>1
        <3>2. page = SubSeq(rows, 1, limit)
            BY <1>2, <2>1, <2>2 DEF Page, Front
        <3> QED BY <3>1, <3>2
    <2>4. Increasing(page, R)
        BY <1>1, <2>1, <2>3 DEF Increasing
    <2>5. Last(page) = rows[limit]
        BY <2>3 DEF Last
    <2>6. \A x \in found : Lists(page, x) \/ <<Last(page), x>> \in R
        BY <2>1, <2>3, <2>5 DEF FirstOf, Lists
    <2> QED BY <1>2, <2>2, <2>3, <2>4, <2>6
<1>3. CASE ~(Len(rows) > limit)
    BY <1>1, <1>3 DEF FirstOf, Page
<1> QED BY <1>2, <1>3

\* A reading: what it has listed is in the order; while it is open the cursor is the last row
\* listed, and a row that stayed is listed or comes after the cursor; in the end it is listed.
ComesAfter(R, cursor, x) == cursor = None \/ <<cursor, x>> \in R
ReadingHolds(r, R, I) ==
    /\ r = [args |-> r.args, limit |-> r.limit, cursor |-> r.cursor, listed |-> r.listed,
            steady |-> r.steady, open |-> r.open]
    /\ r.limit \in Nat \ {0} /\ r.open \in BOOLEAN
    /\ r.listed \in Seq(I) /\ Increasing(r.listed, R)
    /\ r.open => \/ r.cursor = None /\ r.listed = <<>>
                 \/ r.cursor \in I /\ r.listed # <<>> /\ r.cursor = Last(r.listed)
    /\ r.open => \A x \in r.steady : Lists(r.listed, x) \/ ComesAfter(R, r.cursor, x)
    /\ ~r.open => \A x \in r.steady : Lists(r.listed, x)

\* The reading after a page.
Turned(r, rows) ==
    [r EXCEPT !.listed = @ \o Page(rows, r.limit), !.open = Len(rows) > r.limit,
              !.cursor = IF Len(rows) > r.limit THEN Last(Page(rows, r.limit)) ELSE None]

LEMMA TurningKeeps ==
    ASSUME NEW I, NEW R, StrictOn(R, I), None \notin I, NEW r, ReadingHolds(r, R, I), r.open,
           NEW found \in SUBSET I, \A x \in found : ComesAfter(R, r.cursor, x),
           \A x \in r.steady : ComesAfter(R, r.cursor, x) => x \in found,
           NEW rows, FirstOf(rows, found, R, r.limit)
    PROVE  ReadingHolds(Turned(r, rows), R, I)
<1>a. PICK limit : limit = r.limit
    OBVIOUS
<1>b. PICK listed : listed = r.listed
    OBVIOUS
<1>1. PICK page : page = Page(rows, limit)
    OBVIOUS
<1>2. limit \in Nat \ {0} /\ listed \in Seq(I) /\ Increasing(listed, R)
    BY <1>a, <1>b DEF ReadingHolds
<1>c. limit \in Nat \ {0} /\ FirstOf(rows, found, R, limit)
    BY <1>a, <1>2
<1>3. /\ page \in Seq(found) /\ Increasing(page, R)
      /\ Len(rows) > limit => Len(page) = limit /\ \A x \in found : Lists(page, x) \/ <<Last(page), x>> \in R
      /\ ~(Len(rows) > limit) => \A x \in found : Lists(page, x)
    <2>1. /\ Page(rows, limit) \in Seq(found) /\ Increasing(Page(rows, limit), R)
          /\ Len(rows) > limit => /\ Len(Page(rows, limit)) = limit
                                  /\ \A x \in found : \/ Lists(Page(rows, limit), x)
                                                      \/ <<Last(Page(rows, limit)), x>> \in R
          /\ ~(Len(rows) > limit) => \A x \in found : Lists(Page(rows, limit), x)
        BY <1>c, PageIsPart
    <2> QED BY <1>1, <2>1
<1>4. PICK all : all = listed \o page
    OBVIOUS
<1>5. page \in Seq(I) /\ \A i \in 1 .. Len(page) : page[i] \in found
    BY <1>3
<1>6. /\ all \in Seq(I) /\ Len(all) = Len(listed) + Len(page)
      /\ \A i \in 1 .. Len(listed) : all[i] = listed[i]
      /\ \A i \in 1 .. Len(page) : all[Len(listed) + i] = page[i]
    BY <1>2, <1>4, <1>5
<1>7. \A i \in 1 .. Len(listed), j \in 1 .. Len(page) : <<listed[i], page[j]>> \in R
    <2> SUFFICES ASSUME NEW i \in 1 .. Len(listed), NEW j \in 1 .. Len(page)
                 PROVE  <<listed[i], page[j]>> \in R
        OBVIOUS
    <2>1. listed # <<>> /\ r.cursor \in I /\ r.cursor = listed[Len(listed)]
        BY <1>b DEF ReadingHolds, Last
    <2>2. <<r.cursor, page[j]>> \in R
        BY <1>5, <2>1 DEF ComesAfter
    <2>3. listed[i] \in I /\ page[j] \in I /\ Len(listed) \in Nat
        BY <1>2, <1>5
    <2>4. i = Len(listed) \/ <<listed[i], r.cursor>> \in R
        <3>1. Len(listed) \in 1 .. Len(listed) /\ (i = Len(listed) \/ i < Len(listed))
            BY <2>3
        <3> QED BY <1>2, <2>1, <3>1 DEF Increasing
    <2>5. CASE i = Len(listed)
        BY <2>1, <2>2, <2>5
    <2>6. CASE <<listed[i], r.cursor>> \in R
        BY <2>1, <2>2, <2>3, <2>6 DEF StrictOn
    <2> QED BY <2>4, <2>5, <2>6
<1>8. Increasing(all, R)
    <2> SUFFICES ASSUME NEW i \in 1 .. Len(all), NEW j \in 1 .. Len(all), i < j PROVE <<all[i], all[j]>> \in R
        BY DEF Increasing
    <2>0. Len(listed) \in Nat /\ Len(page) \in Nat
        BY <1>2, <1>5
    <2>1. CASE j <= Len(listed)
        <3>1. i \in 1 .. Len(listed) /\ j \in 1 .. Len(listed)
            BY <2>0, <2>1
        <3> QED BY <1>2, <1>6, <3>1 DEF Increasing
    <2>2. CASE i <= Len(listed) /\ Len(listed) < j
        <3>1. PICK k \in 1 .. Len(page) : j = Len(listed) + k
            <4>1. j - Len(listed) \in 1 .. Len(page)
                BY <1>6, <2>0, <2>2
            <4> QED BY <2>0, <4>1
        <3>2. i \in 1 .. Len(listed)
            BY <2>0, <2>2
        <3> QED BY <1>6, <1>7, <3>1, <3>2
    <2>3. CASE Len(listed) < i
        <3>1. PICK k \in 1 .. Len(page) : j = Len(listed) + k
            <4>1. j - Len(listed) \in 1 .. Len(page)
                BY <1>6, <2>0, <2>3
            <4> QED BY <2>0, <4>1
        <3>2. PICK h \in 1 .. Len(page) : i = Len(listed) + h
            <4>1. i \in Int /\ i - Len(listed) \in 1 .. Len(page)
                BY <1>6, <2>0, <2>3
            <4> QED BY <2>0, <4>1
        <3>3. h < k
            BY <2>0, <3>1, <3>2
        <3> QED BY <1>3, <1>6, <3>1, <3>2, <3>3 DEF Increasing
    <2> QED BY <2>0, <2>1, <2>2, <2>3
<1>9. \A x : Lists(listed, x) \/ Lists(page, x) => Lists(all, x)
    <2> SUFFICES ASSUME NEW x, Lists(listed, x) \/ Lists(page, x) PROVE Lists(all, x)
        OBVIOUS
    <2>0. Len(listed) \in Nat /\ Len(page) \in Nat
        BY <1>2, <1>5
    <2>1. CASE Lists(listed, x)
        <3>1. PICK i \in 1 .. Len(listed) : listed[i] = x
            BY <2>1 DEF Lists
        <3>2. i \in 1 .. Len(all) /\ all[i] = x
            BY <1>6, <2>0, <3>1
        <3> QED BY <3>2 DEF Lists
    <2>2. CASE Lists(page, x)
        <3>1. PICK i \in 1 .. Len(page) : page[i] = x
            BY <2>2 DEF Lists
        <3>2. Len(listed) + i \in 1 .. Len(all) /\ all[Len(listed) + i] = x
            BY <1>6, <2>0, <3>1
        <3> QED BY <3>2 DEF Lists
    <2> QED BY <2>1, <2>2
<1>10. PICK next : next = Turned(r, rows)
    OBVIOUS
<1>11. /\ next = [args |-> next.args, limit |-> next.limit, cursor |-> next.cursor, listed |-> next.listed,
                  steady |-> next.steady, open |-> next.open]
       /\ next.limit = limit /\ next.listed = all /\ next.steady = r.steady /\ next.open = (Len(rows) > limit)
       /\ next.open => next.cursor = Last(page)
    BY <1>a, <1>b, <1>1, <1>4, <1>10 DEF Turned, ReadingHolds
<1>12. next.open => next.cursor \in I /\ next.listed # <<>> /\ next.cursor = Last(next.listed)
    <2> SUFFICES ASSUME next.open PROVE Last(page) \in I /\ all # <<>> /\ Last(page) = Last(all)
        BY <1>11
    <2>1. Len(page) \in Nat \ {0}
        BY <1>2, <1>3, <1>11
    <2>2. Len(page) \in 1 .. Len(page) /\ Len(listed) \in Nat
        BY <1>2, <2>1
    <2>3. all[Len(all)] = page[Len(page)] /\ Len(all) # 0
        BY <1>6, <2>1, <2>2
    <2> QED BY <1>5, <1>6, <2>2, <2>3 DEF Last
<1>13. \A x \in r.steady : Lists(listed, x) \/ x \in found
    BY <1>b DEF ReadingHolds
<1>14. next.open => \A x \in r.steady : Lists(all, x) \/ ComesAfter(R, next.cursor, x)
    BY <1>3, <1>9, <1>11, <1>13 DEF ComesAfter
<1>15. ~next.open => \A x \in r.steady : Lists(all, x)
    BY <1>3, <1>9, <1>11, <1>13
<1>16. next.open \in BOOLEAN
    BY <1>11
<1>17. ReadingHolds(next, R, I)
    BY <1>2, <1>6, <1>8, <1>11, <1>12, <1>14, <1>15, <1>16 DEF ReadingHolds
<1> QED BY <1>10, <1>17

\* A reading that holds has shown no row twice, and every row that stayed by its end.
LEMMA ShownOnce ==
    ASSUME NEW I, NEW R, StrictOn(R, I), NEW r, ReadingHolds(r, R, I), NEW i \in r.steady
    PROVE  LET times == Cardinality({k \in DOMAIN r.listed : r.listed[k] = i}) IN
           times <= 1 /\ (~r.open => times = 1)
<1> DEFINE K == {k \in DOMAIN r.listed : r.listed[k] = i}
<1>1. r.listed \in Seq(I) /\ Increasing(r.listed, R) /\ DOMAIN r.listed = 1 .. Len(r.listed) /\ Len(r.listed) \in Nat
    BY DEF ReadingHolds
<1>2. \A j, k \in K : j = k
    <2> SUFFICES ASSUME NEW j \in K, NEW k \in K, j < k PROVE FALSE
        BY <1>1
    <2>1. <<r.listed[j], r.listed[k]>> \in R /\ r.listed[j] \in I
        BY <1>1 DEF Increasing
    <2> QED BY <2>1 DEF StrictOn
<1>3. ~r.open => K # {}
    BY <1>1 DEF ReadingHolds, Lists
<1>4. K = {} \/ \E k \in K : K = {k}
    BY <1>2
<1> HIDE DEF K
<1>5. CASE K = {}
    BY <1>3, <1>5, FS_EmptySet DEF K
<1>6. CASE \E k \in K : K = {k}
    <2>1. PICK k \in K : K = {k}
        BY <1>6
    <2>2. Cardinality(K) = 1
        BY <2>1, FS_Singleton
    <2> QED BY <2>2 DEF K
<1> QED BY <1>4, <1>5, <1>6
-----------------------------------------------------------------------------
(* Query: the order of the sort keys *)

LEMMA LeastOf ==
    ASSUME NEW S, S \subseteq Nat, S # {}
    PROVE  \E x \in S : \A y \in S : x <= y
<1>1. PICK x \in S : \A y \in S : ~ (<<y, x>> \in OpToRel(<, Nat))
    BY NatLessThanWellFounded, WFMin
<1>2. \A y \in S : ~ (y < x)
    BY <1>1 DEF OpToRel
<1> QED BY <1>2

\* Values in a direction, missing ones last.
Keyed == Int \cup {None}
LEMMA SoonerOrders ==
    ASSUME NEW dir
    PROVE  /\ \A v \in Keyed : ~Sooner(v, v, dir)
           /\ \A u, v, w \in Keyed : Sooner(u, v, dir) /\ Sooner(v, w, dir) => Sooner(u, w, dir)
           /\ \A v, w \in Keyed : v = w \/ Sooner(v, w, dir) \/ Sooner(w, v, dir)
BY QueryAssumption DEF Keyed, Sooner, Beyond

LEMMA BeyondOrders ==
    ASSUME NEW dir
    PROVE  /\ \A v \in Int : ~Beyond(v, v, dir)
           /\ \A u, v, w \in Int : Beyond(v, u, dir) /\ Beyond(w, v, dir) => Beyond(w, u, dir)
           /\ \A v, w \in Int : v = w \/ Beyond(v, w, dir) \/ Beyond(w, v, dir)
BY DEF Beyond

\* The value of an item in a sort key, and where two items differ first.
KeyAt(x, sort, i) == x.row.value[sort[i].key]
SameBefore(x, y, sort, i) == \A j \in 1 .. i - 1 : KeyAt(x, sort, j) = KeyAt(y, sort, j)
Splits(x, y, sort, i) == SameBefore(x, y, sort, i) /\ Sooner(KeyAt(x, sort, i), KeyAt(y, sort, i), sort[i].dir)
Ties(x, y, sort) == \A j \in DOMAIN sort : KeyAt(x, sort, j) = KeyAt(y, sort, j)

LEMMA PrecedesIs ==
    ASSUME NEW x, NEW y, NEW sort
    PROVE  Precedes(x, y, sort) <=> \/ \E i \in DOMAIN sort : Splits(x, y, sort, i)
                                    \/ Ties(x, y, sort) /\ Beyond(y.id, x.id, Last(sort).dir)
BY DEF Precedes, Splits, SameBefore, Ties, KeyAt

LEMMA KeysTyped ==
    ASSUME NEW sort \in Sorts, NEW x \in Items
    PROVE  /\ x.id \in Int /\ DOMAIN sort = 1 .. Len(sort) /\ Len(sort) \in Nat
           /\ \A i \in DOMAIN sort : KeyAt(x, sort, i) \in Keyed
<1>a. PICK K : K = [key : Scalars, dir : {"asc", "desc"}]
    OBVIOUS
<1>1. sort \in Seq(K)
    BY <1>a, QueryAssumption
<1>b. DOMAIN sort = 1 .. Len(sort) /\ Len(sort) \in Nat /\ \A i \in DOMAIN sort : sort[i] \in K
    BY <1>1
<1>2. DOMAIN sort = 1 .. Len(sort) /\ Len(sort) \in Nat /\ \A i \in DOMAIN sort : sort[i].key \in Scalars
    BY <1>a, <1>b
<1>3. x.id \in Int /\ x.row \in Rows
    BY QueryAssumption DEF Items
<1>4. x.row.value \in [Scalars -> Keyed]
    BY <1>3, QueryAssumption DEF Keyed
<1> QED BY <1>2, <1>3, <1>4 DEF KeyAt

LEMMA PrecedesStrict ==
    ASSUME NEW sort \in Sorts, NEW x \in Items, NEW y \in Items, NEW z \in Items
    PROVE  /\ ~Precedes(x, x, sort)
           /\ Precedes(x, y, sort) /\ Precedes(y, z, sort) => Precedes(x, z, sort)
<1>0. /\ x.id \in Int /\ y.id \in Int /\ z.id \in Int /\ DOMAIN sort = 1 .. Len(sort) /\ Len(sort) \in Nat
      /\ \A i \in DOMAIN sort : KeyAt(x, sort, i) \in Keyed /\ KeyAt(y, sort, i) \in Keyed /\ KeyAt(z, sort, i) \in Keyed
    BY KeysTyped
<1>1. ~Precedes(x, x, sort)
    BY <1>0, PrecedesIs, SoonerOrders, BeyondOrders DEF Splits
<1>2. ASSUME NEW i \in DOMAIN sort, Splits(x, y, sort, i), NEW j \in DOMAIN sort, Splits(y, z, sort, j)
      PROVE  Precedes(x, z, sort)
    <2>1. CASE i < j
        <3>1. SameBefore(x, z, sort, i) /\ KeyAt(y, sort, i) = KeyAt(z, sort, i)
            BY <1>0, <1>2, <2>1 DEF Splits, SameBefore
        <3> QED BY <1>2, <3>1, PrecedesIs DEF Splits
    <2>2. CASE i = j
        <3>1. SameBefore(x, z, sort, i)
            BY <1>2, <2>2 DEF Splits, SameBefore
        <3>2. Sooner(KeyAt(x, sort, i), KeyAt(z, sort, i), sort[i].dir)
            BY <1>0, <1>2, <2>2, SoonerOrders DEF Splits
        <3> QED BY <3>1, <3>2, PrecedesIs DEF Splits
    <2>3. CASE j < i
        <3>1. SameBefore(x, z, sort, j) /\ KeyAt(x, sort, j) = KeyAt(y, sort, j)
            BY <1>0, <1>2, <2>3 DEF Splits, SameBefore
        <3> QED BY <1>2, <3>1, PrecedesIs DEF Splits
    <2> QED BY <1>0, <2>1, <2>2, <2>3
<1>3. ASSUME NEW i \in DOMAIN sort, Splits(x, y, sort, i), Ties(y, z, sort) PROVE Precedes(x, z, sort)
    <2>1. Splits(x, z, sort, i)
        BY <1>0, <1>3 DEF Splits, SameBefore, Ties
    <2> QED BY <2>1, PrecedesIs
<1>4. ASSUME NEW i \in DOMAIN sort, Splits(y, z, sort, i), Ties(x, y, sort) PROVE Precedes(x, z, sort)
    <2>1. Splits(x, z, sort, i)
        BY <1>0, <1>4 DEF Splits, SameBefore, Ties
    <2> QED BY <2>1, PrecedesIs
<1>5. ASSUME Ties(x, y, sort), Ties(y, z, sort), Beyond(y.id, x.id, Last(sort).dir), Beyond(z.id, y.id, Last(sort).dir)
      PROVE  Precedes(x, z, sort)
    <2>1. Ties(x, z, sort)
        BY <1>5 DEF Ties
    <2>2. Beyond(z.id, x.id, Last(sort).dir)
        BY <1>0, <1>5, BeyondOrders
    <2> QED BY <2>1, <2>2, PrecedesIs
<1> QED BY <1>1, <1>2, <1>3, <1>4, <1>5, PrecedesIs

LEMMA PrecedesTotal ==
    ASSUME NEW sort \in Sorts, NEW x \in Items, NEW y \in Items, x.id # y.id
    PROVE  Precedes(x, y, sort) \/ Precedes(y, x, sort)
<1>0. /\ x.id \in Int /\ y.id \in Int /\ DOMAIN sort = 1 .. Len(sort) /\ Len(sort) \in Nat
      /\ \A i \in DOMAIN sort : KeyAt(x, sort, i) \in Keyed /\ KeyAt(y, sort, i) \in Keyed
    BY KeysTyped
<1>1. CASE Ties(x, y, sort)
    <2>1. Ties(y, x, sort)
        BY <1>1 DEF Ties
    <2> QED BY <1>0, <1>1, <2>1, PrecedesIs, BeyondOrders
<1>2. CASE ~Ties(x, y, sort)
    <2> DEFINE D == {i \in DOMAIN sort : KeyAt(x, sort, i) # KeyAt(y, sort, i)}
    <2>1. D \subseteq Nat /\ D # {}
        BY <1>0, <1>2 DEF Ties
    <2>2. PICK i \in D : \A j \in D : i <= j
        BY <2>1, LeastOf
    <2>3. i \in DOMAIN sort /\ KeyAt(x, sort, i) # KeyAt(y, sort, i)
        OBVIOUS
    <2>4. SameBefore(x, y, sort, i) /\ SameBefore(y, x, sort, i)
        BY <1>0, <2>2, <2>3 DEF SameBefore
    <2>5. \/ Sooner(KeyAt(x, sort, i), KeyAt(y, sort, i), sort[i].dir)
          \/ Sooner(KeyAt(y, sort, i), KeyAt(x, sort, i), sort[i].dir)
        BY <1>0, <2>3, SoonerOrders
    <2> QED BY <2>3, <2>4, <2>5, PrecedesIs DEF Splits
<1> QED BY <1>1, <1>2
QueryOrder(sort) == {p \in Items \X Items : Precedes(p[1], p[2], sort)}

LEMMA QueryOrderStrict == ASSUME NEW sort \in Sorts PROVE StrictOn(QueryOrder(sort), Items)
<1> SUFFICES ASSUME NEW x \in Items, NEW y \in Items, NEW z \in Items
             PROVE  /\ <<x, x>> \notin QueryOrder(sort)
                    /\ <<x, y>> \in QueryOrder(sort) /\ <<y, z>> \in QueryOrder(sort) => <<x, z>> \in QueryOrder(sort)
    BY DEF StrictOn
<1> HIDE DEF Items
<1> QED BY PrecedesStrict DEF QueryOrder

\* The keyset predicate asks for what comes after the cursor in the order.
LEMMA AfterIsLater ==
    ASSUME NEW sort, NEW x \in Items, NEW cursor, cursor = None \/ cursor \in Items
    PROVE  After(x, cursor, sort) <=> ComesAfter(QueryOrder(sort), cursor, x)
<1>1. CASE cursor = None
    BY <1>1 DEF After, ComesAfter
<1>2. CASE cursor # None /\ cursor \in Items
    <2>1. After(x, cursor, sort) <=> Precedes(cursor, x, sort)
        BY <1>2 DEF After, Precedes, Later, Sooner
    <2>2. <<cursor, x>> \in QueryOrder(sort) <=> Precedes(cursor, x, sort)
        BY <1>2 DEF QueryOrder
    <2> QED BY <1>2, <2>1, <2>2 DEF ComesAfter
<1> QED BY <1>1, <1>2

\* What a query finds in a table: only the table changes it.
FoundIn(m, args) ==
    {[id |-> id, row |-> m[id]] :
        id \in {r \in Ids : /\ m[r].shown
                            /\ Used(args) \cap m[r].hidden = {}
                            /\ args.filter = None \/ Truth(m[r], args.filter) = TRUE}}
LEMMA FindsInTable ==
    ASSUME NEW args PROVE RecordSet(args) = FoundIn(table, args) /\ RecordSet(args)' = FoundIn(table', args)
<1>1. RecordSet(args) = FoundIn(table, args)
    BY DEF RecordSet, FoundIn, Item
<1>2. RecordSet(args)' = FoundIn(table', args)
    BY DEF RecordSet, FoundIn, Item
<1> QED BY <1>1, <1>2

\* What a query finds: finitely many items, one of each record.
LEMMA FoundItems ==
    ASSUME table \in [Ids -> Rows], NEW args
    PROVE  /\ RecordSet(args) \subseteq Items /\ IsFiniteSet(RecordSet(args))
           /\ \A x, y \in RecordSet(args) : x # y => x.id # y.id
<1>1. PICK some : /\ some \subseteq Ids
                  /\ RecordSet(args) = {Item(id) : id \in some}
    BY DEF RecordSet
<1>2. RecordSet(args) \subseteq Items /\ \A x, y \in RecordSet(args) : x # y => x.id # y.id
    BY <1>1 DEF Item, Items
<1>3. IsFiniteSet(some)
    BY <1>1, QueryAssumption, FS_Subset
<1>4. [id \in some |-> Item(id)] \in Surjection(some, RecordSet(args))
    BY <1>1 DEF Surjection
<1>5. PICK f : f \in Surjection(some, RecordSet(args))
    BY <1>4
<1>6. IsFiniteSet(RecordSet(args))
    BY <1>3, <1>5, FS_Surjection
<1> QED BY <1>2, <1>6

\* What a page of a query is read from.
InSortOrder(found, sort) ==
    [k \in 1 .. Cardinality(found) |-> CHOOSE x \in found : Cardinality({y \in found : Precedes(y, x, sort)}) = k - 1]
FirstRows(rows, limit) == SubSeq(rows, 1, IF Len(rows) > limit THEN limit + 1 ELSE Len(rows))

LEMMA NextPageRows ==
    ASSUME NextQueryPage
    PROVE  LET found == {i \in RecordSet(reading.args) : After(i, reading.cursor, reading.args.sort)}
           IN  Listed(FirstRows(InSortOrder(found, reading.args.sort), reading.limit))
BY DEF NextQueryPage, Fetched, Sorted, FirstRows, InSortOrder

\* A page of a query holds the first of what it finds.
LEMMA QueryFetches ==
    ASSUME NEW sort \in Sorts, NEW found \in SUBSET Items, IsFiniteSet(found),
           \A x, y \in found : x # y => x.id # y.id, NEW limit \in Nat \ {0}
    PROVE  FirstOf(FirstRows(InSortOrder(found, sort), limit), found, QueryOrder(sort), limit)
<1>1. PICK R : R = QueryOrder(sort)
    OBVIOUS
<1>2. StrictOn(R, found)
    BY <1>1, QueryOrderStrict DEF StrictOn
<1>3. TotalOn(R, found)
    <2> SUFFICES ASSUME NEW x \in found, NEW y \in found, x # y PROVE <<x, y>> \in R \/ <<y, x>> \in R
        BY DEF TotalOn
    <2>1. x \in Items /\ y \in Items /\ x.id # y.id
        OBVIOUS
    <2>2. Precedes(x, y, sort) \/ Precedes(y, x, sort)
        BY <2>1, PrecedesTotal
    <2> QED BY <1>1, <2>1, <2>2 DEF QueryOrder
<1>4. \A x \in found : {y \in found : Precedes(y, x, sort)} = {y \in found : <<y, x>> \in R}
    BY <1>1 DEF QueryOrder
<1>5. PICK s : s = InSortOrder(found, sort)
    OBVIOUS
<1>6. s = [k \in 1 .. Cardinality(found) |->
              CHOOSE x \in found : Cardinality({y \in found : Precedes(y, x, sort)}) = k - 1]
    BY <1>5 DEF InSortOrder
<1>7. ASSUME NEW k \in 1 .. Cardinality(found) PROVE s[k] \in found /\ RankIn(found, R, s[k]) = k - 1
    <2>1. PICK x \in found : RankIn(found, R, x) = k - 1
        BY <1>2, <1>3, RanksReached
    <2>2. \E z \in found : Cardinality({y \in found : Precedes(y, z, sort)}) = k - 1
        BY <1>4, <2>1 DEF RankIn
    <2>3. s[k] = CHOOSE z \in found : Cardinality({y \in found : Precedes(y, z, sort)}) = k - 1
        BY <1>6
    <2>4. s[k] \in found /\ Cardinality({y \in found : Precedes(y, s[k], sort)}) = k - 1
        BY <2>2, <2>3
    <2> QED BY <1>4, <2>4 DEF RankIn
<1>8. s \in [1 .. Cardinality(found) -> found]
    <2> DEFINE at(k) == CHOOSE x \in found : Cardinality({y \in found : Precedes(y, x, sort)}) = k - 1
    <2>1. s = [k \in 1 .. Cardinality(found) |-> at(k)]
        BY <1>6
    <2> HIDE DEF at
    <2> QED BY <1>7, <2>1
<1>9. s \in Seq(found) /\ Increasing(s, R) /\ \A x \in found : Lists(s, x)
    <2>1. AtRanks(s, found, R)
        BY <1>7, <1>8 DEF AtRanks
    <2> QED BY <1>2, <1>3, <2>1, RanksSort
<1>10. FirstOf(SubSeq(s, 1, IF Len(s) > limit THEN limit + 1 ELSE Len(s)), found, R, limit)
    BY <1>2, <1>3, <1>9, FetchIsFirst
<1> QED BY <1>1, <1>5, <1>10 DEF FirstRows

-----------------------------------------------------------------------------
(* Query: pages while records change *)

QueryReads == reading # None =>
    /\ reading.args.sort \in Sorts
    /\ ReadingHolds(reading, QueryOrder(reading.args.sort), Items)
    /\ reading.steady \subseteq RecordSet(reading.args)
QueryInv == table \in [Ids -> Rows] /\ QueryReads

LEMMA OpeningHolds ==
    ASSUME NEW I, NEW R, NEW args, NEW limit \in Nat \ {0}, NEW steady
    PROVE  ReadingHolds([args |-> args, limit |-> limit, cursor |-> None, listed |-> <<>>,
                         steady |-> steady, open |-> TRUE], R, I)
<1>1. PICK r : r = [args |-> args, limit |-> limit, cursor |-> None, listed |-> <<>>, steady |-> steady, open |-> TRUE]
    OBVIOUS
<1>2. r.listed = <<>> /\ r.open = TRUE /\ r.cursor = None /\ r.limit = limit
    BY <1>1
<1>3. r.listed \in Seq(I) /\ Increasing(r.listed, R)
    BY <1>2 DEF Increasing
<1>4. ReadingHolds(r, R, I)
    BY <1>1, <1>2, <1>3 DEF ReadingHolds, ComesAfter
<1> QED BY <1>1, <1>4

LEMMA LosingHolds ==
    ASSUME NEW I, NEW R, NEW r, ReadingHolds(r, R, I), NEW items
    PROVE  ReadingHolds([r EXCEPT !.steady = @ \cap items], R, I)
<1>1. PICK q : q = [r EXCEPT !.steady = @ \cap items]
    OBVIOUS
<1>2. /\ q = [args |-> q.args, limit |-> q.limit, cursor |-> q.cursor, listed |-> q.listed,
              steady |-> q.steady, open |-> q.open]
      /\ q.limit = r.limit /\ q.cursor = r.cursor /\ q.listed = r.listed /\ q.open = r.open
      /\ q.steady = r.steady \cap items
    BY <1>1 DEF ReadingHolds
<1>3. ReadingHolds(q, R, I)
    BY <1>2 DEF ReadingHolds
<1> QED BY <1>1, <1>3

\* What a page leaves of a reading, as a record.
LEMMA ListedIsTurned ==
    ASSUME NEW rows, Listed(rows), NEW R, NEW I, ReadingHolds(reading, R, I)
    PROVE  reading' = Turned(reading, rows) /\ reading'.args = reading.args /\ reading'.steady = reading.steady
BY DEF Listed, Turned, PageOf, Page, ReadingHolds

LEMMA QueryStep == QueryInv /\ [QueryNext]_<<table, reading, altered>> => QueryInv'
<1> SUFFICES ASSUME QueryInv, [QueryNext]_<<table, reading, altered>> PROVE QueryInv'
    OBVIOUS
<1>1. ASSUME OpenQuery PROVE QueryInv'
    <2>1. PICK sort \in Sorts, filter \in Filters :
            StartReading([sort |-> sort, filter |-> filter], RecordSet([sort |-> sort, filter |-> filter]))
        BY <1>1 DEF OpenQuery
    <2>2. PICK args : args = [sort |-> sort, filter |-> filter]
        OBVIOUS
    <2>3. StartReading(args, RecordSet(args)) /\ args.sort \in Sorts
        BY <2>1, <2>2
    <2>4. PICK limit \in Nat \ {0} :
            reading' = [args |-> args, limit |-> limit, cursor |-> None, listed |-> <<>>,
                        steady |-> RecordSet(args), open |-> TRUE]
        BY <2>3, PagingAssumption DEF StartReading
    <2>5. ReadingHolds(reading', QueryOrder(args.sort), Items)
        BY <2>4, OpeningHolds
    <2>6. table' = table /\ RecordSet(args)' = RecordSet(args)
        BY <1>1, FindsInTable DEF OpenQuery
    <2>7. reading'.args = args /\ reading'.steady = RecordSet(args)
        BY <2>4
    <2> QED BY <2>3, <2>5, <2>6, <2>7 DEF QueryInv, QueryReads
<1>2. ASSUME NextQueryPage PROVE QueryInv'
    <2>1. PICK args : args = reading.args
        OBVIOUS
    <2>2. PICK sort \in Sorts : sort = args.sort
        BY <1>2, <2>1 DEF NextQueryPage, QueryInv, QueryReads
    <2>3. PICK R : R = QueryOrder(sort)
        OBVIOUS
    <2>4. ReadingHolds(reading, R, Items) /\ reading.open /\ reading.steady \subseteq RecordSet(args)
        BY <1>2, <2>1, <2>2, <2>3 DEF NextQueryPage, QueryInv, QueryReads
    <2>5. PICK found : found = {i \in RecordSet(args) : After(i, reading.cursor, sort)}
        OBVIOUS
    <2>6. /\ RecordSet(args) \subseteq Items /\ IsFiniteSet(RecordSet(args))
          /\ \A x, y \in RecordSet(args) : x # y => x.id # y.id
        BY FoundItems DEF QueryInv
    <2>7. found \in SUBSET Items /\ IsFiniteSet(found) /\ \A x, y \in found : x # y => x.id # y.id
        BY <2>5, <2>6, FS_Subset
    <2>8. \A x \in Items : After(x, reading.cursor, sort) <=> ComesAfter(R, reading.cursor, x)
        <3>1. reading.cursor = None \/ reading.cursor \in Items
            BY <2>4 DEF ReadingHolds
        <3> QED BY <2>3, <3>1, AfterIsLater
    <2>9. /\ \A x \in found : ComesAfter(R, reading.cursor, x)
          /\ \A x \in reading.steady : ComesAfter(R, reading.cursor, x) => x \in found
        BY <2>4, <2>5, <2>6, <2>8
    <2>a. PICK limit \in Nat \ {0} : limit = reading.limit
        BY <2>4 DEF ReadingHolds
    <2>10. PICK rows : rows = FirstRows(InSortOrder(found, sort), limit)
        OBVIOUS
    <2>11. FirstOf(rows, found, R, limit)
        BY <2>3, <2>7, <2>10, QueryFetches
    <2>12. StrictOn(R, Items) /\ None \notin Items
        BY <2>3, QueryOrderStrict, QueryAssumption
    <2>13. ReadingHolds(Turned(reading, rows), R, Items)
        <3>1. PICK r : r = reading
            OBVIOUS
        <3>2. ReadingHolds(Turned(r, rows), R, Items)
            BY <2>4, <2>7, <2>9, <2>11, <2>12, <2>a, <3>1, TurningKeeps
        <3> QED BY <3>1, <3>2
    <2>14. Listed(rows) /\ table' = table
        BY <1>2, <2>1, <2>2, <2>5, <2>10, <2>a, NextPageRows DEF NextQueryPage
    <2>15. reading' = Turned(reading, rows) /\ reading'.args = args /\ reading'.steady = reading.steady
        BY <2>1, <2>4, <2>14, ListedIsTurned
    <2>16. RecordSet(args)' = RecordSet(args)
        BY <2>14, FindsInTable
    <2> QED BY <2>2, <2>3, <2>4, <2>13, <2>14, <2>15, <2>16 DEF QueryInv, QueryReads
<1>3. ASSUME NEW id \in Ids, Alter(id) PROVE QueryInv'
    <2>1. table' \in [Ids -> Rows]
        BY <1>3 DEF Alter, QueryInv
    <2>2. PICK args : args = reading.args /\ StillThere(RecordSet(args)')
        BY <1>3 DEF Alter
    <2>3. reading # None
        BY <1>3 DEF Alter, Alters
    <2>4. PICK items : items = RecordSet(args)'
        OBVIOUS
    <2>5. reading' = [reading EXCEPT !.steady = @ \cap items]
        BY <2>2, <2>4 DEF StillThere
    <2>6. PICK R : R = QueryOrder(args.sort)
        OBVIOUS
    <2>7. ReadingHolds(reading, R, Items) /\ args.sort \in Sorts
        BY <2>2, <2>3, <2>6 DEF QueryInv, QueryReads
    <2>8. ReadingHolds(reading', R, Items)
        BY <2>5, <2>7, LosingHolds
    <2>9. reading'.args = args /\ reading'.steady \subseteq items
        BY <2>2, <2>5, <2>7 DEF ReadingHolds
    <2> QED BY <2>1, <2>4, <2>6, <2>7, <2>8, <2>9 DEF QueryInv, QueryReads
<1>4. CASE UNCHANGED <<table, reading, altered>>
    <2>1. PICK args : args = reading.args
        OBVIOUS
    <2>2. RecordSet(args)' = RecordSet(args)
        BY <1>4, FindsInTable
    <2> QED BY <1>4, <2>1, <2>2 DEF QueryInv, QueryReads
<1> QED BY <1>1, <1>2, <1>3, <1>4 DEF QueryNext

\* Whatever records are created, changed, hidden or deleted between the pages of a query with any
\* filter and any sort keys, a record that stays as it was is shown exactly once (run.ts).
THEOREM QueriesShowOnce == QuerySpec => []SteadyShownOnce
<1>1. QueryInit => QueryInv
    BY QueryAssumption DEF QueryInit, QueryInv, QueryReads
<1>2. QueryInv => SteadyShownOnce
    <2> SUFFICES ASSUME QueryInv, reading # None, NEW i \in reading.steady
                 PROVE  LET times == Cardinality({k \in DOMAIN reading.listed : reading.listed[k] = i}) IN
                        times <= 1 /\ (~reading.open => times = 1)
        BY DEF SteadyShownOnce
    <2>1. PICK R : R = QueryOrder(reading.args.sort)
        OBVIOUS
    <2>2. StrictOn(R, Items) /\ ReadingHolds(reading, R, Items)
        BY <2>1, QueryOrderStrict DEF QueryInv, QueryReads
    <2> QED BY <2>2, ShownOnce
<1>3. QueryInv /\ [QueryNext]_<<table, reading, altered>> => QueryInv'
    BY QueryStep
<1> QED BY <1>1, <1>2, <1>3, PTL DEF QuerySpec
-----------------------------------------------------------------------------
(* History: the change rows tell the states of the record *)

\* What a row says of its attribute.
Told(row) == IF row.kind = "unset" THEN None ELSE row.value
OfData(row, f) == row.kind \in {"set", "unset"} /\ row.slug = f
OfStatus(row) == row.kind \in {"create", "delete", "restore"}

HistoryTyped ==
    /\ now \in Nat /\ started \in [Writers -> Nat \cup {None}]
    /\ held \in HeldStates /\ log \in Seq(ChangeRows) /\ states \in Seq([at : Nat, record : HeldStates])
    /\ note \in [Notes -> [live : BOOLEAN, at : Nat, about : SUBSET ({Anchor} \cup Neighbours)]]

\* The rows of a write: those of the data carry what changed, a row of the status tells it.
Tells(rows, from, to, at) ==
    /\ rows \in Seq(ChangeRows) /\ Len(rows) > 0
    /\ to \in HeldStates /\ to.version = from.version + 1 /\ to.status # "absent"
    /\ \A i \in 1 .. Len(rows) :
          /\ rows[i].at = at /\ rows[i].version = to.version
          /\ rows[i].kind \in {"set", "unset"} => rows[i].slug \in Facets /\ Told(rows[i]) = to.data[rows[i].slug]
          /\ OfStatus(rows[i]) => (rows[i].kind = "delete" <=> to.status = "deleted")
    /\ \A f \in Facets : to.data[f] # from.data[f] => \E i \in 1 .. Len(rows) : OfData(rows[i], f)
    /\ to.status # from.status => \E i \in 1 .. Len(rows) : OfStatus(rows[i])

\* A difference has a row for each attribute that differs, and no other.
LEMMA DiffTells ==
    ASSUME NEW from \in [Facets -> Contents \cup {None}], NEW to \in [Facets -> Contents \cup {None}],
           NEW at \in Nat, NEW v \in Nat
    PROVE  LET rows == Diff(at, from, to, v) IN
           /\ rows \in Seq(ChangeRows)
           /\ \A i \in 1 .. Len(rows) :
                 /\ rows[i].at = at /\ rows[i].version = v /\ rows[i].kind \in {"set", "unset"}
                 /\ rows[i].slug \in Facets /\ Told(rows[i]) = to[rows[i].slug]
           /\ \A f \in Facets : to[f] # from[f] => \E i \in 1 .. Len(rows) : OfData(rows[i], f)
           /\ Len(rows) = 0 => from = to
<1>1. PICK differing : differing = {f \in Facets : from[f] # to[f]}
    OBVIOUS
<1>2. PICK R : R = {p \in differing \X differing : p[1] < p[2]}
    OBVIOUS
<1>3. differing \subseteq Facets /\ differing \subseteq Int /\ IsFiniteSet(differing)
    BY <1>1, HistoryAssumption, FS_Subset
<1>4. StrictOn(R, differing) /\ TotalOn(R, differing)
    BY <1>2, <1>3 DEF StrictOn, TotalOn
<1>5. \A g \in differing : {f \in differing : f < g} = {f \in differing : <<f, g>> \in R}
    BY <1>2
<1>6. PICK s : s = [k \in 1 .. Cardinality(differing) |->
                      CHOOSE x \in differing : Cardinality({y \in differing : y < x}) = k - 1]
    OBVIOUS
<1>7. ASSUME NEW k \in 1 .. Cardinality(differing) PROVE s[k] \in differing /\ RankIn(differing, R, s[k]) = k - 1
    <2>1. PICK x \in differing : RankIn(differing, R, x) = k - 1
        BY <1>3, <1>4, RanksReached
    <2>2. \E z \in differing : Cardinality({y \in differing : y < z}) = k - 1
        BY <1>5, <2>1 DEF RankIn
    <2>3. s[k] = CHOOSE z \in differing : Cardinality({y \in differing : y < z}) = k - 1
        BY <1>6
    <2>4. s[k] \in differing /\ Cardinality({y \in differing : y < s[k]}) = k - 1
        BY <2>2, <2>3
    <2> QED BY <1>5, <2>4 DEF RankIn
<1>8. s \in [1 .. Cardinality(differing) -> differing]
    <2> DEFINE place(k) == CHOOSE x \in differing : Cardinality({y \in differing : y < x}) = k - 1
    <2>1. s = [k \in 1 .. Cardinality(differing) |-> place(k)]
        BY <1>6
    <2> HIDE DEF place
    <2> QED BY <1>7, <2>1
<1>9. s \in Seq(differing) /\ Len(s) = Cardinality(differing) /\ \A x \in differing : Lists(s, x)
    <2>1. AtRanks(s, differing, R)
        BY <1>7, <1>8 DEF AtRanks
    <2> QED BY <1>3, <1>4, <2>1, RanksSort
<1>10. PICK rows : rows = Diff(at, from, to, v)
    OBVIOUS
<1>11. rows = [i \in DOMAIN s |-> Row(at, IF to[s[i]] = None THEN "unset" ELSE "set", s[i], to[s[i]], v)]
    BY <1>1, <1>6, <1>10 DEF Diff, Sorted
<1>12. Len(s) \in Nat /\ DOMAIN s = 1 .. Len(s) /\ \A i \in 1 .. Len(s) : s[i] \in Facets
    <2>1. s \in Seq(differing)
        BY <1>9
    <2>2. Len(s) \in Nat /\ DOMAIN s = 1 .. Len(s) /\ \A i \in 1 .. Len(s) : s[i] \in differing
        BY <2>1
    <2> QED BY <1>3, <2>2
<1>13. \A i \in 1 .. Len(s) :
          rows[i] = [at |-> at, kind |-> IF to[s[i]] = None THEN "unset" ELSE "set", slug |-> s[i],
                     value |-> to[s[i]], version |-> v]
    BY <1>11, <1>12 DEF Row
<1>14. \A i \in 1 .. Len(s) : /\ rows[i] \in ChangeRows
                              /\ rows[i].at = at /\ rows[i].version = v /\ rows[i].kind \in {"set", "unset"}
                              /\ rows[i].slug = s[i] /\ Told(rows[i]) = to[s[i]]
    <2> SUFFICES ASSUME NEW i \in 1 .. Len(s)
                 PROVE  /\ rows[i] \in ChangeRows
                        /\ rows[i].at = at /\ rows[i].version = v /\ rows[i].kind \in {"set", "unset"}
                        /\ rows[i].slug = s[i] /\ Told(rows[i]) = to[s[i]]
        OBVIOUS
    <2>1. s[i] \in Facets /\ to[s[i]] \in Contents \cup {None}
        BY <1>12
    <2>2. PICK value \in Contents \cup {None} : value = to[s[i]]
        BY <2>1
    <2>3. PICK row : row = rows[i]
        OBVIOUS
    <2>4. row = [at |-> at, kind |-> IF value = None THEN "unset" ELSE "set", slug |-> s[i],
                 value |-> value, version |-> v]
        BY <1>13, <2>2, <2>3
    <2>5. /\ row.at = at /\ row.version = v /\ row.kind = (IF value = None THEN "unset" ELSE "set")
          /\ row.slug = s[i] /\ row.value = value
        BY <2>4
    <2>6. row \in ChangeRows
        BY <2>1, <2>4 DEF ChangeRows
    <2>7. Told(row) = value
        BY <2>5 DEF Told
    <2> QED BY <2>2, <2>3, <2>5, <2>6, <2>7
<1>15. rows \in Seq(ChangeRows) /\ Len(rows) = Len(s)
    <2> DEFINE row(i) == Row(at, IF to[s[i]] = None THEN "unset" ELSE "set", s[i], to[s[i]], v)
    <2>1. rows = [i \in 1 .. Len(s) |-> row(i)]
        BY <1>11, <1>12
    <2> HIDE DEF row
    <2>2. \A i \in 1 .. Len(s) : row(i) \in ChangeRows
        BY <1>14, <2>1
    <2> QED BY <1>12, <2>1, <2>2
<1>16. \A f \in Facets : to[f] # from[f] => \E i \in 1 .. Len(rows) : OfData(rows[i], f)
    <2> SUFFICES ASSUME NEW f \in Facets, to[f] # from[f] PROVE \E i \in 1 .. Len(rows) : OfData(rows[i], f)
        OBVIOUS
    <2>1. PICK i \in 1 .. Len(s) : s[i] = f
        BY <1>1, <1>9 DEF Lists
    <2>2. OfData(rows[i], f)
        BY <1>14, <2>1 DEF OfData
    <2> QED BY <1>15, <2>2
<1>17. Len(rows) = 0 => from = to
    <2> SUFFICES ASSUME Len(rows) = 0, NEW f \in Facets PROVE from[f] = to[f]
        OBVIOUS
    <2> QED BY <1>16
<1> QED BY <1>10, <1>12, <1>14, <1>15, <1>16, <1>17
LEMMA OutcomesTell ==
    ASSUME held \in HeldStates, held.status = "absent" => held.version = 0, NEW at \in Nat,
           NEW outcome \in Outcomes(at)
    PROVE  Tells(outcome.rows, held, outcome.to, at)
<1>0. /\ held = [status |-> held.status, data |-> held.data, version |-> held.version]
      /\ held.status \in {"absent", "live", "deleted"} /\ held.data \in [Facets -> Contents \cup {None}]
      /\ held.version \in Nat
    BY DEF HeldStates
<1>1. CASE outcome \in Created(at) /\ held.status = "absent"
    <2>0. PICK d \in [Facets -> Contents \cup {None}] :
            outcome = [rows |-> <<Row(at, "create", None, None, 1)>> \o Diff(at, held.data, d, 1),
                       to |-> [status |-> "live", data |-> d, version |-> 1]]
        BY <1>1, Zenon DEF Created
    <2>1. /\ outcome.rows = <<Row(at, "create", None, None, 1)>> \o Diff(at, held.data, d, 1)
          /\ outcome.to = [status |-> "live", data |-> d, version |-> 1]
        BY <2>0
    <2>2. PICK first : first = Row(at, "create", None, None, 1)
        OBVIOUS
    <2>3. PICK diff : diff = Diff(at, held.data, d, 1)
        OBVIOUS
    <2>4. /\ diff \in Seq(ChangeRows)
          /\ \A i \in 1 .. Len(diff) :
                /\ diff[i].at = at /\ diff[i].version = 1 /\ diff[i].kind \in {"set", "unset"}
                /\ diff[i].slug \in Facets /\ Told(diff[i]) = d[diff[i].slug]
          /\ \A f \in Facets : d[f] # held.data[f] => \E i \in 1 .. Len(diff) : OfData(diff[i], f)
        <3>1. PICK from \in [Facets -> Contents \cup {None}] : from = held.data
            BY <1>0
        <3>2. PICK one \in Nat : one = 1
            OBVIOUS
        <3>3. diff = Diff(at, from, d, one)
            BY <2>3, <3>1, <3>2
        <3>4. /\ diff \in Seq(ChangeRows)
              /\ \A i \in 1 .. Len(diff) :
                    /\ diff[i].at = at /\ diff[i].version = one /\ diff[i].kind \in {"set", "unset"}
                    /\ diff[i].slug \in Facets /\ Told(diff[i]) = d[diff[i].slug]
              /\ \A f \in Facets : d[f] # from[f] => \E i \in 1 .. Len(diff) : OfData(diff[i], f)
            BY <3>3, DiffTells
        <3> QED BY <3>1, <3>2, <3>4
    <2>5. PICK rows : rows = <<first>> \o diff
        OBVIOUS
    <2>6. first \in ChangeRows /\ first.at = at /\ first.version = 1 /\ first.kind = "create"
        BY <2>2 DEF Row, ChangeRows
    <2>7. rows \in Seq(ChangeRows) /\ Len(rows) = Len(diff) + 1 /\ Len(diff) \in Nat
        BY <2>4, <2>5, <2>6
    <2>8. rows[1] = first /\ \A i \in 1 .. Len(diff) : rows[i + 1] = diff[i]
        BY <2>4, <2>5, <2>6
    <2>9. PICK to : to = outcome.to
        OBVIOUS
    <2>10. to.status = "live" /\ to.data = d /\ to.version = 1 /\ to \in HeldStates /\ held.version = 0
        BY <1>1, <2>1, <2>9 DEF HeldStates
    <2>11. ASSUME NEW i \in 1 .. Len(rows)
           PROVE  /\ rows[i].at = at /\ rows[i].version = to.version
                  /\ rows[i].kind \in {"set", "unset"} => rows[i].slug \in Facets /\ Told(rows[i]) = to.data[rows[i].slug]
                  /\ OfStatus(rows[i]) => (rows[i].kind = "delete" <=> to.status = "deleted")
        <3>1. CASE i = 1
            BY <2>6, <2>8, <2>10, <3>1
        <3>2. CASE i # 1
            <4>1. PICK j \in 1 .. Len(diff) : i = j + 1
                <5>1. i - 1 \in 1 .. Len(diff) /\ i = (i - 1) + 1
                    BY <2>7, <3>2
                <5> QED BY <5>1
            <4> QED BY <2>4, <2>8, <2>10, <4>1 DEF OfStatus
        <3> QED BY <3>1, <3>2
    <2>12. ASSUME NEW f \in Facets, d[f] # held.data[f] PROVE \E i \in 1 .. Len(rows) : OfData(rows[i], f)
        <3>1. PICK i \in 1 .. Len(diff) : OfData(diff[i], f)
            BY <2>4, <2>12
        <3>2. i + 1 \in 1 .. Len(rows) /\ OfData(rows[i + 1], f)
            BY <2>7, <2>8, <3>1
        <3> QED BY <3>2
    <2>13. 1 \in 1 .. Len(rows) /\ OfStatus(rows[1]) /\ Len(rows) > 0
        BY <2>6, <2>7, <2>8 DEF OfStatus
    <2>14. Tells(rows, held, to, at)
        BY <2>7, <2>10, <2>11, <2>12, <2>13 DEF Tells
    <2> QED BY <2>1, <2>2, <2>3, <2>5, <2>9, <2>14
<1>2. CASE outcome \in Updated(at) /\ held.status = "live"
    <2>0. PICK d \in [Facets -> Contents \cup {None}] :
            /\ d # held.data
            /\ outcome = [rows |-> Diff(at, held.data, d, held.version + 1),
                          to |-> [held EXCEPT !.data = d, !.version = @ + 1]]
        BY <1>2, Zenon DEF Updated
    <2>1. /\ d # held.data /\ outcome.rows = Diff(at, held.data, d, held.version + 1)
          /\ outcome.to = [held EXCEPT !.data = d, !.version = @ + 1]
        BY <2>0
    <2>2. PICK rows : rows = Diff(at, held.data, d, held.version + 1)
        OBVIOUS
    <2>3. held.version + 1 \in Nat
        BY <1>0
    <2>4. /\ rows \in Seq(ChangeRows)
          /\ \A i \in 1 .. Len(rows) :
                /\ rows[i].at = at /\ rows[i].version = held.version + 1 /\ rows[i].kind \in {"set", "unset"}
                /\ rows[i].slug \in Facets /\ Told(rows[i]) = d[rows[i].slug]
          /\ \A f \in Facets : d[f] # held.data[f] => \E i \in 1 .. Len(rows) : OfData(rows[i], f)
          /\ Len(rows) = 0 => held.data = d
        <3>1. PICK from \in [Facets -> Contents \cup {None}] : from = held.data
            BY <1>0
        <3>2. PICK v \in Nat : v = held.version + 1
            BY <2>3
        <3>3. rows = Diff(at, from, d, v)
            BY <2>2, <3>1, <3>2
        <3>4. /\ rows \in Seq(ChangeRows)
              /\ \A i \in 1 .. Len(rows) :
                    /\ rows[i].at = at /\ rows[i].version = v /\ rows[i].kind \in {"set", "unset"}
                    /\ rows[i].slug \in Facets /\ Told(rows[i]) = d[rows[i].slug]
              /\ \A f \in Facets : d[f] # from[f] => \E i \in 1 .. Len(rows) : OfData(rows[i], f)
              /\ Len(rows) = 0 => from = d
            BY <3>3, DiffTells
        <3> QED BY <3>1, <3>2, <3>4
    <2>5. PICK to : to = outcome.to
        OBVIOUS
    <2>6. to.status = "live" /\ to.data = d /\ to.version = held.version + 1 /\ to \in HeldStates
        BY <1>0, <1>2, <2>1, <2>3, <2>5 DEF HeldStates
    <2>7. Len(rows) > 0
        BY <2>1, <2>4
    <2>8. Tells(rows, held, to, at)
        BY <1>2, <2>4, <2>6, <2>7 DEF Tells, OfStatus
    <2> QED BY <2>1, <2>2, <2>5, <2>8
<1>3. ASSUME NEW kind \in {"delete", "restore"}, NEW status \in {"live", "deleted"},
             kind = "delete" <=> status = "deleted", outcome \in Flipped(at, kind, status)
      PROVE  Tells(outcome.rows, held, outcome.to, at)
    <2>1. PICK row : row = Row(at, kind, None, None, held.version + 1)
        OBVIOUS
    <2>2. PICK to : to = [held EXCEPT !.status = status, !.version = @ + 1]
        OBVIOUS
    <2>3. outcome.rows = <<row>> /\ outcome.to = to
        BY <1>3, <2>1, <2>2 DEF Flipped
    <2>4. row \in ChangeRows /\ row.at = at /\ row.version = held.version + 1 /\ row.kind = kind
        BY <1>0, <2>1 DEF Row, ChangeRows
    <2>5. to.status = status /\ to.data = held.data /\ to.version = held.version + 1 /\ to \in HeldStates
        <3>1. to = [status |-> status, data |-> held.data, version |-> held.version + 1]
            BY <1>0, <2>2, Zenon
        <3>2. held.data \in [Facets -> Contents \cup {None}] /\ held.version + 1 \in Nat
            BY <1>0
        <3> QED BY <3>1, <3>2 DEF HeldStates
    <2>6. PICK rows : rows = <<row>>
        OBVIOUS
    <2>7. rows \in Seq(ChangeRows) /\ Len(rows) = 1 /\ rows[1] = row
        BY <2>4, <2>6
    <2>8. OfStatus(row) /\ row.kind \notin {"set", "unset"}
        BY <2>4 DEF OfStatus
    <2>9. Tells(rows, held, to, at)
        BY <1>3, <2>4, <2>5, <2>7, <2>8 DEF Tells
    <2> QED BY <2>3, <2>6, <2>9
<1>4. CASE held.status = "live" /\ outcome \in Flipped(at, "delete", "deleted")
    BY <1>3, <1>4
<1>5. CASE held.status = "deleted" /\ outcome \in Flipped(at, "restore", "live")
    BY <1>3, <1>5
<1>6. \/ held.status = "absent" /\ outcome \in Created(at)
      \/ held.status = "live" /\ outcome \in Updated(at) \cup Flipped(at, "delete", "deleted")
      \/ held.status = "deleted" /\ outcome \in Flipped(at, "restore", "live")
    BY <1>0 DEF Outcomes
<1> QED BY <1>1, <1>2, <1>4, <1>5, <1>6
\* The record before the k-th write, of a sequence of states.
NeverHeld == [status |-> "absent", data |-> [f \in Facets |-> None], version |-> 0]
StateBefore(past, k) == IF k = 1 THEN NeverHeld ELSE past[k - 1].record

\* The change rows carry the version and the time of their write, come in the order of the writes,
\* and say of each write what it changed.
Explains(rows, past) ==
    /\ \A k \in 1 .. Len(past) :
          /\ past[k].record.version = k /\ past[k].record.status # "absent"
          /\ \E i \in 1 .. Len(rows) : rows[i].version = k
          /\ \A f \in Facets : past[k].record.data[f] # StateBefore(past, k).data[f]
                => \E i \in 1 .. Len(rows) : rows[i].version = k /\ OfData(rows[i], f)
          /\ past[k].record.status # StateBefore(past, k).status
                => \E i \in 1 .. Len(rows) : rows[i].version = k /\ OfStatus(rows[i])
    /\ \A i \in 1 .. Len(rows) :
          LET of == past[rows[i].version] IN
          /\ rows[i].version \in 1 .. Len(past) /\ rows[i].at = of.at
          /\ rows[i].kind \in {"set", "unset"} => /\ rows[i].slug \in Facets
                                                  /\ Told(rows[i]) = of.record.data[rows[i].slug]
          /\ OfStatus(rows[i]) => (rows[i].kind = "delete" <=> of.record.status = "deleted")
    /\ \A i, j \in 1 .. Len(rows) : i < j => rows[i].version <= rows[j].version

LogInv == HistoryTyped /\ held = StateBefore(states, Len(states) + 1) /\ Explains(log, states)

LEMMA WriteExplains ==
    ASSUME NEW rows \in Seq(ChangeRows), NEW past \in Seq([at : Nat, record : HeldStates]), Explains(rows, past),
           NEW more, NEW at \in Nat, NEW to, Tells(more, StateBefore(past, Len(past) + 1), to, at)
    PROVE  Explains(rows \o more, Append(past, [at |-> at, record |-> to]))
<1>1. PICK entry : entry = [at |-> at, record |-> to]
    OBVIOUS
<1>2. entry.at = at /\ entry.record = to /\ entry \in [at : Nat, record : HeldStates]
    BY <1>1 DEF Tells
<1>3. PICK all : all = rows \o more
    OBVIOUS
<1>4. PICK now_ : now_ = Append(past, entry)
    OBVIOUS
<1>5. PICK n \in Nat : n = Len(past)
    OBVIOUS
<1>6. PICK a \in Nat : a = Len(rows)
    OBVIOUS
<1>7. more \in Seq(ChangeRows)
    BY DEF Tells
<1>8. PICK b \in Nat : b = Len(more)
    BY <1>7
<1>9. Len(now_) = n + 1 /\ now_[n + 1] = entry /\ \A k \in 1 .. n : now_[k] = past[k]
    BY <1>2, <1>4, <1>5
<1>10. /\ Len(all) = a + b
       /\ \A i \in 1 .. a : all[i] = rows[i]
       /\ \A i \in 1 .. b : all[a + i] = more[i]
    BY <1>3, <1>6, <1>7, <1>8
<1>11. b > 0 /\ to.version = n + 1 /\ to.status # "absent"
    <2>1. StateBefore(past, n + 1).version = n
        <3>1. CASE n = 0
            BY <3>1 DEF StateBefore, NeverHeld
        <3>2. CASE n # 0
            <4>1. n \in 1 .. n /\ StateBefore(past, n + 1) = past[n].record
                BY <3>2 DEF StateBefore
            <4> QED BY <1>5, <4>1 DEF Explains
        <3> QED BY <3>1, <3>2
    <2> QED BY <1>5, <1>8, <2>1 DEF Tells
<1>12. \A k \in 1 .. n + 1 : StateBefore(now_, k) = StateBefore(past, k)
    <2> SUFFICES ASSUME NEW k \in 1 .. n + 1, k # 1 PROVE now_[k - 1].record = past[k - 1].record
        BY DEF StateBefore
    <2>1. k - 1 \in 1 .. n
        OBVIOUS
    <2> QED BY <1>9, <2>1
<1>13. ASSUME NEW k \in 1 .. n + 1
       PROVE  /\ now_[k].record.version = k /\ now_[k].record.status # "absent"
              /\ \E i \in 1 .. Len(all) : all[i].version = k
              /\ \A f \in Facets : now_[k].record.data[f] # StateBefore(now_, k).data[f]
                    => \E i \in 1 .. Len(all) : all[i].version = k /\ OfData(all[i], f)
              /\ now_[k].record.status # StateBefore(now_, k).status
                    => \E i \in 1 .. Len(all) : all[i].version = k /\ OfStatus(all[i])
    <2>0. StateBefore(now_, k) = StateBefore(past, k)
        BY <1>12
    <2>1. CASE k \in 1 .. n
        <3>1. now_[k] = past[k]
            BY <1>9, <2>1
        <3>2. /\ past[k].record.version = k /\ past[k].record.status # "absent"
              /\ \E i \in 1 .. a : rows[i].version = k
              /\ \A f \in Facets : past[k].record.data[f] # StateBefore(past, k).data[f]
                    => \E i \in 1 .. a : rows[i].version = k /\ OfData(rows[i], f)
              /\ past[k].record.status # StateBefore(past, k).status
                    => \E i \in 1 .. a : rows[i].version = k /\ OfStatus(rows[i])
            BY <1>5, <1>6, <2>1 DEF Explains
        <3>3. \A i \in 1 .. a : i \in 1 .. Len(all) /\ all[i] = rows[i]
            <4>1. Len(all) = a + b
                BY <1>10
            <4>2. \A i \in 1 .. a : i \in 1 .. a + b
                BY <1>6, <1>8
            <4> QED BY <1>10, <4>1, <4>2
        <3> QED BY <2>0, <3>1, <3>2, <3>3
    <2>2. CASE k = n + 1
        <3>1. now_[k].record = to
            BY <1>2, <1>9, <2>2
        <3>2. \A i \in 1 .. b : a + i \in 1 .. Len(all) /\ all[a + i] = more[i] /\ more[i].version = k
            BY <1>8, <1>10, <1>11, <2>2 DEF Tells
        <3>3. PICK from : from = StateBefore(past, k)
            OBVIOUS
        <3>4. /\ \A f \in Facets : to.data[f] # from.data[f] => \E i \in 1 .. b : OfData(more[i], f)
              /\ to.status # from.status => \E i \in 1 .. b : OfStatus(more[i])
            BY <1>5, <1>8, <2>2, <3>3 DEF Tells
        <3>5. 1 \in 1 .. b
            BY <1>11
        <3> QED BY <1>11, <2>0, <2>2, <3>1, <3>2, <3>3, <3>4, <3>5
    <2> QED BY <2>1, <2>2
<1>14. ASSUME NEW i \in 1 .. a
       PROVE  /\ all[i].version \in 1 .. n + 1 /\ all[i].at = now_[all[i].version].at
              /\ all[i].kind \in {"set", "unset"} => /\ all[i].slug \in Facets
                                                     /\ Told(all[i]) = now_[all[i].version].record.data[all[i].slug]
              /\ OfStatus(all[i]) => (all[i].kind = "delete" <=> now_[all[i].version].record.status = "deleted")
    <2>1. all[i] = rows[i] /\ rows[i].version \in 1 .. n
        BY <1>5, <1>6, <1>10 DEF Explains
    <2>2. now_[rows[i].version] = past[rows[i].version]
        BY <1>9, <2>1
    <2> QED BY <1>6, <2>1, <2>2 DEF Explains
<1>15. ASSUME NEW i \in 1 .. b
       PROVE  /\ all[a + i].version = n + 1 /\ all[a + i].at = at
              /\ all[a + i].kind \in {"set", "unset"} => /\ all[a + i].slug \in Facets
                                                         /\ Told(all[a + i]) = to.data[all[a + i].slug]
              /\ OfStatus(all[a + i]) => (all[a + i].kind = "delete" <=> to.status = "deleted")
    BY <1>8, <1>10, <1>11 DEF Tells
<1>16. \A i \in 1 .. Len(all) : i \in 1 .. a \/ \E j \in 1 .. b : i = a + j
    <2> SUFFICES ASSUME NEW i \in 1 .. Len(all), i \notin 1 .. a PROVE \E j \in 1 .. b : i = a + j
        OBVIOUS
    <2>1. i - a \in 1 .. b /\ i = a + (i - a)
        BY <1>10
    <2> QED BY <2>1
<1>17. ASSUME NEW i \in 1 .. Len(all)
       PROVE  /\ all[i].version \in 1 .. Len(now_) /\ all[i].at = now_[all[i].version].at
              /\ all[i].kind \in {"set", "unset"} => /\ all[i].slug \in Facets
                                                     /\ Told(all[i]) = now_[all[i].version].record.data[all[i].slug]
              /\ OfStatus(all[i]) => (all[i].kind = "delete" <=> now_[all[i].version].record.status = "deleted")
    <2>1. CASE i \in 1 .. a
        BY <1>9, <1>14, <2>1
    <2>2. ASSUME NEW j \in 1 .. b, i = a + j
          PROVE  /\ all[i].version \in 1 .. Len(now_) /\ all[i].at = now_[all[i].version].at
                 /\ all[i].kind \in {"set", "unset"} => /\ all[i].slug \in Facets
                                                        /\ Told(all[i]) = now_[all[i].version].record.data[all[i].slug]
                 /\ OfStatus(all[i]) => (all[i].kind = "delete" <=> now_[all[i].version].record.status = "deleted")
        <3>1. all[i].version = n + 1 /\ n + 1 \in 1 .. Len(now_) /\ now_[n + 1].at = at /\ now_[n + 1].record = to
            BY <1>2, <1>9, <1>15, <2>2
        <3> QED BY <1>15, <2>2, <3>1
    <2> QED BY <1>16, <2>1, <2>2
<1>18. ASSUME NEW i \in 1 .. Len(all), NEW j \in 1 .. Len(all), i < j PROVE all[i].version <= all[j].version
    <2>1. CASE j \in 1 .. a
        <3>1. i \in 1 .. a
            BY <1>18, <2>1
        <3> QED BY <1>6, <1>10, <1>18, <2>1, <3>1 DEF Explains
    <2>2. CASE j \notin 1 .. a
        <3>1. all[j].version = n + 1
            BY <1>15, <1>16, <2>2
        <3>2. all[i].version \in 1 .. n + 1
            BY <1>9, <1>17
        <3> QED BY <3>1, <3>2
    <2> QED BY <2>1, <2>2
<1>19. Explains(all, now_)
    BY <1>9, <1>13, <1>17, <1>18 DEF Explains
<1> QED BY <1>1, <1>3, <1>4, <1>19

LEMMA LogInit == HistoryInit => LogInv
<1> SUFFICES ASSUME HistoryInit PROVE LogInv
    OBVIOUS
<1> USE DEF HistoryInit
<1>1. held \in HeldStates /\ now \in Nat /\ started \in [Writers -> Nat \cup {None}]
    BY DEF HeldStates
<1>2. log \in Seq(ChangeRows) /\ states \in Seq([at : Nat, record : HeldStates]) /\ Len(log) = 0 /\ Len(states) = 0
    OBVIOUS
<1>3. note \in [Notes -> [live : BOOLEAN, at : Nat, about : SUBSET ({Anchor} \cup Neighbours)]]
    <2>1. PICK A : A = [live : {TRUE}, at : {1}, about : {{Anchor}, Neighbours}]
        OBVIOUS
    <2>2. PICK B : B = [live : BOOLEAN, at : Nat, about : SUBSET ({Anchor} \cup Neighbours)]
        OBVIOUS
    <2>3. ASSUME NEW x \in A PROVE x \in B
        <3>1. x = [live |-> x.live, at |-> x.at, about |-> x.about] /\ x.live = TRUE /\ x.at = 1
              /\ x.about \in {{Anchor}, Neighbours}
            BY <2>1
        <3>a. x.live \in BOOLEAN
            BY <3>1, Zenon
        <3>b. x.at \in Nat
            BY <3>1
        <3>c. x.about \in SUBSET ({Anchor} \cup Neighbours)
            <4>1. x.about \in {{Anchor}, Neighbours}
                BY <3>1
            <4> QED BY <4>1, Zenon
        <3>2. x.live \in BOOLEAN /\ x.at \in Nat /\ x.about \in SUBSET ({Anchor} \cup Neighbours)
            BY <3>a, <3>b, <3>c, Zenon
        <3>3. [live |-> x.live, at |-> x.at, about |-> x.about] \in B
            BY <2>2, <3>2
        <3> QED BY <3>1, <3>3
    <2>4. note \in [Notes -> A]
        BY <2>1
    <2> QED BY <2>2, <2>3, <2>4
<1>4. held = StateBefore(states, Len(states) + 1)
    BY <1>2 DEF StateBefore, NeverHeld
<1>5. Explains(log, states)
    BY <1>2 DEF Explains
<1> QED BY <1>1, <1>2, <1>3, <1>4, <1>5 DEF LogInv, HistoryTyped

\* A record that was never written has no version.
LEMMA AbsentIsNew == ASSUME LogInv PROVE held.status = "absent" => held.version = 0
<1>1. PICK n \in Nat : n = Len(states)
    BY DEF LogInv, HistoryTyped
<1>2. CASE n = 0
    BY <1>1, <1>2 DEF LogInv, StateBefore, NeverHeld
<1>3. CASE n # 0
    <2>1. n \in 1 .. n /\ held = states[n].record
        BY <1>1, <1>3 DEF LogInv, StateBefore
    <2> QED BY <1>1, <2>1 DEF LogInv, Explains
<1> QED BY <1>2, <1>3

LEMMA LogStep == LogInv /\ [HistoryNext]_<<historyVars, reading, altered>> => LogInv'
<1> SUFFICES ASSUME LogInv, [HistoryNext]_<<historyVars, reading, altered>> PROVE LogInv'
    OBVIOUS
<1>0. HistoryTyped
    BY DEF LogInv
<1>1. ASSUME NEW w \in Writers, CommitWrite(w) PROVE LogInv'
    <2>1. PICK at \in started[w] .. now : \E outcome \in Outcomes(at) :
              held' = outcome.to /\ log' = log \o outcome.rows
              /\ states' = Append(states, [at |-> at, record |-> outcome.to])
        BY <1>1, Zenon DEF CommitWrite
    <2>2. PICK outcome \in Outcomes(at) :
              held' = outcome.to /\ log' = log \o outcome.rows
              /\ states' = Append(states, [at |-> at, record |-> outcome.to])
        BY <2>1
    <2>3. at \in Nat
        <3>1. started[w] \in Nat
            BY <1>0, <1>1 DEF HistoryTyped, CommitWrite
        <3> QED BY <1>0, <2>1, <3>1 DEF HistoryTyped
    <2>4. Tells(outcome.rows, held, outcome.to, at)
        BY <1>0, <2>2, <2>3, AbsentIsNew, OutcomesTell DEF HistoryTyped
    <2>5. PICK n \in Nat : n = Len(states)
        BY <1>0 DEF HistoryTyped
    <2>6. Explains(log', states')
        BY <1>0, <2>2, <2>3, <2>4, WriteExplains DEF HistoryTyped, LogInv
    <2>7. /\ now' = now /\ note' = note
          /\ started' \in [Writers -> Nat \cup {None}]
        BY <1>0, <1>1 DEF CommitWrite, HistoryTyped
    <2>8. /\ outcome.to \in HeldStates /\ outcome.rows \in Seq(ChangeRows)
        BY <2>4 DEF Tells
    <2>9. log' \in Seq(ChangeRows) /\ held' \in HeldStates
        BY <1>0, <2>2, <2>8 DEF HistoryTyped
    <2>10. PICK entry : entry = [at |-> at, record |-> outcome.to]
        OBVIOUS
    <2>11. entry \in [at : Nat, record : HeldStates] /\ entry.record = outcome.to
        BY <2>3, <2>8, <2>10
    <2>12. /\ states' \in Seq([at : Nat, record : HeldStates]) /\ Len(states') = n + 1
           /\ states'[n + 1] = entry
        BY <1>0, <2>2, <2>5, <2>10, <2>11 DEF HistoryTyped
    <2>13. held' = StateBefore(states', Len(states') + 1)
        BY <2>2, <2>11, <2>12 DEF StateBefore
    <2>14. HistoryTyped'
        BY <1>0, <2>7, <2>9, <2>12 DEF HistoryTyped
    <2> QED BY <2>6, <2>13, <2>14 DEF LogInv
<1>2. ASSUME NEW n \in Notes, AlterNote(n) PROVE LogInv'
    <2>1. PICK N : N = [live : BOOLEAN, at : Nat, about : SUBSET ({Anchor} \cup Neighbours)]
        OBVIOUS
    <2>2. note \in [Notes -> N] /\ note[n] \in N
        BY <1>0, <2>1 DEF HistoryTyped
    <2>3. PICK e : e = note[n]
        OBVIOUS
    <2>4. e = [live |-> e.live, at |-> e.at, about |-> e.about] /\ e.live \in BOOLEAN /\ e.at \in Nat
          /\ e.about \in SUBSET ({Anchor} \cup Neighbours)
        BY <2>1, <2>2, <2>3
    <2>5. \E new \in N : note' = [note EXCEPT ![n] = new]
        <3>1. ASSUME NEW t \in 1 .. now, note' = [note EXCEPT ![n].at = t] PROVE \E new \in N : note' = [note EXCEPT ![n] = new]
            <4>0. t \in Nat
                BY <1>0 DEF HistoryTyped
            <4>1. [e EXCEPT !.at = t] \in N
                BY <2>1, <2>4, <4>0
            <4>2. note' = [note EXCEPT ![n] = [e EXCEPT !.at = t]]
                BY <2>3, <3>1
            <4> QED BY <4>1, <4>2
        <3>2. ASSUME note' = [note EXCEPT ![n].live = ~@] PROVE \E new \in N : note' = [note EXCEPT ![n] = new]
            <4>1. [e EXCEPT !.live = ~ e.live] \in N
                BY <2>1, <2>4
            <4>2. note' = [note EXCEPT ![n] = [e EXCEPT !.live = ~ e.live]]
                BY <2>3, <3>2
            <4> QED BY <4>1, <4>2
        <3>3. ASSUME NEW S \in {{Anchor}, Neighbours, {}}, note' = [note EXCEPT ![n].about = S]
              PROVE \E new \in N : note' = [note EXCEPT ![n] = new]
            <4>1. [e EXCEPT !.about = S] \in N
                BY <2>1, <2>4
            <4>2. note' = [note EXCEPT ![n] = [e EXCEPT !.about = S]]
                BY <2>3, <3>3
            <4> QED BY <4>1, <4>2
        <3> QED BY <1>2, <3>1, <3>2, <3>3 DEF AlterNote
    <2>6. note' \in [Notes -> N]
        BY <2>2, <2>5
    <2>7. UNCHANGED <<now, started, held, log, states>>
        BY <1>2 DEF AlterNote
    <2> QED BY <1>0, <2>1, <2>6, <2>7 DEF LogInv, HistoryTyped
<1>3. ASSUME UNCHANGED <<held, log, states, note>>, now' \in Nat, started' \in [Writers -> Nat \cup {None}]
      PROVE LogInv'
    BY <1>0, <1>3 DEF LogInv, HistoryTyped
<1>4. CASE ClockTicks
    BY <1>0, <1>3, <1>4 DEF ClockTicks, HistoryTyped
<1>5. ASSUME NEW w \in Writers, BeginWrite(w) PROVE LogInv'
    BY <1>0, <1>3, <1>5 DEF BeginWrite, HistoryTyped
<1>6. ASSUME UNCHANGED <<now, started, held, log, states, note>> PROVE LogInv'
    BY <1>0, <1>3, <1>6 DEF HistoryTyped
<1>7. CASE AlterLinks
    BY <1>6, <1>7 DEF AlterLinks
<1>8. CASE OpenHistory
    BY <1>6, <1>8 DEF OpenHistory, historyVars
<1>9. CASE NextHistoryPage
    BY <1>6, <1>9 DEF NextHistoryPage, historyVars
<1>10. CASE OpenTimeline
    BY <1>6, <1>10 DEF OpenTimeline, historyVars
<1>11. CASE FetchTimeline
    BY <1>6, <1>11 DEF FetchTimeline
<1>12. CASE PresentTimeline
    BY <1>6, <1>12 DEF PresentTimeline
<1>13. CASE UNCHANGED <<historyVars, reading, altered>>
    BY <1>6, <1>13 DEF historyVars
<1> QED BY <1>1, <1>2, <1>4, <1>5, <1>7, <1>8, <1>9, <1>10, <1>11, <1>12, <1>13 DEF HistoryNext

LEMMA LogHolds == HistorySpec => []LogInv
BY LogInit, LogStep, PTL DEF HistorySpec

\* An initial part of 1 .. n.
LEMMA InitialPart ==
    ASSUME NEW n \in Nat, NEW S \in SUBSET (1 .. n), \A i \in S : \A j \in 1 .. n : j < i => j \in S
    PROVE  \E m \in 0 .. n : S = 1 .. m
<1>1. CASE S = 1 .. n
    BY <1>1
<1>2. CASE S # 1 .. n
    <2>1. PICK T : T = (1 .. n) \ S
        OBVIOUS
    <2>a. T \subseteq Nat
        BY <2>1
    <2>b. T # {}
        BY <1>2, <2>1, Zenon
    <2>2. T \subseteq Nat /\ T # {}
        BY <2>a, <2>b
    <2>3. PICK k \in T : \A y \in T : k <= y
        BY <2>2, LeastOf
    <2>4. k \in 1 .. n /\ k \notin S
        BY <2>1
    <2>5. ASSUME NEW i \in S PROVE i \in 1 .. k - 1
        BY <2>4, <2>5
    <2>6. ASSUME NEW i \in 1 .. k - 1 PROVE i \in S
        <3>1. i \in 1 .. n /\ i < k
            BY <2>4
        <3>2. i \notin T
            BY <2>2, <2>3, <2>4, <3>1
        <3> QED BY <2>1, <3>1, <3>2
    <2>c. S = 1 .. k - 1
        BY <2>5, <2>6, Zenon
    <2>7. S = 1 .. k - 1 /\ k - 1 \in 0 .. n
        BY <2>4, <2>c
    <2> QED BY <2>7
<1> QED BY <1>1, <1>2

LEMMA GreatestOf ==
    ASSUME NEW n \in Nat, NEW S \in SUBSET (1 .. n), S # {}
    PROVE  Max(S) \in S /\ \A y \in S : y <= Max(S)
<1>1. PICK T : T = {j \in Nat : n - j \in S}
    OBVIOUS
<1>2. T # {}
    <2>1. PICK i \in S : TRUE
        OBVIOUS
    <2>2. n - i \in Nat /\ n - (n - i) = i
        OBVIOUS
    <2> QED BY <1>1, <2>1, <2>2
<1>3. PICK j \in T : \A y \in T : j <= y
    BY <1>1, <1>2, LeastOf
<1>4. j \in Nat /\ n - j \in S
    BY <1>1
<1>5. ASSUME NEW y \in S PROVE y <= n - j
    <2>1. n - y \in Nat /\ n - (n - y) = y
        OBVIOUS
    <2>2. n - y \in T
        BY <1>1, <2>1
    <2>3. j <= n - y
        BY <1>3, <2>2
    <2> QED BY <1>4, <2>3
<1>6. \E x \in S : \A y \in S : x >= y
    <2>1. \A y \in S : n - j >= y
        BY <1>4, <1>5
    <2> QED BY <1>4, <2>1
<1>7. Max(S) = CHOOSE x \in S : \A y \in S : x >= y
    BY DEF Max
<1>8. Max(S) \in S /\ \A y \in S : Max(S) >= y
    BY <1>6, <1>7
<1> QED BY <1>8

\* What no write changes stays.
LEMMA Silence ==
    ASSUME NEW m \in Nat, NEW v \in 0 .. m, NEW D, \A k \in v + 1 .. m : D[k] = D[k - 1]
    PROVE  D[m] = D[v]
<1> SUFFICES ASSUME D[m] # D[v] PROVE FALSE
    OBVIOUS
<1>1. PICK T : T = {k \in v .. m : D[k] # D[v]}
    OBVIOUS
<1>2. m \in T /\ T \subseteq Nat
    BY <1>1
<1>3. PICK k \in T : \A y \in T : k <= y
    BY <1>2, LeastOf
<1>4. k \in v .. m /\ D[k] # D[v]
    BY <1>1
<1>5. k # v /\ k \in v + 1 .. m /\ k - 1 \in v .. m
    BY <1>4
<1>6. D[k - 1] # D[v]
    BY <1>4, <1>5
<1>7. k - 1 \in T
    BY <1>1, <1>5, <1>6
<1> QED BY <1>3, <1>4, <1>7

\* If times follow the order of the writes, the rows up to an instant are those of the first
\* writes, and are replayed in the order in which they were written.
LEMMA ReplayIsLog ==
    ASSUME LogInv, \A j, k \in DOMAIN states : j < k => states[j].at <= states[k].at, NEW at \in Int
    PROVE  \E m \in 0 .. Len(states), n \in 0 .. Len(log) :
              /\ {k \in DOMAIN states : states[k].at <= at} = 1 .. m
              /\ \A i \in 1 .. Len(log) : i <= n <=> log[i].version <= m
              /\ ReplayOrder(at) = [i \in 1 .. n |-> i]
<1>1. PICK M \in Nat : M = Len(states) /\ DOMAIN states = 1 .. M
    BY DEF LogInv, HistoryTyped
<1>2. PICK N \in Nat : N = Len(log) /\ DOMAIN log = 1 .. N
    BY DEF LogInv, HistoryTyped
<1>3. /\ \A k \in 1 .. M : states[k].at \in Nat
      /\ \A i \in 1 .. N : log[i].at \in Nat /\ log[i].version \in Nat
    <2>1. ASSUME NEW k \in 1 .. M PROVE states[k].at \in Nat
        <3>1. PICK E : E = [at : Nat, record : HeldStates]
            OBVIOUS
        <3>2. states \in Seq(E)
            BY <3>1 DEF LogInv, HistoryTyped
        <3>3. states[k] \in E
            BY <1>1, <3>2
        <3> QED BY <3>1, <3>3
    <2>2. ASSUME NEW i \in 1 .. N PROVE log[i].at \in Nat /\ log[i].version \in Nat
        <3>1. log[i] \in ChangeRows
            BY <1>2 DEF LogInv, HistoryTyped
        <3> QED BY <3>1 DEF ChangeRows
    <2> QED BY <2>1, <2>2
<1>4. /\ \A i \in 1 .. N : log[i].version \in 1 .. M /\ log[i].at = states[log[i].version].at
      /\ \A i, j \in 1 .. N : i < j => log[i].version <= log[j].version
    BY <1>1, <1>2 DEF LogInv, Explains
<1>5. PICK W : W = {k \in 1 .. M : states[k].at <= at}
    OBVIOUS
<1>6. \E m \in 0 .. M : W = 1 .. m
    <2>1. W \in SUBSET (1 .. M)
        BY <1>5
    <2>2. ASSUME NEW i \in W, NEW j \in 1 .. M, j < i PROVE j \in W
        <3>1. states[j].at <= states[i].at /\ states[i].at <= at
            BY <1>1, <1>5, <2>2
        <3> QED BY <1>3, <1>5, <3>1
    <2> QED BY <2>1, <2>2, InitialPart
<1>7. PICK m \in 0 .. M : W = 1 .. m
    BY <1>6
<1>8. PICK S : S = {i \in 1 .. N : log[i].at <= at}
    OBVIOUS
<1>9. \A i \in 1 .. N : i \in S <=> log[i].version <= m
    <2> SUFFICES ASSUME NEW i \in 1 .. N PROVE i \in S <=> log[i].version <= m
        OBVIOUS
    <2>1. i \in S <=> log[i].version \in W
        BY <1>4, <1>5, <1>8
    <2>2. log[i].version \in 1 .. m <=> log[i].version <= m
        BY <1>4
    <2> QED BY <1>7, <2>1, <2>2
<1>10. \E n \in 0 .. N : S = 1 .. n
    <2>1. S \in SUBSET (1 .. N)
        BY <1>8
    <2>2. ASSUME NEW i \in S, NEW j \in 1 .. N, j < i PROVE j \in S
        <3>1. log[j].version <= log[i].version /\ log[i].version <= m
            BY <1>4, <1>9, <2>1, <2>2
        <3> QED BY <1>3, <1>9, <2>1, <3>1
    <2> QED BY <2>1, <2>2, InitialPart
<1>11. PICK n \in 0 .. N : S = 1 .. n
    BY <1>10
<1>12. \A i \in 1 .. N : i <= n <=> log[i].version <= m
    BY <1>9, <1>11
<1> DEFINE before(i) == {j \in S : log[j].at < log[i].at \/ (log[j].at = log[i].at /\ j < i)}
<1>13. ASSUME NEW i \in 1 .. n PROVE Cardinality(before(i)) = i - 1
    <2>1. i \in 1 .. N
        OBVIOUS
    <2>2. ASSUME NEW j \in 1 .. n, j < i PROVE j \in before(i)
        <3>1. j \in 1 .. N /\ log[j].version <= log[i].version
            BY <1>4, <2>1, <2>2
        <3>2. log[j].at <= log[i].at
            <4>1. CASE log[j].version = log[i].version
                BY <1>3, <1>4, <2>1, <3>1, <4>1
            <4>2. CASE log[j].version < log[i].version
                BY <1>1, <1>4, <2>1, <3>1, <4>2
            <4> QED BY <1>3, <2>1, <3>1, <4>1, <4>2
        <3> QED BY <1>3, <1>11, <2>1, <2>2, <3>1, <3>2
    <2>3. ASSUME NEW j \in before(i) PROVE j \in 1 .. i - 1
        <3>1. j \in 1 .. n /\ j \in 1 .. N
            BY <1>11
        <3>2. CASE j < i
            BY <3>1, <3>2
        <3>3. CASE i < j
            <4>1. log[i].version <= log[j].version
                BY <1>4, <2>1, <3>1, <3>3
            <4>2. log[i].at <= log[j].at
                <5>1. CASE log[j].version = log[i].version
                    BY <1>3, <1>4, <2>1, <3>1, <5>1
                <5>2. CASE log[i].version < log[j].version
                    BY <1>1, <1>4, <2>1, <3>1, <5>2
                <5> QED BY <1>3, <2>1, <3>1, <4>1, <5>1, <5>2
            <4> QED BY <1>3, <2>1, <3>1, <3>3, <4>2
        <3>4. j # i
            BY <1>3, <2>1
        <3> QED BY <3>1, <3>2, <3>3, <3>4
    <2>4. before(i) = 1 .. i - 1
        <3>1. \A j \in 1 .. i - 1 : j \in 1 .. n /\ j < i
            OBVIOUS
        <3>2. \A j : j \in before(i) <=> j \in 1 .. i - 1
            BY <2>2, <2>3, <3>1
        <3> QED BY <3>2, Zenon
    <2> HIDE DEF before
    <2>5. Cardinality(1 .. i - 1) = i - 1
        <3>1. PICK k \in Nat : k = i - 1
            OBVIOUS
        <3>a. Cardinality(1 .. k) = IF 1 > k THEN 0 ELSE k - 1 + 1
            <4>1. 1 \in Int /\ k \in Int
                OBVIOUS
            <4> QED BY <4>1, FS_Interval, Zenon
        <3>2. Cardinality(1 .. k) = k
            BY <3>a
        <3> QED BY <3>1, <3>2
    <2> QED BY <2>4, <2>5
<1>14. PICK s : s = ReplayOrder(at)
    OBVIOUS
<1>15. s = [k \in 1 .. Cardinality(S) |-> CHOOSE x \in S : Cardinality(before(x)) = k - 1]
    BY <1>2, <1>8, <1>14 DEF ReplayOrder, Sorted
<1> HIDE DEF before
<1>16. Cardinality(S) = n
    BY <1>11, FS_Interval
<1>17. \A k \in 1 .. n : s[k] = k
    <2> SUFFICES ASSUME NEW k \in 1 .. n PROVE s[k] = k
        OBVIOUS
    <2>1. s[k] = CHOOSE x \in S : Cardinality(before(x)) = k - 1
        BY <1>15, <1>16
    <2>2. k \in S /\ Cardinality(before(k)) = k - 1
        BY <1>11, <1>13
    <2>3. s[k] \in S /\ Cardinality(before(s[k])) = k - 1
        BY <2>1, <2>2
    <2>4. s[k] \in 1 .. n
        BY <1>11, <2>3
    <2>5. Cardinality(before(s[k])) = s[k] - 1
        BY <1>13, <2>4
    <2> QED BY <2>3, <2>4, <2>5
<1>18. s = [i \in 1 .. n |-> i]
    <2> DEFINE element(k) == CHOOSE x \in S : Cardinality(before(x)) = k - 1
    <2>1. s = [k \in 1 .. n |-> element(k)]
        BY <1>15, <1>16
    <2> HIDE DEF element
    <2> QED BY <1>17, <2>1
<1>19. {k \in DOMAIN states : states[k].at <= at} = 1 .. m
    BY <1>1, <1>5, <1>7
<1> QED BY <1>1, <1>2, <1>12, <1>14, <1>18, <1>19

\* The last of the rows of some kinds, of all attributes or of one.
RowsOf(n, kinds, f) == {i \in 1 .. n : log[i].kind \in kinds /\ (f = None \/ log[i].slug = f)}
FirstOnes(n) == [i \in 1 .. n |-> i]
LEMMA LastRow ==
    ASSUME NEW n \in Nat, NEW order, order = FirstOnes(n), NEW kinds, NEW f, NEW T, T = RowsOf(n, kinds, f)
    PROVE  /\ T = {} => LastOf(order, kinds, f) = None
           /\ T # {} => \E i \in T : (\A j \in T : j <= i) /\ LastOf(order, kinds, f) = log[i]
<1>1. DOMAIN order = 1 .. n /\ \A i \in 1 .. n : order[i] = i
    BY DEF FirstOnes
<1>2. {i \in DOMAIN order : log[order[i]].kind \in kinds /\ (f = None \/ log[order[i]].slug = f)} = T
    BY <1>1 DEF RowsOf
<1>3. LastOf(order, kinds, f) = IF T = {} THEN None ELSE log[order[Max(T)]]
    <2>1. PICK U : U = {i \in DOMAIN order : log[order[i]].kind \in kinds /\ (f = None \/ log[order[i]].slug = f)}
        OBVIOUS
    <2>2. LastOf(order, kinds, f) = IF U = {} THEN None ELSE log[order[Max(U)]]
        BY <2>1 DEF LastOf
    <2>3. U = T
        BY <1>2, <2>1
    <2> QED BY <2>2, <2>3
<1>4. ASSUME T # {} PROVE \E i \in T : (\A j \in T : j <= i) /\ LastOf(order, kinds, f) = log[i]
    <2>1. T \in SUBSET (1 .. n)
        BY DEF RowsOf
    <2>2. Max(T) \in T /\ \A y \in T : y <= Max(T)
        BY <1>4, <2>1, GreatestOf
    <2>3. PICK i : i = Max(T)
        OBVIOUS
    <2>4. order[i] = i
        BY <1>1, <2>1, <2>2, <2>3
    <2>5. LastOf(order, kinds, f) = log[i]
        BY <1>3, <1>4, <2>3, <2>4
    <2> QED BY <2>2, <2>3, <2>5
<1> QED BY <1>3, <1>4

\* The rows of the first writes tell the data and the status the last of them left.
LEMMA LogTells ==
    ASSUME LogInv, NEW m \in 1 .. Len(states), NEW n \in 0 .. Len(log),
           \A i \in 1 .. Len(log) : i <= n <=> log[i].version <= m,
           NEW order, order = FirstOnes(n)
    PROVE  /\ n > 0 /\ log[n].version = m
           /\ ReplayData(order) = states[m].record.data
           /\ LET last == LastOf(order, {"create", "delete", "restore"}, None) IN
              last # None /\ (last.kind = "delete" <=> states[m].record.status # "live")
<1>1. PICK M \in Nat : M = Len(states)
    BY DEF LogInv, HistoryTyped
<1>2. PICK N \in Nat : N = Len(log)
    BY DEF LogInv, HistoryTyped
<1>3. /\ m \in 1 .. M /\ n \in 0 .. N /\ n \in Nat
      /\ \A i \in 1 .. N : i <= n <=> log[i].version <= m
    BY <1>1, <1>2
<1>4. /\ \A k \in 1 .. M :
            /\ states[k].record.version = k /\ states[k].record.status # "absent"
            /\ \E i \in 1 .. N : log[i].version = k
            /\ \A f \in Facets : states[k].record.data[f] # StateBefore(states, k).data[f]
                  => \E i \in 1 .. N : log[i].version = k /\ OfData(log[i], f)
            /\ states[k].record.status # StateBefore(states, k).status
                  => \E i \in 1 .. N : log[i].version = k /\ OfStatus(log[i])
      /\ \A i \in 1 .. N :
            /\ log[i].version \in 1 .. M
            /\ log[i].kind \in {"set", "unset"} => /\ log[i].slug \in Facets
                                                   /\ Told(log[i]) = states[log[i].version].record.data[log[i].slug]
            /\ OfStatus(log[i]) => (log[i].kind = "delete" <=> states[log[i].version].record.status = "deleted")
      /\ \A i, j \in 1 .. N : i < j => log[i].version <= log[j].version
    BY <1>1, <1>2 DEF LogInv, Explains
<1>5. \A i \in 1 .. N : log[i] \in ChangeRows /\ log[i] # None
    <2>1. \A i \in 1 .. N : log[i] \in ChangeRows
        BY <1>2 DEF LogInv, HistoryTyped
    <2>2. None \notin ChangeRows
        BY HistoryAssumption
    <2> QED BY <2>1, <2>2
<1>6. n > 0 /\ log[n].version = m
    <2>1. PICK i \in 1 .. N : log[i].version = m
        BY <1>3, <1>4
    <2>2. i <= n /\ n \in 1 .. N
        BY <1>3, <2>1
    <2>3. log[n].version <= m
        BY <1>3, <2>2
    <2>4. log[i].version <= log[n].version
        <3>1. CASE i = n
            BY <1>3, <2>1, <3>1
        <3>2. CASE i # n
            BY <1>4, <2>2, <3>2
        <3> QED BY <3>1, <3>2
    <2>5. log[n].version \in 1 .. M
        BY <1>4, <2>2
    <2> QED BY <1>3, <2>1, <2>2, <2>3, <2>4, <2>5
<1>7. \A k \in 2 .. M : StateBefore(states, k) = states[k - 1].record
    BY DEF StateBefore
<1>8. StateBefore(states, 1) = NeverHeld
    BY DEF StateBefore
<1>9. \A i \in 1 .. n : i \in 1 .. N /\ log[i].version \in 1 .. m
    <2> SUFFICES ASSUME NEW i \in 1 .. n PROVE i \in 1 .. N /\ log[i].version \in 1 .. m
        OBVIOUS
    <2>1. i \in 1 .. N /\ i <= n
        BY <1>3
    <2>2. log[i].version \in 1 .. M /\ log[i].version <= m
        BY <1>3, <1>4, <2>1
    <2> QED BY <1>3, <2>1, <2>2
<1>10. ASSUME NEW f \in Facets
       PROVE  LET row == LastOf(order, {"set", "unset"}, f) IN
              (IF row = None \/ row.kind = "unset" THEN None ELSE row.value) = states[m].record.data[f]
    <2>0. f # None
        BY HistoryAssumption
    <2>1. PICK T : T = RowsOf(n, {"set", "unset"}, f)
        OBVIOUS
    <2>2. \A i \in T : i \in 1 .. n /\ OfData(log[i], f)
        BY <2>0, <2>1 DEF OfData, RowsOf
    <2>3. \A i \in 1 .. n : OfData(log[i], f) => i \in T
        BY <2>1 DEF OfData, RowsOf
    <2>4. PICK D : D = [k \in 0 .. m |-> IF k = 0 THEN None ELSE states[k].record.data[f]]
        OBVIOUS
    <2>5. ASSUME NEW k \in 1 .. m, D[k] # D[k - 1] PROVE \E i \in T : log[i].version = k
        <3>0. k \in 1 .. M /\ k \in 0 .. m /\ k - 1 \in 0 .. m
            BY <1>3
        <3>1. D[k] = states[k].record.data[f]
            BY <2>4, <3>0
        <3>2. D[k - 1] = StateBefore(states, k).data[f]
            <4>1. CASE k = 1
                <5>1. D[0] = None
                    BY <2>4, <3>0
                <5> QED BY <1>8, <4>1, <5>1 DEF NeverHeld
            <4>2. CASE k # 1
                BY <1>7, <2>4, <3>0, <4>2
            <4> QED BY <4>1, <4>2
        <3>3. PICK i \in 1 .. N : log[i].version = k /\ OfData(log[i], f)
            BY <1>4, <2>5, <3>0, <3>1, <3>2
        <3>4. i \in 1 .. n
            BY <1>3, <3>3
        <3> QED BY <2>3, <3>3, <3>4
    <2>6. D[m] = states[m].record.data[f]
        BY <1>3, <2>4
    <2>7. CASE T = {}
        <3>1. LastOf(order, {"set", "unset"}, f) = None
            BY <1>3, <2>1, <2>7, LastRow
        <3>2. D[m] = D[0]
            <4>1. \A k \in 0 + 1 .. m : D[k] = D[k - 1]
                BY <2>5, <2>7
            <4>2. m \in Nat /\ 0 \in 0 .. m
                BY <1>3
            <4> QED BY <4>1, <4>2, Silence
        <3>3. D[0] = None
            BY <1>3, <2>4
        <3> QED BY <2>6, <3>1, <3>2, <3>3
    <2>8. CASE T # {}
        <3>1. PICK i \in T : (\A j \in T : j <= i) /\ LastOf(order, {"set", "unset"}, f) = log[i]
            <4>1. n \in Nat
                BY <1>3
            <4>2. T # {} => \E i \in T : (\A j \in T : j <= i) /\ LastOf(order, {"set", "unset"}, f) = log[i]
                BY <4>1, <2>1, LastRow
            <4> QED BY <4>2, <2>8
        <3>2. i \in 1 .. n /\ OfData(log[i], f) /\ i \in 1 .. N
            BY <1>9, <2>2
        <3>3. PICK v \in 1 .. m : v = log[i].version
            BY <1>9, <3>2
        <3>4. Told(log[i]) = D[v]
            <4>1. log[i].slug = f /\ log[i].kind \in {"set", "unset"}
                BY <3>2 DEF OfData
            <4>2. Told(log[i]) = states[v].record.data[f]
                BY <1>4, <3>2, <3>3, <4>1
            <4> QED BY <2>4, <4>2
        <3>5. D[m] = D[v]
            <4>1. ASSUME NEW k \in v + 1 .. m PROVE D[k] = D[k - 1]
                <5> SUFFICES ASSUME D[k] # D[k - 1] PROVE FALSE
                    OBVIOUS
                <5>0. k \in 1 .. m
                    OBVIOUS
                <5>1. PICK j \in T : log[j].version = k
                    BY <2>5, <5>0
                <5>2. j <= i /\ j \in 1 .. N
                    BY <1>9, <2>2, <3>1
                <5>3. log[j].version <= log[i].version
                    <6>1. CASE j = i
                        BY <3>3, <6>1
                    <6>2. CASE j # i
                        BY <1>4, <3>2, <5>2, <6>2
                    <6> QED BY <6>1, <6>2
                <5> QED BY <3>3, <5>1, <5>3
            <4>2. m \in Nat /\ v \in 0 .. m
                BY <1>3
            <4> QED BY <4>1, <4>2, Silence
        <3>6. log[i] # None /\ (log[i].kind = "unset" \/ log[i].kind = "set")
            BY <1>5, <3>2 DEF OfData
        <3> QED BY <2>6, <3>1, <3>4, <3>5, <3>6 DEF Told
    <2> QED BY <2>7, <2>8
<1>11. ReplayData(order) = states[m].record.data
    <2>1. states[m].record.data \in [Facets -> Contents \cup {None}]
        <3>1. PICK E : E = [at : Nat, record : HeldStates]
            OBVIOUS
        <3>2. states \in Seq(E)
            BY <3>1 DEF LogInv, HistoryTyped
        <3>a. m \in 1 .. Len(states)
            OBVIOUS
        <3>b. states[m] \in E
            BY <3>2, <3>a
        <3>3. states[m].record \in HeldStates
            BY <3>1, <3>b
        <3> QED BY <3>3 DEF HeldStates
    <2> DEFINE told(f) == LET row == LastOf(order, {"set", "unset"}, f) IN
                          IF row = None \/ row.kind = "unset" THEN None ELSE row.value
    <2>2. ReplayData(order) = [f \in Facets |-> told(f)]
        BY DEF ReplayData
    <2>3. \A f \in Facets : told(f) = states[m].record.data[f]
        BY <1>10
    <2> HIDE DEF told
    <2> QED BY <2>1, <2>2, <2>3
<1>12. LET last == LastOf(order, {"create", "delete", "restore"}, None) IN
       last # None /\ (last.kind = "delete" <=> states[m].record.status # "live")
    <2>1. PICK T : T = RowsOf(n, {"create", "delete", "restore"}, None)
        OBVIOUS
    <2>2. \A i \in T : i \in 1 .. n /\ OfStatus(log[i])
        BY <2>1 DEF OfStatus, RowsOf
    <2>3. \A i \in 1 .. n : OfStatus(log[i]) => i \in T
        BY <2>1 DEF OfStatus, RowsOf
    <2>4. PICK D : D = [k \in 0 .. m |-> IF k = 0 THEN "absent" ELSE states[k].record.status]
        OBVIOUS
    <2>5. ASSUME NEW k \in 1 .. m, D[k] # D[k - 1] PROVE \E i \in T : log[i].version = k
        <3>0. k \in 1 .. M /\ k \in 0 .. m /\ k - 1 \in 0 .. m
            BY <1>3
        <3>1. D[k] = states[k].record.status
            BY <2>4, <3>0
        <3>2. D[k - 1] = StateBefore(states, k).status
            <4>1. CASE k = 1
                <5>1. D[0] = "absent"
                    BY <2>4, <3>0
                <5> QED BY <1>8, <4>1, <5>1 DEF NeverHeld
            <4>2. CASE k # 1
                BY <1>7, <2>4, <3>0, <4>2
            <4> QED BY <4>1, <4>2
        <3>3. PICK i \in 1 .. N : log[i].version = k /\ OfStatus(log[i])
            BY <1>4, <2>5, <3>0, <3>1, <3>2
        <3>4. i \in 1 .. n
            BY <1>3, <3>3
        <3> QED BY <2>3, <3>3, <3>4
    <2>6. D[m] = states[m].record.status
        BY <1>3, <2>4
    <2>7. T # {}
        <3>1. 1 \in 1 .. m /\ 1 \in 1 .. M /\ 1 \in 0 .. m /\ 0 \in 0 .. m
            BY <1>3
        <3>2. D[1] # "absent" /\ D[0] = "absent"
            BY <1>4, <2>4, <3>1
        <3>3. D[1] # D[1 - 1]
            BY <3>2
        <3> QED BY <2>5, <3>1, <3>3
    <2>8. PICK i \in T : (\A j \in T : j <= i) /\ LastOf(order, {"create", "delete", "restore"}, None) = log[i]
        <3>1. n \in Nat
            BY <1>3
        <3>2. T # {} => \E i \in T : (\A j \in T : j <= i) /\ LastOf(order, {"create", "delete", "restore"}, None) = log[i]
            BY <3>1, <2>1, LastRow
        <3> QED BY <3>2, <2>7
    <2>9. i \in 1 .. n /\ OfStatus(log[i]) /\ i \in 1 .. N
        BY <1>9, <2>2
    <2>10. PICK v \in 1 .. m : v = log[i].version
        BY <1>9, <2>9
    <2>11. log[i].kind = "delete" <=> D[v] = "deleted"
        BY <1>4, <2>4, <2>9, <2>10
    <2>12. D[m] = D[v]
        <3>1. ASSUME NEW k \in v + 1 .. m PROVE D[k] = D[k - 1]
            <4> SUFFICES ASSUME D[k] # D[k - 1] PROVE FALSE
                OBVIOUS
            <4>0. k \in 1 .. m
                OBVIOUS
            <4>1. PICK j \in T : log[j].version = k
                BY <2>5, <4>0
            <4>2. j <= i /\ j \in 1 .. N
                BY <1>9, <2>2, <2>8
            <4>3. log[j].version <= log[i].version
                <5>1. CASE j = i
                    BY <2>10, <5>1
                <5>2. CASE j # i
                    BY <1>4, <2>9, <4>2, <5>2
                <5> QED BY <5>1, <5>2
            <4> QED BY <2>10, <4>1, <4>3
        <3>2. m \in Nat /\ v \in 0 .. m
            BY <1>3
        <3> QED BY <3>1, <3>2, Silence
    <2>13. states[m].record.status \in {"live", "deleted"}
        <3>1. PICK E : E = [at : Nat, record : HeldStates]
            OBVIOUS
        <3>2. states \in Seq(E)
            BY <3>1 DEF LogInv, HistoryTyped
        <3>a. m \in 1 .. Len(states)
            OBVIOUS
        <3>b. states[m] \in E
            BY <3>2, <3>a
        <3>3. states[m].record \in HeldStates
            BY <3>1, <3>b
        <3>4. states[m].record.status # "absent"
            BY <1>3, <1>4
        <3> QED BY <3>3, <3>4 DEF HeldStates
    <2> QED BY <1>5, <2>6, <2>8, <2>9, <2>11, <2>12, <2>13
<1> QED BY <1>6, <1>11, <1>12

LEMMA RecordsAsTheyWere ==
    ASSUME LogInv, \A j, k \in DOMAIN states : j < k => states[j].at <= states[k].at, NEW at \in 1 .. MaxNow
    PROVE  LET was == StateAt(at) IN
           RecordAt(at) = IF was = None \/ was.status # "live" THEN None
                          ELSE [data |-> was.data, version |-> was.version]
<1>0. at \in Int
    OBVIOUS
<1>1. PICK m \in 0 .. Len(states), n \in 0 .. Len(log) :
          /\ {k \in DOMAIN states : states[k].at <= at} = 1 .. m
          /\ \A i \in 1 .. Len(log) : i <= n <=> log[i].version <= m
          /\ ReplayOrder(at) = FirstOnes(n)
    BY <1>0, ReplayIsLog DEF FirstOnes
<1>2. PICK W : W = {k \in DOMAIN states : states[k].at <= at}
    OBVIOUS
<1>3. W = 1 .. m /\ StateAt(at) = IF W = {} THEN None ELSE states[Max(W)].record
    BY <1>1, <1>2 DEF StateAt
<1>4. PICK order : order = FirstOnes(n)
    OBVIOUS
<1>5. PICK last : last = LastOf(order, {"create", "delete", "restore"}, None)
    OBVIOUS
<1>6. RecordAt(at) = IF last = None \/ last.kind = "delete" THEN None
                     ELSE [data |-> ReplayData(order), version |-> log[Last(order)].version]
    BY <1>1, <1>4, <1>5 DEF RecordAt
<1>7. PICK M \in Nat : M = Len(states)
    BY DEF LogInv, HistoryTyped
<1>8. PICK N \in Nat : N = Len(log)
    BY DEF LogInv, HistoryTyped
<1>9. CASE m = 0
    <2>1. n = 0
        <3> SUFFICES ASSUME n # 0 PROVE FALSE
            BY <1>8
        <3>1. 1 \in 1 .. N /\ 1 <= n
            BY <1>8
        <3>2. log[1].version \in 1 .. M /\ log[1].version <= 0
            BY <1>1, <1>7, <1>8, <1>9, <3>1 DEF LogInv, Explains
        <3> QED BY <3>2
    <2>2. PICK T : T = RowsOf(n, {"create", "delete", "restore"}, None)
        OBVIOUS
    <2>3. T = {}
        BY <2>1, <2>2 DEF RowsOf
    <2>4. n \in Nat
        BY <2>1
    <2>5. last = None
        BY <1>4, <1>5, <2>2, <2>3, <2>4, LastRow
    <2>6. W = {}
        BY <1>3, <1>9
    <2> QED BY <1>3, <1>6, <2>5, <2>6
<1>10. CASE m # 0
    <2>1. m \in 1 .. M /\ m \in 1 .. Len(states)
        BY <1>7, <1>10
    <2>2. /\ n > 0 /\ log[n].version = m
          /\ ReplayData(order) = states[m].record.data
          /\ last # None /\ (last.kind = "delete" <=> states[m].record.status # "live")
        BY <1>1, <1>4, <1>5, <2>1, LogTells
    <2>3. Max(W) = m
        <3>1. m \in Nat /\ W \in SUBSET (1 .. m) /\ m \in W
            BY <1>3, <2>1
        <3>2. W # {}
            BY <3>1
        <3>3. Max(W) \in W /\ \A y \in W : y <= Max(W)
            BY <3>1, <3>2, GreatestOf
        <3>4. Max(W) \in 1 .. m /\ m <= Max(W)
            BY <1>3, <3>1, <3>3
        <3> QED BY <3>1, <3>4
    <2>4. PICK was : was = states[m].record
        OBVIOUS
    <2>5. StateAt(at) = was
        <3>1. m \in W
            BY <1>3, <2>1
        <3> QED BY <1>3, <2>3, <2>4, <3>1
    <2>6. was \in HeldStates /\ was # None /\ was.version = m
        <3>1. PICK E : E = [at : Nat, record : HeldStates]
            OBVIOUS
        <3>2. states \in Seq(E)
            BY <3>1 DEF LogInv, HistoryTyped
        <3>3. states[m] \in E
            BY <2>1, <3>2
        <3>4. was \in HeldStates
            BY <2>4, <3>1, <3>3
        <3>5. was.version = m
            BY <1>7, <2>1, <2>4 DEF LogInv, Explains
        <3> QED BY <3>4, <3>5, HistoryAssumption
    <2>7. Last(order) = n
        <3>1. n \in Nat
            BY <1>8
        <3>2. order \in Seq(Nat) /\ Len(order) = n /\ \A i \in 1 .. n : order[i] = i
            BY <1>4, <3>1 DEF FirstOnes
        <3>3. n \in 1 .. n
            BY <2>2, <3>1
        <3> QED BY <3>2, <3>3 DEF Last
    <2>8. RecordAt(at) = IF was.status # "live" THEN None ELSE [data |-> was.data, version |-> was.version]
        BY <1>6, <2>2, <2>4, <2>6, <2>7
    <2> QED BY <2>5, <2>6, <2>8
<1> QED BY <1>9, <1>10

\* If the writes of a record carry times in the order in which they commit, crm_record_at answers
\* for any instant with the record as it then was, whatever was written, deleted and restored
\* before and since (records/history.ts recordAt replays the change rows).
THEOREM ToldAsItWas == HistorySpec => []AsItWas
<1>1. LogInv => AsItWas
    BY RecordsAsTheyWere DEF AsItWas
<1> QED BY <1>1, LogHolds, PTL
-----------------------------------------------------------------------------
(* History: pages of the changes and of the timeline *)

NewerPairs == {p \in TimelineItems \X TimelineItems : Newer(p[1], p[2])}
AheadPairs == {p \in TimelineItems \X TimelineItems : Ahead(p[1], p[2])}
ReadingOrder(tool) == IF tool = "history" THEN NewerPairs ELSE AheadPairs

LEMMA ItemsTyped ==
    ASSUME NEW x \in TimelineItems
    PROVE  /\ x = [kind |-> x.kind, id |-> x.id, at |-> x.at] /\ x.id \in Int /\ x.at \in Int
           /\ x.kind \in {"activity", "change", "note", "task"}
BY DEF TimelineItems
LEMMA RanksDiffer ==
    ASSUME NEW j \in {"activity", "change", "note", "task"}, NEW k \in {"activity", "change", "note", "task"}
    PROVE  Rank(j) \in Int /\ (Rank(j) = Rank(k) => j = k)
BY DEF Rank

LEMMA NewerStrict == StrictOn(NewerPairs, TimelineItems)
<1> SUFFICES ASSUME NEW x \in TimelineItems, NEW y \in TimelineItems, NEW z \in TimelineItems
             PROVE  ~Newer(x, x) /\ (Newer(x, y) /\ Newer(y, z) => Newer(x, z))
    BY DEF StrictOn, NewerPairs
<1> QED BY ItemsTyped DEF Newer
LEMMA AheadStrict == StrictOn(AheadPairs, TimelineItems)
<1> SUFFICES ASSUME NEW x \in TimelineItems, NEW y \in TimelineItems, NEW z \in TimelineItems
             PROVE  ~Ahead(x, x) /\ (Ahead(x, y) /\ Ahead(y, z) => Ahead(x, z))
    BY DEF StrictOn, AheadPairs
<1>1. Rank(x.kind) \in Int /\ Rank(y.kind) \in Int /\ Rank(z.kind) \in Int
    BY ItemsTyped, RanksDiffer
<1>2. x.id \in Int /\ x.at \in Int /\ y.id \in Int /\ y.at \in Int /\ z.id \in Int /\ z.at \in Int
    BY ItemsTyped
<1> QED BY <1>1, <1>2 DEF Ahead

LEMMA NewerTotal ==
    ASSUME NEW S \in SUBSET TimelineItems, \A x \in S : x.kind = "change" PROVE TotalOn(NewerPairs, S)
<1> SUFFICES ASSUME NEW x \in S, NEW y \in S PROVE x = y \/ Newer(x, y) \/ Newer(y, x)
    BY DEF TotalOn, NewerPairs
<1> QED BY ItemsTyped DEF Newer
LEMMA AheadTotal == ASSUME NEW S \in SUBSET TimelineItems PROVE TotalOn(AheadPairs, S)
<1> SUFFICES ASSUME NEW x \in S, NEW y \in S PROVE x = y \/ Ahead(x, y) \/ Ahead(y, x)
    BY DEF TotalOn, AheadPairs
<1>1. Rank(x.kind) \in Int /\ Rank(y.kind) \in Int /\ (Rank(x.kind) = Rank(y.kind) => x.kind = y.kind)
    BY ItemsTyped, RanksDiffer
<1>2. x.id \in Int /\ x.at \in Int /\ y.id \in Int /\ y.at \in Int
    BY ItemsTyped
<1>3. x.kind = y.kind /\ x.id = y.id /\ x.at = y.at => x = y
    BY ItemsTyped
<1> QED BY <1>1, <1>2, <1>3 DEF Ahead

\* A page holds the first of what is found.
InNewest(found) ==
    [k \in 1 .. Cardinality(found) |-> CHOOSE x \in found : Cardinality({y \in found : Newer(y, x)}) = k - 1]
InTimeline(found) ==
    [k \in 1 .. Cardinality(found) |-> CHOOSE x \in found : Cardinality({y \in found : Ahead(y, x)}) = k - 1]

LEMMA HistoryFetches ==
    ASSUME NEW found \in SUBSET TimelineItems, IsFiniteSet(found), \A x \in found : x.kind = "change",
           NEW limit \in Nat \ {0}
    PROVE  FirstOf(FirstRows(InNewest(found), limit), found, NewerPairs, limit)
<1>1. StrictOn(NewerPairs, found) /\ TotalOn(NewerPairs, found)
    BY NewerStrict, NewerTotal DEF StrictOn
<1>2. \A x \in found : {y \in found : Newer(y, x)} = {y \in found : <<y, x>> \in NewerPairs}
    BY DEF NewerPairs
<1>3. PICK s : s = InNewest(found)
    OBVIOUS
<1> DEFINE element(k) == CHOOSE x \in found : Cardinality({y \in found : Newer(y, x)}) = k - 1
<1>4. s = [k \in 1 .. Cardinality(found) |-> element(k)]
    BY <1>3 DEF InNewest
<1>5. ASSUME NEW k \in 1 .. Cardinality(found) PROVE element(k) \in found /\ RankIn(found, NewerPairs, element(k)) = k - 1
    <2>1. PICK x \in found : RankIn(found, NewerPairs, x) = k - 1
        BY <1>1, RanksReached
    <2>2. \E z \in found : Cardinality({y \in found : Newer(y, z)}) = k - 1
        BY <1>2, <2>1 DEF RankIn
    <2>3. element(k) \in found /\ Cardinality({y \in found : Newer(y, element(k))}) = k - 1
        BY <2>2
    <2> HIDE DEF element
    <2> QED BY <1>2, <2>3 DEF RankIn
<1> HIDE DEF element
<1>6. s \in [1 .. Cardinality(found) -> found]
    BY <1>4, <1>5
<1>7. ASSUME NEW k \in 1 .. Cardinality(found) PROVE s[k] \in found /\ RankIn(found, NewerPairs, s[k]) = k - 1
    BY <1>4, <1>5
<1>8. s \in Seq(found) /\ Increasing(s, NewerPairs) /\ \A x \in found : Lists(s, x)
    <2>1. AtRanks(s, found, NewerPairs)
        BY <1>6, <1>7 DEF AtRanks
    <2> QED BY <1>1, <2>1, RanksSort
<1>9. FirstOf(SubSeq(s, 1, IF Len(s) > limit THEN limit + 1 ELSE Len(s)), found, NewerPairs, limit)
    BY <1>1, <1>8, FetchIsFirst
<1> QED BY <1>3, <1>9 DEF FirstRows

LEMMA TimelineFetches ==
    ASSUME NEW found \in SUBSET TimelineItems, IsFiniteSet(found), NEW limit \in Nat \ {0}
    PROVE  FirstOf(FirstRows(InTimeline(found), limit), found, AheadPairs, limit)
<1>1. StrictOn(AheadPairs, found) /\ TotalOn(AheadPairs, found)
    BY AheadStrict, AheadTotal DEF StrictOn
<1>2. \A x \in found : {y \in found : Ahead(y, x)} = {y \in found : <<y, x>> \in AheadPairs}
    BY DEF AheadPairs
<1>3. PICK s : s = InTimeline(found)
    OBVIOUS
<1> DEFINE element(k) == CHOOSE x \in found : Cardinality({y \in found : Ahead(y, x)}) = k - 1
<1>4. s = [k \in 1 .. Cardinality(found) |-> element(k)]
    BY <1>3 DEF InTimeline
<1>5. ASSUME NEW k \in 1 .. Cardinality(found) PROVE element(k) \in found /\ RankIn(found, AheadPairs, element(k)) = k - 1
    <2>1. PICK x \in found : RankIn(found, AheadPairs, x) = k - 1
        BY <1>1, RanksReached
    <2>2. \E z \in found : Cardinality({y \in found : Ahead(y, z)}) = k - 1
        BY <1>2, <2>1 DEF RankIn
    <2>3. element(k) \in found /\ Cardinality({y \in found : Ahead(y, element(k))}) = k - 1
        BY <2>2
    <2> HIDE DEF element
    <2> QED BY <1>2, <2>3 DEF RankIn
<1> HIDE DEF element
<1>6. s \in [1 .. Cardinality(found) -> found]
    BY <1>4, <1>5
<1>7. ASSUME NEW k \in 1 .. Cardinality(found) PROVE s[k] \in found /\ RankIn(found, AheadPairs, s[k]) = k - 1
    BY <1>4, <1>5
<1>8. s \in Seq(found) /\ Increasing(s, AheadPairs) /\ \A x \in found : Lists(s, x)
    <2>1. AtRanks(s, found, AheadPairs)
        BY <1>6, <1>7 DEF AtRanks
    <2> QED BY <1>1, <2>1, RanksSort
<1>9. FirstOf(SubSeq(s, 1, IF Len(s) > limit THEN limit + 1 ELSE Len(s)), found, AheadPairs, limit)
    BY <1>1, <1>8, FetchIsFirst
<1> QED BY <1>3, <1>9 DEF FirstRows

\* Both find finitely many items.
LEMMA ChangesFound ==
    ASSUME LogInv, NEW facets
    PROVE  /\ ChangesOf(facets) \subseteq TimelineItems /\ IsFiniteSet(ChangesOf(facets))
           /\ \A x \in ChangesOf(facets) : x.kind = "change"
<1>1. PICK S : S = {j \in DOMAIN log : facets = None \/ log[j].slug \in facets}
    OBVIOUS
<1>2. ChangesOf(facets) = {Change(k) : k \in S}
    BY <1>1 DEF ChangesOf
<1>3. PICK N \in Nat : N = Len(log) /\ DOMAIN log = 1 .. N
    BY DEF LogInv, HistoryTyped
<1>4. ASSUME NEW k \in S PROVE Change(k) \in TimelineItems /\ Change(k).kind = "change"
    <2>1. k \in 1 .. N
        BY <1>1, <1>3
    <2>2. log[k] \in ChangeRows
        BY <1>3, <2>1 DEF LogInv, HistoryTyped
    <2>3. log[k].at \in Int /\ k \in Int
        BY <2>1, <2>2 DEF ChangeRows
    <2> QED BY <2>3 DEF Change, TimelineItems
<1>5. IsFiniteSet(S)
    <2>1. S \subseteq 1 .. N
        BY <1>1, <1>3
    <2>2. IsFiniteSet(1 .. N)
        BY FS_Interval
    <2> QED BY <2>1, <2>2, FS_Subset
<1>6. [k \in S |-> Change(k)] \in Surjection(S, ChangesOf(facets))
    BY <1>2 DEF Surjection
<1>7. PICK f : f \in Surjection(S, ChangesOf(facets))
    BY <1>6
<1>8. IsFiniteSet(ChangesOf(facets))
    BY <1>5, <1>7, FS_Surjection
<1> QED BY <1>2, <1>4, <1>8

LEMMA CandidatesFound ==
    ASSUME LogInv, NEW args
    PROVE  Candidates(args) \subseteq TimelineItems /\ IsFiniteSet(Candidates(args))
<1>1. PICK S : S = {m \in Notes : /\ note[m].live /\ KindOf[m] \in args.kinds
                                  /\ note[m].about \cap Neighbourhood(args.hops) # {}}
    OBVIOUS
<1> DEFINE told(n) == [kind |-> KindOf[n], id |-> n, at |-> note[n].at]
<1>2. AboutThese(args) = {told(n) : n \in S}
    BY <1>1 DEF AboutThese
<1>3. S \subseteq Notes
    BY <1>1
<1>4. ASSUME NEW n \in S PROVE told(n) \in TimelineItems
    <2>1. n \in Notes
        BY <1>3
    <2>2. note[n].at \in Nat
        BY <2>1 DEF LogInv, HistoryTyped
    <2>3. KindOf[n] \in {"activity", "change", "note", "task"} /\ n \in Int
        BY <2>1, HistoryAssumption
    <2> QED BY <2>2, <2>3 DEF TimelineItems
<1> HIDE DEF told
<1>5. IsFiniteSet(S)
    BY <1>3, HistoryAssumption, FS_Subset
<1>6. [n \in S |-> told(n)] \in Surjection(S, AboutThese(args))
    BY <1>2 DEF Surjection
<1>7. PICK f : f \in Surjection(S, AboutThese(args))
    BY <1>6
<1>8. IsFiniteSet(AboutThese(args)) /\ AboutThese(args) \subseteq TimelineItems
    BY <1>2, <1>4, <1>5, <1>7, FS_Surjection
<1>9. IsFiniteSet(ChangesOf(None)) /\ ChangesOf(None) \subseteq TimelineItems
    BY ChangesFound
<1>10. IsFiniteSet(AboutThese(args) \cup ChangesOf(None))
    BY <1>8, <1>9, FS_Union
<1>11. Candidates(args) \subseteq AboutThese(args) \cup ChangesOf(None)
    BY DEF Candidates
<1>12. IsFiniteSet(Candidates(args))
    BY <1>10, <1>11, FS_Subset
<1> QED BY <1>8, <1>9, <1>11, <1>12

HistoryReads ==
    /\ reading # None =>
          /\ reading.args \in HistoryArgs \cup TimelineArgs
          /\ ReadingHolds(reading, ReadingOrder(reading.args.tool), TimelineItems)
          /\ reading.steady \subseteq ShownTo(reading.args)
    /\ fetched # None =>
          /\ reading # None /\ reading.open /\ reading.args.tool = "timeline"
          /\ \E found \in SUBSET TimelineItems :
                /\ FirstOf(fetched, found, AheadPairs, reading.limit)
                /\ \A x \in found : ComesAfter(AheadPairs, reading.cursor, x)
                /\ \A x \in reading.steady : ComesAfter(AheadPairs, reading.cursor, x) => x \in found

LEMMA ReadingOrderStrict == ASSUME NEW tool PROVE StrictOn(ReadingOrder(tool), TimelineItems)
BY NewerStrict, AheadStrict DEF ReadingOrder

\* The cursor's condition is the order.
LEMMA CursorIsOrder ==
    ASSUME NEW c \in TimelineItems \cup {None}, NEW x \in TimelineItems
    PROVE  /\ (c = None \/ BeforeCursor(x, c)) <=> ComesAfter(NewerPairs, c, x)
           /\ (c = None \/ Behind(x, c)) <=> ComesAfter(AheadPairs, c, x)
<1>1. CASE c = None
    BY <1>1 DEF ComesAfter
<1>2. CASE c \in TimelineItems /\ c # None
    <2>1. BeforeCursor(x, c) <=> Newer(c, x)
        BY <1>2, ItemsTyped DEF BeforeCursor, Newer
    <2>2. Behind(x, c) <=> Ahead(c, x)
        <3>1. Rank(x.kind) \in Int /\ Rank(c.kind) \in Int
            BY <1>2, ItemsTyped, RanksDiffer
        <3>2. x.id \in Int /\ x.at \in Int /\ c.id \in Int /\ c.at \in Int
            BY <1>2, ItemsTyped
        <3> QED BY <3>1, <3>2 DEF Behind, Ahead
    <2> QED BY <1>2, <2>1, <2>2 DEF ComesAfter, NewerPairs, AheadPairs
<1> QED BY <1>1, <1>2

LEMMA ShownStays ==
    ASSUME UNCHANGED <<log, note, linked>>, NEW args PROVE ShownTo(args)' = ShownTo(args)
BY DEF ShownTo, ChangesOf, Candidates, AboutThese, Neighbourhood, Change

\* A page turned from what was found after the cursor.
LEMMA PageTurns ==
    ASSUME NEW args, args = reading.args, NEW R, R = ReadingOrder(args.tool), reading.open,
           ReadingHolds(reading, R, TimelineItems), NEW found \in SUBSET TimelineItems,
           \A x \in found : ComesAfter(R, reading.cursor, x),
           \A x \in reading.steady : ComesAfter(R, reading.cursor, x) => x \in found,
           NEW rows, FirstOf(rows, found, R, reading.limit), Listed(rows)
    PROVE  ReadingHolds(reading', R, TimelineItems) /\ reading'.args = args /\ reading'.steady = reading.steady
<1>1. StrictOn(R, TimelineItems) /\ None \notin TimelineItems
    BY ReadingOrderStrict, HistoryAssumption
<1>2. PICK limit \in Nat \ {0} : limit = reading.limit
    BY DEF ReadingHolds
<1>3. PICK r : r = reading
    OBVIOUS
<1>4. ReadingHolds(Turned(r, rows), R, TimelineItems)
    BY <1>1, <1>2, <1>3, TurningKeeps
<1>5. reading' = Turned(reading, rows) /\ reading'.args = reading.args /\ reading'.steady = reading.steady
    BY ListedIsTurned
<1> QED BY <1>3, <1>4, <1>5

\* What may be shown are items, and a reading is not None.
LEMMA ShownFound ==
    ASSUME LogInv, NEW args PROVE ShownTo(args) \subseteq TimelineItems
BY ChangesFound, CandidatesFound DEF ShownTo
LEMMA ReadingIsOne ==
    ASSUME NEW r, NEW R, ReadingHolds(r, R, TimelineItems), r.open, r.args \in HistoryArgs \cup TimelineArgs,
           r.steady \subseteq TimelineItems
    PROVE  r # None
<1>1. r \in Readings
    BY DEF ReadingHolds, Readings
<1> QED BY <1>1, HistoryAssumption

\* What a change of the data leaves of a reading.
LEMMA RestKeeps ==
    ASSUME LogInv, HistoryReads, Rest, fetched' = fetched PROVE HistoryReads'
<1>1. CASE reading = None
    BY <1>1 DEF HistoryReads, Rest
<1>2. CASE reading # None
    <2>1. PICK args : args = reading.args /\ StillThere(ShownTo(args)')
        BY <1>2 DEF Rest
    <2>2. PICK items : items = ShownTo(args)'
        OBVIOUS
    <2>3. reading' = [reading EXCEPT !.steady = @ \cap items]
        BY <2>1, <2>2 DEF StillThere
    <2>4. PICK R : R = ReadingOrder(args.tool)
        OBVIOUS
    <2>5. /\ ReadingHolds(reading, R, TimelineItems) /\ args \in HistoryArgs \cup TimelineArgs
          /\ reading.steady \subseteq ShownTo(args)
        BY <1>2, <2>1, <2>4 DEF HistoryReads
    <2>6. ReadingHolds(reading', R, TimelineItems)
        BY <2>3, <2>5, LosingHolds
    <2>7. /\ reading'.args = args /\ reading'.steady = reading.steady \cap items
          /\ reading'.open = reading.open /\ reading'.limit = reading.limit /\ reading'.cursor = reading.cursor
        BY <2>1, <2>3, <2>5 DEF ReadingHolds
    <2>8. (/\ reading.args \in HistoryArgs \cup TimelineArgs
           /\ ReadingHolds(reading, ReadingOrder(reading.args.tool), TimelineItems)
           /\ reading.steady \subseteq ShownTo(reading.args))'
        BY <2>2, <2>4, <2>5, <2>6, <2>7
    <2>9. ASSUME fetched # None
          PROVE  /\ reading' # None /\ reading'.open /\ reading'.args.tool = "timeline"
                 /\ \E found \in SUBSET TimelineItems :
                       /\ FirstOf(fetched', found, AheadPairs, reading'.limit)
                       /\ \A x \in found : ComesAfter(AheadPairs, reading'.cursor, x)
                       /\ \A x \in reading'.steady : ComesAfter(AheadPairs, reading'.cursor, x) => x \in found
        <3>1. PICK found \in SUBSET TimelineItems :
                  /\ FirstOf(fetched, found, AheadPairs, reading.limit)
                  /\ \A x \in found : ComesAfter(AheadPairs, reading.cursor, x)
                  /\ \A x \in reading.steady : ComesAfter(AheadPairs, reading.cursor, x) => x \in found
            BY <2>9 DEF HistoryReads
        <3>2. reading.open /\ args.tool = "timeline"
            BY <2>1, <2>9 DEF HistoryReads
        <3>3. reading'.steady \subseteq TimelineItems
            BY <2>5, <2>7, ShownFound
        <3>4. reading' # None
            BY <2>5, <2>6, <2>7, <3>2, <3>3, ReadingIsOne
        <3>5. \A x \in reading'.steady : x \in reading.steady
            BY <2>7
        <3> QED BY <2>7, <3>1, <3>2, <3>4, <3>5
    <2> QED BY <2>8, <2>9 DEF HistoryReads
<1> QED BY <1>1, <1>2

\* What the two pages are read from.
LEMMA HistoryPageRows ==
    ASSUME NextHistoryPage
    PROVE  LET found == {i \in ChangesOf(reading.args.facets) : reading.cursor = None \/ BeforeCursor(i, reading.cursor)}
           IN  Listed(FirstRows(InNewest(found), reading.limit))
BY DEF NextHistoryPage, Fetched, Sorted, FirstRows, InNewest
LEMMA TimelinePageRows ==
    ASSUME FetchTimeline
    PROVE  LET found == {i \in Candidates(reading.args) : reading.cursor = None \/ Behind(i, reading.cursor)}
           IN  fetched' = FirstRows(InTimeline(found), reading.limit)
BY DEF FetchTimeline, Fetched, Sorted, FirstRows, InTimeline

LEMMA OpeningReads ==
    ASSUME HistoryReads, UNCHANGED historyVars, reading = None, NEW args \in HistoryArgs \cup TimelineArgs,
           NEW items, items = ShownTo(args), StartReading(args, items)
    PROVE  HistoryReads'
<1>1. PICK limit \in Nat \ {0} :
        reading' = [args |-> args, limit |-> limit, cursor |-> None, listed |-> <<>>, steady |-> items, open |-> TRUE]
    BY PagingAssumption DEF StartReading
<1>2. ReadingHolds(reading', ReadingOrder(args.tool), TimelineItems)
    BY <1>1, OpeningHolds
<1>3. reading'.args = args /\ reading'.steady = items
    BY <1>1
<1>4. fetched' = None
    BY DEF HistoryReads, historyVars
<1>5. ShownTo(args)' = ShownTo(args)
    BY ShownStays DEF historyVars
<1>6. (/\ reading.args \in HistoryArgs \cup TimelineArgs
       /\ ReadingHolds(reading, ReadingOrder(reading.args.tool), TimelineItems)
       /\ reading.steady \subseteq ShownTo(reading.args))'
    BY <1>2, <1>3, <1>5
<1> QED BY <1>4, <1>6 DEF HistoryReads

LEMMA TurningReads ==
    ASSUME HistoryReads, UNCHANGED <<log, note, linked>>, reading # None, reading.open, fetched' = None,
           NEW found \in SUBSET TimelineItems,
           \A x \in found : ComesAfter(ReadingOrder(reading.args.tool), reading.cursor, x),
           \A x \in reading.steady : ComesAfter(ReadingOrder(reading.args.tool), reading.cursor, x) => x \in found,
           NEW rows, FirstOf(rows, found, ReadingOrder(reading.args.tool), reading.limit), Listed(rows)
    PROVE  HistoryReads'
<1>1. PICK args : args = reading.args
    OBVIOUS
<1>2. PICK R : R = ReadingOrder(args.tool)
    OBVIOUS
<1>3. ReadingHolds(reading, R, TimelineItems) /\ args \in HistoryArgs \cup TimelineArgs /\ reading.steady \subseteq ShownTo(args)
    BY <1>1, <1>2 DEF HistoryReads
<1>4. /\ \A x \in found : ComesAfter(R, reading.cursor, x)
      /\ \A x \in reading.steady : ComesAfter(R, reading.cursor, x) => x \in found
      /\ FirstOf(rows, found, R, reading.limit)
    BY <1>1, <1>2
<1>5. ReadingHolds(reading', R, TimelineItems) /\ reading'.args = args /\ reading'.steady = reading.steady
    BY <1>1, <1>2, <1>3, <1>4, PageTurns
<1>6. ShownTo(args)' = ShownTo(args)
    BY ShownStays
<1>7. (/\ reading.args \in HistoryArgs \cup TimelineArgs
       /\ ReadingHolds(reading, ReadingOrder(reading.args.tool), TimelineItems)
       /\ reading.steady \subseteq ShownTo(reading.args))'
    BY <1>2, <1>3, <1>5, <1>6
<1> QED BY <1>7 DEF HistoryReads

LEMMA ReadsStep == LogInv /\ HistoryReads /\ [HistoryNext]_<<historyVars, reading, altered>> => HistoryReads'
<1> SUFFICES ASSUME LogInv, HistoryReads, [HistoryNext]_<<historyVars, reading, altered>> PROVE HistoryReads'
    OBVIOUS
<1>1. ASSUME UNCHANGED <<log, note, linked, reading, fetched>> PROVE HistoryReads'
    <2>1. PICK args : args = reading.args
        OBVIOUS
    <2>2. ShownTo(args)' = ShownTo(args)
        BY <1>1, ShownStays
    <2> QED BY <1>1, <2>1, <2>2 DEF HistoryReads
<1>2. CASE ClockTicks
    BY <1>1, <1>2 DEF ClockTicks
<1>3. ASSUME NEW w \in Writers, BeginWrite(w) PROVE HistoryReads'
    BY <1>1, <1>3 DEF BeginWrite
<1>4. ASSUME NEW w \in Writers, CommitWrite(w) PROVE HistoryReads'
    BY <1>4, RestKeeps DEF CommitWrite
<1>5. ASSUME NEW n \in Notes, AlterNote(n) PROVE HistoryReads'
    BY <1>5, RestKeeps DEF AlterNote
<1>6. CASE AlterLinks
    BY <1>6, RestKeeps DEF AlterLinks
<1>7. CASE OpenHistory
    <2>1. PICK args \in HistoryArgs : StartReading(args, ChangesOf(args.facets))
        BY <1>7 DEF OpenHistory
    <2>2. ChangesOf(args.facets) = ShownTo(args) /\ args \in HistoryArgs \cup TimelineArgs
        BY DEF ShownTo, HistoryArgs
    <2>3. reading = None /\ UNCHANGED historyVars
        BY <1>7 DEF OpenHistory
    <2> QED BY <2>1, <2>2, <2>3, OpeningReads
<1>8. CASE OpenTimeline
    <2>1. PICK args \in TimelineArgs : StartReading(args, Candidates(args))
        BY <1>8 DEF OpenTimeline
    <2>2. Candidates(args) = ShownTo(args) /\ args \in HistoryArgs \cup TimelineArgs
        BY DEF ShownTo, TimelineArgs
    <2>3. reading = None /\ UNCHANGED historyVars
        BY <1>8 DEF OpenTimeline
    <2> QED BY <2>1, <2>2, <2>3, OpeningReads
<1>9. CASE NextHistoryPage
    <2>1. PICK args : args = reading.args
        OBVIOUS
    <2>2. /\ reading # None /\ reading.open /\ args.tool = "history"
          /\ ReadingHolds(reading, NewerPairs, TimelineItems) /\ reading.steady \subseteq ChangesOf(args.facets)
          /\ ReadingOrder(reading.args.tool) = NewerPairs
        BY <1>9, <2>1 DEF NextHistoryPage, Shows, HistoryReads, ReadingOrder, ShownTo
    <2>3. fetched = None /\ fetched' = None /\ UNCHANGED <<log, note, linked>>
        BY <1>9, <2>1, <2>2 DEF HistoryReads, NextHistoryPage, historyVars
    <2>4. PICK found : found = {i \in ChangesOf(args.facets) : reading.cursor = None \/ BeforeCursor(i, reading.cursor)}
        OBVIOUS
    <2>5. /\ ChangesOf(args.facets) \subseteq TimelineItems /\ IsFiniteSet(ChangesOf(args.facets))
          /\ \A x \in ChangesOf(args.facets) : x.kind = "change"
        BY ChangesFound
    <2>6. found \in SUBSET TimelineItems /\ IsFiniteSet(found) /\ \A x \in found : x.kind = "change"
        BY <2>4, <2>5, FS_Subset
    <2>7. PICK c \in TimelineItems \cup {None} : c = reading.cursor
        BY <2>2 DEF ReadingHolds
    <2>8. \A x \in TimelineItems : (c = None \/ BeforeCursor(x, c)) <=> ComesAfter(NewerPairs, c, x)
        BY CursorIsOrder
    <2>9. /\ \A x \in found : ComesAfter(NewerPairs, reading.cursor, x)
          /\ \A x \in reading.steady : ComesAfter(NewerPairs, reading.cursor, x) => x \in found
        BY <2>2, <2>4, <2>5, <2>7, <2>8
    <2>10. PICK limit \in Nat \ {0} : limit = reading.limit
        BY <2>2 DEF ReadingHolds
    <2>11. PICK rows : rows = FirstRows(InNewest(found), limit)
        OBVIOUS
    <2>12. FirstOf(rows, found, NewerPairs, limit)
        BY <2>6, <2>11, HistoryFetches
    <2>13. Listed(rows)
        BY <1>9, <2>1, <2>4, <2>10, <2>11, HistoryPageRows
    <2> QED BY <2>2, <2>3, <2>6, <2>9, <2>10, <2>12, <2>13, TurningReads
<1>10. CASE FetchTimeline
    <2>1. PICK args : args = reading.args
        OBVIOUS
    <2>2. /\ reading # None /\ reading.open /\ args.tool = "timeline"
          /\ ReadingHolds(reading, AheadPairs, TimelineItems) /\ reading.steady \subseteq Candidates(args)
        BY <1>10, <2>1 DEF FetchTimeline, Shows, HistoryReads, ReadingOrder, ShownTo
    <2>3. UNCHANGED <<log, note, linked, reading>>
        BY <1>10 DEF FetchTimeline
    <2>4. PICK found : found = {i \in Candidates(args) : reading.cursor = None \/ Behind(i, reading.cursor)}
        OBVIOUS
    <2>5. Candidates(args) \subseteq TimelineItems /\ IsFiniteSet(Candidates(args))
        BY CandidatesFound
    <2>6. found \in SUBSET TimelineItems /\ IsFiniteSet(found)
        BY <2>4, <2>5, FS_Subset
    <2>7. PICK c \in TimelineItems \cup {None} : c = reading.cursor
        BY <2>2 DEF ReadingHolds
    <2>8. \A x \in TimelineItems : (c = None \/ Behind(x, c)) <=> ComesAfter(AheadPairs, c, x)
        BY CursorIsOrder
    <2>9. /\ \A x \in found : ComesAfter(AheadPairs, reading.cursor, x)
          /\ \A x \in reading.steady : ComesAfter(AheadPairs, reading.cursor, x) => x \in found
        BY <2>2, <2>4, <2>5, <2>7, <2>8
    <2>10. PICK limit \in Nat \ {0} : limit = reading.limit
        BY <2>2 DEF ReadingHolds
    <2>11. fetched' = FirstRows(InTimeline(found), limit)
        BY <1>10, <2>1, <2>4, <2>10, TimelinePageRows
    <2>12. FirstOf(fetched', found, AheadPairs, reading.limit)
        BY <2>6, <2>10, <2>11, TimelineFetches
    <2>13. ShownTo(args)' = ShownTo(args)
        BY <2>3, ShownStays
    <2> QED BY <2>1, <2>2, <2>3, <2>6, <2>9, <2>12, <2>13 DEF HistoryReads
<1>11. CASE PresentTimeline
    <2>1. PICK args : args = reading.args
        OBVIOUS
    <2>2. reading # None /\ reading.open /\ args.tool = "timeline" /\ ReadingOrder(reading.args.tool) = AheadPairs
        BY <1>11, <2>1 DEF PresentTimeline, HistoryReads, ReadingOrder
    <2>3. PICK found \in SUBSET TimelineItems :
              /\ FirstOf(fetched, found, AheadPairs, reading.limit)
              /\ \A x \in found : ComesAfter(AheadPairs, reading.cursor, x)
              /\ \A x \in reading.steady : ComesAfter(AheadPairs, reading.cursor, x) => x \in found
        BY <1>11 DEF PresentTimeline, HistoryReads
    <2>4. fetched' = None /\ UNCHANGED <<log, note, linked>>
        BY <1>11 DEF PresentTimeline
    <2>5. CASE Listed(fetched)
        BY <2>2, <2>3, <2>4, <2>5, TurningReads
    <2>6. CASE UNCHANGED reading
        <3>1. ShownTo(args)' = ShownTo(args)
            BY <2>4, ShownStays
        <3> QED BY <2>1, <2>4, <2>6, <3>1 DEF HistoryReads
    <2> QED BY <1>11, <2>5, <2>6 DEF PresentTimeline
<1>12. CASE UNCHANGED <<historyVars, reading, altered>>
    BY <1>1, <1>12 DEF historyVars
<1> QED BY <1>2, <1>3, <1>4, <1>5, <1>6, <1>7, <1>8, <1>9, <1>10, <1>11, <1>12 DEF HistoryNext

\* Whatever is written, moved, linked or gone between the pages of a history or of a timeline, and
\* whether or not a page of the timeline had to be asked for again, what stays is shown exactly once
\* (records/history.ts recordHistory, timeline/query.ts).
THEOREM HistoriesShowOnce == HistorySpec => []SteadyShownOnce
<1>1. HistoryInit => HistoryReads
    BY DEF HistoryInit, HistoryReads
<1>2. HistoryReads => SteadyShownOnce
    <2> SUFFICES ASSUME HistoryReads, reading # None, NEW i \in reading.steady
                 PROVE  LET times == Cardinality({k \in DOMAIN reading.listed : reading.listed[k] = i}) IN
                        times <= 1 /\ (~reading.open => times = 1)
        BY DEF SteadyShownOnce
    <2>1. PICK R : R = ReadingOrder(reading.args.tool)
        OBVIOUS
    <2>2. StrictOn(R, TimelineItems) /\ ReadingHolds(reading, R, TimelineItems)
        BY <2>1, ReadingOrderStrict DEF HistoryReads
    <2> QED BY <2>2, ShownOnce
<1>3. LogInv /\ HistoryReads /\ [HistoryNext]_<<historyVars, reading, altered>> => HistoryReads'
    BY ReadsStep
<1>4. HistorySpec => []LogInv
    BY LogHolds
<1> QED BY <1>1, <1>2, <1>3, <1>4, PTL DEF HistorySpec

-----------------------------------------------------------------------------
(* Schema: a reference attribute has one relation to itself.                *)

IsReference(m, a) == m.attr[a].status # "absent" /\ m.attr[a].kind = "reference"
OwnedBy(m, a) == {r \in Relations : Owns(m, r, a)}
Sound(m) ==
    /\ m \in TableStates
    /\ \A r \in Relations : m.rel[r].status = "absent" => m.rel[r].claim = None
    /\ \A a \in Cells : IF IsReference(m, a) THEN \E r \in Relations : OwnedBy(m, a) = {r} ELSE OwnedBy(m, a) = {}
\* What definitions never take back.
Follows(m, n) ==
    /\ \A a \in Cells : m.attr[a].status # "absent" => n.attr[a].status # "absent"
    /\ \A r \in Relations : m.rel[r].status # "absent" => n.rel[r].status # "absent" /\ n.rel[r].from = m.rel[r].from
Outcome(m, n) == n = Rejected \/ (Sound(n) /\ Follows(m, n))

LEMMA TableTyped ==
    ASSUME NEW m \in TableStates
    PROVE  /\ m = [object |-> m.object, primary |-> m.primary, attr |-> m.attr, rel |-> m.rel, group |-> m.group,
                   pipe |-> m.pipe, lists |-> m.lists]
           /\ m.object \in [Objects -> Statuses] /\ m.primary \in [Objects -> Slugs \cup {None}]
           /\ m.attr \in [Cells -> AttributeRows] /\ m.rel \in [Relations -> RelationRows]
           /\ m.group \in [Groups -> GroupRows] /\ m.pipe \in [Pipelines -> PipelineRows] /\ m.lists \in Nat
           /\ m # Rejected
BY SchemaAssumption DEF TableStates

LEMMA FollowsIsOrder ==
    ASSUME NEW m
    PROVE  Follows(m, m) /\ \A n, k : Follows(m, n) /\ Follows(n, k) => Follows(m, k)
BY DEF Follows

LEMMA OutcomesJoin ==
    ASSUME NEW m, NEW n, Outcome(m, n), n # Rejected, NEW k, Outcome(n, k) PROVE Outcome(m, k)
BY FollowsIsOrder DEF Outcome

\* What leaves the attributes' kinds and the relations' ends and claims alone.
LEMMA Untouched ==
    ASSUME NEW m, Sound(m), NEW n \in TableStates,
           \A a \in Cells : n.attr[a].kind = m.attr[a].kind /\ (n.attr[a].status = "absent" <=> m.attr[a].status = "absent"),
           \A r \in Relations : /\ n.rel[r].from = m.rel[r].from /\ n.rel[r].claim = m.rel[r].claim
                                /\ n.rel[r].status = "absent" <=> m.rel[r].status = "absent"
    PROVE  Outcome(m, n) /\ Sound(n) /\ Follows(m, n)
<1>1. Follows(m, n)
    BY DEF Follows
<1>2. \A a \in Cells : OwnedBy(n, a) = OwnedBy(m, a) /\ (IsReference(n, a) <=> IsReference(m, a))
    BY DEF OwnedBy, Owns, IsReference
<1>3. Sound(n)
    BY <1>2 DEF Sound
<1> QED BY <1>1, <1>3 DEF Outcome

LEMMA OtherFields ==
    ASSUME NEW m, Sound(m), NEW n \in TableStates, n.attr = m.attr, n.rel = m.rel
    PROVE  Outcome(m, n) /\ Sound(n) /\ Follows(m, n)
BY Untouched

LEMMA AddObjectSound == ASSUME NEW m, Sound(m), NEW o \in Objects PROVE Outcome(m, AddObject(m, o))
<1>1. PICK n : n = [m EXCEPT !.object[o] = "active"]
    OBVIOUS
<1>2. n \in TableStates /\ n.attr = m.attr /\ n.rel = m.rel
    BY <1>1 DEF Sound, TableStates, Statuses
<1>3. Outcome(m, n)
    BY <1>2, OtherFields
<1> QED BY <1>1, <1>3 DEF AddObject, Outcome

LEMMA SetPrimarySound == ASSUME NEW m, Sound(m), NEW o \in Objects, NEW s \in Slugs \cup {None} PROVE Outcome(m, SetPrimary(m, o, s))
<1>1. PICK n : n = [m EXCEPT !.primary[o] = s]
    OBVIOUS
<1>2. n \in TableStates /\ n.attr = m.attr /\ n.rel = m.rel
    BY <1>1 DEF Sound, TableStates
<1>3. Outcome(m, n)
    BY <1>2, OtherFields
<1> QED BY <1>1, <1>3 DEF SetPrimary, Outcome

\* A relation nobody claims yet.
LEMMA AddRelationSound == ASSUME NEW m, Sound(m), NEW d \in RelationDefs PROVE Outcome(m, AddRelation(m, d))
<1>1. PICK row : row = [NoRelation EXCEPT !.status = "active", !.from = d.from, !.to = d.to, !.many = d.many]
    OBVIOUS
<1>2. PICK n : n = [m EXCEPT !.rel[d.slug] = row]
    OBVIOUS
<1>3. row \in RelationRows /\ row.status = "active" /\ row.claim = None
    BY <1>1 DEF RelationDefs, RelationRows, NoRelation, Statuses
<1>4. m \in TableStates /\ d.slug \in Relations
    BY DEF Sound, RelationDefs
<1>5. n \in TableStates /\ n.attr = m.attr /\ n.rel = [m.rel EXCEPT ![d.slug] = row]
    BY <1>2, <1>3, <1>4 DEF TableStates
<1>6. n.rel[d.slug] = row /\ \A r \in Relations \ {d.slug} : n.rel[r] = m.rel[r]
    BY <1>4, <1>5, TableTyped
<1>7. ASSUME m.rel[d.slug].status = "absent" PROVE Outcome(m, n)
    <2>1. m.rel[d.slug].claim = None
        BY <1>4, <1>7 DEF Sound
    <2>2. \A a \in Cells : a[2] # None
        BY SchemaAssumption DEF Cells
    <2>3. \A a \in Cells : OwnedBy(n, a) = OwnedBy(m, a) /\ (IsReference(n, a) <=> IsReference(m, a))
        BY <1>3, <1>5, <1>6, <2>1, <2>2 DEF OwnedBy, Owns, IsReference
    <2>4. Sound(n)
        BY <1>3, <1>5, <1>6, <2>3 DEF Sound
    <2>5. Follows(m, n)
        BY <1>3, <1>5, <1>6, <1>7 DEF Follows
    <2> QED BY <2>4, <2>5 DEF Outcome
<1> QED BY <1>1, <1>2, <1>7 DEF AddRelation, Outcome

\* A new attribute that is no reference, or whose relation is the one that changes.
LEMMA NewAttribute ==
    ASSUME NEW m, Sound(m), NEW n \in TableStates, NEW cell \in Cells, m.attr[cell].status = "absent", n.attr[cell].status = "active",
           \A a \in Cells \ {cell} : n.attr[a] = m.attr[a],
           \/ n.attr[cell].kind # "reference" /\ n.rel = m.rel
           \/ /\ n.attr[cell].kind = "reference"
              /\ \E q \in Relations : /\ \A r \in Relations \ {q} : n.rel[r] = m.rel[r]
                                      /\ m.rel[q].claim = None /\ Owns(n, q, cell) /\ n.rel[q].status = "active"
                                      /\ m.rel[q].status = "absent" \/ n.rel[q].from = m.rel[q].from
    PROVE  Outcome(m, n)
<1>0. OwnedBy(m, cell) = {} /\ \A a \in Cells : a[2] # None
    BY SchemaAssumption DEF Sound, IsReference, Cells
<1>1. ASSUME n.attr[cell].kind # "reference", n.rel = m.rel PROVE Outcome(m, n)
    <2>1. \A a \in Cells : OwnedBy(n, a) = OwnedBy(m, a)
        BY <1>1 DEF OwnedBy, Owns
    <2>2. \A a \in Cells \ {cell} : IsReference(n, a) <=> IsReference(m, a)
        BY DEF IsReference
    <2>3. ~IsReference(n, cell) /\ ~IsReference(m, cell)
        BY <1>1 DEF IsReference
    <2>4. Sound(n)
        BY <1>0, <1>1, <2>1, <2>2, <2>3 DEF Sound
    <2>5. Follows(m, n)
        BY <1>1 DEF Follows
    <2> QED BY <2>4, <2>5 DEF Outcome
<1>2. ASSUME n.attr[cell].kind = "reference", NEW q \in Relations, \A r \in Relations \ {q} : n.rel[r] = m.rel[r],
             m.rel[q].claim = None, Owns(n, q, cell), n.rel[q].status = "active",
             m.rel[q].status = "absent" \/ n.rel[q].from = m.rel[q].from
      PROVE  Outcome(m, n)
    <2>1. OwnedBy(n, cell) = {q}
        <3>1. \A r \in Relations \ {q} : ~Owns(n, r, cell)
            BY <1>0, <1>2 DEF OwnedBy, Owns
        <3> QED BY <1>2, <3>1 DEF OwnedBy
    <2>2. ASSUME NEW a \in Cells \ {cell} PROVE OwnedBy(n, a) = OwnedBy(m, a)
        <3>1. ~Owns(m, q, a)
            BY <1>0, <1>2 DEF Owns
        <3>2. ~Owns(n, q, a)
            <4>1. a = <<a[1], a[2]>> /\ cell = <<cell[1], cell[2]>>
                BY DEF Cells
            <4> QED BY <1>2, <4>1 DEF Owns
        <3>3. \A r \in Relations \ {q} : Owns(n, r, a) <=> Owns(m, r, a)
            BY <1>2 DEF Owns
        <3> QED BY <3>1, <3>2, <3>3 DEF OwnedBy
    <2>3. \A a \in Cells \ {cell} : IsReference(n, a) <=> IsReference(m, a)
        BY DEF IsReference
    <2>4. Sound(n)
        <3>1. ASSUME NEW a \in Cells PROVE IF IsReference(n, a) THEN \E r \in Relations : OwnedBy(n, a) = {r} ELSE OwnedBy(n, a) = {}
            <4>1. CASE a = cell
                BY <1>2, <2>1, <4>1 DEF IsReference
            <4>2. CASE a # cell
                BY <2>2, <2>3, <4>2 DEF Sound
            <4> QED BY <4>1, <4>2
        <3>2. \A r \in Relations : n.rel[r].status = "absent" => n.rel[r].claim = None
            BY <1>2 DEF Sound
        <3> QED BY <3>1, <3>2 DEF Sound
    <2>5. Follows(m, n)
        BY <1>2 DEF Follows
    <2> QED BY <2>4, <2>5 DEF Outcome
<1> QED BY <1>1, <1>2

\* ensureBackingRelation, on what was read a while ago.
LEMMA AddAttributeSound ==
    ASSUME NEW seen, Sound(seen), NEW m, Sound(m), Follows(seen, m), NEW d \in AttributeDefs
    PROVE  Outcome(m, AddAttribute(seen, m, d))
<1>1. PICK cell : cell = <<d.of, d.slug>>
    OBVIOUS
<1>2. PICK row : row = [NoAttribute EXCEPT !.status = "active", !.kind = d.kind, !.multi = d.multi,
                                           !.options = d.options, !.sources = d.sources]
    OBVIOUS
<1>3. PICK base : base = [m EXCEPT !.attr[cell] = row]
    OBVIOUS
<1>4. /\ d.of \in Objects /\ d.slug \in Slugs /\ d.kind \in AttributeKinds /\ d.multi \in BOOLEAN /\ d.rel \in Relations
      /\ d.to \in Objects /\ d.options \in SUBSET Options /\ d.sources \in SUBSET Slugs
    BY DEF AttributeDefs
<1>5. cell \in Cells /\ cell[1] = d.of /\ cell[2] = d.slug /\ d.slug # None
    BY <1>1, <1>4, SchemaAssumption DEF Cells
<1>6. row \in AttributeRows /\ row.status = "active" /\ row.kind = d.kind
    BY <1>2, <1>4 DEF AttributeRows, NoAttribute, Statuses, AttributeKinds
<1>7. m \in TableStates /\ base \in TableStates /\ base.rel = m.rel /\ base.attr = [m.attr EXCEPT ![cell] = row]
    BY <1>3, <1>5, <1>6 DEF Sound, TableStates
<1>8. base.attr[cell] = row /\ \A a \in Cells \ {cell} : base.attr[a] = m.attr[a]
    BY <1>5, <1>7, TableTyped
<1>9. AddAttribute(seen, m, d) = IF m = Rejected THEN Rejected
                                 ELSE IF ~Active(seen, d.of) \/ m.attr[cell].status # "absent" THEN Rejected
                                 ELSE EnsureBacking(seen, base, d.of, d.slug, d)
    BY <1>1, <1>2, <1>3 DEF AddAttribute
<1>10. SUFFICES ASSUME m.attr[cell].status = "absent" PROVE Outcome(m, EnsureBacking(seen, base, d.of, d.slug, d))
    BY <1>9 DEF Outcome
<1>11. CASE d.kind # "reference"
    <2>1. EnsureBacking(seen, base, d.of, d.slug, d) = base
        BY <1>11 DEF EnsureBacking
    <2>2. Outcome(m, base)
        BY <1>5, <1>6, <1>7, <1>8, <1>10, <1>11, NewAttribute
    <2> QED BY <2>1, <2>2
<1>12. ASSUME d.kind = "reference", NEW r2 \in RelationRows, r2.from = d.of, r2.claim = d.slug, r2.status = "active",
              m.rel[d.rel].claim = None, m.rel[d.rel].status = "absent" \/ m.rel[d.rel].from = d.of,
              NEW n, n = [base EXCEPT !.rel[d.rel] = r2]
       PROVE  Outcome(m, n)
    <2>1. n \in TableStates /\ n.attr = base.attr /\ n.rel = [m.rel EXCEPT ![d.rel] = r2]
        BY <1>4, <1>7, <1>12 DEF TableStates
    <2>2. n.rel[d.rel] = r2 /\ \A r \in Relations \ {d.rel} : n.rel[r] = m.rel[r]
        BY <1>4, <1>7, <2>1, TableTyped
    <2>3. Owns(n, d.rel, cell)
        BY <1>5, <1>12, <2>2 DEF Owns
    <2>4. n.attr[cell].status = "active" /\ n.attr[cell].kind = "reference" /\ \A a \in Cells \ {cell} : n.attr[a] = m.attr[a]
        BY <1>6, <1>8, <1>12, <2>1
    <2>5. \E q \in Relations : /\ \A r \in Relations \ {q} : n.rel[r] = m.rel[r]
                               /\ m.rel[q].claim = None /\ Owns(n, q, cell) /\ n.rel[q].status = "active"
                               /\ m.rel[q].status = "absent" \/ n.rel[q].from = m.rel[q].from
        BY <1>4, <1>12, <2>2, <2>3
    <2> QED BY <1>5, <1>10, <2>1, <2>4, <2>5, NewAttribute
<1>13. m.rel[d.rel] \in RelationRows /\ seen.rel[d.rel] \in RelationRows
    BY <1>4, <1>7, TableTyped DEF Sound
<1>14. CASE d.kind = "reference" /\ Related(seen, d.rel)
    <2>1. m.rel[d.rel].from = seen.rel[d.rel].from
        BY <1>4, <1>14 DEF Related, Follows
    <2>2. seen.rel[d.rel].from = d.of /\ seen.rel[d.rel].claim = d.slug => FALSE
        <3>1. HAVE seen.rel[d.rel].from = d.of /\ seen.rel[d.rel].claim = d.slug
        <3>2. d.rel \in OwnedBy(seen, cell)
            BY <1>4, <1>5, <3>1 DEF OwnedBy, Owns
        <3>3. seen.attr[cell].status # "absent"
            BY <1>5, <3>2 DEF Sound, IsReference
        <3> QED BY <1>5, <1>10, <3>3 DEF Follows
    <2>3. PICK n : n = ClaimRelation(base, d.rel, d.slug)
        OBVIOUS
    <2>4. ASSUME seen.rel[d.rel].from = d.of PROVE Outcome(m, n)
        <3>1. CASE Related(base, d.rel) /\ base.rel[d.rel].claim = None
            <4>1. PICK r2 : r2 = [m.rel[d.rel] EXCEPT !.claim = d.slug]
                OBVIOUS
            <4>2. /\ r2 \in RelationRows /\ r2.claim = d.slug /\ r2.from = m.rel[d.rel].from
                  /\ r2.status = m.rel[d.rel].status
                BY <1>4, <1>13, <4>1 DEF RelationRows
            <4>3. n = [base EXCEPT !.rel[d.rel] = r2]
                BY <1>4, <1>7, <2>3, <3>1, <4>1 DEF ClaimRelation, TableStates
            <4>4. m.rel[d.rel].claim = None /\ m.rel[d.rel].status = "active"
                BY <1>7, <3>1 DEF Related
            <4> QED BY <1>12, <1>14, <2>1, <2>4, <4>2, <4>3, <4>4
        <3>2. CASE ~(Related(base, d.rel) /\ base.rel[d.rel].claim = None)
            BY <2>3, <3>2 DEF ClaimRelation, Outcome
        <3> QED BY <3>1, <3>2
    <2>5. \/ EnsureBacking(seen, base, d.of, d.slug, d) = Rejected
          \/ seen.rel[d.rel].from = d.of /\ EnsureBacking(seen, base, d.of, d.slug, d) = n
        BY <1>14, <2>2, <2>3 DEF EnsureBacking
    <2> QED BY <2>4, <2>5 DEF Outcome
<1>15. CASE d.kind = "reference" /\ ~Related(seen, d.rel)
    <2>1. PICK r2 : r2 = [NoRelation EXCEPT !.status = "active", !.from = d.of, !.to = d.to, !.many = d.multi, !.claim = d.slug]
        OBVIOUS
    <2>2. PICK n : n = [base EXCEPT !.rel[d.rel] = r2]
        OBVIOUS
    <2>3. EnsureBacking(seen, base, d.of, d.slug, d) \in {Rejected, n} /\
          (EnsureBacking(seen, base, d.of, d.slug, d) # Rejected => m.rel[d.rel].status = "absent")
        BY <1>7, <1>15, <2>1, <2>2 DEF EnsureBacking
    <2>4. r2 \in RelationRows /\ r2.from = d.of /\ r2.claim = d.slug /\ r2.status = "active"
        BY <1>4, <2>1 DEF RelationRows, NoRelation, Statuses
    <2>5. m.rel[d.rel].status = "absent" => m.rel[d.rel].claim = None
        BY <1>4 DEF Sound
    <2>6. m.rel[d.rel].status = "absent" => Outcome(m, n)
        BY <1>12, <1>15, <2>2, <2>4, <2>5
    <2> QED BY <2>3, <2>6 DEF Outcome
<1> QED BY <1>11, <1>14, <1>15

\* A batch goes from one definition to the next: f is its course through V.
Course(f, base, step, n) == f[0] = base /\ \A i \in 1 .. n : f[i] = step[<<f[i - 1], i>>]

LEMMA CourseExists ==
    ASSUME NEW V, NEW base \in V, NEW N \in Nat, NEW step \in [V \X (1 .. N) -> V]
    PROVE  \E f \in [0 .. N -> V] : Course(f, base, step, N)
<1> SUFFICES ASSUME ~\E f \in [0 .. N -> V] : Course(f, base, step, N) PROVE FALSE
    OBVIOUS
<1>1. PICK S : S = {n \in 0 .. N : ~\E f \in [0 .. n -> V] : Course(f, base, step, n)}
    OBVIOUS
<1>2. S \subseteq Nat /\ N \in S
    BY <1>1
<1>3. PICK n \in S : \A k \in S : n <= k
    BY <1>2, LeastOf
<1>4. n \in 0 .. N /\ ~\E f \in [0 .. n -> V] : Course(f, base, step, n)
    BY <1>1
<1>5. CASE n = 0
    <2>1. PICK f : f = [i \in 0 .. 0 |-> base]
        OBVIOUS
    <2>2. f \in [0 .. 0 -> V] /\ f[0] = base
        BY <2>1
    <2>3. Course(f, base, step, 0)
        BY <2>2 DEF Course
    <2> QED BY <1>4, <1>5, <2>2, <2>3
<1>6. CASE n # 0
    <2>1. n - 1 \in 0 .. N /\ n - 1 \notin S /\ n \in 1 .. N
        BY <1>3, <1>4, <1>6
    <2>2. PICK f \in [0 .. n - 1 -> V] : Course(f, base, step, n - 1)
        BY <1>1, <2>1
    <2>3. PICK g : g = [i \in 0 .. n |-> IF i = n THEN step[<<f[n - 1], n>>] ELSE f[i]]
        OBVIOUS
    <2>4. f[n - 1] \in V /\ step[<<f[n - 1], n>>] \in V
        BY <2>1
    <2>5. \A i \in 0 .. n : i = n \/ (i \in 0 .. n - 1 /\ f[i] \in V)
        BY <2>1
    <2>6. g \in [0 .. n -> V]
        BY <2>3, <2>4, <2>5
    <2>7. g[n] = step[<<f[n - 1], n>>] /\ \A i \in 0 .. n - 1 : g[i] = f[i]
        BY <2>1, <2>3
    <2>8. g[0] = base
        BY <2>1, <2>2, <2>7 DEF Course
    <2>9. ASSUME NEW i \in 1 .. n PROVE g[i] = step[<<g[i - 1], i>>]
        <3>1. CASE i = n
            BY <2>1, <2>7, <3>1
        <3>2. CASE i # n
            <4>1. i \in 1 .. n - 1 /\ i \in 0 .. n - 1 /\ i - 1 \in 0 .. n - 1
                BY <2>1, <3>2
            <4>2. f[i] = step[<<f[i - 1], i>>]
                BY <2>2, <4>1 DEF Course
            <4> QED BY <2>7, <4>1, <4>2
        <3> QED BY <3>1, <3>2
    <2> QED BY <1>4, <2>6, <2>8, <2>9 DEF Course
<1> QED BY <1>5, <1>6

LEMMA CourseStays ==
    ASSUME NEW V, NEW U, NEW N \in Nat, U[0] \in V, \A i \in 1 .. N : U[i - 1] \in V => U[i] \in V
    PROVE  U[N] \in V
<1>1. PICK S : S = {n \in 0 .. N : U[n] \notin V}
    OBVIOUS
<1>2. S \subseteq Nat
    BY <1>1
<1>3. ASSUME S # {} PROVE FALSE
    <2>1. PICK n \in S : \A k \in S : n <= k
        BY <1>2, <1>3, LeastOf
    <2>2. n \in 0 .. N /\ U[n] \notin V /\ n # 0
        BY <1>1
    <2>3. n \in 1 .. N /\ n - 1 \in 0 .. N /\ n - 1 \notin S
        BY <2>1, <2>2
    <2> QED BY <1>1, <2>2, <2>3
<1> QED BY <1>1, <1>3

\* What the batches pass through.
Sequels(m) == {n \in TableStates \cup {Rejected} : Outcome(m, n)}

LEMMA SequelsAre == ASSUME NEW m PROVE \A n : n \in Sequels(m) <=> Outcome(m, n)
<1>1. \A n : Outcome(m, n) => n \in TableStates \cup {Rejected}
    BY DEF Outcome, Sound
<1> QED BY <1>1 DEF Sequels

\* Whatever the definitions of a batch keep one by one, the batch keeps.
LEMMA AddAttributesStay ==
    ASSUME NEW V, NEW base \in V, NEW D, NEW ds \in Seq(D), NEW known,
           \A x \in V, d \in D : AddAttribute(x, x, d) \in V
    PROVE  AddAttributes(base, ds, known) \in V
<1> DEFINE Body(x, i) == IF <<ds[i].of, ds[i].slug>> \in known THEN x ELSE AddAttribute(x, x, ds[i])
           U == CHOOSE after : after = [i \in 0 .. Len(ds) |->
                    IF i = 0 THEN base
                    ELSE IF <<ds[i].of, ds[i].slug>> \in known THEN after[i - 1] ELSE AddAttribute(after[i - 1], after[i - 1], ds[i])]
<1>1. AddAttributes(base, ds, known) = U[Len(ds)]
    BY DEF AddAttributes
<1>2. PICK N \in Nat : N = Len(ds)
    OBVIOUS
<1>3. ASSUME NEW x \in V, NEW i \in 1 .. N PROVE Body(x, i) \in V
    <2>1. ds[i] \in D
        BY <1>2
    <2> QED BY <2>1
<1>4. PICK step : step = [p \in V \X (1 .. N) |-> Body(p[1], p[2])]
    OBVIOUS
<1>5. step \in [V \X (1 .. N) -> V]
    BY <1>3, <1>4
<1>6. PICK f \in [0 .. N -> V] : Course(f, base, step, N)
    BY <1>5, CourseExists
<1>7. f[0] = base /\ \A i \in 1 .. N : f[i] = Body(f[i - 1], i)
    <2>1. ASSUME NEW i \in 1 .. N PROVE f[i] = Body(f[i - 1], i)
        <3>1. i - 1 \in 0 .. N /\ f[i - 1] \in V
            BY <1>6
        <3>2. f[i] = step[<<f[i - 1], i>>]
            BY <1>6 DEF Course
        <3> QED BY <1>4, <3>1, <3>2
    <2> QED BY <1>6, <2>1 DEF Course
<1>8. f = [i \in 0 .. N |-> IF i = 0 THEN base ELSE Body(f[i - 1], i)]
    <2>1. f = [i \in 0 .. N |-> f[i]]
        BY <1>6
    <2>2. \A i \in 0 .. N : i = 0 \/ i \in 1 .. N
        OBVIOUS
    <2>3. \A i \in 0 .. N : f[i] = IF i = 0 THEN base ELSE Body(f[i - 1], i)
        BY <1>7, <2>2
    <2> HIDE DEF Body
    <2> QED BY <2>1, <2>3
<1>9. U = [i \in 0 .. N |-> IF i = 0 THEN base ELSE Body(U[i - 1], i)]
    BY <1>2, <1>8
<1> HIDE DEF U, Body
<1>10. U[0] \in V
    BY <1>9
<1>11. \A i \in 1 .. N : U[i - 1] \in V => U[i] \in V
    <2>1. \A i \in 1 .. N : U[i] = Body(U[i - 1], i)
        BY <1>9
    <2> QED BY <1>3, <2>1
<1> QED BY <1>1, <1>2, <1>10, <1>11, CourseStays

LEMMA AddObjectsStay ==
    ASSUME NEW V, NEW base \in V, NEW D, NEW os \in Seq(D),
           \A x \in V, d \in D : AddObject(x, d) \in V
    PROVE  AddObjects(base, os) \in V
<1> DEFINE Body(x, i) == IF Active(base, os[i]) THEN x ELSE AddObject(x, os[i])
           U == CHOOSE after : after = [i \in 0 .. Len(os) |->
                    IF i = 0 THEN base
                    ELSE IF Active(base, os[i]) THEN after[i - 1] ELSE AddObject(after[i - 1], os[i])]
<1>1. AddObjects(base, os) = U[Len(os)]
    BY DEF AddObjects
<1>2. PICK N \in Nat : N = Len(os)
    OBVIOUS
<1>3. ASSUME NEW x \in V, NEW i \in 1 .. N PROVE Body(x, i) \in V
    <2>1. os[i] \in D
        BY <1>2
    <2> QED BY <2>1
<1>4. PICK step : step = [p \in V \X (1 .. N) |-> Body(p[1], p[2])]
    OBVIOUS
<1>5. step \in [V \X (1 .. N) -> V]
    BY <1>3, <1>4
<1>6. PICK f \in [0 .. N -> V] : Course(f, base, step, N)
    BY <1>5, CourseExists
<1>7. f[0] = base /\ \A i \in 1 .. N : f[i] = Body(f[i - 1], i)
    <2>1. ASSUME NEW i \in 1 .. N PROVE f[i] = Body(f[i - 1], i)
        <3>1. i - 1 \in 0 .. N /\ f[i - 1] \in V
            BY <1>6
        <3>2. f[i] = step[<<f[i - 1], i>>]
            BY <1>6 DEF Course
        <3> QED BY <1>4, <3>1, <3>2
    <2> QED BY <1>6, <2>1 DEF Course
<1>8. f = [i \in 0 .. N |-> IF i = 0 THEN base ELSE Body(f[i - 1], i)]
    <2>1. f = [i \in 0 .. N |-> f[i]]
        BY <1>6
    <2>2. \A i \in 0 .. N : i = 0 \/ i \in 1 .. N
        OBVIOUS
    <2>3. \A i \in 0 .. N : f[i] = IF i = 0 THEN base ELSE Body(f[i - 1], i)
        BY <1>7, <2>2
    <2> HIDE DEF Body
    <2> QED BY <2>1, <2>3
<1>9. U = [i \in 0 .. N |-> IF i = 0 THEN base ELSE Body(U[i - 1], i)]
    BY <1>2, <1>8
<1> HIDE DEF U, Body
<1>10. U[0] \in V
    BY <1>9
<1>11. \A i \in 1 .. N : U[i - 1] \in V => U[i] \in V
    <2>1. \A i \in 1 .. N : U[i] = Body(U[i - 1], i)
        BY <1>9
    <2> QED BY <1>3, <2>1
<1> QED BY <1>1, <1>2, <1>10, <1>11, CourseStays

LEMMA AddRelationsStay ==
    ASSUME NEW V, NEW base \in V, NEW D, NEW ds \in Seq(D), NEW known,
           \A x \in V, d \in D : AddRelation(x, d) \in V
    PROVE  AddRelations(base, ds, known) \in V
<1> DEFINE Body(x, i) == IF ds[i].slug \in known THEN x ELSE AddRelation(x, ds[i])
           U == CHOOSE after : after = [i \in 0 .. Len(ds) |->
                    IF i = 0 THEN base
                    ELSE IF ds[i].slug \in known THEN after[i - 1] ELSE AddRelation(after[i - 1], ds[i])]
<1>1. AddRelations(base, ds, known) = U[Len(ds)]
    BY DEF AddRelations
<1>2. PICK N \in Nat : N = Len(ds)
    OBVIOUS
<1>3. ASSUME NEW x \in V, NEW i \in 1 .. N PROVE Body(x, i) \in V
    <2>1. ds[i] \in D
        BY <1>2
    <2> QED BY <2>1
<1>4. PICK step : step = [p \in V \X (1 .. N) |-> Body(p[1], p[2])]
    OBVIOUS
<1>5. step \in [V \X (1 .. N) -> V]
    BY <1>3, <1>4
<1>6. PICK f \in [0 .. N -> V] : Course(f, base, step, N)
    BY <1>5, CourseExists
<1>7. f[0] = base /\ \A i \in 1 .. N : f[i] = Body(f[i - 1], i)
    <2>1. ASSUME NEW i \in 1 .. N PROVE f[i] = Body(f[i - 1], i)
        <3>1. i - 1 \in 0 .. N /\ f[i - 1] \in V
            BY <1>6
        <3>2. f[i] = step[<<f[i - 1], i>>]
            BY <1>6 DEF Course
        <3> QED BY <1>4, <3>1, <3>2
    <2> QED BY <1>6, <2>1 DEF Course
<1>8. f = [i \in 0 .. N |-> IF i = 0 THEN base ELSE Body(f[i - 1], i)]
    <2>1. f = [i \in 0 .. N |-> f[i]]
        BY <1>6
    <2>2. \A i \in 0 .. N : i = 0 \/ i \in 1 .. N
        OBVIOUS
    <2>3. \A i \in 0 .. N : f[i] = IF i = 0 THEN base ELSE Body(f[i - 1], i)
        BY <1>7, <2>2
    <2> HIDE DEF Body
    <2> QED BY <2>1, <2>3
<1>9. U = [i \in 0 .. N |-> IF i = 0 THEN base ELSE Body(U[i - 1], i)]
    BY <1>2, <1>8
<1> HIDE DEF U, Body
<1>10. U[0] \in V
    BY <1>9
<1>11. \A i \in 1 .. N : U[i - 1] \in V => U[i] \in V
    <2>1. \A i \in 1 .. N : U[i] = Body(U[i - 1], i)
        BY <1>9
    <2> QED BY <1>3, <2>1
<1> QED BY <1>1, <1>2, <1>10, <1>11, CourseStays

LEMMA SetPrimariesStay ==
    ASSUME NEW V, NEW base \in V, NEW D, NEW os \in Seq(D), NEW known,
           \A x \in V, d \in D : SetPrimary(x, d, Template.primary[d]) \in V
    PROVE  SetPrimaries(base, os, known) \in V
<1> DEFINE Body(x, i) == IF os[i] \in known THEN x ELSE SetPrimary(x, os[i], Template.primary[os[i]])
           U == CHOOSE after : after = [i \in 0 .. Len(os) |->
                    IF i = 0 THEN base
                    ELSE IF os[i] \in known THEN after[i - 1] ELSE SetPrimary(after[i - 1], os[i], Template.primary[os[i]])]
<1>1. SetPrimaries(base, os, known) = U[Len(os)]
    BY DEF SetPrimaries
<1>2. PICK N \in Nat : N = Len(os)
    OBVIOUS
<1>3. ASSUME NEW x \in V, NEW i \in 1 .. N PROVE Body(x, i) \in V
    <2>1. os[i] \in D
        BY <1>2
    <2> QED BY <2>1
<1>4. PICK step : step = [p \in V \X (1 .. N) |-> Body(p[1], p[2])]
    OBVIOUS
<1>5. step \in [V \X (1 .. N) -> V]
    BY <1>3, <1>4
<1>6. PICK f \in [0 .. N -> V] : Course(f, base, step, N)
    BY <1>5, CourseExists
<1>7. f[0] = base /\ \A i \in 1 .. N : f[i] = Body(f[i - 1], i)
    <2>1. ASSUME NEW i \in 1 .. N PROVE f[i] = Body(f[i - 1], i)
        <3>1. i - 1 \in 0 .. N /\ f[i - 1] \in V
            BY <1>6
        <3>2. f[i] = step[<<f[i - 1], i>>]
            BY <1>6 DEF Course
        <3> QED BY <1>4, <3>1, <3>2
    <2> QED BY <1>6, <2>1 DEF Course
<1>8. f = [i \in 0 .. N |-> IF i = 0 THEN base ELSE Body(f[i - 1], i)]
    <2>1. f = [i \in 0 .. N |-> f[i]]
        BY <1>6
    <2>2. \A i \in 0 .. N : i = 0 \/ i \in 1 .. N
        OBVIOUS
    <2>3. \A i \in 0 .. N : f[i] = IF i = 0 THEN base ELSE Body(f[i - 1], i)
        BY <1>7, <2>2
    <2> HIDE DEF Body
    <2> QED BY <2>1, <2>3
<1>9. U = [i \in 0 .. N |-> IF i = 0 THEN base ELSE Body(U[i - 1], i)]
    BY <1>2, <1>8
<1> HIDE DEF U, Body
<1>10. U[0] \in V
    BY <1>9
<1>11. \A i \in 1 .. N : U[i - 1] \in V => U[i] \in V
    <2>1. \A i \in 1 .. N : U[i] = Body(U[i - 1], i)
        BY <1>9
    <2> QED BY <1>3, <2>1
<1> QED BY <1>1, <1>2, <1>10, <1>11, CourseStays

LEMMA AddAttributesSound ==
    ASSUME NEW m, NEW base, Outcome(m, base), NEW ds \in Seq(AttributeDefs), NEW known
    PROVE  Outcome(m, AddAttributes(base, ds, known))
<1>1. base \in Sequels(m)
    BY SequelsAre
<1>2. ASSUME NEW x \in Sequels(m), NEW d \in AttributeDefs PROVE AddAttribute(x, x, d) \in Sequels(m)
    <2>1. Outcome(m, x)
        BY SequelsAre
    <2>2. x # Rejected => Outcome(x, AddAttribute(x, x, d))
        BY <2>1, AddAttributeSound, FollowsIsOrder DEF Outcome
    <2>3. x = Rejected => AddAttribute(x, x, d) = Rejected
        BY DEF AddAttribute
    <2>4. Outcome(m, AddAttribute(x, x, d))
        BY <2>1, <2>2, <2>3, OutcomesJoin DEF Outcome
    <2> QED BY <2>4, SequelsAre
<1>3. AddAttributes(base, ds, known) \in Sequels(m)
    BY <1>1, <1>2, AddAttributesStay
<1> QED BY <1>3, SequelsAre

LEMMA AddObjectsSound ==
    ASSUME NEW m, NEW base, Outcome(m, base), NEW os \in Seq(Objects)
    PROVE  Outcome(m, AddObjects(base, os))
<1>1. base \in Sequels(m)
    BY SequelsAre
<1>2. ASSUME NEW x \in Sequels(m), NEW d \in Objects PROVE AddObject(x, d) \in Sequels(m)
    <2>1. Outcome(m, x)
        BY SequelsAre
    <2>2. x # Rejected => Outcome(x, AddObject(x, d))
        BY <2>1, AddObjectSound DEF Outcome
    <2>3. x = Rejected => AddObject(x, d) = Rejected
        BY DEF AddObject
    <2>4. Outcome(m, AddObject(x, d))
        BY <2>1, <2>2, <2>3, OutcomesJoin DEF Outcome
    <2> QED BY <2>4, SequelsAre
<1>3. AddObjects(base, os) \in Sequels(m)
    BY <1>1, <1>2, AddObjectsStay
<1> QED BY <1>3, SequelsAre

LEMMA AddRelationsSound ==
    ASSUME NEW m, NEW base, Outcome(m, base), NEW ds \in Seq(RelationDefs), NEW known
    PROVE  Outcome(m, AddRelations(base, ds, known))
<1>1. base \in Sequels(m)
    BY SequelsAre
<1>2. ASSUME NEW x \in Sequels(m), NEW d \in RelationDefs PROVE AddRelation(x, d) \in Sequels(m)
    <2>1. Outcome(m, x)
        BY SequelsAre
    <2>2. x # Rejected => Outcome(x, AddRelation(x, d))
        BY <2>1, AddRelationSound DEF Outcome
    <2>3. x = Rejected => AddRelation(x, d) = Rejected
        BY DEF AddRelation
    <2>4. Outcome(m, AddRelation(x, d))
        BY <2>1, <2>2, <2>3, OutcomesJoin DEF Outcome
    <2> QED BY <2>4, SequelsAre
<1>3. AddRelations(base, ds, known) \in Sequels(m)
    BY <1>1, <1>2, AddRelationsStay
<1> QED BY <1>3, SequelsAre

LEMMA SetPrimariesSound ==
    ASSUME NEW m, NEW base, Outcome(m, base), NEW os \in Seq(Objects), NEW known
    PROVE  Outcome(m, SetPrimaries(base, os, known))
<1>1. base \in Sequels(m)
    BY SequelsAre
<1>2. ASSUME NEW x \in Sequels(m), NEW d \in Objects PROVE SetPrimary(x, d, Template.primary[d]) \in Sequels(m)
    <2>1. Outcome(m, x)
        BY SequelsAre
    <2>0. Template.primary[d] \in Slugs \cup {None}
        BY SchemaAssumption
    <2>2. x # Rejected => Outcome(x, SetPrimary(x, d, Template.primary[d]))
        BY <2>0, <2>1, SetPrimarySound DEF Outcome
    <2>3. x = Rejected => SetPrimary(x, d, Template.primary[d]) = Rejected
        BY DEF SetPrimary
    <2>4. Outcome(m, SetPrimary(x, d, Template.primary[d]))
        BY <2>1, <2>2, <2>3, OutcomesJoin DEF Outcome
    <2> QED BY <2>4, SequelsAre
<1>3. SetPrimaries(base, os, known) \in Sequels(m)
    BY <1>1, <1>2, SetPrimariesStay
<1> QED BY <1>3, SequelsAre

\* The definitions of several things in one transaction.
LEMMA AddWholeSound ==
    ASSUME NEW m, Sound(m), NEW o \in Objects, NEW ds \in Seq(AttributeDefs), NEW primary \in Slugs \cup {None}
    PROVE  Outcome(m, AddWhole(m, o, ds, primary))
<1>1. PICK whole : whole = AddAttributes(AddObject(m, o), ds, {})
    OBVIOUS
<1>2. Outcome(m, whole)
    BY <1>1, AddObjectSound, AddAttributesSound
<1>3. Outcome(m, SetPrimary(whole, o, primary))
    <2>1. CASE whole = Rejected
        BY <2>1 DEF SetPrimary, Outcome
    <2>2. CASE whole # Rejected
        <3>1. Outcome(whole, SetPrimary(whole, o, primary))
            BY <1>2, <2>2, SetPrimarySound DEF Outcome
        <3> QED BY <1>2, <2>2, <3>1, OutcomesJoin
    <2> QED BY <2>1, <2>2
<1> QED BY <1>1, <1>2, <1>3 DEF AddWhole

LEMMA AddMissingSound ==
    ASSUME NEW m, Sound(m), NEW ds \in Seq(AttributeDefs) PROVE Outcome(m, AddMissing(m, ds))
<1>1. Outcome(m, m)
    BY FollowsIsOrder DEF Outcome
<1>2. Outcome(m, AddAttributes(m, ds, {a \in Cells : m.attr[a].status # "absent"}))
    BY <1>1, AddAttributesSound
<1>3. AddMissing(m, ds) \in {Rejected, AddAttributes(m, ds, {a \in Cells : m.attr[a].status # "absent"})}
    BY Zenon DEF AddMissing
<1> QED BY <1>2, <1>3 DEF Outcome

LEMMA ApplyTemplateSound == ASSUME NEW m, Sound(m) PROVE Outcome(m, ApplyTemplate(m))
<1>0. Template.objects \in Seq(Objects) /\ Template.relations \in Seq(RelationDefs) /\ Template.attributes \in Seq(AttributeDefs)
    BY SchemaAssumption
<1>1. Outcome(m, m)
    BY FollowsIsOrder DEF Outcome
<1>2. PICK objects : objects = AddObjects(m, Template.objects)
    OBVIOUS
<1>3. Outcome(m, objects)
    BY <1>0, <1>1, <1>2, AddObjectsSound
<1>4. PICK relations : relations = AddRelations(objects, Template.relations, {r \in Relations : Related(m, r)})
    OBVIOUS
<1>5. Outcome(m, relations)
    BY <1>0, <1>3, <1>4, AddRelationsSound
<1>6. PICK attributes : attributes = AddAttributes(relations, Template.attributes, {a \in Cells : ActiveAt(m, a)})
    OBVIOUS
<1>7. Outcome(m, attributes)
    BY <1>0, <1>5, <1>6, AddAttributesSound
<1>8. Outcome(m, SetPrimaries(attributes, Template.objects, {o \in Objects : Active(m, o)}))
    BY <1>0, <1>7, SetPrimariesSound
<1> QED BY <1>2, <1>4, <1>6, <1>8 DEF ApplyTemplate

\* Changes of the rows that leave kinds, ends and claims as they are.
LEMMA AttributesChange ==
    ASSUME NEW m, Sound(m), NEW f \in [Cells -> AttributeRows], NEW h \in [Groups -> GroupRows],
           \A a \in Cells : f[a].kind = m.attr[a].kind /\ (f[a].status = "absent" <=> m.attr[a].status = "absent")
    PROVE  Outcome(m, [m EXCEPT !.attr = f, !.group = h])
<1>1. PICK n : n = [m EXCEPT !.attr = f, !.group = h]
    OBVIOUS
<1>2. n \in TableStates /\ n.attr = f /\ n.rel = m.rel
    BY <1>1 DEF Sound, TableStates
<1>3. Outcome(m, n)
    BY <1>2, Untouched
<1> QED BY <1>1, <1>3

LEMMA CellChanges ==
    ASSUME NEW m, Sound(m), NEW cell \in Cells, NEW row \in AttributeRows, row.kind = m.attr[cell].kind,
           row.status = "absent" <=> m.attr[cell].status = "absent"
    PROVE  Outcome(m, [m EXCEPT !.attr[cell] = row])
<1>1. m \in TableStates
    BY DEF Sound
<1>2. PICK f : f = [m.attr EXCEPT ![cell] = row]
    OBVIOUS
<1>3. f \in [Cells -> AttributeRows] /\ m.group \in [Groups -> GroupRows]
    BY <1>1, <1>2, TableTyped
<1>4. \A a \in Cells : f[a].kind = m.attr[a].kind /\ (f[a].status = "absent" <=> m.attr[a].status = "absent")
    BY <1>1, <1>2, TableTyped
<1>5. Outcome(m, [m EXCEPT !.attr = f, !.group = m.group])
    BY <1>3, <1>4, AttributesChange
<1>6. [m EXCEPT !.attr = f, !.group = m.group] = [m EXCEPT !.attr[cell] = row]
    BY <1>1, <1>2 DEF TableStates
<1> QED BY <1>5, <1>6

LEMMA RelationChanges ==
    ASSUME NEW m, Sound(m), NEW q \in Relations, NEW row \in RelationRows, row.from = m.rel[q].from, row.claim = m.rel[q].claim,
           row.status = "absent" <=> m.rel[q].status = "absent"
    PROVE  Outcome(m, [m EXCEPT !.rel[q] = row])
<1>1. PICK n : n = [m EXCEPT !.rel[q] = row]
    OBVIOUS
<1>2. n \in TableStates /\ n.attr = m.attr /\ n.rel = [m.rel EXCEPT ![q] = row]
    BY <1>1 DEF Sound, TableStates
<1>3. n.rel[q] = row /\ \A r \in Relations \ {q} : n.rel[r] = m.rel[r]
    BY <1>2, TableTyped DEF Sound
<1>4. \A r \in Relations : /\ n.rel[r].from = m.rel[r].from /\ n.rel[r].claim = m.rel[r].claim
                           /\ n.rel[r].status = "absent" <=> m.rel[r].status = "absent"
    BY <1>3
<1>5. Outcome(m, n)
    BY <1>2, <1>4, Untouched
<1> QED BY <1>1, <1>5

LEMMA CellTyped == ASSUME NEW m, Sound(m), NEW cell \in Cells PROVE m.attr[cell] \in AttributeRows
BY TableTyped DEF Sound

\* The tables with one attribute row replaced.
Reworked(m, cell, row) == [m EXCEPT !.attr[cell] = row]

\* What an update of options leaves: the row of now with other active and retired options.
LEMMA EvolveIs ==
    ASSUME NEW seen, Sound(seen), NEW m, Sound(m), NEW cell \in Cells, NEW options \in (SUBSET Options) \cup {None}, NEW recompute,
           NEW n, n = Evolve(seen, m, cell, options, recompute), n # Rejected
    PROVE  \E row \in AttributeRows : /\ row.kind = m.attr[cell].kind /\ row.status = m.attr[cell].status
                                      /\ row.group = m.attr[cell].group /\ n = Reworked(m, cell, row)
<1>1. PICK a : a = seen.attr[cell]
    OBVIOUS
<1>2. a \in AttributeRows /\ m.attr[cell] \in AttributeRows
    BY <1>1, CellTyped
<1>3. PICK retired : retired = IF options = None THEN a.retired
                               ELSE ((a.options \cup a.retired) \cap Held[cell]) \ options
    OBVIOUS
<1>4. PICK active : active = IF options = None THEN a.options ELSE options
    OBVIOUS
<1>5. retired \in SUBSET Options /\ active \in SUBSET Options
    BY <1>2, <1>3, <1>4 DEF AttributeRows
<1>6. n = [m EXCEPT !.attr[cell].options = active, !.attr[cell].retired = retired]
    BY <1>1, <1>3, <1>4 DEF Evolve
<1>7. PICK row : row = [m.attr[cell] EXCEPT !.options = active, !.retired = retired]
    OBVIOUS
<1>8. n = [m EXCEPT !.attr[cell] = row]
    BY <1>2, <1>6, <1>7 DEF Sound, TableStates, AttributeRows
<1>9. /\ row \in AttributeRows /\ row.kind = m.attr[cell].kind /\ row.status = m.attr[cell].status
      /\ row.group = m.attr[cell].group
    BY <1>2, <1>5, <1>7 DEF AttributeRows
<1> QED BY <1>8, <1>9 DEF Reworked

LEMMA EvolveSound ==
    ASSUME NEW seen, Sound(seen), NEW m, Sound(m), NEW cell \in Cells, NEW options \in (SUBSET Options) \cup {None}, NEW recompute
    PROVE  Outcome(m, Evolve(seen, m, cell, options, recompute))
<1>0. PICK n : n = Evolve(seen, m, cell, options, recompute)
    OBVIOUS
<1>1. CASE n # Rejected
    <2>1. PICK row \in AttributeRows : /\ row.kind = m.attr[cell].kind /\ row.status = m.attr[cell].status
                                       /\ n = Reworked(m, cell, row)
        BY <1>0, <1>1, EvolveIs
    <2>4. Outcome(m, [m EXCEPT !.attr[cell] = row])
        BY <2>1, CellChanges
    <2> QED BY <1>0, <2>1, <2>4 DEF Reworked
<1>2. CASE n = Rejected
    BY <1>0, <1>2 DEF Outcome
<1> QED BY <1>1, <1>2

LEMMA AddGroupSound ==
    ASSUME NEW seen, NEW m, Sound(m), NEW g \in Groups, NEW o \in Objects, NEW S
    PROVE  Outcome(m, AddGroup(seen, m, g, o, S))
<1>0. m \in TableStates /\ m.attr \in [Cells -> AttributeRows] /\ m.group \in [Groups -> GroupRows]
    BY TableTyped DEF Sound
<1>1. PICK at : at = NextPosition(seen, o)
    OBVIOUS
<1>2. at \in Nat
    BY <1>1, SchemaAssumption, FS_Subset, FS_CardinalityType DEF NextPosition
<1>3. PICK row : row = [status |-> "active", of |-> o, at |-> at]
    OBVIOUS
<1>4. row \in GroupRows
    BY <1>2, <1>3 DEF GroupRows, Statuses
<1>5. PICK f : f = [a \in Cells |-> IF a[1] = o /\ a[2] \in S THEN [m.attr[a] EXCEPT !.group = g] ELSE m.attr[a]]
    OBVIOUS
<1>6. ASSUME NEW a \in Cells PROVE f[a] \in AttributeRows /\ f[a].kind = m.attr[a].kind /\ f[a].status = m.attr[a].status
    <2>1. m.attr[a] \in AttributeRows
        BY <1>0
    <2>2. PICK r2 : r2 = [m.attr[a] EXCEPT !.group = g]
        OBVIOUS
    <2>3. r2 \in AttributeRows /\ r2.kind = m.attr[a].kind /\ r2.status = m.attr[a].status
        BY <2>1, <2>2 DEF AttributeRows
    <2>4. f[a] = r2 \/ f[a] = m.attr[a]
        BY <1>5, <2>2
    <2> QED BY <2>1, <2>3, <2>4
<1>7. f \in [Cells -> AttributeRows]
    BY <1>5, <1>6
<1>8. PICK h : h = [m.group EXCEPT ![g] = row]
    OBVIOUS
<1>9. h \in [Groups -> GroupRows]
    BY <1>0, <1>4, <1>8
<1>10. Outcome(m, [m EXCEPT !.attr = f, !.group = h])
    BY <1>6, <1>7, <1>9, AttributesChange
<1>11. [m EXCEPT !.attr = f, !.group = h] = [m EXCEPT !.group[g] = row, !.attr = f]
    BY <1>0, <1>8 DEF TableStates
<1>12. AddGroup(seen, m, g, o, S) \in {Rejected, [m EXCEPT !.group[g] = row, !.attr = f]}
    BY <1>1, <1>3, <1>5, Zenon DEF AddGroup
<1> QED BY <1>10, <1>11, <1>12 DEF Outcome

LEMMA ArchiveGroupSound == ASSUME NEW m, Sound(m), NEW g \in Groups PROVE Outcome(m, ArchiveGroup(m, g))
<1>0. m \in TableStates /\ m.attr \in [Cells -> AttributeRows] /\ m.group \in [Groups -> GroupRows]
    BY TableTyped DEF Sound
<1>5. PICK f : f = [a \in Cells |-> IF m.attr[a].group = g THEN [m.attr[a] EXCEPT !.group = None] ELSE m.attr[a]]
    OBVIOUS
<1>6. ASSUME NEW a \in Cells PROVE f[a] \in AttributeRows /\ f[a].kind = m.attr[a].kind /\ f[a].status = m.attr[a].status
    <2>1. m.attr[a] \in AttributeRows
        BY <1>0
    <2>2. PICK r2 : r2 = [m.attr[a] EXCEPT !.group = None]
        OBVIOUS
    <2>3. r2 \in AttributeRows /\ r2.kind = m.attr[a].kind /\ r2.status = m.attr[a].status
        BY <2>1, <2>2 DEF AttributeRows
    <2>4. f[a] = r2 \/ f[a] = m.attr[a]
        BY <1>5, <2>2
    <2> QED BY <2>1, <2>3, <2>4
<1>7. f \in [Cells -> AttributeRows]
    BY <1>5, <1>6
<1>8. PICK h : h = [m.group EXCEPT ![g].status = "archived"]
    OBVIOUS
<1>9. h \in [Groups -> GroupRows]
    BY <1>0, <1>8 DEF GroupRows, Statuses
<1>10. Outcome(m, [m EXCEPT !.attr = f, !.group = h])
    BY <1>6, <1>7, <1>9, AttributesChange
<1>11. [m EXCEPT !.attr = f, !.group = h] = ArchiveGroup(m, g)
    BY <1>0, <1>5, <1>8 DEF TableStates, ArchiveGroup
<1> QED BY <1>10, <1>11

LEMMA ReorderSound == ASSUME NEW m, Sound(m), NEW o, NEW order \in Seq(Groups) PROVE Outcome(m, Reorder(m, o, order))
<1>0. m \in TableStates /\ m.group \in [Groups -> GroupRows]
    BY TableTyped DEF Sound
<1> DEFINE at(g) == CHOOSE i \in DOMAIN order : order[i] = g
<1>1. PICK h : h = [g \in Groups |-> IF g \in ToSet(order) THEN [m.group[g] EXCEPT !.at = at(g) - 1] ELSE m.group[g]]
    OBVIOUS
<1>2. ASSUME NEW g \in Groups PROVE h[g] \in GroupRows
    <2>1. m.group[g] \in GroupRows
        BY <1>0
    <2>2. CASE g \in ToSet(order)
        <3>1. \E i \in DOMAIN order : order[i] = g
            BY <2>2 DEF ToSet
        <3>2. at(g) \in DOMAIN order
            BY <3>1
        <3> HIDE DEF at
        <3>3. at(g) - 1 \in Nat
            BY <3>2
        <3> QED BY <1>1, <2>1, <2>2, <3>3 DEF GroupRows
    <2>3. CASE g \notin ToSet(order)
        BY <1>1, <2>1, <2>3
    <2> QED BY <2>2, <2>3
<1>3. PICK n : n = [m EXCEPT !.group = h]
    OBVIOUS
<1>4. h \in [Groups -> GroupRows]
    BY <1>1, <1>2
<1>5. n \in TableStates /\ n.attr = m.attr /\ n.rel = m.rel
    BY <1>0, <1>3, <1>4 DEF TableStates
<1>6. Outcome(m, n)
    BY <1>5, OtherFields
<1>7. Reorder(m, o, order) \in {Rejected, n}
    BY <1>1, <1>3, Zenon DEF Reorder
<1> QED BY <1>6, <1>7 DEF Outcome

LEMMA PutPipelineSound ==
    ASSUME NEW seen, NEW m, Sound(m), NEW p \in Pipelines, NEW o \in Objects \cup {None}, NEW default \in BOOLEAN
    PROVE  Outcome(m, PutPipeline(seen, m, p, o, default))
<1>0. m \in TableStates /\ m.pipe \in [Pipelines -> PipelineRows]
    BY TableTyped DEF Sound
<1>1. PICK cleared : cleared = IF default THEN ClearDefault(seen, m, o) ELSE m
    OBVIOUS
<1>2. ClearDefault(seen, m, o) \in TableStates /\ ClearDefault(seen, m, o).attr = m.attr /\ ClearDefault(seen, m, o).rel = m.rel
    <2>1. PICK h : h = [q \in Pipelines |-> IF seen.pipe[q].of = o /\ seen.pipe[q].default
                                             THEN [m.pipe[q] EXCEPT !.default = FALSE] ELSE m.pipe[q]]
        OBVIOUS
    <2>2. ASSUME NEW q \in Pipelines PROVE h[q] \in PipelineRows
        <3>1. m.pipe[q] \in PipelineRows /\ [m.pipe[q] EXCEPT !.default = FALSE] \in PipelineRows
            BY <1>0 DEF PipelineRows
        <3> QED BY <2>1, <3>1
    <2>3. h \in [Pipelines -> PipelineRows]
        BY <2>1, <2>2
    <2>4. ClearDefault(seen, m, o) = [m EXCEPT !.pipe = h]
        BY <2>1 DEF ClearDefault
    <2> QED BY <1>0, <2>3, <2>4 DEF TableStates
<1>3. cleared \in TableStates /\ cleared.attr = m.attr /\ cleared.rel = m.rel
    BY <1>0, <1>1, <1>2
<1>4. PICK n : n = [cleared EXCEPT !.pipe[p] = [of |-> o, default |-> default]]
    OBVIOUS
<1>5. n \in TableStates /\ n.attr = m.attr /\ n.rel = m.rel
    BY <1>3, <1>4 DEF TableStates, PipelineRows
<1>6. Outcome(m, n)
    BY <1>5, OtherFields
<1>7. PutPipeline(seen, m, p, o, default) \in {Rejected, n}
    BY <1>1, <1>4, Zenon DEF PutPipeline
<1> QED BY <1>6, <1>7 DEF Outcome

LEMMA CallTyped ==
    ASSUME NEW call \in DefinitionCalls
    PROVE  /\ call.kind = "object" =>
                call.of \in Objects /\ call.ds \in Seq(AttributeDefs) /\ call.primary \in Slugs \cup {None}
           /\ call.kind = "archiveObject" => call.of \in Objects
           /\ call.kind = "primary" => call.of \in Objects /\ call.slug \in Slugs \cup {None}
           /\ call.kind \in {"attribute", "derived"} => call.d \in AttributeDefs
           /\ call.kind = "evolve" => call.of \in Objects /\ call.slug \in Slugs /\ call.options \in (SUBSET Options) \cup {None}
           /\ call.kind = "archiveAttribute" => call.of \in Objects /\ call.slug \in Slugs
           /\ call.kind = "rederive" => call.of \in Objects /\ call.slug \in Slugs /\ call.sources \in SUBSET Slugs
           /\ call.kind = "system" => call.of \in Objects /\ call.ds \in Seq(AttributeDefs)
           /\ call.kind = "relation" => call.d \in RelationDefs
           /\ call.kind = "updateRelation" =>
                call.slug \in Relations /\ call.many \in BOOLEAN /\ call.bound \in Nat \cup {None}
           /\ call.kind = "archiveRelation" => call.slug \in Relations
           /\ call.kind = "group" => call.slug \in Groups /\ call.of \in Objects
           /\ call.kind = "reorder" => call.order \in Seq(Groups)
           /\ call.kind = "archiveGroup" => call.slug \in Groups
           /\ call.kind = "pipeline" => call.slug \in Pipelines /\ call.of \in Objects /\ call.default \in BOOLEAN
           /\ call.kind = "updatePipeline" => call.slug \in Pipelines /\ call.default \in BOOLEAN
BY DEF DefinitionCalls

LEMMA ArchivesWhatIsThere ==
    ASSUME NEW m, NEW call, MayBegin(m, call)
    PROVE  /\ call.kind = "archiveAttribute" => ActiveAt(m, <<call.of, call.slug>>)
           /\ call.kind = "archiveRelation" => Related(m, call.slug)
BY DEF MayBegin

\* A transaction under way: what it read was sound, and the tables have only grown since.
Under(t, m) ==
    /\ t = [call |-> t.call, saw |-> t.saw]
    /\ t.call \in Calls /\ MayBegin(t.saw, t.call)
    /\ Sound(t.saw) /\ Follows(t.saw, m)
BackInv ==
    /\ Sound(tables)
    /\ tx = [c \in Callers |-> tx[c]]
    /\ \A c \in Callers : tx[c] # None => Under(tx[c], tables)

LEMMA BackInit == ASSUME Init PROVE BackInv
<1>1. tables \in TableStates /\ Backs(tables) /\ \A r \in Relations : tables.rel[r].status = "absent" => tables.rel[r].claim = None
    BY SchemaAssumption DEF Init
<1>2. ASSUME NEW a \in Cells
      PROVE  IF IsReference(tables, a) THEN \E r \in Relations : OwnedBy(tables, a) = {r} ELSE OwnedBy(tables, a) = {}
    <2>1. IF IsReference(tables, a) THEN Cardinality(OwnedBy(tables, a)) = 1 ELSE OwnedBy(tables, a) = {}
        BY <1>1 DEF Backs, OwnedBy, IsReference
    <2>2. IsFiniteSet(OwnedBy(tables, a))
        BY SchemaAssumption, FS_Subset DEF OwnedBy
    <2>3. ASSUME Cardinality(OwnedBy(tables, a)) = 1 PROVE \E r \in Relations : OwnedBy(tables, a) = {r}
        <3>1. PICK r : OwnedBy(tables, a) = {r}
            BY <2>2, <2>3, FS_Singleton
        <3>2. r \in Relations
            BY <3>1 DEF OwnedBy
        <3> QED BY <3>1, <3>2
    <2> QED BY <2>1, <2>3
<1>3. Sound(tables)
    BY <1>1, <1>2 DEF Sound
<1> QED BY <1>3 DEF Init, BackInv

LEMMA CommitKeepsBacked ==
    ASSUME BackInv, NEW c \in Callers, NEW n, Outcome(tables, n), NEW named, NEW more, Finish(c, n, named, more)
    PROVE  BackInv'
<1>1. tables' = n /\ Sound(n) /\ Follows(tables, n) /\ tx' = [tx EXCEPT ![c] = None]
    BY DEF Finish, Outcome
<1>2. Sound(tables')
    BY <1>1
<1>3. tx' = [d \in Callers |-> tx'[d]]
    BY <1>1 DEF BackInv
<1>4. ASSUME NEW d \in Callers, tx'[d] # None PROVE Under(tx'[d], tables')
    <2>1. tx'[d] = tx[d]
        BY <1>1, <1>4 DEF BackInv
    <2>2. PICK t : t = tx[d]
        OBVIOUS
    <2>3. Under(t, tables)
        BY <1>4, <2>1, <2>2 DEF BackInv
    <2>4. Follows(t.saw, n)
        BY <1>1, <2>3, FollowsIsOrder DEF Under
    <2>5. Under(t, n)
        BY <2>3, <2>4 DEF Under
    <2> QED BY <1>1, <2>1, <2>2, <2>5
<1> QED BY <1>2, <1>3, <1>4 DEF BackInv

LEMMA QuietKeepsBacked ==
    ASSUME BackInv, UNCHANGED tables, NEW c \in Callers, tx' = [tx EXCEPT ![c] = None] \/ tx' = tx
    PROVE  BackInv'
<1>1. tx' = [d \in Callers |-> tx'[d]] /\ \A d \in Callers : tx'[d] = None \/ tx'[d] = tx[d]
    BY DEF BackInv
<1>2. \A d \in Callers : tx'[d] # None => Under(tx'[d], tables')
    BY <1>1 DEF BackInv
<1> QED BY <1>1, <1>2 DEF BackInv

LEMMA BeginKeepsBacked ==
    ASSUME BackInv, NEW c \in Callers, NEW call \in Calls, Begin(c, call) PROVE BackInv'
<1>1. PICK t : t = [call |-> call, saw |-> tables]
    OBVIOUS
<1>2. tables' = tables /\ tx' = [tx EXCEPT ![c] = t] /\ MayBegin(tables, call)
    BY <1>1 DEF Begin
<1>3. t.call = call /\ t.saw = tables
    BY <1>1
<1>4. Under(t, tables)
    BY <1>1, <1>2, <1>3, SchemaAssumption, FollowsIsOrder DEF Under, BackInv
<1>5. tx' = [d \in Callers |-> tx'[d]] /\ tx'[c] = t /\ \A d \in Callers \ {c} : tx'[d] = tx[d]
    BY <1>2 DEF BackInv
<1>6. \A d \in Callers : tx'[d] # None => Under(tx'[d], tables')
    BY <1>2, <1>4, <1>5 DEF BackInv
<1> QED BY <1>2, <1>5, <1>6 DEF BackInv

\* Every definition transaction keeps the references backed: it writes on the present tables, or on what it
\* read of tables that have only grown since.
LEMMA DefinitionsKeepBacked ==
    ASSUME BackInv, NEW c \in Callers,
           \/ DefineObject(c) \/ ArchiveObject(c) \/ UpdateObject(c)
           \/ DefineAttribute(c) \/ UpdateAttribute(c) \/ ArchiveAttribute(c)
           \/ DefineDerived(c) \/ UpdateDerived(c) \/ EnsureSystemAttributes(c)
           \/ DefineRelation(c) \/ UpdateRelation(c) \/ ArchiveRelation(c) \/ UseTemplate(c)
           \/ DefineGroup(c) \/ ReorderGroups(c) \/ ArchiveAttributeGroup(c)
           \/ DefinePipeline(c) \/ UpdatePipeline(c) \/ DefineList(c)
    PROVE  BackInv'
<1>1. tx[c] # None
    BY DEF DefineObject, ArchiveObject, UpdateObject, DefineAttribute, UpdateAttribute, ArchiveAttribute, DefineDerived,
           UpdateDerived, EnsureSystemAttributes, DefineRelation, UpdateRelation, ArchiveRelation, UseTemplate, DefineGroup,
           ReorderGroups, ArchiveAttributeGroup, DefinePipeline, UpdatePipeline, DefineList, Doing
<1>2. PICK call : call = tx[c].call
    OBVIOUS
<1>3. PICK saw : saw = tx[c].saw
    OBVIOUS
<1>4. call \in DefinitionCalls /\ MayBegin(saw, call) /\ Sound(saw) /\ Follows(saw, tables)
    BY <1>1, <1>2, <1>3, SchemaAssumption DEF BackInv, Under
<1>5. PICK m : m = tables
    OBVIOUS
<1>6. Sound(m) /\ Follows(saw, m) /\ m \in TableStates
    BY <1>4, <1>5 DEF BackInv, Sound
<1>7. CASE DefineObject(c)
    <2>1. call.kind = "object"
        BY <1>2, <1>7 DEF DefineObject, Doing
    <2>2. PICK n : n = AddWhole(m, call.of, call.ds, call.primary)
        OBVIOUS
    <2>3. \E named, more : Finish(c, n, named, more)
        BY <1>2, <1>3, <1>5, <1>7, <2>2 DEF DefineObject
    <2>9. Outcome(m, n)
        BY <1>4, <1>6, <2>1, <2>2, CallTyped, AddWholeSound
    <2> QED BY <1>5, <2>3, <2>9, CommitKeepsBacked
<1>8. CASE ArchiveObject(c)
    <2>1. call.kind = "archiveObject"
        BY <1>2, <1>8 DEF ArchiveObject, Doing
    <2>2. PICK n : n = [m EXCEPT !.object[call.of] = "archived"]
        OBVIOUS
    <2>3. \E named, more : Finish(c, n, named, more)
        BY <1>2, <1>3, <1>5, <1>8, <2>2 DEF ArchiveObject
    <2>4. n \in TableStates /\ n.attr = m.attr /\ n.rel = m.rel
        BY <1>4, <1>6, <2>1, <2>2, CallTyped DEF TableStates, Statuses
    <2>9. Outcome(m, n)
        BY <1>6, <2>4, OtherFields
    <2> QED BY <1>5, <2>3, <2>9, CommitKeepsBacked
<1>9. CASE UpdateObject(c)
    <2>1. call.kind = "primary"
        BY <1>2, <1>9 DEF UpdateObject, Doing
    <2>2. PICK n : n = SetPrimary(m, call.of, call.slug)
        OBVIOUS
    <2>3. \E named, more : Finish(c, n, named, more)
        BY <1>2, <1>3, <1>5, <1>9, <2>2 DEF UpdateObject
    <2>9. Outcome(m, n)
        BY <1>4, <1>6, <2>1, <2>2, CallTyped, SetPrimarySound
    <2> QED BY <1>5, <2>3, <2>9, CommitKeepsBacked
<1>10. CASE DefineAttribute(c)
    <2>1. call.kind = "attribute"
        BY <1>2, <1>10 DEF DefineAttribute, Doing
    <2>2. PICK n : n = AddAttribute(saw, m, call.d)
        OBVIOUS
    <2>3. \E named, more : Finish(c, n, named, more)
        BY <1>2, <1>3, <1>5, <1>10, <2>2 DEF DefineAttribute
    <2>4. call.d \in AttributeDefs
        BY <1>4, <2>1, CallTyped
    <2>9. Outcome(m, n)
        BY <1>4, <1>6, <2>2, <2>4, AddAttributeSound
    <2> QED BY <1>5, <2>3, <2>9, CommitKeepsBacked
<1>11. CASE UpdateAttribute(c)
    <2>1. call.kind = "evolve"
        BY <1>2, <1>11 DEF UpdateAttribute, Doing
    <2>2. PICK n : n = Evolve(saw, m, <<call.of, call.slug>>, call.options, call.recompute)
        OBVIOUS
    <2>3. \E named, more : Finish(c, n, named, more)
        BY <1>2, <1>3, <1>5, <1>11, <2>2 DEF UpdateAttribute
    <2>4. call.of \in Objects /\ call.slug \in Slugs /\ <<call.of, call.slug>> \in Cells
        BY <1>4, <2>1, CallTyped DEF Cells
    <2>9. Outcome(m, n)
        BY <1>4, <1>6, <2>1, <2>2, <2>4, CallTyped, EvolveSound
    <2> QED BY <1>5, <2>3, <2>9, CommitKeepsBacked
<1>12. CASE ArchiveAttribute(c)
    <2>1. call.kind = "archiveAttribute"
        BY <1>2, <1>12 DEF ArchiveAttribute, Doing
    <2>2. PICK n : n = [m EXCEPT !.attr[<<call.of, call.slug>>].status = "archived"]
        OBVIOUS
    <2>3. \E named, more : Finish(c, n, named, more)
        BY <1>2, <1>3, <1>5, <1>12, <2>2 DEF ArchiveAttribute
    <2>4. call.of \in Objects /\ call.slug \in Slugs /\ <<call.of, call.slug>> \in Cells
        BY <1>4, <2>1, CallTyped DEF Cells
    <2>5. PICK row : row = [m.attr[<<call.of, call.slug>>] EXCEPT !.status = "archived"]
        OBVIOUS
    <2>6. m.attr[<<call.of, call.slug>>] \in AttributeRows
        BY <1>6, <2>4, CellTyped
    <2>a. m.attr[<<call.of, call.slug>>].status # "absent"
        BY <1>4, <1>6, <2>1, <2>4, ArchivesWhatIsThere DEF ActiveAt, Follows
    <2>7. /\ row \in AttributeRows /\ row.kind = m.attr[<<call.of, call.slug>>].kind
          /\ row.status = "absent" <=> m.attr[<<call.of, call.slug>>].status = "absent"
        BY <2>5, <2>6, <2>a DEF AttributeRows, Statuses
    <2>8. n = [m EXCEPT !.attr[<<call.of, call.slug>>] = row]
        BY <1>6, <2>2, <2>4, <2>5 DEF TableStates
    <2>9. Outcome(m, n)
        BY <1>6, <2>4, <2>7, <2>8, CellChanges
    <2> QED BY <1>5, <2>3, <2>9, CommitKeepsBacked
<1>13. CASE DefineDerived(c)
    <2>1. call.kind = "derived"
        BY <1>2, <1>13 DEF DefineDerived, Doing
    <2>2. PICK n : n = AddAttribute(saw, m, call.d)
        OBVIOUS
    <2>3. \E named, more : Finish(c, n, named, more)
        BY <1>2, <1>3, <1>5, <1>13, <2>2 DEF DefineDerived
    <2>4. call.d \in AttributeDefs
        BY <1>4, <2>1, CallTyped
    <2>9. Outcome(m, n)
        BY <1>4, <1>6, <2>2, <2>4, AddAttributeSound
    <2> QED BY <1>5, <2>3, <2>9, CommitKeepsBacked
<1>14. CASE UpdateDerived(c)
    <2>1. call.kind = "rederive"
        BY <1>2, <1>14 DEF UpdateDerived, Doing
    <2>2. PICK n : n = [m EXCEPT !.attr[<<call.of, call.slug>>].sources = call.sources]
        OBVIOUS
    <2>3. \E named, more : Finish(c, n, named, more)
        BY <1>2, <1>3, <1>5, <1>14, <2>2 DEF UpdateDerived
    <2>4. call.of \in Objects /\ call.slug \in Slugs /\ <<call.of, call.slug>> \in Cells
        BY <1>4, <2>1, CallTyped DEF Cells
    <2>5. PICK row : row = [m.attr[<<call.of, call.slug>>] EXCEPT !.sources = call.sources]
        OBVIOUS
    <2>6. m.attr[<<call.of, call.slug>>] \in AttributeRows
        BY <1>6, <2>4, CellTyped
    <2>a. call.sources \in SUBSET Slugs
        BY <1>4, <2>1, CallTyped
    <2>7. /\ row \in AttributeRows /\ row.kind = m.attr[<<call.of, call.slug>>].kind
          /\ row.status = "absent" <=> m.attr[<<call.of, call.slug>>].status = "absent"
        BY <2>5, <2>6, <2>a DEF AttributeRows
    <2>8. n = [m EXCEPT !.attr[<<call.of, call.slug>>] = row]
        BY <1>6, <2>2, <2>4, <2>5 DEF TableStates
    <2>9. Outcome(m, n)
        BY <1>6, <2>4, <2>7, <2>8, CellChanges
    <2> QED BY <1>5, <2>3, <2>9, CommitKeepsBacked
<1>15. CASE EnsureSystemAttributes(c)
    <2>1. call.kind = "system"
        BY <1>2, <1>15 DEF EnsureSystemAttributes, Doing
    <2>2. PICK n : n = AddMissing(m, call.ds)
        OBVIOUS
    <2>3. \E named, more : Finish(c, n, named, more)
        BY <1>2, <1>3, <1>5, <1>15, <2>2 DEF EnsureSystemAttributes
    <2>9. Outcome(m, n)
        BY <1>4, <1>6, <2>1, <2>2, CallTyped, AddMissingSound
    <2> QED BY <1>5, <2>3, <2>9, CommitKeepsBacked
<1>16. CASE DefineRelation(c)
    <2>1. call.kind = "relation"
        BY <1>2, <1>16 DEF DefineRelation, Doing
    <2>2. PICK n : n = AddRelation(m, call.d)
        OBVIOUS
    <2>3. \E named, more : Finish(c, n, named, more)
        BY <1>2, <1>3, <1>5, <1>16, <2>2 DEF DefineRelation
    <2>9. Outcome(m, n)
        BY <1>4, <1>6, <2>1, <2>2, CallTyped, AddRelationSound
    <2> QED BY <1>5, <2>3, <2>9, CommitKeepsBacked
<1>17. CASE UpdateRelation(c)
    <2>1. call.kind = "updateRelation"
        BY <1>2, <1>17 DEF UpdateRelation, Doing
    <2>2. PICK n : n = [m EXCEPT !.rel[call.slug].many = call.many, !.rel[call.slug].bound = call.bound]
        OBVIOUS
    <2>3. \E named, more : Finish(c, n, named, more)
        BY <1>2, <1>3, <1>5, <1>17, <2>2 DEF UpdateRelation
    <2>4. call.slug \in Relations /\ m.rel[call.slug] \in RelationRows
        BY <1>4, <1>6, <2>1, CallTyped, TableTyped
    <2>5. PICK row : row = [m.rel[call.slug] EXCEPT !.many = call.many, !.bound = call.bound]
        OBVIOUS
    <2>a. call.many \in BOOLEAN /\ call.bound \in Nat \cup {None}
        BY <1>4, <2>1, CallTyped
    <2>7. /\ row \in RelationRows /\ row.from = m.rel[call.slug].from /\ row.claim = m.rel[call.slug].claim
          /\ row.status = "absent" <=> m.rel[call.slug].status = "absent"
        BY <2>4, <2>5, <2>a DEF RelationRows
    <2>8. n = [m EXCEPT !.rel[call.slug] = row]
        BY <1>6, <2>2, <2>4, <2>5 DEF TableStates, RelationRows
    <2>9. Outcome(m, n)
        BY <1>6, <2>4, <2>7, <2>8, RelationChanges
    <2> QED BY <1>5, <2>3, <2>9, CommitKeepsBacked
<1>18. CASE ArchiveRelation(c)
    <2>1. call.kind = "archiveRelation"
        BY <1>2, <1>18 DEF ArchiveRelation, Doing
    <2>2. PICK n : n = [m EXCEPT !.rel[call.slug].status = "archived"]
        OBVIOUS
    <2>3. \E named, more : Finish(c, n, named, more)
        BY <1>2, <1>3, <1>5, <1>18, <2>2 DEF ArchiveRelation
    <2>4. call.slug \in Relations /\ m.rel[call.slug] \in RelationRows
        BY <1>4, <1>6, <2>1, CallTyped, TableTyped
    <2>5. PICK row : row = [m.rel[call.slug] EXCEPT !.status = "archived"]
        OBVIOUS
    <2>a. m.rel[call.slug].status # "absent"
        BY <1>4, <1>6, <2>1, <2>4, ArchivesWhatIsThere DEF Related, Follows
    <2>7. /\ row \in RelationRows /\ row.from = m.rel[call.slug].from /\ row.claim = m.rel[call.slug].claim
          /\ row.status = "absent" <=> m.rel[call.slug].status = "absent"
        BY <2>4, <2>5, <2>a DEF RelationRows, Statuses
    <2>8. n = [m EXCEPT !.rel[call.slug] = row]
        BY <1>6, <2>2, <2>4, <2>5 DEF TableStates, RelationRows
    <2>9. Outcome(m, n)
        BY <1>6, <2>4, <2>7, <2>8, RelationChanges
    <2> QED BY <1>5, <2>3, <2>9, CommitKeepsBacked
<1>19. CASE UseTemplate(c)
    <2>1. call.kind = "template"
        BY <1>2, <1>19 DEF UseTemplate, Doing
    <2>2. PICK n : n = ApplyTemplate(m)
        OBVIOUS
    <2>3. \E named, more : Finish(c, n, named, more)
        BY <1>2, <1>3, <1>5, <1>19, <2>2 DEF UseTemplate
    <2>9. Outcome(m, n)
        BY <1>6, <2>2, ApplyTemplateSound
    <2> QED BY <1>5, <2>3, <2>9, CommitKeepsBacked
<1>20. CASE DefineGroup(c)
    <2>1. call.kind = "group"
        BY <1>2, <1>20 DEF DefineGroup, Doing
    <2>2. PICK n : n = AddGroup(saw, m, call.slug, call.of, call.members)
        OBVIOUS
    <2>3. \E named, more : Finish(c, n, named, more)
        BY <1>2, <1>3, <1>5, <1>20, <2>2 DEF DefineGroup
    <2>9. Outcome(m, n)
        BY <1>4, <1>6, <2>1, <2>2, CallTyped, AddGroupSound
    <2> QED BY <1>5, <2>3, <2>9, CommitKeepsBacked
<1>21. CASE ReorderGroups(c)
    <2>1. call.kind = "reorder"
        BY <1>2, <1>21 DEF ReorderGroups, Doing
    <2>2. PICK n : n = Reorder(m, call.of, call.order)
        OBVIOUS
    <2>3. \E named, more : Finish(c, n, named, more)
        BY <1>2, <1>3, <1>5, <1>21, <2>2 DEF ReorderGroups
    <2>9. Outcome(m, n)
        BY <1>4, <1>6, <2>1, <2>2, CallTyped, ReorderSound
    <2> QED BY <1>5, <2>3, <2>9, CommitKeepsBacked
<1>22. CASE ArchiveAttributeGroup(c)
    <2>1. call.kind = "archiveGroup"
        BY <1>2, <1>22 DEF ArchiveAttributeGroup, Doing
    <2>2. PICK n : n = ArchiveGroup(m, call.slug)
        OBVIOUS
    <2>3. \E named, more : Finish(c, n, named, more)
        BY <1>2, <1>3, <1>5, <1>22, <2>2 DEF ArchiveAttributeGroup
    <2>9. Outcome(m, n)
        BY <1>4, <1>6, <2>1, <2>2, CallTyped, ArchiveGroupSound
    <2> QED BY <1>5, <2>3, <2>9, CommitKeepsBacked
<1>23. CASE DefinePipeline(c)
    <2>1. call.kind = "pipeline"
        BY <1>2, <1>23 DEF DefinePipeline, Doing
    <2>2. PICK n : n = PutPipeline(saw, m, call.slug, call.of, call.default)
        OBVIOUS
    <2>3. \E named, more : Finish(c, n, named, more)
        BY <1>2, <1>3, <1>5, <1>23, <2>2 DEF DefinePipeline
    <2>9. Outcome(m, n)
        BY <1>4, <1>6, <2>1, <2>2, CallTyped, PutPipelineSound
    <2> QED BY <1>5, <2>3, <2>9, CommitKeepsBacked
<1>24. CASE UpdatePipeline(c)
    <2>1. call.kind = "updatePipeline"
        BY <1>2, <1>24 DEF UpdatePipeline, Doing
    <2>2. PICK n : n = PutPipeline(saw, m, call.slug, m.pipe[call.slug].of, call.default)
        OBVIOUS
    <2>3. \E named, more : Finish(c, n, named, more)
        BY <1>2, <1>3, <1>5, <1>24, <2>2 DEF UpdatePipeline
    <2>4. call.slug \in Pipelines /\ call.default \in BOOLEAN
        BY <1>4, <2>1, CallTyped
    <2>5. m.pipe[call.slug].of \in Objects \cup {None}
        BY <1>6, <2>4, TableTyped DEF PipelineRows
    <2>9. Outcome(m, n)
        BY <1>6, <2>2, <2>4, <2>5, PutPipelineSound
    <2> QED BY <1>5, <2>3, <2>9, CommitKeepsBacked
<1>25. CASE DefineList(c)
    <2>1. call.kind = "list"
        BY <1>2, <1>25 DEF DefineList, Doing
    <2>2. PICK n : n = [m EXCEPT !.lists = @ + 1]
        OBVIOUS
    <2>3. \E named, more : Finish(c, n, named, more)
        BY <1>2, <1>3, <1>5, <1>25, <2>2 DEF DefineList
    <2>4. n \in TableStates /\ n.attr = m.attr /\ n.rel = m.rel
        BY <1>6, <2>2 DEF TableStates
    <2>9. Outcome(m, n)
        BY <1>6, <2>4, OtherFields
    <2> QED BY <1>5, <2>3, <2>9, CommitKeepsBacked
<1> QED BY <1>7, <1>8, <1>9, <1>10, <1>11, <1>12, <1>13, <1>14, <1>15, <1>16, <1>17, <1>18, <1>19, <1>20, <1>21, <1>22, <1>23, <1>24, <1>25

LEMMA BackStep == ASSUME BackInv, [Next]_vars PROVE BackInv'
<1>1. ASSUME NEW c \in Callers, NEW call \in Calls, Begin(c, call) PROVE BackInv'
    BY <1>1, BeginKeepsBacked
<1>2. ASSUME NEW c \in Callers, Abort(c) \/ NothingToAdd(c) PROVE BackInv'
    BY <1>2, QuietKeepsBacked DEF Abort, NothingToAdd
<1>3. ASSUME NEW l \in Loaders, LoadBegin(l) \/ LoadTypes(l) \/ LoadOthers(l) \/ LoadEnds(l) \/ LoadRetries(l) PROVE BackInv'
    <2>1. UNCHANGED <<tables, tx>>
        BY <1>3 DEF LoadBegin, LoadTypes, LoadOthers, LoadEnds, LoadRetries
    <2> QED BY <2>1 DEF BackInv
<1>4. ASSUME UNCHANGED vars PROVE BackInv'
    BY <1>4 DEF BackInv, vars
<1> QED BY <1>1, <1>2, <1>3, <1>4, DefinitionsKeepBacked DEF Next

\* A reference attribute owns exactly one relation, whatever definitions are made at the same time
\* (ensureBackingRelation): from any sound tables, for any calls and any template.
THEOREM ReferencesBacked == Spec => []BackingExclusive
<1>1. BackInv => BackingExclusive
    <2> SUFFICES ASSUME BackInv, NEW a \in Cells, IsReference(tables, a)
                 PROVE  Cardinality({r \in Relations : Owns(tables, r, a)}) = 1
        BY DEF BackingExclusive, IsReference
    <2>1. PICK r \in Relations : OwnedBy(tables, a) = {r}
        BY DEF BackInv, Sound
    <2>2. Cardinality({r}) = 1
        BY FS_Singleton
    <2> QED BY <2>1, <2>2 DEF OwnedBy
<1>2. Spec => []BackInv
    BY BackInit, BackStep, PTL DEF Spec
<1> QED BY <1>1, <1>2, PTL

-----------------------------------------------------------------------------
(* Schema: the event of a change names the types a reader sees changed.     *)

RowsAt(m, r, o) == m.rel[r].status # "absent" /\ {m.rel[r].from, m.rel[r].to} \cap {o, None} # {}

\* All that a view of o shows is the same in both tables.
SameAt(m, n, o) ==
    /\ n.object[o] = m.object[o] /\ n.primary[o] = m.primary[o]
    /\ \A a \in Cells : a[1] = o => n.attr[a] = m.attr[a]
    /\ \A g \in Groups : o \in {m.group[g].of, n.group[g].of} => n.group[g] = m.group[g]
    /\ \A r \in Relations : RowsAt(m, r, o) \/ RowsAt(n, r, o) => n.rel[r] = m.rel[r]
    /\ \A p \in Pipelines : o \in {m.pipe[p].of, n.pipe[p].of} => n.pipe[p] = m.pipe[p]

LEMMA SameIsSeen ==
    ASSUME NEW m, NEW n, NEW o \in Objects, SameAt(m, n, o)
    PROVE  View(m, o) = View(n, o)
<1>1. {<<a, m.attr[a]>> : a \in {b \in Cells : b[1] = o}} = {<<a, n.attr[a]>> : a \in {b \in Cells : b[1] = o}}
    BY DEF SameAt
<1>2. {<<g, m.group[g]>> : g \in {h \in Groups : m.group[h].of = o}}
      = {<<g, n.group[g]>> : g \in {h \in Groups : n.group[h].of = o}}
    BY DEF SameAt
<1>3. {<<p, m.pipe[p]>> : p \in {q \in Pipelines : m.pipe[q].of = o}}
      = {<<p, n.pipe[p]>> : p \in {q \in Pipelines : n.pipe[q].of = o}}
    BY DEF SameAt
<1>4. \A r \in Relations : (RowsAt(m, r, o) <=> RowsAt(n, r, o)) /\ (RowsAt(m, r, o) => n.rel[r] = m.rel[r])
    BY DEF SameAt, RowsAt
<1>5. {<<r, m.rel[r]>> : r \in {q \in Relations : RowsAt(m, q, o)}}
      = {<<r, n.rel[r]>> : r \in {q \in Relations : RowsAt(n, q, o)}}
    BY <1>4
<1> QED BY <1>1, <1>2, <1>3, <1>5 DEF View, RowsAt, SameAt

\* The groups of an attribute are of its type, and no type loses a group or a pipeline to another.
Grouped(m) ==
    /\ \A g \in Groups : m.group[g].status = "absent" => m.group[g].of = None
    /\ \A a \in Cells : m.attr[a].group # None => m.group[m.attr[a].group].of = a[1]
Keeps(m, n) ==
    /\ \A g \in Groups : m.group[g].of # None => n.group[g].of = m.group[g].of
    /\ \A p \in Pipelines : m.pipe[p].of # None => n.pipe[p].of = m.pipe[p].of

\* Tables that differ in rows of type o at most.
OnlyAt(m, n, o) ==
    /\ n.rel = m.rel
    /\ \A q \in Objects \ {o} : n.object[q] = m.object[q] /\ n.primary[q] = m.primary[q]
    /\ \A a \in Cells : a[1] # o => n.attr[a] = m.attr[a]
    /\ \A g \in Groups : n.group[g] = m.group[g] \/ {m.group[g].of, n.group[g].of} \subseteq {o, None}
    /\ \A p \in Pipelines : n.pipe[p] = m.pipe[p] \/ {m.pipe[p].of, n.pipe[p].of} \subseteq {o, None}

LEMMA OthersSame ==
    ASSUME NEW m, NEW n, NEW o, OnlyAt(m, n, o), NEW q \in Objects \ {o} PROVE SameAt(m, n, q)
BY SchemaAssumption DEF OnlyAt, SameAt

\* What a commit owes its event: the types it names, and that ownership goes on.
Names(kind, m, n, named) ==
    /\ named \in SUBSET (Objects \cup {None})
    /\ Grouped(n) /\ Keeps(m, n)
    /\ \A o \in Objects : "active" \in {m.object[o], n.object[o]} =>
          o \in named \/ SameAt(m, n, o) \/ (kind \in {"object", "template"} /\ m.object[o] = "active")

LEMMA NamesOne ==
    ASSUME NEW kind, NEW m, NEW n, NEW o \in Objects \cup {None}, OnlyAt(m, n, o), Grouped(n), Keeps(m, n)
    PROVE  Names(kind, m, n, {o})
BY OthersSame DEF Names

\* A write that leaves the groups and pipelines alone.
LEMMA OwnersStay ==
    ASSUME NEW m, Grouped(m), NEW n, n.group = m.group, n.pipe = m.pipe,
           \A a \in Cells : n.attr[a].group \in {m.attr[a].group, None}
    PROVE  Grouped(n) /\ Keeps(m, n)
BY DEF Grouped, Keeps

\* One new attribute writes its own row and the relation it comes to own.
LEMMA AddAttributeWrites ==
    ASSUME NEW seen, Sound(seen), NEW m, Sound(m), Follows(seen, m), NEW d \in AttributeDefs,
           NEW n, n = AddAttribute(seen, m, d), n # Rejected
    PROVE  /\ n.object = m.object /\ n.primary = m.primary /\ n.group = m.group /\ n.pipe = m.pipe
           /\ \A a \in Cells : a # <<d.of, d.slug>> => n.attr[a] = m.attr[a]
           /\ n.attr[<<d.of, d.slug>>].group = None
           /\ \A r \in Relations : n.rel[r] = m.rel[r] \/
                 (/\ d.kind = "reference" /\ r = d.rel
                  /\ n.rel[r].status = "active" /\ n.rel[r].from = d.of /\ n.rel[r].claim = d.slug
                  /\ m.rel[r].status # "absent" => m.rel[r].from = n.rel[r].from /\ m.rel[r].to = n.rel[r].to)
<1>1. PICK cell : cell = <<d.of, d.slug>>
    OBVIOUS
<1>2. PICK row : row = [NoAttribute EXCEPT !.status = "active", !.kind = d.kind, !.multi = d.multi,
                                           !.options = d.options, !.sources = d.sources]
    OBVIOUS
<1>3. PICK base : base = [m EXCEPT !.attr[cell] = row]
    OBVIOUS
<1>4. cell \in Cells /\ d.of \in Objects /\ d.slug \in Slugs /\ d.rel \in Relations /\ m \in TableStates
    BY <1>1 DEF AttributeDefs, Cells, Sound
<1>5. row.group = None
    BY <1>2 DEF NoAttribute
<1>6. /\ base.object = m.object /\ base.primary = m.primary /\ base.group = m.group /\ base.pipe = m.pipe /\ base.rel = m.rel
      /\ base.attr = [m.attr EXCEPT ![cell] = row]
      /\ base = [object |-> base.object, primary |-> base.primary, attr |-> base.attr, rel |-> base.rel,
                 group |-> base.group, pipe |-> base.pipe, lists |-> base.lists]
    BY <1>3, <1>4 DEF TableStates
<1>7. base.attr[cell].group = None /\ \A a \in Cells : a # cell => base.attr[a] = m.attr[a]
    BY <1>4, <1>5, <1>6, TableTyped
<1>8. n = EnsureBacking(seen, base, d.of, d.slug, d)
    BY <1>1, <1>2, <1>3 DEF AddAttribute
<1>9. ASSUME NEW r2, n = [base EXCEPT !.rel[d.rel] = r2], d.kind = "reference",
             r2.status = "active", r2.from = d.of, r2.claim = d.slug,
             m.rel[d.rel].status # "absent" => m.rel[d.rel].from = r2.from /\ m.rel[d.rel].to = r2.to
      PROVE  /\ n.object = m.object /\ n.primary = m.primary /\ n.group = m.group /\ n.pipe = m.pipe /\ n.attr = base.attr
             /\ n.rel[d.rel] = r2 /\ \A r \in Relations : r # d.rel => n.rel[r] = m.rel[r]
    <2>1. n.rel = [m.rel EXCEPT ![d.rel] = r2]
        BY <1>6, <1>9
    <2> QED BY <1>4, <1>6, <1>9, <2>1, TableTyped
<1>10. CASE n = base
    BY <1>1, <1>6, <1>7, <1>10
<1>11. CASE n # base
    <2>1. d.kind = "reference" /\ Active(seen, d.to)
        BY <1>8, <1>11 DEF EnsureBacking
    <2>2. CASE Related(seen, d.rel)
        <3>1. /\ <<seen.rel[d.rel].from, seen.rel[d.rel].to, seen.rel[d.rel].many>> = <<d.of, d.to, d.multi>>
              /\ n = ClaimRelation(base, d.rel, d.slug)
            BY <1>8, <1>11, <2>1, <2>2 DEF EnsureBacking
        <3>2. m.rel[d.rel].from = d.of
            BY <1>4, <2>2, <3>1 DEF Related, Follows
        <3>3. Related(m, d.rel) /\ n = [base EXCEPT !.rel[d.rel].claim = d.slug]
            BY <1>6, <3>1 DEF ClaimRelation, Related
        <3>4. PICK r2 : r2 = [m.rel[d.rel] EXCEPT !.claim = d.slug]
            OBVIOUS
        <3>5. m.rel[d.rel] \in RelationRows
            BY <1>4, TableTyped
        <3>6. r2.status = "active" /\ r2.from = d.of /\ r2.claim = d.slug /\ r2.to = m.rel[d.rel].to
            BY <3>2, <3>3, <3>4, <3>5 DEF RelationRows, Related
        <3>7. n = [base EXCEPT !.rel[d.rel] = r2]
            BY <1>4, <1>6, <3>3, <3>4, TableTyped
        <3> QED BY <1>1, <1>7, <1>9, <2>1, <3>2, <3>6, <3>7
    <2>3. CASE ~Related(seen, d.rel)
        <3>1. PICK r2 : r2 = [NoRelation EXCEPT !.status = "active", !.from = d.of, !.to = d.to,
                                                !.many = d.multi, !.claim = d.slug]
            OBVIOUS
        <3>2. n = [base EXCEPT !.rel[d.rel] = r2] /\ m.rel[d.rel].status = "absent"
            BY <1>6, <1>8, <2>1, <2>3, <3>1 DEF EnsureBacking
        <3>3. r2.status = "active" /\ r2.from = d.of /\ r2.claim = d.slug
            BY <3>1 DEF NoRelation
        <3> QED BY <1>1, <1>7, <1>9, <2>1, <3>2, <3>3
    <2> QED BY <2>2, <2>3
<1> QED BY <1>10, <1>11

\* Who sees a relation is named with it, whether it is new or has changed between the same types.
LEMMA SeenIsNamed ==
    ASSUME NEW m, NEW n, n.object = m.object, NEW q \in Relations,
           m.rel[q].status # "absent" => m.rel[q].from = n.rel[q].from /\ m.rel[q].to = n.rel[q].to,
           NEW o \in Objects, "active" \in {m.object[o], n.object[o]}, RowsAt(m, q, o) \/ RowsAt(n, q, o)
    PROVE  o \in RelationObjects(n, q)
<1>1. Active(n, o)
    BY DEF Active
<1>2. {n.rel[q].from, n.rel[q].to} \cap {o, None} # {}
    BY DEF RowsAt
<1> QED BY <1>1, <1>2 DEF RelationObjects

LEMMA RelationNames ==
    ASSUME NEW kind, NEW m, Grouped(m), NEW n, n.object = m.object, n.primary = m.primary, n.attr = m.attr,
           n.group = m.group, n.pipe = m.pipe, NEW q \in Relations, \A r \in Relations \ {q} : n.rel[r] = m.rel[r],
           m.rel[q].status # "absent" => m.rel[q].from = n.rel[q].from /\ m.rel[q].to = n.rel[q].to
    PROVE  Names(kind, m, n, RelationObjects(n, q))
<1>1. RelationObjects(n, q) \in SUBSET (Objects \cup {None})
    BY DEF RelationObjects
<1>2. Grouped(n) /\ Keeps(m, n)
    BY OwnersStay
<1>3. ASSUME NEW o \in Objects, "active" \in {m.object[o], n.object[o]}, ~SameAt(m, n, o) PROVE o \in RelationObjects(n, q)
    <2>1. PICK r \in Relations : (RowsAt(m, r, o) \/ RowsAt(n, r, o)) /\ n.rel[r] # m.rel[r]
        BY <1>3 DEF SameAt
    <2> QED BY <1>3, <2>1, SeenIsNamed
<1> QED BY <1>1, <1>2, <1>3 DEF Names

LEMMA AttributeNames ==
    ASSUME NEW seen, Sound(seen), NEW m, Sound(m), Follows(seen, m), Grouped(m), NEW d \in AttributeDefs,
           NEW n, n = AddAttribute(seen, m, d), n # Rejected, NEW kind
    PROVE  Names(kind, m, n, AttributeObjects(n, d.of, d.slug))
<1>0. /\ n.object = m.object /\ n.primary = m.primary /\ n.group = m.group /\ n.pipe = m.pipe
      /\ \A a \in Cells : a # <<d.of, d.slug>> => n.attr[a] = m.attr[a]
      /\ n.attr[<<d.of, d.slug>>].group = None
      /\ \A r \in Relations : n.rel[r] = m.rel[r] \/
            (/\ d.kind = "reference" /\ r = d.rel
             /\ n.rel[r].status = "active" /\ n.rel[r].from = d.of /\ n.rel[r].claim = d.slug
             /\ m.rel[r].status # "absent" => m.rel[r].from = n.rel[r].from /\ m.rel[r].to = n.rel[r].to)
    BY AddAttributeWrites
<1>1. PICK backing : backing = {r \in Relations : Related(n, r) /\ n.rel[r].from = d.of /\ n.rel[r].claim = d.slug}
    OBVIOUS
<1>2. PICK named : named = AttributeObjects(n, d.of, d.slug)
    OBVIOUS
<1>3. named = IF backing = {} THEN {d.of} ELSE UNION {RelationObjects(n, r) : r \in backing}
    BY <1>1, <1>2 DEF AttributeObjects
<1>4. d.of \in Objects /\ d.rel \in Relations
    BY DEF AttributeDefs
<1>5. named \in SUBSET (Objects \cup {None})
    BY <1>3, <1>4 DEF RelationObjects
<1>6. Grouped(n) /\ Keeps(m, n)
    BY <1>0, OwnersStay
<1>7. ASSUME NEW o \in Objects, "active" \in {m.object[o], n.object[o]}, ~SameAt(m, n, o) PROVE o \in named
    <2>1. CASE o = d.of
        <3>1. \A r \in backing : o \in RelationObjects(n, r)
            BY <1>0, <1>1, <1>7, <2>1 DEF RelationObjects, Active
        <3> QED BY <1>3, <2>1, <3>1
    <2>2. CASE o # d.of
        <3>1. \A a \in Cells : a[1] = o => n.attr[a] = m.attr[a]
            BY <1>0, <2>2
        <3>2. PICK r \in Relations : (RowsAt(m, r, o) \/ RowsAt(n, r, o)) /\ n.rel[r] # m.rel[r]
            BY <1>0, <1>7, <3>1 DEF SameAt
        <3>3. r \in backing /\ o \in RelationObjects(n, r)
            BY <1>0, <1>1, <1>7, <3>2, SeenIsNamed DEF Related
        <3> QED BY <1>3, <3>3
    <2> QED BY <2>1, <2>2
<1> QED BY <1>2, <1>5, <1>6, <1>7 DEF Names

\* One that is no reference is seen at its own type alone.
LEMMA PlainWrites ==
    ASSUME NEW seen, Sound(seen), NEW m, Sound(m), Follows(seen, m), NEW d \in AttributeDefs,
           d.kind # "reference", NEW n, n = AddAttribute(seen, m, d), n # Rejected
    PROVE  /\ n.object = m.object /\ n.primary = m.primary /\ n.group = m.group /\ n.pipe = m.pipe /\ n.rel = m.rel
           /\ \A a \in Cells : a[1] # d.of => n.attr[a] = m.attr[a]
           /\ \A a \in Cells : n.attr[a].group \in {m.attr[a].group, None}
<1>1. /\ n.object = m.object /\ n.primary = m.primary /\ n.group = m.group /\ n.pipe = m.pipe
      /\ \A a \in Cells : a # <<d.of, d.slug>> => n.attr[a] = m.attr[a]
      /\ n.attr[<<d.of, d.slug>>].group = None
      /\ \A r \in Relations : n.rel[r] = m.rel[r]
    BY AddAttributeWrites
<1>2. n \in TableStates /\ m \in TableStates
    BY AddAttributeSound DEF Outcome, Sound
<1>3. n.rel = m.rel
    BY <1>1, <1>2, TableTyped
<1> QED BY <1>1, <1>3

LEMMA PlainAttributeNames ==
    ASSUME NEW seen, Sound(seen), NEW m, Sound(m), Follows(seen, m), Grouped(m), NEW d \in AttributeDefs,
           d.kind # "reference", NEW n, n = AddAttribute(seen, m, d), n # Rejected, NEW kind
    PROVE  Names(kind, m, n, {d.of})
<1>1. /\ n.object = m.object /\ n.primary = m.primary /\ n.group = m.group /\ n.pipe = m.pipe /\ n.rel = m.rel
      /\ \A a \in Cells : a[1] # d.of => n.attr[a] = m.attr[a]
      /\ \A a \in Cells : n.attr[a].group \in {m.attr[a].group, None}
    BY PlainWrites
<1>2. d.of \in Objects
    BY DEF AttributeDefs
<1>3. OnlyAt(m, n, d.of)
    BY <1>1 DEF OnlyAt
<1>4. Grouped(n) /\ Keeps(m, n)
    BY <1>1, OwnersStay
<1> QED BY <1>2, <1>3, <1>4, NamesOne

\* What a batch leaves alone: groups and pipelines, the groups of attributes, and the types outside Q.
Beside(m, n, Q) ==
    /\ n.group = m.group /\ n.pipe = m.pipe
    /\ \A a \in Cells : n.attr[a].group \in {m.attr[a].group, None}
    /\ \A q \in Objects \ Q : n.object[q] = m.object[q]
Passes(m, Q) == {n \in Sequels(m) : n = Rejected \/ Beside(m, n, Q)}

LEMMA PassOn ==
    ASSUME NEW m, NEW Q, NEW x \in Passes(m, Q), NEW y, x = Rejected => y = Rejected,
           x # Rejected => Outcome(x, y), x # Rejected /\ y # Rejected => Beside(x, y, Q)
    PROVE  y \in Passes(m, Q)
<1>1. CASE x = Rejected
    BY <1>1 DEF Passes
<1>2. CASE x # Rejected
    <2>1. Outcome(m, x)
        BY SequelsAre DEF Passes
    <2>2. Outcome(m, y)
        BY <1>2, <2>1, OutcomesJoin
    <2>3. y \in Sequels(m)
        BY <2>2, SequelsAre
    <2>4. y # Rejected => Beside(m, y, Q)
        BY <1>2 DEF Passes, Beside
    <2> QED BY <2>3, <2>4 DEF Passes
<1> QED BY <1>1, <1>2

LEMMA PassSound == ASSUME NEW m, NEW Q, NEW x \in Passes(m, Q), x # Rejected PROVE Sound(x) /\ Follows(x, x)
BY SequelsAre, FollowsIsOrder DEF Passes, Outcome

LEMMA AddOnePass ==
    ASSUME NEW m, NEW Q, NEW x \in Passes(m, Q), NEW d \in AttributeDefs PROVE AddAttribute(x, x, d) \in Passes(m, Q)
<1>1. PICK y : y = AddAttribute(x, x, d)
    OBVIOUS
<1>2. x = Rejected => y = Rejected
    BY <1>1 DEF AddAttribute
<1>3. x # Rejected => Outcome(x, y)
    BY <1>1, PassSound, AddAttributeSound
<1>4. ASSUME x # Rejected, y # Rejected PROVE Beside(x, y, Q)
    <2>1. /\ y.object = x.object /\ y.group = x.group /\ y.pipe = x.pipe
          /\ \A a \in Cells : a # <<d.of, d.slug>> => y.attr[a] = x.attr[a]
          /\ y.attr[<<d.of, d.slug>>].group = None
        BY <1>1, <1>4, PassSound, AddAttributeWrites
    <2> QED BY <2>1 DEF Beside
<1>5. y \in Passes(m, Q)
    BY <1>2, <1>3, <1>4, PassOn
<1> QED BY <1>1, <1>5

LEMMA AddAttributesPass ==
    ASSUME NEW m, NEW Q, NEW base \in Passes(m, Q), NEW ds \in Seq(AttributeDefs), NEW known
    PROVE  AddAttributes(base, ds, known) \in Passes(m, Q)
<1>1. \A x \in Passes(m, Q), d \in AttributeDefs : AddAttribute(x, x, d) \in Passes(m, Q)
    BY AddOnePass
<1> QED BY <1>1, AddAttributesStay

LEMMA AddObjectPass ==
    ASSUME NEW m, NEW Q \in SUBSET Objects, NEW x \in Passes(m, Q), NEW d \in Q PROVE AddObject(x, d) \in Passes(m, Q)
<1>1. PICK y : y = AddObject(x, d)
    OBVIOUS
<1>2. x = Rejected => y = Rejected
    BY <1>1 DEF AddObject
<1>3. x # Rejected => Outcome(x, y)
    BY <1>1, PassSound, AddObjectSound
<1>4. ASSUME x # Rejected, y # Rejected PROVE Beside(x, y, Q)
    <2>1. y = [x EXCEPT !.object[d] = "active"] /\ x \in TableStates
        BY <1>1, <1>4, PassSound DEF AddObject, Sound
    <2>2. /\ y.object = [x.object EXCEPT ![d] = "active"] /\ y.group = x.group /\ y.pipe = x.pipe /\ y.attr = x.attr
        BY <2>1 DEF TableStates
    <2> QED BY <2>1, <2>2, TableTyped DEF Beside
<1>5. y \in Passes(m, Q)
    BY <1>2, <1>3, <1>4, PassOn
<1> QED BY <1>1, <1>5

LEMMA SetPrimaryPass ==
    ASSUME NEW m, NEW Q, NEW x \in Passes(m, Q), NEW o \in Objects, NEW s \in Slugs \cup {None}
    PROVE  SetPrimary(x, o, s) \in Passes(m, Q)
<1>1. PICK y : y = SetPrimary(x, o, s)
    OBVIOUS
<1>2. x = Rejected => y = Rejected
    BY <1>1 DEF SetPrimary
<1>3. x # Rejected => Outcome(x, y)
    BY <1>1, PassSound, SetPrimarySound
<1>4. ASSUME x # Rejected, y # Rejected PROVE Beside(x, y, Q)
    <2>1. y = [x EXCEPT !.primary[o] = s] /\ x \in TableStates
        BY <1>1, <1>4, PassSound DEF SetPrimary, Sound
    <2>2. y.object = x.object /\ y.group = x.group /\ y.pipe = x.pipe /\ y.attr = x.attr
        BY <2>1 DEF TableStates
    <2> QED BY <2>2 DEF Beside
<1>5. y \in Passes(m, Q)
    BY <1>2, <1>3, <1>4, PassOn
<1> QED BY <1>1, <1>5

LEMMA AddRelationPass ==
    ASSUME NEW m, NEW Q, NEW x \in Passes(m, Q), NEW d \in RelationDefs PROVE AddRelation(x, d) \in Passes(m, Q)
<1>1. PICK y : y = AddRelation(x, d)
    OBVIOUS
<1>2. x = Rejected => y = Rejected
    BY <1>1 DEF AddRelation
<1>3. x # Rejected => Outcome(x, y)
    BY <1>1, PassSound, AddRelationSound
<1>4. ASSUME x # Rejected, y # Rejected PROVE Beside(x, y, Q)
    <2>1. PICK row : y = [x EXCEPT !.rel[d.slug] = row]
        BY <1>1, <1>4 DEF AddRelation
    <2>2. x \in TableStates
        BY <1>4, PassSound DEF Sound
    <2>3. y.object = x.object /\ y.group = x.group /\ y.pipe = x.pipe /\ y.attr = x.attr
        BY <2>1, <2>2 DEF TableStates
    <2> QED BY <2>3 DEF Beside
<1>5. y \in Passes(m, Q)
    BY <1>2, <1>3, <1>4, PassOn
<1> QED BY <1>1, <1>5

LEMMA PassStarts == ASSUME NEW m, Sound(m), NEW Q PROVE m \in Passes(m, Q)
<1>1. m \in Sequels(m)
    BY FollowsIsOrder, SequelsAre DEF Outcome
<1> QED BY <1>1 DEF Passes, Beside

\* The events of the batches.
LEMMA WholeNames ==
    ASSUME NEW m, Sound(m), Grouped(m), NEW o \in Objects, NEW ds \in Seq(AttributeDefs), NEW primary \in Slugs \cup {None},
           NEW n, n = AddWhole(m, o, ds, primary), n # Rejected
    PROVE  Names("object", m, n, {o})
<1>1. AddObject(m, o) \in Passes(m, {o})
    BY PassStarts, AddObjectPass
<1>2. AddAttributes(AddObject(m, o), ds, {}) \in Passes(m, {o})
    BY <1>1, AddAttributesPass
<1>3. n \in Passes(m, {o})
    BY <1>2, SetPrimaryPass DEF AddWhole
<1>4. Beside(m, n, {o})
    BY <1>3 DEF Passes
<1>5. Grouped(n) /\ Keeps(m, n)
    BY <1>4, OwnersStay DEF Beside
<1> QED BY <1>4, <1>5 DEF Names, Beside

LEMMA TemplateNames ==
    ASSUME NEW m, Sound(m), Grouped(m), NEW n, n = ApplyTemplate(m), n # Rejected
    PROVE  Names("template", m, n, TemplateAffects(m))
<1>0. Template.objects \in Seq(Objects) /\ Template.relations \in Seq(RelationDefs) /\ Template.attributes \in Seq(AttributeDefs)
    BY SchemaAssumption
<1>1. PICK Q : Q = ToSet(Template.objects)
    OBVIOUS
<1>2. Q \in SUBSET Objects /\ Template.objects \in Seq(Q)
    BY <1>0, <1>1 DEF ToSet
<1>3. PICK objects : objects = AddObjects(m, Template.objects)
    OBVIOUS
<1>4. \A x \in Passes(m, Q), d \in Q : AddObject(x, d) \in Passes(m, Q)
    BY <1>2, AddObjectPass
<1>5. objects \in Passes(m, Q)
    BY <1>2, <1>3, <1>4, PassStarts, AddObjectsStay
<1>6. PICK relations : relations = AddRelations(objects, Template.relations, {r \in Relations : Related(m, r)})
    OBVIOUS
<1>7. \A x \in Passes(m, Q), d \in RelationDefs : AddRelation(x, d) \in Passes(m, Q)
    BY AddRelationPass
<1>8. relations \in Passes(m, Q)
    BY <1>0, <1>5, <1>6, <1>7, AddRelationsStay
<1>9. PICK attributes : attributes = AddAttributes(relations, Template.attributes, {a \in Cells : ActiveAt(m, a)})
    OBVIOUS
<1>10. attributes \in Passes(m, Q)
    BY <1>0, <1>8, <1>9, AddAttributesPass
<1>11. \A x \in Passes(m, Q), o \in Objects : SetPrimary(x, o, Template.primary[o]) \in Passes(m, Q)
    BY SchemaAssumption, SetPrimaryPass
<1>12. SetPrimaries(attributes, Template.objects, {o \in Objects : Active(m, o)}) \in Passes(m, Q)
    BY <1>0, <1>10, <1>11, SetPrimariesStay
<1>13. Beside(m, n, Q)
    BY <1>3, <1>6, <1>9, <1>12 DEF ApplyTemplate, Passes
<1>14. Grouped(n) /\ Keeps(m, n)
    BY <1>13, OwnersStay DEF Beside
<1>15. TemplateAffects(m) \in SUBSET (Objects \cup {None})
    <2>1. ToSet(Template.attributes) \subseteq AttributeDefs
        BY <1>0 DEF ToSet
    <2>2. \A d \in AttributeDefs : d.of \in Objects
        BY DEF AttributeDefs
    <2>3. \A x, r : RelationObjects(x, r) \subseteq Objects
        BY DEF RelationObjects
    <2>4. UNION {RelationObjects(ApplyTemplate(m), d.slug) :
                    d \in {e \in ToSet(Template.relations) : ~Related(m, e.slug)}} \subseteq Objects
        BY <2>3
    <2>5. {d.of : d \in {e \in ToSet(Template.attributes) : ~ActiveAt(m, <<e.of, e.slug>>)}} \subseteq Objects
        BY <2>1, <2>2
    <2>6. {o \in ToSet(Template.objects) : ~Active(m, o)} \subseteq Objects
        BY <1>1, <1>2
    <2> QED BY <2>4, <2>5, <2>6 DEF TemplateAffects
<1>16. \A o \in Q : m.object[o] # "active" => o \in TemplateAffects(m)
    BY <1>1 DEF TemplateAffects, Active
<1> QED BY <1>13, <1>14, <1>15, <1>16 DEF Names, Beside

LEMMA SystemNames ==
    ASSUME NEW m, Sound(m), Grouped(m), NEW o \in Objects, NEW ds \in Seq(AttributeDefs),
           \A i \in DOMAIN ds : ds[i].of = o /\ ds[i].kind # "reference", NEW n, n = AddMissing(m, ds), n # Rejected
    PROVE  Names("system", m, n, {o})
<1>1. PICK V : V = {x \in Sequels(m) : x = Rejected \/ (Beside(m, x, {}) /\ OnlyAt(m, x, o))}
    OBVIOUS
<1>2. PICK D : D = {d \in AttributeDefs : d.of = o /\ d.kind # "reference"}
    OBVIOUS
<1>3. ds \in Seq(D)
    <2>1. \A i \in 1 .. Len(ds) : ds[i] \in D
        BY <1>2
    <2>2. ds = [i \in 1 .. Len(ds) |-> ds[i]] /\ Len(ds) \in Nat
        OBVIOUS
    <2> QED BY <2>1, <2>2
<1>4. m \in V
    <2>1. m \in Passes(m, {})
        BY PassStarts
    <2>2. OnlyAt(m, m, o)
        BY DEF OnlyAt
    <2>3. m # Rejected
        BY TableTyped DEF Sound
    <2> QED BY <1>1, <2>1, <2>2, <2>3 DEF Passes
<1>5. ASSUME NEW x \in V, NEW d \in D PROVE AddAttribute(x, x, d) \in V
    <2>1. PICK y : y = AddAttribute(x, x, d)
        OBVIOUS
    <2>2. d \in AttributeDefs /\ d.of = o /\ d.kind # "reference" /\ x \in Passes(m, {})
        BY <1>1, <1>2 DEF Passes
    <2>4. y \in Passes(m, {})
        BY <2>1, <2>2, AddOnePass
    <2>5. ASSUME y # Rejected PROVE OnlyAt(m, y, o)
        <3>1. x # Rejected
            BY <2>1, <2>5 DEF AddAttribute
        <3>2. OnlyAt(m, x, o) /\ Beside(m, x, {})
            BY <1>1, <3>1
        <3>3. Sound(x) /\ Follows(x, x)
            BY <2>2, <3>1, PassSound
        <3>4. d \in AttributeDefs /\ d.kind # "reference" /\ y = AddAttribute(x, x, d) /\ y # Rejected
            BY <2>1, <2>2, <2>5
        <3>5. /\ y.object = x.object /\ y.primary = x.primary /\ y.group = x.group /\ y.pipe = x.pipe /\ y.rel = x.rel
              /\ \A a \in Cells : a[1] # d.of => y.attr[a] = x.attr[a]
            BY <3>3, <3>4, PlainWrites
        <3> QED BY <2>2, <3>2, <3>5 DEF OnlyAt, Beside
    <2> QED BY <1>1, <2>1, <2>4, <2>5 DEF Passes
<1>6. PICK known : n = AddAttributes(m, ds, known)
    BY DEF AddMissing
<1>7. n \in V
    BY <1>3, <1>4, <1>5, <1>6, AddAttributesStay
<1>8. Beside(m, n, {}) /\ OnlyAt(m, n, o)
    BY <1>1, <1>7
<1>9. Grouped(n) /\ Keeps(m, n)
    BY <1>8, OwnersStay DEF Beside
<1> QED BY <1>8, <1>9, NamesOne

\* The events of a row, of a group and of a pipeline.
LEMMA CellNames ==
    ASSUME NEW m, Sound(m), Grouped(m), NEW cell \in Cells, NEW row, row.group = m.attr[cell].group,
           NEW n, n = [m EXCEPT !.attr[cell] = row], NEW kind
    PROVE  Names(kind, m, n, {cell[1]})
<1>1. m \in TableStates /\ m.attr \in [Cells -> AttributeRows]
    BY TableTyped DEF Sound
<1>2. /\ n.object = m.object /\ n.primary = m.primary /\ n.group = m.group /\ n.pipe = m.pipe /\ n.rel = m.rel
      /\ n.attr = [m.attr EXCEPT ![cell] = row]
    BY <1>1 DEF TableStates
<1>3. n.attr[cell] = row /\ \A a \in Cells \ {cell} : n.attr[a] = m.attr[a]
    BY <1>1, <1>2
<1>4. OnlyAt(m, n, cell[1])
    BY <1>2, <1>3 DEF OnlyAt
<1>5. Grouped(n) /\ Keeps(m, n)
    BY <1>2, <1>3, OwnersStay
<1>6. cell[1] \in Objects
    BY DEF Cells
<1> QED BY <1>4, <1>5, <1>6, NamesOne

LEMMA TypeNames ==
    ASSUME NEW m, Sound(m), Grouped(m), NEW o \in Objects, NEW v,
           NEW n, n = [m EXCEPT !.object[o] = v] \/ n = [m EXCEPT !.primary[o] = v], NEW kind
    PROVE  Names(kind, m, n, {o})
<1>1. m \in TableStates
    BY DEF Sound
<1>2. /\ n.attr = m.attr /\ n.group = m.group /\ n.pipe = m.pipe /\ n.rel = m.rel
      /\ n.object = m.object \/ n.object = [m.object EXCEPT ![o] = v]
      /\ n.primary = m.primary \/ n.primary = [m.primary EXCEPT ![o] = v]
    BY <1>1 DEF TableStates
<1>3. \A q \in Objects \ {o} : n.object[q] = m.object[q] /\ n.primary[q] = m.primary[q]
    BY <1>1, <1>2, TableTyped
<1>4. OnlyAt(m, n, o)
    BY <1>2, <1>3 DEF OnlyAt
<1>5. Grouped(n) /\ Keeps(m, n)
    BY <1>2, OwnersStay
<1> QED BY <1>4, <1>5, NamesOne

LEMMA GroupNames ==
    ASSUME NEW seen, NEW m, Sound(m), Grouped(m), NEW g \in Groups, NEW o \in Objects, NEW S,
           NEW n, n = AddGroup(seen, m, g, o, S), n # Rejected
    PROVE  Names("group", m, n, {o})
<1>0. m \in TableStates /\ m.attr \in [Cells -> AttributeRows] /\ m.group \in [Groups -> GroupRows]
    BY TableTyped DEF Sound
<1>1. m.group[g].status = "absent"
    BY DEF AddGroup
<1>2. PICK row : row = [status |-> "active", of |-> o, at |-> NextPosition(seen, o)]
    OBVIOUS
<1>3. PICK f : f = [a \in Cells |-> IF a[1] = o /\ a[2] \in S THEN [m.attr[a] EXCEPT !.group = g] ELSE m.attr[a]]
    OBVIOUS
<1>4. n = [m EXCEPT !.group[g] = row, !.attr = f]
    BY <1>2, <1>3 DEF AddGroup
<1>5. /\ n.object = m.object /\ n.primary = m.primary /\ n.pipe = m.pipe /\ n.rel = m.rel /\ n.attr = f
      /\ n.group = [m.group EXCEPT ![g] = row]
    BY <1>0, <1>4 DEF TableStates
<1>6. n.group[g] = row /\ row.of = o /\ row.status = "active" /\ \A h \in Groups \ {g} : n.group[h] = m.group[h]
    BY <1>0, <1>2, <1>5
<1>7. m.group[g].of = None
    BY <1>1 DEF Grouped
<1>8. \A a \in Cells : n.attr[a] = m.attr[a] \/ (a[1] = o /\ n.attr[a].group = g)
    <2>1. \A a \in Cells : [m.attr[a] EXCEPT !.group = g].group = g
        BY <1>0 DEF AttributeRows
    <2> QED BY <1>3, <1>5, <2>1
<1>9. OnlyAt(m, n, o)
    BY <1>5, <1>6, <1>7, <1>8 DEF OnlyAt
<1>10. Grouped(n)
    <2>1. ASSUME NEW a \in Cells, n.attr[a].group # None PROVE n.group[n.attr[a].group].of = a[1]
        <3>1. CASE a[1] = o /\ n.attr[a].group = g
            BY <1>6, <3>1
        <3>2. CASE n.attr[a] = m.attr[a]
            <4>1. PICK h : h = m.attr[a].group
                OBVIOUS
            <4>2. h \in Groups /\ m.group[h].of = a[1]
                BY <1>0, <2>1, <3>2, <4>1 DEF Grouped, AttributeRows
            <4>3. a[1] # None
                BY SchemaAssumption DEF Cells
            <4>4. h # g
                BY <1>7, <4>2, <4>3
            <4> QED BY <1>6, <3>2, <4>1, <4>2, <4>4
        <3> QED BY <1>8, <3>1, <3>2
    <2> QED BY <1>6, <2>1 DEF Grouped
<1>11. Keeps(m, n)
    BY <1>5, <1>6, <1>7 DEF Keeps
<1> QED BY <1>9, <1>10, <1>11, NamesOne

LEMMA ReorderNames ==
    ASSUME NEW m, Sound(m), Grouped(m), NEW o \in Objects, NEW order, \A g \in ToSet(order) : m.group[g].of = o,
           NEW n, n = Reorder(m, o, order), n # Rejected
    PROVE  Names("reorder", m, n, {o})
<1>0. m \in TableStates /\ m.group \in [Groups -> GroupRows]
    BY TableTyped DEF Sound
<1> DEFINE at(g) == CHOOSE i \in DOMAIN order : order[i] = g
<1>1. PICK h : h = [g \in Groups |-> IF g \in ToSet(order) THEN [m.group[g] EXCEPT !.at = at(g) - 1] ELSE m.group[g]]
    OBVIOUS
<1>2. n = [m EXCEPT !.group = h]
    BY <1>1 DEF Reorder
<1> HIDE DEF at
<1>3. /\ n.object = m.object /\ n.primary = m.primary /\ n.pipe = m.pipe /\ n.rel = m.rel /\ n.attr = m.attr /\ n.group = h
    BY <1>0, <1>2 DEF TableStates
<1>4. \A g \in Groups : /\ h[g].of = m.group[g].of /\ h[g].status = m.group[g].status
                        /\ g \in ToSet(order) \/ h[g] = m.group[g]
    <2>1. ASSUME NEW g \in Groups
          PROVE  h[g].of = m.group[g].of /\ h[g].status = m.group[g].status /\ (g \in ToSet(order) \/ h[g] = m.group[g])
        <3>1. m.group[g] \in GroupRows
            BY <1>0
        <3> QED BY <1>1, <3>1 DEF GroupRows
    <2> QED BY <2>1
<1>5. OnlyAt(m, n, o)
    BY <1>3, <1>4 DEF OnlyAt
<1>6. Grouped(n) /\ Keeps(m, n)
    <2>1. \A a \in Cells : m.attr[a].group # None => m.attr[a].group \in Groups
        BY TableTyped DEF Sound, AttributeRows
    <2> QED BY <1>3, <1>4, <2>1 DEF Grouped, Keeps
<1> QED BY <1>5, <1>6, NamesOne

LEMMA ArchiveGroupNames ==
    ASSUME NEW m, Sound(m), Grouped(m), NEW g \in Groups, NEW n, n = ArchiveGroup(m, g)
    PROVE  Names("archiveGroup", m, n, {m.group[g].of})
<1>0. m \in TableStates /\ m.attr \in [Cells -> AttributeRows] /\ m.group \in [Groups -> GroupRows]
    BY TableTyped DEF Sound
<1>1. PICK f : f = [a \in Cells |-> IF m.attr[a].group = g THEN [m.attr[a] EXCEPT !.group = None] ELSE m.attr[a]]
    OBVIOUS
<1>2. PICK h : h = [m.group EXCEPT ![g].status = "archived"]
    OBVIOUS
<1>3. n = [m EXCEPT !.attr = f, !.group = h]
    BY <1>0, <1>1, <1>2 DEF TableStates, ArchiveGroup
<1>4. /\ n.object = m.object /\ n.primary = m.primary /\ n.pipe = m.pipe /\ n.rel = m.rel /\ n.attr = f /\ n.group = h
    BY <1>0, <1>3 DEF TableStates
<1>5. /\ \A k \in Groups : h[k].of = m.group[k].of /\ (h[k].status = "absent" => m.group[k].status = "absent")
      /\ \A k \in Groups \ {g} : h[k] = m.group[k]
    BY <1>0, <1>2 DEF GroupRows
<1>6. \A a \in Cells : f[a] = m.attr[a] \/ (f[a].group = None /\ m.attr[a].group = g)
    <2>1. \A a \in Cells : [m.attr[a] EXCEPT !.group = None].group = None
        BY <1>0 DEF AttributeRows
    <2> QED BY <1>1, <2>1
<1>7. m.group[g].of \in Objects \cup {None}
    BY <1>0 DEF GroupRows
<1>8. \A a \in Cells : m.attr[a].group = g => a[1] = m.group[g].of
    <2>1. g # None
        BY SchemaAssumption
    <2> QED BY <2>1 DEF Grouped
<1>9. OnlyAt(m, n, m.group[g].of)
    BY <1>4, <1>5, <1>6, <1>8 DEF OnlyAt
<1>10. Grouped(n) /\ Keeps(m, n)
    <2>1. \A a \in Cells : m.attr[a].group # None => m.attr[a].group \in Groups
        BY <1>0 DEF AttributeRows
    <2> QED BY <1>4, <1>5, <1>6, <2>1 DEF Grouped, Keeps
<1> QED BY <1>7, <1>9, <1>10, NamesOne

LEMMA PipelineNames ==
    ASSUME NEW seen, NEW m, Sound(m), Grouped(m), Keeps(seen, m), NEW p \in Pipelines, NEW o \in Objects,
           m.pipe[p].of \in {o, None}, NEW default, NEW n, n = PutPipeline(seen, m, p, o, default), n # Rejected, NEW kind
    PROVE  Names(kind, m, n, {o})
<1>0. m \in TableStates /\ m.pipe \in [Pipelines -> PipelineRows] /\ o # None
    BY SchemaAssumption, TableTyped DEF Sound
<1>1. PICK h : h = [q \in Pipelines |-> IF seen.pipe[q].of = o /\ seen.pipe[q].default
                                         THEN [m.pipe[q] EXCEPT !.default = FALSE] ELSE m.pipe[q]]
    OBVIOUS
<1>2. PICK cleared : cleared = IF default THEN ClearDefault(seen, m, o) ELSE m
    OBVIOUS
<1>3. n = [cleared EXCEPT !.pipe[p] = [of |-> o, default |-> default]]
    BY <1>2 DEF PutPipeline
<1>4. cleared = [m EXCEPT !.pipe = h] \/ cleared = m
    BY <1>1, <1>2 DEF ClearDefault
<1>5. \A q \in Pipelines : h[q].of = m.pipe[q].of /\ (h[q] = m.pipe[q] \/ m.pipe[q].of = o)
    <2>1. ASSUME NEW q \in Pipelines PROVE h[q].of = m.pipe[q].of /\ (h[q] = m.pipe[q] \/ m.pipe[q].of = o)
        <3>1. m.pipe[q] \in PipelineRows
            BY <1>0
        <3>2. seen.pipe[q].of = o => m.pipe[q].of = o
            BY <1>0 DEF Keeps
        <3> QED BY <1>1, <3>1, <3>2 DEF PipelineRows
    <2> QED BY <2>1
<1>6. PICK k : k = cleared.pipe
    OBVIOUS
<1>7. k = h \/ k = m.pipe
    BY <1>0, <1>4, <1>6 DEF TableStates
<1>8. /\ n.object = m.object /\ n.primary = m.primary /\ n.group = m.group /\ n.rel = m.rel /\ n.attr = m.attr
      /\ n.pipe = [k EXCEPT ![p] = [of |-> o, default |-> default]]
    <2>1. cleared \in [object : {m.object}, primary : {m.primary}, attr : {m.attr}, rel : {m.rel}, group : {m.group},
                       pipe : {k}, lists : {m.lists}]
        BY <1>0, <1>4, <1>6 DEF TableStates
    <2> QED BY <1>3, <2>1
<1>9. DOMAIN k = Pipelines
    BY <1>0, <1>1, <1>7
<1>10. n.pipe[p] = [of |-> o, default |-> default] /\ \A q \in Pipelines \ {p} : n.pipe[q] = k[q]
    BY <1>8, <1>9
<1>11. \A q \in Pipelines : k[q].of = m.pipe[q].of /\ (k[q] = m.pipe[q] \/ m.pipe[q].of = o)
    BY <1>5, <1>7
<1>12. OnlyAt(m, n, o)
    BY <1>8, <1>10, <1>11 DEF OnlyAt
<1>13. Keeps(m, n)
    BY <1>8, <1>10, <1>11 DEF Keeps
<1>14. Grouped(n)
    BY <1>8 DEF Grouped
<1> QED BY <1>12, <1>13, <1>14, NamesOne

\* What a definition transaction knows of the owners, and how many events there are.
NamedInv ==
    /\ BackInv /\ Grouped(tables)
    /\ \A c \in Callers : tx[c] # None => Keeps(tx[c].saw, tables)
    /\ version \in Nat /\ changes \in Seq(SUBSET (Objects \cup {None})) /\ Len(changes) = version

LEMMA KeepsIsOrder == ASSUME NEW m PROVE Keeps(m, m) /\ \A n, k : Keeps(m, n) /\ Keeps(n, k) => Keeps(m, k)
BY DEF Keeps

\* What a call's first reads have asked for and its commit relies on.
LEMMA AskedAtFirst ==
    ASSUME NEW m, NEW call, MayBegin(m, call)
    PROVE  /\ call.kind = "reorder" =>
                ToSet(call.order) = {g \in Groups : m.group[g].of = call.of /\ m.group[g].status = "active"}
           /\ call.kind = "updatePipeline" => m.pipe[call.slug].of # None
BY DEF MayBegin

\* Every commit names the types at which its reader sees a change.
LEMMA DefinitionsName ==
    ASSUME NamedInv, NEW c \in Callers,
           \/ DefineObject(c) \/ ArchiveObject(c) \/ UpdateObject(c)
           \/ DefineAttribute(c) \/ UpdateAttribute(c) \/ ArchiveAttribute(c)
           \/ DefineDerived(c) \/ UpdateDerived(c) \/ EnsureSystemAttributes(c)
           \/ DefineRelation(c) \/ UpdateRelation(c) \/ ArchiveRelation(c) \/ UseTemplate(c)
           \/ DefineGroup(c) \/ ReorderGroups(c) \/ ArchiveAttributeGroup(c)
           \/ DefinePipeline(c) \/ UpdatePipeline(c) \/ DefineList(c)
    PROVE  /\ tx[c] # None
           /\ \E n, named, more : n # Rejected /\ Finish(c, n, named, more) /\ Names(tx[c].call.kind, tables, n, named)
<1>1. tx[c] # None
    BY DEF DefineObject, ArchiveObject, UpdateObject, DefineAttribute, UpdateAttribute, ArchiveAttribute, DefineDerived,
           UpdateDerived, EnsureSystemAttributes, DefineRelation, UpdateRelation, ArchiveRelation, UseTemplate, DefineGroup,
           ReorderGroups, ArchiveAttributeGroup, DefinePipeline, UpdatePipeline, DefineList, Doing
<1>2. PICK call : call = tx[c].call
    OBVIOUS
<1>3. PICK saw : saw = tx[c].saw
    OBVIOUS
<1>4. call \in Calls /\ MayBegin(saw, call) /\ Sound(saw) /\ Follows(saw, tables) /\ Keeps(saw, tables)
    BY <1>1, <1>2, <1>3 DEF NamedInv, BackInv, Under
<1>5. PICK m : m = tables
    OBVIOUS
<1>6. Sound(m) /\ Follows(saw, m) /\ Keeps(saw, m) /\ m \in TableStates /\ Grouped(m) /\ call \in DefinitionCalls
    BY <1>4, <1>5, SchemaAssumption DEF NamedInv, BackInv, Sound
<1>7. SUFFICES \E n, named, more : n # Rejected /\ Finish(c, n, named, more) /\ Names(call.kind, m, n, named)
    BY <1>1, <1>2, <1>5
<1>8. CASE DefineObject(c)
    <2>1. call.kind = "object"
        BY <1>2, <1>8 DEF DefineObject, Doing
    <2>2. PICK n, named : n = AddWhole(m, call.of, call.ds, call.primary) /\ named = {call.of}
        OBVIOUS
    <2>3. n # Rejected /\ \E more : Finish(c, n, named, more)
        BY <1>2, <1>3, <1>5, <1>8, <2>2 DEF DefineObject, Finish
    <2>9. Names(call.kind, m, n, named)
        BY <1>6, <2>1, <2>2, <2>3, CallTyped, WholeNames
    <2> QED BY <2>3, <2>9
<1>9. CASE ArchiveObject(c)
    <2>1. call.kind = "archiveObject"
        BY <1>2, <1>9 DEF ArchiveObject, Doing
    <2>2. PICK n, named : n = [m EXCEPT !.object[call.of] = "archived"] /\ named = {call.of}
        OBVIOUS
    <2>3. n # Rejected /\ \E more : Finish(c, n, named, more)
        BY <1>2, <1>3, <1>5, <1>9, <2>2 DEF ArchiveObject, Finish
    <2>9. Names(call.kind, m, n, named)
        BY <1>6, <2>1, <2>2, CallTyped, TypeNames
    <2> QED BY <2>3, <2>9
<1>10. CASE UpdateObject(c)
    <2>1. call.kind = "primary"
        BY <1>2, <1>10 DEF UpdateObject, Doing
    <2>2. PICK n, named : n = SetPrimary(m, call.of, call.slug) /\ named = {call.of}
        OBVIOUS
    <2>3. n # Rejected /\ \E more : Finish(c, n, named, more)
        BY <1>2, <1>3, <1>5, <1>10, <2>2 DEF UpdateObject, Finish
    <2>4. n = [m EXCEPT !.primary[call.of] = call.slug]
        BY <2>2, <2>3 DEF SetPrimary
    <2>9. Names(call.kind, m, n, named)
        BY <1>6, <2>1, <2>2, <2>4, CallTyped, TypeNames
    <2> QED BY <2>3, <2>9
<1>11. CASE DefineAttribute(c)
    <2>1. call.kind = "attribute"
        BY <1>2, <1>11 DEF DefineAttribute, Doing
    <2>2. PICK n, named : n = AddAttribute(saw, m, call.d) /\ named = AttributeObjects(n, call.d.of, call.d.slug)
        OBVIOUS
    <2>3. n # Rejected /\ \E more : Finish(c, n, named, more)
        BY <1>2, <1>3, <1>5, <1>11, <2>2 DEF DefineAttribute, Finish
    <2>4. call.d \in AttributeDefs
        BY <1>6, <2>1, CallTyped
    <2>9. Names(call.kind, m, n, named)
        BY <1>4, <1>6, <2>2, <2>3, <2>4, AttributeNames
    <2> QED BY <2>3, <2>9
<1>12. CASE UpdateAttribute(c)
    <2>1. call.kind = "evolve"
        BY <1>2, <1>12 DEF UpdateAttribute, Doing
    <2>2. PICK n, named : n = Evolve(saw, m, <<call.of, call.slug>>, call.options, call.recompute) /\ named = {call.of}
        OBVIOUS
    <2>3. n # Rejected /\ \E more : Finish(c, n, named, more)
        BY <1>2, <1>3, <1>5, <1>12, <2>2 DEF UpdateAttribute, Finish
    <2>4. call.of \in Objects /\ call.slug \in Slugs /\ <<call.of, call.slug>> \in Cells
        BY <1>6, <2>1, CallTyped DEF Cells
    <2>5. PICK cell \in Cells : cell = <<call.of, call.slug>> /\ cell[1] = call.of
        BY <2>4
    <2>6. PICK row \in AttributeRows : row.group = m.attr[cell].group /\ n = Reworked(m, cell, row)
        BY <1>4, <1>6, <2>1, <2>2, <2>3, <2>5, CallTyped, EvolveIs
    <2>8. row.group = m.attr[cell].group /\ n = [m EXCEPT !.attr[cell] = row]
        BY <2>6 DEF Reworked
    <2>9. Names(call.kind, m, n, named)
        BY <1>6, <2>2, <2>5, <2>8, CellNames
    <2> QED BY <2>3, <2>9
<1>13. CASE ArchiveAttribute(c)
    <2>1. call.kind = "archiveAttribute"
        BY <1>2, <1>13 DEF ArchiveAttribute, Doing
    <2>2. PICK n, named : n = [m EXCEPT !.attr[<<call.of, call.slug>>].status = "archived"] /\ named = {call.of}
        OBVIOUS
    <2>3. n # Rejected /\ \E more : Finish(c, n, named, more)
        BY <1>2, <1>3, <1>5, <1>13, <2>2 DEF ArchiveAttribute, Finish
    <2>4. call.of \in Objects /\ call.slug \in Slugs /\ <<call.of, call.slug>> \in Cells
        BY <1>6, <2>1, CallTyped DEF Cells
    <2>5. PICK cell \in Cells : cell = <<call.of, call.slug>> /\ cell[1] = call.of
        BY <2>4
    <2>7. PICK row : row = [m.attr[cell] EXCEPT !.status = "archived"]
        OBVIOUS
    <2>8. row.group = m.attr[cell].group /\ n = [m EXCEPT !.attr[cell] = row]
        BY <1>6, <2>2, <2>5, <2>7, CellTyped DEF TableStates, AttributeRows
    <2>9. Names(call.kind, m, n, named)
        BY <1>6, <2>2, <2>5, <2>8, CellNames
    <2> QED BY <2>3, <2>9
<1>14. CASE DefineDerived(c)
    <2>1. call.kind = "derived"
        BY <1>2, <1>14 DEF DefineDerived, Doing
    <2>2. PICK n, named : n = AddAttribute(saw, m, call.d) /\ named = {call.d.of}
        OBVIOUS
    <2>3. n # Rejected /\ \E more : Finish(c, n, named, more)
        BY <1>2, <1>3, <1>5, <1>14, <2>2 DEF DefineDerived, Finish
    <2>4. call.d \in AttributeDefs /\ call.d.kind # "reference"
        BY <1>4, <1>6, <2>1, SchemaAssumption, CallTyped
    <2>9. Names(call.kind, m, n, named)
        BY <1>4, <1>6, <2>2, <2>3, <2>4, PlainAttributeNames
    <2> QED BY <2>3, <2>9
<1>15. CASE UpdateDerived(c)
    <2>1. call.kind = "rederive"
        BY <1>2, <1>15 DEF UpdateDerived, Doing
    <2>2. PICK n, named : n = [m EXCEPT !.attr[<<call.of, call.slug>>].sources = call.sources] /\ named = {call.of}
        OBVIOUS
    <2>3. n # Rejected /\ \E more : Finish(c, n, named, more)
        BY <1>2, <1>3, <1>5, <1>15, <2>2 DEF UpdateDerived, Finish
    <2>4. call.of \in Objects /\ call.slug \in Slugs /\ <<call.of, call.slug>> \in Cells
        BY <1>6, <2>1, CallTyped DEF Cells
    <2>5. PICK cell \in Cells : cell = <<call.of, call.slug>> /\ cell[1] = call.of
        BY <2>4
    <2>7. PICK row : row = [m.attr[cell] EXCEPT !.sources = call.sources]
        OBVIOUS
    <2>8. row.group = m.attr[cell].group /\ n = [m EXCEPT !.attr[cell] = row]
        BY <1>6, <2>2, <2>5, <2>7, CellTyped DEF TableStates, AttributeRows
    <2>9. Names(call.kind, m, n, named)
        BY <1>6, <2>2, <2>5, <2>8, CellNames
    <2> QED BY <2>3, <2>9
<1>16. CASE EnsureSystemAttributes(c)
    <2>1. call.kind = "system"
        BY <1>2, <1>16 DEF EnsureSystemAttributes, Doing
    <2>2. PICK n, named : n = AddMissing(m, call.ds) /\ named = {call.of}
        OBVIOUS
    <2>3. n # Rejected /\ \E more : Finish(c, n, named, more)
        BY <1>2, <1>3, <1>5, <1>16, <2>2 DEF EnsureSystemAttributes, Finish
    <2>4. /\ call.of \in Objects /\ call.ds \in Seq(AttributeDefs)
          /\ \A i \in DOMAIN call.ds : call.ds[i].of = call.of /\ call.ds[i].kind # "reference"
        BY <1>4, <1>6, <2>1, SchemaAssumption, CallTyped
    <2>9. Names(call.kind, m, n, named)
        BY <1>6, <2>1, <2>2, <2>3, <2>4, SystemNames
    <2> QED BY <2>3, <2>9
<1>17. CASE DefineRelation(c)
    <2>1. call.kind = "relation"
        BY <1>2, <1>17 DEF DefineRelation, Doing
    <2>2. PICK n, named : n = AddRelation(m, call.d) /\ named = RelationObjects(n, call.d.slug)
        OBVIOUS
    <2>3. n # Rejected /\ \E more : Finish(c, n, named, more)
        BY <1>2, <1>3, <1>5, <1>17, <2>2 DEF DefineRelation, Finish
    <2>4. call.d.slug \in Relations
        BY <1>6, <2>1, CallTyped DEF RelationDefs
    <2>5. PICK row : n = [m EXCEPT !.rel[call.d.slug] = row]
        BY <2>2, <2>3 DEF AddRelation
    <2>6. m.rel[call.d.slug].status = "absent"
        BY <2>2, <2>3 DEF AddRelation
    <2>7. /\ n.object = m.object /\ n.primary = m.primary /\ n.attr = m.attr /\ n.group = m.group /\ n.pipe = m.pipe
          /\ \A r \in Relations \ {call.d.slug} : n.rel[r] = m.rel[r]
        BY <1>6, <2>5 DEF TableStates
    <2>9. Names(call.kind, m, n, named)
        BY <1>6, <2>2, <2>4, <2>6, <2>7, RelationNames
    <2> QED BY <2>3, <2>9
<1>18. CASE UpdateRelation(c)
    <2>1. call.kind = "updateRelation"
        BY <1>2, <1>18 DEF UpdateRelation, Doing
    <2>2. PICK n, named : n = [m EXCEPT !.rel[call.slug].many = call.many, !.rel[call.slug].bound = call.bound] /\ named = RelationObjects(n, call.slug)
        OBVIOUS
    <2>3. n # Rejected /\ \E more : Finish(c, n, named, more)
        BY <1>2, <1>3, <1>5, <1>18, <2>2 DEF UpdateRelation, Finish
    <2>4. call.slug \in Relations /\ m.rel \in [Relations -> RelationRows]
        BY <1>6, <2>1, CallTyped, TableTyped
    <2>5. PICK row : row = [m.rel[call.slug] EXCEPT !.many = call.many, !.bound = call.bound]
        OBVIOUS
    <2>6. row.from = m.rel[call.slug].from /\ row.to = m.rel[call.slug].to
        BY <2>4, <2>5 DEF RelationRows
    <2>7. /\ n.object = m.object /\ n.primary = m.primary /\ n.attr = m.attr /\ n.group = m.group /\ n.pipe = m.pipe
          /\ n.rel = [m.rel EXCEPT ![call.slug] = row]
        BY <1>6, <2>2, <2>4, <2>5 DEF TableStates, RelationRows
    <2>8. n.rel[call.slug] = row /\ \A r \in Relations \ {call.slug} : n.rel[r] = m.rel[r]
        BY <2>4, <2>7
    <2>a. named = RelationObjects(n, call.slug)
        BY <2>2
    <2>9. Names(call.kind, m, n, named)
        BY <1>6, <2>4, <2>6, <2>7, <2>8, <2>a, RelationNames
    <2> QED BY <2>3, <2>9
<1>19. CASE ArchiveRelation(c)
    <2>1. call.kind = "archiveRelation"
        BY <1>2, <1>19 DEF ArchiveRelation, Doing
    <2>2. PICK n, named : n = [m EXCEPT !.rel[call.slug].status = "archived"] /\ named = RelationObjects(n, call.slug)
        OBVIOUS
    <2>3. n # Rejected /\ \E more : Finish(c, n, named, more)
        BY <1>2, <1>3, <1>5, <1>19, <2>2 DEF ArchiveRelation, Finish
    <2>4. call.slug \in Relations /\ m.rel \in [Relations -> RelationRows]
        BY <1>6, <2>1, CallTyped, TableTyped
    <2>5. PICK row : row = [m.rel[call.slug] EXCEPT !.status = "archived"]
        OBVIOUS
    <2>6. row.from = m.rel[call.slug].from /\ row.to = m.rel[call.slug].to
        BY <2>4, <2>5 DEF RelationRows
    <2>7. /\ n.object = m.object /\ n.primary = m.primary /\ n.attr = m.attr /\ n.group = m.group /\ n.pipe = m.pipe
          /\ n.rel = [m.rel EXCEPT ![call.slug] = row]
        BY <1>6, <2>2, <2>4, <2>5 DEF TableStates, RelationRows
    <2>8. n.rel[call.slug] = row /\ \A r \in Relations \ {call.slug} : n.rel[r] = m.rel[r]
        BY <2>4, <2>7
    <2>a. named = RelationObjects(n, call.slug)
        BY <2>2
    <2>9. Names(call.kind, m, n, named)
        BY <1>6, <2>4, <2>6, <2>7, <2>8, <2>a, RelationNames
    <2> QED BY <2>3, <2>9
<1>20. CASE UseTemplate(c)
    <2>1. call.kind = "template"
        BY <1>2, <1>20 DEF UseTemplate, Doing
    <2>2. PICK n, named : n = ApplyTemplate(m) /\ named = TemplateAffects(m)
        OBVIOUS
    <2>3. n # Rejected /\ \E more : Finish(c, n, named, more)
        BY <1>2, <1>3, <1>5, <1>20, <2>2 DEF UseTemplate, Finish
    <2>9. Names(call.kind, m, n, named)
        BY <1>6, <2>1, <2>2, <2>3, TemplateNames
    <2> QED BY <2>3, <2>9
<1>21. CASE DefineGroup(c)
    <2>1. call.kind = "group"
        BY <1>2, <1>21 DEF DefineGroup, Doing
    <2>2. PICK n, named : n = AddGroup(saw, m, call.slug, call.of, call.members) /\ named = {call.of}
        OBVIOUS
    <2>3. n # Rejected /\ \E more : Finish(c, n, named, more)
        BY <1>2, <1>3, <1>5, <1>21, <2>2 DEF DefineGroup, Finish
    <2>9. Names(call.kind, m, n, named)
        BY <1>6, <2>1, <2>2, <2>3, CallTyped, GroupNames
    <2> QED BY <2>3, <2>9
<1>22. CASE ReorderGroups(c)
    <2>1. call.kind = "reorder"
        BY <1>2, <1>22 DEF ReorderGroups, Doing
    <2>2. PICK n, named : n = Reorder(m, call.of, call.order) /\ named = {call.of}
        OBVIOUS
    <2>3. n # Rejected /\ \E more : Finish(c, n, named, more)
        BY <1>2, <1>3, <1>5, <1>22, <2>2 DEF ReorderGroups, Finish
    <2>4. call.of \in Objects
        BY <1>6, <2>1 DEF DefinitionCalls
    <2>5. ToSet(call.order) = {g \in Groups : saw.group[g].of = call.of /\ saw.group[g].status = "active"}
        BY <1>4, <2>1, AskedAtFirst
    <2>6. call.of # None
        BY <2>4, SchemaAssumption
    <2>7. \A g \in ToSet(call.order) : m.group[g].of = call.of
        BY <1>6, <2>5, <2>6 DEF Keeps
    <2>9. Names(call.kind, m, n, named)
        BY <1>6, <2>1, <2>2, <2>3, <2>4, <2>7, ReorderNames
    <2> QED BY <2>3, <2>9
<1>23. CASE ArchiveAttributeGroup(c)
    <2>1. call.kind = "archiveGroup"
        BY <1>2, <1>23 DEF ArchiveAttributeGroup, Doing
    <2>2. PICK n, named : n = ArchiveGroup(m, call.slug) /\ named = {m.group[call.slug].of}
        OBVIOUS
    <2>3. n # Rejected /\ \E more : Finish(c, n, named, more)
        BY <1>2, <1>3, <1>5, <1>23, <2>2 DEF ArchiveAttributeGroup, Finish
    <2>9. Names(call.kind, m, n, named)
        BY <1>6, <2>1, <2>2, CallTyped, ArchiveGroupNames
    <2> QED BY <2>3, <2>9
<1>24. CASE DefinePipeline(c)
    <2>1. call.kind = "pipeline"
        BY <1>2, <1>24 DEF DefinePipeline, Doing
    <2>2. PICK n, named : n = PutPipeline(saw, m, call.slug, call.of, call.default) /\ named = {call.of}
        OBVIOUS
    <2>3. n # Rejected /\ \E more : Finish(c, n, named, more)
        BY <1>2, <1>3, <1>5, <1>24, <2>2 DEF DefinePipeline, Finish
    <2>4. m.pipe[call.slug].of = None
        BY <1>2, <1>5, <1>24 DEF DefinePipeline
    <2>9. Names(call.kind, m, n, named)
        BY <1>6, <2>1, <2>2, <2>3, <2>4, CallTyped, PipelineNames
    <2> QED BY <2>3, <2>9
<1>25. CASE UpdatePipeline(c)
    <2>1. call.kind = "updatePipeline"
        BY <1>2, <1>25 DEF UpdatePipeline, Doing
    <2>2. PICK n, named : n = PutPipeline(saw, m, call.slug, m.pipe[call.slug].of, call.default) /\ named = {m.pipe[call.slug].of}
        OBVIOUS
    <2>3. n # Rejected /\ \E more : Finish(c, n, named, more)
        BY <1>2, <1>3, <1>5, <1>25, <2>2 DEF UpdatePipeline, Finish
    <2>4. call.slug \in Pipelines
        BY <1>6, <2>1, CallTyped
    <2>5. saw.pipe[call.slug].of # None
        BY <1>4, <2>1, AskedAtFirst
    <2>6. m.pipe[call.slug].of # None
        BY <1>6, <2>4, <2>5 DEF Keeps
    <2>7. PICK o \in Objects : o = m.pipe[call.slug].of
        BY <1>6, <2>4, <2>6, TableTyped DEF PipelineRows
    <2>8. n = PutPipeline(saw, m, call.slug, o, call.default) /\ named = {o} /\ m.pipe[call.slug].of \in {o, None}
        BY <2>2, <2>7
    <2>9. Names(call.kind, m, n, named)
        BY <1>6, <2>3, <2>4, <2>8, PipelineNames
    <2> QED BY <2>3, <2>9
<1>26. CASE DefineList(c)
    <2>1. call.kind = "list"
        BY <1>2, <1>26 DEF DefineList, Doing
    <2>2. PICK n, named : n = [m EXCEPT !.lists = @ + 1] /\ named = {}
        OBVIOUS
    <2>3. n # Rejected /\ \E more : Finish(c, n, named, more)
        BY <1>2, <1>3, <1>5, <1>26, <2>2 DEF DefineList, Finish
    <2>4. /\ n.object = m.object /\ n.primary = m.primary /\ n.attr = m.attr /\ n.group = m.group /\ n.pipe = m.pipe
          /\ n.rel = m.rel
        BY <1>6, <2>2 DEF TableStates
    <2>5. Grouped(n) /\ Keeps(m, n)
        BY <1>6, <2>4, OwnersStay
    <2>6. \A o \in Objects : SameAt(m, n, o)
        BY <2>4 DEF SameAt
    <2>9. Names(call.kind, m, n, named)
        BY <2>2, <2>5, <2>6 DEF Names
    <2> QED BY <2>3, <2>9
<1> QED BY <1>8, <1>9, <1>10, <1>11, <1>12, <1>13, <1>14, <1>15, <1>16, <1>17, <1>18, <1>19, <1>20, <1>21, <1>22, <1>23, <1>24, <1>25, <1>26

LEMMA NamedInit == ASSUME Init PROVE NamedInv
<1>1. BackInv
    BY BackInit
<1>2. Grouped(tables)
    BY SchemaAssumption DEF Init, Grouped
<1>3. version = 0 /\ changes = <<>> /\ \A c \in Callers : tx[c] = None
    BY DEF Init
<1> QED BY <1>1, <1>2, <1>3 DEF NamedInv

LEMMA CommitKeepsNamed ==
    ASSUME NamedInv, BackInv', NEW c \in Callers, NEW n, NEW named, NEW more, Finish(c, n, named, more),
           NEW kind, Names(kind, tables, n, named)
    PROVE  NamedInv'
<1>1. /\ tables' = n /\ tx' = [tx EXCEPT ![c] = None] /\ version' = version + 1 /\ changes' = Append(changes, named)
      /\ named \in SUBSET (Objects \cup {None}) /\ Grouped(n) /\ Keeps(tables, n)
    BY DEF Finish, Names
<1>2. Grouped(tables')
    BY <1>1
<1>3. ASSUME NEW d \in Callers, tx'[d] # None PROVE Keeps(tx'[d].saw, tables')
    <2>1. tx'[d] = tx[d]
        BY <1>1, <1>3 DEF NamedInv, BackInv
    <2>2. PICK saw : saw = tx[d].saw
        OBVIOUS
    <2>3. Keeps(saw, tables)
        BY <1>3, <2>1, <2>2 DEF NamedInv
    <2>4. Keeps(saw, n)
        BY <1>1, <2>3, KeepsIsOrder
    <2> QED BY <1>1, <2>1, <2>2, <2>4
<1>4. version' \in Nat /\ changes' \in Seq(SUBSET (Objects \cup {None})) /\ Len(changes') = version'
    BY <1>1 DEF NamedInv
<1> QED BY <1>2, <1>3, <1>4 DEF NamedInv

\* Steps that define nothing.
LEMMA QuietKeepsNamed ==
    ASSUME NamedInv, BackInv', UNCHANGED <<tables, version, changes>>,
           \A c \in Callers : tx'[c] # None => tx'[c] = tx[c] \/ tx'[c].saw = tables
    PROVE  NamedInv'
<1>1. ASSUME NEW c \in Callers, tx'[c] # None PROVE Keeps(tx'[c].saw, tables')
    <2>1. PICK saw : saw = tx'[c].saw
        OBVIOUS
    <2>2. Keeps(saw, tables)
        BY <1>1, <2>1, KeepsIsOrder DEF NamedInv
    <2> QED BY <2>1, <2>2
<1>2. Grouped(tables')
    BY DEF NamedInv
<1> QED BY <1>1, <1>2 DEF NamedInv

LEMMA NamedStep == ASSUME NamedInv, [Next]_vars PROVE NamedInv'
<1>0. BackInv'
    BY BackStep DEF NamedInv
<1>1. ASSUME NEW c \in Callers, NEW call \in Calls, Begin(c, call) PROVE NamedInv'
    <2>1. PICK t : t = [call |-> call, saw |-> tables]
        OBVIOUS
    <2>2. tx' = [tx EXCEPT ![c] = t] /\ t.saw = tables /\ UNCHANGED <<tables, version, changes>>
        BY <1>1, <2>1 DEF Begin
    <2>3. \A d \in Callers : tx'[d] = tx[d] \/ tx'[d] = t
        BY <2>2 DEF NamedInv, BackInv
    <2> QED BY <1>0, <2>2, <2>3, QuietKeepsNamed
<1>2. ASSUME NEW c \in Callers, Abort(c) \/ NothingToAdd(c) PROVE NamedInv'
    <2>1. tx' = [tx EXCEPT ![c] = None] /\ UNCHANGED <<tables, version, changes>>
        BY <1>2 DEF Abort, NothingToAdd
    <2>2. \A d \in Callers : tx'[d] = tx[d] \/ tx'[d] = None
        BY <2>1 DEF NamedInv, BackInv
    <2> QED BY <1>0, <2>1, <2>2, QuietKeepsNamed
<1>3. ASSUME NEW l \in Loaders, LoadBegin(l) \/ LoadTypes(l) \/ LoadOthers(l) \/ LoadEnds(l) \/ LoadRetries(l) PROVE NamedInv'
    <2>1. UNCHANGED <<tables, version, changes, tx>>
        BY <1>3 DEF LoadBegin, LoadTypes, LoadOthers, LoadEnds, LoadRetries
    <2> QED BY <1>0, <2>1, QuietKeepsNamed
<1>4. ASSUME UNCHANGED vars PROVE NamedInv'
    BY <1>0, <1>4, QuietKeepsNamed DEF vars
<1>5. ASSUME NEW c \in Callers,
             \/ DefineObject(c) \/ ArchiveObject(c) \/ UpdateObject(c)
             \/ DefineAttribute(c) \/ UpdateAttribute(c) \/ ArchiveAttribute(c)
             \/ DefineDerived(c) \/ UpdateDerived(c) \/ EnsureSystemAttributes(c)
             \/ DefineRelation(c) \/ UpdateRelation(c) \/ ArchiveRelation(c) \/ UseTemplate(c)
             \/ DefineGroup(c) \/ ReorderGroups(c) \/ ArchiveAttributeGroup(c)
             \/ DefinePipeline(c) \/ UpdatePipeline(c) \/ DefineList(c)
      PROVE  NamedInv'
    <2>1. PICK n, named, more : Finish(c, n, named, more) /\ Names(tx[c].call.kind, tables, n, named)
        BY <1>5, DefinitionsName
    <2> QED BY <1>0, <2>1, CommitKeepsNamed
<1> QED BY <1>1, <1>2, <1>3, <1>4, <1>5 DEF Next

LEMMA CommitTellsViews ==
    ASSUME NamedInv, NEW c \in Callers, tx[c] # None, NEW n, NEW named, NEW more, Finish(c, n, named, more),
           Names(tx[c].call.kind, tables, n, named)
    PROVE  /\ version' = version + 1 /\ Len(changes') = version'
           /\ \A o \in Objects :
                /\ "active" \in {tables.object[o], tables'.object[o]}
                /\ View(tables, o) # View(tables', o)
                /\ ~\E d \in Callers : /\ tx[d] # tx'[d] /\ tx[d].call.kind \in {"object", "template"}
                                       /\ tables.object[o] = "active"
                => o \in Last(changes')
<1>1. tables' = n /\ tx'[c] = None /\ version' = version + 1 /\ changes' = Append(changes, named)
    BY DEF Finish, NamedInv, BackInv
<1>2. named \in SUBSET (Objects \cup {None})
    BY DEF Names
<1>3. Len(changes') = version' /\ changes'[Len(changes')] = named
    BY <1>1, <1>2 DEF NamedInv
<1>4. ASSUME NEW o \in Objects, "active" \in {tables.object[o], n.object[o]}, View(tables, o) # View(n, o), o \notin named
      PROVE  tx[c].call.kind \in {"object", "template"} /\ tables.object[o] = "active"
    <2>1. ~SameAt(tables, n, o)
        BY <1>4, SameIsSeen
    <2> QED BY <1>4, <2>1 DEF Names
<1>5. Last(changes') = named
    BY <1>3 DEF Last
<1>6. tx[c] # tx'[c]
    BY <1>1
<1>7. \A o : View(tables', o) = View(n, o)
    BY <1>1
<1>8. \A o : tables'.object[o] = n.object[o]
    BY <1>1
<1> QED BY <1>1, <1>3, <1>4, <1>5, <1>6, <1>7, <1>8

\* The event of a change names every active type a reader sees changed, whatever calls are made at the same
\* time (bumpSchemaVersion, relationSchemaObjects, attributeSchemaObjects); a new type and a template leave
\* out the targets of their references.
THEOREM ChangesAreTold == Spec => EventsNameWhatChanged
<1>1. ASSUME NamedInv, [Next]_vars, tables' # tables
      PROVE  /\ version' = version + 1 /\ Len(changes') = version'
             /\ \A o \in Objects :
                  /\ "active" \in {tables.object[o], tables'.object[o]}
                  /\ View(tables, o) # View(tables', o)
                  /\ ~\E c \in Callers : /\ tx[c] # tx'[c] /\ tx[c].call.kind \in {"object", "template"}
                                         /\ tables.object[o] = "active"
                  => o \in Last(changes')
    <2>1. PICK c \in Callers :
             \/ DefineObject(c) \/ ArchiveObject(c) \/ UpdateObject(c)
             \/ DefineAttribute(c) \/ UpdateAttribute(c) \/ ArchiveAttribute(c)
             \/ DefineDerived(c) \/ UpdateDerived(c) \/ EnsureSystemAttributes(c)
             \/ DefineRelation(c) \/ UpdateRelation(c) \/ ArchiveRelation(c) \/ UseTemplate(c)
             \/ DefineGroup(c) \/ ReorderGroups(c) \/ ArchiveAttributeGroup(c)
             \/ DefinePipeline(c) \/ UpdatePipeline(c) \/ DefineList(c)
        <3>1. ASSUME NEW l \in Loaders,
                     LoadBegin(l) \/ LoadTypes(l) \/ LoadOthers(l) \/ LoadEnds(l) \/ LoadRetries(l)
              PROVE  FALSE
            BY <1>1, <3>1 DEF LoadBegin, LoadTypes, LoadOthers, LoadEnds, LoadRetries
        <3>2. ASSUME NEW c \in Callers, Abort(c) \/ NothingToAdd(c) \/ \E call \in Calls : Begin(c, call) PROVE FALSE
            BY <1>1, <3>2 DEF Abort, NothingToAdd, Begin
        <3>3. ~UNCHANGED vars
            BY <1>1 DEF vars
        <3> QED BY <1>1, <3>1, <3>2, <3>3 DEF Next
    <2>2. PICK n, named, more : Finish(c, n, named, more) /\ Names(tx[c].call.kind, tables, n, named) /\ tx[c] # None
        BY <1>1, <2>1, DefinitionsName
    <2> QED BY <1>1, <2>2, CommitTellsViews
<1>2. Spec => []NamedInv
    BY NamedInit, NamedStep, PTL DEF Spec
<1>3. NamedInv /\ [Next]_vars => [tables' # tables =>
          /\ version' = version + 1 /\ Len(changes') = version'
          /\ \A o \in Objects :
                /\ "active" \in {tables.object[o], tables'.object[o]}
                /\ View(tables, o) # View(tables', o)
                /\ ~\E c \in Callers : /\ tx[c] # tx'[c] /\ tx[c].call.kind \in {"object", "template"}
                                       /\ tables.object[o] = "active"
                => o \in Last(changes') ]_vars
    BY <1>1
<1> QED BY <1>2, <1>3, PTL DEF Spec, EventsNameWhatChanged
====
