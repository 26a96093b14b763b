----------------------------- MODULE MatchingProofs -----------------------------
(***************************************************************************)
(* What holds of MatchingGenerations for every set of records, rules,      *)
(* writers and workers and any number of generations: no key row is stale, *)
(* a replacement that becomes active knows every record, and a generation  *)
(* settles together with its job.                                          *)
(***************************************************************************)
EXTENDS MatchingGenerations, TLAPS, FiniteSetTheorems, WellFoundedInduction

-----------------------------------------------------------------------------
(* The next batch of a scan                                                *)

LEMMA SmallestExists ==
    ASSUME NEW S \in SUBSET Nat, S # {}
    PROVE  \E x \in S : \A y \in S : x <= y
<1>1. PICK x \in S : \A y \in S : ~ (<<y, x>> \in OpToRel(<, Nat))
    BY NatLessThanWellFounded, WFMin
<1>2. \A y \in S : ~ (y < x)
    BY <1>1 DEF OpToRel
<1> QED BY <1>2

\* A batch is an initial part of what is left, not empty unless nothing is left, and all of it if it is short.
LEMMA BatchIsInitial ==
    ASSUME NEW S \in SUBSET Nat, IsFiniteSet(S), NEW n \in Nat \ {0}, NEW b, b = Least(n, S)
    PROVE  /\ b \subseteq S /\ IsFiniteSet(b)
           /\ \A s \in b, t \in S : t <= s => t \in b
           /\ S # {} => b # {}
           /\ Cardinality(b) < n => b = S
<1> DEFINE Below(s) == {t \in S : t < s}
<1>1. b \subseteq S /\ IsFiniteSet(b) /\ \A s \in S : s \in b <=> Cardinality(Below(s)) < n
    BY FS_Subset DEF Least
<1>2. \A s \in S : IsFiniteSet(Below(s)) /\ Cardinality(Below(s)) \in Nat
    <2>1. \A s \in S : Below(s) \subseteq S
        OBVIOUS
    <2> HIDE DEF Below
    <2> QED BY <2>1, FS_Subset, FS_CardinalityType
<1>3. ASSUME NEW s \in b, NEW t \in S, t <= s PROVE t \in b
    <2>1. Below(t) \subseteq Below(s)
        <3>1. \A u \in S : u < t => u < s
            BY <1>1, <1>3
        <3> QED BY <3>1
    <2>2. s \in S /\ Cardinality(Below(s)) < n
        BY <1>1
    <2> HIDE DEF Below
    <2>3. Cardinality(Below(t)) <= Cardinality(Below(s))
        BY <1>2, <2>1, <2>2, FS_Subset
    <2>4. Cardinality(Below(t)) < n
        BY <1>2, <2>2, <2>3
    <2> QED BY <1>1, <2>4
<1>4. ASSUME S # {} PROVE b # {}
    <2>1. PICK s \in S : \A t \in S : s <= t
        BY <1>4, SmallestExists
    <2>2. Below(s) = {}
        <3>1. \A u \in S : u \in Nat /\ s \in Nat /\ s <= u
            BY <2>1
        <3>2. \A u \in S : ~(u < s)
            BY <3>1
        <3> QED BY <3>2
    <2>3. Cardinality(Below(s)) = 0
        BY <2>2, FS_EmptySet
    <2> QED BY <1>1, <2>3
<1>5. ASSUME Cardinality(b) < n PROVE b = S
    <2> SUFFICES ASSUME S \ b # {} PROVE FALSE
        BY <1>1
    <2>1. PICK s \in S \ b : \A t \in S \ b : s <= t
        <3>1. S \ b \in SUBSET Nat
            OBVIOUS
        <3> QED BY <3>1, SmallestExists
    <2>2. Below(s) \subseteq b
        <3>1. ASSUME NEW u \in S, u < s PROVE u \in b
            <4>1. u \in Nat /\ s \in Nat /\ ~(s <= u)
                BY <2>1, <3>1
            <4> QED BY <2>1, <4>1
        <3> QED BY <3>1
    <2> HIDE DEF Below
    <2>3. Cardinality(Below(s)) <= Cardinality(b)
        BY <1>1, <2>2, FS_Subset
    <2>4. Cardinality(b) \in Nat
        BY <1>1, FS_CardinalityType
    <2>5. Cardinality(Below(s)) < n
        BY <1>2, <1>5, <2>1, <2>3, <2>4
    <2> QED BY <1>1, <2>1, <2>5
<1> QED BY <1>1, <1>3, <1>4, <1>5

\* The last of a batch, which the progress of the scan names.
LEMMA LastOfBatch ==
    ASSUME NEW b \in SUBSET Nat, IsFiniteSet(b), b # {}, NEW last, last = CHOOSE r \in b : \A q \in b : q <= r
    PROVE  last \in b /\ \A q \in b : q <= last
<1> DEFINE From(s) == {t \in b : s <= t}
           Counts == {Cardinality(From(s)) : s \in b}
<1>1. \A s \in b : IsFiniteSet(From(s)) /\ Cardinality(From(s)) \in Nat
    <2>1. \A s \in b : From(s) \subseteq b
        OBVIOUS
    <2> HIDE DEF From
    <2> QED BY <2>1, FS_Subset, FS_CardinalityType
<1>2. PICK s \in b : \A q \in b : Cardinality(From(s)) <= Cardinality(From(q))
    <2>1. Counts \in SUBSET Nat /\ Counts # {}
        BY <1>1
    <2>2. PICK c \in Counts : \A d \in Counts : c <= d
        BY <2>1, SmallestExists
    <2> QED BY <2>2
<1>3. ASSUME NEW q \in b, ~(q <= s) PROVE FALSE
    <2>1. From(q) \subseteq From(s)
        <3>1. \A t \in b : q <= t => s <= t
            BY <1>3
        <3> QED BY <3>1
    <2>2. s \in From(s) /\ s \notin From(q)
        BY <1>3
    <2> HIDE DEF From
    <2>3. Cardinality(From(q)) < Cardinality(From(s))
        BY <1>1, <2>1, <2>2, FS_Subset
    <2> QED BY <1>1, <1>2, <2>3
<1> QED BY <1>3

-----------------------------------------------------------------------------
(* The invariant                                                           *)

GenRow == [state : {"absent", "active", "pending", "blocked", "gone"}, rule : Rule \cup {None}, attempt : Attempt]
JobRow == [status : {"absent", "queued", "running", "completed", "failed", "cancelled"}, owner : Worker \cup {None}]
RunState == [pc : {"idle", "scan", "stop", "final"}, job : Job, after : Record \cup {0}, schema : SchemaRecord]

Types ==
    /\ rec \in [Record -> Value \cup {Gone}]
    /\ gen \in [Gen -> GenRow]
    /\ version \in Nat
    /\ schema \in [Proc -> SchemaRecord]
    /\ job \in [Job -> JobRow]
    /\ run \in [Worker -> RunState]
    /\ \A k \in lookup \cup block : k[1] \in Gen /\ k[3] \in Record

IsActive(g) == gen[g].state = "active"
Replacing(g) == gen[g].state \in {"pending", "blocked"}

OneActive == \E a \in Gen : \A g \in Gen : IsActive(g) <=> g = a
OneReplacement == \A g, h \in Gen : Replacing(g) /\ Replacing(h) => g = h
Ruled == \A g \in Gen : Exists(g) => gen[g].rule \in Rule
RulesInv == OneActive /\ OneReplacement /\ Ruled

\* What a process has cached or a run was given: the stored schema, or one of an earlier version.
SchemaOk(s) ==
    /\ s.active \in Gen /\ gen[s.active].state \in {"active", "gone"}
    /\ s.version \in Nat /\ s.version <= version /\ (s.version = version => s = Stored)
SchemasOk == (\A p \in Proc : SchemaOk(schema[p])) /\ (\A w \in Worker : run[w].pc = "scan" => SchemaOk(run[w].schema))

\* The row of a record in a generation is there, if the rules give its value a key.
HasRow(g, r) == KeyIn(g, rec[r]) # None => <<g, KeyIn(g, rec[r]), r>> \in lookup

\* What the run that owns the job of the pending generation has scanned has its rows.
Passed(w, r) == run[w].pc = "final" \/ (run[w].pc = "scan" /\ r <= run[w].after)
Scanned ==
    \A w \in Worker : Owns(w) /\ Pending(w) =>
        \A r \in Live \ lagging : Passed(w, r) => HasRow(Target(w), r)

MatchingInv == Types /\ RulesInv /\ SchemasOk /\ KeysSound /\ KeysComplete /\ Scanned

-----------------------------------------------------------------------------
(* The generations a schema names                                          *)

LEMMA ActiveIs ==
    Types /\ OneActive => /\ Active \in Gen /\ IsActive(Active)
                          /\ \A g \in Gen : IsActive(g) => g = Active
<1> SUFFICES ASSUME Types, OneActive
             PROVE  Active \in Gen /\ IsActive(Active) /\ \A g \in Gen : IsActive(g) => g = Active
    OBVIOUS
<1> DEFINE S == {g \in Gen : gen[g].state = "active"}
<1>1. PICK a \in Gen : \A g \in Gen : IsActive(g) <=> g = a
    BY DEF OneActive
<1>2. S = {a}
    BY <1>1 DEF IsActive
<1>3. Active = The(S)
    BY DEF Active
<1> HIDE DEF S
<1>4. Active = a
    BY <1>2, <1>3 DEF The
<1> QED BY <1>1, <1>4

LEMMA ReplacementIs ==
    Types /\ OneReplacement =>
        /\ Replacement = 0 => \A g \in Gen : ~Replacing(g)
        /\ Replacement # 0 => Replacement \in Gen /\ Replacing(Replacement)
        /\ \A g \in Gen : Replacing(g) => g = Replacement
<1> SUFFICES ASSUME Types, OneReplacement
             PROVE  /\ Replacement = 0 => \A g \in Gen : ~Replacing(g)
                    /\ Replacement # 0 => Replacement \in Gen /\ Replacing(Replacement)
                    /\ \A g \in Gen : Replacing(g) => g = Replacement
    OBVIOUS
<1> DEFINE S == {g \in Gen : gen[g].state \in {"pending", "blocked"}}
<1>1. S \subseteq Gen /\ \A g \in Gen : g \in S <=> Replacing(g)
    BY DEF Replacing
<1>2. Replacement = The(S)
    BY DEF Replacement
<1>3. 0 \notin Gen
    BY DEF Gen
<1> HIDE DEF S
<1>4. S = {} => Replacement = 0
    BY <1>2 DEF The
<1>5. S # {} => Replacement \in S
    BY <1>2 DEF The
<1> QED BY <1>1, <1>3, <1>4, <1>5 DEF OneReplacement

LEMMA StoredIsOk == Types /\ RulesInv => SchemaOk(Stored) /\ Stored \in SchemaRecord
<1> SUFFICES ASSUME Types, RulesInv PROVE SchemaOk(Stored) /\ Stored \in SchemaRecord
    OBVIOUS
<1>1. Active \in Gen /\ IsActive(Active) /\ Replacement \in Gen \cup {0} /\ version \in Nat
    BY ActiveIs, ReplacementIs DEF RulesInv, Types
<1>2. Stored.active = Active /\ Stored.version = version /\ Stored \in SchemaRecord
    BY <1>1 DEF Stored, SchemaRecord
<1>3. version <= version
    BY <1>1
<1> QED BY <1>1, <1>2, <1>3 DEF SchemaOk, IsActive

\* The rows a schema gives a record are keys of it, in generations there are.
LEMMA RowsOf ==
    ASSUME Types, NEW s \in SchemaRecord, NEW r \in Record, NEW v
    PROVE  /\ \A k \in LookupRows(s, r, v) : k[1] \in Gen /\ k[3] = r /\ k[2] = KeyIn(k[1], v)
           /\ \A g \in Gen : g \in {s.active, s.replacement} /\ KeyIn(g, v) # None
                                => <<g, KeyIn(g, v), r>> \in LookupRows(s, r, v)
           /\ BlockRows(s, r, v) \subseteq LookupRows(s, r, v)
           /\ \A k \in BlockRows(s, r, v) : k[1] = s.active
           /\ \A k \in LookupRows(s, r, v) :
                  k[1] = s.active /\ gen[k[1]].rule \in Blocking => k \in BlockRows(s, r, v)
<1>1. Generations(s) \subseteq Gen /\ \A g \in Gen : g \in {s.active, s.replacement} => g \in Generations(s)
    BY DEF Generations, SchemaRecord, Gen
<1>2. \A k \in LookupRows(s, r, v) : k[1] \in Gen /\ k[3] = r /\ k[2] = KeyIn(k[1], v)
    BY <1>1 DEF LookupRows
<1>3. \A g \in Gen : g \in {s.active, s.replacement} /\ KeyIn(g, v) # None
                        => <<g, KeyIn(g, v), r>> \in LookupRows(s, r, v)
    BY <1>1 DEF LookupRows
<1> QED BY <1>2, <1>3 DEF BlockRows

-----------------------------------------------------------------------------
(* Rows written                                                            *)

NewLookup(s, b) == UNION {LookupRows(s, r, rec'[r]) : r \in b}
NewBlock(s, b) == UNION {BlockRows(s, r, rec'[r]) : r \in b}

\* A write of one record or a batch of the backfill, under schema s.
Materialized(s, b) ==
    /\ \A r \in b : rec'[r] \in Value
    /\ \A r \in Record \ b : rec'[r] = rec[r]
    /\ lookup' = {k \in lookup : k[3] \notin b} \cup NewLookup(s, b)
    /\ block' = {k \in block : k[3] \notin b} \cup NewBlock(s, b)
    /\ lagging' = IF s.version = version THEN lagging \ b ELSE lagging \cup b
    /\ \A k \in NewLookup(s, b) : Exists(k[1])
    /\ UNCHANGED <<gen, version>>

LEMMA NewRows ==
    ASSUME Types, NEW s \in SchemaRecord, NEW b \in SUBSET Record
    PROVE  /\ \A k \in NewLookup(s, b) : k[1] \in Gen /\ k[3] \in b /\ k[2] = KeyIn(k[1], rec'[k[3]])
           /\ \A r \in b, g \in Gen : g \in {s.active, s.replacement} /\ KeyIn(g, rec'[r]) # None
                                => <<g, KeyIn(g, rec'[r]), r>> \in NewLookup(s, b)
           /\ \A k \in NewBlock(s, b) : k \in NewLookup(s, b) /\ k[1] = s.active
           /\ \A k \in NewLookup(s, b) :
                  k[1] = s.active /\ gen[k[1]].rule \in Blocking => k \in NewBlock(s, b)
<1>1. ASSUME NEW k \in NewLookup(s, b)
      PROVE  /\ k[1] \in Gen /\ k[3] \in b /\ k[2] = KeyIn(k[1], rec'[k[3]])
             /\ k[1] = s.active /\ gen[k[1]].rule \in Blocking => k \in NewBlock(s, b)
    <2>1. PICK r \in b : k \in LookupRows(s, r, rec'[r])
        BY DEF NewLookup
    <2> PICK v : v = rec'[r]
        OBVIOUS
    <2>2. /\ k[1] \in Gen /\ k[3] = r /\ k[2] = KeyIn(k[1], v)
          /\ k[1] = s.active /\ gen[k[1]].rule \in Blocking => k \in BlockRows(s, r, v)
        BY <2>1, RowsOf
    <2> QED BY <2>1, <2>2 DEF NewBlock
<1>2. ASSUME NEW r \in b, NEW g \in Gen, g \in {s.active, s.replacement}, KeyIn(g, rec'[r]) # None
      PROVE  <<g, KeyIn(g, rec'[r]), r>> \in NewLookup(s, b)
    <2> PICK v : v = rec'[r]
        OBVIOUS
    <2>1. <<g, KeyIn(g, v), r>> \in LookupRows(s, r, v)
        BY <1>2, RowsOf
    <2> QED BY <2>1 DEF NewLookup
<1>3. ASSUME NEW k \in NewBlock(s, b) PROVE k \in NewLookup(s, b) /\ k[1] = s.active
    <2>1. PICK r \in b : k \in BlockRows(s, r, rec'[r])
        BY DEF NewBlock
    <2> PICK v : v = rec'[r]
        OBVIOUS
    <2>2. k \in LookupRows(s, r, v) /\ k[1] = s.active
        BY <2>1, RowsOf
    <2> QED BY <2>1, <2>2 DEF NewLookup
<1> QED BY <1>1, <1>2, <1>3

LEMMA MaterializedKeys ==
    ASSUME MatchingInv, NEW s \in SchemaRecord, SchemaOk(s), NEW b \in SUBSET Record, Materialized(s, b)
    PROVE  /\ KeysSound' /\ KeysComplete'
           /\ \A k \in lookup' \cup block' : k[1] \in Gen /\ k[3] \in Record
           /\ \A g \in Gen, r \in Live' \ lagging' :
                  gen[g].state = "pending" /\ (r \in b \/ (r \in Live \ lagging /\ HasRow(g, r))) => HasRow(g, r)'
           /\ \A r \in Live' \ lagging' : r \in b \/ r \in Live \ lagging
<1>0. /\ \A k \in NewLookup(s, b) : k[1] \in Gen /\ k[3] \in b /\ k[2] = KeyIn(k[1], rec'[k[3]])
      /\ \A r \in b, g \in Gen : g \in {s.active, s.replacement} /\ KeyIn(g, rec'[r]) # None
                                     => <<g, KeyIn(g, rec'[r]), r>> \in NewLookup(s, b)
      /\ \A k \in NewBlock(s, b) : k \in NewLookup(s, b) /\ k[1] = s.active
      /\ \A k \in NewLookup(s, b) : k[1] = s.active /\ gen[k[1]].rule \in Blocking => k \in NewBlock(s, b)
    BY NewRows DEF MatchingInv
<1>1. /\ Active \in Gen /\ IsActive(Active) /\ \A g \in Gen : IsActive(g) => g = Active
      /\ \A g \in Gen : Replacing(g) => g = Replacement
    BY ActiveIs, ReplacementIs DEF MatchingInv, RulesInv
<1>2. UNCHANGED <<Active, Replacement>> /\ gen' = gen
    BY DEF Materialized, Active, Replacement
<1>3. \A r \in Record : r \in Live' <=> r \in b \/ r \in Live
    <2>1. None \notin Value
        BY MatchingAssumption DEF MatchingAssumption
    <2> QED BY <2>1 DEF Live, Materialized, Gone
<1>4. \A g : Exists(g)' <=> Exists(g)
    BY <1>2 DEF Exists
<1>5. \A g \in Gen, r \in Record : KeyIn(g, rec[r])' = KeyIn(g, rec'[r])
    BY <1>2 DEF KeyIn
<1>6. KeysSound'
    <2>1. ASSUME NEW k \in lookup'
          PROVE  Exists(k[1])' /\ k[3] \in Live' /\ k[2] = KeyIn(k[1], rec'[k[3]])
        <3>1. CASE k \in NewLookup(s, b)
            BY <1>0, <1>3, <1>4, <3>1 DEF Materialized
        <3>2. CASE k \in lookup /\ k[3] \notin b
            <4>1. k[3] \in Record /\ rec'[k[3]] = rec[k[3]]
                BY <3>2 DEF MatchingInv, Types, Materialized
            <4>2. Exists(k[1]) /\ k[3] \in Live /\ k[2] = KeyIn(k[1], rec[k[3]])
                BY <3>2 DEF MatchingInv, KeysSound
            <4> QED BY <1>3, <1>4, <4>1, <4>2
        <3> QED BY <2>1, <3>1, <3>2 DEF Materialized
    <2>2. ASSUME NEW k \in block' PROVE k[1] = Active
        <3>1. CASE k \in NewBlock(s, b)
            <4>1. Exists(k[1]) /\ k[1] \in Gen /\ gen[k[1]].state \in {"active", "gone"}
                BY <1>0, <3>1 DEF Materialized, SchemaOk
            <4> QED BY <1>1, <4>1 DEF Exists, IsActive
        <3>2. CASE k \in block
            BY <3>2 DEF MatchingInv, KeysSound
        <3> QED BY <2>2, <3>1, <3>2 DEF Materialized
    <2>3. \A k \in lookup' : k[2] = KeyIn(k[1], rec'[k[3]]) => (k[2] = KeyIn(k[1], rec[k[3]]))'
        BY <1>2 DEF KeyIn
    <2> QED BY <1>2, <2>1, <2>2, <2>3 DEF KeysSound
<1>7. ASSUME NEW r \in Live' \ lagging', r \in b
      PROVE  \A g \in {Active, Replacement} \ {0} : g \in {s.active, s.replacement}
    <2>1. s = Stored
        BY <1>7 DEF Materialized, SchemaOk
    <2> QED BY <2>1 DEF Stored
<1>8. \A r \in Live' \ lagging' : r \in Record /\ (r \in b \/ (r \in Live \ lagging /\ r \notin b))
    BY <1>3 DEF Materialized, Live
<1>9. KeysComplete'
    <2> SUFFICES ASSUME NEW r \in Live' \ lagging', NEW key, key = KeyIn(Active, rec'[r]), key # None
                 PROVE  /\ <<Active, key, r>> \in lookup'
                        /\ gen[Active].rule \in Blocking => <<Active, key, r>> \in block'
        BY <1>2, <1>5, <1>8, <1>1 DEF KeysComplete
    <2>1. CASE r \in b
        <3>1. Active \in {s.active, s.replacement} /\ s.active = Active
            <4>1. s = Stored
                BY <2>1 DEF Materialized, SchemaOk
            <4> QED BY <4>1 DEF Stored
        <3>2. <<Active, key, r>> \in NewLookup(s, b)
            BY <1>0, <1>1, <2>1, <3>1
        <3>3. gen[Active].rule \in Blocking => <<Active, key, r>> \in NewBlock(s, b)
            BY <1>0, <3>1, <3>2
        <3> QED BY <3>2, <3>3 DEF Materialized
    <2>2. CASE r \in Live \ lagging /\ r \notin b
        <3>1. rec'[r] = rec[r]
            BY <1>8, <2>2 DEF Materialized
        <3>2. <<Active, key, r>> \in lookup /\ (gen[Active].rule \in Blocking => <<Active, key, r>> \in block)
            BY <2>2, <3>1 DEF MatchingInv, KeysComplete
        <3> QED BY <2>2, <3>2 DEF Materialized
    <2> QED BY <1>8, <2>1, <2>2
<1>10. ASSUME NEW g \in Gen, NEW r \in Live' \ lagging', gen[g].state = "pending",
              r \in b \/ (r \in Live \ lagging /\ HasRow(g, r))
       PROVE  HasRow(g, r)'
    <2> SUFFICES ASSUME NEW key, key = KeyIn(g, rec'[r]), key # None PROVE <<g, key, r>> \in lookup'
        BY <1>5, <1>8 DEF HasRow
    <2>1. CASE r \in b
        <3>1. g \in {s.active, s.replacement}
            <4>1. g = Replacement /\ g # 0
                BY <1>1, <1>10 DEF Replacing, Gen
            <4> QED BY <1>7, <2>1, <4>1
        <3> QED BY <1>0, <2>1, <3>1 DEF Materialized
    <2>2. CASE r \notin b
        <3>1. rec'[r] = rec[r] /\ HasRow(g, r)
            BY <1>8, <1>10, <2>2 DEF Materialized
        <3> QED BY <2>2, <3>1 DEF Materialized, HasRow
    <2> QED BY <2>1, <2>2
<1>11. \A k \in lookup' \cup block' : k[1] \in Gen /\ k[3] \in Record
    BY <1>0 DEF Materialized, MatchingInv, Types
<1> QED BY <1>6, <1>8, <1>9, <1>10, <1>11

-----------------------------------------------------------------------------
(* Steps that leave the rules alone                                        *)

LEMMA RulesStay ==
    ASSUME MatchingInv, UNCHANGED <<gen, version>>
    PROVE  /\ RulesInv' /\ Stored' = Stored /\ Active' = Active
           /\ \A t : SchemaOk(t) => SchemaOk(t)'
<1>1. Active' = Active /\ Replacement' = Replacement /\ Stored' = Stored
    BY DEF Active, Replacement, Stored
<1>2. RulesInv'
    BY DEF MatchingInv, RulesInv, OneActive, OneReplacement, Ruled, IsActive, Replacing, Exists
<1> QED BY <1>1, <1>2 DEF SchemaOk

\* Only the runs and the jobs change.
LEMMA RunStep ==
    ASSUME MatchingInv, UNCHANGED <<rec, gen, version, lookup, block, lagging>>,
           schema' \in [Proc -> SchemaRecord], \A p \in Proc : schema'[p] \in {schema[p], Stored},
           job' \in [Job -> JobRow], run' \in [Worker -> RunState],
           \A w \in Worker : run'[w].pc = "scan" =>
               run'[w].schema = Stored \/ (run[w].pc = "scan" /\ run'[w].schema = run[w].schema),
           Scanned'
    PROVE  MatchingInv'
<1>1. RulesInv' /\ Stored' = Stored /\ Active' = Active /\ \A t : SchemaOk(t) => SchemaOk(t)'
    BY RulesStay
<1>2. SchemaOk(Stored)
    BY StoredIsOk DEF MatchingInv
<1>3. \A p \in Proc : SchemaOk(schema[p])
    BY DEF MatchingInv, SchemasOk
<1>4. \A w \in Worker : run[w].pc = "scan" => SchemaOk(run[w].schema)
    BY DEF MatchingInv, SchemasOk
<1> PICK stored : stored = Stored
    OBVIOUS
<1>5. SchemaOk(stored)'
    BY <1>1, <1>2
<1>6. SchemasOk'
    <2>1. ASSUME NEW p \in Proc PROVE SchemaOk(schema[p])'
        <3> PICK t : t = schema'[p]
            OBVIOUS
        <3>1. SchemaOk(t)'
            BY <1>1, <1>3, <1>5
        <3> QED BY <3>1 DEF SchemaOk
    <2>2. ASSUME NEW w \in Worker, run'[w].pc = "scan" PROVE SchemaOk(run[w].schema)'
        <3> PICK t : t = run'[w].schema
            OBVIOUS
        <3>1. SchemaOk(t)'
            BY <1>1, <1>4, <1>5, <2>2
        <3> QED BY <3>1 DEF SchemaOk
    <2> QED BY <2>1, <2>2 DEF SchemasOk
<1>7. Types' /\ KeysSound' /\ KeysComplete'
    BY <1>1 DEF MatchingInv, Types, KeysSound, KeysComplete, Exists, Live, KeyIn
<1> QED BY <1>1, <1>6, <1>7 DEF MatchingInv

LEMMA ScannedStays ==
    ASSUME MatchingInv, UNCHANGED <<rec, gen, lookup, lagging>>,
           \A w \in Worker : Owns(w)' =>
               \/ run'[w].pc \in {"idle", "stop"}
               \/ run'[w].pc = "scan" /\ run'[w].after = 0
               \/ Owns(w) /\ run'[w] = run[w]
    PROVE  Scanned'
<1> SUFFICES ASSUME NEW w \in Worker, Owns(w)', Pending(w)', NEW r \in Live' \ lagging', Passed(w, r)'
             PROVE  HasRow(Target(w), r)'
    BY DEF Scanned
<1>1. r \in Live \ lagging /\ r \in Nat /\ r # 0
    BY MatchingAssumption DEF Live, MatchingAssumption
<1>2. Owns(w) /\ run'[w] = run[w]
    BY <1>1 DEF Passed
<1>3. Pending(w) /\ Passed(w, r) /\ Target(w)' = Target(w)
    BY <1>2 DEF Pending, Passed, Target, CurrentJob
<1>4. HasRow(Target(w), r)
    BY <1>1, <1>2, <1>3 DEF MatchingInv, Scanned
<1> QED BY <1>3, <1>4 DEF HasRow, KeyIn

LEMMA LoadStep ==
    ASSUME MatchingInv, NEW p \in Proc, Load(p)
    PROVE  MatchingInv'
<1>1. Stored \in SchemaRecord
    BY StoredIsOk DEF MatchingInv
<1>2. schema' \in [Proc -> SchemaRecord] /\ \A q \in Proc : schema'[q] \in {schema[q], Stored}
    BY <1>1 DEF Load, MatchingInv, Types
<1>3. UNCHANGED <<rec, gen, version, lookup, block, lagging, job, run>>
    BY DEF Load, rulesVars, keyVars
<1>4. Scanned'
    BY <1>3, ScannedStays DEF Owns
<1> QED BY <1>2, <1>3, <1>4, RunStep DEF MatchingInv, Types

LEMMA TaskSteps ==
    ASSUME MatchingInv, NEW j \in Job, CancelTask(j) \/ \E w \in Worker : Start(w, j)
    PROVE  MatchingInv'
<1>1. UNCHANGED <<rec, gen, version, lookup, block, lagging, schema>>
    BY DEF CancelTask, Start, rulesVars, keyVars
<1>2. Stored \in SchemaRecord /\ j \in Job
    BY StoredIsOk DEF MatchingInv
<1>3. CASE CancelTask(j)
    <2>1. job' \in [Job -> JobRow] /\ UNCHANGED run
        BY <1>3 DEF CancelTask, MatchingInv, Types, JobRow
    <2>2. \A q \in Job : job'[q].status = "running" => job'[q] = job[q]
        BY <1>3 DEF CancelTask, MatchingInv, Types, JobRow
    <2>3. \A v \in Worker : run[v].job \in Job
        BY DEF MatchingInv, Types, RunState
    <2>4. \A v \in Worker : Owns(v)' => Owns(v)
        BY <2>1, <2>2, <2>3 DEF Owns
    <2>5. Scanned'
        BY <1>1, <2>1, <2>4, ScannedStays
    <2> QED BY <1>1, <2>1, <2>5, RunStep DEF MatchingInv, Types
<1>4. CASE \E w \in Worker : Start(w, j)
    <2> PICK w \in Worker : Start(w, j)
        BY <1>4
    <2>1. /\ job' = [job EXCEPT ![j] = [status |-> "running", owner |-> w]]
          /\ run' = [run EXCEPT ![w] = [pc |-> "scan", job |-> j, after |-> 0, schema |-> Stored]]
        BY DEF Start
    <2>2. job' \in [Job -> JobRow] /\ run' \in [Worker -> RunState]
        BY <1>2, <2>1 DEF MatchingInv, Types, JobRow, RunState
    <2>3. \A v \in Worker : run'[v] = IF v = w THEN [pc |-> "scan", job |-> j, after |-> 0, schema |-> Stored]
                                      ELSE run[v]
        BY <2>1 DEF MatchingInv, Types
    <2>4. ASSUME NEW v \in Worker, v # w, Owns(v)' PROVE Owns(v) /\ run'[v] = run[v]
        <3>1. run'[v] = run[v] /\ run[v].job \in Job
            BY <2>3, <2>4 DEF MatchingInv, Types, RunState
        <3>2. job'[run[v].job] = [status |-> "running", owner |-> v]
            BY <2>4, <3>1 DEF Owns
        <3>3. run[v].job # j
            BY <1>2, <2>1, <2>4, <3>2 DEF MatchingInv, Types
        <3>4. job'[run[v].job] = job[run[v].job]
            BY <2>1, <3>1, <3>3 DEF MatchingInv, Types
        <3> QED BY <3>1, <3>2, <3>4 DEF Owns
    <2>5. Scanned'
        BY <1>1, <2>3, <2>4, ScannedStays
    <2> QED BY <1>1, <2>2, <2>3, <2>5, RunStep DEF MatchingInv, Types
<1> QED BY <1>3, <1>4

\* The job of a run after the run settled it or gave it up is nobody's.
LEMMA HandlerSteps ==
    ASSUME MatchingInv, NEW w \in Worker, HandlerFails(w) \/ HandlerReturns(w)
    PROVE  MatchingInv'
<1>1. UNCHANGED <<rec, gen, version, lookup, block, lagging, schema>> /\ run' = [run EXCEPT ![w] = IdleRun]
    BY DEF HandlerFails, HandlerReturns, rulesVars, keyVars
<1>2. IdleRun \in RunState
    BY MatchingAssumption DEF IdleRun, RunState, Job, Gen, Attempt, SchemaRecord, MatchingAssumption
<1>3. run' \in [Worker -> RunState] /\ \A v \in Worker : run'[v] = IF v = w THEN IdleRun ELSE run[v]
    BY <1>1, <1>2 DEF MatchingInv, Types
<1>4. /\ job' \in [Job -> JobRow]
      /\ \A q \in Job : job'[q].status = "running" => job'[q] = job[q]
    <2>1. CASE UNCHANGED job
        BY <2>1 DEF MatchingInv, Types
    <2>2. ASSUME NEW status \in {"queued", "failed"}, job' = [job EXCEPT ![run[w].job] = [status |-> status, owner |-> None]]
          PROVE  job' \in [Job -> JobRow] /\ \A q \in Job : job'[q].status = "running" => job'[q] = job[q]
        BY <2>2 DEF MatchingInv, Types, JobRow
    <2>3. CASE job' = [job EXCEPT ![run[w].job].status = "completed"]
        BY <2>3 DEF MatchingInv, Types, JobRow
    <2> QED BY <2>1, <2>2, <2>3 DEF HandlerFails, HandlerReturns, Settle
<1>5. \A v \in Worker : v # w /\ Owns(v)' => Owns(v) /\ run'[v] = run[v]
    <2>1. \A v \in Worker : run[v].job \in Job
        BY DEF MatchingInv, Types, RunState
    <2> QED BY <1>3, <1>4, <2>1 DEF Owns
<1>6. IdleRun.pc = "idle"
    BY DEF IdleRun
<1>7. Scanned'
    BY <1>1, <1>3, <1>5, <1>6, ScannedStays
<1> QED BY <1>1, <1>3, <1>4, <1>6, <1>7, RunStep DEF MatchingInv, Types

-----------------------------------------------------------------------------
(* Writes and the scan                                                     *)

LEMMA WriteStep ==
    ASSUME MatchingInv, NEW p \in Proc, NEW r \in Record, NEW v \in Value, Write(p, r, v)
    PROVE  MatchingInv'
<1> PICK s : s = schema[p]
    OBVIOUS
<1>1. s \in SchemaRecord /\ SchemaOk(s)
    BY DEF MatchingInv, Types, SchemasOk
<1>2. UNCHANGED <<gen, version, schema, job, run>> /\ rec' = [rec EXCEPT ![r] = v]
    BY DEF Write, rulesVars
<1>3. rec'[r] = v /\ \A q \in Record \ {r} : rec'[q] = rec[q]
    BY <1>2 DEF MatchingInv, Types
<1>4. NewLookup(s, {r}) = LookupRows(s, r, v) /\ NewBlock(s, {r}) = BlockRows(s, r, v)
    BY <1>3 DEF NewLookup, NewBlock
<1>5. Materialized(s, {r})
    <2>1. /\ KeysFit(s, r, v)
          /\ lookup' = Without(lookup, r) \cup LookupRows(s, r, v)
          /\ block' = Without(block, r) \cup BlockRows(s, r, v)
          /\ lagging' = IF s.version = version THEN lagging \ {r} ELSE lagging \cup {r}
        BY DEF Write
    <2> QED BY <1>2, <1>3, <1>4, <2>1 DEF Materialized, KeysFit, Without
<1>6. /\ KeysSound' /\ KeysComplete'
      /\ \A k \in lookup' \cup block' : k[1] \in Gen /\ k[3] \in Record
      /\ \A g \in Gen, q \in Live' \ lagging' :
             gen[g].state = "pending" /\ (q \in {r} \/ (q \in Live \ lagging /\ HasRow(g, q))) => HasRow(g, q)'
      /\ \A q \in Live' \ lagging' : q \in {r} \/ q \in Live \ lagging
    <2> PICK b : b = {r}
        OBVIOUS
    <2>1. b \in SUBSET Record
        OBVIOUS
    <2> QED BY <1>1, <1>5, <2>1, MaterializedKeys
<1>7. RulesInv' /\ \A t : SchemaOk(t) => SchemaOk(t)'
    BY <1>2, RulesStay
<1>8. SchemasOk'
    BY <1>2, <1>7 DEF MatchingInv, SchemasOk, SchemaOk
<1>9. Types'
    BY <1>2, <1>6 DEF MatchingInv, Types
<1>10. Scanned'
    <2> SUFFICES ASSUME NEW w \in Worker, Owns(w)', Pending(w)', NEW q \in Live' \ lagging', Passed(w, q)'
                 PROVE  HasRow(Target(w), q)'
        BY DEF Scanned
    <2>1. Owns(w) /\ Pending(w) /\ Passed(w, q) /\ Target(w)' = Target(w) /\ Target(w) \in Gen
        BY <1>2 DEF Owns, Pending, Passed, Target, CurrentJob, MatchingInv, Types, RunState, Job
    <2>2. gen[Target(w)].state = "pending"
        BY <2>1 DEF Pending
    <2>3. q \in {r} \/ (q \in Live \ lagging /\ HasRow(Target(w), q))
        BY <1>6, <2>1 DEF MatchingInv, Scanned
    <2> PICK g : g = Target(w)
        OBVIOUS
    <2>4. HasRow(g, q)'
        BY <1>6, <2>1, <2>2, <2>3
    <2> QED BY <2>1, <2>4 DEF HasRow, KeyIn
<1> QED BY <1>6, <1>7, <1>8, <1>9, <1>10 DEF MatchingInv

LEMMA DeleteStep ==
    ASSUME MatchingInv, NEW r \in Record, Delete(r)
    PROVE  MatchingInv'
<1>1. /\ UNCHANGED <<gen, version, schema, job, run>> /\ rec' = [rec EXCEPT ![r] = Gone]
      /\ lookup' = {k \in lookup : k[3] # r} /\ block' = {k \in block : k[3] # r} /\ lagging' = lagging \ {r}
    BY DEF Delete, rulesVars, Without
<1>2. rec'[r] = Gone /\ \A q \in Record \ {r} : rec'[q] = rec[q]
    BY <1>1 DEF MatchingInv, Types
<1>3. \A q \in Live' : q \in Live \ {r} /\ rec'[q] = rec[q]
    BY <1>2 DEF Live
<1>4. \A q \in Live \ {r} : q \in Live'
    BY <1>2 DEF Live
<1>5. RulesInv' /\ Active' = Active /\ \A t : SchemaOk(t) => SchemaOk(t)'
    BY <1>1, RulesStay
<1>6. SchemasOk'
    BY <1>1, <1>5 DEF MatchingInv, SchemasOk, SchemaOk
<1>7. Types'
    BY <1>1 DEF MatchingInv, Types
<1>8. KeysSound'
    <2>1. ASSUME NEW k \in lookup'
          PROVE  Exists(k[1])' /\ k[3] \in Live' /\ (k[2] = KeyIn(k[1], rec[k[3]]))'
        <3>1. k \in lookup /\ k[3] # r /\ Exists(k[1]) /\ k[3] \in Live /\ k[2] = KeyIn(k[1], rec[k[3]])
            BY <1>1 DEF MatchingInv, KeysSound
        <3>2. k[3] \in Live' /\ rec'[k[3]] = rec[k[3]]
            BY <1>3, <1>4, <3>1
        <3> QED BY <1>1, <3>1, <3>2 DEF Exists, KeyIn
    <2>2. \A k \in block' : k[1] = Active'
        BY <1>1, <1>5 DEF MatchingInv, KeysSound
    <2> QED BY <2>1, <2>2 DEF KeysSound
<1>9. ASSUME NEW q \in Live' \ lagging'
      PROVE  q \in Live \ lagging /\ q # r /\ rec'[q] = rec[q]
    BY <1>1, <1>3
<1>10. KeysComplete'
    BY <1>1, <1>5, <1>9 DEF MatchingInv, KeysComplete, KeyIn
<1>11. Scanned'
    <2> SUFFICES ASSUME NEW w \in Worker, Owns(w)', Pending(w)', NEW q \in Live' \ lagging', Passed(w, q)'
                 PROVE  HasRow(Target(w), q)'
        BY DEF Scanned
    <2>1. Owns(w) /\ Pending(w) /\ Passed(w, q) /\ Target(w)' = Target(w)
        BY <1>1 DEF Owns, Pending, Passed, Target, CurrentJob
    <2>2. HasRow(Target(w), q)
        BY <1>9, <2>1 DEF MatchingInv, Scanned
    <2> QED BY <1>1, <1>9, <2>1, <2>2 DEF HasRow, KeyIn
<1> QED BY <1>5, <1>6, <1>7, <1>8, <1>10, <1>11 DEF MatchingInv

\* What the next batch of a run is.
LEMMA BatchOf ==
    ASSUME Types, NEW w \in Worker, NEW b, b = NextBatch(w)
    PROVE  /\ b \in SUBSET Live /\ b \in SUBSET Nat /\ IsFiniteSet(b)
           /\ \A q \in Live : (\E last \in b : q <= last) => q <= run[w].after \/ q \in b
           /\ (b = {} \/ Exhausted(b)) => \A q \in Live : q <= run[w].after \/ q \in b
           /\ run[w].after \in Nat
<1> PICK after, S : after = run[w].after /\ S = {r \in Live : r > after}
    OBVIOUS
<1>1. after \in Nat /\ Record \subseteq Nat /\ IsFiniteSet(Record) /\ BatchSize \in Nat \ {0}
    BY MatchingAssumption DEF MatchingAssumption, Types, RunState
<1>2. S \subseteq Live /\ S \in SUBSET Nat /\ IsFiniteSet(S)
    <2>1. S \subseteq Record
        BY DEF Live
    <2> QED BY <1>1, <2>1, FS_Subset
<1>3. \A q \in Live : q \in S \/ q <= after
    BY <1>1 DEF Live
<1>4. b = Least(BatchSize, S)
    BY DEF NextBatch
<1>5. /\ b \subseteq S /\ IsFiniteSet(b)
      /\ \A s \in b, t \in S : t <= s => t \in b
      /\ S # {} => b # {}
      /\ Cardinality(b) < BatchSize => b = S
    BY <1>1, <1>2, <1>4, BatchIsInitial
<1> QED BY <1>1, <1>2, <1>3, <1>5 DEF Exhausted

LEMMA ScanEndsStep ==
    ASSUME MatchingInv, NEW w \in Worker, ScanEnds(w)
    PROVE  MatchingInv'
<1>1. /\ UNCHANGED <<rec, gen, version, lookup, block, lagging, schema, job>>
      /\ run' = [run EXCEPT ![w] = [IdleRun EXCEPT !.pc = "final", !.job = run[w].job]]
      /\ run[w].pc = "scan" /\ (~Pending(w) \/ NextBatch(w) = {})
    BY DEF ScanEnds, Goto, rulesVars, keyVars
<1> DEFINE x == [IdleRun EXCEPT !.pc = "final", !.job = run[w].job]
<1>2. x \in RunState /\ x.pc = "final" /\ x.job = run[w].job
    BY MatchingAssumption DEF IdleRun, RunState, Job, Gen, Attempt, SchemaRecord, MatchingInv, Types
<1> HIDE DEF x
<1>3. run' \in [Worker -> RunState] /\ \A v \in Worker : run'[v] = IF v = w THEN x ELSE run[v]
    BY <1>1, <1>2 DEF MatchingInv, Types, x
<1>4. Scanned'
    <2> SUFFICES ASSUME NEW v \in Worker, Owns(v)', Pending(v)', NEW q \in Live' \ lagging', Passed(v, q)'
                 PROVE  HasRow(Target(v), q)'
        BY DEF Scanned
    <2>1. run'[v].job = run[v].job
        BY <1>2, <1>3
    <2>2. Owns(v) /\ Pending(v) /\ Target(v)' = Target(v) /\ q \in Live \ lagging
        BY <1>1, <2>1 DEF Owns, Pending, Target, CurrentJob, Live
    <2>3. Passed(v, q)
        <3>1. CASE v = w
            <4>1. NextBatch(w) = {}
                BY <1>1, <2>2, <3>1
            <4>2. q <= run[w].after
                BY <2>2, <4>1, BatchOf DEF MatchingInv
            <4> QED BY <1>1, <3>1, <4>2 DEF Passed
        <3>2. CASE v # w
            BY <1>3, <3>2 DEF Passed
        <3> QED BY <3>1, <3>2
    <2>4. HasRow(Target(v), q)
        BY <2>2, <2>3 DEF MatchingInv, Scanned
    <2> QED BY <1>1, <2>2, <2>4 DEF HasRow, KeyIn
<1> QED BY <1>1, <1>2, <1>3, <1>4, RunStep DEF MatchingInv, Types

\* Where a run is after a batch.
LEMMA ScannedTo ==
    ASSUME MatchingInv, NEW w \in Worker, Scan(w), NEW b, b = NextBatch(w)
    PROVE  \E x \in RunState :
              /\ run' = [run EXCEPT ![w] = x] /\ x.job = run[w].job
              /\ x.pc = "scan" => x.schema = run[w].schema
              /\ Owns(w) => \A q \in Live :
                    (x.pc = "final" \/ (x.pc = "scan" /\ q <= x.after)) => q <= run[w].after \/ q \in b
<1>1. run[w] \in RunState /\ run[w].pc = "scan" /\ b # {}
    BY DEF Scan, MatchingInv, Types
<1>2. /\ b \in SUBSET Live /\ b \in SUBSET Nat /\ IsFiniteSet(b)
      /\ \A q \in Live : (\E last \in b : q <= last) => q <= run[w].after \/ q \in b
      /\ (b = {} \/ Exhausted(b)) => \A q \in Live : q <= run[w].after \/ q \in b
    BY BatchOf DEF MatchingInv
<1> PICK last : last = CHOOSE r \in b : \A q \in b : q <= r
    OBVIOUS
<1>3. last \in b /\ last \in Record
    BY <1>1, <1>2, LastOfBatch DEF Live
<1>4. CASE Owns(w) /\ ~Exhausted(b)
    <2> DEFINE x == [run[w] EXCEPT !.after = last]
    <2>1. x \in RunState /\ x.job = run[w].job /\ x.pc = "scan" /\ x.schema = run[w].schema /\ x.after = last
        BY <1>1, <1>3 DEF RunState
    <2>2. run' = [run EXCEPT ![w] = x]
        BY <1>4 DEF Scan
    <2> HIDE DEF x
    <2>3. \A q \in Live : q <= last => q <= run[w].after \/ q \in b
        BY <1>2, <1>3
    <2> QED BY <2>1, <2>2, <2>3
<1>5. ASSUME NEW pc \in {"final", "stop"}, Goto(w, pc), Owns(w) => Exhausted(b)
      PROVE  \E x \in RunState :
                /\ run' = [run EXCEPT ![w] = x] /\ x.job = run[w].job
                /\ x.pc = "scan" => x.schema = run[w].schema
                /\ Owns(w) => \A q \in Live :
                      (x.pc = "final" \/ (x.pc = "scan" /\ q <= x.after)) => q <= run[w].after \/ q \in b
    <2> DEFINE x == [IdleRun EXCEPT !.pc = pc, !.job = run[w].job]
    <2>1. x \in RunState /\ x.pc = pc /\ x.job = run[w].job
        BY <1>1, MatchingAssumption
           DEF IdleRun, RunState, Job, Gen, Attempt, SchemaRecord, MatchingAssumption
    <2>2. run' = [run EXCEPT ![w] = x]
        BY <1>5 DEF Goto
    <2> HIDE DEF x
    <2> QED BY <1>2, <1>5, <2>1, <2>2
<1>6. (Owns(w) /\ ~Exhausted(b)) \/ (\E pc \in {"final", "stop"} : Goto(w, pc) /\ (Owns(w) => Exhausted(b)))
    BY DEF Scan
<1> QED BY <1>4, <1>5, <1>6

LEMMA ScanStep ==
    ASSUME MatchingInv, NEW w \in Worker, Scan(w)
    PROVE  MatchingInv'
<1> PICK s, b : s = run[w].schema /\ b = NextBatch(w)
    OBVIOUS
<1>1. s \in SchemaRecord /\ SchemaOk(s) /\ run[w].pc = "scan"
    BY DEF Scan, MatchingInv, Types, SchemasOk, RunState
<1>2. b \in SUBSET Live /\ b \in SUBSET Record
    BY BatchOf DEF MatchingInv, Live
<1>3. UNCHANGED <<rec, gen, version, schema, job>>
    BY DEF Scan, rulesVars
<1>4. NewLookup(s, b) = BatchLookup(w) /\ NewBlock(s, b) = BatchBlock(w)
    BY <1>3 DEF NewLookup, NewBlock, BatchLookup, BatchBlock
<1>5. Materialized(s, b)
    <2>1. /\ BatchFits(w)
          /\ lookup' = Outside(lookup, b) \cup BatchLookup(w)
          /\ block' = Outside(block, b) \cup BatchBlock(w)
          /\ lagging' = IF s.version = version THEN lagging \ b ELSE lagging \cup b
        BY DEF Scan
    <2>2. \A r \in b : rec'[r] \in Value
        BY <1>2, <1>3 DEF MatchingInv, Types, Live
    <2> QED BY <1>3, <1>4, <2>1, <2>2 DEF Materialized, BatchFits, Outside
<1>6. /\ KeysSound' /\ KeysComplete'
      /\ \A k \in lookup' \cup block' : k[1] \in Gen /\ k[3] \in Record
      /\ \A g \in Gen, q \in Live' \ lagging' :
             gen[g].state = "pending" /\ (q \in b \/ (q \in Live \ lagging /\ HasRow(g, q))) => HasRow(g, q)'
      /\ \A q \in Live' \ lagging' : q \in b \/ q \in Live \ lagging
    BY <1>1, <1>2, <1>5, MaterializedKeys
<1>7. PICK x \in RunState :
              /\ run' = [run EXCEPT ![w] = x] /\ x.job = run[w].job
              /\ x.pc = "scan" => x.schema = run[w].schema
              /\ Owns(w) => \A q \in Live :
                    (x.pc = "final" \/ (x.pc = "scan" /\ q <= x.after)) => q <= run[w].after \/ q \in b
    BY ScannedTo
<1>8. run' \in [Worker -> RunState] /\ \A v \in Worker : run'[v] = IF v = w THEN x ELSE run[v]
    BY <1>7 DEF MatchingInv, Types
<1>9. RulesInv' /\ \A t : SchemaOk(t) => SchemaOk(t)'
    BY <1>3, RulesStay
<1>10. SchemasOk'
    <2>1. \A p \in Proc : SchemaOk(schema[p])'
        BY <1>3, <1>9 DEF MatchingInv, SchemasOk, SchemaOk
    <2>2. ASSUME NEW v \in Worker, run'[v].pc = "scan" PROVE SchemaOk(run[v].schema)'
        <3> PICK t : t = run'[v].schema
            OBVIOUS
        <3>1. SchemaOk(t)
            BY <1>1, <1>7, <1>8, <2>2 DEF MatchingInv, SchemasOk
        <3> QED BY <1>9, <3>1 DEF SchemaOk
    <2> QED BY <2>1, <2>2 DEF SchemasOk
<1>11. Types'
    BY <1>3, <1>6, <1>8 DEF MatchingInv, Types
<1>12. Scanned'
    <2> SUFFICES ASSUME NEW v \in Worker, Owns(v)', Pending(v)', NEW q \in Live' \ lagging', Passed(v, q)'
                 PROVE  HasRow(Target(v), q)'
        BY DEF Scanned
    <2>1. run'[v].job = run[v].job
        BY <1>7, <1>8
    <2>2. Owns(v) /\ Pending(v) /\ Target(v)' = Target(v) /\ Target(v) \in Gen
        BY <1>3, <2>1 DEF Owns, Pending, Target, CurrentJob, MatchingInv, Types, RunState, Job
    <2>3. gen[Target(v)].state = "pending"
        BY <2>2 DEF Pending
    <2>4. q \in Live
        BY <1>3 DEF Live
    <2>5. q \in b \/ Passed(v, q)
        <3>1. CASE v = w
            BY <1>1, <1>7, <1>8, <2>2, <2>4, <3>1 DEF Passed
        <3>2. CASE v # w
            BY <1>8, <3>2 DEF Passed
        <3> QED BY <3>1, <3>2
    <2>6. q \in b \/ (q \in Live \ lagging /\ HasRow(Target(v), q))
        BY <1>6, <2>2, <2>5 DEF MatchingInv, Scanned
    <2> PICK g : g = Target(v)
        OBVIOUS
    <2>7. HasRow(g, q)'
        BY <1>6, <2>2, <2>3, <2>6
    <2> QED BY <2>2, <2>7 DEF HasRow, KeyIn
<1> QED BY <1>6, <1>9, <1>10, <1>11, <1>12 DEF MatchingInv

-----------------------------------------------------------------------------
(* Steps that change the rules                                             *)

LEMMA ActiveBecomes ==
    ASSUME NEW a \in Gen, \A g \in Gen : IsActive(g)' <=> g = a
    PROVE  Active' = a /\ OneActive'
<1> DEFINE S == {g \in Gen : gen'[g].state = "active"}
<1>1. S = {a}
    BY DEF IsActive
<1>2. Active' = The(S)
    BY DEF Active, The
<1> HIDE DEF S
<1>3. Active' = a
    BY <1>1, <1>2 DEF The
<1> QED BY <1>3 DEF OneActive

\* Generations D are dropped, others go on or begin, and runs lose the pending generation.
RuleChange(D) ==
    /\ gen' \in [Gen -> GenRow] /\ RulesInv'
    /\ UNCHANGED <<rec, lagging, schema>> /\ lookup' = {k \in lookup : k[1] \notin D}
    /\ \A k \in block' : k[1] = Active' /\ k[1] \in Gen /\ k[3] \in Record
    /\ \A g \in Gen \ D : Exists(g) => Exists(g)' /\ gen'[g].rule = gen[g].rule
    /\ \A g \in Gen : gen[g].state \in {"active", "gone"} => gen'[g].state \in {"active", "gone"}
    /\ version' = version + 1 \/ (version' = version /\ Stored' = Stored)
    /\ job' \in [Job -> JobRow] /\ run' \in [Worker -> RunState]
    /\ \A w \in Worker : run'[w] = run[w] \/ run'[w].pc = "idle"
    /\ \A w \in Worker : ~(Owns(w)' /\ Pending(w)')
    /\ KeysComplete'

LEMMA RuleStep ==
    ASSUME MatchingInv, NEW D \in SUBSET Gen, RuleChange(D)
    PROVE  MatchingInv'
<1> USE DEF RuleChange
<1>1. version \in Nat /\ version' \in Nat
    BY DEF MatchingInv, Types
<1>2. ASSUME NEW t, SchemaOk(t) PROVE SchemaOk(t)'
    BY <1>1, <1>2 DEF SchemaOk
<1>3. SchemasOk'
    <2>1. ASSUME NEW p \in Proc PROVE SchemaOk(schema[p])'
        <3> PICK t : t = schema[p]
            OBVIOUS
        <3>1. SchemaOk(t)'
            BY <1>2 DEF MatchingInv, SchemasOk
        <3> QED BY <3>1 DEF SchemaOk
    <2>2. ASSUME NEW w \in Worker, run'[w].pc = "scan" PROVE SchemaOk(run[w].schema)'
        <3> PICK t : t = run[w].schema
            OBVIOUS
        <3>1. run'[w] = run[w]
            BY <2>2
        <3>2. SchemaOk(t)
            BY <2>2, <3>1 DEF MatchingInv, SchemasOk
        <3>3. SchemaOk(t)'
            BY <1>2, <3>2
        <3> QED BY <3>1, <3>3 DEF SchemaOk
    <2> QED BY <2>1, <2>2 DEF SchemasOk
<1>4. KeysSound'
    <2>1. ASSUME NEW k \in lookup'
          PROVE  Exists(k[1])' /\ k[3] \in Live' /\ (k[2] = KeyIn(k[1], rec[k[3]]))'
        <3>1. k \in lookup /\ k[1] \in Gen \ D
            BY DEF MatchingInv, Types
        <3>2. Exists(k[1]) /\ k[3] \in Live /\ k[2] = KeyIn(k[1], rec[k[3]])
            BY <3>1 DEF MatchingInv, KeysSound
        <3> QED BY <3>1, <3>2 DEF KeyIn, Live
    <2> QED BY <2>1 DEF KeysSound
<1>5. Types'
    BY <1>1 DEF MatchingInv, Types
<1>6. Scanned'
    BY DEF Scanned
<1> QED BY <1>3, <1>4, <1>5, <1>6 DEF MatchingInv

\* The active generation stays, and the rows of it stay.
LEMMA ActiveStays ==
    ASSUME MatchingInv, UNCHANGED <<rec, lagging>>, Active' = Active, gen'[Active].rule = gen[Active].rule,
           NEW D \in SUBSET Gen, Active \notin D,
           lookup' = {k \in lookup : k[1] \notin D}, block' = {k \in block : k[1] \notin D}
    PROVE  /\ KeysComplete'
           /\ \A k \in block' : k[1] = Active' /\ k[1] \in Gen /\ k[3] \in Record
<1>1. KeysComplete'
    BY DEF MatchingInv, KeysComplete, KeyIn, Live
<1>2. \A k \in block : k[1] = Active /\ k[1] \in Gen /\ k[3] \in Record
    BY DEF MatchingInv, KeysSound, Types
<1> QED BY <1>1, <1>2

LEMMA RetiredIs ==
    ASSUME Types, NEW G
    PROVE  /\ Retired(G) \in [Gen -> GenRow]
           /\ \A g \in Gen : /\ g \in G => Retired(G)[g].state = "gone"
                             /\ g \notin G => Retired(G)[g] = gen[g]
<1>1. ASSUME NEW g \in Gen
      PROVE  /\ Retired(G)[g] \in GenRow
             /\ g \in G => Retired(G)[g].state = "gone"
             /\ g \notin G => Retired(G)[g] = gen[g]
    <2>1. gen[g] \in GenRow
        BY DEF Types
    <2>2. [gen[g] EXCEPT !.state = "gone"] \in GenRow /\ [gen[g] EXCEPT !.state = "gone"].state = "gone"
        BY <2>1 DEF GenRow
    <2> QED BY <2>1, <2>2 DEF Retired
<1>2. Retired(G) = [g \in Gen |-> Retired(G)[g]]
    BY DEF Retired
<1> QED BY <1>1, <1>2

LEMMA NextGenIsFresh ==
    ASSUME Types, Fresh # {}
    PROVE  NextGen \in Gen /\ gen[NextGen].state = "absent" /\ ~Exists(NextGen)
<1>1. Fresh \in SUBSET Nat /\ Fresh \subseteq Gen
    BY MatchingAssumption DEF Fresh, Gen, MatchingAssumption
<1>2. NextGen \in Fresh
    BY <1>1, SmallestExists DEF NextGen
<1> QED BY <1>1, <1>2 DEF Fresh, Exists

LEMMA KeepActiveStep ==
    ASSUME MatchingInv, NEW rule, KeepActive(rule)
    PROVE  MatchingInv'
<1> PICK a, d : a = Active /\ d = Replacement
    OBVIOUS
<1>1. /\ a \in Gen /\ IsActive(a) /\ (\A g \in Gen : IsActive(g) => g = a)
      /\ d \in Gen /\ Replacing(d) /\ (\A g \in Gen : Replacing(g) => g = d)
    BY ActiveIs, ReplacementIs DEF KeepActive, MatchingInv, RulesInv
<1>2. /\ gen' = Retired({d}) /\ version' = version + 1
      /\ lookup' = {k \in lookup : k[1] \notin {d}} /\ block' = {k \in block : k[1] \notin {d}}
      /\ UNCHANGED <<rec, lagging, schema, job, run>>
    BY DEF KeepActive, Bumped, DropGenerations
<1>3. gen' \in [Gen -> GenRow] /\ \A g \in Gen : /\ g = d => gen'[g].state = "gone"
                                                 /\ g # d => gen'[g] = gen[g]
    BY <1>2, RetiredIs DEF MatchingInv
<1>4. a # d
    BY <1>1 DEF IsActive, Replacing
<1>5. \A g \in Gen : IsActive(g)' <=> g = a
    BY <1>1, <1>3, <1>4 DEF IsActive
<1>6. \A g \in Gen : ~Replacing(g)'
    BY <1>1, <1>3 DEF Replacing
<1>7. \A g \in Gen \ {d} : Exists(g) => Exists(g)' /\ gen'[g].rule = gen[g].rule
    BY <1>3 DEF Exists
<1>8. Active' = a /\ OneActive'
    BY <1>1, <1>5, ActiveBecomes
<1>9. RulesInv'
    BY <1>3, <1>6, <1>8 DEF MatchingInv, RulesInv, OneReplacement, Ruled, Exists
<1>10. KeysComplete' /\ \A k \in block' : k[1] = Active' /\ k[1] \in Gen /\ k[3] \in Record
    BY <1>1, <1>2, <1>3, <1>4, <1>8, ActiveStays
<1>11. \A w \in Worker : ~Pending(w)'
    <2>1. \A w \in Worker : Target(w)' \in Gen
        BY <1>2 DEF MatchingInv, Types, RunState, Target, Job
    <2> QED BY <1>6, <2>1 DEF Pending, Replacing
<1>12. \A g \in Gen : gen[g].state \in {"active", "gone"} => gen'[g].state \in {"active", "gone"}
    BY <1>3
<1>13. RuleChange({d})
    BY <1>2, <1>3, <1>7, <1>9, <1>10, <1>11, <1>12 DEF RuleChange, MatchingInv, Types
<1> QED BY <1>1, <1>13, RuleStep

\* The generation that begins.
LEMMA NewGenIs ==
    ASSUME Types, Fresh # {}, NEW D \in SUBSET Gen, NEW n, n = NextGen, n \notin D, NEW x \in GenRow,
           gen' = [Retired(D) EXCEPT ![n] = x]
    PROVE  /\ gen' \in [Gen -> GenRow] /\ gen'[n] = x
           /\ \A g \in Gen : /\ g \in D => gen'[g].state = "gone"
                             /\ g \notin D /\ g # n => gen'[g] = gen[g]
<1>1. n \in Gen
    BY NextGenIsFresh
<1> PICK R : R = Retired(D)
    OBVIOUS
<1>2. R \in [Gen -> GenRow] /\ \A g \in Gen : /\ g \in D => R[g].state = "gone"
                                              /\ g \notin D => R[g] = gen[g]
    BY RetiredIs
<1>3. gen' = [R EXCEPT ![n] = x]
    OBVIOUS
<1> QED BY <1>1, <1>2, <1>3

LEMMA StartReplacementStep ==
    ASSUME MatchingInv, NEW rule \in Rule, StartReplacement(rule)
    PROVE  MatchingInv'
<1> PICK a, n, D : a = Active /\ n = NextGen /\ D = {Replacement} \ {0}
    OBVIOUS
<1> DEFINE x == [state |-> "pending", rule |-> rule, attempt |-> 0]
<1>1. /\ a \in Gen /\ IsActive(a) /\ (\A g \in Gen : IsActive(g) => g = a)
      /\ D \in SUBSET Gen /\ (\A g \in D : Replacing(g)) /\ (\A g \in Gen : Replacing(g) => g \in D)
    <2>1. 0 \notin Gen
        BY DEF Gen
    <2> QED BY <2>1, ActiveIs, ReplacementIs DEF MatchingInv, RulesInv
<1>2. /\ gen' = [Retired(D) EXCEPT ![n] = x] /\ version' = version + 1 /\ Fresh # {}
      /\ lookup' = {k \in lookup : k[1] \notin D} /\ block' = {k \in block : k[1] \notin D}
      /\ job' = [job EXCEPT ![<<n, 0>>].status = "queued"]
      /\ UNCHANGED <<rec, lagging, schema, run>>
    BY DEF StartReplacement, Bumped, DropGenerations
<1>3. n \in Gen /\ gen[n].state = "absent" /\ ~Exists(n) /\ n \notin D /\ n # a
    BY <1>1, <1>2, NextGenIsFresh DEF MatchingInv, IsActive, Replacing
<1>4. x \in GenRow /\ x.state = "pending" /\ x.rule = rule /\ x.attempt = 0
    BY MatchingAssumption DEF MatchingAssumption, GenRow, Attempt
<1> HIDE DEF x
<1>5. /\ gen' \in [Gen -> GenRow] /\ gen'[n] = x
      /\ \A g \in Gen : /\ g \in D => gen'[g].state = "gone"
                        /\ g \notin D /\ g # n => gen'[g] = gen[g]
    <2>1. Types
        BY DEF MatchingInv
    <2> PICK y : y = x
        OBVIOUS
    <2>2. gen' = [Retired(D) EXCEPT ![n] = y] /\ Fresh # {} /\ n = NextGen
        BY <1>2
    <2> QED BY <1>1, <1>3, <1>4, <2>1, <2>2, NewGenIs
<1>6. a \notin D
    BY <1>1 DEF IsActive, Replacing
<1>7. \A g \in Gen : IsActive(g)' <=> g = a
    BY <1>1, <1>3, <1>4, <1>5, <1>6 DEF IsActive
<1>8. \A g \in Gen : Replacing(g)' => g = n
    BY <1>1, <1>5 DEF Replacing
<1>9. \A g \in Gen \ D : Exists(g) => Exists(g)' /\ gen'[g].rule = gen[g].rule
    BY <1>3, <1>5 DEF Exists
<1>10. Active' = a /\ OneActive'
    BY <1>1, <1>7, ActiveBecomes
<1>11. Ruled'
    BY <1>4, <1>5 DEF MatchingInv, RulesInv, Ruled, Exists
<1>12. KeysComplete' /\ \A k \in block' : k[1] = Active' /\ k[1] \in Gen /\ k[3] \in Record
    <2>1. gen'[a].rule = gen[a].rule
        BY <1>1, <1>3, <1>5, <1>6
    <2> QED BY <1>1, <1>2, <1>6, <1>10, <2>1, ActiveStays
<1>13. job' \in [Job -> JobRow] /\ job'[<<n, 0>>].status = "queued"
    <2>1. <<n, 0>> \in Job /\ job \in [Job -> JobRow]
        BY <1>3, MatchingAssumption DEF Job, Attempt, MatchingAssumption, MatchingInv, Types
    <2>2. [job[<<n, 0>>] EXCEPT !.status = "queued"] \in JobRow
        BY <2>1 DEF JobRow
    <2>3. job' = [job EXCEPT ![<<n, 0>>] = [job[<<n, 0>>] EXCEPT !.status = "queued"]]
        BY <1>2
    <2> QED BY <2>1, <2>2, <2>3 DEF JobRow
<1>14. \A w \in Worker : ~(Owns(w)' /\ Pending(w)')
    <2> SUFFICES ASSUME NEW w \in Worker, Owns(w)', Pending(w)' PROVE FALSE
        OBVIOUS
    <2>1. Target(w)' \in Gen
        BY <1>2 DEF MatchingInv, Types, RunState, Target, Job
    <2>2. Target(w)' = n
        BY <1>8, <2>1 DEF Pending, Replacing
    <2>3. run'[w].job = <<n, 0>>
        BY <1>4, <1>5, <2>2 DEF Pending, CurrentJob
    <2> QED BY <1>13, <2>3 DEF Owns
<1>15. \A g \in Gen : gen[g].state \in {"active", "gone"} => gen'[g].state \in {"active", "gone"}
    BY <1>3, <1>5
<1>16. RuleChange(D)
    BY <1>2, <1>5, <1>8, <1>9, <1>10, <1>11, <1>12, <1>13, <1>14, <1>15
       DEF RuleChange, RulesInv, OneReplacement, MatchingInv, Types
<1> QED BY <1>1, <1>16, RuleStep

LEMMA ReplaceAtOnceStep ==
    ASSUME MatchingInv, NEW rule \in Rule, ReplaceAtOnce(rule)
    PROVE  MatchingInv'
<1> PICK n, D : n = NextGen /\ D = {Active, Replacement} \ {0}
    OBVIOUS
<1> DEFINE x == [state |-> "active", rule |-> rule, attempt |-> 0]
<1>1. /\ D \in SUBSET Gen /\ (\A g \in D : IsActive(g) \/ Replacing(g))
      /\ \A g \in Gen : IsActive(g) \/ Replacing(g) => g \in D
    <2>1. 0 \notin Gen
        BY DEF Gen
    <2> QED BY <2>1, ActiveIs, ReplacementIs DEF MatchingInv, RulesInv
<1>2. /\ gen' = [Retired(D) EXCEPT ![n] = x] /\ version' = version + 1 /\ Fresh # {}
      /\ lookup' = {k \in lookup : k[1] \notin D} /\ block' = {k \in block : k[1] \notin D}
      /\ UNCHANGED <<rec, lagging, schema, job, run>>
      /\ Live = {} \/ ~Keyed(rule)
    BY DEF ReplaceAtOnce, Bumped, DropGenerations
<1>3. n \in Gen /\ gen[n].state = "absent" /\ ~Exists(n) /\ n \notin D
    BY <1>1, <1>2, NextGenIsFresh DEF MatchingInv, IsActive, Replacing
<1>4. x \in GenRow /\ x.state = "active" /\ x.rule = rule
    BY MatchingAssumption DEF MatchingAssumption, GenRow, Attempt
<1> HIDE DEF x
<1>5. /\ gen' \in [Gen -> GenRow] /\ gen'[n] = x
      /\ \A g \in Gen : /\ g \in D => gen'[g].state = "gone"
                        /\ g \notin D /\ g # n => gen'[g] = gen[g]
    <2>1. Types /\ Fresh # {} /\ n = NextGen /\ n \notin D
        BY <1>2, <1>3 DEF MatchingInv
    <2>2. D \in SUBSET Gen /\ x \in GenRow /\ gen' = [Retired(D) EXCEPT ![n] = x]
        BY <1>1, <1>2, <1>4
    <2> QED BY <2>1, <2>2, NewGenIs
<1>6. \A g \in Gen : IsActive(g)' <=> g = n
    BY <1>1, <1>4, <1>5 DEF IsActive
<1>7. \A g \in Gen : ~Replacing(g)'
    BY <1>1, <1>4, <1>5 DEF Replacing
<1>8. \A g \in Gen \ D : Exists(g) => Exists(g)' /\ gen'[g].rule = gen[g].rule
    BY <1>3, <1>5 DEF Exists
<1>9. Active' = n /\ OneActive'
    BY <1>3, <1>6, ActiveBecomes
<1>10. Ruled'
    BY <1>4, <1>5 DEF MatchingInv, RulesInv, Ruled, Exists
<1>11. block' = {}
    <2>1. \A k \in block : k[1] = Active
        BY DEF MatchingInv, KeysSound
    <2>2. Active \in D
        BY <1>1, ActiveIs DEF MatchingInv, RulesInv
    <2> QED BY <1>2, <2>1, <2>2
<1>12. KeysComplete'
    <2> SUFFICES ASSUME NEW r \in Live' PROVE KeyIn(n, rec[r])' = None
        BY <1>9 DEF KeysComplete
    <2>1. r \in Live /\ rec'[r] \in Value
        BY <1>2 DEF Live, MatchingInv, Types
    <2>2. gen'[n].rule = rule
        BY <1>4, <1>5
    <2> QED BY <1>2, <2>1, <2>2 DEF Keyed, KeyIn
<1>13. \A w \in Worker : ~Pending(w)'
    <2>1. \A w \in Worker : Target(w)' \in Gen
        BY <1>2 DEF MatchingInv, Types, RunState, Target, Job
    <2> QED BY <1>7, <2>1 DEF Pending, Replacing
<1>14. \A g \in Gen : gen[g].state \in {"active", "gone"} => gen'[g].state \in {"active", "gone"}
    BY <1>3, <1>4, <1>5
<1>15. RuleChange(D)
    BY <1>2, <1>5, <1>7, <1>8, <1>9, <1>10, <1>11, <1>12, <1>13, <1>14
       DEF RuleChange, RulesInv, OneReplacement, MatchingInv, Types
<1> QED BY <1>1, <1>15, RuleStep

\* A replacement stays one, in another state.
LEMMA ReplacementStays ==
    ASSUME Types, RulesInv, NEW g \in Gen, Replacing(g), NEW x \in GenRow, gen' = [gen EXCEPT ![g] = x],
           x.state \in {"pending", "blocked"}, x.rule = gen[g].rule, version' = version
    PROVE  /\ gen' \in [Gen -> GenRow] /\ gen'[g] = x /\ \A h \in Gen \ {g} : gen'[h] = gen[h]
           /\ RulesInv' /\ Active' = Active /\ Stored' = Stored
           /\ \A h \in Gen : Replacing(h)' => h = g
           /\ \A h \in Gen : Exists(h) => Exists(h)' /\ gen'[h].rule = gen[h].rule
           /\ \A h \in Gen : gen[h].state \in {"active", "gone"} => gen'[h].state \in {"active", "gone"}
<1>1. gen' \in [Gen -> GenRow] /\ gen'[g] = x /\ \A h \in Gen \ {g} : gen'[h] = gen[h]
    BY DEF Types
<1>2. \A h \in Gen : IsActive(h)' <=> IsActive(h)
    BY <1>1 DEF IsActive, Replacing
<1>3. \A h \in Gen : Replacing(h)' <=> Replacing(h)
    BY <1>1 DEF Replacing
<1>4. Active' = Active /\ Replacement' = Replacement
    <2> DEFINE A == {h \in Gen : gen[h].state = "active"}
               P == {h \in Gen : gen[h].state \in {"pending", "blocked"}}
    <2>1. A' = A /\ P' = P
        BY <1>2, <1>3 DEF IsActive, Replacing
    <2>2. Active = The(A) /\ Active' = The(A') /\ Replacement = The(P) /\ Replacement' = The(P')
        BY DEF Active, Replacement, The
    <2> HIDE DEF A, P
    <2> QED BY <2>1, <2>2
<1>5. OneActive'
    BY <1>2 DEF RulesInv, OneActive
<1>6. OneReplacement' /\ \A h \in Gen : Replacing(h)' => h = g
    BY <1>3 DEF RulesInv, OneReplacement
<1>7. \A h \in Gen : (Exists(h)' <=> Exists(h)) /\ (Exists(h) => gen'[h].rule = gen[h].rule)
    BY <1>1 DEF Exists, Replacing
<1>8. Ruled'
    BY <1>7 DEF RulesInv, Ruled
<1>9. \A h \in Gen : gen[h].state \in {"active", "gone"} => gen'[h].state \in {"active", "gone"}
    BY <1>1 DEF Replacing
<1> QED BY <1>1, <1>4, <1>5, <1>6, <1>7, <1>8, <1>9 DEF RulesInv, Stored

LEMMA RetryStep ==
    ASSUME MatchingInv, NEW g \in Gen, Retry(g)
    PROVE  MatchingInv'
<1> PICK a, n, D : a = Active /\ n = gen[g].attempt + 1 /\ D = {}
    OBVIOUS
<1> DEFINE x == [gen[g] EXCEPT !.state = "pending", !.attempt = n]
<1>1. Types /\ RulesInv
    BY DEF MatchingInv
<1>2. gen[g] \in GenRow /\ Replacing(g) /\ n \in Attempt
    <2>1. gen[g] \in GenRow
        BY <1>1 DEF Types
    <2>2. gen[g].attempt \in Nat /\ gen[g].attempt < MaxAttempt /\ MaxAttempt \in Nat
        BY <2>1, MatchingAssumption DEF Retry, GenRow, Attempt, MatchingAssumption
    <2> QED BY <2>1, <2>2 DEF Retry, Replacing, Attempt
<1>3. x \in GenRow /\ x.state = "pending" /\ x.rule = gen[g].rule /\ x.attempt = n
    BY <1>2 DEF GenRow
<1>4. gen' = [gen EXCEPT ![g] = x]
    BY DEF Retry
<1> HIDE DEF x
<1>5. /\ version' = version /\ job' = [job EXCEPT ![<<g, n>>].status = "queued"]
      /\ UNCHANGED <<rec, lookup, block, lagging, schema, run>>
    BY DEF Retry, keyVars
<1>6. /\ gen' \in [Gen -> GenRow] /\ gen'[g] = x /\ \A h \in Gen \ {g} : gen'[h] = gen[h]
      /\ RulesInv' /\ Active' = Active /\ Stored' = Stored
      /\ \A h \in Gen : Replacing(h)' => h = g
      /\ \A h \in Gen : Exists(h) => Exists(h)' /\ gen'[h].rule = gen[h].rule
      /\ \A h \in Gen : gen[h].state \in {"active", "gone"} => gen'[h].state \in {"active", "gone"}
    <2> PICK y : y = x
        OBVIOUS
    <2>1. gen' = [gen EXCEPT ![g] = y]
        BY <1>4
    <2> QED BY <1>1, <1>2, <1>3, <1>5, <2>1, ReplacementStays
<1>7. a \in Gen /\ Active' = a /\ gen'[a].rule = gen[a].rule
    <2>1. a \in Gen /\ Exists(a)
        BY <1>1, ActiveIs DEF RulesInv, IsActive, Exists
    <2> QED BY <1>6, <2>1
<1>8. lookup' = {k \in lookup : k[1] \notin D} /\ block' = {k \in block : k[1] \notin D}
    BY <1>5
<1>9. KeysComplete' /\ \A k \in block' : k[1] = Active' /\ k[1] \in Gen /\ k[3] \in Record
    <2>1. D \in SUBSET Gen /\ Active \notin D /\ Active' = Active /\ gen'[Active].rule = gen[Active].rule
        BY <1>7
    <2> QED BY <1>5, <1>8, <2>1, ActiveStays
<1>10. job' \in [Job -> JobRow] /\ job'[<<g, n>>].status = "queued"
    <2>1. <<g, n>> \in Job /\ job \in [Job -> JobRow]
        BY <1>1, <1>2 DEF Job, Types
    <2>2. [job[<<g, n>>] EXCEPT !.status = "queued"] \in JobRow
        BY <2>1 DEF JobRow
    <2>3. job' = [job EXCEPT ![<<g, n>>] = [job[<<g, n>>] EXCEPT !.status = "queued"]]
        BY <1>5
    <2> QED BY <2>1, <2>2, <2>3 DEF JobRow
<1>11. \A w \in Worker : ~(Owns(w)' /\ Pending(w)')
    <2> SUFFICES ASSUME NEW w \in Worker, Owns(w)', Pending(w)' PROVE FALSE
        OBVIOUS
    <2>1. Target(w)' \in Gen
        BY <1>1, <1>5 DEF Types, RunState, Target, Job
    <2>2. Target(w)' = g
        BY <1>6, <2>1 DEF Pending, Replacing
    <2>3. run'[w].job = <<g, n>>
        BY <1>3, <1>6, <2>2 DEF Pending, CurrentJob
    <2> QED BY <1>10, <2>3 DEF Owns
<1>12. RuleChange(D)
    BY <1>1, <1>5, <1>6, <1>8, <1>9, <1>10, <1>11 DEF RuleChange, Types
<1> QED BY <1>12, RuleStep

-----------------------------------------------------------------------------
(* The end of a backfill                                                   *)

\* A run that ends completes its job and goes idle.
LEMMA SettledIs ==
    ASSUME Types, NEW w \in Worker, Settle(w), run' = [run EXCEPT ![w] = IdleRun]
    PROVE  /\ job' \in [Job -> JobRow] /\ run' \in [Worker -> RunState]
           /\ \A v \in Worker : run'[v] = run[v] \/ run'[v].pc = "idle"
<1>1. IdleRun \in RunState /\ IdleRun.pc = "idle"
    BY MatchingAssumption DEF MatchingAssumption, IdleRun, RunState, Job, Gen, Attempt, SchemaRecord
<1>2. run' \in [Worker -> RunState] /\ \A v \in Worker : run'[v] = run[v] \/ run'[v].pc = "idle"
    BY <1>1 DEF Types
<1>3. job' \in [Job -> JobRow]
    <2>1. run[w].job \in Job /\ job \in [Job -> JobRow]
        BY DEF Types, RunState
    <2>2. [job[run[w].job] EXCEPT !.status = "completed"] \in JobRow
        BY <2>1 DEF JobRow
    <2>3. job' = [job EXCEPT ![run[w].job] = [job[run[w].job] EXCEPT !.status = "completed"]] \/ job' = job
        BY DEF Settle
    <2> QED BY <2>1, <2>2, <2>3
<1> QED BY <1>2, <1>3

LEMMA BlockReplacementStep ==
    ASSUME MatchingInv, NEW w \in Worker, BlockReplacement(w)
    PROVE  MatchingInv'
<1> PICK a, g, D : a = Active /\ g = Target(w) /\ D = {}
    OBVIOUS
<1> DEFINE x == [gen[g] EXCEPT !.state = "blocked"]
<1>1. Types /\ RulesInv
    BY DEF MatchingInv
<1>2. g \in Gen /\ gen[g] \in GenRow /\ Replacing(g)
    BY <1>1 DEF Types, RunState, Target, Job, BlockReplacement, Pending, Replacing
<1>3. x \in GenRow /\ x.state = "blocked" /\ x.rule = gen[g].rule
    BY <1>2 DEF GenRow
<1>4. gen' = [gen EXCEPT ![g] = x]
    BY DEF BlockReplacement
<1> HIDE DEF x
<1>5. /\ version' = version /\ Settle(w) /\ run' = [run EXCEPT ![w] = IdleRun]
      /\ UNCHANGED <<rec, lookup, block, lagging, schema>>
    BY DEF BlockReplacement, keyVars
<1>6. /\ gen' \in [Gen -> GenRow] /\ gen'[g] = x /\ \A h \in Gen \ {g} : gen'[h] = gen[h]
      /\ RulesInv' /\ Active' = Active /\ Stored' = Stored
      /\ \A h \in Gen : Replacing(h)' => h = g
      /\ \A h \in Gen : Exists(h) => Exists(h)' /\ gen'[h].rule = gen[h].rule
      /\ \A h \in Gen : gen[h].state \in {"active", "gone"} => gen'[h].state \in {"active", "gone"}
    <2> PICK y : y = x
        OBVIOUS
    <2>1. gen' = [gen EXCEPT ![g] = y]
        BY <1>4
    <2> QED BY <1>1, <1>2, <1>3, <1>5, <2>1, ReplacementStays
<1>7. a \in Gen /\ Active' = a /\ gen'[a].rule = gen[a].rule
    <2>1. a \in Gen /\ Exists(a)
        BY <1>1, ActiveIs DEF RulesInv, IsActive, Exists
    <2> QED BY <1>6, <2>1
<1>8. lookup' = {k \in lookup : k[1] \notin D} /\ block' = {k \in block : k[1] \notin D}
    BY <1>5
<1>9. KeysComplete' /\ \A k \in block' : k[1] = Active' /\ k[1] \in Gen /\ k[3] \in Record
    <2>1. D \in SUBSET Gen /\ Active \notin D /\ Active' = Active /\ gen'[Active].rule = gen[Active].rule
        BY <1>7
    <2> QED BY <1>5, <1>8, <2>1, ActiveStays
<1>10. /\ job' \in [Job -> JobRow] /\ run' \in [Worker -> RunState]
       /\ \A v \in Worker : run'[v] = run[v] \/ run'[v].pc = "idle"
    BY <1>1, <1>5, SettledIs
<1>11. \A v \in Worker : ~Pending(v)'
    <2>1. \A v \in Worker : Target(v)' \in Gen
        BY <1>10 DEF RunState, Target, Job
    <2> QED BY <1>3, <1>6, <2>1 DEF Pending, Replacing
<1>12. RuleChange(D)
    BY <1>5, <1>6, <1>8, <1>9, <1>10, <1>11 DEF RuleChange
<1> QED BY <1>12, RuleStep

LEMMA ActivateStep ==
    ASSUME MatchingInv, NEW w \in Worker, Activate(w)
    PROVE  MatchingInv'
<1> PICK a, g : a = Active /\ g = Target(w)
    OBVIOUS
<1>1. Types /\ RulesInv
    BY DEF MatchingInv
<1>2. /\ a \in Gen /\ IsActive(a) /\ (\A h \in Gen : IsActive(h) => h = a)
      /\ g \in Gen /\ gen[g].state = "pending" /\ Replacing(g) /\ Owns(w) /\ Pending(w) /\ run[w].pc = "final"
      /\ \A h \in Gen : Replacing(h) => h = g
    BY <1>1, ActiveIs DEF RulesInv, OneReplacement, Types, RunState, Target, Job, Activate, Pending, Replacing
<1>3. g # a
    BY <1>2 DEF IsActive
<1>4. /\ version' = version + 1 /\ Settle(w) /\ run' = [run EXCEPT ![w] = IdleRun]
      /\ lookup' = {k \in lookup : k[1] \notin {a}}
      /\ block' = {k \in block : k[1] # a} \cup {k \in lookup : k[1] = g /\ gen[g].rule \in Blocking}
      /\ UNCHANGED <<rec, lagging, schema>>
    BY DEF Activate, Bumped
<1> PICK R : R = Retired({a})
    OBVIOUS
<1>5. R \in [Gen -> GenRow] /\ R[a].state = "gone" /\ \A h \in Gen \ {a} : R[h] = gen[h]
    BY <1>1, <1>2, RetiredIs
<1> DEFINE x == [R[g] EXCEPT !.state = "active"]
<1>6. x \in GenRow /\ x.state = "active" /\ x.rule = gen[g].rule
    <2>1. R[g] \in GenRow /\ R[g] = gen[g]
        BY <1>2, <1>3, <1>5
    <2> QED BY <2>1 DEF GenRow
<1>7. gen' = [R EXCEPT ![g] = x]
    BY DEF Activate
<1> HIDE DEF x
<1>8. /\ gen' \in [Gen -> GenRow] /\ gen'[g] = x /\ gen'[a].state = "gone"
      /\ \A h \in Gen : h # a /\ h # g => gen'[h] = gen[h]
    BY <1>2, <1>3, <1>5, <1>6, <1>7
<1>9. \A h \in Gen : IsActive(h)' <=> h = g
    BY <1>2, <1>6, <1>8 DEF IsActive
<1>10. \A h \in Gen : ~Replacing(h)'
    BY <1>2, <1>6, <1>8 DEF Replacing
<1>11. \A h \in Gen \ {a} : Exists(h) => Exists(h)' /\ gen'[h].rule = gen[h].rule
    BY <1>6, <1>8 DEF Exists
<1>12. Active' = g /\ OneActive'
    BY <1>2, <1>9, ActiveBecomes
<1>13. RulesInv'
    <2>1. Ruled'
        BY <1>1, <1>2, <1>6, <1>8 DEF RulesInv, Ruled, Exists
    <2> QED BY <1>10, <1>12, <2>1 DEF RulesInv, OneReplacement
<1>14. \A k \in block' : k \in lookup /\ k[1] = g /\ gen[g].rule \in Blocking
    BY <1>4 DEF MatchingInv, KeysSound
<1>15. KeysComplete'
    <2> SUFFICES ASSUME NEW r \in Live' \ lagging', NEW k, k = <<g, KeyIn(g, rec[r]), r>>, k[2] # None
                 PROVE  k \in lookup' /\ (gen[g].rule \in Blocking => k \in block')
        BY <1>4, <1>6, <1>8, <1>12 DEF KeysComplete, KeyIn
    <2>1. r \in Live \ lagging
        BY <1>4 DEF Live
    <2>2. HasRow(g, r)
        BY <1>2, <2>1 DEF MatchingInv, Scanned, Passed
    <2>3. k \in lookup /\ k[1] = g
        BY <2>2 DEF HasRow
    <2> QED BY <1>3, <1>4, <2>3
<1>16. \A k \in block' : k[1] = Active' /\ k[1] \in Gen /\ k[3] \in Record
    BY <1>1, <1>2, <1>12, <1>14 DEF Types
<1>17. /\ job' \in [Job -> JobRow] /\ run' \in [Worker -> RunState]
       /\ \A v \in Worker : run'[v] = run[v] \/ run'[v].pc = "idle"
    BY <1>1, <1>4, SettledIs
<1>18. \A v \in Worker : ~Pending(v)'
    <2>1. \A v \in Worker : Target(v)' \in Gen
        BY <1>17 DEF RunState, Target, Job
    <2> QED BY <1>10, <2>1 DEF Pending, Replacing
<1>19. \A h \in Gen : gen[h].state \in {"active", "gone"} => gen'[h].state \in {"active", "gone"}
    BY <1>2, <1>6, <1>8
<1>20. RuleChange({a})
    BY <1>4, <1>8, <1>11, <1>13, <1>15, <1>16, <1>17, <1>18, <1>19 DEF RuleChange
<1> QED BY <1>2, <1>20, RuleStep

-----------------------------------------------------------------------------
(* The theorems                                                            *)

LEMMA MatchingInit == Init => MatchingInv
<1> SUFFICES ASSUME Init PROVE MatchingInv
    OBVIOUS
<1>1. 1 \in Gen /\ 0 \notin Gen /\ <<1, 0>> \in Job
    BY MatchingAssumption DEF MatchingAssumption, Gen, Job, Attempt
<1> PICK rule \in FirstRule :
        gen = [g \in Gen |-> IF g = 1 THEN [NewGen EXCEPT !.state = "active", !.rule = rule] ELSE NewGen]
    BY DEF Init
<1>2. /\ NewGen \in GenRow /\ NewGen.state = "absent"
      /\ [NewGen EXCEPT !.state = "active", !.rule = rule] \in GenRow
      /\ [NewGen EXCEPT !.state = "active", !.rule = rule].state = "active"
      /\ [NewGen EXCEPT !.state = "active", !.rule = rule].rule = rule
    <2>1. NewGen \in GenRow /\ NewGen.state = "absent"
        BY MatchingAssumption DEF MatchingAssumption, NewGen, GenRow, Attempt
    <2>2. rule \in Rule
        BY MatchingAssumption DEF MatchingAssumption
    <2>3. ASSUME NEW x \in GenRow
          PROVE  /\ [x EXCEPT !.state = "active", !.rule = rule] \in GenRow
                 /\ [x EXCEPT !.state = "active", !.rule = rule].state = "active"
                 /\ [x EXCEPT !.state = "active", !.rule = rule].rule = rule
        BY <2>2 DEF GenRow
    <2> QED BY <2>1, <2>3
<1>3. /\ gen \in [Gen -> GenRow] /\ gen[1].state = "active" /\ gen[1].rule = rule
      /\ \A g \in Gen \ {1} : gen[g].state = "absent"
    BY <1>1, <1>2
<1>4. RulesInv
    <2>1. \A g \in Gen : IsActive(g) <=> g = 1
        BY <1>3 DEF IsActive
    <2>2. \A g \in Gen : ~Replacing(g)
        BY <1>3 DEF Replacing
    <2>3. Ruled
        BY <1>3, MatchingAssumption DEF MatchingAssumption, Ruled, Exists
    <2> QED BY <1>1, <2>1, <2>2, <2>3 DEF RulesInv, OneActive, OneReplacement
<1>5. job \in [Job -> JobRow] /\ run \in [Worker -> RunState] /\ \A w \in Worker : run[w].pc = "idle"
    <2>1. NewJob \in JobRow
        BY DEF NewJob, JobRow
    <2>2. IdleRun \in RunState /\ IdleRun.pc = "idle"
        BY <1>1 DEF IdleRun, RunState, SchemaRecord
    <2> QED BY <2>1, <2>2 DEF Init
<1>6. rec = [r \in Record |-> Gone] /\ version = 1 /\ lookup = {} /\ block = {} /\ Live = {}
    BY DEF Init, Live
<1>7. SchemasOk
    <2>1. Types => SchemaOk(Stored) /\ Stored \in SchemaRecord
        BY <1>4, StoredIsOk
    <2>2. schema = [p \in Proc |-> Stored]
        BY DEF Init
    <2>3. SchemaOk(Stored)
        <3>1. Active \in Gen /\ gen[Active].state = "active"
            <4>1. {g \in Gen : gen[g].state = "active"} = {1}
                BY <1>1, <1>3
            <4> QED BY <1>1, <1>3, <4>1 DEF Active, The
        <3>2. Stored.active = Active /\ Stored.version = version
            BY DEF Stored
        <3> QED BY <1>6, <3>1, <3>2 DEF SchemaOk
    <2>4. \A p \in Proc : schema[p] = Stored
        BY <2>2
    <2> QED BY <1>5, <2>3, <2>4 DEF SchemasOk, SchemaOk
<1>8. schema \in [Proc -> SchemaRecord]
    <2>1. Active \in Gen \cup {0} /\ Replacement \in Gen \cup {0}
        BY DEF Active, Replacement, The
    <2>2. Stored \in SchemaRecord
        BY <1>6, <2>1 DEF Stored, SchemaRecord
    <2> QED BY <2>2 DEF Init
<1>9. Types
    BY <1>3, <1>5, <1>6, <1>8 DEF Types
<1>10. KeysSound /\ KeysComplete
    BY <1>6 DEF KeysSound, KeysComplete
<1>11. Scanned
    BY <1>6 DEF Scanned
<1> QED BY <1>4, <1>7, <1>9, <1>10, <1>11 DEF MatchingInv

LEMMA MatchingStep == MatchingInv /\ [Next]_vars => MatchingInv'
<1> SUFFICES ASSUME MatchingInv, [Next]_vars PROVE MatchingInv'
    OBVIOUS
<1>1. CASE UNCHANGED vars
    BY <1>1 DEF vars, MatchingInv, Types, RulesInv, OneActive, OneReplacement, Ruled, SchemasOk, SchemaOk, KeysSound,
                KeysComplete, Scanned, IsActive, Replacing, Exists, Stored, Active, Replacement, The, Live, KeyIn, Owns,
                Pending, Target, CurrentJob, Passed, HasRow
<1>2. CASE \E p \in Proc : Load(p) \/ \E r \in Record, v \in Value : Write(p, r, v)
    BY <1>2, LoadStep, WriteStep
<1>3. CASE \E r \in Record : Delete(r)
    BY <1>3, DeleteStep
<1>4. CASE \E rule \in Rule : SetRules(rule)
    BY <1>4, KeepActiveStep, StartReplacementStep, ReplaceAtOnceStep DEF SetRules
<1>5. CASE \E g \in Gen : Retry(g)
    BY <1>5, RetryStep
<1>6. CASE \E j \in Job : CancelTask(j)
    BY <1>6, TaskSteps
<1>7. CASE \E w \in Worker : Backfill(w) \/ HandlerFails(w) \/ \E j \in Job : Start(w, j)
    BY <1>7, ScanStep, ScanEndsStep, HandlerSteps, BlockReplacementStep, ActivateStep, TaskSteps DEF Backfill
<1> QED BY <1>1, <1>2, <1>3, <1>4, <1>5, <1>6, <1>7 DEF Next

LEMMA MatchingAlways == Spec => []MatchingInv
<1> QED BY MatchingInit, MatchingStep, PTL DEF Spec

\* No key row is ever stale: writes by outdated schemas, batches of a run that lost its job, retries, cancelled tasks and
\* superseded replacements leave no row of a dropped generation, of a deleted record or of a value that has changed.
THEOREM KeysNeverStale == Spec => []KeysSound
<1>1. MatchingInv => KeysSound
    BY DEF MatchingInv
<1> QED BY <1>1, MatchingAlways, PTL

\* No live record lacks its row in the active generation, except by a write under an outdated schema: a replacement is
\* not activated before every record has been scanned under it or written since.
THEOREM KeysNeverMissing == Spec => []KeysComplete
<1>1. MatchingInv => KeysComplete
    BY DEF MatchingInv
<1> QED BY <1>1, MatchingAlways, PTL

\* A cached schema that has the current version is the stored one: setting rules and the cutover bump the version, and
\* retrying or blocking a replacement, which do not, change nothing that a schema shows.
THEOREM CacheIsCurrent == Spec => []CacheCurrent
<1>1. MatchingInv => CacheCurrent
    BY DEF MatchingInv, SchemasOk, SchemaOk, CacheCurrent
<1> QED BY <1>1, MatchingAlways, PTL

-----------------------------------------------------------------------------
(* A generation and its job                                                *)

\* A run stops when its job is not its own, and it does not get that job back.
StoppedFree == \A w \in Worker : run[w].pc = "stop" => ~Owns(w)

JobFits(g) ==
    /\ gen[g].state = "pending" => job[CurrentJob(g)].status \notin {"absent", "completed"}
    /\ gen[g].state = "blocked" => job[CurrentJob(g)].status = "completed"

SettleInv == StoppedFree /\ \A g \in Gen : JobFits(g)

\* A run owns a job by its claim alone.
LEMMA StoppedStay ==
    ASSUME Types, StoppedFree,
           \A w \in Worker : run'[w].pc = "stop" => run'[w] = run[w] \/ ~Owns(w)',
           \A w \in Worker, q \in Job : job'[q] = [status |-> "running", owner |-> w]
               => job[q] = [status |-> "running", owner |-> w] \/ run'[w].pc = "scan"
    PROVE  StoppedFree'
<1> SUFFICES ASSUME NEW w \in Worker, run'[w].pc = "stop", Owns(w)' PROVE FALSE
    BY DEF StoppedFree
<1>1. run'[w] = run[w] /\ run[w].job \in Job
    BY DEF Types, RunState
<1>2. job[run[w].job] = [status |-> "running", owner |-> w]
    BY <1>1 DEF Owns
<1> QED BY <1>1, <1>2 DEF StoppedFree, Owns

LEMMA CurrentJobs ==
    ASSUME Types, NEW g \in Gen
    PROVE  CurrentJob(g) \in Job /\ CurrentJob(g)[1] = g
BY DEF Types, GenRow, CurrentJob, Job

\* Only what a step does to the state of a generation and to its job matters.
LEMMA JobsStayFit ==
    ASSUME Types, SettleInv, NEW g \in Gen, NEW q, q = CurrentJob(g), gen'[g] = gen[g],
           job[q].status = "completed" => job'[q].status = "completed",
           gen[g].state = "pending" /\ job'[q].status \in {"absent", "completed"} => job[q].status = job'[q].status
    PROVE  JobFits(g)'
<1>1. CurrentJob(g)' = q
    BY DEF CurrentJob
<1>2. JobFits(g)
    BY DEF SettleInv
<1> QED BY <1>1, <1>2 DEF JobFits

\* Records are written and scanned, and the jobs stay.
LEMMA ScanSettles ==
    ASSUME Types, SettleInv,
           \/ UNCHANGED vars
           \/ \E p \in Proc : Load(p) \/ \E r \in Record, v \in Value : Write(p, r, v)
           \/ \E r \in Record : Delete(r)
           \/ \E w \in Worker : Scan(w) \/ ScanEnds(w)
    PROVE  SettleInv'
<1>1. gen' = gen /\ job' = job
    BY DEF vars, Load, Write, Delete, Scan, ScanEnds, rulesVars
<1>2. \A w \in Worker : run'[w].pc = "stop" => run'[w] = run[w] \/ ~Owns(w)'
    <2>1. CASE run' = run
        BY <2>1
    <2>2. ASSUME NEW w \in Worker, Scan(w) \/ ScanEnds(w), NEW v \in Worker, run'[v].pc = "stop"
          PROVE  run'[v] = run[v] \/ ~Owns(v)'
        <3>1. CASE v # w
            <4>1. run'[v] = run[v]
                BY <2>2, <3>1 DEF Scan, ScanEnds, Goto, Types
            <4> QED BY <4>1
        <3>2. CASE v = w /\ Scan(w)
            <4>1. run[w].pc = "scan" /\ run[w] \in RunState
                BY <3>2 DEF Scan, Types
            <4>2. CASE Owns(w) /\ ~Exhausted(NextBatch(w))
                <5>1. PICK last : run' = [run EXCEPT ![w].after = last]
                    BY <3>2, <4>2 DEF Scan
                <5>2. run'[w] = [run[w] EXCEPT !.after = last]
                    BY <5>1 DEF Types
                <5>3. run'[w].pc = run[w].pc
                    BY <4>1, <5>2 DEF RunState
                <5> QED BY <2>2, <3>2, <4>1, <5>3
            <4>3. CASE ~(Owns(w) /\ ~Exhausted(NextBatch(w)))
                <5> PICK pc : pc = IF Owns(w) THEN "final" ELSE "stop"
                    OBVIOUS
                <5> PICK x : x = [IdleRun EXCEPT !.pc = pc, !.job = run[w].job]
                    OBVIOUS
                <5>1. run' = [run EXCEPT ![w] = x]
                    BY <3>2, <4>3 DEF Scan, Goto
                <5>2. run'[w] = x
                    BY <5>1 DEF Types
                <5>3. x.pc = pc /\ x.job = run[w].job
                    BY DEF IdleRun
                <5> QED BY <1>1, <2>2, <3>2, <5>2, <5>3 DEF Owns
            <4> QED BY <4>2, <4>3
        <3>3. CASE v = w /\ ScanEnds(w)
            <4> PICK x : x = [IdleRun EXCEPT !.pc = "final", !.job = run[w].job]
                OBVIOUS
            <4>1. run' = [run EXCEPT ![w] = x]
                BY <3>3 DEF ScanEnds, Goto
            <4>2. run'[w] = x /\ x.pc = "final"
                BY <4>1 DEF Types, IdleRun
            <4> QED BY <2>2, <3>3, <4>2
        <3> QED BY <2>2, <3>1, <3>2, <3>3
    <2> QED BY <2>1, <2>2 DEF vars, Load, Write, Delete
<1>3. StoppedFree'
    BY <1>1, <1>2, StoppedStay DEF SettleInv
<1> QED BY <1>1, <1>3, JobsStayFit DEF SettleInv

\* Jobs are cancelled, claimed, retried and completed beside their generation, which must have moved on to be completed.
LEMMA JobSettles ==
    ASSUME Types, SettleInv,
           \/ \E j \in Job : CancelTask(j) \/ \E w \in Worker : Start(w, j)
           \/ \E w \in Worker : HandlerFails(w) \/ HandlerReturns(w)
    PROVE  SettleInv'
<1>1. gen' = gen
    BY DEF CancelTask, Start, HandlerFails, HandlerReturns, rulesVars
<1>2. ASSUME NEW q \in Job, NEW x, job' = [job EXCEPT ![q] = x],
             job[q].status # "completed", x.status # "absent",
             x.status = "completed" => \A g \in Gen : gen[g].state = "pending" => CurrentJob(g) # q
      PROVE  \A g \in Gen : JobFits(g)'
    <2>1. \A p \in Job : job'[p] = IF p = q THEN x ELSE job[p]
        BY <1>2 DEF Types
    <2>2. ASSUME NEW g \in Gen PROVE JobFits(g)'
        <3> PICK p : p = CurrentJob(g)
            OBVIOUS
        <3>1. p \in Job
            BY CurrentJobs
        <3>2. /\ job[p].status = "completed" => job'[p].status = "completed"
              /\ gen[g].state = "pending" /\ job'[p].status \in {"absent", "completed"} => job[p].status = job'[p].status
            BY <1>2, <2>1, <3>1
        <3> QED BY <1>1, <3>2, JobsStayFit
    <2> QED BY <2>2
<1>3. CASE job' = job /\ \A v \in Worker : run'[v] = run[v] \/ run'[v].pc = "idle"
    <2>1. \A g \in Gen : JobFits(g)'
        BY <1>1, <1>3, JobsStayFit
    <2>2. \A v \in Worker : run'[v].pc = "stop" => run'[v] = run[v] \/ ~Owns(v)'
        BY <1>3
    <2>3. StoppedFree'
        BY <1>3, <2>2, StoppedStay DEF SettleInv
    <2> QED BY <2>1, <2>3 DEF SettleInv
<1>4. ASSUME NEW j \in Job, CancelTask(j) PROVE SettleInv'
    <2>1. job[j] \in JobRow /\ job[j].status \in {"queued", "running"}
        BY <1>4 DEF CancelTask, Types
    <2> PICK x : x = [job[j] EXCEPT !.status = "cancelled"]
        OBVIOUS
    <2>2. x.status = "cancelled"
        BY <2>1 DEF JobRow
    <2>3. job' = [job EXCEPT ![j] = x] /\ run' = run
        BY <1>4 DEF CancelTask
    <2>4. \A g \in Gen : JobFits(g)'
        BY <1>2, <2>1, <2>2, <2>3
    <2>5. \A p \in Job : job'[p].status = "running" => job'[p] = job[p]
        BY <2>2, <2>3 DEF Types
    <2>6. StoppedFree'
        BY <2>3, <2>5, StoppedStay DEF SettleInv
    <2> QED BY <2>4, <2>6 DEF SettleInv
<1>5. ASSUME NEW j \in Job, NEW w \in Worker, Start(w, j) PROVE SettleInv'
    <2> PICK x, y : /\ x = [status |-> "running", owner |-> w]
                    /\ y = [pc |-> "scan", job |-> j, after |-> 0, schema |-> Stored]
        OBVIOUS
    <2>1. job' = [job EXCEPT ![j] = x] /\ run' = [run EXCEPT ![w] = y] /\ job[j].status \in {"queued", "running"}
        BY <1>5 DEF Start
    <2>2. x.status = "running" /\ x.owner = w /\ y.pc = "scan"
        OBVIOUS
    <2>3. \A g \in Gen : JobFits(g)'
        BY <1>2, <2>1, <2>2
    <2>4. \A v \in Worker : run'[v] = IF v = w THEN y ELSE run[v]
        BY <2>1 DEF Types
    <2>5. \A v \in Worker, p \in Job : job'[p] = [status |-> "running", owner |-> v]
              => job[p] = [status |-> "running", owner |-> v] \/ run'[v].pc = "scan"
        <3>1. \A p \in Job : job'[p] = IF p = j THEN x ELSE job[p]
            BY <2>1 DEF Types
        <3>2. \A v : x = [status |-> "running", owner |-> v] => v = w
            BY <2>2
        <3> QED BY <2>2, <2>4, <3>1, <3>2
    <2>6. \A v \in Worker : run'[v].pc = "stop" => run'[v] = run[v] \/ ~Owns(v)'
        BY <2>2, <2>4
    <2>7. StoppedFree'
        BY <2>5, <2>6, StoppedStay DEF SettleInv
    <2> QED BY <2>3, <2>7 DEF SettleInv
<1>6. ASSUME NEW w \in Worker, HandlerFails(w) \/ HandlerReturns(w), Owns(w) PROVE SettleInv'
    <2> PICK q : q = run[w].job
        OBVIOUS
    <2>1. run' = [run EXCEPT ![w] = IdleRun] /\ IdleRun.pc = "idle" /\ q \in Job /\ job[q].status = "running" /\ job[q] \in JobRow
        BY <1>6 DEF HandlerFails, HandlerReturns, IdleRun, Owns, Types, RunState
    <2>2. PICK x : /\ job' = [job EXCEPT ![q] = x] /\ x.status \in {"queued", "failed", "completed"}
                   /\ x.status = "completed" => run[w].pc = "final" /\ ~Pending(w)
        <3>1. CASE HandlerFails(w)
            <4>1. PICK status \in {"queued", "failed"} : job' = [job EXCEPT ![q] = [status |-> status, owner |-> None]]
                BY <1>6, <3>1 DEF HandlerFails
            <4> PICK x : x = [status |-> status, owner |-> None]
                OBVIOUS
            <4>2. x.status \in {"queued", "failed"} /\ job' = [job EXCEPT ![q] = x]
                BY <4>1
            <4> QED BY <4>2
        <3>2. CASE HandlerReturns(w)
            <4> PICK x : x = [job[q] EXCEPT !.status = "completed"]
                OBVIOUS
            <4>1. job' = [job EXCEPT ![q] = x] /\ x.status = "completed"
                BY <1>6, <2>1, <3>2 DEF HandlerReturns, Settle, JobRow
            <4>2. run[w].pc = "final" /\ ~Pending(w)
                BY <1>6, <3>2 DEF HandlerReturns, SettleInv, StoppedFree
            <4> QED BY <4>1, <4>2
        <3> QED BY <1>6, <3>1, <3>2
    <2>3. x.status = "completed" => \A g \in Gen : gen[g].state = "pending" => CurrentJob(g) # q
        <3>1. \A g \in Gen : CurrentJob(g) = q => Target(w) = g
            BY CurrentJobs DEF Target
        <3> QED BY <2>2, <3>1 DEF Pending
    <2>4. \A g \in Gen : JobFits(g)'
        BY <1>2, <2>1, <2>2, <2>3
    <2>5. \A p \in Job : job'[p].status = "running" => job'[p] = job[p]
        BY <2>2 DEF Types
    <2>6. \A v \in Worker : run'[v].pc = "stop" => run'[v] = run[v]
        BY <2>1 DEF Types
    <2>7. StoppedFree'
        BY <2>5, <2>6, StoppedStay DEF SettleInv
    <2> QED BY <2>4, <2>7 DEF SettleInv
<1>7. ASSUME NEW w \in Worker, HandlerFails(w) \/ HandlerReturns(w), ~Owns(w) PROVE SettleInv'
    <2>1. job' = job /\ run' = [run EXCEPT ![w] = IdleRun] /\ IdleRun.pc = "idle"
        BY <1>7 DEF HandlerFails, HandlerReturns, Settle, IdleRun
    <2>2. \A v \in Worker : run'[v] = run[v] \/ run'[v].pc = "idle"
        BY <2>1 DEF Types
    <2> QED BY <1>3, <2>1, <2>2
<1> QED BY <1>4, <1>5, <1>6, <1>7

\* A new generation or attempt comes with a queued job of its own; what is retired has none to settle.
LEMMA RulesSettle ==
    ASSUME Types, SettleInv, (\E rule \in Rule : SetRules(rule)) \/ \E g \in Gen : Retry(g)
    PROVE  SettleInv'
<1>1. run' = run
    BY DEF SetRules, KeepActive, StartReplacement, ReplaceAtOnce, Retry
<1>2. ASSUME \A p \in Job : job'[p].status = "running" => job'[p] = job[p]
      PROVE  StoppedFree'
    BY <1>1, <1>2, StoppedStay DEF SettleInv
<1>3. ASSUME NEW G, gen' = Retired(G), job' = job PROVE SettleInv'
    <2>1. StoppedFree'
        BY <1>2, <1>3
    <2>2. ASSUME NEW h \in Gen PROVE JobFits(h)'
        <3>1. (h \in G => gen'[h].state = "gone") /\ (h \notin G => gen'[h] = gen[h])
            BY <1>3, RetiredIs
        <3>2. CASE h \in G
            BY <3>1, <3>2 DEF JobFits
        <3>3. CASE h \notin G
            BY <1>3, <3>1, <3>3, JobsStayFit
        <3> QED BY <3>2, <3>3
    <2> QED BY <2>1, <2>2 DEF SettleInv
<1>4. ASSUME NEW G, NEW n \in Gen, NEW x \in GenRow, gen' = [Retired(G) EXCEPT ![n] = x],
             \/ x.state = "active" /\ job' = job
             \/ x.state = "pending" /\ job' = [job EXCEPT ![<<n, x.attempt>>].status = "queued"]
      PROVE  SettleInv'
    <2> PICK R : R = Retired(G)
        OBVIOUS
    <2>1. R \in [Gen -> GenRow] /\ \A h \in Gen : (h \in G => R[h].state = "gone") /\ (h \notin G => R[h] = gen[h])
        BY RetiredIs
    <2>2. gen'[n] = x /\ \A h \in Gen \ {n} : gen'[h] = R[h]
        BY <1>4, <2>1
    <2> PICK q : q = <<n, x.attempt>>
        OBVIOUS
    <2>3. q \in Job /\ q[1] = n /\ job[q] \in JobRow
        BY <1>4 DEF GenRow, Job, Types
    <2>4. (\A p \in Job : p # q => job'[p] = job[p]) /\ (x.state = "pending" => job'[q].status = "queued")
        BY <1>4, <2>3 DEF Types, JobRow
    <2>5. \A p \in Job : job'[p].status = "running" => job'[p] = job[p]
        BY <1>4, <2>4
    <2>6. ASSUME NEW h \in Gen PROVE JobFits(h)'
        <3>1. CASE h = n
            <4>1. CurrentJob(h)' = q /\ gen'[h].state = x.state
                BY <2>2, <3>1 DEF CurrentJob
            <4> QED BY <1>4, <2>4, <4>1 DEF JobFits
        <3>2. CASE h # n /\ h \in G
            BY <2>1, <2>2, <3>2 DEF JobFits
        <3>3. CASE h # n /\ h \notin G
            <4> PICK p : p = CurrentJob(h)
                OBVIOUS
            <4>1. p \in Job /\ p # q
                BY <2>3, <3>3, CurrentJobs
            <4>2. job'[p] = job[p] /\ gen'[h] = gen[h]
                BY <2>1, <2>2, <2>4, <3>3, <4>1
            <4> QED BY <4>2, JobsStayFit
        <3> QED BY <3>1, <3>2, <3>3
    <2> QED BY <1>2, <2>5, <2>6 DEF SettleInv
<1>5. ASSUME NEW rule, KeepActive(rule) PROVE SettleInv'
    BY <1>3, <1>5 DEF KeepActive
<1>6. ASSUME NEW rule \in Rule, StartReplacement(rule) \/ ReplaceAtOnce(rule) PROVE SettleInv'
    <2> PICK n, x, y : /\ n = NextGen
                       /\ x = [state |-> "pending", rule |-> rule, attempt |-> 0]
                       /\ y = [state |-> "active", rule |-> rule, attempt |-> 0]
        OBVIOUS
    <2>1. n \in Gen
        BY <1>6, NextGenIsFresh DEF StartReplacement, ReplaceAtOnce
    <2>2. x \in GenRow /\ x.state = "pending" /\ x.attempt = 0 /\ y \in GenRow /\ y.state = "active"
        BY MatchingAssumption DEF GenRow, Attempt, MatchingAssumption
    <2>3. CASE StartReplacement(rule)
        <3>1. PICK G : gen' = [Retired(G) EXCEPT ![n] = x]
            BY <2>3 DEF StartReplacement
        <3>2. job' = [job EXCEPT ![<<n, x.attempt>>].status = "queued"]
            BY <2>2, <2>3 DEF StartReplacement
        <3> QED BY <1>4, <2>1, <2>2, <3>1, <3>2
    <2>4. CASE ReplaceAtOnce(rule)
        <3>1. PICK G : gen' = [Retired(G) EXCEPT ![n] = y]
            BY <2>4 DEF ReplaceAtOnce
        <3>2. job' = job
            BY <2>4 DEF ReplaceAtOnce
        <3> QED BY <1>4, <2>1, <2>2, <3>1, <3>2
    <2> QED BY <1>6, <2>3, <2>4
<1>7. ASSUME NEW g \in Gen, Retry(g) PROVE SettleInv'
    <2> PICK a : a = gen[g].attempt + 1
        OBVIOUS
    <2> PICK x : x = [gen[g] EXCEPT !.state = "pending", !.attempt = a]
        OBVIOUS
    <2>1. gen[g] \in GenRow /\ a \in Attempt
        <3>1. gen[g] \in GenRow
            BY DEF Types
        <3>2. gen[g].attempt \in Nat /\ gen[g].attempt < MaxAttempt /\ MaxAttempt \in Nat
            BY <1>7, <3>1, MatchingAssumption DEF Retry, GenRow, Attempt, MatchingAssumption
        <3> QED BY <3>1, <3>2 DEF Attempt
    <2>2. x \in GenRow /\ x.state = "pending" /\ x.attempt = a
        BY <2>1 DEF GenRow
    <2>3. gen' = [Retired({}) EXCEPT ![g] = x]
        <3>1. Retired({}) = gen
            BY DEF Retired, Types
        <3> QED BY <1>7, <3>1 DEF Retry
    <2>4. job' = [job EXCEPT ![<<g, x.attempt>>].status = "queued"]
        BY <1>7, <2>2 DEF Retry
    <2> QED BY <1>4, <2>2, <2>3, <2>4
<1> QED BY <1>5, <1>6, <1>7 DEF SetRules

\* The end of a backfill settles the job and the generation in one transaction.
LEMMA EndSettles ==
    ASSUME Types, SettleInv, NEW w \in Worker, BlockReplacement(w) \/ Activate(w)
    PROVE  SettleInv'
<1> PICK g, q : g = Target(w) /\ q = run[w].job
    OBVIOUS
<1>1. /\ q \in Job /\ g \in Gen /\ q[1] = g /\ job[q] \in JobRow /\ gen[g] \in GenRow
      /\ q = CurrentJob(g) /\ gen[g].state = "pending"
    BY DEF BlockReplacement, Activate, Pending, Target, Types, RunState, Job
<1> PICK x : x = [job[q] EXCEPT !.status = "completed"]
    OBVIOUS
<1>2. /\ job' = [job EXCEPT ![q] = x] /\ x.status = "completed"
      /\ run' = [run EXCEPT ![w] = IdleRun] /\ IdleRun.pc = "idle"
    BY <1>1 DEF BlockReplacement, Activate, Settle, IdleRun, JobRow
<1>3. (\A p \in Job : p # q => job'[p] = job[p]) /\ job'[q] = x
    BY <1>1, <1>2 DEF Types
<1>4. StoppedFree'
    <2>1. \A v \in Worker : run'[v].pc = "stop" => run'[v] = run[v]
        BY <1>2 DEF Types
    <2>2. \A p \in Job : job'[p].status = "running" => job'[p] = job[p]
        BY <1>2, <1>3
    <2> QED BY <2>1, <2>2, StoppedStay DEF SettleInv
<1>5. PICK G, y : /\ gen' = [Retired(G) EXCEPT ![g] = y] /\ y.state \in {"blocked", "active"}
                  /\ y.state = "blocked" => y.attempt = gen[g].attempt
    <2>1. CASE BlockReplacement(w)
        <3> PICK y : y = [gen[g] EXCEPT !.state = "blocked"]
            OBVIOUS
        <3>1. gen' = [gen EXCEPT ![g] = y] /\ y.state = "blocked" /\ y.attempt = gen[g].attempt
            BY <1>1, <2>1 DEF BlockReplacement, GenRow
        <3>2. Retired({}) = gen
            BY DEF Retired, Types
        <3> QED BY <3>1, <3>2
    <2>2. CASE Activate(w)
        <3> PICK R : R = Retired({Active})
            OBVIOUS
        <3>1. R \in [Gen -> GenRow]
            BY RetiredIs
        <3> PICK y : y = [R[g] EXCEPT !.state = "active"]
            OBVIOUS
        <3>2. gen' = [R EXCEPT ![g] = y] /\ y.state = "active"
            BY <1>1, <2>2, <3>1 DEF Activate, GenRow
        <3> QED BY <3>2
    <2> QED BY <2>1, <2>2
<1> PICK R : R = Retired(G)
    OBVIOUS
<1>6. R \in [Gen -> GenRow] /\ \A h \in Gen : (h \in G => R[h].state = "gone") /\ (h \notin G => R[h] = gen[h])
    BY RetiredIs
<1>7. gen'[g] = y /\ \A h \in Gen \ {g} : gen'[h] = R[h]
    BY <1>1, <1>5, <1>6
<1>8. ASSUME NEW h \in Gen PROVE JobFits(h)'
    <2>1. CASE h = g
        <3>1. y.state = "blocked" => CurrentJob(h)' = q
            BY <1>1, <1>5, <1>7, <2>1 DEF CurrentJob
        <3> QED BY <1>2, <1>3, <1>5, <1>7, <2>1, <3>1 DEF JobFits
    <2>2. CASE h # g /\ h \in G
        BY <1>6, <1>7, <2>2 DEF JobFits
    <2>3. CASE h # g /\ h \notin G
        <3> PICK p : p = CurrentJob(h)
            OBVIOUS
        <3>1. p \in Job /\ p # q
            BY <1>1, <2>3, CurrentJobs
        <3>2. job'[p] = job[p] /\ gen'[h] = gen[h]
            BY <1>3, <1>6, <1>7, <2>3, <3>1
        <3> QED BY <3>2, JobsStayFit
    <2> QED BY <2>1, <2>2, <2>3
<1> QED BY <1>4, <1>8 DEF SettleInv

\* Whatever is cancelled, retried, claimed again or superseded, a pending replacement never has a completed job, and a
\* blocked one always has: a job is completed in the transaction that settles its generation, or when that has moved on.
THEOREM SettleTogether == Spec => []SettledTogether
<1>1. Init => SettleInv
    <2> SUFFICES ASSUME Init PROVE SettleInv
        OBVIOUS
    <2>1. \A w \in Worker : run[w].pc # "stop"
        BY DEF Init, IdleRun
    <2>2. \A g \in Gen : gen[g].state \in {"active", "absent"}
        BY DEF Init, NewGen
    <2> QED BY <2>1, <2>2 DEF SettleInv, StoppedFree, JobFits
<1>2. MatchingInv /\ SettleInv /\ [Next]_vars => SettleInv'
    <2> SUFFICES ASSUME Types, SettleInv, [Next]_vars PROVE SettleInv'
        BY DEF MatchingInv
    <2> QED BY RulesSettle, ScanSettles, JobSettles, EndSettles DEF Next, Backfill
<1>3. SettleInv => SettledTogether
    BY DEF SettleInv, JobFits, SettledTogether
<1> QED BY <1>1, <1>2, <1>3, MatchingAlways, PTL DEF Spec

\* No rules go into force by a task that was cancelled or failed: a pending generation becomes active or blocked only
\* in the transaction of the running job of its present attempt (finalizeMatchingBackfill).
THEOREM RunningActivates == Spec => OnlyRunningActivates
<1> DEFINE Step == \A g \in Gen : gen[g].state = "pending" /\ gen'[g].state \in {"active", "blocked"}
                                   => job[CurrentJob(g)].status = "running"
<1>1. ASSUME Types, [Next]_vars, NEW g \in Gen, gen[g].state = "pending", gen'[g].state \in {"active", "blocked"}
      PROVE  job[CurrentJob(g)].status = "running"
    <2>1. gen' # gen
        BY <1>1
    <2>2. ASSUME NEW G, gen' = Retired(G) PROVE FALSE
        BY <1>1, <2>2, RetiredIs
    <2>3. ASSUME NEW G, NEW n \in Gen, NEW x, gen' = [Retired(G) EXCEPT ![n] = x], n # g PROVE FALSE
        <3> PICK R : R = Retired(G)
            OBVIOUS
        <3>1. R \in [Gen -> GenRow] /\ (g \in G => R[g].state = "gone") /\ (g \notin G => R[g] = gen[g])
            BY <1>1, RetiredIs
        <3>2. gen'[g] = R[g]
            BY <2>3, <3>1
        <3> QED BY <1>1, <3>1, <3>2
    <2>4. ASSUME NEW rule \in Rule, SetRules(rule) PROVE FALSE
        <3>1. CASE KeepActive(rule)
            BY <2>2, <3>1 DEF KeepActive
        <3>2. CASE StartReplacement(rule) \/ ReplaceAtOnce(rule)
            <4>1. NextGen \in Gen /\ NextGen # g
                BY <1>1, <3>2, NextGenIsFresh DEF StartReplacement, ReplaceAtOnce
            <4> PICK n : n = NextGen
                OBVIOUS
            <4>2. PICK G, x : gen' = [Retired(G) EXCEPT ![n] = x]
                BY <3>2 DEF StartReplacement, ReplaceAtOnce
            <4> QED BY <2>3, <4>1, <4>2
        <3> QED BY <2>4, <3>1, <3>2 DEF SetRules
    <2>5. ASSUME NEW h \in Gen, Retry(h) PROVE FALSE
        <3>1. gen[h] \in GenRow
            BY <1>1 DEF Types
        <3> PICK a : a = gen[h].attempt + 1
            OBVIOUS
        <3> PICK x : x = [gen[h] EXCEPT !.state = "pending", !.attempt = a]
            OBVIOUS
        <3>2. gen' = [gen EXCEPT ![h] = x] /\ x.state = "pending"
            BY <2>5, <3>1 DEF Retry, GenRow
        <3> QED BY <1>1, <3>2 DEF Types
    <2>6. ASSUME NEW w \in Worker, BlockReplacement(w) \/ Activate(w)
          PROVE  job[CurrentJob(g)].status = "running"
        <3> PICK t : t = Target(w)
            OBVIOUS
        <3>1. t \in Gen /\ CurrentJob(t) = run[w].job /\ job[run[w].job].status = "running"
            BY <1>1, <2>6 DEF BlockReplacement, Activate, Pending, Owns, Target, Types, RunState, Job
        <3>2. t = g
            <4> SUFFICES ASSUME t # g PROVE FALSE
                OBVIOUS
            <4>1. CASE BlockReplacement(w)
                <5>1. PICK x : gen' = [gen EXCEPT ![t] = x]
                    BY <4>1 DEF BlockReplacement
                <5> QED BY <1>1, <3>1, <5>1 DEF Types
            <4>2. CASE Activate(w)
                <5> PICK R : R = Retired({Active})
                    OBVIOUS
                <5>1. PICK x : gen' = [R EXCEPT ![t] = x]
                    BY <4>2 DEF Activate
                <5> QED BY <2>3, <3>1, <5>1
            <4> QED BY <2>6, <4>1, <4>2
        <3> QED BY <3>1, <3>2
    <2> QED BY <1>1, <2>1, <2>4, <2>5, <2>6
            DEF Next, Backfill, vars, rulesVars, Load, Write, Delete, CancelTask, Start, Scan, ScanEnds, HandlerFails, HandlerReturns
<1>2. MatchingInv /\ [Next]_vars => [Step]_vars
    BY <1>1 DEF MatchingInv
<1>3. Spec => [][Step]_vars
    BY <1>2, MatchingAlways, PTL DEF Spec
<1> QED BY <1>3 DEF OnlyRunningActivates
====
