------------------------------- MODULE Dedup -------------------------------
(***************************************************************************)
(* The scan for duplicates (jobs/dedup-scan.ts): pairs from each matching  *)
(* rule, merged into groups by a disjoint set, with the evidence between   *)
(* the members.                                                            *)
(*                                                                         *)
(* Each rule is a query of its own, and the names of the records are read  *)
(* last; records go in between.  What pairs a rule finds among the records *)
(* there are is open.                                                      *)
(***************************************************************************)
EXTENDS Pool, Integers, FiniteSets, FiniteSetsExt, Functions

CONSTANTS
    Candidates,     \* records
    Rules           \* matching rules, and semantic similarity
ASSUME DedupAssumption == IsFiniteSet(Candidates)

VARIABLES
    eligible,   \* the records the scan's filter and the caller's rights select now
    pairs,      \* evidence found: the pair, as a set, and the rule
    remaining,  \* rules not yet asked
    parent,     \* DisjointSet.#parent
    united,     \* pairs the disjoint set has taken
    groups      \* the result: None, or a set of [records, evidence]

dedupVars == <<eligible, pairs, remaining, parent, united, groups>>

DedupInit ==
    /\ eligible = Candidates
    /\ pairs = {}
    /\ remaining = Rules
    /\ parent = [c \in {} |-> c]
    /\ united = {}
    /\ groups = None

\* Deleted, merged, hidden: a record leaves the set.
Disappear(c) ==
    /\ c \in eligible /\ groups = None
    /\ eligible' = eligible \ {c}
    /\ UNCHANGED <<pairs, remaining, parent, united, groups>>

\* keyedPairs, fuzzyPairs or semanticPairs: what one query returned.
QueryRule(rule, found) ==
    /\ rule \in remaining
    /\ pairs' = pairs \cup {[of |-> p, rule |-> rule] : p \in found}
    /\ remaining' = remaining \ {rule}
    /\ UNCHANGED <<eligible, parent, united, groups>>

\* find: the end of the chain of parents; a value it has not met is its own.  The code shortens the
\* chain on its way, which changes no root.
Root(c) ==
    LET up[x \in Candidates] == IF x \notin DOMAIN parent THEN x
                                ELSE IF parent[x] = x THEN x ELSE up[parent[x]]
    IN  up[c]

\* Mutant: the record itself changes its parent, and what hangs under its root is left.
LowerLink(a, b) == [x \in DOMAIN parent \cup {a, b} |-> IF x = b THEN Root(a)
                                                        ELSE IF x \in DOMAIN parent THEN parent[x] ELSE x]

\* union: the root of the right under the root of the left.
Union(a, b) == [x \in DOMAIN parent \cup {a, b} |-> IF x = Root(b) THEN Root(a)
                                                    ELSE IF x \in DOMAIN parent THEN parent[x] ELSE x]

Unite(a, b) ==
    /\ remaining = {}
    /\ \E p \in pairs : p.of = {a, b} /\ a # b
    /\ {a, b} \notin united
    /\ united' = united \cup {{a, b}}
    /\ parent' = Union(a, b)
    /\ UNCHANGED <<eligible, pairs, remaining, groups>>

\* groups: by root, without the records the summaries lack, two members at least.
Grouped(root) == {c \in DOMAIN parent : Root(c) = root}
Report ==
    /\ remaining = {} /\ groups = None
    /\ united = {p.of : p \in pairs}
    /\ groups' = {g \in {[records |-> Grouped(c) \cap eligible,
                          evidence |-> {p.rule : p \in {q \in pairs : q.of \subseteq Grouped(c)}}] :
                            c \in {Root(d) : d \in DOMAIN parent}} : Cardinality(g.records) >= 2}
    /\ UNCHANGED <<eligible, pairs, remaining, parent, united>>

DedupNext ==
    \/ \E c \in Candidates : Disappear(c)
    \/ \E rule \in Rules, found \in SUBSET kSubset(2, eligible) : QueryRule(rule, found)
    \/ \E a, b \in Candidates : Unite(a, b)
    \/ Report

DedupSpec == DedupInit /\ [][DedupNext]_dedupVars
-----------------------------------------------------------------------------
\* No pair leaves this set of records.
Closed(S) == \A p \in pairs : p.of \subseteq S \/ p.of \cap S = {}

\* A chain of pairs joins a and b, over records that may have gone since: no closed set parts them.
Joined(a, b) == \A S \in SUBSET Candidates : Closed(S) => (a \in S <=> b \in S)

\* Whatever the order the pairs were united in: two records that are still there are in one group
\* exactly when a chain of pairs joins them; no record is in two groups, none is alone in one or is shown
\* though it has gone; and the evidence of a group is that of all pairs of its chains.
GroupsAreComponents ==
    groups # None =>
        /\ \A a, b \in eligible : a # b => ((\E g \in groups : {a, b} \subseteq g.records) <=> Joined(a, b))
        /\ \A g \in groups :
              /\ g.records \subseteq eligible /\ Cardinality(g.records) >= 2
              /\ \A h \in groups : g.records \cap h.records # {} => g = h
              /\ g.evidence = {p.rule : p \in {q \in pairs : \A a \in q.of, b \in g.records : Joined(a, b)}}
=============================================================================
