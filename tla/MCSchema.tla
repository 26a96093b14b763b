------------------------------ MODULE MCSchema ------------------------------
(* Two object types, a relation between them that nothing owns yet, and two
   callers who define at the same time; and, apart from that, two callers who
   move a record through the stages of a pipeline; records that are queried page
   by page; and a record whose history and timeline are read while it is written. *)
EXTENDS Schema, Pipelines, Query, History, TLC

\* A behaviour is about one of the four: their states do not meet.
VARIABLE focus

Attr(o, s, kind) == [of |-> o, slug |-> s, kind |-> kind, multi |-> FALSE, rel |-> "r1", to |-> "o2",
                     options |-> {}, sources |-> {}]
Derived(s, S) == [Attr("o1", s, "derived") EXCEPT !.sources = S]
Select(s) == [Attr("o1", s, "stored") EXCEPT !.options = {"x"}]
Rel(r, from, to) == [slug |-> r, from |-> from, to |-> to, many |-> FALSE]

Empty == [object |-> [o \in Objects |-> "absent"], primary |-> [o \in Objects |-> None],
          attr |-> [a \in Cells |-> NoAttribute], rel |-> [r \in Relations |-> NoRelation],
          group |-> [g \in Groups |-> NoGroup], pipe |-> [p \in Pipelines |-> NoPipeline], lists |-> 0]
\* A new team; one with two types and the relation of a template.
Started == [AddRelation(AddObject(AddObject(Empty, "o1"), "o2"), Rel("r1", "o1", "o2")) EXCEPT
               !.attr[<<"o1", "s2">>] = [NoAttribute EXCEPT !.status = "active", !.options = {"x", "y"}],
               !.group["g1"] = [status |-> "active", of |-> "o1", at |-> 0]]
MCStarts == {Empty, Started}
MCTemplate == [objects |-> <<"o1", "o2">>, relations |-> <<Rel("r1", "o1", "o2")>>,
               attributes |-> <<Attr("o1", "s1", "reference"), Select("s2")>>,
               primary |-> [o \in Objects |-> IF o = "o1" THEN "s2" ELSE None]]
MCHeld == [a \in Cells |-> IF a = <<"o1", "s2">> THEN {"x"} ELSE {}]
MCDegree == [r \in Relations |-> 1]
MCCalls ==
    {[kind |-> "object", of |-> "o3", ds |-> <<[Attr("o3", "s1", "reference") EXCEPT !.rel = "r2"]>>, primary |-> "s1"],
     [kind |-> "archiveObject", of |-> "o2"],
     [kind |-> "primary", of |-> "o1", slug |-> "s2"],
     [kind |-> "attribute", d |-> Attr("o1", "s1", "reference")],
     [kind |-> "attribute", d |-> Attr("o1", "s3", "reference")],
     [kind |-> "evolve", of |-> "o1", slug |-> "s2", options |-> {"y"}, recompute |-> TRUE],
     [kind |-> "evolve", of |-> "o1", slug |-> "s2", options |-> None, recompute |-> FALSE],
     [kind |-> "archiveAttribute", of |-> "o1", slug |-> "s1"],
     [kind |-> "derived", d |-> Derived("s3", {"s2"})],
     [kind |-> "rederive", of |-> "o1", slug |-> "s3", sources |-> {}],
     [kind |-> "system", of |-> "o1", ds |-> <<Select("s3")>>],
     [kind |-> "relation", d |-> Rel("r2", None, "o2")],
     [kind |-> "updateRelation", slug |-> "r1", many |-> TRUE, bound |-> 1],
     [kind |-> "archiveRelation", slug |-> "r1"],
     [kind |-> "template"], [kind |-> "list"],
     [kind |-> "group", slug |-> "g2", of |-> "o1", members |-> {"s2"}],
     [kind |-> "reorder", of |-> "o1", order |-> <<"g2", "g1">>],
     [kind |-> "archiveGroup", slug |-> "g1"],
     [kind |-> "pipeline", slug |-> "p1", of |-> "o1", default |-> TRUE],
     [kind |-> "updatePipeline", slug |-> "p1", default |-> FALSE]}
\* Two derived attributes, and an update of each that reads the other.
CycleCalls ==
    {[kind |-> "derived", d |-> Derived("s1", {"s2"})], [kind |-> "derived", d |-> Derived("s3", {"s2"})],
     [kind |-> "rederive", of |-> "o1", slug |-> "s1", sources |-> {"s3"}],
     [kind |-> "rederive", of |-> "o1", slug |-> "s3", sources |-> {"s1"}]}
\* Records with two sort keys that may be missing, and a reference; a row hidden in part, and one gone.
R(a, b, refs, hidden) == [shown |-> TRUE, value |-> [a |-> a, b |-> b], refs |-> refs, hidden |-> hidden]
MCRows == {R(a, b, {}, {}) : a \in {1, 2, None}, b \in {1, None}} \cup {R(1, 1, {"t"}, {"b"})}
            \cup {[R(None, None, {}, {}) EXCEPT !.shown = FALSE]}
MCTables == [Ids -> {r \in MCRows : r.shown}]
Leaf(op, key, values) == [op |-> op, key |-> key, values |-> values, of |-> {}]
Node(op, S) == [op |-> op, of |-> S]
Low == Leaf("eq", "a", {1})
Unset == Leaf("is_null", "a", {})
High == Leaf("gte", "a", {2})
Elsewhere == Leaf("neq", "ref", {"t"})
NotLow == Node("not", {Low})
Both == Node("and", {High, Elsewhere})
Either == Node("or", {Unset, Both})
MCClauses == {Low, Unset, High, Elsewhere, NotLow, Both, Either}
MCFilters == {None, NotLow, Either}
By(key, dir) == [key |-> key, dir |-> dir]
MCSorts == {<<By("a", "asc")>>, <<By("a", "desc"), By("b", "asc")>>, <<By("b", "desc"), By("a", "desc")>>}
MCKindOf == [n \in Notes |-> IF n = 1 THEN "activity" ELSE "task"]
MCAsked == {[kinds |-> {"activity", "change", "note", "task"}, hops |-> 1, since |-> 1],
            [kinds |-> {"activity", "change"}, hops |-> 0, since |-> 2]}


\* What the parts a behaviour is not about stay at.
NoReading == /\ reading = None /\ altered = 0
             /\ table = [i \in Ids |-> R(1, 1, {}, {})]
OneRecord == /\ now = 1 /\ started = [w \in Writers |-> None] /\ states = <<>> /\ log = <<>> /\ fetched = None
             /\ held = [status |-> "absent", data |-> [f \in Facets |-> None], version |-> 0]
             /\ note = [n \in Notes |-> [live |-> TRUE, at |-> 1, about |-> {Anchor}]] /\ linked = {}
readVars == <<table, historyVars, reading, altered>>
MCInit == /\ focus \in {"definitions", "stages", "query", "history"}
          /\ StageInit
          /\ IF focus = "definitions" THEN Init ELSE Init /\ tables = Empty
          /\ IF focus = "query" THEN QueryInit /\ OneRecord
             ELSE IF focus = "history" THEN HistoryInit /\ NoReading ELSE NoReading /\ OneRecord
MCNext ==
    \/ focus = "definitions" /\ Next /\ UNCHANGED <<stageVars, readVars, focus>>
    \/ focus = "stages" /\ StageNext /\ UNCHANGED <<vars, readVars, focus>>
    \/ focus = "query" /\ QueryNext /\ UNCHANGED <<vars, stageVars, historyVars, focus>>
    \/ focus = "history" /\ HistoryNext /\ UNCHANGED <<vars, stageVars, table, focus>>
MCSpec == MCInit /\ [][MCNext]_<<vars, stageVars, readVars, focus>>
CallerSymmetry == Permutations(Callers) \cup Permutations(Writers)
=============================================================================
