------------------------------- MODULE Query --------------------------------
(***************************************************************************)
(* crm_records_query (query/compile.ts, query/run.ts): which records a     *)
(* filter selects under the logic of SQL, where a comparison with a        *)
(* missing value is neither true nor false, and the pages of them in the   *)
(* order of up to three sort keys.                                         *)
(***************************************************************************)
EXTENDS Paging

CONSTANTS
    Ids,
    Scalars,        \* stored attributes and system fields with an order
    Targets,        \* records that a reference attribute may point to
    Tables,         \* what the table may hold at first: [Ids -> Rows]
    Rows,           \* [shown, value : [Scalars -> Int or None], refs, hidden]
    Sorts,          \* sequences of [key, dir]
    Clauses,        \* what filters are made of: [op, key, values] or [op, of]
    Filters         \* None or one of them

VARIABLE table      \* the records, with what the person reading may see of each

Items == [id : Ids, row : Rows]
ASSUME QueryAssumption ==
    /\ IsFiniteSet(Ids) /\ Ids \subseteq Int
    /\ Tables \subseteq [Ids -> Rows]
    /\ None \notin Int \cup Items
    /\ \A r \in Rows : r.value \in [Scalars -> Int \cup {None}]
    /\ Sorts \subseteq Seq([key : Scalars, dir : {"asc", "desc"}])
    /\ \A s \in Sorts : Len(s) \in 1 .. 3

\* A comparison with a missing value is unknown (None).  For "contains" and "starts_with", "in" the
\* values that match.
Compared(v, f) ==
    IF v = None THEN None ELSE
    CASE f.op = "eq" -> v \in f.values
      [] f.op = "neq" -> v \notin f.values
      [] f.op = "in" -> v \in f.values
      [] f.op = "not_in" -> v \notin f.values
      [] f.op = "gt" -> \A w \in f.values : v > w
      [] f.op = "gte" -> \A w \in f.values : v >= w
      [] f.op = "lt" -> \A w \in f.values : v < w
      [] f.op = "lte" -> \A w \in f.values : v <= w
      [] f.op = "between" -> \E l, h \in f.values : l <= v /\ v <= h
AttributeTruth(row, f) ==
    CASE f.op = "is_null" -> row.value[f.key] = None
      [] f.op = "is_not_null" -> row.value[f.key] # None
      [] OTHER -> Compared(row.value[f.key], f)
\* References are looked up in the links: EXISTS is never unknown.  So are linked_to, text and quality.
ReferenceTruth(row, f) ==
    CASE f.op = "is_null" -> row.refs = {}
      [] f.op = "is_not_null" -> row.refs # {}
      [] f.op \in {"neq", "not_in"} -> row.refs \cap f.values = {}
      [] OTHER -> row.refs \cap f.values # {}

Truth(row, filter) ==
    LET truth[f \in Clauses] ==
            LET parts == {truth[g] : g \in f.of} IN
            CASE f.op = "and" -> IF FALSE \in parts THEN FALSE ELSE IF None \in parts THEN None ELSE TRUE
              [] f.op = "or" -> IF TRUE \in parts THEN TRUE ELSE IF None \in parts THEN None ELSE FALSE
              [] f.op = "not" -> IF None \in parts THEN None ELSE parts = {FALSE}
              [] OTHER -> IF f.key = "ref" THEN ReferenceTruth(row, f) ELSE AttributeTruth(row, f)
    IN  truth[filter]
FilterAttributes(filter) ==
    LET keys[f \in Clauses] == IF f.of = {} THEN {f.key} ELSE UNION {keys[g] : g \in f.of}
    IN  keys[filter]

\* rowAccess, attributeReadAccess and the filter in one WHERE: a record is left out when the person
\* may not read, on that record, an attribute the query filters or sorts by.
Used(args) == (IF args.filter = None THEN {} ELSE FilterAttributes(args.filter))
              \cup {args.sort[i].key : i \in DOMAIN args.sort}
Item(id) == [id |-> id, row |-> table[id]]
RecordSet(args) ==
    {Item(id) : id \in {r \in Ids : /\ table[r].shown
                                    /\ Used(args) \cap table[r].hidden = {}
                                    /\ args.filter = None \/ Truth(table[r], args.filter) = TRUE}}

\* ORDER BY key dir NULLS LAST, ..., id in the direction of the last key.
Beyond(v, w, dir) == IF dir = "asc" THEN v > w ELSE v < w
Sooner(v, w, dir) == v # None /\ (w = None \/ Beyond(w, v, dir))
Precedes(x, y, sort) ==
    \/ \E i \in DOMAIN sort :
          /\ \A j \in 1 .. i - 1 : x.row.value[sort[j].key] = y.row.value[sort[j].key]
          /\ Sooner(x.row.value[sort[i].key], y.row.value[sort[i].key], sort[i].dir)
    \/ /\ \A j \in DOMAIN sort : x.row.value[sort[j].key] = y.row.value[sort[j].key]
       /\ Beyond(y.id, x.id, Last(sort).dir)

\* The keyset predicate: after a value come the larger ones and the missing ones, after a missing
\* value of this key none.
\* Mutant: missing values are not seen to come after a value.
LaterNone(v, c, dir) == c # None /\ v # None /\ Beyond(v, c, dir)
Later(v, c, dir) == c # None /\ (v = None \/ Beyond(v, c, dir))
After(item, cursor, sort) ==
    \/ cursor = None
    \/ \E i \in DOMAIN sort :
          /\ \A j \in 1 .. i - 1 : item.row.value[sort[j].key] = cursor.row.value[sort[j].key]
          /\ Later(item.row.value[sort[i].key], cursor.row.value[sort[i].key], sort[i].dir)
    \/ /\ \A j \in DOMAIN sort : item.row.value[sort[j].key] = cursor.row.value[sort[j].key]
       /\ Beyond(item.id, cursor.id, Last(sort).dir)

QueryInit == table \in Tables /\ altered = 0 /\ reading = None

OpenQuery ==
    /\ reading = None
    /\ \E sort \in Sorts, filter \in Filters :
          LET args == [sort |-> sort, filter |-> filter] IN StartReading(args, RecordSet(args))
    /\ UNCHANGED <<table, altered>>
NextQueryPage ==
    /\ reading # None /\ reading.open
    /\ LET sort == reading.args.sort
           found == {i \in RecordSet(reading.args) : After(i, reading.cursor, sort)}
       IN Listed(Fetched(found, LAMBDA x, y : Precedes(x, y, sort)))
    /\ UNCHANGED <<table, altered>>
\* A record is created, changed, deleted, or its visibility or a policy changes.
Alter(id) ==
    /\ Alters
    /\ \E row \in Rows : row # table[id] /\ table' = [table EXCEPT ![id] = row]
    /\ \E args \in {reading.args} : StillThere(RecordSet(args)')

QueryNext == OpenQuery \/ NextQueryPage \/ \E id \in Ids : Alter(id)

QuerySpec == QueryInit /\ [][QueryNext]_<<table, reading, altered>>
=============================================================================
