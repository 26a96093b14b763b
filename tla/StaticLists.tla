---------------------------- MODULE StaticLists ----------------------------
(***************************************************************************)
(* A static list read page by page while entries come and go               *)
(* (services/lists.ts addListEntries, removeListEntries, listEntries).     *)
(*                                                                         *)
(* An add holds the list's row from the position it reads to its commit,   *)
(* so it is one step.  The cursor is the position and the id of the last   *)
(* entry of a page; ids are in no order.                                   *)
(***************************************************************************)
EXTENDS Pool, Integers, FiniteSets, FiniteSetsExt, SequencesExt

CONSTANTS
    Listed,         \* records
    EntryIds,       \* ids of entries, natural numbers
    Limit,          \* entries of a page
    MaxAdds         \* bound

VARIABLES
    entries,    \* list_entries: [id, record, position]
    cursor,     \* where the reading is: "start", the last entry of a page, or "end"
    seen,       \* what the pages had, in order
    throughout, \* history: entries there from the first page on
    adds        \* bound

pageVars == <<entries, cursor, seen, throughout, adds>>

PageInit ==
    /\ entries = {}
    /\ cursor = [at |-> "start"]
    /\ seen = <<>>
    /\ throughout = {}
    /\ adds = 0

\* max(position) + 1, or 0.
Start == IF entries = {} THEN 0 ELSE Max({e.position : e \in entries}) + 1

\* createMany skips the records that are listed; the position of each is its index in the request.
Add(asked) ==
    /\ adds < MaxAdds
    /\ \E ids \in [1..Len(asked) -> EntryIds] :
          /\ IsInjective(ids) /\ \A i \in DOMAIN ids : ids[i] \notin {e.id : e \in entries}
          /\ entries' = entries \cup
                {[id |-> ids[i], record |-> asked[i], position |-> Start + i - 1] :
                    i \in {j \in DOMAIN asked : asked[j] \notin {e.record : e \in entries}}}
    /\ adds' = adds + 1
    /\ UNCHANGED <<cursor, seen, throughout>>

RemoveEntries(S) ==
    /\ \E e \in entries : e.record \in S
    /\ entries' = {e \in entries : e.record \notin S}
    /\ throughout' = throughout \cap entries'
    /\ UNCHANGED <<cursor, seen, adds>>

\* ORDER BY position, id.
Before(d, e) == d.position < e.position \/ (d.position = e.position /\ d.id < e.id)

\* Mutant: the page after the cursor begins with the entry the cursor names.
AgainFrom(last, e) == Before(last, e) \/ last = e

After(last, e) == Before(last, e)

\* One page: a row more than the limit is asked for to know whether there is another.
ReadPage ==
    /\ cursor.at # "end"
    /\ LET left == {e \in entries : cursor.at = "start" \/ After(cursor.entry, e)}
           found == SetToSortSeq(left, Before)
           page == SubSeq(found, 1, Min({Limit, Len(found)}))
       IN  /\ seen' = seen \o page
           /\ cursor' = IF Len(found) <= Limit THEN [at |-> "end"] ELSE [at |-> "inside", entry |-> Last(page)]
    /\ throughout' = IF cursor.at = "start" THEN entries ELSE throughout
    /\ UNCHANGED <<entries, adds>>

PageNext ==
    \/ \E a \in Listed : Add(<<a>>)
    \/ \E a, b \in Listed : a # b /\ Add(<<a, b>>)
    \/ \E S \in SUBSET Listed : RemoveEntries(S)
    \/ ReadPage

PageSpec == PageInit /\ [][PageNext]_pageVars
-----------------------------------------------------------------------------
\* Whatever is added and removed between the pages, a reading that reaches the end has had every
\* entry that was there throughout, and no entry twice.
ListedOnce ==
    /\ IsInjective(seen)
    /\ cursor.at = "end" => throughout \subseteq ToSet(seen)
=============================================================================
