------------------------------- MODULE Paging -------------------------------
(***************************************************************************)
(* How the paged tools read: a page is the first rows after the cursor in  *)
(* the order of the tool, one more row is fetched to know whether another  *)
(* page follows, and the cursor is the last row handed out.  Between pages *)
(* anything may change: only the cursor is carried over.                   *)
(***************************************************************************)
EXTENDS Team, Integers, FiniteSets, SequencesExt

CONSTANTS
    Limits,     \* page sizes asked for
    MaxAlters   \* bound: changes of the data read

ASSUME PagingAssumption == Limits \subseteq Nat \ {0} /\ MaxAlters \in Nat

VARIABLES
    altered,    \* changes so far
    reading     \* None, or [args, limit, cursor, listed, steady, open]: listed is what the pages
                \* have shown, steady (history) what was there all the time since the first

StartReading(args, items) ==
    \E limit \in Limits :
        reading' = [args |-> args, limit |-> limit, cursor |-> None, listed |-> <<>>,
                    steady |-> items, open |-> TRUE]

Sorted(S, Precedes(_, _)) ==
    [k \in 1 .. Cardinality(S) |-> CHOOSE x \in S : Cardinality({y \in S : Precedes(y, x)}) = k - 1]
Fetched(found, Precedes(_, _)) ==
    LET rows == Sorted(found, Precedes) IN
    SubSeq(rows, 1, IF Len(rows) > reading.limit THEN reading.limit + 1 ELSE Len(rows))
PageOf(rows) == IF Len(rows) > reading.limit THEN Front(rows) ELSE rows

Listed(rows) ==
    LET more == Len(rows) > reading.limit IN
    reading' = [reading EXCEPT !.listed = @ \o PageOf(rows), !.open = more,
                               !.cursor = IF more THEN Last(PageOf(rows)) ELSE None]

\* What a change of the data to `items' leaves of the rows that were there all the time.
StillThere(items) ==
    reading' = [reading EXCEPT !.steady = @ \cap items]

\* Only what is changed under a reader matters: before that, any data is an initial state.
Alters == /\ reading # None
          /\ altered < MaxAlters
          /\ altered' = altered + 1

-----------------------------------------------------------------------------
\* A row that is in the result, unchanged, from the first page to the last is shown exactly once,
\* whatever comes, goes or moves around it meanwhile: rows that tie, and rows without a value in
\* a sort key, included.
SteadyShownOnce ==
    reading # None =>
        \A i \in reading.steady :
            LET times == Cardinality({k \in DOMAIN reading.listed : reading.listed[k] = i}) IN
            times <= 1 /\ (~reading.open => times = 1)
=============================================================================
