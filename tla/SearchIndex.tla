---------------------------- MODULE SearchIndex ----------------------------
(***************************************************************************)
(* The search row of a record and the jobs that write it (jobs/            *)
(* record-reindex.ts, search/content.ts).                                  *)
(*                                                                         *)
(* A job reads the record, then its links, writes the words, has them      *)
(* embedded by a service outside and writes the vector; nothing holds the  *)
(* record between those steps, and two jobs of a record may run at once.   *)
(* The content is the record's text and the names at the other end of its  *)
(* links; a vector is the content it was computed from.                    *)
(***************************************************************************)
EXTENDS Pool, Integers, FiniteSets

CONSTANTS
    Texts,              \* what a record may say
    Names,              \* what the record it is linked to may be called
    MaxTurns,           \* attempts of a job
    MaxEdits            \* bound on writes

VARIABLES
    said,       \* the record's text; "deleted" or "erased" when it is gone
    linkedName, \* the name of the record linked to it
    search,     \* record_search: None or [content, embedding]
    due,        \* record.reindex jobs queued: [id, tries]
    indexing,   \* jobs that run: [job, text, content]
    edited      \* bound; also the number of the next job

searchVars == <<said, linkedName, search, due, indexing, edited>>

Gone == {"deleted", "erased"}

SearchInit ==
    /\ said \in Texts
    /\ linkedName \in Names
    /\ search = None
    /\ due = {[id |-> 0, tries |-> 0]}
    /\ indexing = [w \in Workers |-> None]
    /\ edited = 1

Changed == edited <= MaxEdits /\ edited' = edited + 1
Due == due' = due \cup {[id |-> edited, tries |-> 0]}

\* A write of the record, or of a link of it: a job in the same transaction.
Say(text) ==
    /\ Changed
    /\ said \notin Gone /\ said # text
    /\ said' = text
    /\ Due
    /\ UNCHANGED <<linkedName, search, indexing>>

\* A delete leaves the row to the job; an erasure removes it, and a job follows.
Vanish(how) ==
    /\ Changed
    /\ said # "erased" /\ said # how
    /\ said' = how
    /\ search' = IF how = "erased" THEN None ELSE search
    /\ Due
    /\ UNCHANGED <<linkedName, indexing>>

\* The other record is erased: record.reindex_neighbours asks for a job of this one.
NeighbourErased ==
    /\ Changed
    /\ linkedName # None
    /\ linkedName' = None
    /\ Due
    /\ UNCHANGED <<said, search, indexing>>

-----------------------------------------------------------------------------
Running(w, phase) == indexing[w] # None /\ indexing[w].phase = phase
Done(w) == indexing' = [indexing EXCEPT ![w] = None]

\* The record is read; when it is gone its row goes too.
ReadRecord(w, job) ==
    /\ indexing[w] = None /\ job \in due
    /\ due' = due \ {job}
    /\ indexing' = [indexing EXCEPT ![w] = [job |-> job, phase |-> IF said \in Gone THEN "removing" ELSE "read",
                                            text |-> said, content |-> None]]
    /\ UNCHANGED <<said, linkedName, search, edited>>

RemoveSearch(w) ==
    /\ Running(w, "removing")
    /\ search' = None
    /\ Done(w)
    /\ UNCHANGED <<said, linkedName, due, edited>>

\* searchLinks and buildSearchContent.
BuildContent(w) ==
    /\ Running(w, "read")
    /\ indexing' = [indexing EXCEPT ![w].phase = "built", ![w].content = <<indexing[w].text, linkedName>>]
    /\ UNCHANGED <<said, linkedName, search, due, edited>>

\* storeKeywordContent: the words at once, the vector later.
StoreContent(w) ==
    /\ Running(w, "built")
    /\ search' = [content |-> indexing[w].content, embedding |-> None]
    /\ indexing' = [indexing EXCEPT ![w].phase = "embedding"]
    /\ UNCHANGED <<said, linkedName, due, edited>>

\* Mutant: the vector goes to the row whatever it says by now.
AnyContent(w) == search # None

\* The update of storeEmbedding finds the row with the content that was embedded.
SameContent(w) == search # None /\ search.content = indexing[w].content

StoreEmbedding(w) ==
    /\ Running(w, "embedding")
    /\ search' = IF SameContent(w) THEN [search EXCEPT !.embedding = indexing[w].content] ELSE search
    /\ Done(w)
    /\ UNCHANGED <<said, linkedName, due, edited>>

\* The service or the database fails: the job is tried again, from the start.
Retry(w) ==
    /\ indexing[w] # None
    /\ due' = IF indexing[w].job.tries + 1 < MaxTurns
              THEN due \cup {[indexing[w].job EXCEPT !.tries = @ + 1]} ELSE due
    /\ Done(w)
    /\ UNCHANGED <<said, linkedName, search, edited>>

SearchNext ==
    \/ \E text \in Texts : Say(text)
    \/ \E how \in Gone : Vanish(how)
    \/ NeighbourErased
    \/ \E w \in Workers, job \in due : ReadRecord(w, job)
    \/ \E w \in Workers : \/ RemoveSearch(w) \/ BuildContent(w) \/ StoreContent(w)
                          \/ StoreEmbedding(w) \/ Retry(w)

SearchSpec == SearchInit /\ [][SearchNext]_searchVars
-----------------------------------------------------------------------------
\* A vector that is there is that of the words that are there: two jobs of one record, reading
\* different states of it, may store words and vectors in any order.
EmbeddingMatchesContent ==
    search # None => search.embedding \in {None, search.content}

\* An erased record is not found again.  Violated: a job that read the record before stores its words
\* after the erasure and after the job of the erasure.
ErasedNotSearchable ==
    (said = "erased" /\ due = {} /\ \A w \in Workers : indexing[w] = None) => search = None
=============================================================================
