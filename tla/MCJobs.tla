------------------------------- MODULE MCJobs -------------------------------
(* The background jobs, each with the two workers that may run it at once: a
   behaviour is about one of them, for their states do not meet.  Lists are
   taken undisturbed: the races behind DynamicLists' findings end a behaviour. *)
EXTENDS Derived, DynamicLists, StaticLists, SearchIndex, Dedup, BulkJobs, TLC

VARIABLE focus

Focuses == {"derived", "list", "page", "search", "dedup", "bulk"}
\* What the other five leave alone.
Alone(f) ==
    /\ focus = f /\ UNCHANGED focus
    /\ f # "derived" => UNCHANGED derivedVars
    /\ f # "list" => UNCHANGED listVars
    /\ f # "page" => UNCHANGED pageVars
    /\ f # "search" => UNCHANGED searchVars
    /\ f # "dedup" => UNCHANGED dedupVars
    /\ f # "bulk" => UNCHANGED bulkVars

MCInit ==
    /\ DerivedInit /\ ListInit /\ PageInit /\ SearchInit /\ DedupInit /\ BulkInit
    /\ focus \in Focuses
    /\ focus # "list" => list.def = CHOOSE d \in Definitions : TRUE
    /\ focus # "list" => kind = [m \in Everyone |-> CHOOSE k \in Kinds : TRUE]
    /\ focus # "search" => said = CHOOSE t \in Texts : TRUE
    /\ focus # "bulk" => purpose = "assert"

\* Bound on the evidence a scan finds: enough to join all candidates by one chain, or two by two.
MaxPairs == 3

MCNext ==
    \/ Alone("derived") /\ DerivedNext
    \/ Alone("list") /\ ~disturbed /\ ListNext
    \/ Alone("page") /\ PageNext
    \/ Alone("search") /\ SearchNext
    \/ Alone("dedup") /\ DedupNext /\ Cardinality(pairs') <= MaxPairs
    \/ Alone("bulk") /\ BulkNext

MCSpec == MCInit /\ [][MCNext]_<<derivedVars, listVars, pageVars, searchVars, dedupVars, bulkVars, focus>>

\* Lists with every race, for the counterexample of ReadyMeansCurrent.
MCDisturbedSpec == MCInit /\ [][Alone("list") /\ ListNext]_<<derivedVars, listVars, pageVars, searchVars, dedupVars, bulkVars, focus>>

MCIds == <<"a", "p">>
MCFourIds == <<"a", "b", "p", "q">>
MCMembers == <<"m", "n">>
MCDefinitions == {{k} : k \in Kinds}
Symmetry == Permutations(Workers) \cup Permutations(Processes) \cup Permutations(Readers) \cup Permutations(Kinds)
=============================================================================
