---------------------------- MODULE MCMergeUnmerge ----------------------------
(* Small instances of MergeUnmerge: four records, an ownership that cascades *)
(* (one owner each), ordered tags, and parts that belong to one whole each.  *)
EXTENDS MergeUnmerge

CONSTANT v1

Row(rel, f, t, pos) == [rel |-> rel, from |-> f, to |-> t, pos |-> pos, state |-> "active", at |-> 0]

Value1(r) == [q \in Record |-> IF q = r THEN v1 ELSE None]

MCInitialWorlds == {
    [val |-> Value1(2), link |-> <<Row("tags", 1, 3, 0), Row("tags", 2, 3, 0), Row("tags", 1, 4, 1)>>],
    [val |-> Value1(1), link |-> <<Row("owner", 1, 3, None), Row("owner", 2, 4, None)>>],
    [val |-> Value1(3), link |-> <<Row("owner", 2, 1, None), Row("tags", 2, 3, 0)>>],
    [val |-> Value1(4), link |-> <<Row("parts", 1, 3, None), Row("parts", 2, 4, None)>>] }

\* For the counterexample of KeysFollowRecords: an owned record that holds the value.
MCCascadeWorlds == {[val |-> Value1(2), link |-> <<Row("owner", 2, 1, None)>>]}

MCMaxFrom == [r \in Rel |-> 2]
MCMaxTo == [r \in Rel |-> 2]
=============================================================================
