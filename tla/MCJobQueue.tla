----------------------------- MODULE MCJobQueue -----------------------------
(* Small instances of JobQueue. *)
EXTENDS JobQueue, TLC

\* No constant value distinguishes slots; jobs only through HighPriority.
SlotSymmetry == Permutations(Slot)
=============================================================================
