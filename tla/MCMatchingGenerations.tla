----------------------- MODULE MCMatchingGenerations -----------------------
(* Small instances of MatchingGenerations: a rule set without keys, one    *)
(* that tells the two values apart, and one that takes them for the same.  *)
EXTENDS MatchingGenerations, TLC

MCKeyOf(rule, v) == CASE rule = "fuzzy" -> None
                      [] rule = "exact" -> v
                      [] OTHER -> "same"

Symmetry == Permutations(Worker)
=============================================================================
