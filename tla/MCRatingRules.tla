---------------------------- MODULE MCRatingRules ----------------------------
(***************************************************************************)
(* Small instances of RatingRules.                                         *)
(***************************************************************************)
EXTENDS RatingRules, TLC

Symmetry == Permutations(Callers) \cup Permutations(Costs)
=============================================================================
