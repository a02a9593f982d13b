---------------------------- MODULE MCReprocessing ----------------------------
(***************************************************************************)
(* Small instances of Reprocessing.                                        *)
(***************************************************************************)
EXTENDS Reprocessing, TLC

CONSTANTS s1, s2

OneMonth == [n \in Times |-> 0]

(* s1 has no usage in period 1.                                            *)
IdleOnce == {<<s1, 1>>}

(* Three requests are a row to check, a newer one that hides it where a    *)
(* query answers one row, and one that overlaps it.                        *)
Crowded ==
  [[e \in Events |-> 0] EXCEPT !["post"] = 3, !["crash"] = 1,
                                 !["pushError"] = 1]
Troubled == [e \in Events |-> 1]

Symmetry == Permutations(Reprocessors) \cup Permutations(Callers)
=============================================================================
