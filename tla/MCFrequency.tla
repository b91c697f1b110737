----------------------------- MODULE MCFrequency -----------------------------
(* A small instance of FrequencyAssignment for TLC. *)
EXTENDS FrequencyAssignment, TLC

ProgramSymmetry == Permutations(Programs)

(* Searched as 28..36, as 32..40, and, too wide for 16 points, as 31..39. *)
Bands == {<<30, 34>>, <<33, 39>>, <<28, 42>>}
Restrictions == {<<33, 33>>, <<36, 37>>}
Leftovers == {-1, 99}
==============================================================================
