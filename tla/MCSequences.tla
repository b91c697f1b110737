----------------------------- MODULE MCSequences -----------------------------
(* Small instances of PulseSequences for TLC. *)
EXTENDS PulseSequences, TLC

ProgramSymmetry == Permutations(Programs)

(* Sound where Long is all of Seqs or empty. *)
SequenceSymmetry == Permutations(Programs) \cup Permutations(Seqs)
==============================================================================
