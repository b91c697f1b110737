------------------------------ MODULE MCChannels -----------------------------
(* Small instances of RadarChannels for TLC. *)
EXTENDS RadarChannels, TLC

ProgramSymmetry == Permutations(Programs)
==============================================================================
