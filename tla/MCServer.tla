------------------------------ MODULE MCServer -------------------------------
(* Small instances of RosServer for TLC. *)
EXTENDS RosServer, TLC

ProgramSymmetry == Permutations(Programs)
==============================================================================
