------------------------------- MODULE MCData --------------------------------
(* A small instance of DataCollection for TLC. *)
EXTENDS DataCollection

AllHabits == SUBSET Habits
==============================================================================
