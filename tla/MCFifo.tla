------------------------------- MODULE MCFifo --------------------------------
(* A small instance of TimingFifo for TLC. *)
EXTENDS TimingFifo

AllConditions == SUBSET Conditions
==============================================================================
