------------------------------ MODULE MCCycle --------------------------------
(* Small instances of TriggerCycle for TLC. *)
EXTENDS TriggerCycle

(* Clients that come and go; all that clients do except exit; and what *)
(* OrderlyWaitEnds is about.                                           *)
Mixed == {{"quit", "join"}, {"join", "inactive", "active", "again"}, {"join", "inactive"}}

Exits == {{"quit"}}
==============================================================================
