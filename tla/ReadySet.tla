------------------------------ MODULE ReadySet -------------------------------
(***************************************************************************)
(* What the server relies on a driver for between two triggers: the driver *)
(* remembers the latest parameters of every radar channel that was         *)
(* declared ready, sets the hardware up for all of them when it is told to *)
(* prepare a trigger, and forgets them once per trigger.  When every       *)
(* channel is ready it sets up none of them.                               *)
(***************************************************************************)
CONSTANTS Slots, Values, NotReady

VARIABLES
  ready,   \* the latest parameters of each slot declared ready, or NotReady
  served,  \* the slots with their parameters at the last PRETRIGGER
  cleared_by   \* the message with which this driver forgets them

vars == <<ready, served, cleared_by>>

ReadySlots == {s \in Slots : ready[s] # NotReady}
Nobody     == [s \in Slots |-> NotReady]

Init ==
  /\ ready = Nobody
  /\ served = {}
  /\ cleared_by \in {"pretrigger", "posttrigger"}

READY(s, v) ==
  /\ ready' = [ready EXCEPT ![s] = v]
  /\ UNCHANGED <<served, cleared_by>>

PRETRIGGER ==
  /\ served' = IF ReadySlots = Slots THEN {}
               ELSE {<<s, ready[s]>> : s \in ReadySlots}
  /\ ready' = IF cleared_by = "pretrigger" THEN Nobody ELSE ready
  /\ UNCHANGED cleared_by

POSTTRIGGER ==
  /\ cleared_by = "posttrigger"
  /\ ready' = Nobody
  /\ UNCHANGED <<served, cleared_by>>

Next ==
  \/ \E s \in Slots, v \in Values : READY(s, v)
  \/ PRETRIGGER \/ POSTTRIGGER

Spec == Init /\ [][Next]_vars
==============================================================================
