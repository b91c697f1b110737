----------------------------- MODULE ReadyTable ------------------------------
(***************************************************************************)
(* The table of ready clients that the timing, DIO, DDS and receiver       *)
(* drivers keep between two triggers (clients, numclients and ready_index  *)
(* in their main.c).  The four copies differ in the message that empties   *)
(* the table: PRETRIGGER in the DIO and DDS drivers, POSTTRIGGER in the    *)
(* timing and receiver drivers.  A driver handles one message at a time.   *)
(*                                                                         *)
(* A slot stands for a radar and a channel, a value for the rest of the    *)
(* ControlPRM sent with READY.  The status of the answer, which the server *)
(* does not look at, is left out.                                          *)
(***************************************************************************)
EXTENDS Integers, FiniteSets

CONSTANTS
  Slots,      \* the pairs r, c that index ready_index
  Values,
  NotReady

maxclients == Cardinality(Slots)   \* MAX_RADARS*MAX_CHANNELS

ASSUME TableAssumption ==
  /\ IsFiniteSet(Slots) /\ Slots # {}
  /\ NotReady \notin Values /\ NotReady \notin Slots \X Values

VARIABLES
  numclients,
  clients,      \* clients[i]: the slot and the value sent, or NotReady
  ready_index,  \* ready_index[s]: the place of s in clients, or -1
  served,       \* what the last PRETRIGGER went through
  cleared_by    \* the driver's kind: the message that empties its table

vars == <<numclients, clients, ready_index, served, cleared_by>>

Places == 0 .. maxclients - 1

TypeOK ==
  /\ numclients \in Places
  /\ clients \in [Places -> (Slots \X Values) \cup {NotReady}]
  /\ ready_index \in [Slots -> {-1} \cup Places]
  /\ served \subseteq Slots \X Values
  /\ cleared_by \in {"pretrigger", "posttrigger"}

NoIndex == [s \in Slots |-> -1]

Init ==
  /\ numclients = 0
  /\ clients = [i \in Places |-> NotReady]
  /\ ready_index = NoIndex
  /\ served = {}
  /\ cleared_by \in {"pretrigger", "posttrigger"}

(* READY: a slot that is in the table already keeps its place. *)
Listed_never(s) == FALSE
Listed(s) == ready_index[s] >= 0 /\ ready_index[s] < maxclients

Wrapped(n) == n % maxclients

READY(s, v) ==
  LET place == IF Listed(s) THEN ready_index[s] ELSE numclients
      count == IF Listed(s) THEN numclients ELSE numclients + 1
  IN  /\ clients' = [clients EXCEPT ![place] = <<s, v>>]
      /\ ready_index' = [ready_index EXCEPT ![s] = place]
      /\ numclients' = Wrapped(count)
      /\ UNCHANGED <<served, cleared_by>>

(* Both ways of emptying the table reset the count and the whole index. *)
Emptied_count_only == numclients' = 0 /\ UNCHANGED ready_index

Emptied == /\ numclients' = 0
           /\ ready_index' = NoIndex

(* PRETRIGGER: the hardware is set up for the first numclients entries. *)
PRETRIGGER ==
  /\ served' = {clients[i] : i \in 0 .. numclients - 1}
  /\ \/ cleared_by = "pretrigger" /\ Emptied
     \/ cleared_by = "posttrigger" /\ UNCHANGED <<numclients, ready_index>>
  /\ UNCHANGED <<clients, cleared_by>>

POSTTRIGGER ==
  /\ cleared_by = "posttrigger"
  /\ Emptied
  /\ UNCHANGED <<clients, served, cleared_by>>

Next ==
  \/ \E s \in Slots, v \in Values : READY(s, v)
  \/ PRETRIGGER \/ POSTTRIGGER

Spec == Init /\ [][Next]_vars

-----------------------------------------------------------------------------
(* Properties *)

(***************************************************************************)
(* The table and its index agree: the count stays in the table, every      *)
(* indexed slot is found at its own place and no two share a place, so an  *)
(* entry is never overwritten by another channel's READY, also after       *)
(* numclients has wrapped round.                                           *)
(***************************************************************************)
IndexExact ==
  /\ TypeOK
  /\ \A s \in Slots : ready_index[s] # -1 =>
       /\ clients[ready_index[s]] # NotReady
       /\ clients[ready_index[s]][1] = s

(***************************************************************************)
(* Whatever the order of READY, PRETRIGGER and POSTTRIGGER, the driver     *)
(* behaves as the set of ready channels that the server relies on: a       *)
(* channel that declares itself ready twice is served once, with its       *)
(* latest parameters, and nothing of an earlier trigger is served again.   *)
(***************************************************************************)
Abstract == INSTANCE ReadySet WITH
  ready <- [s \in Slots |-> IF ready_index[s] = -1 THEN NotReady
                            ELSE clients[ready_index[s]][2]]

ImplementsReadySet == Abstract!Spec
==============================================================================
