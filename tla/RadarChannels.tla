---------------------------- MODULE RadarChannels ----------------------------
(***************************************************************************)
(* The table radar_channels of the ROS server (ros6/server/client_handler. *)
(* c): which control program is registered on which channel of which       *)
(* radar, and what each program's radarinfo and parameters say about it.   *)
(* register_radar_channel and SET_PARAMETERS run under                     *)
(* controlprogram_list_lock, so a command is one step; controlprogram_exit *)
(* does not take that lock and is two steps.                               *)
(*                                                                         *)
(* A slot is a pair <<radar, channel>>; index i of the array is the slot   *)
(* <<i / MAX_CHANNELS + 1, i % MAX_CHANNELS + 1>>, so the order of the     *)
(* array is the lexicographic order of the pairs.                          *)
(***************************************************************************)
EXTENDS Integers

CONSTANTS
  Programs,      \* the control programs that may connect
  MAX_RADARS, MAX_CHANNELS,
  Priorities,    \* the priorities that clients set
  NULL

ASSUME ChannelsAssumption ==
  /\ MAX_RADARS \in Nat \ {0} /\ MAX_CHANNELS \in Nat \ {0}
  /\ Priorities \subseteq 0 .. 99
  /\ NULL \notin Programs

Radars   == 1 .. MAX_RADARS
Channels == 1 .. MAX_CHANNELS
Slots    == Radars \X Channels

Unset   == <<-1, -1>>   \* radar and channel as control_init leaves them
Cleared == <<0, 0>>     \* and as unregister_radar_channel leaves them

VARIABLES
  live,            \* programs whose structures are allocated
  active,          \* control_program->active
  radar_channels,  \* the table
  radarinfo,       \* radarinfo->radar and ->channel
  prm_slot,        \* parameters->radar and ->channel, which the drivers are told
  priority         \* parameters->priority

vars == <<live, active, radar_channels, radarinfo, prm_slot, priority>>

TypeOK ==
  /\ live \subseteq Programs
  /\ active \in [Programs -> {1, 0, -1}]
  /\ radar_channels \in [Slots -> Programs \cup {NULL}]
  /\ radarinfo \in [Programs -> Slots \cup {Unset}]
  /\ prm_slot \in [Programs -> Slots \cup {Unset, Cleared}]
  /\ priority \in [Programs -> 0 .. 99]

Init ==
  /\ live = {}
  /\ active = [p \in Programs |-> 0]
  /\ radar_channels = [s \in Slots |-> NULL]
  /\ radarinfo = [p \in Programs |-> Unset]
  /\ prm_slot = [p \in Programs |-> Unset]
  /\ priority = [p \in Programs |-> 50]

-----------------------------------------------------------------------------
(* The table *)

(* unregister_radar_channel: every slot of p is given up. *)
Held(p) == {s \in Slots : radar_channels[s] = p}

unregister(p) ==
  [s \in Slots |-> IF radar_channels[s] = p THEN NULL ELSE radar_channels[s]]

unregistered_pair(p) == IF Held(p) # {} THEN Cleared ELSE prm_slot[p]

(* The scan of register_radar_channel over the free slots.  The first of     *)
(* them settles a radar or channel that was left open (<= 0); the pair       *)
(* settled on is then granted if it is free.                                 *)
Before(s, t) == s[1] < t[1] \/ (s[1] = t[1] /\ s[2] <= t[2])

First(free) == CHOOSE s \in free : \A t \in free : Before(s, t)

Settled(free, radar, channel) ==
  <<IF radar <= 0 THEN First(free)[1] ELSE radar,
    IF channel <= 0 THEN First(free)[2] ELSE channel>>

granted_unchecked(free, radar, channel) ==
  IF free = {} THEN {} ELSE {Settled(free, radar, channel)}

granted_taken(free, radar, channel) ==
  IF free = {} THEN {} ELSE {Settled(free, radar, channel)} \cap Slots

granted_last(free, radar, channel) ==
  IF free = {} THEN {}
  ELSE {<<IF radar <= 0 THEN MAX_RADARS ELSE radar,
          IF channel <= 0 THEN First(free)[2] ELSE channel>>} \cap free

(* The granted slot, as a set that is empty when the request is refused. *)
granted(free, radar, channel) ==
  IF free = {} THEN {} ELSE {Settled(free, radar, channel)} \cap free

(* find_registered_controlprogram_by_radar_channel is radar_channels[<<r,    *)
(* c>>].  The scan of controlprogram_fill_parameters keeps, for a radar, the *)
(* first program with a priority below those before it and below 99.         *)
Contenders(radar) ==
  {c \in Channels : /\ radar_channels[<<radar, c>>] # NULL
                    /\ active[radar_channels[<<radar, c>>]] # 0
                    /\ priority[radar_channels[<<radar, c>>]] < 99}

PriorityAt(radar, c) == priority[radar_channels[<<radar, c>>]]

best_first(radar) ==
  IF Contenders(radar) = {} THEN NULL
  ELSE radar_channels[<<radar, CHOOSE c \in Contenders(radar) :
                                  \A d \in Contenders(radar) : c <= d>>]

best(radar) ==
  IF Contenders(radar) = {} THEN NULL
  ELSE radar_channels[<<radar, CHOOSE c \in Contenders(radar) :
         \A d \in Contenders(radar) :
            \/ PriorityAt(radar, c) < PriorityAt(radar, d)
            \/ PriorityAt(radar, c) = PriorityAt(radar, d) /\ c <= d>>]

-----------------------------------------------------------------------------
(* The two scans as the code runs them, one slot or channel at a time *)

Count == MAX_RADARS * MAX_CHANNELS

SlotOf(i) == <<(i \div MAX_CHANNELS) + 1, (i % MAX_CHANNELS) + 1>>

(* One turn of register_radar_channel's loop, which overwrites the radar and *)
(* channel it was asked for; it ends when a slot is got.                     *)
register_turn(free, s, at) ==
  LET radar   == IF at.radar <= 0 THEN s[1] ELSE at.radar
      channel == IF at.channel <= 0 THEN s[2] ELSE at.channel
  IN  IF at.got # {} \/ s \notin free THEN at
      ELSE [radar |-> radar, channel |-> channel, got |-> {s} \cap {<<radar, channel>>}]

register_loop(free, radar, channel) ==
  LET turn[i \in 0 .. Count] ==
        IF i = 0 THEN [radar |-> radar, channel |-> channel, got |-> {}]
        ELSE register_turn(free, SlotOf(i - 1), turn[i - 1])
  IN  turn[Count].got

(* One turn of the loop over the channels of a radar. *)
best_turn(radar, c, at) ==
  LET cp == radar_channels[<<radar, c>>]
  IN  IF cp # NULL /\ active[cp] # 0 /\ priority[cp] < at.priority
      THEN [best |-> cp, priority |-> priority[cp]]
      ELSE at

best_loop(radar) ==
  LET turn[c \in 0 .. MAX_CHANNELS] ==
        IF c = 0 THEN [best |-> NULL, priority |-> 99]
        ELSE best_turn(radar, c, turn[c - 1])
  IN  turn[MAX_CHANNELS].best

-----------------------------------------------------------------------------
(* Operations *)

control_init(p) ==
  /\ p \notin live
  /\ live' = live \cup {p}
  /\ active' = [active EXCEPT ![p] = 1]
  /\ radarinfo' = [radarinfo EXCEPT ![p] = Unset]
  /\ prm_slot' = [prm_slot EXCEPT ![p] = Unset]
  /\ priority' = [priority EXCEPT ![p] = 50]
  /\ UNCHANGED radar_channels

(* p's handler runs commands until it exits. *)
Serving(p) == p \in live /\ active[p] # 0

(* SET_RADAR_CHAN: the old slot is given up before the new one is looked for. *)
SET_RADAR_CHAN(p, radar, channel) ==
  LET table == unregister(p)
      free  == {s \in Slots : table[s] = NULL}
      got   == granted(free, radar, channel)
  IN  /\ Serving(p)
      /\ \/ /\ got # {}
            /\ \E s \in got :
                 /\ radar_channels' = [table EXCEPT ![s] = p]
                 /\ radarinfo' = [radarinfo EXCEPT ![p] = s]
                 /\ prm_slot' = [prm_slot EXCEPT ![p] = s]
         \/ /\ got = {}
            /\ radar_channels' = table
            /\ prm_slot' = [prm_slot EXCEPT ![p] = unregistered_pair(p)]
            /\ UNCHANGED radarinfo
      /\ UNCHANGED <<live, active, priority>>

(* SET_PARAMETERS overwrites the whole ControlPRM, radar and channel too.    *)
(* The client returns the pair that GET_PARAMETERS gave it, radarinfo's (in  *)
(* control_program.h: "required: DO NOT SET MANUALLY").                      *)
set_parameters_slot(p) == radarinfo[p]

SET_PARAMETERS(p, value) ==
  /\ Serving(p)
  /\ priority' = [priority EXCEPT ![p] = value]
  /\ prm_slot' = [prm_slot EXCEPT ![p] = set_parameters_slot(p)]
  /\ UNCHANGED <<live, active, radar_channels, radarinfo>>

(* SET_ACTIVE, SET_INACTIVE and SET_READY_FLAG. *)
set_active(p, value) ==
  /\ Serving(p)
  /\ radarinfo[p] # Unset
  /\ active' = [active EXCEPT ![p] = value]
  /\ UNCHANGED <<live, radar_channels, radarinfo, prm_slot, priority>>

(* controlprogram_exit: active=0; later, after the drivers have been told,   *)
(* the slots are given up and the structures freed.                          *)
exit_active(p) ==
  /\ Serving(p)
  /\ active' = [active EXCEPT ![p] = 0]
  /\ UNCHANGED <<live, radar_channels, radarinfo, prm_slot, priority>>

exit_table_kept(p) == radar_channels
exit_table(p) == unregister(p)

exit_free(p) ==
  /\ p \in live /\ active[p] = 0
  /\ radar_channels' = exit_table(p)
  /\ live' = live \ {p}
  /\ prm_slot' = [prm_slot EXCEPT ![p] = unregistered_pair(p)]
  /\ UNCHANGED <<active, radarinfo, priority>>

Program(p) ==
  \/ control_init(p)
  \/ \E radar \in 0 .. MAX_RADARS + 1, channel \in 0 .. MAX_CHANNELS + 1 :
        SET_RADAR_CHAN(p, radar, channel)
  \/ \E value \in Priorities : SET_PARAMETERS(p, value)
  \/ set_active(p, 1) \/ set_active(p, -1)
  \/ exit_active(p) \/ exit_free(p)

Next == \E p \in Programs : Program(p)

Spec == Init /\ [][Next]_vars

-----------------------------------------------------------------------------
(* Properties *)

(***************************************************************************)
(* A registered program is allocated, and its radarinfo and the pair the   *)
(* drivers are told name the very slot it is registered on: no slot points *)
(* to a freed program, and no program holds two slots.                     *)
(***************************************************************************)
SlotOwner ==
  \A s \in Slots : radar_channels[s] # NULL =>
     /\ radar_channels[s] \in live
     /\ radarinfo[radar_channels[s]] = s
     /\ prm_slot[radar_channels[s]] = s

(***************************************************************************)
(* A slot passes from one program to another only by being free in         *)
(* between: no request takes a channel from the program that has it.       *)
(***************************************************************************)
NoEviction ==
  [][\A s \in Slots : radar_channels[s] # NULL =>
        radar_channels'[s] \in {radar_channels[s], NULL}]_vars

(***************************************************************************)
(* "Lowest priority wins-- its like golf" (client_handler.c:69): for every *)
(* program registered on a radar and not exiting, fill_parameters finds a  *)
(* program on that radar whose beam is used, not exiting and with no       *)
(* higher priority value.  It is dereferenced without a check.             *)
(***************************************************************************)
LowestWins ==
  \A s \in Slots :
     radar_channels[s] # NULL /\ active[radar_channels[s]] # 0 =>
       /\ best(s[1]) # NULL
       /\ active[best(s[1])] # 0
       /\ radarinfo[best(s[1])][1] = s[1]
       /\ priority[best(s[1])] <= priority[radar_channels[s]]

(***************************************************************************)
(* For every request in every reachable table, register_radar_channel's    *)
(* loop, which overwrites the requested radar and channel while it scans,  *)
(* grants what the closed form granted says, and the loop of               *)
(* controlprogram_fill_parameters finds the program that best names.       *)
(***************************************************************************)
LoopsAgree ==
  LET free == {s \in Slots : radar_channels[s] = NULL}
  IN  /\ \A radar \in 0 .. MAX_RADARS + 1, channel \in 0 .. MAX_CHANNELS + 1 :
           register_loop(free, radar, channel) = granted(free, radar, channel)
      /\ \A radar \in Radars : best_loop(radar) = best(radar)
==============================================================================
