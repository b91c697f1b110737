------------------------------ MODULE RosServer ------------------------------
(***************************************************************************)
(* The ROS server process (ros6/server): one control_handler thread per    *)
(* connected control program, the coordination_handler threads they spawn  *)
(* and join, the timeout_handler thread that reaps silent programs, and    *)
(* main's accept loop.  The module keeps the three mutexes that order      *)
(* these threads (controlprogram_list_lock, exit_lock, coord_lock; clr_lock*)
(* too) and the state they are meant to protect: the thread list, and each *)
(* program's active, ready and processing flags and its allocations.       *)
(*                                                                         *)
(* A handler's child threads that only talk to a driver are folded into    *)
(* the step of the handler that joins them.  A coordination_handler thread *)
(* is kept apart: it outlives its parent when the parent is cancelled in   *)
(* pthread_join.                                                           *)
(***************************************************************************)
EXTENDS Integers

CONSTANTS
  Programs,  \* the control programs that may connect, once each
  Faults,    \* what the environment may do, see FaultKinds
  NoOne      \* the owner of a free mutex

(***************************************************************************)
(* "stall":    a client stops in the middle of a message, or a driver does *)
(*             not answer, so that 60 s pass inside a command;             *)
(* "drop":     a client closes its connection without QUIT;                *)
(* "late":     a client speaks again after 60 s of silence;                *)
(* "slowpass": a pass of the timeout thread lasts beyond the second it     *)
(*             started in.                                                 *)
(***************************************************************************)
FaultKinds == {"stall", "drop", "late", "slowpass"}

ASSUME ServerAssumption ==
  /\ Faults \subseteq FaultKinds
  /\ {NoOne, "reaper", "sleep", "scan"} \cap Programs = {}
  /\ NoOne # "reaper"
  /\ NoOne \notin Programs \X {"cmd", "exit"}

VARIABLES
  pc,          \* pc[p]: where p's control_handler thread is
  linked,      \* the programs on the controlprogram_threads list
  mem,         \* mem[p]: what is allocated of struct ControlProgram p
  active,      \* control_program->active: 1, -1 (inactive), 0 (exited)
  ready,       \* state->ready
  processing,  \* state->processing
  chan,        \* radarinfo holds a radar and a channel (r >= 0 and c >= 0)
  seen,        \* last_seen of p's list item against t1 of the timeout pass
  gone,        \* p's client has closed the connection
  co,          \* co[<<p, k>>]: where the coordination thread spawned by p is
  walked,      \* the programs the walk under coord_lock is about to dereference
  reaper,      \* the program the timeout thread has cancelled and joins, or its state
  list_lock, exit_lock, coord_lock, clr_lock   \* owners of the mutexes

locks  == <<list_lock, exit_lock, coord_lock, clr_lock>>
flags  == <<active, ready, processing, chan>>
life   == <<linked, mem, seen, gone>>
vars   == <<pc, flags, life, co, walked, reaper, locks>>

-----------------------------------------------------------------------------
(* Types *)

Commands == {"PING", "SET_ACTIVE", "SET_INACTIVE", "SET_RADAR_CHAN",
             "GET_DATA", "SET_READY_FLAG", "REQUEST_CLEAR_FREQ_SEARCH",
             "QUIT", "LOCKED_IO"}

Labels == {"none", "init", "init_list", "select", "recv", "timing_wait",
           "ready_drivers", "join", "get_data", "clr_file", "clr", "clr_search",
           "io", "exit", "exit_wait", "exit_join", "break", "break_wait",
           "break_join", "dead", "killed"}

Phases == {"pretrigger", "trigger", "posttrigger", "postwalk"}

CoordThreads == Programs \X {"cmd", "exit"}
Parent(t)    == t[1]

TypeOK ==
  /\ pc \in [Programs -> Labels \cup Commands]
  /\ linked \subseteq Programs
  /\ mem \in [Programs -> {"absent", "live", "closed", "freed"}]
  /\ active \in [Programs -> {1, 0, -1}]
  /\ ready \in [Programs -> BOOLEAN]
  /\ processing \in [Programs -> BOOLEAN]
  /\ chan \in [Programs -> BOOLEAN]
  /\ seen \in [Programs -> {"fresh", "stale", "future"}]
  /\ gone \in [Programs -> BOOLEAN]
  /\ co \in [CoordThreads -> {"none", "lock", "walk"} \cup Phases]
  /\ walked \subseteq Programs
  /\ reaper \in Programs \cup {"sleep", "scan"}
  /\ list_lock \in Programs \cup {NoOne}
  /\ exit_lock \in Programs \cup {NoOne, "reaper"}
  /\ coord_lock \in CoordThreads \cup {NoOne}
  /\ clr_lock \in Programs \cup {NoOne}

-----------------------------------------------------------------------------
Init ==
  /\ pc = [p \in Programs |-> "none"]
  /\ linked = {}
  /\ mem = [p \in Programs |-> "absent"]
  /\ active = [p \in Programs |-> 0]
  /\ ready = [p \in Programs |-> FALSE]
  /\ processing = [p \in Programs |-> FALSE]
  /\ chan = [p \in Programs |-> FALSE]
  /\ seen = [p \in Programs |-> "fresh"]
  /\ gone = [p \in Programs |-> FALSE]
  /\ co = [t \in CoordThreads |-> "none"]
  /\ walked = {}
  /\ reaper = "sleep"
  /\ list_lock = NoOne /\ exit_lock = NoOne /\ coord_lock = NoOne /\ clr_lock = NoOne

Goto(p, from, to) ==
  /\ pc[p] = from
  /\ pc' = [pc EXCEPT ![p] = to]

-----------------------------------------------------------------------------
(* main: accept a client, control_init, create its thread and link its item. *)

accept(p) ==
  /\ Goto(p, "none", "init")
  /\ list_lock = NoOne
  /\ linked' = linked \cup {p}
  /\ mem' = [mem EXCEPT ![p] = "live"]
  /\ active' = [active EXCEPT ![p] = 1]
  /\ UNCHANGED <<ready, processing, chan, seen, gone,
                 co, walked, reaper, locks>>

(* control_handler, up to pthread_cleanup_push: exit_lock, then list_lock. *)
init_exit_lock(p) ==
  /\ Goto(p, "init", "init_list")
  /\ exit_lock = NoOne
  /\ exit_lock' = p
  /\ UNCHANGED <<flags, life, co, walked, reaper, list_lock, coord_lock, clr_lock>>

init_list_lock(p) ==
  /\ Goto(p, "init_list", "select")
  /\ list_lock = NoOne
  /\ exit_lock' = NoOne
  /\ UNCHANGED <<flags, life, co, walked, reaper, list_lock, coord_lock, clr_lock>>

(* The socket is readable: the message is read with list_lock held. *)
select_readable(p) ==
  /\ Goto(p, "select", "recv")
  /\ seen[p] = "stale" => "late" \in Faults \/ gone[p]
  /\ list_lock = NoOne
  /\ list_lock' = p
  /\ UNCHANGED <<flags, life, co, walked, reaper, exit_lock, coord_lock, clr_lock>>

(* recv_data's result is ignored: on a closed connection msg keeps the type  *)
(* of the message before, or what was on the stack when there was none; a    *)
(* client that is gone may therefore have any command carried out.           *)
recv_msg(p, m) ==
  /\ Goto(p, "recv", m)
  /\ \E now \in {"fresh"} \cup
          (IF reaper # "sleep" /\ "slowpass" \in Faults THEN {"future"} ELSE {}) :
        seen' = [seen EXCEPT ![p] = now]
  /\ list_lock' = NoOne
  /\ UNCHANGED <<flags, linked, mem, gone, co, walked, reaper,
                 exit_lock, coord_lock, clr_lock>>

(* PING, and every command that needs a channel when there is none, which    *)
(* GET_PARAMETERS and SET_PARAMETERS do too.                                 *)
NeedsChannel == {"SET_ACTIVE", "SET_INACTIVE", "GET_DATA", "SET_READY_FLAG", "LOCKED_IO"}

reply_only(p) ==
  /\ pc[p] = "PING" \/ (pc[p] \in NeedsChannel /\ ~chan[p])
  /\ pc' = [pc EXCEPT ![p] = "select"]
  /\ UNCHANGED <<flags, life, co, walked, reaper, locks>>

(* SET_RADAR_CHAN: register_radar_channel under list_lock, where it prints.  *)
(* A failed request leaves radarinfo as it was.                              *)
set_radar_chan(p) ==
  /\ Goto(p, "SET_RADAR_CHAN", "io")
  /\ list_lock = NoOne
  /\ list_lock' = p
  /\ \E registered \in BOOLEAN : chan' = [chan EXCEPT ![p] = @ \/ registered]
  /\ UNCHANGED <<active, ready, processing, life, co, walked, reaper,
                 exit_lock, coord_lock, clr_lock>>

(* SET_ACTIVE and SET_INACTIVE: set the flag, spawn and join coordination.   *)
(* active is 0 only when p's own thread has left its loop, so the code's     *)
(* test of it always succeeds here.                                          *)
Spawn(p, k) == co' = [co EXCEPT ![<<p, k>>] = "lock"]

set_active_inactive(p, m, value) ==
  /\ Goto(p, m, "join")
  /\ chan[p]
  /\ list_lock = NoOne
  /\ active[p] # 0
  /\ list_lock' = p
  /\ active' = [active EXCEPT ![p] = value]
  /\ Spawn(p, "cmd")
  /\ UNCHANGED <<ready, processing, chan, life, walked, reaper,
                 exit_lock, coord_lock, clr_lock>>

(* SET_READY_FLAG: active under list_lock; list_lock is free during          *)
(* timing_wait; then the four drivers are told and coordination runs, both   *)
(* under list_lock.                                                          *)
set_ready_active(p) ==
  /\ Goto(p, "SET_READY_FLAG", "timing_wait")
  /\ chan[p]
  /\ list_lock = NoOne
  /\ active' = [active EXCEPT ![p] = IF @ # 0 THEN 1 ELSE @]
  /\ UNCHANGED <<ready, processing, chan, life, co, walked, reaper, locks>>

set_ready_drivers(p) ==
  /\ Goto(p, "timing_wait", "ready_drivers")
  /\ list_lock = NoOne
  /\ list_lock' = p
  /\ UNCHANGED <<flags, life, co, walked, reaper, exit_lock, coord_lock, clr_lock>>

set_ready_coordinate(p) ==
  /\ Goto(p, "ready_drivers", "join")
  /\ Spawn(p, "cmd")
  /\ UNCHANGED <<flags, life, walked, reaper, locks>>

join_coordination(p) ==
  /\ Goto(p, "join", "select")
  /\ co[<<p, "cmd">>] = "none"
  /\ list_lock' = NoOne
  /\ UNCHANGED <<flags, life, co, walked, reaper, exit_lock, coord_lock, clr_lock>>

(* GET_DATA: wait for ready to be 0, at most 10 s, without a lock; the data  *)
(* are sent under list_lock.                                                 *)
get_data(p) ==
  /\ Goto(p, "GET_DATA", "get_data")
  /\ chan[p]
  /\ UNCHANGED <<flags, life, co, walked, reaper, locks>>

(* SET_PARAMETERS, GET_PARAMETERS, REGISTER_SEQ, LINK_RADAR_CHAN,            *)
(* REQUEST_ASSIGNED_FREQ and the end of GET_DATA exchange data with the      *)
(* client or a driver under list_lock.                                       *)
locked_io(p) ==
  /\ Goto(p, "LOCKED_IO", "io") \/ Goto(p, "get_data", "io")
  /\ list_lock = NoOne
  /\ list_lock' = p
  /\ UNCHANGED <<flags, life, co, walked, reaper, exit_lock, coord_lock, clr_lock>>

locked_io_done(p) ==
  /\ Goto(p, "io", "select")
  /\ list_lock' = NoOne
  /\ UNCHANGED <<flags, life, co, walked, reaper, exit_lock, coord_lock, clr_lock>>

(* REQUEST_CLEAR_FREQ_SEARCH: clr_lock, the file with the settling time,     *)
(* then list_lock for the whole search.                                      *)
clear_freq_lock(p) ==
  /\ Goto(p, "REQUEST_CLEAR_FREQ_SEARCH", "clr_file")
  /\ clr_lock = NoOne
  /\ clr_lock' = p
  /\ UNCHANGED <<flags, life, co, walked, reaper, list_lock, exit_lock, coord_lock>>

clear_freq_file(p) ==
  /\ Goto(p, "clr_file", "clr")
  /\ UNCHANGED <<flags, life, co, walked, reaper, locks>>

clear_freq_search(p) ==
  /\ Goto(p, "clr", "clr_search")
  /\ list_lock = NoOne
  /\ list_lock' = p
  /\ UNCHANGED <<flags, life, co, walked, reaper, exit_lock, coord_lock, clr_lock>>

clear_freq_done(p) ==
  /\ Goto(p, "clr_search", "select")
  /\ list_lock' = NoOne
  /\ clr_lock' = NoOne
  /\ UNCHANGED <<flags, life, co, walked, reaper, exit_lock, coord_lock>>

-----------------------------------------------------------------------------
(* Ways into controlprogram_exit. *)

(* QUIT: pthread_exit runs the clean-up handler. *)
quit(p) ==
  /\ Goto(p, "QUIT", "exit")
  /\ UNCHANGED <<flags, life, co, walked, reaper, locks>>

(* getsockopt reports an error: the loop is left, the clean-up handler is    *)
(* popped and controlprogram_exit is called as an ordinary function.  A      *)
(* cancel that is pending is acted upon before (pthread_testcancel).         *)
socket_error(p) ==
  /\ Goto(p, "select", "break")
  /\ gone[p] /\ reaper # p
  /\ UNCHANGED <<flags, life, co, walked, reaper, locks>>

(* A pending cancel is acted upon in a call that is a cancellation point;    *)
(* the clean-up handler runs and the mutexes held there stay locked.         *)
(* Some commands receive their arguments, or answer, before they lock.       *)
CancelPoints == {"select", "recv", "PING", "SET_RADAR_CHAN", "LOCKED_IO", "QUIT",
                 "timing_wait", "ready_drivers", "join",
                 "get_data", "clr_file", "clr_search", "io"}

cancelled(p) ==
  /\ reaper = p /\ pc[p] \in CancelPoints
  /\ pc' = [pc EXCEPT ![p] = "exit"]
  /\ UNCHANGED <<flags, life, co, walked, reaper, locks>>

(* controlprogram_exit: state->cancelled is set before the lock is taken,    *)
(* and the only lock is exit_lock.  A coordination pass of its own comes     *)
(* between active=0 and the release of the structures.                       *)
exit_flag(p) ==
  /\ Goto(p, "exit", "exit_wait") \/ Goto(p, "break", "break_wait")
  /\ UNCHANGED <<flags, life, co, walked, reaper, locks>>

exit_active_decremented(p) == [active EXCEPT ![p] = @ - 1]
exit_active_kept(p) == active
exit_active(p) == [active EXCEPT ![p] = 0]

exit_begin(p) ==
  /\ Goto(p, "exit_wait", "exit_join") \/ Goto(p, "break_wait", "break_join")
  /\ exit_lock = NoOne
  /\ exit_lock' = p
  /\ active' = exit_active(p)
  /\ Spawn(p, "exit")
  /\ UNCHANGED <<ready, processing, chan, life, walked, reaper, list_lock, coord_lock, clr_lock>>

exit_free(p) ==
  /\ Goto(p, "exit_join", "dead") \/ Goto(p, "break_join", "dead")
  /\ co[<<p, "exit">>] = "none"
  /\ mem' = [mem EXCEPT ![p] = "closed"]
  /\ exit_lock' = NoOne
  /\ UNCHANGED <<flags, linked, seen, gone, co, walked, reaper, list_lock, coord_lock, clr_lock>>

(* Outside the clean-up handler a pending cancel stops the exit itself: in   *)
(* the message it begins with, or in a pthread_join with exit_lock held.     *)
exit_killed(p) ==
  /\ Goto(p, "break", "killed") \/ Goto(p, "break_join", "killed")
  /\ reaper = p
  /\ UNCHANGED <<flags, life, co, walked, reaper, locks>>

-----------------------------------------------------------------------------
(* coordination_handler, one thread t per call. *)

(* Under coord_lock the caller becomes ready when it is active; then the     *)
(* list is walked.  The walk reads active first and state->ready later, so   *)
(* walked holds the programs found active whose state it is about to read.   *)
coord_unlocked == TRUE
coord_lock_free == coord_lock = NoOne

coord_mark(t) ==
  LET p == Parent(t)
  IN  /\ co[t] = "lock"
      /\ coord_lock_free
      /\ coord_lock' = t
      /\ co' = [co EXCEPT ![t] = "walk"]
      /\ ready' = [ready EXCEPT ![p] = @ \/ active[p] = 1]
      /\ processing' = [processing EXCEPT ![p] = @ /\ active[p] # 1]
      /\ walked' = {q \in linked : active[q] = 1}
      /\ UNCHANGED <<pc, active, chan, life, reaper, list_lock, exit_lock, clr_lock>>

(* 0: no program is ready, 1: some are, 2: all the active programs are. *)
ready_state_some ==
  IF \E q \in walked : ready[q] THEN 2 ELSE 0

ready_state_linked ==
  LET numready == {q \in walked : ready[q]}
  IN  IF numready = {} THEN 0 ELSE IF numready # linked THEN 1 ELSE 2

ready_state ==
  LET numready == {q \in walked : ready[q]}
  IN  IF numready = {} THEN 0 ELSE IF numready # walked THEN 1 ELSE 2

Release(t) ==
  /\ co' = [co EXCEPT ![t] = "none"]
  /\ coord_lock' = NoOne

coord_evaluate(t) ==
  /\ co[t] = "walk"
  /\ walked' = {}
  /\ \/ /\ ready_state = 2
        /\ co' = [co EXCEPT ![t] = "pretrigger"]
        /\ UNCHANGED coord_lock
     \/ /\ ready_state # 2
        /\ Release(t)
  /\ UNCHANGED <<pc, flags, life, reaper, list_lock, exit_lock, clr_lock>>

(* The drivers' pretrigger threads are joined. *)
coord_pretrigger(t) ==
  /\ co[t] = "pretrigger"
  /\ co' = [co EXCEPT ![t] = "trigger"]
  /\ UNCHANGED <<pc, flags, life, walked, reaper, locks>>

(* timing_trigger, then the GPS event time. *)
coord_trigger(t) ==
  /\ co[t] = "trigger"
  /\ co' = [co EXCEPT ![t] = "posttrigger"]
  /\ UNCHANGED <<pc, flags, life, walked, reaper, locks>>

(* The post-trigger threads are joined; the second walk takes the programs   *)
(* whose state pointer is not NULL, whatever their active flag.              *)
coord_posttrigger(t) ==
  /\ co[t] = "posttrigger"
  /\ co' = [co EXCEPT ![t] = "postwalk"]
  /\ walked' = {q \in linked : mem[q] = "live"}
  /\ UNCHANGED <<pc, flags, life, reaper, locks>>

(* Every ready program starts processing. *)
StartProcessing_lost(fired) == processing

StartProcessing(fired) == [q \in Programs |-> processing[q] \/ q \in fired]

coord_processing(t) ==
  LET fired == {q \in walked : ready[q]}
  IN  /\ co[t] = "postwalk"
      /\ ready' = [q \in Programs |-> ready[q] /\ q \notin fired]
      /\ processing' = StartProcessing(fired)
      /\ walked' = {}
      /\ Release(t)
      /\ UNCHANGED <<pc, active, chan, life, reaper, list_lock, exit_lock, clr_lock>>

-----------------------------------------------------------------------------
(* timeout_handler. *)

reaper_begin ==
  /\ reaper = "sleep"
  /\ exit_lock = NoOne
  /\ exit_lock' = "reaper"
  /\ reaper' = "scan"
  /\ UNCHANGED <<pc, flags, life, co, walked, list_lock, coord_lock, clr_lock>>

(* elapsed is unsigned: an item seen after t1 was read looks as overdue as   *)
(* one not seen for longer than the timeout.                                 *)
Elapsed_never(p) == p \in linked /\ seen[p] = "future"

Elapsed(p) == p \in linked /\ seen[p] \in {"stale", "future"}

(* state->cancelled, read only where state is not NULL. *)
Cancelled(p) == pc[p] \in {"exit_wait", "exit_join", "break_wait", "break_join", "killed"}

reaper_cancel(p) ==
  /\ reaper = "scan"
  /\ Elapsed(p)
  /\ mem[p] = "live" /\ ~Cancelled(p)
  /\ exit_lock' = NoOne
  /\ reaper' = p
  /\ UNCHANGED <<pc, flags, linked, mem, seen, gone, co, walked, list_lock, coord_lock, clr_lock>>

Unlink(p) ==
  /\ linked' = linked \ {p}
  /\ mem' = [mem EXCEPT ![p] = "freed"]

(* pthread_join returns when the handler thread has ended. *)
Ended_ignored(p) == TRUE

Ended(p) == pc[p] \in {"dead", "killed"}

reaper_join(p) ==
  /\ reaper = p
  /\ Ended(p)
  /\ exit_lock = NoOne
  /\ exit_lock' = "reaper"
  /\ reaper' = "scan"
  /\ Unlink(p)
  /\ UNCHANGED <<pc, flags, seen, gone, co, walked, list_lock, coord_lock, clr_lock>>

reaper_reap(p) ==
  /\ reaper = "scan"
  /\ Elapsed(p)
  /\ mem[p] # "live" \/ Cancelled(p)
  /\ Unlink(p)
  /\ UNCHANGED <<pc, flags, seen, gone, co, walked, reaper, locks>>

(* A pass visits each item once; one seen after its visit is left alone. *)
reaper_end ==
  /\ reaper = "scan"
  /\ \A p \in linked : seen[p] # "stale"
  /\ reaper' = "sleep"
  /\ exit_lock' = NoOne
  /\ seen' = [p \in Programs |-> IF seen[p] = "future" THEN "fresh" ELSE seen[p]]
  /\ UNCHANGED <<pc, flags, linked, mem, gone, co, walked, list_lock, coord_lock, clr_lock>>

-----------------------------------------------------------------------------
(* The environment. *)

(* More than 60 s have passed since p's last message. *)
silence(p) ==
  /\ p \in linked /\ seen[p] = "fresh"
  /\ pc[p] \in {"select", "dead"} \/ "stall" \in Faults
  /\ seen' = [seen EXCEPT ![p] = "stale"]
  /\ UNCHANGED <<pc, flags, linked, mem, gone, co, walked, reaper, locks>>

disconnect(p) ==
  /\ "drop" \in Faults
  /\ pc[p] \notin {"none", "dead", "killed"} /\ ~gone[p]
  /\ gone' = [gone EXCEPT ![p] = TRUE]
  /\ UNCHANGED <<pc, flags, linked, mem, seen, co, walked, reaper, locks>>

-----------------------------------------------------------------------------
Handler(p) ==
  \/ init_exit_lock(p) \/ init_list_lock(p)
  \/ \E m \in Commands : recv_msg(p, m)
  \/ reply_only(p) \/ set_radar_chan(p)
  \/ set_active_inactive(p, "SET_ACTIVE", 1) \/ set_active_inactive(p, "SET_INACTIVE", -1)
  \/ set_ready_active(p) \/ set_ready_drivers(p) \/ set_ready_coordinate(p)
  \/ join_coordination(p)
  \/ get_data(p) \/ locked_io(p) \/ locked_io_done(p)
  \/ clear_freq_lock(p) \/ clear_freq_file(p) \/ clear_freq_search(p) \/ clear_freq_done(p)
  \/ quit(p) \/ cancelled(p) \/ exit_flag(p) \/ exit_begin(p) \/ exit_free(p)

Coordination(t) ==
  \/ coord_mark(t) \/ coord_evaluate(t) \/ coord_pretrigger(t) \/ coord_trigger(t)
  \/ coord_posttrigger(t) \/ coord_processing(t)

Reaper ==
  \/ reaper_begin \/ reaper_end
  \/ \E p \in Programs : reaper_cancel(p) \/ reaper_join(p) \/ reaper_reap(p)

Environment(p) ==
  \/ accept(p) \/ select_readable(p) \/ silence(p) \/ disconnect(p)
  \/ socket_error(p) \/ exit_killed(p)

Next ==
  \/ \E p \in Programs : Handler(p) \/ Environment(p)
  \/ \E t \in CoordThreads : Coordination(t)
  \/ Reaper

Spec == Init /\ [][Next]_vars

(***************************************************************************)
(* Threads are scheduled and the mutexes hand over fairly, so a step that  *)
(* is enabled again and again is taken.  Clients: one that keeps sending   *)
(* commands declares itself ready, inactive or quits again and again; one  *)
(* that does not send falls silent.                                        *)
(***************************************************************************)
Decide(p) ==
  \/ silence(p)
  \/ recv_msg(p, "QUIT")
  \/ chan[p] /\ (recv_msg(p, "SET_READY_FLAG") \/ recv_msg(p, "SET_INACTIVE"))

Threads(p) == Handler(p) \/ \E k \in {"cmd", "exit"} : Coordination(<<p, k>>)

Fairness ==
  /\ \A p \in Programs : SF_vars(Threads(p)) /\ SF_vars(Decide(p))
  /\ SF_vars(Reaper)

FairSpec == Spec /\ Fairness

-----------------------------------------------------------------------------
(* Properties *)

(***************************************************************************)
(* The first walk of coordination_handler reads state->ready of every      *)
(* program whose active flag it found to be 1, without holding the lock    *)
(* that controlprogram_exit frees the state under.  It never reads freed   *)
(* memory: the exiting program has to pass through coord_lock itself       *)
(* between active=0 and free.                                              *)
(***************************************************************************)
EvaluateWalkSafe ==
  (\E t \in CoordThreads : co[t] = "walk") => \A q \in walked : mem[q] = "live"

(***************************************************************************)
(* The second walk, after the trigger, takes every program with a state    *)
(* pointer, exiting ones too: is the state still there when it is read?    *)
(* "lock the global structures", coordination_handler.c:34.                *)
(***************************************************************************)
PostWalkSafe ==
  (\E t \in CoordThreads : co[t] = "postwalk") => \A q \in walked : mem[q] = "live"

(***************************************************************************)
(* While a trigger cycle started by SET_READY_FLAG, SET_ACTIVE or          *)
(* SET_INACTIVE runs, every active program is ready: nobody can join or    *)
(* become active behind its back, whatever exits, cancels and lost         *)
(* connections happen meanwhile.                                           *)
(***************************************************************************)
CommandTriggerAllReady ==
  \A p \in Programs : co[<<p, "cmd">>] \in Phases =>
     \A q \in linked : active[q] = 1 => ready[q]

(***************************************************************************)
(* No thread of a program runs on once the timeout thread has freed the    *)
(* program: its handler ends first, and so do the coordination threads the *)
(* handler spawned.                                                        *)
(***************************************************************************)
NoDangling ==
  \A p \in Programs :
     /\ pc[p] \notin {"none", "dead", "killed"} => mem[p] = "live"
     /\ \A k \in {"cmd", "exit"} : co[<<p, k>>] # "none" => mem[p] # "freed"

(***************************************************************************)
(* From the decision to trigger to the end of the cycle no program becomes *)
(* ready or stops being ready: those that start processing are those the   *)
(* decision counted.                                                       *)
(***************************************************************************)
StableReady ==
  \A t \in CoordThreads : co[t] \in Phases /\ co'[t] \in Phases => ready' = ready

TriggerSetStable == [][StableReady]_vars

(***************************************************************************)
(* A command that leaves the program active is answered only when the      *)
(* program is ready or has been triggered: the active flag set before      *)
(* list_lock was given up for timing_wait still counts afterwards.         *)
(***************************************************************************)
Acknowledged ==
  \A p \in Programs :
     pc[p] = "join" /\ pc'[p] = "select" /\ active[p] = 1 => ready[p] \/ processing[p]

ReadyAcknowledged == [][Acknowledged]_vars

(***************************************************************************)
(* A program that is ready and active is triggered in the end (or made     *)
(* inactive by its client), even when another program quits, falls silent  *)
(* or becomes inactive instead of getting ready.                           *)
(***************************************************************************)
ReadyIsTriggered ==
  \A p \in Programs :
     ready[p] /\ active[p] = 1 ~> ~ready[p] \/ active[p] # 1

(***************************************************************************)
(* A program not heard of for 60 s is taken off the list in the end.       *)
(***************************************************************************)
SilentIsReaped ==
  \A p \in Programs : seen[p] = "stale" ~> p \notin linked

-----------------------------------------------------------------------------
(* Inductive invariants, from which RosServerProofs derives the properties. *)

(* coord_lock belongs to the coordination thread inside it. *)
CoordExclusive ==
  \A t \in CoordThreads : co[t] \notin {"none", "lock"} => coord_lock = t

(* Where a handler waits or works with list_lock, it has it. *)
ListHeld ==
  \A p \in Programs :
     pc[p] \in {"recv", "ready_drivers", "join", "io", "clr_search"} => list_lock = p

(* A coordination thread spawned by a command runs under its program's       *)
(* list_lock, which stays locked when the program is cancelled in the join.  *)
CommandHeld ==
  \A p \in Programs : co[<<p, "cmd">>] # "none" =>
     list_lock = p /\ pc[p] \in {"join", "exit", "exit_wait", "exit_join", "dead"}

(* So no program becomes active between the start of its walk and its end. *)
WalkCovers ==
  \A p \in Programs : co[<<p, "cmd">>] = "walk" =>
     \A q \in linked : active[q] = 1 => q \in walked

(***************************************************************************)
(* The inductive form of CommandTriggerAllReady: coord_lock excludes other *)
(* coordination threads, and list_lock, even when it was leaked by a       *)
(* cancelled handler, keeps the set of active programs from growing.       *)
(***************************************************************************)
TriggerInv ==
  /\ CoordExclusive /\ ListHeld /\ CommandHeld /\ WalkCovers
  /\ CommandTriggerAllReady

Walking == \E t \in CoordThreads : co[t] = "walk"

(* A program that is not (or no longer) served is not active. *)
ServedActive ==
  \A p \in Programs : pc[p] \in {"none", "exit_join", "dead"} => active[p] = 0

(* A handler thread that has not ended has its structures. *)
ServedLive ==
  \A p \in Programs : pc[p] \notin {"none", "dead"} => mem[p] = "live"

(* No connection is lost, so no handler leaves its loop by an error. *)
NoBreak ==
  \A p \in Programs :
     ~gone[p] /\ pc[p] \notin {"break", "break_wait", "break_join", "killed"}

(* An overdue program is idle, or the timeout thread is waiting for it. *)
OverdueIdle ==
  \A p \in Programs :
     /\ seen[p] # "future"
     /\ seen[p] = "stale" =>
          \/ pc[p] \in {"select", "recv", "dead"}
          \/ reaper = p /\ pc[p] \in {"exit", "exit_wait", "exit_join"}

(* A program in the walk has not ended, and if it is about to free its       *)
(* structures its own coordination thread still waits for coord_lock.        *)
WalkBeforeFree ==
  Walking => \A q \in walked :
     /\ pc[q] \notin {"none", "dead"}
     /\ pc[q] = "exit_join" => co[<<q, "exit">>] = "lock"

(***************************************************************************)
(* The inductive form of EvaluateWalkSafe, for clients that at worst speak *)
(* late: the exiting program passes through coord_lock between active=0    *)
(* and free, and the timeout thread frees only programs that have ended.   *)
(***************************************************************************)
ExitInv ==
  /\ CoordExclusive /\ ServedActive /\ ServedLive /\ NoBreak /\ OverdueIdle
  /\ WalkBeforeFree
  /\ EvaluateWalkSafe

(* A handler waits for the coordination threads it spawned: when no client   *)
(* is late, no cancel comes in between.                                      *)
JoinedThreads ==
  \A p \in Programs :
     /\ co[<<p, "cmd">>] # "none" => pc[p] = "join"
     /\ co[<<p, "exit">>] # "none" => pc[p] = "exit_join"

(* The timeout thread cancels a handler that is idle and stays so. *)
CancelsIdle ==
  \A p \in Programs :
     /\ seen[p] = "stale" => pc[p] # "recv"
     /\ reaper = p =>
          seen[p] = "stale" /\ pc[p] \in {"select", "exit", "exit_wait", "exit_join", "dead"}

(* With ExitInv, the inductive form of NoDangling when there are no faults. *)
JoinInv == JoinedThreads /\ CancelsIdle

(* The coordination thread of an exit runs when its program is exiting. *)
ExitSpawned ==
  \A p \in Programs :
     co[<<p, "exit">>] # "none" => pc[p] \in {"exit_join", "break_join", "killed"}

(* The caller of a coordination pass that got coord_lock is ready, until it  *)
(* is triggered, as long as it is active.                                    *)
CallerReady ==
  \A p \in Programs :
     pc[p] = "join" /\ active[p] = 1 /\ co[<<p, "cmd">>] # "lock" => ready[p] \/ processing[p]

(* The inductive form of ReadyAcknowledged. *)
ReadyInv == ExitSpawned /\ CallerReady
==============================================================================
