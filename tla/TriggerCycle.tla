---------------------------- MODULE TriggerCycle -----------------------------
(***************************************************************************)
(* The server's trigger cycle and the four drivers it sets up, together.   *)
(*                                                                         *)
(* RosServer has the server's threads in detail and the drivers as single  *)
(* steps; here it is the other way round.  A program's handler is one of   *)
(* a few places, a coordination pass decides in one step, and what each    *)
(* driver has been told, has set up and has in its FIFO is state.          *)
(* Cancelled handlers and freed memory are left to RosServer, the form of  *)
(* the drivers' tables, and what happens when they are full, to            *)
(* ReadyTable, pulse sequences to PulseSequences.  Every program has its   *)
(* own channel and has registered a sequence.                              *)
(***************************************************************************)
EXTENDS Integers

CONSTANTS
  Programs,
  Behaviours,  \* the sets of habits that clients may have together
  NoOne

Habits == {"quit", "join", "inactive", "active", "again"}

ASSUME CycleAssumption ==
  /\ NoOne \notin Programs
  /\ Behaviours \subseteq SUBSET Habits

Drivers      == {"timing", "dio", "dds", "receiver"}
ClearedByPre == {"dio", "dds"}   \* the others are cleared by POSTTRIGGER

VARIABLES
  habits,       \* what clients do besides SET_READY_FLAG in this behaviour
  pc,           \* the place of each program's handler
  active,       \* 1, -1 (inactive) or 0 (not connected, or exiting)
  ready,        \* state->ready
  list_lock,    \* the handler that holds controlprogram_list_lock
  told,         \* the drivers its holder has sent READY to
  phase, by,    \* the cycle, and the program whose pass runs it (coord_lock)
  todo,         \* the drivers that have not been sent PRETRIGGER yet
  table,        \* table[d]: the ready clients of driver d
  prepared,     \* prepared[d]: the clients of d's last PRETRIGGER
  fifo,         \* the timing card's FIFO
  writingFIFO,
  waiting,      \* whose WAIT the timing driver carries out (timing_comm_lock)
  declared      \* history: told to all drivers since their last trigger

server == <<pc, active, ready, list_lock, told>>
cycle  == <<phase, by, todo>>
card   == <<fifo, writingFIFO>>
vars == <<habits, server, cycle, table, prepared, card, waiting, declared>>

Places == {"away", "init", "idle", "wait", "relock", "tell", "coord",
           "exit_coord", "exit_wait", "gone"}
Phases == {"none", "pre", "trigger", "post_receiver", "post_timing", "walk"}

TypeOK ==
  /\ habits \in Behaviours
  /\ pc \in [Programs -> Places]
  /\ active \in [Programs -> {-1, 0, 1}]
  /\ ready \in [Programs -> BOOLEAN]
  /\ list_lock \in Programs \cup {NoOne}
  /\ told \subseteq Drivers
  /\ phase \in Phases
  /\ by \in Programs \cup {NoOne}
  /\ todo \subseteq Drivers
  /\ table \in [Drivers -> SUBSET Programs]
  /\ prepared \in [Drivers -> SUBSET Programs]
  /\ fifo \in {"empty", "loaded", "sending"}
  /\ writingFIFO \in BOOLEAN
  /\ waiting \in Programs \cup {NoOne}
  /\ declared \subseteq Programs

(* Where clients join later, nobody is there at first. *)
Init ==
  /\ habits \in Behaviours
  /\ pc = [p \in Programs |-> IF "join" \in habits THEN "away" ELSE "idle"]
  /\ active = [p \in Programs |-> IF "join" \in habits THEN 0 ELSE 1]
  /\ ready = [p \in Programs |-> FALSE]
  /\ list_lock = NoOne /\ told = {}
  /\ phase = "none" /\ by = NoOne /\ todo = {}
  /\ table = [d \in Drivers |-> {}]
  /\ prepared = [d \in Drivers |-> {}]
  /\ fifo = "empty" /\ writingFIFO = FALSE
  /\ waiting = NoOne
  /\ declared = {}

Goto(p, from, to) ==
  /\ pc[p] = from
  /\ pc' = [pc EXCEPT ![p] = to]

(* exit_lock: held by controlprogram_exit from its start to its end. *)
exit_lock_free == \A p \in Programs : pc[p] \notin {"exit_coord", "exit_wait"}

-----------------------------------------------------------------------------
(* Handlers *)

(* main: a new program is active from the start; then its handler waits for *)
(* exit_lock and the list lock before it listens to the client.             *)
accept(p) ==
  /\ Goto(p, "away", "init")
  /\ list_lock = NoOne
  /\ active' = [active EXCEPT ![p] = 1]
  /\ UNCHANGED <<habits, ready, list_lock, told, cycle, table, prepared, card,
                 waiting, declared>>

listen(p) ==
  /\ Goto(p, "init", "idle")
  /\ exit_lock_free /\ list_lock = NoOne
  /\ UNCHANGED <<habits, active, ready, list_lock, told, cycle, table, prepared,
                 card, waiting, declared>>

(* SET_READY_FLAG: active under the list lock, which is then given up for *)
(* timing_wait and taken again to tell the drivers.                       *)
Asks(p) == p \notin declared \/ "again" \in habits

set_ready_unlocked(p) ==
  /\ Goto(p, "idle", "wait")
  /\ Asks(p)
  /\ active' = [active EXCEPT ![p] = 1]
  /\ UNCHANGED <<habits, ready, list_lock, told, cycle, table, prepared, card,
                 waiting, declared>>

set_ready_no_wait(p) ==
  /\ Goto(p, "idle", "relock")
  /\ Asks(p)
  /\ list_lock = NoOne
  /\ active' = [active EXCEPT ![p] = 1]
  /\ UNCHANGED <<habits, ready, list_lock, told, cycle, table, prepared, card,
                 waiting, declared>>

set_ready(p) ==
  /\ Goto(p, "idle", "wait")
  /\ Asks(p)
  /\ list_lock = NoOne
  /\ active' = [active EXCEPT ![p] = 1]
  /\ UNCHANGED <<habits, ready, list_lock, told, cycle, table, prepared, card,
                 waiting, declared>>

relock(p) ==
  /\ Goto(p, "relock", "tell")
  /\ list_lock = NoOne
  /\ list_lock' = p
  /\ told' = {}
  /\ UNCHANGED <<habits, active, ready, cycle, table, prepared, card, waiting,
                 declared>>

(* The READY messages to the four drivers, each sent by a thread of its own. *)
comm_lock_free(d) == d = "timing" => waiting = NoOne

Entered(p, d) == [table EXCEPT ![d] = @ \cup {p}]

tell(p, d) ==
  /\ pc[p] = "tell" /\ d \notin told /\ comm_lock_free(d)
  /\ table' = Entered(p, d)
  /\ told' = told \cup {d}
  /\ UNCHANGED <<habits, pc, active, ready, list_lock, cycle, prepared, card,
                 waiting, declared>>

all_told(p) ==
  /\ told = Drivers
  /\ Goto(p, "tell", "coord")
  /\ declared' = declared \cup {p}
  /\ UNCHANGED <<habits, active, ready, list_lock, told, cycle, table, prepared,
                 card, waiting>>

(* SET_INACTIVE and SET_ACTIVE: a coordination pass, and nothing to drivers. *)
SetFlag(p, value) ==
  /\ Goto(p, "idle", "coord")
  /\ list_lock = NoOne
  /\ list_lock' = p
  /\ active' = [active EXCEPT ![p] = value]
  /\ UNCHANGED <<habits, ready, told, cycle, table, prepared, card, waiting,
                 declared>>

set_inactive_decrement(p) == "inactive" \in habits /\ SetFlag(p, active[p] - 2)

set_inactive(p) == "inactive" \in habits /\ SetFlag(p, -1)
set_active(p)   == "active" \in habits /\ SetFlag(p, 1)

(* controlprogram_exit, without the list lock. *)
exit_begin(p) ==
  /\ "quit" \in habits
  /\ exit_lock_free
  /\ Goto(p, "idle", "exit_coord")
  /\ active' = [active EXCEPT ![p] = 0]
  /\ UNCHANGED <<habits, ready, list_lock, told, cycle, table, prepared, card,
                 waiting, declared>>

-----------------------------------------------------------------------------
(* coordination_handler *)

(* A pass that is over: a command gives up the list lock and answers, an *)
(* exit goes on to timing_wait.                                          *)
Return(p) ==
  IF pc[p] = "exit_coord"
  THEN pc' = [pc EXCEPT ![p] = "exit_wait"] /\ UNCHANGED list_lock
  ELSE pc' = [pc EXCEPT ![p] = "idle"] /\ list_lock' = NoOne

coordinate(p) ==
  LET marked == [ready EXCEPT ![p] = @ \/ active[p] = 1]
      members == {q \in Programs : active[q] = 1}
      ready_state_2 == members # {} /\ \A q \in members : marked[q]
  IN  /\ pc[p] \in {"coord", "exit_coord"}
      /\ phase = "none"
      /\ ready' = marked
      /\ \/ /\ ready_state_2
            /\ phase' = "pre" /\ by' = p /\ todo' = Drivers
            /\ UNCHANGED <<pc, list_lock>>
         \/ ~ready_state_2 /\ Return(p) /\ UNCHANGED cycle
      /\ UNCHANGED <<habits, active, told, table, prepared, card, waiting, declared>>

(* The hardware of driver d is set up for the clients in its table. *)
SetUp(d) == [prepared EXCEPT ![d] = table[d]]

(* The timing driver clears its FIFO, whatever it is doing, and fills it *)
(* with the master sequence.                                             *)
Loaded == IF table["timing"] = {} THEN "empty" ELSE "loaded"

(* PRETRIGGER, sent to all drivers at once. *)
pretrigger(d) ==
  /\ phase = "pre" /\ d \in todo /\ comm_lock_free(d)
  /\ todo' = todo \ {d}
  /\ prepared' = SetUp(d)
  /\ table' = IF d \in ClearedByPre THEN [table EXCEPT ![d] = {}] ELSE table
  /\ fifo' = IF d = "timing" THEN Loaded ELSE fifo
  /\ UNCHANGED <<habits, server, phase, by, writingFIFO, waiting, declared>>

all_prepared ==
  /\ phase = "pre" /\ todo = {}
  /\ phase' = "trigger"
  /\ UNCHANGED <<habits, server, by, todo, table, prepared, card, waiting, declared>>

trigger ==
  /\ phase = "trigger" /\ comm_lock_free("timing")
  /\ phase' = "post_receiver"
  /\ writingFIFO' = TRUE
  /\ fifo' = IF fifo = "loaded" THEN "sending" ELSE fifo
  /\ UNCHANGED <<habits, server, by, todo, table, prepared, waiting, declared>>

(* POSTTRIGGER, first to the receiver and then to the timing driver. *)
posttrigger_receiver ==
  /\ phase = "post_receiver"
  /\ phase' = "post_timing"
  /\ table' = [table EXCEPT !["receiver"] = {}]
  /\ UNCHANGED <<habits, server, by, todo, prepared, card, waiting, declared>>

posttrigger_timing_kept ==
  /\ phase = "post_timing" /\ comm_lock_free("timing")
  /\ phase' = "walk"
  /\ UNCHANGED <<habits, server, by, todo, table, prepared, card, waiting, declared>>

posttrigger_timing ==
  /\ phase = "post_timing" /\ comm_lock_free("timing")
  /\ phase' = "walk"
  /\ table' = [table EXCEPT !["timing"] = {}]
  /\ UNCHANGED <<habits, server, by, todo, prepared, card, waiting, declared>>

(* The second walk: every ready program, active or not, is now processing. *)
processing ==
  /\ phase = "walk"
  /\ declared' = {p \in declared : ~ready[p]}
  /\ ready' = [p \in Programs |-> FALSE]
  /\ Return(by)
  /\ phase' = "none" /\ by' = NoOne
  /\ UNCHANGED <<habits, active, told, todo, table, prepared, card, waiting>>

-----------------------------------------------------------------------------
(* The timing driver's WAIT, its FIFO thread and the card *)

timing_wait(p) ==
  /\ pc[p] \in {"wait", "exit_wait"}
  /\ waiting = NoOne
  /\ waiting' = p
  /\ UNCHANGED <<habits, server, cycle, table, prepared, card, declared>>

(* The answer to a WAIT; an exit then ends the program.  END, sent to the *)
(* drivers, leaves their tables alone.                                    *)
Answer ==
  /\ fifo' = "empty"
  /\ waiting' = NoOne
  /\ pc' = [pc EXCEPT ![waiting] = IF @ = "wait" THEN "relock" ELSE "gone"]
  /\ UNCHANGED <<habits, active, ready, list_lock, told, cycle, table, prepared,
                 writingFIFO, declared>>

WAIT_done == waiting # NoOne /\ ~writingFIFO /\ fifo = "empty" /\ Answer

(* dead_flag: the FIFO thread has been at work for more than a second. *)
WAIT_dead == waiting # NoOne /\ writingFIFO /\ Answer

(* int_handler: the last word is in the FIFO, or an error ended it. *)
int_handler ==
  /\ writingFIFO
  /\ writingFIFO' = FALSE
  /\ UNCHANGED <<habits, server, cycle, table, prepared, fifo, waiting, declared>>

sent ==
  /\ fifo = "sending" /\ ~writingFIFO
  /\ fifo' = "empty"
  /\ UNCHANGED <<habits, server, cycle, table, prepared, writingFIFO, waiting,
                 declared>>

-----------------------------------------------------------------------------
Next ==
  \/ \E p \in Programs :
       \/ accept(p) \/ listen(p) \/ set_ready(p) \/ relock(p) \/ all_told(p)
       \/ \E d \in Drivers : tell(p, d)
       \/ set_inactive(p) \/ set_active(p) \/ exit_begin(p)
       \/ coordinate(p) \/ timing_wait(p)
  \/ \E d \in Drivers : pretrigger(d)
  \/ all_prepared \/ trigger \/ posttrigger_receiver \/ posttrigger_timing
  \/ processing
  \/ WAIT_done \/ WAIT_dead \/ int_handler \/ sent

(* The timing driver and its card get on with what they have to do. *)
Spec ==
  /\ Init /\ [][Next]_vars
  /\ WF_vars(int_handler) /\ WF_vars(sent)
  /\ WF_vars(WAIT_done) /\ WF_vars(WAIT_dead)

-----------------------------------------------------------------------------
(* Properties *)

(***************************************************************************)
(* At the trigger all four drivers are set up for the same programs:       *)
(* exactly those that have declared themselves ready since their last      *)
(* trigger.  No READY is lost between a driver that forgets at PRETRIGGER  *)
(* and one that forgets at POSTTRIGGER, and none is served twice.          *)
(***************************************************************************)
SetUpAsDeclared ==
  phase = "trigger" => \A d \in Drivers : prepared[d] = declared

(***************************************************************************)
(* PRETRIGGER, which clears the FIFO without looking, never cuts off a     *)
(* sequence that is being sent.  The cycles that a command or an exit      *)
(* starts do not wait for the card; it is enough that each member waited   *)
(* when it declared itself ready.  (SET_ACTIVE and a second SET_READY_FLAG *)
(* make a program ready without a wait of this cycle.)                     *)
(***************************************************************************)
NothingCutOff ==
  (phase = "pre" /\ "timing" \in todo /\ habits \cap {"active", "again"} = {})
     => fifo # "sending"

(***************************************************************************)
(* A WAIT of the timing driver, "wait for FIFO empty", comes to an end.    *)
(***************************************************************************)
WaitEnds == waiting # NoOne ~> waiting = NoOne

(***************************************************************************)
(* The same for clients that come, declare themselves ready and become     *)
(* inactive, but do not exit, send SET_ACTIVE or declare themselves twice: *)
(* then no WAIT falls between a PRETRIGGER and its TRIGGER.                *)
(***************************************************************************)
OrderlyWaitEnds ==
  (waiting # NoOne /\ habits \subseteq {"join", "inactive"}) ~> waiting = NoOne
==============================================================================
