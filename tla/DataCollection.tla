--------------------------- MODULE DataCollection ----------------------------
(***************************************************************************)
(* How the samples of a trigger come to the program that asked for them,   *)
(* while other programs trigger and search for clear frequencies: GET_DATA *)
(* and REQUEST_CLEAR_FREQ_SEARCH (ros6/server/client_handler.c,            *)
(* reciever_handler.c), the receiver driver with its armed flag and its    *)
(* buffers (ros6/gc316_tcp_driver/main.c) and the antenna and front end    *)
(* settings of the DIO driver.                                             *)
(*                                                                         *)
(* Neither the wait for the data nor the exchange with the receiver is     *)
(* under controlprogram_list_lock; the samples, in memory that the         *)
(* receiver writes, and the transmit times, a global of the server, are    *)
(* sent under it.  A cycle that a command starts runs under the list lock, *)
(* one that an exit starts does not.                                       *)
(*                                                                         *)
(* All programs are on one receiver card, each on its own channel and with *)
(* a registered sequence; the cards are there and ifmode is set.  Left to  *)
(* TriggerCycle: the drivers' tables one by one, the DDS, and a            *)
(* timing_wait between PRETRIGGER and TRIGGER.                             *)
(***************************************************************************)
EXTENDS Integers

CONSTANTS
  Programs,
  First,       \* the program on the card's channel 0, if any
  Behaviours,  \* the sets of habits that clients may have together
  NoOne

(* "again": a client sets its ready flag anew before it has got its data. *)
Habits == {"search", "quit", "inactive", "again"}

ASSUME DataAssumption ==
  /\ NoOne \notin Programs
  /\ First \in Programs \cup {NoOne}
  /\ Behaviours \subseteq SUBSET Habits

Drivers == {"receiver", "dio", "timing"}

VARIABLES
  habits,
  pc,          \* the place of each program's handler
  active, ready,
  list_lock, recv_comm_lock,
  wants,       \* the programs whose clients have not got data since SET_READY_FLAG
  phase, by,   \* the trigger cycle, and the program whose pass runs it
  todo,        \* the drivers that have not been sent PRETRIGGER yet
  table,       \* the ready clients of the drivers
  armed,
  tuned,       \* the channels that are set up as their programs asked
  samples,     \* samples[p]: what is in the buffer of p's channel
  status,      \* status[p]: data->status of p
  antenna,     \* whom the DIO card serves: "cycle" or "search"
  rxfe,        \* the front end: "if" or "rf"
  times_of     \* the programs whose last trigger bad_transmit_times is about

server   == <<pc, active, ready, list_lock, wants>>
cycle    == <<phase, by, todo, table>>
receiver == <<armed, tuned, samples>>
dio      == <<antenna, rxfe>>
vars == <<habits, server, recv_comm_lock, cycle, receiver, status, dio, times_of>>

Places == {"idle", "wait", "coord", "wait_data", "exchange", "answer", "send",
           "search_dio", "search_recv", "search_reset", "exit_coord", "gone"}

(* "own" is of p's last trigger, "other" something else. *)
Contents == {"none", "collecting", "own", "other"}

TypeOK ==
  /\ habits \in Behaviours
  /\ pc \in [Programs -> Places]
  /\ active \in [Programs -> {-1, 0, 1}]
  /\ ready \in [Programs -> BOOLEAN]
  /\ list_lock \in Programs \cup {NoOne}
  /\ recv_comm_lock \in Programs \cup {NoOne}
  /\ wants \subseteq Programs
  /\ phase \in {"none", "pre", "trigger", "post", "walk"}
  /\ by \in Programs \cup {NoOne}
  /\ todo \subseteq Drivers
  /\ table \subseteq Programs
  /\ armed \in BOOLEAN
  /\ tuned \subseteq Programs
  /\ samples \in [Programs -> Contents]
  /\ status \in [Programs -> {0, -1, -101}]
  /\ antenna \in {"cycle", "search"} /\ rxfe \in {"if", "rf"}
  /\ times_of \subseteq Programs

Init ==
  /\ habits \in Behaviours
  /\ pc = [p \in Programs |-> "idle"]
  /\ active = [p \in Programs |-> 1]
  /\ ready = [p \in Programs |-> FALSE]
  /\ list_lock = NoOne /\ recv_comm_lock = NoOne
  /\ wants = {}
  /\ phase = "none" /\ by = NoOne /\ todo = {} /\ table = {}
  /\ armed = FALSE /\ tuned = {}
  /\ samples = [p \in Programs |-> "none"]
  /\ status = [p \in Programs |-> 0]
  /\ antenna = "cycle" /\ rxfe = "if"
  /\ times_of = {}

Goto(p, from, to) ==
  /\ pc[p] = from
  /\ pc' = [pc EXCEPT ![p] = to]

Lock(p)   == list_lock = NoOne /\ list_lock' = p
Unlock(p) == list_lock = p /\ list_lock' = NoOne

(* SYNC and reset of the card break off what is being collected. *)
Reset == [p \in Programs |-> IF samples[p] = "collecting" THEN "none" ELSE samples[p]]

-----------------------------------------------------------------------------
(* SET_READY_FLAG, SET_INACTIVE and exit *)

set_ready(p) ==
  /\ p \in wants => "again" \in habits
  /\ Goto(p, "idle", "wait")
  /\ list_lock = NoOne
  /\ active' = [active EXCEPT ![p] = 1]
  /\ UNCHANGED <<habits, ready, list_lock, wants, recv_comm_lock, cycle, receiver,
                 status, dio, times_of>>

(* timing_wait, after which the card has sent its sequence and the receiver *)
(* has collected, and the READY messages.                                   *)
set_ready_told(p) ==
  /\ Goto(p, "wait", "coord")
  /\ phase \notin {"pre", "trigger"}
  /\ \A q \in Programs : samples[q] # "collecting"
  /\ Lock(p)
  /\ table' = table \cup {p}
  /\ wants' = wants \cup {p}
  /\ UNCHANGED <<habits, active, ready, recv_comm_lock, phase, by, todo, receiver,
                 status, dio, times_of>>

set_inactive(p) ==
  /\ "inactive" \in habits
  /\ Goto(p, "idle", "coord")
  /\ Lock(p)
  /\ active' = [active EXCEPT ![p] = -1]
  /\ UNCHANGED <<habits, ready, wants, recv_comm_lock, cycle, receiver, status, dio,
                 times_of>>

exit_begin(p) ==
  /\ "quit" \in habits
  /\ \A q \in Programs : pc[q] # "exit_coord"
  /\ Goto(p, "idle", "exit_coord")
  /\ active' = [active EXCEPT ![p] = 0]
  /\ UNCHANGED <<habits, ready, list_lock, wants, recv_comm_lock, cycle, receiver,
                 status, dio, times_of>>

-----------------------------------------------------------------------------
(* coordination_handler *)

Return(p) ==
  IF pc[p] = "exit_coord"
  THEN pc' = [pc EXCEPT ![p] = "gone"] /\ UNCHANGED list_lock
  ELSE pc' = [pc EXCEPT ![p] = "idle"] /\ Unlock(p)

Complete_any(marked) == \E q \in Programs : active[q] = 1 /\ marked[q]
Complete(marked) ==
  LET members == {q \in Programs : active[q] = 1}
  IN  members # {} /\ \A q \in members : marked[q]

coordinate(p) ==
  LET marked == [ready EXCEPT ![p] = @ \/ active[p] = 1]
  IN  /\ pc[p] \in {"coord", "exit_coord"}
      /\ phase = "none"
      /\ ready' = marked
      /\ \/ /\ Complete(marked)
            /\ phase' = "pre" /\ by' = p /\ todo' = Drivers
            /\ UNCHANGED <<pc, list_lock>>
         \/ ~Complete(marked) /\ Return(p) /\ UNCHANGED <<phase, by, todo>>
      /\ UNCHANGED <<habits, active, wants, recv_comm_lock, table, receiver, status,
                     dio, times_of>>

Preparing(d) == phase = "pre" /\ d \in todo /\ todo' = todo \ {d}

receiver_pretrigger ==
  /\ Preparing("receiver") /\ recv_comm_lock = NoOne
  /\ armed' = TRUE
  /\ tuned' = tuned \cup table
  /\ samples' = Reset
  /\ UNCHANGED <<habits, server, recv_comm_lock, phase, by, table, status, dio, times_of>>

(* The beam of a ready client is selected, if there is one. *)
DIO_pretrigger ==
  /\ Preparing("dio")
  /\ antenna' = IF table = {} THEN antenna ELSE "cycle"
  /\ UNCHANGED <<habits, server, recv_comm_lock, phase, by, table, receiver, status,
                 rxfe, times_of>>

(* bad_transmit_times is freed and filled anew. *)
timing_pretrigger ==
  /\ Preparing("timing")
  /\ times_of' = {}
  /\ UNCHANGED <<habits, server, recv_comm_lock, phase, by, table, receiver, status, dio>>

all_prepared ==
  /\ phase = "pre" /\ todo = {}
  /\ phase' = "trigger"
  /\ UNCHANGED <<habits, server, recv_comm_lock, by, todo, table, receiver, status, dio,
                 times_of>>

timing_trigger ==
  /\ phase = "trigger"
  /\ phase' = "post"
  /\ samples' = [p \in Programs |-> IF p \in table THEN "collecting" ELSE samples[p]]
  /\ times_of' = table
  /\ UNCHANGED <<habits, server, recv_comm_lock, by, todo, table, armed, tuned, status, dio>>

(* The external trigger is switched off; what it has begun goes on. *)
posttrigger ==
  /\ phase = "post" /\ recv_comm_lock = NoOne
  /\ phase' = "walk"
  /\ armed' = FALSE
  /\ table' = {}
  /\ UNCHANGED <<habits, server, recv_comm_lock, by, todo, tuned, samples, status, dio,
                 times_of>>

processing ==
  /\ phase = "walk"
  /\ ready' = [p \in Programs |-> FALSE]
  /\ Return(by)
  /\ phase' = "none" /\ by' = NoOne
  /\ UNCHANGED <<habits, active, wants, recv_comm_lock, todo, table, receiver, status,
                 dio, times_of>>

(* The card: the last sample of a channel is in its buffer. *)
collected(p) ==
  /\ samples[p] = "collecting"
  /\ samples' = [samples EXCEPT ![p] = "own"]
  /\ UNCHANGED <<habits, server, recv_comm_lock, cycle, armed, tuned, status, dio, times_of>>

-----------------------------------------------------------------------------
(* GET_DATA *)

get_data(p) ==
  /\ Goto(p, "idle", "wait_data")
  /\ p \in wants
  /\ UNCHANGED <<habits, active, ready, list_lock, wants, recv_comm_lock, cycle,
                 receiver, status, dio, times_of>>

(* The thread of GET_DATA looks at ready without a lock. *)
Triggered(p) == ~ready[p]

data_there(p) ==
  /\ Triggered(p)
  /\ Goto(p, "wait_data", "exchange")
  /\ recv_comm_lock = NoOne /\ recv_comm_lock' = p
  /\ UNCHANGED <<habits, active, ready, list_lock, wants, cycle, receiver, status,
                 dio, times_of>>

data_late_unsigned(p) ==
  /\ ~Triggered(p)
  /\ Goto(p, "wait_data", "answer")
  /\ recv_comm_lock = NoOne
  /\ status' = [status EXCEPT ![p] = 101]
  /\ UNCHANGED <<habits, active, ready, list_lock, wants, recv_comm_lock, cycle,
                 receiver, dio, times_of>>

(* Ten seconds have passed. *)
data_late(p) ==
  /\ ~Triggered(p)
  /\ Goto(p, "wait_data", "answer")
  /\ recv_comm_lock = NoOne
  /\ status' = [status EXCEPT ![p] = -101]
  /\ UNCHANGED <<habits, active, ready, list_lock, wants, recv_comm_lock, cycle,
                 receiver, dio, times_of>>

exchange_keeps_lock(p) ==
  /\ Goto(p, "exchange", "answer")
  /\ samples[p] # "collecting"
  /\ status' = [status EXCEPT ![p] = IF samples[p] = "none" THEN -1 ELSE 0]
  /\ recv_comm_lock' = IF samples[p] = "none" THEN recv_comm_lock ELSE NoOne
  /\ UNCHANGED <<habits, active, ready, list_lock, wants, cycle, receiver, dio, times_of>>

exchange_at_once(p) ==
  /\ Goto(p, "exchange", "answer")
  /\ status' = [status EXCEPT ![p] = IF samples[p] = "none" THEN -1 ELSE 0]
  /\ recv_comm_lock' = NoOne
  /\ UNCHANGED <<habits, active, ready, list_lock, wants, cycle, receiver, dio, times_of>>

(* gc314WaitForData: the channel is done, or nothing comes. *)
exchange(p) ==
  /\ Goto(p, "exchange", "answer")
  /\ samples[p] # "collecting"
  /\ status' = [status EXCEPT ![p] = IF samples[p] = "none" THEN -1 ELSE 0]
  /\ recv_comm_lock' = NoOne
  /\ UNCHANGED <<habits, active, ready, list_lock, wants, cycle, receiver, dio, times_of>>

answer(p) ==
  /\ Goto(p, "answer", "send")
  /\ Lock(p)
  /\ UNCHANGED <<habits, active, ready, wants, recv_comm_lock, cycle, receiver, status,
                 dio, times_of>>

sent(p) ==
  /\ Goto(p, "send", "idle")
  /\ Unlock(p)
  /\ wants' = IF status[p] = -101 THEN wants ELSE wants \ {p}
  /\ UNCHANGED <<habits, active, ready, recv_comm_lock, cycle, receiver, status, dio,
                 times_of>>

-----------------------------------------------------------------------------
(* REQUEST_CLEAR_FREQ_SEARCH: DIO_clrfreq, receiver_clrfreq, DIO_rxfe_reset *)

search_unlocked(p) ==
  /\ "search" \in habits
  /\ Goto(p, "idle", "search_dio")
  /\ UNCHANGED <<habits, active, ready, list_lock, wants, recv_comm_lock, cycle,
                 receiver, status, dio, times_of>>

search(p) ==
  /\ "search" \in habits
  /\ Goto(p, "idle", "search_dio")
  /\ Lock(p)
  /\ UNCHANGED <<habits, active, ready, wants, recv_comm_lock, cycle, receiver, status,
                 dio, times_of>>

DIO_clrfreq(p) ==
  /\ Goto(p, "search_dio", "search_recv")
  /\ antenna' = "search" /\ rxfe' = "rf"
  /\ UNCHANGED <<habits, active, ready, list_lock, wants, recv_comm_lock, cycle,
                 receiver, status, times_of>>

(* The search collects on channel 0, whoever asks, unless the card is armed. *)
MaySearch_armed == TRUE
MaySearch == ~armed

receiver_clrfreq(p) ==
  /\ Goto(p, "search_recv", "search_reset")
  /\ recv_comm_lock = NoOne
  /\ \/ /\ MaySearch
        /\ tuned' = tuned \ {First}
        /\ samples' = [q \in Programs |-> IF q = First THEN "other" ELSE Reset[q]]
     \/ ~MaySearch /\ UNCHANGED <<tuned, samples>>
  /\ UNCHANGED <<habits, active, ready, list_lock, wants, recv_comm_lock, cycle, armed,
                 status, dio, times_of>>

DIO_rxfe_reset(p) ==
  /\ Goto(p, "search_reset", "idle")
  /\ rxfe' = "if"
  /\ Unlock(p)
  /\ UNCHANGED <<habits, active, ready, wants, recv_comm_lock, cycle, receiver, status,
                 antenna, times_of>>

-----------------------------------------------------------------------------
GetData(p) == data_there(p) \/ data_late(p) \/ exchange(p) \/ answer(p) \/ sent(p)
Search(p)  == DIO_clrfreq(p) \/ receiver_clrfreq(p) \/ DIO_rxfe_reset(p)
Cycle      == receiver_pretrigger \/ DIO_pretrigger \/ timing_pretrigger \/ all_prepared
              \/ timing_trigger \/ posttrigger \/ processing

Next ==
  \/ \E p \in Programs :
       \/ set_ready(p) \/ set_ready_told(p) \/ set_inactive(p) \/ exit_begin(p)
       \/ coordinate(p) \/ collected(p)
       \/ get_data(p) \/ GetData(p)
       \/ search(p) \/ Search(p)
  \/ Cycle

(* What a thread has begun it goes on with; the mutexes are fair. *)
Spec ==
  /\ Init /\ [][Next]_vars
  /\ WF_vars(Cycle)
  /\ \A p \in Programs :
       /\ SF_vars(coordinate(p) \/ GetData(p) \/ Search(p))
       /\ WF_vars(collected(p))

-----------------------------------------------------------------------------
(* Properties *)

(***************************************************************************)
(* "if armed set an error condition" (RECV_CLRFREQ): at the trigger every  *)
(* channel of a ready program is tuned as the program asked, although a    *)
(* search may run beside a cycle that an exit has started.                 *)
(***************************************************************************)
TunedAtTrigger == phase = "trigger" => table \subseteq tuned

(***************************************************************************)
(* At a trigger that a command has started and that is for someone, the    *)
(* antenna and the front end are set for the cycle and not for a search.   *)
(* (A search that runs beside the cycle of an exit has its settings there: *)
(* the DIO driver has no armed flag.)                                      *)
(***************************************************************************)
FrontEndAtTrigger ==
  (phase = "trigger" /\ pc[by] = "coord" /\ table # {}) => antenna = "cycle" /\ rxfe = "if"

(***************************************************************************)
(* What is sent to a client as good data are the samples of its program's  *)
(* last trigger, although neither the wait nor the exchange is under the   *)
(* list lock and other programs trigger in between; unless they search:    *)
(* a search uses channel 0 and resets the card whatever it is collecting.  *)
(***************************************************************************)
Sending(p) == pc[p] = "send" /\ status[p] = 0

OwnSamples == \A p \in Programs : Sending(p) /\ "search" \notin habits => samples[p] = "own"

(***************************************************************************)
(* The transmit times that go with the data are those of the program's     *)
(* last trigger, and no PRETRIGGER frees them while they are sent, as long *)
(* as the program is active: no cycle can then go on without it.           *)
(*                                                                         *)
(* It does not hold where exits meet clients that become ready beside      *)
(* them, anew or after they were inactive.  The cycle of an exit does not  *)
(* wait for their command: its POSTTRIGGER forgets a READY that came after *)
(* its TRIGGER, and the cycle that follows is without the program and      *)
(* leaves no times for it.                                                 *)
(***************************************************************************)
OrderlyExits == "quit" \in habits => habits \cap {"again", "inactive"} = {}

OwnTransmitTimes ==
  OrderlyExits =>
    \A p \in Programs : Sending(p) /\ active[p] = 1 => p \in times_of

(***************************************************************************)
(* GET_DATA is answered, with data or with -101, whatever the others do.   *)
(***************************************************************************)
GetDataAnswered == \A p \in Programs : pc[p] = "wait_data" ~> pc[p] = "idle"
==============================================================================
