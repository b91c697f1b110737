----------------------------- MODULE TimingFifo ------------------------------
(***************************************************************************)
(* The timing card's FIFO and the two threads of the timing driver that    *)
(* work on it (ros6/timing_tcp_driver/main.c): main, which carries out     *)
(* PRETRIGGER, TRIGGER and WAIT one after the other, and int_handler,      *)
(* which refills the FIFO while the card sends.  They share xfercount,     *)
(* max_seq_count and writingFIFO without a lock.                           *)
(*                                                                         *)
(* int_handler has no clock of its own.  Every FIFOLVL-th word of the      *)
(* master sequence is stamped; the card raises an event when it sends a    *)
(* stamped word, and each event brings FIFOLVL more words.  A word is its  *)
(* position in master_buf; what the words say is the subject of            *)
(* PulseSequences, who sends which command when that of TriggerCycle: here *)
(* a PRETRIGGER comes after a WAIT and no WAIT before the TRIGGER.         *)
(***************************************************************************)
EXTENDS Integers, Sequences

CONSTANTS
  FIFOLVL, FIFOWIDTH,
  FifoSize,    \* the words that the FIFO holds, 16384
  Lengths,     \* the lengths of master sequences
  Behaviours   \* the sets of conditions that may hold together

(***************************************************************************)
(* "late":  int_handler may be slower than the card: another stamped word  *)
(*          may be sent before it has served the last event;               *)
(* "early": the second of the system clock may end during a WAIT, which    *)
(*          compares seconds only and then takes int_handler for dead.     *)
(***************************************************************************)
Conditions == {"late", "early"}

ASSUME FifoAssumption ==
  /\ FIFOLVL \in Nat \ {0} /\ FIFOWIDTH \in Nat \ {0} /\ FIFOWIDTH < FIFOLVL
  /\ FifoSize \in Nat /\ 2 * FIFOLVL + FIFOWIDTH + 1 <= FifoSize
  /\ Lengths \subseteq Nat
  /\ Behaviours \subseteq SUBSET Conditions

VARIABLES
  conditions,
  stage,         \* what main did last: "rest", "armed", "running", or a place in WAIT
  status,        \* the answer to the last WAIT
  thread,        \* the place of int_handler
  max_seq_count, xfercount, totransfer, writingFIFO,
  fifo,          \* the words in the FIFO
  enabled,       \* outputs enabled
  event,         \* bit 0x04 of the card's register 0x0c
  under,         \* the card's under-run bit
  out,           \* history: the words sent since PRETRIGGER
  torn,          \* history: at PRETRIGGER int_handler was in the midst of a refill
  given_up       \* history: a WAIT since PRETRIGGER took int_handler for dead

main_vars == <<stage, status, max_seq_count>>
card      == <<fifo, enabled, event, under, out>>
history   == <<torn, given_up>>
vars == <<conditions, main_vars, thread, xfercount, totransfer, writingFIFO,
          card, history>>

Words(from, n) == [k \in 1 .. n |-> from + k - 1]

TypeOK ==
  /\ conditions \in Behaviours
  /\ stage \in {"rest", "armed", "running", "wait_written", "wait_empty"}
  /\ status \in {0, -1, -2, -3}
  /\ thread \in {"top", "poll", "clear", "refill"}
  /\ max_seq_count \in Lengths \cup {0}
  /\ xfercount \in 0 .. max_seq_count /\ totransfer \in Int
  /\ writingFIFO \in BOOLEAN /\ enabled \in BOOLEAN
  /\ event \in BOOLEAN /\ under \in BOOLEAN
  /\ fifo \in Seq(Nat) /\ out \in Seq(Nat)
  /\ torn \in BOOLEAN /\ given_up \in BOOLEAN

Init ==
  /\ conditions \in Behaviours
  /\ stage = "rest" /\ status = 0
  /\ thread = "top"
  /\ max_seq_count = 0 /\ xfercount = 0 /\ totransfer = 0 /\ writingFIFO = FALSE
  /\ fifo = <<>> /\ enabled = FALSE /\ event = FALSE /\ under = FALSE
  /\ out = <<>> /\ torn = FALSE /\ given_up = FALSE

-----------------------------------------------------------------------------
(* main *)

(* A long sequence begins with one level, the next stamp and two words more. *)
FirstTransfer(n) == IF n > FifoSize THEN FIFOLVL + FIFOWIDTH + 2 ELSE n

PRETRIGGER(n) ==
  /\ stage = "rest"
  /\ stage' = "armed"
  /\ max_seq_count' = n
  /\ enabled' = FALSE /\ under' = FALSE
  /\ xfercount' = FirstTransfer(n)
  /\ fifo' = Words(0, FirstTransfer(n))
  /\ out' = <<>> /\ given_up' = FALSE
  /\ torn' = (writingFIFO /\ (event \/ thread \in {"clear", "refill"}))
  /\ UNCHANGED <<conditions, status, thread, totransfer, writingFIFO, event>>

TRIGGER_no_clear ==
  /\ stage = "armed"
  /\ stage' = "running"
  /\ writingFIFO' = TRUE /\ enabled' = TRUE
  /\ UNCHANGED <<conditions, status, max_seq_count, thread, xfercount, totransfer,
                 fifo, event, under, out, history>>

(* TIMING_GPS_TRIGGER does the same; the card then waits for the GPS pulse. *)
TRIGGER ==
  /\ stage = "armed"
  /\ stage' = "running"
  /\ event' = FALSE
  /\ writingFIFO' = TRUE /\ enabled' = TRUE
  /\ UNCHANGED <<conditions, status, max_seq_count, thread, xfercount, totransfer,
                 fifo, under, out, history>>

WAIT ==
  /\ stage \in {"rest", "running"}
  /\ stage' = "wait_written"
  /\ UNCHANGED <<conditions, status, max_seq_count, thread, xfercount, totransfer,
                 writingFIFO, card, history>>

WAIT_written ==
  /\ stage = "wait_written" /\ ~writingFIFO
  /\ stage' = "wait_empty"
  /\ UNCHANGED <<conditions, status, max_seq_count, thread, xfercount, totransfer,
                 writingFIFO, card, history>>

(* The outputs are disabled and the FIFO is cleared, in any case. *)
Underflow == IF xfercount < max_seq_count THEN -2 ELSE 0

Answer(dead) ==
  /\ stage' = "rest"
  /\ status' = dead + Underflow
  /\ given_up' = (given_up \/ dead # 0)
  /\ enabled' = FALSE /\ fifo' = <<>> /\ under' = FALSE
  /\ UNCHANGED <<conditions, max_seq_count, thread, xfercount, totransfer,
                 writingFIFO, event, out, torn>>

WAIT_empty_at_once == stage = "wait_empty" /\ Answer(0)
WAIT_empty == stage = "wait_empty" /\ fifo = <<>> /\ Answer(0)

(* dead_flag, before int_handler is done. *)
WAIT_dead ==
  /\ stage = "wait_written" /\ writingFIFO
  /\ "early" \in conditions
  /\ Answer(-1)

-----------------------------------------------------------------------------
(* int_handler *)

top_no_end ==
  /\ thread = "top" /\ writingFIFO
  /\ xfercount < max_seq_count
  /\ thread' = "poll"
  /\ UNCHANGED <<conditions, main_vars, xfercount, totransfer, writingFIFO, card, history>>

top ==
  /\ thread = "top" /\ writingFIFO
  /\ \/ xfercount < max_seq_count /\ thread' = "poll" /\ UNCHANGED writingFIFO
     \/ xfercount >= max_seq_count /\ writingFIFO' = FALSE /\ UNCHANGED thread
  /\ UNCHANGED <<conditions, main_vars, xfercount, totransfer, card, history>>

poll ==
  /\ thread = "poll" /\ event
  /\ thread' = "clear"
  /\ UNCHANGED <<conditions, main_vars, xfercount, totransfer, writingFIFO, card,
                 history>>

Chunk_whole == FIFOLVL
Chunk ==
  IF max_seq_count - xfercount > FIFOLVL THEN FIFOLVL ELSE max_seq_count - xfercount

clear ==
  /\ thread = "clear"
  /\ thread' = "refill"
  /\ event' = FALSE
  /\ totransfer' = Chunk
  /\ UNCHANGED <<conditions, main_vars, xfercount, writingFIFO, fifo, enabled, under,
                 out, history>>

Transferred_after == Words(xfercount + totransfer, totransfer)
Transferred == Words(xfercount, totransfer)

(* The FIFO's flags are read before the transfer, which takes place anyway. *)
refill ==
  LET DMA_Error == xfercount < max_seq_count /\ (fifo = <<>> \/ under)
  IN  /\ thread = "refill"
      /\ thread' = "top"
      /\ \/ /\ xfercount < max_seq_count
            /\ fifo' = fifo \o Transferred
            /\ xfercount' = xfercount + totransfer
         \/ xfercount >= max_seq_count /\ UNCHANGED <<fifo, xfercount>>
      /\ writingFIFO' = (writingFIFO /\ xfercount' < max_seq_count /\ ~DMA_Error)
      /\ UNCHANGED <<conditions, main_vars, totransfer, enabled, event, under, out, history>>

-----------------------------------------------------------------------------
(* The card *)

Stamped_not_first(i) == i % FIFOLVL < FIFOWIDTH /\ i >= FIFOLVL
Stamped(i) == i % FIFOLVL < FIFOWIDTH

Served == writingFIFO => ~event /\ thread \in {"top", "poll"}

(* A stamp raises one event, when its first word is sent. *)
Rises(i) == Stamped(i) /\ (i = 0 \/ ~Stamped(i - 1))

send ==
  /\ enabled /\ fifo # <<>>
  /\ Rises(Head(fifo)) => Served \/ "late" \in conditions
  /\ out' = Append(out, Head(fifo))
  /\ fifo' = Tail(fifo)
  /\ event' = (event \/ Rises(Head(fifo)))
  /\ UNCHANGED <<conditions, main_vars, thread, xfercount, totransfer, writingFIFO,
                 enabled, under, history>>

run_dry ==
  /\ enabled /\ fifo = <<>> /\ Len(out) < max_seq_count
  /\ ~under
  /\ under' = TRUE
  /\ UNCHANGED <<conditions, main_vars, thread, xfercount, totransfer, writingFIFO,
                 fifo, enabled, event, out, history>>

-----------------------------------------------------------------------------
Main       == WAIT_written \/ WAIT_empty \/ WAIT_dead
IntHandler == top \/ poll \/ clear \/ refill

Next ==
  \/ \E n \in Lengths : PRETRIGGER(n)
  \/ TRIGGER \/ WAIT \/ Main
  \/ IntHandler
  \/ send \/ run_dry

(* Both threads and the card go on; whether a command comes is the server's. *)
Spec == Init /\ [][Next]_vars /\ WF_vars(Main) /\ WF_vars(IntHandler) /\ WF_vars(send)

-----------------------------------------------------------------------------
(* Properties *)

(***************************************************************************)
(* The card sends the words of the master sequence in order, each once:    *)
(* no refill comes twice, too early or from a wrong place, even after      *)
(* int_handler was late or a WAIT gave it up, unless that WAIT caught it   *)
(* in the midst of a refill.                                               *)
(***************************************************************************)
InOrder == ~torn => out = Words(0, Len(out))

(***************************************************************************)
(* The refills never overrun the FIFO, although int_handler does not look  *)
(* how full it is: events alone pace it.                                   *)
(***************************************************************************)
NoOverflow == ~torn => Len(fifo) <= FifoSize

(***************************************************************************)
(* An int_handler that serves each event before the next stamped word      *)
(* keeps the card from running dry.                                        *)
(***************************************************************************)
NoUnderrun == "late" \notin conditions => ~under

(***************************************************************************)
(* A WAIT answered 0, without "FIFO Underflow", means that the whole       *)
(* sequence has been sent, however late int_handler was; unless an earlier *)
(* WAIT for it gave up: a second program's WAIT may then be answered 0 for *)
(* a sequence that the first one has cut off.                              *)
(***************************************************************************)
WaitMeansSent ==
  (stage = "rest" /\ status = 0 /\ ~given_up /\ ~torn) => out = Words(0, max_seq_count)

(***************************************************************************)
(* A WAIT, "wait for FIFO empty", comes to an end without its timeout: an  *)
(* int_handler that was late and has lost an event never waits for one     *)
(* that the dry card will not raise.  Where the end of a second breaks a   *)
(* WAIT off in the midst of a refill the next WAIT need not end: the       *)
(* refill goes into the cleared FIFO, and the card, stopped, never empties *)
(* it.                                                                     *)
(***************************************************************************)
InWait == stage \in {"wait_written", "wait_empty"}

WaitEnds == (InWait /\ "early" \notin conditions) ~> ~InWait
==============================================================================
