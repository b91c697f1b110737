--------------------------- MODULE PulseSequences ----------------------------
(***************************************************************************)
(* The way of a pulse sequence from a control program to the timing card:  *)
(* REGISTER_SEQ, SET_PARAMETERS and SET_READY_FLAG in the server           *)
(* (ros6/server/client_handler.c and timing_handler.c), and the sequence   *)
(* store, the unpacked sequences and the master sequence of the timing     *)
(* driver (ros6/timing_tcp_driver/main.c).  The driver keeps the master    *)
(* sequence from trigger to trigger and computes it again only when a      *)
(* number derived from the ready clients, the sequence id, has changed.    *)
(*                                                                         *)
(* Commands run under controlprogram_list_lock and so does the trigger     *)
(* cycle that a command starts; an exiting program does not take that lock.*)
(* A word of the master sequence is the set of the channels' sequences     *)
(* that were merged into it.                                               *)
(***************************************************************************)
EXTENDS Integers, Sequences, FiniteSetsExt, Functions

CONSTANTS
  Programs,
  MAX_RADARS, MAX_CHANNELS,
  Indexes,   \* the entries of pulseseqs that clients use, 0 .. MAX_SEQS - 1
  Seqs,      \* the sequences that clients register
  Long,      \* those of them that are longer than the others
  Habits,    \* what clients do, see HabitKinds
  NULL

(***************************************************************************)
(* "overlap": a sequence is registered on a channel that waits for its     *)
(*            trigger, by its ready program or by the next one there;      *)
(* "move":    a program changes its channel after it has registered a      *)
(*            sequence.                                                    *)
(***************************************************************************)
HabitKinds == {"overlap", "move"}

ASSUME SequencesAssumption ==
  /\ MAX_RADARS \in Nat \ {0} /\ MAX_CHANNELS \in Nat \ {0}
  /\ Indexes \subseteq 0 .. 3 /\ 0 \in Indexes
  /\ Long \subseteq Seqs /\ NULL \notin Seqs \cup (Nat \X Nat)
  /\ Habits \subseteq HabitKinds

Slots == (0 .. MAX_RADARS - 1) \X (0 .. MAX_CHANNELS - 1)   \* r and c

maxclients == MAX_RADARS * MAX_CHANNELS

Positions == 1 .. 2

(* The words that a sequence fills. *)
Extent(q) == IF q = NULL THEN {} ELSE IF q \in Long THEN {1, 2} ELSE {1}

VARIABLES
  slot,          \* slot[p]: p's radar and channel, or NULL
  state_seqs,    \* state->pulseseqs of p in the server
  pulseseq_index,\* parameters->current_pulseseq_index
  ready,         \* state->ready
  refused,       \* the programs and indexes whose last REGISTER_SEQ was answered -1
  cycle,         \* "idle", or "armed" between PRETRIGGER and POSTTRIGGER
  pulseseqs,     \* the driver's sequences, by slot and index
  clients,       \* the driver's ready clients: slot and index, in order
  seq_buf,       \* the unpacked sequence of each slot
  master_buf, max_seq_count, old_seq_id,
  wanted         \* history: what the program had registered when it got ready

server == <<slot, state_seqs, pulseseq_index, ready, refused>>
driver == <<pulseseqs, clients, seq_buf, master_buf, max_seq_count, old_seq_id>>
vars   == <<server, cycle, driver, wanted>>

Nothing == [s \in Slots |-> NULL]
NoSeqs  == [i \in Indexes |-> NULL]

TypeOK ==
  /\ slot \in [Programs -> Slots \cup {NULL}]
  /\ state_seqs \in [Programs -> [Indexes -> Seqs \cup {NULL}]]
  /\ pulseseq_index \in [Programs -> Indexes \cup {-1}]
  /\ ready \in [Programs -> BOOLEAN]
  /\ refused \subseteq Programs \X Indexes
  /\ cycle \in {"idle", "armed"}
  /\ pulseseqs \in [Slots -> [Indexes -> Seqs \cup {NULL}]]
  /\ clients \in Seq(Slots \X Indexes) /\ Len(clients) < maxclients
  /\ seq_buf \in [Slots -> Seqs \cup {NULL}]
  /\ master_buf \in [Positions -> SUBSET (Slots \X Seqs)]
  /\ max_seq_count \in {0} \cup Positions
  /\ old_seq_id \in {-10} \cup Nat
  /\ wanted \in [Slots -> Seqs \cup {NULL}]

Init ==
  /\ slot = [p \in Programs |-> NULL]
  /\ state_seqs = [p \in Programs |-> NoSeqs]
  /\ pulseseq_index = [p \in Programs |-> -1]
  /\ ready = [p \in Programs |-> FALSE]
  /\ refused = {}
  /\ cycle = "idle"
  /\ pulseseqs = [s \in Slots |-> NoSeqs]
  /\ clients = <<>>
  /\ seq_buf = Nothing
  /\ master_buf = [j \in Positions |-> {}]
  /\ max_seq_count = 0
  /\ old_seq_id = -10
  /\ wanted = Nothing

Waiting == {entry[1] : entry \in Range(clients)}

-----------------------------------------------------------------------------
(* Commands: list_lock is free when no trigger cycle holds it. *)

(* A sequence that the program has, and has not been refused. *)
Usable(p, i) == state_seqs[p][i] # NULL /\ <<p, i>> \notin refused

(* SET_RADAR_CHAN, granted; the sequences stay where they were registered. *)
SET_RADAR_CHAN(p, s) ==
  /\ cycle = "idle"
  /\ \A q \in Programs \ {p} : slot[q] # s
  /\ (\E i \in Indexes : Usable(p, i)) => "move" \in Habits
  /\ slot' = [slot EXCEPT ![p] = s]
  /\ UNCHANGED <<state_seqs, pulseseq_index, ready, refused, cycle, driver, wanted>>

SET_PARAMETERS(p, i) ==
  /\ cycle = "idle"
  /\ pulseseq_index' = [pulseseq_index EXCEPT ![p] = i]
  /\ UNCHANGED <<slot, state_seqs, ready, refused, cycle, driver, wanted>>

(* REGISTER_SEQ in the driver, and CtrlProg_END, forget the sequence id. *)
Forgotten_kept == old_seq_id
Forgotten == -10

(* Without a channel the driver is not told, and the answer is -1. *)
REGISTER_SEQ(p, i, q) ==
  /\ cycle = "idle"
  /\ slot[p] \in Waiting => "overlap" \in Habits
  /\ state_seqs' = [state_seqs EXCEPT ![p][i] = q]
  /\ pulseseq_index' = [pulseseq_index EXCEPT ![p] = i]
  /\ refused' = IF slot[p] = NULL THEN refused \cup {<<p, i>>} ELSE refused \ {<<p, i>>}
  /\ pulseseqs' = IF slot[p] = NULL THEN pulseseqs ELSE [pulseseqs EXCEPT ![slot[p]][i] = q]
  /\ old_seq_id' = IF slot[p] = NULL THEN old_seq_id ELSE Forgotten
  /\ UNCHANGED <<slot, ready, cycle, clients, seq_buf, master_buf, max_seq_count, wanted>>

(* CtrlProg_READY in the driver: the entry of s is replaced or appended, and *)
(* the sequence is unpacked.  A NULL sequence, which the driver would        *)
(* dereference, stays NULL.  The bound leaves out the READY that fills the   *)
(* table, the subject of ReadyTable.                                         *)
Entered(s, i) ==
  IF s \in Waiting
    THEN [k \in DOMAIN clients |-> IF clients[k][1] = s THEN <<s, i>> ELSE clients[k]]
    ELSE Append(clients, <<s, i>>)

READY(s, i) ==
  /\ Len(Entered(s, i)) < maxclients
  /\ clients' = Entered(s, i)
  /\ seq_buf' = [seq_buf EXCEPT ![s] = pulseseqs[s][i]]

(* SET_READY_FLAG: the driver is told only when the program has a sequence;  *)
(* the program is ready in any case.  A client names a sequence before (in   *)
(* control_program.h: "required"), and not one it was refused.               *)
SET_READY_FLAG(p) ==
  LET chosen == state_seqs[p][pulseseq_index[p]]
  IN  /\ cycle = "idle"
      /\ slot[p] # NULL /\ pulseseq_index[p] # -1
      /\ <<p, pulseseq_index[p]>> \notin refused
      /\ IF chosen # NULL
           THEN READY(slot[p], pulseseq_index[p])
           ELSE UNCHANGED <<clients, seq_buf>>
      /\ wanted' = IF chosen # NULL THEN [wanted EXCEPT ![slot[p]] = chosen] ELSE wanted
      /\ ready' = [ready EXCEPT ![p] = TRUE]
      /\ UNCHANGED <<slot, state_seqs, pulseseq_index, refused, cycle,
                     pulseseqs, master_buf, max_seq_count, old_seq_id>>

-----------------------------------------------------------------------------
(* The trigger cycle, once the programs that are not ready are inactive. *)

Weight(entry) == 1000 * entry[1][1] + 100 * entry[1][2] + entry[2] + 1

(* The sequence id of a table: new_seq_id[k] is the sum after k entries. *)
IdOf(table) ==
  LET new_seq_id[k \in 0 .. Len(table)] ==
        IF k = 0 THEN -1 ELSE new_seq_id[k - 1] + Weight(table[k])
  IN  new_seq_id[Len(table)]

seq_id == IdOf(clients)

(* The first client's words are assigned, those of the others are ORed to    *)
(* what is there.                                                            *)
Merged ==
  [j \in Positions |->
     {<<s, seq_buf[s]>> : s \in {t \in Waiting : j \in Extent(seq_buf[t])}}
     \cup (IF clients # <<>> /\ j \in Extent(seq_buf[clients[1][1]]) THEN {} ELSE master_buf[j])]

Longest == Max({0} \cup UNION {Extent(seq_buf[s]) : s \in Waiting})

Remembered_any(id) == id
Remembered(id) == IF id < 0 THEN -10 ELSE id

PRETRIGGER ==
  /\ cycle = "idle" /\ \E p \in Programs : ready[p]
  /\ cycle' = "armed"
  /\ \/ /\ seq_id # old_seq_id
        /\ master_buf' = Merged
        /\ max_seq_count' = Longest
     \/ /\ seq_id = old_seq_id
        /\ UNCHANGED <<master_buf, max_seq_count>>
  /\ old_seq_id' = Remembered(seq_id)
  /\ UNCHANGED <<server, pulseseqs, clients, seq_buf, wanted>>

POSTTRIGGER ==
  /\ cycle = "armed"
  /\ cycle' = "idle"
  /\ clients' = <<>>
  /\ wanted' = Nothing
  /\ ready' = [p \in Programs |-> FALSE]
  /\ UNCHANGED <<slot, state_seqs, pulseseq_index, refused,
                 pulseseqs, seq_buf, master_buf, max_seq_count, old_seq_id>>

(* controlprogram_exit: CtrlProg_END, which names no channel, then the       *)
(* channel is given up; the program may connect anew.                        *)
exit(p) ==
  /\ slot' = [slot EXCEPT ![p] = NULL]
  /\ state_seqs' = [state_seqs EXCEPT ![p] = NoSeqs]
  /\ pulseseq_index' = [pulseseq_index EXCEPT ![p] = -1]
  /\ ready' = [ready EXCEPT ![p] = FALSE]
  /\ refused' = refused \ ({p} \X Indexes)
  /\ old_seq_id' = Forgotten
  /\ UNCHANGED <<cycle, pulseseqs, clients, seq_buf, master_buf, max_seq_count, wanted>>

Next ==
  \/ \E p \in Programs :
        \/ \E s \in Slots : SET_RADAR_CHAN(p, s)
        \/ \E i \in Indexes : SET_PARAMETERS(p, i)
        \/ \E i \in Indexes, q \in Seqs : REGISTER_SEQ(p, i, q)
        \/ SET_READY_FLAG(p)
        \/ exit(p)
  \/ PRETRIGGER \/ POSTTRIGGER

Spec == Init /\ [][Next]_vars

-----------------------------------------------------------------------------
(* Properties *)

(***************************************************************************)
(* "registered pulse sequence to use" (include/control_program.h:84): what *)
(* the timing card is loaded with for a trigger is the merge of the        *)
(* sequences that the ready programs had registered under their            *)
(* current_pulseseq_index, no more and no less, although the driver keeps  *)
(* the master sequence of an earlier trigger when the sequence id is the   *)
(* same.                                                                   *)
(***************************************************************************)
RegisteredSequenceUsed ==
  cycle = "armed" =>
    \A j \in Positions :
       (IF j <= max_seq_count THEN master_buf[j] ELSE {})
         = {<<s, wanted[s]>> : s \in {t \in Slots : j \in Extent(wanted[t])}}
==============================================================================
