------------------------ MODULE DataCollectionProofs -------------------------
(***************************************************************************)
(* That the cards are set up for the trigger and that a client gets the    *)
(* samples and the transmit times of its program's last trigger, for any   *)
(* number of programs and any habits of their clients.                     *)
(***************************************************************************)
EXTENDS DataCollection, TLAPS

Searching == {"search_dio", "search_recv", "search_reset"}

(* Who holds the list lock, and whose pass runs the cycle. *)
Locked ==
  \A p \in Programs : pc[p] \in {"coord", "send"} \cup Searching => list_lock = p

CycleBy == phase # "none" => by \in Programs /\ pc[by] \in {"coord", "exit_coord"}

(* Once the receiver is armed no search takes a channel away. *)
Armed ==
  /\ phase # "pre" => todo = {}
  /\ phase \in {"pre", "trigger"} /\ "receiver" \notin todo => armed /\ table \subseteq tuned

(* The DIO card serves a search only while that has the list lock. *)
FrontEnd ==
  /\ rxfe = "rf" => \E p \in Programs : pc[p] \in {"search_recv", "search_reset"}
  /\ (phase \in {"pre", "trigger"} /\ "dio" \notin todo /\ pc[by] = "coord" /\ table # {})
       => antenna = "cycle"

Activity ==
  \A p \in Programs : /\ pc[p] = "wait" => active[p] = 1
                      /\ pc[p] = "exit_coord" => active[p] = 0
                      /\ pc[p] = "exit_coord" => "quit" \in habits

(* A program in the drivers' tables has been marked ready for the cycle to   *)
(* come, or is about to.                                                     *)
Tables ==
  /\ \A p \in table : \/ ready[p] /\ phase # "walk"
                      \/ pc[p] = "coord" /\ active[p] = 1
  /\ phase = "walk" => by \notin table

(* What GET_DATA waits for is over once it talks to the receiver. *)
Exchanged ==
  \A p \in Programs :
    /\ pc[p] = "exchange" => ~ready[p]
    /\ pc[p] \in {"answer", "send"} /\ status[p] # -101 => ~ready[p]

Collected ==
  "search" \notin habits =>
    \A p \in Programs :
      /\ samples[p] # "other"
      /\ pc[p] \notin Searching
      /\ pc[p] \in {"answer", "send"} /\ status[p] = 0 => samples[p] = "own"

Wanting ==
  \A p \in Programs :
    /\ pc[p] \in {"wait_data", "exchange", "answer", "send"} => p \in wants
    /\ ready[p] => p \in wants
    /\ pc[p] = "coord" /\ active[p] = 1 => p \in wants
    /\ "again" \notin habits /\ pc[p] = "wait" => p \notin wants

(* Where exits are orderly, the active programs of a cycle are ready, and    *)
(* nobody becomes ready beside the cycle of an exit.                         *)
Orderly ==
  /\ phase # "none" =>
       \A p \in Programs : /\ active[p] = 1 => ready[p]
                           /\ pc[p] = "coord" => p = by
                           /\ pc[by] = "exit_coord" => pc[p] # "wait"
  /\ "quit" \in habits =>
       \A p \in Programs : /\ pc[p] \notin {"exit_coord", "gone"} => active[p] = 1
                           /\ phase = "none" /\ pc[p] = "coord" => ~ready[p]

(* A ready program is in the tables until it is triggered; then, as long as  *)
(* it is active, the transmit times are its own.                             *)
Times ==
  \A p \in Programs :
    /\ phase = "none" /\ pc[p] = "coord" /\ active[p] = 1 => p \in table
    /\ ready[p] /\ phase \in {"none", "pre", "trigger"} => p \in table
    /\ ready[p] /\ phase \in {"post", "walk"} => p \in times_of
    /\ (p \in wants /\ active[p] = 1 /\ ~ready[p] /\ pc[p] \notin {"wait", "coord"})
         => p \in times_of

Inv ==
  /\ TypeOK
  /\ Locked /\ CycleBy /\ Armed /\ FrontEnd /\ Activity /\ Tables
  /\ Exchanged /\ Collected /\ Wanting
  /\ OrderlyExits => Orderly /\ Times

-----------------------------------------------------------------------------
(* Types *)

LEMMA TypeStep == TypeOK /\ [Next]_vars => TypeOK'
<1> SUFFICES ASSUME TypeOK, [Next]_vars PROVE TypeOK'
  OBVIOUS
<1> USE DataAssumption DEF TypeOK, Places, Contents, Drivers
<1>1. ASSUME NEW p \in Programs, set_ready(p) PROVE TypeOK'
  BY <1>1 DEF set_ready, Goto, cycle, receiver, dio
<1>2. ASSUME NEW p \in Programs, set_ready_told(p) PROVE TypeOK'
  BY <1>2 DEF set_ready_told, Goto, Lock, cycle, receiver, dio
<1>3. ASSUME NEW p \in Programs, set_inactive(p) PROVE TypeOK'
  BY <1>3 DEF set_inactive, Goto, Lock, cycle, receiver, dio
<1>4. ASSUME NEW p \in Programs, exit_begin(p) PROVE TypeOK'
  BY <1>4 DEF exit_begin, Goto, cycle, receiver, dio
<1>5. ASSUME NEW p \in Programs, coordinate(p) PROVE TypeOK'
  BY <1>5 DEF coordinate, Return, Unlock, Complete, cycle, receiver, dio
<1>6. CASE receiver_pretrigger
  BY <1>6 DEF receiver_pretrigger, Preparing, Reset, server, cycle, receiver, dio
<1>7. CASE DIO_pretrigger
  BY <1>7 DEF DIO_pretrigger, Preparing, server, cycle, receiver, dio
<1>8. CASE timing_pretrigger
  BY <1>8 DEF timing_pretrigger, Preparing, server, cycle, receiver, dio
<1>9. CASE all_prepared
  BY <1>9 DEF all_prepared, server, cycle, receiver, dio
<1>10. CASE timing_trigger
  BY <1>10 DEF timing_trigger, server, cycle, receiver, dio
<1>11. CASE posttrigger
  BY <1>11 DEF posttrigger, server, cycle, receiver, dio
<1>12. CASE processing
  BY <1>12 DEF processing, Return, Unlock, cycle, receiver, dio
<1>13. ASSUME NEW p \in Programs, collected(p) PROVE TypeOK'
  BY <1>13 DEF collected, server, cycle, receiver, dio
<1>14. ASSUME NEW p \in Programs, get_data(p) PROVE TypeOK'
  BY <1>14 DEF get_data, Goto, cycle, receiver, dio
<1>15. ASSUME NEW p \in Programs, data_there(p) PROVE TypeOK'
  BY <1>15 DEF data_there, Triggered, Goto, cycle, receiver, dio
<1>16. ASSUME NEW p \in Programs, data_late(p) PROVE TypeOK'
  BY <1>16 DEF data_late, Triggered, Goto, cycle, receiver, dio
<1>17. ASSUME NEW p \in Programs, exchange(p) PROVE TypeOK'
  BY <1>17 DEF exchange, Goto, cycle, receiver, dio
<1>18. ASSUME NEW p \in Programs, answer(p) PROVE TypeOK'
  BY <1>18 DEF answer, Goto, Lock, cycle, receiver, dio
<1>19. ASSUME NEW p \in Programs, sent(p) PROVE TypeOK'
  BY <1>19 DEF sent, Goto, Unlock, cycle, receiver, dio
<1>20. ASSUME NEW p \in Programs, search(p) PROVE TypeOK'
  BY <1>20 DEF search, Goto, Lock, cycle, receiver, dio
<1>21. ASSUME NEW p \in Programs, DIO_clrfreq(p) PROVE TypeOK'
  BY <1>21 DEF DIO_clrfreq, Goto, cycle, receiver, dio
<1>22. ASSUME NEW p \in Programs, receiver_clrfreq(p) PROVE TypeOK'
  BY <1>22 DEF receiver_clrfreq, Goto, MaySearch, Reset, cycle, receiver, dio
<1>23. ASSUME NEW p \in Programs, DIO_rxfe_reset(p) PROVE TypeOK'
  BY <1>23 DEF DIO_rxfe_reset, Goto, Unlock, cycle, receiver, dio
<1>24. CASE UNCHANGED vars
  BY <1>24 DEF vars, server, cycle, receiver, dio
<1> QED
  BY <1>1, <1>2, <1>3, <1>4, <1>5, <1>6, <1>7, <1>8, <1>9, <1>10, <1>11, <1>12,
     <1>13, <1>14, <1>15, <1>16, <1>17, <1>18, <1>19, <1>20, <1>21, <1>22, <1>23, <1>24
  DEF Next, Cycle, GetData, Search

(***************************************************************************)
(* Locks, flags, buffers and the cycle keep their types.                   *)
(***************************************************************************)
THEOREM TypeCorrect == Spec => []TypeOK
<1>1. Init => TypeOK
  BY DEF Init, TypeOK, Places, Contents
<1> QED BY <1>1, TypeStep, PTL DEF Spec

-----------------------------------------------------------------------------
(* The invariant *)

LEMMA InitInv == Init => Inv
<1> SUFFICES ASSUME Init PROVE Inv
  OBVIOUS
<1>1. TypeOK
  BY DEF Init, TypeOK, Places, Contents
<1>2. Locked /\ CycleBy /\ Armed /\ FrontEnd /\ Activity /\ Tables
  BY DEF Init, Locked, CycleBy, Armed, FrontEnd, Activity, Tables, Searching
<1>3. Exchanged /\ Collected /\ Wanting /\ Orderly /\ Times
  BY DEF Init, Exchanged, Collected, Wanting, Orderly, Times, Searching
<1> QED BY <1>1, <1>2, <1>3 DEF Inv

LEMMA SetReadyInv ==
  ASSUME Inv, TypeOK', NEW p \in Programs, set_ready(p)
  PROVE  Inv'
<1> USE DataAssumption DEF Inv, TypeOK, set_ready, Goto, cycle, receiver, dio
<1>1. Locked'
  BY DEF Locked, Searching, CycleBy
<1>2. CycleBy'
  BY DEF CycleBy
<1>3. Armed'
  BY DEF Armed, Drivers
<1>4. FrontEnd'
  BY DEF FrontEnd, Armed, Locked, CycleBy, Searching, Drivers
<1>5. Activity'
  BY DEF Activity, CycleBy
<1>6. Tables'
  BY DEF Tables, Activity, CycleBy
<1>7. Exchanged'
  BY DEF Exchanged, CycleBy
<1>8. Collected'
  BY DEF Collected, Tables, Exchanged, CycleBy, Searching
<1>9. Wanting'
  BY DEF Wanting, Exchanged, CycleBy, Activity
<1>10. ASSUME OrderlyExits' PROVE Orderly'
  BY <1>10 DEF OrderlyExits, Orderly, Locked, CycleBy, Wanting, Activity
<1>11. ASSUME OrderlyExits' PROVE Times'
  BY <1>11 DEF OrderlyExits, Times, Orderly, Locked, CycleBy, Wanting, Activity
<1> QED BY <1>1, <1>2, <1>3, <1>4, <1>5, <1>6, <1>7, <1>8, <1>9, <1>10, <1>11 DEF Inv

LEMMA SetReadyToldInv ==
  ASSUME Inv, TypeOK', NEW p \in Programs, set_ready_told(p)
  PROVE  Inv'
<1> USE DataAssumption DEF Inv, TypeOK, set_ready_told, Goto, Lock, cycle, receiver, dio
<1>1. Locked'
  BY DEF Locked, Searching, CycleBy
<1>2. CycleBy'
  BY DEF CycleBy
<1>3. Armed'
  BY DEF Armed, Drivers
<1>4. FrontEnd'
  BY DEF FrontEnd, Armed, Locked, CycleBy, Searching, Drivers
<1>5. Activity'
  BY DEF Activity, CycleBy
<1>6. Tables'
  BY DEF Tables, Activity, CycleBy
<1>7. Exchanged'
  BY DEF Exchanged, CycleBy
<1>8. Collected'
  BY DEF Collected, Tables, Exchanged, CycleBy, Searching
<1>9. Wanting'
  BY DEF Wanting, Exchanged, CycleBy, Activity
<1>10. ASSUME OrderlyExits' PROVE Orderly'
  BY <1>10 DEF OrderlyExits, Orderly, Locked, CycleBy, Wanting, Activity
<1>11. ASSUME OrderlyExits' PROVE Times'
  BY <1>11 DEF OrderlyExits, Times, Orderly, Locked, CycleBy, Wanting, Activity
<1> QED BY <1>1, <1>2, <1>3, <1>4, <1>5, <1>6, <1>7, <1>8, <1>9, <1>10, <1>11 DEF Inv

LEMMA SetInactiveInv ==
  ASSUME Inv, TypeOK', NEW p \in Programs, set_inactive(p)
  PROVE  Inv'
<1> USE DataAssumption DEF Inv, TypeOK, set_inactive, Goto, Lock, cycle, receiver, dio
<1>1. Locked'
  BY DEF Locked, Searching, CycleBy
<1>2. CycleBy'
  BY DEF CycleBy
<1>3. Armed'
  BY DEF Armed, Drivers
<1>4. FrontEnd'
  BY DEF FrontEnd, Armed, Locked, CycleBy, Searching, Drivers
<1>5. Activity'
  BY DEF Activity, CycleBy
<1>6. Tables'
  BY DEF Tables, Activity, CycleBy
<1>7. Exchanged'
  BY DEF Exchanged, CycleBy
<1>8. Collected'
  BY DEF Collected, Tables, Exchanged, CycleBy, Searching
<1>9. Wanting'
  BY DEF Wanting, Exchanged, CycleBy, Activity
<1>10. ASSUME OrderlyExits' PROVE Orderly'
  BY <1>10 DEF OrderlyExits, Orderly, Locked, CycleBy, Wanting, Activity
<1>11. ASSUME OrderlyExits' PROVE Times'
  BY <1>11 DEF OrderlyExits, Times, Orderly, Locked, CycleBy, Wanting, Activity
<1> QED BY <1>1, <1>2, <1>3, <1>4, <1>5, <1>6, <1>7, <1>8, <1>9, <1>10, <1>11 DEF Inv

LEMMA ExitBeginInv ==
  ASSUME Inv, TypeOK', NEW p \in Programs, exit_begin(p)
  PROVE  Inv'
<1> USE DataAssumption DEF Inv, TypeOK, exit_begin, Goto, cycle, receiver, dio
<1>1. Locked'
  BY DEF Locked, Searching, CycleBy
<1>2. CycleBy'
  BY DEF CycleBy
<1>3. Armed'
  BY DEF Armed, Drivers
<1>4. FrontEnd'
  BY DEF FrontEnd, Armed, Locked, CycleBy, Searching, Drivers
<1>5. Activity'
  BY DEF Activity, CycleBy
<1>6. Tables'
  BY DEF Tables, Activity, CycleBy
<1>7. Exchanged'
  BY DEF Exchanged, CycleBy
<1>8. Collected'
  BY DEF Collected, Tables, Exchanged, CycleBy, Searching
<1>9. Wanting'
  BY DEF Wanting, Exchanged, CycleBy, Activity
<1>10. ASSUME OrderlyExits' PROVE Orderly'
  BY <1>10 DEF OrderlyExits, Orderly, Locked, CycleBy, Wanting, Activity
<1>11. ASSUME OrderlyExits' PROVE Times'
  BY <1>11 DEF OrderlyExits, Times, Orderly, Locked, CycleBy, Wanting, Activity
<1> QED BY <1>1, <1>2, <1>3, <1>4, <1>5, <1>6, <1>7, <1>8, <1>9, <1>10, <1>11 DEF Inv

LEMMA CoordinateInv ==
  ASSUME Inv, TypeOK', NEW p \in Programs, coordinate(p)
  PROVE  Inv'
<1> USE DataAssumption DEF Inv, TypeOK, coordinate, Return, Unlock, Complete, cycle, receiver, dio
<1>1. Locked'
  BY DEF Locked, Searching, CycleBy
<1>2. CycleBy'
  BY DEF CycleBy
<1>3. Armed'
  BY DEF Armed, Drivers
<1>4. FrontEnd'
  BY DEF FrontEnd, Armed, Locked, CycleBy, Searching, Drivers
<1>5. Activity'
  BY DEF Activity, CycleBy
<1>6. Tables'
  <2>1. /\ phase = "none" /\ phase' \in {"none", "pre"}
        /\ UNCHANGED <<active, table>>
    OBVIOUS
  <2>2. \A q \in Programs : q # p => (ready'[q] <=> ready[q]) /\ pc'[q] = pc[q]
    OBVIOUS
  <2>3. active[p] = 1 => ready'[p]
    OBVIOUS
  <2>4. p \in table => ready'[p]
    BY <2>3 DEF Tables, CycleBy
  <2>5. table \subseteq Programs
    OBVIOUS
  <2> QED BY ONLY <2>1, <2>2, <2>4, <2>5, Tables DEF Tables
<1>7. Exchanged'
  BY DEF Exchanged, CycleBy
<1>8. Collected'
  BY DEF Collected, Tables, Exchanged, CycleBy, Searching
<1>9. Wanting'
  BY DEF Wanting, Exchanged, CycleBy, Activity
<1>10. ASSUME OrderlyExits' PROVE Orderly'
  BY <1>10 DEF OrderlyExits, Orderly, Locked, CycleBy, Wanting, Activity
<1>11. ASSUME OrderlyExits' PROVE Times'
  <2>1. /\ Orderly /\ Times /\ phase = "none" /\ phase' \in {"none", "pre"}
        /\ UNCHANGED <<active, wants, table, times_of>>
    BY <1>11 DEF OrderlyExits
  <2>2. \A q \in Programs : q # p => (ready'[q] <=> ready[q]) /\ pc'[q] = pc[q]
    OBVIOUS
  <2>3. ready'[p] <=> ready[p] \/ active[p] = 1
    OBVIOUS
  <2>4. active[p] = 1 => pc[p] = "coord"
    BY DEF Activity
  <2>5. ready'[p] => p \in table
    BY <2>1, <2>3, <2>4 DEF Times
  <2>6. phase' = "none" => pc'[p] # "coord"
    BY <2>1
  <2> QED BY <2>1, <2>2, <2>3, <2>5, <2>6 DEF Times
<1> QED BY <1>1, <1>2, <1>3, <1>4, <1>5, <1>6, <1>7, <1>8, <1>9, <1>10, <1>11 DEF Inv

LEMMA ReceiverPretriggerInv ==
  ASSUME Inv, TypeOK', receiver_pretrigger
  PROVE  Inv'
<1> USE DataAssumption DEF Inv, TypeOK, receiver_pretrigger, Preparing, Reset, server, cycle, receiver, dio
<1>1. Locked'
  BY DEF Locked, Searching, CycleBy
<1>2. CycleBy'
  BY DEF CycleBy
<1>3. Armed'
  BY DEF Armed, Drivers
<1>4. FrontEnd'
  BY DEF FrontEnd, Armed, Locked, CycleBy, Searching, Drivers
<1>5. Activity'
  BY DEF Activity, CycleBy
<1>6. Tables'
  BY DEF Tables, Activity, CycleBy
<1>7. Exchanged'
  BY DEF Exchanged, CycleBy
<1>8. Collected'
  BY DEF Collected, Tables, Exchanged, CycleBy, Searching
<1>9. Wanting'
  BY DEF Wanting, Exchanged, CycleBy, Activity
<1>10. ASSUME OrderlyExits' PROVE Orderly'
  BY <1>10 DEF OrderlyExits, Orderly, Locked, CycleBy, Wanting, Activity
<1>11. ASSUME OrderlyExits' PROVE Times'
  BY <1>11 DEF OrderlyExits, Times, Orderly, Locked, CycleBy, Wanting, Activity
<1> QED BY <1>1, <1>2, <1>3, <1>4, <1>5, <1>6, <1>7, <1>8, <1>9, <1>10, <1>11 DEF Inv

LEMMA DIOPretriggerInv ==
  ASSUME Inv, TypeOK', DIO_pretrigger
  PROVE  Inv'
<1> USE DataAssumption DEF Inv, TypeOK, DIO_pretrigger, Preparing, server, cycle, receiver, dio
<1>1. Locked'
  BY DEF Locked, Searching, CycleBy
<1>2. CycleBy'
  BY DEF CycleBy
<1>3. Armed'
  BY DEF Armed, Drivers
<1>4. FrontEnd'
  BY DEF FrontEnd, Armed, Locked, CycleBy, Searching, Drivers
<1>5. Activity'
  BY DEF Activity, CycleBy
<1>6. Tables'
  BY DEF Tables, Activity, CycleBy
<1>7. Exchanged'
  BY DEF Exchanged, CycleBy
<1>8. Collected'
  BY DEF Collected, Tables, Exchanged, CycleBy, Searching
<1>9. Wanting'
  BY DEF Wanting, Exchanged, CycleBy, Activity
<1>10. ASSUME OrderlyExits' PROVE Orderly'
  BY <1>10 DEF OrderlyExits, Orderly, Locked, CycleBy, Wanting, Activity
<1>11. ASSUME OrderlyExits' PROVE Times'
  BY <1>11 DEF OrderlyExits, Times, Orderly, Locked, CycleBy, Wanting, Activity
<1> QED BY <1>1, <1>2, <1>3, <1>4, <1>5, <1>6, <1>7, <1>8, <1>9, <1>10, <1>11 DEF Inv

LEMMA TimingPretriggerInv ==
  ASSUME Inv, TypeOK', timing_pretrigger
  PROVE  Inv'
<1> USE DataAssumption DEF Inv, TypeOK, timing_pretrigger, Preparing, server, cycle, receiver, dio
<1>1. Locked'
  BY DEF Locked, Searching, CycleBy
<1>2. CycleBy'
  BY DEF CycleBy
<1>3. Armed'
  BY DEF Armed, Drivers
<1>4. FrontEnd'
  BY DEF FrontEnd, Armed, Locked, CycleBy, Searching, Drivers
<1>5. Activity'
  BY DEF Activity, CycleBy
<1>6. Tables'
  BY DEF Tables, Activity, CycleBy
<1>7. Exchanged'
  BY DEF Exchanged, CycleBy
<1>8. Collected'
  BY DEF Collected, Tables, Exchanged, CycleBy, Searching
<1>9. Wanting'
  BY DEF Wanting, Exchanged, CycleBy, Activity
<1>10. ASSUME OrderlyExits' PROVE Orderly'
  BY <1>10 DEF OrderlyExits, Orderly, Locked, CycleBy, Wanting, Activity
<1>11. ASSUME OrderlyExits' PROVE Times'
  BY <1>11 DEF OrderlyExits, Times, Orderly, Locked, CycleBy, Wanting, Activity
<1> QED BY <1>1, <1>2, <1>3, <1>4, <1>5, <1>6, <1>7, <1>8, <1>9, <1>10, <1>11 DEF Inv

LEMMA AllPreparedInv ==
  ASSUME Inv, TypeOK', all_prepared
  PROVE  Inv'
<1> USE DataAssumption DEF Inv, TypeOK, all_prepared, server, cycle, receiver, dio
<1>1. Locked'
  BY DEF Locked, Searching, CycleBy
<1>2. CycleBy'
  BY DEF CycleBy
<1>3. Armed'
  BY DEF Armed, Drivers
<1>4. FrontEnd'
  BY DEF FrontEnd, Armed, Locked, CycleBy, Searching, Drivers
<1>5. Activity'
  BY DEF Activity, CycleBy
<1>6. Tables'
  BY DEF Tables, Activity, CycleBy
<1>7. Exchanged'
  BY DEF Exchanged, CycleBy
<1>8. Collected'
  BY DEF Collected, Tables, Exchanged, CycleBy, Searching
<1>9. Wanting'
  BY DEF Wanting, Exchanged, CycleBy, Activity
<1>10. ASSUME OrderlyExits' PROVE Orderly'
  BY <1>10 DEF OrderlyExits, Orderly, Locked, CycleBy, Wanting, Activity
<1>11. ASSUME OrderlyExits' PROVE Times'
  BY <1>11 DEF OrderlyExits, Times, Orderly, Locked, CycleBy, Wanting, Activity
<1> QED BY <1>1, <1>2, <1>3, <1>4, <1>5, <1>6, <1>7, <1>8, <1>9, <1>10, <1>11 DEF Inv

LEMMA TimingTriggerInv ==
  ASSUME Inv, TypeOK', timing_trigger
  PROVE  Inv'
<1> USE DataAssumption DEF Inv, TypeOK, timing_trigger, server, cycle, receiver, dio
<1>1. Locked'
  BY DEF Locked, Searching, CycleBy
<1>2. CycleBy'
  BY DEF CycleBy
<1>3. Armed'
  BY DEF Armed, Drivers
<1>4. FrontEnd'
  BY DEF FrontEnd, Armed, Locked, CycleBy, Searching, Drivers
<1>5. Activity'
  BY DEF Activity, CycleBy
<1>6. Tables'
  BY DEF Tables, Activity, CycleBy
<1>7. Exchanged'
  BY DEF Exchanged, CycleBy
<1>8. Collected'
  BY DEF Collected, Tables, Exchanged, CycleBy, Searching
<1>9. Wanting'
  BY DEF Wanting, Exchanged, CycleBy, Activity
<1>10. ASSUME OrderlyExits' PROVE Orderly'
  BY <1>10 DEF OrderlyExits, Orderly, Locked, CycleBy, Wanting, Activity
<1>11. ASSUME OrderlyExits' PROVE Times'
  BY <1>11 DEF OrderlyExits, Times, Orderly, Locked, CycleBy, Wanting, Activity
<1> QED BY <1>1, <1>2, <1>3, <1>4, <1>5, <1>6, <1>7, <1>8, <1>9, <1>10, <1>11 DEF Inv

LEMMA PosttriggerInv ==
  ASSUME Inv, TypeOK', posttrigger
  PROVE  Inv'
<1> USE DataAssumption DEF Inv, TypeOK, posttrigger, server, cycle, receiver, dio
<1>1. Locked'
  BY DEF Locked, Searching, CycleBy
<1>2. CycleBy'
  BY DEF CycleBy
<1>3. Armed'
  BY DEF Armed, Drivers
<1>4. FrontEnd'
  BY DEF FrontEnd, Armed, Locked, CycleBy, Searching, Drivers
<1>5. Activity'
  BY DEF Activity, CycleBy
<1>6. Tables'
  BY DEF Tables, Activity, CycleBy
<1>7. Exchanged'
  BY DEF Exchanged, CycleBy
<1>8. Collected'
  BY DEF Collected, Tables, Exchanged, CycleBy, Searching
<1>9. Wanting'
  BY DEF Wanting, Exchanged, CycleBy, Activity
<1>10. ASSUME OrderlyExits' PROVE Orderly'
  BY <1>10 DEF OrderlyExits, Orderly, Locked, CycleBy, Wanting, Activity
<1>11. ASSUME OrderlyExits' PROVE Times'
  BY <1>11 DEF OrderlyExits, Times, Orderly, Locked, CycleBy, Wanting, Activity
<1> QED BY <1>1, <1>2, <1>3, <1>4, <1>5, <1>6, <1>7, <1>8, <1>9, <1>10, <1>11 DEF Inv

LEMMA ProcessingInv ==
  ASSUME Inv, TypeOK', processing
  PROVE  Inv'
<1> USE DataAssumption DEF Inv, TypeOK, processing, Return, Unlock, cycle, receiver, dio
<1>1. Locked'
  BY DEF Locked, Searching, CycleBy
<1>2. CycleBy'
  BY DEF CycleBy
<1>3. Armed'
  BY DEF Armed, Drivers
<1>4. FrontEnd'
  BY DEF FrontEnd, Armed, Locked, CycleBy, Searching, Drivers
<1>5. Activity'
  BY DEF Activity, CycleBy
<1>6. Tables'
  BY DEF Tables, Activity, CycleBy
<1>7. Exchanged'
  BY DEF Exchanged, CycleBy
<1>8. Collected'
  BY DEF Collected, Tables, Exchanged, CycleBy, Searching
<1>9. Wanting'
  BY DEF Wanting, Exchanged, CycleBy, Activity
<1>10. ASSUME OrderlyExits' PROVE Orderly'
  BY <1>10 DEF OrderlyExits, Orderly, Locked, CycleBy, Wanting, Activity
<1>11. ASSUME OrderlyExits' PROVE Times'
  BY <1>11 DEF OrderlyExits, Times, Orderly, Locked, CycleBy, Wanting, Activity
<1> QED BY <1>1, <1>2, <1>3, <1>4, <1>5, <1>6, <1>7, <1>8, <1>9, <1>10, <1>11 DEF Inv

LEMMA CollectedStepInv ==
  ASSUME Inv, TypeOK', NEW p \in Programs, collected(p)
  PROVE  Inv'
<1> USE DataAssumption DEF Inv, TypeOK, collected, server, cycle, receiver, dio
<1>1. Locked'
  BY DEF Locked, Searching, CycleBy
<1>2. CycleBy'
  BY DEF CycleBy
<1>3. Armed'
  BY DEF Armed, Drivers
<1>4. FrontEnd'
  BY DEF FrontEnd, Armed, Locked, CycleBy, Searching, Drivers
<1>5. Activity'
  BY DEF Activity, CycleBy
<1>6. Tables'
  BY DEF Tables, Activity, CycleBy
<1>7. Exchanged'
  BY DEF Exchanged, CycleBy
<1>8. Collected'
  BY DEF Collected, Tables, Exchanged, CycleBy, Searching
<1>9. Wanting'
  BY DEF Wanting, Exchanged, CycleBy, Activity
<1>10. ASSUME OrderlyExits' PROVE Orderly'
  BY <1>10 DEF OrderlyExits, Orderly, Locked, CycleBy, Wanting, Activity
<1>11. ASSUME OrderlyExits' PROVE Times'
  BY <1>11 DEF OrderlyExits, Times, Orderly, Locked, CycleBy, Wanting, Activity
<1> QED BY <1>1, <1>2, <1>3, <1>4, <1>5, <1>6, <1>7, <1>8, <1>9, <1>10, <1>11 DEF Inv

LEMMA GetDataStepInv ==
  ASSUME Inv, TypeOK', NEW p \in Programs, get_data(p)
  PROVE  Inv'
<1> USE DataAssumption DEF Inv, TypeOK, get_data, Goto, cycle, receiver, dio
<1>1. Locked'
  BY DEF Locked, Searching, CycleBy
<1>2. CycleBy'
  BY DEF CycleBy
<1>3. Armed'
  BY DEF Armed, Drivers
<1>4. FrontEnd'
  BY DEF FrontEnd, Armed, Locked, CycleBy, Searching, Drivers
<1>5. Activity'
  BY DEF Activity, CycleBy
<1>6. Tables'
  BY DEF Tables, Activity, CycleBy
<1>7. Exchanged'
  BY DEF Exchanged, CycleBy
<1>8. Collected'
  BY DEF Collected, Tables, Exchanged, CycleBy, Searching
<1>9. Wanting'
  BY DEF Wanting, Exchanged, CycleBy, Activity
<1>10. ASSUME OrderlyExits' PROVE Orderly'
  BY <1>10 DEF OrderlyExits, Orderly, Locked, CycleBy, Wanting, Activity
<1>11. ASSUME OrderlyExits' PROVE Times'
  BY <1>11 DEF OrderlyExits, Times, Orderly, Locked, CycleBy, Wanting, Activity
<1> QED BY <1>1, <1>2, <1>3, <1>4, <1>5, <1>6, <1>7, <1>8, <1>9, <1>10, <1>11 DEF Inv

LEMMA DataThereInv ==
  ASSUME Inv, TypeOK', NEW p \in Programs, data_there(p)
  PROVE  Inv'
<1> USE DataAssumption DEF Inv, TypeOK, data_there, Triggered, Goto, cycle, receiver, dio
<1>1. Locked'
  BY DEF Locked, Searching, CycleBy
<1>2. CycleBy'
  BY DEF CycleBy
<1>3. Armed'
  BY DEF Armed, Drivers
<1>4. FrontEnd'
  BY DEF FrontEnd, Armed, Locked, CycleBy, Searching, Drivers
<1>5. Activity'
  BY DEF Activity, CycleBy
<1>6. Tables'
  BY DEF Tables, Activity, CycleBy
<1>7. Exchanged'
  BY DEF Exchanged, CycleBy
<1>8. Collected'
  BY DEF Collected, Tables, Exchanged, CycleBy, Searching
<1>9. Wanting'
  BY DEF Wanting, Exchanged, CycleBy, Activity
<1>10. ASSUME OrderlyExits' PROVE Orderly'
  BY <1>10 DEF OrderlyExits, Orderly, Locked, CycleBy, Wanting, Activity
<1>11. ASSUME OrderlyExits' PROVE Times'
  BY <1>11 DEF OrderlyExits, Times, Orderly, Locked, CycleBy, Wanting, Activity
<1> QED BY <1>1, <1>2, <1>3, <1>4, <1>5, <1>6, <1>7, <1>8, <1>9, <1>10, <1>11 DEF Inv

LEMMA DataLateInv ==
  ASSUME Inv, TypeOK', NEW p \in Programs, data_late(p)
  PROVE  Inv'
<1> USE DataAssumption DEF Inv, TypeOK, data_late, Triggered, Goto, cycle, receiver, dio
<1>1. Locked'
  BY DEF Locked, Searching, CycleBy
<1>2. CycleBy'
  BY DEF CycleBy
<1>3. Armed'
  BY DEF Armed, Drivers
<1>4. FrontEnd'
  BY DEF FrontEnd, Armed, Locked, CycleBy, Searching, Drivers
<1>5. Activity'
  BY DEF Activity, CycleBy
<1>6. Tables'
  BY DEF Tables, Activity, CycleBy
<1>7. Exchanged'
  BY DEF Exchanged, CycleBy
<1>8. Collected'
  BY DEF Collected, Tables, Exchanged, CycleBy, Searching
<1>9. Wanting'
  BY DEF Wanting, Exchanged, CycleBy, Activity
<1>10. ASSUME OrderlyExits' PROVE Orderly'
  BY <1>10 DEF OrderlyExits, Orderly, Locked, CycleBy, Wanting, Activity
<1>11. ASSUME OrderlyExits' PROVE Times'
  BY <1>11 DEF OrderlyExits, Times, Orderly, Locked, CycleBy, Wanting, Activity
<1> QED BY <1>1, <1>2, <1>3, <1>4, <1>5, <1>6, <1>7, <1>8, <1>9, <1>10, <1>11 DEF Inv

LEMMA ExchangeStepInv ==
  ASSUME Inv, TypeOK', NEW p \in Programs, exchange(p)
  PROVE  Inv'
<1> USE DataAssumption DEF Inv, TypeOK, exchange, Goto, cycle, receiver, dio
<1>1. Locked'
  BY DEF Locked, Searching, CycleBy
<1>2. CycleBy'
  BY DEF CycleBy
<1>3. Armed'
  BY DEF Armed, Drivers
<1>4. FrontEnd'
  BY DEF FrontEnd, Armed, Locked, CycleBy, Searching, Drivers
<1>5. Activity'
  BY DEF Activity, CycleBy
<1>6. Tables'
  BY DEF Tables, Activity, CycleBy
<1>7. Exchanged'
  BY DEF Exchanged, CycleBy
<1>8. Collected'
  BY DEF Collected, Searching, Contents
<1>9. Wanting'
  BY DEF Wanting, Exchanged, CycleBy, Activity
<1>10. ASSUME OrderlyExits' PROVE Orderly'
  BY <1>10 DEF OrderlyExits, Orderly, Locked, CycleBy, Wanting, Activity
<1>11. ASSUME OrderlyExits' PROVE Times'
  BY <1>11 DEF OrderlyExits, Times, Orderly, Locked, CycleBy, Wanting, Activity
<1> QED BY <1>1, <1>2, <1>3, <1>4, <1>5, <1>6, <1>7, <1>8, <1>9, <1>10, <1>11 DEF Inv

LEMMA AnswerStepInv ==
  ASSUME Inv, TypeOK', NEW p \in Programs, answer(p)
  PROVE  Inv'
<1> USE DataAssumption DEF Inv, TypeOK, answer, Goto, Lock, cycle, receiver, dio
<1>1. Locked'
  BY DEF Locked, Searching, CycleBy
<1>2. CycleBy'
  BY DEF CycleBy
<1>3. Armed'
  BY DEF Armed, Drivers
<1>4. FrontEnd'
  BY DEF FrontEnd, Armed, Locked, CycleBy, Searching, Drivers
<1>5. Activity'
  BY DEF Activity, CycleBy
<1>6. Tables'
  BY DEF Tables, Activity, CycleBy
<1>7. Exchanged'
  BY DEF Exchanged, CycleBy
<1>8. Collected'
  BY DEF Collected, Tables, Exchanged, CycleBy, Searching
<1>9. Wanting'
  BY DEF Wanting, Exchanged, CycleBy, Activity
<1>10. ASSUME OrderlyExits' PROVE Orderly'
  BY <1>10 DEF OrderlyExits, Orderly, Locked, CycleBy, Wanting, Activity
<1>11. ASSUME OrderlyExits' PROVE Times'
  BY <1>11 DEF OrderlyExits, Times, Orderly, Locked, CycleBy, Wanting, Activity
<1> QED BY <1>1, <1>2, <1>3, <1>4, <1>5, <1>6, <1>7, <1>8, <1>9, <1>10, <1>11 DEF Inv

LEMMA SentInv ==
  ASSUME Inv, TypeOK', NEW p \in Programs, sent(p)
  PROVE  Inv'
<1> USE DataAssumption DEF Inv, TypeOK, sent, Goto, Unlock, cycle, receiver, dio
<1>1. Locked'
  BY DEF Locked, Searching, CycleBy
<1>2. CycleBy'
  BY DEF CycleBy
<1>3. Armed'
  BY DEF Armed, Drivers
<1>4. FrontEnd'
  BY DEF FrontEnd, Armed, Locked, CycleBy, Searching, Drivers
<1>5. Activity'
  BY DEF Activity, CycleBy
<1>6. Tables'
  BY DEF Tables, Activity, CycleBy
<1>7. Exchanged'
  BY DEF Exchanged, CycleBy
<1>8. Collected'
  BY DEF Collected, Tables, Exchanged, CycleBy, Searching
<1>9. Wanting'
  BY DEF Wanting, Exchanged, CycleBy, Activity
<1>10. ASSUME OrderlyExits' PROVE Orderly'
  BY <1>10 DEF OrderlyExits, Orderly, Locked, CycleBy, Wanting, Activity
<1>11. ASSUME OrderlyExits' PROVE Times'
  BY <1>11 DEF OrderlyExits, Times, Orderly, Locked, CycleBy, Wanting, Activity
<1> QED BY <1>1, <1>2, <1>3, <1>4, <1>5, <1>6, <1>7, <1>8, <1>9, <1>10, <1>11 DEF Inv

LEMMA SearchStepInv ==
  ASSUME Inv, TypeOK', NEW p \in Programs, search(p)
  PROVE  Inv'
<1> USE DataAssumption DEF Inv, TypeOK, search, Goto, Lock, cycle, receiver, dio
<1>1. Locked'
  BY DEF Locked, Searching, CycleBy
<1>2. CycleBy'
  BY DEF CycleBy
<1>3. Armed'
  BY DEF Armed, Drivers
<1>4. FrontEnd'
  BY DEF FrontEnd, Armed, Locked, CycleBy, Searching, Drivers
<1>5. Activity'
  BY DEF Activity, CycleBy
<1>6. Tables'
  BY DEF Tables, Activity, CycleBy
<1>7. Exchanged'
  BY DEF Exchanged, CycleBy
<1>8. Collected'
  BY DEF Collected, Tables, Exchanged, CycleBy, Searching
<1>9. Wanting'
  BY DEF Wanting, Exchanged, CycleBy, Activity
<1>10. ASSUME OrderlyExits' PROVE Orderly'
  BY <1>10 DEF OrderlyExits, Orderly, Locked, CycleBy, Wanting, Activity
<1>11. ASSUME OrderlyExits' PROVE Times'
  BY <1>11 DEF OrderlyExits, Times, Orderly, Locked, CycleBy, Wanting, Activity
<1> QED BY <1>1, <1>2, <1>3, <1>4, <1>5, <1>6, <1>7, <1>8, <1>9, <1>10, <1>11 DEF Inv

LEMMA ClrfreqInv ==
  ASSUME Inv, TypeOK', NEW p \in Programs, DIO_clrfreq(p)
  PROVE  Inv'
<1> USE DataAssumption DEF Inv, TypeOK, DIO_clrfreq, Goto, cycle, receiver, dio
<1>1. Locked'
  BY DEF Locked, Searching, CycleBy
<1>2. CycleBy'
  BY DEF CycleBy
<1>3. Armed'
  BY DEF Armed, Drivers
<1>4. FrontEnd'
  BY DEF FrontEnd, Armed, Locked, CycleBy, Searching, Drivers
<1>5. Activity'
  BY DEF Activity, CycleBy
<1>6. Tables'
  BY DEF Tables, Activity, CycleBy
<1>7. Exchanged'
  BY DEF Exchanged, CycleBy
<1>8. Collected'
  BY DEF Collected, Tables, Exchanged, CycleBy, Searching
<1>9. Wanting'
  BY DEF Wanting, Exchanged, CycleBy, Activity
<1>10. ASSUME OrderlyExits' PROVE Orderly'
  BY <1>10 DEF OrderlyExits, Orderly, Locked, CycleBy, Wanting, Activity
<1>11. ASSUME OrderlyExits' PROVE Times'
  BY <1>11 DEF OrderlyExits, Times, Orderly, Locked, CycleBy, Wanting, Activity
<1> QED BY <1>1, <1>2, <1>3, <1>4, <1>5, <1>6, <1>7, <1>8, <1>9, <1>10, <1>11 DEF Inv

LEMMA ReceiverClrfreqInv ==
  ASSUME Inv, TypeOK', NEW p \in Programs, receiver_clrfreq(p)
  PROVE  Inv'
<1> USE DataAssumption DEF Inv, TypeOK, receiver_clrfreq, Goto, MaySearch, Reset, cycle, receiver, dio
<1>1. Locked'
  BY DEF Locked, Searching, CycleBy
<1>2. CycleBy'
  BY DEF CycleBy
<1>3. Armed'
  BY DEF Armed, Drivers
<1>4. FrontEnd'
  BY DEF FrontEnd, Armed, Locked, CycleBy, Searching, Drivers
<1>5. Activity'
  BY DEF Activity, CycleBy
<1>6. Tables'
  BY DEF Tables, Activity, CycleBy
<1>7. Exchanged'
  BY DEF Exchanged, CycleBy
<1>8. Collected'
  BY DEF Collected, Tables, Exchanged, CycleBy, Searching
<1>9. Wanting'
  BY DEF Wanting, Exchanged, CycleBy, Activity
<1>10. ASSUME OrderlyExits' PROVE Orderly'
  BY <1>10 DEF OrderlyExits, Orderly, Locked, CycleBy, Wanting, Activity
<1>11. ASSUME OrderlyExits' PROVE Times'
  BY <1>11 DEF OrderlyExits, Times, Orderly, Locked, CycleBy, Wanting, Activity
<1> QED BY <1>1, <1>2, <1>3, <1>4, <1>5, <1>6, <1>7, <1>8, <1>9, <1>10, <1>11 DEF Inv

LEMMA RxfeResetInv ==
  ASSUME Inv, TypeOK', NEW p \in Programs, DIO_rxfe_reset(p)
  PROVE  Inv'
<1> USE DataAssumption DEF Inv, TypeOK, DIO_rxfe_reset, Goto, Unlock, cycle, receiver, dio
<1>1. Locked'
  BY DEF Locked, Searching, CycleBy
<1>2. CycleBy'
  BY DEF CycleBy
<1>3. Armed'
  BY DEF Armed, Drivers
<1>4. FrontEnd'
  BY DEF FrontEnd, Armed, Locked, CycleBy, Searching, Drivers
<1>5. Activity'
  BY DEF Activity, CycleBy
<1>6. Tables'
  BY DEF Tables, Activity, CycleBy
<1>7. Exchanged'
  BY DEF Exchanged, CycleBy
<1>8. Collected'
  BY DEF Collected, Tables, Exchanged, CycleBy, Searching
<1>9. Wanting'
  BY DEF Wanting, Exchanged, CycleBy, Activity
<1>10. ASSUME OrderlyExits' PROVE Orderly'
  BY <1>10 DEF OrderlyExits, Orderly, Locked, CycleBy, Wanting, Activity
<1>11. ASSUME OrderlyExits' PROVE Times'
  BY <1>11 DEF OrderlyExits, Times, Orderly, Locked, CycleBy, Wanting, Activity
<1> QED BY <1>1, <1>2, <1>3, <1>4, <1>5, <1>6, <1>7, <1>8, <1>9, <1>10, <1>11 DEF Inv

LEMMA StutterInv ==
  ASSUME Inv, TypeOK', UNCHANGED vars
  PROVE  Inv'
<1> USE DataAssumption DEF Inv, TypeOK, vars, server, cycle, receiver, dio
<1>1. Locked'
  BY DEF Locked, Searching, CycleBy
<1>2. CycleBy'
  BY DEF CycleBy
<1>3. Armed'
  BY DEF Armed, Drivers
<1>4. FrontEnd'
  BY DEF FrontEnd, Armed, Locked, CycleBy, Searching, Drivers
<1>5. Activity'
  BY DEF Activity, CycleBy
<1>6. Tables'
  BY DEF Tables, Activity, CycleBy
<1>7. Exchanged'
  BY DEF Exchanged, CycleBy
<1>8. Collected'
  BY DEF Collected, Tables, Exchanged, CycleBy, Searching
<1>9. Wanting'
  BY DEF Wanting, Exchanged, CycleBy, Activity
<1>10. ASSUME OrderlyExits' PROVE Orderly'
  BY <1>10 DEF OrderlyExits, Orderly, Locked, CycleBy, Wanting, Activity
<1>11. ASSUME OrderlyExits' PROVE Times'
  BY <1>11 DEF OrderlyExits, Times, Orderly, Locked, CycleBy, Wanting, Activity
<1> QED BY <1>1, <1>2, <1>3, <1>4, <1>5, <1>6, <1>7, <1>8, <1>9, <1>10, <1>11 DEF Inv

LEMMA NextInv == Inv /\ [Next]_vars => Inv'
<1> SUFFICES ASSUME Inv, [Next]_vars PROVE Inv'
  OBVIOUS
<1>0. TypeOK'
  BY TypeStep DEF Inv
<1>1. ASSUME NEW p \in Programs, set_ready(p) \/ set_ready_told(p) PROVE Inv'
  BY <1>0, <1>1, SetReadyInv, SetReadyToldInv
<1>2. ASSUME NEW p \in Programs, set_inactive(p) \/ exit_begin(p) \/ coordinate(p) PROVE Inv'
  BY <1>0, <1>2, SetInactiveInv, ExitBeginInv, CoordinateInv
<1>3. CASE Cycle
  BY <1>0, <1>3, ReceiverPretriggerInv, DIOPretriggerInv, TimingPretriggerInv, AllPreparedInv,
     TimingTriggerInv, PosttriggerInv, ProcessingInv DEF Cycle
<1>4. ASSUME NEW p \in Programs, collected(p) \/ get_data(p) PROVE Inv'
  BY <1>0, <1>4, CollectedStepInv, GetDataStepInv
<1>5. ASSUME NEW p \in Programs, GetData(p) PROVE Inv'
  BY <1>0, <1>5, DataThereInv, DataLateInv, ExchangeStepInv, AnswerStepInv, SentInv DEF GetData
<1>6. ASSUME NEW p \in Programs, search(p) \/ Search(p) PROVE Inv'
  BY <1>0, <1>6, SearchStepInv, ClrfreqInv, ReceiverClrfreqInv, RxfeResetInv DEF Search
<1>7. CASE UNCHANGED vars
  BY <1>0, <1>7, StutterInv
<1> QED BY <1>1, <1>2, <1>3, <1>4, <1>5, <1>6, <1>7 DEF Next

LEMMA Invariance == Spec => []Inv
BY InitInv, NextInv, PTL DEF Spec

-----------------------------------------------------------------------------
(***************************************************************************)
(* At the trigger every channel of a ready program is tuned as the program *)
(* asked: the armed flag keeps a search from taking channel 0 away, also   *)
(* beside the cycle of an exit, which does not hold the list lock.         *)
(***************************************************************************)
THEOREM TunedAtTriggerHolds == Spec => []TunedAtTrigger
<1>1. Inv => TunedAtTrigger
  BY DEF Inv, Armed, TunedAtTrigger
<1> QED BY Invariance, <1>1, PTL

(***************************************************************************)
(* At a trigger that a command has started the antenna and the front end   *)
(* are set for the cycle: the list lock keeps the DIO commands of a search *)
(* out.                                                                    *)
(***************************************************************************)
THEOREM FrontEndAtTriggerHolds == Spec => []FrontEndAtTrigger
<1>1. Inv => FrontEndAtTrigger
  <2> SUFFICES ASSUME Inv, phase = "trigger", pc[by] = "coord", table # {}
               PROVE  antenna = "cycle" /\ rxfe = "if"
    BY DEF FrontEndAtTrigger
  <2>1. antenna = "cycle"
    BY DEF Inv, Armed, FrontEnd
  <2>2. by \in Programs /\ list_lock = by
    BY DEF Inv, CycleBy, Locked
  <2>3. \A p \in Programs : pc[p] \notin {"search_recv", "search_reset"}
    BY <2>2 DEF Inv, Locked, Searching
  <2> QED BY <2>1, <2>3 DEF Inv, TypeOK, FrontEnd
<1> QED BY Invariance, <1>1, PTL

(***************************************************************************)
(* What GET_DATA sends as good data are the samples of the program's last  *)
(* trigger, as long as nobody searches, however its wait and its exchange  *)
(* with the receiver fall between the cycles of the others.                *)
(***************************************************************************)
THEOREM OwnSamplesHolds == Spec => []OwnSamples
<1>1. Inv => OwnSamples
  BY DEF Inv, Collected, OwnSamples, Sending
<1> QED BY Invariance, <1>1, PTL

(***************************************************************************)
(* The transmit times sent with the data of an active program are those of *)
(* its last trigger, although all programs share one table of them.        *)
(***************************************************************************)
THEOREM OwnTransmitTimesHolds == Spec => []OwnTransmitTimes
<1>1. Inv => OwnTransmitTimes
  <2> SUFFICES ASSUME Inv, OrderlyExits, NEW p \in Programs, Sending(p), active[p] = 1
               PROVE  p \in times_of
    BY DEF OwnTransmitTimes
  <2>1. p \in wants /\ ~ready[p]
    BY 0 # -101 DEF Inv, Wanting, Exchanged, Sending
  <2> QED BY <2>1 DEF Inv, Times, Sending
<1> QED BY Invariance, <1>1, PTL
==============================================================================
