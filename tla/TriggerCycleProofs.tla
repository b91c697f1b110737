------------------------- MODULE TriggerCycleProofs --------------------------
(***************************************************************************)
(* That the four drivers are set up for the programs that have declared    *)
(* themselves ready, and that no sequence is cut off, for any number of    *)
(* programs and any interleaving of handlers, cycle and timing driver.     *)
(***************************************************************************)
EXTENDS TriggerCycle, TLAPS

(***************************************************************************)
(* Where clients exit they do nothing else that is unusual.  The cycle of  *)
(* an exit does not hold the list lock; a client that becomes ready again  *)
(* beside it reaches some drivers before their PRETRIGGER and others       *)
(* after it.                                                               *)
(***************************************************************************)
OrderlyExits == \A b \in Behaviours : "quit" \in b => b \subseteq {"quit", "join"}

(* The list lock is with the handler that tells the drivers or coordinates. *)
Locked == \A p \in Programs : pc[p] \in {"tell", "coord"} => list_lock = p

(* The pass that runs a cycle has not returned. *)
CycleBy == phase # "none" => by \in Programs /\ pc[by] \in {"coord", "exit_coord"}

WaitBy == waiting # NoOne => pc[waiting] \in {"wait", "exit_wait"}

(* A program that is new or becoming ready is active, an exiting one is not. *)
Activity ==
  \A p \in Programs : /\ pc[p] \in {"init", "wait", "relock", "tell"} => active[p] = 1
                      /\ pc[p] = "exit_coord" => active[p] = 0

(* A declared program is marked ready by its own pass at the latest. *)
DeclaredReady ==
  \A p \in declared : ready[p] \/ (pc[p] = "coord" /\ active[p] = 1 /\ phase = "none")

NobodyTells == phase # "none" => \A p \in Programs : pc[p] # "tell"

(* The drivers' tables from cycle to cycle. *)
Telling(d) == {p \in Programs : pc[p] = "tell" /\ d \in told}

Tables ==
  /\ phase = "none" => \A d \in Drivers : table[d] = declared \cup Telling(d)
  /\ phase = "pre" =>
       /\ \A d \in todo : table[d] = declared
       /\ \A d \in Drivers \ todo : prepared[d] = declared
  /\ phase # "pre" => todo = {}
  /\ phase = "trigger" => \A d \in Drivers : prepared[d] = declared
  /\ phase # "none" => \A d \in ClearedByPre : d \notin todo => table[d] = {}
  /\ phase \in {"post_timing", "walk"} => table["receiver"] = {}
  /\ phase = "walk" => table["timing"] = {}

(* Without exits, and with them. *)
Exits ==
  /\ "quit" \notin habits => \A p \in Programs : pc[p] \notin {"exit_coord", "exit_wait"}
  /\ "quit" \in habits => \A p \in Programs : pc[p] \in {"idle", "coord"} => active[p] = 1

(* The cycle of an exit finds nobody who is becoming ready, and nobody can. *)
ExitCycle ==
  (phase # "none" /\ pc[by] = "exit_coord") =>
     \A p \in Programs : /\ pc[p] \notin {"wait", "relock", "tell", "coord"}
                         /\ pc[p] = "idle" => p \in declared

(* Where becoming ready is always declared, and declared once: who is        *)
(* declared has waited for the card since the last trigger.                  *)
Declaring ==
  /\ \A p \in Programs :
       /\ ready[p] => p \in declared
       /\ pc[p] \in {"wait", "relock", "tell"} => p \notin declared
       /\ pc[p] = "coord" /\ active[p] = 1 => p \in declared
       /\ "quit" \in habits /\ pc[p] = "coord" /\ phase = "none" => ~ready[p]
  /\ phase \in {"pre", "trigger"} =>
       /\ fifo # "sending"
       /\ \A p \in Programs : pc[p] \notin {"wait", "relock", "tell"}
  /\ fifo = "sending" =>
       /\ \A p \in Programs : pc[p] \notin {"relock", "tell"}
       /\ phase = "none" => declared = {}

Inv ==
  /\ TypeOK
  /\ Locked /\ CycleBy /\ WaitBy /\ Activity /\ DeclaredReady /\ NobodyTells
  /\ Tables /\ Exits /\ ExitCycle
  /\ habits \cap {"active", "again"} = {} => Declaring

-----------------------------------------------------------------------------
(* Types *)

LEMMA TypeStep == TypeOK /\ [Next]_vars => TypeOK'
<1> SUFFICES ASSUME TypeOK, [Next]_vars PROVE TypeOK'
  OBVIOUS
<1> USE CycleAssumption DEF TypeOK, Places, Phases
<1>1. ASSUME NEW p \in Programs,
             \/ accept(p) \/ listen(p) \/ set_ready(p) \/ relock(p) \/ all_told(p)
             \/ exit_begin(p) \/ timing_wait(p)
      PROVE  TypeOK'
  BY <1>1 DEF accept, listen, set_ready, relock, all_told, exit_begin, timing_wait, Goto,
              server, cycle, card
<1>2. ASSUME NEW p \in Programs, set_inactive(p) \/ set_active(p) PROVE TypeOK'
  BY <1>2 DEF set_inactive, set_active, SetFlag, Goto, cycle, card
<1>3. ASSUME NEW p \in Programs, NEW d \in Drivers, tell(p, d) PROVE TypeOK'
  BY <1>3 DEF tell, Entered, cycle, card
<1>4. ASSUME NEW p \in Programs, coordinate(p) PROVE TypeOK'
  <2>1. ready' \in [Programs -> BOOLEAN]
    BY <1>4 DEF coordinate
  <2>2. pc' \in [Programs -> Places] /\ list_lock' \in Programs \cup {NoOne}
    BY <1>4 DEF coordinate, Return
  <2>3. phase' \in Phases /\ by' \in Programs \cup {NoOne} /\ todo' \subseteq Drivers
    BY <1>4 DEF coordinate, cycle
  <2> QED BY <1>4, <2>1, <2>2, <2>3 DEF coordinate, card
<1>5. ASSUME NEW d \in Drivers, pretrigger(d) PROVE TypeOK'
  BY <1>5 DEF pretrigger, SetUp, Loaded, server
<1>6. CASE all_prepared \/ trigger \/ posttrigger_receiver \/ posttrigger_timing
  BY <1>6 DEF all_prepared, trigger, posttrigger_receiver, posttrigger_timing, server, card
<1>7. CASE processing
  <2>1. pc' \in [Programs -> Places] /\ list_lock' \in Programs \cup {NoOne}
    BY <1>7 DEF processing, Return
  <2> QED BY <1>7, <2>1 DEF processing, card
<1>8. CASE WAIT_done \/ WAIT_dead
  BY <1>8 DEF WAIT_done, WAIT_dead, Answer, cycle
<1>9. CASE int_handler \/ sent
  BY <1>9 DEF int_handler, sent, server, cycle
<1>10. CASE UNCHANGED vars
  BY <1>10 DEF vars, server, cycle, card
<1> QED BY <1>1, <1>2, <1>3, <1>4, <1>5, <1>6, <1>7, <1>8, <1>9, <1>10 DEF Next

(***************************************************************************)
(* The places of the handlers, the cycle and the drivers' tables keep      *)
(* their types.                                                            *)
(***************************************************************************)
THEOREM TypeCorrect == Spec => []TypeOK
<1>1. Init => TypeOK
  BY DEF Init, TypeOK, Places, Phases
<1> QED BY <1>1, TypeStep, PTL DEF Spec

-----------------------------------------------------------------------------
(* The invariant *)

(* Where clients exit they do not set themselves inactive, active or ready   *)
(* again.                                                                    *)
LEMMA ExitHabits ==
  ASSUME OrderlyExits, TypeOK, "quit" \in habits
  PROVE  habits \cap {"active", "again"} = {} /\ "inactive" \notin habits
BY DEF OrderlyExits, TypeOK

LEMMA InitInv == Init => Inv
<1> SUFFICES ASSUME Init PROVE Inv
  OBVIOUS
<1>1. TypeOK
  BY DEF Init, TypeOK, Places, Phases
<1>2. Locked /\ CycleBy /\ WaitBy /\ Activity /\ DeclaredReady /\ NobodyTells
  BY DEF Init, Locked, CycleBy, WaitBy, Activity, DeclaredReady, NobodyTells
<1>3. Tables
  BY DEF Init, Tables, Telling, ClearedByPre
<1>4. Exits /\ ExitCycle /\ Declaring
  BY DEF Init, Exits, ExitCycle, Declaring
<1> QED BY <1>1, <1>2, <1>3, <1>4 DEF Inv

LEMMA AcceptInv ==
  ASSUME Inv, OrderlyExits, TypeOK', NEW p \in Programs, accept(p)
  PROVE  Inv'
<1> USE CycleAssumption DEF Inv, TypeOK, accept, Goto, cycle, card
<1>1. Locked'
  BY DEF Locked
<1>2. CycleBy' /\ WaitBy'
  BY DEF CycleBy, WaitBy
<1>3. Activity'
  BY DEF Activity
<1>4. DeclaredReady'
  BY DEF DeclaredReady
<1>5. NobodyTells'
  BY DEF NobodyTells
<1>6. Tables'
  BY DEF Tables, Telling
<1>7. Exits'
  BY DEF Exits
<1>8. ExitCycle'
  BY DEF ExitCycle
<1>9. ASSUME habits' \cap {"active", "again"} = {} PROVE Declaring'
  BY <1>9 DEF Declaring
<1> QED BY <1>1, <1>2, <1>3, <1>4, <1>5, <1>6, <1>7, <1>8, <1>9

LEMMA ListenInv ==
  ASSUME Inv, OrderlyExits, TypeOK', NEW p \in Programs, listen(p)
  PROVE  Inv'
<1> USE CycleAssumption DEF Inv, TypeOK, listen, exit_lock_free, Goto, cycle, card
<1>1. Locked'
  BY DEF Locked
<1>2. CycleBy' /\ WaitBy'
  BY DEF CycleBy, WaitBy
<1>3. Activity'
  BY DEF Activity
<1>4. DeclaredReady'
  BY DEF DeclaredReady
<1>5. NobodyTells'
  BY DEF NobodyTells
<1>6. Tables'
  BY DEF Tables, Telling
<1>7. Exits'
  BY DEF Exits, Activity
<1>8. ExitCycle'
  BY DEF ExitCycle, CycleBy
<1>9. ASSUME habits' \cap {"active", "again"} = {} PROVE Declaring'
  BY <1>9 DEF Declaring
<1> QED BY <1>1, <1>2, <1>3, <1>4, <1>5, <1>6, <1>7, <1>8, <1>9

LEMMA SetReadyInv ==
  ASSUME Inv, OrderlyExits, TypeOK', NEW p \in Programs, set_ready(p)
  PROVE  Inv'
<1> USE CycleAssumption DEF Inv, TypeOK, set_ready, Asks, Goto, cycle, card
<1>1. Locked'
  BY DEF Locked
<1>2. CycleBy' /\ WaitBy'
  BY DEF CycleBy, WaitBy
<1>3. Activity'
  BY DEF Activity
<1>4. DeclaredReady'
  BY DEF DeclaredReady
<1>5. NobodyTells'
  BY DEF NobodyTells
<1>6. Tables'
  BY DEF Tables, Telling
<1>7. Exits'
  BY DEF Exits
<1>8. ExitCycle'
  BY ExitHabits DEF ExitCycle, Exits, CycleBy
<1>9. ASSUME habits' \cap {"active", "again"} = {} PROVE Declaring'
  BY <1>9 DEF Declaring, CycleBy, Locked, ExitCycle
<1> QED BY <1>1, <1>2, <1>3, <1>4, <1>5, <1>6, <1>7, <1>8, <1>9

LEMMA RelockInv ==
  ASSUME Inv, OrderlyExits, TypeOK', NEW p \in Programs, relock(p)
  PROVE  Inv'
<1> USE CycleAssumption DEF Inv, TypeOK, relock, Goto, cycle, card
<1>1. Locked'
  BY DEF Locked
<1>2. CycleBy' /\ WaitBy'
  BY DEF CycleBy, WaitBy
<1>3. Activity'
  BY DEF Activity
<1>4. DeclaredReady'
  BY DEF DeclaredReady
<1>5. NobodyTells'
  BY DEF NobodyTells, CycleBy, Locked, ExitCycle
<1>6. Tables'
  BY DEF Tables, Telling, Locked
<1>7. Exits'
  BY DEF Exits
<1>8. ExitCycle'
  BY DEF ExitCycle
<1>9. ASSUME habits' \cap {"active", "again"} = {} PROVE Declaring'
  BY <1>9 DEF Declaring
<1> QED BY <1>1, <1>2, <1>3, <1>4, <1>5, <1>6, <1>7, <1>8, <1>9

LEMMA TellInv ==
  ASSUME Inv, OrderlyExits, TypeOK', NEW p \in Programs, NEW d \in Drivers, tell(p, d)
  PROVE  Inv'
<1> USE CycleAssumption DEF Inv, TypeOK, tell, Entered, cycle, card
<1>1. Locked'
  BY DEF Locked
<1>2. CycleBy' /\ WaitBy'
  BY DEF CycleBy, WaitBy
<1>3. Activity'
  BY DEF Activity
<1>4. DeclaredReady'
  BY DEF DeclaredReady
<1>5. NobodyTells'
  BY DEF NobodyTells
<1>6. Tables'
  BY DEF Tables, Telling, Locked, NobodyTells
<1>7. Exits'
  BY DEF Exits
<1>8. ExitCycle'
  BY DEF ExitCycle
<1>9. ASSUME habits' \cap {"active", "again"} = {} PROVE Declaring'
  BY <1>9 DEF Declaring
<1> QED BY <1>1, <1>2, <1>3, <1>4, <1>5, <1>6, <1>7, <1>8, <1>9

LEMMA AllToldInv ==
  ASSUME Inv, OrderlyExits, TypeOK', NEW p \in Programs, all_told(p)
  PROVE  Inv'
<1> USE CycleAssumption DEF Inv, TypeOK, all_told, Goto, cycle, card
<1>1. Locked'
  BY DEF Locked
<1>2. CycleBy' /\ WaitBy'
  BY DEF CycleBy, WaitBy
<1>3. Activity'
  BY DEF Activity
<1>4. DeclaredReady'
  BY DEF DeclaredReady, NobodyTells, Activity
<1>5. NobodyTells'
  BY DEF NobodyTells
<1>6. Tables'
  BY DEF Tables, Telling, NobodyTells
<1>7. Exits'
  BY DEF Exits, Activity
<1>8. ExitCycle'
  BY DEF ExitCycle
<1>9. ASSUME habits' \cap {"active", "again"} = {} PROVE Declaring'
  BY <1>9 DEF Declaring
<1> QED BY <1>1, <1>2, <1>3, <1>4, <1>5, <1>6, <1>7, <1>8, <1>9

LEMMA SetFlagInv ==
  ASSUME Inv, OrderlyExits, TypeOK', NEW p \in Programs, set_inactive(p) \/ set_active(p)
  PROVE  Inv'
<1> USE CycleAssumption DEF Inv, TypeOK, set_inactive, set_active, SetFlag, Goto, cycle, card
<1>1. Locked'
  BY DEF Locked
<1>2. CycleBy' /\ WaitBy'
  BY DEF CycleBy, WaitBy
<1>3. Activity'
  BY DEF Activity
<1>4. DeclaredReady'
  BY DEF DeclaredReady
<1>5. NobodyTells'
  BY DEF NobodyTells
<1>6. Tables'
  BY DEF Tables, Telling
<1>7. Exits'
  BY ExitHabits DEF Exits
<1>8. ExitCycle'
  BY ExitHabits DEF ExitCycle, Exits, CycleBy
<1>9. ASSUME habits' \cap {"active", "again"} = {} PROVE Declaring'
  BY <1>9, ExitHabits DEF Declaring
<1> QED BY <1>1, <1>2, <1>3, <1>4, <1>5, <1>6, <1>7, <1>8, <1>9

LEMMA ExitBeginInv ==
  ASSUME Inv, OrderlyExits, TypeOK', NEW p \in Programs, exit_begin(p)
  PROVE  Inv'
<1> USE CycleAssumption DEF Inv, TypeOK, exit_begin, exit_lock_free, Goto, cycle, card
<1>1. Locked'
  BY DEF Locked
<1>2. CycleBy' /\ WaitBy'
  BY DEF CycleBy, WaitBy
<1>3. Activity'
  BY DEF Activity
<1>4. DeclaredReady'
  BY DEF DeclaredReady
<1>5. NobodyTells'
  BY DEF NobodyTells
<1>6. Tables'
  BY DEF Tables, Telling
<1>7. Exits'
  BY DEF Exits
<1>8. ExitCycle'
  BY DEF ExitCycle, CycleBy
<1>9. ASSUME habits' \cap {"active", "again"} = {} PROVE Declaring'
  BY <1>9 DEF Declaring
<1> QED BY <1>1, <1>2, <1>3, <1>4, <1>5, <1>6, <1>7, <1>8, <1>9

LEMMA CoordinateInv ==
  ASSUME Inv, OrderlyExits, TypeOK', NEW p \in Programs, coordinate(p)
  PROVE  Inv'
<1> DEFINE marked == [ready EXCEPT ![p] = @ \/ active[p] = 1]
           members == {q \in Programs : active[q] = 1}
<1>0. /\ TypeOK /\ pc[p] \in {"coord", "exit_coord"} /\ phase = "none"
      /\ UNCHANGED <<habits, active, told, table, prepared, fifo, writingFIFO, waiting, declared>>
  BY DEF Inv, coordinate, card
<1>1. /\ \A q \in Programs : q # p => ready'[q] = ready[q]
      /\ ready'[p] <=> ready[p] \/ active[p] = 1
  BY DEF TypeOK, coordinate
<1>2. "quit" \in habits => Declaring /\ \A q \in Programs : pc[q] \in {"idle", "coord"} => active[q] = 1
  BY ExitHabits DEF Inv, Exits
<1>3. pc[p] = "exit_coord" => "quit" \in habits /\ active[p] = 0
  BY DEF Inv, Exits, Activity
<1>4. active[p] = 1 => pc[p] = "coord"
  BY <1>0, <1>3
<1>5. CASE phase' = "pre"
  <2>1. /\ by' = p /\ todo' = Drivers /\ UNCHANGED <<pc, list_lock>>
        /\ members # {} /\ \A q \in members : ready'[q]
    BY <1>5 DEF coordinate, cycle
  <2>2. ASSUME Declaring, NEW q \in Programs, pc[q] \in {"wait", "relock", "tell"} PROVE FALSE
    <3>1. q # p /\ active[q] = 1 /\ ~ready[q]
      BY <1>0, <2>2 DEF Inv, Activity, Declaring
    <3> QED BY <1>1, <2>1, <3>1
  <2>3. NobodyTells'
    <3> SUFFICES ASSUME NEW q \in Programs, pc[q] = "tell" PROVE FALSE
      BY <2>1 DEF NobodyTells
    <3>1. CASE pc[p] = "coord"
      BY <3>1 DEF Inv, Locked
    <3>2. CASE pc[p] = "exit_coord"
      BY <3>2, <1>2, <1>3, <2>2
    <3> QED BY <1>0, <3>1, <3>2
  <2>4. Locked' /\ CycleBy' /\ WaitBy' /\ Activity' /\ Exits'
    BY <1>0, <2>1 DEF Inv, Locked, CycleBy, WaitBy, Activity, Exits
  <2>5. DeclaredReady'
    BY <1>0, <1>1, <2>1 DEF Inv, DeclaredReady, TypeOK
  <2>6. Tables'
    <3>1. \A d \in Drivers : table[d] = declared
      BY <1>0, <1>5, <2>1, <2>3 DEF Inv, Tables, Telling, NobodyTells
    <3> QED BY <1>0, <1>5, <2>1, <3>1 DEF Tables, ClearedByPre, Drivers
  <2>7. ExitCycle'
    <3> SUFFICES ASSUME pc[p] = "exit_coord", NEW q \in Programs
                 PROVE  pc[q] \notin {"wait", "relock", "tell", "coord"}
                        /\ (pc[q] = "idle" => q \in declared)
      BY <1>0, <2>1 DEF ExitCycle
    <3>1. "quit" \in habits /\ Declaring
      BY <1>2, <1>3
    <3>2. pc[q] # "coord"
      BY <1>0, <1>1, <1>2, <2>1, <3>1 DEF Declaring
    <3>3. pc[q] = "idle" => q \in declared
      BY <1>1, <1>2, <2>1, <3>1 DEF Declaring
    <3> QED BY <2>2, <3>1, <3>2, <3>3
  <2>8. ASSUME habits' \cap {"active", "again"} = {} PROVE Declaring'
    <3>1. Declaring
      BY <1>0, <2>8 DEF Inv
    <3>2. declared # {}
      BY <1>0, <1>1, <1>3, <2>1, <3>1 DEF Declaring
    <3>3. fifo # "sending"
      BY <1>0, <3>1, <3>2 DEF Declaring
    <3>4. ready'[p] => p \in declared
      BY <1>1, <1>4, <3>1 DEF Declaring
    <3> QED BY <1>0, <1>1, <1>5, <2>1, <2>2, <3>1, <3>4 DEF Declaring
  <2> QED BY <2>3, <2>4, <2>5, <2>6, <2>7, <2>8 DEF Inv
<1>6. CASE phase' # "pre"
  <2>1. Return(p) /\ UNCHANGED <<phase, by, todo>>
    BY <1>6 DEF coordinate, cycle
  <2>2. /\ \A q \in Programs : q # p => pc'[q] = pc[q]
        /\ pc'[p] = IF pc[p] = "exit_coord" THEN "exit_wait" ELSE "idle"
        /\ list_lock' = IF pc[p] = "exit_coord" THEN list_lock ELSE NoOne
    BY <2>1 DEF Return, TypeOK
  <2>3. Locked' /\ CycleBy' /\ WaitBy' /\ Activity' /\ NobodyTells' /\ ExitCycle'
    <3>1. Locked'
      BY <1>0, <2>2 DEF Inv, Locked
    <3>2. CycleBy' /\ NobodyTells' /\ ExitCycle'
      BY <1>0, <2>1 DEF CycleBy, NobodyTells, ExitCycle
    <3>3. WaitBy'
      BY <1>0, <2>2 DEF Inv, WaitBy, TypeOK
    <3>4. Activity'
      BY <1>0, <2>2 DEF Inv, Activity
    <3> QED BY <3>1, <3>2, <3>3, <3>4
  <2>4. DeclaredReady'
    BY <1>0, <1>1, <2>1, <2>2 DEF Inv, DeclaredReady, TypeOK
  <2>5. Tables'
    <3>1. \A d \in Drivers : Telling(d)' = Telling(d)
      BY <1>0, <2>2 DEF Telling
    <3> QED BY <1>0, <2>1, <3>1 DEF Inv, Tables
  <2>6. Exits'
    BY <1>0, <2>2 DEF Inv, Exits
  <2>7. ASSUME habits' \cap {"active", "again"} = {} PROVE Declaring'
    <3>1. Declaring
      BY <1>0, <2>7 DEF Inv
    <3>2. ready'[p] => p \in declared
      BY <1>1, <1>4, <3>1 DEF Declaring
    <3> QED BY <1>0, <1>1, <2>1, <2>2, <3>1, <3>2 DEF Declaring
  <2> QED BY <2>3, <2>4, <2>5, <2>6, <2>7 DEF Inv
<1> QED BY <1>5, <1>6

LEMMA PretriggerInv ==
  ASSUME Inv, OrderlyExits, TypeOK', NEW d \in Drivers, pretrigger(d)
  PROVE  Inv'
<1> USE CycleAssumption DEF Inv, TypeOK, pretrigger, SetUp, Loaded, server
<1>1. Locked'
  BY DEF Locked
<1>2. CycleBy' /\ WaitBy'
  BY DEF CycleBy, WaitBy
<1>3. Activity'
  BY DEF Activity
<1>4. DeclaredReady'
  BY DEF DeclaredReady
<1>5. NobodyTells'
  BY DEF NobodyTells
<1>6. Tables'
  BY DEF Tables
<1>7. Exits'
  BY DEF Exits
<1>8. ExitCycle'
  BY DEF ExitCycle
<1>9. ASSUME habits' \cap {"active", "again"} = {} PROVE Declaring'
  BY <1>9 DEF Declaring
<1> QED BY <1>1, <1>2, <1>3, <1>4, <1>5, <1>6, <1>7, <1>8, <1>9

LEMMA AllPreparedInv ==
  ASSUME Inv, OrderlyExits, TypeOK', all_prepared
  PROVE  Inv'
<1> USE CycleAssumption DEF Inv, TypeOK, all_prepared, server, card
<1>1. Locked'
  BY DEF Locked
<1>2. CycleBy' /\ WaitBy'
  BY DEF CycleBy, WaitBy
<1>3. Activity'
  BY DEF Activity
<1>4. DeclaredReady'
  BY DEF DeclaredReady
<1>5. NobodyTells'
  BY DEF NobodyTells
<1>6. Tables'
  BY DEF Tables
<1>7. Exits'
  BY DEF Exits
<1>8. ExitCycle'
  BY DEF ExitCycle
<1>9. ASSUME habits' \cap {"active", "again"} = {} PROVE Declaring'
  BY <1>9 DEF Declaring
<1> QED BY <1>1, <1>2, <1>3, <1>4, <1>5, <1>6, <1>7, <1>8, <1>9

LEMMA TriggerInv ==
  ASSUME Inv, OrderlyExits, TypeOK', trigger
  PROVE  Inv'
<1> USE CycleAssumption DEF Inv, TypeOK, trigger, server
<1>1. Locked'
  BY DEF Locked
<1>2. CycleBy' /\ WaitBy'
  BY DEF CycleBy, WaitBy
<1>3. Activity'
  BY DEF Activity
<1>4. DeclaredReady'
  BY DEF DeclaredReady
<1>5. NobodyTells'
  BY DEF NobodyTells
<1>6. Tables'
  BY DEF Tables
<1>7. Exits'
  BY DEF Exits
<1>8. ExitCycle'
  BY DEF ExitCycle
<1>9. ASSUME habits' \cap {"active", "again"} = {} PROVE Declaring'
  BY <1>9 DEF Declaring
<1> QED BY <1>1, <1>2, <1>3, <1>4, <1>5, <1>6, <1>7, <1>8, <1>9

LEMMA PostInv ==
  ASSUME Inv, OrderlyExits, TypeOK', posttrigger_receiver \/ posttrigger_timing
  PROVE  Inv'
<1> USE CycleAssumption DEF Inv, TypeOK, posttrigger_receiver, posttrigger_timing, server, card
<1>1. Locked'
  BY DEF Locked
<1>2. CycleBy' /\ WaitBy'
  BY DEF CycleBy, WaitBy
<1>3. Activity'
  BY DEF Activity
<1>4. DeclaredReady'
  BY DEF DeclaredReady
<1>5. NobodyTells'
  BY DEF NobodyTells
<1>6. Tables'
  BY DEF Tables, ClearedByPre, Drivers
<1>7. Exits'
  BY DEF Exits
<1>8. ExitCycle'
  BY DEF ExitCycle
<1>9. ASSUME habits' \cap {"active", "again"} = {} PROVE Declaring'
  BY <1>9 DEF Declaring
<1> QED BY <1>1, <1>2, <1>3, <1>4, <1>5, <1>6, <1>7, <1>8, <1>9

LEMMA ProcessingInv ==
  ASSUME Inv, OrderlyExits, TypeOK', processing
  PROVE  Inv'
<1> USE CycleAssumption DEF Inv, TypeOK, processing, Return, card
<1>1. Locked'
  BY DEF Locked, CycleBy
<1>2. CycleBy' /\ WaitBy'
  BY DEF CycleBy, WaitBy
<1>3. Activity'
  BY DEF Activity
<1>4. DeclaredReady'
  BY DEF DeclaredReady
<1>5. NobodyTells'
  BY DEF NobodyTells
<1>6. Tables'
  <2>1. phase = "walk" /\ declared' = {} /\ todo' = {} /\ phase' = "none" /\ table' = table
    BY DEF DeclaredReady, Tables
  <2>2. \A d \in Drivers : table[d] = {}
    BY DEF Tables, Drivers, ClearedByPre
  <2>3. \A q \in Programs : pc'[q] # "tell"
    BY DEF NobodyTells
  <2> QED BY <2>1, <2>2, <2>3 DEF Tables, Telling
<1>7. Exits'
  BY DEF Exits, CycleBy
<1>8. ExitCycle'
  BY DEF ExitCycle
<1>9. ASSUME habits' \cap {"active", "again"} = {} PROVE Declaring'
  BY <1>9 DEF Declaring, CycleBy, Locked, ExitCycle, DeclaredReady
<1> QED BY <1>1, <1>2, <1>3, <1>4, <1>5, <1>6, <1>7, <1>8, <1>9

LEMMA TimingWaitInv ==
  ASSUME Inv, OrderlyExits, TypeOK', NEW p \in Programs, timing_wait(p)
  PROVE  Inv'
<1> USE CycleAssumption DEF Inv, TypeOK, timing_wait, server, cycle, card
<1>1. Locked'
  BY DEF Locked
<1>2. CycleBy' /\ WaitBy'
  BY DEF CycleBy, WaitBy
<1>3. Activity'
  BY DEF Activity
<1>4. DeclaredReady'
  BY DEF DeclaredReady
<1>5. NobodyTells'
  BY DEF NobodyTells
<1>6. Tables'
  BY DEF Tables, Telling
<1>7. Exits'
  BY DEF Exits
<1>8. ExitCycle'
  BY DEF ExitCycle
<1>9. ASSUME habits' \cap {"active", "again"} = {} PROVE Declaring'
  BY <1>9 DEF Declaring
<1> QED BY <1>1, <1>2, <1>3, <1>4, <1>5, <1>6, <1>7, <1>8, <1>9

LEMMA AnswerInv ==
  ASSUME Inv, OrderlyExits, TypeOK', WAIT_done \/ WAIT_dead
  PROVE  Inv'
<1> USE CycleAssumption DEF Inv, TypeOK, WAIT_done, WAIT_dead, Answer, cycle
<1>1. Locked'
  BY DEF Locked
<1>2. CycleBy' /\ WaitBy'
  BY DEF CycleBy, WaitBy
<1>3. Activity'
  BY DEF Activity
<1>4. DeclaredReady'
  BY DEF DeclaredReady, WaitBy
<1>5. NobodyTells'
  BY DEF NobodyTells
<1>6. Tables'
  <2>1. \A d \in Drivers : Telling(d)' = Telling(d)
    BY DEF Telling, WaitBy
  <2> QED BY <2>1 DEF Tables
<1>7. Exits'
  BY DEF Exits
<1>8. ExitCycle'
  BY DEF ExitCycle, CycleBy
<1>9. ASSUME habits' \cap {"active", "again"} = {} PROVE Declaring'
  BY <1>9 DEF Declaring
<1> QED BY <1>1, <1>2, <1>3, <1>4, <1>5, <1>6, <1>7, <1>8, <1>9

LEMMA CardInv ==
  ASSUME Inv, OrderlyExits, TypeOK', int_handler \/ sent
  PROVE  Inv'
<1> USE CycleAssumption DEF Inv, TypeOK, int_handler, sent, server, cycle
<1>1. Locked'
  BY DEF Locked
<1>2. CycleBy' /\ WaitBy'
  BY DEF CycleBy, WaitBy
<1>3. Activity'
  BY DEF Activity
<1>4. DeclaredReady'
  BY DEF DeclaredReady
<1>5. NobodyTells'
  BY DEF NobodyTells
<1>6. Tables'
  BY DEF Tables, Telling
<1>7. Exits'
  BY DEF Exits
<1>8. ExitCycle'
  BY DEF ExitCycle
<1>9. ASSUME habits' \cap {"active", "again"} = {} PROVE Declaring'
  BY <1>9 DEF Declaring
<1> QED BY <1>1, <1>2, <1>3, <1>4, <1>5, <1>6, <1>7, <1>8, <1>9

LEMMA StutterInv ==
  ASSUME Inv, OrderlyExits, TypeOK', UNCHANGED vars
  PROVE  Inv'
<1> USE CycleAssumption DEF Inv, TypeOK, vars, server, cycle, card
<1>1. Locked'
  BY DEF Locked
<1>2. CycleBy' /\ WaitBy'
  BY DEF CycleBy, WaitBy
<1>3. Activity'
  BY DEF Activity
<1>4. DeclaredReady'
  BY DEF DeclaredReady
<1>5. NobodyTells'
  BY DEF NobodyTells
<1>6. Tables'
  BY DEF Tables, Telling
<1>7. Exits'
  BY DEF Exits
<1>8. ExitCycle'
  BY DEF ExitCycle
<1>9. ASSUME habits' \cap {"active", "again"} = {} PROVE Declaring'
  BY <1>9 DEF Declaring
<1> QED BY <1>1, <1>2, <1>3, <1>4, <1>5, <1>6, <1>7, <1>8, <1>9

LEMMA NextInv == OrderlyExits /\ Inv /\ [Next]_vars => Inv'
<1> SUFFICES ASSUME OrderlyExits, Inv, [Next]_vars PROVE Inv'
  OBVIOUS
<1>0. TypeOK'
  BY TypeStep DEF Inv
<1>1. ASSUME NEW p \in Programs, accept(p) \/ listen(p) \/ set_ready(p) PROVE Inv'
  BY <1>0, <1>1, AcceptInv, ListenInv, SetReadyInv
<1>2. ASSUME NEW p \in Programs, relock(p) \/ all_told(p) PROVE Inv'
  BY <1>0, <1>2, RelockInv, AllToldInv
<1>3. ASSUME NEW p \in Programs, NEW d \in Drivers, tell(p, d) PROVE Inv'
  BY <1>0, <1>3, TellInv
<1>4. ASSUME NEW p \in Programs, set_inactive(p) \/ set_active(p) \/ exit_begin(p) PROVE Inv'
  BY <1>0, <1>4, SetFlagInv, ExitBeginInv
<1>5. ASSUME NEW p \in Programs, coordinate(p) \/ timing_wait(p) PROVE Inv'
  BY <1>0, <1>5, CoordinateInv, TimingWaitInv
<1>6. ASSUME NEW d \in Drivers, pretrigger(d) PROVE Inv'
  BY <1>0, <1>6, PretriggerInv
<1>7. CASE all_prepared \/ trigger \/ posttrigger_receiver \/ posttrigger_timing \/ processing
  BY <1>0, <1>7, AllPreparedInv, TriggerInv, PostInv, ProcessingInv
<1>8. CASE WAIT_done \/ WAIT_dead \/ int_handler \/ sent
  BY <1>0, <1>8, AnswerInv, CardInv
<1>9. CASE UNCHANGED vars
  BY <1>0, <1>9, StutterInv
<1> QED BY <1>1, <1>2, <1>3, <1>4, <1>5, <1>6, <1>7, <1>8, <1>9 DEF Next

-----------------------------------------------------------------------------
(***************************************************************************)
(* At every trigger all four drivers are set up for exactly the programs   *)
(* that have declared themselves ready since their last trigger, although  *)
(* two of the drivers forget their table at PRETRIGGER and two at          *)
(* POSTTRIGGER, and although an exit runs its cycle without the list lock. *)
(***************************************************************************)
THEOREM SetUpAsDeclaredHolds == ASSUME OrderlyExits PROVE Spec => []SetUpAsDeclared
<1>1. Inv => SetUpAsDeclared
  BY DEF Inv, Tables, SetUpAsDeclared
<1> QED BY InitInv, NextInv, <1>1, PTL DEF Spec

(***************************************************************************)
(* No PRETRIGGER clears the FIFO of a card that is still sending, although *)
(* nobody looks: each program that makes up a cycle has waited for the     *)
(* card since the last trigger.                                            *)
(***************************************************************************)
THEOREM NothingCutOffHolds == ASSUME OrderlyExits PROVE Spec => []NothingCutOff
<1>1. Inv => NothingCutOff
  BY DEF Inv, Declaring, NothingCutOff
<1> QED BY InitInv, NextInv, <1>1, PTL DEF Spec
==============================================================================
