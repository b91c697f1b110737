--------------------------- MODULE RosServerProofs ---------------------------
(***************************************************************************)
(* Theorems about RosServer, for every set of control programs.  Each      *)
(* lemma ...Step shows that one inductive invariant survives every action  *)
(* of Next, one step per action.                                           *)
(***************************************************************************)
EXTENDS RosServer, TLAPS

(* Every step keeps the types. *)
LEMMA TypeStep == TypeOK /\ [Next]_vars => TypeOK'
<1> SUFFICES ASSUME TypeOK, [Next]_vars PROVE TypeOK'
  OBVIOUS
<1> USE ServerAssumption DEF CoordThreads, Phases, Labels, Commands
<1>1. ASSUME NEW p \in Programs, Handler(p) PROVE TypeOK'
  <2>1. CASE init_exit_lock(p)
    BY <2>1 DEF TypeOK, init_exit_lock, Goto, flags, life, locks
  <2>2. CASE init_list_lock(p)
    BY <2>2 DEF TypeOK, init_list_lock, Goto, flags, life, locks
  <2>3. ASSUME NEW m \in Commands, recv_msg(p, m) PROVE TypeOK'
    BY <2>3 DEF TypeOK, recv_msg, Goto, flags, life, locks
  <2>4. CASE reply_only(p)
    BY <2>4 DEF TypeOK, reply_only, NeedsChannel, flags, life, locks
  <2>5. CASE set_radar_chan(p)
    BY <2>5 DEF TypeOK, set_radar_chan, Goto, flags, life, locks
  <2>6. CASE set_active_inactive(p, "SET_ACTIVE", 1)
    BY <2>6 DEF TypeOK, set_active_inactive, Goto, Spawn, flags, life, locks
  <2>7. CASE set_active_inactive(p, "SET_INACTIVE", -1)
    BY <2>7 DEF TypeOK, set_active_inactive, Goto, Spawn, flags, life, locks
  <2>8. CASE set_ready_active(p)
    BY <2>8 DEF TypeOK, set_ready_active, Goto, flags, life, locks
  <2>9. CASE set_ready_drivers(p)
    BY <2>9 DEF TypeOK, set_ready_drivers, Goto, flags, life, locks
  <2>10. CASE set_ready_coordinate(p)
    BY <2>10 DEF TypeOK, set_ready_coordinate, Goto, Spawn, flags, life, locks
  <2>11. CASE join_coordination(p)
    BY <2>11 DEF TypeOK, join_coordination, Goto, flags, life, locks
  <2>12. CASE get_data(p)
    BY <2>12 DEF TypeOK, get_data, Goto, flags, life, locks
  <2>13. CASE locked_io(p)
    BY <2>13 DEF TypeOK, locked_io, Goto, flags, life, locks
  <2>14. CASE locked_io_done(p)
    BY <2>14 DEF TypeOK, locked_io_done, Goto, flags, life, locks
  <2>15. CASE clear_freq_lock(p)
    BY <2>15 DEF TypeOK, clear_freq_lock, Goto, flags, life, locks
  <2>16. CASE clear_freq_file(p)
    BY <2>16 DEF TypeOK, clear_freq_file, Goto, flags, life, locks
  <2>17. CASE clear_freq_search(p)
    BY <2>17 DEF TypeOK, clear_freq_search, Goto, flags, life, locks
  <2>18. CASE clear_freq_done(p)
    BY <2>18 DEF TypeOK, clear_freq_done, Goto, flags, life, locks
  <2>19. CASE quit(p)
    BY <2>19 DEF TypeOK, quit, Goto, flags, life, locks
  <2>20. CASE cancelled(p)
    BY <2>20 DEF TypeOK, cancelled, CancelPoints, flags, life, locks
  <2>21. CASE exit_flag(p)
    BY <2>21 DEF TypeOK, exit_flag, Goto, flags, life, locks
  <2>22. CASE exit_begin(p)
    BY <2>22 DEF TypeOK, exit_begin, Goto, exit_active, Spawn, flags, life, locks
  <2>23. CASE exit_free(p)
    BY <2>23 DEF TypeOK, exit_free, Goto, flags, life, locks
  <2> QED BY <1>1, <2>1, <2>2, <2>3, <2>4, <2>5, <2>6, <2>7, <2>8, <2>9, <2>10,
     <2>11, <2>12, <2>13, <2>14, <2>15, <2>16, <2>17, <2>18, <2>19, <2>20, <2>21,
     <2>22, <2>23 DEF Handler
<1>2. ASSUME NEW p \in Programs, Environment(p) PROVE TypeOK'
  <2>1. CASE accept(p)
    BY <2>1 DEF TypeOK, accept, Goto, flags, life, locks
  <2>2. CASE select_readable(p)
    BY <2>2 DEF TypeOK, select_readable, Goto, flags, life, locks
  <2>3. CASE silence(p)
    BY <2>3 DEF TypeOK, silence, flags, life, locks
  <2>4. CASE disconnect(p)
    BY <2>4 DEF TypeOK, disconnect, flags, life, locks
  <2>5. CASE socket_error(p)
    BY <2>5 DEF TypeOK, socket_error, Goto, flags, life, locks
  <2>6. CASE exit_killed(p)
    BY <2>6 DEF TypeOK, exit_killed, Goto, flags, life, locks
  <2> QED BY <1>2, <2>1, <2>2, <2>3, <2>4, <2>5, <2>6 DEF Environment
<1>3. ASSUME NEW t \in CoordThreads, Coordination(t) PROVE TypeOK'
  <2>1. CASE coord_mark(t)
    BY <2>1, <1>3 DEF TypeOK, coord_mark, coord_lock_free, Parent, flags, life,
       locks
  <2>2. CASE coord_evaluate(t)
    BY <2>2, <1>3 DEF TypeOK, coord_evaluate, ready_state, Release, flags, life,
       locks
  <2>3. CASE coord_pretrigger(t)
    BY <2>3, <1>3 DEF TypeOK, coord_pretrigger, flags, life, locks
  <2>4. CASE coord_trigger(t)
    BY <2>4, <1>3 DEF TypeOK, coord_trigger, flags, life, locks
  <2>5. CASE coord_posttrigger(t)
    BY <2>5, <1>3 DEF TypeOK, coord_posttrigger, flags, life, locks
  <2>6. CASE coord_processing(t)
    BY <2>6, <1>3 DEF TypeOK, coord_processing, StartProcessing, Release, flags,
       life, locks
  <2> QED BY <1>3, <2>1, <2>2, <2>3, <2>4, <2>5, <2>6 DEF Coordination
<1>4. CASE Reaper
  <2>1. CASE reaper_begin
    BY <2>1 DEF TypeOK, reaper_begin, flags, life, locks
  <2>2. CASE reaper_end
    BY <2>2 DEF TypeOK, reaper_end, flags, life, locks
  <2>3. ASSUME NEW p \in Programs, reaper_cancel(p) PROVE TypeOK'
    BY <2>3 DEF TypeOK, reaper_cancel, Elapsed, Cancelled, flags, life, locks
  <2>4. ASSUME NEW p \in Programs, reaper_join(p) PROVE TypeOK'
    BY <2>4 DEF TypeOK, reaper_join, Ended, Unlink, flags, life, locks
  <2>5. ASSUME NEW p \in Programs, reaper_reap(p) PROVE TypeOK'
    BY <2>5 DEF TypeOK, reaper_reap, Unlink, Elapsed, Cancelled, flags, life, locks
  <2> QED BY <1>4, <2>1, <2>2, <2>3, <2>4, <2>5 DEF Reaper
<1>5. CASE UNCHANGED vars
  BY <1>5 DEF TypeOK, vars, flags, life, locks
<1> QED BY <1>1, <1>2, <1>3, <1>4, <1>5 DEF Next

(***************************************************************************)
(* Type correctness of the server: every handler, coordination and timeout *)
(* step keeps the flags, the mutex owners and the thread positions within  *)
(* their types, under all the faults.                                      *)
(***************************************************************************)
THEOREM TypeCorrect == Spec => []TypeOK
<1>1. Init => TypeOK
  BY ServerAssumption DEF Init, TypeOK, Labels, Commands, CoordThreads
<1> QED BY <1>1, TypeStep, PTL DEF Spec

(* Every step keeps the mutual exclusion behind a command's trigger cycle. *)
LEMMA TriggerStep == TypeOK /\ TriggerInv /\ [Next]_vars => TriggerInv'
<1> SUFFICES ASSUME TypeOK, TriggerInv, [Next]_vars PROVE TriggerInv'
  OBVIOUS
<1> USE ServerAssumption DEF CoordThreads, Phases
<1>1. ASSUME NEW p \in Programs, Handler(p) PROVE TriggerInv'
  <2>1. CASE init_exit_lock(p)
    BY <2>1 DEF TypeOK, TriggerInv, CoordExclusive, ListHeld, CommandHeld,
       WalkCovers, CommandTriggerAllReady, init_exit_lock, Goto, flags, life, locks
  <2>2. CASE init_list_lock(p)
    BY <2>2 DEF TypeOK, TriggerInv, CoordExclusive, ListHeld, CommandHeld,
       WalkCovers, CommandTriggerAllReady, init_list_lock, Goto, flags, life, locks
  <2>3. ASSUME NEW m \in Commands, recv_msg(p, m) PROVE TriggerInv'
    BY <2>3 DEF TypeOK, TriggerInv, CoordExclusive, ListHeld, CommandHeld,
       WalkCovers, CommandTriggerAllReady, recv_msg, Goto, Commands, flags, life,
       locks
  <2>4. CASE reply_only(p)
    BY <2>4 DEF TypeOK, TriggerInv, CoordExclusive, ListHeld, CommandHeld,
       WalkCovers, CommandTriggerAllReady, reply_only, NeedsChannel, flags, life,
       locks
  <2>5. CASE set_radar_chan(p)
    BY <2>5 DEF TypeOK, TriggerInv, CoordExclusive, ListHeld, CommandHeld,
       WalkCovers, CommandTriggerAllReady, set_radar_chan, Goto, flags, life, locks
  <2>6. CASE set_active_inactive(p, "SET_ACTIVE", 1)
    BY <2>6 DEF TypeOK, TriggerInv, CoordExclusive, ListHeld, CommandHeld,
       WalkCovers, CommandTriggerAllReady, set_active_inactive, Goto, Spawn, flags,
       life, locks
  <2>7. CASE set_active_inactive(p, "SET_INACTIVE", -1)
    BY <2>7 DEF TypeOK, TriggerInv, CoordExclusive, ListHeld, CommandHeld,
       WalkCovers, CommandTriggerAllReady, set_active_inactive, Goto, Spawn, flags,
       life, locks
  <2>8. CASE set_ready_active(p)
    BY <2>8 DEF TypeOK, TriggerInv, CoordExclusive, ListHeld, CommandHeld,
       WalkCovers, CommandTriggerAllReady, set_ready_active, Goto, flags, life,
       locks
  <2>9. CASE set_ready_drivers(p)
    BY <2>9 DEF TypeOK, TriggerInv, CoordExclusive, ListHeld, CommandHeld,
       WalkCovers, CommandTriggerAllReady, set_ready_drivers, Goto, flags, life,
       locks
  <2>10. CASE set_ready_coordinate(p)
    BY <2>10 DEF TypeOK, TriggerInv, CoordExclusive, ListHeld, CommandHeld,
       WalkCovers, CommandTriggerAllReady, set_ready_coordinate, Goto, Spawn,
       flags, life, locks
  <2>11. CASE join_coordination(p)
    BY <2>11 DEF TypeOK, TriggerInv, CoordExclusive, ListHeld, CommandHeld,
       WalkCovers, CommandTriggerAllReady, join_coordination, Goto, flags, life,
       locks
  <2>12. CASE get_data(p)
    BY <2>12 DEF TypeOK, TriggerInv, CoordExclusive, ListHeld, CommandHeld,
       WalkCovers, CommandTriggerAllReady, get_data, Goto, flags, life, locks
  <2>13. CASE locked_io(p)
    BY <2>13 DEF TypeOK, TriggerInv, CoordExclusive, ListHeld, CommandHeld,
       WalkCovers, CommandTriggerAllReady, locked_io, Goto, flags, life, locks
  <2>14. CASE locked_io_done(p)
    BY <2>14 DEF TypeOK, TriggerInv, CoordExclusive, ListHeld, CommandHeld,
       WalkCovers, CommandTriggerAllReady, locked_io_done, Goto, flags, life, locks
  <2>15. CASE clear_freq_lock(p)
    BY <2>15 DEF TypeOK, TriggerInv, CoordExclusive, ListHeld, CommandHeld,
       WalkCovers, CommandTriggerAllReady, clear_freq_lock, Goto, flags, life, locks
  <2>16. CASE clear_freq_file(p)
    BY <2>16 DEF TypeOK, TriggerInv, CoordExclusive, ListHeld, CommandHeld,
       WalkCovers, CommandTriggerAllReady, clear_freq_file, Goto, flags, life, locks
  <2>17. CASE clear_freq_search(p)
    BY <2>17 DEF TypeOK, TriggerInv, CoordExclusive, ListHeld, CommandHeld,
       WalkCovers, CommandTriggerAllReady, clear_freq_search, Goto, flags, life,
       locks
  <2>18. CASE clear_freq_done(p)
    BY <2>18 DEF TypeOK, TriggerInv, CoordExclusive, ListHeld, CommandHeld,
       WalkCovers, CommandTriggerAllReady, clear_freq_done, Goto, flags, life, locks
  <2>19. CASE quit(p)
    BY <2>19 DEF TypeOK, TriggerInv, CoordExclusive, ListHeld, CommandHeld,
       WalkCovers, CommandTriggerAllReady, quit, Goto, flags, life, locks
  <2>20. CASE cancelled(p)
    BY <2>20 DEF TypeOK, TriggerInv, CoordExclusive, ListHeld, CommandHeld,
       WalkCovers, CommandTriggerAllReady, cancelled, CancelPoints, flags, life,
       locks
  <2>21. CASE exit_flag(p)
    BY <2>21 DEF TypeOK, TriggerInv, CoordExclusive, ListHeld, CommandHeld,
       WalkCovers, CommandTriggerAllReady, exit_flag, Goto, flags, life, locks
  <2>22. CASE exit_begin(p)
    BY <2>22 DEF TypeOK, TriggerInv, CoordExclusive, ListHeld, CommandHeld,
       WalkCovers, CommandTriggerAllReady, exit_begin, Goto, exit_active, Spawn,
       flags, life, locks
  <2>23. CASE exit_free(p)
    BY <2>23 DEF TypeOK, TriggerInv, CoordExclusive, ListHeld, CommandHeld,
       WalkCovers, CommandTriggerAllReady, exit_free, Goto, flags, life, locks
  <2> QED BY <1>1, <2>1, <2>2, <2>3, <2>4, <2>5, <2>6, <2>7, <2>8, <2>9, <2>10,
     <2>11, <2>12, <2>13, <2>14, <2>15, <2>16, <2>17, <2>18, <2>19, <2>20, <2>21,
     <2>22, <2>23 DEF Handler
<1>2. ASSUME NEW p \in Programs, Environment(p) PROVE TriggerInv'
  <2>1. CASE accept(p)
    BY <2>1 DEF TypeOK, TriggerInv, CoordExclusive, ListHeld, CommandHeld,
       WalkCovers, CommandTriggerAllReady, accept, Goto, flags, life, locks
  <2>2. CASE select_readable(p)
    BY <2>2 DEF TypeOK, TriggerInv, CoordExclusive, ListHeld, CommandHeld,
       WalkCovers, CommandTriggerAllReady, select_readable, Goto, flags, life, locks
  <2>3. CASE silence(p)
    BY <2>3 DEF TypeOK, TriggerInv, CoordExclusive, ListHeld, CommandHeld,
       WalkCovers, CommandTriggerAllReady, silence, flags, life, locks
  <2>4. CASE disconnect(p)
    BY <2>4 DEF TypeOK, TriggerInv, CoordExclusive, ListHeld, CommandHeld,
       WalkCovers, CommandTriggerAllReady, disconnect, flags, life, locks
  <2>5. CASE socket_error(p)
    BY <2>5 DEF TypeOK, TriggerInv, CoordExclusive, ListHeld, CommandHeld,
       WalkCovers, CommandTriggerAllReady, socket_error, Goto, flags, life, locks
  <2>6. CASE exit_killed(p)
    BY <2>6 DEF TypeOK, TriggerInv, CoordExclusive, ListHeld, CommandHeld,
       WalkCovers, CommandTriggerAllReady, exit_killed, Goto, flags, life, locks
  <2> QED BY <1>2, <2>1, <2>2, <2>3, <2>4, <2>5, <2>6 DEF Environment
<1>3. ASSUME NEW t \in CoordThreads, Coordination(t) PROVE TriggerInv'
  <2>1. CASE coord_mark(t)
    BY <2>1, <1>3 DEF TypeOK, TriggerInv, CoordExclusive, ListHeld, CommandHeld,
       WalkCovers, CommandTriggerAllReady, coord_mark, coord_lock_free, Parent,
       flags, life, locks
  <2>2. CASE coord_evaluate(t)
    BY <2>2, <1>3 DEF TypeOK, TriggerInv, CoordExclusive, ListHeld, CommandHeld,
       WalkCovers, CommandTriggerAllReady, coord_evaluate, ready_state, Release,
       flags, life, locks
  <2>3. CASE coord_pretrigger(t)
    BY <2>3, <1>3 DEF TypeOK, TriggerInv, CoordExclusive, ListHeld, CommandHeld,
       WalkCovers, CommandTriggerAllReady, coord_pretrigger, flags, life, locks
  <2>4. CASE coord_trigger(t)
    BY <2>4, <1>3 DEF TypeOK, TriggerInv, CoordExclusive, ListHeld, CommandHeld,
       WalkCovers, CommandTriggerAllReady, coord_trigger, flags, life, locks
  <2>5. CASE coord_posttrigger(t)
    BY <2>5, <1>3 DEF TypeOK, TriggerInv, CoordExclusive, ListHeld, CommandHeld,
       WalkCovers, CommandTriggerAllReady, coord_posttrigger, flags, life, locks
  <2>6. CASE coord_processing(t)
    BY <2>6, <1>3 DEF TypeOK, TriggerInv, CoordExclusive, ListHeld, CommandHeld,
       WalkCovers, CommandTriggerAllReady, coord_processing, StartProcessing,
       Release, flags, life, locks
  <2> QED BY <1>3, <2>1, <2>2, <2>3, <2>4, <2>5, <2>6 DEF Coordination
<1>4. CASE Reaper
  <2>1. CASE reaper_begin
    BY <2>1 DEF TypeOK, TriggerInv, CoordExclusive, ListHeld, CommandHeld,
       WalkCovers, CommandTriggerAllReady, reaper_begin, flags, life, locks
  <2>2. CASE reaper_end
    BY <2>2 DEF TypeOK, TriggerInv, CoordExclusive, ListHeld, CommandHeld,
       WalkCovers, CommandTriggerAllReady, reaper_end, flags, life, locks
  <2>3. ASSUME NEW p \in Programs, reaper_cancel(p) PROVE TriggerInv'
    BY <2>3 DEF TypeOK, TriggerInv, CoordExclusive, ListHeld, CommandHeld,
       WalkCovers, CommandTriggerAllReady, reaper_cancel, Elapsed, Cancelled,
       flags, life, locks
  <2>4. ASSUME NEW p \in Programs, reaper_join(p) PROVE TriggerInv'
    BY <2>4 DEF TypeOK, TriggerInv, CoordExclusive, ListHeld, CommandHeld,
       WalkCovers, CommandTriggerAllReady, reaper_join, Ended, Unlink, flags, life,
       locks
  <2>5. ASSUME NEW p \in Programs, reaper_reap(p) PROVE TriggerInv'
    BY <2>5 DEF TypeOK, TriggerInv, CoordExclusive, ListHeld, CommandHeld,
       WalkCovers, CommandTriggerAllReady, reaper_reap, Unlink, Elapsed, Cancelled,
       flags, life, locks
  <2> QED BY <1>4, <2>1, <2>2, <2>3, <2>4, <2>5 DEF Reaper
<1>5. CASE UNCHANGED vars
  BY <1>5 DEF TypeOK, TriggerInv, CoordExclusive, ListHeld, CommandHeld,
     WalkCovers, CommandTriggerAllReady, vars, flags, life, locks
<1> QED BY <1>1, <1>2, <1>3, <1>4, <1>5 DEF Next

(***************************************************************************)
(* What CommandTriggerAllReady rests on: coord_lock excludes coordination  *)
(* threads from each other, and a pass that a command began runs under     *)
(* list_lock to its end, even if the handler that holds the lock is        *)
(* cancelled in the join.                                                  *)
(***************************************************************************)
THEOREM TriggerInvariant == Spec => []TriggerInv
<1>1. Init => TriggerInv
  BY DEF Init, TriggerInv, CoordExclusive, ListHeld, CommandHeld, WalkCovers,
     CommandTriggerAllReady, CoordThreads, Phases
<1> QED BY <1>1, TriggerStep, TypeCorrect, PTL DEF Spec

(***************************************************************************)
(* coordination_handler, called by SET_READY_FLAG, SET_ACTIVE or           *)
(* SET_INACTIVE, never triggers while an active program is not ready,      *)
(* however many programs exit, are cancelled or lose their connection      *)
(* meanwhile.                                                              *)
(***************************************************************************)
THEOREM CommandTriggersAllReady == Spec => []CommandTriggerAllReady
BY TriggerInvariant, PTL DEF TriggerInv

(* Only the holder of coord_lock writes ready, and not during its own cycle. *)
LEMMA StableStep == TypeOK /\ TriggerInv /\ [Next]_vars => StableReady
<1> SUFFICES ASSUME TypeOK, TriggerInv, [Next]_vars PROVE StableReady
  OBVIOUS
<1> USE ServerAssumption DEF CoordThreads, Phases
<1>1. ASSUME NEW p \in Programs, Handler(p) PROVE StableReady
  <2>1. CASE init_exit_lock(p)
    BY <2>1 DEF TypeOK, TriggerInv, CoordExclusive, StableReady, init_exit_lock,
       Goto, flags, life, locks
  <2>2. CASE init_list_lock(p)
    BY <2>2 DEF TypeOK, TriggerInv, CoordExclusive, StableReady, init_list_lock,
       Goto, flags, life, locks
  <2>3. ASSUME NEW m \in Commands, recv_msg(p, m) PROVE StableReady
    BY <2>3 DEF TypeOK, TriggerInv, CoordExclusive, StableReady, recv_msg, Goto,
       Commands, flags, life, locks
  <2>4. CASE reply_only(p)
    BY <2>4 DEF TypeOK, TriggerInv, CoordExclusive, StableReady, reply_only,
       NeedsChannel, flags, life, locks
  <2>5. CASE set_radar_chan(p)
    BY <2>5 DEF TypeOK, TriggerInv, CoordExclusive, StableReady, set_radar_chan,
       Goto, flags, life, locks
  <2>6. CASE set_active_inactive(p, "SET_ACTIVE", 1)
    BY <2>6 DEF TypeOK, TriggerInv, CoordExclusive, StableReady,
       set_active_inactive, Goto, Spawn, flags, life, locks
  <2>7. CASE set_active_inactive(p, "SET_INACTIVE", -1)
    BY <2>7 DEF TypeOK, TriggerInv, CoordExclusive, StableReady,
       set_active_inactive, Goto, Spawn, flags, life, locks
  <2>8. CASE set_ready_active(p)
    BY <2>8 DEF TypeOK, TriggerInv, CoordExclusive, StableReady, set_ready_active,
       Goto, flags, life, locks
  <2>9. CASE set_ready_drivers(p)
    BY <2>9 DEF TypeOK, TriggerInv, CoordExclusive, StableReady, set_ready_drivers,
       Goto, flags, life, locks
  <2>10. CASE set_ready_coordinate(p)
    BY <2>10 DEF TypeOK, TriggerInv, CoordExclusive, StableReady,
       set_ready_coordinate, Goto, Spawn, flags, life, locks
  <2>11. CASE join_coordination(p)
    BY <2>11 DEF TypeOK, TriggerInv, CoordExclusive, StableReady,
       join_coordination, Goto, flags, life, locks
  <2>12. CASE get_data(p)
    BY <2>12 DEF TypeOK, TriggerInv, CoordExclusive, StableReady, get_data, Goto,
       flags, life, locks
  <2>13. CASE locked_io(p)
    BY <2>13 DEF TypeOK, TriggerInv, CoordExclusive, StableReady, locked_io, Goto,
       flags, life, locks
  <2>14. CASE locked_io_done(p)
    BY <2>14 DEF TypeOK, TriggerInv, CoordExclusive, StableReady, locked_io_done,
       Goto, flags, life, locks
  <2>15. CASE clear_freq_lock(p)
    BY <2>15 DEF TypeOK, TriggerInv, CoordExclusive, StableReady, clear_freq_lock,
       Goto, flags, life, locks
  <2>16. CASE clear_freq_file(p)
    BY <2>16 DEF TypeOK, TriggerInv, CoordExclusive, StableReady, clear_freq_file,
       Goto, flags, life, locks
  <2>17. CASE clear_freq_search(p)
    BY <2>17 DEF TypeOK, TriggerInv, CoordExclusive, StableReady,
       clear_freq_search, Goto, flags, life, locks
  <2>18. CASE clear_freq_done(p)
    BY <2>18 DEF TypeOK, TriggerInv, CoordExclusive, StableReady, clear_freq_done,
       Goto, flags, life, locks
  <2>19. CASE quit(p)
    BY <2>19 DEF TypeOK, TriggerInv, CoordExclusive, StableReady, quit, Goto,
       flags, life, locks
  <2>20. CASE cancelled(p)
    BY <2>20 DEF TypeOK, TriggerInv, CoordExclusive, StableReady, cancelled,
       CancelPoints, flags, life, locks
  <2>21. CASE exit_flag(p)
    BY <2>21 DEF TypeOK, TriggerInv, CoordExclusive, StableReady, exit_flag, Goto,
       flags, life, locks
  <2>22. CASE exit_begin(p)
    BY <2>22 DEF TypeOK, TriggerInv, CoordExclusive, StableReady, exit_begin, Goto,
       exit_active, Spawn, flags, life, locks
  <2>23. CASE exit_free(p)
    BY <2>23 DEF TypeOK, TriggerInv, CoordExclusive, StableReady, exit_free, Goto,
       flags, life, locks
  <2> QED BY <1>1, <2>1, <2>2, <2>3, <2>4, <2>5, <2>6, <2>7, <2>8, <2>9, <2>10,
     <2>11, <2>12, <2>13, <2>14, <2>15, <2>16, <2>17, <2>18, <2>19, <2>20, <2>21,
     <2>22, <2>23 DEF Handler
<1>2. ASSUME NEW p \in Programs, Environment(p) PROVE StableReady
  <2>1. CASE accept(p)
    BY <2>1 DEF TypeOK, TriggerInv, CoordExclusive, StableReady, accept, Goto,
       flags, life, locks
  <2>2. CASE select_readable(p)
    BY <2>2 DEF TypeOK, TriggerInv, CoordExclusive, StableReady, select_readable,
       Goto, flags, life, locks
  <2>3. CASE silence(p)
    BY <2>3 DEF TypeOK, TriggerInv, CoordExclusive, StableReady, silence, flags,
       life, locks
  <2>4. CASE disconnect(p)
    BY <2>4 DEF TypeOK, TriggerInv, CoordExclusive, StableReady, disconnect, flags,
       life, locks
  <2>5. CASE socket_error(p)
    BY <2>5 DEF TypeOK, TriggerInv, CoordExclusive, StableReady, socket_error,
       Goto, flags, life, locks
  <2>6. CASE exit_killed(p)
    BY <2>6 DEF TypeOK, TriggerInv, CoordExclusive, StableReady, exit_killed, Goto,
       flags, life, locks
  <2> QED BY <1>2, <2>1, <2>2, <2>3, <2>4, <2>5, <2>6 DEF Environment
<1>3. ASSUME NEW t \in CoordThreads, Coordination(t) PROVE StableReady
  <2>1. CASE coord_mark(t)
    BY <2>1, <1>3 DEF TypeOK, TriggerInv, CoordExclusive, StableReady, coord_mark,
       coord_lock_free, Parent, flags, life, locks
  <2>2. CASE coord_evaluate(t)
    BY <2>2, <1>3 DEF TypeOK, TriggerInv, CoordExclusive, StableReady,
       coord_evaluate, ready_state, Release, flags, life, locks
  <2>3. CASE coord_pretrigger(t)
    BY <2>3, <1>3 DEF TypeOK, TriggerInv, CoordExclusive, StableReady,
       coord_pretrigger, flags, life, locks
  <2>4. CASE coord_trigger(t)
    BY <2>4, <1>3 DEF TypeOK, TriggerInv, CoordExclusive, StableReady,
       coord_trigger, flags, life, locks
  <2>5. CASE coord_posttrigger(t)
    BY <2>5, <1>3 DEF TypeOK, TriggerInv, CoordExclusive, StableReady,
       coord_posttrigger, flags, life, locks
  <2>6. CASE coord_processing(t)
    BY <2>6, <1>3 DEF TypeOK, TriggerInv, CoordExclusive, StableReady,
       coord_processing, StartProcessing, Release, flags, life, locks
  <2> QED BY <1>3, <2>1, <2>2, <2>3, <2>4, <2>5, <2>6 DEF Coordination
<1>4. CASE Reaper
  <2>1. CASE reaper_begin
    BY <2>1 DEF TypeOK, TriggerInv, CoordExclusive, StableReady, reaper_begin,
       flags, life, locks
  <2>2. CASE reaper_end
    BY <2>2 DEF TypeOK, TriggerInv, CoordExclusive, StableReady, reaper_end, flags,
       life, locks
  <2>3. ASSUME NEW p \in Programs, reaper_cancel(p) PROVE StableReady
    BY <2>3 DEF TypeOK, TriggerInv, CoordExclusive, StableReady, reaper_cancel,
       Elapsed, Cancelled, flags, life, locks
  <2>4. ASSUME NEW p \in Programs, reaper_join(p) PROVE StableReady
    BY <2>4 DEF TypeOK, TriggerInv, CoordExclusive, StableReady, reaper_join,
       Ended, Unlink, flags, life, locks
  <2>5. ASSUME NEW p \in Programs, reaper_reap(p) PROVE StableReady
    BY <2>5 DEF TypeOK, TriggerInv, CoordExclusive, StableReady, reaper_reap,
       Unlink, Elapsed, Cancelled, flags, life, locks
  <2> QED BY <1>4, <2>1, <2>2, <2>3, <2>4, <2>5 DEF Reaper
<1>5. CASE UNCHANGED vars
  BY <1>5 DEF TypeOK, TriggerInv, CoordExclusive, StableReady, vars, flags, life,
     locks
<1> QED BY <1>1, <1>2, <1>3, <1>4, <1>5 DEF Next

(***************************************************************************)
(* From the decision of coordination_handler to trigger until its cycle    *)
(* ends, no program's ready flag changes: the programs that start          *)
(* processing are those that were counted, under all the faults.           *)
(***************************************************************************)
THEOREM TriggerSetIsStable == Spec => TriggerSetStable
<1>1. TypeOK /\ TriggerInv /\ [Next]_vars => [StableReady]_vars
  BY StableStep
<1> QED BY <1>1, TypeCorrect, TriggerInvariant, PTL DEF Spec, TriggerSetStable

(* Every step keeps the caller of a coordination pass ready or processing. *)
LEMMA ReadyStep == TypeOK /\ ReadyInv /\ [Next]_vars => ReadyInv'
<1> SUFFICES ASSUME TypeOK, ReadyInv, [Next]_vars PROVE ReadyInv'
  OBVIOUS
<1> USE ServerAssumption DEF CoordThreads, Phases
<1>1. ASSUME NEW p \in Programs, Handler(p) PROVE ReadyInv'
  <2>1. CASE init_exit_lock(p)
    BY <2>1 DEF TypeOK, ReadyInv, ExitSpawned, CallerReady, init_exit_lock, Goto,
       flags, life, locks
  <2>2. CASE init_list_lock(p)
    BY <2>2 DEF TypeOK, ReadyInv, ExitSpawned, CallerReady, init_list_lock, Goto,
       flags, life, locks
  <2>3. ASSUME NEW m \in Commands, recv_msg(p, m) PROVE ReadyInv'
    BY <2>3 DEF TypeOK, ReadyInv, ExitSpawned, CallerReady, recv_msg, Goto,
       Commands, flags, life, locks
  <2>4. CASE reply_only(p)
    BY <2>4 DEF TypeOK, ReadyInv, ExitSpawned, CallerReady, reply_only,
       NeedsChannel, flags, life, locks
  <2>5. CASE set_radar_chan(p)
    BY <2>5 DEF TypeOK, ReadyInv, ExitSpawned, CallerReady, set_radar_chan, Goto,
       flags, life, locks
  <2>6. CASE set_active_inactive(p, "SET_ACTIVE", 1)
    BY <2>6 DEF TypeOK, ReadyInv, ExitSpawned, CallerReady, set_active_inactive,
       Goto, Spawn, flags, life, locks
  <2>7. CASE set_active_inactive(p, "SET_INACTIVE", -1)
    BY <2>7 DEF TypeOK, ReadyInv, ExitSpawned, CallerReady, set_active_inactive,
       Goto, Spawn, flags, life, locks
  <2>8. CASE set_ready_active(p)
    BY <2>8 DEF TypeOK, ReadyInv, ExitSpawned, CallerReady, set_ready_active, Goto,
       flags, life, locks
  <2>9. CASE set_ready_drivers(p)
    BY <2>9 DEF TypeOK, ReadyInv, ExitSpawned, CallerReady, set_ready_drivers,
       Goto, flags, life, locks
  <2>10. CASE set_ready_coordinate(p)
    BY <2>10 DEF TypeOK, ReadyInv, ExitSpawned, CallerReady, set_ready_coordinate,
       Goto, Spawn, flags, life, locks
  <2>11. CASE join_coordination(p)
    BY <2>11 DEF TypeOK, ReadyInv, ExitSpawned, CallerReady, join_coordination,
       Goto, flags, life, locks
  <2>12. CASE get_data(p)
    BY <2>12 DEF TypeOK, ReadyInv, ExitSpawned, CallerReady, get_data, Goto, flags,
       life, locks
  <2>13. CASE locked_io(p)
    BY <2>13 DEF TypeOK, ReadyInv, ExitSpawned, CallerReady, locked_io, Goto,
       flags, life, locks
  <2>14. CASE locked_io_done(p)
    BY <2>14 DEF TypeOK, ReadyInv, ExitSpawned, CallerReady, locked_io_done, Goto,
       flags, life, locks
  <2>15. CASE clear_freq_lock(p)
    BY <2>15 DEF TypeOK, ReadyInv, ExitSpawned, CallerReady, clear_freq_lock, Goto,
       flags, life, locks
  <2>16. CASE clear_freq_file(p)
    BY <2>16 DEF TypeOK, ReadyInv, ExitSpawned, CallerReady, clear_freq_file, Goto,
       flags, life, locks
  <2>17. CASE clear_freq_search(p)
    BY <2>17 DEF TypeOK, ReadyInv, ExitSpawned, CallerReady, clear_freq_search,
       Goto, flags, life, locks
  <2>18. CASE clear_freq_done(p)
    BY <2>18 DEF TypeOK, ReadyInv, ExitSpawned, CallerReady, clear_freq_done, Goto,
       flags, life, locks
  <2>19. CASE quit(p)
    BY <2>19 DEF TypeOK, ReadyInv, ExitSpawned, CallerReady, quit, Goto, flags,
       life, locks
  <2>20. CASE cancelled(p)
    BY <2>20 DEF TypeOK, ReadyInv, ExitSpawned, CallerReady, cancelled,
       CancelPoints, flags, life, locks
  <2>21. CASE exit_flag(p)
    BY <2>21 DEF TypeOK, ReadyInv, ExitSpawned, CallerReady, exit_flag, Goto,
       flags, life, locks
  <2>22. CASE exit_begin(p)
    BY <2>22 DEF TypeOK, ReadyInv, ExitSpawned, CallerReady, exit_begin, Goto,
       exit_active, Spawn, flags, life, locks
  <2>23. CASE exit_free(p)
    BY <2>23 DEF TypeOK, ReadyInv, ExitSpawned, CallerReady, exit_free, Goto,
       flags, life, locks
  <2> QED BY <1>1, <2>1, <2>2, <2>3, <2>4, <2>5, <2>6, <2>7, <2>8, <2>9, <2>10,
     <2>11, <2>12, <2>13, <2>14, <2>15, <2>16, <2>17, <2>18, <2>19, <2>20, <2>21,
     <2>22, <2>23 DEF Handler
<1>2. ASSUME NEW p \in Programs, Environment(p) PROVE ReadyInv'
  <2>1. CASE accept(p)
    BY <2>1 DEF TypeOK, ReadyInv, ExitSpawned, CallerReady, accept, Goto, flags,
       life, locks
  <2>2. CASE select_readable(p)
    BY <2>2 DEF TypeOK, ReadyInv, ExitSpawned, CallerReady, select_readable, Goto,
       flags, life, locks
  <2>3. CASE silence(p)
    BY <2>3 DEF TypeOK, ReadyInv, ExitSpawned, CallerReady, silence, flags, life,
       locks
  <2>4. CASE disconnect(p)
    BY <2>4 DEF TypeOK, ReadyInv, ExitSpawned, CallerReady, disconnect, flags,
       life, locks
  <2>5. CASE socket_error(p)
    BY <2>5 DEF TypeOK, ReadyInv, ExitSpawned, CallerReady, socket_error, Goto,
       flags, life, locks
  <2>6. CASE exit_killed(p)
    BY <2>6 DEF TypeOK, ReadyInv, ExitSpawned, CallerReady, exit_killed, Goto,
       flags, life, locks
  <2> QED BY <1>2, <2>1, <2>2, <2>3, <2>4, <2>5, <2>6 DEF Environment
<1>3. ASSUME NEW t \in CoordThreads, Coordination(t) PROVE ReadyInv'
  <2>1. CASE coord_mark(t)
    <3>1. PICK p \in Programs, k \in {"cmd", "exit"} : t = <<p, k>>
      BY <1>3
    <3>2. /\ pc' = pc /\ active' = active
          /\ co[<<p, k>>] = "lock"
          /\ co' = [co EXCEPT ![<<p, k>>] = "walk"]
          /\ ready' = [ready EXCEPT ![p] = @ \/ active[p] = 1]
          /\ processing' = [processing EXCEPT ![p] = @ /\ active[p] # 1]
      BY <2>1, <3>1 DEF coord_mark, Parent
    <3>3. ExitSpawned'
      BY <3>2 DEF TypeOK, ReadyInv, ExitSpawned
    <3>4. ASSUME NEW q \in Programs, pc[q] = "join", active[q] = 1, co'[<<q, "cmd">>] # "lock"
          PROVE ready'[q] \/ processing'[q]
      <4>1. CASE q = p
        BY <3>2, <3>4, <4>1 DEF TypeOK
      <4>2. CASE q # p
        <5>1. co'[<<q, "cmd">>] = co[<<q, "cmd">>]
          BY <3>2, <4>2 DEF TypeOK
        <5>2. ready'[q] = ready[q] /\ processing'[q] = processing[q]
          BY <3>2, <4>2 DEF TypeOK
        <5> QED BY <3>4, <5>1, <5>2 DEF ReadyInv, CallerReady
      <4> QED BY <4>1, <4>2
    <3>5. CallerReady'
      BY <3>2, <3>4 DEF CallerReady
    <3> QED BY <3>3, <3>5 DEF ReadyInv
  <2>2. CASE coord_evaluate(t)
    BY <2>2, <1>3 DEF TypeOK, ReadyInv, ExitSpawned, CallerReady, coord_evaluate,
       ready_state, Release, flags, life, locks
  <2>3. CASE coord_pretrigger(t)
    BY <2>3, <1>3 DEF TypeOK, ReadyInv, ExitSpawned, CallerReady, coord_pretrigger,
       flags, life, locks
  <2>4. CASE coord_trigger(t)
    BY <2>4, <1>3 DEF TypeOK, ReadyInv, ExitSpawned, CallerReady, coord_trigger,
       flags, life, locks
  <2>5. CASE coord_posttrigger(t)
    BY <2>5, <1>3 DEF TypeOK, ReadyInv, ExitSpawned, CallerReady,
       coord_posttrigger, flags, life, locks
  <2>6. CASE coord_processing(t)
    BY <2>6, <1>3 DEF TypeOK, ReadyInv, ExitSpawned, CallerReady, coord_processing,
       StartProcessing, Release, flags, life, locks
  <2> QED BY <1>3, <2>1, <2>2, <2>3, <2>4, <2>5, <2>6 DEF Coordination
<1>4. CASE Reaper
  <2>1. CASE reaper_begin
    BY <2>1 DEF TypeOK, ReadyInv, ExitSpawned, CallerReady, reaper_begin, flags,
       life, locks
  <2>2. CASE reaper_end
    BY <2>2 DEF TypeOK, ReadyInv, ExitSpawned, CallerReady, reaper_end, flags,
       life, locks
  <2>3. ASSUME NEW p \in Programs, reaper_cancel(p) PROVE ReadyInv'
    BY <2>3 DEF TypeOK, ReadyInv, ExitSpawned, CallerReady, reaper_cancel, Elapsed,
       Cancelled, flags, life, locks
  <2>4. ASSUME NEW p \in Programs, reaper_join(p) PROVE ReadyInv'
    BY <2>4 DEF TypeOK, ReadyInv, ExitSpawned, CallerReady, reaper_join, Ended,
       Unlink, flags, life, locks
  <2>5. ASSUME NEW p \in Programs, reaper_reap(p) PROVE ReadyInv'
    BY <2>5 DEF TypeOK, ReadyInv, ExitSpawned, CallerReady, reaper_reap, Unlink,
       Elapsed, Cancelled, flags, life, locks
  <2> QED BY <1>4, <2>1, <2>2, <2>3, <2>4, <2>5 DEF Reaper
<1>5. CASE UNCHANGED vars
  BY <1>5 DEF TypeOK, ReadyInv, ExitSpawned, CallerReady, vars, flags, life, locks
<1> QED BY <1>1, <1>2, <1>3, <1>4, <1>5 DEF Next

(* The handler leaves its join only when the pass is over. *)
LEMMA AcknowledgedStep == TypeOK /\ ReadyInv /\ [Next]_vars => Acknowledged
<1> SUFFICES ASSUME TypeOK, ReadyInv, [Next]_vars PROVE Acknowledged
  OBVIOUS
<1> USE ServerAssumption DEF CoordThreads, Phases
<1>1. ASSUME NEW p \in Programs, Handler(p) PROVE Acknowledged
  <2>1. CASE init_exit_lock(p)
    BY <2>1 DEF TypeOK, ReadyInv, CallerReady, Acknowledged, init_exit_lock, Goto,
       flags, life, locks
  <2>2. CASE init_list_lock(p)
    BY <2>2 DEF TypeOK, ReadyInv, CallerReady, Acknowledged, init_list_lock, Goto,
       flags, life, locks
  <2>3. ASSUME NEW m \in Commands, recv_msg(p, m) PROVE Acknowledged
    BY <2>3 DEF TypeOK, ReadyInv, CallerReady, Acknowledged, recv_msg, Goto,
       Commands, flags, life, locks
  <2>4. CASE reply_only(p)
    BY <2>4 DEF TypeOK, ReadyInv, CallerReady, Acknowledged, reply_only,
       NeedsChannel, flags, life, locks
  <2>5. CASE set_radar_chan(p)
    BY <2>5 DEF TypeOK, ReadyInv, CallerReady, Acknowledged, set_radar_chan, Goto,
       flags, life, locks
  <2>6. CASE set_active_inactive(p, "SET_ACTIVE", 1)
    BY <2>6 DEF TypeOK, ReadyInv, CallerReady, Acknowledged, set_active_inactive,
       Goto, Spawn, flags, life, locks
  <2>7. CASE set_active_inactive(p, "SET_INACTIVE", -1)
    BY <2>7 DEF TypeOK, ReadyInv, CallerReady, Acknowledged, set_active_inactive,
       Goto, Spawn, flags, life, locks
  <2>8. CASE set_ready_active(p)
    BY <2>8 DEF TypeOK, ReadyInv, CallerReady, Acknowledged, set_ready_active,
       Goto, flags, life, locks
  <2>9. CASE set_ready_drivers(p)
    BY <2>9 DEF TypeOK, ReadyInv, CallerReady, Acknowledged, set_ready_drivers,
       Goto, flags, life, locks
  <2>10. CASE set_ready_coordinate(p)
    BY <2>10 DEF TypeOK, ReadyInv, CallerReady, Acknowledged, set_ready_coordinate,
       Goto, Spawn, flags, life, locks
  <2>11. CASE join_coordination(p)
    BY <2>11 DEF TypeOK, ReadyInv, CallerReady, Acknowledged, join_coordination,
       Goto, flags, life, locks
  <2>12. CASE get_data(p)
    BY <2>12 DEF TypeOK, ReadyInv, CallerReady, Acknowledged, get_data, Goto,
       flags, life, locks
  <2>13. CASE locked_io(p)
    BY <2>13 DEF TypeOK, ReadyInv, CallerReady, Acknowledged, locked_io, Goto,
       flags, life, locks
  <2>14. CASE locked_io_done(p)
    BY <2>14 DEF TypeOK, ReadyInv, CallerReady, Acknowledged, locked_io_done, Goto,
       flags, life, locks
  <2>15. CASE clear_freq_lock(p)
    BY <2>15 DEF TypeOK, ReadyInv, CallerReady, Acknowledged, clear_freq_lock,
       Goto, flags, life, locks
  <2>16. CASE clear_freq_file(p)
    BY <2>16 DEF TypeOK, ReadyInv, CallerReady, Acknowledged, clear_freq_file,
       Goto, flags, life, locks
  <2>17. CASE clear_freq_search(p)
    BY <2>17 DEF TypeOK, ReadyInv, CallerReady, Acknowledged, clear_freq_search,
       Goto, flags, life, locks
  <2>18. CASE clear_freq_done(p)
    BY <2>18 DEF TypeOK, ReadyInv, CallerReady, Acknowledged, clear_freq_done,
       Goto, flags, life, locks
  <2>19. CASE quit(p)
    BY <2>19 DEF TypeOK, ReadyInv, CallerReady, Acknowledged, quit, Goto, flags,
       life, locks
  <2>20. CASE cancelled(p)
    BY <2>20 DEF TypeOK, ReadyInv, CallerReady, Acknowledged, cancelled,
       CancelPoints, flags, life, locks
  <2>21. CASE exit_flag(p)
    BY <2>21 DEF TypeOK, ReadyInv, CallerReady, Acknowledged, exit_flag, Goto,
       flags, life, locks
  <2>22. CASE exit_begin(p)
    BY <2>22 DEF TypeOK, ReadyInv, CallerReady, Acknowledged, exit_begin, Goto,
       exit_active, Spawn, flags, life, locks
  <2>23. CASE exit_free(p)
    BY <2>23 DEF TypeOK, ReadyInv, CallerReady, Acknowledged, exit_free, Goto,
       flags, life, locks
  <2> QED BY <1>1, <2>1, <2>2, <2>3, <2>4, <2>5, <2>6, <2>7, <2>8, <2>9, <2>10,
     <2>11, <2>12, <2>13, <2>14, <2>15, <2>16, <2>17, <2>18, <2>19, <2>20, <2>21,
     <2>22, <2>23 DEF Handler
<1>2. ASSUME NEW p \in Programs, Environment(p) PROVE Acknowledged
  <2>1. CASE accept(p)
    BY <2>1 DEF TypeOK, ReadyInv, CallerReady, Acknowledged, accept, Goto, flags,
       life, locks
  <2>2. CASE select_readable(p)
    BY <2>2 DEF TypeOK, ReadyInv, CallerReady, Acknowledged, select_readable, Goto,
       flags, life, locks
  <2>3. CASE silence(p)
    BY <2>3 DEF TypeOK, ReadyInv, CallerReady, Acknowledged, silence, flags, life,
       locks
  <2>4. CASE disconnect(p)
    BY <2>4 DEF TypeOK, ReadyInv, CallerReady, Acknowledged, disconnect, flags,
       life, locks
  <2>5. CASE socket_error(p)
    BY <2>5 DEF TypeOK, ReadyInv, CallerReady, Acknowledged, socket_error, Goto,
       flags, life, locks
  <2>6. CASE exit_killed(p)
    BY <2>6 DEF TypeOK, ReadyInv, CallerReady, Acknowledged, exit_killed, Goto,
       flags, life, locks
  <2> QED BY <1>2, <2>1, <2>2, <2>3, <2>4, <2>5, <2>6 DEF Environment
<1>3. ASSUME NEW t \in CoordThreads, Coordination(t) PROVE Acknowledged
  <2>1. CASE coord_mark(t)
    BY <2>1, <1>3 DEF TypeOK, ReadyInv, CallerReady, Acknowledged, coord_mark,
       coord_lock_free, Parent, flags, life, locks
  <2>2. CASE coord_evaluate(t)
    BY <2>2, <1>3 DEF TypeOK, ReadyInv, CallerReady, Acknowledged, coord_evaluate,
       ready_state, Release, flags, life, locks
  <2>3. CASE coord_pretrigger(t)
    BY <2>3, <1>3 DEF TypeOK, ReadyInv, CallerReady, Acknowledged,
       coord_pretrigger, flags, life, locks
  <2>4. CASE coord_trigger(t)
    BY <2>4, <1>3 DEF TypeOK, ReadyInv, CallerReady, Acknowledged, coord_trigger,
       flags, life, locks
  <2>5. CASE coord_posttrigger(t)
    BY <2>5, <1>3 DEF TypeOK, ReadyInv, CallerReady, Acknowledged,
       coord_posttrigger, flags, life, locks
  <2>6. CASE coord_processing(t)
    BY <2>6, <1>3 DEF TypeOK, ReadyInv, CallerReady, Acknowledged,
       coord_processing, StartProcessing, Release, flags, life, locks
  <2> QED BY <1>3, <2>1, <2>2, <2>3, <2>4, <2>5, <2>6 DEF Coordination
<1>4. CASE Reaper
  <2>1. CASE reaper_begin
    BY <2>1 DEF TypeOK, ReadyInv, CallerReady, Acknowledged, reaper_begin, flags,
       life, locks
  <2>2. CASE reaper_end
    BY <2>2 DEF TypeOK, ReadyInv, CallerReady, Acknowledged, reaper_end, flags,
       life, locks
  <2>3. ASSUME NEW p \in Programs, reaper_cancel(p) PROVE Acknowledged
    BY <2>3 DEF TypeOK, ReadyInv, CallerReady, Acknowledged, reaper_cancel,
       Elapsed, Cancelled, flags, life, locks
  <2>4. ASSUME NEW p \in Programs, reaper_join(p) PROVE Acknowledged
    BY <2>4 DEF TypeOK, ReadyInv, CallerReady, Acknowledged, reaper_join, Ended,
       Unlink, flags, life, locks
  <2>5. ASSUME NEW p \in Programs, reaper_reap(p) PROVE Acknowledged
    BY <2>5 DEF TypeOK, ReadyInv, CallerReady, Acknowledged, reaper_reap, Unlink,
       Elapsed, Cancelled, flags, life, locks
  <2> QED BY <1>4, <2>1, <2>2, <2>3, <2>4, <2>5 DEF Reaper
<1>5. CASE UNCHANGED vars
  BY <1>5 DEF TypeOK, ReadyInv, CallerReady, Acknowledged, vars, flags, life, locks
<1> QED BY <1>1, <1>2, <1>3, <1>4, <1>5 DEF Next

(***************************************************************************)
(* SET_READY_FLAG and SET_ACTIVE are answered only when the program, if it *)
(* is active, is ready or has been triggered, although list_lock is given  *)
(* up in between and other programs trigger and exit.                      *)
(***************************************************************************)
THEOREM ReadyIsAcknowledged == Spec => ReadyAcknowledged
<1>1. Init => ReadyInv
  BY DEF Init, ReadyInv, ExitSpawned, CallerReady, CoordThreads
<1>2. TypeOK /\ ReadyInv /\ [Next]_vars => [Acknowledged]_vars
  BY AcknowledgedStep
<1> QED BY <1>1, <1>2, ReadyStep, TypeCorrect, PTL DEF Spec, ReadyAcknowledged

(* Every step keeps what makes the first walk safe, if clients are at worst late. *)
LEMMA ExitStep == Faults \subseteq {"late"} /\ TypeOK /\ ExitInv /\ [Next]_vars => ExitInv'
<1> SUFFICES ASSUME Faults \subseteq {"late"}, TypeOK, ExitInv, [Next]_vars PROVE ExitInv'
  OBVIOUS
<1> USE ServerAssumption DEF CoordThreads
<1>0. "scan" \notin Programs
  OBVIOUS
<1>1. ASSUME NEW p \in Programs, Handler(p) PROVE ExitInv'
  <2>1. CASE init_exit_lock(p)
    BY <2>1 DEF TypeOK, ExitInv, CoordExclusive, ServedActive, ServedLive, NoBreak,
       OverdueIdle, WalkBeforeFree, EvaluateWalkSafe, Walking, init_exit_lock,
       Goto, flags, life, locks
  <2>2. CASE init_list_lock(p)
    BY <2>2 DEF TypeOK, ExitInv, CoordExclusive, ServedActive, ServedLive, NoBreak,
       OverdueIdle, WalkBeforeFree, EvaluateWalkSafe, Walking, init_list_lock,
       Goto, flags, life, locks
  <2>3. ASSUME NEW m \in Commands, recv_msg(p, m) PROVE ExitInv'
    BY <2>3 DEF TypeOK, ExitInv, CoordExclusive, ServedActive, ServedLive, NoBreak,
       OverdueIdle, WalkBeforeFree, EvaluateWalkSafe, Walking, recv_msg, Goto,
       Commands, flags, life, locks
  <2>4. CASE reply_only(p)
    BY <2>4 DEF TypeOK, ExitInv, CoordExclusive, ServedActive, ServedLive, NoBreak,
       OverdueIdle, WalkBeforeFree, EvaluateWalkSafe, Walking, reply_only,
       NeedsChannel, flags, life, locks
  <2>5. CASE set_radar_chan(p)
    BY <2>5 DEF TypeOK, ExitInv, CoordExclusive, ServedActive, ServedLive, NoBreak,
       OverdueIdle, WalkBeforeFree, EvaluateWalkSafe, Walking, set_radar_chan,
       Goto, flags, life, locks
  <2>6. CASE set_active_inactive(p, "SET_ACTIVE", 1)
    BY <2>6 DEF TypeOK, ExitInv, CoordExclusive, ServedActive, ServedLive, NoBreak,
       OverdueIdle, WalkBeforeFree, EvaluateWalkSafe, Walking, set_active_inactive,
       Goto, Spawn, flags, life, locks
  <2>7. CASE set_active_inactive(p, "SET_INACTIVE", -1)
    BY <2>7 DEF TypeOK, ExitInv, CoordExclusive, ServedActive, ServedLive, NoBreak,
       OverdueIdle, WalkBeforeFree, EvaluateWalkSafe, Walking, set_active_inactive,
       Goto, Spawn, flags, life, locks
  <2>8. CASE set_ready_active(p)
    BY <2>8 DEF TypeOK, ExitInv, CoordExclusive, ServedActive, ServedLive, NoBreak,
       OverdueIdle, WalkBeforeFree, EvaluateWalkSafe, Walking, set_ready_active,
       Goto, flags, life, locks
  <2>9. CASE set_ready_drivers(p)
    BY <2>9 DEF TypeOK, ExitInv, CoordExclusive, ServedActive, ServedLive, NoBreak,
       OverdueIdle, WalkBeforeFree, EvaluateWalkSafe, Walking, set_ready_drivers,
       Goto, flags, life, locks
  <2>10. CASE set_ready_coordinate(p)
    BY <2>10 DEF TypeOK, ExitInv, CoordExclusive, ServedActive, ServedLive,
       NoBreak, OverdueIdle, WalkBeforeFree, EvaluateWalkSafe, Walking,
       set_ready_coordinate, Goto, Spawn, flags, life, locks
  <2>11. CASE join_coordination(p)
    BY <2>11 DEF TypeOK, ExitInv, CoordExclusive, ServedActive, ServedLive,
       NoBreak, OverdueIdle, WalkBeforeFree, EvaluateWalkSafe, Walking,
       join_coordination, Goto, flags, life, locks
  <2>12. CASE get_data(p)
    BY <2>12 DEF TypeOK, ExitInv, CoordExclusive, ServedActive, ServedLive,
       NoBreak, OverdueIdle, WalkBeforeFree, EvaluateWalkSafe, Walking, get_data,
       Goto, flags, life, locks
  <2>13. CASE locked_io(p)
    BY <2>13 DEF TypeOK, ExitInv, CoordExclusive, ServedActive, ServedLive,
       NoBreak, OverdueIdle, WalkBeforeFree, EvaluateWalkSafe, Walking, locked_io,
       Goto, flags, life, locks
  <2>14. CASE locked_io_done(p)
    BY <2>14 DEF TypeOK, ExitInv, CoordExclusive, ServedActive, ServedLive,
       NoBreak, OverdueIdle, WalkBeforeFree, EvaluateWalkSafe, Walking,
       locked_io_done, Goto, flags, life, locks
  <2>15. CASE clear_freq_lock(p)
    BY <2>15 DEF TypeOK, ExitInv, CoordExclusive, ServedActive, ServedLive,
       NoBreak, OverdueIdle, WalkBeforeFree, EvaluateWalkSafe, Walking,
       clear_freq_lock, Goto, flags, life, locks
  <2>16. CASE clear_freq_file(p)
    BY <2>16 DEF TypeOK, ExitInv, CoordExclusive, ServedActive, ServedLive,
       NoBreak, OverdueIdle, WalkBeforeFree, EvaluateWalkSafe, Walking,
       clear_freq_file, Goto, flags, life, locks
  <2>17. CASE clear_freq_search(p)
    BY <2>17 DEF TypeOK, ExitInv, CoordExclusive, ServedActive, ServedLive,
       NoBreak, OverdueIdle, WalkBeforeFree, EvaluateWalkSafe, Walking,
       clear_freq_search, Goto, flags, life, locks
  <2>18. CASE clear_freq_done(p)
    BY <2>18 DEF TypeOK, ExitInv, CoordExclusive, ServedActive, ServedLive,
       NoBreak, OverdueIdle, WalkBeforeFree, EvaluateWalkSafe, Walking,
       clear_freq_done, Goto, flags, life, locks
  <2>19. CASE quit(p)
    BY <2>19 DEF TypeOK, ExitInv, CoordExclusive, ServedActive, ServedLive,
       NoBreak, OverdueIdle, WalkBeforeFree, EvaluateWalkSafe, Walking, quit, Goto,
       flags, life, locks
  <2>20. CASE cancelled(p)
    BY <2>20 DEF TypeOK, ExitInv, CoordExclusive, ServedActive, ServedLive,
       NoBreak, OverdueIdle, WalkBeforeFree, EvaluateWalkSafe, Walking, cancelled,
       CancelPoints, flags, life, locks
  <2>21. CASE exit_flag(p)
    BY <2>21 DEF TypeOK, ExitInv, CoordExclusive, ServedActive, ServedLive,
       NoBreak, OverdueIdle, WalkBeforeFree, EvaluateWalkSafe, Walking, exit_flag,
       Goto, flags, life, locks
  <2>22. CASE exit_begin(p)
    BY <2>22 DEF TypeOK, ExitInv, CoordExclusive, ServedActive, ServedLive,
       NoBreak, OverdueIdle, WalkBeforeFree, EvaluateWalkSafe, Walking, exit_begin,
       Goto, exit_active, Spawn, flags, life, locks
  <2>23. CASE exit_free(p)
    BY <2>23 DEF TypeOK, ExitInv, CoordExclusive, ServedActive, ServedLive,
       NoBreak, OverdueIdle, WalkBeforeFree, EvaluateWalkSafe, Walking, exit_free,
       Goto, flags, life, locks
  <2> QED BY <1>1, <2>1, <2>2, <2>3, <2>4, <2>5, <2>6, <2>7, <2>8, <2>9, <2>10,
     <2>11, <2>12, <2>13, <2>14, <2>15, <2>16, <2>17, <2>18, <2>19, <2>20, <2>21,
     <2>22, <2>23 DEF Handler
<1>2. ASSUME NEW p \in Programs, Environment(p) PROVE ExitInv'
  <2>1. CASE accept(p)
    BY <2>1 DEF TypeOK, ExitInv, CoordExclusive, ServedActive, ServedLive, NoBreak,
       OverdueIdle, WalkBeforeFree, EvaluateWalkSafe, Walking, accept, Goto, flags,
       life, locks
  <2>2. CASE select_readable(p)
    BY <2>2 DEF TypeOK, ExitInv, CoordExclusive, ServedActive, ServedLive, NoBreak,
       OverdueIdle, WalkBeforeFree, EvaluateWalkSafe, Walking, select_readable,
       Goto, flags, life, locks
  <2>3. CASE silence(p)
    BY <2>3 DEF TypeOK, ExitInv, CoordExclusive, ServedActive, ServedLive, NoBreak,
       OverdueIdle, WalkBeforeFree, EvaluateWalkSafe, Walking, silence, flags,
       life, locks
  <2>4. CASE disconnect(p)
    BY <2>4 DEF TypeOK, ExitInv, CoordExclusive, ServedActive, ServedLive, NoBreak,
       OverdueIdle, WalkBeforeFree, EvaluateWalkSafe, Walking, disconnect, flags,
       life, locks
  <2>5. CASE socket_error(p)
    BY <2>5 DEF TypeOK, ExitInv, CoordExclusive, ServedActive, ServedLive, NoBreak,
       OverdueIdle, WalkBeforeFree, EvaluateWalkSafe, Walking, socket_error, Goto,
       flags, life, locks
  <2>6. CASE exit_killed(p)
    BY <2>6 DEF TypeOK, ExitInv, CoordExclusive, ServedActive, ServedLive, NoBreak,
       OverdueIdle, WalkBeforeFree, EvaluateWalkSafe, Walking, exit_killed, Goto,
       flags, life, locks
  <2> QED BY <1>2, <2>1, <2>2, <2>3, <2>4, <2>5, <2>6 DEF Environment
<1>3. ASSUME NEW t \in CoordThreads, Coordination(t) PROVE ExitInv'
  <2>1. CASE coord_mark(t)
    BY <2>1, <1>3 DEF TypeOK, ExitInv, CoordExclusive, ServedActive, ServedLive,
       NoBreak, OverdueIdle, WalkBeforeFree, EvaluateWalkSafe, Walking, coord_mark,
       coord_lock_free, Parent, flags, life, locks
  <2>2. CASE coord_evaluate(t)
    BY <2>2, <1>3 DEF TypeOK, ExitInv, CoordExclusive, ServedActive, ServedLive,
       NoBreak, OverdueIdle, WalkBeforeFree, EvaluateWalkSafe, Walking,
       coord_evaluate, ready_state, Release, flags, life, locks
  <2>3. CASE coord_pretrigger(t)
    BY <2>3, <1>3 DEF TypeOK, ExitInv, CoordExclusive, ServedActive, ServedLive,
       NoBreak, OverdueIdle, WalkBeforeFree, EvaluateWalkSafe, Walking,
       coord_pretrigger, flags, life, locks
  <2>4. CASE coord_trigger(t)
    BY <2>4, <1>3 DEF TypeOK, ExitInv, CoordExclusive, ServedActive, ServedLive,
       NoBreak, OverdueIdle, WalkBeforeFree, EvaluateWalkSafe, Walking,
       coord_trigger, flags, life, locks
  <2>5. CASE coord_posttrigger(t)
    BY <2>5, <1>3 DEF TypeOK, ExitInv, CoordExclusive, ServedActive, ServedLive,
       NoBreak, OverdueIdle, WalkBeforeFree, EvaluateWalkSafe, Walking,
       coord_posttrigger, flags, life, locks
  <2>6. CASE coord_processing(t)
    BY <2>6, <1>3 DEF TypeOK, ExitInv, CoordExclusive, ServedActive, ServedLive,
       NoBreak, OverdueIdle, WalkBeforeFree, EvaluateWalkSafe, Walking,
       coord_processing, StartProcessing, Release, flags, life, locks
  <2> QED BY <1>3, <2>1, <2>2, <2>3, <2>4, <2>5, <2>6 DEF Coordination
<1>4. CASE Reaper
  <2>1. CASE reaper_begin
    BY <2>1, <1>0 DEF TypeOK, ExitInv, CoordExclusive, ServedActive, ServedLive,
       NoBreak, OverdueIdle, WalkBeforeFree, EvaluateWalkSafe, Walking,
       reaper_begin, flags, life, locks
  <2>2. CASE reaper_end
    BY <2>2, <1>0 DEF TypeOK, ExitInv, CoordExclusive, ServedActive, ServedLive,
       NoBreak, OverdueIdle, WalkBeforeFree, EvaluateWalkSafe, Walking, reaper_end,
       flags, life, locks
  <2>3. ASSUME NEW p \in Programs, reaper_cancel(p) PROVE ExitInv'
    BY <2>3, <1>0 DEF TypeOK, ExitInv, CoordExclusive, ServedActive, ServedLive,
       NoBreak, OverdueIdle, WalkBeforeFree, EvaluateWalkSafe, Walking,
       reaper_cancel, Elapsed, Cancelled, flags, life, locks
  <2>4. ASSUME NEW p \in Programs, reaper_join(p) PROVE ExitInv'
    <3>1. pc[p] = "dead" /\ mem' = [mem EXCEPT ![p] = "freed"] /\ reaper = p /\ reaper' = "scan"
      BY <2>4 DEF ExitInv, NoBreak, reaper_join, Ended, Unlink
    <3>2. UNCHANGED <<pc, active, seen, gone, co, walked, coord_lock>>
      BY <2>4 DEF reaper_join, flags
    <3>3. Walking => p \notin walked
      BY <3>1 DEF ExitInv, WalkBeforeFree
    <3>4. CoordExclusive' /\ ServedActive' /\ NoBreak' /\ WalkBeforeFree'
      BY <3>2 DEF ExitInv, CoordExclusive, ServedActive, NoBreak, WalkBeforeFree, Walking
    <3>5. ServedLive'
      BY <3>1, <3>2 DEF TypeOK, ExitInv, ServedLive
    <3>6. OverdueIdle'
      BY <3>1, <3>2, <1>0 DEF TypeOK, ExitInv, OverdueIdle
    <3>7. EvaluateWalkSafe'
      BY <3>1, <3>2, <3>3 DEF TypeOK, ExitInv, EvaluateWalkSafe, Walking
    <3> QED BY <3>4, <3>5, <3>6, <3>7 DEF ExitInv
  <2>5. ASSUME NEW p \in Programs, reaper_reap(p) PROVE ExitInv'
    BY <2>5, <1>0 DEF TypeOK, ExitInv, CoordExclusive, ServedActive, ServedLive,
       NoBreak, OverdueIdle, WalkBeforeFree, EvaluateWalkSafe, Walking,
       reaper_reap, Unlink, Elapsed, Cancelled, flags, life, locks
  <2> QED BY <1>4, <2>1, <2>2, <2>3, <2>4, <2>5 DEF Reaper
<1>5. CASE UNCHANGED vars
  BY <1>5 DEF TypeOK, ExitInv, CoordExclusive, ServedActive, ServedLive, NoBreak,
     OverdueIdle, WalkBeforeFree, EvaluateWalkSafe, Walking, vars, flags, life,
     locks
<1> QED BY <1>1, <1>2, <1>3, <1>4, <1>5 DEF Next

(***************************************************************************)
(* What makes the first walk safe: an exiting program is inactive and      *)
(* passes through coord_lock before its structures are freed, and the      *)
(* timeout thread frees only programs whose handler has ended.             *)
(***************************************************************************)
THEOREM ExitInvariant == ASSUME Faults \subseteq {"late"} PROVE Spec => []ExitInv
<1>1. Init => ExitInv
  BY ServerAssumption DEF Init, ExitInv, CoordExclusive, ServedActive, ServedLive, NoBreak,
     OverdueIdle, WalkBeforeFree, EvaluateWalkSafe, Walking, CoordThreads
<1>2. TypeOK /\ ExitInv /\ [Next]_vars => ExitInv'
  BY ExitStep
<1> QED BY <1>1, <1>2, TypeCorrect, PTL DEF Spec

(***************************************************************************)
(* The first walk of coordination_handler never reads the state of a       *)
(* program that controlprogram_exit or timeout_handler has freed, although *)
(* they share no lock, provided that the clients keep their connections    *)
(* and do not stall and the timeout pass fits into its second.             *)
(***************************************************************************)
THEOREM FirstWalkSafe == ASSUME Faults \subseteq {"late"} PROVE Spec => []EvaluateWalkSafe
BY ExitInvariant, PTL DEF ExitInv

(* Without faults a cancel never separates a handler from what it waits for. *)
LEMMA JoinStep == Faults = {} /\ TypeOK /\ ExitInv /\ JoinInv /\ [Next]_vars => JoinInv'
<1> SUFFICES ASSUME Faults = {}, TypeOK, ExitInv, JoinInv, [Next]_vars PROVE JoinInv'
  OBVIOUS
<1> USE ServerAssumption DEF CoordThreads
<1>0. "scan" \notin Programs
  OBVIOUS
<1>1. ASSUME NEW p \in Programs, Handler(p) PROVE JoinInv'
  <2>1. CASE init_exit_lock(p)
    BY <2>1 DEF TypeOK, ExitInv, NoBreak, OverdueIdle, JoinInv, JoinedThreads,
       CancelsIdle, init_exit_lock, Goto, flags, life, locks
  <2>2. CASE init_list_lock(p)
    BY <2>2 DEF TypeOK, ExitInv, NoBreak, OverdueIdle, JoinInv, JoinedThreads,
       CancelsIdle, init_list_lock, Goto, flags, life, locks
  <2>3. ASSUME NEW m \in Commands, recv_msg(p, m) PROVE JoinInv'
    BY <2>3 DEF TypeOK, ExitInv, NoBreak, OverdueIdle, JoinInv, JoinedThreads,
       CancelsIdle, recv_msg, Goto, Commands, flags, life, locks
  <2>4. CASE reply_only(p)
    BY <2>4 DEF TypeOK, ExitInv, NoBreak, OverdueIdle, JoinInv, JoinedThreads,
       CancelsIdle, reply_only, NeedsChannel, flags, life, locks
  <2>5. CASE set_radar_chan(p)
    BY <2>5 DEF TypeOK, ExitInv, NoBreak, OverdueIdle, JoinInv, JoinedThreads,
       CancelsIdle, set_radar_chan, Goto, flags, life, locks
  <2>6. CASE set_active_inactive(p, "SET_ACTIVE", 1)
    BY <2>6 DEF TypeOK, ExitInv, NoBreak, OverdueIdle, JoinInv, JoinedThreads,
       CancelsIdle, set_active_inactive, Goto, Spawn, flags, life, locks
  <2>7. CASE set_active_inactive(p, "SET_INACTIVE", -1)
    BY <2>7 DEF TypeOK, ExitInv, NoBreak, OverdueIdle, JoinInv, JoinedThreads,
       CancelsIdle, set_active_inactive, Goto, Spawn, flags, life, locks
  <2>8. CASE set_ready_active(p)
    BY <2>8 DEF TypeOK, ExitInv, NoBreak, OverdueIdle, JoinInv, JoinedThreads,
       CancelsIdle, set_ready_active, Goto, flags, life, locks
  <2>9. CASE set_ready_drivers(p)
    BY <2>9 DEF TypeOK, ExitInv, NoBreak, OverdueIdle, JoinInv, JoinedThreads,
       CancelsIdle, set_ready_drivers, Goto, flags, life, locks
  <2>10. CASE set_ready_coordinate(p)
    BY <2>10 DEF TypeOK, ExitInv, NoBreak, OverdueIdle, JoinInv, JoinedThreads,
       CancelsIdle, set_ready_coordinate, Goto, Spawn, flags, life, locks
  <2>11. CASE join_coordination(p)
    BY <2>11 DEF TypeOK, ExitInv, NoBreak, OverdueIdle, JoinInv, JoinedThreads,
       CancelsIdle, join_coordination, Goto, flags, life, locks
  <2>12. CASE get_data(p)
    BY <2>12 DEF TypeOK, ExitInv, NoBreak, OverdueIdle, JoinInv, JoinedThreads,
       CancelsIdle, get_data, Goto, flags, life, locks
  <2>13. CASE locked_io(p)
    BY <2>13 DEF TypeOK, ExitInv, NoBreak, OverdueIdle, JoinInv, JoinedThreads,
       CancelsIdle, locked_io, Goto, flags, life, locks
  <2>14. CASE locked_io_done(p)
    BY <2>14 DEF TypeOK, ExitInv, NoBreak, OverdueIdle, JoinInv, JoinedThreads,
       CancelsIdle, locked_io_done, Goto, flags, life, locks
  <2>15. CASE clear_freq_lock(p)
    BY <2>15 DEF TypeOK, ExitInv, NoBreak, OverdueIdle, JoinInv, JoinedThreads,
       CancelsIdle, clear_freq_lock, Goto, flags, life, locks
  <2>16. CASE clear_freq_file(p)
    BY <2>16 DEF TypeOK, ExitInv, NoBreak, OverdueIdle, JoinInv, JoinedThreads,
       CancelsIdle, clear_freq_file, Goto, flags, life, locks
  <2>17. CASE clear_freq_search(p)
    BY <2>17 DEF TypeOK, ExitInv, NoBreak, OverdueIdle, JoinInv, JoinedThreads,
       CancelsIdle, clear_freq_search, Goto, flags, life, locks
  <2>18. CASE clear_freq_done(p)
    BY <2>18 DEF TypeOK, ExitInv, NoBreak, OverdueIdle, JoinInv, JoinedThreads,
       CancelsIdle, clear_freq_done, Goto, flags, life, locks
  <2>19. CASE quit(p)
    BY <2>19 DEF TypeOK, ExitInv, NoBreak, OverdueIdle, JoinInv, JoinedThreads,
       CancelsIdle, quit, Goto, flags, life, locks
  <2>20. CASE cancelled(p)
    BY <2>20 DEF TypeOK, ExitInv, NoBreak, OverdueIdle, JoinInv, JoinedThreads,
       CancelsIdle, cancelled, CancelPoints, flags, life, locks
  <2>21. CASE exit_flag(p)
    BY <2>21 DEF TypeOK, ExitInv, NoBreak, OverdueIdle, JoinInv, JoinedThreads,
       CancelsIdle, exit_flag, Goto, flags, life, locks
  <2>22. CASE exit_begin(p)
    BY <2>22 DEF TypeOK, ExitInv, NoBreak, OverdueIdle, JoinInv, JoinedThreads,
       CancelsIdle, exit_begin, Goto, exit_active, Spawn, flags, life, locks
  <2>23. CASE exit_free(p)
    <3>1. /\ pc' = [pc EXCEPT ![p] = "dead"] /\ pc[p] = "exit_join"
          /\ co[<<p, "exit">>] = "none"
          /\ UNCHANGED <<co, seen, reaper>>
      BY <2>23 DEF exit_free, Goto, ExitInv, NoBreak
    <3>2. pc'[p] = "dead" /\ \A q \in Programs \ {p} : pc'[q] = pc[q]
      BY <3>1 DEF TypeOK
    <3>3. JoinedThreads'
      BY <3>1, <3>2 DEF JoinInv, JoinedThreads
    <3>4. CancelsIdle'
      BY <3>1, <3>2 DEF JoinInv, CancelsIdle
    <3> QED BY <3>3, <3>4 DEF JoinInv
  <2> QED BY <1>1, <2>1, <2>2, <2>3, <2>4, <2>5, <2>6, <2>7, <2>8, <2>9, <2>10,
     <2>11, <2>12, <2>13, <2>14, <2>15, <2>16, <2>17, <2>18, <2>19, <2>20, <2>21,
     <2>22, <2>23 DEF Handler
<1>2. ASSUME NEW p \in Programs, Environment(p) PROVE JoinInv'
  <2>1. CASE accept(p)
    BY <2>1 DEF TypeOK, ExitInv, NoBreak, OverdueIdle, JoinInv, JoinedThreads,
       CancelsIdle, accept, Goto, flags, life, locks
  <2>2. CASE select_readable(p)
    BY <2>2 DEF TypeOK, ExitInv, NoBreak, OverdueIdle, JoinInv, JoinedThreads,
       CancelsIdle, select_readable, Goto, flags, life, locks
  <2>3. CASE silence(p)
    BY <2>3 DEF TypeOK, ExitInv, NoBreak, OverdueIdle, JoinInv, JoinedThreads,
       CancelsIdle, silence, flags, life, locks
  <2>4. CASE disconnect(p)
    BY <2>4 DEF TypeOK, ExitInv, NoBreak, OverdueIdle, JoinInv, JoinedThreads,
       CancelsIdle, disconnect, flags, life, locks
  <2>5. CASE socket_error(p)
    BY <2>5 DEF TypeOK, ExitInv, NoBreak, OverdueIdle, JoinInv, JoinedThreads,
       CancelsIdle, socket_error, Goto, flags, life, locks
  <2>6. CASE exit_killed(p)
    BY <2>6 DEF TypeOK, ExitInv, NoBreak, OverdueIdle, JoinInv, JoinedThreads,
       CancelsIdle, exit_killed, Goto, flags, life, locks
  <2> QED BY <1>2, <2>1, <2>2, <2>3, <2>4, <2>5, <2>6 DEF Environment
<1>3. ASSUME NEW t \in CoordThreads, Coordination(t) PROVE JoinInv'
  <2>1. CASE coord_mark(t)
    BY <2>1, <1>3 DEF TypeOK, ExitInv, NoBreak, OverdueIdle, JoinInv,
       JoinedThreads, CancelsIdle, coord_mark, coord_lock_free, Parent, flags,
       life, locks
  <2>2. CASE coord_evaluate(t)
    BY <2>2, <1>3 DEF TypeOK, ExitInv, NoBreak, OverdueIdle, JoinInv,
       JoinedThreads, CancelsIdle, coord_evaluate, ready_state, Release, flags,
       life, locks
  <2>3. CASE coord_pretrigger(t)
    BY <2>3, <1>3 DEF TypeOK, ExitInv, NoBreak, OverdueIdle, JoinInv,
       JoinedThreads, CancelsIdle, coord_pretrigger, flags, life, locks
  <2>4. CASE coord_trigger(t)
    BY <2>4, <1>3 DEF TypeOK, ExitInv, NoBreak, OverdueIdle, JoinInv,
       JoinedThreads, CancelsIdle, coord_trigger, flags, life, locks
  <2>5. CASE coord_posttrigger(t)
    BY <2>5, <1>3 DEF TypeOK, ExitInv, NoBreak, OverdueIdle, JoinInv,
       JoinedThreads, CancelsIdle, coord_posttrigger, flags, life, locks
  <2>6. CASE coord_processing(t)
    BY <2>6, <1>3 DEF TypeOK, ExitInv, NoBreak, OverdueIdle, JoinInv,
       JoinedThreads, CancelsIdle, coord_processing, StartProcessing, Release,
       flags, life, locks
  <2> QED BY <1>3, <2>1, <2>2, <2>3, <2>4, <2>5, <2>6 DEF Coordination
<1>4. CASE Reaper
  <2>1. CASE reaper_begin
    BY <2>1, <1>0 DEF TypeOK, ExitInv, NoBreak, OverdueIdle, JoinInv,
       JoinedThreads, CancelsIdle, reaper_begin, flags, life, locks
  <2>2. CASE reaper_end
    BY <2>2, <1>0 DEF TypeOK, ExitInv, NoBreak, OverdueIdle, JoinInv,
       JoinedThreads, CancelsIdle, reaper_end, flags, life, locks
  <2>3. ASSUME NEW p \in Programs, reaper_cancel(p) PROVE JoinInv'
    BY <2>3, <1>0 DEF TypeOK, ExitInv, NoBreak, OverdueIdle, JoinInv,
       JoinedThreads, CancelsIdle, reaper_cancel, Elapsed, Cancelled, flags, life,
       locks
  <2>4. ASSUME NEW p \in Programs, reaper_join(p) PROVE JoinInv'
    BY <2>4, <1>0 DEF TypeOK, ExitInv, NoBreak, OverdueIdle, JoinInv,
       JoinedThreads, CancelsIdle, reaper_join, Ended, Unlink, flags, life, locks
  <2>5. ASSUME NEW p \in Programs, reaper_reap(p) PROVE JoinInv'
    BY <2>5, <1>0 DEF TypeOK, ExitInv, NoBreak, OverdueIdle, JoinInv,
       JoinedThreads, CancelsIdle, reaper_reap, Unlink, Elapsed, Cancelled, flags,
       life, locks
  <2> QED BY <1>4, <2>1, <2>2, <2>3, <2>4, <2>5 DEF Reaper
<1>5. CASE UNCHANGED vars
  BY <1>5 DEF TypeOK, ExitInv, NoBreak, OverdueIdle, JoinInv, JoinedThreads,
     CancelsIdle, vars, flags, life, locks
<1> QED BY <1>1, <1>2, <1>3, <1>4, <1>5 DEF Next

(***************************************************************************)
(* Without faults, when timeout_handler frees a control program no thread  *)
(* of that program is left: neither its handler nor a coordination thread  *)
(* that would go on to use the freed structure.                            *)
(***************************************************************************)
THEOREM NothingDangles == ASSUME Faults = {} PROVE Spec => []NoDangling
<1>1. Init => JoinInv
  BY ServerAssumption DEF Init, JoinInv, JoinedThreads, CancelsIdle, CoordThreads
<1>2. TypeOK /\ ExitInv /\ JoinInv /\ [Next]_vars => JoinInv'
  BY JoinStep
<1>3. TypeOK /\ ExitInv /\ JoinInv => NoDangling
  BY DEF TypeOK, ExitInv, ServedLive, JoinInv, JoinedThreads, NoDangling, CoordThreads
<1>4. Spec => []ExitInv
  BY ExitInvariant
<1> QED BY <1>1, <1>2, <1>3, <1>4, TypeCorrect, PTL DEF Spec
==============================================================================
