-------------------------------- MODULE Manage --------------------------------
(***************************************************************************)
(* manage_thread (manage.cpp:124-193) and front_conn::conn_wash_white      *)
(* (front_conn.cpp:334-350): dead connections leave the registry and their *)
(* objects are recycled.                                                   *)
(*                                                                         *)
(* manage_pc: "lock"     outside timed_wait, no lock held                  *)
(*            "wait"     in timed_wait, which has released the mutex       *)
(*            "woken"    notified, must take the mutex again               *)
(*            "timedout" 45 s have passed, must take the mutex again       *)
(*            "scan"     both locks held, in the loop over pending         *)
(*            "erase"    item has no other owner, erase comes next         *)
(*            "wash"     item is erased, conn_wash_white comes next        *)
(*            "cache"    stats_ is conn_pending, the socket is not reset   *)
(***************************************************************************)
EXTENDS ConnState

manageOthers == <<ioVars, acceptVars, coVars>>

\* Takes conn_notify_mutex and enters timed_wait; the predicate
\* (pending_to_remove_ not empty) is not looked at before.
ManageWait ==
  /\ manage_pc = "lock"
  /\ manage_pc' = "wait"
  /\ UNCHANGED <<registryVars, connVars, manage_todo, item, manageOthers, fault>>

ManageTimeout ==
  /\ manage_pc = "wait"
  /\ manage_pc' = "timedout"
  /\ UNCHANGED <<registryVars, connVars, manage_todo, item, manageOthers, fault>>

\* A condition variable may wake without a notification.
ManageSpurious ==
  /\ manage_pc = "wait"
  /\ manage_pc' = "woken"
  /\ UNCHANGED <<registryVars, connVars, manage_todo, item, manageOthers, fault>>

\* After a timeout the thread only prints the counts.
ManageShow ==
  /\ manage_pc = "timedout"
  /\ manage_pc' = "lock"
  /\ UNCHANGED <<registryVars, connVars, manage_todo, item, manageOthers, fault>>

ManageWoken ==
  /\ manage_pc = "woken"
  /\ IF pending_to_remove = {}
     THEN manage_pc' = "lock" /\ UNCHANGED manage_todo
     ELSE manage_pc' = "scan" /\ manage_todo' = pending_to_remove
  /\ UNCHANGED <<registryVars, connVars, item, manageOthers, fault>>

\* Mutant: the count that would be right if another thread kept a copy.
StillInUse_Four(c) == use_count(c) + 1 > 4

\* item.use_count() > 3, item being one of the owners.
StillInUse(c) == use_count(c) + 1 > 3

\* One turn of the loop up to the reference count: the map, the set and item
\* are three owners, a fourth one means that the object is still in use and
\* it goes back into the wheel.
ManageCheck ==
  /\ manage_pc = "scan"
  /\ \E c \in manage_todo :
       /\ manage_todo' = manage_todo \ {c}
       /\ \/ /\ c \notin front_conns
             /\ UNCHANGED <<timing_wheel, manage_pc, item>>
          \/ /\ c \in front_conns
             /\ StillInUse(c)
             /\ back_insert(c)
             /\ UNCHANGED <<manage_pc, item>>
          \/ /\ c \in front_conns
             /\ ~StillInUse(c)
             /\ item' = c
             /\ manage_pc' = "erase"
             /\ UNCHANGED timing_wheel
  /\ UNCHANGED <<front_conns, cached_conns, pending_to_remove, current_conns_cnt,
                 connVars, manageOthers, fault>>

\* Mutant: the cache is bounded by the limit itself.
CacheHasRoom_All == Len(cached_conns) < MaxServe

\* cached_conns_.size() < 0.3 * max_serve_conns_cnt_
CacheHasRoom == 10 * Len(cached_conns) < 3 * MaxServe

\* Erased from the map; without room in the cache item is simply dropped.
ManageErase ==
  /\ manage_pc = "erase"
  /\ front_conns' = front_conns \ {item}
  /\ current_conns_cnt' = current_conns_cnt - 1
  /\ IF CacheHasRoom
     THEN manage_pc' = "wash" /\ UNCHANGED item
     ELSE manage_pc' = "scan" /\ item' = NULL
  /\ UNCHANGED <<cached_conns, pending_to_remove, timing_wheel, connVars,
                 manage_todo, manageOthers, fault>>

\* conn_wash_white asserts that the object is not working, then resets stats_.
ManageWash ==
  /\ manage_pc = "wash"
  /\ IF stats[item] = "working"
     THEN Crash("WashWorking")
     ELSE /\ stats' = [stats EXCEPT ![item] = "pending"]
          /\ manage_pc' = "cache"
          /\ UNCHANGED <<registryVars, p_sock, overdue, manage_todo, item,
                         manageOthers, fault>>

\* p_sock_.reset(), and the object is pushed into the cache.
ManageCache ==
  /\ manage_pc = "cache"
  /\ p_sock' = [p_sock EXCEPT ![item] = "null"]
  /\ cached_conns' = Append(cached_conns, item)
  /\ item' = NULL
  /\ manage_pc' = "scan"
  /\ UNCHANGED <<front_conns, pending_to_remove, timing_wheel, current_conns_cnt,
                 stats, overdue, manage_todo, manageOthers, fault>>

\* Mutant: the set is not cleared.
ManageDone_NoClear ==
  /\ manage_pc = "scan"
  /\ manage_todo = {}
  /\ manage_pc' = "lock"
  /\ UNCHANGED <<registryVars, connVars, manage_todo, item, manageOthers, fault>>

\* The set is cleared, the counter is checked, both locks are released.
ManageDone ==
  /\ manage_pc = "scan"
  /\ manage_todo = {}
  /\ IF current_conns_cnt # Cardinality(front_conns)
     THEN Crash("CountMismatch")
     ELSE /\ pending_to_remove' = {}
          /\ manage_pc' = "lock"
          /\ UNCHANGED <<front_conns, cached_conns, timing_wheel, current_conns_cnt,
                         connVars, manage_todo, item, manageOthers, fault>>

\* The steps of manage_thread that need nobody else to happen.
ManageStep ==
  \/ ManageWait \/ ManageShow \/ ManageWoken \/ ManageCheck \/ ManageErase
  \/ ManageWash \/ ManageCache \/ ManageDone
==============================================================================
