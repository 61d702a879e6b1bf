------------------------------- MODULE CoWorker -------------------------------
(***************************************************************************)
(* co_worker::timing_wheel_check (co_worker.cpp:48-113): the front bucket  *)
(* of the wheel is scanned, overdue connections are shut down and handed   *)
(* to the manage thread, the others go to the back.  The scan holds no     *)
(* lock; it owns each object only while it looks at it.                    *)
(*                                                                         *)
(* co_pc: "sleep"  the deadline_timer is armed                             *)
(*        "scan"   in the loop over the front bucket                       *)
(*        "stats"  conn is locked, its stats_ and touch_time_ come next    *)
(*        "shut"   conn is overdue, sock_shutdown comes next               *)
(*        "error"  set_stats(conn_error) comes next                        *)
(*        "push"   push_to_remove comes next                               *)
(*        "rotate" notify_one is done, push_back comes next                *)
(***************************************************************************)
EXTENDS ConnState

coOthers == <<ioVars, acceptVars>>

\* The timer expires: front_modi is a copy of the front bucket.
WheelTick ==
  /\ co_pc = "sleep"
  /\ front_modi' = timing_wheel[1]
  /\ co_todo' = timing_wheel[1]
  /\ co_pc' = "scan"
  /\ UNCHANGED <<registryVars, connVars, conn, notify_flag, coOthers, manageVars, fault>>

\* item.lock(): an expired weak_ptr is dropped, else conn owns the object.
WheelLock ==
  /\ co_pc = "scan"
  /\ \E c \in co_todo :
       /\ co_todo' = co_todo \ {c}
       /\ IF use_count(c) = 0
          THEN front_modi' = front_modi \ {c} /\ UNCHANGED <<co_pc, conn>>
          ELSE co_pc' = "stats" /\ conn' = c /\ UNCHANGED front_modi
  /\ UNCHANGED <<registryVars, connVars, notify_flag, coOthers, manageVars, fault>>

\* A conn_pending object is asserted to be in the cache and leaves the wheel;
\* one that is not overdue stays.
WheelStats ==
  /\ co_pc = "stats"
  /\ \/ /\ stats[conn] = "pending"
        /\ ~Cached(conn)
        /\ Crash("PendingNotCached")
     \/ /\ stats[conn] = "pending"
        /\ Cached(conn)
        /\ front_modi' = front_modi \ {conn}
        /\ conn' = NULL
        /\ co_pc' = "scan"
        /\ UNCHANGED <<registryVars, connVars, co_todo, notify_flag, coOthers,
                       manageVars, fault>>
     \/ /\ stats[conn] # "pending"
        /\ overdue[conn]
        /\ front_modi' = front_modi \ {conn}
        /\ co_pc' = "shut"
        /\ UNCHANGED <<registryVars, connVars, co_todo, conn, notify_flag, coOthers,
                       manageVars, fault>>
     \/ /\ stats[conn] # "pending"
        /\ ~overdue[conn]
        /\ conn' = NULL
        /\ co_pc' = "scan"
        /\ UNCHANGED <<registryVars, connVars, co_todo, front_modi, notify_flag,
                       coOthers, manageVars, fault>>

\* sock_shutdown(shutdown_both) through p_sock_.
WheelShut ==
  /\ co_pc = "shut"
  /\ IF p_sock[conn] = "null"
     THEN Crash("NullSocket")
     ELSE /\ p_sock' = [p_sock EXCEPT ![conn] = "shut"]
          /\ co_pc' = "error"
          /\ UNCHANGED <<registryVars, stats, overdue, co_todo, front_modi, conn,
                         notify_flag, coOthers, manageVars, fault>>

WheelError ==
  /\ co_pc = "error"
  /\ stats' = [stats EXCEPT ![conn] = "error"]
  /\ co_pc' = "push"
  /\ UNCHANGED <<registryVars, p_sock, overdue, co_todo, front_modi, conn, notify_flag,
                 coOthers, manageVars, fault>>

\* push_to_remove; conn goes out of scope.
WheelPush ==
  /\ co_pc = "push"
  /\ push_to_remove(conn)
  /\ notify_flag' = TRUE
  /\ conn' = NULL
  /\ co_pc' = "scan"
  /\ UNCHANGED <<connVars, co_todo, front_modi, coOthers, manageVars, fault>>

\* The loop is over: one notification for all that was pushed.
WheelNotify ==
  /\ co_pc = "scan"
  /\ co_todo = {}
  /\ IF notify_flag THEN notify_one ELSE UNCHANGED manageVars
  /\ co_pc' = "rotate"
  /\ UNCHANGED <<registryVars, connVars, co_todo, front_modi, conn, notify_flag,
                 coOthers, fault>>

\* Mutants: push_back on a buffer that is not full, and of an empty bucket.
pushed_back_Grow(bucket) == Append(timing_wheel, bucket)
pushed_back_Empty(bucket) == Append(Tail(timing_wheel), {})

\* push_back on the full circular_buffer drops the front bucket.
pushed_back(bucket) == Append(Tail(timing_wheel), bucket)

WheelRotate ==
  /\ co_pc = "rotate"
  /\ front_conns_mutex_free
  /\ timing_wheel' = pushed_back(front_modi)
  /\ front_modi' = {}
  /\ notify_flag' = FALSE
  /\ co_pc' = "sleep"
  /\ UNCHANGED <<front_conns, cached_conns, pending_to_remove, current_conns_cnt,
                 connVars, co_todo, conn, coOthers, manageVars, fault>>

CoWorkerStep ==
  \/ WheelTick \/ WheelLock \/ WheelStats \/ WheelShut \/ WheelError
  \/ WheelPush \/ WheelNotify \/ WheelRotate
==============================================================================
