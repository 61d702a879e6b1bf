------------------------------ MODULE ConnState ------------------------------
(***************************************************************************)
(* The state that the threads of ailawd share: the connection registry of  *)
(* http_server (http_server.hpp), the fields of every front_conn object    *)
(* (connection.hpp, front_conn.hpp) and the program counters of the three  *)
(* kinds of thread (main.cpp): the io_service pool, the co_worker thread   *)
(* and the manage thread.  The operators below are what several threads    *)
(* use; the actions of each thread are in Acceptor, ConnHandlers, Manage   *)
(* and CoWorker, and ConnPool composes them.                               *)
(*                                                                         *)
(* A front_conn object is a member of Conn.  It is alive while a           *)
(* boost::shared_ptr to it exists, so use_count is computed from the       *)
(* places that hold one.  weak_ptrs (the timing wheel) do not count.       *)
(***************************************************************************)
EXTENDS Integers, Sequences, FiniteSets

CONSTANTS
  Conn,        \* identities of front_conn objects (a bound: the heap has more)
  NULL,        \* the empty shared_ptr
  WheelSize,   \* timing_wheel_.capacity()
  MaxServe,    \* max_serve_conns_cnt_
  PoolThreads, \* concurr_sz_: threads that run the io_service
  MaxWrites    \* bound on the async_writes outstanding on one connection;
               \* with 0 no request completes

ASSUME ConnAssumption == IsFiniteSet(Conn) /\ NULL \notin Conn
ASSUME WheelAssumption == WheelSize \in Nat /\ WheelSize >= 2
ASSUME ServeAssumption == MaxServe \in Nat
ASSUME PoolAssumption == PoolThreads \in Nat /\ PoolThreads >= 1
ASSUME WritesAssumption == MaxWrites \in Nat

VARIABLES
  front_conns,        \* keys of http_server::front_conns_
  cached_conns,       \* http_server::cached_conns_, the recycled objects
  pending_to_remove,  \* http_server::pending_to_remove_
  timing_wheel,       \* sequence of buckets of weak_ptrs, [1] is the front
  current_conns_cnt,  \* http_server::current_conns_cnt_
  stats,              \* connection::stats_ of each object
  p_sock,             \* connection::p_sock_: reset, open or shut down
  overdue,            \* touch_time_ is older than expired - spare seconds
  read_op,            \* the async_read of the object that asio holds
  write_ops,          \* how many async_writes of the object asio holds
  handler,            \* where the object's running handler is
  accept_pc, new_c,             \* the accept chain and its local new_c
  manage_pc, manage_todo, item, \* manage_thread, its iterator, its local item
  co_pc, co_todo, front_modi, conn, notify_flag, \* timing_wheel_check's locals
  fault               \* why the process has ended, or "none"

registryVars == <<front_conns, cached_conns, pending_to_remove, timing_wheel,
                  current_conns_cnt>>
connVars     == <<stats, p_sock, overdue>>
ioVars       == <<read_op, write_ops, handler>>
acceptVars   == <<accept_pc, new_c>>
manageVars   == <<manage_pc, manage_todo, item>>
coVars       == <<co_pc, co_todo, front_modi, conn, notify_flag>>
vars == <<registryVars, connVars, ioVars, acceptVars, manageVars, coVars, fault>>

------------------------------------------------------------------------------
(* Pointers.                                                               *)

Cached(c) == \E i \in DOMAIN cached_conns : cached_conns[i] = c

Bit(b) == IF b THEN 1 ELSE 0

\* The locals of the three threads that may hold a shared_ptr to c.
LocalRefs(c) == Bit(new_c = c) + Bit(item = c) + Bit(conn = c)

\* Mutants of AsioRefs: operations or handlers bound to a bare pointer.
AsioRefs_NoWrites(c) == Bit(read_op[c] # "none") + Bit(handler[c] # "none")
AsioRefs_NoHandler(c) == Bit(read_op[c] # "none") + write_ops[c]

\* asio keeps the shared_from_this() bound into every outstanding operation,
\* and a running handler keeps its own copy until it returns.
AsioRefs(c) == Bit(read_op[c] # "none") + write_ops[c] + Bit(handler[c] # "none")

\* boost::shared_ptr::use_count of the object c.
use_count(c) ==
  Bit(c \in front_conns) + Bit(c \in pending_to_remove) + Bit(Cached(c))
    + LocalRefs(c) + AsioRefs(c)

\* An identity make_shared may return: no object and no weak_ptr uses it.
Fresh(c) ==
  /\ use_count(c) = 0
  /\ \A i \in DOMAIN timing_wheel : c \notin timing_wheel[i]
  /\ c \notin front_modi \cup co_todo

------------------------------------------------------------------------------
(* Threads.  A handler occupies a thread of the pool until it returns.     *)

BusyThreads ==
  Cardinality({c \in Conn : handler[c] # "none"})
    + Bit(accept_pc \notin {"armed", "stopped"})

ThreadFree == BusyThreads < PoolThreads

------------------------------------------------------------------------------
(* Locks.  Only the manage thread keeps conn_notify_mutex and              *)
(* front_conns_mutex_ over several steps (manage.cpp:132-183); everybody   *)
(* else takes one of them for a single action.                             *)

ManageHoldsLocks == manage_pc \in {"scan", "erase", "wash", "cache"}
conn_notify_mutex_free == ~ManageHoldsLocks
front_conns_mutex_free == ~ManageHoldsLocks

\* conn_notify.notify_one(): nothing is remembered when nobody waits.
notify_one ==
  /\ manage_pc' = IF manage_pc = "wait" THEN "woken" ELSE manage_pc
  /\ UNCHANGED <<manage_todo, item>>

\* http_server::push_to_remove, with conn_notify_mutex held.
push_to_remove(c) ==
  /\ conn_notify_mutex_free
  /\ pending_to_remove' = pending_to_remove \cup {c}
  /\ UNCHANGED <<front_conns, cached_conns, timing_wheel, current_conns_cnt>>

\* Mutant: the bucket that may be under scan instead of the last one.
back_insert_Front(c) ==
  timing_wheel' = [timing_wheel EXCEPT ![1] = @ \cup {c}]

\* timing_wheel_.back().insert(c)
back_insert(c) ==
  timing_wheel' = [timing_wheel EXCEPT ![WheelSize] = @ \cup {c}]

------------------------------------------------------------------------------
\* The memory of a process that has just started; http_server::run has filled
\* the wheel with empty buckets and the constructor has armed the first accept.
Blank ==
  /\ front_conns = {} /\ cached_conns = <<>> /\ pending_to_remove = {}
  /\ timing_wheel = [i \in 1..WheelSize |-> {}]
  /\ current_conns_cnt = 0
  /\ stats = [c \in Conn |-> "pending"]
  /\ p_sock = [c \in Conn |-> "null"]
  /\ overdue = [c \in Conn |-> FALSE]
  /\ read_op = [c \in Conn |-> "none"]
  /\ write_ops = [c \in Conn |-> 0]
  /\ handler = [c \in Conn |-> "none"]
  /\ accept_pc = "armed" /\ new_c = NULL
  /\ manage_pc = "lock" /\ manage_todo = {} /\ item = NULL
  /\ co_pc = "sleep" /\ co_todo = {} /\ front_modi = {} /\ conn = NULL
  /\ notify_flag = FALSE

\* An assertion fails, a null pointer is used or an exception leaves a thread:
\* the process ends and its memory with it; no thread is left to take a step.
Crash(why) ==
  /\ fault' = why
  /\ front_conns' = {} /\ cached_conns' = <<>> /\ pending_to_remove' = {}
  /\ timing_wheel' = [i \in 1..WheelSize |-> {}]
  /\ current_conns_cnt' = 0
  /\ stats' = [c \in Conn |-> "pending"]
  /\ p_sock' = [c \in Conn |-> "null"]
  /\ overdue' = [c \in Conn |-> FALSE]
  /\ read_op' = [c \in Conn |-> "none"]
  /\ write_ops' = [c \in Conn |-> 0]
  /\ handler' = [c \in Conn |-> "none"]
  /\ accept_pc' = "ended" /\ new_c' = NULL
  /\ manage_pc' = "ended" /\ manage_todo' = {} /\ item' = NULL
  /\ co_pc' = "ended" /\ co_todo' = {} /\ front_modi' = {} /\ conn' = NULL
  /\ notify_flag' = FALSE
==============================================================================
