------------------------------ MODULE ConnPoolInv ------------------------------
(***************************************************************************)
(* The inductive invariant of ConnPool: the safety properties of ConnPool  *)
(* and what must hold between the threads for them to be preserved.        *)
(* ConnPoolProofs proves that every step preserves IInv.                   *)
(***************************************************************************)
EXTENDS ConnPool

\* Each thread's local pointer is set exactly where the thread uses it.
LocalsHeld ==
  /\ item # NULL <=> manage_pc \in {"erase", "wash", "cache"}
  /\ new_c # NULL <=> accept_pc \in {"start", "read", "rearm"}
  /\ conn # NULL <=> co_pc \in {"stats", "shut", "error", "push"}

\* What manage_thread has taken out of the map: still dead, not yet cached.
ItemIsDead ==
  item # NULL =>
    /\ ~Cached(item)
    /\ manage_pc \in {"erase", "wash"} => stats[item] = "error"
    /\ manage_pc = "erase" => item \in front_conns
    /\ manage_pc \in {"wash", "cache"} => item \notin front_conns /\ CacheHasRoom

\* Whatever is in use is registered.
UsedIsRegistered == \A c \in Conn : ~Quiet(c) => c \in front_conns

\* Until do_read_head of start(), asio knows nothing of the new connection.
NewIsIdle ==
  accept_pc \in {"start", "read"} =>
    read_op[new_c] = "none" /\ handler[new_c] = "none" /\ write_ops[new_c] = 0

\* stats_ of a registered object: pending only until start(), error once the
\* error was seen, and error if nobody serves it.
StatsFollow ==
  \A c \in front_conns :
    /\ stats[c] = "pending" => accept_pc = "start" /\ new_c = c
    /\ handler[c] \in {"push", "notify", "leave"} => stats[c] = "error"
    /\ read_op[c] = "none" /\ handler[c] = "none" =>
         \/ stats[c] = "error"
         \/ accept_pc \in {"start", "read"} /\ new_c = c

\* While manage_thread scans, the set it iterates over does not change, and a
\* registered object that the loop has passed is in the last bucket.
ScanIsSound ==
  ManageHoldsLocks =>
    /\ manage_todo \subseteq pending_to_remove
    /\ \A c \in (pending_to_remove \ manage_todo) \cap front_conns :
         c = item \/ c \in timing_wheel[WheelSize]

\* The counter equals the size of the map, and the accept handler that has
\* passed the test still has room.
CountIsRight ==
  /\ current_conns_cnt = Cardinality(front_conns)
  /\ current_conns_cnt <= MaxServe
  /\ accept_pc = "insert" => current_conns_cnt < MaxServe

\* All of it: the steps of four kinds of thread preserve this together, none of
\* the safety properties alone (http_server.cpp, manage.cpp, co_worker.cpp).
IInv ==
  /\ TypeOK
  /\ LocalsHeld
  /\ RecycledIsQuiet
  /\ SocketWhileInUse
  /\ CacheSound
  /\ ItemIsDead
  /\ UsedIsRegistered
  /\ NewIsIdle
  /\ StatsFollow
  /\ ScanIsSound
  /\ NeverForgotten
  /\ CountIsRight
  /\ ManageAssertionsHold

------------------------------------------------------------------------------
(* The abstract registry that ConnPool implements.                         *)

cache_now == {c \in Conn : Cached(c)}
used_now == {c \in Conn : ~Quiet(c)}

Registry ==
  INSTANCE ConnRegistry WITH live <- front_conns, cache <- cache_now, used <- used_now

\* Every step of the threads is a step of the abstract registry or changes
\* nothing there (http_server.cpp:99-121, manage.cpp:151-178).
RegistrySpec == Registry!Spec
==============================================================================
