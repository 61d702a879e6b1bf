------------------------------- MODULE ConnPool -------------------------------
(***************************************************************************)
(* The connection pool of ailawd: the accept chain, the handlers of every  *)
(* connection, the co_worker thread and the manage thread over the shared  *)
(* state of ConnState.                                                     *)
(***************************************************************************)
EXTENDS Acceptor, Manage, CoWorker

Init == Blank /\ fault = "none"

\* What the outside world does: clients, the network, the clock.
Environment ==
  \/ Accept \/ AcceptError \/ AcceptThrow
  \/ ManageTimeout \/ ManageSpurious
  \/ \E c \in Conn : Completion(c) \/ GrowOverdue(c) \/ ServeThrow(c)

\* A process that has ended takes no step.
Ended == fault # "none" /\ UNCHANGED vars

Next ==
  \/ Environment
  \/ AcceptHandlerStep
  \/ ManageStep
  \/ CoWorkerStep
  \/ \E c \in Conn : HandlerStep(c)
  \/ Ended

Spec == Init /\ [][Next]_vars

------------------------------------------------------------------------------
TypeOK ==
  /\ front_conns \subseteq Conn
  /\ cached_conns \in Seq(Conn)
  /\ pending_to_remove \subseteq Conn
  /\ timing_wheel \in [1..WheelSize -> SUBSET Conn]
  /\ current_conns_cnt \in Int
  /\ stats \in [Conn -> {"working", "pending", "error"}]
  /\ p_sock \in [Conn -> {"null", "open", "shut"}]
  /\ overdue \in [Conn -> BOOLEAN]
  /\ read_op \in [Conn -> {"none", "armed", "aborted"}]
  /\ write_ops \in [Conn -> Nat]
  /\ handler \in [Conn -> {"none", "serve", "reply", "start", "rearm", "push",
                           "notify", "leave"}]
  /\ accept_pc \in {"armed", "insert", "reject", "start", "read", "rearm", "stopped",
                   "ended"}
  /\ new_c \in Conn \cup {NULL}
  /\ manage_pc \in {"lock", "wait", "woken", "timedout", "scan", "erase", "wash",
                    "cache", "ended"}
  /\ manage_todo \subseteq Conn
  /\ item \in Conn \cup {NULL}
  /\ co_pc \in {"sleep", "scan", "stats", "shut", "error", "push", "rotate",
               "ended"}
  /\ co_todo \subseteq Conn
  /\ front_modi \subseteq Conn
  /\ conn \in Conn \cup {NULL}
  /\ notify_flag \in BOOLEAN
  /\ fault \in {"none", "remote_endpoint", "serve", "SoleOwner", "PendingNotCached",
                "NullSocket", "WashWorking", "CountMismatch"}

------------------------------------------------------------------------------
(* Safety.                                                                 *)

\* A read outstanding, a handler running or the accept handler at work.
Busy(c) == read_op[c] # "none" \/ handler[c] # "none" \/ new_c = c

\* Nothing of the object is in use by the pool threads or by asio.
Quiet(c) == ~Busy(c) /\ write_ops[c] = 0

\* An object is washed and recycled only after its last use: neither one that
\* manage_thread has taken out nor one in cached_conns_ has an operation or a
\* handler left, although use_count() is compared with 3 without any lock that
\* the handlers take (manage.cpp:148-173).
RecycledIsQuiet ==
  \A c \in Conn : Cached(c) \/ item = c => Quiet(c)

\* Whoever may use p_sock_ without a test, an operation, a handler or start(),
\* finds it set: conn_wash_white resets it under nobody's feet
\* (front_conn.cpp:346, connection.hpp:61).
SocketWhileInUse ==
  \A c \in Conn : ~Quiet(c) => p_sock[c] # "null"

\* Where the wheel will look at c again: a bucket, or the copy of the bucket
\* that is being scanned.
InWheel(c) ==
  \/ \E i \in 2..WheelSize : c \in timing_wheel[i]
  \/ co_pc = "sleep" /\ c \in timing_wheel[1]
  \/ co_pc # "sleep" /\ c \in front_modi

\* co_worker has taken c out of the wheel and is about to push it.
Expiring(c) == conn = c /\ co_pc \in {"shut", "error", "push"}

\* No registered connection is ever forgotten: the wheel, the pending set or
\* the co_worker thread still has it ("or it would never be checked again",
\* manage.cpp:159).
NeverForgotten ==
  \A c \in front_conns : InWheel(c) \/ Expiring(c) \/ c \in pending_to_remove

\* A registered connection with no read, no handler and no accept handler left
\* is marked conn_error: none stays conn_working with nobody to serve it
\* (front_conn.cpp:67-71, 88-92 return without starting a read).
UnservedIsDead ==
  \A c \in front_conns : ~Busy(c) => stats[c] = "error"

\* The limit of set_max_serve_conns_cnt holds although accept_handler reads
\* the counter before it takes the lock (http_server.cpp:86, 118).
ServeLimit == Cardinality(front_conns) <= MaxServe

\* cached_conns_ holds an object once, never a registered one, and stays at
\* the 30% of http_server.hpp:97, rounded up.
CacheSound ==
  /\ \A i, j \in DOMAIN cached_conns : cached_conns[i] = cached_conns[j] => i = j
  /\ \A c \in front_conns : ~Cached(c)
  /\ cached_conns # <<>> => 10 * (Len(cached_conns) - 1) < 3 * MaxServe

\* The assertions of conn_wash_white (front_conn.cpp:336) and of manage_thread
\* (manage.cpp:178) never fail.
ManageAssertionsHold == fault \notin {"WashWorking", "CountMismatch"}

------------------------------------------------------------------------------
(* Liveness.  Fair: every thread runs, and a thread that waits for a mutex *)
(* that is released again and again gets it.  Not fair: clients, wakeups   *)
(* without a notification, and the end of "serve", which may wait for the  *)
(* backend for ever (front_conn.cpp:478).                                  *)

Fairness ==
  /\ SF_vars(AcceptHandlerStep)
  /\ WF_vars(ManageStep)
  /\ WF_vars(ManageTimeout)
  /\ SF_vars(CoWorkerStep)
  /\ \A c \in Conn : SF_vars(handler[c] # "serve" /\ HandlerStep(c))

FairSpec == Spec /\ Fairness

\* If the manage thread is woken again and again, every object pushed into
\* pending_to_remove_ is taken out again (manage.cpp:133-177).
PendingIsProcessed ==
  []<>(manage_pc = "woken") =>
    \A c \in Conn : c \in pending_to_remove ~> c \notin pending_to_remove

\* A registered connection that stays overdue is handed to the manage thread,
\* whatever happened to its wheel entry before (co_worker.cpp:70-84).
OverdueIsPushed ==
  \A c \in Conn :
    [](c \in front_conns /\ overdue[c] => <>(c \in pending_to_remove
                                             \/ c \notin front_conns \/ ~overdue[c]))

\* Once started, accept_handler always gets to the next do_accept or ends the
\* process; only an accept error stops the chain (http_server.cpp:75-127).
AcceptGoesOn ==
  accept_pc \notin {"armed", "stopped"} ~> accept_pc \in {"armed", "ended"}

------------------------------------------------------------------------------
(* What the code says of itself and the runs refute.                       *)

\* co_worker.cpp:63: an object that is conn_pending is in cached_conns_.
PendingIsCached == fault # "PendingNotCached"

\* http_server.cpp:108: the object taken from cached_conns_ has one owner.  Where it
\* has two, co_worker may also meet the reset p_sock_ (WheelShut).
CachedHasSoleOwner == fault # "SoleOwner"

\* http_server.hpp:48: pending_to_remove_ is the condition that is waited for,
\* so what is pushed there is processed.
PushedIsProcessed ==
  \A c \in Conn : c \in pending_to_remove ~> c \notin pending_to_remove
==============================================================================
