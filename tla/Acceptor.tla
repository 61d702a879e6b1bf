------------------------------- MODULE Acceptor -------------------------------
(***************************************************************************)
(* http_server::do_accept and http_server::accept_handler                  *)
(* (http_server.cpp:67-127).  One async_accept is outstanding at a time:   *)
(* the handler starts the next one when it is done.                        *)
(*                                                                         *)
(* accept_pc: "armed"   async_accept is outstanding                        *)
(*            "insert"  the limit allows the client, the lock comes next   *)
(*            "reject"  the limit is reached, the socket is closed         *)
(*            "start"   registered, new_c->start() comes next              *)
(*            "read"    start() set conn_working, do_read_head comes next  *)
(*            "rearm"   do_accept and the end of the handler come next     *)
(*            "stopped" accept_handler returned without do_accept          *)
(***************************************************************************)
EXTENDS ConnHandlers

\* Mutant: one client too many.
AtLimit_OneMore == current_conns_cnt > MaxServe

AtLimit == current_conns_cnt >= MaxServe

\* The handler runs without an error: current_conns_cnt_ is read with no lock.
Accept ==
  /\ accept_pc = "armed"
  /\ ThreadFree
  /\ accept_pc' = IF AtLimit THEN "reject" ELSE "insert"
  /\ UNCHANGED <<registryVars, connVars, ioVars, new_c, manageVars, coVars, fault>>

\* accept_handler gets an error: it returns and starts no other accept.
AcceptError ==
  /\ accept_pc = "armed"
  /\ ThreadFree
  /\ accept_pc' = "stopped"
  /\ UNCHANGED <<registryVars, connVars, ioVars, new_c, manageVars, coVars, fault>>

\* remote_endpoint() throws when the client is already gone; nothing catches
\* it in the pool thread.
AcceptThrow ==
  /\ accept_pc = "armed"
  /\ ThreadFree
  /\ Crash("remote_endpoint")

\* Mutant: the rejection forgets do_accept.
Reject_NoAccept ==
  /\ accept_pc = "reject"
  /\ accept_pc' = "stopped"
  /\ UNCHANGED <<registryVars, connVars, ioVars, new_c, manageVars, coVars, fault>>

\* Over the limit: close the socket and do_accept.
Reject ==
  /\ accept_pc = "reject"
  /\ accept_pc' = "armed"
  /\ UNCHANGED <<registryVars, connVars, ioVars, new_c, manageVars, coVars, fault>>

\* The object c gets the socket: front_conns_, the counter and the back bucket.
register(c) ==
  /\ front_conns' = front_conns \cup {c}
  /\ current_conns_cnt' = current_conns_cnt + 1
  /\ back_insert(c)
  /\ p_sock' = [p_sock EXCEPT ![c] = "open"]
  /\ overdue' = [overdue EXCEPT ![c] = FALSE]
  /\ new_c' = c
  /\ accept_pc' = "start"
  /\ UNCHANGED <<pending_to_remove, ioVars, manageVars, coVars, fault>>

\* A recycled object is taken, if the cache has one; nobody else may own it.
InsertCached ==
  /\ accept_pc = "insert"
  /\ front_conns_mutex_free
  /\ cached_conns # <<>>
  /\ LET c == Head(cached_conns) IN
       IF use_count(c) = 1
       THEN /\ cached_conns' = Tail(cached_conns)
            /\ register(c)
            /\ UNCHANGED stats
       ELSE Crash("SoleOwner")

\* Otherwise make_shared<front_conn> builds one: conn_pending, no operation.
InsertFresh ==
  /\ accept_pc = "insert"
  /\ front_conns_mutex_free
  /\ cached_conns = <<>>
  /\ \E c \in Conn :
       /\ Fresh(c)
       /\ register(c)
       /\ set_stats(c, "pending")
       /\ UNCHANGED cached_conns

\* new_c->start(), with no lock held.
StartNew ==
  /\ accept_pc = "start"
  /\ set_stats(new_c, "working")
  /\ accept_pc' = "read"
  /\ UNCHANGED <<registryVars, p_sock, overdue, ioVars, new_c, manageVars, coVars, fault>>

ReadNew ==
  /\ accept_pc = "read"
  /\ do_read(new_c)
  /\ accept_pc' = "rearm"
  /\ UNCHANGED <<registryVars, stats, p_sock, write_ops, handler, new_c, manageVars,
                 coVars, fault>>

\* do_accept, and new_c goes out of scope.
AcceptAgain ==
  /\ accept_pc = "rearm"
  /\ accept_pc' = "armed"
  /\ new_c' = NULL
  /\ UNCHANGED <<registryVars, connVars, ioVars, manageVars, coVars, fault>>

AcceptHandlerStep ==
  Reject \/ InsertCached \/ InsertFresh \/ StartNew \/ ReadNew \/ AcceptAgain
==============================================================================
