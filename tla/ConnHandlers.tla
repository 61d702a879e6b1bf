----------------------------- MODULE ConnHandlers -----------------------------
(***************************************************************************)
(* The asynchronous handlers of front_conn (front_conn.cpp) as the pool    *)
(* threads run them.  The strand of the object runs one handler at a time. *)
(* What the request says and how it is answered is left out; what remains  *)
(* is which operation is started, which stats_ is set, and who is told     *)
(* that the connection is dead.                                            *)
(*                                                                         *)
(* handler[c]: "none"    no handler of c runs                              *)
(*             "serve"   a read succeeded, the request is being handled    *)
(*             "reply"   a reply is ready, do_write comes next             *)
(*             "start"   do_write returned, start() comes next             *)
(*             "rearm"   start() set conn_working, do_read_head comes next *)
(*             "push"    notify_conn_error set conn_error                  *)
(*             "notify"  push_to_remove returned, notify_one comes next    *)
(*             "leave"   the handler returns and drops its reference       *)
(***************************************************************************)
EXTENDS ConnState

set_stats(c, s) == stats' = [stats EXCEPT ![c] = s]

\* do_read_head and do_read_body start a read only while conn_working.
do_read(c) ==
  IF stats[c] = "working"
  THEN /\ read_op' = [read_op EXCEPT ![c] = "armed"]
       /\ overdue' = [overdue EXCEPT ![c] = FALSE]
  ELSE UNCHANGED <<read_op, overdue>>

\* p_sock_->cancel(): an outstanding read is aborted unless it had already
\* completed and its handler is queued.  Writes that are aborted end in
\* WriteDone, whose handler does nothing for operation_aborted.
cancel_read(c) ==
  \/ UNCHANGED read_op
  \/ /\ read_op[c] = "armed"
     /\ read_op' = [read_op EXCEPT ![c] = "aborted"]

\* Mutant: the object is pushed and its stats_ is left alone.
fail_KeepStats(c) ==
  /\ UNCHANGED stats
  /\ handler' = [handler EXCEPT ![c] = "push"]

\* An error other than operation_aborted: the socket is shut down, and
\* notify_conn_error sets conn_error before it pushes the object.
fail(c) ==
  /\ set_stats(c, "error")
  /\ handler' = [handler EXCEPT ![c] = "push"]

------------------------------------------------------------------------------
\* read_head_handler or read_body_handler is called without an error.
ReadServe(c) ==
  /\ handler[c] = "none"
  /\ read_op[c] = "armed"
  /\ write_ops[c] < MaxWrites
  /\ read_op' = [read_op EXCEPT ![c] = "none"]
  /\ handler' = [handler EXCEPT ![c] = "serve"]
  /\ UNCHANGED <<registryVars, connVars, write_ops, acceptVars, manageVars, coVars, fault>>

\* More of the body is needed: do_read_body, and the handler returns.
MoreBody(c) ==
  /\ handler[c] = "serve"
  /\ do_read(c)
  /\ handler' = [handler EXCEPT ![c] = "none"]
  /\ UNCHANGED <<registryVars, stats, p_sock, write_ops, acceptVars, manageVars, coVars, fault>>

\* read_body_handler called with no byte (an empty body) takes the error path.
EmptyBody(c) ==
  /\ handler[c] = "serve"
  /\ fail(c)
  /\ UNCHANGED <<registryVars, p_sock, overdue, read_op, write_ops, acceptVars,
                 manageVars, coVars, fault>>

\* The read was cancelled: both handlers fall through to error_return.
ReadAborted(c) ==
  /\ handler[c] = "none"
  /\ read_op[c] = "aborted"
  /\ write_ops[c] < MaxWrites
  /\ read_op' = [read_op EXCEPT ![c] = "none"]
  /\ handler' = [handler EXCEPT ![c] = "reply"]
  /\ UNCHANGED <<registryVars, connVars, write_ops, acceptVars, manageVars, coVars, fault>>

\* write_return: do_write starts a write only while conn_working.
Reply(c) ==
  /\ handler[c] \in {"serve", "reply"}
  /\ IF stats[c] = "working"
     THEN /\ write_ops' = [write_ops EXCEPT ![c] = @ + 1]
          /\ overdue' = [overdue EXCEPT ![c] = FALSE]
     ELSE UNCHANGED <<write_ops, overdue>>
  /\ handler' = [handler EXCEPT ![c] = "start"]
  /\ UNCHANGED <<registryVars, stats, p_sock, read_op, acceptVars, manageVars, coVars, fault>>

\* start() after the reply: conn_working again, whatever stats_ was.
Start(c) ==
  /\ handler[c] = "start"
  /\ set_stats(c, "working")
  /\ handler' = [handler EXCEPT ![c] = "rearm"]
  /\ UNCHANGED <<registryVars, p_sock, overdue, read_op, write_ops, acceptVars,
                 manageVars, coVars, fault>>

\* do_read_head at the end of start(), and the handler returns.
Rearm(c) ==
  /\ handler[c] = "rearm"
  /\ do_read(c)
  /\ handler' = [handler EXCEPT ![c] = "none"]
  /\ UNCHANGED <<registryVars, stats, p_sock, write_ops, acceptVars, manageVars, coVars, fault>>

\* A read ends with an error other than operation_aborted (peer gone, or the
\* socket was shut down): shutdown_receive, cancel, notify_conn_error.
ReadFail(c) ==
  /\ handler[c] = "none"
  /\ read_op[c] = "armed"
  /\ read_op' = [read_op EXCEPT ![c] = "none"]
  /\ fail(c)
  /\ UNCHANGED <<registryVars, p_sock, overdue, write_ops, acceptVars, manageVars, coVars, fault>>

\* A write completed or was aborted.  start() has reset w_size_ before the
\* strand runs this handler, so it never has a remainder to send (FrontConn).
WriteDone(c) ==
  /\ handler[c] = "none"
  /\ write_ops[c] > 0
  /\ write_ops' = [write_ops EXCEPT ![c] = @ - 1]
  /\ UNCHANGED <<registryVars, connVars, read_op, handler, acceptVars,
                 manageVars, coVars, fault>>

\* A write failed: shutdown_send, cancel, notify_conn_error.
WriteFail(c) ==
  /\ handler[c] = "none"
  /\ write_ops[c] > 0
  /\ write_ops' = [write_ops EXCEPT ![c] = @ - 1]
  /\ cancel_read(c)
  /\ fail(c)
  /\ UNCHANGED <<registryVars, p_sock, overdue, acceptVars, manageVars, coVars, fault>>

------------------------------------------------------------------------------
\* notify_conn_error, second half: push, notify, return.
PushError(c) ==
  /\ handler[c] = "push"
  /\ push_to_remove(c)
  /\ handler' = [handler EXCEPT ![c] = "notify"]
  /\ UNCHANGED <<connVars, read_op, write_ops, acceptVars, manageVars, coVars, fault>>

NotifyError(c) ==
  /\ handler[c] = "notify"
  /\ notify_one
  /\ handler' = [handler EXCEPT ![c] = "leave"]
  /\ UNCHANGED <<registryVars, connVars, read_op, write_ops, acceptVars, coVars, fault>>

Leave(c) ==
  /\ handler[c] = "leave"
  /\ handler' = [handler EXCEPT ![c] = "none"]
  /\ UNCHANGED <<registryVars, connVars, read_op, write_ops, acceptVars,
                 manageVars, coVars, fault>>

\* The request handling ends the process: the assertion of read_head_handler
\* (front_conn.cpp:156) or an exception of redirect_to_win's write_some.
ServeThrow(c) ==
  /\ handler[c] = "serve"
  /\ Crash("serve")

\* The clock passes touch_time_ + expired - spare.  Only where the wheel may
\* look at it: it skips the cached objects, and reuse touches them.
GrowOverdue(c) ==
  /\ c \in front_conns \/ conn = c
  /\ ~overdue[c]
  /\ overdue' = [overdue EXCEPT ![c] = TRUE]
  /\ UNCHANGED <<registryVars, stats, p_sock, ioVars, acceptVars, manageVars, coVars, fault>>

\* The handlers that asio starts when an operation of c completes ...
Completion(c) ==
  /\ ThreadFree
  /\ \/ ReadServe(c) \/ ReadAborted(c) \/ ReadFail(c) \/ WriteDone(c)
     \/ WriteFail(c)

\* ... and the steps of a handler that already runs.
HandlerStep(c) ==
  \/ MoreBody(c) \/ EmptyBody(c) \/ Reply(c) \/ Start(c) \/ Rearm(c)
  \/ PushError(c) \/ NotifyError(c) \/ Leave(c)
==============================================================================
