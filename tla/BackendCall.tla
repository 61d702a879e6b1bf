----------------------------- MODULE BackendCall -----------------------------
(***************************************************************************)
(* One call of the backend: front_conn::redirect_to_win                    *)
(* (front_conn.cpp:444-492) with sync_timed_connect and sync_read_from     *)
(* (client_ops.cpp:9-85), and co_worker::timed_cancel_socket               *)
(* (co_worker.cpp:31-46), which the co_worker thread runs when the connect *)
(* timer expires.  The backend follows the convention of                   *)
(* client_ops.hpp:26-27, length + ':' + entity, and may break at any time. *)
(* Data is counted: what matters of a byte is its position in the answer.  *)
(*                                                                         *)
(* pc: "connect" in sock.connect      "leave" connect is done, the timer   *)
(*     goes out of scope   "write" in write_some   "head" first read_some  *)
(*     "body" in the loop of sync_read_from   "return" redirect_to_win is  *)
(*     about to return   "done" it has returned, its socket is destroyed   *)
(*     "ended" write_some threw, which ends the process                    *)
(***************************************************************************)
EXTENDS Integers

CONSTANTS
  HeadLens,  \* lengths of "digits:" the backend may send
  BodyLens,  \* lengths of the entity it may send
  BufSize,   \* read_buff's initial size (32*1024)
  Slack,     \* what resize adds to the length (256)
  Window     \* the search for ':' looks at this many bytes (20)

ASSUME LensAssumption ==
  /\ HeadLens \subseteq 2..Window
  /\ BodyLens \subseteq Nat \ {0}
ASSUME BufAssumption ==
  /\ BufSize \in Nat /\ Window \in Nat /\ BufSize > Window
  /\ Slack \in Nat

VARIABLES
  pc, head_len, body_len,      \* the call, and what the backend will answer
  sock,      \* "new", "open", "shut" or "destroyed"
  late,      \* the deadline of the connect timer has passed
  timer,     \* "armed"; "queued" or "aborted": the callback is due, without or
             \* with operation_aborted; "fired" or "quiet": it has run
  touched,   \* the callback has used the socket after its destruction
  sent,      \* bytes the backend has sent
  peer,      \* "open", "silent" (answers nothing), "closed" or "reset"
  taken,     \* bytes read from the socket
  size,      \* read_buff.size()
  actual_len, real_len,  \* locals of sync_read_from
  ec,        \* the last operation ended with an error
  result     \* the length redirect_to_win reports; 0 stands for false

peerVars == <<sent, peer>>
readVars == <<taken, size, actual_len, real_len>>
timerVars == <<late, timer, touched>>
vars == <<pc, head_len, body_len, sock, timerVars, peerVars, readVars, ec, result>>

total == head_len + body_len

Init ==
  /\ pc = "connect" /\ sock = "new"
  /\ head_len \in HeadLens /\ body_len \in BodyLens
  /\ late = FALSE /\ timer = "armed" /\ touched = FALSE
  /\ sent = 0 /\ peer \in {"open", "silent"}
  /\ taken = 0 /\ size = BufSize /\ actual_len = 0 /\ real_len = 0
  /\ ec = FALSE /\ result = 0

------------------------------------------------------------------------------
(* The pool thread.                                                        *)

\* sock.connect, which has opened the socket and blocks, returns: connected, or
\* refused, or shut down by the callback.
Connect ==
  /\ pc = "connect"
  /\ \/ sock = "new" /\ peer = "open" /\ sock' = "open" /\ UNCHANGED ec
     \/ (peer \in {"closed", "reset"} \/ sock = "shut") /\ ec' = TRUE /\ UNCHANGED sock
  /\ pc' = "leave"
  /\ UNCHANGED <<head_len, body_len, timerVars, peerVars, readVars, result>>

\* The end of sync_timed_connect, and redirect_to_win's test of the error:
\* cancel(), or else the destructor of the timer, aborts a wait that has not
\* expired; a callback that is already queued stays queued.
LeaveConnect ==
  /\ pc = "leave"
  /\ timer' = IF timer = "armed" THEN "aborted" ELSE timer
  /\ pc' = IF ec THEN "return" ELSE "write"
  /\ UNCHANGED <<head_len, body_len, sock, late, touched, peerVars, readVars, ec, result>>

\* write_some has no error_code: it throws if the socket is shut or reset.  It may
\* take only a part of the request, which nobody notices: the backend then waits
\* for the rest and answers nothing.
Write ==
  /\ pc = "write"
  /\ IF sock = "shut" \/ peer = "reset"
     THEN pc' = "ended" /\ ec' = TRUE /\ UNCHANGED peer
     ELSE /\ pc' = "head"
          /\ peer' \in {peer} \cup (IF peer = "open" THEN {"silent"} ELSE {})
          /\ UNCHANGED ec
  /\ UNCHANGED <<head_len, body_len, sock, timerVars, sent, readVars, result>>

\* What one read_some may return: at least one byte of what has arrived and
\* fits into room bytes of buffer.
Readable(room) == {n \in 1..(sent - taken) : n <= room /\ peer # "reset"}

\* read_some reports an error or the end of the stream.
ReadBroken == sock = "shut" \/ peer = "reset" \/ (peer = "closed" /\ taken = sent)

\* The function returns len to redirect_to_win.
return(len) == pc' = "return" /\ result' = len

\* Mutant: a head without ':' is taken for a whole one.
no_colon_Never(n) == FALSE

\* The first read has got only a part of the head.
no_colon(n) == n < head_len

\* Mutant: the buffer is compared as it was before the erase.
relarged_Late == IF body_len > size THEN body_len + Slack ELSE size - head_len

\* read_buff.size() after the head is erased and the buffer enlarged.
relarged ==
  IF body_len > size - head_len THEN body_len + Slack ELSE size - head_len

\* The first read: an error, no ':' among the bytes read, or the length of the
\* entity.  The head is erased and the buffer enlarged if needed.
ReadHead ==
  /\ pc = "head"
  /\ \/ /\ ReadBroken
        /\ ec' = TRUE
        /\ return(0)
        /\ UNCHANGED readVars
     \/ \E n \in Readable(size) :
          /\ taken' = taken + n
          /\ IF no_colon(n)
             THEN return(0) /\ UNCHANGED <<size, actual_len, real_len>>
             ELSE /\ real_len' = body_len
                  /\ size' = relarged
                  /\ actual_len' = n - head_len
                  /\ pc' = "body"
                  /\ UNCHANGED result
          /\ UNCHANGED ec
  /\ UNCHANGED <<head_len, body_len, sock, timerVars, peerVars>>

\* Mutant: the bytes of the head are counted with the entity.
got_all_WithHead == actual_len + head_len >= real_len

\* Mutant: the comparison is strict.
got_all_More == actual_len > real_len

got_all == actual_len >= real_len

\* The loop: an error returns what has been read; enough bytes end it.
ReadBody ==
  /\ pc = "body"
  /\ \/ /\ got_all
        /\ return(actual_len)
        /\ UNCHANGED <<readVars, ec>>
     \/ /\ ~got_all
        /\ ReadBroken
        /\ ec' = TRUE
        /\ return(actual_len)
        /\ UNCHANGED readVars
     \/ /\ ~got_all
        /\ \E n \in Readable(size - actual_len) :
             /\ taken' = taken + n
             /\ actual_len' = actual_len + n
        /\ UNCHANGED <<pc, size, real_len, ec, result>>
  /\ UNCHANGED <<head_len, body_len, sock, timerVars, peerVars>>

\* redirect_to_win returns; its local socket is destroyed.
Return ==
  /\ pc = "return"
  /\ pc' = "done"
  /\ sock' = "destroyed"
  /\ UNCHANGED <<head_len, body_len, timerVars, peerVars, readVars, ec, result>>

------------------------------------------------------------------------------
(* The clock, the co_worker thread and the backend.                        *)

DeadlinePasses ==
  /\ ~late
  /\ late' = TRUE
  /\ UNCHANGED <<pc, head_len, body_len, sock, timer, touched, peerVars, readVars, ec, result>>

\* The io_service of co_worker finds the timer expired and queues the callback.
TimerExpires ==
  /\ pc # "ended"
  /\ late /\ timer = "armed"
  /\ timer' = "queued"
  /\ UNCHANGED <<pc, head_len, body_len, sock, late, touched, peerVars, readVars, ec, result>>

\* Mutants: the test of operation_aborted is missing or inverted.
acts_Always == TRUE
acts_Inverted == timer = "aborted"

\* timed_cancel_socket returns early for operation_aborted.
acts == timer = "queued"

\* timed_cancel_socket: shutdown through the pointer that the caller has bound.
timed_cancel_socket ==
  /\ pc # "ended"
  /\ timer \in {"queued", "aborted"}
  /\ timer' = IF timer = "queued" THEN "fired" ELSE "quiet"
  /\ touched' = (touched \/ (acts /\ sock = "destroyed"))
  /\ sock' = IF acts /\ sock # "destroyed" THEN "shut" ELSE sock
  /\ UNCHANGED <<pc, head_len, body_len, late, peerVars, readVars, ec, result>>

\* The backend sends some more of its answer once it has the request.
PeerSends ==
  /\ peer = "open" /\ pc \in {"head", "body"}
  /\ \E n \in 1..(total - sent) : sent' = sent + n
  /\ UNCHANGED <<pc, head_len, body_len, sock, timerVars, peer, readVars, ec, result>>

\* The backend closes, having sent all or not, or the connection is reset.
PeerBreaks ==
  /\ peer \in {"open", "silent"}
  /\ peer' \in {"closed", "reset"}
  /\ UNCHANGED <<pc, head_len, body_len, sock, timerVars, sent, readVars, ec, result>>

Ended == pc \in {"done", "ended"} /\ UNCHANGED vars

CallStep ==
  Connect \/ LeaveConnect \/ Write \/ ReadHead \/ ReadBody \/ Return

Next ==
  \/ CallStep
  \/ DeadlinePasses \/ TimerExpires \/ timed_cancel_socket
  \/ PeerSends \/ PeerBreaks
  \/ Ended

Spec == Init /\ [][Next]_vars

\* Time passes and both threads run; the backend owes nothing.
FairSpec ==
  Spec /\ WF_vars(CallStep) /\ WF_vars(DeadlinePasses) /\ WF_vars(TimerExpires)
       /\ WF_vars(timed_cancel_socket)
------------------------------------------------------------------------------
TypeOK ==
  /\ pc \in {"connect", "leave", "write", "head", "body", "return", "done", "ended"}
  /\ head_len \in HeadLens /\ body_len \in BodyLens
  /\ sock \in {"new", "open", "shut", "destroyed"}
  /\ late \in BOOLEAN /\ touched \in BOOLEAN /\ ec \in BOOLEAN
  /\ timer \in {"armed", "queued", "aborted", "fired", "quiet"}
  /\ sent \in Nat /\ taken \in Nat /\ size \in Nat /\ actual_len \in Nat
  /\ real_len \in Nat /\ result \in Nat
  /\ peer \in {"open", "silent", "closed", "reset"}

\* Every pass of the loop reads into free room: read_some is never given an
\* empty buffer, whose 0 bytes would be taken for the end of the answer, nor a
\* size_t that has wrapped (client_ops.cpp:64-75).
RoomLeft == pc = "body" /\ actual_len < real_len => actual_len < size

\* Without an error the length that is returned is 0 or the length of the whole
\* entity, however the answer was cut into reads (client_ops.cpp:61-84).
WholeUnlessBroken ==
  pc \in {"return", "done"} /\ ~ec => result \in {0, body_len}

\* A call whose timer was cancelled keeps its socket: the callback neither shuts
\* it down nor uses it after its destruction (co_worker.cpp:36-43).
InTimeIsSafe == timer \in {"aborted", "quiet"} => sock # "shut" /\ ~touched

\* sync_timed_connect always comes back, also from a host that never answers
\* (client_ops.cpp:19-25, front_conn.cpp:464-471).
ConnectReturns == pc = "connect" ~> pc # "connect"

\* A backend that has sent its whole answer is enough to end the call, also if it
\* leaves the connection open: the loop never waits for a byte that will not come
\* (client_ops.cpp:61-84, front_conn.cpp:478).
CallEnds == pc \in {"head", "body"} /\ sent = total ~> pc \notin {"head", "body"}

------------------------------------------------------------------------------
(* What the caller sees of the call.                                       *)

call_stage == IF pc \in {"done", "ended"} THEN pc ELSE "calling"

call_outcome ==
  IF pc # "done" THEN "none"
  ELSE IF result = 0 THEN "error" ELSE IF result = body_len THEN "whole" ELSE "cut"

Outcome == INSTANCE CallOutcome WITH stage <- call_stage, failed <- ec, outcome <- call_outcome

\* The threads, the timer and the backend together are one call: it gives one answer,
\* once, and neither less nor more than the entity unless the connection has failed
\* (front_conn.cpp:464-491, client_ops.cpp:9-85).
OutcomeSpec == Outcome!Spec

------------------------------------------------------------------------------
(* What a comment says and a run refutes.                                 *)

\* client_ops.cpp:34: the result 0 stands for an error.
ErrorReturnsZero == pc = "return" /\ ec => result = 0
==============================================================================
