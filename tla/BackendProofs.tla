----------------------------- MODULE BackendProofs -----------------------------
(***************************************************************************)
(* What one call of the backend never does, for every length of the head   *)
(* and of the entity and every way the answer is cut into reads.           *)
(***************************************************************************)
EXTENDS BackendCall, TLAPS

USE LensAssumption, BufAssumption
USE DEF peerVars, readVars, timerVars

\* Until the head has been read nothing has been taken from the socket.
BeforeHead ==
  pc \in {"connect", "leave", "write", "head"} =>
    taken = 0 /\ size = BufSize /\ result = 0

\* In the loop of sync_read_from actual_len counts the entity and nothing else,
\* and the buffer has room for all of it.
InBody ==
  pc = "body" =>
    /\ real_len = body_len /\ body_len <= size
    /\ actual_len + head_len = taken

\* Until the callback has acted the socket is as the call left it.
Unfired == timer # "fired" => sock # "shut" /\ ~touched

CallInv ==
  /\ TypeOK
  /\ sent <= total /\ taken <= sent
  /\ BeforeHead /\ InBody /\ WholeUnlessBroken /\ Unfired

\* The call begins.
LEMMA CallInit == Init => CallInv
<1> SUFFICES ASSUME Init
             PROVE  CallInv
  OBVIOUS
<1>1. TypeOK
  BY DEF Init, TypeOK
<1>2. sent <= total /\ taken <= sent
  BY DEF Init, total
<1> QED
  BY <1>1, <1>2 DEF Init, CallInv, BeforeHead, InBody, WholeUnlessBroken, Unfired

\* The lengths are numbers and the head fits into the window.
LEMMA Lengths ==
  ASSUME CallInv
  PROVE  /\ head_len \in Nat /\ 2 <= head_len /\ head_len <= Window
         /\ body_len \in Nat /\ 1 <= body_len
         /\ sent \in Nat /\ taken \in Nat /\ size \in Nat
         /\ actual_len \in Nat /\ real_len \in Nat
  BY DEF CallInv, TypeOK

\* The first read leaves room for the whole entity.
LEMMA HeadStep ==
  ASSUME CallInv, ReadHead
  PROVE  CallInv'
<1> USE DEF CallInv
<1>1. pc = "head" /\ taken = 0 /\ size = BufSize /\ result = 0
  BY DEF ReadHead, BeforeHead
<1>2. /\ head_len' = head_len /\ body_len' = body_len /\ sock' = sock
      /\ late' = late /\ timer' = timer /\ touched' = touched
      /\ sent' = sent /\ peer' = peer
  BY DEF ReadHead
<1>3. CASE ReadBroken /\ ec' = TRUE /\ return(0) /\ UNCHANGED readVars
  BY <1>1, <1>2, <1>3
     DEF return, TypeOK, total, BeforeHead, InBody, WholeUnlessBroken, Unfired
<1>4. ASSUME NEW n \in Readable(size), taken' = taken + n, UNCHANGED ec,
             no_colon(n), return(0), UNCHANGED <<size, actual_len, real_len>>
      PROVE  CallInv'
  <2>1. n \in Nat /\ taken' <= sent /\ taken' \in Nat
    BY <1>1, <1>4, Lengths DEF Readable
  <2> QED
    BY <1>1, <1>2, <1>4, <2>1
       DEF return, TypeOK, total, BeforeHead, InBody, WholeUnlessBroken, Unfired
<1>5. ASSUME NEW n \in Readable(size), taken' = taken + n, UNCHANGED ec,
             ~no_colon(n), real_len' = body_len, size' = relarged,
             actual_len' = n - head_len, pc' = "body", UNCHANGED result
      PROVE  CallInv'
  <2>1. n \in Nat /\ head_len <= n /\ taken' = n /\ taken' <= sent
    BY <1>1, <1>5, Lengths DEF Readable, no_colon
  <2>2. /\ actual_len' \in Nat /\ actual_len' + head_len = n
        /\ size' \in Nat /\ body_len <= size'
    BY <1>1, <1>5, <2>1, Lengths DEF relarged
  <2> QED
    BY <1>1, <1>2, <1>5, <2>1, <2>2
       DEF TypeOK, total, BeforeHead, InBody, WholeUnlessBroken, Unfired
<1> QED
  BY <1>3, <1>4, <1>5 DEF ReadHead

\* A pass of the loop; what ends it without an error is the whole entity.
LEMMA BodyStep ==
  ASSUME CallInv, ReadBody
  PROVE  CallInv'
<1> USE DEF CallInv
<1>1. /\ pc = "body" /\ real_len = body_len /\ body_len <= size
      /\ actual_len + head_len = taken
  BY DEF ReadBody, InBody
<1>2. /\ head_len' = head_len /\ body_len' = body_len /\ sock' = sock
      /\ late' = late /\ timer' = timer /\ touched' = touched
      /\ sent' = sent /\ peer' = peer
  BY DEF ReadBody
<1>3. CASE got_all /\ return(actual_len) /\ UNCHANGED <<readVars, ec>>
  <2>1. actual_len = body_len
    BY <1>1, <1>3, Lengths DEF got_all, total
  <2> QED
    BY <1>1, <1>2, <1>3, <2>1
       DEF return, TypeOK, total, BeforeHead, InBody, WholeUnlessBroken, Unfired
<1>4. CASE ec' = TRUE /\ return(actual_len) /\ UNCHANGED readVars
  BY <1>1, <1>2, <1>4
     DEF return, TypeOK, total, BeforeHead, InBody, WholeUnlessBroken, Unfired
<1>5. ASSUME NEW n \in Readable(size - actual_len), taken' = taken + n,
             actual_len' = actual_len + n, UNCHANGED <<pc, size, real_len, ec, result>>
      PROVE  CallInv'
  <2>1. n \in Nat /\ taken' <= sent /\ taken' \in Nat /\ actual_len' \in Nat
        /\ actual_len' + head_len = taken'
    BY <1>1, <1>5, Lengths DEF Readable
  <2> QED
    BY <1>1, <1>2, <1>5, <2>1
       DEF TypeOK, total, BeforeHead, InBody, WholeUnlessBroken, Unfired
<1> QED
  BY <1>3, <1>4, <1>5 DEF ReadBody

\* Every step of the pool thread, the co_worker thread and the backend.
LEMMA CallStepKeeps == CallInv /\ [Next]_vars => CallInv'
<1> SUFFICES ASSUME CallInv, [Next]_vars
             PROVE  CallInv'
  OBVIOUS
<1>1. ASSUME Connect \/ LeaveConnect \/ Write \/ Return
      PROVE  CallInv'
  <2>1. /\ head_len' = head_len /\ body_len' = body_len /\ sent' = sent /\ taken' = taken
        /\ size' = size /\ result' = result
        /\ actual_len' = actual_len /\ real_len' = real_len
    BY <1>1 DEF Connect, LeaveConnect, Write, Return
  <2>2. TypeOK'
    <3>1. TypeOK
      BY DEF CallInv
    <3>2. late' \in BOOLEAN /\ touched' \in BOOLEAN /\ ec' \in BOOLEAN
      BY <1>1, <3>1 DEF TypeOK, Connect, LeaveConnect, Write, Return
    <3>3. pc' \in {"connect", "leave", "write", "head", "body", "return", "done", "ended"}
      BY <1>1 DEF Connect, LeaveConnect, Write, Return
    <3>4. sock' \in {"new", "open", "shut", "destroyed"}
      BY <1>1, <3>1 DEF TypeOK, Connect, LeaveConnect, Write, Return
    <3>5. timer' \in {"armed", "queued", "aborted", "fired", "quiet"}
      BY <1>1, <3>1 DEF TypeOK, Connect, LeaveConnect, Write, Return
    <3>6. peer' \in {"open", "silent", "closed", "reset"}
      BY <1>1, <3>1 DEF TypeOK, Connect, LeaveConnect, Write, Return
    <3> QED
      BY <2>1, <3>1, <3>2, <3>3, <3>4, <3>5, <3>6 DEF TypeOK
  <2>3. sent' <= total' /\ taken' <= sent'
    BY <2>1 DEF CallInv, total
  <2>4. BeforeHead' /\ InBody'
    BY <1>1, <2>1 DEF CallInv, BeforeHead, InBody, Connect, LeaveConnect, Write, Return
  <2>5. WholeUnlessBroken'
    BY <1>1, <2>1 DEF CallInv, WholeUnlessBroken, Connect, LeaveConnect, Write, Return
  <2>6. Unfired'
    BY <1>1 DEF CallInv, Unfired, TypeOK, Connect, LeaveConnect, Write, Return
  <2> QED
    BY <2>2, <2>3, <2>4, <2>5, <2>6 DEF CallInv
<1>2. CASE DeadlinePasses \/ TimerExpires \/ timed_cancel_socket
  <2>1. /\ UNCHANGED <<pc, head_len, body_len, sent, peer, taken, size, result>>
        /\ UNCHANGED <<actual_len, real_len, ec>>
    BY <1>2 DEF DeadlinePasses, TimerExpires, timed_cancel_socket
  <2>2. CASE DeadlinePasses \/ TimerExpires
    <3>1. late' \in BOOLEAN /\ touched' = touched
      <4>1. CASE DeadlinePasses
        BY <4>1 DEF DeadlinePasses
      <4>2. CASE TimerExpires
        BY <4>2 DEF CallInv, TypeOK, TimerExpires
      <4> QED
        BY <2>2, <4>1, <4>2
    <3>2. /\ sock' = sock /\ timer' \in {timer, "queued"}
          /\ timer = "fired" => timer' = "fired"
      BY <2>2 DEF DeadlinePasses, TimerExpires
    <3>3. TypeOK'
      BY <2>1, <3>1, <3>2 DEF CallInv, TypeOK
    <3>4. Unfired'
      BY <3>1, <3>2 DEF CallInv, Unfired
    <3> QED
      BY <2>1, <3>3, <3>4 DEF CallInv, total, BeforeHead, InBody, WholeUnlessBroken
  <2>3. CASE timed_cancel_socket
    <3>1. touched' \in BOOLEAN
      BY <2>3 DEF timed_cancel_socket
    <3>2. timer' # "fired" => ~acts
      BY <2>3 DEF timed_cancel_socket, acts
    <3>3. ~acts => (touched' <=> touched) /\ sock' = sock
      BY <2>3 DEF timed_cancel_socket
    <3>4. TypeOK'
      BY <2>1, <2>3, <3>1 DEF CallInv, TypeOK, timed_cancel_socket
    <3>5. timer' # "fired" => timer # "fired"
      BY <2>3 DEF timed_cancel_socket
    <3>6. Unfired'
      BY <3>2, <3>3, <3>5 DEF CallInv, Unfired
    <3> QED
      BY <2>1, <3>4, <3>6 DEF CallInv, total, BeforeHead, InBody, WholeUnlessBroken
  <2> QED
    BY <1>2, <2>2, <2>3
<1>3. CASE PeerSends
  <2>1. sent' \in Nat /\ sent' <= total /\ taken <= sent'
    BY <1>3, Lengths DEF CallInv, PeerSends, total
  <2> QED
    BY <1>3, <2>1 DEF CallInv, PeerSends, TypeOK, total, BeforeHead, InBody,
       WholeUnlessBroken, Unfired
<1>4. CASE PeerBreaks \/ Ended \/ UNCHANGED vars
  BY <1>4 DEF CallInv, PeerBreaks, Ended, vars, TypeOK, total, BeforeHead, InBody,
     WholeUnlessBroken, Unfired
<1> QED
  BY <1>1, <1>2, <1>3, <1>4, HeadStep, BodyStep DEF Next, CallStep

\* The invariant, for all lengths and every BufSize beyond the window.
THEOREM CallInvariance == Spec => []CallInv
  BY CallInit, CallStepKeeps, PTL DEF Spec

\* The call, its buffer and its timer keep their types.
THEOREM CallTypes == Spec => []TypeOK
<1>1. CallInv => TypeOK
  BY DEF CallInv
<1> QED
  BY CallInvariance, <1>1, PTL

\* read_some is never given an empty buffer (client_ops.cpp:64-75).
THEOREM BufferHasRoom == Spec => []RoomLeft
<1>1. CallInv => RoomLeft
  BY Lengths DEF CallInv, InBody, RoomLeft
<1> QED
  BY CallInvariance, <1>1, PTL

\* An answer that meets no error is returned whole, or as 0 (client_ops.cpp:61-84).
THEOREM AnswersAreWhole == Spec => []WholeUnlessBroken
<1>1. CallInv => WholeUnlessBroken
  BY DEF CallInv
<1> QED
  BY CallInvariance, <1>1, PTL

\* A timer that was cancelled in time does nothing (co_worker.cpp:36-43).
THEOREM CancelledTimerIsHarmless == Spec => []InTimeIsSafe
<1>1. CallInv => InTimeIsSafe
  BY DEF CallInv, Unfired, InTimeIsSafe
<1> QED
  BY CallInvariance, <1>1, PTL

------------------------------------------------------------------------------
(* Refinement.                                                             *)

\* What the caller does not see.
LEMMA Unseen ==
  ASSUME call_stage' = call_stage, ec' = ec, call_outcome' = call_outcome
  PROVE  UNCHANGED Outcome!vars
  BY DEF Outcome!vars

\* A step inside the call: nothing for the caller, or the failure.
LEMMA InTheCall ==
  ASSUME CallInv, pc \notin {"done", "ended"}, pc' \notin {"done", "ended"},
         ec' \in {ec, TRUE}
  PROVE  Outcome!Next \/ UNCHANGED Outcome!vars
<1>1. /\ call_stage = "calling" /\ call_stage' = "calling"
      /\ call_outcome = "none" /\ call_outcome' = "none"
  BY DEF call_stage, call_outcome
<1>2. ec \in BOOLEAN
  BY DEF CallInv, TypeOK
<1>3. CASE ec' = ec
  BY <1>1, <1>3, Unseen
<1>4. CASE ~ec /\ ec' = TRUE
  BY <1>1, <1>4 DEF Outcome!Next, Outcome!Fail
<1> QED
  BY <1>2, <1>3, <1>4

\* The call returns: what is not 0 and not the entity is cut, after a failure.
LEMMA ReturnMaps == ASSUME CallInv, Return PROVE Outcome!Next
<1>1. /\ call_stage = "calling" /\ call_stage' = "done" /\ ec' = ec
      /\ result' = result /\ body_len' = body_len /\ pc = "return" /\ pc' = "done"
  BY DEF Return, call_stage
<1>2. call_outcome' \in Outcome!Outcomes
  BY <1>1 DEF call_outcome, Outcome!Outcomes
<1>3. call_outcome' = "cut" => ec
  BY <1>1 DEF CallInv, WholeUnlessBroken, call_outcome
<1> QED
  BY <1>1, <1>2, <1>3 DEF Outcome!Next, Outcome!Answer

\* One call is one answer, whole unless the connection failed, for every way the
\* answer is cut into reads and every moment at which the timer acts.
THEOREM CallImplementsOutcome == Spec => OutcomeSpec
<1>1. Init => Outcome!Init
  BY DEF Init, Outcome!Init, call_stage, call_outcome
<1>2. CallInv /\ [Next]_vars => [Outcome!Next]_(Outcome!vars)
  <2> SUFFICES ASSUME CallInv, [Next]_vars
               PROVE  Outcome!Next \/ UNCHANGED Outcome!vars
    OBVIOUS
  <2>1. CASE Connect \/ LeaveConnect \/ ReadHead \/ ReadBody
    <3>1. pc \notin {"done", "ended"} /\ pc' \notin {"done", "ended"} /\ ec' \in {ec, TRUE}
      BY <2>1 DEF Connect, LeaveConnect, ReadHead, ReadBody, return
    <3> QED
      BY <3>1, InTheCall
  <2>2. CASE Write
    <3>1. CASE pc' = "ended" /\ ec' = TRUE
      <4>1. /\ call_stage = "calling" /\ call_stage' = "ended"
            /\ call_outcome = "none" /\ call_outcome' = "none"
        BY <2>2, <3>1 DEF Write, call_stage, call_outcome
      <4> QED
        BY <3>1, <4>1 DEF Outcome!Next, Outcome!Throw
    <3>2. CASE pc' = "head" /\ ec' = ec
      BY <2>2, <3>2, InTheCall DEF Write
    <3> QED
      BY <2>2, <3>1, <3>2 DEF Write
  <2>3. CASE Return
    BY <2>3, ReturnMaps
  <2>4. CASE DeadlinePasses \/ TimerExpires \/ timed_cancel_socket \/ PeerSends \/ PeerBreaks
             \/ Ended \/ UNCHANGED vars
    <3>1. UNCHANGED <<pc, body_len, ec, result>>
      BY <2>4 DEF DeadlinePasses, TimerExpires, timed_cancel_socket, PeerSends, PeerBreaks,
         Ended, vars
    <3> QED
      BY <3>1, Unseen DEF call_stage, call_outcome
  <2> QED
    BY <2>1, <2>2, <2>3, <2>4 DEF Next, CallStep
<1> QED
  BY CallInvariance, <1>1, <1>2, PTL DEF Spec, OutcomeSpec, Outcome!Spec
==============================================================================
