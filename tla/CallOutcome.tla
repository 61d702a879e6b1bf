------------------------------ MODULE CallOutcome ------------------------------
(***************************************************************************)
(* What the caller of redirect_to_win is given (front_conn.cpp:444-492):   *)
(* one answer, once: the whole entity, none ("error"), or a part of it     *)
(* ("cut"), but this only from a connection that has failed.  Or the       *)
(* process ends in the call.  BackendCall implements it, and AnalyseService *)
(* is written for any backend that does.                                   *)
(***************************************************************************)
VARIABLES
  stage,    \* "calling", "done" or "ended"
  failed,   \* the connection has failed or was shut down
  outcome   \* "none" before the call is done

vars == <<stage, failed, outcome>>

Outcomes == {"whole", "cut", "error"}

Init == stage = "calling" /\ failed = FALSE /\ outcome = "none"

Fail ==
  /\ stage = "calling" /\ ~failed
  /\ failed' = TRUE
  /\ UNCHANGED <<stage, outcome>>

Answer ==
  /\ stage = "calling"
  /\ stage' = "done"
  /\ outcome' \in Outcomes /\ (outcome' = "cut" => failed)
  /\ UNCHANGED failed

\* write_some throws.
Throw ==
  /\ stage = "calling"
  /\ stage' = "ended" /\ failed' = TRUE
  /\ UNCHANGED outcome

Next == Fail \/ Answer \/ Throw

Spec == Init /\ [][Next]_vars
==============================================================================
