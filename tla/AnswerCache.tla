----------------------------- MODULE AnswerCache -----------------------------
(***************************************************************************)
(* What the answer cache promises, whatever happens to redis and its one   *)
(* client: a request is answered from what is stored under its own key, or *)
(* from its own call of the backend; an answer is stored at most once per  *)
(* request, under its key, before it is given, and only if it is one;      *)
(* redis may forget everything.  AnalyseService implements it.             *)
(***************************************************************************)
CONSTANTS
  Thread,  \* one request at a time each
  Key, NONE

VARIABLES
  stage,   \* of each thread: "free", "asked", "fetched" by the backend, or "answered"
  key, answer,
  store

vars == <<stage, key, answer, store>>

Init ==
  /\ stage = [t \in Thread |-> "free"]
  /\ key = [t \in Thread |-> NONE] /\ answer = [t \in Thread |-> NONE]
  /\ store = [k \in Key |-> NONE]

Becomes(t, from, to) == stage[t] = from /\ stage' = [stage EXCEPT ![t] = to]

Ask(t) ==
  /\ Becomes(t, "free", "asked")
  /\ \E k \in Key : key' = [key EXCEPT ![t] = k]
  /\ UNCHANGED <<answer, store>>

Hit(t) ==
  /\ Becomes(t, "asked", "answered")
  /\ store[key[t]] # NONE
  /\ answer' = [answer EXCEPT ![t] = store[key[t]]]
  /\ UNCHANGED <<key, store>>

Fetch(t) ==
  /\ Becomes(t, "asked", "fetched")
  /\ \E a \in {"whole", "cut"} : answer' = [answer EXCEPT ![t] = a]
  /\ UNCHANGED <<key, store>>

Fail(t) ==
  /\ Becomes(t, "asked", "answered")
  /\ answer' = [answer EXCEPT ![t] = "error"]
  /\ UNCHANGED <<key, store>>

\* The answer is stored, or is not.
Keep(t) ==
  /\ Becomes(t, "fetched", "answered")
  /\ store' \in {store, [store EXCEPT ![key[t]] = answer[t]]}
  /\ UNCHANGED <<key, answer>>

Reply(t) ==
  /\ Becomes(t, "answered", "free")
  /\ key' = [key EXCEPT ![t] = NONE] /\ answer' = [answer EXCEPT ![t] = NONE]
  /\ UNCHANGED store

Forget ==
  /\ store' = [k \in Key |-> NONE]
  /\ UNCHANGED <<stage, key, answer>>

Next ==
  \/ \E t \in Thread : Ask(t) \/ Hit(t) \/ Fetch(t) \/ Fail(t) \/ Keep(t) \/ Reply(t)
  \/ Forget

Spec == Init /\ [][Next]_vars
==============================================================================
