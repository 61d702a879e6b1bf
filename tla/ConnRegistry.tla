----------------------------- MODULE ConnRegistry -----------------------------
(***************************************************************************)
(* What the registry of http_server promises about the life of a front_conn*)
(* object, whatever the threads do: an object serves one client at a time, *)
(* leaves the registry only when nothing uses it any more, stays unused    *)
(* until the next client gets it, and never more than MaxServe clients are *)
(* served.  ConnPool implements it.                                        *)
(***************************************************************************)
EXTENDS Integers, FiniteSets

CONSTANTS Conn, MaxServe

VARIABLES
  live,   \* objects that serve a client
  cache,  \* washed objects that wait for one
  used    \* objects that an operation, a handler or start() still uses

vars == <<live, cache, used>>

Init == live = {} /\ cache = {} /\ used = {}

\* A new client gets an object that nobody uses, recycled or fresh.
Admit(c) ==
  /\ Cardinality(live) < MaxServe
  /\ c \notin live \cup used
  /\ live' = live \cup {c}
  /\ used' = used \cup {c}
  /\ cache' = cache \ {c}

\* The last use of a live object ends; no step but Admit starts one.
Finish(c) ==
  /\ c \in used
  /\ used' = used \ {c}
  /\ UNCHANGED <<live, cache>>

\* The client is given up.
Retire(c) ==
  /\ c \in live \ used
  /\ live' = live \ {c}
  /\ UNCHANGED <<cache, used>>

\* The object is washed and kept for another client.
Recycle(c) ==
  /\ c \notin live \cup used \cup cache
  /\ cache' = cache \cup {c}
  /\ UNCHANGED <<live, used>>

\* The process ends, and its memory with it.
End == live' = {} /\ cache' = {} /\ used' = {}

Next ==
  \/ \E c \in Conn : Admit(c) \/ Finish(c) \/ Retire(c) \/ Recycle(c)
  \/ End

Spec == Init /\ [][Next]_vars
==============================================================================
