---------------------------- MODULE AnalyseService ----------------------------
(***************************************************************************)
(* front_conn::analyse_handler (front_conn.cpp:367-441) as the threads of  *)
(* the pool run it at the same time, over the one RedisClient of the       *)
(* process (redis.hpp:60-256).  A request is the key its answer is cached  *)
(* under: the uuid, or the MD5 of the content.  The backend is the one of  *)
(* CallOutcome, which BackendCall implements: it gives a whole answer, a   *)
(* cut one, none, or the call throws.                                      *)
(*                                                                         *)
(* pc[t]: "idle"    t runs no request                                      *)
(*        "test"    getInstance, before the first test of redis_instance_  *)
(*        "lock"    the pointer was null, redis_lock_ comes next           *)
(*        "retest"  the lock is held, before the second test               *)
(*        "init"    createInstance is done, initContext comes next         *)
(*        "get" "call" "set"   getValue, redirect_to_win, setValue         *)
(*        "reply"   the answer is filled in, the handler is about to end   *)
(***************************************************************************)
EXTENDS Integers, FiniteSets

CONSTANTS
  Thread,  \* the threads of the pool
  Key,     \* uuids and digests
  NONE     \* no key, no answer, no thread

ASSUME NoneAssumption == NONE \notin Thread \cup Key \cup {"whole", "cut", "error"}

VARIABLES
  pc, key, answer,   \* of each thread: its request and what it has so far
  redis_instance,    \* redis_instance_ is set
  context,           \* context_: "null", "up", or "lost" (the peer is gone)
  redis_lock,        \* who holds redis_lock_
  store,             \* what the redis server keeps
  redis_up,          \* the redis server accepts connections
  fault              \* why the process has ended, or "none"

clientVars == <<redis_instance, context, redis_lock>>
serverVars == <<store, redis_up>>
vars == <<pc, key, answer, clientVars, serverVars, fault>>

Init ==
  /\ pc = [t \in Thread |-> "idle"]
  /\ key = [t \in Thread |-> NONE]
  /\ answer = [t \in Thread |-> NONE]
  /\ redis_instance = FALSE /\ context = "null" /\ redis_lock = NONE
  /\ store = [k \in Key |-> NONE]
  /\ redis_up \in BOOLEAN
  /\ fault = "none"

goto(t, l) == pc' = [pc EXCEPT ![t] = l]

\* The process ends and no thread takes another step.
Crash(why) ==
  /\ fault' = why
  /\ UNCHANGED <<pc, key, answer, clientVars, serverVars>>

------------------------------------------------------------------------------
(* RedisClient::getInstance.                                               *)

\* analyse_handler with a valid document.
Request(t) ==
  /\ pc[t] = "idle"
  /\ \E k \in Key : key' = [key EXCEPT ![t] = k]
  /\ goto(t, "test")
  /\ UNCHANGED <<answer, clientVars, serverVars, fault>>

\* The first test, without the lock.
FirstTest(t) ==
  /\ pc[t] = "test"
  /\ goto(t, IF redis_instance THEN "get" ELSE "lock")
  /\ UNCHANGED <<key, answer, clientVars, serverVars, fault>>

TakeLock(t) ==
  /\ pc[t] = "lock"
  /\ redis_lock = NONE
  /\ redis_lock' = t
  /\ goto(t, "retest")
  /\ UNCHANGED <<key, answer, redis_instance, context, serverVars, fault>>

\* Mutant: the pointer is not looked at again under the lock.
found_instance_Never == FALSE

\* The second test.
found_instance == redis_instance

\* Mutant: a return that leaves the lock taken.
unlock_Kept == UNCHANGED redis_lock

unlock == redis_lock' = NONE

\* createInstance publishes the object before its context is initialised.
SecondTest(t) ==
  /\ pc[t] = "retest"
  /\ IF found_instance
     THEN goto(t, "get") /\ unlock /\ UNCHANGED redis_instance
     ELSE goto(t, "init") /\ redis_instance' = TRUE /\ UNCHANGED redis_lock
  /\ UNCHANGED <<key, answer, context, serverVars, fault>>

\* Mutant: the context that reports an error is kept.
connected_Kept == IF redis_up THEN "up" ELSE "failed"

\* redisConnectWithTimeout, or NULL when it reports an error.
connected == IF redis_up THEN "up" ELSE "null"

\* initContext by the creator, and the lock is released.
InitContext(t) ==
  /\ pc[t] = "init"
  /\ context' = connected
  /\ unlock
  /\ goto(t, "get")
  /\ UNCHANGED <<key, answer, redis_instance, serverVars, fault>>

------------------------------------------------------------------------------
(* A command: redis_lock_ is held from its first to its last line.         *)

\* Mutant: getValue and setValue without a lock.
may_command_NoLock == TRUE

may_command == redis_lock = NONE

\* redisCommand gives no reply: the peer is gone; a new connection is tried.
no_reply == context = "lost"
reconnect == context' = IF no_reply THEN connected ELSE context

\* hiredis goes through the context it is given.
NullContext(t) ==
  /\ pc[t] \in {"get", "set"}
  /\ may_command
  /\ context = "null"
  /\ Crash("NullContext")

\* getValue: a hit is the answer; no reply, nothing stored or an error reply
\* calls the backend.
GetValue(t) ==
  /\ pc[t] = "get"
  /\ may_command
  /\ context # "null"
  /\ reconnect
  /\ \/ /\ ~no_reply
        /\ store[key[t]] # NONE
        /\ answer' = [answer EXCEPT ![t] = store[key[t]]]
        /\ goto(t, "reply")
     \/ goto(t, "call") /\ UNCHANGED answer
  /\ UNCHANGED <<key, redis_instance, redis_lock, serverVars, fault>>

\* Mutant: an answer of redirect_to_win is stored even when it returns false.
after_call_Stored(a) == "set"

\* analyse_handler returns false without an answer of the backend.
after_call(a) == IF a = "error" THEN "reply" ELSE "set"

\* redirect_to_win.
CallBackend(t) ==
  /\ pc[t] = "call"
  /\ \E a \in {"whole", "cut", "error"} :
       /\ answer' = [answer EXCEPT ![t] = a]
       /\ goto(t, after_call(a))
  /\ UNCHANGED <<key, clientVars, serverVars, fault>>

\* redirect_to_win's write_some throws; nothing catches it.
CallThrows(t) ==
  /\ pc[t] = "call"
  /\ Crash("write_some")

\* setValue; whether redis has stored the answer is only logged.
SetValue(t) ==
  /\ pc[t] = "set"
  /\ may_command
  /\ context # "null"
  /\ reconnect
  /\ \/ UNCHANGED store
     \/ ~no_reply /\ store' = [store EXCEPT ![key[t]] = answer[t]]
  /\ goto(t, "reply")
  /\ UNCHANGED <<key, answer, redis_instance, redis_lock, redis_up, fault>>

\* fill_for_http with the answer, or with content_error.
Reply(t) ==
  /\ pc[t] = "reply"
  /\ goto(t, "idle")
  /\ key' = [key EXCEPT ![t] = NONE]
  /\ answer' = [answer EXCEPT ![t] = NONE]
  /\ UNCHANGED <<clientVars, serverVars, fault>>

------------------------------------------------------------------------------
(* The redis server.                                                       *)

RedisStops ==
  /\ redis_up
  /\ redis_up' = FALSE
  /\ context' = IF context = "up" THEN "lost" ELSE context
  /\ UNCHANGED <<pc, key, answer, redis_instance, redis_lock, store, fault>>

\* It starts again, with or without what it had stored.
RedisStarts ==
  /\ ~redis_up
  /\ redis_up' = TRUE
  /\ store' \in {store, [k \in Key |-> NONE]}
  /\ UNCHANGED <<pc, key, answer, clientVars, fault>>

\* The steps a running thread is sure to take.
ThreadStep(t) ==
  /\ fault = "none"
  /\ \/ FirstTest(t) \/ TakeLock(t) \/ SecondTest(t) \/ InitContext(t)
     \/ NullContext(t) \/ GetValue(t) \/ CallBackend(t) \/ SetValue(t) \/ Reply(t)

Ended == fault # "none" /\ UNCHANGED vars

Next ==
  \/ \E t \in Thread :
       ThreadStep(t) \/ (fault = "none" /\ (Request(t) \/ CallThrows(t)))
  \/ fault = "none" /\ (RedisStops \/ RedisStarts)
  \/ Ended

Spec == Init /\ [][Next]_vars

\* Threads run, redis_lock_ is handed on, redis answers; the backend may let a
\* thread wait in "call" for ever.
FairSpec ==
  Spec /\ \A t \in Thread : SF_vars(pc[t] # "call" /\ ThreadStep(t))

------------------------------------------------------------------------------
TypeOK ==
  /\ pc \in [Thread -> {"idle", "test", "lock", "retest", "init", "get", "call",
                        "set", "reply"}]
  /\ key \in [Thread -> Key \cup {NONE}]
  /\ answer \in [Thread -> {NONE, "whole", "cut", "error"}]
  /\ redis_instance \in BOOLEAN
  /\ context \in {"null", "up", "lost"}
  /\ redis_lock \in Thread \cup {NONE}
  /\ store \in [Key -> {NONE, "whole", "cut", "error"}]
  /\ redis_up \in BOOLEAN
  /\ fault \in {"none", "NullContext", "write_some"}

\* The double-checked test creates the client once: whoever is between the two
\* tests holds the lock, and nobody connects a client that another thread has
\* connected and given out (redis.hpp:65-74).
CreatedOnce ==
  \A t \in Thread :
    /\ pc[t] \in {"retest", "init"} => redis_lock = t
    /\ pc[t] = "init" => context = "null"

\* The pointer is published before initContext (redis.hpp:71-72), yet no command
\* is given to the context before initContext is done: a command needs the lock.
ContextReady ==
  [][(\E t \in Thread : pc[t] = "init") =>
       /\ fault' # "NullContext"
       /\ \A u \in Thread : pc[u] \in {"get", "set"} => pc'[u] = pc[u]]_vars

\* Nothing but an answer of the backend is ever cached (front_conn.cpp:403-407).
NoErrorIsCached == \A k \in Key : store[k] # "error"

\* Every request is answered, or the process ends, or the backend keeps the
\* thread waiting: redis_lock_ blocks nobody for ever, before the call of the
\* backend or after it (redis.hpp:67, 148, 174, 205, 231).
Answered ==
  \A t \in Thread :
    pc[t] \notin {"idle", "call"} ~> (pc[t] \in {"idle", "call"} \/ fault # "none")

\* How far a request is, as AnswerCache counts it: who waits for the client, its lock or
\* a new connection has asked, and no more.
stage ==
  [t \in Thread |->
     CASE pc[t] = "idle" -> "free"
       [] pc[t] = "set" -> "fetched"
       [] pc[t] = "reply" -> "answered"
       [] OTHER -> "asked"]

Cache == INSTANCE AnswerCache

\* Threads that share one client, race for its creation and lose its connection at any
\* moment look like a cache that is asked, and told, one answer at a time: each request is
\* answered from its own key or its own call, and only answers are stored
\* (front_conn.cpp:389-436, redis.hpp:60-256).
CacheSpec == Cache!Spec

------------------------------------------------------------------------------
(* What the comments say and a run refutes.                                *)

\* redis.hpp:152, 178, 209, 235: a connection that was lost is made again, so no
\* later command goes through a null context_.
Reconnected == [](context = "lost" => [](fault # "NullContext"))
==============================================================================
