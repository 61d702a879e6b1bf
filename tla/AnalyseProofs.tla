----------------------------- MODULE AnalyseProofs -----------------------------
(***************************************************************************)
(* The double-checked creation of the redis client is safe for every       *)
(* number of threads: the lock that every command takes makes up for the   *)
(* pointer that is published too early.  And for every number of keys      *)
(* nothing but an answer of the backend is stored.                         *)
(***************************************************************************)
EXTENDS AnalyseService, TLAPS

USE NoneAssumption
USE DEF clientVars, serverVars

\* Whoever is about to store has an answer, and so had everybody before
\* (front_conn.cpp:403-407, 425-431).
StoresAnswers ==
  /\ NoErrorIsCached
  /\ \A t \in Thread : pc[t] = "set" => answer[t] # "error"

\* Between the tests a thread holds the lock; until the first context is made
\* there is none; the process does not end while a client is being connected by
\* a command of another thread (redis.hpp:65-77, 113).
ClientInv ==
  /\ TypeOK
  /\ CreatedOnce
  /\ ~redis_instance => context = "null"
  /\ \A t \in Thread :
       /\ pc[t] = "init" => redis_instance
       /\ pc[t] # "idle" => key[t] \in Key
  /\ fault = "NullContext" => \A t \in Thread : pc[t] # "init"
  /\ StoresAnswers

\* The start of the process.
LEMMA ClientInit == Init => ClientInv
  BY DEF Init, ClientInv, TypeOK, CreatedOnce, StoresAnswers, NoErrorIsCached

\* Whoever may give a command finds nobody between the two tests.
LEMMA CommandAlone ==
  ASSUME ClientInv, may_command
  PROVE  \A u \in Thread : pc[u] \notin {"retest", "init"}
  BY DEF ClientInv, CreatedOnce, may_command

\* What a connection attempt or a command makes of the context.
LEMMA ContextType ==
  ASSUME ClientInv
  PROVE  /\ connected \in {"null", "up"}
         /\ reconnect => context' \in {"null", "up", "lost"}
  BY DEF ClientInv, TypeOK, connected, reconnect

\* A command keeps the invariant.
LEMMA CommandStep ==
  ASSUME ClientInv, fault = "none", NEW t \in Thread, GetValue(t) \/ SetValue(t)
  PROVE  ClientInv'
<1> USE DEF ClientInv
<1>1. /\ \A u \in Thread : pc[u] \notin {"retest", "init"}
      /\ context # "null" /\ context' \in {"null", "up", "lost"}
      /\ redis_instance' = redis_instance /\ redis_lock' = redis_lock
      /\ key' = key /\ redis_up' = redis_up /\ fault' = fault
  BY CommandAlone, ContextType DEF GetValue, SetValue
<1>2. pc[t] \in {"get", "set"} /\ key[t] \in Key
  BY DEF GetValue, SetValue
<1>3. \E l \in {"reply", "call"} : pc' = [pc EXCEPT ![t] = l]
  BY DEF GetValue, SetValue, goto
<1>4. answer' \in [Thread -> {NONE, "whole", "cut", "error"}]
  <2>1. CASE GetValue(t)
    BY <2>1, <1>2 DEF GetValue, TypeOK
  <2>2. CASE SetValue(t)
    BY <2>2 DEF SetValue, TypeOK
  <2> QED
    BY <2>1, <2>2
<1>5. store' \in [Key -> {NONE, "whole", "cut", "error"}]
  <2>1. CASE GetValue(t)
    BY <2>1 DEF GetValue, TypeOK
  <2>2. CASE SetValue(t)
    BY <2>2, <1>2 DEF SetValue, TypeOK
  <2> QED
    BY <2>1, <2>2
<1>6. TypeOK'
  <2>1. pc' \in [Thread -> {"idle", "test", "lock", "retest", "init", "get", "call", "set",
                            "reply"}]
    BY <1>3 DEF TypeOK
  <2> QED
    BY <1>1, <1>4, <1>5, <2>1 DEF TypeOK
<1>7. CreatedOnce'
  BY <1>1, <1>3 DEF TypeOK, CreatedOnce
<1>8. \A u \in Thread :
        /\ pc'[u] = "init" => redis_instance'
        /\ pc'[u] # "idle" => key'[u] \in Key
  BY <1>1, <1>2, <1>3 DEF TypeOK
<1>9. StoresAnswers'
  <2>1. \A u \in Thread : pc'[u] = "set" => u # t /\ pc[u] = "set"
    BY <1>3 DEF TypeOK
  <2>2. \A u \in Thread : u # t => answer'[u] = answer[u]
    BY DEF GetValue, SetValue, TypeOK
  <2>3. NoErrorIsCached'
    <3>1. CASE GetValue(t)
      BY <3>1 DEF GetValue, StoresAnswers, NoErrorIsCached
    <3>2. CASE SetValue(t)
      <4>1. answer[t] # "error"
        BY <3>2 DEF SetValue, StoresAnswers
      <4> QED
        BY <3>2, <4>1 DEF SetValue, TypeOK, StoresAnswers, NoErrorIsCached
    <3> QED
      BY <3>1, <3>2
  <2> QED
    BY <2>1, <2>2, <2>3 DEF StoresAnswers
<1> QED
  BY <1>1, <1>6, <1>7, <1>8, <1>9

\* The creation of the client keeps the invariant.
LEMMA CreationStep ==
  ASSUME ClientInv, fault = "none", NEW t \in Thread, SecondTest(t) \/ InitContext(t)
  PROVE  ClientInv'
<1> USE DEF ClientInv
<1>0. StoresAnswers'
  BY DEF SecondTest, InitContext, goto, TypeOK, StoresAnswers, NoErrorIsCached
<1>1. pc[t] \in {"retest", "init"} /\ redis_lock = t
  BY DEF SecondTest, InitContext, CreatedOnce
<1>2. \A u \in Thread : u # t => pc[u] \notin {"retest", "init"}
  BY <1>1 DEF CreatedOnce
<1>3. CASE SecondTest(t)
  <2>1. CASE redis_instance
    BY <1>0, <1>1, <1>2, <1>3, <2>1
       DEF SecondTest, found_instance, unlock, goto, TypeOK, CreatedOnce
  <2>2. CASE ~redis_instance
    BY <1>0, <1>1, <1>2, <1>3, <2>2 DEF SecondTest, found_instance, goto, TypeOK, CreatedOnce
  <2> QED
    BY <2>1, <2>2
<1>4. CASE InitContext(t)
  <2>1. redis_instance
    BY <1>4 DEF InitContext
  <2> QED
    BY <1>0, <1>1, <1>2, <1>4, <2>1, ContextType DEF InitContext, unlock, goto, TypeOK, CreatedOnce
<1> QED
  BY <1>3, <1>4

\* Every step of every thread and of the redis server keeps it.
LEMMA ClientStep == ClientInv /\ [Next]_vars => ClientInv'
<1> SUFFICES ASSUME ClientInv, [Next]_vars
             PROVE  ClientInv'
  OBVIOUS
<1>1. ASSUME NEW t \in Thread, fault = "none", Request(t)
      PROVE  ClientInv'
  <2>1. StoresAnswers'
    BY <1>1 DEF ClientInv, Request, goto, TypeOK, StoresAnswers, NoErrorIsCached
  <2> QED
    BY <1>1, <2>1 DEF ClientInv, Request, goto, TypeOK, CreatedOnce
<1>2. ASSUME NEW t \in Thread, fault = "none", FirstTest(t) \/ TakeLock(t)
      PROVE  ClientInv'
  <2>1. StoresAnswers'
    BY <1>2 DEF ClientInv, FirstTest, TakeLock, goto, TypeOK, StoresAnswers, NoErrorIsCached
  <2> QED
    BY <1>2, <2>1 DEF ClientInv, FirstTest, TakeLock, goto, TypeOK, CreatedOnce
<1>3. ASSUME NEW t \in Thread, fault = "none", CallBackend(t) \/ Reply(t)
      PROVE  ClientInv'
  <2>1. StoresAnswers'
    BY <1>3 DEF ClientInv, CallBackend, after_call, Reply, goto, TypeOK, StoresAnswers,
       NoErrorIsCached
  <2> QED
    BY <1>3, <2>1 DEF ClientInv, CallBackend, after_call, Reply, goto, TypeOK, CreatedOnce
<1>4. ASSUME NEW t \in Thread, fault = "none", NullContext(t) \/ CallThrows(t)
      PROVE  ClientInv'
  <2>1. NullContext(t) => \A u \in Thread : pc[u] # "init"
    BY CommandAlone DEF NullContext
  <2>2. StoresAnswers'
    BY <1>4 DEF ClientInv, NullContext, CallThrows, Crash, StoresAnswers, NoErrorIsCached
  <2> QED
    BY <1>4, <2>1, <2>2 DEF ClientInv, NullContext, CallThrows, Crash, TypeOK, CreatedOnce
<1>5. ASSUME fault = "none", RedisStops \/ RedisStarts
      PROVE  ClientInv'
  <2>1. StoresAnswers'
    BY <1>5 DEF ClientInv, RedisStops, RedisStarts, StoresAnswers, NoErrorIsCached
  <2> QED
    BY <1>5, <2>1 DEF ClientInv, RedisStops, RedisStarts, TypeOK, CreatedOnce
<1>6. CASE Ended \/ UNCHANGED vars
  BY <1>6 DEF ClientInv, Ended, vars, TypeOK, CreatedOnce, StoresAnswers, NoErrorIsCached
<1> QED
  BY <1>1, <1>2, <1>3, <1>4, <1>5, <1>6, CommandStep, CreationStep DEF Next, ThreadStep

\* While a thread connects the client, no thread gives a command.
LEMMA NoEarlyCommand ==
  ASSUME ClientInv, Next, NEW t \in Thread, pc[t] = "init"
  PROVE  /\ fault' # "NullContext"
         /\ \A u \in Thread : pc[u] \in {"get", "set"} => pc'[u] = pc[u]
<1>1. fault # "NullContext"
  BY DEF ClientInv
<1>2. \A u \in Thread : ~NullContext(u) /\ ~GetValue(u) /\ ~SetValue(u)
  BY CommandAlone DEF NullContext, GetValue, SetValue
<1>3. fault' # "NullContext"
  BY <1>1, <1>2 DEF Next, ThreadStep, Request, FirstTest, TakeLock, SecondTest, InitContext,
     CallBackend, CallThrows, Crash, Reply, RedisStops, RedisStarts, Ended, vars
<1>4. \A u \in Thread : pc[u] \in {"get", "set"} => pc'[u] = pc[u]
  <2> SUFFICES ASSUME NEW u \in Thread, pc[u] \in {"get", "set"}
               PROVE  pc'[u] = pc[u]
    OBVIOUS
  <2>1. \A v \in Thread : \A l : pc' = [pc EXCEPT ![v] = l] /\ v # u => pc'[u] = pc[u]
    BY DEF ClientInv, TypeOK
  <2>2. ASSUME NEW v \in Thread, Request(v) \/ ThreadStep(v)
        PROVE  pc'[u] = pc[u]
    BY <1>2, <2>1, <2>2 DEF ThreadStep, Request, FirstTest, TakeLock, SecondTest, InitContext,
       CallBackend, Reply, goto
  <2> QED
    BY <2>2 DEF Next, CallThrows, Crash, RedisStops, RedisStarts, Ended, vars
<1> QED
  BY <1>3, <1>4

\* The invariant, for any set of threads and keys.
THEOREM ClientInvariance == Spec => []ClientInv
  BY ClientInit, ClientStep, PTL DEF Spec

\* The client is created once, by the thread that holds redis_lock_
\* (redis.hpp:63-77).
THEOREM ClientCreatedOnce == Spec => []CreatedOnce
<1>1. ClientInv => CreatedOnce
  BY DEF ClientInv
<1> QED
  BY ClientInvariance, <1>1, PTL

\* Threads, locks, answers and the store keep their types.
THEOREM ServiceTypes == Spec => []TypeOK
<1>1. ClientInv => TypeOK
  BY DEF ClientInv
<1> QED
  BY ClientInvariance, <1>1, PTL

\* A failed call of the backend leaves nothing in the cache, for any number of
\* threads that work on the same keys (front_conn.cpp:403-407).
THEOREM FailuresAreNotCached == Spec => []NoErrorIsCached
<1>1. ClientInv => NoErrorIsCached
  BY DEF ClientInv, StoresAnswers
<1> QED
  BY ClientInvariance, <1>1, PTL

\* No thread gives a command to a client that is published and not yet
\* connected (redis.hpp:71-72, 145-199).
THEOREM CommandsWaitForContext == Spec => ContextReady
<1> DEFINE Quiet == (\E t \in Thread : pc[t] = "init") =>
                      /\ fault' # "NullContext"
                      /\ \A u \in Thread : pc[u] \in {"get", "set"} => pc'[u] = pc[u]
<1>1. ClientInv /\ [Next]_vars => [Quiet]_vars
  BY NoEarlyCommand
<1> HIDE DEF Quiet
<1>2. Spec => [][Quiet]_vars
  BY ClientInvariance, <1>1, PTL DEF Spec
<1> QED
  BY <1>2 DEF Quiet, ContextReady

------------------------------------------------------------------------------
(* The threads implement AnswerCache.                                      *)

\* What the stage of a request is at each place of the code.
StageAt(l) ==
  CASE l = "idle" -> "free" [] l = "set" -> "fetched" [] l = "reply" -> "answered"
    [] OTHER -> "asked"

\* A thread that goes somewhere changes its own stage only.
LEMMA StageMoves ==
  ASSUME TypeOK, NEW t \in Thread, NEW l, goto(t, l)
  PROVE  /\ stage[t] = StageAt(pc[t])
         /\ stage' = [stage EXCEPT ![t] = StageAt(l)]
<1>1. stage = [u \in Thread |-> StageAt(pc[u])]
  BY DEF stage, StageAt
<1>2. stage' = [u \in Thread |-> StageAt(pc'[u])]
  BY DEF stage, StageAt
<1>3. /\ pc'[t] = l
      /\ \A u \in Thread : u # t => pc'[u] = pc[u]
  BY DEF goto, TypeOK
<1>4. [stage EXCEPT ![t] = StageAt(l)] = [u \in Thread |-> IF u = t THEN StageAt(l) ELSE stage[u]]
  BY <1>1
<1> HIDE DEF StageAt
<1>5. \A u \in Thread : StageAt(pc'[u]) = IF u = t THEN StageAt(l) ELSE stage[u]
  BY <1>1, <1>3
<1> QED
  BY <1>1, <1>2, <1>4, <1>5

\* Where the code goes within getInstance, nothing is seen.
LEMMA Within ==
  ASSUME TypeOK, NEW t \in Thread, NEW l, goto(t, l), StageAt(pc[t]) = "asked",
         StageAt(l) = "asked", UNCHANGED <<key, answer, store>>
  PROVE  UNCHANGED Cache!vars
<1>1. stage' = [stage EXCEPT ![t] = stage[t]]
  BY StageMoves
<1>2. stage = [u \in Thread |-> stage[u]]
  BY DEF stage
<1>3. stage' = stage
  BY <1>1, <1>2
<1> QED
  BY <1>3 DEF Cache!vars

LEMMA CacheStep ==
  ASSUME TypeOK, [Next]_vars
  PROVE  [Cache!Next]_(Cache!vars)
<1>1. ASSUME NEW t \in Thread, FirstTest(t) \/ TakeLock(t) \/ SecondTest(t) \/ InitContext(t)
      PROVE  UNCHANGED Cache!vars
  <2>1. \E l \in {"lock", "retest", "init", "get"} : goto(t, l)
    BY <1>1 DEF FirstTest, TakeLock, SecondTest, InitContext
  <2>2. UNCHANGED <<key, answer, store>> /\ pc[t] \in {"test", "lock", "retest", "init"}
    BY <1>1 DEF FirstTest, TakeLock, SecondTest, InitContext
  <2> QED
    BY <2>1, <2>2, Within DEF StageAt
<1>2. ASSUME NEW t \in Thread, Request(t)
      PROVE  Cache!Ask(t)
  <2>1. stage[t] = "free" /\ stage' = [stage EXCEPT ![t] = "asked"]
    BY <1>2, StageMoves DEF Request, StageAt
  <2> QED
    BY <1>2, <2>1 DEF Request, Cache!Ask, Cache!Becomes
<1>3. ASSUME NEW t \in Thread, GetValue(t)
      PROVE  Cache!Hit(t) \/ UNCHANGED Cache!vars
  <2>1. pc[t] = "get" /\ UNCHANGED <<key, store>>
    BY <1>3 DEF GetValue
  <2>2. CASE /\ store[key[t]] # NONE /\ answer' = [answer EXCEPT ![t] = store[key[t]]]
             /\ goto(t, "reply")
    <3>1. stage[t] = "asked" /\ stage' = [stage EXCEPT ![t] = "answered"]
      BY <2>1, <2>2, StageMoves DEF StageAt
    <3> QED
      BY <2>1, <2>2, <3>1 DEF Cache!Hit, Cache!Becomes
  <2>3. CASE goto(t, "call") /\ UNCHANGED answer
    BY <2>1, <2>3, Within DEF StageAt
  <2> QED
    BY <1>3, <2>2, <2>3 DEF GetValue
<1>4. ASSUME NEW t \in Thread, CallBackend(t)
      PROVE  Cache!Fetch(t) \/ Cache!Fail(t)
  <2>1. PICK a \in {"whole", "cut", "error"} :
          answer' = [answer EXCEPT ![t] = a] /\ goto(t, after_call(a))
    BY <1>4 DEF CallBackend
  <2>2. pc[t] = "call" /\ UNCHANGED <<key, store>>
    BY <1>4 DEF CallBackend
  <2>3. /\ stage[t] = "asked"
        /\ stage' = [stage EXCEPT ![t] = IF a = "error" THEN "answered" ELSE "fetched"]
    BY <2>1, <2>2, StageMoves DEF StageAt, after_call
  <2> QED
    BY <2>1, <2>2, <2>3 DEF Cache!Fetch, Cache!Fail, Cache!Becomes
<1>5. ASSUME NEW t \in Thread, SetValue(t)
      PROVE  Cache!Keep(t)
  <2>1. stage[t] = "fetched" /\ stage' = [stage EXCEPT ![t] = "answered"]
    BY <1>5, StageMoves DEF SetValue, StageAt
  <2> QED
    BY <1>5, <2>1 DEF SetValue, Cache!Keep, Cache!Becomes
<1>6. ASSUME NEW t \in Thread, Reply(t)
      PROVE  Cache!Reply(t)
  <2>1. stage[t] = "answered" /\ stage' = [stage EXCEPT ![t] = "free"]
    BY <1>6, StageMoves DEF Reply, StageAt
  <2> QED
    BY <1>6, <2>1 DEF Reply, Cache!Reply, Cache!Becomes
<1>7. ASSUME UNCHANGED <<pc, key, answer>>, store' \in {store, [k \in Key |-> NONE]}
      PROVE  Cache!Forget \/ UNCHANGED Cache!vars
  BY <1>7 DEF Cache!Forget, Cache!vars, stage
<1>8. ASSUME NEW t \in Thread, NullContext(t) \/ CallThrows(t)
      PROVE  UNCHANGED <<pc, key, answer, store>>
  BY <1>8 DEF NullContext, CallThrows, Crash
<1>9. CASE RedisStops \/ RedisStarts \/ Ended \/ UNCHANGED vars
  BY <1>7, <1>9 DEF RedisStops, RedisStarts, Ended, vars, Cache!Next
<1> QED
  BY <1>1, <1>2, <1>3, <1>4, <1>5, <1>6, <1>7, <1>8, <1>9 DEF Next, ThreadStep, Cache!Next

\* However many threads share the client, lose its connection or race for its creation:
\* each request is answered from its own key or its own call, and nothing else is
\* stored (front_conn.cpp:389-436, redis.hpp:60-256).
THEOREM ServiceImplementsCache == Spec => CacheSpec
<1>1. Init => Cache!Init
  BY DEF Init, Cache!Init, stage
<1>2. TypeOK /\ [Next]_vars => [Cache!Next]_(Cache!vars)
  BY CacheStep
<1> QED
  BY <1>1, <1>2, ServiceTypes, PTL DEF Spec, CacheSpec, Cache!Spec
==============================================================================
