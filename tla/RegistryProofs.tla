---------------------------- MODULE RegistryProofs ----------------------------
(***************************************************************************)
(* ConnPool implements ConnRegistry: every step maps to a step of the      *)
(* abstract registry or to a stutter.  The steps use IInv, which           *)
(* ConnPoolProofs shows to be invariant.                                   *)
(***************************************************************************)
EXTENDS ConnPoolProofs

USE ConnAssumption, WheelAssumption, ServeAssumption
USE DEF registryVars, connVars, ioVars, acceptVars, manageVars, coVars,
        manageOthers, coOthers

\* A new connection is admitted, with an object nobody uses
\* (http_server.cpp:101-121).
LEMMA AdmitStep ==
  ASSUME IInv, NEW c \in Conn, accept_pc = "insert", Quiet(c), c \notin front_conns,
         register(c), cache_now' = cache_now \ {c}
  PROVE  Registry!Admit(c)
<1>0. TypeOK /\ LocalsHeld /\ CountIsRight
  BY DEF IInv
<1>1. Cardinality(front_conns) < MaxServe
  BY <1>0 DEF CountIsRight
<1>2. used_now' = used_now \cup {c}
  BY <1>0 DEF register, used_now, Quiet, Busy, LocalsHeld
<1>3. c \notin front_conns \cup used_now
  BY DEF used_now
<1>4. front_conns' = front_conns \cup {c}
  BY DEF register
<1>5. Registry!Cardinality(front_conns) = Cardinality(front_conns)
  BY DEF Registry!Cardinality, Cardinality
<1> QED
  BY <1>1, <1>2, <1>3, <1>4, <1>5 DEF Registry!Admit

\* Steps that change nothing the registry sees.
LEMMA Stutter ==
  ASSUME UNCHANGED <<front_conns, cached_conns, ioVars, new_c>>
  PROVE  UNCHANGED Registry!vars
<1>1. cache_now' = cache_now
  BY DEF cache_now, Cached
<1>2. used_now' = used_now
  BY DEF used_now, Quiet, Busy
<1> QED
  BY <1>1, <1>2 DEF Registry!vars

\* The end of the process.
LEMMA EndStep ==
  ASSUME NEW why, Crash(why)
  PROVE  Registry!Next
<1>1. front_conns' = {} /\ cache_now' = {} /\ used_now' = {}
  BY DEF Crash, cache_now, used_now, Cached, Quiet, Busy
<1> QED
  BY <1>1 DEF Registry!Next, Registry!End

\* The handlers of a connection only ever finish its use.
LEMMA HandlerMaps ==
  ASSUME IInv, NEW c \in Conn, Completion(c) \/ HandlerStep(c) \/ GrowOverdue(c)
  PROVE  Registry!Next \/ UNCHANGED Registry!vars
<1>0. TypeOK
  BY DEF IInv
<1>1. UNCHANGED <<front_conns, cache_now>>
  BY <1>0, HandlerFrame DEF cache_now, Cached
<1>2. \A d \in Conn \ {c} : Quiet(d)' <=> Quiet(d)
  BY <1>0, HandlerFrame DEF Quiet, Busy
<1>3. Quiet(c) => Quiet(c)'
  BY <1>0, HandlerFrame DEF Quiet, Busy
<1>4. CASE Quiet(c)' /\ ~Quiet(c)
  <2>1. used_now' = used_now \ {c} /\ c \in used_now
    BY <1>2, <1>4 DEF used_now
  <2> QED
    BY <1>1, <2>1 DEF Registry!Next, Registry!Finish
<1>5. CASE Quiet(c)' <=> Quiet(c)
  <2>1. used_now' = used_now
    BY <1>2, <1>5 DEF used_now
  <2> QED
    BY <1>1, <2>1 DEF Registry!vars
<1> QED
  BY <1>3, <1>4, <1>5

\* accept_handler admits clients and, at its end, drops its own pointer.
LEMMA AcceptMaps ==
  ASSUME IInv, Accept \/ AcceptError \/ AcceptThrow \/ AcceptHandlerStep
  PROVE  Registry!Next \/ UNCHANGED Registry!vars
<1>0. TypeOK /\ LocalsHeld /\ RecycledIsQuiet /\ CacheSound /\ UsedIsRegistered
  BY DEF IInv
<1>1. CASE Accept \/ AcceptError \/ Reject \/ StartNew
  BY <1>1, Stutter DEF Accept, AcceptError, Reject, StartNew
<1>2. CASE AcceptThrow
  BY <1>2, EndStep DEF AcceptThrow
<1>3. CASE InsertCached
  <2> DEFINE c == Head(cached_conns)
  <2>1. CASE use_count(c) = 1
    <3>1. /\ cached_conns # <<>> /\ cached_conns' = Tail(cached_conns)
          /\ register(c) /\ accept_pc = "insert"
      BY <1>3, <2>1 DEF InsertCached
    <3>2. /\ c \in Conn /\ Cached(c) /\ \A d \in Conn : Cached(d)' => Cached(d) /\ d # c
      BY <1>0, <3>1, TakenFromCache
    <3>3. \A d \in Conn : Cached(d) /\ d # c => Cached(d)'
      <4>1. /\ cached_conns \in Seq(Conn) /\ c = cached_conns[1]
            /\ \A i \in DOMAIN cached_conns : i # 1 => /\ i - 1 \in DOMAIN cached_conns'
                                                   /\ cached_conns'[i - 1] = cached_conns[i]
        BY <1>0, <3>1 DEF TypeOK
      <4> QED
        BY <4>1 DEF Cached
    <3>4. cache_now' = cache_now \ {c}
      BY <3>2, <3>3 DEF cache_now
    <3>5. Quiet(c) /\ c \notin front_conns
      BY <1>0, <3>2 DEF RecycledIsQuiet, CacheSound
    <3> QED
      BY <3>1, <3>2, <3>4, <3>5, AdmitStep DEF Registry!Next
  <2>2. CASE use_count(c) # 1
    BY <1>3, <2>2, EndStep DEF InsertCached
  <2> QED
    BY <2>1, <2>2
<1>4. CASE InsertFresh
  <2>1. PICK c \in Conn : Fresh(c) /\ register(c) /\ UNCHANGED cached_conns
    BY <1>4 DEF InsertFresh
  <2>2. Quiet(c) /\ c \notin front_conns /\ ~Cached(c)
    BY <1>0, <2>1, UseCount DEF Fresh
  <2>3. cache_now' = cache_now \ {c}
    BY <2>1, <2>2 DEF cache_now, Cached
  <2> QED
    BY <1>4, <2>1, <2>2, <2>3, AdmitStep DEF Registry!Next, InsertFresh
<1>5. CASE ReadNew
  <2>1. new_c \in Conn /\ ~Quiet(new_c) /\ ~Quiet(new_c)' /\ new_c' = new_c
    BY <1>0, <1>5 DEF ReadNew, TypeOK, LocalsHeld, Quiet, Busy
  <2>2. \A d \in Conn \ {new_c} : Quiet(d)' <=> Quiet(d)
    BY <1>0, <1>5 DEF ReadNew, do_read, TypeOK, Quiet, Busy
  <2>3. used_now' = used_now
    BY <2>1, <2>2 DEF used_now
  <2>4. front_conns' = front_conns /\ cache_now' = cache_now
    BY <1>5 DEF ReadNew, cache_now, Cached
  <2> QED
    BY <2>3, <2>4 DEF Registry!vars
<1>6. CASE AcceptAgain
  <2>1. new_c \in Conn /\ ~Quiet(new_c)
    BY <1>0, <1>6 DEF AcceptAgain, TypeOK, LocalsHeld, Quiet, Busy
  <2>2. \A d \in Conn \ {new_c} : Quiet(d)' <=> Quiet(d)
    BY <1>0, <1>6 DEF AcceptAgain, Quiet, Busy
  <2>3. used_now' = used_now \/ used_now' = used_now \ {new_c}
    BY <2>1, <2>2 DEF used_now
  <2>4. front_conns' = front_conns /\ cache_now' = cache_now /\ new_c \in used_now
    BY <1>6, <2>1 DEF AcceptAgain, cache_now, Cached, used_now
  <2> QED
    BY <2>1, <2>3, <2>4 DEF Registry!vars, Registry!Next, Registry!Finish
<1> QED
  BY <1>1, <1>2, <1>3, <1>4, <1>5, <1>6 DEF AcceptHandlerStep

\* manage_thread retires what is unused and recycles what is retired.
LEMMA ManageMaps ==
  ASSUME IInv, ManageTimeout \/ ManageSpurious \/ ManageStep
  PROVE  Registry!Next \/ UNCHANGED Registry!vars
<1>0. TypeOK /\ LocalsHeld /\ RecycledIsQuiet /\ ItemIsDead
  BY DEF IInv
<1>1. CASE ManageErase
  <2>1. item \in Conn /\ item \in front_conns /\ Quiet(item)
    BY <1>0, <1>1 DEF ManageErase, TypeOK, LocalsHeld, ItemIsDead, RecycledIsQuiet
  <2>2. /\ front_conns' = front_conns \ {item}
        /\ cache_now' = cache_now /\ used_now' = used_now
    BY <1>1 DEF ManageErase, cache_now, used_now, Cached, Quiet, Busy
  <2> QED
    BY <2>1, <2>2 DEF Registry!Next, Registry!Retire, used_now
<1>2. CASE ManageCache
  <2>1. item \in Conn /\ item \notin front_conns /\ Quiet(item) /\ ~Cached(item)
    BY <1>0, <1>2 DEF ManageCache, TypeOK, LocalsHeld, ItemIsDead, RecycledIsQuiet
  <2>2. \A c \in Conn : Cached(c)' <=> Cached(c) \/ c = item
    <3> DEFINE n == Len(cached_conns)
    <3>1. cached_conns \in Seq(Conn) /\ cached_conns' = Append(cached_conns, item)
      BY <1>0, <1>2 DEF ManageCache, TypeOK
    <3>2. /\ n \in Nat /\ DOMAIN cached_conns = 1..n /\ DOMAIN cached_conns' = 1..(n + 1)
          /\ cached_conns'[n + 1] = item
          /\ \A i \in 1..n : cached_conns'[i] = cached_conns[i]
      BY <2>1, <3>1
    <3>3. \A i \in 1..(n + 1) : i \in 1..n \/ i = n + 1
      BY <3>2
    <3>4. n + 1 \in 1..(n + 1) /\ \A i \in 1..n : i \in 1..(n + 1)
      BY <3>2
    <3> HIDE DEF n
    <3> QED
      BY <3>2, <3>3, <3>4, Zenon DEF Cached
  <2>3. /\ cache_now' = cache_now \cup {item}
        /\ front_conns' = front_conns /\ used_now' = used_now
    BY <1>2, <2>1, <2>2 DEF ManageCache, cache_now, used_now, Quiet, Busy
  <2> QED
    BY <2>1, <2>3 DEF Registry!Next, Registry!Recycle, used_now, cache_now
<1>3. CASE ~ManageErase /\ ~ManageCache
  <2>1. CASE Crash("WashWorking") \/ Crash("CountMismatch")
    BY <2>1, EndStep
  <2>2. CASE ~Crash("WashWorking") /\ ~Crash("CountMismatch")
    <3>1. UNCHANGED <<front_conns, cached_conns, ioVars, new_c>>
      BY <1>3, <2>2 DEF ManageTimeout, ManageSpurious, ManageStep, ManageWait,
         ManageShow, ManageWoken, ManageCheck, ManageWash, ManageDone
    <3> QED
      BY <3>1, Stutter
  <2> QED
    BY <2>1, <2>2
<1> QED
  BY <1>1, <1>2, <1>3

\* The detailed specification implements the abstract registry, for every set
\* of connections, limit, wheel and pool.
THEOREM Refinement == Spec => RegistrySpec
<1>1. Init => Registry!Init
  BY DEF Init, Blank, Registry!Init, cache_now, used_now, Cached, Quiet, Busy
<1>2. IInv /\ [Next]_vars => [Registry!Next]_(Registry!vars)
  <2> SUFFICES ASSUME IInv, [Next]_vars
               PROVE  Registry!Next \/ UNCHANGED Registry!vars
    OBVIOUS
  <2>1. ASSUME NEW c \in Conn, Completion(c) \/ HandlerStep(c) \/ GrowOverdue(c)
        PROVE  Registry!Next \/ UNCHANGED Registry!vars
    BY <2>1, HandlerMaps
  <2>2. CASE Accept \/ AcceptError \/ AcceptThrow \/ AcceptHandlerStep
    BY <2>2, AcceptMaps
  <2>3. CASE ManageTimeout \/ ManageSpurious \/ ManageStep
    BY <2>3, ManageMaps
  <2>4. CASE CoWorkerStep
    BY <2>4, CoWorkerFrame, EndStep, Stutter DEF IInv
  <2>5. CASE \E c \in Conn : ServeThrow(c)
    BY <2>5, EndStep DEF ServeThrow
  <2>6. CASE Ended \/ UNCHANGED vars
    BY <2>6, Stutter DEF Ended, vars
  <2> QED
    BY <2>1, <2>2, <2>3, <2>4, <2>5, <2>6 DEF Next, Environment
<1> QED
  BY Invariance, <1>1, <1>2, PTL DEF Spec, RegistrySpec, Registry!Spec
==============================================================================
