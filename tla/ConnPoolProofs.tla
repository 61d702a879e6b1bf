---------------------------- MODULE ConnPoolProofs ----------------------------
(***************************************************************************)
(* Proofs about ConnPool for every set of connections, every wheel size,   *)
(* every limit and every size of the thread pool.                          *)
(***************************************************************************)
EXTENDS ConnPoolInv, FiniteSetTheorems, TLAPS

USE ConnAssumption, WheelAssumption, ServeAssumption

------------------------------------------------------------------------------
(* The reference count.                                                    *)

\* An object nobody owns is nowhere; a cached one with one owner is nowhere
\* else; a pending registered one that manage_thread takes is idle
\* (manage.cpp:156).
LEMMA UseCount ==
  ASSUME TypeOK, NEW c \in Conn
  PROVE  /\ use_count(c) = 0 =>
              ~Cached(c) /\ Quiet(c) /\ c \notin front_conns /\ c # item
         /\ Cached(c) /\ use_count(c) = 1 => Quiet(c) /\ c \notin front_conns
         /\ c \in front_conns /\ c \in pending_to_remove /\ ~StillInUse(c) =>
              ~Cached(c) /\ Quiet(c)
<1> DEFINE a == Bit(c \in front_conns)
           b == Bit(c \in pending_to_remove)
           d == Bit(Cached(c))
           l == LocalRefs(c)
           o == AsioRefs(c)
<1>1. /\ a \in {0, 1} /\ b \in {0, 1} /\ d \in {0, 1}
      /\ a = 0 <=> c \notin front_conns
      /\ b = 0 <=> c \notin pending_to_remove
      /\ d = 0 <=> ~Cached(c)
  BY DEF Bit
<1>2. l \in Nat /\ (l = 0 => c # item /\ c # new_c)
  BY DEF LocalRefs, Bit
<1>3. write_ops[c] \in Nat
  BY DEF TypeOK
<1>4. o \in Nat /\ (o = 0 => read_op[c] = "none" /\ write_ops[c] = 0 /\ handler[c] = "none")
  BY <1>3 DEF AsioRefs, Bit
<1>5. use_count(c) = a + b + d + l + o
  BY DEF use_count
<1> HIDE DEF a, b, d, l, o
<1>6. StillInUse(c) <=> a + b + d + l + o + 1 > 3
  BY <1>5 DEF StillInUse
<1>7. l = 0 /\ o = 0 => Quiet(c)
  BY <1>2, <1>4 DEF Quiet, Busy
<1> QED
  BY <1>1, <1>2, <1>4, <1>5, <1>6, <1>7

\* The object that accept_handler takes from the front of the cache is not in
\* the rest of it (http_server.cpp:104-109).
LEMMA TakenFromCache ==
  ASSUME TypeOK, CacheSound, cached_conns # <<>>, cached_conns' = Tail(cached_conns)
  PROVE  /\ Head(cached_conns) \in Conn /\ Cached(Head(cached_conns))
         /\ \A d \in Conn : Cached(d)' => Cached(d) /\ d # Head(cached_conns)
         /\ Len(cached_conns') = Len(cached_conns) - 1
         /\ \A i, j \in DOMAIN cached_conns' : cached_conns'[i] = cached_conns'[j] => i = j
<1>1. cached_conns \in Seq(Conn)
  BY DEF TypeOK
<1>2. /\ Head(cached_conns) = cached_conns[1] /\ cached_conns[1] \in Conn
      /\ 1 \in DOMAIN cached_conns
      /\ Len(cached_conns') = Len(cached_conns) - 1
      /\ \A i \in DOMAIN cached_conns' : /\ i + 1 \in DOMAIN cached_conns /\ i + 1 # 1
                                        /\ cached_conns'[i] = cached_conns[i + 1]
                                        /\ i \in Int
  BY <1>1
<1>3. \A i, j \in DOMAIN cached_conns : cached_conns[i] = cached_conns[j] => i = j
  BY DEF CacheSound
<1> QED
  BY <1>2, <1>3 DEF Cached

\* push_back on the full wheel moves every bucket one place to the front.
LEMMA Rotated ==
  ASSUME NEW bucket \in SUBSET Conn, timing_wheel \in [1..WheelSize -> SUBSET Conn]
  PROVE  /\ pushed_back(bucket) \in [1..WheelSize -> SUBSET Conn]
         /\ \A i \in 1..(WheelSize - 1) : pushed_back(bucket)[i] = timing_wheel[i + 1]
         /\ pushed_back(bucket)[WheelSize] = bucket
<1> DEFINE rest == Tail(timing_wheel)
<1>1. timing_wheel \in Seq(SUBSET Conn) /\ Len(timing_wheel) = WheelSize
  OBVIOUS
<1>2. /\ rest \in Seq(SUBSET Conn)
      /\ Len(rest) = WheelSize - 1
      /\ \A i \in 1..(WheelSize - 1) : rest[i] = timing_wheel[i + 1]
  BY <1>1
<1> HIDE DEF rest
<1>3. /\ Append(rest, bucket) \in Seq(SUBSET Conn)
      /\ Len(Append(rest, bucket)) = WheelSize
      /\ \A i \in 1..(WheelSize - 1) : Append(rest, bucket)[i] = rest[i]
      /\ Append(rest, bucket)[WheelSize] = bucket
  BY <1>2
<1> DEFINE all == Append(rest, bucket)
<1>4. all \in [1..WheelSize -> SUBSET Conn]
  <2> HIDE DEF all
  <2> SUFFICES ASSUME all \in Seq(SUBSET Conn), Len(all) = WheelSize
               PROVE  all \in [1..WheelSize -> SUBSET Conn]
    BY <1>3 DEF all
  <2> QED OBVIOUS
<1>5. pushed_back(bucket) = Append(rest, bucket)
  BY DEF pushed_back, rest
<1> QED
  BY <1>2, <1>3, <1>4, <1>5

------------------------------------------------------------------------------
(* Every step of every thread preserves IInv: one lemma per conjunct, one   *)
(* case per thread in it.                                                   *)

USE DEF registryVars, connVars, ioVars, acceptVars, manageVars, coVars,
        manageOthers, coOthers

\* A process that ends is left with empty memory: every conjunct but those that
\* look at fault holds of it.
LEMMA CrashSafe ==
  ASSUME NEW why, Crash(why)
  PROVE  /\ LocalsHeld' /\ RecycledIsQuiet' /\ SocketWhileInUse' /\ CacheSound'
         /\ ItemIsDead' /\ UsedIsRegistered' /\ NewIsIdle' /\ StatsFollow'
         /\ ScanIsSound' /\ NeverForgotten' /\ CountIsRight'
<1>1. \A c \in Conn : Quiet(c)' /\ ~Cached(c)'
  BY DEF Crash, Quiet, Busy, Cached
<1>2. LocalsHeld' /\ ItemIsDead' /\ NewIsIdle' /\ StatsFollow' /\ ScanIsSound'
      /\ NeverForgotten'
  BY DEF Crash, LocalsHeld, ItemIsDead, NewIsIdle, StatsFollow, ScanIsSound,
         ManageHoldsLocks, NeverForgotten
<1>3. RecycledIsQuiet' /\ SocketWhileInUse' /\ UsedIsRegistered' /\ CacheSound'
  BY <1>1 DEF Crash, RecycledIsQuiet, SocketWhileInUse, UsedIsRegistered, CacheSound
<1>4. CountIsRight'
  BY FS_EmptySet DEF Crash, CountIsRight
<1> QED
  BY <1>2, <1>3, <1>4

LEMMA CrashType ==
  ASSUME NEW why \in {"remote_endpoint", "serve", "SoleOwner", "PendingNotCached", "NullSocket",
                       "WashWorking", "CountMismatch"},
         Crash(why)
  PROVE  TypeOK'
<1>1. cached_conns' \in Seq(Conn) /\ current_conns_cnt' \in Int
  BY DEF Crash
<1>2. timing_wheel' \in [1..WheelSize -> SUBSET Conn]
  BY DEF Crash
<1> QED
  BY <1>1, <1>2 DEF Crash, TypeOK

\* do_read_head and do_read_body arm a read or leave things alone.
LEMMA DoReadType ==
  ASSUME TypeOK, NEW c, do_read(c)
  PROVE  /\ read_op' \in [Conn -> {"none", "armed", "aborted"}]
         /\ overdue' \in [Conn -> BOOLEAN]
BY DEF TypeOK, do_read

\* A handler's step changes stats_, touch_time_ and the operations, nothing else.
LEMMA HandlerType ==
  ASSUME TypeOK,
         UNCHANGED <<registryVars, p_sock, acceptVars, manageVars, coVars, fault>>,
         stats' \in [Conn -> {"working", "pending", "error"}],
         overdue' \in [Conn -> BOOLEAN],
         read_op' \in [Conn -> {"none", "armed", "aborted"}],
         write_ops' \in [Conn -> Nat],
         handler' \in [Conn -> {"none", "serve", "reply", "start", "rearm", "push",
                              "notify", "leave"}]
  PROVE  TypeOK'
<1>1. /\ front_conns' \subseteq Conn /\ cached_conns' \in Seq(Conn)
      /\ pending_to_remove' \subseteq Conn /\ current_conns_cnt' \in Int
      /\ timing_wheel' \in [1..WheelSize -> SUBSET Conn]
      /\ p_sock' \in [Conn -> {"null", "open", "shut"}]
  BY DEF TypeOK
<1>2. TypeOK
  OBVIOUS
<1> QED
  BY <1>1, <1>2 DEF TypeOK

\* Every variable keeps its type.
LEMMA TypeStep ==
  ASSUME IInv, Next
  PROVE  TypeOK'
<1>0. TypeOK
  BY DEF IInv
<1>l. LocalsHeld
  BY DEF IInv
<1>w. write_ops \in [Conn -> Nat]
  BY <1>0 DEF TypeOK
<1>h. handler \in [Conn -> {"none", "serve", "reply", "start", "rearm", "push", "notify",
                           "leave"}]
  BY <1>0 DEF TypeOK
<1>1. ASSUME NEW c \in Conn, Completion(c) \/ HandlerStep(c) \/ GrowOverdue(c)
      PROVE  TypeOK'
  <2>1. CASE ReadServe(c)
    BY <1>0, <2>1 DEF TypeOK, ReadServe
  <2>2. CASE ReadAborted(c)
    BY <1>0, <2>2 DEF TypeOK, ReadAborted
  <2>3. CASE ReadFail(c)
    BY <1>0, <2>3 DEF TypeOK, ReadFail, fail, set_stats
  <2>4. CASE WriteDone(c)
    <3>1. write_ops' \in [Conn -> Nat]
      BY <1>w, <2>4 DEF WriteDone
    <3> QED
      BY <1>0, <2>4, <3>1 DEF TypeOK, WriteDone
  <2>5. CASE WriteFail(c)
    <3>1. write_ops' \in [Conn -> Nat]
      BY <1>w, <2>5 DEF WriteFail
    <3>2. read_op' \in [Conn -> {"none", "armed", "aborted"}]
      <4>1. read_op \in [Conn -> {"none", "armed", "aborted"}]
        BY <1>0 DEF TypeOK
      <4>2. read_op' = read_op \/ read_op' = [read_op EXCEPT ![c] = "aborted"]
        BY <2>5 DEF WriteFail, cancel_read
      <4> QED
        BY <4>1, <4>2
    <3>3. UNCHANGED <<registryVars, p_sock, overdue, acceptVars, manageVars, coVars, fault>>
      BY <2>5 DEF WriteFail
    <3>4. stats' \in [Conn -> {"working", "pending", "error"}]
      BY <1>0, <2>5 DEF TypeOK, WriteFail, fail, set_stats
    <3>5. handler' \in [Conn -> {"none", "serve", "reply", "start", "rearm", "push",
                              "notify", "leave"}]
      BY <1>h, <2>5 DEF WriteFail, fail
    <3>6. overdue' \in [Conn -> BOOLEAN]
      BY <1>0, <3>3 DEF TypeOK
    <3> QED
      BY <1>0, <3>1, <3>2, <3>3, <3>4, <3>5, <3>6, HandlerType
  <2>6. CASE MoreBody(c)
    BY <2>6, <1>0, DoReadType DEF TypeOK, MoreBody
  <2>7. CASE EmptyBody(c)
    BY <1>0, <2>7 DEF TypeOK, EmptyBody, fail, set_stats
  <2>8. CASE Reply(c)
    <3>1. write_ops' \in [Conn -> Nat]
      BY <1>w, <2>8 DEF Reply
    <3>2. overdue' \in [Conn -> BOOLEAN]
      BY <1>0, <2>8 DEF TypeOK, Reply
    <3>3. UNCHANGED <<registryVars, stats, p_sock, read_op, acceptVars, manageVars,
                      coVars, fault>>
      BY <2>8 DEF Reply
    <3>4. handler' \in [Conn -> {"none", "serve", "reply", "start", "rearm", "push",
                              "notify", "leave"}]
      BY <1>h, <2>8 DEF Reply
    <3>5. /\ stats' \in [Conn -> {"working", "pending", "error"}]
          /\ read_op' \in [Conn -> {"none", "armed", "aborted"}]
      BY <1>0, <3>3 DEF TypeOK
    <3> QED
      BY <1>0, <3>1, <3>2, <3>3, <3>4, <3>5, HandlerType
  <2>9. CASE Start(c)
    BY <1>0, <2>9 DEF TypeOK, Start, set_stats
  <2>10. CASE Rearm(c)
    BY <2>10, <1>0, DoReadType DEF TypeOK, Rearm
  <2>11. CASE PushError(c)
    BY <1>0, <2>11 DEF TypeOK, PushError, push_to_remove
  <2>12. CASE NotifyError(c)
    BY <1>0, <2>12 DEF TypeOK, NotifyError, notify_one
  <2>13. CASE Leave(c)
    BY <1>0, <2>13 DEF TypeOK, Leave
  <2>14. CASE GrowOverdue(c)
    BY <1>0, <2>14 DEF TypeOK, GrowOverdue
  <2> QED
    BY <1>1, <2>1, <2>2, <2>3, <2>4, <2>5, <2>6, <2>7, <2>8, <2>9, <2>10, <2>11, <2>12, <2>13, <2>14
    DEF Completion, HandlerStep
<1>2. CASE Accept \/ AcceptError \/ AcceptThrow \/ AcceptHandlerStep
  <2>1. CASE Accept
    BY <1>0, <2>1 DEF TypeOK, Accept
  <2>2. CASE AcceptError
    BY <1>0, <2>2 DEF TypeOK, AcceptError
  <2>3. CASE AcceptThrow
    BY <1>0, <2>3, CrashType DEF TypeOK, AcceptThrow
  <2>4. CASE Reject
    BY <1>0, <2>4 DEF TypeOK, Reject
  <2>5. CASE InsertCached
    <3>1. Head(cached_conns) \in Conn /\ Tail(cached_conns) \in Seq(Conn)
      BY <1>0, <2>5 DEF TypeOK, InsertCached
    <3>2. CASE use_count(Head(cached_conns)) = 1
      <4>1. cached_conns' = Tail(cached_conns) /\ register(Head(cached_conns))
            /\ UNCHANGED stats
        BY <2>5, <3>2 DEF InsertCached
      <4> QED
        BY <1>0, <3>1, <4>1 DEF TypeOK, register, back_insert
    <3>3. CASE use_count(Head(cached_conns)) # 1
      BY <2>5, <3>3, CrashType DEF InsertCached
    <3> QED
      BY <3>2, <3>3
  <2>6. CASE InsertFresh
    BY <1>0, <2>6 DEF TypeOK, InsertFresh, register, back_insert, set_stats
  <2>7. CASE StartNew
    BY <1>0, <1>l, <2>7 DEF TypeOK, LocalsHeld, StartNew, set_stats
  <2>8. CASE ReadNew
    BY <1>0, <2>8, DoReadType DEF TypeOK, ReadNew
  <2>9. CASE AcceptAgain
    BY <1>0, <2>9 DEF TypeOK, AcceptAgain
  <2> QED
    BY <1>2, <2>1, <2>2, <2>3, <2>4, <2>5, <2>6, <2>7, <2>8, <2>9
    DEF AcceptHandlerStep
<1>3. CASE ManageTimeout \/ ManageSpurious \/ ManageStep
  <2>1. CASE ManageTimeout
    BY <1>0, <2>1 DEF TypeOK, ManageTimeout
  <2>2. CASE ManageSpurious
    BY <1>0, <2>2 DEF TypeOK, ManageSpurious
  <2>3. CASE ManageWait
    BY <1>0, <2>3 DEF TypeOK, ManageWait
  <2>4. CASE ManageShow
    BY <1>0, <2>4 DEF TypeOK, ManageShow
  <2>5. CASE ManageWoken
    BY <1>0, <2>5 DEF TypeOK, ManageWoken
  <2>6. CASE ManageCheck
    <3>1. timing_wheel' \in [1..WheelSize -> SUBSET Conn]
      BY <1>0, <2>6 DEF TypeOK, ManageCheck, back_insert
    <3> QED
      BY <1>0, <2>6, <3>1 DEF TypeOK, ManageCheck
  <2>7. CASE ManageErase
    BY <1>0, <2>7 DEF TypeOK, ManageErase
  <2>8. CASE ManageWash
    <3>1. CASE stats[item] = "working"
      BY <2>8, <3>1, CrashType DEF ManageWash
    <3>2. CASE ~(stats[item] = "working")
      BY <1>l, <1>0, <2>8, <3>2 DEF TypeOK, LocalsHeld, ManageWash
    <3> QED
      BY <3>1, <3>2
  <2>9. CASE ManageCache
    BY <1>0, <2>9, <1>l DEF TypeOK, ManageCache, LocalsHeld
  <2>10. CASE ManageDone
    <3>1. CASE current_conns_cnt # Cardinality(front_conns)
      BY <2>10, <3>1, CrashType DEF ManageDone
    <3>2. CASE ~(current_conns_cnt # Cardinality(front_conns))
      BY <1>0, <2>10, <3>2 DEF TypeOK, ManageDone
    <3> QED
      BY <3>1, <3>2
  <2> QED
    BY <1>3, <2>1, <2>2, <2>3, <2>4, <2>5, <2>6, <2>7, <2>8, <2>9, <2>10
    DEF ManageStep
<1>4. CASE CoWorkerStep
  <2>1. CASE WheelTick
    BY <1>0, <2>1 DEF TypeOK, WheelTick
  <2>2. CASE WheelLock
    BY <1>0, <2>2 DEF TypeOK, WheelLock
  <2>3. CASE WheelStats
    <3>1. CASE Crash("PendingNotCached")
      BY <3>1, CrashType
    <3>2. CASE ~Crash("PendingNotCached")
      <4>1. /\ UNCHANGED <<registryVars, connVars, co_todo, notify_flag, coOthers, manageVars,
                           fault>>
            /\ front_modi' \subseteq front_modi
            /\ conn' \in {conn, NULL}
            /\ co_pc' \in {"scan", "shut"}
        BY <2>3, <3>2 DEF WheelStats
      <4> QED
        BY <1>0, <4>1 DEF TypeOK
    <3> QED
      BY <3>1, <3>2
  <2>4. CASE WheelShut
    <3>1. CASE p_sock[conn] = "null"
      BY <2>4, <3>1, CrashType DEF WheelShut
    <3>2. CASE ~(p_sock[conn] = "null")
      BY <1>l, <1>0, <2>4, <3>2 DEF TypeOK, LocalsHeld, WheelShut
    <3> QED
      BY <3>1, <3>2
  <2>5. CASE WheelError
    BY <1>0, <1>l, <2>5 DEF TypeOK, LocalsHeld, WheelError
  <2>6. CASE WheelPush
    BY <1>0, <1>l, <2>6 DEF TypeOK, LocalsHeld, WheelPush, push_to_remove
  <2>7. CASE WheelNotify
    BY <1>0, <2>7 DEF TypeOK, WheelNotify, notify_one
  <2>8. CASE WheelRotate
    <3>1. timing_wheel' \in [1..WheelSize -> SUBSET Conn]
      BY <1>0, <2>8, Rotated DEF TypeOK, WheelRotate
    <3>2. /\ front_modi' = {} /\ notify_flag' = FALSE /\ co_pc' = "sleep"
          /\ UNCHANGED <<front_conns, cached_conns, pending_to_remove, current_conns_cnt,
                 connVars, co_todo, conn, coOthers, manageVars, fault>>
      BY <2>8 DEF WheelRotate
    <3>3. (notify_flag \in BOOLEAN)'
      BY <3>2
    <3>4. (front_modi \subseteq Conn)'
      BY <3>2
    <3> QED
      BY <1>0, <3>1, <3>2, <3>3, <3>4 DEF TypeOK
  <2> QED
    BY <1>4, <2>1, <2>2, <2>3, <2>4, <2>5, <2>6, <2>7, <2>8
    DEF CoWorkerStep
<1>5. CASE Ended \/ \E c \in Conn : ServeThrow(c)
  <2>1. CASE Ended
    BY <1>0, <2>1 DEF TypeOK, Ended, vars
  <2>2. CASE \E c \in Conn : ServeThrow(c)
    BY <2>2, CrashType DEF ServeThrow
  <2> QED
    BY <1>5, <2>1, <2>2
<1> QED
  BY <1>1, <1>2, <1>3, <1>4, <1>5 DEF Next, Environment

\* The pointers of the threads are set where they are used.
LEMMA LocalsStep ==
  ASSUME IInv, Next
  PROVE  LocalsHeld'
<1>0. TypeOK /\ LocalsHeld
  BY DEF IInv
<1>1. ASSUME NEW c \in Conn, Completion(c) \/ HandlerStep(c) \/ GrowOverdue(c)
      PROVE  LocalsHeld'
  BY <1>0, <1>1 DEF LocalsHeld, Completion, HandlerStep, ReadServe, ReadAborted,
     ReadFail, WriteDone, WriteFail, MoreBody, EmptyBody, Reply, Start, Rearm,
     PushError, NotifyError, notify_one, Leave, GrowOverdue
<1>2. CASE Accept \/ AcceptError \/ AcceptThrow \/ AcceptHandlerStep
  BY <1>0, <1>2, CrashSafe DEF TypeOK, LocalsHeld, Accept, AcceptError, AcceptThrow,
     AcceptHandlerStep, Reject, InsertCached, InsertFresh, register, StartNew, ReadNew,
     AcceptAgain
<1>3. CASE ManageTimeout \/ ManageSpurious \/ ManageStep
  BY <1>0, <1>3, CrashSafe DEF TypeOK, LocalsHeld, ManageTimeout, ManageSpurious,
     ManageStep, ManageWait, ManageShow, ManageWoken, ManageCheck, ManageErase,
     ManageWash, ManageCache, ManageDone
<1>4. CASE CoWorkerStep
  BY <1>0, <1>4, CrashSafe DEF TypeOK, LocalsHeld, CoWorkerStep, WheelTick, WheelLock,
     WheelStats, WheelShut, WheelError, WheelPush, WheelNotify, notify_one, WheelRotate
<1>5. CASE Ended \/ \E c \in Conn : ServeThrow(c)
  BY <1>0, <1>5, CrashSafe DEF ServeThrow, LocalsHeld, Ended, vars
<1> QED
  BY <1>1, <1>2, <1>3, <1>4, <1>5 DEF Next, Environment

\* A handler of c runs only for an object in use, changes only what belongs to
\* c, and neither the map, the cache, the wheel nor another thread's locals.
LEMMA HandlerFrame ==
  ASSUME TypeOK, NEW c \in Conn,
         Completion(c) \/ HandlerStep(c) \/ GrowOverdue(c)
  PROVE  /\ ~Quiet(c) \/ UNCHANGED <<ioVars, stats>>
         /\ \A d \in Conn \ {c} : /\ read_op'[d] = read_op[d]
                                 /\ handler'[d] = handler[d]
                                 /\ write_ops'[d] = write_ops[d]
                                 /\ stats'[d] = stats[d]
         /\ UNCHANGED <<front_conns, cached_conns, timing_wheel, current_conns_cnt,
                        p_sock, acceptVars, coVars, manage_todo, item, fault>>
         /\ ManageHoldsLocks' <=> ManageHoldsLocks
         /\ UNCHANGED pending_to_remove \/ (~ManageHoldsLocks /\ pending_to_remove' =
                                               pending_to_remove \cup {c})
<1> USE DEF Completion, HandlerStep, ReadServe, ReadAborted, ReadFail, WriteDone,
        WriteFail, MoreBody, EmptyBody, Reply, Start, Rearm, PushError, NotifyError, Leave,
        GrowOverdue
<1>1. ~Quiet(c) \/ UNCHANGED <<ioVars, stats>>
  BY DEF TypeOK, Quiet, Busy
<1>2. \A d \in Conn \ {c} : /\ read_op'[d] = read_op[d]
                           /\ handler'[d] = handler[d]
                           /\ write_ops'[d] = write_ops[d]
                           /\ stats'[d] = stats[d]
  BY DEF TypeOK, fail, set_stats, cancel_read, do_read
<1>3. UNCHANGED <<front_conns, cached_conns, timing_wheel, current_conns_cnt,
                  p_sock, acceptVars, coVars, manage_todo, item, fault>>
  BY DEF push_to_remove, notify_one
<1>4. ManageHoldsLocks' <=> ManageHoldsLocks
  BY DEF ManageHoldsLocks, notify_one
<1>5. UNCHANGED pending_to_remove \/ (~ManageHoldsLocks /\ pending_to_remove' =
                                         pending_to_remove \cup {c})
  BY DEF push_to_remove, conn_notify_mutex_free
<1> QED
  BY <1>1, <1>2, <1>3, <1>4, <1>5

\* A step of co_worker ends the process, or leaves the map, the cache and the
\* operations alone; it may only mark objects dead and shut their sockets.
LEMMA CoWorkerFrame ==
  ASSUME TypeOK, LocalsHeld, CoWorkerStep
  PROVE  \/ Crash("PendingNotCached") \/ Crash("NullSocket")
         \/ /\ UNCHANGED <<front_conns, cached_conns, current_conns_cnt, ioVars,
                           acceptVars, manage_todo, item, fault>>
            /\ manage_pc' = manage_pc \/ (manage_pc = "wait" /\ manage_pc' = "woken")
            /\ \A d \in Conn : stats'[d] \in {stats[d], "error"}
            /\ \A d \in Conn : p_sock'[d] = "null" => p_sock[d] = "null"
<1> USE DEF CoWorkerStep, WheelTick, WheelLock, push_to_remove, WheelStats, WheelShut,
            WheelError, WheelPush, WheelNotify, notify_one, WheelRotate
<1>1. CASE Crash("PendingNotCached") \/ Crash("NullSocket")
  BY <1>1
<1>2. CASE ~Crash("PendingNotCached") /\ ~Crash("NullSocket")
  <2>1. UNCHANGED <<front_conns, cached_conns, current_conns_cnt, ioVars, acceptVars,
                    manage_todo, item, fault>>
    BY <1>2
  <2>2. manage_pc' = manage_pc \/ (manage_pc = "wait" /\ manage_pc' = "woken")
    BY <1>2
  <2>3. \A d \in Conn : stats'[d] \in {stats[d], "error"}
    BY <1>2 DEF TypeOK
  <2>4. \A d \in Conn : p_sock'[d] = "null" => p_sock[d] = "null"
    BY <1>2 DEF TypeOK
  <2> QED
    BY <2>1, <2>2, <2>3, <2>4
<1> QED
  BY <1>1, <1>2

\* What is recycled is idle.
LEMMA RecycledStep ==
  ASSUME IInv, Next
  PROVE  RecycledIsQuiet'
<1>0. TypeOK /\ LocalsHeld /\ RecycledIsQuiet /\ CacheSound /\ NewIsIdle
  BY DEF IInv
<1> USE DEF RecycledIsQuiet, Quiet, Busy
<1>1. ASSUME NEW c \in Conn, Completion(c) \/ HandlerStep(c) \/ GrowOverdue(c)
      PROVE  RecycledIsQuiet'
  BY <1>0, <1>1, HandlerFrame DEF Cached
<1>2. CASE Accept \/ AcceptError \/ AcceptThrow \/ AcceptHandlerStep
  <2>1. CASE Accept \/ AcceptError \/ Reject \/ AcceptAgain \/ StartNew
    BY <1>0, <2>1 DEF Accept, AcceptError, Reject, AcceptAgain, StartNew, Cached
  <2>2. CASE AcceptThrow
    BY <2>2, CrashSafe DEF AcceptThrow
  <2>3. CASE InsertCached
    <3> DEFINE c == Head(cached_conns)
    <3>1. CASE use_count(c) = 1
      <4>1. c \in Conn /\ Cached(c) /\ \A d \in Conn : Cached(d)' => Cached(d) /\ d # c
        BY <1>0, <2>3, <3>1, TakenFromCache DEF InsertCached
      <4>2. item = NULL
        BY <1>0, <2>3 DEF InsertCached, LocalsHeld, ManageHoldsLocks, front_conns_mutex_free
      <4> QED
        BY <1>0, <2>3, <3>1, <4>1, <4>2 DEF InsertCached, register
    <3>2. CASE use_count(c) # 1
      BY <2>3, <3>2, CrashSafe DEF InsertCached
    <3> QED
      BY <3>1, <3>2
  <2>4. CASE InsertFresh
    <3>1. PICK c \in Conn : Fresh(c) /\ register(c) /\ UNCHANGED cached_conns
      BY <2>4 DEF InsertFresh
    <3>2. item = NULL
      BY <1>0, <2>4 DEF InsertFresh, LocalsHeld, ManageHoldsLocks, front_conns_mutex_free
    <3> QED
      BY <1>0, <3>1, <3>2, UseCount DEF Fresh, register, Cached
  <2>5. CASE ReadNew
    <3>1. new_c \in Conn
      BY <1>0, <2>5 DEF TypeOK, LocalsHeld, ReadNew
    <3> QED
      BY <1>0, <2>5, <3>1 DEF TypeOK, ReadNew, do_read, Cached
  <2> QED
    BY <1>2, <2>1, <2>2, <2>3, <2>4, <2>5 DEF AcceptHandlerStep
<1>3. CASE ManageTimeout \/ ManageSpurious \/ ManageStep
  <2>1. CASE ManageTimeout \/ ManageSpurious \/ ManageWait \/ ManageShow \/ ManageWoken
             \/ ManageErase \/ ManageDone \/ ManageWash
    BY <1>0, <2>1, CrashSafe DEF ManageTimeout, ManageSpurious, ManageWait, ManageShow,
       ManageWoken, ManageErase, ManageDone, ManageWash, Cached
  <2>2. CASE ManageCheck
    <3>1. PICK c \in manage_todo :
            item' = item \/ (c \in front_conns /\ ~StillInUse(c) /\ item' = c)
      BY <2>2, Zenon DEF ManageCheck
    <3>2. c \in Conn /\ c \in pending_to_remove
      BY <1>0, <2>2, <3>1 DEF TypeOK, IInv, ScanIsSound, ManageCheck, ManageHoldsLocks
    <3> QED
      BY <1>0, <2>2, <3>1, <3>2, UseCount DEF ManageCheck, Cached
  <2>3. CASE ManageCache
    <3>1. item \in Conn
      BY <1>0, <2>3 DEF TypeOK, LocalsHeld, ManageCache
    <3>2. \A c \in Conn : Cached(c)' => Cached(c) \/ c = item
      BY <1>0, <2>3, <3>1 DEF TypeOK, ManageCache, Cached
    <3> QED
      BY <1>0, <2>3, <3>1, <3>2 DEF ManageCache
  <2> QED
    BY <1>3, <2>1, <2>2, <2>3 DEF ManageStep
<1>4. CASE CoWorkerStep
  BY <1>0, <1>4, CoWorkerFrame, CrashSafe DEF Cached
<1>5. CASE Ended \/ \E c \in Conn : ServeThrow(c)
  BY <1>0, <1>5, CrashSafe DEF ServeThrow, Cached, Ended, vars
<1> QED
  BY <1>1, <1>2, <1>3, <1>4, <1>5 DEF Next, Environment

\* A socket is reset only when nobody uses the object.
LEMMA SocketStep ==
  ASSUME IInv, Next
  PROVE  SocketWhileInUse'
<1>0. TypeOK /\ LocalsHeld /\ RecycledIsQuiet /\ SocketWhileInUse /\ UsedIsRegistered
  BY DEF IInv
<1> USE DEF SocketWhileInUse, Quiet, Busy
<1>1. ASSUME NEW c \in Conn, Completion(c) \/ HandlerStep(c) \/ GrowOverdue(c)
      PROVE  SocketWhileInUse'
  BY <1>0, <1>1, HandlerFrame
<1>2. CASE Accept \/ AcceptError \/ AcceptThrow \/ AcceptHandlerStep
  <2>1. CASE Accept \/ AcceptError \/ Reject \/ AcceptAgain \/ StartNew
    BY <1>0, <2>1 DEF Accept, AcceptError, Reject, AcceptAgain, StartNew
  <2>2. CASE \E c \in Conn : register(c)
    BY <1>0, <2>2 DEF TypeOK, register
  <2>3. CASE InsertCached
    BY <1>0, <2>2, <2>3, CrashSafe DEF InsertCached, TypeOK
  <2>4. CASE ReadNew
    BY <1>0, <2>4 DEF TypeOK, LocalsHeld, ReadNew, do_read
  <2> QED
    BY <1>2, <2>1, <2>2, <2>3, <2>4, CrashSafe DEF AcceptHandlerStep, AcceptThrow, InsertFresh
<1>3. CASE ManageTimeout \/ ManageSpurious \/ ManageStep
  BY <1>0, <1>3, CrashSafe DEF ManageTimeout, ManageSpurious, ManageStep, ManageWait,
     ManageShow, ManageWoken, ManageCheck, ManageErase, ManageWash, ManageCache, ManageDone,
     RecycledIsQuiet, TypeOK, LocalsHeld
<1>4. CASE CoWorkerStep
  BY <1>0, <1>4, CoWorkerFrame, CrashSafe
<1>5. CASE Ended \/ \E c \in Conn : ServeThrow(c)
  BY <1>0, <1>5, CrashSafe DEF ServeThrow, Ended, vars
<1> QED
  BY <1>1, <1>2, <1>3, <1>4, <1>5 DEF Next, Environment

\* The cache holds an object once, no registered one, and stays in its bound.
LEMMA CacheStep ==
  ASSUME IInv, Next
  PROVE  CacheSound'
<1>0. TypeOK /\ LocalsHeld /\ CacheSound /\ ItemIsDead
  BY DEF IInv
<1> USE DEF CacheSound
<1>1. ASSUME NEW c \in Conn, Completion(c) \/ HandlerStep(c) \/ GrowOverdue(c)
      PROVE  CacheSound'
  BY <1>0, <1>1, HandlerFrame DEF Cached
<1>2. CASE Accept \/ AcceptError \/ AcceptThrow \/ AcceptHandlerStep
  <2>1. CASE Accept \/ AcceptError \/ Reject \/ AcceptAgain \/ StartNew \/ ReadNew
    BY <1>0, <2>1 DEF Accept, AcceptError, Reject, AcceptAgain, StartNew, ReadNew, Cached
  <2>2. CASE InsertCached
    <3>1. CASE use_count(Head(cached_conns)) = 1
      <4>1. /\ cached_conns # <<>> /\ cached_conns' = Tail(cached_conns)
            /\ front_conns' = front_conns \cup {Head(cached_conns)}
        BY <2>2, <3>1 DEF InsertCached, register
      <4>2. \A c \in front_conns' : ~Cached(c)'
        BY <1>0, <4>1, TakenFromCache DEF TypeOK
      <4>3. Len(cached_conns) \in Nat /\ Len(cached_conns') = Len(cached_conns) - 1
        BY <1>0, <4>1, TakenFromCache DEF TypeOK
      <4>4. 10 * (Len(cached_conns') - 1) < 3 * MaxServe
        BY <1>0, <4>1, <4>3
      <4> QED
        BY <1>0, <4>1, <4>2, <4>4, TakenFromCache
    <3>2. CASE use_count(Head(cached_conns)) # 1
      BY <2>2, <3>2, CrashSafe DEF InsertCached
    <3> QED
      BY <3>1, <3>2
  <2>3. CASE InsertFresh
    BY <1>0, <2>3, UseCount DEF InsertFresh, Fresh, register, Cached
  <2> QED
    BY <1>2, <2>1, <2>2, <2>3, CrashSafe DEF AcceptHandlerStep, AcceptThrow
<1>3. CASE ManageTimeout \/ ManageSpurious \/ ManageStep
  <2>1. CASE ManageCache
    <3>1. item \in Conn /\ ~Cached(item) /\ item \notin front_conns
          /\ 10 * Len(cached_conns) < 3 * MaxServe
      BY <1>0, <2>1 DEF TypeOK, LocalsHeld, ManageCache, ItemIsDead, CacheHasRoom
    <3>2. /\ Len(cached_conns') = Len(cached_conns) + 1
          /\ Len(cached_conns) \in Nat
          /\ \A i \in DOMAIN cached_conns' :
               \/ i \in DOMAIN cached_conns /\ cached_conns'[i] = cached_conns[i]
               \/ i = Len(cached_conns) + 1 /\ cached_conns'[i] = item
      BY <1>0, <2>1 DEF TypeOK, ManageCache
    <3>3. \A c \in front_conns' : ~Cached(c)'
      BY <1>0, <2>1, <3>1, <3>2 DEF ManageCache, Cached
    <3>4. \A i, j \in DOMAIN cached_conns' : cached_conns'[i] = cached_conns'[j] => i = j
      BY <1>0, <3>1, <3>2 DEF Cached
    <3>5. 10 * (Len(cached_conns') - 1) < 3 * MaxServe
      BY <3>1, <3>2
    <3> QED
      BY <3>3, <3>4, <3>5
  <2>2. CASE ~ManageCache
    BY <1>0, <1>3, <2>2, CrashSafe DEF ManageTimeout, ManageSpurious, ManageStep, ManageWait,
       ManageShow, ManageWoken, ManageCheck, ManageErase, ManageWash, ManageDone, Cached
  <2> QED
    BY <2>1, <2>2
<1>4. CASE CoWorkerStep
  BY <1>0, <1>4, CoWorkerFrame, CrashSafe DEF Cached
<1>5. CASE Ended \/ \E c \in Conn : ServeThrow(c)
  BY <1>0, <1>5, CrashSafe DEF ServeThrow, Ended, vars, Cached
<1> QED
  BY <1>1, <1>2, <1>3, <1>4, <1>5 DEF Next, Environment

\* What manage_thread has taken stays dead and outside the cache.
LEMMA ItemStep ==
  ASSUME IInv, Next
  PROVE  ItemIsDead'
<1>0. /\ TypeOK /\ LocalsHeld /\ RecycledIsQuiet /\ ItemIsDead /\ NewIsIdle /\ ScanIsSound
      /\ StatsFollow
  BY DEF IInv
<1> USE DEF ItemIsDead, CacheHasRoom
<1>1. ASSUME NEW c \in Conn, Completion(c) \/ HandlerStep(c) \/ GrowOverdue(c)
      PROVE  ItemIsDead'
  <2>1. manage_pc' = manage_pc \/ (manage_pc' = "woken" /\ item = NULL)
    BY <1>0, <1>1 DEF Completion, HandlerStep, ReadServe, ReadAborted, ReadFail, WriteDone,
       WriteFail, MoreBody, EmptyBody, Reply, Start, Rearm, PushError, NotifyError, Leave,
       GrowOverdue, notify_one, LocalsHeld
  <2> QED
    BY <1>0, <1>1, <2>1, HandlerFrame DEF Cached, RecycledIsQuiet, TypeOK
<1>2. CASE Accept \/ AcceptError \/ AcceptThrow \/ AcceptHandlerStep
  <2>1. CASE Accept \/ AcceptError \/ Reject \/ AcceptAgain \/ ReadNew
    BY <1>0, <2>1 DEF Accept, AcceptError, Reject, AcceptAgain, ReadNew, Cached
  <2>2. CASE StartNew
    <3>1. item # new_c \/ item = NULL
      BY <1>0, <2>2 DEF StartNew, LocalsHeld, RecycledIsQuiet, Quiet, Busy, TypeOK
    <3> QED
      BY <1>0, <2>2, <3>1 DEF StartNew, set_stats, Cached, TypeOK
  <2>3. CASE InsertCached \/ InsertFresh
    <3>1. item = NULL
      BY <1>0, <2>3 DEF InsertCached, InsertFresh, LocalsHeld, ManageHoldsLocks,
                        front_conns_mutex_free
    <3> QED
      BY <2>3, <3>1, CrashSafe DEF InsertCached, InsertFresh, register
  <2> QED
    BY <1>2, <2>1, <2>2, <2>3, CrashSafe DEF AcceptHandlerStep, AcceptThrow
<1>3. CASE ManageTimeout \/ ManageSpurious \/ ManageStep
  <2>1. CASE ManageCheck
    <3>1. PICK c \in manage_todo :
            item' = item \/ (c \in front_conns /\ ~StillInUse(c) /\ item' = c)
      BY <2>1, Zenon DEF ManageCheck
    <3>2. c \in Conn /\ c \in pending_to_remove
      BY <1>0, <2>1, <3>1 DEF TypeOK, ScanIsSound, ManageCheck, ManageHoldsLocks
    <3>3. item = NULL
      BY <1>0, <2>1 DEF LocalsHeld, ManageCheck
    <3>4. CASE item' # NULL
      <4>1. manage_pc' = "erase" /\ UNCHANGED <<cached_conns, stats>>
        BY <2>1, <3>3, <3>4 DEF ManageCheck
      <4>2. ~Cached(c) /\ Quiet(c) /\ c \in front_conns /\ item' = c
        BY <1>0, <3>1, <3>2, <3>3, <3>4, UseCount
      <4>3. stats[c] = "error"
        BY <1>0, <2>1, <4>2 DEF StatsFollow, Quiet, Busy
      <4> QED
        BY <2>1, <4>1, <4>2, <4>3 DEF Cached, ManageCheck
    <3> QED
      BY <3>4
  <2>2. CASE ManageErase \/ ManageWash \/ ManageCache
    BY <1>0, <2>2, CrashSafe DEF ManageErase, ManageWash, ManageCache, LocalsHeld, TypeOK, Cached
  <2>3. CASE ManageTimeout \/ ManageSpurious \/ ManageWait \/ ManageShow \/ ManageWoken
             \/ ManageDone
    BY <1>0, <2>3, CrashSafe DEF ManageTimeout, ManageSpurious, ManageWait, ManageShow,
       ManageWoken, ManageDone, LocalsHeld
  <2> QED
    BY <1>3, <2>1, <2>2, <2>3 DEF ManageStep
<1>4. CASE CoWorkerStep
  BY <1>0, <1>4, CoWorkerFrame, CrashSafe DEF Cached, TypeOK
<1>5. CASE Ended \/ \E c \in Conn : ServeThrow(c)
  BY <1>0, <1>5, CrashSafe DEF ServeThrow, Ended, vars, Cached
<1> QED
  BY <1>1, <1>2, <1>3, <1>4, <1>5 DEF Next, Environment

\* What is in use is registered, and stays so.
LEMMA UsedStep ==
  ASSUME IInv, Next
  PROVE  UsedIsRegistered'
<1>0. TypeOK /\ LocalsHeld /\ RecycledIsQuiet /\ UsedIsRegistered
  BY DEF IInv
<1> USE DEF UsedIsRegistered, Quiet, Busy
<1>1. ASSUME NEW c \in Conn, Completion(c) \/ HandlerStep(c) \/ GrowOverdue(c)
      PROVE  UsedIsRegistered'
  BY <1>0, <1>1, HandlerFrame
<1>2. CASE Accept \/ AcceptError \/ AcceptThrow \/ AcceptHandlerStep
  <2>1. CASE Accept \/ AcceptError \/ Reject \/ AcceptAgain \/ StartNew
    BY <1>0, <2>1 DEF Accept, AcceptError, Reject, AcceptAgain, StartNew
  <2>2. CASE InsertCached \/ InsertFresh
    BY <1>0, <2>2, CrashSafe DEF InsertCached, InsertFresh, register
  <2>3. CASE ReadNew
    BY <1>0, <2>3 DEF TypeOK, LocalsHeld, ReadNew, do_read
  <2> QED
    BY <1>2, <2>1, <2>2, <2>3, CrashSafe DEF AcceptHandlerStep, AcceptThrow
<1>3. CASE ManageTimeout \/ ManageSpurious \/ ManageStep
  BY <1>0, <1>3, CrashSafe DEF ManageTimeout, ManageSpurious, ManageStep, ManageWait,
     ManageShow, ManageWoken, ManageCheck, ManageErase, ManageWash, ManageCache, ManageDone,
     RecycledIsQuiet, TypeOK, LocalsHeld
<1>4. CASE CoWorkerStep
  BY <1>0, <1>4, CoWorkerFrame, CrashSafe
<1>5. CASE Ended \/ \E c \in Conn : ServeThrow(c)
  BY <1>0, <1>5, CrashSafe DEF ServeThrow, Ended, vars
<1> QED
  BY <1>1, <1>2, <1>3, <1>4, <1>5 DEF Next, Environment

\* A new connection is unknown to asio until its first do_read_head.
LEMMA NewStep ==
  ASSUME IInv, Next
  PROVE  NewIsIdle'
<1>0. TypeOK /\ LocalsHeld /\ RecycledIsQuiet /\ NewIsIdle /\ CacheSound
  BY DEF IInv
<1> USE DEF NewIsIdle
<1>1. ASSUME NEW c \in Conn, Completion(c) \/ HandlerStep(c) \/ GrowOverdue(c)
      PROVE  NewIsIdle'
  <2>1. CASE accept_pc \in {"start", "read"} /\ c = new_c /\ ~GrowOverdue(c)
    BY <1>0, <1>1, <2>1 DEF Completion, HandlerStep, ReadServe, ReadAborted, ReadFail,
       WriteDone, WriteFail, MoreBody, EmptyBody, Reply, Start, Rearm, PushError, NotifyError,
       Leave
  <2>2. CASE accept_pc \in {"start", "read"} /\ c # new_c
    <3>1. new_c \in Conn \ {c}
      BY <1>0, <2>2 DEF TypeOK, LocalsHeld
    <3> QED
      BY <1>0, <1>1, <2>2, <3>1, HandlerFrame
  <2>3. CASE GrowOverdue(c)
    BY <1>0, <2>3 DEF GrowOverdue
  <2>4. CASE accept_pc \notin {"start", "read"}
    BY <1>0, <1>1, <2>4, HandlerFrame
  <2> QED
    BY <2>1, <2>2, <2>3, <2>4
<1>2. CASE Accept \/ AcceptError \/ AcceptThrow \/ AcceptHandlerStep
  <2>1. CASE Accept \/ AcceptError \/ Reject \/ AcceptAgain \/ StartNew \/ ReadNew
    BY <1>0, <2>1 DEF Accept, AcceptError, Reject, AcceptAgain, StartNew, ReadNew
  <2>2. CASE InsertCached
    <3>1. cached_conns # <<>>
      BY <2>2 DEF InsertCached
    <3>2. Head(cached_conns) \in Conn /\ Cached(Head(cached_conns))
      BY <1>0, <3>1 DEF TypeOK, Cached
    <3> QED
      BY <1>0, <2>2, <3>2, CrashSafe DEF InsertCached, register, RecycledIsQuiet, Quiet, Busy
  <2>3. CASE InsertFresh
    BY <1>0, <2>3, UseCount DEF InsertFresh, Fresh, register, Quiet, Busy
  <2> QED
    BY <1>2, <2>1, <2>2, <2>3, CrashSafe DEF AcceptHandlerStep, AcceptThrow
<1>3. CASE ManageTimeout \/ ManageSpurious \/ ManageStep
  BY <1>0, <1>3, CrashSafe DEF ManageTimeout, ManageSpurious, ManageStep, ManageWait,
     ManageShow, ManageWoken, ManageCheck, ManageErase, ManageWash, ManageCache, ManageDone
<1>4. CASE CoWorkerStep
  BY <1>0, <1>4, CoWorkerFrame, CrashSafe
<1>5. CASE Ended \/ \E c \in Conn : ServeThrow(c)
  BY <1>0, <1>5, CrashSafe DEF ServeThrow, Ended, vars
<1> QED
  BY <1>1, <1>2, <1>3, <1>4, <1>5 DEF Next, Environment

\* stats_ of a registered object follows what serves it.
LEMMA StatsStep ==
  ASSUME IInv, Next
  PROVE  StatsFollow'
<1>0. /\ TypeOK /\ LocalsHeld /\ RecycledIsQuiet /\ NewIsIdle /\ StatsFollow
      /\ UsedIsRegistered /\ ItemIsDead
  BY DEF IInv
<1> USE DEF StatsFollow
<1>1. ASSUME NEW c \in Conn, Completion(c) \/ HandlerStep(c) \/ GrowOverdue(c)
      PROVE  StatsFollow'
  <2>1. ASSUME c \in front_conns
        PROVE  /\ stats'[c] = "pending" => accept_pc = "start" /\ new_c = c
               /\ handler'[c] \in {"push", "notify", "leave"} => stats'[c] = "error"
               /\ read_op'[c] = "none" /\ handler'[c] = "none" =>
                    stats'[c] = "error" \/ (accept_pc \in {"start", "read"} /\ new_c = c)
    <3>1. CASE ReadServe(c) \/ ReadAborted(c) \/ WriteDone(c) \/ Reply(c) \/ NotifyError(c)
               \/ PushError(c) \/ Leave(c) \/ GrowOverdue(c)
      BY <1>0, <2>1, <3>1 DEF TypeOK, ReadServe, ReadAborted, WriteDone, Reply, NotifyError,
         PushError, Leave, GrowOverdue
    <3>2. CASE ReadFail(c) \/ WriteFail(c) \/ EmptyBody(c)
      BY <1>0, <2>1, <3>2 DEF TypeOK, ReadFail, WriteFail, EmptyBody, fail, set_stats
    <3>3. CASE Start(c)
      BY <1>0, <2>1, <3>3 DEF TypeOK, Start, set_stats
    <3>4. CASE Rearm(c) \/ MoreBody(c)
      <4>1. stats[c] # "working" => stats[c] = "error"
        BY <1>0, <2>1, <3>4 DEF TypeOK, Rearm, MoreBody, NewIsIdle
      <4>2. stats[c] = "working" => read_op'[c] = "armed"
        BY <1>0, <3>4 DEF TypeOK, Rearm, MoreBody, do_read
      <4> QED
        BY <1>0, <3>4, <4>1, <4>2 DEF TypeOK, Rearm, MoreBody
    <3> QED
      BY <1>1, <3>1, <3>2, <3>3, <3>4 DEF Completion, HandlerStep
  <2> QED
    BY <1>0, <1>1, <2>1, HandlerFrame DEF TypeOK
<1>2. CASE Accept \/ AcceptError \/ AcceptThrow \/ AcceptHandlerStep
  <2>1. CASE Accept \/ AcceptError \/ Reject \/ AcceptAgain
    BY <1>0, <2>1 DEF Accept, AcceptError, Reject, AcceptAgain
  <2>2. CASE StartNew
    BY <1>0, <2>2 DEF TypeOK, LocalsHeld, StartNew, set_stats, NewIsIdle
  <2>3. CASE ReadNew
    <3>1. new_c \in Conn /\ read_op[new_c] = "none" /\ handler[new_c] = "none"
      BY <1>0, <2>3 DEF TypeOK, LocalsHeld, ReadNew, NewIsIdle
    <3>2. CASE stats[new_c] = "working"
      <4>1. /\ read_op' = [read_op EXCEPT ![new_c] = "armed"]
            /\ UNCHANGED <<front_conns, stats, handler>>
        BY <2>3, <3>2 DEF ReadNew, do_read
      <4>2. read_op'[new_c] = "armed" /\ \A d \in Conn \ {new_c} : read_op'[d] = read_op[d]
        BY <1>0, <3>1, <4>1 DEF TypeOK
      <4>3. accept_pc = "read" /\ new_c' = new_c
        BY <2>3 DEF ReadNew
      <4> QED
        BY <1>0, <3>1, <3>2, <4>1, <4>2, <4>3 DEF TypeOK
    <3>3. CASE stats[new_c] # "working"
      <4>1. new_c \in front_conns /\ stats[new_c] = "error"
        BY <1>0, <2>3, <3>1, <3>3 DEF UsedIsRegistered, Quiet, Busy, TypeOK, ReadNew
      <4> QED
        BY <1>0, <2>3, <3>1, <3>3, <4>1 DEF ReadNew, do_read
    <3> QED
      BY <3>2, <3>3
  <2>4. CASE InsertCached
    <3>1. cached_conns # <<>> /\ accept_pc = "insert"
      BY <2>4 DEF InsertCached
    <3>2. Head(cached_conns) \in Conn /\ Cached(Head(cached_conns))
      BY <1>0, <3>1 DEF TypeOK, Cached
    <3>3. CASE use_count(Head(cached_conns)) = 1
      BY <1>0, <2>4, <3>1, <3>2, <3>3 DEF InsertCached, register, RecycledIsQuiet, Quiet, Busy
    <3>4. CASE use_count(Head(cached_conns)) # 1
      BY <2>4, <3>4, CrashSafe DEF InsertCached
    <3> QED
      BY <3>3, <3>4
  <2>5. CASE InsertFresh
    <3>1. PICK c \in Conn : Fresh(c) /\ register(c) /\ set_stats(c, "pending")
      BY <2>5 DEF InsertFresh
    <3>2. Quiet(c) /\ c \notin front_conns
      BY <1>0, <3>1, UseCount DEF Fresh
    <3> QED
      BY <1>0, <2>5, <3>1, <3>2 DEF register, set_stats, Quiet, Busy, TypeOK, InsertFresh
  <2> QED
    BY <1>2, <2>1, <2>2, <2>3, <2>4, <2>5, CrashSafe DEF AcceptHandlerStep, AcceptThrow
<1>3. CASE ManageTimeout \/ ManageSpurious \/ ManageStep
  <2>1. CASE ManageWash
    <3>1. item \in Conn /\ item \notin front_conns
      BY <1>0, <2>1 DEF TypeOK, LocalsHeld, ItemIsDead, ManageWash
    <3> QED
      BY <1>0, <2>1, <3>1, CrashSafe DEF ManageWash, TypeOK
  <2>2. CASE ~ManageWash
    BY <1>0, <1>3, <2>2, CrashSafe DEF ManageTimeout, ManageSpurious, ManageStep, ManageWait,
       ManageShow, ManageWoken, ManageCheck, ManageErase, ManageCache, ManageDone
  <2> QED
    BY <2>1, <2>2
<1>4. CASE CoWorkerStep
  BY <1>0, <1>4, CoWorkerFrame, CrashSafe DEF TypeOK
<1>5. CASE Ended \/ \E c \in Conn : ServeThrow(c)
  BY <1>0, <1>5, CrashSafe DEF ServeThrow, Ended, vars
<1> QED
  BY <1>1, <1>2, <1>3, <1>4, <1>5 DEF Next, Environment

\* The wheel moves only while manage_thread holds no lock.
LEMMA ScanStep ==
  ASSUME IInv, Next
  PROVE  ScanIsSound'
<1>0. TypeOK /\ LocalsHeld /\ ScanIsSound /\ ItemIsDead
  BY DEF IInv
<1> USE DEF ScanIsSound, ManageHoldsLocks
<1>1. ASSUME NEW c \in Conn, Completion(c) \/ HandlerStep(c) \/ GrowOverdue(c)
      PROVE  ScanIsSound'
  BY <1>0, <1>1, HandlerFrame
<1>2. CASE Accept \/ AcceptError \/ AcceptThrow \/ AcceptHandlerStep
  BY <1>0, <1>2, CrashSafe DEF Accept, AcceptError, AcceptThrow, AcceptHandlerStep, Reject,
     InsertCached, InsertFresh, register, StartNew, ReadNew, AcceptAgain,
     front_conns_mutex_free
<1>3. CASE ManageTimeout \/ ManageSpurious \/ ManageStep
  <2>1. CASE ManageCheck
    <3>1. PICK c \in manage_todo :
            /\ manage_todo' = manage_todo \ {c}
            /\ \/ c \notin front_conns /\ UNCHANGED <<timing_wheel, manage_pc, item>>
               \/ c \in front_conns /\ back_insert(c) /\ UNCHANGED <<manage_pc, item>>
               \/ c \in front_conns /\ item' = c /\ UNCHANGED timing_wheel
      BY <2>1, Zenon DEF ManageCheck
    <3>2. /\ UNCHANGED <<front_conns, pending_to_remove>>
          /\ item = NULL
          /\ manage_todo \subseteq pending_to_remove
          /\ \A d \in (pending_to_remove \ manage_todo) \cap front_conns :
               d \in timing_wheel[WheelSize]
      BY <1>0, <2>1 DEF ManageCheck, LocalsHeld, TypeOK
    <3>3. /\ timing_wheel[WheelSize] \subseteq timing_wheel'[WheelSize]
          /\ back_insert(c) => c \in timing_wheel'[WheelSize]
      BY <1>0, <3>1 DEF TypeOK, back_insert
    <3> QED
      BY <3>1, <3>2, <3>3
  <2>2. CASE ~ManageCheck
    BY <1>0, <1>3, <2>2, CrashSafe DEF ManageTimeout, ManageSpurious, ManageStep, ManageWait,
       ManageShow, ManageWoken, ManageErase, ManageWash, ManageCache, ManageDone, ItemIsDead,
       LocalsHeld
  <2> QED
    BY <2>1, <2>2
<1>4. CASE CoWorkerStep
  BY <1>0, <1>4, CrashSafe DEF CoWorkerStep, WheelTick, WheelLock, push_to_remove, WheelStats,
     WheelShut, WheelError, WheelPush, WheelNotify, notify_one, WheelRotate,
     front_conns_mutex_free, conn_notify_mutex_free
<1>5. CASE Ended \/ \E c \in Conn : ServeThrow(c)
  BY <1>0, <1>5, CrashSafe DEF ServeThrow, Ended, vars
<1> QED
  BY <1>1, <1>2, <1>3, <1>4, <1>5 DEF Next, Environment

\* A registered connection stays in the wheel, with co_worker, or pending.
LEMMA ForgottenStep ==
  ASSUME IInv, Next
  PROVE  NeverForgotten'
<1>0. /\ TypeOK /\ LocalsHeld /\ CacheSound /\ ScanIsSound /\ ItemIsDead /\ NeverForgotten
  BY DEF IInv
<1> USE DEF NeverForgotten, InWheel, Expiring
<1>1. ASSUME NEW c \in Conn, Completion(c) \/ HandlerStep(c) \/ GrowOverdue(c)
      PROVE  NeverForgotten'
  BY <1>0, <1>1, HandlerFrame
<1>2. CASE Accept \/ AcceptError \/ AcceptThrow \/ AcceptHandlerStep
  <2>1. CASE Accept \/ AcceptError \/ Reject \/ AcceptAgain \/ StartNew \/ ReadNew
    BY <1>0, <2>1 DEF Accept, AcceptError, Reject, AcceptAgain, StartNew, ReadNew
  <2>2. ASSUME NEW c, register(c)
        PROVE  NeverForgotten'
    <3>1. /\ c \in timing_wheel'[WheelSize]
          /\ \A i \in 1..WheelSize : timing_wheel[i] \subseteq timing_wheel'[i]
      BY <1>0, <2>2 DEF TypeOK, register, back_insert
    <3>2. front_conns' = front_conns \cup {c} /\ UNCHANGED <<pending_to_remove, coVars>>
      BY <2>2 DEF register
    <3> QED
      BY <1>0, <3>1, <3>2
  <2> QED
    BY <1>2, <2>1, <2>2, CrashSafe DEF AcceptHandlerStep, AcceptThrow, InsertCached, InsertFresh
<1>3. CASE ManageTimeout \/ ManageSpurious \/ ManageStep
  <2>1. CASE ManageCheck
    <3>1. \A i \in 1..WheelSize : timing_wheel[i] \subseteq timing_wheel'[i]
      <4>1. PICK c \in manage_todo : back_insert(c) \/ UNCHANGED timing_wheel
        BY <2>1, Zenon DEF ManageCheck
      <4> QED
        BY <1>0, <4>1 DEF TypeOK, back_insert
    <3>2. UNCHANGED <<front_conns, pending_to_remove, coVars>>
      BY <2>1 DEF ManageCheck
    <3> QED
      BY <1>0, <3>1, <3>2
  <2>2. CASE ManageDone
    <3>1. CASE current_conns_cnt # Cardinality(front_conns)
      BY <2>2, <3>1, CrashSafe DEF ManageDone
    <3>2. CASE current_conns_cnt = Cardinality(front_conns)
      <4>1. UNCHANGED <<front_conns, timing_wheel, coVars>>
        BY <2>2, <3>2 DEF ManageDone
      <4>2. \A c \in front_conns : c \in pending_to_remove => c \in timing_wheel[WheelSize]
        BY <1>0, <2>2 DEF ManageDone, ScanIsSound, ManageHoldsLocks, LocalsHeld, TypeOK
      <4> QED
        BY <1>0, <4>1, <4>2
    <3> QED
      BY <3>1, <3>2
  <2>3. CASE ~ManageCheck /\ ~ManageDone
    BY <1>0, <1>3, <2>3, CrashSafe DEF ManageTimeout, ManageSpurious, ManageStep, ManageWait,
       ManageShow, ManageWoken, ManageErase, ManageWash, ManageCache
  <2> QED
    BY <2>1, <2>2, <2>3
<1>4. CASE CoWorkerStep
  <2>1. CASE WheelTick
    BY <1>0, <2>1 DEF WheelTick
  <2>2. CASE WheelLock
    <3>1. \A c \in front_conns : use_count(c) # 0
      BY <1>0, UseCount DEF TypeOK
    <3> QED
      BY <1>0, <2>2, <3>1 DEF WheelLock, LocalsHeld, TypeOK
  <2>3. CASE WheelStats
    BY <1>0, <2>3, CrashSafe DEF WheelStats, CacheSound
  <2>4. CASE WheelShut \/ WheelError \/ WheelPush \/ WheelNotify
    BY <1>0, <2>4, CrashSafe DEF WheelShut, WheelError, WheelPush, WheelNotify, push_to_remove
  <2>5. CASE WheelRotate
    <3>1. /\ timing_wheel'[WheelSize] = front_modi
          /\ \A i \in 1..(WheelSize - 1) : timing_wheel'[i] = timing_wheel[i + 1]
      BY <1>0, <2>5, Rotated DEF TypeOK, WheelRotate
    <3>2. /\ co_pc = "rotate" /\ co_pc' = "sleep"
          /\ UNCHANGED <<front_conns, pending_to_remove>>
      BY <2>5 DEF WheelRotate
    <3>3. ASSUME NEW c, NEW i \in 2..WheelSize, c \in timing_wheel[i]
          PROVE  \E j \in 1..WheelSize : c \in timing_wheel'[j]
      <4>1. i - 1 \in 1..(WheelSize - 1) /\ (i - 1) + 1 = i
        OBVIOUS
      <4>2. c \in timing_wheel'[i - 1]
        BY <3>1, <3>3, <4>1
      <4> QED
        BY <4>1, <4>2
    <3>4. \A c \in front_conns : c \in pending_to_remove
                               \/ \E j \in 1..WheelSize : c \in timing_wheel'[j]
      BY <1>0, <3>1, <3>2, <3>3
    <3> QED
      BY <3>2, <3>4
  <2> QED
    BY <1>4, <2>1, <2>2, <2>3, <2>4, <2>5 DEF CoWorkerStep
<1>5. CASE Ended \/ \E c \in Conn : ServeThrow(c)
  BY <1>0, <1>5, CrashSafe DEF ServeThrow, Ended, vars
<1> QED
  BY <1>1, <1>2, <1>3, <1>4, <1>5 DEF Next, Environment

\* current_conns_cnt counts front_conns_, and the limit is kept although the
\* counter is read without the lock.
LEMMA CountStep ==
  ASSUME IInv, Next
  PROVE  CountIsRight'
<1>0. TypeOK /\ LocalsHeld /\ CacheSound /\ CountIsRight /\ ItemIsDead
  BY DEF IInv
<1>f. IsFiniteSet(front_conns)
  BY <1>0, FS_Subset DEF TypeOK
<1> USE DEF CountIsRight
<1>1. ASSUME NEW c \in Conn, Completion(c) \/ HandlerStep(c) \/ GrowOverdue(c)
      PROVE  CountIsRight'
  BY <1>0, <1>1, HandlerFrame
<1>2. CASE Accept \/ AcceptError \/ AcceptThrow \/ AcceptHandlerStep
  <2>1. CASE Accept \/ AcceptError \/ Reject \/ AcceptAgain \/ StartNew \/ ReadNew
    BY <1>0, <2>1 DEF TypeOK, Accept, AtLimit, AcceptError, Reject, AcceptAgain, StartNew,
       ReadNew
  <2>2. ASSUME NEW c \in Conn, c \notin front_conns, register(c), accept_pc = "insert"
        PROVE  CountIsRight'
    <3>1. Cardinality(front_conns') = Cardinality(front_conns) + 1
      BY <1>f, <2>2, FS_AddElement DEF register
    <3> QED
      BY <1>0, <2>2, <3>1 DEF TypeOK, register
  <2>3. CASE InsertCached
    <3>1. cached_conns # <<>> /\ accept_pc = "insert"
      BY <2>3 DEF InsertCached
    <3>2. /\ Head(cached_conns) \in Conn
          /\ Head(cached_conns) \notin front_conns
      BY <1>0, <3>1 DEF TypeOK, CacheSound, Cached
    <3> QED
      BY <2>2, <2>3, <3>1, <3>2, CrashSafe DEF InsertCached
  <2>4. CASE InsertFresh
    BY <1>0, <2>2, <2>4, UseCount DEF InsertFresh, Fresh
  <2> QED
    BY <1>2, <2>1, <2>3, <2>4, CrashSafe DEF AcceptHandlerStep, AcceptThrow
<1>3. CASE ManageTimeout \/ ManageSpurious \/ ManageStep
  <2>1. CASE ManageErase
    <3>1. Cardinality(front_conns') = Cardinality(front_conns) - 1
      BY <1>0, <1>f, <2>1, FS_RemoveElement DEF ManageErase, ItemIsDead, LocalsHeld
    <3> QED
      BY <1>0, <2>1, <3>1 DEF TypeOK, ManageErase
  <2>2. CASE ~ManageErase
    BY <1>0, <1>3, <2>2, CrashSafe DEF ManageTimeout, ManageSpurious, ManageStep, ManageWait,
       ManageShow, ManageWoken, ManageCheck, ManageWash, ManageCache, ManageDone
  <2> QED
    BY <2>1, <2>2
<1>4. CASE CoWorkerStep
  BY <1>0, <1>4, CoWorkerFrame, CrashSafe
<1>5. CASE Ended \/ \E c \in Conn : ServeThrow(c)
  BY <1>0, <1>5, CrashSafe DEF ServeThrow, Ended, vars
<1> QED
  BY <1>1, <1>2, <1>3, <1>4, <1>5 DEF Next, Environment

\* Neither the assertion of conn_wash_white nor that of manage_thread fails.
LEMMA AssertionsStep ==
  ASSUME IInv, Next
  PROVE  ManageAssertionsHold'
<1>0. TypeOK /\ LocalsHeld /\ ItemIsDead /\ CountIsRight /\ ManageAssertionsHold
  BY DEF IInv
<1> USE DEF ManageAssertionsHold
<1>1. ASSUME NEW c \in Conn, Completion(c) \/ HandlerStep(c) \/ GrowOverdue(c)
      PROVE  ManageAssertionsHold'
  BY <1>0, <1>1, HandlerFrame
<1>2. CASE Accept \/ AcceptError \/ AcceptThrow \/ AcceptHandlerStep
  BY <1>0, <1>2 DEF Accept, AcceptError, AcceptThrow, AcceptHandlerStep, Reject,
     InsertCached, InsertFresh, register, StartNew, ReadNew, AcceptAgain, Crash
<1>3. CASE ManageTimeout \/ ManageSpurious \/ ManageStep
  <2>1. CASE ManageWash
    <3>1. stats[item] = "error"
      BY <1>0, <2>1 DEF ManageWash, ItemIsDead, LocalsHeld
    <3> QED
      BY <1>0, <2>1, <3>1 DEF ManageWash
  <2>2. CASE ManageDone
    BY <1>0, <2>2 DEF ManageDone, CountIsRight
  <2>3. CASE ~ManageWash /\ ~ManageDone
    BY <1>0, <1>3, <2>3 DEF ManageTimeout, ManageSpurious, ManageStep, ManageWait,
       ManageShow, ManageWoken, ManageCheck, ManageErase, ManageCache
  <2> QED
    BY <2>1, <2>2, <2>3
<1>4. CASE CoWorkerStep
  BY <1>0, <1>4, CoWorkerFrame DEF Crash
<1>5. CASE Ended \/ \E c \in Conn : ServeThrow(c)
  BY <1>0, <1>5 DEF ServeThrow, Crash, Ended, vars
<1> QED
  BY <1>1, <1>2, <1>3, <1>4, <1>5 DEF Next, Environment

------------------------------------------------------------------------------
(* The theorems.                                                           *)

\* The initial state satisfies IInv.
LEMMA Initially == Init => IInv
<1> SUFFICES ASSUME Init PROVE IInv
  OBVIOUS
<1> USE DEF Init, Blank
<1>1. TypeOK
  <2>1. cached_conns \in Seq(Conn)
    OBVIOUS
  <2>2. timing_wheel \in [1..WheelSize -> SUBSET Conn]
    OBVIOUS
  <2>3. overdue \in [Conn -> BOOLEAN] /\ notify_flag \in BOOLEAN
    OBVIOUS
  <2> QED
    BY <2>1, <2>2, <2>3 DEF TypeOK
<1>2. \A c \in Conn : Quiet(c) /\ ~Cached(c)
  BY DEF Quiet, Busy, Cached
<1>3. RecycledIsQuiet /\ SocketWhileInUse /\ CacheSound /\ UsedIsRegistered
  BY <1>2 DEF RecycledIsQuiet, SocketWhileInUse, CacheSound, UsedIsRegistered
<1>4. LocalsHeld /\ ItemIsDead /\ NewIsIdle /\ StatsFollow /\ ScanIsSound /\ NeverForgotten
      /\ ManageAssertionsHold
  BY DEF LocalsHeld, ItemIsDead, NewIsIdle, StatsFollow, ScanIsSound, ManageHoldsLocks,
         NeverForgotten, ManageAssertionsHold
<1>5. CountIsRight
  BY FS_EmptySet DEF CountIsRight
<1> QED
  BY <1>1, <1>3, <1>4, <1>5 DEF IInv

\* IInv is an invariant: no step of any of the threads (main.cpp:51-55) breaks it.
THEOREM Invariance == Spec => []IInv
<1>1. IInv /\ [Next]_vars => IInv'
  <2> SUFFICES ASSUME IInv, [Next]_vars PROVE IInv'
    OBVIOUS
  <2>1. CASE Next
    BY <2>1, TypeStep, LocalsStep, RecycledStep, SocketStep, CacheStep, ItemStep, UsedStep,
       NewStep, StatsStep, ScanStep, ForgottenStep, CountStep, AssertionsStep DEF IInv
  <2>2. CASE UNCHANGED vars
    BY <2>2 DEF vars, IInv, TypeOK, LocalsHeld, RecycledIsQuiet, SocketWhileInUse,
       CacheSound, ItemIsDead, UsedIsRegistered, NewIsIdle, StatsFollow, ScanIsSound,
       NeverForgotten, CountIsRight, ManageAssertionsHold, Quiet, Busy, Cached,
       CacheHasRoom, ManageHoldsLocks, InWheel, Expiring
  <2> QED
    BY <2>1, <2>2
<1> QED
  BY Initially, <1>1, PTL DEF Spec

\* Every variable of the threads keeps its type.
THEOREM TypeCorrect == Spec => []TypeOK
<1>1. IInv => TypeOK
  BY DEF IInv
<1> QED
  BY Invariance, <1>1, PTL

\* manage_thread washes and recycles an object only after its last use: the
\* unlocked test use_count() > 3 (manage.cpp:156) is enough for the handlers.
THEOREM RecyclingIsSafe == Spec => []RecycledIsQuiet
<1>1. IInv => RecycledIsQuiet
  BY DEF IInv
<1> QED
  BY Invariance, <1>1, PTL

\* No handler, operation or accept handler meets a socket that was reset
\* (front_conn.cpp:346).
THEOREM SocketsAreSafe == Spec => []SocketWhileInUse
<1>1. IInv => SocketWhileInUse
  BY DEF IInv
<1> QED
  BY Invariance, <1>1, PTL

\* No registered connection leaves the wheel without being handed on
\* (manage.cpp:156-163, co_worker.cpp:72-102).
THEOREM NothingIsForgotten == Spec => []NeverForgotten
<1>1. IInv => NeverForgotten
  BY DEF IInv
<1> QED
  BY Invariance, <1>1, PTL

\* A registered connection that nobody serves is marked conn_error
\* (front_conn.cpp:44-92, 324-332).
THEOREM UnservedConnectionsAreDead == Spec => []UnservedIsDead
<1>1. IInv => UnservedIsDead
  BY DEF IInv, StatsFollow, UnservedIsDead, Busy, LocalsHeld, TypeOK
<1> QED
  BY Invariance, <1>1, PTL

\* At most max_serve_conns_cnt_ clients are registered, although accept_handler
\* reads the counter without the lock (http_server.cpp:86).
THEOREM LimitIsKept == Spec => []ServeLimit
<1>1. IInv => ServeLimit
  BY DEF IInv, CountIsRight, ServeLimit
<1> QED
  BY Invariance, <1>1, PTL

\* The cache of recycled objects has no duplicate, no registered object, and
\* its bound (http_server.hpp:97).
THEOREM CacheIsSound == Spec => []CacheSound
<1>1. IInv => CacheSound
  BY DEF IInv
<1> QED
  BY Invariance, <1>1, PTL

\* The assertions front_conn.cpp:336 and manage.cpp:178 never fail.
THEOREM ManageNeverAborts == Spec => []ManageAssertionsHold
<1>1. IInv => ManageAssertionsHold
  BY DEF IInv
<1> QED
  BY Invariance, <1>1, PTL
==============================================================================
