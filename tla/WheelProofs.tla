------------------------------ MODULE WheelProofs ------------------------------
(***************************************************************************)
(* Proofs about TimingWheel for every number of connections and buckets    *)
(* and every expiry time.                                                  *)
(***************************************************************************)
EXTENDS TimingWheel, TLAPS

USE TimeAssumption

\* The period of the checks is at least a second: the assertion of
\* get_conn_check_spare holds for what set_conn_expired_time accepts
\* (http_server.hpp:103-119).
THEOREM SpareIsPositive == Spare \in Nat /\ Spare >= 1 /\ Spare * WheelSize <= ExpiredTime
  BY DEF Spare

\* If scans are in time, a silent client is cut off within twice the expiry time.
THEOREM LimitInTime == ASSUME Late = 0 PROVE Limit < 2 * ExpiredTime
<1>1. WheelSize * Spare <= ExpiredTime /\ Spare \in Nat /\ Spare >= 1
  BY SpareIsPositive
<1>2. Limit = ExpiredTime - Spare - 1 + WheelSize * Spare
  BY <1>1 DEF Limit
<1> QED
  BY <1>1, <1>2

------------------------------------------------------------------------------
(* The invariant: an object that works is in a bucket in which it is young  *)
(* enough for the scan of that bucket to come in time.                      *)

\* How far from the front bucket i is, in seconds at most.
turn(i) == (WheelSize - i) * (Spare + Late)

WheelInv == TypeOK /\ InTime

\* Each scan brings a bucket one period nearer to the front.
LEMMA Turns ==
  /\ turn(WheelSize) = 0
  /\ \A i \in 2..WheelSize : turn(i - 1) = turn(i) + Spare + Late
  /\ \A i \in 1..WheelSize : turn(i) \in Nat
  /\ Limit = ExpiredTime - Spare - 1 + turn(1) + Spare + Late
  /\ Limit \in Nat
<1>1. Spare \in Nat /\ Late \in Nat /\ Spare <= ExpiredTime - 1
  <2>1. 2 * Spare <= Spare * WheelSize
    BY SpareIsPositive
  <2> QED
    BY <2>1, SpareIsPositive
<1> DEFINE W == Spare + Late
<1>2. W \in Nat
  BY <1>1
<1> HIDE DEF W
<1>3. \A i \in 1..WheelSize : turn(i) = (WheelSize - i) * W
  BY DEF turn, W
<1>4. \A i \in 2..WheelSize : (WheelSize - (i - 1)) * W = (WheelSize - i) * W + W
  BY <1>2
<1>5. \A i \in 1..WheelSize : (WheelSize - i) * W \in Nat
  BY <1>2
<1>6. WheelSize * W = (WheelSize - 1) * W + W
  BY <1>2
<1>7. turn(WheelSize) = 0
  BY <1>2, <1>3
<1>8. Limit = ExpiredTime - Spare - 1 + WheelSize * W
  BY DEF Limit, W
<1> QED
  BY <1>1, <1>2, <1>3, <1>4, <1>5, <1>6, <1>7, <1>8 DEF W

\* What InTime says with the distance of the bucket.
LEMMA InTimeTurns ==
  InTime <=> \A c \in Conn \ shut : stats[c] \in {"working", "error"} =>
    \E i \in 1..WheelSize :
      /\ c \in wheel[i]
      /\ stats[c] = "working" => idle[c] <= ExpiredTime - Spare - 1 + turn(i) + since
  BY DEF InTime, turn

LEMMA TypeStep ==
  ASSUME TypeOK, [Next]_vars
  PROVE  TypeOK'
<1>0. Spare \in Nat /\ Late \in Nat /\ Limit \in Nat
  BY SpareIsPositive, Turns
<1>1. ASSUME NEW c \in Conn, ConnStep(c)
      PROVE  TypeOK'
  <2> USE DEF ConnStep, Insert, Touch, Fail, Resume, Requeue, Recycle
  <2>1. wheel' \in [1..WheelSize -> SUBSET Conn]
    BY <1>1 DEF TypeOK, back_insert
  <2>2. stats' \in [Conn -> {"free", "working", "pending", "error"}]
    BY <1>1 DEF TypeOK
  <2>3. idle' \in [Conn -> 0..(Limit + 1)]
    BY <1>0, <1>1 DEF TypeOK, touch_sock_time
  <2>4. since' = since
    BY <1>1
  <2>5. shut' \subseteq Conn /\ pending' \subseteq Conn
    BY <1>1 DEF TypeOK
  <2> QED
    BY <2>1, <2>2, <2>3, <2>4, <2>5 DEF TypeOK
<1>2. CASE timing_wheel_check
  <2>1. wheel' \in [1..WheelSize -> SUBSET Conn]
    BY <1>2 DEF TypeOK, timing_wheel_check, pushed_back
  <2>2. stats' \in [Conn -> {"free", "working", "pending", "error"}]
    BY <1>2 DEF TypeOK, timing_wheel_check
  <2> QED
    BY <1>0, <1>2, <2>1, <2>2 DEF TypeOK, timing_wheel_check
<1>3. CASE Second
  <2>1. idle' \in [Conn -> 0..(Limit + 1)]
    BY <1>0, <1>3 DEF TypeOK, Second
  <2>2. since' \in 0..(Spare + Late)
    BY <1>0, <1>3 DEF TypeOK, Second
  <2> QED
    BY <1>3, <2>1, <2>2 DEF TypeOK, Second
<1>4. CASE UNCHANGED vars
  BY <1>4 DEF TypeOK, vars
<1> QED
  BY <1>1, <1>2, <1>3, <1>4 DEF Next

LEMMA InTimeStep ==
  ASSUME TypeOK, InTime, [Next]_vars
  PROVE  InTime'
<1> DEFINE Bound(i) == ExpiredTime - Spare - 1 + turn(i)
           InBucket(c, i) == c \in wheel[i] /\ (stats[c] = "working" => idle[c] <= Bound(i) + since)
<1>0. /\ Spare \in Nat /\ Late \in Nat /\ Limit \in Nat /\ since \in Nat
      /\ \A i \in 1..WheelSize : Bound(i) \in Nat
      /\ Bound(WheelSize) = ExpiredTime - Spare - 1 /\ Bound(WheelSize) >= 0
      /\ \A i \in 2..WheelSize : Bound(i - 1) = Bound(i) + Spare + Late
      /\ \A i \in 1..WheelSize : Bound(i) + Spare + Late <= Limit
  <2>1. Spare \in Nat /\ Spare >= 1 /\ Late \in Nat /\ ExpiredTime - Spare - 1 >= 0
    <3>1. 2 * Spare <= Spare * WheelSize
      BY SpareIsPositive
    <3> QED
      BY <3>1, SpareIsPositive
  <2>2. \A i \in 1..WheelSize : turn(i) <= turn(1)
    <3> SUFFICES ASSUME NEW i \in 1..WheelSize
                 PROVE  (WheelSize - i) * (Spare + Late) <= (WheelSize - 1) * (Spare + Late)
      BY DEF turn
    <3>1. (i - 1) * (Spare + Late) >= 0
      BY <2>1
    <3> QED
      BY <2>1, <3>1
  <2>3. since \in Nat
    BY <2>1 DEF TypeOK
  <2>4. /\ \A i \in 1..WheelSize : turn(i) \in Nat
        /\ turn(WheelSize) = 0
        /\ \A i \in 2..WheelSize : turn(i - 1) = turn(i) + Spare + Late
        /\ Limit = ExpiredTime - Spare - 1 + turn(1) + Spare + Late /\ Limit \in Nat
    BY Turns
  <2>5. \A i \in 1..WheelSize : Bound(i) \in Nat
    BY <2>1, <2>4
  <2>6. Bound(WheelSize) = ExpiredTime - Spare - 1
    BY <2>1, <2>4
  <2>7. \A i \in 2..WheelSize : Bound(i - 1) = Bound(i) + Spare + Late
    <3> TAKE i \in 2..WheelSize
    <3>1. turn(i - 1) = turn(i) + Spare + Late /\ turn(i) \in Nat
      BY <2>4
    <3> QED
      BY <2>1, <3>1
  <2>8. \A i \in 1..WheelSize : Bound(i) + Spare + Late <= Limit
    <3> TAKE i \in 1..WheelSize
    <3>1. turn(i) \in Nat /\ turn(1) \in Nat /\ turn(i) <= turn(1)
      BY <2>2, <2>4
    <3> QED
      BY <2>1, <2>4, <3>1
  <2> QED
    BY <2>1, <2>3, <2>4, <2>5, <2>6, <2>7, <2>8
<1>1. \A c \in Conn \ shut : stats[c] \in {"working", "error"} =>
        \E i \in 1..WheelSize : InBucket(c, i)
  BY InTimeTurns
<1>2. SUFFICES ASSUME NEW c \in Conn \ shut', stats'[c] \in {"working", "error"}
               PROVE  \E i \in 1..WheelSize :
                        c \in wheel'[i] /\ (stats'[c] = "working" => idle'[c] <= Bound(i) + since')
  BY DEF InTime, turn
<1> HIDE DEF Bound
<1>3. ASSUME NEW d \in Conn, ConnStep(d)
      PROVE  \E i \in 1..WheelSize :
               c \in wheel'[i] /\ (stats'[c] = "working" => idle'[c] <= Bound(i) + since')
  <2>1. CASE Insert(d) /\ c = d
    <3>1. c \in wheel'[WheelSize] /\ idle'[c] = 0 /\ since' = since
      BY <2>1 DEF TypeOK, Insert, back_insert, touch_sock_time
    <3> QED
      BY <1>0, <3>1
  <2>2. CASE ~(Insert(d) /\ c = d)
    <3> USE DEF ConnStep, Insert, Touch, Fail, Resume, Requeue, Recycle
    <3>1. c \notin shut /\ stats[c] \in {"working", "error"}
      BY <1>2, <1>3, <2>2 DEF TypeOK
    <3>2. \A i \in 1..WheelSize : c \in wheel[i] => c \in wheel'[i]
      BY <1>2, <1>3, <2>2, <3>1 DEF TypeOK, back_insert
    <3>3. PICK i \in 1..WheelSize : InBucket(c, i)
      BY <1>1, <3>1
    <3>4. idle[c] \in Int /\ idle[c] >= 0
      BY <1>0 DEF TypeOK
    <3>5. since' = since /\ (stats'[c] = "working" => idle'[c] = 0 \/ (stats[c] = "working" /\ idle'[c] = idle[c]))
      BY <1>2, <1>3, <3>1 DEF TypeOK, touch_sock_time
    <3>6. Bound(i) \in Nat /\ 0 <= Bound(i) + since
      BY <1>0
    <3> QED
      BY <1>0, <3>2, <3>3, <3>4, <3>5, <3>6
  <2> QED
    BY <2>1, <2>2
<1>4. CASE timing_wheel_check
  <2>1. /\ since' = 0 /\ idle'[c] = idle[c] /\ idle[c] \in Int
        /\ stats'[c] = stats[c] /\ c \notin shut /\ stats[c] # "pending"
        /\ ~(c \in wheel[1] /\ Overdue(c))
    <3> DEFINE overdue == {k \in {k \in wheel[1] : stats[k] # "pending"} : Overdue(k)}
    <3>1. /\ shut' = shut \cup overdue /\ since' = 0 /\ idle' = idle
          /\ stats' = [k \in Conn |-> IF k \in overdue THEN "error" ELSE stats[k]]
      BY <1>4 DEF timing_wheel_check
    <3>2. c \in Conn /\ c \notin shut /\ c \notin overdue
      BY <1>2, <3>1
    <3>3. stats'[c] = stats[c]
      BY <3>1, <3>2
    <3>4. stats[c] # "pending"
      BY <1>2, <3>3
    <3>5. idle[c] \in Int
      BY <1>0, <3>2 DEF TypeOK
    <3> QED
      BY <3>1, <3>2, <3>3, <3>4, <3>5
  <2>2. PICK i \in 1..WheelSize : InBucket(c, i)
    BY <1>1, <1>2, <2>1
  <2>3. CASE i = 1
    <3>1. c \in wheel'[WheelSize]
      BY <1>4, <2>1, <2>2, <2>3 DEF timing_wheel_check, pushed_back
    <3>2. idle[c] <= Bound(WheelSize)
      BY <1>0, <2>1, <2>2, <2>3 DEF Overdue
    <3> QED
      BY <1>0, <2>1, <3>1, <3>2
  <2>4. CASE i # 1
    <3>1. i - 1 \in 1..WheelSize /\ c \in wheel'[i - 1]
      BY <1>4, <2>2, <2>4 DEF timing_wheel_check, pushed_back
    <3>2. since <= Spare + Late
      BY DEF TypeOK
    <3>3. stats[c] = "working" => idle[c] <= Bound(i - 1)
      BY <1>0, <2>1, <2>2, <2>4, <3>2
    <3> QED
      BY <1>0, <2>1, <3>1, <3>3
  <2> QED
    BY <2>3, <2>4
<1>5. CASE Second
  <2>1. /\ stats' = stats /\ wheel' = wheel /\ shut' = shut /\ since' = since + 1
        /\ idle[c] \in Int /\ idle'[c] \in {idle[c], idle[c] + 1}
    BY <1>0, <1>5 DEF TypeOK, Second
  <2>2. PICK i \in 1..WheelSize : InBucket(c, i)
    BY <1>1, <1>2, <2>1
  <2> QED
    BY <1>0, <2>1, <2>2
<1>6. CASE UNCHANGED vars
  BY <1>1, <1>2, <1>6 DEF vars
<1> QED
  BY <1>3, <1>4, <1>5, <1>6 DEF Next

\* The wheel keeps every object that works in a bucket that is scanned in time.
THEOREM WheelInvariance == Spec => []WheelInv
<1>1. Init => WheelInv
  <2> SUFFICES ASSUME Init PROVE WheelInv
    OBVIOUS
  <2>1. TypeOK
    BY SpareIsPositive, Turns DEF Init, TypeOK
  <2> QED
    BY <2>1 DEF Init, InTime, WheelInv
<1>2. WheelInv /\ [Next]_vars => WheelInv'
  BY TypeStep, InTimeStep DEF WheelInv
<1> QED
  BY <1>1, <1>2, PTL DEF Spec

\* TypeOK of TimingWheel.
THEOREM WheelTypes == Spec => []TypeOK
<1>1. WheelInv => TypeOK
  BY DEF WheelInv
<1> QED
  BY <1>1, WheelInvariance, PTL

\* The bucket of an object that works says how long its client may have been silent
\* (http_server.cpp:120, co_worker.cpp:82-101).
THEOREM BucketsAreInTime == Spec => []InTime
<1>1. WheelInv => InTime
  BY DEF WheelInv
<1> QED
  BY <1>1, WheelInvariance, PTL

\* No client is silent for longer than Limit and still served, whatever the sizes
\* (co_worker.cpp:70-86, http_server.hpp:87-92).
THEOREM SilenceIsBounded == Spec => []IdleIsBounded
<1>1. WheelInv => IdleIsBounded
  <2> SUFFICES ASSUME WheelInv, NEW c \in Conn \ shut, stats[c] = "working"
               PROVE  idle[c] <= Limit
    BY DEF IdleIsBounded
  <2>1. PICK i \in 1..WheelSize :
               c \in wheel[i] /\ idle[c] <= ExpiredTime - Spare - 1 + turn(i) + since
    BY InTimeTurns DEF WheelInv
  <2>2. Spare \in Nat /\ Late \in Nat /\ since \in Nat /\ since <= Spare + Late
        /\ idle[c] \in Int
    BY SpareIsPositive, Turns DEF WheelInv, TypeOK
  <2>3. turn(i) <= turn(1)
    <3>1. (i - 1) * (Spare + Late) >= 0
      BY <2>2
    <3> QED
      BY <2>2, <3>1 DEF turn
  <2> QED
    BY <2>1, <2>2, <2>3, Turns
<1> QED
  BY <1>1, WheelInvariance, PTL
==============================================================================
