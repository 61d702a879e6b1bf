------------------------------ MODULE TimingWheel ------------------------------
(***************************************************************************)
(* The timing wheel against the clock (http_server.hpp:86-119,             *)
(* co_worker.cpp:16-29, 48-113).  ConnPool asks which threads see which    *)
(* object; here a scan is one step and the question is how long a client   *)
(* may stay silent.  The clock is second_clock, whole seconds; idle[c] is  *)
(* its reading minus touch_time_.                                          *)
(***************************************************************************)
EXTENDS Integers

CONSTANTS
  Conn,         \* front_conn objects
  WheelSize,    \* capacity of timing_wheel_ (10)
  ExpiredTime,  \* conn_expired_time_, in seconds (600)
  Late          \* bound: how many seconds late a scan may be

\* set_conn_expired_time takes no other value; the check of a wheel whose period is
\* 0 would be the assertion of get_conn_check_spare.
ASSUME TimeAssumption ==
  /\ WheelSize \in Nat \ {0, 1}
  /\ ExpiredTime \in Nat /\ ExpiredTime > WheelSize
  /\ Late \in Nat

VARIABLES
  wheel,   \* timing_wheel_, bucket 1 is the front
  stats,   \* stats_; "free" before make_shared and after the last reference
  shut,    \* objects whose socket co_worker has shut down
  pending, \* pending_to_remove_
  idle,
  since    \* seconds since the timer of co_worker was armed

vars == <<wheel, stats, shut, pending, idle, since>>

\* get_conn_check_spare, the seconds from one scan to the next.
Spare == ExpiredTime \div WheelSize

\* The longest a connection that works may have been silent.
Limit == ExpiredTime - Spare - 1 + WheelSize * (Spare + Late)

\* http_server::run fills the wheel with empty buckets.
Init ==
  /\ wheel = [i \in 1..WheelSize |-> {}]
  /\ stats = [c \in Conn |-> "free"]
  /\ shut = {} /\ pending = {}
  /\ idle = [c \in Conn |-> 0]
  /\ since = 0

------------------------------------------------------------------------------
(* What happens to a connection.                                           *)

back_insert(c) == wheel' = [wheel EXCEPT ![WheelSize] = @ \cup {c}]

touch_sock_time(c) == idle' = [idle EXCEPT ![c] = 0]

\* accept_handler with a fresh or a cached object, up to its start().
Insert(c) ==
  /\ stats[c] \in {"free", "pending"}
  /\ stats' = [stats EXCEPT ![c] = "working"]
  /\ shut' = shut \ {c}
  /\ back_insert(c)
  /\ touch_sock_time(c)
  /\ UNCHANGED <<pending, since>>

\* do_read_head, do_read_body or do_write.
Touch(c) ==
  /\ stats[c] = "working"
  /\ touch_sock_time(c)
  /\ UNCHANGED <<wheel, stats, shut, pending, since>>

\* notify_conn_error.
Fail(c) ==
  /\ stats[c] = "working"
  /\ stats' = [stats EXCEPT ![c] = "error"]
  /\ pending' = pending \cup {c}
  /\ UNCHANGED <<wheel, shut, idle, since>>

\* start() at the end of a handler that ran, or was queued, when the object was
\* marked: conn_working again, and do_read_head.
Resume(c) ==
  /\ stats[c] = "error"
  /\ stats' = [stats EXCEPT ![c] = "working"]
  /\ touch_sock_time(c)
  /\ UNCHANGED <<wheel, shut, pending, since>>

\* manage_thread finds the object in use and puts it back into the wheel.
Requeue(c) ==
  /\ c \in pending
  /\ pending' = pending \ {c}
  /\ back_insert(c)
  /\ UNCHANGED <<stats, shut, idle, since>>

\* manage_thread caches the object, whose weak_ptrs stay in the wheel, or drops
\* it, and no weak_ptr to it can be locked any more.
Recycle(c) ==
  /\ c \in pending /\ stats[c] = "error"
  /\ pending' = pending \ {c}
  /\ \/ stats' = [stats EXCEPT ![c] = "pending"] /\ UNCHANGED wheel
     \/ /\ stats' = [stats EXCEPT ![c] = "free"]
        /\ wheel' = [i \in 1..WheelSize |-> wheel[i] \ {c}]
  /\ UNCHANGED <<shut, idle, since>>

------------------------------------------------------------------------------
(* The co_worker thread and the clock.                                     *)

\* Mutant: the whole expiry time, without the seconds to the next scan.
Overdue_Whole(c) == idle[c] >= ExpiredTime

Overdue(c) == idle[c] >= ExpiredTime - Spare

\* Mutants of the bucket that goes back: the overdue ones as well; none.
pushed_back_Grow(bucket) == [i \in 1..(WheelSize + 1) |->
                               IF i <= WheelSize THEN wheel[i] ELSE bucket]
pushed_back_Empty(bucket) == [i \in 1..WheelSize |->
                                IF i < WheelSize THEN wheel[i + 1] ELSE {}]

\* push_back on the full circular_buffer drops its front.
pushed_back(bucket) == [i \in 1..WheelSize |->
                          IF i < WheelSize THEN wheel[i + 1] ELSE bucket]

\* timing_wheel_check: cached objects leave the wheel, overdue ones leave it and are
\* shut down, marked and pushed, the others go to the back; the timer is armed anew.
timing_wheel_check ==
  /\ since >= Spare
  /\ LET seen == {c \in wheel[1] : stats[c] # "pending"}
         overdue == {c \in seen : Overdue(c)}
     IN /\ stats' = [c \in Conn |-> IF c \in overdue THEN "error" ELSE stats[c]]
        /\ wheel' = pushed_back(seen \ overdue)
        /\ shut' = shut \cup overdue
        /\ pending' = pending \cup overdue
  /\ since' = 0
  /\ UNCHANGED idle

\* One second.  Beyond Limit it only matters that a time is beyond it.
Second ==
  /\ since < Spare + Late
  /\ since' = since + 1
  /\ idle' = [c \in Conn |-> IF idle[c] > Limit THEN idle[c] ELSE idle[c] + 1]
  /\ UNCHANGED <<wheel, stats, shut, pending>>

ConnStep(c) == Insert(c) \/ Touch(c) \/ Fail(c) \/ Resume(c) \/ Requeue(c) \/ Recycle(c)

Next ==
  \/ \E c \in Conn : ConnStep(c)
  \/ timing_wheel_check
  \/ Second

Spec == Init /\ [][Next]_vars

\* Time passes, the timer of co_worker fires, and a read or write of a socket that is
\* shut down fails.
FairSpec ==
  /\ Spec
  /\ WF_vars(Second) /\ WF_vars(timing_wheel_check)
  /\ \A c \in Conn : WF_vars(c \in shut /\ Fail(c))

------------------------------------------------------------------------------
TypeOK ==
  /\ wheel \in [1..WheelSize -> SUBSET Conn]
  /\ stats \in [Conn -> {"free", "working", "pending", "error"}]
  /\ shut \subseteq Conn /\ pending \subseteq Conn
  /\ idle \in [Conn -> 0..(Limit + 1)]
  /\ since \in 0..(Spare + Late)

\* A silent client is cut off: no connection is open and works for longer than Limit
\* seconds without being touched, whatever was recycled, put back or revived meanwhile.
\* For scans that are never late this is less than twice conn_expired_time_, and not
\* conn_expired_time_ itself: a connection touched just after its bucket was scanned is
\* judged a whole turn later, and then not always (http_server.hpp:87-91).
IdleIsBounded == \A c \in Conn \ shut : stats[c] = "working" => idle[c] <= Limit

\* A connection that is served, or may be again, and was not shut down is in a bucket;
\* if it works, in one that it is young enough for: the scan comes before the limit.
InTime ==
  \A c \in Conn \ shut : stats[c] \in {"working", "error"} =>
    \E i \in 1..WheelSize :
      /\ c \in wheel[i]
      /\ stats[c] = "working" =>
           idle[c] <= ExpiredTime - Spare - 1 + (WheelSize - i) * (Spare + Late) + since

\* Whoever is silent is heard of again or expired in the end (co_worker.cpp:70-86).
SilenceEnds ==
  \A c \in Conn :
    stats[c] = "working" /\ idle[c] > 0 ~> stats[c] # "working" \/ idle[c] = 0
==============================================================================
