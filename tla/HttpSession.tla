----------------------------- MODULE HttpSession -----------------------------
(***************************************************************************)
(* What one front_conn object promises the clients it serves in turn: each *)
(* request gets at most one reply, which comes in one piece, before the    *)
(* next request is answered; the body of a request is handed to            *)
(* analyse_handler at most once, before anything of the reply is sent, and *)
(* only then may the reply be an answer.  FrontConn implements it.         *)
(***************************************************************************)
EXTENDS Naturals, Sequences

CONSTANTS
  Requests,     \* what a client may ask
  ForAnalyse,   \* the requests whose body goes to analyse_handler
  Status,       \* of a reply; "ok" comes with an answer
  MaxContent    \* the longest content of a reply

VARIABLES
  client,   \* which client is served now
  asked,    \* its requests
  handed,   \* by their numbers, the requests whose body has been handed over whole
  got       \* the parts of replies the client has received

vars == <<client, asked, handed, got>>

Init == client = 1 /\ asked = <<>> /\ handed = <<>> /\ got = <<>>

last == got[Len(got)]

\* The client has the replies to its first n requests, and nothing more.
RepliedTo(n) == IF got = <<>> THEN n = 0 ELSE last.i = n /\ last.part = last.size

HandedOver == \E n \in DOMAIN handed : handed[n] = Len(asked)

Ask ==
  /\ RepliedTo(Len(asked))
  /\ \E r \in Requests : asked' = Append(asked, r)
  /\ UNCHANGED <<client, handed, got>>

HandOver ==
  /\ asked # <<>> /\ asked[Len(asked)] \in ForAnalyse
  /\ RepliedTo(Len(asked) - 1) /\ ~HandedOver
  /\ handed' = Append(handed, Len(asked))
  /\ UNCHANGED <<client, asked, got>>

\* The first part of a reply.
Begin ==
  /\ asked # <<>> /\ RepliedTo(Len(asked) - 1)
  /\ \E status \in Status, n \in 1..MaxContent :
       /\ status = "ok" => HandedOver
       /\ got' = Append(got, [i |-> Len(asked), status |-> status, length |-> n,
                              part |-> 1, size |-> n + 1])
  /\ UNCHANGED <<client, asked, handed>>

Continue ==
  /\ got # <<>> /\ last.part < last.size
  /\ got' = Append(got, [last EXCEPT !.part = @ + 1])
  /\ UNCHANGED <<client, asked, handed>>

NextClient ==
  /\ client' = client + 1
  /\ asked' = <<>> /\ handed' = <<>> /\ got' = <<>>

Next == Ask \/ HandOver \/ Begin \/ Continue \/ NextClient

Spec == Init /\ [][Next]_vars
==============================================================================
