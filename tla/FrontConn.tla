------------------------------- MODULE FrontConn -------------------------------
(***************************************************************************)
(* One front_conn object and its clients: what is read, which request it   *)
(* is taken for, and which bytes go back (front_conn.cpp:44-364,           *)
(* connection.cpp:95-125).  The strand runs one handler at a time; the     *)
(* co_worker thread may mark the connection dead between its steps.        *)
(*                                                                         *)
(* Bytes are modelled by their role: [c, i, part] is, for the client c of  *)
(* the object and its i-th request, the head (part 0) or a piece of the    *)
(* body (part 1..len).  A reply is its head and length pieces of content;   *)
(* it goes out in the parts 1..length + 1.  Bodies hold no blank line and   *)
(* no field of a head.                                                     *)
(*                                                                         *)
(* handler: "none"; "write" a reply is filled in, do_write comes next;     *)
(* "more" the same from write_handler; "start"; "rearm" do_read_head next  *)
(***************************************************************************)
EXTENDS Integers, HttpParser

CONSTANTS
  MaxClients,   \* bound: how many clients the object serves in turn
  MaxRequests,  \* bound: requests of one client
  MaxLen,       \* bound: Content-Length, in pieces
  MaxContent,   \* bound: the content of a reply, in pieces
  BufSize,      \* p_buffer_'s initial size (16*1024), in pieces
  Slack         \* what resize adds to the length (256)

ASSUME BoundsAssumption ==
  /\ {MaxRequests, MaxLen} \subseteq Nat
  /\ {MaxClients, MaxContent, BufSize, Slack} \subseteq Nat \ {0}

VARIABLES
  client,     \* which client the object serves now
  asked,      \* the requests of this client: kind and Content-Length
  got,        \* the reply parts this client has received
  net,        \* bytes the client has sent and the object has not read
  sock,       \* "open", or "shut" by co_worker or by a failed operation
  stats,      \* stats_: "working" or "error"
  handler,
  read_op,    \* "none", "head", "body" or "aborted": the outstanding async_read
  request,    \* request_, the streambuf
  parsed,     \* the request read last, and header_opts_ of parser_
  p_buffer,   \* the first r_size_ bytes of p_buffer_
  p_size,     \* p_buffer_->size()
  p_write,    \* the reply in p_write_
  w_size, w_pos,
  writes,     \* outstanding async_writes: where each began, how far it is, its end
  served,     \* what analyse_handler has been given, of this client
  fault       \* the assertion that has failed, or "none"

clientVars == <<client, asked, got>>
readVars == <<net, read_op, request, parsed, p_buffer, p_size>>
replyVars == <<p_write, w_size, w_pos>>
vars == <<clientVars, readVars, replyVars, writes, sock, stats, handler, served, fault>>

NOREQ == [i |-> 0, opts |-> NoOptions]
NOREPLY == [i |-> 0, status |-> "none", length |-> 0]

\* "analyse" is POST /analyse, "slash" the same in another spelling, "item" POST /item
\* or /ailaw, "missing" POST to any other uri, "colon" a request line with ':', "nul" a
\* head with a 0 byte, "get" another method, without a body.
Requests ==
  {r \in [kind : {"analyse", "slash", "item", "missing", "colon", "nul", "get"},
          len : 0..MaxLen] :
     r.kind = "get" => r.len = 0}

\* The lines of a head, the Content-Length spelled in one of two ways.
request_line(r) ==
  IF r.kind = "colon"
  THEN [what |-> "field", name |-> [word |-> "POST_analyse", spelling |-> 1],
        value |-> "rest"]
  ELSE [what |-> "request", method |-> IF r.kind = "get" THEN "GET" ELSE "POST",
        uri |-> [path |-> IF r.kind \in {"item", "missing"} THEN r.kind ELSE "analyse",
                 slashes |-> IF r.kind = "slash" THEN 1 ELSE 0]]
length_line(r) ==
  [what |-> "field", value |-> r.len,
   name |-> [word |-> "content-length", spelling |-> IF r.kind = "slash" THEN 2 ELSE 1]]

head(r) ==
  [nul |-> r.kind = "nul",
   lines |-> IF r.kind = "get" THEN <<request_line(r)>>
             ELSE <<request_line(r), length_line(r)>>]

bytes(i, r) == [n \in 1..(r.len + 1) |-> [c |-> client, i |-> i, part |-> n - 1]]
IsHead(b) == b.part = 0

Init ==
  /\ client = 1
  /\ asked = <<>> /\ got = <<>> /\ net = <<>> /\ served = <<>>
  /\ sock = "open" /\ stats = "working" /\ handler = "none" /\ read_op = "head"
  /\ p_buffer = <<>> /\ p_size = BufSize /\ w_size = 0 /\ w_pos = 0 /\ writes = <<>>
  /\ request = <<>> /\ parsed = NOREQ /\ p_write = NOREPLY
  /\ fault = "none"

------------------------------------------------------------------------------
(* The client.                                                             *)

\* The client finds the end of a reply by its Content-Length.
Answered ==
  asked # <<>> =>
    /\ got # <<>>
    /\ Last(got).i = Len(asked) /\ Last(got).part = Last(got).length + 1

\* A client waits for the whole reply before it sends another request, and takes
\* "Connection: keep-alive" at its word.
ClientSends ==
  /\ Len(asked) < MaxRequests
  /\ Answered
  /\ \E r \in Requests :
       /\ asked' = Append(asked, r)
       /\ net' = net \o bytes(Len(asked) + 1, r)
  /\ UNCHANGED <<client, got, read_op, request, parsed, p_buffer, p_size, replyVars, writes,
                 sock, stats, handler, served, fault>>

------------------------------------------------------------------------------
(* Reading.                                                                *)

\* The content of a reply: an answer, or one of the fixed pages.
contents(status) == IF status = "ok" THEN 1..MaxContent ELSE {1}

\* Mutant: Content-Length counts the whole reply.
reply_generate_Whole(i, status, n) == [i |-> i, status |-> status, length |-> n + 1]

reply_generate(i, status, n) == [i |-> i, status |-> status, length |-> n]

\* fill_for_http: the reply and its size, nothing of it written yet.
fill_for_http(i, status) ==
  /\ \E n \in contents(status) :
       /\ p_write' = reply_generate(i, status, n)
       /\ w_size' = n + 1
  /\ w_pos' = 0
  /\ handler' = "write"

\* The error path of the three handlers: shutdown and notify_conn_error.
conn_error ==
  /\ stats' = "error" /\ sock' = "shut"
  /\ p_buffer' = <<>> /\ w_size' = 0
  /\ UNCHANGED <<p_write, w_pos, handler>>

uri(opts) == request_option(opts, request_uri, "")

\* read_body_handler with the body complete; with no byte it is an error, and
\* analyse_handler may fail.
process(r, body) ==
  /\ read_op' = "none"
  /\ IF body = <<>>
     THEN conn_error /\ UNCHANGED served
     ELSE /\ IF uri(r.opts) = "analyse"
             THEN /\ \E status \in {"ok", "error"} : fill_for_http(r.i, status)
                  /\ served' = Append(served, [i |-> r.i, body |-> body])
             ELSE fill_for_http(r.i, "not_found") /\ UNCHANGED served
          /\ p_buffer' = body
          /\ UNCHANGED <<stats, sock>>

\* The head at the end of all, as the parser is given it: bytes before it belong to its
\* first line and spoil it, or are lines of their own, or hold a 0 byte.
junk == [what |-> "other"]
spoiled(h) ==
  {[h EXCEPT !.lines[1] = junk], [h EXCEPT !.lines = <<junk>> \o @], [h EXCEPT !.nul = TRUE]}

heads(all) ==
  LET h == head(asked[Last(all).i]) IN IF Len(all) = 1 THEN {h} ELSE spoiled(h)

\* Mutant: the head stays in request_ and is read again.
beyond_Kept(all, h) == all

\* request_ after the head at h is consumed.
beyond(all, h) == SubSeq(all, h + 1, Len(all))

\* Mutant: no room for the 0 that is copied behind the body.
relarged_Tight(len) == IF len > p_size THEN len + Slack ELSE p_size

\* p_buffer_ is made large enough before anything is copied into it.
relarged(len) == IF len + 1 > p_size THEN len + Slack ELSE p_size

\* read_head_handler answers at once: a head that is not parsed, with everything read
\* thrown away; another method; an unknown uri.
refuse(i, status, left) ==
  /\ fill_for_http(i, status)
  /\ request' = left
  /\ read_op' = "none"
  /\ UNCHANGED <<p_size, stats, sock, served, fault>>

\* read_head_handler for the request r; additional has been read with its head.
take_body(r, additional) ==
  LET len == length_option(r.opts) IN
    /\ request' = <<>>
    /\ p_size' = relarged(len)
    /\ \/ /\ Len(additional) > len
          /\ fault' = "additional"
          /\ UNCHANGED <<p_buffer, replyVars, handler, read_op, stats, sock, served>>
       \/ /\ Len(additional) < len
          /\ p_buffer' = additional
          /\ read_op' = IF stats = "working" THEN "body" ELSE "none"
          /\ UNCHANGED <<replyVars, handler, stats, sock, served, fault>>
       \/ /\ Len(additional) = len
          /\ process(r, additional)
          /\ UNCHANGED fault

read_head_handler(i, hd, additional) ==
  IF parse_fails(hd)
  THEN /\ refuse(i, "error", <<>>) /\ p_buffer' = <<>>
       /\ parsed' = [i |-> i, opts |-> parsed.opts]
  ELSE LET r == [i |-> i, opts |-> parse_request(parsed.opts, hd)] IN
         /\ parsed' = r
         /\ IF request_option(r.opts, request_method, "") # "POST"
            THEN refuse(i, "bad", additional) /\ UNCHANGED p_buffer
            ELSE IF uri(r.opts) \in {"analyse", "item"} THEN take_body(r, additional)
            ELSE refuse(i, "not_found", additional) /\ UNCHANGED p_buffer

HasHead(seq) == \E k \in DOMAIN seq : IsHead(seq[k])

\* async_read_until finds a head among the bytes of request_ and those it reads,
\* of which it may have read any number beyond the head.  Bytes that have arrived are
\* delivered also when the socket has been shut down meanwhile.
ReadHead ==
  /\ handler = "none" /\ read_op = "head"
  /\ \E n \in 0..Len(net) :
       LET all == request \o SubSeq(net, 1, n) IN
         /\ n > 0 => ~HasHead(request)
         /\ net' = SubSeq(net, n + 1, Len(net))
         /\ \E h \in DOMAIN all :
              /\ IsHead(all[h]) /\ ~HasHead(SubSeq(all, 1, h - 1))
              /\ \E hd \in heads(SubSeq(all, 1, h)) :
                   read_head_handler(all[h].i, hd, beyond(all, h))
  /\ UNCHANGED <<clientVars, writes>>

\* Mutant: the bytes that came with the head are overwritten.
body_read_Over(more) == more

\* async_read puts the rest of the body behind the first r_size_ bytes.
body_read(more) == p_buffer \o more

ReadBody ==
  /\ handler = "none" /\ read_op = "body"
  /\ LET need == length_option(parsed.opts) - Len(p_buffer) IN
       /\ Len(net) >= need
       /\ net' = SubSeq(net, need + 1, Len(net))
       /\ process(parsed, body_read(SubSeq(net, 1, need)))
  /\ UNCHANGED <<clientVars, request, parsed, p_size, writes, fault>>

\* The client has gone, or the socket was shut down.
ReadError ==
  /\ handler = "none" /\ read_op \in {"head", "body"}
  /\ read_op' = "none"
  /\ conn_error
  /\ UNCHANGED <<clientVars, net, request, parsed, p_size, writes, served, fault>>

\* error_return after operation_aborted.
ReadAborted ==
  /\ handler = "none" /\ read_op = "aborted"
  /\ read_op' = "none"
  /\ fill_for_http(parsed.i, "error")
  /\ request' = <<>> /\ p_buffer' = <<>>
  /\ UNCHANGED <<clientVars, net, parsed, p_size, writes, sock, stats, served, fault>>

------------------------------------------------------------------------------
(* Writing.                                                                *)

\* do_write, with its two assertions.
DoWrite ==
  /\ handler \in {"write", "more"}
  /\ IF stats = "working" /\ ~(w_size > 0 /\ w_pos < w_size)
     THEN fault' = "do_write" /\ UNCHANGED <<writes, handler>>
     ELSE /\ writes' = IF stats = "working"
                       THEN Append(writes, [from |-> w_pos, done |-> w_pos, size |-> w_size])
                       ELSE writes
          /\ handler' = IF handler = "write" THEN "start" ELSE "none"
          /\ UNCHANGED fault
  /\ UNCHANGED <<clientVars, readVars, replyVars, sock, stats, served>>

\* Mutant: start() leaves the sizes of the last reply.
sizes_Kept == UNCHANGED <<w_size, w_pos>>

\* start() resets the sizes; the write it may have just started goes on.
sizes_reset == w_size' = 0 /\ w_pos' = 0

Start ==
  /\ handler = "start"
  /\ stats' = "working"
  /\ sizes_reset
  /\ p_buffer' = <<>>
  /\ handler' = "rearm"
  /\ UNCHANGED <<clientVars, net, read_op, request, parsed, p_size, p_write, writes, sock,
                 served, fault>>

Rearm ==
  /\ handler = "rearm"
  /\ read_op' = IF stats = "working" THEN "head" ELSE "none"
  /\ handler' = "none"
  /\ UNCHANGED <<clientVars, net, request, parsed, p_buffer, p_size, replyVars, writes, sock,
                 stats, served, fault>>

\* The kernel takes one more part of p_write_ for one of the writes.
WriteSome ==
  /\ sock = "open"
  /\ \E j \in DOMAIN writes :
       /\ writes[j].done < writes[j].size
       /\ writes' = [writes EXCEPT ![j].done = @ + 1]
       /\ got' = Append(got, [i |-> p_write.i, status |-> p_write.status,
                              length |-> p_write.length,
                              part |-> writes[j].done + 1, size |-> writes[j].size])
  /\ UNCHANGED <<client, asked, readVars, replyVars, sock, stats, handler, served, fault>>

\* w_pos_ after the write that is at the head of the strand's queue.
w_pos_after == w_pos + (Head(writes).size - Head(writes).from)

\* Mutant: the position of a write that is complete is kept.
all_written_Kept == w_pos' = w_pos_after /\ w_size' = 0

all_written == w_pos' = 0 /\ w_size' = 0

\* write_handler: what is missing of the reply in p_write_ is sent, if anything.
WriteDone ==
  /\ handler = "none"
  /\ writes # <<>> /\ Head(writes).done = Head(writes).size
  /\ writes' = Tail(writes)
  /\ IF w_pos_after < w_size
     THEN w_pos' = w_pos_after /\ handler' = "more" /\ UNCHANGED w_size
     ELSE all_written /\ UNCHANGED handler
  /\ UNCHANGED <<clientVars, readVars, p_write, sock, stats, served, fault>>

\* The socket was cancelled with the write: write_handler ignores it.
WriteAborted ==
  /\ handler = "none"
  /\ writes # <<>> /\ sock = "shut"
  /\ writes' = Tail(writes)
  /\ UNCHANGED <<clientVars, readVars, replyVars, sock, stats, handler, served, fault>>

\* The write failed: the read is cancelled and the connection is dead.
WriteFail ==
  /\ handler = "none"
  /\ writes # <<>> /\ Head(writes).done < Head(writes).size
  /\ writes' = Tail(writes)
  /\ read_op' \in {read_op, IF read_op = "none" THEN "none" ELSE "aborted"}
  /\ conn_error
  /\ UNCHANGED <<clientVars, net, request, parsed, p_size, served, fault>>

------------------------------------------------------------------------------
(* The other threads.                                                      *)

\* timing_wheel_check finds the connection overdue.
Expire ==
  /\ sock = "open"
  /\ sock' = "shut" /\ stats' = "error"
  /\ UNCHANGED <<clientVars, readVars, replyVars, writes, handler, served, fault>>

\* Mutant: request_ keeps what the last client sent.
request_reset_Kept == UNCHANGED request

\* conn_reset_network empties request_.
request_reset == request' = <<>>

\* The object is washed, and accept_handler gives it to the next client.
Recycle ==
  /\ stats = "error" /\ handler = "none" /\ read_op = "none" /\ writes = <<>>
  /\ client < MaxClients
  /\ client' = client + 1
  /\ asked' = <<>> /\ got' = <<>> /\ net' = <<>> /\ served' = <<>>
  /\ sock' = "open" /\ stats' = "working" /\ read_op' = "head"
  /\ p_buffer' = <<>> /\ p_size' = BufSize /\ w_size' = 0 /\ w_pos' = 0
  /\ request_reset
  /\ UNCHANGED <<parsed, p_write, writes, handler, fault>>

Ended ==
  /\ \/ fault # "none"
     \/ stats = "error" /\ handler = "none" /\ read_op = "none" /\ writes = <<>>
  /\ UNCHANGED vars

HandlerStep ==
  \/ ReadHead \/ ReadBody \/ ReadError \/ ReadAborted
  \/ DoWrite \/ Start \/ Rearm
  \/ WriteDone \/ WriteAborted \/ WriteFail

Next ==
  \/ fault = "none" /\ (ClientSends \/ HandlerStep \/ WriteSome \/ Expire \/ Recycle)
  \/ Ended

Spec == Init /\ [][Next]_vars

------------------------------------------------------------------------------
Byte == [c : 1..MaxClients, i : 1..MaxRequests, part : 0..MaxLen]
Write == [from : Nat, done : Nat, size : 1..(MaxContent + 1)]

TypeOK ==
  /\ client \in 1..MaxClients
  /\ asked \in Seq(Requests) /\ Len(asked) <= MaxRequests
  /\ {net, request, p_buffer} \subseteq Seq(Byte)
  /\ p_size \in Nat
  /\ sock \in {"open", "shut"} /\ stats \in {"working", "error"}
  /\ handler \in {"none", "write", "more", "start", "rearm"}
  /\ read_op \in {"none", "head", "body", "aborted"}
  /\ w_size \in 0..(MaxContent + 1) /\ w_pos \in 0..(MaxContent + 1)
  /\ parsed.i \in 0..MaxRequests
  /\ p_write.i \in 0..MaxRequests
  /\ writes \in Seq(Write)
  /\ \A j \in DOMAIN writes : writes[j].from <= writes[j].done /\ writes[j].done <= writes[j].size
  /\ fault \in {"none", "additional", "do_write"}

\* What the code answers to a request, by what the client has sent.
statuses(kind) ==
  CASE kind \in {"analyse", "slash"} -> {"ok", "error"}
    [] kind = "nul" -> {"error"}
    [] kind \in {"get", "colon"} -> {"bad"}
    [] OTHER -> {"not_found"}

\* The body of request j was not read with it and may stand before the next head.
BodyIsLeft(j) == asked[j].len > 0 /\ asked[j].kind \in {"missing", "colon", "nul"}

\* The replies come whole, one per request and in the order of the requests,
\* each with a status its own request may get; a request whose head is spoiled by the
\* body of an earlier one is refused and nothing worse.  Also for a recycled object and
\* with the last write's handler still due when the next request is read
\* (front_conn.cpp:131-322).
RepliesInOrder ==
  \A n \in DOMAIN got :
    /\ got[n].i \in DOMAIN asked
    /\ \/ got[n].status \in statuses(asked[got[n].i].kind)
       \/ got[n].status \in {"bad", "error"} /\ \E j \in 1..(got[n].i - 1) : BodyIsLeft(j)
    /\ IF n = 1 \/ got[n - 1].part = got[n - 1].size
       THEN got[n].part = 1 /\ got[n].i = IF n = 1 THEN 1 ELSE got[n - 1].i + 1
       ELSE got[n] = [got[n - 1] EXCEPT !.part = @ + 1]

\* analyse_handler gets exactly the body of its request, however it was cut into
\* reads, and no byte of another request or client (front_conn.cpp:166-188, 371).
BodyIsItsOwn ==
  \A n \in DOMAIN served :
    served[n].body = Tail(bytes(served[n].i, asked[served[n].i]))

\* An outstanding read finds what it waits for.
ReadCompletes ==
  \/ read_op = "head" /\ HasHead(request \o net)
  \/ read_op = "body" /\ Len(p_buffer \o net) >= length_option(parsed.opts)

\* Server and client never wait for each other: while nothing is being written and
\* no read can complete, or none is outstanding, the client has had the whole reply to
\* what it asked (front_conn.cpp:184-188, reply.hpp:50-51).
NoMutualWait ==
  /\ fault = "none" /\ stats = "working" /\ sock = "open"
  /\ handler = "none" /\ writes = <<>> /\ ~ReadCompletes
  => Answered

\* The body and the 0 behind it stay inside p_buffer_ (front_conn.cpp:158-175, 98).
BodyFits ==
  /\ Len(p_buffer) < p_size
  /\ read_op = "body" => length_option(parsed.opts) < p_size

\* The assertions of read_head_handler and do_write hold for clients that wait
\* for their reply (front_conn.cpp:117-118, 156).
AssertionsHold == fault = "none"

\* write_handler never finds a remainder to send: a write ends when everything
\* is sent, and its handler never takes the next reply for its own
\* (front_conn.cpp:300-310).
NoAdditionalWrite == handler # "more"

------------------------------------------------------------------------------
(* What the clients see of the object.                                     *)

Status == {"ok", "error", "bad", "not_found"}
ForAnalyse == {r \in Requests : r.kind \in {"analyse", "slash"}}

\* The requests whose own body, whole and nothing else, analyse_handler has been given.
handed ==
  [n \in DOMAIN served |->
     IF served[n].body = Tail(bytes(served[n].i, asked[served[n].i])) THEN served[n].i ELSE 0]

Session == INSTANCE HttpSession

\* Reading, handling and writing together, with all that is cut, late, shut down or reused,
\* serve one request after the other: at most one reply to each and never a mix of two,
\* no request handed over twice, and no answer to a request that was not
\* (front_conn.cpp:65-332).
SessionSpec == Session!Spec
==============================================================================
