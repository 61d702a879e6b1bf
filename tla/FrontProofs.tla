----------------------------- MODULE FrontProofs -----------------------------
(***************************************************************************)
(* What one front_conn object does with its buffers, for every number of   *)
(* clients and requests and every length: the body has room in p_buffer_,  *)
(* do_write always has something to write, and a write's handler never     *)
(* takes the next reply for its own.                                       *)
(***************************************************************************)
EXTENDS FrontConn, SequenceTheorems, TLAPS

USE BoundsAssumption
USE DEF clientVars, readVars, replyVars

\* Between two requests no reply is due: start() and the error paths have reset the
\* sizes before the next handler runs (front_conn.cpp:51-52, 268-278).
NothingDue == handler \in {"none", "rearm"} => w_size = 0

\* A handler that comes to do_write has filled a reply in and written none of it.
ReplyDue == handler = "write" => w_size > 0 /\ w_pos = 0

ReplyInv ==
  /\ sock \in {"open", "shut"} /\ stats \in {"working", "error"}
  /\ handler \in {"none", "write", "start", "rearm"}
  /\ w_size \in 0..(MaxContent + 1) /\ w_pos \in 0..(MaxContent + 1)
  /\ writes \in Seq(Write)
  /\ \A j \in DOMAIN writes : writes[j].from <= writes[j].done /\ writes[j].done <= writes[j].size
  /\ NothingDue /\ ReplyDue
  /\ fault \in {"none", "additional"}

\* While a body is being read it is not yet whole.
BodyDue == read_op = "body" => Len(p_buffer) < length_option(parsed.opts)

BytesInv ==
  /\ client \in 1..MaxClients
  /\ asked \in Seq(Requests) /\ Len(asked) <= MaxRequests
  /\ net \in Seq(Byte) /\ request \in Seq(Byte) /\ p_buffer \in Seq(Byte)
  /\ p_size \in Nat
  /\ read_op \in {"none", "head", "body", "aborted"}
  /\ parsed.i \in 0..MaxRequests /\ p_write.i \in 0..MaxRequests
  /\ BodyDue /\ BodyFits

\* Content-Length is a number, whatever the head says.
LEMMA LengthType == ASSUME NEW opts PROVE length_option(opts) \in Nat
<1> DEFINE value == request_option(opts, content_length, 0)
<1>1. length_option(opts) = IF value \in Nat THEN value ELSE 0
  BY DEF length_option
<1> HIDE DEF value
<1> QED
  BY <1>1

\* The buffer is never made smaller and has room for the body and a 0.
LEMMA Relarged ==
  ASSUME NEW len \in Nat, p_size \in Nat
  PROVE  /\ relarged(len) \in Nat
         /\ len < relarged(len)
         /\ p_size <= relarged(len)
  BY DEF relarged

\* A function on 1..m is a sequence.
LEMMA SeqType ==
  ASSUME NEW S, NEW m \in Nat, NEW f \in [1..m -> S]
  PROVE  f \in Seq(S)
  OBVIOUS

\* The bytes of a request.
LEMMA BytesType ==
  ASSUME client \in 1..MaxClients, NEW r \in Requests, NEW i \in 1..MaxRequests
  PROVE  bytes(i, r) \in Seq(Byte)
<1>1. r.len \in 0..MaxLen /\ r.len + 1 \in Nat
  BY DEF Requests
<1>2. \A n \in 1..(r.len + 1) : [c |-> client, i |-> i, part |-> n - 1] \in Byte
  BY <1>1 DEF Byte
<1>3. bytes(i, r) \in [1..(r.len + 1) -> Byte]
  BY <1>2 DEF bytes
<1>4. \A m \in Nat : [1..m -> Byte] \subseteq Seq(Byte)
  BY SeqType
<1> HIDE DEF bytes
<1> QED
  BY <1>1, <1>3, <1>4

\* A part of a sequence.
LEMMA PartType ==
  ASSUME NEW S, NEW s \in Seq(S), NEW m \in Nat, NEW n \in Nat, m > 0, n <= Len(s)
  PROVE  SubSeq(s, m, n) \in Seq(S) /\ (m = 1 => Len(SubSeq(s, m, n)) = n)
<1>1. \A i \in m..n : s[i] \in S
  BY ElementOfSeq
<1> QED
  BY <1>1, SubSeqProperties

\* fill_for_http leaves a reply that is due.
LEMMA Filled ==
  ASSUME NEW i, NEW status, fill_for_http(i, status)
  PROVE  /\ w_size' \in 1..(MaxContent + 1) /\ w_pos' = 0
         /\ handler' = "write" /\ p_write'.i = i
<1> PICK n \in contents(status) : p_write' = reply_generate(i, status, n) /\ w_size' = n + 1
  BY DEF fill_for_http
<1>1. n \in 1..MaxContent
  BY DEF contents
<1> QED
  BY <1>1 DEF fill_for_http, reply_generate

------------------------------------------------------------------------------
(* The reply.                                                              *)

\* What a handler does to the reply: fills one in, gives up, or nothing yet.
Dealt ==
  \/ w_size' \in 1..(MaxContent + 1) /\ w_pos' = 0 /\ handler' = "write"
  \/ w_size' = 0 /\ w_pos' = w_pos /\ handler' = handler
  \/ w_size' = w_size /\ w_pos' = w_pos /\ handler' = handler

LEMMA ProcessReply ==
  ASSUME NEW r, NEW body, process(r, body)
  PROVE  /\ Dealt
         /\ stats' \in {stats, "error"} /\ sock' \in {sock, "shut"}
<1>1. CASE body = <<>>
  BY <1>1 DEF process, conn_error, Dealt
<1>2. CASE body # <<>>
  <2>1. UNCHANGED <<stats, sock>> /\ \E status : fill_for_http(r.i, status)
    BY <1>2 DEF process
  <2> QED
    BY <2>1, Filled DEF Dealt
<1> QED
  BY <1>1, <1>2

LEMMA HeadReply ==
  ASSUME NEW i, NEW hd, NEW additional, read_head_handler(i, hd, additional)
  PROVE  /\ Dealt
         /\ stats' \in {stats, "error"} /\ sock' \in {sock, "shut"}
         /\ fault' \in {fault, "additional"}
<1>1. ASSUME NEW status, NEW left, refuse(i, status, left)
      PROVE  /\ Dealt
             /\ stats' \in {stats, "error"} /\ sock' \in {sock, "shut"}
             /\ fault' \in {fault, "additional"}
  BY <1>1, Filled DEF refuse, Dealt
<1>2. ASSUME NEW r, take_body(r, additional)
      PROVE  /\ Dealt
             /\ stats' \in {stats, "error"} /\ sock' \in {sock, "shut"}
             /\ fault' \in {fault, "additional"}
  <2>1. CASE process(r, additional) /\ UNCHANGED fault
    BY <2>1, ProcessReply
  <2>2. CASE UNCHANGED <<replyVars, handler, stats, sock>> /\ fault' \in {fault, "additional"}
    BY <2>2 DEF Dealt
  <2> QED
    BY <1>2, <2>1, <2>2 DEF take_body
<1> QED
  BY <1>1, <1>2 DEF read_head_handler

LEMMA ReadReply ==
  ASSUME ReadHead \/ ReadBody \/ ReadError \/ ReadAborted
  PROVE  /\ Dealt
         /\ stats' \in {stats, "error"} /\ sock' \in {sock, "shut"}
         /\ fault' \in {fault, "additional"}
         /\ writes' = writes
<1>1. CASE ReadHead
  <2>1. \E i, hd, additional : read_head_handler(i, hd, additional)
    BY <1>1 DEF ReadHead
  <2> QED
    BY <1>1, <2>1, HeadReply DEF ReadHead
<1>2. CASE ReadBody
  <2>1. \E body : process(parsed, body)
    BY <1>2 DEF ReadBody
  <2> QED
    BY <1>2, <2>1, ProcessReply DEF ReadBody
<1>3. CASE ReadError
  BY <1>3 DEF ReadError, conn_error, Dealt
<1>4. CASE ReadAborted
  BY <1>4, Filled DEF ReadAborted, Dealt
<1> QED
  BY <1>1, <1>2, <1>3, <1>4

\* The handlers of a write leave the others to run, and nothing for themselves.
LEMMA WriteReply ==
  ASSUME ReplyInv, WriteDone \/ WriteAborted \/ WriteFail
  PROVE  ReplyInv'
<1> DEFINE Sound(ws) == /\ ws \in Seq(Write)
                        /\ \A j \in DOMAIN ws : ws[j].from <= ws[j].done /\ ws[j].done <= ws[j].size
<1>1. handler = "none" /\ w_size = 0 /\ writes # <<>> /\ writes' = Tail(writes)
  BY DEF WriteDone, WriteAborted, WriteFail, ReplyInv, NothingDue
<1>2. Sound(Tail(writes))
  <2>1. /\ Tail(writes) \in Seq(Write) /\ Len(Tail(writes)) = Len(writes) - 1
        /\ \A j \in 1..Len(Tail(writes)) : Tail(writes)[j] = writes[j + 1]
    BY <1>1, HeadTailProperties DEF ReplyInv
  <2>2. \A j \in 1..Len(Tail(writes)) : j + 1 \in DOMAIN writes
    BY <2>1 DEF ReplyInv
  <2> QED
    BY <2>1, <2>2 DEF ReplyInv
<1>3. ~(w_pos_after < w_size)
  <2>1. 1 \in DOMAIN writes /\ Head(writes) = writes[1] /\ writes[1] \in Write
    BY <1>1, ElementOfSeq DEF ReplyInv
  <2>2. writes[1].from <= writes[1].size
    BY <2>1 DEF ReplyInv, Write
  <2>3. writes[1].from \in Nat /\ writes[1].size \in Nat /\ w_pos \in Nat
    BY <2>1 DEF ReplyInv, Write
  <2> QED
    BY <1>1, <2>1, <2>2, <2>3 DEF w_pos_after
<1>4. /\ w_size' = 0 /\ w_pos' \in {0, w_pos} /\ handler' = handler /\ fault' = fault
      /\ stats' \in {stats, "error"} /\ sock' \in {sock, "shut"}
  BY <1>1, <1>3 DEF WriteDone, all_written, WriteAborted, WriteFail, conn_error
<1> QED
  BY <1>1, <1>2, <1>4 DEF ReplyInv, NothingDue, ReplyDue

\* do_write has something to write.
LEMMA DoWriteReply ==
  ASSUME ReplyInv, DoWrite
  PROVE  ReplyInv'
<1>1. handler = "write" /\ w_size > 0 /\ w_pos = 0 /\ w_size \in 1..(MaxContent + 1)
  BY DEF DoWrite, ReplyInv, ReplyDue
<1>2. /\ handler' = "start" /\ UNCHANGED <<fault, w_size, w_pos, sock, stats>>
      /\ writes' \in {writes, Append(writes, [from |-> 0, done |-> 0, size |-> w_size])}
  BY <1>1 DEF DoWrite
<1>3. [from |-> 0, done |-> 0, size |-> w_size] \in Write
  BY <1>1 DEF Write
<1>4. /\ writes' \in Seq(Write)
      /\ \A j \in DOMAIN writes' :
           writes'[j].from <= writes'[j].done /\ writes'[j].done <= writes'[j].size
  <2>1. CASE writes' = writes
    BY <2>1 DEF ReplyInv
  <2>2. CASE writes' = Append(writes, [from |-> 0, done |-> 0, size |-> w_size])
    <3>1. /\ writes' \in Seq(Write) /\ Len(writes') = Len(writes) + 1
          /\ \A j \in 1..Len(writes) : writes'[j] = writes[j]
          /\ writes'[Len(writes) + 1] = [from |-> 0, done |-> 0, size |-> w_size]
      BY <1>3, <2>2, AppendProperties DEF ReplyInv
    <3>2. \A j \in DOMAIN writes' : j \in DOMAIN writes \/ j = Len(writes) + 1
      BY <3>1 DEF ReplyInv
    <3>3. \A j \in DOMAIN writes : j \in 1..Len(writes)
      BY DEF ReplyInv
    <3>4. ASSUME NEW j \in DOMAIN writes'
          PROVE  writes'[j].from <= writes'[j].done /\ writes'[j].done <= writes'[j].size
      <4>1. CASE j \in DOMAIN writes
        BY <3>1, <3>3, <4>1 DEF ReplyInv
      <4>2. CASE j = Len(writes) + 1
        BY <1>1, <3>1, <4>2
      <4> QED
        BY <3>2, <4>1, <4>2
    <3> QED
      BY <3>1, <3>4
  <2> QED
    BY <1>2, <2>1, <2>2
<1> QED
  BY <1>1, <1>2, <1>4 DEF ReplyInv, NothingDue, ReplyDue

LEMMA WriteSomeReply ==
  ASSUME ReplyInv, WriteSome
  PROVE  ReplyInv'
<1> PICK j \in DOMAIN writes : /\ writes[j].done < writes[j].size
                               /\ writes' = [writes EXCEPT ![j].done = @ + 1]
  BY DEF WriteSome
<1>1. writes[j] \in Write
  BY DEF ReplyInv
<1>1a. writes[j].done \in Nat /\ writes[j].size \in Nat /\ writes[j].from \in Nat
  BY <1>1 DEF Write
<1>2. [writes[j] EXCEPT !.done = @ + 1] \in Write
  BY <1>1 DEF Write
<1>3. /\ writes' \in Seq(Write)
      /\ \A k \in DOMAIN writes' :
           writes'[k].from <= writes'[k].done /\ writes'[k].done <= writes'[k].size
  <2>1. writes' = [writes EXCEPT ![j] = [writes[j] EXCEPT !.done = @ + 1]]
    OBVIOUS
  <2>2. writes' \in Seq(Write) /\ DOMAIN writes' = DOMAIN writes
    BY <1>2, <2>1, ExceptSeq DEF ReplyInv
  <2>3. \A k \in DOMAIN writes : k # j => writes'[k] = writes[k]
    BY <2>1
  <2>4. /\ writes'[j].from = writes[j].from /\ writes'[j].size = writes[j].size
        /\ writes'[j].done = writes[j].done + 1
    BY <1>1, <2>1 DEF Write
  <2>5. writes[j].from <= writes[j].done
    BY DEF ReplyInv
  <2>6. writes'[j].from <= writes'[j].done /\ writes'[j].done <= writes'[j].size
    BY <1>1a, <2>4, <2>5
  <2>7. \A k \in DOMAIN writes :
          writes[k].from <= writes[k].done /\ writes[k].done <= writes[k].size
    BY DEF ReplyInv
  <2> QED
    BY <2>2, <2>3, <2>6, <2>7
<1> QED
  BY <1>3 DEF WriteSome, ReplyInv, NothingDue, ReplyDue

\* The reply part is kept by every step.
LEMMA ReplyStep == ReplyInv /\ [Next]_vars => ReplyInv'
<1> SUFFICES ASSUME ReplyInv, [Next]_vars
             PROVE  ReplyInv'
  OBVIOUS
<1>1. CASE ReadHead \/ ReadBody \/ ReadError \/ ReadAborted
  <2>1. handler = "none"
    BY <1>1 DEF ReadHead, ReadBody, ReadError, ReadAborted
  <2> QED
    BY <1>1, <2>1, ReadReply DEF ReplyInv, NothingDue, ReplyDue, Dealt
<1>2. CASE Start \/ Rearm
  BY <1>2 DEF Start, sizes_reset, Rearm, ReplyInv, NothingDue, ReplyDue
<1>3. CASE ClientSends \/ Expire
  BY <1>3 DEF ClientSends, Expire, ReplyInv, NothingDue, ReplyDue
<1>4. CASE Recycle
  BY <1>4 DEF Recycle, ReplyInv, NothingDue, ReplyDue
<1>5. CASE Ended \/ UNCHANGED vars
  BY <1>5 DEF Ended, vars, ReplyInv, NothingDue, ReplyDue
<1> QED
  BY <1>1, <1>2, <1>3, <1>4, <1>5, WriteReply, DoWriteReply, WriteSomeReply
     DEF Next, HandlerStep

------------------------------------------------------------------------------
(* The bytes.                                                              *)

\* A request that has been taken from the socket leaves p_buffer_ with room.
Taken ==
  /\ p_buffer' \in Seq(Byte) /\ p_size' \in Nat
  /\ read_op' \in {"none", "head", "body"}
  /\ p_write'.i \in 0..MaxRequests
  /\ BodyDue' /\ BodyFits'

\* An empty buffer has room.
LEMMA Room ==
  ASSUME BytesInv
  PROVE  /\ p_size \in Nat /\ 0 < p_size /\ Len(p_buffer) < p_size
         /\ <<>> \in Seq(Byte) /\ Len(<<>>) = 0
<1>1. Len(p_buffer) \in Nat
  BY DEF BytesInv
<1> QED
  BY <1>1 DEF BytesInv, BodyFits

LEMMA ProcessBytes ==
  ASSUME BytesInv, NEW r, r.i \in 0..MaxRequests, NEW body \in Seq(Byte),
         process(r, body), p_size' \in Nat, Len(body) < p_size', 0 < p_size'
  PROVE  Taken
<1>1. read_op' = "none" /\ p_buffer' \in {<<>>, body} /\ Len(p_buffer') < p_size'
  BY DEF process, conn_error
<1>2. p_write'.i \in 0..MaxRequests
  <2>1. CASE body = <<>>
    BY <2>1 DEF process, conn_error, BytesInv
  <2>2. CASE body # <<>>
    <3>1. \E status : fill_for_http(r.i, status)
      BY <2>2 DEF process
    <3> QED
      BY <3>1, Filled
  <2> QED
    BY <2>1, <2>2
<1>3. p_buffer' \in Seq(Byte)
  BY <1>1, Room
<1> QED
  BY <1>1, <1>2, <1>3 DEF Taken, BodyDue, BodyFits

LEMMA HeadBytes ==
  ASSUME BytesInv, read_op = "head", NEW i \in 1..MaxRequests, NEW hd,
         NEW additional \in Seq(Byte), read_head_handler(i, hd, additional)
  PROVE  /\ Taken
         /\ request' \in Seq(Byte) /\ parsed'.i \in 0..MaxRequests
<1>1. ASSUME NEW status, NEW left \in Seq(Byte), refuse(i, status, left),
             p_buffer' \in {p_buffer, <<>>}
      PROVE  Taken /\ request' \in Seq(Byte)
  <2>1. read_op' = "none" /\ p_size' = p_size /\ request' = left /\ p_write'.i = i
    BY <1>1, Filled DEF refuse
  <2>2. p_buffer' \in Seq(Byte) /\ Len(p_buffer') < p_size'
    BY <1>1, <2>1, Room DEF BytesInv
  <2> QED
    BY <1>1, <2>1, <2>2 DEF BytesInv, Taken, BodyDue, BodyFits
<1>2. ASSUME NEW r, r.i = i, take_body(r, additional), parsed' = r
      PROVE  Taken /\ request' \in Seq(Byte)
  <2> DEFINE len == length_option(r.opts)
  <2>1. len \in Nat /\ len = length_option(parsed'.opts)
    BY <1>2, LengthType
  <2>2. request' = <<>> /\ p_size' = relarged(len)
    BY <1>2 DEF take_body
  <2>3. p_size' \in Nat /\ len < p_size' /\ p_size <= p_size' /\ p_size \in Nat
    BY <2>1, <2>2, Relarged DEF BytesInv
  <2> HIDE DEF len
  <2>4. CASE UNCHANGED <<p_buffer, replyVars, read_op>>
    <3>1. Len(p_buffer') < p_size' /\ read_op' = "head"
      BY <2>3, <2>4, Room DEF BytesInv
    <3> QED
      BY <2>2, <2>3, <2>4, <3>1, Room DEF BytesInv, BodyFits, Taken, BodyDue
  <2>5. CASE /\ Len(additional) < len
             /\ p_buffer' = additional
             /\ read_op' \in {"body", "none"}
             /\ UNCHANGED replyVars
    <3>1. Len(p_buffer') < len /\ Len(p_buffer') < p_size' /\ p_buffer' \in Seq(Byte)
      BY <2>1, <2>3, <2>5
    <3>2. BodyDue' /\ BodyFits'
      BY <2>1, <2>3, <2>5, <3>1 DEF BodyDue, BodyFits
    <3> QED
      BY <2>2, <2>3, <2>5, <3>1, <3>2, Room DEF BytesInv, Taken
  <2>6. CASE Len(additional) = len /\ process(r, additional)
    <3>1. Len(additional) < p_size' /\ 0 < p_size'
      BY <2>1, <2>3, <2>6
    <3>2. r.i \in 0..MaxRequests
      BY <1>2
    <3> QED
      BY <2>2, <2>3, <2>6, <3>1, <3>2, ProcessBytes
  <2> QED
    BY <1>2, <2>2, <2>4, <2>5, <2>6 DEF take_body, len
<1> QED
  <2>1. CASE parse_fails(hd)
    <3>1. /\ refuse(i, "error", <<>>) /\ p_buffer' = <<>>
          /\ parsed' = [i |-> i, opts |-> parsed.opts]
      BY <2>1 DEF read_head_handler
    <3>2. parsed'.i = i
      BY <3>1
    <3>3. Taken /\ request' \in Seq(Byte)
      BY <1>1, <3>1, Room
    <3> QED
      BY <3>2, <3>3
  <2>2. CASE ~parse_fails(hd)
    <3> DEFINE r == [i |-> i, opts |-> parse_request(parsed.opts, hd)]
    <3>1. /\ parsed' = r /\ r.i = i
          /\ \/ refuse(i, "bad", additional) /\ UNCHANGED p_buffer
             \/ take_body(r, additional)
             \/ refuse(i, "not_found", additional) /\ UNCHANGED p_buffer
      BY <2>2 DEF read_head_handler
    <3> HIDE DEF r
    <3>2. parsed'.i \in 0..MaxRequests
      BY <3>1
    <3> QED
      BY <1>1, <1>2, <3>1, <3>2
  <2> QED
    BY <2>1, <2>2

LEMMA ReadHeadBytes ==
  ASSUME BytesInv, ReadHead
  PROVE  BytesInv'
<1>1. PICK n \in 0..Len(net) :
        LET all == request \o SubSeq(net, 1, n) IN
          /\ net' = SubSeq(net, n + 1, Len(net))
          /\ \E h \in DOMAIN all :
               \E hd : read_head_handler(all[h].i, hd, beyond(all, h))
  BY DEF ReadHead
<1> DEFINE all == request \o SubSeq(net, 1, n)
<1>2. net \in Seq(Byte) /\ request \in Seq(Byte) /\ Len(net) \in Nat
  BY DEF BytesInv
<1>3. SubSeq(net, 1, n) \in Seq(Byte) /\ SubSeq(net, n + 1, Len(net)) \in Seq(Byte)
  BY <1>2, PartType
<1>4. all \in Seq(Byte)
  BY <1>2, <1>3, ConcatProperties
<1>5. PICK h \in DOMAIN all : \E hd : read_head_handler(all[h].i, hd, beyond(all, h))
  BY <1>1
<1> HIDE DEF all
<1>6. all[h] \in Byte /\ h \in Nat /\ h <= Len(all) /\ Len(all) \in Nat
  BY <1>4, ElementOfSeq, LenProperties
<1>7. all[h].i \in 1..MaxRequests
  BY <1>6 DEF Byte
<1>8. beyond(all, h) \in Seq(Byte)
  BY <1>4, <1>6, PartType DEF beyond
<1>9. read_op = "head" /\ UNCHANGED clientVars
  BY DEF ReadHead
<1>10. Taken /\ request' \in Seq(Byte) /\ parsed'.i \in 0..MaxRequests
  BY <1>5, <1>7, <1>8, <1>9, HeadBytes
<1> QED
  BY <1>1, <1>3, <1>9, <1>10 DEF BytesInv, Taken

LEMMA ReadBodyBytes ==
  ASSUME BytesInv, ReadBody
  PROVE  BytesInv'
<1> DEFINE len == length_option(parsed.opts)
           need == len - Len(p_buffer)
           more == SubSeq(net, 1, need)
<1>1. len \in Nat
  BY LengthType
<1> HIDE DEF len
<1>2. /\ net \in Seq(Byte) /\ p_buffer \in Seq(Byte) /\ p_size \in Nat
      /\ Len(net) \in Nat /\ Len(p_buffer) \in Nat
  BY DEF BytesInv
<1>3. Len(p_buffer) < len /\ len < p_size
  BY DEF ReadBody, BytesInv, BodyDue, BodyFits, len
<1>4. need \in Nat /\ need <= Len(net) /\ net' = SubSeq(net, need + 1, Len(net))
  BY <1>1, <1>2, <1>3 DEF ReadBody, len
<1>5. more \in Seq(Byte) /\ Len(more) = need /\ net' \in Seq(Byte)
  <2> HIDE DEF need
  <2>1. more \in Seq(Byte) /\ Len(more) = need
    BY <1>2, <1>4, PartType
  <2>2. SubSeq(net, need + 1, Len(net)) \in Seq(Byte)
    BY <1>2, <1>4, PartType
  <2> QED
    BY <1>4, <2>1, <2>2
<1>6. process(parsed, body_read(more))
  BY DEF ReadBody, len
<1>7. body_read(more) \in Seq(Byte) /\ Len(body_read(more)) = len
  <2>1. Len(p_buffer) + need = len
    BY <1>1, <1>2
  <2> HIDE DEF more, need
  <2> QED
    BY <1>2, <1>5, <2>1, ConcatProperties DEF body_read
<1>8. UNCHANGED <<clientVars, request, parsed, p_size>>
  BY DEF ReadBody
<1> HIDE DEF more
<1>9. Taken
  <2>1. parsed.i \in 0..MaxRequests
    BY DEF BytesInv
  <2>2. p_size' \in Nat /\ Len(body_read(more)) < p_size' /\ 0 < p_size'
    BY <1>1, <1>2, <1>3, <1>7, <1>8
  <2> QED
    BY <1>6, <1>7, <2>1, <2>2, ProcessBytes
<1> QED
  BY <1>5, <1>8, <1>9 DEF BytesInv, Taken

LEMMA ClientSendsBytes ==
  ASSUME BytesInv, ClientSends
  PROVE  BytesInv'
<1> PICK r \in Requests : /\ asked' = Append(asked, r)
                          /\ net' = net \o bytes(Len(asked) + 1, r)
  BY DEF ClientSends
<1>1. Len(asked) + 1 \in 1..MaxRequests
  BY DEF ClientSends, BytesInv
<1>2. asked' \in Seq(Requests) /\ Len(asked') <= MaxRequests
  BY <1>1, AppendProperties DEF BytesInv
<1>3. net' \in Seq(Byte)
  BY <1>1, BytesType, ConcatProperties DEF BytesInv
<1> QED
  BY <1>2, <1>3 DEF ClientSends, BytesInv, BodyDue, BodyFits

\* The byte part is kept by every step.
LEMMA BytesStep == BytesInv /\ [Next]_vars => BytesInv'
<1> SUFFICES ASSUME BytesInv, [Next]_vars
             PROVE  BytesInv'
  OBVIOUS
<1>1. CASE ReadError \/ WriteFail
  <2>1. /\ read_op' \in {"none", "aborted", read_op} /\ p_buffer' = <<>> /\ 0 < p_size
        /\ UNCHANGED <<clientVars, net, request, parsed, p_size, p_write>>
    BY <1>1 DEF ReadError, WriteFail, conn_error, BytesInv, BodyFits
  <2>2. length_option(parsed.opts) \in Nat
    BY LengthType
  <2>3. read_op' = "body" => read_op = "body"
    BY <2>1
  <2>4. Len(p_buffer') = 0 /\ p_buffer' \in Seq(Byte)
    BY <2>1
  <2>5. BodyDue' /\ BodyFits'
    BY <2>1, <2>2, <2>3, <2>4 DEF BytesInv, BodyDue, BodyFits
  <2> QED
    BY <2>1, <2>4, <2>5 DEF BytesInv
<1>2. CASE ReadAborted
  <2>1. /\ read_op' = "none" /\ request' = <<>> /\ p_buffer' = <<>>
        /\ p_write'.i = parsed.i /\ 0 < p_size
        /\ UNCHANGED <<clientVars, net, parsed, p_size>>
    BY <1>2, Filled DEF ReadAborted, BytesInv, BodyFits
  <2> QED
    BY <2>1 DEF BytesInv, BodyDue, BodyFits
<1>3. CASE Start
  <2>1. p_buffer' = <<>> /\ 0 < p_size
        /\ UNCHANGED <<clientVars, net, read_op, request, parsed, p_size, p_write>>
    BY <1>3 DEF Start, BytesInv, BodyFits
  <2>2. length_option(parsed.opts) \in Nat
    BY LengthType
  <2>3. Len(p_buffer') = 0 /\ p_buffer' \in Seq(Byte)
    BY <2>1
  <2>4. BodyDue' /\ BodyFits'
    BY <2>1, <2>2, <2>3 DEF BytesInv, BodyDue, BodyFits
  <2> QED
    BY <2>1, <2>3, <2>4 DEF BytesInv
<1>4. CASE Rearm
  BY <1>4 DEF Rearm, BytesInv, BodyDue, BodyFits
<1>5. CASE DoWrite \/ WriteSome \/ WriteDone \/ WriteAborted \/ Expire
  BY <1>5 DEF DoWrite, WriteSome, WriteDone, WriteAborted, Expire, BytesInv, BodyDue, BodyFits
<1>6. CASE Recycle
  BY <1>6 DEF Recycle, request_reset, BytesInv, BodyDue, BodyFits
<1>7. CASE Ended \/ UNCHANGED vars
  BY <1>7 DEF Ended, vars, BytesInv, BodyDue, BodyFits
<1> QED
  BY <1>1, <1>2, <1>3, <1>4, <1>5, <1>6, <1>7, ReadHeadBytes, ReadBodyBytes, ClientSendsBytes
     DEF Next, HandlerStep

------------------------------------------------------------------------------
FrontInv == ReplyInv /\ BytesInv

\* The first client's object.
LEMMA FrontInit == Init => FrontInv
<1> SUFFICES ASSUME Init
             PROVE  FrontInv
  OBVIOUS
<1>1. ReplyInv
  BY DEF Init, ReplyInv, NothingDue, ReplyDue
<1>2. BytesInv
  BY DEF Init, BytesInv, BodyDue, BodyFits, NOREQ, NOREPLY
<1> QED
  BY <1>1, <1>2 DEF FrontInv

\* The invariant, for every bound.
THEOREM FrontInvariance == Spec => []FrontInv
<1>1. FrontInv /\ [Next]_vars => FrontInv'
  BY ReplyStep, BytesStep DEF FrontInv
<1> QED
  BY <1>1, FrontInit, PTL DEF Spec

\* Buffers, sizes and outstanding writes keep their types; in particular what is left
\* to write of each reply is never negative (front_conn.cpp:293-311).
THEOREM FrontTypes == Spec => []TypeOK
<1>1. FrontInv => TypeOK
  BY DEF FrontInv, ReplyInv, BytesInv, TypeOK
<1> QED
  BY FrontInvariance, <1>1, PTL

\* The body and the 0 behind it stay inside p_buffer_, for every Content-Length and
\* every cut into reads (front_conn.cpp:158-188, 98).
THEOREM BodyHasRoom == Spec => []BodyFits
<1>1. FrontInv => BodyFits
  BY DEF FrontInv, BytesInv
<1> QED
  BY FrontInvariance, <1>1, PTL

\* No write handler takes the next reply for a remainder of its own
\* (front_conn.cpp:300-310).
THEOREM NoRemainderIsSent == Spec => []NoAdditionalWrite
<1>1. FrontInv => NoAdditionalWrite
  BY DEF FrontInv, ReplyInv, NoAdditionalWrite
<1> QED
  BY FrontInvariance, <1>1, PTL

\* The assertions of do_write never fail: it is called with a reply of which
\* nothing has been written (front_conn.cpp:117-118).
THEOREM DoWriteAssertionsHold == Spec => [](fault # "do_write")
<1>1. FrontInv => fault # "do_write"
  BY DEF FrontInv, ReplyInv
<1> QED
  BY FrontInvariance, <1>1, PTL
==============================================================================
