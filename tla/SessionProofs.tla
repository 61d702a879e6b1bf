----------------------------- MODULE SessionProofs -----------------------------
(***************************************************************************)
(* FrontConn implements HttpSession, for every number of clients and       *)
(* requests and every length.                                              *)
(***************************************************************************)
EXTENDS ExchangeProofs

USE DEF clientVars, readVars, replyVars

\* A request that is still to be handled has not been handed over, and an answer that is
\* due or on its way is to one that has.
HandInv ==
  /\ Unread \/ read_op = "body" => \A n \in DOMAIN served : served[n].i < Len(asked)
  /\ sock = "open" /\ (handler = "write" \/ InProgress) /\ p_write.status = "ok" =>
       \E n \in DOMAIN served : served[n].i = Len(asked)

\* Everything that has been handed over was whole.
AllHanded == handed = [n \in DOMAIN served |-> served[n].i]

LEMMA HandedIs == SafeInv => AllHanded
  BY DEF SafeInv, ExchangeInv, ServedInv, BodyIsItsOwn, handed, AllHanded

LEMMA HandedNext == SafeInv' => AllHanded'
  BY HandedIs, PTL

\* The client's count of the replies it has, in both specifications.
LEMMA RepliedIs ==
  ASSUME SafeInv, NEW n, Replied(n)
  PROVE  Session!RepliedTo(n)
<1>1. got \in Seq(Part) /\ \A m \in DOMAIN got : got[m].size = got[m].length + 1
  BY DEF SafeInv, ExchangeInv, GotInv
<1>2. CASE got = <<>>
  BY <1>2 DEF Replied, Session!RepliedTo
<1>3. CASE got # <<>>
  <2>1. Len(got) \in DOMAIN got
    BY <1>1, <1>3, EmptySeq, LenProperties
  <2>2. Last(got) = got[Len(got)]
    BY DEF Last
  <2> QED
    BY <1>1, <1>3, <2>1, <2>2 DEF Replied, Session!RepliedTo, Session!last
<1> QED
  BY <1>2, <1>3

------------------------------------------------------------------------------
(* Reading.                                                                *)

\* The k-th request has been answered by a handler, and handed over if it is for one.
Handled(k) ==
  \/ served' = served /\ (handler' = "write" => p_write'.status # "ok")
  \/ /\ handler' = "write" /\ asked[k] \in ForAnalyse
     /\ \E body \in Seq(Byte) : served' = Append(served, [i |-> k, body |-> body])

LEMMA ProcessHands ==
  ASSUME SafeInv, asked # <<>>, handler = "none", NEW r, BodyOf(r),
         NEW body \in Seq(Byte), process(r, body)
  PROVE  Handled(Len(asked))
<1> DEFINE k == Len(asked)
<1>1. /\ r.i = k /\ asked[k].kind \in {"analyse", "slash", "item"}
      /\ uri(r.opts) = uri_of(asked[k].kind) /\ asked[k] \in Requests
  BY LastRequest DEF BodyOf
<1>2. CASE body = <<>>
  <2>1. handler' = handler /\ served' = served
    BY <1>2 DEF process, conn_error
  <2> QED
    BY <2>1 DEF Handled
<1>3. CASE body # <<>> /\ uri(r.opts) = "analyse"
  <2>1. /\ served' = Append(served, [i |-> k, body |-> body])
        /\ \E status : fill_for_http(k, status)
    BY <1>1, <1>3 DEF process
  <2>2. handler' = "write"
    BY <2>1 DEF fill_for_http
  <2>3. asked[k] \in ForAnalyse
    BY <1>1, <1>3 DEF ForAnalyse, uri_of
  <2> QED
    BY <2>1, <2>2, <2>3 DEF Handled
<1>4. CASE body # <<>> /\ uri(r.opts) # "analyse"
  <2>1. served' = served /\ fill_for_http(k, "not_found")
    BY <1>1, <1>4 DEF process
  <2>2. p_write'.status = "not_found"
    BY <2>1 DEF fill_for_http, reply_generate
  <2> QED
    BY <2>1, <2>2 DEF Handled
<1> QED
  BY <1>2, <1>3, <1>4

LEMMA ReadHands ==
  ASSUME SafeInv, ReadHead \/ ReadBody
  PROVE  /\ asked # <<>> /\ (Unread \/ read_op = "body")
         /\ Handled(Len(asked)) /\ UNCHANGED <<clientVars, writes>>
<1> DEFINE k == Len(asked)
<1>1. CASE ReadHead
  <2>1. PICK hd, additional : HeadTaken(hd, additional)
    BY <1>1, HeadRead
  <2>2. asked # <<>> /\ Unread /\ additional \in Seq(Byte)
    BY <2>1 DEF HeadTaken
  <2>3. handler = "none" /\ UNCHANGED <<clientVars, writes>>
    BY <1>1 DEF ReadHead
  <2>4. HeadHandled(additional)
    BY <2>1, HeadHandling
  <2>5. ASSUME NEW status \in {"error", "bad", "not_found"}, NEW left, refuse(k, status, left)
        PROVE  Handled(k)
    <3>1. served' = served /\ p_write'.status = status
      BY <2>5 DEF refuse, fill_for_http, reply_generate
    <3> QED
      BY <3>1 DEF Handled
  <2>6. ASSUME NEW r, BodyOf(r), take_body(r, additional)
        PROVE  Handled(k)
    <3>1. CASE process(r, additional)
      BY <2>2, <2>3, <2>6, <3>1, ProcessHands
    <3>2. CASE served' = served /\ handler' = handler
      BY <2>3, <3>2 DEF Handled
    <3> QED
      BY <2>6, <3>1, <3>2 DEF take_body
  <2>7. Handled(k)
    BY <2>4, <2>5, <2>6 DEF HeadHandled
  <2> QED
    BY <2>2, <2>3, <2>7
<1>2. CASE ReadBody
  <2>1. /\ read_op = "body" /\ handler = "none" /\ UNCHANGED <<clientVars, writes>>
    BY <1>2 DEF ReadBody
  <2>2. BodyOf(parsed) /\ asked # <<>>
    BY <2>1 DEF SafeInv, ExchangeInv, BodyInv, StreamInv
  <2>3. process(parsed, p_buffer \o net)
    BY <1>2, BodyRead
  <2>4. p_buffer \o net \in Seq(Byte)
    BY ConcatProperties DEF SafeInv, FrontInv, BytesInv
  <2> QED
    BY <2>1, <2>2, <2>3, <2>4, ProcessHands
<1> QED
  BY <1>1, <1>2

LEMMA ReadSession ==
  ASSUME SafeInv, SafeInv', HandInv, ReadHead \/ ReadBody
  PROVE  HandInv' /\ [Session!Next]_(Session!vars)
<1> DEFINE k == Len(asked)
           S == [i : 1..MaxRequests, body : Seq(Byte)]
<1>1. /\ asked # <<>> /\ (Unread \/ read_op = "body")
      /\ Handled(k) /\ UNCHANGED <<client, asked, got, writes>>
  BY ReadHands
<1>2. /\ \A n \in DOMAIN served : served[n].i < k
      /\ AllWritten(writes) /\ Replied(k - 1)
  BY <1>1 DEF HandInv, SafeInv, WaitInv, ExchangeInv, StreamInv
<1>3. ~InProgress'
  <2>1. writes \in Seq(Write)
    BY DEF SafeInv, FrontInv, ReplyInv
  <2>2. writes # <<>> => Last(writes).done = Last(writes).size /\ Last(writes) \in Write
    BY <1>2, <2>1, EmptySeq, LenProperties, ElementOfSeq DEF AllWritten, Last
  <2> QED
    BY <1>1, <2>2 DEF InProgress, Write
<1>4. k \in 1..MaxRequests /\ k \in Nat
  <2>1. k \in 1..MaxRequests
    BY <1>1, LastRequest
  <2> QED
    BY <2>1
<1>4a. served \in Seq(S)
  BY DEF SafeInv, ExchangeInv, ServedInv
<1>5. CASE served' = served /\ (handler' = "write" => p_write'.status # "ok")
  <2>1. handed' = handed
    BY <1>1, <1>5 DEF handed, bytes
  <2>2. HandInv'
    BY <1>1, <1>2, <1>3, <1>5 DEF HandInv
  <2> QED
    BY <1>1, <2>1, <2>2 DEF Session!vars
<1>6. ASSUME handler' = "write", asked[k] \in ForAnalyse,
             NEW body \in Seq(Byte), served' = Append(served, [i |-> k, body |-> body])
      PROVE  HandInv' /\ [Session!Next]_(Session!vars)
  <2> DEFINE e == [i |-> k, body |-> body]
             is == [n \in DOMAIN served |-> served[n].i]
  <2>1. e \in S
    BY <1>4
  <2>2. /\ served' \in Seq(S) /\ Len(served') = Len(served) + 1
        /\ \A n \in 1..Len(served) : served'[n] = served[n]
        /\ served'[Len(served) + 1] = e
    BY <1>4a, <1>6, <2>1, AppendProperties
  <2>3. /\ DOMAIN served = 1..Len(served) /\ Len(served) \in Nat
        /\ DOMAIN served' = 1..(Len(served) + 1)
    BY <1>4a, <2>2, LenProperties
  <2>4. ~Unread' /\ read_op' = "none"
    BY <1>6 DEF SafeInv, WaitInv, ExchangeInv, StreamInv
  <2>5. HandInv'
    BY <1>1, <2>2, <2>3, <2>4 DEF HandInv
  <2>6. handed = is /\ handed' = [n \in DOMAIN served' |-> served'[n].i]
    BY HandedIs, HandedNext DEF AllHanded
  <2>7. handed' = Append(handed, k)
    <3>1. is \in Seq(Nat) /\ Len(is) = Len(served) /\ \A n \in 1..Len(served) : is[n] = served[n].i
      <4>0. \A n \in 1..Len(served) : served[n].i \in Nat
        <5>1. \A n \in 1..Len(served) : served[n] \in S
          BY <1>4a, ElementOfSeq
        <5> QED
          BY <5>1
      <4>1. is \in [1..Len(served) -> Nat]
        BY <2>3, <4>0
      <4> HIDE DEF is
      <4>2. is \in Seq(Nat)
        BY <2>3, <4>1, SeqType
      <4>3. Len(is) = Len(served)
        BY <2>3, <4>1, <4>2, LenProperties
      <4> QED
        BY <2>3, <4>2, <4>3 DEF is
    <3> HIDE DEF is, k
    <3>2. /\ Append(is, k) \in Seq(Nat) /\ Len(Append(is, k)) = Len(served) + 1
          /\ \A n \in 1..Len(served) : Append(is, k)[n] = is[n]
          /\ Append(is, k)[Len(served) + 1] = k
      BY <1>4, <3>1, AppendProperties
    <3>3. /\ DOMAIN Append(is, k) = 1..(Len(served) + 1)
          /\ Append(is, k) = [n \in 1..(Len(served) + 1) |-> Append(is, k)[n]]
      BY <3>2, LenProperties
    <3>4. \A n \in 1..(Len(served) + 1) : Append(is, k)[n] = served'[n].i
      BY <2>2, <2>3, <3>1, <3>2
    <3> QED
      BY <2>3, <2>6, <3>3, <3>4 DEF is
  <2>8. ~Session!HandedOver
    BY <1>2, <1>4, <2>3, <2>6 DEF Session!HandedOver
  <2>9. Session!RepliedTo(k - 1)
    BY <1>2, RepliedIs
  <2>10. Session!HandOver
    <3>1. handed' = Append(handed, Len(asked))
      BY <2>7
    <3>2. asked # <<>> /\ asked[Len(asked)] \in ForAnalyse /\ Session!RepliedTo(Len(asked) - 1)
      BY <1>1, <1>6, <2>9
    <3>3. client' = client /\ asked' = asked /\ got' = got
      BY <1>1
    <3> QED
      BY <2>8, <3>1, <3>2, <3>3 DEF Session!HandOver
  <2> QED
    BY <2>5, <2>10 DEF Session!Next
<1> QED
  BY <1>1, <1>5, <1>6 DEF Handled

------------------------------------------------------------------------------
(* Writing, and the steps the client does not see.                         *)

\* The next part of a reply goes to a client that has all the parts before it.
LEMMA WriteSession ==
  ASSUME SafeInv, SafeInv', HandInv, WriteSome
  PROVE  HandInv' /\ [Session!Next]_(Session!vars)
<1> DEFINE k == Len(asked)
<1>1. PICK j \in DOMAIN writes :
        /\ writes[j].done < writes[j].size
        /\ got' = Append(got, [i |-> p_write.i, status |-> p_write.status,
                               length |-> p_write.length,
                               part |-> writes[j].done + 1, size |-> writes[j].size])
  BY DEF WriteSome
<1>2. /\ sock = "open" /\ client' = client /\ asked' = asked
      /\ UNCHANGED <<net, read_op, p_write, sock, handler, served>>
  BY DEF WriteSome
<1>3. j = Len(writes) /\ InProgress /\ ~Unread /\ read_op \notin {"body", "aborted"}
  BY <1>1, <1>2, OnlyLast
<1> DEFINE w == writes[j]
<1>4. /\ w.size = p_write.length + 1 /\ asked # <<>>
      /\ p_write.i = k /\ p_write.status \in Status /\ p_write.length \in 1..MaxContent
      /\ IF w.done = 0 THEN Replied(k - 1)
         ELSE /\ got # <<>>
              /\ Last(got) = [i |-> p_write.i, status |-> p_write.status,
                              length |-> p_write.length, part |-> w.done, size |-> w.size]
  BY <1>3 DEF InProgress, ReplyIsDue, Last
<1>5. handed' = handed
  BY <1>2 DEF handed, bytes
<1>6. HandInv'
  <2>1. ~Unread' /\ read_op' # "body"
    BY <1>2, <1>3 DEF Unread, HasHead, IsHead
  <2> QED
    BY <1>2, <1>3, <2>1 DEF HandInv
<1>7. ASSUME p_write.status = "ok"
      PROVE  Session!HandedOver
  <2>1. PICK n \in DOMAIN served : served[n].i = k
    BY <1>2, <1>3, <1>7 DEF HandInv
  <2>2. handed = [m \in DOMAIN served |-> served[m].i]
    BY HandedIs DEF AllHanded
  <2> QED
    BY <2>1, <2>2 DEF Session!HandedOver
<1>8. CASE w.done = 0
  <2>1. Session!RepliedTo(k - 1)
    BY <1>4, <1>8, RepliedIs
  <2>2. got' = Append(got, [i |-> k, status |-> p_write.status, length |-> p_write.length,
                            part |-> 1, size |-> p_write.length + 1])
    BY <1>1, <1>4, <1>8
  <2> HIDE DEF w, k
  <2>3. Session!Begin
    BY <1>2, <1>4, <1>5, <1>7, <2>1, <2>2 DEF Session!Begin, k
  <2> QED
    BY <1>6, <2>3 DEF Session!Next
<1>9. CASE w.done # 0
  <2>1. Session!last = [i |-> p_write.i, status |-> p_write.status,
                        length |-> p_write.length, part |-> w.done, size |-> w.size]
    BY <1>4, <1>9 DEF Session!last, Last
  <2>2. got # <<>> /\ Session!last.part < Session!last.size
    BY <1>1, <1>4, <1>9, <2>1
  <2>3. got' = Append(got, [Session!last EXCEPT !.part = @ + 1])
    BY <1>1, <2>1
  <2>4. Session!Continue
    BY <1>2, <1>5, <2>2, <2>3 DEF Session!Continue
  <2> QED
    BY <1>6, <2>4 DEF Session!Next
<1> QED
  BY <1>8, <1>9

\* A step that is not seen, after which no request is still to be handled, and no answer
\* due, but those that were before.
LEMMA NotSeen ==
  ASSUME HandInv, UNCHANGED <<clientVars, net, served>>,
         read_op' = "body" => read_op = "body",
         sock' = "open" /\ (handler' = "write" \/ InProgress') =>
           sock = "open" /\ (handler = "write" \/ InProgress) /\ p_write' = p_write
  PROVE  HandInv' /\ [Session!Next]_(Session!vars)
<1>1. handed' = handed
  BY DEF handed, bytes
<1>2. Unread' <=> Unread
  BY DEF Unread, HasHead, IsHead
<1>3. HandInv'
  BY <1>2 DEF HandInv
<1> QED
  BY <1>1, <1>3 DEF Session!vars

LEMMA ShutSession ==
  ASSUME SafeInv, HandInv, ReadError \/ ReadAborted \/ WriteAborted \/ WriteFail \/ Expire
  PROVE  HandInv' /\ [Session!Next]_(Session!vars)
<1>1. UNCHANGED <<clientVars, net, served>>
  BY DEF ReadError, ReadAborted, WriteAborted, WriteFail, Expire
<1>2. read_op' = "body" => read_op = "body"
  BY DEF ReadError, ReadAborted, WriteAborted, WriteFail, Expire
<1>3. sock' # "open"
  <2>1. ReadAborted => sock # "open"
    BY DEF ReadAborted, SafeInv, ExchangeInv, OpenInv
  <2> QED
    BY <2>1 DEF ReadError, ReadAborted, WriteAborted, WriteFail, Expire, conn_error
<1> QED
  BY <1>1, <1>2, <1>3, NotSeen

LEMMA HandlerSession ==
  ASSUME SafeInv, HandInv, DoWrite \/ Start \/ Rearm
  PROVE  HandInv' /\ [Session!Next]_(Session!vars)
<1>1. UNCHANGED <<clientVars, net, served, p_write, sock>> /\ (read_op' = "body" => read_op = "body")
  BY DEF DoWrite, Start, Rearm
<1>2. CASE DoWrite
  <2>1. handler = "write"
    BY <1>2 DEF DoWrite, SafeInv, FrontInv, ReplyInv
  <2> QED
    BY <1>1, <2>1, NotSeen
<1>3. CASE Start \/ Rearm
  <2>1. handler' # "write" /\ writes' = writes
    BY <1>3 DEF Start, Rearm
  <2>2. InProgress' <=> InProgress
    BY <1>1, <2>1, ProgressKept
  <2> QED
    BY <1>1, <2>1, <2>2, NotSeen
<1> QED
  BY <1>2, <1>3

LEMMA WriteDoneSession ==
  ASSUME SafeInv, SafeInv', HandInv, WriteDone
  PROVE  HandInv' /\ [Session!Next]_(Session!vars)
<1>1. /\ UNCHANGED <<clientVars, net, served, p_write, sock, read_op>>
      /\ handler = "none" /\ writes # <<>> /\ writes' = Tail(writes)
      /\ handler' \in {handler, "more"}
  BY DEF WriteDone
<1>2. handler' # "write"
  BY <1>1
<1>3. ASSUME sock = "open", InProgress'
      PROVE  InProgress
  <2> SUFFICES ASSUME AllWritten(writes)
               PROVE  FALSE
    BY <1>1, <1>3 DEF SafeInv, ExchangeInv, OpenInv
  <2>1. AllWritten(writes')
    BY <1>1, TailWritten
  <2>2. writes' \in Seq(Write) /\ writes' # <<>> /\ Last(writes').done < Last(writes').size
    BY <1>3 DEF SafeInv, FrontInv, ReplyInv, InProgress
  <2>3. Len(writes') \in DOMAIN writes' /\ writes'[Len(writes')] \in Write
    BY <2>2, EmptySeq, LenProperties, ElementOfSeq
  <2> QED
    BY <2>1, <2>2, <2>3 DEF AllWritten, Last, Write
<1> QED
  BY <1>1, <1>2, <1>3, NotSeen

------------------------------------------------------------------------------
(* The clients.                                                            *)

LEMMA SendSession ==
  ASSUME SafeInv, SafeInv', HandInv, ClientSends
  PROVE  HandInv' /\ [Session!Next]_(Session!vars)
<1> DEFINE k == Len(asked)
<1>1. PICK r \in Requests : asked' = Append(asked, r)
  BY DEF ClientSends
<1>2. /\ Answered /\ client' = client /\ got' = got
      /\ UNCHANGED <<p_write, writes, handler, served>>
  BY DEF ClientSends
<1>3. AllWritten(writes) /\ handler # "write" /\ Replied(k)
  BY <1>2, MaySend
<1>4. asked \in Seq(Requests) /\ writes \in Seq(Write)
  BY DEF SafeInv, FrontInv, BytesInv, ReplyInv
<1>5. Len(asked') = k + 1 /\ k \in Nat
  BY <1>1, <1>4, AppendProperties, LenProperties
<1>6. served \in Seq([i : 1..MaxRequests, body : Seq(Byte)]) /\ \A n \in DOMAIN served : served[n].i <= k
  BY DEF SafeInv, ExchangeInv, ServedInv
<1>7. \A n \in DOMAIN served : served[n].i < k + 1
  <2>1. \A n \in DOMAIN served : served[n].i \in Nat
    <3>1. \A n \in DOMAIN served : served[n] \in [i : 1..MaxRequests, body : Seq(Byte)]
      BY <1>6, ElementOfSeq, LenProperties
    <3> QED
      BY <3>1
  <2> HIDE DEF k
  <2> QED
    BY <1>5, <1>6, <2>1
<1>8. ~InProgress'
  <2>1. writes # <<>> => Len(writes) \in DOMAIN writes /\ writes[Len(writes)] \in Write
    BY <1>4, EmptySeq, LenProperties, ElementOfSeq
  <2> QED
    BY <1>2, <1>3, <2>1 DEF InProgress, AllWritten, Last, Write
<1>9. HandInv'
  BY <1>2, <1>3, <1>5, <1>7, <1>8 DEF HandInv
<1>10. handed' = handed
  BY <1>2, HandedIs, HandedNext DEF AllHanded
<1>11. Session!RepliedTo(Len(asked))
  BY <1>3, RepliedIs
<1>12. Session!Ask
  BY <1>1, <1>2, <1>10, <1>11 DEF Session!Ask
<1> QED
  BY <1>9, <1>12 DEF Session!Next

LEMMA RecycleSession ==
  ASSUME Recycle
  PROVE  HandInv' /\ [Session!Next]_(Session!vars)
<1>1. /\ client' = client + 1 /\ asked' = <<>> /\ got' = <<>> /\ served' = <<>>
      /\ writes' = <<>> /\ handler' = "none"
  BY DEF Recycle
<1>2. HandInv'
  BY <1>1 DEF HandInv, InProgress
<1>3. handed' = <<>>
  BY <1>1 DEF handed
<1> QED
  BY <1>1, <1>2, <1>3 DEF Session!Next, Session!NextClient

LEMMA SessionStep ==
  ASSUME SafeInv, SafeInv', HandInv, [Next]_vars
  PROVE  HandInv' /\ [Session!Next]_(Session!vars)
<1>1. CASE ReadHead \/ ReadBody
  BY <1>1, ReadSession
<1>2. CASE WriteSome
  BY <1>2, WriteSession
<1>3. CASE ReadError \/ ReadAborted \/ WriteAborted \/ WriteFail \/ Expire
  BY <1>3, ShutSession
<1>4. CASE DoWrite \/ Start \/ Rearm
  BY <1>4, HandlerSession
<1>5. CASE WriteDone
  BY <1>5, WriteDoneSession
<1>6. CASE ClientSends
  BY <1>6, SendSession
<1>7. CASE Recycle
  BY <1>7, RecycleSession
<1>8. CASE Ended \/ UNCHANGED vars
  <2>1. UNCHANGED <<clientVars, net, served, read_op, sock, handler, writes, p_write>>
    BY <1>8 DEF Ended, vars
  <2>2. InProgress' <=> InProgress
    BY <2>1, ProgressKept
  <2> QED
    BY <2>1, <2>2, NotSeen
<1> QED
  BY <1>1, <1>2, <1>3, <1>4, <1>5, <1>6, <1>7, <1>8 DEF Next, HandlerStep

LEMMA SessionInit == Init => HandInv /\ Session!Init
<1> SUFFICES ASSUME Init
             PROVE  HandInv /\ Session!Init
  OBVIOUS
<1>1. /\ client = 1 /\ asked = <<>> /\ got = <<>> /\ net = <<>> /\ served = <<>>
      /\ handler = "none" /\ writes = <<>>
  BY DEF Init
<1>2. handed = <<>>
  BY <1>1 DEF handed
<1>3. HandInv
  BY <1>1 DEF HandInv, InProgress
<1> QED
  BY <1>1, <1>2, <1>3 DEF Session!Init

\* Every behaviour of the object and its clients is one of HttpSession: at most one reply to
\* each request, whole before the next begins, each body handed over at most once, and no
\* answer to a request whose own body was not (front_conn.cpp:65-332).
THEOREM FrontImplementsSession == Spec => SessionSpec
<1>1. Init => HandInv /\ Session!Init
  BY SessionInit
<1>2. SafeInv /\ SafeInv' /\ HandInv /\ [Next]_vars => HandInv' /\ [Session!Next]_(Session!vars)
  BY SessionStep
<1> QED
  BY <1>1, <1>2, ExchangeInvariance, PTL DEF Spec, SessionSpec, Session!Spec
==============================================================================
