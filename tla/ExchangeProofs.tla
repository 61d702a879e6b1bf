---------------------------- MODULE ExchangeProofs ----------------------------
(***************************************************************************)
(* What passes between a front_conn object and its clients, for every      *)
(* number of clients and requests and every length: replies come whole and *)
(* in order, a body is that of its request, nobody waits for the other,    *)
(* and no assertion fails.                                                 *)
(***************************************************************************)
EXTENDS FrontProofs

------------------------------------------------------------------------------
(* What is read from a head.                                               *)

\* insert with nothing there: a name that one line gives has that line's value.
LEMMA InsertOne ==
  ASSUME NEW lines, DOMAIN lines \subseteq Nat, NEW j \in DOMAIN lines,
         NEW n \in DOMAIN given(lines[j]),
         \A i \in DOMAIN lines : n \in DOMAIN given(lines[i]) => i = j
  PROVE  /\ n \in DOMAIN insert(NoOptions, lines)
         /\ insert(NoOptions, lines)[n] = given(lines[j])[n]
<1> DEFINE named == {i \in DOMAIN lines : n \in DOMAIN given(lines[i])}
           first == CHOOSE i \in named : \A k \in named : i <= k
           names == DOMAIN NoOptions \cup UNION {DOMAIN given(lines[i]) : i \in DOMAIN lines}
<1>1. named = {j}
  OBVIOUS
<1>2. first = j
  BY <1>1
<1>3. n \in names /\ n \notin DOMAIN NoOptions
  BY DEF NoOptions
<1>4. insert(NoOptions, lines) =
        [m \in names |->
           IF m \in DOMAIN NoOptions THEN NoOptions[m]
           ELSE given(lines[CHOOSE i \in {i \in DOMAIN lines : m \in DOMAIN given(lines[i])} :
                  \A k \in {i2 \in DOMAIN lines : m \in DOMAIN given(lines[i2])} : i <= k])[m]]
  BY DEF insert
<1> HIDE DEF names
<1> QED
  BY <1>2, <1>3, <1>4

\* Every name comes from a line.
LEMMA InsertNames ==
  ASSUME NEW lines, NEW n \in DOMAIN insert(NoOptions, lines)
  PROVE  \E j \in DOMAIN lines : n \in DOMAIN given(lines[j])
  BY DEF insert, NoOptions

\* A name that is there in one spelling is found, one that is not there is not.
LEMMA OptionFound ==
  ASSUME NEW opts, NEW name, NEW none, NEW n \in DOMAIN opts, n.word = name.word, n.spelling \in Nat,
         \A m \in DOMAIN opts : m.word = name.word => m = n
  PROVE  request_option(opts, name, none) = opts[n]
<1> DEFINE found == {m \in DOMAIN opts : m.word = name.word}
<1>1. found = {n}
  OBVIOUS
<1>2. (CHOOSE m \in found : \A o \in found : m.spelling <= o.spelling) = n
  BY <1>1
<1> QED
  BY <1>1, <1>2 DEF request_option

LEMMA OptionMissing ==
  ASSUME NEW opts, NEW name, NEW none, \A m \in DOMAIN opts : m.word # name.word
  PROVE  request_option(opts, name, none) = none
  BY DEF request_option


\* A field's name is Content-Length in one of its spellings, or nothing that is asked for.
LEMMA GivenNames ==
  ASSUME NEW r
  PROVE  /\ DOMAIN given(junk) = {}
         /\ DOMAIN given(length_line(r)) = {length_line(r).name}
         /\ given(length_line(r))[length_line(r).name] = r.len
         /\ length_line(r).name.word = "content-length" /\ length_line(r).name.spelling \in Nat
         /\ r.kind # "colon" =>
              /\ DOMAIN given(request_line(r)) = {request_method, request_uri}
              /\ given(request_line(r))[request_method] = IF r.kind = "get" THEN "GET" ELSE "POST"
              /\ given(request_line(r))[request_uri] =
                   IF r.kind \in {"item", "missing"} THEN r.kind ELSE "analyse"
         /\ r.kind = "colon" =>
              \A n \in DOMAIN given(request_line(r)) : n.word = "POST_analyse"
<1>1. DOMAIN given(junk) = {}
  BY DEF given, junk, NoOptions
<1>2. /\ DOMAIN given(length_line(r)) = {length_line(r).name}
      /\ given(length_line(r))[length_line(r).name] = r.len
  <2>1. length_line(r).what = "field" /\ length_line(r).value = r.len
    BY DEF length_line
  <2>2. given(length_line(r)) = [n \in {length_line(r).name} |-> r.len]
    BY <2>1 DEF given
  <2> QED
    BY <2>2
<1>3. length_line(r).name.word = "content-length" /\ length_line(r).name.spelling \in Nat
  BY DEF length_line
<1>4. ASSUME r.kind # "colon"
      PROVE  /\ DOMAIN given(request_line(r)) = {request_method, request_uri}
             /\ given(request_line(r))[request_method] = IF r.kind = "get" THEN "GET" ELSE "POST"
             /\ given(request_line(r))[request_uri] =
                  IF r.kind \in {"item", "missing"} THEN r.kind ELSE "analyse"
  <2> DEFINE l == request_line(r)
  <2>1. /\ l.what = "request" /\ l.method = IF r.kind = "get" THEN "GET" ELSE "POST"
        /\ l.uri.path = IF r.kind \in {"item", "missing"} THEN r.kind ELSE "analyse"
    BY <1>4 DEF request_line
  <2> HIDE DEF l
  <2>2. given(l) = [n \in {request_method, request_uri} |->
                      IF n = request_method THEN l.method ELSE l.uri.path]
    BY <2>1 DEF given
  <2>3. request_method # request_uri
    BY DEF request_method, request_uri
  <2> QED
    BY <2>1, <2>2, <2>3 DEF l
<1>5. ASSUME r.kind = "colon"
      PROVE  \A n \in DOMAIN given(request_line(r)) : n.word = "POST_analyse"
  <2>1. /\ request_line(r).what = "field"
        /\ request_line(r).name = [word |-> "POST_analyse", spelling |-> 1]
    BY <1>5 DEF request_line
  <2>2. given(request_line(r)) = [n \in {request_line(r).name} |-> request_line(r).value]
    BY <2>1 DEF given
  <2>3. DOMAIN given(request_line(r)) = {request_line(r).name}
    BY <2>2
  <2>4. request_line(r).name.word = "POST_analyse"
    BY <2>1
  <2> HIDE DEF given
  <2> QED
    BY <2>3, <2>4
<1> QED
  BY <1>1, <1>2, <1>3, <1>4, <1>5

\* Content-Length is found in either spelling.
LEMMA LengthFound ==
  ASSUME NEW opts, NEW name \in DOMAIN opts,
         name.word = "content-length", name.spelling \in Nat,
         \A o \in DOMAIN opts : o.word = "content-length" => o = name,
         opts[name] \in Nat
  PROVE  length_option(opts) = opts[name]
<1>1. content_length.word = "content-length"
  BY DEF content_length
<1>2. request_option(opts, content_length, 0) = opts[name]
  BY <1>1, OptionFound
<1> QED
  BY <1>2 DEF length_option

LEMMA LenType == \A r \in Requests : r.len \in Nat
<1> SUFFICES ASSUME NEW r \in Requests
             PROVE  r.len \in Nat
  OBVIOUS
<1>1. r.len \in 0..MaxLen
  BY DEF Requests
<1> QED
  BY <1>1

\* What a head may be when the parser does not refuse it.
LEMMA HeadLines ==
  ASSUME NEW r, NEW hd \in {head(r)} \cup spoiled(head(r)), ~parse_fails(hd)
  PROVE  \/ hd.lines = head(r).lines
         \/ hd.lines = <<junk>> \o head(r).lines
         \/ hd.lines = [head(r).lines EXCEPT ![1] = junk]
BY DEF spoiled, parse_fails, head

\* What the lines of a head may be: the request line, Content-Length and junk, none of
\* the first two twice; Content-Length is there unless the method is another.
LEMMA LineKinds ==
  ASSUME NEW r, NEW hd \in {head(r)} \cup spoiled(head(r)), ~parse_fails(hd)
  PROVE  /\ DOMAIN hd.lines \subseteq Nat
         /\ \A j \in DOMAIN hd.lines : hd.lines[j] \in {junk, request_line(r), length_line(r)}
         /\ \A i, j \in DOMAIN hd.lines : hd.lines[i] = hd.lines[j] /\ hd.lines[i] # junk => i = j
         /\ r.kind # "get" => \E j \in DOMAIN hd.lines : hd.lines[j] = length_line(r)
<1> DEFINE a == request_line(r)
           b == length_line(r)
           L == IF r.kind = "get" THEN <<a>> ELSE <<a, b>>
           S == {a, b, junk}
           Good(s) == /\ DOMAIN s \subseteq Nat
                      /\ \A j \in DOMAIN s : s[j] \in S
                      /\ \A i, j \in DOMAIN s : s[i] = s[j] /\ s[i] # junk => i = j
                      /\ r.kind # "get" => \E j \in DOMAIN s : s[j] = b
<1>1. head(r).lines = L
  BY DEF head
<1>2. a # b
  BY DEF request_line, length_line
<1>3. /\ hd.lines = L \/ hd.lines = <<junk>> \o L \/ hd.lines = [L EXCEPT ![1] = junk]
  BY <1>1, HeadLines
<1> HIDE DEF a, b
<1>4. <<junk>> \in Seq(S) /\ Len(<<junk>>) = 1 /\ <<junk>>[1] = junk
  OBVIOUS
<1>5. /\ L \in Seq(S) /\ Len(L) = IF r.kind = "get" THEN 1 ELSE 2
      /\ L[1] = a
      /\ r.kind # "get" => L[2] = b
  <2>1. CASE r.kind = "get"
    <3>1. <<a>> \in Seq(S) /\ Len(<<a>>) = 1 /\ <<a>>[1] = a
      OBVIOUS
    <3> QED
      BY <2>1, <3>1
  <2>2. CASE r.kind # "get"
    <3>1. <<a, b>> \in Seq(S) /\ Len(<<a, b>>) = 2 /\ <<a, b>>[1] = a /\ <<a, b>>[2] = b
      OBVIOUS
    <3> QED
      BY <2>2, <3>1
  <2> QED
    BY <2>1, <2>2
<1> HIDE DEF L
<1>5a. a \in S /\ b \in S /\ junk \in S
  OBVIOUS
<1> HIDE DEF S
<1>5b. DOMAIN L = 1..Len(L)
  BY <1>5, LenProperties
<1>6. Good(L)
  BY <1>2, <1>5, <1>5a, <1>5b
<1>7. Good(<<junk>> \o L)
  <2> DEFINE s == <<junk>> \o L
  <2>1. /\ s \in Seq(S) /\ Len(s) = 1 + Len(L)
        /\ \A i \in 1..(1 + Len(L)) : s[i] = IF i <= 1 THEN <<junk>>[i] ELSE L[i - 1]
    BY <1>4, <1>5, ConcatProperties
  <2> HIDE DEF s
  <2>2. s[1] = junk /\ s[2] = a /\ (r.kind # "get" => s[3] = b)
    BY <1>4, <1>5, <2>1
  <2> QED
    BY <1>2, <1>4, <1>5, <2>1, <2>2 DEF s
<1>8. Good([L EXCEPT ![1] = junk])
  <2> DEFINE s == [L EXCEPT ![1] = junk]
  <2>1. /\ s \in Seq(S) /\ Len(s) = Len(L)
        /\ \A j \in 1..Len(L) : s[j] = IF j = 1 THEN junk ELSE L[j]
    BY <1>4, <1>5, ExceptSeq
  <2> HIDE DEF s
  <2> QED
    BY <1>2, <1>5, <2>1 DEF s
<1> QED
  <2> HIDE DEF Good
  <2>1. Good(hd.lines)
    BY <1>3, <1>6, <1>7, <1>8
  <2> USE DEF Good
  <2> QED
    BY <2>1 DEF a, b, S

\* A head in which the request line is found gives its method, uri and length.
LEMMA ParsedLine ==
  ASSUME NEW r \in Requests, r.kind # "colon",
         NEW hd \in {head(r)} \cup spoiled(head(r)), ~parse_fails(hd),
         NEW j \in DOMAIN hd.lines, hd.lines[j] = request_line(r), NEW opts
  PROVE  /\ request_option(parse_request(opts, hd), request_method, "") =
              IF r.kind = "get" THEN "GET" ELSE "POST"
         /\ uri(parse_request(opts, hd)) =
              IF r.kind \in {"item", "missing"} THEN r.kind ELSE "analyse"
         /\ r.kind # "get" => length_option(parse_request(opts, hd)) = r.len
<1> DEFINE lines == hd.lines
           parse == insert(NoOptions, lines)
           req == request_line(r)
           len == length_line(r)
<1>1. parse_request(opts, hd) = parse
  BY DEF parse_request
<1>2. /\ request_method.word = "request_method_" /\ request_uri.word = "request_uri_"
      /\ request_method.spelling \in Nat /\ request_uri.spelling \in Nat
  BY DEF request_method, request_uri
<1>3. /\ \A i \in DOMAIN lines : lines[i] \in {junk, req, len}
      /\ \A i, k \in DOMAIN lines : lines[i] = lines[k] /\ lines[i] # junk => i = k
      /\ DOMAIN lines \subseteq Nat
      /\ r.kind # "get" => \E k \in DOMAIN lines : lines[k] = len
  BY LineKinds
<1>4. j \in DOMAIN lines /\ lines[j] = req
  OBVIOUS
<1> HIDE DEF parse, lines, req, len
<1>5. /\ DOMAIN given(junk) = {} /\ DOMAIN given(len) = {len.name}
      /\ given(len)[len.name] = r.len
      /\ len.name.word = "content-length" /\ len.name.spelling \in Nat
  BY GivenNames DEF len
<1>6. /\ DOMAIN given(req) = {request_method, request_uri}
      /\ given(req)[request_method] = IF r.kind = "get" THEN "GET" ELSE "POST"
      /\ given(req)[request_uri] = IF r.kind \in {"item", "missing"} THEN r.kind ELSE "analyse"
  BY GivenNames DEF req
<1>7. \A n \in DOMAIN parse : n = request_method \/ n = request_uri \/ n = len.name
  <2> TAKE n \in DOMAIN parse
  <2>1. PICK i \in DOMAIN lines : n \in DOMAIN given(lines[i])
    BY InsertNames DEF parse
  <2> QED
    BY <1>3, <1>5, <1>6, <2>1
<1>8. req # junk
  BY <1>5, <1>6
<1>9. ASSUME NEW n \in {request_method, request_uri}
      PROVE  n \in DOMAIN parse /\ parse[n] = given(req)[n]
  <2>1. \A i \in DOMAIN lines : n \in DOMAIN given(lines[i]) => i = j
    <3>1. n # len.name
      BY <1>2, <1>5, <1>9
    <3> QED
      BY <1>3, <1>4, <1>5, <1>8, <3>1
  <2>2. n \in DOMAIN given(lines[j])
    BY <1>4, <1>6, <1>9
  <2> QED
    BY <1>3, <1>4, <2>1, <2>2, InsertOne DEF parse
<1>10. ASSUME NEW n \in {request_method, request_uri}, NEW none
       PROVE  request_option(parse, n, none) = given(req)[n]
  <2>1. \A o \in DOMAIN parse : o.word = n.word => o = n
    BY <1>2, <1>5, <1>7, <1>10
  <2>2. n.spelling \in Nat
    BY <1>2, <1>10
  <2>3. n \in DOMAIN parse /\ parse[n] = given(req)[n]
    BY <1>9, <1>10
  <2>4. request_option(parse, n, none) = parse[n]
    BY <2>1, <2>2, <2>3, OptionFound
  <2> QED
    BY <2>3, <2>4
<1>11. uri(parse) = IF r.kind \in {"item", "missing"} THEN r.kind ELSE "analyse"
  BY <1>6, <1>10 DEF uri
<1>12. ASSUME r.kind # "get"
       PROVE  length_option(parse) = r.len
  <2> DEFINE name == len.name
  <2>1. PICK k \in DOMAIN lines : lines[k] = len
    BY <1>3, <1>12
  <2>2. /\ DOMAIN given(len) = {name} /\ given(len)[name] = r.len
        /\ name.spelling \in Nat /\ name.word = "content-length"
    BY <1>5
  <2>3. name \notin DOMAIN given(junk) /\ name \notin DOMAIN given(req)
    BY <1>2, <1>5, <1>6, <2>2
  <2>4. \A o \in DOMAIN parse : o.word = "content-length" => o = name
    BY <1>2, <1>7
  <2> HIDE DEF name
  <2>5. \A i \in DOMAIN lines : name \in DOMAIN given(lines[i]) => i = k
    <3>1. len # junk
      BY <2>2, <2>3
    <3> QED
      BY <1>3, <2>1, <2>3, <3>1
  <2>6. name \in DOMAIN parse /\ parse[name] = r.len
    BY <1>3, <2>1, <2>2, <2>5, InsertOne DEF parse
  <2> QED
    BY <2>2, <2>4, <2>6, LenType, LengthFound
<1> QED
  BY <1>1, <1>6, <1>10, <1>11, <1>12

\* A POST is read from a head only where the request line is found.
LEMMA PostHasLine ==
  ASSUME NEW r \in Requests, NEW opts, NEW hd \in {head(r)} \cup spoiled(head(r)),
         ~parse_fails(hd),
         request_option(parse_request(opts, hd), request_method, "") = "POST"
  PROVE  /\ r.kind # "colon"
         /\ \E j \in DOMAIN hd.lines : hd.lines[j] = request_line(r)
<1> DEFINE parse == insert(NoOptions, hd.lines)
<1>1. request_method.word = "request_method_"
  BY DEF request_method
<1>2. PICK m \in DOMAIN parse : m.word = "request_method_"
  <2> SUFFICES ASSUME \A m \in DOMAIN parse : m.word # request_method.word
               PROVE  request_option(parse, request_method, "") = ""
    BY <1>1 DEF parse_request
  <2> HIDE DEF parse
  <2> QED
    BY OptionMissing
<1>3. PICK j \in DOMAIN hd.lines : m \in DOMAIN given(hd.lines[j])
  BY InsertNames
<1> HIDE DEF parse
<1>4. hd.lines[j] # junk /\ hd.lines[j] # length_line(r)
  <2>1. DOMAIN given(junk) = {}
    BY GivenNames
  <2>2. /\ DOMAIN given(length_line(r)) = {length_line(r).name}
        /\ length_line(r).name.word = "content-length"
    BY GivenNames
  <2>3. m \notin DOMAIN given(length_line(r))
    BY <1>2, <2>2
  <2> QED
    BY <1>3, <2>1, <2>3
<1>5. hd.lines[j] = request_line(r)
  BY <1>4, LineKinds
<1>6. r.kind = "colon" => m.word = "POST_analyse"
  BY <1>3, <1>5, GivenNames
<1> QED
  BY <1>2, <1>5, <1>6

\* A head from which a POST is read is of a request with a body, and uri and length are
\* found in it.
LEMMA ParsedPost ==
  ASSUME NEW r \in Requests, NEW opts, NEW hd \in {head(r)} \cup spoiled(head(r)),
         ~parse_fails(hd),
         request_option(parse_request(opts, hd), request_method, "") = "POST"
  PROVE  /\ r.kind \notin {"get", "colon"}
         /\ uri(parse_request(opts, hd)) =
              IF r.kind \in {"item", "missing"} THEN r.kind ELSE "analyse"
         /\ length_option(parse_request(opts, hd)) = r.len
<1>1. PICK j \in DOMAIN hd.lines : hd.lines[j] = request_line(r)
  BY PostHasLine
<1>2. r.kind # "colon"
  BY PostHasLine
<1> DEFINE opts2 == parse_request(opts, hd)
<1>3. /\ request_option(opts2, request_method, "") = IF r.kind = "get" THEN "GET" ELSE "POST"
      /\ uri(opts2) = IF r.kind \in {"item", "missing"} THEN r.kind ELSE "analyse"
      /\ r.kind # "get" => length_option(opts2) = r.len
  BY <1>1, <1>2, ParsedLine
<1> HIDE DEF opts2
<1>4. r.kind # "get"
  BY <1>3 DEF opts2
<1> QED
  BY <1>2, <1>3, <1>4 DEF opts2

\* A head that is not spoiled is understood.
LEMMA CleanHead ==
  ASSUME NEW r \in Requests, r.kind \notin {"get", "colon"}, NEW opts, ~parse_fails(head(r))
  PROVE  request_option(parse_request(opts, head(r)), request_method, "") = "POST"
<1>1. head(r).lines = <<request_line(r), length_line(r)>>
  BY DEF head
<1>2. 1 \in DOMAIN head(r).lines /\ head(r).lines[1] = request_line(r)
  BY <1>1
<1> QED
  BY <1>2, ParsedLine

------------------------------------------------------------------------------
(* The invariant.                                                          *)

Part == [i : Nat, status : Status, length : Nat, part : Nat, size : Nat]

\* The n-th piece of request i, and s as pieces of it from the n-th on.
piece(i, n) == [c |-> client, i |-> i, part |-> n]
Run(s, i, n) == \A j \in DOMAIN s : s[j] = piece(i, n + j - 1)

Unread == HasHead(net)

\* The client has every part of the reply to its j-th request, and no other.
Replied(j) ==
  IF got = <<>> THEN j = 0
  ELSE Last(got).i = j /\ Last(got).part = Last(got).length + 1

\* At most the request asked last is on its way, whole and at the end of what the client
\* has sent; the client still waits for its reply, and has all the others.
StreamInv ==
  /\ ~HasHead(request)
  /\ \A b \in DOMAIN net : IsHead(net[b]) =>
       /\ Len(net) - b = asked[Len(asked)].len
       /\ \A j \in b..Len(net) : net[j] = piece(Len(asked), j - b)
  /\ Unread \/ read_op = "body" => asked # <<>> /\ Replied(Len(asked) - 1)
  /\ handler # "none" => read_op = "none"

uri_of(kind) == IF kind = "item" THEN "item" ELSE "analyse"

\* r is the request asked last, as the parser understands it, and has a body to be read.
BodyOf(r) ==
  LET a == asked[Len(asked)] IN
    /\ r.i = Len(asked)
    /\ a.kind \in {"analyse", "slash", "item"}
    /\ uri(r.opts) = uri_of(a.kind) /\ length_option(r.opts) = a.len

\* A body that is being read is that of the request asked last, and the rest of it is
\* all that comes.
BodyInv ==
  read_op = "body" =>
    /\ BodyOf(parsed) /\ request = <<>>
    /\ Len(p_buffer) + Len(net) = asked[Len(asked)].len
    /\ Run(p_buffer, Len(asked), 1) /\ Run(net, Len(asked), Len(p_buffer) + 1)

\* What has been handed over.
ServedInv ==
  /\ served \in Seq([i : 1..MaxRequests, body : Seq(Byte)])
  /\ \A n \in DOMAIN served : served[n].i <= Len(asked)
  /\ BodyIsItsOwn

\* A status that request i may get, the requests before it being what they are.
StatusFits(status, i) ==
  \/ status \in statuses(asked[i].kind)
  \/ status \in {"bad", "error"} /\ \E j \in 1..(i - 1) : BodyIsLeft(j)

GotInv ==
  /\ got \in Seq(Part)
  /\ \A n \in DOMAIN got : got[n].size = got[n].length + 1
  /\ RepliesInOrder

\* p_write_ is the reply to the request asked last.
ReplyIsDue ==
  /\ asked # <<>>
  /\ p_write \in [i : {Len(asked)}, status : Status, length : 1..MaxContent]
  /\ StatusFits(p_write.status, Len(asked))

AllWritten(ws) == \A j \in DOMAIN ws : ws[j].done = ws[j].size

\* The write started last is taking p_write_ to the client.
InProgress ==
  /\ writes # <<>> /\ ReplyIsDue
  /\ LET w == Last(writes) IN
       /\ w.done < w.size /\ w.size = p_write.length + 1
       /\ IF w.done = 0 THEN Replied(Len(asked) - 1)
          ELSE /\ got # <<>>
               /\ Last(got) = [i |-> p_write.i, status |-> p_write.status,
                               length |-> p_write.length, part |-> w.done, size |-> w.size]

\* Bytes before the head that is looked for, which only a request that was refused
\* leaves.
LeftInv ==
  /\ \A b \in DOMAIN net : IsHead(net[b]) /\ (b > 1 \/ request # <<>>) =>
       \E j \in 1..(Len(asked) - 1) : BodyIsLeft(j)
  /\ ~Unread /\ read_op # "body" /\ (net # <<>> \/ request # <<>>) =>
       \E j \in 1..Len(asked) : BodyIsLeft(j)

\* While the socket is open the object is somewhere between a request and its reply.
OpenInv ==
  sock = "open" =>
    /\ stats = "working" /\ read_op # "aborted"
    /\ handler = "none" => read_op # "none"
    /\ \A j \in DOMAIN writes : j < Len(writes) => writes[j].done = writes[j].size
    /\ Unread => handler # "write"
    /\ Unread \/ read_op = "body" \/ handler = "write" => AllWritten(writes)
    /\ handler = "write" =>
         ReplyIsDue /\ w_size = p_write.length + 1 /\ Replied(Len(asked) - 1)
    /\ ~Unread /\ read_op # "body" /\ handler # "write" =>
         InProgress \/ (Answered /\ AllWritten(writes))
    /\ LeftInv

ExchangeInv ==
  /\ StreamInv /\ BodyInv /\ ServedInv /\ GotInv /\ OpenInv
  /\ fault = "none"

\* Also after a shutdown: while the client may send, or its request is not read, every
\* write is complete; while a reply is filled in, or a read is cancelled, the client waits.
WaitInv ==
  /\ Unread \/ read_op = "body" \/ Answered => AllWritten(writes)
  /\ handler = "write" \/ read_op = "aborted" => ~Unread /\ ~Answered

\* What the invariant says of every state.
SafeInv == FrontInv /\ ExchangeInv /\ WaitInv

\* A request that is found in what has been read is the one asked last: what comes with
\* its head and what is still to come are its body.
HeadTaken(hd, additional) ==
  LET r == asked[Len(asked)] IN
    /\ asked # <<>> /\ Unread
    /\ hd = head(r) \/ hd \in spoiled(head(r))
    /\ hd # head(r) /\ sock = "open" => \E j \in 1..(Len(asked) - 1) : BodyIsLeft(j)
    /\ additional \in Seq(Byte) /\ Run(additional, Len(asked), 1)
    /\ net' \in Seq(Byte) /\ Run(net', Len(asked), Len(additional) + 1)
    /\ Len(additional) + Len(net') = r.len
    /\ read_head_handler(Len(asked), hd, additional)

LEMMA HeadRead ==
  ASSUME SafeInv, ReadHead
  PROVE  \E hd, additional : HeadTaken(hd, additional)
<1>1. PICK n \in 0..Len(net) :
        LET all == request \o SubSeq(net, 1, n) IN
          /\ net' = SubSeq(net, n + 1, Len(net))
          /\ \E h \in DOMAIN all :
               /\ IsHead(all[h])
               /\ \E hd \in heads(SubSeq(all, 1, h)) :
                    read_head_handler(all[h].i, hd, beyond(all, h))
  BY DEF ReadHead
<1> DEFINE cut == SubSeq(net, 1, n)
           all == request \o cut
<1>2. PICK h \in DOMAIN all :
        /\ IsHead(all[h])
        /\ \E hd \in heads(SubSeq(all, 1, h)) :
             read_head_handler(all[h].i, hd, beyond(all, h))
  BY <1>1
<1>3. PICK hd \in heads(SubSeq(all, 1, h)) : read_head_handler(all[h].i, hd, beyond(all, h))
  BY <1>2
<1>4. /\ net \in Seq(Byte) /\ request \in Seq(Byte) /\ asked \in Seq(Requests)
      /\ Len(net) \in Nat /\ Len(request) \in Nat /\ Len(asked) \in Nat
      /\ ~HasHead(request)
  BY DEF SafeInv, FrontInv, BytesInv, ExchangeInv, StreamInv
<1>5. /\ cut \in Seq(Byte) /\ Len(cut) = n
      /\ \A j \in 1..n : cut[j] = net[j]
  <2>1. \A j \in 1..n : net[j] \in Byte
    BY <1>4, ElementOfSeq
  <2> QED
    BY <2>1, SubSeqProperties
<1>6. /\ net' \in Seq(Byte) /\ Len(net') = Len(net) - n
      /\ \A j \in 1..(Len(net) - n) : net'[j] = net[n + j]
  <2>1. \A j \in (n + 1)..Len(net) : net[j] \in Byte
    BY <1>4, ElementOfSeq
  <2> QED
    BY <1>1, <1>4, <2>1, SubSeqProperties
<1> HIDE DEF cut
<1>7. /\ all \in Seq(Byte) /\ Len(all) = Len(request) + n
      /\ \A j \in 1..(Len(request) + n) :
           all[j] = IF j <= Len(request) THEN request[j] ELSE net[j - Len(request)]
  <2>1. /\ all \in Seq(Byte) /\ Len(all) = Len(request) + Len(cut)
        /\ \A j \in 1..(Len(request) + Len(cut)) :
             all[j] = IF j <= Len(request) THEN request[j] ELSE cut[j - Len(request)]
    BY <1>4, <1>5, ConcatProperties
  <2> QED
    BY <1>4, <1>5, <2>1
<1> HIDE DEF all
<1> DEFINE b == h - Len(request)
           k == Len(asked)
           additional == beyond(all, h)
<1>8. h \in 1..(Len(request) + n) /\ h \in Nat
  BY <1>4, <1>7
<1>9. b \in 1..n /\ IsHead(net[b]) /\ all[h] = net[b]
  <2>1. ~(h <= Len(request))
    BY <1>2, <1>4, <1>7, <1>8 DEF HasHead
  <2> QED
    BY <1>2, <1>4, <1>7, <1>8, <2>1
<1>9a. n \in Nat /\ n <= Len(net) /\ b \in Nat /\ 1 <= b /\ b <= n /\ h = Len(request) + b
  BY <1>4, <1>8, <1>9
<1> HIDE DEF b
<1>10. b \in DOMAIN net /\ Unread
  BY <1>4, <1>9, <1>9a DEF Unread, HasHead
<1>11. /\ Len(net) - b = asked[k].len
       /\ \A j \in b..Len(net) : net[j] = piece(k, j - b)
  BY <1>9, <1>10 DEF SafeInv, ExchangeInv, StreamInv
<1>12. all[h].i = k
  <2>1. b \in b..Len(net)
    BY <1>4, <1>9a
  <2>2. net[b] = piece(k, b - b)
    BY <1>11, <2>1
  <2> QED
    BY <1>9, <2>2 DEF piece
<1>13. /\ additional \in Seq(Byte) /\ Len(additional) = n - b
       /\ \A j \in 1..(n - b) : additional[j] = net[b + j]
  <2>1. \A j \in (h + 1)..Len(all) : all[j] \in Byte
    BY <1>7, <1>8, ElementOfSeq
  <2>2. additional = SubSeq(all, h + 1, Len(all))
    BY DEF beyond
  <2>3. /\ additional \in Seq(Byte)
        /\ Len(additional) = IF h + 1 <= Len(all) THEN Len(all) - (h + 1) + 1 ELSE 0
        /\ \A j \in 1..(Len(all) - (h + 1) + 1) : additional[j] = all[(h + 1) + j - 1]
    <3>1. h + 1 \in Nat /\ Len(all) \in Nat /\ h + 1 <= Len(all) + 1
      BY <1>4, <1>7, <1>8
    <3> QED
      BY <2>1, <2>2, <3>1, SubSeqProperties
  <2> HIDE DEF additional
  <2>4. Len(all) - h = n - b /\ Len(all) - (h + 1) + 1 = n - b
    BY <1>4, <1>7, <1>9a
  <2>5. Len(additional) = n - b
    BY <1>4, <1>7, <1>9a, <2>3, <2>4
  <2>6. ASSUME NEW j \in 1..(n - b)
        PROVE  additional[j] = net[b + j]
    <3>1. (h + 1) + j - 1 = h + j
      BY <1>8
    <3>1a. additional[j] = all[h + j]
      BY <2>3, <2>4, <3>1
    <3>2. h + j \in 1..(Len(request) + n) /\ ~(h + j <= Len(request)) /\ h + j - Len(request) = b + j
      BY <1>4, <1>9a
    <3> QED
      BY <1>7, <3>1a, <3>2
  <2> QED
    BY <2>3, <2>5, <2>6
<1> HIDE DEF additional
<1>14. Run(additional, k, 1) /\ Run(net', k, Len(additional) + 1)
  <2>1. ASSUME NEW j \in 1..(n - b)
        PROVE  additional[j] = piece(k, 1 + j - 1)
    <3>1. b + j \in b..Len(net) /\ b + j - b = 1 + j - 1
      BY <1>4, <1>9a
    <3>2. net[b + j] = piece(k, b + j - b)
      BY <1>4, <1>9a, <1>11, <3>1
    <3> QED
      BY <1>13, <3>1, <3>2
  <2>2. ASSUME NEW j \in 1..(Len(net) - n)
        PROVE  net'[j] = piece(k, Len(additional) + 1 + j - 1)
    <3>1. n + j \in b..Len(net) /\ n + j - b = Len(additional) + 1 + j - 1
      BY <1>4, <1>9a, <1>13
    <3>2. net[n + j] = piece(k, n + j - b)
      BY <1>4, <1>9a, <1>11, <3>1
    <3> QED
      BY <1>6, <3>1, <3>2
  <2>3. DOMAIN additional = 1..(n - b) /\ DOMAIN net' = 1..(Len(net) - n)
    BY <1>6, <1>13, LenProperties
  <2> QED
    BY <2>1, <2>2, <2>3 DEF Run
<1>15. Len(additional) + Len(net') = asked[k].len
  BY <1>4, <1>6, <1>9, <1>11, <1>13
<1>16. /\ hd = head(asked[k]) \/ hd \in spoiled(head(asked[k]))
       /\ hd # head(asked[k]) => h # 1
  <2> DEFINE before == SubSeq(all, 1, h)
  <2>1. \A j \in 1..h : all[j] \in Byte
    BY <1>7, <1>8, ElementOfSeq
  <2>2. Len(before) = h /\ before[h] = all[h]
    BY <1>8, <2>1, SubSeqProperties
  <2> HIDE DEF before
  <2>3. Last(before) = all[h]
    BY <2>2 DEF Last
  <2> QED
    BY <1>3, <1>12, <2>2, <2>3 DEF heads, before
<1>17. hd # head(asked[k]) /\ sock = "open" => \E j \in 1..(k - 1) : BodyIsLeft(j)
  <2>1. h # 1 => b > 1 \/ request # <<>>
    BY <1>4, <1>8 DEF b
  <2> QED
    BY <1>9, <1>10, <1>16, <2>1 DEF SafeInv, ExchangeInv, OpenInv, LeftInv
<1>18. asked # <<>>
  BY <1>10 DEF SafeInv, ExchangeInv, StreamInv
<1>19. HeadTaken(hd, additional)
  BY <1>3, <1>6, <1>10, <1>12, <1>13, <1>14, <1>15, <1>16, <1>17, <1>18 DEF HeadTaken, additional
<1> QED
  BY <1>19

LEMMA Statuses ==
  /\ "error" \in statuses("nul") /\ "bad" \in statuses("get") /\ "bad" \in statuses("colon")
  /\ "not_found" \in statuses("missing") /\ "not_found" \in statuses("item")
  /\ {"ok", "error"} \subseteq statuses("analyse") /\ {"ok", "error"} \subseteq statuses("slash")
  BY DEF statuses

\* The answer to a head that is refused fits, and what is left of its body is accounted for.
RefusalFits(status, additional) ==
  sock = "open" =>
    /\ StatusFits(status, Len(asked))
    /\ additional # <<>> \/ net' # <<>> => \E j \in 1..Len(asked) : BodyIsLeft(j)

\* What read_head_handler makes of the head.
HeadHandled(additional) ==
  \/ \E status, left :
       /\ status \in {"error", "bad", "not_found"} /\ left \in {<<>>, additional}
       /\ refuse(Len(asked), status, left) /\ RefusalFits(status, additional)
  \/ \E r : BodyOf(r) /\ parsed' = r /\ take_body(r, additional)

LEMMA LastRequest ==
  ASSUME SafeInv, asked # <<>>
  PROVE  /\ Len(asked) \in 1..MaxRequests /\ asked[Len(asked)] \in Requests
         /\ asked[Len(asked)].len \in Nat
<1>1. asked \in Seq(Requests) /\ Len(asked) \in Nat /\ Len(asked) <= MaxRequests
  BY DEF SafeInv, FrontInv, BytesInv
<1>2. Len(asked) # 0
  BY <1>1, EmptySeq
<1>3. Len(asked) \in 1..Len(asked)
  BY <1>1, <1>2
<1>4. asked[Len(asked)] \in Requests
  BY <1>1, <1>3, ElementOfSeq
<1> QED
  BY <1>1, <1>2, <1>4, LenType

LEMMA HeadHandling ==
  ASSUME SafeInv, NEW hd, NEW additional, HeadTaken(hd, additional)
  PROVE  HeadHandled(additional)
<1> DEFINE k == Len(asked)
           a == asked[k]
<1>1. /\ asked # <<>> /\ read_head_handler(k, hd, additional)
      /\ hd \in {head(a)} \cup spoiled(head(a))
      /\ hd # head(a) /\ sock = "open" => \E j \in 1..(k - 1) : BodyIsLeft(j)
      /\ additional \in Seq(Byte) /\ net' \in Seq(Byte) /\ Len(additional) + Len(net') = a.len
  BY DEF HeadTaken
<1>2. k \in 1..MaxRequests /\ a \in Requests /\ a.len \in Nat /\ k \in 1..k
  BY <1>1, LastRequest
<1> HIDE DEF k, a
<1>3. ASSUME NEW status \in {"error", "bad", "not_found"},
             status \in statuses(a.kind) \/ (hd # head(a) /\ status \in {"error", "bad"}),
             hd = head(a) => a.kind \in {"nul", "get", "colon", "missing"}
      PROVE  RefusalFits(status, additional)
  <2> SUFFICES ASSUME sock = "open"
               PROVE  /\ StatusFits(status, k)
                      /\ additional # <<>> \/ net' # <<>> => \E j \in 1..k : BodyIsLeft(j)
    BY DEF RefusalFits, k
  <2>1. CASE hd # head(a)
    <3>1. PICK j \in 1..(k - 1) : BodyIsLeft(j)
      BY <1>1, <2>1
    <3>2. j \in 1..k
      BY <1>2
    <3> QED
      BY <1>3, <3>1, <3>2 DEF StatusFits, a
  <2>2. CASE hd = head(a)
    <3>1. StatusFits(status, k)
      BY <1>3, <2>2 DEF StatusFits, a
    <3>2. additional # <<>> \/ net' # <<>> => a.len > 0
      <4>1. /\ Len(additional) \in Nat /\ (additional # <<>> => Len(additional) # 0)
            /\ Len(net') \in Nat /\ (net' # <<>> => Len(net') # 0)
        BY <1>1, EmptySeq, LenProperties
      <4> QED
        BY <1>1, <1>2, <4>1
    <3>3. a.kind = "get" => a.len = 0
      BY <1>2 DEF Requests
    <3>4. a.kind \in {"missing", "colon", "nul"} /\ a.len > 0 => BodyIsLeft(k)
      BY DEF BodyIsLeft, a
    <3> QED
      BY <1>2, <1>3, <2>2, <3>1, <3>2, <3>3, <3>4
  <2> QED
    BY <2>1, <2>2
<1>4. CASE parse_fails(hd)
  <2>1. refuse(k, "error", <<>>)
    BY <1>1, <1>4 DEF read_head_handler
  <2>2. hd = head(a) => a.kind = "nul"
    <3>1. head(a).nul = (a.kind = "nul")
      BY DEF head
    <3> QED
      BY <1>4, <3>1 DEF parse_fails
  <2>3. RefusalFits("error", additional)
    BY <1>3, <2>2, Statuses
  <2> QED
    BY <2>1, <2>3 DEF HeadHandled, k
<1>5. CASE ~parse_fails(hd)
  <2> DEFINE r == [i |-> k, opts |-> parse_request(parsed.opts, hd)]
             method == request_option(r.opts, request_method, "")
  <2>1. /\ parsed' = r
        /\ \/ method # "POST" /\ refuse(k, "bad", additional)
           \/ method = "POST" /\ uri(r.opts) \in {"analyse", "item"} /\ take_body(r, additional)
           \/ method = "POST" /\ uri(r.opts) \notin {"analyse", "item"}
              /\ refuse(k, "not_found", additional)
    BY <1>1, <1>5 DEF read_head_handler
  <2>2. CASE method # "POST" /\ refuse(k, "bad", additional)
    <3>1. hd = head(a) => a.kind \in {"get", "colon"}
      BY <1>2, <1>5, <2>2, CleanHead
    <3>2. RefusalFits("bad", additional)
      BY <1>3, <3>1, Statuses
    <3> QED
      BY <2>2, <3>2 DEF HeadHandled, k
  <2>3. ASSUME method = "POST"
        PROVE  /\ a.kind \notin {"get", "colon"} /\ r.i = k
               /\ uri(r.opts) = IF a.kind \in {"item", "missing"} THEN a.kind ELSE "analyse"
               /\ length_option(r.opts) = a.len
    BY <1>1, <1>2, <1>5, <2>3, ParsedPost
  <2>4. CASE method = "POST" /\ uri(r.opts) \notin {"analyse", "item"}
             /\ refuse(k, "not_found", additional)
    <3>1. a.kind = "missing"
      BY <2>3, <2>4
    <3>2. RefusalFits("not_found", additional)
      BY <1>3, <3>1, Statuses
    <3> QED
      BY <2>4, <3>2 DEF HeadHandled, k
  <2>5. CASE method = "POST" /\ uri(r.opts) \in {"analyse", "item"} /\ take_body(r, additional)
    <3>1. BodyOf(r)
      <4>1. a.kind \in {"analyse", "slash", "item"}
        <5>1. a.kind \in {"analyse", "slash", "item", "missing", "colon", "nul", "get"}
          BY <1>2 DEF Requests
        <5>2. a.kind # "nul"
          <6>1. head(a).nul = (a.kind = "nul")
            BY DEF head
          <6>2. \A h : h \in spoiled(head(a)) => h.nul = TRUE \/ h.nul = head(a).nul
            BY DEF spoiled, head
          <6> QED
            BY <1>1, <1>5, <6>1, <6>2 DEF parse_fails
        <5>3. a.kind # "missing" /\ a.kind \notin {"get", "colon"}
          <6>1. uri(r.opts) # "missing"
            BY <2>5
          <6> QED
            BY <2>3, <2>5, <6>1
        <5> QED
          BY <5>1, <5>2, <5>3
      <4> QED
        BY <2>3, <2>5, <4>1 DEF BodyOf, uri_of, k, a
    <3> HIDE DEF r
    <3> QED
      BY <2>1, <2>5, <3>1 DEF HeadHandled
  <2> QED
    BY <2>1, <2>2, <2>4, <2>5
<1> QED
  BY <1>4, <1>5

------------------------------------------------------------------------------
(* Reading.                                                                *)

USE DEF clientVars, readVars, replyVars

\* What is known of a client stays true while nothing passes between it and the object.
LEMMA Kept ==
  ASSUME UNCHANGED clientVars
  PROVE  /\ \A j : Replied(j)' <=> Replied(j)
         /\ \A j : BodyIsLeft(j)' <=> BodyIsLeft(j)
         /\ \A status, i : StatusFits(status, i)' <=> StatusFits(status, i)
         /\ Answered' <=> Answered
         /\ GotInv' <=> GotInv
<1>1. \A j : Replied(j)' <=> Replied(j)
  BY DEF Replied
<1>2. \A j : BodyIsLeft(j)' <=> BodyIsLeft(j)
  BY DEF BodyIsLeft
<1>3. \A status, i : StatusFits(status, i)' <=> StatusFits(status, i)
  BY DEF StatusFits, BodyIsLeft
<1>4. Answered' <=> Answered
  BY DEF Answered
<1>5. GotInv' <=> GotInv
  BY DEF GotInv, RepliesInOrder, BodyIsLeft
<1> QED
  BY <1>1, <1>2, <1>3, <1>4, <1>5

\* Pieces of a body hold no head.
LEMMA NoHeadInRun ==
  ASSUME NEW s \in Seq(Byte), NEW i, NEW n \in Nat \ {0}, Run(s, i, n)
  PROVE  ~HasHead(s)
<1> SUFFICES ASSUME NEW j \in DOMAIN s, IsHead(s[j])
             PROVE  FALSE
  BY DEF HasHead
<1>1. j \in Nat /\ j > 0
  BY LenProperties
<1>2. s[j].part = n + j - 1
  BY DEF Run, piece
<1> QED
  BY <1>1, <1>2 DEF IsHead

\* What comes with the head and what is still to come hold no head.
LEMMA NothingUnread ==
  ASSUME NEW hd, NEW additional, HeadTaken(hd, additional)
  PROVE  ~HasHead(additional) /\ ~HasHead(net')
<1>1. ~HasHead(additional)
  <2>1. additional \in Seq(Byte) /\ Run(additional, Len(asked), 1)
    BY DEF HeadTaken
  <2> QED
    BY <2>1, NoHeadInRun
<1>2. ~HasHead(net')
  <2> DEFINE rest == net'
  <2>1. /\ rest \in Seq(Byte) /\ Run(rest, Len(asked), Len(additional) + 1)
        /\ Len(additional) + 1 \in Nat \ {0}
    BY LenProperties DEF HeadTaken
  <2> HIDE DEF rest
  <2>2. ~HasHead(rest)
    BY <2>1, NoHeadInRun
  <2> QED
    BY <2>2 DEF rest
<1> QED
  BY <1>1, <1>2

\* All pieces of a body, in order, are the body.
LEMMA WholeBody ==
  ASSUME client \in 1..MaxClients, NEW r \in Requests, NEW i \in 1..MaxRequests,
         NEW s \in Seq(Byte), Len(s) = r.len, Run(s, i, 1)
  PROVE  s = Tail(bytes(i, r))
<1> DEFINE all == bytes(i, r)
<1>1. all \in Seq(Byte)
  BY BytesType
<1>2. r.len \in Nat
  BY LenType
<1>3. DOMAIN all = 1..(r.len + 1) /\ \A n \in 1..(r.len + 1) : all[n] = piece(i, n - 1)
  BY DEF bytes, piece
<1> HIDE DEF all
<1>4. Len(all) = r.len + 1 /\ all # <<>>
  <2>1. Len(all) \in Nat /\ DOMAIN all = 1..Len(all)
    BY <1>1, LenProperties
  <2>2. Len(all) = r.len + 1
    BY <1>2, <1>3, <2>1
  <2> QED
    BY <1>2, <2>2
<1>5. /\ Tail(all) \in Seq(Byte) /\ Len(Tail(all)) = r.len
      /\ \A n \in 1..r.len : Tail(all)[n] = all[n + 1]
  <2>1. /\ Tail(all) \in Seq(Byte) /\ Len(Tail(all)) = Len(all) - 1
        /\ \A n \in 1..Len(Tail(all)) : Tail(all)[n] = all[n + 1]
    BY <1>1, <1>4, HeadTailProperties
  <2> QED
    BY <1>2, <1>4, <2>1
<1>6. ASSUME NEW n \in 1..r.len
      PROVE  s[n] = Tail(all)[n]
  <2>1. n \in DOMAIN s /\ n + 1 \in 1..(r.len + 1) /\ 1 + n - 1 = n /\ n + 1 - 1 = n
    BY <1>2, LenProperties
  <2>2. s[n] = piece(i, n)
    BY <2>1 DEF Run
  <2>3. all[n + 1] = piece(i, n)
    BY <1>2, <1>3, <2>1
  <2> QED
    BY <1>5, <2>2, <2>3
<1>7. s = Tail(all)
  BY <1>5, <1>6, SeqEqual
<1> QED
  BY <1>7 DEF all

\* A reply has been filled in for the request asked last, and nothing of it is left over.
LEMMA FilledDue ==
  ASSUME asked # <<>>, NEW status \in Status, fill_for_http(Len(asked), status),
         StatusFits(status, Len(asked)), UNCHANGED clientVars
  PROVE  ReplyIsDue' /\ w_size' = (p_write.length + 1)' /\ handler' = "write"
<1> PICK n \in contents(status) :
      p_write' = reply_generate(Len(asked), status, n) /\ w_size' = n + 1
  BY DEF fill_for_http
<1>1. n \in 1..MaxContent
  BY BoundsAssumption DEF contents
<1>2. p_write' = [i |-> Len(asked), status |-> status, length |-> n]
  BY DEF reply_generate
<1>3. StatusFits(status, Len(asked))'
  BY Kept
<1>4. p_write'.status = status /\ p_write'.length = n
  BY <1>2
<1> QED
  BY <1>1, <1>2, <1>3, <1>4 DEF ReplyIsDue, fill_for_http

LEMMA ProcessDone ==
  ASSUME SafeInv, asked # <<>>, Unread \/ read_op = "body", handler = "none",
         NEW r, BodyOf(r),
         NEW body \in Seq(Byte), Run(body, Len(asked), 1), Len(body) = asked[Len(asked)].len,
         process(r, body), request' = <<>>, net' = <<>>, UNCHANGED <<clientVars, writes, fault>>
  PROVE  ExchangeInv'
<1> DEFINE k == Len(asked)
           a == asked[k]
<1>1. k \in 1..MaxRequests /\ a \in Requests /\ client \in 1..MaxClients
  BY LastRequest DEF SafeInv, FrontInv, BytesInv
<1>2. /\ Replied(k - 1) /\ fault = "none" /\ GotInv /\ ServedInv
      /\ sock = "open" => stats = "working" /\ AllWritten(writes)
  BY DEF SafeInv, ExchangeInv, StreamInv, OpenInv
<1>3. read_op' = "none" /\ ~HasHead(<<>>)
  BY DEF process, HasHead
<1>4. StreamInv' /\ BodyInv'
  BY <1>3 DEF StreamInv, BodyInv, Unread, HasHead
<1>5. body = Tail(bytes(k, a))
  BY <1>1, WholeBody
<1>6. ServedInv'
  <2> DEFINE e == [i |-> k, body |-> body]
             S == [i : 1..MaxRequests, body : Seq(Byte)]
  <2>1. e \in S /\ r.i = k /\ served \in Seq(S)
    BY <1>1, <1>2 DEF BodyOf, ServedInv
  <2>2. CASE served' = served
    BY <1>2, <2>2 DEF ServedInv, BodyIsItsOwn, bytes
  <2>3. CASE served' = Append(served, e)
    <3>1. /\ served' \in Seq(S) /\ Len(served') = Len(served) + 1
          /\ \A n \in 1..Len(served) : served'[n] = served[n]
          /\ served'[Len(served) + 1] = e
      BY <2>1, <2>3, AppendProperties
    <3>2. /\ DOMAIN served' = 1..(Len(served) + 1) /\ DOMAIN served = 1..Len(served)
          /\ Len(served) \in Nat
      BY <2>1, <3>1, LenProperties
    <3>3. ASSUME NEW n \in DOMAIN served'
          PROVE  /\ served'[n].i <= k
                 /\ served'[n].body = Tail(bytes(served'[n].i, asked[served'[n].i]))
      <4>1. CASE n \in DOMAIN served
        BY <1>2, <3>1, <3>2, <4>1 DEF ServedInv, BodyIsItsOwn
      <4>2. CASE n = Len(served) + 1
        BY <1>1, <1>5, <3>1, <4>2
      <4> QED
        BY <3>2, <4>1, <4>2
    <3> QED
      BY <3>1, <3>3 DEF ServedInv, BodyIsItsOwn, bytes
  <2> QED
    BY <2>1, <2>2, <2>3 DEF process
<1>7. OpenInv'
  <2> SUFFICES ASSUME sock' = "open"
               PROVE  OpenInv'
    BY DEF OpenInv
  <2>1. body # <<>> /\ UNCHANGED <<stats, sock>>
    BY DEF process, conn_error
  <2>2. PICK status \in {"ok", "error", "not_found"} :
          fill_for_http(k, status) /\ status \in statuses(a.kind)
    <3>1. r.i = k /\ a.kind \in {"analyse", "slash", "item"} /\ uri(r.opts) = uri_of(a.kind)
      BY DEF BodyOf
    <3>2. CASE uri(r.opts) = "analyse"
      BY <2>1, <3>1, <3>2, Statuses DEF process, uri_of
    <3>3. CASE uri(r.opts) # "analyse"
      BY <2>1, <3>1, <3>3, Statuses DEF process, uri_of
    <3> QED
      BY <3>2, <3>3
  <2>3. StatusFits(status, k)
    BY <2>2 DEF StatusFits
  <2>4. ReplyIsDue' /\ w_size' = (p_write.length + 1)' /\ handler' = "write"
    <3>1. status \in Status
      BY DEF Status
    <3> QED
      BY <2>2, <2>3, <3>1, FilledDue
  <2>5. Replied(Len(asked) - 1)'
    BY <1>2, Kept
  <2>6. AllWritten(writes)' /\ stats' = "working"
    BY <1>2, <2>1 DEF AllWritten
  <2>7. LeftInv' /\ ~Unread'
    BY DEF LeftInv, Unread, HasHead
  <2> QED
    BY <1>3, <2>4, <2>5, <2>6, <2>7 DEF OpenInv, AllWritten
<1> QED
  BY <1>2, <1>4, <1>6, <1>7, Kept DEF ExchangeInv

LEMMA ReadHeadExchange ==
  ASSUME SafeInv, ReadHead
  PROVE  ExchangeInv'
<1> DEFINE k == Len(asked)
<1>1. PICK hd, additional : HeadTaken(hd, additional)
  BY HeadRead
<1>2. /\ asked # <<>> /\ Unread /\ additional \in Seq(Byte) /\ net' \in Seq(Byte)
      /\ Run(additional, k, 1) /\ Run(net', k, Len(additional) + 1)
      /\ Len(additional) + Len(net') = asked[k].len
  BY <1>1 DEF HeadTaken
<1>3. HeadHandled(additional)
  BY <1>1, HeadHandling
<1>4. handler = "none" /\ UNCHANGED <<clientVars, writes>>
  BY DEF ReadHead
<1>5. /\ Replied(k - 1) /\ fault = "none" /\ GotInv /\ ServedInv
      /\ sock = "open" => stats = "working" /\ AllWritten(writes)
  BY <1>2 DEF SafeInv, ExchangeInv, StreamInv, OpenInv
<1>6. Len(additional) \in Nat /\ Len(net') \in Nat
  BY <1>2, LenProperties
<1>7. ~HasHead(additional) /\ ~HasHead(net') /\ ~HasHead(<<>>)
  BY <1>1, NothingUnread DEF HasHead
<1>8. \A b \in DOMAIN net' : ~IsHead(net'[b])
  BY <1>7 DEF HasHead
<1>9. ~Unread' /\ Replied(Len(asked) - 1)' /\ GotInv'
  BY <1>4, <1>5, <1>8, Kept DEF Unread, HasHead, IsHead
<1>10. ASSUME served' = served
       PROVE  ServedInv'
  BY <1>4, <1>5, <1>10 DEF ServedInv, BodyIsItsOwn, bytes
<1>11. ASSUME NEW status \in {"error", "bad", "not_found"}, NEW left \in {<<>>, additional},
              refuse(k, status, left), RefusalFits(status, additional)
       PROVE  ExchangeInv'
  <2>1. /\ request' = left /\ read_op' = "none" /\ UNCHANGED <<stats, sock, served, fault>>
        /\ fill_for_http(k, status) /\ handler' = "write"
    BY <1>11 DEF refuse, fill_for_http
  <2>2. ~HasHead(request)'
    BY <1>7, <2>1 DEF HasHead
  <2>3. StreamInv' /\ BodyInv'
    BY <1>8, <1>9, <2>1, <2>2 DEF StreamInv, BodyInv, IsHead
  <2>4. ASSUME sock' = "open"
        PROVE  OpenInv'
    <3>1. /\ StatusFits(status, k)
          /\ additional # <<>> \/ net' # <<>> => \E j \in 1..k : BodyIsLeft(j)
      BY <1>11, <2>1, <2>4 DEF RefusalFits
    <3>2. ReplyIsDue' /\ w_size' = (p_write.length + 1)'
      <4>1. status \in Status
        BY DEF Status
      <4> QED
        BY <1>2, <1>4, <2>1, <3>1, <4>1, FilledDue
    <3>3. LeftInv'
      <4>1. request' # <<>> \/ net' # <<>> => \E j \in 1..k : BodyIsLeft(j)'
        BY <1>4, <2>1, <3>1, Kept
      <4> QED
        BY <1>4, <1>8, <4>1 DEF LeftInv, IsHead, BodyIsLeft
    <3>4. stats' = "working" /\ AllWritten(writes)'
      BY <1>4, <1>5, <2>1, <2>4 DEF AllWritten
    <3> QED
      BY <1>9, <2>1, <3>2, <3>3, <3>4 DEF OpenInv, AllWritten
  <2> QED
    BY <1>5, <1>9, <1>10, <2>1, <2>3, <2>4 DEF ExchangeInv, OpenInv
<1>12. ASSUME NEW r, BodyOf(r), parsed' = r, take_body(r, additional)
       PROVE  ExchangeInv'
  <2>1. length_option(r.opts) = asked[k].len /\ request' = <<>> /\ asked[k].len \in Nat
    BY <1>2, <1>12, LastRequest DEF BodyOf, take_body
  <2>2. ~(Len(additional) > asked[k].len)
    BY <1>2, <1>6, <2>1
  <2>3. CASE Len(additional) = asked[k].len /\ process(r, additional) /\ UNCHANGED fault
    <3>1. net' = <<>>
      BY <1>2, <1>6, <2>3, EmptySeq
    <3> QED
      BY <1>2, <1>4, <1>12, <2>1, <2>3, <3>1, ProcessDone
  <2>4. CASE /\ Len(additional) < asked[k].len /\ p_buffer' = additional
             /\ read_op' = IF stats = "working" THEN "body" ELSE "none"
             /\ UNCHANGED <<handler, stats, sock, served, fault>>
    <3>1. StreamInv'
      BY <1>2, <1>4, <1>8, <1>9, <2>1, <2>4 DEF StreamInv, HasHead, IsHead
    <3>2. BodyInv'
      <4>1. BodyOf(parsed)'
        BY <1>4, <1>12 DEF BodyOf
      <4>2. Run(p_buffer, Len(asked), 1)' /\ Run(net, Len(asked), Len(p_buffer) + 1)'
        BY <1>2, <1>4, <2>4 DEF Run, piece
      <4> QED
        BY <1>2, <1>4, <2>1, <2>4, <4>1, <4>2 DEF BodyInv
    <3>3. ASSUME sock' = "open"
          PROVE  OpenInv'
      <4>1. stats' = "working" /\ read_op' = "body" /\ handler' = "none" /\ AllWritten(writes)'
        BY <1>4, <1>5, <2>4, <3>3 DEF AllWritten
      <4>2. LeftInv'
        BY <1>8, <4>1 DEF LeftInv, IsHead
      <4> QED
        BY <1>9, <4>1, <4>2 DEF OpenInv, AllWritten
    <3> QED
      BY <1>5, <1>9, <1>10, <2>4, <3>1, <3>2, <3>3 DEF ExchangeInv, OpenInv
  <2> QED
    BY <1>12, <2>1, <2>2, <2>3, <2>4 DEF take_body
<1> QED
  BY <1>3, <1>11, <1>12 DEF HeadHandled

\* read_body_handler gets the rest of the body, and that is all that has been sent.
LEMMA BodyRead ==
  ASSUME SafeInv, ReadBody
  PROVE  net' = <<>> /\ process(parsed, p_buffer \o net)
<1> DEFINE need == length_option(parsed.opts) - Len(p_buffer)
<1>1. /\ net' = SubSeq(net, need + 1, Len(net))
      /\ process(parsed, body_read(SubSeq(net, 1, need)))
      /\ BodyOf(parsed) /\ Len(p_buffer) + Len(net) = asked[Len(asked)].len
  BY DEF ReadBody, SafeInv, ExchangeInv, BodyInv
<1>2. /\ net \in Seq(Byte) /\ Len(net) \in Nat /\ Len(p_buffer) \in Nat
  BY DEF SafeInv, FrontInv, BytesInv
<1>3. need = Len(net)
  BY <1>1, <1>2 DEF BodyOf
<1>4. SubSeq(net, 1, Len(net)) = net /\ SubSeq(net, Len(net) + 1, Len(net)) = <<>>
  BY <1>2, SubSeqFull, SubSeqEmpty
<1> QED
  BY <1>1, <1>3, <1>4 DEF body_read

LEMMA ReadBodyExchange ==
  ASSUME SafeInv, ReadBody
  PROVE  ExchangeInv'
<1> DEFINE k == Len(asked)
<1>1. /\ read_op = "body" /\ handler = "none"
      /\ UNCHANGED <<clientVars, request, parsed, p_size, writes, fault>>
  BY DEF ReadBody
<1>2. /\ BodyOf(parsed) /\ request = <<>> /\ asked # <<>>
      /\ Len(p_buffer) + Len(net) = asked[k].len
      /\ Run(p_buffer, k, 1) /\ Run(net, k, Len(p_buffer) + 1)
  BY <1>1 DEF SafeInv, ExchangeInv, BodyInv, StreamInv
<1>3. /\ net \in Seq(Byte) /\ p_buffer \in Seq(Byte) /\ Len(net) \in Nat /\ Len(p_buffer) \in Nat
  BY DEF SafeInv, FrontInv, BytesInv
<1>6. net' = <<>> /\ request' = <<>>
  BY <1>1, <1>2, BodyRead
<1> DEFINE body == p_buffer \o net
<1>7. /\ body \in Seq(Byte) /\ Len(body) = asked[k].len
      /\ \A j \in 1..(Len(p_buffer) + Len(net)) :
           body[j] = IF j <= Len(p_buffer) THEN p_buffer[j] ELSE net[j - Len(p_buffer)]
  BY <1>2, <1>3, ConcatProperties
<1> HIDE DEF body
<1>8. Run(body, k, 1)
  <2> SUFFICES ASSUME NEW j \in DOMAIN body
               PROVE  body[j] = piece(k, 1 + j - 1)
    BY DEF Run
  <2>1. j \in 1..(Len(p_buffer) + Len(net)) /\ j \in Nat
    BY <1>2, <1>3, <1>7, LenProperties
  <2>2. CASE j <= Len(p_buffer)
    <3>1. j \in DOMAIN p_buffer
      BY <1>3, <2>1, <2>2, LenProperties
    <3> QED
      BY <1>2, <1>7, <2>1, <2>2, <3>1 DEF Run
  <2>3. CASE ~(j <= Len(p_buffer))
    <3> DEFINE i == j - Len(p_buffer)
    <3>1. i \in DOMAIN net /\ Len(p_buffer) + 1 + i - 1 = 1 + j - 1
      BY <1>3, <2>1, <2>3, LenProperties
    <3>2. body[j] = net[i]
      BY <1>7, <2>1, <2>3
    <3> HIDE DEF i
    <3>3. net[i] = piece(k, Len(p_buffer) + 1 + i - 1)
      BY <1>2, <3>1 DEF Run
    <3> QED
      BY <3>1, <3>2, <3>3
  <2> QED
    BY <2>2, <2>3
<1>9. process(parsed, body)
  BY BodyRead DEF body
<1> QED
  BY <1>1, <1>2, <1>6, <1>7, <1>8, <1>9, ProcessDone

------------------------------------------------------------------------------
(* The client.                                                             *)

\* While the reply to its last request is due the client does not send.
LEMMA Waiting ==
  ASSUME SafeInv, asked # <<>>, Replied(Len(asked) - 1)
  PROVE  ~Answered
<1>1. Len(asked) \in Nat
  BY DEF SafeInv, FrontInv, BytesInv
<1>2. got # <<>> => Last(got).i = Len(asked) - 1
  BY DEF Replied
<1> QED
  BY <1>1, <1>2 DEF Answered

\* What the object is about when the client may send.
LEMMA MaySend ==
  ASSUME SafeInv, Answered
  PROVE  /\ ~Unread /\ read_op \notin {"body", "aborted"} /\ handler # "write"
         /\ AllWritten(writes) /\ Replied(Len(asked))
<1>1. ~(Unread \/ read_op = "body")
  <2> SUFFICES ASSUME Unread \/ read_op = "body"
               PROVE  FALSE
    OBVIOUS
  <2>1. asked # <<>> /\ Replied(Len(asked) - 1)
    BY DEF SafeInv, ExchangeInv, StreamInv
  <2> QED
    BY <2>1, Waiting
<1>2. AllWritten(writes) /\ handler # "write" /\ read_op # "aborted"
  BY DEF SafeInv, WaitInv
<1>3. Replied(Len(asked))
  <2>1. CASE asked = <<>>
    <3>1. Len(asked) = 0 /\ DOMAIN asked = {}
      BY <2>1
    <3>2. DOMAIN got = {} /\ got \in Seq(Part)
      BY <3>1 DEF SafeInv, ExchangeInv, GotInv, RepliesInOrder
    <3>3. got = <<>>
      BY <3>2, EmptySeq, LenProperties
    <3> QED
      BY <3>1, <3>3 DEF Replied
  <2>2. CASE asked # <<>>
    BY <2>2 DEF Answered, Replied
  <2> QED
    BY <2>1, <2>2
<1> QED
  BY <1>1, <1>2, <1>3

LEMMA ClientSendsExchange ==
  ASSUME SafeInv, ClientSends
  PROVE  ExchangeInv' /\ WaitInv'
<1> DEFINE k == Len(asked)
           m == Len(net)
<1>1. PICK r \in Requests : asked' = Append(asked, r) /\ net' = net \o bytes(k + 1, r)
  BY DEF ClientSends
<1>2. /\ ~Unread /\ read_op \notin {"body", "aborted"} /\ handler # "write"
      /\ AllWritten(writes) /\ Replied(k)
  BY MaySend DEF ClientSends
<1>3. /\ asked \in Seq(Requests) /\ net \in Seq(Byte) /\ request \in Seq(Byte)
      /\ k \in Nat /\ m \in Nat /\ k + 1 \in 1..MaxRequests /\ client \in 1..MaxClients
  <2>1. /\ asked \in Seq(Requests) /\ net \in Seq(Byte) /\ request \in Seq(Byte)
        /\ k \in Nat /\ m \in Nat /\ client \in 1..MaxClients
    BY DEF SafeInv, FrontInv, BytesInv
  <2>2. k < MaxRequests
    BY DEF ClientSends
  <2> QED
    BY <2>1, <2>2, BoundsAssumption
<1>4. UNCHANGED <<client, got, read_op, request, parsed, p_buffer, writes, sock, stats,
                  handler, served, fault, p_write, w_size>>
  BY DEF ClientSends
<1>5. /\ asked' \in Seq(Requests) /\ Len(asked') = k + 1 /\ asked' # <<>>
      /\ \A j \in 1..k : asked'[j] = asked[j]
      /\ asked'[k + 1] = r
  <2>1. /\ asked' \in Seq(Requests) /\ Len(asked') = k + 1
        /\ \A j \in 1..k : asked'[j] = asked[j]
        /\ asked'[k + 1] = r
    BY <1>1, <1>3, AppendProperties
  <2> QED
    BY <1>3, <2>1, EmptySeq
<1>6. \A j \in 1..k : BodyIsLeft(j)' <=> BodyIsLeft(j)
  BY <1>5 DEF BodyIsLeft
<1>7. DOMAIN asked = 1..k /\ DOMAIN asked' = 1..(k + 1)
  BY <1>3, <1>5, LenProperties
<1> DEFINE new == bytes(k + 1, r)
<1>8. /\ new \in Seq(Byte) /\ Len(new) = r.len + 1 /\ r.len \in Nat
      /\ \A n \in 1..(r.len + 1) : new[n] = piece(k + 1, n - 1)
  <2>1. new \in Seq(Byte)
    BY <1>3, BytesType
  <2>2. r.len \in Nat
    BY LenType
  <2>3. DOMAIN new = 1..(r.len + 1) /\ \A n \in 1..(r.len + 1) : new[n] = piece(k + 1, n - 1)
    BY DEF bytes, piece
  <2>4. Len(new) = r.len + 1
    BY <2>1, <2>2, <2>3, LenProperties
  <2> QED
    BY <2>1, <2>2, <2>3, <2>4
<1> HIDE DEF new
<1>9. /\ net' \in Seq(Byte) /\ Len(net') = m + r.len + 1 /\ DOMAIN net' = 1..(m + r.len + 1)
      /\ \A j \in 1..m : net'[j] = net[j]
      /\ \A j \in (m + 1)..(m + r.len + 1) : net'[j] = piece(k + 1, j - (m + 1))
  <2>1. /\ net' \in Seq(Byte) /\ Len(net') = m + Len(new)
        /\ \A j \in 1..(m + Len(new)) : net'[j] = IF j <= m THEN net[j] ELSE new[j - m]
    BY <1>1, <1>3, <1>8, ConcatProperties DEF new
  <2>2. ASSUME NEW j \in (m + 1)..(m + r.len + 1)
        PROVE  net'[j] = piece(k + 1, j - (m + 1))
    <3> DEFINE len == r.len
    <3>1. len \in Nat /\ m \in Nat /\ Len(new) = len + 1
      BY <1>3, <1>8
    <3>2. j \in (m + 1)..(m + len + 1)
      OBVIOUS
    <3> HIDE DEF len, m
    <3>3. ~(j <= m) /\ j \in 1..(m + Len(new)) /\ j - m \in 1..(len + 1)
          /\ j - m - 1 = j - (m + 1)
      BY <3>1, <3>2
    <3>4. net'[j] = new[j - m]
      BY <2>1, <3>3 DEF m
    <3>5. new[j - m] = piece(k + 1, j - m - 1)
      BY <1>8, <3>3 DEF len
    <3> QED
      BY <3>3, <3>4, <3>5 DEF m
  <2>3. Len(net') = m + r.len + 1
    BY <1>3, <1>8, <2>1
  <2>4. \A j \in 1..m : net'[j] = net[j]
    <3>1. \A j \in 1..m : j \in 1..(m + Len(new)) /\ j <= m
      BY <1>3, <1>8
    <3> QED
      BY <2>1, <3>1
  <2>5. DOMAIN net' = 1..(m + r.len + 1)
    BY <2>1, <2>3, LenProperties
  <2> QED
    BY <2>1, <2>2, <2>3, <2>4, <2>5
<1>10. ASSUME NEW b \in DOMAIN net', IsHead(net'[b])
       PROVE  b = m + 1
  <2>1. ~(b \in 1..m)
    BY <1>2, <1>3, <1>9, <1>10, LenProperties DEF Unread, HasHead
  <2>2. b \in (m + 1)..(m + r.len + 1) /\ b \in Nat
    BY <1>3, <1>8, <1>9, <2>1
  <2>3. net'[b] = piece(k + 1, b - (m + 1))
    BY <1>9, <2>2
  <2>4. net'[b].part = b - (m + 1)
    BY <2>3 DEF piece
  <2> QED
    BY <1>3, <1>10, <2>2, <2>4 DEF IsHead
<1>11. StreamInv'
  <2>1. ~HasHead(request)'
    BY <1>4 DEF SafeInv, ExchangeInv, StreamInv, HasHead, IsHead
  <2>2. ASSUME NEW b \in DOMAIN net', IsHead(net'[b])
        PROVE  /\ Len(net') - b = asked'[Len(asked')].len
               /\ \A j \in b..Len(net') : net'[j] = piece(Len(asked'), j - b)
    <3>1. b = m + 1
      BY <1>10, <2>2
    <3>2. Len(net') - b = r.len
      <4>1. r.len \in Nat /\ m \in Nat /\ Len(net') = m + r.len + 1
        BY <1>3, <1>8, <1>9
      <4>2. \A x, y \in Nat : x + y + 1 - (x + 1) = y
        OBVIOUS
      <4> HIDE DEF m
      <4>3. m + r.len + 1 - (m + 1) = r.len
        BY <4>1, <4>2
      <4> QED
        BY <3>1, <4>1, <4>3
    <3>2a. asked'[Len(asked')] = r
      BY <1>5
    <3>3. \A j \in b..Len(net') : net'[j] = piece(Len(asked'), j - b)
      BY <1>5, <1>9, <3>1
    <3> QED
      BY <3>2, <3>2a, <3>3
  <2>4. Len(asked') - 1 = k
    BY <1>3, <1>5
  <2>4a. Replied(Len(asked) - 1)'
    BY <1>2, <1>4, <2>4 DEF Replied
  <2>5. handler' # "none" => read_op' = "none"
    BY <1>4 DEF SafeInv, ExchangeInv, StreamInv
  <2> QED
    BY <1>4, <1>5, <2>1, <2>2, <2>4a, <2>5 DEF StreamInv, piece, IsHead
<1>12. BodyInv'
  BY <1>2, <1>4 DEF BodyInv
<1>13. ServedInv'
  <2>1. ServedInv
    BY DEF SafeInv, ExchangeInv
  <2>2. ASSUME NEW n \in DOMAIN served
        PROVE  /\ served[n].i <= k + 1
               /\ served[n].body = Tail(bytes(served[n].i, asked'[served[n].i]))
    <3>1. served[n] \in [i : 1..MaxRequests, body : Seq(Byte)]
      BY <2>1, ElementOfSeq, LenProperties DEF ServedInv
    <3>2. served[n].i \in 1..k /\ served[n].i <= k + 1
      BY <1>3, <2>1, <3>1 DEF ServedInv
    <3>3. asked'[served[n].i] = asked[served[n].i]
      BY <1>5, <3>2
    <3>4. served[n].body = Tail(bytes(served[n].i, asked[served[n].i]))
      BY <2>1 DEF ServedInv, BodyIsItsOwn
    <3> HIDE DEF k
    <3> QED
      BY <3>2, <3>3, <3>4
  <2> QED
    BY <1>4, <1>5, <2>1, <2>2 DEF ServedInv, BodyIsItsOwn, bytes
<1>14. GotInv'
  <2>1. GotInv
    BY DEF SafeInv, ExchangeInv
  <2>2. ASSUME NEW n \in DOMAIN got
        PROVE  /\ got[n].i \in DOMAIN asked'
               /\ StatusFits(got[n].status, got[n].i)'
    <3>1. got[n].i \in 1..k /\ StatusFits(got[n].status, got[n].i)
      BY <1>7, <2>1 DEF GotInv, RepliesInOrder, StatusFits
    <3>2. \A j \in 1..(got[n].i - 1) : j \in 1..k
      BY <1>3, <3>1
    <3> QED
      BY <1>3, <1>4, <1>5, <1>6, <1>7, <3>1, <3>2 DEF StatusFits
  <2> QED
    BY <1>4, <2>1, <2>2 DEF GotInv, RepliesInOrder, StatusFits
<1>15. OpenInv'
  <2> SUFFICES ASSUME sock' = "open"
               PROVE  OpenInv'
    BY DEF OpenInv
  <2>1. OpenInv /\ sock = "open"
    BY <1>4 DEF SafeInv, ExchangeInv
  <2>2. Unread'
    <3>1. m + 1 \in DOMAIN net' /\ net'[m + 1] = piece(k + 1, 0)
      <4>1. r.len \in Nat /\ m \in Nat
        BY <1>3, <1>8
      <4>2. /\ m + 1 \in 1..(m + r.len + 1) /\ m + 1 \in (m + 1)..(m + r.len + 1)
            /\ m + 1 - (m + 1) = 0
        BY <4>1
      <4>3. net'[m + 1] = piece(k + 1, m + 1 - (m + 1))
        BY <1>9, <4>2
      <4> QED
        BY <1>9, <4>2, <4>3
    <3> QED
      BY <3>1 DEF Unread, HasHead, IsHead, piece
  <2>3. LeftInv'
    <3>1. ASSUME NEW b \in DOMAIN net', IsHead(net'[b]), b > 1 \/ request # <<>>
          PROVE  \E j \in 1..(Len(asked') - 1) : BodyIsLeft(j)'
      <4>1. net # <<>> \/ request # <<>>
        <5>1. b = m + 1
          BY <1>10, <3>1
        <5> QED
          BY <1>3, <3>1, <5>1
      <4>2. \E j \in 1..k : BodyIsLeft(j)
        BY <1>2, <2>1, <4>1 DEF OpenInv, LeftInv
      <4> QED
        BY <1>3, <1>5, <1>6, <4>2
    <3> QED
      BY <1>4, <2>2, <3>1 DEF LeftInv, IsHead, BodyIsLeft
  <2>4. AllWritten(writes)'
    BY <1>2, <1>4 DEF AllWritten
  <2>5. \A j \in DOMAIN writes' : j < Len(writes') => writes'[j].done = writes'[j].size
    BY <1>4, <2>1 DEF OpenInv
  <2> QED
    BY <1>2, <1>4, <2>1, <2>2, <2>3, <2>4, <2>5 DEF OpenInv, AllWritten
<1>16. WaitInv'
  BY <1>2, <1>4 DEF WaitInv, AllWritten
<1>17. fault' = "none"
  BY <1>4 DEF SafeInv, ExchangeInv
<1> QED
  BY <1>11, <1>12, <1>13, <1>14, <1>15, <1>16, <1>17 DEF ExchangeInv

------------------------------------------------------------------------------
(* Writing, and what a shutdown leaves.                                    *)

\* A step in which nothing is read or handed over; of the object only what holds while
\* the socket is open has to be shown.
LEMMA NothingRead ==
  ASSUME SafeInv, UNCHANGED <<clientVars, net, served, fault>>,
         request' \in {request, <<>>},
         read_op' = "body" => UNCHANGED <<read_op, request, parsed, p_buffer>>,
         handler' # "none" => read_op' = "none",
         sock' = "open" => OpenInv'
  PROVE  ExchangeInv'
<1>1. StreamInv'
  <2>1. StreamInv
    BY DEF SafeInv, ExchangeInv
  <2>2. ~HasHead(request)'
    BY <2>1 DEF StreamInv, HasHead, IsHead
  <2>3. \A b \in DOMAIN net' : IsHead(net'[b]) =>
          /\ Len(net') - b = asked'[Len(asked')].len
          /\ \A j \in b..Len(net') : net'[j] = piece(Len(asked), j - b)'
    BY <2>1 DEF StreamInv, piece
  <2>4. Unread' \/ read_op' = "body" => asked # <<>> /\ Replied(Len(asked) - 1)
    BY <2>1 DEF StreamInv, Unread, HasHead, IsHead
  <2>5. Replied(Len(asked) - 1)' <=> Replied(Len(asked) - 1)
    BY DEF Replied
  <2> QED
    BY <2>2, <2>3, <2>4, <2>5 DEF StreamInv, IsHead
<1>2. BodyInv'
  <2> SUFFICES ASSUME read_op' = "body"
               PROVE  BodyInv'
    BY DEF BodyInv
  <2>1. UNCHANGED <<read_op, request, parsed, p_buffer, net, asked, client>> /\ BodyInv
    BY DEF SafeInv, ExchangeInv
  <2> QED
    BY <2>1 DEF BodyInv, BodyOf, Run, piece
<1>3. ServedInv'
  BY DEF SafeInv, ExchangeInv, ServedInv, BodyIsItsOwn, bytes
<1>4. GotInv' /\ fault' = "none"
  BY Kept DEF SafeInv, ExchangeInv
<1>5. OpenInv'
  BY DEF OpenInv
<1> QED
  BY <1>1, <1>2, <1>3, <1>4, <1>5 DEF ExchangeInv

\* What is left before a head stays what it is.
LEMMA LeftKept ==
  ASSUME LeftInv, UNCHANGED <<clientVars, net, request>>, read_op' = "body" <=> read_op = "body"
  PROVE  LeftInv' /\ (Unread' <=> Unread)
  BY DEF LeftInv, Unread, HasHead, IsHead, BodyIsLeft

\* The write in progress stays so while the kernel takes nothing of it.
LEMMA ProgressKept ==
  ASSUME UNCHANGED <<clientVars, writes, p_write>>
  PROVE  InProgress' <=> InProgress
  BY Kept DEF InProgress, ReplyIsDue, Replied, StatusFits, BodyIsLeft

\* What is left of complete writes is complete.
LEMMA TailWritten ==
  ASSUME SafeInv, writes # <<>>, AllWritten(writes)
  PROVE  AllWritten(Tail(writes))
<1>1. writes \in Seq(Write)
  BY DEF SafeInv, FrontInv, ReplyInv
<1>2. /\ Tail(writes) \in Seq(Write) /\ Len(Tail(writes)) = Len(writes) - 1
      /\ \A j \in 1..Len(Tail(writes)) : Tail(writes)[j] = writes[j + 1]
  BY <1>1, HeadTailProperties
<1>3. \A j \in DOMAIN Tail(writes) : j + 1 \in DOMAIN writes /\ Tail(writes)[j] = writes[j + 1]
  BY <1>1, <1>2, LenProperties
<1> QED
  BY <1>3 DEF AllWritten

\* Of the writes of an open socket only the last can take another part, and it is the one
\* that carries p_write_.
LEMMA OnlyLast ==
  ASSUME SafeInv, sock = "open", NEW j \in DOMAIN writes, writes[j].done < writes[j].size
  PROVE  /\ j = Len(writes) /\ InProgress
         /\ ~Unread /\ read_op \notin {"body", "aborted"} /\ handler # "write"
<1>1. writes \in Seq(Write) /\ OpenInv
  BY DEF SafeInv, FrontInv, ReplyInv, ExchangeInv
<1>2. writes[j] \in Write
  BY <1>1
<1>3. writes[j].done # writes[j].size
  BY <1>2 DEF Write
<1>4. ~AllWritten(writes)
  BY <1>3 DEF AllWritten
<1>5. /\ ~Unread /\ read_op \notin {"body", "aborted"} /\ handler # "write" /\ InProgress
      /\ \A i \in DOMAIN writes : i < Len(writes) => writes[i].done = writes[i].size
  BY <1>1, <1>4 DEF OpenInv
<1>6. DOMAIN writes = 1..Len(writes) /\ Len(writes) \in Nat
  BY <1>1
<1>7. ~(j < Len(writes))
  BY <1>3, <1>5
<1> QED
  BY <1>5, <1>6, <1>7

LEMMA ShutExchange ==
  ASSUME SafeInv, ReadError \/ ReadAborted \/ WriteAborted \/ WriteFail \/ Expire
  PROVE  ExchangeInv' /\ WaitInv'
<1>1. WaitInv /\ OpenInv /\ StreamInv
  BY DEF SafeInv, ExchangeInv
<1>2. UNCHANGED <<clientVars, net, served, fault>> /\ request' \in {request, <<>>}
  BY DEF ReadError, ReadAborted, WriteAborted, WriteFail, Expire
<1>3. (Unread' <=> Unread) /\ (Answered' <=> Answered)
  BY <1>2, Kept DEF Unread, HasHead, IsHead
<1>4. CASE ReadError
  <2>1. sock' = "shut" /\ read_op' = "none" /\ handler' = "none" /\ writes' = writes
    BY <1>4 DEF ReadError, conn_error
  <2> QED
    BY <1>1, <1>2, <1>3, <2>1, NothingRead DEF WaitInv, AllWritten
<1>5. CASE ReadAborted
  <2>1. read_op = "aborted" /\ sock' = sock /\ read_op' = "none" /\ writes' = writes
    BY <1>5 DEF ReadAborted
  <2>2. sock # "open"
    BY <1>1, <2>1 DEF OpenInv
  <2> QED
    BY <1>1, <1>2, <1>3, <2>1, <2>2, NothingRead DEF WaitInv, AllWritten
<1>6. CASE WriteAborted \/ WriteFail
  <2>1. /\ sock' = "shut" /\ handler' = "none" /\ writes # <<>> /\ writes' = Tail(writes)
        /\ handler = "none"
    BY <1>6 DEF WriteAborted, WriteFail, conn_error
  <2>2. AllWritten(writes) => AllWritten(writes)'
    BY <2>1, TailWritten DEF AllWritten
  <2>3. \/ UNCHANGED <<read_op, request, parsed, p_buffer>>
        \/ WriteFail /\ read_op' \in {read_op, "none", "aborted"}
    BY <1>6 DEF WriteAborted, WriteFail
  <2>4. ASSUME WriteFail
        PROVE  ~AllWritten(writes)
    <3>1. Head(writes).done < Head(writes).size /\ writes \in Seq(Write)
      BY <2>4 DEF WriteFail, SafeInv, FrontInv, ReplyInv
    <3>2. Head(writes) = writes[1] /\ 1 \in DOMAIN writes /\ writes[1] \in Write
      BY <2>1, <3>1, ElementOfSeq, EmptySeq, LenProperties
    <3>3. writes[1].done # writes[1].size
      BY <3>1, <3>2 DEF Write
    <3> QED
      BY <3>2, <3>3 DEF AllWritten
  <2>5. WriteFail => ~Unread /\ read_op # "body" /\ ~Answered
    BY <1>1, <2>4 DEF WaitInv
  <2>6. ExchangeInv'
    BY <1>2, <2>1, <2>3, <2>5, NothingRead
  <2>7. WaitInv'
    BY <1>1, <1>3, <2>1, <2>2, <2>3, <2>5 DEF WaitInv
  <2> QED
    BY <2>6, <2>7
<1>7. CASE Expire
  <2>1. sock' = "shut" /\ UNCHANGED <<handler, read_op, request, parsed, p_buffer, writes>>
    BY <1>7 DEF Expire
  <2> QED
    BY <1>1, <1>2, <1>3, <2>1, NothingRead DEF WaitInv, AllWritten, StreamInv
<1> QED
  BY <1>4, <1>5, <1>6, <1>7

LEMMA DoWriteExchange ==
  ASSUME SafeInv, DoWrite
  PROVE  ExchangeInv' /\ WaitInv'
<1>1. /\ handler = "write" /\ w_size > 0 /\ w_pos = 0 /\ w_size \in 1..(MaxContent + 1)
      /\ writes \in Seq(Write)
  BY DEF DoWrite, SafeInv, FrontInv, ReplyInv, ReplyDue
<1> DEFINE w == [from |-> 0, done |-> 0, size |-> w_size]
<1>2. /\ handler' = "start" /\ UNCHANGED <<fault, sock, stats, w_size, p_write>>
      /\ UNCHANGED <<clientVars, net, read_op, request, parsed, p_buffer, served>>
      /\ writes' = IF stats = "working" THEN Append(writes, w) ELSE writes
  BY <1>1 DEF DoWrite
<1>3. ~Unread /\ ~Answered /\ read_op = "none"
  BY <1>1 DEF SafeInv, WaitInv, ExchangeInv, StreamInv
<1>4. WaitInv'
  <2>1. ~Unread' /\ ~Answered'
    BY <1>2, <1>3, Kept DEF Unread, HasHead, IsHead
  <2> QED
    BY <1>2, <1>3, <2>1 DEF WaitInv
<1>5. ASSUME sock' = "open"
      PROVE  OpenInv'
  <2>1. /\ stats = "working" /\ AllWritten(writes) /\ ReplyIsDue /\ LeftInv
        /\ w_size = p_write.length + 1 /\ Replied(Len(asked) - 1)
    BY <1>1, <1>2, <1>5 DEF SafeInv, ExchangeInv, OpenInv
  <2>2. w \in Write
    BY <1>1 DEF Write
  <2>3. /\ writes' \in Seq(Write) /\ Len(writes') = Len(writes) + 1
        /\ \A j \in 1..Len(writes) : writes'[j] = writes[j]
        /\ writes'[Len(writes) + 1] = w
    BY <1>1, <1>2, <2>1, <2>2, AppendProperties
  <2>4. Len(writes) \in Nat /\ DOMAIN writes = 1..Len(writes) /\ DOMAIN writes' = 1..(Len(writes) + 1)
    BY <1>1, <2>3, LenProperties
  <2>5. \A j \in DOMAIN writes' : j < Len(writes') => writes'[j].done = writes'[j].size
    BY <2>1, <2>3, <2>4 DEF AllWritten
  <2>6. LeftInv' /\ ~Unread'
    BY <1>2, <1>3, <2>1, LeftKept
  <2>7. InProgress'
    <3>1. ReplyIsDue' /\ Replied(Len(asked) - 1)'
      BY <1>2, <2>1, Kept DEF ReplyIsDue, StatusFits, BodyIsLeft, Replied
    <3>2. writes' # <<>> /\ Last(writes') = w
      BY <2>3, <2>4, EmptySeq DEF Last
    <3>3. w.done = 0 /\ w.done < w.size /\ w.size = p_write'.length + 1
      BY <1>1, <1>2, <2>1
    <3> HIDE DEF w
    <3> QED
      BY <3>1, <3>2, <3>3 DEF InProgress
  <2> QED
    BY <1>2, <1>3, <2>1, <2>5, <2>6, <2>7 DEF OpenInv
<1>6. ExchangeInv'
  BY <1>2, <1>3, <1>5, NothingRead
<1> QED
  BY <1>4, <1>6

LEMMA StartExchange ==
  ASSUME SafeInv, Start \/ Rearm
  PROVE  ExchangeInv' /\ WaitInv'
<1>1. WaitInv /\ OpenInv /\ StreamInv
  BY DEF SafeInv, ExchangeInv
<1>2. /\ UNCHANGED <<clientVars, net, served, fault, request, parsed, p_write, writes, sock>>
      /\ handler \in {"start", "rearm"} /\ read_op = "none"
      /\ handler' \in {"rearm", "none"} /\ read_op' \in {"none", "head"}
      /\ handler' = "rearm" => read_op' = "none"
      /\ stats' = "working" \/ stats' = stats
      /\ handler' = "none" => read_op' = IF stats = "working" THEN "head" ELSE "none"
  BY <1>1 DEF Start, Rearm, StreamInv
<1>3. Answered' <=> Answered
  BY <1>2, Kept
<1>4. Unread' <=> Unread
  BY <1>2 DEF Unread, HasHead, IsHead
<1>5. WaitInv'
  BY <1>1, <1>2, <1>3, <1>4 DEF WaitInv, AllWritten
<1>6. ASSUME sock' = "open"
      PROVE  OpenInv'
  <2>1. /\ stats = "working" /\ LeftInv
        /\ \A j \in DOMAIN writes : j < Len(writes) => writes[j].done = writes[j].size
        /\ Unread => AllWritten(writes)
        /\ ~Unread => InProgress \/ (Answered /\ AllWritten(writes))
    BY <1>1, <1>2, <1>6 DEF OpenInv
  <2>2. LeftInv'
    BY <1>2, <2>1, LeftKept
  <2>3. InProgress' <=> InProgress
    BY <1>2, ProgressKept
  <2>4. stats' = "working" /\ read_op' \notin {"aborted", "body"} /\ handler' # "write"
        /\ (handler' = "none" => read_op' # "none")
    BY <1>2, <2>1
  <2>5. \A j \in DOMAIN writes' : j < Len(writes') => writes'[j].done = writes'[j].size
    BY <1>2, <2>1
  <2>6. AllWritten(writes)' <=> AllWritten(writes)
    BY <1>2 DEF AllWritten
  <2> QED
    BY <1>3, <1>4, <2>1, <2>2, <2>3, <2>4, <2>5, <2>6 DEF OpenInv, AllWritten
<1>7. ExchangeInv'
  BY <1>2, <1>6, NothingRead
<1> QED
  BY <1>5, <1>7

\* The part the kernel takes is the next one of the reply that is due.
LEMMA WriteSomeExchange ==
  ASSUME SafeInv, WriteSome
  PROVE  ExchangeInv' /\ WaitInv'
<1> DEFINE part(w) == [i |-> p_write.i, status |-> p_write.status, length |-> p_write.length,
                       part |-> w.done + 1, size |-> w.size]
           k == Len(asked)
<1>1. PICK j \in DOMAIN writes :
        /\ writes[j].done < writes[j].size
        /\ writes' = [writes EXCEPT ![j].done = @ + 1]
        /\ got' = Append(got, part(writes[j]))
  BY DEF WriteSome
<1>2. /\ sock = "open" /\ sock' = "open"
      /\ UNCHANGED <<client, asked, net, request, parsed, p_buffer, read_op, p_write, stats,
                     handler, w_size, served, fault>>
  BY DEF WriteSome
<1>3. /\ writes \in Seq(Write) /\ asked \in Seq(Requests) /\ k \in Nat
  BY DEF SafeInv, FrontInv, ReplyInv, BytesInv
<1>4. writes[j] \in Write /\ writes[j].done \in Nat /\ writes[j].size \in Nat
  <2>1. writes[j] \in Write
    BY <1>3
  <2> QED
    BY <2>1 DEF Write
<1>5. /\ OpenInv /\ StreamInv /\ ServedInv /\ GotInv /\ fault = "none"
  BY DEF SafeInv, ExchangeInv
<1>6. /\ ~Unread /\ read_op \notin {"body", "aborted"} /\ handler # "write" /\ InProgress
      /\ j = Len(writes)
  BY <1>1, <1>2, OnlyLast
<1>7. /\ ~Unread /\ read_op # "body" /\ handler # "write" /\ InProgress /\ LeftInv
      /\ stats = "working" /\ read_op # "aborted" /\ (handler = "none" => read_op # "none")
      /\ \A i \in DOMAIN writes : i < Len(writes) => writes[i].done = writes[i].size
  BY <1>2, <1>5, <1>6 DEF OpenInv
<1>8. j = Len(writes) /\ DOMAIN writes = 1..Len(writes) /\ Len(writes) \in Nat
  BY <1>3, <1>6
<1> DEFINE w == writes[j]
           e == part(w)
<1>9. /\ w.size = p_write.length + 1 /\ ReplyIsDue
      /\ IF w.done = 0 THEN Replied(k - 1)
         ELSE /\ got # <<>>
              /\ Last(got) = [i |-> p_write.i, status |-> p_write.status,
                              length |-> p_write.length, part |-> w.done, size |-> w.size]
  BY <1>7, <1>8 DEF InProgress, Last
<1>10. /\ p_write.i = k /\ p_write.status \in Status /\ p_write.length \in 1..MaxContent
       /\ StatusFits(p_write.status, k) /\ asked # <<>>
  BY <1>9 DEF ReplyIsDue
<1>11. k \in 1..k /\ k \in DOMAIN asked
  BY <1>3, <1>10, EmptySeq, LenProperties
<1>12. /\ w.done \in Nat /\ w.done < w.size /\ w.size \in Nat /\ p_write.length \in Nat
  BY <1>1, <1>4, <1>10, BoundsAssumption
<1> HIDE DEF w
<1>13. /\ e \in Part /\ e.i = k /\ e.status = p_write.status /\ e.length = p_write.length
       /\ e.part = w.done + 1 /\ e.size = w.size /\ e.size = e.length + 1
  BY <1>3, <1>9, <1>10, <1>12 DEF Part
<1>14. /\ got' \in Seq(Part) /\ Len(got') = Len(got) + 1 /\ Len(got) \in Nat
       /\ \A n \in 1..Len(got) : got'[n] = got[n]
       /\ got'[Len(got) + 1] = e
       /\ DOMAIN got = 1..Len(got) /\ DOMAIN got' = 1..(Len(got) + 1)
  <2>1. got \in Seq(Part) /\ got' = Append(got, e)
    BY <1>1, <1>5 DEF GotInv, w
  <2> HIDE DEF e
  <2> QED
    BY <1>13, <2>1, AppendProperties, LenProperties
<1>15. got' # <<>> /\ Last(got') = e
  BY <1>14, EmptySeq DEF Last
<1>16. /\ writes' \in Seq(Write) /\ Len(writes') = Len(writes) /\ DOMAIN writes' = DOMAIN writes
       /\ \A i \in DOMAIN writes : i # j => writes'[i] = writes[i]
       /\ writes'[j].done = w.done + 1 /\ writes'[j].size = w.size
  <2>1. [w EXCEPT !.done = @ + 1] \in Write
    BY <1>4 DEF Write, w
  <2>2. writes' = [writes EXCEPT ![j] = [w EXCEPT !.done = @ + 1]]
    BY <1>1 DEF w
  <2>3. writes' \in Seq(Write) /\ Len(writes') = Len(writes) /\ DOMAIN writes' = DOMAIN writes
    BY <1>3, <1>8, <2>1, <2>2, ExceptSeq, LenProperties
  <2>4. writes'[j] = [w EXCEPT !.done = @ + 1]
    BY <2>2
  <2>5. w \in Write
    BY <1>4 DEF w
  <2> QED
    BY <2>2, <2>3, <2>4, <2>5 DEF Write
<1> HIDE DEF e
<1>17. GotInv'
  <2>1. ASSUME NEW n \in DOMAIN got
        PROVE  /\ got'[n] = got[n] /\ (n # 1 => got'[n - 1] = got[n - 1])
               /\ n \in DOMAIN got'
    BY <1>14
  <2>2. ASSUME NEW n \in DOMAIN got
        PROVE  /\ got'[n].size = got'[n].length + 1
               /\ got'[n].i \in DOMAIN asked /\ StatusFits(got'[n].status, got'[n].i)
               /\ IF n = 1 \/ got'[n - 1].part = got'[n - 1].size
                  THEN got'[n].part = 1 /\ got'[n].i = IF n = 1 THEN 1 ELSE got'[n - 1].i + 1
                  ELSE got'[n] = [got'[n - 1] EXCEPT !.part = @ + 1]
    BY <1>5, <2>1 DEF GotInv, RepliesInOrder, StatusFits
  <2> DEFINE n == Len(got) + 1
  <2>3. IF n = 1 \/ got'[n - 1].part = got'[n - 1].size
        THEN e.part = 1 /\ e.i = IF n = 1 THEN 1 ELSE got'[n - 1].i + 1
        ELSE e = [got'[n - 1] EXCEPT !.part = @ + 1]
    <3>1. CASE got = <<>>
      <4>1. w.done = 0 /\ k - 1 = 0 /\ n = 1
        BY <1>9, <3>1 DEF Replied
      <4> QED
        BY <1>3, <1>13, <4>1
    <3>2. CASE got # <<>>
      <4>1. n # 1 /\ n - 1 = Len(got) /\ got'[n - 1] = Last(got) /\ Last(got) \in Part
            /\ Last(got).size = Last(got).length + 1
        <5>1. Len(got) # 0 /\ got \in Seq(Part)
          BY <1>5, <3>2, EmptySeq DEF GotInv
        <5>2. Len(got) \in 1..Len(got) /\ n - 1 = Len(got)
          BY <1>14, <5>1
        <5>3. got'[Len(got)] = got[Len(got)] /\ got[Len(got)] \in Part
          BY <1>14, <5>1, <5>2, ElementOfSeq
        <5>4. got[Len(got)].size = got[Len(got)].length + 1
          BY <1>5, <1>14, <5>2 DEF GotInv
        <5> QED
          BY <1>14, <5>1, <5>2, <5>3, <5>4 DEF Last
      <4>2. CASE w.done = 0
        <5>1. Last(got).i = k - 1 /\ Last(got).part = Last(got).length + 1
          BY <1>9, <3>2, <4>2 DEF Replied
        <5> HIDE DEF n
        <5> QED
          BY <1>3, <1>13, <4>1, <4>2, <5>1
      <4>3. CASE w.done # 0
        <5>1. Last(got) = [i |-> p_write.i, status |-> p_write.status,
                           length |-> p_write.length, part |-> w.done, size |-> w.size]
          BY <1>9, <4>3
        <5>2. Last(got).part # Last(got).size
          BY <1>12, <5>1
        <5>3. e = [Last(got) EXCEPT !.part = @ + 1]
          BY <5>1 DEF e, part
        <5> HIDE DEF n
        <5> QED
          BY <4>1, <5>2, <5>3
      <4> QED
        BY <4>2, <4>3
    <3> QED
      BY <3>1, <3>2
  <2>4. e.i \in DOMAIN asked /\ StatusFits(e.status, e.i)
    BY <1>10, <1>11, <1>13
  <2>5. ASSUME NEW m \in DOMAIN got'
        PROVE  /\ got'[m].size = got'[m].length + 1
               /\ got'[m].i \in DOMAIN asked /\ StatusFits(got'[m].status, got'[m].i)
               /\ IF m = 1 \/ got'[m - 1].part = got'[m - 1].size
                  THEN got'[m].part = 1 /\ got'[m].i = IF m = 1 THEN 1 ELSE got'[m - 1].i + 1
                  ELSE got'[m] = [got'[m - 1] EXCEPT !.part = @ + 1]
    <3>1. m \in DOMAIN got \/ m = n
      BY <1>14
    <3>2. got'[n] = e
      BY <1>14
    <3> HIDE DEF n
    <3> QED
      BY <1>13, <2>2, <2>3, <2>4, <3>1, <3>2
  <2> QED
    BY <1>2, <1>14, <2>5 DEF GotInv, RepliesInOrder, StatusFits, BodyIsLeft
<1>18. ~Unread' /\ LeftInv'
  BY <1>2, <1>7 DEF LeftInv, Unread, HasHead, IsHead, BodyIsLeft
<1>19. StreamInv' /\ BodyInv' /\ ServedInv'
  <2>1. StreamInv'
    BY <1>2, <1>5, <1>7, <1>18 DEF StreamInv, HasHead, IsHead, piece
  <2>2. BodyInv'
    BY <1>2, <1>7 DEF BodyInv
  <2>3. ServedInv'
    BY <1>2, <1>5 DEF ServedInv, BodyIsItsOwn, bytes
  <2> QED
    BY <2>1, <2>2, <2>3
<1>20. \A i \in DOMAIN writes' : i < Len(writes') => writes'[i].done = writes'[i].size
  BY <1>7, <1>8, <1>16
<1>21. IF w.done + 1 = w.size THEN Answered' /\ AllWritten(writes)'
       ELSE InProgress' /\ ~Answered'
  <2>1. CASE w.done + 1 = w.size
    <3>1. AllWritten(writes)'
      BY <1>7, <1>8, <1>16, <2>1 DEF AllWritten
    <3>2. Answered'
      BY <1>2, <1>13, <1>15, <2>1 DEF Answered
    <3> QED
      BY <2>1, <3>1, <3>2
  <2>2. CASE w.done + 1 # w.size
    <3>1. ~Answered'
      BY <1>2, <1>9, <1>10, <1>13, <1>15, <2>2 DEF Answered
    <3>2. writes' # <<>> /\ Last(writes') = writes'[j]
      BY <1>8, <1>16, EmptySeq DEF Last
    <3>3. ReplyIsDue'
      BY <1>2, <1>9 DEF ReplyIsDue, StatusFits, BodyIsLeft
    <3>4. e = [i |-> p_write.i, status |-> p_write.status, length |-> p_write.length,
               part |-> w.done + 1, size |-> w.size]
      BY DEF e, part
    <3>5. InProgress'
      BY <1>2, <1>9, <1>12, <1>15, <1>16, <2>2, <3>2, <3>3, <3>4 DEF InProgress
    <3> QED
      BY <2>2, <3>1, <3>5
  <2> QED
    BY <2>1, <2>2
<1>22. OpenInv'
  BY <1>2, <1>7, <1>18, <1>20, <1>21 DEF OpenInv
<1>23. WaitInv'
  BY <1>2, <1>7, <1>18, <1>21 DEF WaitInv
<1> QED
  BY <1>2, <1>5, <1>17, <1>19, <1>22, <1>23 DEF ExchangeInv

\* A write whose handler runs is complete; what the others are doing stays.
LEMMA WriteDoneExchange ==
  ASSUME SafeInv, WriteDone
  PROVE  ExchangeInv' /\ WaitInv'
<1>1. /\ WaitInv /\ OpenInv /\ StreamInv /\ writes \in Seq(Write)
  BY DEF SafeInv, ExchangeInv, FrontInv, ReplyInv
<1>2. /\ handler = "none" /\ writes # <<>> /\ Head(writes).done = Head(writes).size
      /\ writes' = Tail(writes)
      /\ UNCHANGED <<clientVars, readVars, p_write, sock, stats, served, fault>>
      /\ handler' \in {handler, "more"}
  BY DEF WriteDone
<1>3. handler' = "none"
  <2>1. ReplyInv'
    BY WriteReply DEF SafeInv, FrontInv
  <2> QED
    BY <1>2, <2>1 DEF ReplyInv
<1>4. /\ Len(writes) \in Nat /\ DOMAIN writes = 1..Len(writes) /\ Head(writes) = writes[1]
      /\ writes' \in Seq(Write) /\ Len(writes') = Len(writes) - 1
      /\ DOMAIN writes' = 1..(Len(writes) - 1)
      /\ \A j \in 1..(Len(writes) - 1) : writes'[j] = writes[j + 1]
      /\ Len(writes) # 0
  <2>1. /\ Tail(writes) \in Seq(Write) /\ Len(Tail(writes)) = Len(writes) - 1
        /\ \A j \in 1..Len(Tail(writes)) : Tail(writes)[j] = writes[j + 1]
    BY <1>1, <1>2, HeadTailProperties
  <2> QED
    BY <1>1, <1>2, <2>1, EmptySeq, LenProperties
<1>5. AllWritten(writes) => AllWritten(writes)'
  BY <1>2, TailWritten DEF AllWritten
<1>6. (Unread' <=> Unread) /\ (Answered' <=> Answered)
  BY <1>2, Kept DEF Unread, HasHead, IsHead
<1>7. WaitInv'
  BY <1>1, <1>2, <1>3, <1>5, <1>6 DEF WaitInv
<1>8. ASSUME sock' = "open"
      PROVE  OpenInv'
  <2>1. /\ stats = "working" /\ read_op \notin {"aborted", "none"} /\ LeftInv
        /\ \A j \in DOMAIN writes : j < Len(writes) => writes[j].done = writes[j].size
        /\ Unread \/ read_op = "body" => AllWritten(writes)
        /\ ~Unread /\ read_op # "body" => InProgress \/ (Answered /\ AllWritten(writes))
    BY <1>1, <1>2, <1>8 DEF OpenInv
  <2>2. LeftInv'
    BY <1>2, <2>1, LeftKept
  <2>3. ASSUME NEW j \in DOMAIN writes', j < Len(writes')
        PROVE  writes'[j].done = writes'[j].size
    <3>1. j \in 1..(Len(writes) - 1) /\ j + 1 \in DOMAIN writes /\ j + 1 < Len(writes)
      BY <1>4, <2>3
    <3> QED
      BY <1>4, <2>1, <3>1
  <2>4. InProgress => InProgress'
    <3> SUFFICES ASSUME InProgress
                 PROVE  InProgress'
      OBVIOUS
    <3>1. Last(writes) = writes[Len(writes)] /\ Last(writes).done < Last(writes).size
      BY DEF InProgress, Last
    <3>2. writes[Len(writes)] \in Write
      BY <1>1, <1>4, ElementOfSeq
    <3>3. Len(writes) # 1
      BY <1>2, <1>4, <3>1, <3>2 DEF Write
    <3>4. writes' # <<>> /\ Last(writes') = Last(writes)
      BY <1>4, <3>1, <3>3, EmptySeq DEF Last
    <3>5. ReplyIsDue' /\ (Replied(Len(asked) - 1)' <=> Replied(Len(asked) - 1))
      BY <1>2 DEF InProgress, ReplyIsDue, StatusFits, BodyIsLeft, Replied
    <3> QED
      BY <1>2, <3>4, <3>5 DEF InProgress
  <2> QED
    BY <1>2, <1>3, <1>5, <1>6, <2>1, <2>2, <2>3, <2>4 DEF OpenInv
<1>9. ExchangeInv'
  BY <1>2, <1>3, <1>8, NothingRead
<1> QED
  BY <1>7, <1>9

------------------------------------------------------------------------------
(* The invariant, and what follows from it.                                *)

\* A reading handler leaves a client that waits for its reply.
LEMMA ReadWait ==
  ASSUME SafeInv, ReadHead \/ ReadBody
  PROVE  WaitInv'
<1>1. CASE ReadHead
  <2>1. PICK hd, additional : HeadTaken(hd, additional)
    BY <1>1, HeadRead
  <2>2. /\ asked # <<>> /\ Unread
    BY <2>1 DEF HeadTaken
  <2>3. ~Unread'
    BY <2>1, NothingUnread DEF Unread, HasHead, IsHead
  <2>4. ~Answered /\ AllWritten(writes)
    <3>1. Replied(Len(asked) - 1) /\ AllWritten(writes)
      BY <2>2 DEF SafeInv, ExchangeInv, StreamInv, WaitInv
    <3> QED
      BY <2>2, <3>1, Waiting
  <2>5. UNCHANGED <<clientVars, writes>>
    BY <1>1 DEF ReadHead
  <2>6. ~Answered' /\ AllWritten(writes)'
    BY <2>4, <2>5, Kept DEF AllWritten
  <2> QED
    BY <2>3, <2>6 DEF WaitInv
<1>2. CASE ReadBody
  <2>1. /\ read_op = "body" /\ UNCHANGED <<clientVars, writes>>
        /\ net' = SubSeq(net, length_option(parsed.opts) - Len(p_buffer) + 1, Len(net))
    BY <1>2 DEF ReadBody
  <2>2. asked # <<>> /\ Replied(Len(asked) - 1) /\ AllWritten(writes)
    BY <2>1 DEF SafeInv, ExchangeInv, StreamInv, WaitInv
  <2>3. ~Answered' /\ AllWritten(writes)'
    BY <2>1, <2>2, Waiting, Kept DEF AllWritten
  <2>4. net' = <<>>
    BY <1>2, BodyRead
  <2>5. ~Unread'
    BY <2>4 DEF Unread, HasHead
  <2> QED
    BY <2>3, <2>5 DEF WaitInv
<1> QED
  BY <1>1, <1>2

\* A client that has not asked anything yet, and nothing of another one left.
Fresh ==
  /\ asked = <<>> /\ got = <<>> /\ net = <<>> /\ request = <<>> /\ served = <<>>
  /\ writes = <<>> /\ read_op = "head" /\ handler = "none" /\ stats = "working"
  /\ fault = "none"

LEMMA FreshInv == Fresh => ExchangeInv /\ WaitInv
<1> SUFFICES ASSUME Fresh
             PROVE  ExchangeInv /\ WaitInv
  OBVIOUS
<1>1. /\ asked = <<>> /\ got = <<>> /\ net = <<>> /\ request = <<>> /\ served = <<>>
      /\ writes = <<>> /\ read_op = "head" /\ handler = "none" /\ stats = "working"
      /\ fault = "none"
  BY DEF Fresh
<1>2. ~Unread /\ ~HasHead(request) /\ Answered /\ AllWritten(writes)
  BY <1>1 DEF Unread, HasHead, Answered, AllWritten
<1>3. StreamInv /\ BodyInv
  BY <1>1, <1>2 DEF StreamInv, BodyInv
<1>4. ServedInv /\ GotInv
  BY <1>1 DEF ServedInv, BodyIsItsOwn, GotInv, RepliesInOrder
<1>5. OpenInv
  BY <1>1, <1>2 DEF OpenInv, LeftInv
<1>6. WaitInv
  BY <1>1, <1>2 DEF WaitInv
<1> QED
  BY <1>1, <1>3, <1>4, <1>5, <1>6 DEF ExchangeInv

LEMMA FreshNext == Fresh' => (ExchangeInv /\ WaitInv)'
  BY FreshInv, PTL

LEMMA ExchangeStep == SafeInv /\ [Next]_vars => (ExchangeInv /\ WaitInv)'
<1> SUFFICES ASSUME SafeInv, [Next]_vars
             PROVE  ExchangeInv' /\ WaitInv'
  OBVIOUS
<1>1. CASE ReadHead \/ ReadBody
  BY <1>1, ReadHeadExchange, ReadBodyExchange, ReadWait
<1>2. CASE ReadError \/ ReadAborted \/ WriteAborted \/ WriteFail \/ Expire
  BY <1>2, ShutExchange
<1>3. CASE DoWrite \/ Start \/ Rearm \/ WriteSome \/ WriteDone
  BY <1>3, DoWriteExchange, StartExchange, WriteSomeExchange, WriteDoneExchange
<1>4. CASE ClientSends
  BY <1>4, ClientSendsExchange
<1>5. CASE Recycle
  <2>1. Fresh'
    BY <1>5 DEF Recycle, request_reset, Fresh, SafeInv, ExchangeInv
  <2> QED
    BY <2>1, FreshNext
<1>6. CASE Ended \/ UNCHANGED vars
  <2>1. UNCHANGED vars
    BY <1>6 DEF Ended
  <2>2. ExchangeInv'
    BY <2>1, Kept DEF vars, SafeInv, ExchangeInv, StreamInv, HasHead, IsHead, piece, Unread,
      BodyInv, BodyOf, Run, ServedInv, BodyIsItsOwn, bytes, OpenInv, AllWritten, ReplyIsDue,
      InProgress, LeftInv
  <2>3. WaitInv'
    BY <2>1, Kept DEF vars, SafeInv, WaitInv, AllWritten, Unread, HasHead, IsHead
  <2> QED
    BY <2>2, <2>3
<1> QED
  BY <1>1, <1>2, <1>3, <1>4, <1>5, <1>6 DEF Next, HandlerStep

\* The invariant, for every number of clients and requests and every length.
THEOREM ExchangeInvariance == Spec => []SafeInv
<1>1. Init => SafeInv
  <2>1. Init => Fresh
    BY DEF Init, Fresh
  <2> QED
    BY <2>1, FrontInit, FreshInv DEF SafeInv
<1>2. SafeInv /\ [Next]_vars => SafeInv'
  BY ReplyStep, BytesStep, ExchangeStep DEF SafeInv, FrontInv
<1> QED
  BY <1>1, <1>2, PTL DEF Spec

\* The replies come whole, one per request and in the order of the requests, each with a
\* status its own request may get, whatever the cuts into reads, the order of the handlers
\* and the shutdowns between them (front_conn.cpp:131-322).
THEOREM RepliesAreInOrder == Spec => []RepliesInOrder
<1>1. SafeInv => RepliesInOrder
  BY DEF SafeInv, ExchangeInv, GotInv
<1> QED
  BY ExchangeInvariance, <1>1, PTL

\* analyse_handler gets exactly the body of its request (front_conn.cpp:166-188, 371).
THEOREM BodiesAreTheirOwn == Spec => []BodyIsItsOwn
<1>1. SafeInv => BodyIsItsOwn
  BY DEF SafeInv, ExchangeInv, ServedInv
<1> QED
  BY ExchangeInvariance, <1>1, PTL

\* No assertion of read_head_handler or do_write fails for clients that wait for their
\* reply (front_conn.cpp:117-118, 156).
THEOREM NoAssertionFails == Spec => []AssertionsHold
<1>1. SafeInv => AssertionsHold
  BY DEF SafeInv, ExchangeInv, AssertionsHold
<1> QED
  BY ExchangeInvariance, <1>1, PTL

\* Server and client never wait for each other: a client that has not had its reply has a
\* read that can complete, a handler that is due or a write that goes on
\* (front_conn.cpp:184-188, reply.hpp:50-51).
THEOREM NobodyWaitsForTheOther == Spec => []NoMutualWait
<1>1. ASSUME SafeInv, stats = "working", sock = "open", handler = "none", writes = <<>>,
             ~ReadCompletes
      PROVE  Answered
  <2>1. OpenInv /\ BodyInv
    BY <1>1 DEF SafeInv, ExchangeInv
  <2>2. /\ net \in Seq(Byte) /\ request \in Seq(Byte) /\ p_buffer \in Seq(Byte)
        /\ Len(net) \in Nat /\ Len(request) \in Nat /\ Len(p_buffer) \in Nat
        /\ read_op \in {"none", "head", "body", "aborted"}
    BY <1>1 DEF SafeInv, FrontInv, BytesInv
  <2>3. read_op \in {"head", "body"}
    BY <1>1, <2>1, <2>2 DEF OpenInv
  <2>4. read_op # "body"
    <3> SUFFICES ASSUME read_op = "body"
                 PROVE  Len(p_buffer \o net) >= length_option(parsed.opts)
      BY <1>1 DEF ReadCompletes
    <3>1. length_option(parsed.opts) = Len(p_buffer) + Len(net)
      BY <2>1 DEF BodyInv, BodyOf
    <3>2. Len(p_buffer \o net) = Len(p_buffer) + Len(net)
      BY <2>2, ConcatProperties
    <3> QED
      BY <2>2, <3>1, <3>2
  <2>5. ~Unread
    <3> SUFFICES ASSUME NEW b \in DOMAIN net, IsHead(net[b])
                 PROVE  HasHead(request \o net)
      BY <1>1, <2>3, <2>4 DEF ReadCompletes, Unread, HasHead
    <3> DEFINE both == request \o net
    <3>1. /\ both \in Seq(Byte) /\ Len(both) = Len(request) + Len(net)
          /\ \A j \in 1..(Len(request) + Len(net)) :
               both[j] = IF j <= Len(request) THEN request[j] ELSE net[j - Len(request)]
      BY <2>2, ConcatProperties
    <3> HIDE DEF both
    <3> DEFINE j == Len(request) + b
    <3>2. j \in 1..(Len(request) + Len(net)) /\ ~(j <= Len(request)) /\ j - Len(request) = b
      BY <2>2, LenProperties
    <3> HIDE DEF j
    <3>3. both[j] = net[b] /\ j \in DOMAIN both
      BY <3>1, <3>2, LenProperties
    <3>4. HasHead(both)
      BY <3>3 DEF HasHead
    <3> QED
      BY <3>4 DEF both
  <2>6. ~InProgress
    BY <1>1 DEF InProgress
  <2> QED
    BY <1>1, <2>1, <2>4, <2>5, <2>6 DEF OpenInv
<1>2. SafeInv => NoMutualWait
  BY <1>1 DEF NoMutualWait
<1> QED
  BY ExchangeInvariance, <1>2, PTL
==============================================================================
