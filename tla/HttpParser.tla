------------------------------ MODULE HttpParser ------------------------------
(***************************************************************************)
(* http_parser (http_parser.cpp:11-73, http_parser.hpp): header_opts_, the *)
(* options of the request that was parsed last, as FrontConn uses it.      *)
(*                                                                         *)
(* A head is a record of its lines and of nul, whether a 0 byte stands in  *)
(* it.  A line is a "field" with ':', a "request" line that the regular    *)
(* expression accepts, or "other", which is skipped.  A name is a word and *)
(* its spelling, numbered in the order of std::map: two names of one word  *)
(* are equal to boost::iequals and different keys.  A uri is a path and    *)
(* the number of '/' after it.                                             *)
(***************************************************************************)
EXTENDS Naturals, Sequences, SequencesExt

\* http_proto::header_options, as far as front_conn asks for them.
request_method == [word |-> "request_method_", spelling |-> 2]
request_uri == [word |-> "request_uri_", spelling |-> 2]
content_length == [word |-> "content-length", spelling |-> 1]

NoOptions == [name \in {} |-> ""]

\* What one line gives.
given(line) ==
  CASE line.what = "field" -> [n \in {line.name} |-> line.value]
    [] line.what = "request" ->
         [n \in {request_method, request_uri} |->
            IF n = request_method THEN line.method ELSE line.uri.path]
    [] line.what = "other" -> NoOptions

\* std::map::insert keeps the value that is there: the first line that gives a name.
insert(opts, lines) ==
  LET named(n) == {j \in DOMAIN lines : n \in DOMAIN given(lines[j])}
      first(n) == CHOOSE j \in named(n) : \A k \in named(n) : j <= k
  IN [n \in DOMAIN opts \cup UNION {DOMAIN given(lines[j]) : j \in DOMAIN lines} |->
        IF n \in DOMAIN opts THEN opts[n] ELSE given(lines[first(n)])[n]]

\* parse_request gets a C string, which ends at a 0 byte: the blank line is then not
\* found, and it returns false.
parse_fails(head) == head.nul

\* Mutant: without clear() the options of the last request are found first.
parse_request_Kept(opts, head) == insert(opts, head.lines)

\* What parse_request makes of header_opts_ when it returns true.
parse_request(opts, head) == insert(NoOptions, head.lines)

\* The first name in the map's order that is the one asked for, but for its case.
request_option(opts, name, none) ==
  LET found == {n \in DOMAIN opts : n.word = name.word}
  IN IF found = {} THEN none
     ELSE opts[CHOOSE n \in found : \A o \in found : n.spelling <= o.spelling]

\* ::atoi of Content-Length is 0 for what is no number.
length_option(opts) ==
  LET value == request_option(opts, content_length, 0)
  IN IF value \in Nat THEN value ELSE 0
==============================================================================
